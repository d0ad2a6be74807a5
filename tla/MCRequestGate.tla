----------------------------- MODULE MCRequestGate -----------------------------
(***************************************************************************)
(* A small instance of RequestGate: windows of one and two seconds in the  *)
(* place of a minute and an hour.                                          *)
(***************************************************************************)
EXTENDS RequestGate, TLC

Cred(kind, key_id, org, scopes, exp, fault) ==
    [kind |-> kind, key_id |-> key_id, org |-> org, scopes |-> scopes,
     secret |-> kind, exp |-> exp, fault |-> fault]

Key == Cred("key", "k1", "acme", {"ask", "index"}, 0, "none")
SameSecret == Cred("key", "k2", "zeta", {"ask"}, 0, "none")
NoKey == Cred("none", "", "", {}, 0, "none")
Token(fault) == Cred("token", "", "zeta", {"ask"}, 3, fault)

MCCredentials == {Key, NoKey, Token("none"), Token("kid"), Token("org"),
                  Token("bad_scope")}
MCRoutes == {{"ask"}, {"index"}}
MClimit == [ask |-> 1, index |-> 1, read |-> 2]
MCwindow == [ask |-> 1, index |-> 2, read |-> 1]

Deployment(env, enabled, keys, jwks, tenancy, redis_on) ==
    [app_env |-> env, auth_enabled |-> enabled,
     keys |-> keys, jwks |-> jwks, pinned |-> jwks, enforce_tenancy |-> tenancy,
     rate_limit_enabled |-> TRUE, rate_limit_use_redis |-> redis_on]

MCSettings ==
    {Deployment("production", "unset", {Key}, TRUE, TRUE, TRUE),
     Deployment("production", "on", {Key}, FALSE, FALSE, FALSE),
     Deployment("production", "unset", {}, FALSE, TRUE, TRUE),
     Deployment("production", "on", {Key, SameSecret}, FALSE, TRUE, TRUE),
     [Deployment("development", "unset", {}, FALSE, TRUE, TRUE)
        EXCEPT !.rate_limit_enabled = FALSE]}

Interchangeable == Permutations(Requests) \cup Permutations(Tasks)
=============================================================================
