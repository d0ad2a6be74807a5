------------------------------ MODULE RequestGate ------------------------------
(***************************************************************************)
(* The gate in front of /v1: authentication and scopes (api/auth.py) and   *)
(* the rate limiter (api/ratelimit.py), as the dependency require() runs   *)
(* them for every request, in several API processes that share a Redis.    *)
(*                                                                         *)
(* A request reads the clock, chooses a backend and only then counts, so   *)
(* the clock, the backend and the other requests of its process move in    *)
(* between.  The Redis may refuse, or count and then fail to answer.  A    *)
(* process that once failed to connect counts by itself from then on.      *)
(*                                                                         *)
(* The clock counts half seconds, since Retry-After is cut to whole ones.  *)
(***************************************************************************)
EXTENDS Naturals, FiniteSets

CONSTANTS
    Tasks, NoTask,   \* the API processes ever started
    Requests,        \* the requests ever made
    Credentials,     \* what clients present: see Credential
    Routes,          \* the scopes a route demands, each a set
    SettingsChoices, \* the configurations a deployment may have
    default_org_id,
    limit, window,   \* rate_limit_ask, _index and _read, and their seconds
    purge_limit,     \* local counters kept before a purge; 10 000 in the code
    MaxClock,        \* bound: half seconds the clock runs
    MaxDelay         \* bound: half seconds between reading the clock and
                     \* counting; socket_timeout and socket_connect_timeout

Scope == {"ask", "index", "read", "metrics"}
Limited == {"ask", "index", "read"}

\* A bearer header: none, an API key, or something with three segments, a
\* token.  Of a key only the secret is presented; org and scopes are those of
\* its entry in the configured table, or of the claims of the token.  fault is
\* what is wrong with the entry or the token.
Credential == [kind : {"none", "key", "token"}, key_id : STRING, org : STRING,
               scopes : SUBSET Scope, secret : STRING, exp : Nat,
               fault : {"none", "malformed", "kid", "claims", "org", "bad_scope"}]

\* The part of Settings that is read here.  keys are the entries of
\* AUTH_API_KEYS; pinned says that issuer and audience are set.
Settings == [app_env : {"development", "production"},
             auth_enabled : {"unset", "on", "off"},
             keys : SUBSET Credential, jwks : BOOLEAN, pinned : BOOLEAN,
             enforce_tenancy : BOOLEAN, rate_limit_enabled : BOOLEAN,
             rate_limit_use_redis : BOOLEAN]

ASSUME GateAssumption ==
    /\ IsFiniteSet(Requests)
    /\ Routes # {} /\ Routes \subseteq SUBSET Scope
    /\ Credentials # {} /\ Credentials \subseteq Credential
    /\ SettingsChoices \subseteq Settings
    /\ limit \in [Limited -> Nat] /\ window \in [Limited -> Nat \ {0}]
    /\ purge_limit \in Nat /\ MaxClock \in Nat /\ MaxDelay \in Nat
    \* A call to Redis ends long before a window does.
    /\ \A s \in Limited : MaxDelay < 2 * window[s]

VARIABLES
    settings,    \* the configuration, the same in every process
    clock,       \* half seconds
    redis,       \* redis[b]: count and expiry of the buckets it holds
    task,        \* task[t]: a process and its module globals
    req          \* req[r]: a request

vars == <<settings, clock, redis, task, req>>

-----------------------------------------------------------------------------
(* Limits *)

\* _limits_for: the scope with the fewest requests per second among those
\* demanded; a route that demands none with a limit is limited as read.
LimitedBy(needed) ==
    LET of == IF needed \cap Limited = {} THEN {"read"} ELSE needed \cap Limited
    IN  CHOOSE s \in of :
          \A other \in of : limit[s] * window[other] <= limit[other] * window[s]

\* check: the key of the counter.  Buckets with these limits and lengths.
Bucket(key_id, needed, now) ==
    [key_id |-> key_id, needed |-> needed,
     number |-> now \div (2 * window[LimitedBy(needed)])]

KeyIds == {e.key_id : e \in UNION {s.keys : s \in SettingsChoices}}
            \cup {"jwt", "anonymous"}
Buckets == [key_id : KeyIds, needed : Routes, number : 0..MaxClock]
Limit(b) == limit[LimitedBy(b.needed)]
Length(b) == 2 * window[LimitedBy(b.needed)]

\* retry_after = max(1, int(reset_at - now)), in seconds.
\* Mutants: the start of the window instead of its end; not in seconds.
RetryAfter_Start(b, now) ==
    LET s == (now - b.number * Length(b)) \div 2 IN IF s < 1 THEN 1 ELSE s
RetryAfter_Ticks(b, now) == (b.number + 1) * Length(b) - now
RetryAfter(b, now) ==
    LET s == ((b.number + 1) * Length(b) - now) \div 2 IN IF s < 1 THEN 1 ELSE s

-----------------------------------------------------------------------------
(* Processes *)

\* Settings.auth_required: an unset AUTH_ENABLED means on outside development.
\* Mutant: unset means off.
auth_required_Unset(s) == s.auth_enabled = "on"
auth_required(s) ==
    IF s.auth_enabled = "unset" THEN s.app_env # "development"
    ELSE s.auth_enabled = "on"

\* parse_api_keys accepts the setting: every entry has its four fields and
\* grants known scopes, and no secret is given twice.  _key_table looks up the
\* entries of a secret: one, or none.
parse_api_keys(keys) ==
    /\ \A e \in keys : e.fault = "none" /\ e.scopes # {}
    /\ \A e, f \in keys : e.secret = f.secret => e = f
_key_table(keys, secret) == {e \in keys : e.secret = secret}

\* verify_auth_configuration, called by the lifespan before a process serves:
\* the configurations it accepts.
verify_auth_configuration(s) ==
    \/ ~auth_required(s)
    \/ /\ parse_api_keys(s.keys)
       /\ s.jwks => s.pinned
       /\ s.keys # {} \/ s.jwks \/ s.app_env = "development"

NoCounts == [b \in {} |-> 0]
Start(t) ==
    /\ task[t].pc = "off"
    /\ task' = [task EXCEPT ![t].pc =
                  IF verify_auth_configuration(settings) THEN "up" ELSE "crashed"]
    /\ UNCHANGED <<settings, clock, redis, req>>

-----------------------------------------------------------------------------
(* Requests *)

\* The organisations a request may act for.
Orgs == {c.org : c \in Credentials \cup UNION {s.keys : s \in SettingsChoices}}
          \cup {default_org_id, ""}

\* A request: bucket and at are its locals in check, counted is when and by is
\* where it was counted ("nobody": the count failed, or the limiter is off), the
\* rest is what its caller receives.
Statuses == {"none", "ok", "401", "403", "429", "500", "503"}
NoBucket == [key_id |-> "", needed |-> {}, number |-> 0]
Request == [pc : {"new", "ping", "redis", "local", "done"},
            task : Tasks \cup {NoTask}, cred : Credentials, needed : Routes,
            org : Orgs, bucket : Buckets \cup {NoBucket}, at : 0..MaxClock,
            counted : 0..MaxClock, status : Statuses,
            by : {"nobody", "redis", "local"},
            retry_after : UNION {0..window[s] : s \in Limited}]

Reply(r, status) == [req[r] EXCEPT !.pc = "done", !.status = status]

\* _redis, up to the ping: the backend of this process as it is now.
Backend(t) ==
    IF task[t].failed \/ ~(task[t].client \/ settings.rate_limit_use_redis)
    THEN "local" ELSE IF task[t].client THEN "redis" ELSE "ping"

\* The limiter: off, or the bucket is named by the clock read now.
Check(r, c, p, t, needed) ==
    LET in == [req[r] EXCEPT !.task = t, !.cred = c, !.needed = needed,
                             !.org = p.org]
    IN  \/ /\ ~settings.rate_limit_enabled
           /\ req' = [req EXCEPT ![r] = [in EXCEPT !.pc = "done", !.status = "ok"]]
           /\ UNCHANGED task
        \/ /\ settings.rate_limit_enabled
           /\ req' = [req EXCEPT ![r] =
                [in EXCEPT !.pc = Backend(t), !.at = clock,
                           !.bucket = Bucket(p.key_id, needed, clock)]]
           /\ task' = [task EXCEPT ![t].failed =
                         @ \/ ~(task[t].client \/ settings.rate_limit_use_redis)]

Reject(r, status) == req' = [req EXCEPT ![r] = Reply(r, status)] /\ UNCHANGED task

\* require: the scopes first, so that a forbidden request is not counted.
Authorise(r, c, p, t, needed) ==
    \/ ~(needed \subseteq p.scopes) /\ Reject(r, "403")
    \/ needed \subseteq p.scopes /\ Check(r, c, p, t, needed)

\* The principal of a credential; every token has the key_id "jwt".  Without
\* tenancy the organisation is the default one.
Principal(c) ==
    [key_id |-> IF c.kind = "token" THEN "jwt" ELSE c.key_id,
     scopes |-> c.scopes,
     org |-> IF settings.enforce_tenancy THEN c.org ELSE default_org_id]

\* tenant: with authentication off, the organisation is the one the client
\* names in a header (that of its credential here) or the default one.
Anonymous(c) ==
    [key_id |-> "anonymous", scopes |-> Scope,
     org |-> IF settings.enforce_tenancy /\ c.org # "" THEN c.org
             ELSE default_org_id]

\* _authenticate_jwt, at the cases of Denied: the provider is out of reach and
\* its key not cached; the key, the signature or a claim is wrong; the token has
\* expired, names no organisation or no scope; a scope that is not one raises a
\* ValueError nobody catches.
Denied(c) ==
    {"503"} \cup (IF \/ c.fault \in {"kid", "claims", "org"} \/ c.exp <= clock
                     \/ c.scopes = {}
                  THEN {"401"} ELSE {})
            \cup (IF c.fault = "bad_scope" /\ clock < c.exp THEN {"500"} ELSE {})
AuthenticateJwt(r, c, t, needed) ==
    \/ \E status \in Denied(c) : Reject(r, status)
    \/ /\ c.fault = "none" /\ c.scopes # {} /\ clock < c.exp
       /\ Authorise(r, c, Principal(c), t, needed)

\* A request arrives: authenticate and the dependency of require, up to the
\* limiter's choice of a backend.  A key is looked up in the table; so is a
\* token when no provider is configured, and is not there.
Arrive(r, t, c, needed) ==
    /\ req[r].pc = "new" /\ task[t].pc = "up"
    /\ \/ ~auth_required(settings) /\ Authorise(r, c, Anonymous(c), t, needed)
       \/ /\ auth_required(settings)
          /\ \/ c.kind = "none" /\ Reject(r, "401")
             \/ /\ c.kind = "token" /\ settings.jwks
                /\ AuthenticateJwt(r, c, t, needed)
             \/ /\ c.kind = "key" \/ (c.kind = "token" /\ ~settings.jwks)
                /\ \/ \E e \in _key_table(settings.keys, c.secret) :
                        Authorise(r, c, Principal(e), t, needed)
                   \/ /\ _key_table(settings.keys, c.secret) = {}
                      /\ Reject(r, "401")
    /\ UNCHANGED <<settings, clock, redis>>

\* _redis: the ping of the first requests of a process.  Whatever it meets is
\* kept for as long as the process lives, and a failure wins over a client.
Ping(r) ==
    LET t == req[r].task IN
    /\ req[r].pc = "ping"
    /\ \/ /\ task' = [task EXCEPT ![t].client = TRUE]
          /\ req' = [req EXCEPT ![r].pc = "redis"]
       \/ /\ task' = [task EXCEPT ![t].failed = TRUE]
          /\ req' = [req EXCEPT ![r].pc = "local"]
    /\ UNCHANGED <<settings, clock, redis>>

\* check, after the count: let through up to the limit, else 429.
\* Mutant: the last request of the limit is refused.
Decision_Strict(r, count, by) ==
    LET b == req[r].bucket
        ok == count < Limit(b)
    IN  [Reply(r, IF ok THEN "ok" ELSE "429")
           EXCEPT !.by = by, !.counted = clock,
                  !.retry_after = IF ok THEN 0 ELSE RetryAfter(b, req[r].at)]
Decision(r, count, by) ==
    LET b == req[r].bucket
        ok == count <= Limit(b)
    IN  [Reply(r, IF ok THEN "ok" ELSE "429")
           EXCEPT !.by = by, !.counted = clock,
                  !.retry_after = IF ok THEN 0 ELSE RetryAfter(b, req[r].at)]

Counted(counts, b) == IF b \in DOMAIN counts THEN counts[b] + 1 ELSE 1
With(counts, b, v) == [x \in DOMAIN counts \cup {b} |-> IF x = b THEN v ELSE counts[x]]
Restricted(counts, S) == [x \in DOMAIN counts \cap S |-> counts[x]]

\* The pipeline INCR, EXPIRE: every count starts the life of its key again.
\* Mutant: a second short.
Incr_Short(b) ==
    [count |-> IF b \in DOMAIN redis THEN redis[b].count + 1 ELSE 1,
     expires |-> clock + Length(b) - 2]
Incr(b) ==
    [count |-> IF b \in DOMAIN redis THEN redis[b].count + 1 ELSE 1,
     expires |-> clock + Length(b)]

\* check on Redis.  An error, before or after the server has counted, lets the
\* request through.
RedisCount(r) ==
    LET b == req[r].bucket IN
    /\ req[r].pc = "redis"
    /\ \/ /\ redis' = With(redis, b, Incr(b))
          /\ req' = [req EXCEPT ![r] = Decision(r, Incr(b).count, "redis")]
       \/ /\ redis' \in {redis, With(redis, b, Incr(b))}
          /\ req' = [req EXCEPT ![r] = [Reply(r, "ok") EXCEPT !.counted = clock]]
    /\ UNCHANGED <<settings, clock, task>>

\* _LocalWindows.incr: what a purge leaves, measured by the window of the
\* request that sets it off.
\* Mutant: what started before now goes.
Kept_Now(counts, r) ==
    IF Cardinality(DOMAIN counts) <= purge_limit THEN counts
    ELSE Restricted(counts, {b \in Buckets : b.number * Length(b) >= req[r].at})
Kept(counts, r) ==
    IF Cardinality(DOMAIN counts) <= purge_limit THEN counts
    ELSE Restricted(counts, {b \in Buckets :
           b.number * Length(b) + Length(req[r].bucket) >= req[r].at})

\* check on the counters of the process, in one step under their lock.
LocalCount(r) ==
    LET t == req[r].task
        b == req[r].bucket
        count == Counted(task[t].counts, b)
    IN  /\ req[r].pc = "local"
        /\ task' = [task EXCEPT ![t].counts = Kept(With(@, b, count), r)]
        /\ req' = [req EXCEPT ![r] = Decision(r, count, "local")]
        /\ UNCHANGED <<settings, clock, redis>>

-----------------------------------------------------------------------------
(* The environment *)

\* Time passes; no request waits longer than MaxDelay for its count, and
\* Redis forgets the keys whose life is over.
Tick ==
    /\ clock < MaxClock
    /\ \A r \in Requests : req[r].pc \in {"ping", "redis", "local"} =>
                              clock + 1 <= req[r].at + MaxDelay
    /\ clock' = clock + 1
    /\ redis' = Restricted(redis, {b \in DOMAIN redis : redis[b].expires > clock + 1})
    /\ UNCHANGED <<settings, task, req>>

-----------------------------------------------------------------------------
NewTask == [pc |-> "off", client |-> FALSE, failed |-> FALSE, counts |-> NoCounts]
NewRequest == [pc |-> "new", task |-> NoTask,
               cred |-> CHOOSE c \in Credentials : TRUE,
               needed |-> CHOOSE s \in Routes : TRUE, org |-> "",
               bucket |-> NoBucket, at |-> 0, counted |-> 0, status |-> "none",
               by |-> "nobody", retry_after |-> 0]

Init ==
    /\ settings \in SettingsChoices
    /\ clock = 0 /\ redis = NoCounts
    /\ task = [t \in Tasks |-> NewTask]
    /\ req = [r \in Requests |-> NewRequest]

Count(r) == Ping(r) \/ RedisCount(r) \/ LocalCount(r)

Next ==
    \/ \E t \in Tasks : Start(t)
    \/ \E r \in Requests, t \in Tasks, c \in Credentials, needed \in Routes :
         Arrive(r, t, c, needed)
    \/ \E r \in Requests : Count(r)
    \/ Tick

Spec == Init /\ [][Next]_vars

-----------------------------------------------------------------------------
(* Properties *)

\* The types of the settings, the processes, the requests and the counters,
\* among them that Retry-After never exceeds the longest window (Decision,
\* ratelimit.py:52-59).
TypeOK ==
    /\ settings \in SettingsChoices
    /\ clock \in 0..MaxClock
    /\ DOMAIN redis \subseteq Buckets
    /\ \A b \in DOMAIN redis : redis[b].count \in Nat /\ redis[b].expires \in Nat
    /\ DOMAIN task = Tasks
    /\ \A t \in Tasks : /\ task[t].pc \in {"off", "up", "crashed"}
                        /\ task[t].client \in BOOLEAN /\ task[t].failed \in BOOLEAN
                        /\ DOMAIN task[t].counts \subseteq Buckets
                        /\ \A b \in DOMAIN task[t].counts : task[t].counts[b] \in Nat
    /\ req \in [Requests -> Request]

\* Request r was let through on a count of that backend, made before its window
\* was over.  A count that was under way when the window ended can meet a key
\* that has expired, and starts again at one.
Passed(r, by) ==
    /\ req[r].status = "ok" /\ req[r].by = by
    /\ req[r].counted < (req[r].bucket.number + 1) * Length(req[r].bucket)

Promise == INSTANCE Quota
             WITH None <- NoBucket,
                  admitted <- [r \in Requests |->
                    IF Passed(r, "redis") THEN req[r].bucket ELSE NoBucket]

\* The limiter implements Quota for the requests Redis counts: however many
\* processes share it, whatever they read of the clock and when they count, and
\* whatever it forgets meanwhile, a window of a credential never lets more than
\* the limit through ("in-process counters would give each task its own limit",
\* ratelimit.py:20-22).
QuotaKept == Promise!Spec

\* The fallback holds the limit of the shortest windows in each process,
\* although any other request may set off a purge of the counters measured by
\* its own window (_LocalWindows.incr).
LocalMinuteLimit ==
    \A t \in Tasks, b \in {req[r].bucket : r \in Requests} \ {NoBucket} :
      (\A s \in Limited : Length(b) <= 2 * window[s]) =>
        Cardinality({r \in Requests : /\ Passed(r, "local") /\ req[r].task = t
                                      /\ req[r].bucket = b}) <= Limit(b)

\* A client that is told to slow down has used its window up: when a request
\* gets 429, the limit's number of requests of its credential and scopes were
\* let through in the same window, by the same backend or uncounted on an
\* error.  Requests the gate refuses use nothing up (require, auth.py:371-374).
NoEarlyRefusal ==
    \A r \in Requests : req[r].status = "429" =>
      Cardinality({o \in Requests :
        /\ req[o].status = "ok" /\ req[o].bucket = req[r].bucket
        /\ IF req[r].by = "redis" THEN req[o].by # "local"
           ELSE req[o].by = "local" /\ req[o].task = req[r].task})
      >= Limit(req[r].bucket)

\* A client that waits for its Retry-After returns within a second of the start
\* of the next window: cutting to whole seconds sends it back less than one
\* early, at least one second less than one late, and no drift between reading
\* the clock and counting adds to it (check, ratelimit.py:185).
RetryReachesNextWindow ==
    \A r \in Requests : req[r].status = "429" =>
      LET next == (req[r].bucket.number + 1) * Length(req[r].bucket)
          back == req[r].at + 2 * req[r].retry_after
      IN  next < back + 2 /\ back < next + 2

\* No request is served that cannot be attributed ("an API that bills per call
\* must not serve traffic it cannot attribute", auth.py:400-401): it has
\* exactly one holder, the entry of its key or its own sound token, which has
\* the scopes of the route, and it acts for the holder's organisation; unless
\* authentication was turned off on purpose or the environment is development.
ServedIsAttributable ==
    \A r \in Requests : req[r].status = "ok" =>
      \/ settings.auth_enabled = "off"
      \/ settings.auth_enabled = "unset" /\ settings.app_env = "development"
      \/ LET c == req[r].cred
             holder == IF c.kind = "token" /\ settings.jwks
                       THEN {c} ELSE {e \in settings.keys : e.secret = c.secret}
         IN  /\ Cardinality(holder) = 1
             /\ \A h \in holder :
                  /\ h.fault = "none" /\ req[r].needed \subseteq h.scopes
                  /\ req[r].org = IF settings.enforce_tenancy THEN h.org
                                  ELSE default_org_id
=============================================================================
