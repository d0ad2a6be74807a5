--------------------------------- MODULE Quota ---------------------------------
(***************************************************************************)
(* What the rate limiter promises: in each bucket, a credential, a set of  *)
(* scopes and a window, at most a fixed number of requests are let         *)
(* through.  How requests are counted, where and by which process, is not  *)
(* visible here.                                                           *)
(***************************************************************************)
EXTENDS Naturals, FiniteSets

CONSTANTS
    Requests,
    Buckets, None,
    Limit(_)     \* Limit(b): the requests bucket b has room for

VARIABLE
    admitted     \* admitted[r]: the bucket request r was let through in

Admit(r) ==
    LET b == admitted'[r] IN
    /\ admitted[r] = None /\ b \in Buckets
    /\ Cardinality({o \in Requests : admitted[o] = b}) < Limit(b)
    /\ admitted' = [admitted EXCEPT ![r] = b]

Init == admitted = [r \in Requests |-> None]
Next == \E r \in Requests : Admit(r)
Spec == Init /\ [][Next]_admitted
=============================================================================
