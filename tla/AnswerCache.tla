------------------------------ MODULE AnswerCache ------------------------------
(***************************************************************************)
(* The single-pass agent of agent/graph.py behind its answer cache         *)
(* (cache/semantic_cache.py), and the invalidation of that cache by        *)
(* index_corpus (pipeline/index.py).                                       *)
(*                                                                         *)
(* Asks and index runs are processes that share Redis and the store.       *)
(* Every Redis command is a step of its own: storing an answer takes four  *)
(* (three keys and a set of ids), an invalidation takes two.  A key may    *)
(* have expired whenever it is read, and any process may fail or be killed *)
(* between two steps.  An answer is known by the ask that computed it.     *)
(***************************************************************************)
EXTENDS Naturals, FiniteSets

CONSTANTS
    Asks,                    \* the questions asked, each of them once
    IndexRuns,               \* the runs of index_corpus
    NoAsk,                   \* no answer
    Queries,                 \* normalised query and service line
    Similar,                 \* pairs of distinct queries above the threshold
    cache_semantic_max_scan

ASSUME AsksAssumption ==
    /\ NoAsk \notin Asks
    /\ IsFiniteSet(IndexRuns)
    /\ Similar \subseteq Queries \X Queries
    /\ cache_semantic_max_scan \in Nat

VARIABLES
    ask,       \* ask[a]: an ask, see AskState
    index,     \* index[i]: where index run i stands
    version,   \* finrag:corpus_version; 0 is also the absent key
    exact,     \* exact[k]: whose answer is under finrag:exact:k
    vec,       \* the ids with a finrag:sem:<id>:vec
    payload,   \* payload[k]: whose answer is under finrag:sem:k:payload
    ids,       \* finrag:sem:ids
    raced      \* history: the runs that published while an ask was storing

redis == <<version, exact, vec, payload, ids>>
vars == <<ask, index, version, exact, vec, payload, ids, raced>>

\* _hash_key: query, service line and version.  Every bump is one version.
Versions == 0..Cardinality(IndexRuns)
Ids == Queries \X Versions
_hash_key(q, v) == <<q, v>>

\* The cosine of two queries: equal, at the threshold or above, or below it.
Score(q, r) == IF q = r THEN 2 ELSE IF <<q, r>> \in Similar THEN 1 ELSE 0

AskState == [
    pc : {"idle", "version", "exact", "members", "scan", "payload",
          "input_guardrails", "retrieve", "answer", "set_version", "set_exact",
          "set_vec", "set_payload", "sadd", "done", "failed"},
    enabled : BOOLEAN,          \* this process reached Redis when it started
    q : Queries,                \* what is asked
    version : Versions,         \* the version last read
    members : SUBSET Ids,       \* the ids still to be scanned
    best : SUBSET Ids,          \* the best one so far, if any
    layer : {"none", "exact", "semantic"},
    hit : Asks \cup {NoAsk},    \* whose answer was returned from the cache
    refused : BOOLEAN,
    seen : SUBSET IndexRuns,    \* history: runs published when it retrieved
    after : SUBSET IndexRuns]   \* history: runs completed when it began

Over(a) == ask[a].pc \in {"done", "failed"}
Published == {i \in IndexRuns : index[i] # "idle"}
Goto(a, pc) == ask' = [ask EXCEPT ![a].pc = pc]
\* The ask ends with what is in s; its locals are gone.
End(a, pc, s) ==
    ask' = [ask EXCEPT ![a] = [s EXCEPT !.pc = pc, !.enabled = FALSE,
                !.version = 0, !.members = {}, !.best = {}]]
Id(a) == _hash_key(ask[a].q, ask[a].version)

-----------------------------------------------------------------------------
(* SemanticCache.get *)

\* An ask begins, in a process that has Redis or has not.
Ask(a, q) ==
    /\ ask[a].pc = "idle"
    /\ \E enabled \in BOOLEAN :
         ask' = [ask EXCEPT ![a].q = q, ![a].enabled = enabled,
                    ![a].after = {i \in IndexRuns : index[i] = "done"},
                    ![a].pc = IF enabled THEN "version" ELSE "input_guardrails"]
    /\ UNCHANGED <<index, redis, raced>>

\* corpus_version, then _hash_key.
GetVersion(a) ==
    /\ ask[a].pc = "version"
    /\ ask' = [ask EXCEPT ![a].version = version, ![a].pc = "exact"]
    /\ UNCHANGED <<index, redis, raced>>

\* The answer of b is returned to a.
Return(a, b, layer) == End(a, "done", [ask[a] EXCEPT !.hit = b, !.layer = layer])

GetExact(a) ==
    /\ ask[a].pc = "exact"
    /\ \/ exact[Id(a)] # NoAsk /\ Return(a, exact[Id(a)], "exact")
       \/ Goto(a, "members")
    /\ UNCHANGED <<index, redis, raced>>

\* SMEMBERS, in no order, cut to cache_semantic_max_scan.
GetMembers(a) ==
    /\ ask[a].pc = "members"
    /\ \E s \in SUBSET ids :
         /\ Cardinality(s) <= cache_semantic_max_scan
         /\ s = ids \/ Cardinality(s) = cache_semantic_max_scan
         /\ ask' = [ask EXCEPT ![a].members = s, ![a].best = {}, ![a].pc = "scan"]
    /\ UNCHANGED <<index, redis, raced>>

\* One vector is read; the best one that is there is kept.
GetVec(a, k) ==
    /\ ask[a].pc = "scan" /\ k \in ask[a].members
    /\ LET better == \A b \in ask[a].best : Score(ask[a].q, k[1]) > Score(ask[a].q, b[1])
       IN \E best \in {ask[a].best} \cup (IF k \in vec /\ better THEN {{k}} ELSE {}) :
            ask' = [ask EXCEPT ![a].members = @ \ {k}, ![a].best = best]
    /\ UNCHANGED <<index, redis, raced>>

\* The scan is over: the best one counts when it reaches the threshold.
Scanned(a) ==
    /\ ask[a].pc = "scan" /\ ask[a].members = {}
    /\ Goto(a, IF \E k \in ask[a].best : Score(ask[a].q, k[1]) > 0
               THEN "payload" ELSE "input_guardrails")
    /\ UNCHANGED <<index, redis, raced>>

GetPayload(a) ==
    /\ ask[a].pc = "payload"
    /\ \/ \E k \in ask[a].best : payload[k] # NoAsk /\ Return(a, payload[k], "semantic")
       \/ Goto(a, "input_guardrails")
    /\ UNCHANGED <<index, redis, raced>>

-----------------------------------------------------------------------------
(* The graph *)

\* The input is refused, which ends the run, or goes on to retrieval.
InputGuardrails(a) ==
    /\ ask[a].pc = "input_guardrails"
    /\ \/ Goto(a, "retrieve")
       \/ ask' = [ask EXCEPT ![a].refused = TRUE, ![a].pc = "set_version"]
    /\ UNCHANGED <<index, redis, raced>>

\* rewrite_query falls back to the query and never fails; retrieve reads the
\* store.
Retrieve(a) ==
    /\ ask[a].pc = "retrieve"
    /\ ask' = [ask EXCEPT ![a].seen = Published, ![a].pc = "answer"]
    /\ UNCHANGED <<index, redis, raced>>

\* check_answerability, generate and output_guardrails: each of them may refuse,
\* and a refusal stays one.
Answer(a) ==
    /\ ask[a].pc = "answer"
    /\ \E refused \in BOOLEAN :
         ask' = [ask EXCEPT ![a].refused = refused, ![a].pc = "set_version"]
    /\ UNCHANGED <<index, redis, raced>>

-----------------------------------------------------------------------------
(* SemanticCache.set *)

\* Whether set goes on to store the answer.
\* Mutant: a refusal is stored too.
Stores_Refusals(a) == ask[a].enabled
Stores(a) == ask[a].enabled /\ ~ask[a].refused

Skip(a) ==
    /\ ask[a].pc = "set_version" /\ ~Stores(a)
    /\ End(a, "done", ask[a])
    /\ UNCHANGED <<index, redis, raced>>

\* The version is read anew, after the answer was computed.
SetVersion(a) ==
    /\ ask[a].pc = "set_version" /\ Stores(a)
    /\ ask' = [ask EXCEPT ![a].version = version, ![a].pc = "set_exact"]
    /\ UNCHANGED <<index, redis, raced>>

SetExact(a) ==
    /\ ask[a].pc = "set_exact"
    /\ exact' = [exact EXCEPT ![Id(a)] = a]
    /\ Goto(a, "set_vec")
    /\ UNCHANGED <<index, version, vec, payload, ids, raced>>

SetVec(a) ==
    /\ ask[a].pc = "set_vec"
    /\ vec' = vec \cup {Id(a)}
    /\ Goto(a, "set_payload")
    /\ UNCHANGED <<index, version, exact, payload, ids, raced>>

\* The payload, and after it the id that makes it findable.
\* Mutant: the id first.
SetPayload_AfterId(a) ==
    \/ /\ ask[a].pc = "set_payload"
       /\ ids' = ids \cup {Id(a)}
       /\ Goto(a, "sadd")
       /\ UNCHANGED <<index, version, exact, vec, payload, raced>>
    \/ /\ ask[a].pc = "sadd"
       /\ payload' = [payload EXCEPT ![Id(a)] = a]
       /\ End(a, "done", ask[a])
       /\ UNCHANGED <<index, version, exact, vec, ids, raced>>
SetPayload(a) ==
    \/ /\ ask[a].pc = "set_payload"
       /\ payload' = [payload EXCEPT ![Id(a)] = a]
       /\ Goto(a, "sadd")
       /\ UNCHANGED <<index, version, exact, vec, ids, raced>>
    \/ /\ ask[a].pc = "sadd"
       /\ ids' = ids \cup {Id(a)}
       /\ End(a, "done", ask[a])
       /\ UNCHANGED <<index, version, exact, vec, payload, raced>>

\* A Redis command, the store or a model raises, or the process is killed.
Fail(a) ==
    /\ ~Over(a) /\ ask[a].pc # "idle"
    /\ End(a, "failed", ask[a])
    /\ UNCHANGED <<index, redis, raced>>

-----------------------------------------------------------------------------
(* index_corpus *)

\* The ask has retrieved and is not over.
Storing(a) == ask[a].pc \in {"answer", "set_version", "set_exact", "set_vec",
                             "set_payload", "sadd"}

Publish(i) ==
    /\ index[i] = "idle"
    /\ index' = [index EXCEPT ![i] = "published"]
    /\ raced' = IF \E a \in Asks : Storing(a) THEN raced \cup {i} ELSE raced
    /\ UNCHANGED <<ask, redis>>

\* bump_corpus_version: INCR, then DEL of the ids.
\* Mutant: the INCR is sent again.
Incr_Again(i) ==
    /\ index[i] = "published"
    /\ version' = version + 1
    /\ UNCHANGED <<ask, index, exact, vec, payload, ids, raced>>
Incr(i) ==
    /\ index[i] = "published"
    /\ version' = version + 1
    /\ index' = [index EXCEPT ![i] = "bumped"]
    /\ UNCHANGED <<ask, exact, vec, payload, ids, raced>>

DeleteIds(i) ==
    /\ index[i] = "bumped"
    /\ ids' = {}
    /\ index' = [index EXCEPT ![i] = "done"]
    /\ UNCHANGED <<ask, version, exact, vec, payload, raced>>

\* The run has no Redis and does not invalidate, or it fails or is killed after
\* it published, before or between the two commands.
Unbumped(i) ==
    /\ index[i] \in {"published", "bumped"}
    /\ index' = [index EXCEPT ![i] = "unbumped"]
    /\ UNCHANGED <<ask, redis, raced>>

-----------------------------------------------------------------------------
Init ==
    /\ \E q \in Queries : ask = [a \in Asks |-> [
         pc |-> "idle", enabled |-> FALSE, q |-> q, version |-> 0,
         members |-> {}, best |-> {}, layer |-> "none", hit |-> NoAsk,
         refused |-> FALSE, seen |-> {}, after |-> {}]]
    /\ index = [i \in IndexRuns |-> "idle"]
    /\ version = 0
    /\ exact = [k \in Ids |-> NoAsk]
    /\ vec = {}
    /\ payload = [k \in Ids |-> NoAsk]
    /\ ids = {}
    /\ raced = {}

AskStep(a) ==
    \/ \E q \in Queries : Ask(a, q)
    \/ GetVersion(a) \/ GetExact(a) \/ GetMembers(a)
    \/ \E k \in Ids : GetVec(a, k)
    \/ Scanned(a) \/ GetPayload(a)
    \/ InputGuardrails(a) \/ Retrieve(a) \/ Answer(a)
    \/ Skip(a) \/ SetVersion(a) \/ SetExact(a) \/ SetVec(a) \/ SetPayload(a)
    \/ Fail(a)

IndexStep(i) == Publish(i) \/ Incr(i) \/ DeleteIds(i) \/ Unbumped(i)

Next ==
    \/ \E a \in Asks : AskStep(a)
    \/ \E i \in IndexRuns : IndexStep(i)

Spec == Init /\ [][Next]_vars

-----------------------------------------------------------------------------
(* Properties *)

\* The types of the asks, the index runs and the keys of Redis.
TypeOK ==
    /\ ask \in [Asks -> AskState]
    /\ index \in [IndexRuns -> {"idle", "published", "bumped", "done", "unbumped"}]
    /\ version \in Versions
    /\ exact \in [Ids -> Asks \cup {NoAsk}]
    /\ vec \subseteq Ids
    /\ payload \in [Ids -> Asks \cup {NoAsk}]
    /\ ids \subseteq Ids
    /\ raced \subseteq IndexRuns

\* An ask that begins after an index run invalidated the cache is given no
\* answer retrieved before that run published, provided that no ask was between
\* its retrieval and its end when it published.  Asks that store under the old
\* version while the version is bumped and the ids are deleted do no harm: an
\* id is added after its payload was replaced (bump_corpus_version, get, set).
InvalidationHolds ==
    \A a \in Asks : ask[a].hit # NoAsk =>
        ask[a].after \ raced \subseteq ask[ask[a].hit].seen

\* What the cache returns is a stored answer, and no refusal, of the same query
\* or, from the semantic layer, of one above the threshold, although keys
\* expire and are overwritten while the scan looks at them (get, set).
HitAnswersQuestion ==
    \A a \in Asks : ask[a].hit # NoAsk =>
        LET b == ask[ask[a].hit] IN
        /\ ~b.refused /\ b.hit = NoAsk
        /\ b.q = ask[a].q \/ (ask[a].layer = "semantic" /\ <<ask[a].q, b.q>> \in Similar)

-----------------------------------------------------------------------------
(* What the code says, and does not do *)

\* index_corpus: "Invalidate/semantic-reset answer cache when corpus changes".
\* An ask that begins after a run invalidated the cache is not given an answer
\* retrieved before that run published, whoever was running meanwhile.
CacheIsFresh ==
    \A a \in Asks : ask[a].hit # NoAsk => ask[a].after \subseteq ask[ask[a].hit].seen
=============================================================================
