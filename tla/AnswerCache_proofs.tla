-------------------------- MODULE AnswerCache_proofs --------------------------
(***************************************************************************)
(* Proofs about AnswerCache, for any number of asks, queries and           *)
(* overlapping index runs.                                                 *)
(***************************************************************************)
EXTENDS AnswerCache, FiniteSetTheorems, TLAPS

\* Where an ask stands that may have stored something.
Written == {"set_vec", "set_payload", "sadd", "done", "failed"}

\* The answer of b may stand under the id k: b has computed and will not again.
Stored(b, k) ==
    /\ ask[b].pc \in Written
    /\ ask[b].q = k[1] /\ ~ask[b].refused /\ ask[b].hit = NoAsk
    /\ k[2] <= version

\* The ids b's answers are kept under are those of its query, and of a version
\* that has been current.
Entries ==
    \A k \in Ids : /\ exact[k] # NoAsk => Stored(exact[k], k)
                   /\ payload[k] # NoAsk => Stored(payload[k], k)

\* The answer b, if there is one, was retrieved after run i published.
Saw(b, i) == b # NoAsk => i \in ask[b].seen

\* The runs that published while no ask was storing.
Clean == Published \ raced

\* What the two commands of bump_corpus_version have done to older answers: the
\* INCR has left their exact keys behind, the DEL has made their payloads
\* unfindable.
Invalidated ==
    \A i \in Clean :
        /\ index[i] \in {"bumped", "done"} =>
             \A k \in Ids : Saw(exact[k], i) \/ k[2] < version
        /\ index[i] = "done" => \A k \in ids : Saw(payload[k], i)

\* What holds of an ask in state x on its own.
AskOK(x) ==
    /\ x.pc # "done" => x.hit = NoAsk
    /\ x.pc \in {"set_exact", "set_vec", "set_payload", "sadd"} =>
         ~x.refused /\ x.version <= version
    /\ x.after \subseteq {i \in IndexRuns : index[i] = "done"}
    /\ \A k, m \in x.best : k = m
    /\ x.pc = "payload" => \A k \in x.best : Score(x.q, k[1]) > 0

\* What it is about to store is not older than any clean run, nor is what it is
\* about to make findable.
StoreOK(x) ==
    \A i \in Clean :
        /\ \/ x.pc = "answer"
           \/ /\ x.pc \in {"set_version", "set_exact", "set_vec", "set_payload", "sadd"}
              /\ ~x.refused
           => i \in x.seen
        /\ x.pc = "sadd" => Saw(payload[<<x.q, x.version>>], i)

\* What it has found is not older than the clean runs it began after.
LookupOK(x) ==
    \A i \in x.after \ raced :
        /\ x.pc = "exact" =>
             \A k \in Ids : Saw(exact[k], i) \/ k[2] < x.version
        /\ x.pc \in {"scan", "payload"} =>
             \A k \in x.members \cup x.best : Saw(payload[k], i)
        /\ Saw(x.hit, i)

\* The answer it was given is one that was stored, to a question like its own.
HitOK(x) ==
    x.hit # NoAsk =>
        LET b == ask[x.hit] IN
        /\ b.pc \in Written /\ ~b.refused /\ b.hit = NoAsk
        /\ b.q = x.q \/ (x.layer = "semantic" /\ <<x.q, b.q>> \in Similar)

AskGood(x) == AskOK(x) /\ StoreOK(x) /\ LookupOK(x) /\ HitOK(x)

\* The runs past their INCR, or that will not send it.
Bumped == {i \in IndexRuns : index[i] \notin {"idle", "published"}}

\* The inductive invariant.
IInv ==
    /\ TypeOK
    /\ version <= Cardinality(Bumped)
    /\ Entries
    /\ Invalidated
    /\ \A a \in Asks : AskGood(ask[a])

-----------------------------------------------------------------------------
(* Asks *)

\* Step a of one ask leaves x: what has stored stays as it is.
Stays(a, x) ==
    ask[a].pc \in Written =>
        /\ x.pc \in Written
        /\ x.q = ask[a].q /\ x.refused = ask[a].refused
        /\ x.hit = ask[a].hit /\ x.seen = ask[a].seen

\* The answers in the cache, and those given out, do not change under a step of
\* one ask.
LEMMA AnswersStay ==
    ASSUME IInv, NEW a \in Asks, NEW x \in AskState, Stays(a, x),
           ask' = [ask EXCEPT ![a] = x]
    PROVE  /\ \A b \in Asks : ask[b].pc \in Written =>
                /\ ask'[b].pc \in Written
                /\ ask'[b].q = ask[b].q /\ ask'[b].refused = ask[b].refused
                /\ ask'[b].hit = ask[b].hit /\ ask'[b].seen = ask[b].seen
           /\ \A k \in Ids :
                /\ exact[k] # NoAsk => exact[k] \in Asks /\ ask[exact[k]].pc \in Written
                /\ payload[k] # NoAsk =>
                     payload[k] \in Asks /\ ask[payload[k]].pc \in Written
<1>1. ask \in [Asks -> AskState]
  BY DEF IInv, TypeOK
<1>2. \A b \in Asks : ask'[b] = IF b = a THEN x ELSE ask[b]
  BY <1>1
<1>3. \A b \in Asks : ask[b].pc \in Written =>
        /\ ask'[b].pc \in Written
        /\ ask'[b].q = ask[b].q /\ ask'[b].refused = ask[b].refused
        /\ ask'[b].hit = ask[b].hit /\ ask'[b].seen = ask[b].seen
  BY <1>2 DEF Stays
<1>4. \A k \in Ids :
        /\ exact[k] # NoAsk => exact[k] \in Asks /\ ask[exact[k]].pc \in Written
        /\ payload[k] # NoAsk => payload[k] \in Asks /\ ask[payload[k]].pc \in Written
  BY DEF IInv, TypeOK, Entries, Stored
<1> QED
  BY <1>3, <1>4

\* A step of one ask to a good state, which replaces no answer and makes none
\* findable that is older than a clean run.
LEMMA AskMove ==
    ASSUME IInv, NEW a \in Asks, NEW x \in AskState, Stays(a, x), AskGood(x),
           ask' = [ask EXCEPT ![a] = x], vec' \subseteq Ids, ids' \subseteq Ids,
           \A k \in ids' \ ids : \A i \in Clean : Saw(payload[k], i),
           UNCHANGED <<index, version, exact, payload, raced>>
    PROVE  IInv'
<1>1. TypeOK /\ ask \in [Asks -> AskState]
  BY DEF IInv, TypeOK
<1>2. TypeOK'
  BY <1>1 DEF TypeOK
<1>3. Bumped' = Bumped /\ Clean' = Clean
  BY DEF Bumped, Clean, Published
<1>4. Entries'
  <2>1. ASSUME NEW b \in Asks, NEW k \in Ids, Stored(b, k)
        PROVE  Stored(b, k)'
    BY <2>1, AnswersStay DEF Stored
  <2>2. \A k \in Ids : /\ exact[k] # NoAsk => exact[k] \in Asks /\ Stored(exact[k], k)
                       /\ payload[k] # NoAsk => payload[k] \in Asks /\ Stored(payload[k], k)
    BY AnswersStay DEF IInv, Entries
  <2> QED
    BY <2>1, <2>2 DEF Entries
<1>5. ASSUME NEW k \in Ids, NEW i
      PROVE  /\ Saw(exact[k], i)' <=> Saw(exact[k], i)
             /\ Saw(payload[k], i)' <=> Saw(payload[k], i)
  BY AnswersStay DEF Saw
<1>6. Invalidated'
  <2>1. \A i \in Clean : index[i] = "done" => \A k \in ids' : Saw(payload[k], i)
    BY DEF IInv, Invalidated
  <2> QED
    BY <1>3, <1>5, <2>1 DEF IInv, Invalidated
<1>7. ASSUME NEW y \in AskState, AskGood(y)
      PROVE  AskGood(y)'
  <2>1. AskOK(y)'
    BY <1>7 DEF AskGood, AskOK
  <2>2. StoreOK(y)'
    <3>1. <<y.q, y.version>> \in Ids
      BY DEF AskState, Ids
    <3> QED
      BY <1>3, <1>5, <1>7, <3>1 DEF AskGood, StoreOK
  <2>3. HitOK(y)' /\ \A i : Saw(y.hit, i)' <=> Saw(y.hit, i)
    <3>1. y.hit # NoAsk => y.hit \in Asks /\ ask[y.hit].pc \in Written
      BY <1>7 DEF AskState, AskGood, HitOK
    <3> QED
      BY <1>7, <3>1, AnswersStay DEF AskGood, HitOK, Saw
  <2>4. LookupOK(y)'
    <3>1. y.members \subseteq Ids /\ y.best \subseteq Ids
      BY DEF AskState
    <3> QED
      BY <1>5, <1>7, <2>3, <3>1 DEF AskGood, LookupOK
  <2> QED
    BY <2>1, <2>2, <2>3, <2>4 DEF AskGood
<1>8. ASSUME NEW b \in Asks
      PROVE  AskGood(ask[b])'
  <2>1. ask'[b] \in AskState /\ AskGood(ask'[b])
    BY <1>1 DEF IInv
  <2>2. \A y \in AskState : AskGood(y) => AskGood(y)'
    BY <1>7
  <2> QED
    BY <2>1, <2>2
<1> QED
  BY <1>2, <1>3, <1>4, <1>6, <1>8 DEF IInv

\* An ask that reads goes on, or ends; nothing is written.
LEMMA ReadMove ==
    ASSUME IInv, NEW a \in Asks, NEW x \in AskState, Stays(a, x), AskGood(x),
           ask' = [ask EXCEPT ![a] = x], UNCHANGED <<index, redis, raced>>
    PROVE  IInv'
<1>1. UNCHANGED <<index, version, exact, vec, payload, ids, raced>>
      /\ vec \subseteq Ids /\ ids \subseteq Ids
  BY DEF redis, IInv, TypeOK
<1> QED
  BY <1>1, AskMove

\* An ask begins.
LEMMA AskStarts ==
    ASSUME IInv, NEW a \in Asks, NEW q \in Queries, Ask(a, q)
    PROVE  IInv'
<1>1. PICK enabled \in BOOLEAN :
        ask' = [ask EXCEPT ![a] = [ask[a] EXCEPT
                  !.q = q, !.enabled = enabled,
                  !.after = {i \in IndexRuns : index[i] = "done"},
                  !.pc = IF enabled THEN "version" ELSE "input_guardrails"]]
  BY DEF Ask
<1> DEFINE x == [ask[a] EXCEPT
                  !.q = q, !.enabled = enabled,
                  !.after = {i \in IndexRuns : index[i] = "done"},
                  !.pc = IF enabled THEN "version" ELSE "input_guardrails"]
<1>2. ask[a] \in AskState /\ ask[a].pc = "idle" /\ AskGood(ask[a])
  BY DEF IInv, TypeOK, Ask
<1>3. /\ x \in AskState /\ x.pc \in {"version", "input_guardrails"}
      /\ x.after = {i \in IndexRuns : index[i] = "done"}
      /\ x.hit = ask[a].hit /\ x.best = ask[a].best
  BY <1>2 DEF AskState
<1>4. ask' = [ask EXCEPT ![a] = x]
  BY <1>1
<1> HIDE DEF x
<1>5. AskGood(x)
  BY <1>2, <1>3 DEF AskGood, AskOK, StoreOK, LookupOK, HitOK, Saw
<1>6. UNCHANGED <<index, redis, raced>>
  BY DEF Ask
<1>7. Stays(a, x)
  BY <1>2 DEF Stays, Written
<1> QED
  BY <1>3, <1>4, <1>5, <1>6, <1>7, ReadMove

\* Going on to a place where nothing is looked up or stored.
LEMMA GotoMove ==
    ASSUME IInv, NEW a \in Asks, ask[a].pc \notin Written,
           NEW p \in {"members", "input_guardrails", "retrieve"}, Goto(a, p),
           UNCHANGED <<index, redis, raced>>
    PROVE  IInv'
<1> DEFINE x == [ask[a] EXCEPT !.pc = p]
<1>1. ask[a] \in AskState /\ AskGood(ask[a])
  BY DEF IInv, TypeOK
<1>2. /\ x \in AskState /\ x.pc = p /\ x.hit = ask[a].hit /\ x.q = ask[a].q
      /\ x.layer = ask[a].layer /\ x.after = ask[a].after /\ x.best = ask[a].best
  BY <1>1 DEF AskState
<1>3. ask' = [ask EXCEPT ![a] = x]
  BY DEF Goto
<1>4. ask[a].hit = NoAsk
  BY <1>1 DEF AskGood, AskOK, Written
<1> HIDE DEF x
<1>5. AskGood(x)
  BY <1>1, <1>2, <1>4 DEF AskGood, AskOK, StoreOK, LookupOK, HitOK, Saw
<1> QED
  BY <1>2, <1>3, <1>5, ReadMove DEF Stays

\* Ending without an answer of the cache.
LEMMA EndMove ==
    ASSUME IInv, NEW a \in Asks, NEW p \in {"done", "failed"}, ask[a].hit = NoAsk,
           End(a, p, ask[a]), ids' \subseteq Ids,
           \A k \in ids' \ ids : \A i \in Clean : Saw(payload[k], i),
           UNCHANGED <<index, version, exact, vec, payload, raced>>
    PROVE  IInv'
<1> DEFINE x == [ask[a] EXCEPT !.pc = p, !.enabled = FALSE,
                               !.version = 0, !.members = {}, !.best = {}]
<1>1. ask[a] \in AskState /\ AskGood(ask[a])
  BY DEF IInv, TypeOK
<1>2. 0 \in Versions
  BY AsksAssumption, FS_CardinalityType DEF Versions
<1>3. /\ x \in AskState /\ x.pc = p /\ x.best = {} /\ x.members = {}
      /\ x.hit = ask[a].hit /\ x.q = ask[a].q /\ x.refused = ask[a].refused
      /\ x.seen = ask[a].seen /\ x.after = ask[a].after
  BY <1>1, <1>2 DEF AskState
<1>4. ask' = [ask EXCEPT ![a] = x]
  BY DEF End
<1> HIDE DEF x
<1>5. AskGood(x)
  BY <1>1, <1>3 DEF AskGood, AskOK, StoreOK, LookupOK, HitOK, Saw
<1>6. Stays(a, x)
  BY <1>3 DEF Stays, Written
<1>7. vec' \subseteq Ids
  BY DEF IInv, TypeOK
<1> QED
  BY <1>3, <1>4, <1>5, <1>6, <1>7, AskMove

\* Ending with the answer of b, stored under k.
LEMMA ReturnMove ==
    ASSUME IInv, NEW a \in Asks, ask[a].pc \in {"exact", "payload"},
           NEW b \in Asks, NEW k \in Ids, Stored(b, k),
           NEW layer \in {"exact", "semantic"}, Return(a, b, layer),
           k[1] = ask[a].q \/ (layer = "semantic" /\ <<ask[a].q, k[1]>> \in Similar),
           \A i \in ask[a].after \ raced : Saw(b, i),
           UNCHANGED <<index, redis, raced>>
    PROVE  IInv'
<1> DEFINE x == [[ask[a] EXCEPT !.hit = b, !.layer = layer] EXCEPT
                   !.pc = "done", !.enabled = FALSE,
                   !.version = 0, !.members = {}, !.best = {}]
<1>1. ask[a] \in AskState /\ AskGood(ask[a])
  BY DEF IInv, TypeOK
<1>2. 0 \in Versions
  BY AsksAssumption, FS_CardinalityType DEF Versions
<1>3. /\ x \in AskState /\ x.pc = "done" /\ x.best = {} /\ x.members = {}
      /\ x.hit = b /\ x.layer = layer /\ x.q = ask[a].q /\ x.after = ask[a].after
  BY <1>1, <1>2 DEF AskState
<1>4. ask' = [ask EXCEPT ![a] = x]
  BY DEF Return, End
<1> HIDE DEF x
<1>5. AskGood(x)
  <2>1. AskOK(x) /\ StoreOK(x) /\ LookupOK(x)
    BY <1>1, <1>3 DEF AskGood, AskOK, StoreOK, LookupOK
  <2>2. HitOK(x)
    BY <1>3 DEF HitOK, Stored
  <2> QED
    BY <2>1, <2>2 DEF AskGood
<1>6. Stays(a, x)
  BY DEF Stays, Written
<1> QED
  BY <1>3, <1>4, <1>5, <1>6, ReadMove

\* Once a version is read, the answers under it are not older than the clean
\* runs the ask began after.
LEMMA GetVersionOK ==
    ASSUME IInv, NEW a \in Asks, GetVersion(a)
    PROVE  IInv'
<1> DEFINE x == [ask[a] EXCEPT !.version = version, !.pc = "exact"]
<1>1. ask[a] \in AskState /\ AskGood(ask[a]) /\ ask[a].pc = "version"
      /\ version \in Versions
  BY DEF IInv, TypeOK, GetVersion
<1>2. /\ x \in AskState /\ x.pc = "exact" /\ x.version = version
      /\ x.hit = ask[a].hit /\ x.after = ask[a].after /\ x.best = ask[a].best
  BY <1>1 DEF AskState
<1>3. ask' = [ask EXCEPT ![a] = x] /\ UNCHANGED <<index, redis, raced>>
  BY DEF GetVersion
<1> HIDE DEF x
<1>4. ASSUME NEW i \in x.after \ raced, NEW k \in Ids
      PROVE  Saw(exact[k], i) \/ k[2] < version
  <2>1. i \in Clean /\ index[i] = "done"
    BY <1>1, <1>2, <1>4 DEF AskGood, AskOK, Clean, Published
  <2> QED
    BY <2>1 DEF IInv, Invalidated
<1>5. AskGood(x)
  BY <1>1, <1>2, <1>4 DEF AskGood, AskOK, StoreOK, LookupOK, HitOK, Saw
<1>6. Stays(a, x)
  BY <1>1 DEF Stays, Written
<1> QED
  BY <1>2, <1>3, <1>5, <1>6, ReadMove

\* The exact key gives an answer to the same question.
LEMMA GetExactOK ==
    ASSUME IInv, NEW a \in Asks, GetExact(a)
    PROVE  IInv'
<1>1. ask[a] \in AskState /\ AskGood(ask[a]) /\ ask[a].pc = "exact"
      /\ UNCHANGED <<index, redis, raced>>
  BY DEF IInv, TypeOK, GetExact
<1>2. CASE exact[Id(a)] # NoAsk /\ Return(a, exact[Id(a)], "exact")
  <2>1. Id(a) \in Ids /\ Id(a)[1] = ask[a].q /\ Id(a)[2] = ask[a].version
    BY <1>1 DEF Id, _hash_key, Ids, AskState
  <2>2. exact[Id(a)] \in Asks /\ Stored(exact[Id(a)], Id(a))
    BY <1>2, <2>1 DEF IInv, TypeOK, Entries
  <2>3. ask[a].version \in Nat
    BY <1>1 DEF AskState, Versions
  <2>4. \A i \in ask[a].after \ raced : Saw(exact[Id(a)], i)
    BY <1>1, <2>1, <2>3 DEF AskGood, LookupOK
  <2> QED
    BY <1>1, <1>2, <2>1, <2>2, <2>4, ReturnMove
<1>3. CASE Goto(a, "members")
  BY <1>1, <1>3, GotoMove DEF Written
<1> QED
  BY <1>2, <1>3 DEF GetExact

\* The ids in the set lead to answers that are not older than the clean runs
\* the ask began after.
LEMMA GetMembersOK ==
    ASSUME IInv, NEW a \in Asks, GetMembers(a)
    PROVE  IInv'
<1>1. PICK s \in SUBSET ids :
        ask' = [ask EXCEPT ![a] = [ask[a] EXCEPT !.members = s, !.best = {},
                                                 !.pc = "scan"]]
  BY DEF GetMembers
<1> DEFINE x == [ask[a] EXCEPT !.members = s, !.best = {}, !.pc = "scan"]
<1>2. ask[a] \in AskState /\ AskGood(ask[a]) /\ ask[a].pc = "members"
      /\ ids \subseteq Ids
  BY DEF IInv, TypeOK, GetMembers
<1>3. /\ x \in AskState /\ x.pc = "scan" /\ x.members = s /\ x.best = {}
      /\ x.hit = ask[a].hit /\ x.after = ask[a].after
  BY <1>2 DEF AskState
<1>4. ask' = [ask EXCEPT ![a] = x] /\ UNCHANGED <<index, redis, raced>>
  BY <1>1 DEF GetMembers
<1> HIDE DEF x
<1>5. ASSUME NEW i \in x.after \ raced, NEW k \in s
      PROVE  Saw(payload[k], i)
  <2>1. i \in Clean /\ index[i] = "done"
    BY <1>2, <1>3, <1>5 DEF AskGood, AskOK, Clean, Published
  <2> QED
    BY <2>1 DEF IInv, Invalidated
<1>6. AskGood(x)
  BY <1>2, <1>3, <1>5 DEF AskGood, AskOK, StoreOK, LookupOK, HitOK, Saw
<1>7. Stays(a, x)
  BY <1>2 DEF Stays, Written
<1> QED
  BY <1>3, <1>4, <1>6, <1>7, ReadMove

\* The scan keeps one id of those it was given.
LEMMA GetVecOK ==
    ASSUME IInv, NEW a \in Asks, NEW k \in Ids, GetVec(a, k)
    PROVE  IInv'
<1>1. PICK best \in {ask[a].best, {k}} :
        ask' = [ask EXCEPT ![a] = [ask[a] EXCEPT !.members = @ \ {k}, !.best = best]]
  BY DEF GetVec
<1> DEFINE x == [ask[a] EXCEPT !.members = @ \ {k}, !.best = best]
<1>2. ask[a] \in AskState /\ AskGood(ask[a]) /\ ask[a].pc = "scan"
      /\ k \in ask[a].members
  BY DEF IInv, TypeOK, GetVec
<1>3. /\ x \in AskState /\ x.pc = "scan" /\ x.members = ask[a].members \ {k}
      /\ x.best = best /\ x.hit = ask[a].hit /\ x.after = ask[a].after
  BY <1>2 DEF AskState
<1>4. ask' = [ask EXCEPT ![a] = x] /\ UNCHANGED <<index, redis, raced>>
  BY <1>1 DEF GetVec
<1> HIDE DEF x
<1>5. x.members \cup x.best \subseteq ask[a].members \cup ask[a].best
  BY <1>2, <1>3
<1>6. AskOK(x) /\ StoreOK(x) /\ HitOK(x)
  BY <1>2, <1>3 DEF AskGood, AskOK, StoreOK, HitOK
<1>7. LookupOK(x)
  BY <1>2, <1>3, <1>5 DEF AskGood, LookupOK
<1>8. Stays(a, x)
  BY <1>2 DEF Stays, Written
<1> QED
  BY <1>3, <1>4, <1>6, <1>7, <1>8, ReadMove DEF AskGood

\* What the scan chose reaches the threshold.
LEMMA ScannedOK ==
    ASSUME IInv, NEW a \in Asks, Scanned(a)
    PROVE  IInv'
<1>1. ask[a] \in AskState /\ AskGood(ask[a]) /\ ask[a].pc = "scan"
      /\ UNCHANGED <<index, redis, raced>>
  BY DEF IInv, TypeOK, Scanned
<1>2. CASE /\ \E k \in ask[a].best : Score(ask[a].q, k[1]) > 0
           /\ Goto(a, "payload")
  <2> DEFINE x == [ask[a] EXCEPT !.pc = "payload"]
  <2>1. /\ x \in AskState /\ x.pc = "payload" /\ x.members = ask[a].members
        /\ x.best = ask[a].best /\ x.q = ask[a].q
        /\ x.hit = ask[a].hit /\ x.after = ask[a].after
    BY <1>1 DEF AskState
  <2>2. ask' = [ask EXCEPT ![a] = x]
    BY <1>2 DEF Goto
  <2> HIDE DEF x
  <2>3. \A k \in x.best : Score(x.q, k[1]) > 0
    BY <1>1, <1>2, <2>1 DEF AskGood, AskOK
  <2>4. AskGood(x)
    BY <1>1, <2>1, <2>3 DEF AskGood, AskOK, StoreOK, LookupOK, HitOK
  <2>5. Stays(a, x)
    BY <1>1 DEF Stays, Written
  <2> QED
    BY <1>1, <2>1, <2>2, <2>4, <2>5, ReadMove
<1>3. CASE Goto(a, "input_guardrails")
  BY <1>1, <1>3, GotoMove DEF Written
<1> QED
  BY <1>2, <1>3 DEF Scanned

\* The payload gives an answer to a question above the threshold.
LEMMA GetPayloadOK ==
    ASSUME IInv, NEW a \in Asks, GetPayload(a)
    PROVE  IInv'
<1>1. ask[a] \in AskState /\ AskGood(ask[a]) /\ ask[a].pc = "payload"
      /\ UNCHANGED <<index, redis, raced>>
  BY DEF IInv, TypeOK, GetPayload
<1>2. ASSUME NEW k \in ask[a].best, payload[k] # NoAsk,
             Return(a, payload[k], "semantic")
      PROVE  IInv'
  <2>1. k \in Ids
    BY <1>1 DEF AskState
  <2>2. payload[k] \in Asks /\ Stored(payload[k], k)
    BY <1>2, <2>1 DEF IInv, TypeOK, Entries
  <2>3. k[1] = ask[a].q \/ <<ask[a].q, k[1]>> \in Similar
    BY <1>1 DEF AskGood, AskOK, Score
  <2>4. \A i \in ask[a].after \ raced : Saw(payload[k], i)
    BY <1>1 DEF AskGood, LookupOK
  <2> QED
    BY <1>1, <1>2, <2>1, <2>2, <2>3, <2>4, ReturnMove
<1>3. CASE Goto(a, "input_guardrails")
  BY <1>1, <1>3, GotoMove DEF Written
<1> QED
  BY <1>2, <1>3 DEF GetPayload

-----------------------------------------------------------------------------
(* Answers *)

\* A refused input is not stored.
LEMMA InputGuardrailsOK ==
    ASSUME IInv, NEW a \in Asks, InputGuardrails(a)
    PROVE  IInv'
<1>1. ask[a] \in AskState /\ AskGood(ask[a]) /\ ask[a].pc = "input_guardrails"
      /\ UNCHANGED <<index, redis, raced>>
  BY DEF IInv, TypeOK, InputGuardrails
<1>2. CASE Goto(a, "retrieve")
  BY <1>1, <1>2, GotoMove DEF Written
<1>3. CASE ask' = [ask EXCEPT ![a].refused = TRUE, ![a].pc = "set_version"]
  <2> DEFINE x == [ask[a] EXCEPT !.refused = TRUE, !.pc = "set_version"]
  <2>1. /\ x \in AskState /\ x.pc = "set_version" /\ x.refused = TRUE
        /\ x.hit = ask[a].hit /\ x.after = ask[a].after /\ x.best = ask[a].best
    BY <1>1 DEF AskState
  <2>2. ask' = [ask EXCEPT ![a] = x]
    BY <1>3
  <2> HIDE DEF x
  <2>3. AskGood(x)
    BY <1>1, <2>1 DEF AskGood, AskOK, StoreOK, LookupOK, HitOK, Saw
  <2>4. Stays(a, x)
    BY <1>1 DEF Stays, Written
  <2> QED
    BY <1>1, <2>1, <2>2, <2>3, <2>4, ReadMove
<1> QED
  BY <1>2, <1>3 DEF InputGuardrails

\* A retrieval sees every run that has published.
LEMMA RetrieveOK ==
    ASSUME IInv, NEW a \in Asks, Retrieve(a)
    PROVE  IInv'
<1> DEFINE x == [ask[a] EXCEPT !.seen = Published, !.pc = "answer"]
<1>1. ask[a] \in AskState /\ AskGood(ask[a]) /\ ask[a].pc = "retrieve"
  BY DEF IInv, TypeOK, Retrieve
<1>2. /\ x \in AskState /\ x.pc = "answer" /\ x.seen = Published
      /\ x.hit = ask[a].hit /\ x.after = ask[a].after /\ x.best = ask[a].best
  BY <1>1 DEF AskState, Published
<1>3. ask' = [ask EXCEPT ![a] = x] /\ UNCHANGED <<index, redis, raced>>
  BY DEF Retrieve
<1> HIDE DEF x
<1>4. AskGood(x)
  BY <1>1, <1>2 DEF AskGood, AskOK, StoreOK, LookupOK, HitOK, Saw, Clean
<1>5. Stays(a, x)
  BY <1>1 DEF Stays, Written
<1> QED
  BY <1>2, <1>3, <1>4, <1>5, ReadMove

\* The answer is of what was retrieved.
LEMMA AnswerOK ==
    ASSUME IInv, NEW a \in Asks, Answer(a)
    PROVE  IInv'
<1>1. PICK refused \in BOOLEAN :
        ask' = [ask EXCEPT ![a] = [ask[a] EXCEPT !.refused = refused,
                                                 !.pc = "set_version"]]
  BY DEF Answer
<1> DEFINE x == [ask[a] EXCEPT !.refused = refused, !.pc = "set_version"]
<1>2. ask[a] \in AskState /\ AskGood(ask[a]) /\ ask[a].pc = "answer"
  BY DEF IInv, TypeOK, Answer
<1>3. /\ x \in AskState /\ x.pc = "set_version" /\ x.seen = ask[a].seen
      /\ x.hit = ask[a].hit /\ x.after = ask[a].after /\ x.best = ask[a].best
  BY <1>2 DEF AskState
<1>4. ask' = [ask EXCEPT ![a] = x] /\ UNCHANGED <<index, redis, raced>>
  BY <1>1 DEF Answer
<1> HIDE DEF x
<1>5. AskGood(x)
  BY <1>2, <1>3 DEF AskGood, AskOK, StoreOK, LookupOK, HitOK, Saw
<1>6. Stays(a, x)
  BY <1>2 DEF Stays, Written
<1> QED
  BY <1>3, <1>4, <1>5, <1>6, ReadMove

\* An ask that does not store, or fails anywhere, has been given nothing.
LEMMA SkipFailOK ==
    ASSUME IInv, NEW a \in Asks, Skip(a) \/ Fail(a)
    PROVE  IInv'
<1>1. AskOK(ask[a]) /\ ids \subseteq Ids
  BY DEF IInv, AskGood, TypeOK
<1>2. CASE Skip(a)
  BY <1>1, <1>2, EndMove DEF Skip, AskOK, redis
<1>3. CASE Fail(a)
  BY <1>1, <1>3, EndMove DEF Fail, AskOK, Over, redis
<1> QED
  BY <1>2, <1>3

\* The version an answer is stored under has been current.
LEMMA SetVersionOK ==
    ASSUME IInv, NEW a \in Asks, SetVersion(a)
    PROVE  IInv'
<1> DEFINE x == [ask[a] EXCEPT !.version = version, !.pc = "set_exact"]
<1>1. ask[a] \in AskState /\ AskGood(ask[a]) /\ ask[a].pc = "set_version"
      /\ version \in Versions /\ ~ask[a].refused
  BY DEF IInv, TypeOK, SetVersion, Stores
<1>2. /\ x \in AskState /\ x.pc = "set_exact" /\ x.version = version
      /\ x.refused = ask[a].refused /\ x.seen = ask[a].seen
      /\ x.hit = ask[a].hit /\ x.after = ask[a].after /\ x.best = ask[a].best
  BY <1>1 DEF AskState
<1>3. ask' = [ask EXCEPT ![a] = x] /\ UNCHANGED <<index, redis, raced>>
  BY DEF SetVersion
<1> HIDE DEF x
<1>4. version <= version
  BY <1>1 DEF Versions
<1>5. AskGood(x)
  BY <1>1, <1>2, <1>4 DEF AskGood, AskOK, StoreOK, LookupOK, HitOK, Saw
<1>6. Stays(a, x)
  BY <1>1 DEF Stays, Written
<1> QED
  BY <1>2, <1>3, <1>5, <1>6, ReadMove

\* A vector leads nowhere before its id is known.
LEMMA SetVecOK ==
    ASSUME IInv, NEW a \in Asks, SetVec(a)
    PROVE  IInv'
<1> DEFINE x == [ask[a] EXCEPT !.pc = "set_payload"]
<1>1. ask[a] \in AskState /\ AskGood(ask[a]) /\ ask[a].pc = "set_vec"
  BY DEF IInv, TypeOK, SetVec
<1>2. /\ x \in AskState /\ x.pc = "set_payload" /\ x.version = ask[a].version
      /\ x.refused = ask[a].refused /\ x.seen = ask[a].seen /\ x.q = ask[a].q
      /\ x.hit = ask[a].hit /\ x.after = ask[a].after /\ x.best = ask[a].best
  BY <1>1 DEF AskState
<1>3. ask' = [ask EXCEPT ![a] = x]
      /\ UNCHANGED <<index, version, exact, payload, ids, raced>>
  BY DEF SetVec, Goto
<1>4. vec' \subseteq Ids /\ ids \subseteq Ids
  BY <1>1 DEF SetVec, IInv, TypeOK, Id, _hash_key, Ids, AskState
<1> HIDE DEF x
<1>5. AskGood(x)
  BY <1>1, <1>2 DEF AskGood, AskOK, StoreOK, LookupOK, HitOK, Saw
<1>6. Stays(a, x)
  BY <1>2 DEF Stays, Written
<1> QED
  BY <1>2, <1>3, <1>4, <1>5, <1>6, AskMove

\* An ask writes its answer under its id, in one key or the other.
LEMMA WriteMove ==
    ASSUME IInv, NEW a \in Asks, ask[a].pc \in {"set_exact", "set_payload"},
           NEW p \in {"set_vec", "sadd"}, Goto(a, p),
           p = "sadd" => payload'[Id(a)] = a,
           exact' \in {exact, [exact EXCEPT ![Id(a)] = a]},
           payload' \in {payload, [payload EXCEPT ![Id(a)] = a]},
           UNCHANGED <<index, version, vec, ids, raced>>
    PROVE  IInv'
<1>1. TypeOK /\ ask[a] \in AskState /\ AskGood(ask[a])
  BY DEF IInv, TypeOK
<1>2. PICK x \in AskState :
        /\ x = [ask[a] EXCEPT !.pc = p] /\ x.pc = p
        /\ x.q = ask[a].q /\ x.version = ask[a].version
        /\ x.refused = ask[a].refused /\ x.seen = ask[a].seen /\ x.hit = ask[a].hit
        /\ x.after = ask[a].after /\ x.best = ask[a].best
        /\ x.members = ask[a].members /\ x.layer = ask[a].layer
  <2> DEFINE y == [ask[a] EXCEPT !.pc = p]
  <2>1. /\ y \in AskState /\ y.pc = p /\ y.q = ask[a].q /\ y.version = ask[a].version
        /\ y.refused = ask[a].refused /\ y.seen = ask[a].seen /\ y.hit = ask[a].hit
        /\ y.after = ask[a].after /\ y.best = ask[a].best
        /\ y.members = ask[a].members /\ y.layer = ask[a].layer
    BY <1>1 DEF AskState
  <2> QED
    BY <2>1
<1>3. ask' = [ask EXCEPT ![a] = x]
  BY <1>2 DEF Goto
<1>4. \A b \in Asks : ask'[b] = IF b = a THEN x ELSE ask[b]
  BY <1>1, <1>3 DEF TypeOK
<1>5. Id(a) = <<ask[a].q, ask[a].version>> /\ Id(a) \in Ids
  BY <1>1 DEF Id, _hash_key, Ids, AskState
<1>6. \A k \in Ids : /\ exact'[k] = exact[k] \/ (k = Id(a) /\ exact'[k] = a)
                     /\ payload'[k] = payload[k] \/ (k = Id(a) /\ payload'[k] = a)
  BY <1>1, <1>5 DEF TypeOK
<1>7. TypeOK'
  BY <1>1, <1>2, <1>3, <1>5 DEF TypeOK
<1>8. Bumped' = Bumped /\ Clean' = Clean
  BY DEF Bumped, Clean, Published
<1>9. \A b \in Asks \cup {NoAsk}, i \in IndexRuns : Saw(b, i)' <=> Saw(b, i)
  BY <1>2, <1>4 DEF Saw
<1>10. \A i \in Clean : i \in IndexRuns /\ Saw(a, i)
  BY <1>1, <1>8 DEF AskGood, AskOK, StoreOK, Saw, Clean, Published
<1>11. Entries'
  <2>1. ASSUME NEW k \in Ids, k = Id(a)
        PROVE  Stored(a, k)'
    <3>1. k[1] = ask[a].q /\ k[2] = ask[a].version
      BY <1>5, <2>1
    <3>2. ask[a].pc # "done" /\ ~ask[a].refused /\ ask[a].hit = NoAsk
          /\ ask[a].version <= version
      BY <1>1 DEF AskGood, AskOK
    <3> QED
      BY <1>2, <1>4, <3>1, <3>2 DEF Stored, Written
  <2>2. ASSUME NEW b \in Asks, NEW k \in Ids, Stored(b, k)
        PROVE  Stored(b, k)'
    BY <1>2, <1>4, <2>2 DEF Stored, Written
  <2>3. \A k \in Ids : /\ exact[k] # NoAsk => exact[k] \in Asks /\ Stored(exact[k], k)
                       /\ payload[k] # NoAsk => payload[k] \in Asks /\ Stored(payload[k], k)
    BY <1>1 DEF IInv, TypeOK, Entries
  <2>4. ASSUME NEW k \in Ids
        PROVE  exact'[k] # NoAsk => Stored(exact[k], k)'
    BY <1>6, <2>1, <2>2, <2>3
  <2>5. ASSUME NEW k \in Ids
        PROVE  payload'[k] # NoAsk => Stored(payload[k], k)'
    BY <1>6, <2>1, <2>2, <2>3
  <2> QED
    BY <2>4, <2>5 DEF Entries
<1>12. \A k \in Ids, i \in Clean :
         /\ Saw(exact[k], i) => Saw(exact[k], i)'
         /\ Saw(payload[k], i) => Saw(payload[k], i)'
  <2>1. \A k \in Ids : exact[k] \in Asks \cup {NoAsk} /\ payload[k] \in Asks \cup {NoAsk}
    BY <1>1 DEF TypeOK
  <2>2. \A i \in Clean : Saw(a, i)'
    BY <1>9, <1>10
  <2>3. ASSUME NEW k \in Ids, NEW i \in Clean, Saw(exact[k], i)
        PROVE  Saw(exact[k], i)'
    <3>1. CASE exact'[k] = exact[k]
      BY <1>9, <1>10, <2>1, <2>3, <3>1
    <3>2. CASE exact'[k] = a
      BY <2>2, <3>2
    <3> QED
      BY <1>6, <3>1, <3>2
  <2>4. ASSUME NEW k \in Ids, NEW i \in Clean, Saw(payload[k], i)
        PROVE  Saw(payload[k], i)'
    <3>1. CASE payload'[k] = payload[k]
      BY <1>9, <1>10, <2>1, <2>4, <3>1
    <3>2. CASE payload'[k] = a
      BY <2>2, <3>2
    <3> QED
      BY <1>6, <3>1, <3>2
  <2> QED
    BY <2>3, <2>4
<1>13. Invalidated'
  <2>1. ids \subseteq Ids
    BY <1>1 DEF TypeOK
  <2> QED
    BY <1>8, <1>12, <2>1 DEF IInv, Invalidated
<1>14. ASSUME NEW y \in AskState, AskOK(y), LookupOK(y), HitOK(y)
       PROVE  AskOK(y)' /\ LookupOK(y)' /\ HitOK(y)'
  <2>1. AskOK(y)'
    BY <1>14 DEF AskOK
  <2>2. y.hit \in Asks \cup {NoAsk} /\ y.members \subseteq Ids /\ y.best \subseteq Ids
    BY DEF AskState
  <2>3. HitOK(y)'
    BY <1>2, <1>4, <1>14, <2>2 DEF HitOK, Written
  <2>4. y.after \ raced \subseteq Clean
    BY <1>14 DEF AskOK, Clean, Published
  <2>5. LookupOK(y)'
    BY <1>9, <1>10, <1>12, <1>14, <2>2, <2>4 DEF LookupOK
  <2> QED
    BY <2>1, <2>3, <2>5
<1>15. ASSUME NEW y \in AskState, AskGood(y)
       PROVE  AskGood(y)'
  <2>1. <<y.q, y.version>> \in Ids
    BY DEF AskState, Ids
  <2>2. StoreOK(y)'
    BY <1>8, <1>12, <1>15, <2>1 DEF AskGood, StoreOK
  <2> QED
    BY <1>14, <1>15, <2>2 DEF AskGood
<1>16. AskGood(x)'
  <2>1. AskOK(x) /\ LookupOK(x) /\ HitOK(x)
    BY <1>1, <1>2 DEF AskGood, AskOK, LookupOK, HitOK
  <2>2. ASSUME NEW i \in Clean
        PROVE  /\ i \in x.seen
               /\ x.pc = "sadd" => Saw(payload[<<x.q, x.version>>], i)'
    <3>1. i \in x.seen
      BY <1>1, <1>2 DEF AskGood, AskOK, StoreOK
    <3>2. ASSUME x.pc = "sadd"
          PROVE  Saw(payload[<<x.q, x.version>>], i)'
      <4>1. payload'[<<x.q, x.version>>] = a
        BY <1>2, <1>5, <3>2
      <4>2. Saw(a, i)'
        BY <1>9, <1>10
      <4> QED
        BY <4>1, <4>2
    <3> QED
      BY <3>1, <3>2
  <2>3. StoreOK(x)'
    BY <1>8, <2>2 DEF StoreOK
  <2> QED
    BY <1>2, <1>14, <2>1, <2>3 DEF AskGood
<1>17. ASSUME NEW b \in Asks
       PROVE  AskGood(ask[b])'
  <2>1. CASE b = a
    BY <1>4, <1>16, <2>1
  <2>2. CASE b # a
    <3>1. ask'[b] = ask[b] /\ ask[b] \in AskState /\ AskGood(ask[b])
      BY <1>1, <1>4, <2>2 DEF IInv, TypeOK
    <3>2. \A y \in AskState : AskGood(y) => AskGood(y)'
      BY <1>15
    <3> QED
      BY <3>1, <3>2
  <2> QED
    BY <2>1, <2>2
<1> QED
  BY <1>7, <1>8, <1>11, <1>13, <1>17 DEF IInv

\* The exact key, then the payload and the id that makes it findable.
LEMMA SetOK ==
    ASSUME IInv, NEW a \in Asks, SetExact(a) \/ SetPayload(a)
    PROVE  IInv'
<1>1. TypeOK /\ ask[a] \in AskState /\ AskGood(ask[a])
  BY DEF IInv, TypeOK
<1>2. Id(a) \in Ids
  BY <1>1 DEF Id, _hash_key, Ids, AskState
<1>3. CASE SetExact(a)
  BY <1>3, WriteMove DEF SetExact
<1>4. CASE SetPayload(a) /\ ask[a].pc = "set_payload"
  <2>1. payload' = [payload EXCEPT ![Id(a)] = a] /\ Goto(a, "sadd")
        /\ UNCHANGED <<index, version, exact, vec, ids, raced>>
    BY <1>4 DEF SetPayload
  <2>2. payload'[Id(a)] = a
    BY <1>1, <1>2, <2>1 DEF TypeOK
  <2> QED
    BY <1>4, <2>1, <2>2, WriteMove
<1>5. CASE SetPayload(a) /\ ask[a].pc = "sadd"
  <2>1. ids' = ids \cup {Id(a)} /\ End(a, "done", ask[a])
        /\ UNCHANGED <<index, version, exact, vec, payload, raced>>
    BY <1>5 DEF SetPayload
  <2>2. ids' \subseteq Ids
    BY <1>1, <1>2, <2>1 DEF TypeOK
  <2>3. \A k \in ids' \ ids : \A i \in Clean : Saw(payload[k], i)
    BY <1>1, <1>5, <2>1 DEF AskGood, StoreOK, Id, _hash_key
  <2>4. ask[a].hit = NoAsk
    BY <1>1, <1>5 DEF AskGood, AskOK
  <2> QED
    BY <2>1, <2>2, <2>3, <2>4, EndMove
<1> QED
  BY <1>3, <1>4, <1>5 DEF SetPayload

-----------------------------------------------------------------------------
(* Index runs *)

\* A set of bumped runs is finite, and no larger than the set of runs.
LEMMA BumpedFinite ==
    /\ IsFiniteSet(Bumped) /\ Cardinality(Bumped) \in Nat
    /\ Cardinality(Bumped) <= Cardinality(IndexRuns)
    /\ Cardinality(IndexRuns) \in Nat
<1>1. Bumped \in SUBSET IndexRuns
  BY DEF Bumped
<1> QED
  BY <1>1, AsksAssumption, FS_Subset, FS_CardinalityType

\* A run goes on and touches neither the asks nor what they have stored; if it
\* becomes clean, no ask is between its retrieval and its end.
LEMMA RunMove ==
    ASSUME IInv, NEW i \in IndexRuns,
           NEW p \in {"published", "bumped", "done", "unbumped"},
           index[i] # "done", index' = [index EXCEPT ![i] = p],
           UNCHANGED <<ask, exact, vec, payload>>,
           version' \in Versions, version <= version',
           ids' \subseteq ids, raced \subseteq raced', raced' \subseteq IndexRuns,
           index[i] = "idle" => i \in raced' \/ \A a \in Asks : ~Storing(a),
           version' <= Cardinality(Bumped'), Invalidated'
    PROVE  IInv'
<1>1. TypeOK'
  BY DEF IInv, TypeOK
<1>2. \A j \in IndexRuns : index'[j] = IF j = i THEN p ELSE index[j]
  BY DEF IInv, TypeOK
<1>3. version \in Nat /\ version' \in Nat
  BY BumpedFinite DEF IInv, TypeOK, Versions
<1>4. \A k \in Ids : k[2] \in Nat
  BY BumpedFinite DEF Ids, Versions
<1>5. Entries'
  BY <1>3, <1>4 DEF IInv, Entries, Stored
<1>6. \A j \in Clean' : j \in Clean \/ \A a \in Asks : ~Storing(a)
  BY <1>2 DEF Clean, Published
<1>7. ASSUME NEW a \in Asks
      PROVE  AskGood(ask[a])'
  <2>1. AskGood(ask[a]) /\ ask[a].version \in Nat
    BY BumpedFinite DEF IInv, TypeOK, AskState, Versions
  <2>2. AskOK(ask[a])'
    BY <1>2, <1>3, <2>1 DEF AskGood, AskOK, Score
  <2>3. StoreOK(ask[a])'
    BY <1>6, <2>1 DEF AskGood, StoreOK, Storing, Saw
  <2>4. LookupOK(ask[a])'
    BY <2>1 DEF AskGood, LookupOK, Saw
  <2>5. HitOK(ask[a])'
    BY <2>1 DEF AskGood, HitOK
  <2> QED
    BY <2>2, <2>3, <2>4, <2>5 DEF AskGood
<1> QED
  BY <1>1, <1>5, <1>7 DEF IInv

\* Publishing invalidates nothing yet.
LEMMA PublishOK ==
    ASSUME IInv, NEW i \in IndexRuns, Publish(i)
    PROVE  IInv'
<1>1. /\ index[i] = "idle" /\ index' = [index EXCEPT ![i] = "published"]
      /\ UNCHANGED <<ask, version, exact, vec, payload, ids>>
      /\ raced \subseteq raced' /\ raced' \subseteq raced \cup {i}
      /\ i \in raced' \/ \A a \in Asks : ~Storing(a)
  BY DEF Publish, redis
<1>2. \A j \in IndexRuns : index'[j] = IF j = i THEN "published" ELSE index[j]
  BY <1>1 DEF IInv, TypeOK
<1>3. Bumped' = Bumped
  BY <1>1, <1>2 DEF Bumped
<1>4. Invalidated'
  BY <1>1, <1>2 DEF IInv, Invalidated, Clean, Published, Saw
<1>5. version' \in Versions /\ version <= version' /\ raced' \subseteq IndexRuns
  BY <1>1, BumpedFinite DEF IInv, TypeOK, Versions
<1> QED
  BY <1>1, <1>3, <1>4, <1>5, RunMove DEF IInv

\* The INCR leaves every key behind that was written before it.
LEMMA IncrOK ==
    ASSUME IInv, NEW i \in IndexRuns, Incr(i)
    PROVE  IInv'
<1>1. /\ index[i] = "published" /\ index' = [index EXCEPT ![i] = "bumped"]
      /\ version' = version + 1
      /\ UNCHANGED <<ask, exact, vec, payload, ids, raced>>
  BY DEF Incr
<1>2. \A j \in IndexRuns : index'[j] = IF j = i THEN "bumped" ELSE index[j]
  BY <1>1 DEF IInv, TypeOK
<1>3. version \in Nat
  BY BumpedFinite DEF IInv, TypeOK, Versions
<1>4. Bumped' = Bumped \cup {i} /\ i \notin Bumped
  BY <1>1, <1>2 DEF Bumped
<1>5. Cardinality(Bumped') = Cardinality(Bumped) + 1
  BY <1>4, BumpedFinite, FS_AddElement
<1>6. Bumped' \in SUBSET IndexRuns
  BY DEF Bumped
<1>7. Cardinality(Bumped') <= Cardinality(IndexRuns)
  BY <1>6, AsksAssumption, FS_Subset
<1>8. version' <= Cardinality(Bumped') /\ version' \in Versions
  BY <1>1, <1>3, <1>5, <1>7, BumpedFinite DEF IInv, Versions
<1>9. \A k \in Ids : k[2] \in Nat
  BY BumpedFinite DEF Ids, Versions
<1>10. Invalidated'
  <2>1. ASSUME NEW j \in Clean', NEW k \in Ids, index'[j] \in {"bumped", "done"}
        PROVE  Saw(exact[k], j)' \/ k[2] < version'
    <3>1. CASE j = i
      BY <1>1, <1>3, <1>9 DEF IInv, Entries, Stored, Saw
    <3>2. CASE j # i
      <4>1. j \in Clean /\ index[j] = index'[j]
        BY <1>1, <1>2, <2>1, <3>2 DEF Clean, Published
      <4>2. Saw(exact[k], j) \/ k[2] < version
        BY <2>1, <4>1 DEF IInv, Invalidated
      <4> QED
        BY <1>1, <1>3, <1>9, <4>2 DEF Saw
    <3> QED
      BY <3>1, <3>2
  <2>2. ASSUME NEW j \in Clean', NEW k \in ids', index'[j] = "done"
        PROVE  Saw(payload[k], j)'
    BY <1>1, <1>2, <2>2 DEF IInv, Invalidated, Clean, Published, Saw
  <2> QED
    BY <2>1, <2>2 DEF Invalidated
<1>11. version <= version' /\ raced \subseteq IndexRuns
  BY <1>1, <1>3 DEF IInv, TypeOK
<1> QED
  BY <1>1, <1>8, <1>10, <1>11, RunMove

\* The DEL makes every payload unfindable.
LEMMA DeleteIdsOK ==
    ASSUME IInv, NEW i \in IndexRuns, DeleteIds(i)
    PROVE  IInv'
<1>1. /\ index[i] = "bumped" /\ index' = [index EXCEPT ![i] = "done"]
      /\ ids' = {} /\ UNCHANGED <<ask, version, exact, vec, payload, raced>>
  BY DEF DeleteIds
<1>2. \A j \in IndexRuns : index'[j] = IF j = i THEN "done" ELSE index[j]
  BY <1>1 DEF IInv, TypeOK
<1>3. Bumped' = Bumped
  BY <1>1, <1>2 DEF Bumped
<1>4. Invalidated'
  BY <1>1, <1>2 DEF IInv, Invalidated, Clean, Published, Saw
<1>5. version' \in Versions /\ version <= version' /\ raced \subseteq IndexRuns
  BY <1>1, BumpedFinite DEF IInv, TypeOK, Versions
<1> QED
  BY <1>1, <1>3, <1>4, <1>5, RunMove DEF IInv

\* A run that stops half-way has promised nothing.
LEMMA UnbumpedOK ==
    ASSUME IInv, NEW i \in IndexRuns, Unbumped(i)
    PROVE  IInv'
<1>1. /\ index[i] \in {"published", "bumped"}
      /\ index' = [index EXCEPT ![i] = "unbumped"]
      /\ UNCHANGED <<ask, version, exact, vec, payload, ids, raced>>
  BY DEF Unbumped, redis
<1>2. \A j \in IndexRuns : index'[j] = IF j = i THEN "unbumped" ELSE index[j]
  BY <1>1 DEF IInv, TypeOK
<1>3. Bumped \subseteq Bumped' /\ Bumped' \in SUBSET IndexRuns
  BY <1>2 DEF Bumped
<1>4. Cardinality(Bumped) <= Cardinality(Bumped') /\ Cardinality(Bumped') \in Nat
  <2>1. IsFiniteSet(Bumped')
    BY <1>3, AsksAssumption, FS_Subset
  <2>2. Bumped \in SUBSET Bumped'
    BY <1>3
  <2> QED
    BY <2>1, <2>2, FS_Subset, FS_CardinalityType
<1>5. Invalidated'
  BY <1>1, <1>2 DEF IInv, Invalidated, Clean, Published, Saw
<1>6. version' \in Versions /\ version <= version' /\ raced \subseteq IndexRuns
      /\ version \in Nat
  BY <1>1, BumpedFinite DEF IInv, TypeOK, Versions
<1>7. version' <= Cardinality(Bumped')
  BY <1>1, <1>4, <1>6, BumpedFinite DEF IInv
<1> QED
  BY <1>1, <1>5, <1>6, <1>7, RunMove

-----------------------------------------------------------------------------
(* The specification *)

\* An empty cache that nobody has asked satisfies it.
LEMMA InitIInv == Init => IInv
<1> SUFFICES ASSUME Init PROVE IInv
  OBVIOUS
<1>1. 0 \in Versions /\ 0 <= Cardinality(Bumped)
  BY BumpedFinite DEF Versions
<1>2. PICK q \in Queries : ask = [a \in Asks |-> [
         pc |-> "idle", enabled |-> FALSE, q |-> q, version |-> 0,
         members |-> {}, best |-> {}, layer |-> "none", hit |-> NoAsk,
         refused |-> FALSE, seen |-> {}, after |-> {}]]
  BY DEF Init
<1>3. TypeOK
  <2>1. ask \in [Asks -> AskState]
    BY <1>1, <1>2 DEF AskState
  <2> QED
    BY <1>1, <2>1 DEF Init, TypeOK
<1>4. Entries /\ Invalidated
  BY DEF Init, Entries, Invalidated, Saw
<1>5. \A a \in Asks : /\ ask[a].pc = "idle" /\ ask[a].hit = NoAsk
                      /\ ask[a].best = {} /\ ask[a].after = {}
  BY <1>2
<1>6. \A a \in Asks : AskGood(ask[a])
  BY <1>5 DEF AskGood, AskOK, StoreOK, LookupOK, HitOK
<1> QED
  BY <1>1, <1>3, <1>4, <1>6 DEF IInv, Init

\* Every step preserves it.
LEMMA NextIInv == IInv /\ [Next]_vars => IInv'
<1> SUFFICES ASSUME IInv, [Next]_vars PROVE IInv'
  OBVIOUS
<1>1. ASSUME NEW a \in Asks, AskStep(a)
      PROVE  IInv'
  BY <1>1, AskStarts, GetVersionOK, GetExactOK, GetMembersOK, GetVecOK, ScannedOK,
     GetPayloadOK, InputGuardrailsOK, RetrieveOK, AnswerOK, SkipFailOK,
     SetVersionOK, SetVecOK, SetOK DEF AskStep
<1>2. ASSUME NEW i \in IndexRuns, IndexStep(i)
      PROVE  IInv'
  BY <1>2, PublishOK, IncrOK, DeleteIdsOK, UnbumpedOK DEF IndexStep
<1>3. CASE UNCHANGED vars
  <2>1. UNCHANGED <<ask, index, version, exact, vec, payload, ids, raced>>
    BY <1>3 DEF vars
  <2>2. TypeOK' /\ Bumped' = Bumped /\ Entries' /\ Invalidated'
    BY <2>1 DEF IInv, TypeOK, Bumped, Entries, Stored, Invalidated, Clean,
                Published, Saw
  <2>3. \A a \in Asks : AskGood(ask[a])'
    BY <2>1 DEF IInv, AskGood, AskOK, StoreOK, LookupOK, HitOK, Saw, Clean,
                Published
  <2> QED
    BY <2>1, <2>2, <2>3 DEF IInv
<1> QED
  BY <1>1, <1>2, <1>3 DEF Next

\* It holds in every reachable state.
LEMMA Inductive == Spec => []IInv
  BY InitIInv, NextIInv, PTL DEF Spec

\* The asks, the index runs and the keys of Redis keep their types; in
\* particular the version is raised at most once by each run.
THEOREM TypeCorrect == Spec => []TypeOK
<1>1. IInv => TypeOK
  BY DEF IInv
<1> QED
  BY <1>1, Inductive, PTL

\* An ask that begins after a run has invalidated the cache is given no answer
\* retrieved before that run published, provided that no ask was between its
\* retrieval and its end when it published (bump_corpus_version, get, set).
THEOREM InvalidationWorks == Spec => []InvalidationHolds
<1>1. IInv => InvalidationHolds
  BY DEF IInv, AskGood, LookupOK, Saw, InvalidationHolds
<1> QED
  BY <1>1, Inductive, PTL

\* What the cache returns is a stored answer, and no refusal, to the same
\* question or, from the semantic layer, to one above the threshold (get, set).
THEOREM HitsAnswer == Spec => []HitAnswersQuestion
<1>1. IInv => HitAnswersQuestion
  BY DEF IInv, AskGood, HitOK, HitAnswersQuestion
<1> QED
  BY <1>1, Inductive, PTL
=============================================================================
