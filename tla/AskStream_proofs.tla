--------------------------- MODULE AskStream_proofs ---------------------------
(***************************************************************************)
(* Proofs about AskStream, for any number of streams and plain questions,  *)
(* any pool and any number of stages.                                      *)
(***************************************************************************)
EXTENDS AskStream, TLAPS

-----------------------------------------------------------------------------
(* Where events stand *)

\* The types of an outcome, of the sentinel and of the final event.
O == {"answer", "error"}
S == {"sentinel"}
D == {"done"}
Callbacks == [to : Streams, event : Events]

\* The positions in q of the events whose type is in K.
Pos(q, K) == {i \in DOMAIN q : q[i].type \in K}

\* The positions in l of the callbacks that bring such an event to s.
LPos(l, s, K) == {i \in DOMAIN l : l[i].to = s /\ l[i].event.type \in K}

\* At most one position; every position of A before every one of B.
One(A) == \A i, j \in A : i = j
Before(A, B) == \A i \in A, j \in B : i < j

-----------------------------------------------------------------------------
(* The invariant *)

\* What holds of one stream: th is its thread, l the loop's callbacks, q its
\* queue, cl its client and sn what was written to the client.  The outcome is
\* posted once and is in one place; the sentinel stays behind it on the way.
StreamOK(s, th, l, q, cl, sn) ==
    /\ cl = "none" => th = "idle"
    /\ th \in {"finally", "ended"} <=>
         LPos(l, s, O) # {} \/ Pos(q, O) # {} \/ Pos(sn, O) # {}
    /\ th # "ended" => LPos(l, s, S) = {} /\ Pos(q, S) = {}
    /\ LPos(l, s, D) = {} /\ Pos(q, D) = {}
    /\ One(LPos(l, s, O)) /\ One(Pos(q, O)) /\ One(Pos(sn, O))
    /\ LPos(l, s, O) # {} => Pos(q, O) = {} /\ Pos(sn, O) = {} /\ Pos(q, S) = {}
    /\ Pos(q, O) # {} => Pos(sn, O) = {}
    /\ Before(LPos(l, s, O), LPos(l, s, S)) /\ Before(Pos(q, O), Pos(q, S))
    /\ \A i \in LPos(l, s, O) : l[i].event.by = s
    /\ \A i \in Pos(q, O) : q[i].by = s
    /\ \A i \in Pos(sn, O) : sn[i].by = s
    /\ \A i \in Pos(sn, D) : i = Len(sn) /\ Pos(sn, O) # {}
    /\ Pos(sn, D) # {} => cl = "done"
    /\ cl = "done" => sn # <<>> /\ sn[Len(sn)].type = "done"

\* The inductive invariant.
IInv ==
    /\ TypeOK
    /\ \A s \in Streams : StreamOK(s, thread[s], loop, queue[s], client[s], sent[s])

-----------------------------------------------------------------------------
(* Putting an event at the end of a sequence, taking one off its head *)

LEMMA AppendPos ==
    ASSUME NEW V, NEW q \in Seq(V), NEW e \in V, NEW K
    PROVE  /\ Append(q, e) \in Seq(V) /\ Append(q, e) # <<>>
           /\ Len(Append(q, e)) = Len(q) + 1 /\ Len(q) \in Nat
           /\ Append(q, e)[Len(q) + 1] = e
           /\ \A i : i \in Pos(q, K) => i \in 1..Len(q) /\ Append(q, e)[i] = q[i]
           /\ Pos(Append(q, e), K) =
                Pos(q, K) \cup (IF e.type \in K THEN {Len(q) + 1} ELSE {})
<1>1. /\ Append(q, e) \in Seq(V) /\ Len(q) \in Nat
      /\ Len(Append(q, e)) = Len(q) + 1
      /\ DOMAIN Append(q, e) = 1..(Len(q) + 1) /\ DOMAIN q = 1..Len(q)
      /\ Append(q, e)[Len(q) + 1] = e
      /\ \A i \in 1..Len(q) : Append(q, e)[i] = q[i]
  OBVIOUS
<1>2. PICK a, n : a = Append(q, e) /\ n = Len(q)
  OBVIOUS
<1>3. Pos(a, K) = Pos(q, K) \cup (IF e.type \in K THEN {n + 1} ELSE {})
  <2>1. ASSUME NEW i \in Pos(a, K)
        PROVE  i \in Pos(q, K) \cup (IF e.type \in K THEN {n + 1} ELSE {})
    <3>1. CASE i = n + 1
      BY <1>1, <1>2, <2>1, <3>1 DEF Pos
    <3>2. CASE i \in 1..n
      BY <1>1, <1>2, <2>1, <3>2 DEF Pos
    <3> QED
      BY <1>1, <1>2, <2>1, <3>1, <3>2 DEF Pos
  <2>2. ASSUME NEW i \in Pos(q, K) PROVE i \in Pos(a, K)
    BY <1>1, <1>2, <2>2 DEF Pos
  <2>3. ASSUME e.type \in K PROVE n + 1 \in Pos(a, K)
    BY <1>1, <1>2, <2>3 DEF Pos
  <2> QED
    BY <2>1, <2>2, <2>3
<1>4. Append(q, e) # <<>>
  BY <1>1
<1> QED
  BY <1>1, <1>2, <1>3, <1>4 DEF Pos

\* The positions B in m are the positions A in l, but for 1, moved down by one.
Shifted(l, A, m, B) ==
    /\ \A i \in B : i \in Nat /\ i >= 1 /\ i + 1 \in A /\ m[i] = l[i + 1]
    /\ \A i \in A : i \in Nat /\ i >= 1 /\ (i # 1 => i - 1 \in B)

LEMMA TailPos ==
    ASSUME NEW V, NEW q \in Seq(V), q # <<>>, NEW K
    PROVE  /\ Head(q).type \in K <=> 1 \in Pos(q, K)
           /\ Shifted(q, Pos(q, K), Tail(q), Pos(Tail(q), K))
<1>1. /\ Tail(q) \in Seq(V) /\ Head(q) \in V /\ Head(q) = q[1]
      /\ Len(q) \in Nat /\ Len(q) >= 1 /\ Len(Tail(q)) = Len(q) - 1
      /\ DOMAIN q = 1..Len(q) /\ DOMAIN Tail(q) = 1..(Len(q) - 1)
      /\ \A i \in 1..(Len(q) - 1) : Tail(q)[i] = q[i + 1]
  OBVIOUS
<1>2. Head(q).type \in K <=> 1 \in Pos(q, K)
  BY <1>1 DEF Pos
<1>3. ASSUME NEW i \in Pos(Tail(q), K)
      PROVE  /\ i \in Nat /\ i >= 1 /\ i + 1 \in Pos(q, K)
             /\ Tail(q)[i] = q[i + 1]
  BY <1>1, <1>3 DEF Pos
<1>4. ASSUME NEW i \in Pos(q, K)
      PROVE  i \in Nat /\ i >= 1 /\ (i # 1 => i - 1 \in Pos(Tail(q), K))
  <2>1. i \in 1..Len(q) /\ q[i].type \in K
    BY <1>1, <1>4 DEF Pos
  <2>2. ASSUME i # 1 PROVE i - 1 \in 1..(Len(q) - 1) /\ Tail(q)[i - 1] = q[i]
    BY <1>1, <2>1, <2>2
  <2> QED
    BY <1>1, <2>1, <2>2 DEF Pos
<1> QED
  BY <1>2, <1>3, <1>4 DEF Shifted

\* The same of the callbacks of the loop.
LEMMA AppendLPos ==
    ASSUME NEW V, NEW l \in Seq(V), NEW c \in V, NEW s, NEW K
    PROVE  /\ Append(l, c) \in Seq(V) /\ Len(l) \in Nat
           /\ Append(l, c)[Len(l) + 1] = c
           /\ \A i : i \in LPos(l, s, K) => i \in 1..Len(l) /\ Append(l, c)[i] = l[i]
           /\ LPos(Append(l, c), s, K) =
                LPos(l, s, K) \cup
                  (IF c.to = s /\ c.event.type \in K THEN {Len(l) + 1} ELSE {})
<1>1. /\ Append(l, c) \in Seq(V) /\ Len(l) \in Nat
      /\ Len(Append(l, c)) = Len(l) + 1
      /\ DOMAIN Append(l, c) = 1..(Len(l) + 1) /\ DOMAIN l = 1..Len(l)
      /\ Append(l, c)[Len(l) + 1] = c
      /\ \A i \in 1..Len(l) : Append(l, c)[i] = l[i]
  OBVIOUS
<1>2. PICK a, n : a = Append(l, c) /\ n = Len(l)
  OBVIOUS
<1> DEFINE Fits == c.to = s /\ c.event.type \in K
<1>3. LPos(a, s, K) = LPos(l, s, K) \cup (IF Fits THEN {n + 1} ELSE {})
  <2>1. ASSUME NEW i \in LPos(a, s, K)
        PROVE  i \in LPos(l, s, K) \cup (IF Fits THEN {n + 1} ELSE {})
    <3>1. CASE i = n + 1
      BY <1>1, <1>2, <2>1, <3>1 DEF LPos
    <3>2. CASE i \in 1..n
      BY <1>1, <1>2, <2>1, <3>2 DEF LPos
    <3> QED
      BY <1>1, <1>2, <2>1, <3>1, <3>2 DEF LPos
  <2>2. ASSUME NEW i \in LPos(l, s, K) PROVE i \in LPos(a, s, K)
    BY <1>1, <1>2, <2>2 DEF LPos
  <2>3. ASSUME Fits PROVE n + 1 \in LPos(a, s, K)
    BY <1>1, <1>2, <2>3 DEF LPos
  <2> QED
    BY <2>1, <2>2, <2>3
<1> QED
  BY <1>1, <1>2, <1>3 DEF LPos

LEMMA TailLPos ==
    ASSUME NEW V, NEW l \in Seq(V), l # <<>>, NEW s, NEW K
    PROVE  /\ Head(l).to = s /\ Head(l).event.type \in K <=> 1 \in LPos(l, s, K)
           /\ Shifted(l, LPos(l, s, K), Tail(l), LPos(Tail(l), s, K))
<1>1. /\ Tail(l) \in Seq(V) /\ Head(l) \in V /\ Head(l) = l[1]
      /\ Len(l) \in Nat /\ Len(l) >= 1 /\ Len(Tail(l)) = Len(l) - 1
      /\ DOMAIN l = 1..Len(l) /\ DOMAIN Tail(l) = 1..(Len(l) - 1)
      /\ \A i \in 1..(Len(l) - 1) : Tail(l)[i] = l[i + 1]
  OBVIOUS
<1>2. Head(l).to = s /\ Head(l).event.type \in K <=> 1 \in LPos(l, s, K)
  BY <1>1 DEF LPos
<1>3. ASSUME NEW i \in LPos(Tail(l), s, K)
      PROVE  /\ i \in Nat /\ i >= 1 /\ i + 1 \in LPos(l, s, K)
             /\ Tail(l)[i] = l[i + 1]
  BY <1>1, <1>3 DEF LPos
<1>4. ASSUME NEW i \in LPos(l, s, K)
      PROVE  i \in Nat /\ i >= 1 /\ (i # 1 => i - 1 \in LPos(Tail(l), s, K))
  <2>1. i \in 1..Len(l) /\ l[i].to = s /\ l[i].event.type \in K
    BY <1>1, <1>4 DEF LPos
  <2>2. ASSUME i # 1 PROVE i - 1 \in 1..(Len(l) - 1) /\ Tail(l)[i - 1] = l[i]
    BY <1>1, <2>1, <2>2
  <2> QED
    BY <1>1, <2>1, <2>2 DEF LPos
<1> QED
  BY <1>2, <1>3, <1>4 DEF Shifted

-----------------------------------------------------------------------------
(* What a step means for one stream *)

\* The thread or the client moves on, short of an outcome.
LEMMA MoveKeepsStream ==
    ASSUME NEW s, NEW th, NEW th2, NEW l, NEW q, NEW cl, NEW cl2, NEW sn,
           StreamOK(s, th, l, q, cl, sn),
           th2 = th \/ {th, th2} \cap {"finally", "ended"} = {},
           cl2 = cl \/ {cl, cl2} \cap {"done"} = {},
           cl2 = "none" => th2 = "idle"
    PROVE  StreamOK(s, th2, l, q, cl2, sn)
<1>1. th2 \in {"finally", "ended"} <=> th \in {"finally", "ended"}
  OBVIOUS
<1>2. th2 = "ended" <=> th = "ended"
  OBVIOUS
<1>3. cl2 = "done" <=> cl = "done"
  OBVIOUS
<1> QED
  BY <1>1, <1>2, <1>3 DEF StreamOK

\* A callback for another stream, or a stage, is posted.
LEMMA PostKeepsStream ==
    ASSUME NEW s, NEW th, NEW V, NEW l \in Seq(V), NEW q, NEW cl, NEW sn,
           StreamOK(s, th, l, q, cl, sn),
           NEW c \in V, c.to # s \/ c.event.type = "stage"
    PROVE  StreamOK(s, th, Append(l, c), q, cl, sn)
<1>1. PICK m, n : m = Append(l, c) /\ n = Len(l)
  OBVIOUS
<1>2. ASSUME NEW K
      PROVE  /\ n \in Nat /\ m[n + 1] = c
             /\ \A i \in LPos(l, s, K) : m[i] = l[i] /\ i \in 1..n
             /\ LPos(m, s, K) = LPos(l, s, K) \cup
                  (IF c.to = s /\ c.event.type \in K THEN {n + 1} ELSE {})
  BY ONLY <1>1, AppendLPos, l \in Seq(V), c \in V
<1>3. ASSUME NEW K, "stage" \notin K
      PROVE  LPos(m, s, K) = LPos(l, s, K)
  BY ONLY <1>2, <1>3, c.to # s \/ c.event.type = "stage"
<1>4. "stage" \notin O /\ "stage" \notin S /\ "stage" \notin D
  BY DEF O, S, D
<1>5. /\ LPos(m, s, O) = LPos(l, s, O) /\ LPos(m, s, S) = LPos(l, s, S)
      /\ LPos(m, s, D) = LPos(l, s, D)
      /\ \A i \in LPos(l, s, O) : m[i] = l[i]
  BY <1>2, <1>3, <1>4
<1>6. StreamOK(s, th, m, q, cl, sn)
  BY <1>5 DEF StreamOK
<1> QED
  BY <1>1, <1>6

\* The outcome is posted.
LEMMA OutcomeKeepsStream ==
    ASSUME NEW s, NEW th, NEW V, NEW l \in Seq(V), NEW q, NEW cl, NEW sn,
           StreamOK(s, th, l, q, cl, sn), th \in {"asking", "nodes"},
           NEW c \in V, c.to = s, c.event.type \in O, c.event.by = s
    PROVE  StreamOK(s, "finally", Append(l, c), q, cl, sn)
<1>1. PICK m, n : m = Append(l, c) /\ n = Len(l)
  OBVIOUS
<1>2. ASSUME NEW K
      PROVE  /\ n \in Nat /\ m[n + 1] = c
             /\ \A i \in LPos(l, s, K) : m[i] = l[i] /\ i \in 1..n
             /\ LPos(m, s, K) = LPos(l, s, K) \cup
                  (IF c.to = s /\ c.event.type \in K THEN {n + 1} ELSE {})
  BY ONLY <1>1, AppendLPos, l \in Seq(V), c \in V
<1>3. /\ LPos(l, s, O) = {} /\ Pos(q, O) = {} /\ Pos(sn, O) = {}
      /\ LPos(l, s, S) = {} /\ Pos(q, S) = {} /\ LPos(l, s, D) = {}
      /\ cl # "none"
  BY DEF StreamOK
<1>4. c.event.type \notin S /\ c.event.type \notin D
  BY DEF O, S, D
<1>5. /\ LPos(m, s, O) = {n + 1} /\ LPos(m, s, S) = {} /\ LPos(m, s, D) = {}
      /\ m[n + 1] = c
  BY ONLY <1>2, <1>3, <1>4, c.to = s, c.event.type \in O
<1>6. StreamOK(s, "finally", m, q, cl, sn)
  BY <1>3, <1>5 DEF StreamOK, One, Before
<1> QED
  BY <1>1, <1>6

\* The sentinel is posted: the outcome is ahead of it, wherever it is.
LEMMA SentinelKeepsStream ==
    ASSUME NEW s, NEW V, NEW l \in Seq(V), NEW q, NEW cl, NEW sn,
           StreamOK(s, "finally", l, q, cl, sn),
           NEW c \in V, c.to = s, c.event.type \in S
    PROVE  StreamOK(s, "ended", Append(l, c), q, cl, sn)
<1>1. PICK m, n : m = Append(l, c) /\ n = Len(l)
  OBVIOUS
<1>2. ASSUME NEW K
      PROVE  /\ n \in Nat /\ m[n + 1] = c
             /\ \A i \in LPos(l, s, K) : m[i] = l[i] /\ i \in 1..n
             /\ LPos(m, s, K) = LPos(l, s, K) \cup
                  (IF c.to = s /\ c.event.type \in K THEN {n + 1} ELSE {})
  BY ONLY <1>1, AppendLPos, l \in Seq(V), c \in V
<1>3. LPos(l, s, S) = {} /\ Pos(q, S) = {}
  BY DEF StreamOK
<1>4. c.event.type \notin O /\ c.event.type \notin D
  BY DEF O, S, D
<1>5. /\ LPos(m, s, O) = LPos(l, s, O) /\ LPos(m, s, S) = {n + 1}
      /\ LPos(m, s, D) = LPos(l, s, D) /\ n \in Nat
      /\ \A i \in LPos(l, s, O) : m[i] = l[i] /\ i \in 1..n
  <2>1. LPos(m, s, O) = LPos(l, s, O) /\ LPos(m, s, D) = LPos(l, s, D)
    BY ONLY <1>2, <1>4
  <2>2. LPos(m, s, S) = {n + 1}
    BY ONLY <1>2, <1>3, c.to = s, c.event.type \in S
  <2>3. n \in Nat /\ \A i \in LPos(l, s, O) : m[i] = l[i] /\ i \in 1..n
    BY ONLY <1>2
  <2> QED
    BY <2>1, <2>2, <2>3
<1>6. Before(LPos(m, s, O), LPos(m, s, S))
  BY <1>5 DEF Before
<1>7. StreamOK(s, "ended", m, q, cl, sn)
  BY <1>3, <1>5, <1>6 DEF StreamOK
<1> QED
  BY <1>1, <1>7

\* What is empty, single or ordered stays so when positions are moved down: A
\* and B are positions before, A2 and B2 after.
LEMMA ShiftKeeps ==
    ASSUME NEW l, NEW m, NEW A, NEW B, NEW A2, NEW B2,
           Shifted(l, A, m, A2), Shifted(l, B, m, B2), One(A), Before(A, B)
    PROVE  /\ One(A2) /\ Before(A2, B2)
           /\ A = {} => A2 = {}
           /\ B = {} => B2 = {}
           /\ 1 \notin A => (A2 = {} <=> A = {})
           /\ 1 \in A => A2 = {} /\ 1 \notin B
           /\ 1 \in B => A = {}
<1>1. /\ \A i \in A2 : i \in Nat /\ i >= 1 /\ i + 1 \in A
      /\ \A i \in A : i \in Nat /\ i >= 1 /\ (i # 1 => i - 1 \in A2)
  BY DEF Shifted
<1>2. /\ \A i \in B2 : i \in Nat /\ i >= 1 /\ i + 1 \in B
      /\ \A i \in B : i \in Nat /\ i >= 1 /\ (i # 1 => i - 1 \in B2)
  BY DEF Shifted
<1>3. One(A2)
  <2> SUFFICES ASSUME NEW i \in A2, NEW j \in A2 PROVE i = j
    BY DEF One
  <2>1. i \in Nat /\ j \in Nat /\ i + 1 = j + 1
    BY <1>1 DEF One
  <2> QED
    BY <2>1
<1>4. Before(A2, B2)
  <2> SUFFICES ASSUME NEW i \in A2, NEW j \in B2 PROVE i < j
    BY DEF Before
  <2>1. i \in Nat /\ j \in Nat /\ i + 1 < j + 1
    BY <1>1, <1>2 DEF Before
  <2> QED
    BY <2>1
<1>5. (A = {} => A2 = {}) /\ (B = {} => B2 = {})
  BY <1>1, <1>2
<1>6. 1 \notin A => (A2 = {} <=> A = {})
  BY <1>1
<1>7. ASSUME 1 \in A PROVE A2 = {} /\ 1 \notin B
  <2>1. ASSUME NEW i \in A2 PROVE FALSE
    <3>1. i \in Nat /\ i >= 1 /\ i + 1 = 1
      BY <1>1, <1>7, <2>1 DEF One
    <3> QED
      BY <3>1
  <2>2. 1 \notin B
    BY <1>7 DEF Before
  <2> QED
    BY <2>1, <2>2
<1>8. ASSUME 1 \in B, NEW i \in A PROVE FALSE
  <2>1. i < 1 /\ i \in Nat /\ i >= 1
    BY <1>1, <1>8 DEF Before
  <2> QED
    BY <2>1
<1> QED
  BY <1>3, <1>4, <1>5, <1>6, <1>7, <1>8

\* What the invariant says of the loop's callbacks alone.
LoopOK(l, s) ==
    /\ One(LPos(l, s, O)) /\ Before(LPos(l, s, O), LPos(l, s, S))
    /\ LPos(l, s, D) = {} /\ \A i \in LPos(l, s, O) : l[i].event.by = s

\* What is left in m of the outcome and the sentinel of s in l, when the oldest
\* callback of l has run.
LoopRan(l, m, s) ==
    /\ LPos(l, s, S) = {} => LPos(m, s, S) = {}
    /\ LPos(l, s, O) = {} => LPos(m, s, O) = {}
    /\ 1 \notin LPos(l, s, O) => (LPos(m, s, O) = {} <=> LPos(l, s, O) = {})
    /\ 1 \in LPos(l, s, O) => LPos(m, s, O) = {} /\ 1 \notin LPos(l, s, S)
    /\ 1 \in LPos(l, s, S) => LPos(l, s, O) = {}

\* The positions of the loop, for stream s, after its oldest callback has run.
LEMMA LoopMoves ==
    ASSUME NEW s, NEW V, NEW l \in Seq(V), l # <<>>, NEW m, m = Tail(l),
           LoopOK(l, s)
    PROVE  LoopOK(m, s) /\ LoopRan(l, m, s)
<1>1. ASSUME NEW K PROVE Shifted(l, LPos(l, s, K), m, LPos(m, s, K))
  BY ONLY TailLPos, l \in Seq(V), l # <<>>, m = Tail(l)
<1>2. ASSUME NEW i \in LPos(m, s, O) PROVE m[i].event.by = s
  <2>1. i + 1 \in LPos(l, s, O) /\ m[i] = l[i + 1]
    BY <1>1, <1>2 DEF Shifted
  <2> QED
    BY <2>1 DEF LoopOK
<1>3. LPos(m, s, D) = {}
  BY <1>1 DEF Shifted, LoopOK
<1>4. PICK A, A2, B, B2 : /\ A = LPos(l, s, O) /\ A2 = LPos(m, s, O)
                          /\ B = LPos(l, s, S) /\ B2 = LPos(m, s, S)
  OBVIOUS
<1>5. Shifted(l, A, m, A2) /\ Shifted(l, B, m, B2) /\ One(A) /\ Before(A, B)
  BY <1>1, <1>4 DEF LoopOK
<1>6. /\ One(A2) /\ Before(A2, B2)
      /\ A = {} => A2 = {}
      /\ B = {} => B2 = {}
      /\ 1 \notin A => (A2 = {} <=> A = {})
      /\ 1 \in A => A2 = {} /\ 1 \notin B
      /\ 1 \in B => A = {}
  BY ONLY <1>5, ShiftKeeps
<1> QED
  BY <1>2, <1>3, <1>4, <1>6 DEF LoopOK, LoopRan

\* The loop runs the callback of another stream.
LEMMA OtherCallbackKeepsStream ==
    ASSUME NEW s, NEW th, NEW V, NEW l \in Seq(V), NEW q, NEW cl, NEW sn,
           StreamOK(s, th, l, q, cl, sn), l # <<>>, Head(l).to # s
    PROVE  StreamOK(s, th, Tail(l), q, cl, sn)
<1>1. PICK m : m = Tail(l)
  OBVIOUS
<1>2. 1 \notin LPos(l, s, O)
  BY ONLY TailLPos, l \in Seq(V), l # <<>>, Head(l).to # s
<1>3. LoopOK(m, s) /\ LoopRan(l, m, s)
  <2>1. LoopOK(l, s)
    BY DEF StreamOK, LoopOK
  <2> QED
    BY ONLY <1>1, <2>1, LoopMoves, l \in Seq(V), l # <<>>
<1>4. StreamOK(s, th, m, q, cl, sn)
  BY <1>2, <1>3 DEF StreamOK, LoopOK, LoopRan
<1> QED
  BY <1>1, <1>4

\* The loop runs a callback of the stream: the event goes to the end of its
\* queue, an outcome ahead of the sentinel.
LEMMA OwnCallbackKeepsStream ==
    ASSUME NEW s, NEW th, NEW V, NEW l \in Seq(V), NEW W, NEW q \in Seq(W),
           NEW cl, NEW sn, StreamOK(s, th, l, q, cl, sn), l # <<>>, Head(l).to = s,
           Head(l).event \in W
    PROVE  StreamOK(s, th, Tail(l), Append(q, Head(l).event), cl, sn)
<1>1. PICK m, e, p, n : /\ m = Tail(l) /\ e = Head(l).event /\ p = Append(q, e)
                        /\ n = Len(q)
  OBVIOUS
<1>2. LoopOK(l, s)
  BY DEF StreamOK, LoopOK
<1>3. LoopOK(m, s) /\ LoopRan(l, m, s)
  BY ONLY <1>1, <1>2, LoopMoves, l \in Seq(V), l # <<>>
<1>4. ASSUME NEW K PROVE e.type \in K <=> 1 \in LPos(l, s, K)
  BY ONLY <1>1, TailLPos, l \in Seq(V), l # <<>>, Head(l).to = s
<1>5. ASSUME NEW K
      PROVE  /\ n \in Nat /\ p[n + 1] = e
             /\ \A i \in Pos(q, K) : i \in 1..n /\ p[i] = q[i]
             /\ Pos(p, K) = Pos(q, K) \cup (IF e.type \in K THEN {n + 1} ELSE {})
  BY ONLY <1>1, AppendPos, q \in Seq(W), Head(l).event \in W
<1>6. e.type \notin D
  BY <1>2, <1>4 DEF LoopOK
<1>7. Pos(p, D) = {}
  BY <1>5, <1>6 DEF StreamOK
<1>8. CASE e.type \in O
  <2>1. e.type \notin S
    BY <1>8 DEF O, S
  <2>2. 1 \in LPos(l, s, O) /\ LPos(m, s, O) = {}
    BY <1>3, <1>4, <1>8 DEF LoopRan
  <2>3. Pos(q, O) = {} /\ Pos(sn, O) = {} /\ Pos(q, S) = {}
    BY <2>2 DEF StreamOK
  <2>4. Pos(p, O) = {n + 1} /\ Pos(p, S) = {} /\ p[n + 1] = e
    BY ONLY <1>5, <1>8, <2>1, <2>3
  <2>5. e.by = s
    <3>1. Head(l) = l[1]
      OBVIOUS
    <3> QED
      BY <1>1, <1>2, <2>2, <3>1 DEF LoopOK
  <2>6. StreamOK(s, th, m, p, cl, sn)
    BY <1>3, <1>7, <2>2, <2>3, <2>4, <2>5 DEF StreamOK, LoopOK, LoopRan, One, Before
  <2> QED
    BY <1>1, <2>6
<1>9. CASE e.type \in S
  <2>1. e.type \notin O
    BY <1>9 DEF O, S
  <2>2. LPos(l, s, S) # {} /\ LPos(l, s, O) = {} /\ LPos(m, s, O) = {}
    BY <1>3, <1>4, <1>9 DEF LoopRan
  <2>3. th = "ended"
    BY <2>2 DEF StreamOK
  <2>4. /\ Pos(p, O) = Pos(q, O) /\ Pos(p, S) = Pos(q, S) \cup {n + 1}
        /\ \A i \in Pos(q, O) : i \in 1..n /\ p[i] = q[i]
        /\ n \in Nat
    BY ONLY <1>5, <1>9, <2>1
  <2>5. Before(Pos(p, O), Pos(p, S))
    BY <2>4 DEF StreamOK, Before
  <2>6. StreamOK(s, th, m, p, cl, sn)
    BY <1>3, <1>7, <2>2, <2>3, <2>4, <2>5 DEF StreamOK, LoopOK, LoopRan
  <2> QED
    BY <1>1, <2>6
<1>10. CASE e.type \notin O /\ e.type \notin S
  <2>1. LPos(m, s, O) = {} <=> LPos(l, s, O) = {}
    BY <1>3, <1>4, <1>10 DEF LoopRan
  <2>2. /\ Pos(p, O) = Pos(q, O) /\ Pos(p, S) = Pos(q, S)
        /\ \A i \in Pos(q, O) : p[i] = q[i]
    BY ONLY <1>5, <1>10
  <2>3. StreamOK(s, th, m, p, cl, sn)
    BY <1>3, <1>7, <2>1, <2>2 DEF StreamOK, LoopOK, LoopRan
  <2> QED
    BY <1>1, <2>3
<1> QED
  BY <1>8, <1>9, <1>10

\* The generator takes an event off the queue and writes it to the client.
LEMMA DeliverKeepsStream ==
    ASSUME NEW s, NEW th, NEW l, NEW W, NEW q \in Seq(W), NEW sn \in Seq(W),
           StreamOK(s, th, l, q, "open", sn), q # <<>>,
           NEW e, e = Head(q), NEW w \in W, w = Written(s, e),
           NEW cl2, cl2 = IF e.type = "sentinel" THEN "done" ELSE "open"
    PROVE  StreamOK(s, th, l, Tail(q), cl2, Append(sn, w))
<1>1. PICK m, p, n : m = Tail(q) /\ p = Append(sn, w) /\ n = Len(sn)
  OBVIOUS
<1>2. One(Pos(q, O)) /\ Before(Pos(q, O), Pos(q, S)) /\ Pos(sn, D) = {}
  BY DEF StreamOK
<1>3. ASSUME NEW K PROVE Shifted(q, Pos(q, K), m, Pos(m, K))
  BY ONLY <1>1, TailPos, q \in Seq(W), q # <<>>
<1>4. ASSUME NEW K PROVE e.type \in K <=> 1 \in Pos(q, K)
  BY ONLY <1>1, TailPos, q \in Seq(W), q # <<>>, e = Head(q)
<1>5. /\ One(Pos(m, O)) /\ Before(Pos(m, O), Pos(m, S))
      /\ Pos(q, O) = {} => Pos(m, O) = {}
      /\ Pos(q, S) = {} => Pos(m, S) = {}
      /\ 1 \notin Pos(q, O) => (Pos(m, O) = {} <=> Pos(q, O) = {})
      /\ 1 \in Pos(q, O) => Pos(m, O) = {} /\ 1 \notin Pos(q, S)
      /\ 1 \in Pos(q, S) => Pos(q, O) = {}
  <2>1. PICK A, A2, B, B2 : /\ A = Pos(q, O) /\ A2 = Pos(m, O)
                            /\ B = Pos(q, S) /\ B2 = Pos(m, S)
    OBVIOUS
  <2>2. Shifted(q, A, m, A2) /\ Shifted(q, B, m, B2) /\ One(A) /\ Before(A, B)
    BY <1>2, <1>3, <2>1
  <2>3. /\ One(A2) /\ Before(A2, B2)
        /\ A = {} => A2 = {}
        /\ B = {} => B2 = {}
        /\ 1 \notin A => (A2 = {} <=> A = {})
        /\ 1 \in A => A2 = {} /\ 1 \notin B
        /\ 1 \in B => A = {}
    BY ONLY <2>2, ShiftKeeps
  <2> QED
    BY <2>1, <2>3
<1>6. \A i \in Pos(m, O) : m[i].by = s
  BY <1>3 DEF Shifted, StreamOK
<1>7. Pos(m, D) = {}
  BY <1>3 DEF Shifted, StreamOK
<1>8. ASSUME NEW K
      PROVE  /\ n \in Nat /\ Len(p) = n + 1 /\ p # <<>> /\ p[n + 1] = w
             /\ \A i \in Pos(sn, K) : i \in 1..n /\ p[i] = sn[i]
             /\ Pos(p, K) = Pos(sn, K) \cup (IF w.type \in K THEN {n + 1} ELSE {})
  BY ONLY <1>1, AppendPos, sn \in Seq(W), w \in W
<1>9. e.type \notin D
  BY <1>4 DEF StreamOK
<1>10. CASE e.type \in S
  <2>1. w.type = "done" /\ w.type \in D /\ w.type \notin O /\ cl2 = "done"
    BY <1>10 DEF Written, Event, O, S, D
  <2>2. Pos(q, S) # {} /\ Pos(q, O) = {} /\ Pos(m, O) = {}
    BY <1>4, <1>5, <1>10
  <2>3. th = "ended" /\ LPos(l, s, O) = {} /\ Pos(sn, O) # {}
    BY <2>2 DEF StreamOK
  <2>4. /\ Pos(p, O) = Pos(sn, O) /\ Pos(p, D) = {n + 1} /\ Len(p) = n + 1
        /\ p # <<>> /\ p[n + 1] = w
        /\ \A i \in Pos(sn, O) : p[i] = sn[i]
    BY ONLY <1>2, <1>8, <2>1
  <2>5. StreamOK(s, th, l, m, cl2, p)
    BY <1>5, <1>6, <1>7, <2>1, <2>2, <2>3, <2>4 DEF StreamOK
  <2> QED
    BY <1>1, <2>5
<1>11. CASE e.type \in O
  <2>1. w = e /\ w.type \in O /\ w.type \notin D /\ cl2 = "open"
    BY <1>11 DEF Written, O, D
  <2>2. 1 \in Pos(q, O) /\ Pos(m, O) = {}
    BY <1>4, <1>5, <1>11
  <2>3. Pos(sn, O) = {} /\ LPos(l, s, O) = {}
    BY <2>2 DEF StreamOK
  <2>4. Pos(p, O) = {n + 1} /\ Pos(p, D) = {} /\ p[n + 1] = w
    BY ONLY <1>2, <1>8, <2>1, <2>3
  <2>5. w.by = s
    <3>1. Head(q) = q[1]
      OBVIOUS
    <3> QED
      BY <2>1, <2>2, <3>1 DEF StreamOK
  <2>6. StreamOK(s, th, l, m, cl2, p)
    BY <1>5, <1>6, <1>7, <2>1, <2>2, <2>3, <2>4, <2>5 DEF StreamOK, One
  <2> QED
    BY <1>1, <2>6
<1>12. CASE e.type \notin O /\ e.type \notin S
  <2>1. w = e /\ w.type \notin O /\ w.type \notin D /\ cl2 = "open"
    BY <1>9, <1>12 DEF Written, S
  <2>2. Pos(m, O) = {} <=> Pos(q, O) = {}
    BY <1>4, <1>5, <1>12
  <2>3. /\ Pos(p, O) = Pos(sn, O) /\ Pos(p, D) = {}
        /\ \A i \in Pos(sn, O) : p[i] = sn[i]
    BY ONLY <1>2, <1>8, <2>1
  <2>4. StreamOK(s, th, l, m, cl2, p)
    BY <1>5, <1>6, <1>7, <2>1, <2>2, <2>3 DEF StreamOK
  <2> QED
    BY <1>1, <2>4
<1> QED
  BY <1>10, <1>11, <1>12

-----------------------------------------------------------------------------
(* Every action keeps the invariant *)

Places == {"idle", "submitted", "cancelled", "routing", "asking", "nodes",
           "finally", "ended"}

\* The state of one stream.
Here(s) == StreamOK(s, thread[s], loop, queue[s], client[s], sent[s])
Moved(s) == StreamOK(s, thread'[s], loop', queue'[s], client'[s], sent'[s])

\* A step that leaves every stream well.
LEMMA Conclude ==
    ASSUME TypeOK', \A q \in Streams : Moved(q)
    PROVE  IInv'
  BY DEF IInv, Moved

\* What the invariant gives to every step.
LEMMA Given ==
    ASSUME IInv
    PROVE  /\ thread \in [Requests -> Places] /\ on_stage \in Streams \cup {NoOne}
           /\ stages \in [Requests -> 0..MaxStages]
           /\ loop \in Seq(Callbacks) /\ queue \in [Streams -> Seq(Events)]
           /\ client \in [Streams -> {"none", "open", "gone", "done"}]
           /\ sent \in [Streams -> Seq(Events)]
           /\ \A q \in Streams : Here(q) /\ q \in Requests
  BY DEF IInv, TypeOK, Here, Places, Callbacks, Requests

\* The type of the state, in the same terms.
LEMMA TypeFrom ==
    ASSUME thread' \in [Requests -> Places], on_stage' \in Streams \cup {NoOne},
           stages' \in [Requests -> 0..MaxStages],
           loop' \in Seq(Callbacks), queue' \in [Streams -> Seq(Events)],
           client' \in [Streams -> {"none", "open", "gone", "done"}],
           sent' \in [Streams -> Seq(Events)]
    PROVE  TypeOK'
  BY DEF TypeOK, Places, Callbacks

\* Threads and clients move, nothing is posted or delivered.
LEMMA QuietKeepsInv ==
    ASSUME IInv, UNCHANGED <<loop, queue, sent>>,
           thread' \in [Requests -> Places], on_stage' \in Streams \cup {NoOne},
           stages' \in [Requests -> 0..MaxStages],
           client' \in [Streams -> {"none", "open", "gone", "done"}],
           \A q \in Streams :
             /\ \/ thread'[q] = thread[q]
                \/ {thread[q], thread'[q]} \cap {"finally", "ended"} = {}
             /\ client'[q] = client[q] \/ {client[q], client'[q]} \cap {"done"} = {}
             /\ client'[q] = "none" => thread'[q] = "idle"
    PROVE  IInv'
<1>1. TypeOK'
  BY Given, TypeFrom
<1>2. ASSUME NEW q \in Streams PROVE Moved(q)
  <2>1. Here(q)
    BY Given
  <2>2. StreamOK(q, thread'[q], loop, queue[q], client'[q], sent[q])
    BY <2>1, MoveKeepsStream DEF Here
  <2> QED
    BY <2>2 DEF Moved
<1> QED
  BY <1>1, <1>2, Conclude

\* A well-formed callback.
LEMMA CallbackType ==
    ASSUME NEW s \in Streams, NEW k \in {"stage", "answer", "error", "sentinel"},
           NEW r \in Requests
    PROVE  /\ [to |-> s, event |-> Event(k, r)] \in Callbacks
           /\ [to |-> s, event |-> Event(k, r)].to = s
           /\ [to |-> s, event |-> Event(k, r)].event.type = k
           /\ [to |-> s, event |-> Event(k, r)].event.by = r
  BY DEF Callbacks, Event, Events

\* A callback c is posted by a thread: the stream it is for may move on with it,
\* and for the others nothing happens.
LEMMA PostKeepsInv ==
    ASSUME IInv, NEW c \in Callbacks, loop' = Append(loop, c),
           UNCHANGED <<on_stage, queue, client, sent>>,
           thread' \in [Requests -> Places], stages' \in [Requests -> 0..MaxStages],
           \A q \in Streams : q # c.to => thread'[q] = thread[q],
           \A q \in Streams : q = c.to => Moved(q)
    PROVE  IInv'
<1>1. loop' \in Seq(Callbacks)
  <2>1. PICK V : V = Callbacks
    OBVIOUS
  <2>2. loop \in Seq(V) /\ c \in V
    BY <2>1, Given
  <2>3. Append(loop, c) \in Seq(V)
    BY ONLY <2>2
  <2> QED
    BY <2>1, <2>3
<1>2. TypeOK'
  BY <1>1, Given, TypeFrom
<1>3. ASSUME NEW q \in Streams, q # c.to PROVE Moved(q)
  <2>1. Here(q) /\ loop \in Seq(Callbacks)
    BY Given
  <2>2. StreamOK(q, thread[q], Append(loop, c), queue[q], client[q], sent[q])
    BY <1>3, <2>1, PostKeepsStream DEF Here
  <2> QED
    BY <1>3, <2>2 DEF Moved
<1> QED
  BY <1>2, <1>3, Conclude

\* A client comes or goes, a thread is taken, a plain question goes its way.
LEMMA ConnectKeepsInv ==
    ASSUME IInv, NEW s \in Streams, Connect(s) \/ Disconnect(s) \/ StartWork(s)
    PROVE  IInv'
<1> USE Given
<1>1. client[s] = "none" => thread[s] = "idle"
  BY DEF Here, StreamOK
<1>2. CASE Connect(s)
  <2>1. /\ thread' = [thread EXCEPT ![s] = "submitted"]
        /\ client' = [client EXCEPT ![s] = "open"]
        /\ client[s] = "none" /\ thread[s] = "idle"
        /\ UNCHANGED <<on_stage, stages, loop, queue, sent>>
    BY <1>1, <1>2 DEF Connect
  <2>2. /\ thread' \in [Requests -> Places]
        /\ client' \in [Streams -> {"none", "open", "gone", "done"}]
    BY <2>1 DEF Places
  <2>3. ASSUME NEW q \in Streams
        PROVE  /\ \/ thread'[q] = thread[q]
                  \/ {thread[q], thread'[q]} \cap {"finally", "ended"} = {}
               /\ client'[q] = client[q] \/ {client[q], client'[q]} \cap {"done"} = {}
               /\ client'[q] = "none" => thread'[q] = "idle"
    BY <2>1, <2>3 DEF Here, StreamOK
  <2> QED
    BY <2>1, <2>2, <2>3, QuietKeepsInv
<1>3. CASE Disconnect(s)
  <2>1. /\ thread' = [thread EXCEPT ![s] = IF @ = "submitted" THEN "cancelled" ELSE @]
        /\ client' = [client EXCEPT ![s] = "gone"] /\ client[s] = "open"
        /\ UNCHANGED <<on_stage, stages, loop, queue, sent>>
    BY <1>3 DEF Disconnect
  <2>2. /\ thread' \in [Requests -> Places]
        /\ client' \in [Streams -> {"none", "open", "gone", "done"}]
    BY <2>1 DEF Places
  <2>3. ASSUME NEW q \in Streams
        PROVE  /\ \/ thread'[q] = thread[q]
                  \/ {thread[q], thread'[q]} \cap {"finally", "ended"} = {}
               /\ client'[q] = client[q] \/ {client[q], client'[q]} \cap {"done"} = {}
               /\ client'[q] = "none" => thread'[q] = "idle"
    BY <2>1, <2>3 DEF Here, StreamOK
  <2> QED
    BY <2>1, <2>2, <2>3, QuietKeepsInv
<1>4. CASE StartWork(s)
  <2>1. /\ thread' = [thread EXCEPT ![s] = "routing"] /\ thread[s] = "submitted"
        /\ UNCHANGED <<on_stage, stages, loop, queue, client, sent>>
    BY <1>4 DEF StartWork
  <2>2. thread' \in [Requests -> Places]
    BY <2>1 DEF Places
  <2>3. ASSUME NEW q \in Streams
        PROVE  /\ \/ thread'[q] = thread[q]
                  \/ {thread[q], thread'[q]} \cap {"finally", "ended"} = {}
               /\ client'[q] = "none" => thread'[q] = "idle"
    BY <2>1, <2>3 DEF Here, StreamOK
  <2> QED
    BY <2>1, <2>2, <2>3, QuietKeepsInv
<1> QED
  BY <1>2, <1>3, <1>4

LEMMA PlainKeepsInv ==
    ASSUME IInv, NEW r \in Requests, AskPlain(r) \/ SetCallback(r) \/ PlainEnds(r)
    PROVE  IInv'
<1> USE Given
<1>1. PICK p \in {"asking", "nodes", "ended"} : thread' = [thread EXCEPT ![r] = p]
  BY DEF AskPlain, SetCallback, PlainEnds
<1>2. /\ UNCHANGED <<stages, loop, queue, client, sent>>
      /\ on_stage' \in Streams \cup {NoOne}
      /\ thread[r] \in {"idle", "asking", "nodes"}
      /\ r \in Streams => thread[r] = "asking" /\ p = "nodes"
  BY <1>1, StreamsAssumption DEF AskPlain, SetCallback, PlainEnds
<1>3. thread' \in [Requests -> Places]
  BY <1>1 DEF Places
<1>4. ASSUME NEW q \in Streams
      PROVE  /\ \/ thread'[q] = thread[q]
                \/ {thread[q], thread'[q]} \cap {"finally", "ended"} = {}
             /\ client'[q] = "none" => thread'[q] = "idle"
  BY <1>1, <1>2, <1>4 DEF Here, StreamOK
<1> QED
  BY <1>2, <1>3, <1>4, QuietKeepsInv

\* work() reports the first stage.
LEMMA EmitRoutingKeepsInv ==
    ASSUME IInv, NEW s \in Streams, EmitRouting(s)
    PROVE  IInv'
<1> USE Given
<1>1. PICK c : c = [to |-> s, event |-> Event("stage", s)]
  OBVIOUS
<1>2. c \in Callbacks /\ c.to = s /\ c.event.type = "stage"
  BY <1>1, CallbackType
<1>3. /\ thread[s] = "routing" /\ thread' = [thread EXCEPT ![s] = "asking"]
      /\ loop' = Append(loop, c)
      /\ UNCHANGED <<on_stage, stages, queue, client, sent>>
  BY <1>1 DEF EmitRouting, Post
<1>4. thread' \in [Requests -> Places] /\ thread'[s] = "asking"
  BY <1>3 DEF Places
<1>5. Moved(s)
  <2>1. /\ StreamOK(s, thread[s], loop, queue[s], client[s], sent[s])
        /\ client[s] # "none"
    BY <1>3 DEF Here, StreamOK
  <2>2. StreamOK(s, thread[s], Append(loop, c), queue[s], client[s], sent[s])
    BY <1>2, <2>1, PostKeepsStream
  <2>3. StreamOK(s, "asking", Append(loop, c), queue[s], client[s], sent[s])
    BY <1>3, <2>1, <2>2, MoveKeepsStream
  <2> QED
    BY <1>3, <1>4, <2>3 DEF Moved
<1>6. \A q \in Streams : q # s => thread'[q] = thread[q]
  BY <1>3
<1> QED
  BY <1>2, <1>3, <1>4, <1>5, <1>6, PostKeepsInv

\* A node reports a stage, to whoever set the callback last.
LEMMA EmitKeepsInv ==
    ASSUME IInv, NEW r \in Requests, _emit(r)
    PROVE  IInv'
<1> USE Given
<1>1. /\ stages' = [stages EXCEPT ![r] = @ + 1] /\ stages[r] < MaxStages
      /\ UNCHANGED <<thread, on_stage, queue, client, sent>>
      /\ loop' = IF on_stage = NoOne THEN loop
                 ELSE Append(loop, [to |-> on_stage, event |-> Event("stage", r)])
  BY DEF _emit, Post
<1>2. stages' \in [Requests -> 0..MaxStages]
  <2>1. stages[r] + 1 \in 0..MaxStages
    BY <1>1, StreamsAssumption
  <2> QED
    BY <1>1, <2>1
<1>3. CASE on_stage = NoOne
  <2>1. loop' = loop
    BY <1>1, <1>3
  <2>2. \A q \in Streams : client[q] = "none" => thread[q] = "idle"
    BY DEF Here, StreamOK
  <2> QED
    BY <1>1, <1>2, <2>1, <2>2, QuietKeepsInv
<1>4. CASE on_stage # NoOne
  <2>1. PICK c : c = [to |-> on_stage, event |-> Event("stage", r)]
    OBVIOUS
  <2>2. on_stage \in Streams
    BY <1>4
  <2>3. c \in Callbacks /\ c.event.type = "stage"
    BY <2>1, <2>2, CallbackType
  <2>4. loop' = Append(loop, c)
    BY <1>1, <1>4, <2>1
  <2>5. ASSUME NEW q \in Streams PROVE Moved(q)
    <3>1. StreamOK(q, thread[q], loop, queue[q], client[q], sent[q])
      BY DEF Here
    <3>2. StreamOK(q, thread[q], Append(loop, c), queue[q], client[q], sent[q])
      BY <2>3, <3>1, PostKeepsStream
    <3> QED
      BY <1>1, <2>4, <3>2 DEF Moved
  <2> QED
    BY <1>1, <1>2, <2>3, <2>4, <2>5, PostKeepsInv
<1> QED
  BY <1>3, <1>4

\* ask returns or raises.
LEMMA AskEndsKeepsInv ==
    ASSUME IInv, NEW s \in Streams, AskEnds(s)
    PROVE  IInv'
<1> USE Given
<1>1. PICK k \in {"answer", "error"} :
         thread[s] \in {"asking", "nodes"} /\ Outcome(s, k)
  BY DEF AskEnds
<1>2. PICK c : c = [to |-> s, event |-> Event(k, s)]
  OBVIOUS
<1>3. c \in Callbacks /\ c.to = s /\ c.event.type \in O /\ c.event.by = s
  BY <1>2, CallbackType DEF O
<1>4. /\ thread' = [thread EXCEPT ![s] = "finally"] /\ loop' = Append(loop, c)
      /\ UNCHANGED <<on_stage, stages, queue, client, sent>>
  BY <1>1, <1>2 DEF AskEnds, Outcome, Post
<1>5. thread' \in [Requests -> Places] /\ thread'[s] = "finally"
  BY <1>4 DEF Places
<1>6. Moved(s)
  <2>1. StreamOK(s, thread[s], loop, queue[s], client[s], sent[s])
    BY DEF Here
  <2>2. StreamOK(s, "finally", Append(loop, c), queue[s], client[s], sent[s])
    BY <1>1, <1>3, <2>1, OutcomeKeepsStream
  <2> QED
    BY <1>4, <1>5, <2>2 DEF Moved
<1>7. \A q \in Streams : q # s => thread'[q] = thread[q]
  BY <1>4
<1> QED
  BY <1>3, <1>4, <1>5, <1>6, <1>7, PostKeepsInv

\* The finally clause of work().
LEMMA PostSentinelKeepsInv ==
    ASSUME IInv, NEW s \in Streams, PostSentinel(s)
    PROVE  IInv'
<1> USE Given
<1>1. PICK c : c = [to |-> s, event |-> Event("sentinel", s)]
  OBVIOUS
<1>2. c \in Callbacks /\ c.to = s /\ c.event.type \in S
  BY <1>1, CallbackType DEF S
<1>3. /\ thread[s] = "finally" /\ thread' = [thread EXCEPT ![s] = "ended"]
      /\ loop' = Append(loop, c)
      /\ UNCHANGED <<on_stage, stages, queue, client, sent>>
  BY <1>1 DEF PostSentinel, Post
<1>4. thread' \in [Requests -> Places] /\ thread'[s] = "ended"
  BY <1>3 DEF Places
<1>5. Moved(s)
  <2>1. StreamOK(s, "finally", loop, queue[s], client[s], sent[s])
    BY <1>3 DEF Here
  <2>2. StreamOK(s, "ended", Append(loop, c), queue[s], client[s], sent[s])
    BY <1>2, <2>1, SentinelKeepsStream
  <2> QED
    BY <1>3, <1>4, <2>2 DEF Moved
<1>6. \A q \in Streams : q # s => thread'[q] = thread[q]
  BY <1>3
<1> QED
  BY <1>2, <1>3, <1>4, <1>5, <1>6, PostKeepsInv

\* The loop runs its oldest callback.
LEMMA RunCallbackKeepsInv ==
    ASSUME IInv, RunCallback
    PROVE  IInv'
<1> USE Given
<1>1. PICK c, e, m : c = Head(loop) /\ e = c.event /\ m = Tail(loop)
  OBVIOUS
<1>2. /\ loop # <<>> /\ loop' = m
      /\ queue' = [queue EXCEPT ![c.to] = Append(@, e)]
      /\ UNCHANGED <<thread, on_stage, stages, client, sent>>
  BY <1>1 DEF RunCallback
<1>3. c \in Callbacks /\ m \in Seq(Callbacks)
  <2>1. PICK V : V = Callbacks
    OBVIOUS
  <2>2. Head(loop) \in V /\ Tail(loop) \in Seq(V)
    BY ONLY <1>2, <2>1, loop \in Seq(V), Given, IInv
  <2> QED
    BY <1>1, <2>1, <2>2
<1>4. c.to \in Streams /\ e \in Events
  BY <1>1, <1>3 DEF Callbacks
<1>5. Append(queue[c.to], e) \in Seq(Events)
  <2>1. PICK V : V = Events
    OBVIOUS
  <2>2. queue[c.to] \in Seq(V) /\ e \in V
    BY <1>4, <2>1
  <2>3. Append(queue[c.to], e) \in Seq(V)
    BY ONLY <2>2
  <2> QED
    BY <2>1, <2>3
<1>6. queue' \in [Streams -> Seq(Events)]
  BY <1>2, <1>5
<1>7. TypeOK'
  BY <1>2, <1>3, <1>6, TypeFrom
<1>8. ASSUME NEW q \in Streams PROVE Moved(q)
  <2>1. /\ StreamOK(q, thread[q], loop, queue[q], client[q], sent[q])
        /\ queue[q] \in Seq(Events) /\ loop \in Seq(Callbacks)
    BY DEF Here
  <2>2. CASE c.to = q
    <3>1. StreamOK(q, thread[q], Tail(loop), Append(queue[q], Head(loop).event),
                   client[q], sent[q])
      BY ONLY <1>1, <1>2, <1>4, <2>1, <2>2, OwnCallbackKeepsStream
    <3>2. queue'[q] = Append(queue[q], e)
      BY <1>2, <2>2
    <3> QED
      BY <1>1, <1>2, <3>1, <3>2 DEF Moved
  <2>3. CASE c.to # q
    <3>1. StreamOK(q, thread[q], Tail(loop), queue[q], client[q], sent[q])
      BY ONLY <1>1, <1>2, <2>1, <2>3, OtherCallbackKeepsStream
    <3>2. queue'[q] = queue[q]
      BY <1>2, <2>3
    <3> QED
      BY <1>1, <1>2, <3>1, <3>2 DEF Moved
  <2> QED
    BY <2>2, <2>3
<1> QED
  BY <1>7, <1>8, Conclude

\* The generator writes an event to the client.
LEMMA DeliverKeepsInv ==
    ASSUME IInv, NEW s \in Streams, Deliver(s)
    PROVE  IInv'
<1> USE Given
<1>1. PICK e, w, cl2 : /\ e = Head(queue[s]) /\ w = Written(s, e)
                       /\ cl2 = IF e.type = "sentinel" THEN "done" ELSE "open"
  OBVIOUS
<1>2. /\ client[s] = "open" /\ queue[s] # <<>>
      /\ sent' = [sent EXCEPT ![s] = Append(@, w)]
      /\ queue' = [queue EXCEPT ![s] = Tail(@)]
      /\ client' = [client EXCEPT ![s] = cl2]
      /\ UNCHANGED <<thread, on_stage, stages, loop>>
  BY <1>1 DEF Deliver
<1>3. PICK V : V = Events
  OBVIOUS
<1>4. queue[s] \in Seq(V) /\ sent[s] \in Seq(V)
  BY <1>3
<1>5. e \in V /\ Tail(queue[s]) \in Seq(V)
  BY ONLY <1>1, <1>2, <1>4
<1>6. w \in V
  BY <1>1, <1>3, <1>5 DEF Written, Event, Events
<1>7. Append(sent[s], w) \in Seq(V)
  BY ONLY <1>4, <1>6
<1>8. TypeOK'
  <2>1. /\ queue' \in [Streams -> Seq(Events)] /\ sent' \in [Streams -> Seq(Events)]
        /\ client' \in [Streams -> {"none", "open", "gone", "done"}]
    BY <1>1, <1>2, <1>3, <1>5, <1>7
  <2> QED
    BY <1>2, <2>1, TypeFrom
<1>9. ASSUME NEW q \in Streams PROVE Moved(q)
  <2>1. CASE q = s
    <3>1. StreamOK(s, thread[s], loop, queue[s], "open", sent[s])
      BY <1>2 DEF Here
    <3>2. StreamOK(s, thread[s], loop, Tail(queue[s]), cl2, Append(sent[s], w))
      BY ONLY <1>1, <1>2, <1>4, <1>6, <3>1, DeliverKeepsStream
    <3> QED
      BY <1>2, <2>1, <3>2 DEF Moved
  <2>2. CASE q # s
    <3>1. StreamOK(q, thread[q], loop, queue[q], client[q], sent[q])
      BY DEF Here
    <3> QED
      BY <1>2, <2>2, <3>1 DEF Moved
  <2> QED
    BY <2>1, <2>2
<1> QED
  BY <1>8, <1>9, Conclude

-----------------------------------------------------------------------------
(* The invariant *)

\* Before the first client the invariant holds.
LEMMA InitInv == Init => IInv
<1> SUFFICES ASSUME Init PROVE IInv
  OBVIOUS
<1>1. TypeOK
  BY StreamsAssumption DEF Init, TypeOK
<1>2. ASSUME NEW s \in Streams
      PROVE  StreamOK(s, thread[s], loop, queue[s], client[s], sent[s])
  <2>1. /\ thread[s] = "idle" /\ client[s] = "none"
        /\ queue[s] = <<>> /\ sent[s] = <<>> /\ loop = <<>>
    BY DEF Init, Requests
  <2>2. \A K : LPos(<<>>, s, K) = {} /\ Pos(<<>>, K) = {}
    BY DEF LPos, Pos
  <2> QED
    BY <2>1, <2>2 DEF StreamOK, One, Before
<1> QED
  BY <1>1, <1>2 DEF IInv

\* Every step keeps it.
LEMMA NextKeepsInv == IInv /\ [Next]_vars => IInv'
<1> SUFFICES ASSUME IInv, [Next]_vars PROVE IInv'
  OBVIOUS
<1>1. ASSUME NEW s \in Streams,
             Connect(s) \/ Disconnect(s) \/ StartWork(s) \/ Work(s) \/ Deliver(s)
      PROVE  IInv'
  <2>1. s \in Requests
    BY DEF Requests
  <2> QED
    BY <1>1, <2>1, ConnectKeepsInv, DeliverKeepsInv, EmitRoutingKeepsInv,
       PlainKeepsInv, EmitKeepsInv, AskEndsKeepsInv, PostSentinelKeepsInv DEF Work
<1>2. ASSUME NEW r \in Plain,
             AskPlain(r) \/ SetCallback(r) \/ _emit(r) \/ PlainEnds(r)
      PROVE  IInv'
  <2>1. r \in Requests
    BY DEF Requests
  <2> QED
    BY <1>2, <2>1, PlainKeepsInv, EmitKeepsInv
<1>3. CASE RunCallback
  BY <1>3, RunCallbackKeepsInv
<1>4. CASE UNCHANGED vars
  BY <1>4 DEF vars, IInv, TypeOK
<1> QED
  BY <1>1, <1>2, <1>3, <1>4 DEF Next, Finished

\* The inductive invariant holds in every reachable state.
THEOREM Invariance == Spec => []IInv
  BY InitInv, NextKeepsInv, PTL DEF Spec

-----------------------------------------------------------------------------
(* What it implies *)

\* Every variable keeps its type; in particular _emit never posts to a callback
\* that is not there.
THEOREM TypeCorrect == Spec => []TypeOK
<1>1. IInv => TypeOK
  BY DEF IInv
<1> QED
  BY <1>1, Invariance, PTL

\* A client gets at most one outcome, of its own question, ahead of the one
\* "done" that ends its stream, whatever the other requests do to the shared
\* callback and whenever clients leave.
THEOREM OneOutcome == Spec => []OneOwnOutcome
<1>1. IInv => OneOwnOutcome
  <2> SUFFICES ASSUME IInv, NEW s \in Streams
               PROVE  /\ \A i, j \in Outcomes(s) : i = j
                      /\ \A i \in Outcomes(s) : sent[s][i].by = s
                      /\ \A i \in DOMAIN sent[s] : sent[s][i].type = "done" =>
                           i = Len(sent[s]) /\ Outcomes(s) # {}
                      /\ client[s] = "done" =>
                           sent[s] # <<>> /\ sent[s][Len(sent[s])].type = "done"
    BY DEF OneOwnOutcome
  <2>1. StreamOK(s, thread[s], loop, queue[s], client[s], sent[s])
    BY DEF IInv
  <2>2. Outcomes(s) = Pos(sent[s], O)
    BY DEF Outcomes, Pos, O
  <2>3. \A i \in DOMAIN sent[s] : sent[s][i].type = "done" => i \in Pos(sent[s], D)
    BY DEF Pos, D
  <2> QED
    BY <2>1, <2>2, <2>3 DEF StreamOK, One
<1> QED
  BY <1>1, Invariance, PTL
=============================================================================
