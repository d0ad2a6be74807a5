-------------------------- MODULE RequestGate_proofs --------------------------
(***************************************************************************)
(* Proofs about RequestGate, for any number of processes, requests,        *)
(* credentials and configurations and any limits and windows: the gate     *)
(* implements Quota, refuses nobody early and serves nobody unknown.       *)
(***************************************************************************)
EXTENDS RequestGate, FiniteSetTheorems, TLAPS

\* The window of bucket b, and whether x read the clock within that of its own.
WindowStart(b) == b.number * Length(b)
WindowEnd(b) == (b.number + 1) * Length(b)
InWindow(x) == WindowStart(x.bucket) <= x.at /\ x.at < WindowEnd(x.bucket)

\* Request x was let through in bucket b: on a count of that backend before the
\* window was over; at any time on Redis or uncounted; or by process t.
PassedIn(x, by, b) ==
    x.status = "ok" /\ x.by = by /\ x.bucket = b /\ x.counted < WindowEnd(b)
ThroughIn(x, b) == x.status = "ok" /\ x.bucket = b /\ x.by # "local"
ThroughOn(x, t, b) ==
    x.status = "ok" /\ x.bucket = b /\ x.by = "local" /\ x.task = t

\* How many there are of them.
Admitted(b) == Cardinality({r \in Requests : PassedIn(req[r], "redis", b)})
AdmittedBy(t, b) ==
    Cardinality({r \in Requests : PassedIn(req[r], "local", b) /\ req[r].task = t})
Through(b) == Cardinality({r \in Requests : ThroughIn(req[r], b)})
ThroughBy(t, b) == Cardinality({r \in Requests : ThroughOn(req[r], t, b)})

-----------------------------------------------------------------------------
(* The inductive invariant *)

\* Functions on some of the buckets.
PartialCounts(V) == UNION {[D -> V] : D \in SUBSET Buckets}
LocalCounts == PartialCounts(Nat)

TaskState == [pc : {"off", "up", "crashed"}, client : BOOLEAN,
              failed : BOOLEAN, counts : LocalCounts]
GateType ==
    /\ settings \in SettingsChoices
    /\ clock \in 0..MaxClock
    /\ redis \in PartialCounts([count : Nat, expires : Nat])
    /\ task \in [Tasks -> TaskState]
    /\ req \in [Requests -> Request]

\* A process that is up has accepted its configuration.
Verified == \A t \in Tasks : task[t].pc = "up" => verify_auth_configuration(settings)

\* A request with credential c that asks for needed on behalf of org has one
\* holder, who may do that.
Attributed(c, needed, org) ==
    \/ settings.auth_enabled = "off"
    \/ settings.auth_enabled = "unset" /\ settings.app_env = "development"
    \/ LET holder == IF c.kind = "token" /\ settings.jwks
                     THEN {c} ELSE {e \in settings.keys : e.secret = c.secret}
       IN  /\ Cardinality(holder) = 1
           /\ \A h \in holder :
                /\ h.fault = "none" /\ needed \subseteq h.scopes
                /\ org = IF settings.enforce_tenancy THEN h.org ELSE default_org_id

\* A request waits for its count after it was authorised, with the bucket of
\* the time it read; a refusal tells when that bucket's window is over.
Waiting == {"ping", "redis", "local"}
ReqOK(x) ==
    /\ x.pc # "done" => x.status = "none" /\ x.by = "nobody"
    /\ x.pc \in Waiting => /\ x.task \in Tasks /\ x.bucket \in Buckets
                           /\ InWindow(x) /\ x.at <= clock
    /\ x.pc \in Waiting \/ x.status = "ok" => Attributed(x.cred, x.needed, x.org)
    /\ x.status = "429" =>
         /\ x.bucket \in Buckets /\ InWindow(x)
         /\ x.retry_after = RetryAfter(x.bucket, x.at)
         /\ x.by = "local" => x.task \in Tasks
         /\ x.by # "nobody"

\* The counter of a bucket is neither below the requests it let through in its
\* window nor, up to the limit, above those let through at all; and it lives
\* for as long as the window lasts.
RedisOK(b) ==
    /\ Admitted(b) <= Limit(b)
    /\ clock < WindowEnd(b) /\ Admitted(b) > 0 =>
         b \in DOMAIN redis /\ Admitted(b) <= redis[b].count
    /\ b \in DOMAIN redis =>
         /\ redis[b].expires >= WindowEnd(b)
         /\ redis[b].count <= Through(b) \/ Limit(b) <= Through(b)

\* The same of a process and its own counters, which it keeps for the whole
\* window when the window is one of the shortest.
Shortest(b) == \A s \in Limited : Length(b) <= 2 * window[s]
LocalOK(t, b) ==
    /\ Shortest(b) =>
         /\ AdmittedBy(t, b) <= Limit(b)
         /\ clock < WindowEnd(b) /\ AdmittedBy(t, b) > 0 =>
              b \in DOMAIN task[t].counts /\ AdmittedBy(t, b) <= task[t].counts[b]
    /\ b \in DOMAIN task[t].counts =>
         task[t].counts[b] <= ThroughBy(t, b) \/ Limit(b) <= ThroughBy(t, b)

\* Who was told to slow down met a bucket that was used up.
RefusalOK(x) ==
    x.status = "429" =>
        Limit(x.bucket) <= IF x.by = "redis" THEN Through(x.bucket)
                           ELSE ThroughBy(x.task, x.bucket)

IInv ==
    /\ GateType
    /\ Verified
    /\ \A r \in Requests : ReqOK(req[r]) /\ RefusalOK(req[r])
    /\ \A b \in Buckets : RedisOK(b)
    /\ \A t \in Tasks, b \in Buckets : LocalOK(t, b)
-----------------------------------------------------------------------------
(* Limits and windows *)

\* What "the fewest requests per second" compares.
Fewer(s, o) == limit[s] * window[o] <= limit[o] * window[s]

LEMMA RatioTransitive ==
    ASSUME NEW la \in Nat, NEW lb \in Nat, NEW lc \in Nat,
           NEW wa \in Nat \ {0}, NEW wb \in Nat \ {0}, NEW wc \in Nat \ {0},
           la * wb <= lb * wa, lb * wc <= lc * wb
    PROVE  la * wc <= lc * wa
<1>1. (la * wb) * wc <= (lb * wa) * wc
  OBVIOUS
<1>2. (lb * wc) * wa <= (lc * wb) * wa
  OBVIOUS
<1>3. (la * wc) * wb <= (lc * wa) * wb
  BY <1>1, <1>2
<1> QED
  BY <1>3

LEMMA FewerOrders ==
    /\ \A s, o \in Limited : Fewer(s, o) \/ Fewer(o, s)
    /\ \A s, o, u \in Limited : Fewer(s, o) /\ Fewer(o, u) => Fewer(s, u)
<1>1. \A s, o \in Limited : Fewer(s, o) \/ Fewer(o, s)
  <2> TAKE s, o \in Limited
  <2>1. limit[s] * window[o] \in Nat /\ limit[o] * window[s] \in Nat
    BY GateAssumption
  <2> QED
    BY <2>1 DEF Fewer
<1>2. \A s, o, u \in Limited : Fewer(s, o) /\ Fewer(o, u) => Fewer(s, u)
  BY GateAssumption, RatioTransitive DEF Fewer
<1> QED
  BY <1>1, <1>2

\* The choice of _limits_for is always possible.
LEMMA LimitedByType == \A needed : LimitedBy(needed) \in Limited
<1> TAKE needed
<1> DEFINE of == IF needed \cap Limited = {} THEN {"read"} ELSE needed \cap Limited
<1>1. of \subseteq Limited /\ of # {}
  BY DEF Limited
<1>2. \E s \in of : \A other \in of : Fewer(s, other)
  <2> HIDE DEF of
  <2>1. \A s \in of : s = "ask" \/ s = "index" \/ s = "read"
    BY <1>1 DEF Limited
  <2>2. \A s \in of : Fewer(s, s)
    BY <1>1, FewerOrders
  <2>3. CASE of \subseteq {"ask", "index"}
    <3>1. PICK s \in of : TRUE
      BY <1>1
    <3>2. CASE \A o \in of : o = s
      BY <2>2, <3>2
    <3>3. CASE "ask" \in of /\ "index" \in of
      <4>1. Fewer("ask", "index") \/ Fewer("index", "ask")
        BY <1>1, <3>3, FewerOrders
      <4>2. \A o \in of : o = "ask" \/ o = "index"
        BY <2>3
      <4> QED
        BY <2>2, <3>3, <4>1, <4>2
    <3> QED
      BY <2>3, <3>1, <3>2, <3>3
  <2>4. CASE "read" \in of
    <3>1. CASE \A s \in of : Fewer("read", s)
      BY <2>4, <3>1
    <3>2. ASSUME NEW s \in of, ~Fewer("read", s), \A o \in of : Fewer(s, o)
          PROVE  \E u \in of : \A other \in of : Fewer(u, other)
      BY <3>2
    <3>3. ASSUME NEW s \in of, ~Fewer("read", s), NEW o \in of, ~Fewer(s, o)
          PROVE  \A other \in of : Fewer(o, other)
      <4>1. /\ s \in Limited /\ o \in Limited /\ "read" \in Limited
            /\ Fewer(o, s) /\ Fewer(s, "read")
        BY <1>1, <2>4, <3>3, FewerOrders
      <4>2. s # "read" /\ o # s /\ o # "read" /\ Fewer(o, "read")
        BY <2>2, <2>4, <3>3, <4>1, FewerOrders
      <4> QED
        BY <2>1, <2>2, <4>1, <4>2
    <3> QED
      BY <3>1, <3>2, <3>3
  <2> QED
    BY <2>1, <2>3, <2>4
<1>3. LimitedBy(needed) = CHOOSE s \in of :
        \A other \in of : limit[s] * window[other] <= limit[other] * window[s]
  BY DEF LimitedBy
<1> QED
  <2> HIDE DEF of
  <2>1. \E s \in of :
          \A other \in of : limit[s] * window[other] <= limit[other] * window[s]
    BY <1>2 DEF Fewer
  <2> QED
    BY <1>1, <1>3, <2>1

LEMMA DivFacts ==
    ASSUME NEW n \in Nat, NEW L \in Nat, L # 0
    PROVE  /\ n \div L \in Nat
           /\ (n \div L) * L <= n
           /\ n < (n \div L + 1) * L
           /\ n \div L <= n
  OBVIOUS

LEMMA BucketFacts ==
    \A b : /\ Length(b) \in Nat /\ Length(b) > 0 /\ Limit(b) \in Nat
           /\ LimitedBy(b.needed) \in Limited
           /\ Length(b) = 2 * window[LimitedBy(b.needed)]
           /\ b.number \in Nat =>
                /\ WindowStart(b) \in Nat /\ WindowEnd(b) \in Nat
                /\ WindowEnd(b) = WindowStart(b) + Length(b)
<1> TAKE b
<1>1. LimitedBy(b.needed) \in Limited
  BY LimitedByType
<1>2. Length(b) \in Nat /\ Length(b) > 0 /\ Limit(b) \in Nat
  BY <1>1, GateAssumption DEF Length, Limit
<1>3. ASSUME b.number \in Nat
      PROVE  /\ WindowStart(b) \in Nat /\ WindowEnd(b) \in Nat
             /\ WindowEnd(b) = WindowStart(b) + Length(b)
  BY <1>2, <1>3 DEF WindowStart, WindowEnd
<1> QED
  BY <1>1, <1>2, <1>3 DEF Length

\* The bucket named by the clock is one of the buckets, and its window holds
\* that time.
LEMMA BucketType ==
    ASSUME NEW key_id \in KeyIds, NEW needed \in Routes, NEW now \in 0..MaxClock
    PROVE  /\ Bucket(key_id, needed, now) \in Buckets
           /\ WindowStart(Bucket(key_id, needed, now)) <= now
           /\ now < WindowEnd(Bucket(key_id, needed, now))
<1> DEFINE L == 2 * window[LimitedBy(needed)]
<1>1. L \in Nat /\ L # 0
  BY LimitedByType, GateAssumption
<1>2. PICK b : b = Bucket(key_id, needed, now)
  OBVIOUS
<1>3. b = [key_id |-> key_id, needed |-> needed, number |-> now \div L]
  BY <1>2 DEF Bucket
<1>4. Length(b) = L
  BY <1>3 DEF Length
<1> HIDE DEF L
<1>5. now \in Nat /\ now <= MaxClock /\ MaxClock \in Nat
  BY GateAssumption
<1>6. /\ now \div L \in Nat /\ (now \div L) * L <= now
      /\ now < (now \div L + 1) * L /\ now \div L <= now
  BY <1>1, <1>5, DivFacts
<1>7. b \in Buckets
  <2>1. now \div L \in 0..MaxClock
    BY <1>5, <1>6
  <2> QED
    BY <1>3, <2>1 DEF Buckets
<1>8. WindowStart(b) <= now /\ now < WindowEnd(b)
  BY <1>3, <1>4, <1>6 DEF WindowStart, WindowEnd
<1> QED
  BY <1>2, <1>7, <1>8

\* Retry-After of a request in its window: at least one second, at most the
\* window, and off the end of it by less than one second.
LEMMA RetryFacts ==
    ASSUME NEW b \in Buckets, NEW at \in Nat,
           WindowStart(b) <= at, at < WindowEnd(b)
    PROVE  /\ RetryAfter(b, at) \in UNION {0..window[s] : s \in Limited}
           /\ WindowEnd(b) < at + 2 * RetryAfter(b, at) + 2
           /\ at + 2 * RetryAfter(b, at) < WindowEnd(b) + 2
<1> DEFINE w == window[LimitedBy(b.needed)]
           d == WindowEnd(b) - at
           s == d \div 2
<1>1. b.number \in Nat
  BY DEF Buckets
<1>2. w \in Nat /\ w > 0 /\ LimitedBy(b.needed) \in Limited /\ Length(b) = 2 * w
  BY BucketFacts, GateAssumption
<1>3. /\ WindowStart(b) \in Nat /\ WindowEnd(b) \in Nat
      /\ WindowEnd(b) = WindowStart(b) + Length(b)
  BY <1>1, BucketFacts
<1>4. RetryAfter(b, at) = IF s < 1 THEN 1 ELSE s
  BY DEF RetryAfter, WindowEnd
<1> HIDE DEF w
<1>5. d \in Nat /\ 0 < d /\ d <= 2 * w
  BY <1>2, <1>3
<1>6. WindowEnd(b) = at + d
  BY <1>3, <1>5
<1> HIDE DEF d
<1>7. s \in Nat /\ 2 * s <= d /\ d < 2 * s + 2
  BY <1>5
<1> HIDE DEF s
<1>8. PICK v : v = RetryAfter(b, at)
  OBVIOUS
<1>9. v \in 0..w /\ d < 2 * v + 2 /\ 2 * v < d + 2
  BY <1>2, <1>4, <1>5, <1>7, <1>8
<1>10. v \in UNION {0..window[x] : x \in Limited}
  BY <1>2, <1>9 DEF w
<1>11. at + d < at + 2 * v + 2 /\ at + 2 * v < at + d + 2
  BY <1>5, <1>9, <1>2
<1> QED
  BY <1>6, <1>8, <1>10, <1>11

-----------------------------------------------------------------------------
(* Counters *)

LEMMA PartialFacts ==
    ASSUME NEW V, NEW counts \in PartialCounts(V)
    PROVE  /\ DOMAIN counts \subseteq Buckets
           /\ \A b \in DOMAIN counts : counts[b] \in V
<1>1. PICK D \in SUBSET Buckets : counts \in [D -> V]
  BY DEF PartialCounts
<1> QED
  BY <1>1

LEMMA CounterTypes ==
    ASSUME GateType
    PROVE  /\ DOMAIN redis \subseteq Buckets
           /\ \A b \in DOMAIN redis : redis[b].count \in Nat /\ redis[b].expires \in Nat
           /\ \A t \in Tasks :
                /\ task[t] \in TaskState /\ DOMAIN task[t].counts \subseteq Buckets
                /\ \A b \in DOMAIN task[t].counts : task[t].counts[b] \in Nat
<1>1. redis \in PartialCounts([count : Nat, expires : Nat])
  BY DEF GateType
<1>2. /\ DOMAIN redis \subseteq Buckets
      /\ \A b \in DOMAIN redis : redis[b] \in [count : Nat, expires : Nat]
  BY <1>1, PartialFacts
<1>3. \A b \in DOMAIN redis : redis[b].count \in Nat /\ redis[b].expires \in Nat
  BY <1>2
<1>4. \A t \in Tasks : task[t] \in TaskState /\ task[t].counts \in PartialCounts(Nat)
  BY DEF GateType, TaskState, LocalCounts
<1>5. \A t \in Tasks : /\ DOMAIN task[t].counts \subseteq Buckets
                       /\ \A b \in DOMAIN task[t].counts : task[t].counts[b] \in Nat
  BY <1>4, PartialFacts
<1> QED
  BY <1>2, <1>3, <1>4, <1>5

LEMMA WithFacts ==
    ASSUME NEW V, NEW counts \in PartialCounts(V), NEW b \in Buckets, NEW v \in V
    PROVE  /\ With(counts, b, v) \in PartialCounts(V)
           /\ DOMAIN With(counts, b, v) = DOMAIN counts \cup {b}
           /\ With(counts, b, v)[b] = v
           /\ \A o \in DOMAIN counts : o # b => With(counts, b, v)[o] = counts[o]
<1>1. DOMAIN counts \subseteq Buckets /\ \A o \in DOMAIN counts : counts[o] \in V
  BY PartialFacts
<1>2. With(counts, b, v) \in [DOMAIN counts \cup {b} -> V]
  BY <1>1 DEF With
<1>3. With(counts, b, v) \in PartialCounts(V)
  BY <1>1, <1>2 DEF PartialCounts
<1> QED
  BY <1>3 DEF With

LEMMA RestrictedFacts ==
    ASSUME NEW V, NEW counts \in PartialCounts(V), NEW S
    PROVE  /\ Restricted(counts, S) \in PartialCounts(V)
           /\ DOMAIN Restricted(counts, S) = DOMAIN counts \cap S
           /\ \A o \in DOMAIN counts \cap S : Restricted(counts, S)[o] = counts[o]
<1>1. DOMAIN counts \subseteq Buckets /\ \A o \in DOMAIN counts : counts[o] \in V
  BY PartialFacts
<1>2. Restricted(counts, S) \in [DOMAIN counts \cap S -> V]
  BY <1>1 DEF Restricted
<1>3. Restricted(counts, S) \in PartialCounts(V)
  BY <1>1, <1>2 DEF PartialCounts
<1> QED
  BY <1>3 DEF Restricted

-----------------------------------------------------------------------------
(* The numbers let through *)

\* A set of requests grows by r or stays.
LEMMA Grows ==
    ASSUME NEW S \in SUBSET Requests, NEW T \in SUBSET Requests,
           NEW r \in Requests, r \notin S, NEW B \in BOOLEAN,
           T = IF B THEN S \cup {r} ELSE S
    PROVE  /\ Cardinality(S) \in Nat
           /\ Cardinality(T) = IF B THEN Cardinality(S) + 1 ELSE Cardinality(S)
<1>1. IsFiniteSet(S)
  BY GateAssumption, FS_Subset
<1>2. Cardinality(S) \in Nat
  BY <1>1, FS_CardinalityType
<1>3. Cardinality(S \cup {r}) = Cardinality(S) + 1
  BY <1>1, FS_AddElement
<1> QED
  BY <1>2, <1>3

\* A request that had no status becomes x: what is added to the numbers.
LEMMA Sizes ==
    ASSUME req \in [Requests -> Request], NEW r \in Requests, NEW x \in Request,
           req' = [req EXCEPT ![r] = x], req[r].status = "none"
    PROVE  /\ \A b : /\ Admitted(b) \in Nat /\ Through(b) \in Nat
                     /\ Admitted(b)' = IF PassedIn(x, "redis", b) THEN Admitted(b) + 1
                                       ELSE Admitted(b)
                     /\ Through(b)' = IF ThroughIn(x, b) THEN Through(b) + 1
                                      ELSE Through(b)
           /\ \A t, b :
                /\ AdmittedBy(t, b) \in Nat /\ ThroughBy(t, b) \in Nat
                /\ AdmittedBy(t, b)' =
                     IF PassedIn(x, "local", b) /\ x.task = t THEN AdmittedBy(t, b) + 1
                     ELSE AdmittedBy(t, b)
                /\ ThroughBy(t, b)' = IF ThroughOn(x, t, b) THEN ThroughBy(t, b) + 1
                                      ELSE ThroughBy(t, b)
<1>1. \A o \in Requests : req'[o] = IF o = r THEN x ELSE req[o]
  OBVIOUS
<1>2. ASSUME NEW b
      PROVE  /\ Admitted(b) \in Nat
             /\ Admitted(b)' = IF PassedIn(x, "redis", b) THEN Admitted(b) + 1
                               ELSE Admitted(b)
  <2> DEFINE S == {o \in Requests : PassedIn(req[o], "redis", b)}
             T == {o \in Requests : PassedIn(req'[o], "redis", b)}
             B == PassedIn(x, "redis", b)
  <2>1. r \notin S
    BY DEF PassedIn
  <2>2. B \in BOOLEAN
    BY DEF PassedIn
  <2>3. T = IF B THEN S \cup {r} ELSE S
    BY <1>1, <2>1
  <2>4. Admitted(b) = Cardinality(S) /\ Admitted(b)' = Cardinality(T)
    BY DEF Admitted, PassedIn
  <2> HIDE DEF S, T, B
  <2>5. S \in SUBSET Requests /\ T \in SUBSET Requests
    BY DEF S, T
  <2> QED
    BY <2>1, <2>2, <2>3, <2>4, <2>5, Grows DEF B
<1>3. ASSUME NEW b
      PROVE  /\ Through(b) \in Nat
             /\ Through(b)' = IF ThroughIn(x, b) THEN Through(b) + 1 ELSE Through(b)
  <2> DEFINE S == {o \in Requests : ThroughIn(req[o], b)}
             T == {o \in Requests : ThroughIn(req'[o], b)}
             B == ThroughIn(x, b)
  <2>1. r \notin S
    BY DEF ThroughIn
  <2>2. B \in BOOLEAN
    BY DEF ThroughIn
  <2>3. T = IF B THEN S \cup {r} ELSE S
    BY <1>1, <2>1
  <2>4. Through(b) = Cardinality(S) /\ Through(b)' = Cardinality(T)
    BY DEF Through, ThroughIn
  <2> HIDE DEF S, T, B
  <2>5. S \in SUBSET Requests /\ T \in SUBSET Requests
    BY DEF S, T
  <2> QED
    BY <2>1, <2>2, <2>3, <2>4, <2>5, Grows DEF B
<1>4. ASSUME NEW t, NEW b
      PROVE  /\ AdmittedBy(t, b) \in Nat
             /\ AdmittedBy(t, b)' =
                  IF PassedIn(x, "local", b) /\ x.task = t THEN AdmittedBy(t, b) + 1
                  ELSE AdmittedBy(t, b)
  <2> DEFINE S == {o \in Requests : PassedIn(req[o], "local", b) /\ req[o].task = t}
             T == {o \in Requests : PassedIn(req'[o], "local", b) /\ req'[o].task = t}
             B == PassedIn(x, "local", b) /\ x.task = t
  <2>1. r \notin S
    BY DEF PassedIn
  <2>2. B \in BOOLEAN
    OBVIOUS
  <2>3. T = IF B THEN S \cup {r} ELSE S
    BY <1>1, <2>1
  <2>4. AdmittedBy(t, b) = Cardinality(S) /\ AdmittedBy(t, b)' = Cardinality(T)
    BY DEF AdmittedBy, PassedIn
  <2> HIDE DEF S, T, B
  <2>5. S \in SUBSET Requests /\ T \in SUBSET Requests
    BY DEF S, T
  <2> QED
    BY <2>1, <2>2, <2>3, <2>4, <2>5, Grows DEF B
<1>5. ASSUME NEW t, NEW b
      PROVE  /\ ThroughBy(t, b) \in Nat
             /\ ThroughBy(t, b)' = IF ThroughOn(x, t, b) THEN ThroughBy(t, b) + 1
                                   ELSE ThroughBy(t, b)
  <2> DEFINE S == {o \in Requests : ThroughOn(req[o], t, b)}
             T == {o \in Requests : ThroughOn(req'[o], t, b)}
             B == ThroughOn(x, t, b)
  <2>1. r \notin S
    BY DEF ThroughOn
  <2>2. B \in BOOLEAN
    BY DEF ThroughOn
  <2>3. T = IF B THEN S \cup {r} ELSE S
    BY <1>1, <2>1
  <2>4. ThroughBy(t, b) = Cardinality(S) /\ ThroughBy(t, b)' = Cardinality(T)
    BY DEF ThroughBy, ThroughOn
  <2> HIDE DEF S, T, B
  <2>5. S \in SUBSET Requests /\ T \in SUBSET Requests
    BY DEF S, T
  <2> QED
    BY <2>1, <2>2, <2>3, <2>4, <2>5, Grows DEF B
<1> QED
  BY <1>2, <1>3, <1>4, <1>5

\* A step that leaves the requests alone leaves the numbers.
LEMMA SameSizes ==
    ASSUME req' = req
    PROVE  /\ \A b : Admitted(b)' = Admitted(b) /\ Through(b)' = Through(b)
           /\ \A t, b : /\ AdmittedBy(t, b)' = AdmittedBy(t, b)
                        /\ ThroughBy(t, b)' = ThroughBy(t, b)
  BY DEF Admitted, Through, AdmittedBy, ThroughBy, PassedIn, ThroughIn, ThroughOn

-----------------------------------------------------------------------------
(* Requests *)

\* What holds of a request stays when time passes.
LEMMA ReqOKStays ==
    ASSUME settings' = settings, clock \in Nat, clock' \in Nat, clock <= clock',
           NEW x \in Request, ReqOK(x)
    PROVE  ReqOK(x)'
<1>1. x.at \in Nat
  BY GateAssumption DEF Request
<1>2. Attributed(x.cred, x.needed, x.org) => Attributed(x.cred, x.needed, x.org)'
  BY DEF Attributed
<1>3. x.at <= clock => x.at <= clock'
  BY <1>1
<1>4. InWindow(x) <=> InWindow(x)'
  BY DEF InWindow, WindowStart, WindowEnd, Length
<1> QED
  BY <1>2, <1>3, <1>4 DEF ReqOK, RetryAfter, Length

\* Request r becomes x.
Becomes(r, x) ==
    /\ x \in Request /\ req' = [req EXCEPT ![r] = x] /\ ReqOK(x)
    /\ req[r].pc # "done" /\ settings' = settings /\ clock' = clock

\* Each request is still as it should be, and no number let through falls.
LEMMA RequestStep ==
    ASSUME IInv, NEW r \in Requests, NEW x, Becomes(r, x)
    PROVE  /\ req' \in [Requests -> Request]
           /\ \A o \in Requests : ReqOK(req[o])'
           /\ \A o \in Requests : o # r => RefusalOK(req[o])'
           /\ RefusalOK(x)' => RefusalOK(req[r])'
<1>1. /\ req \in [Requests -> Request] /\ x \in Request /\ clock \in Nat
      /\ req' = [req EXCEPT ![r] = x] /\ req[r].status = "none"
      /\ settings' = settings /\ clock' = clock /\ ReqOK(x)
  BY GateAssumption DEF IInv, GateType, Becomes, ReqOK
<1>2. req' \in [Requests -> Request]
  BY <1>1
<1>3. \A o \in Requests : req'[o] = IF o = r THEN x ELSE req[o]
  BY <1>1
<1>4. \A y \in Request : ReqOK(y) => ReqOK(y)'
  BY <1>1, ReqOKStays
<1>5. ASSUME NEW o \in Requests
      PROVE  ReqOK(req[o])'
  <2>1. PICK y \in Request : y = req'[o] /\ ReqOK(y)
    BY <1>1, <1>2, <1>3 DEF IInv
  <2>2. ReqOK(y)'
    BY <1>4, <2>1
  <2>3. ReqOK(req[o])' <=> ReqOK(y)'
    BY <2>1
  <2> QED
    BY <2>2, <2>3
<1>6. ASSUME NEW o \in Requests, o # r
      PROVE  RefusalOK(req[o])'
  <2>1. PICK y \in Request : y = req[o] /\ y = req'[o] /\ RefusalOK(y)
    BY <1>1, <1>3, <1>6 DEF IInv
  <2>2. /\ Through(y.bucket) \in Nat /\ ThroughBy(y.task, y.bucket) \in Nat
        /\ Through(y.bucket)' >= Through(y.bucket)
        /\ ThroughBy(y.task, y.bucket)' >= ThroughBy(y.task, y.bucket)
        /\ Through(y.bucket)' \in Nat /\ ThroughBy(y.task, y.bucket)' \in Nat
    <3>1. /\ Through(y.bucket) \in Nat
          /\ Through(y.bucket)' \in {Through(y.bucket), Through(y.bucket) + 1}
      BY ONLY <1>1, Sizes, r \in Requests
    <3>2. /\ ThroughBy(y.task, y.bucket) \in Nat
          /\ ThroughBy(y.task, y.bucket)' \in
               {ThroughBy(y.task, y.bucket), ThroughBy(y.task, y.bucket) + 1}
      BY ONLY <1>1, Sizes, r \in Requests
    <3> QED
      BY <3>1, <3>2
  <2>3. Limit(y.bucket) \in Nat
    BY BucketFacts
  <2>4. RefusalOK(y)'
    BY <2>1, <2>2, <2>3 DEF RefusalOK, Limit
  <2> QED
    BY <2>1, <2>4
<1>7. RefusalOK(x)' => RefusalOK(req[r])'
  BY <1>3
<1> QED
  BY <1>2, <1>5, <1>6, <1>7

\* A step that counts nobody: neither counters nor the numbers let through on
\* them change.
LEMMA Uncounted ==
    ASSUME IInv, NEW r \in Requests, NEW x, Becomes(r, x),
           x.by = "nobody", x.status # "429", redis' = redis,
           task' \in [Tasks -> TaskState],
           \A t \in Tasks : /\ task'[t].counts = task[t].counts
                            /\ task'[t].pc = task[t].pc
    PROVE  IInv'
<1>1. /\ req \in [Requests -> Request] /\ x \in Request /\ clock \in Nat
      /\ req' = [req EXCEPT ![r] = x] /\ req[r].status = "none"
      /\ settings' = settings /\ clock' = clock
  BY GateAssumption DEF IInv, GateType, Becomes, ReqOK
<1>2. /\ req' \in [Requests -> Request]
      /\ \A o \in Requests : ReqOK(req[o])' /\ RefusalOK(req[o])'
  <2>1. RefusalOK(x)'
    BY DEF RefusalOK
  <2> QED
    BY <2>1, RequestStep
<1>3. GateType' /\ Verified'
  BY <1>1, <1>2 DEF IInv, GateType, Verified, verify_auth_configuration, auth_required
<1>4. ASSUME NEW b \in Buckets
      PROVE  RedisOK(b)'
  <2>1. /\ Admitted(b)' = Admitted(b) /\ Through(b) \in Nat
        /\ Through(b)' \in {Through(b), Through(b) + 1}
    <3>1. ~PassedIn(x, "redis", b)
      BY DEF PassedIn
    <3> QED
      BY ONLY <1>1, <3>1, Sizes, r \in Requests
  <2>2. RedisOK(b) /\ Limit(b) \in Nat
    BY BucketFacts DEF IInv
  <2>3. b \in DOMAIN redis => redis[b].count \in Nat
    BY CounterTypes DEF IInv
  <2> QED
    BY <1>1, <2>1, <2>2, <2>3 DEF RedisOK, WindowEnd, Length, Limit
<1>5. ASSUME NEW t \in Tasks, NEW b \in Buckets
      PROVE  LocalOK(t, b)'
  <2>1. AdmittedBy(t, b)' = AdmittedBy(t, b) /\ ThroughBy(t, b)' = ThroughBy(t, b)
    <3>1. ~PassedIn(x, "local", b) /\ ~ThroughOn(x, t, b)
      BY DEF PassedIn, ThroughOn
    <3> QED
      BY ONLY <1>1, <3>1, Sizes, r \in Requests
  <2>2. LocalOK(t, b)
    BY DEF IInv
  <2> QED
    BY <1>1, <2>1, <2>2 DEF LocalOK, Shortest, WindowEnd, Length, Limit
<1> QED
  BY <1>2, <1>3, <1>4, <1>5 DEF IInv

-----------------------------------------------------------------------------
(* Arrivals *)

\* A request that is refused before the limiter.
LEMMA Rejected ==
    ASSUME IInv, NEW r \in Requests, NEW status \in {"401", "403", "500", "503"},
           req[r].pc = "new", Reject(r, status), UNCHANGED <<settings, clock, redis>>
    PROVE  IInv'
<1>1. PICK x : x = Reply(r, status)
  OBVIOUS
<1>2. req[r] \in Request /\ ReqOK(req[r])
  BY DEF IInv, GateType
<1>3. /\ x = [req[r] EXCEPT !.pc = "done", !.status = status]
      /\ x \in Request /\ x.pc = "done" /\ x.status = status /\ x.by = "nobody"
  BY <1>1, <1>2 DEF Reply, Request, ReqOK, Statuses
<1>4. ReqOK(x)
  BY <1>3 DEF ReqOK, Waiting
<1>5. Becomes(r, x)
  BY <1>1, <1>3, <1>4 DEF Becomes, Reject
<1>6. task' = task /\ task \in [Tasks -> TaskState]
  BY DEF Reject, IInv, GateType
<1> QED
  BY <1>3, <1>5, <1>6, Uncounted

\* A request of somebody who may make it meets the limiter.
LEMMA Checked ==
    ASSUME IInv, NEW r \in Requests, NEW t \in Tasks, NEW c \in Credentials,
           NEW needed \in Routes, NEW p, p.key_id \in KeyIds, p.org \in Orgs,
           Attributed(c, needed, p.org), req[r].pc = "new",
           Check(r, c, p, t, needed), UNCHANGED <<settings, clock, redis>>
    PROVE  IInv'
<1>1. req[r] \in Request /\ ReqOK(req[r]) /\ task \in [Tasks -> TaskState]
  BY DEF IInv, GateType
<1>2. PICK in : in = [req[r] EXCEPT !.task = t, !.cred = c, !.needed = needed,
                                    !.org = p.org]
  OBVIOUS
<1>3. /\ in \in Request /\ in.task = t /\ in.cred = c /\ in.needed = needed
      /\ in.org = p.org /\ in.by = "nobody" /\ in.status = "none" /\ in.pc = "new"
  BY <1>1, <1>2 DEF Request, ReqOK
<1>4. CASE ~settings.rate_limit_enabled
  <2>1. PICK x : x = [in EXCEPT !.pc = "done", !.status = "ok"]
    OBVIOUS
  <2>2. req' = [req EXCEPT ![r] = x] /\ task' = task
    BY <1>2, <1>4, <2>1 DEF Check
  <2>3. /\ x \in Request /\ x.pc = "done" /\ x.status = "ok" /\ x.by = "nobody"
        /\ x.cred = c /\ x.needed = needed /\ x.org = p.org
    BY <1>3, <2>1 DEF Request, Statuses
  <2>4. ReqOK(x)
    BY <2>3 DEF ReqOK, Waiting
  <2>5. Becomes(r, x)
    BY <2>2, <2>3, <2>4 DEF Becomes
  <2> QED
    BY <1>1, <2>2, <2>3, <2>5, Uncounted
<1>5. CASE settings.rate_limit_enabled
  <2>1. PICK b : b = Bucket(p.key_id, needed, clock)
    OBVIOUS
  <2>2. clock \in 0..MaxClock
    BY DEF IInv, GateType
  <2>3. b \in Buckets /\ WindowStart(b) <= clock /\ clock < WindowEnd(b)
    BY <2>1, <2>2, BucketType
  <2>4. PICK pc, at : pc = Backend(t) /\ at = clock
    OBVIOUS
  <2>5. pc \in Waiting
    BY <2>4 DEF Backend, Waiting
  <2>6. PICK x : x = [in EXCEPT !.pc = pc, !.at = at, !.bucket = b]
    OBVIOUS
  <2>7. req' = [req EXCEPT ![r] = x]
    BY <1>2, <1>5, <2>1, <2>4, <2>6 DEF Check
  <2>8. /\ x \in Request /\ x.pc = pc /\ x.at = clock /\ x.bucket = b /\ x.task = t
        /\ x.status = "none" /\ x.by = "nobody"
        /\ x.cred = c /\ x.needed = needed /\ x.org = p.org
    BY <1>3, <2>2, <2>3, <2>4, <2>5, <2>6 DEF Request, Waiting
  <2>9. ReqOK(x)
    <3>1. x.at <= clock
      BY <2>2, <2>8, GateAssumption
    <3> QED
      BY <2>3, <2>5, <2>8, <3>1 DEF ReqOK, InWindow, Waiting
  <2>10. Becomes(r, x)
    BY <2>7, <2>8, <2>9 DEF Becomes
  <2>11. /\ task' \in [Tasks -> TaskState]
         /\ \A u \in Tasks : task'[u].counts = task[u].counts /\ task'[u].pc = task[u].pc
    <3>1. PICK failed \in BOOLEAN : task' = [task EXCEPT ![t].failed = failed]
      BY <1>1, <1>5 DEF Check, TaskState
    <3> QED
      BY <1>1, <3>1 DEF TaskState
  <2> QED
    BY <2>8, <2>10, <2>11, Uncounted
<1> QED
  BY <1>4, <1>5

LEMMA Authorised ==
    ASSUME IInv, NEW r \in Requests, NEW t \in Tasks, NEW c \in Credentials,
           NEW needed \in Routes, NEW p, p.key_id \in KeyIds, p.org \in Orgs,
           needed \subseteq p.scopes => Attributed(c, needed, p.org),
           req[r].pc = "new",
           Authorise(r, c, p, t, needed), UNCHANGED <<settings, clock, redis>>
    PROVE  IInv'
<1>1. CASE ~(needed \subseteq p.scopes) /\ Reject(r, "403")
  BY <1>1, Rejected
<1>2. CASE needed \subseteq p.scopes /\ Check(r, c, p, t, needed)
  BY <1>2, Checked
<1> QED
  BY <1>1, <1>2 DEF Authorise

LEMMA ArriveStep ==
    ASSUME IInv, NEW r \in Requests, NEW t \in Tasks, NEW c \in Credentials,
           NEW needed \in Routes, Arrive(r, t, c, needed)
    PROVE  IInv'
<1>1. /\ req[r].pc = "new" /\ task[t].pc = "up" /\ UNCHANGED <<settings, clock, redis>>
      /\ settings \in Settings /\ c \in Credential /\ settings \in SettingsChoices
  BY GateAssumption DEF Arrive, IInv, GateType
<1>2. verify_auth_configuration(settings)
  BY <1>1 DEF IInv, Verified
<1>3. CASE ~auth_required(settings) /\ Authorise(r, c, Anonymous(c), t, needed)
  <2>1. PICK p : p = Anonymous(c)
    OBVIOUS
  <2>2. p.key_id \in KeyIds /\ p.org \in Orgs
    BY <1>1, <2>1 DEF Anonymous, KeyIds, Orgs
  <2>3. \A org : Attributed(c, needed, org)
    BY <1>1, <1>3 DEF auth_required, Attributed, Settings
  <2> QED
    BY <1>1, <1>3, <2>1, <2>2, <2>3, Authorised
<1>4. CASE auth_required(settings) /\ c.kind = "none" /\ Reject(r, "401")
  BY <1>1, <1>4, Rejected
<1>5. CASE /\ auth_required(settings) /\ c.kind = "token" /\ settings.jwks
           /\ AuthenticateJwt(r, c, t, needed)
  <2>1. ASSUME NEW status \in Denied(c), Reject(r, status)
        PROVE  IInv'
    <3>1. status \in {"401", "403", "500", "503"}
      BY <2>1 DEF Denied
    <3> QED
      BY <1>1, <2>1, <3>1, Rejected
  <2>2. CASE /\ c.fault = "none" /\ c.scopes # {} /\ clock < c.exp
             /\ Authorise(r, c, Principal(c), t, needed)
    <3>1. PICK p : p = Principal(c)
      OBVIOUS
    <3>2. /\ p.key_id \in KeyIds /\ p.org \in Orgs /\ p.scopes = c.scopes
          /\ p.org = IF settings.enforce_tenancy THEN c.org ELSE default_org_id
      BY <1>1, <1>5, <3>1 DEF Principal, KeyIds, Orgs
    <3>3. needed \subseteq p.scopes => Attributed(c, needed, p.org)
      <4>1. Cardinality({c}) = 1
        BY FS_Singleton
      <4> QED
        BY <1>5, <2>2, <3>2, <4>1 DEF Attributed
    <3> QED
      BY <1>1, <2>2, <3>1, <3>2, <3>3, Authorised
  <2> QED
    BY <1>5, <2>1, <2>2 DEF AuthenticateJwt
<1>6. ASSUME auth_required(settings),
             c.kind = "key" \/ (c.kind = "token" /\ ~settings.jwks),
             NEW e \in _key_table(settings.keys, c.secret),
             Authorise(r, c, Principal(e), t, needed)
      PROVE  IInv'
  <2>1. PICK p : p = Principal(e)
    OBVIOUS
  <2>2. e \in settings.keys /\ e \in Credential /\ e.secret = c.secret
    BY <1>1, <1>6 DEF _key_table, Settings
  <2>3. /\ p.key_id \in KeyIds /\ p.org \in Orgs /\ p.scopes = e.scopes
        /\ p.org = IF settings.enforce_tenancy THEN e.org ELSE default_org_id
    <3>1. /\ e.key_id \in KeyIds /\ "jwt" \in KeyIds
          /\ e.org \in Orgs /\ default_org_id \in Orgs
      BY <1>1, <2>2 DEF KeyIds, Orgs
    <3> QED
      BY <1>1, <2>1, <2>2, <3>1 DEF Principal
  <2>4. parse_api_keys(settings.keys)
    BY <1>2, <1>6 DEF verify_auth_configuration
  <2>5. {f \in settings.keys : f.secret = c.secret} = {e} /\ e.fault = "none"
    BY <2>2, <2>4 DEF parse_api_keys
  <2>6. needed \subseteq p.scopes => Attributed(c, needed, p.org)
    <3>1. Cardinality({e}) = 1
      BY FS_Singleton
    <3>2. ~(c.kind = "token" /\ settings.jwks)
      BY <1>6
    <3> QED
      BY <2>3, <2>5, <3>1, <3>2 DEF Attributed
  <2> QED
    BY <1>1, <1>6, <2>1, <2>3, <2>6, Authorised
<1>7. CASE Reject(r, "401")
  BY <1>1, <1>7, Rejected
<1> QED
  BY <1>3, <1>4, <1>5, <1>6, <1>7 DEF Arrive

-----------------------------------------------------------------------------
(* Counting *)

\* A request that waits for its count.
LEMMA WaitingFacts ==
    ASSUME IInv, NEW r \in Requests, req[r].pc \in Waiting
    PROVE  /\ req[r] \in Request /\ ReqOK(req[r])
           /\ req[r].task \in Tasks /\ req[r].bucket \in Buckets
           /\ req[r].status = "none" /\ req[r].by = "nobody"
           /\ Attributed(req[r].cred, req[r].needed, req[r].org)
           /\ InWindow(req[r]) /\ req[r].at \in Nat /\ clock \in Nat
           /\ req[r].at <= clock
           /\ Length(req[r].bucket) \in Nat /\ Limit(req[r].bucket) \in Nat
           /\ WindowStart(req[r].bucket) \in Nat /\ WindowEnd(req[r].bucket) \in Nat
           /\ WindowEnd(req[r].bucket)
                = WindowStart(req[r].bucket) + Length(req[r].bucket)
<1>1. req[r] \in Request /\ ReqOK(req[r]) /\ clock \in Nat
  BY GateAssumption DEF IInv, GateType
<1>2. req[r].bucket \in Buckets /\ req[r].at \in Nat
  BY <1>1, GateAssumption DEF ReqOK, Request
<1>3. req[r].bucket.number \in Nat
  BY <1>2 DEF Buckets
<1> QED
  BY <1>1, <1>2, <1>3, BucketFacts DEF ReqOK, Waiting

LEMMA PingStep ==
    ASSUME IInv, NEW r \in Requests, Ping(r)
    PROVE  IInv'
<1>1. req[r].pc = "ping" /\ UNCHANGED <<settings, clock, redis>>
  BY DEF Ping
<1>2. PICK pc \in {"redis", "local"} : req' = [req EXCEPT ![r].pc = pc]
  BY DEF Ping
<1>3. req \in [Requests -> Request] /\ task \in [Tasks -> TaskState]
  BY DEF IInv, GateType
<1>4. req[r] \in Request /\ ReqOK(req[r]) /\ req[r].task \in Tasks
  BY <1>1, WaitingFacts DEF Waiting
<1>5. PICK x : x = [req[r] EXCEPT !.pc = pc]
  OBVIOUS
<1>6. req' = [req EXCEPT ![r] = x]
  BY <1>2, <1>5
<1>7. /\ x \in Request /\ x.pc = pc /\ x.status = "none" /\ x.by = "nobody"
      /\ x.task = req[r].task /\ x.bucket = req[r].bucket /\ x.at = req[r].at
      /\ x.cred = req[r].cred /\ x.needed = req[r].needed /\ x.org = req[r].org
  BY <1>1, <1>4, <1>5 DEF Request, ReqOK
<1>8. ReqOK(x)
  BY <1>1, <1>4, <1>7 DEF ReqOK, InWindow, Waiting
<1>9. Becomes(r, x)
  BY <1>1, <1>6, <1>7, <1>8 DEF Becomes
<1>10. /\ task' \in [Tasks -> TaskState]
       /\ \A u \in Tasks : task'[u].counts = task[u].counts /\ task'[u].pc = task[u].pc
  <2>1. CASE task' = [task EXCEPT ![req[r].task].client = TRUE]
    BY <1>3, <1>4, <2>1 DEF TaskState
  <2>2. CASE task' = [task EXCEPT ![req[r].task].failed = TRUE]
    BY <1>3, <1>4, <2>2 DEF TaskState
  <2> QED
    BY <2>1, <2>2 DEF Ping
<1> QED
  BY <1>1, <1>7, <1>9, <1>10, Uncounted

\* The decision on a count.
LEMMA Decided ==
    ASSUME IInv, NEW r \in Requests, req[r].pc \in Waiting,
           NEW count \in Nat, NEW by \in {"redis", "local"}, NEW x,
           x = Decision(r, count, by),
           req' = [req EXCEPT ![r] = x], UNCHANGED <<settings, clock>>
    PROVE  /\ Becomes(r, x) /\ x.by = by /\ x.counted = clock
           /\ x.bucket = req[r].bucket /\ x.task = req[r].task
           /\ x.status = IF count <= Limit(req[r].bucket) THEN "ok" ELSE "429"
<1> DEFINE b == req[r].bucket
           ok == count <= Limit(b)
<1>1. /\ req[r] \in Request /\ req[r].at \in Nat /\ InWindow(req[r]) /\ b \in Buckets
      /\ req[r].task \in Tasks /\ Attributed(req[r].cred, req[r].needed, req[r].org)
      /\ clock \in 0..MaxClock
  BY WaitingFacts DEF IInv, GateType
<1>2. PICK retry : retry = IF ok THEN 0 ELSE RetryAfter(b, req[r].at)
  OBVIOUS
<1>3. x = [req[r] EXCEPT !.pc = "done", !.status = IF ok THEN "ok" ELSE "429",
                         !.by = by, !.counted = clock, !.retry_after = retry]
  BY <1>1, <1>2 DEF Decision, Reply, Request
<1>4. retry \in UNION {0..window[s] : s \in Limited}
  <2>1. RetryAfter(b, req[r].at) \in UNION {0..window[s] : s \in Limited}
    BY <1>1, RetryFacts DEF InWindow
  <2>2. 0 \in UNION {0..window[s] : s \in Limited}
    BY GateAssumption DEF Limited
  <2> QED
    BY <1>2, <2>1, <2>2
<1>5. /\ x \in Request /\ x.pc = "done" /\ x.status = (IF ok THEN "ok" ELSE "429")
      /\ x.by = by /\ x.counted = clock /\ x.retry_after = retry
      /\ x.bucket = b /\ x.task = req[r].task /\ x.at = req[r].at
      /\ x.cred = req[r].cred /\ x.needed = req[r].needed /\ x.org = req[r].org
  <2> HIDE DEF b, ok
  <2> QED
    BY <1>1, <1>3, <1>4 DEF Request, Statuses, b
<1>6. ReqOK(x)
  <2>1. InWindow(x)
    BY <1>1, <1>5 DEF InWindow
  <2>2. x.status = "429" => x.retry_after = RetryAfter(x.bucket, x.at)
    BY <1>2, <1>5
  <2> HIDE DEF ok
  <2> QED
    BY <1>1, <1>5, <2>1, <2>2 DEF ReqOK, Waiting
<1>7. Becomes(r, x)
  BY <1>5, <1>6 DEF Becomes, Waiting
<1> QED
  BY <1>5, <1>7

\* What a step of a request on Redis must show of its own bucket b.
LEMMA RedisStep ==
    ASSUME IInv, NEW r \in Requests, req[r].pc \in Waiting, NEW x, Becomes(r, x),
           NEW own \in Buckets, own = req[r].bucket, x.bucket = own, x.by # "local",
           task' = task,
           redis' \in PartialCounts([count : Nat, expires : Nat]),
           \A b \in Buckets \ {own} :
             /\ b \in DOMAIN redis' <=> b \in DOMAIN redis
             /\ b \in DOMAIN redis => redis'[b] = redis[b],
           RedisOK(own)', RefusalOK(x)'
    PROVE  IInv'
<1>1. /\ req \in [Requests -> Request] /\ x \in Request
      /\ req' = [req EXCEPT ![r] = x] /\ req[r].status = "none"
      /\ settings' = settings /\ clock' = clock
  BY WaitingFacts DEF IInv, GateType, Becomes
<1>2. /\ req' \in [Requests -> Request]
      /\ \A o \in Requests : ReqOK(req[o])' /\ RefusalOK(req[o])'
  BY RequestStep
<1>3. GateType' /\ Verified'
  BY <1>1, <1>2 DEF IInv, GateType, Verified, verify_auth_configuration, auth_required
<1>4. ASSUME NEW b \in Buckets
      PROVE  RedisOK(b)'
  <2>1. CASE b = own
    BY <2>1
  <2>2. CASE b # own
    <3>1. ~PassedIn(x, "redis", b) /\ ~ThroughIn(x, b)
      BY <2>2 DEF PassedIn, ThroughIn
    <3>2. Admitted(b)' = Admitted(b) /\ Through(b)' = Through(b)
      BY ONLY <1>1, <3>1, Sizes, r \in Requests
    <3>3. RedisOK(b)
      BY DEF IInv
    <3> QED
      BY <1>1, <2>2, <3>2, <3>3 DEF RedisOK, WindowEnd, Length, Limit
  <2> QED
    BY <2>1, <2>2
<1>5. ASSUME NEW t \in Tasks, NEW b \in Buckets
      PROVE  LocalOK(t, b)'
  <2>1. ~PassedIn(x, "local", b) /\ ~ThroughOn(x, t, b)
    BY DEF PassedIn, ThroughOn
  <2>2. AdmittedBy(t, b)' = AdmittedBy(t, b) /\ ThroughBy(t, b)' = ThroughBy(t, b)
    BY ONLY <1>1, <2>1, Sizes, r \in Requests
  <2>3. LocalOK(t, b)
    BY DEF IInv
  <2> QED
    BY <1>1, <2>2, <2>3 DEF LocalOK, Shortest, WindowEnd, Length, Limit
<1> QED
  BY <1>2, <1>3, <1>4, <1>5 DEF IInv

LEMMA IncrFacts ==
    ASSUME IInv, NEW r \in Requests, req[r].pc \in Waiting,
           NEW b \in Buckets, b = req[r].bucket
    PROVE  /\ Incr(b) \in [count : Nat, expires : Nat]
           /\ Incr(b).expires >= WindowEnd(b)
           /\ b \in DOMAIN redis => Incr(b).count = redis[b].count + 1
           /\ b \notin DOMAIN redis => Incr(b).count = 1
           /\ With(redis, b, Incr(b)) \in PartialCounts([count : Nat, expires : Nat])
           /\ DOMAIN With(redis, b, Incr(b)) = DOMAIN redis \cup {b}
           /\ With(redis, b, Incr(b))[b] = Incr(b)
           /\ \A o \in DOMAIN redis : o # b => With(redis, b, Incr(b))[o] = redis[o]
<1>1. /\ Length(b) \in Nat /\ clock \in Nat /\ WindowStart(b) \in Nat /\ req[r].at \in Nat
      /\ WindowEnd(b) = WindowStart(b) + Length(b)
      /\ req[r].at <= clock /\ WindowStart(b) <= req[r].at
  BY WaitingFacts DEF InWindow
<1>2. b \in DOMAIN redis => redis[b].count \in Nat
  BY CounterTypes DEF IInv
<1>3. /\ Incr(b) \in [count : Nat, expires : Nat]
      /\ Incr(b).expires = clock + Length(b)
      /\ b \in DOMAIN redis => Incr(b).count = redis[b].count + 1
      /\ b \notin DOMAIN redis => Incr(b).count = 1
  BY <1>1, <1>2 DEF Incr
<1>4. Incr(b).expires >= WindowEnd(b)
  BY <1>1, <1>3
<1>5. redis \in PartialCounts([count : Nat, expires : Nat])
  BY DEF IInv, GateType
<1>6. PICK v : v = Incr(b)
  OBVIOUS
<1>7. v \in [count : Nat, expires : Nat]
  BY <1>3, <1>6
<1>8. /\ With(redis, b, v) \in PartialCounts([count : Nat, expires : Nat])
      /\ DOMAIN With(redis, b, v) = DOMAIN redis \cup {b}
      /\ With(redis, b, v)[b] = v
      /\ \A o \in DOMAIN redis : o # b => With(redis, b, v)[o] = redis[o]
  <2>1. PICK V : V = [count : Nat, expires : Nat]
    OBVIOUS
  <2>2. PICK counts : counts = redis
    OBVIOUS
  <2>3. counts \in PartialCounts(V) /\ v \in V
    BY <1>5, <1>7, <2>1, <2>2
  <2>4. /\ With(counts, b, v) \in PartialCounts(V)
        /\ DOMAIN With(counts, b, v) = DOMAIN counts \cup {b}
        /\ With(counts, b, v)[b] = v
        /\ \A o \in DOMAIN counts : o # b => With(counts, b, v)[o] = counts[o]
    BY <2>3, WithFacts
  <2> QED
    BY <2>1, <2>2, <2>4
<1> QED
  BY <1>3, <1>4, <1>6, <1>8

\* The counter lets a request through, or refuses it because the window is
\* used up; an error lets it through whether or not it was counted.
LEMMA RedisCountStep ==
    ASSUME IInv, NEW r \in Requests, RedisCount(r)
    PROVE  IInv'
<1>1. /\ req[r].pc = "redis" /\ req[r].pc \in Waiting
      /\ settings' = settings /\ clock' = clock /\ task' = task
  BY DEF RedisCount, Waiting
<1>2. PICK b \in Buckets : b = req[r].bucket
  BY <1>1, WaitingFacts
<1>3. PICK new : new = With(redis, b, Incr(b))
  OBVIOUS
<1>4. PICK v : v = Incr(b)
  OBVIOUS
<1>5. /\ v.count \in Nat /\ v.expires >= WindowEnd(b)
      /\ b \in DOMAIN redis => v.count = redis[b].count + 1
      /\ b \notin DOMAIN redis => v.count = 1
      /\ new \in PartialCounts([count : Nat, expires : Nat])
      /\ DOMAIN new = DOMAIN redis \cup {b} /\ new[b] = v
      /\ \A o \in DOMAIN redis : o # b => new[o] = redis[o]
  BY <1>1, <1>2, <1>3, <1>4, IncrFacts
<1>6. /\ req \in [Requests -> Request] /\ req[r] \in Request /\ req[r].status = "none"
      /\ req[r].by = "nobody" /\ clock \in 0..MaxClock /\ clock \in Nat
      /\ Limit(b) \in Nat /\ WindowEnd(b) \in Nat /\ ReqOK(req[r])
      /\ Attributed(req[r].cred, req[r].needed, req[r].org)
  BY <1>1, <1>2, WaitingFacts DEF IInv, GateType
<1>7. RedisOK(b) /\ (b \in DOMAIN redis => redis[b].count \in Nat)
  BY CounterTypes DEF IInv
<1>8. redis \in PartialCounts([count : Nat, expires : Nat])
  BY DEF IInv, GateType
<1>9. CASE redis' = new /\ req' = [req EXCEPT ![r] = Decision(r, v.count, "redis")]
  <2>1. PICK x : x = Decision(r, v.count, "redis")
    OBVIOUS
  <2>2. req' = [req EXCEPT ![r] = x]
    BY <1>9, <2>1
  <2>3. /\ Becomes(r, x) /\ x.by = "redis" /\ x.counted = clock /\ x.bucket = b
        /\ x.status = IF v.count <= Limit(b) THEN "ok" ELSE "429"
    <3>1. PICK count \in Nat : count = v.count
      BY <1>5
    <3>2. x = Decision(r, count, "redis") /\ UNCHANGED <<settings, clock>>
      BY <1>1, <2>1, <3>1
    <3>3. /\ Becomes(r, x) /\ x.by = "redis" /\ x.counted = clock
          /\ x.bucket = req[r].bucket
          /\ x.status = IF count <= Limit(req[r].bucket) THEN "ok" ELSE "429"
      BY <1>1, <2>2, <3>2, Decided
    <3> QED
      BY <1>2, <3>1, <3>3
  <2>4. /\ Admitted(b) \in Nat /\ Through(b) \in Nat
        /\ Admitted(b)' = IF PassedIn(x, "redis", b) THEN Admitted(b) + 1
                          ELSE Admitted(b)
        /\ Through(b)' = IF ThroughIn(x, b) THEN Through(b) + 1 ELSE Through(b)
    <3>1. x \in Request
      BY <2>3 DEF Becomes
    <3> QED
      BY ONLY <1>6, <2>2, <3>1, Sizes, r \in Requests
  <2>5. CASE v.count <= Limit(b)
    <3>1. ThroughIn(x, b) /\ (PassedIn(x, "redis", b) <=> clock < WindowEnd(b))
      BY <2>3, <2>5 DEF ThroughIn, PassedIn
    <3>2. RedisOK(b)'
      <4>1. v.count <= Through(b)' \/ Limit(b) <= Through(b)'
        BY <1>5, <1>6, <1>7, <2>4, <3>1 DEF RedisOK
      <4>2. /\ Admitted(b)' <= Limit(b)
            /\ clock < WindowEnd(b) => Admitted(b)' <= v.count
        BY <1>5, <1>6, <1>7, <2>4, <2>5, <3>1 DEF RedisOK
      <4> QED
        BY <1>1, <1>5, <1>9, <4>1, <4>2 DEF RedisOK, WindowEnd, Length, Limit
    <3>3. RefusalOK(x)'
      BY <2>3, <2>5 DEF RefusalOK
    <3> QED
      BY <1>1, <1>2, <1>5, <1>9, <2>3, <3>2, <3>3, RedisStep
  <2>6. CASE v.count > Limit(b)
    <3>1. x.status = "429" /\ ~ThroughIn(x, b) /\ ~PassedIn(x, "redis", b)
      BY <1>5, <1>6, <2>3, <2>6 DEF ThroughIn, PassedIn
    <3>2. Limit(b) <= Through(b)' /\ Admitted(b)' = Admitted(b)
      BY <1>5, <1>6, <1>7, <2>4, <2>6, <3>1 DEF RedisOK
    <3>3. RedisOK(b)'
      <4>1. /\ Admitted(b)' <= Limit(b)
            /\ clock < WindowEnd(b) /\ Admitted(b)' > 0 => Admitted(b)' <= v.count
        BY <1>5, <1>6, <1>7, <2>4, <3>2 DEF RedisOK
      <4> QED
        BY <1>1, <1>5, <1>9, <3>2, <4>1 DEF RedisOK, WindowEnd, Length, Limit
    <3>4. RefusalOK(x)'
      BY <2>3, <3>2 DEF RefusalOK, Limit
    <3> QED
      BY <1>1, <1>2, <1>5, <1>9, <2>3, <3>3, <3>4, RedisStep
  <2> QED
    BY <1>5, <1>6, <2>5, <2>6
<1>10. CASE /\ redis' \in {redis, new}
            /\ req' = [req EXCEPT ![r] = [Reply(r, "ok") EXCEPT !.counted = clock]]
  <2>1. PICK x : x = [Reply(r, "ok") EXCEPT !.counted = clock]
    OBVIOUS
  <2>2. req' = [req EXCEPT ![r] = x]
    BY <1>10, <2>1
  <2>3. /\ x \in Request /\ x.pc = "done" /\ x.status = "ok" /\ x.by = "nobody"
        /\ x.bucket = b /\ x.cred = req[r].cred /\ x.needed = req[r].needed
        /\ x.org = req[r].org
    BY <1>2, <1>6, <2>1 DEF Reply, Request, Statuses
  <2>4. Becomes(r, x)
    <3>1. ReqOK(x)
      BY <1>6, <2>3 DEF ReqOK, Waiting
    <3> QED
      BY <1>1, <2>2, <2>3, <3>1 DEF Becomes
  <2>5. ~PassedIn(x, "redis", b) /\ ThroughIn(x, b)
    BY <2>3 DEF PassedIn, ThroughIn
  <2>6. /\ Admitted(b) \in Nat /\ Through(b) \in Nat
        /\ Admitted(b)' = Admitted(b) /\ Through(b)' = Through(b) + 1
    BY ONLY <1>6, <2>2, <2>3, <2>5, Sizes, r \in Requests
  <2>7. RedisOK(b)'
    <3>1. Admitted(b)' <= Limit(b)
      BY <1>7, <2>6 DEF RedisOK
    <3>2. CASE redis' = redis
      BY <1>1, <1>6, <1>7, <2>6, <3>2 DEF RedisOK, WindowEnd, Length, Limit
    <3>3. CASE redis' = new
      <4>1. v.count <= Through(b)' \/ Limit(b) <= Through(b)'
        BY <1>5, <1>6, <1>7, <2>6 DEF RedisOK
      <4>2. clock < WindowEnd(b) /\ Admitted(b)' > 0 => Admitted(b)' <= v.count
        BY <1>5, <1>6, <1>7, <2>6 DEF RedisOK
      <4> QED
        BY <1>1, <1>5, <3>1, <3>3, <4>1, <4>2 DEF RedisOK, WindowEnd, Length, Limit
    <3> QED
      BY <1>10, <3>2, <3>3
  <2>8. RefusalOK(x)'
    BY <2>3 DEF RefusalOK
  <2>9. CASE redis' = redis
    BY <1>1, <1>2, <1>8, <2>3, <2>4, <2>7, <2>8, <2>9, RedisStep
  <2>10. CASE redis' = new
    BY <1>1, <1>2, <1>5, <2>3, <2>4, <2>7, <2>8, <2>10, RedisStep
  <2> QED
    BY <1>10, <2>9, <2>10
<1> QED
  BY <1>2, <1>3, <1>4, <1>9, <1>10 DEF RedisCount

\* The counters of a process after count was reached in bucket b, at that time,
\* and the purge it may set off: b stays, and what goes began more than the
\* length of b ago.
AfterPurge(new, counts, b, count, at) ==
    /\ new \in LocalCounts /\ b \in DOMAIN new /\ new[b] = count
    /\ \A o \in DOMAIN new : o # b => o \in DOMAIN counts /\ new[o] = counts[o]
    /\ \A o \in DOMAIN counts :
         o \notin DOMAIN new => WindowStart(o) + Length(b) < at

LEMMA KeptFacts ==
    ASSUME IInv, NEW r \in Requests, req[r].pc \in Waiting,
           NEW b \in Buckets, b = req[r].bucket,
           NEW counts \in LocalCounts, NEW count \in Nat,
           NEW new, new = Kept(With(counts, b, count), r)
    PROVE  AfterPurge(new, counts, b, count, req[r].at)
<1>1. PICK mid : mid = With(counts, b, count)
  OBVIOUS
<1>2. /\ mid \in LocalCounts /\ DOMAIN mid = DOMAIN counts \cup {b}
      /\ mid[b] = count /\ \A o \in DOMAIN counts : o # b => mid[o] = counts[o]
      /\ DOMAIN counts \subseteq Buckets
  <2>1. DOMAIN counts \subseteq Buckets /\ \A o \in DOMAIN counts : counts[o] \in Nat
    BY PartialFacts DEF LocalCounts
  <2>2. mid \in [DOMAIN counts \cup {b} -> Nat]
    BY <1>1, <2>1 DEF With
  <2>3. mid \in LocalCounts
    BY <2>1, <2>2 DEF LocalCounts, PartialCounts
  <2> QED
    BY <1>1, <2>1, <2>3 DEF With
<1>3. PICK S : S = {o \in Buckets : o.number * Length(o) + Length(b) >= req[r].at}
  OBVIOUS
<1>4. new = mid \/ new = Restricted(mid, S)
  BY <1>1, <1>3 DEF Kept
<1>5. /\ Restricted(mid, S) \in LocalCounts
      /\ DOMAIN Restricted(mid, S) = DOMAIN mid \cap S
      /\ \A o \in DOMAIN mid \cap S : Restricted(mid, S)[o] = mid[o]
  <2>1. PICK V : V = Nat
    OBVIOUS
  <2>2. mid \in PartialCounts(V)
    BY <1>2, <2>1 DEF LocalCounts
  <2>3. /\ Restricted(mid, S) \in PartialCounts(V)
        /\ DOMAIN Restricted(mid, S) = DOMAIN mid \cap S
        /\ \A o \in DOMAIN mid \cap S : Restricted(mid, S)[o] = mid[o]
    BY <2>2, RestrictedFacts
  <2> QED
    BY <2>1, <2>3 DEF LocalCounts
<1>6. b \in S
  <2>1. /\ WindowStart(b) \in Nat /\ Length(b) \in Nat /\ req[r].at \in Nat
        /\ req[r].at < WindowStart(b) + Length(b)
    BY WaitingFacts DEF InWindow
  <2>2. b.number * Length(b) + Length(b) >= req[r].at
    BY <2>1 DEF WindowStart
  <2> QED
    BY <1>3, <2>2
<1>7. ASSUME NEW o \in Buckets, o \notin S
      PROVE  WindowStart(o) + Length(b) < req[r].at
  <2>1. o.number \in Nat
    BY DEF Buckets
  <2>2. WindowStart(o) \in Nat /\ Length(b) \in Nat /\ req[r].at \in Nat
    BY <2>1, WaitingFacts, BucketFacts
  <2>3. ~(WindowStart(o) + Length(b) >= req[r].at)
    BY <1>3, <1>7 DEF WindowStart
  <2> QED
    BY <2>2, <2>3
<1>8. CASE new = mid
  BY <1>2, <1>8 DEF AfterPurge
<1>9. CASE new = Restricted(mid, S)
  BY <1>2, <1>5, <1>6, <1>7, <1>9 DEF AfterPurge
<1> QED
  BY <1>4, <1>8, <1>9

\* Request r is counted by process t in its bucket b.
CountedLocally(r, t, b, new, count) ==
    /\ req[r].pc \in Waiting /\ b = req[r].bucket
    /\ AfterPurge(new, task[t].counts, b, count, req[r].at)
    /\ task' = [task EXCEPT ![t].counts = new] /\ clock' = clock

\* Counters and numbers of another process, or of another bucket, after that.
LEMMA LocalElsewhere ==
    ASSUME IInv, NEW r \in Requests, NEW by \in Tasks, NEW own \in Buckets,
           NEW new, NEW count, CountedLocally(r, by, own, new, count),
           NEW t \in Tasks, NEW b \in Buckets, t # by \/ b # own,
           AdmittedBy(t, b)' = AdmittedBy(t, b), ThroughBy(t, b)' = ThroughBy(t, b)
    PROVE  LocalOK(t, b)'
<1> PICK old : old = task[by].counts
  OBVIOUS
<1>0. /\ req[r].pc \in Waiting /\ own = req[r].bucket
      /\ AfterPurge(new, old, own, count, req[r].at)
      /\ task' = [task EXCEPT ![by].counts = new] /\ clock' = clock
  BY DEF CountedLocally
<1>1. LocalOK(t, b)
  BY DEF IInv
<1>2. task \in [Tasks -> TaskState]
  BY DEF IInv, GateType
<1>3. task'[t].counts = IF t = by THEN new ELSE task[t].counts
  BY <1>0, <1>2 DEF TaskState
<1>4. CASE t # by
  BY <1>0, <1>1, <1>3, <1>4 DEF LocalOK, Shortest, WindowEnd, Length, Limit
<1>5. CASE t = by /\ b # own
  <2>1. task[t].counts = old
    BY <1>5
  <2>2. /\ task'[t].counts = new
        /\ b \in DOMAIN new => b \in DOMAIN old /\ new[b] = old[b]
        /\ b \in DOMAIN old /\ b \notin DOMAIN new =>
             WindowStart(b) + Length(own) < req[r].at
    BY <1>0, <1>3, <1>5, <2>1 DEF AfterPurge
  <2>3. /\ Length(own) \in Nat /\ req[r].at \in Nat /\ clock \in Nat
        /\ req[r].at <= clock
    BY <1>0, WaitingFacts
  <2>4. /\ WindowStart(b) \in Nat /\ Length(b) \in Nat
        /\ WindowEnd(b) = WindowStart(b) + Length(b)
    <3>1. b.number \in Nat
      BY DEF Buckets
    <3> QED
      BY <3>1, BucketFacts
  <2>5. Shortest(b) => Length(b) <= Length(own)
    BY BucketFacts DEF Shortest
  <2>6. Shortest(b) /\ clock < WindowEnd(b) /\ b \in DOMAIN old => b \in DOMAIN new
    BY <2>2, <2>3, <2>4, <2>5
  <2> QED
    BY <1>0, <1>1, <2>1, <2>2, <2>6 DEF LocalOK, Shortest, WindowEnd, Length, Limit
<1> QED
  BY <1>4, <1>5

LEMMA LocalCountStep ==
    ASSUME IInv, NEW r \in Requests, LocalCount(r)
    PROVE  IInv'
<1>1. /\ req[r].pc = "local" /\ req[r].pc \in Waiting
      /\ settings' = settings /\ clock' = clock /\ redis' = redis
  BY DEF LocalCount, Waiting
<1>2. PICK b \in Buckets : b = req[r].bucket
  BY <1>1, WaitingFacts
<1>3. PICK t \in Tasks : t = req[r].task
  BY <1>1, WaitingFacts
<1>4. PICK counts \in LocalCounts : counts = task[t].counts
  BY DEF IInv, GateType, TaskState
<1>5. PICK count : count = Counted(counts, b)
  OBVIOUS
<1>6. /\ count \in Nat
      /\ b \in DOMAIN counts => counts[b] \in Nat /\ count = counts[b] + 1
      /\ b \notin DOMAIN counts => count = 1
  BY <1>4, <1>5, PartialFacts DEF Counted, LocalCounts
<1>7. PICK new : new = Kept(With(counts, b, count), r)
  OBVIOUS
<1>8. AfterPurge(new, counts, b, count, req[r].at)
  BY ONLY IInv, r \in Requests, <1>1, <1>2, <1>4, <1>6, <1>7, KeptFacts
<1>9. task' = [task EXCEPT ![t].counts = new]
  BY <1>2, <1>3, <1>4, <1>5, <1>7 DEF LocalCount, IInv, GateType, TaskState
<1>10. PICK x : x = Decision(r, count, "local")
  OBVIOUS
<1>11. req' = [req EXCEPT ![r] = x]
  BY <1>2, <1>3, <1>4, <1>5, <1>10 DEF LocalCount
<1>12. /\ Becomes(r, x) /\ x.by = "local" /\ x.counted = clock
       /\ x.bucket = b /\ x.task = t
       /\ x.status = IF count <= Limit(b) THEN "ok" ELSE "429"
  <2>1. UNCHANGED <<settings, clock>>
    BY <1>1
  <2> QED
    BY <1>1, <1>2, <1>3, <1>6, <1>10, <1>11, <2>1, Decided
<1>13. /\ req \in [Requests -> Request] /\ req[r].status = "none" /\ x \in Request
       /\ task \in [Tasks -> TaskState] /\ Limit(b) \in Nat /\ WindowEnd(b) \in Nat
       /\ clock \in Nat
  BY <1>1, <1>2, <1>12, WaitingFacts DEF Becomes, IInv, GateType
<1>14. task' \in [Tasks -> TaskState] /\ \A u \in Tasks : task'[u].pc = task[u].pc
  BY <1>8, <1>9, <1>13 DEF TaskState, AfterPurge
<1>15. /\ \A o : /\ Admitted(o) \in Nat /\ Through(o) \in Nat
                 /\ Admitted(o)' = Admitted(o) /\ Through(o)' = Through(o)
  <2>1. \A o : ~PassedIn(x, "redis", o) /\ ~ThroughIn(x, o)
    BY <1>12 DEF PassedIn, ThroughIn
  <2> QED
    BY ONLY <1>11, <1>13, <2>1, Sizes, r \in Requests
<1>16. \A u, o : u # t \/ o # b =>
          AdmittedBy(u, o)' = AdmittedBy(u, o) /\ ThroughBy(u, o)' = ThroughBy(u, o)
  <2> TAKE u, o
  <2> HAVE u # t \/ o # b
  <2>1. ~(PassedIn(x, "local", o) /\ x.task = u) /\ ~ThroughOn(x, u, o)
    BY <1>12 DEF PassedIn, ThroughOn
  <2> QED
    BY ONLY <1>11, <1>13, <2>1, Sizes, r \in Requests
<1>17. /\ AdmittedBy(t, b) \in Nat /\ ThroughBy(t, b) \in Nat
       /\ AdmittedBy(t, b)' = IF count <= Limit(b) /\ clock < WindowEnd(b)
                              THEN AdmittedBy(t, b) + 1 ELSE AdmittedBy(t, b)
       /\ ThroughBy(t, b)' = IF count <= Limit(b) THEN ThroughBy(t, b) + 1
                             ELSE ThroughBy(t, b)
  <2>1. /\ PassedIn(x, "local", b) /\ x.task = t <=>
             count <= Limit(b) /\ clock < WindowEnd(b)
        /\ ThroughOn(x, t, b) <=> count <= Limit(b)
    BY <1>12 DEF PassedIn, ThroughOn
  <2> QED
    BY ONLY <1>11, <1>13, <2>1, Sizes, r \in Requests
<1>18. LocalOK(t, b)
  BY DEF IInv
<1>19. count <= ThroughBy(t, b)' \/ Limit(b) <= ThroughBy(t, b)'
  BY <1>4, <1>6, <1>13, <1>17, <1>18 DEF LocalOK
<1>20. LocalOK(t, b)'
  <2>1. Shortest(b) => /\ AdmittedBy(t, b)' <= Limit(b)
                       /\ clock < WindowEnd(b) => AdmittedBy(t, b)' <= count
    BY <1>4, <1>6, <1>13, <1>17, <1>18 DEF LocalOK
  <2>2. task'[t].counts = new
    BY <1>9, <1>13 DEF TaskState
  <2> QED
    BY <1>1, <1>8, <1>19, <2>1, <2>2
       DEF LocalOK, AfterPurge, Shortest, WindowEnd, Length, Limit
<1>21. ASSUME NEW u \in Tasks, NEW o \in Buckets
       PROVE  LocalOK(u, o)'
  <2>1. CASE u = t /\ o = b
    BY <1>20, <2>1
  <2>2. CASE u # t \/ o # b
    <3>1. AdmittedBy(u, o)' = AdmittedBy(u, o) /\ ThroughBy(u, o)' = ThroughBy(u, o)
      BY <1>16, <2>2
    <3>2. CountedLocally(r, t, b, new, count)
      BY <1>1, <1>2, <1>4, <1>8, <1>9 DEF CountedLocally
    <3> QED
      BY <2>2, <3>1, <3>2, LocalElsewhere
  <2> QED
    BY <2>1, <2>2
<1>22. ASSUME NEW o \in Buckets
       PROVE  RedisOK(o)'
  <2>1. RedisOK(o)
    BY DEF IInv
  <2> QED
    BY <1>1, <1>15, <2>1 DEF RedisOK, WindowEnd, Length, Limit
<1>23. RefusalOK(x)'
  <2>1. x.status = "429" => Limit(b) <= ThroughBy(t, b)'
    BY <1>6, <1>12, <1>13, <1>17, <1>19
  <2> QED
    BY <1>12, <2>1 DEF RefusalOK, Limit
<1>24. /\ req' \in [Requests -> Request]
       /\ \A o \in Requests : ReqOK(req[o])' /\ RefusalOK(req[o])'
  BY <1>12, <1>23, RequestStep
<1>25. GateType' /\ Verified'
  BY <1>1, <1>14, <1>24
     DEF IInv, GateType, Verified, verify_auth_configuration, auth_required
<1> QED
  BY <1>21, <1>22, <1>24, <1>25 DEF IInv

-----------------------------------------------------------------------------
(* The other steps *)

\* A step that leaves the requests and all counters alone.
LEMMA Idle ==
    ASSUME IInv, UNCHANGED <<settings, clock, redis, req>>,
           task' \in [Tasks -> TaskState], Verified',
           \A t \in Tasks : task'[t].counts = task[t].counts
    PROVE  IInv'
<1>1. settings' = settings /\ clock' = clock /\ redis' = redis /\ req' = req
  OBVIOUS
<1>2. GateType'
  BY <1>1 DEF IInv, GateType
<1>3. /\ \A b : Admitted(b)' = Admitted(b) /\ Through(b)' = Through(b)
      /\ \A t, b : /\ AdmittedBy(t, b)' = AdmittedBy(t, b)
                   /\ ThroughBy(t, b)' = ThroughBy(t, b)
  BY <1>1, SameSizes
<1>4. ASSUME NEW r \in Requests
      PROVE  ReqOK(req[r])' /\ RefusalOK(req[r])'
  <2>1. PICK y \in Request : y = req[r] /\ ReqOK(y)
    BY DEF IInv, GateType
  <2>2. clock \in Nat /\ clock <= clock
    BY GateAssumption DEF IInv, GateType
  <2>3. ReqOK(y)'
    BY <1>1, <2>1, <2>2, ReqOKStays
  <2>4. ReqOK(req[r])'
    BY <1>1, <2>1, <2>3
  <2>5. RefusalOK(req[r])'
    BY <1>1, <1>3 DEF IInv, RefusalOK, Limit
  <2> QED
    BY <2>4, <2>5
<1>5. ASSUME NEW b \in Buckets
      PROVE  RedisOK(b)'
  BY <1>1, <1>3 DEF IInv, RedisOK, WindowEnd, Length, Limit
<1>6. ASSUME NEW t \in Tasks, NEW b \in Buckets
      PROVE  LocalOK(t, b)'
  BY <1>1, <1>3 DEF IInv, LocalOK, Shortest, WindowEnd, Length, Limit
<1> QED
  BY <1>2, <1>4, <1>5, <1>6 DEF IInv

\* A process starts to serve only with a configuration it accepts.
LEMMA StartStep ==
    ASSUME IInv, NEW t \in Tasks, Start(t)
    PROVE  IInv'
<1>1. UNCHANGED <<settings, clock, redis, req>>
  BY DEF Start
<1>2. PICK pc \in {"up", "crashed"} :
        /\ task' = [task EXCEPT ![t].pc = pc]
        /\ pc = "up" => verify_auth_configuration(settings)
  BY DEF Start
<1>3. task \in [Tasks -> TaskState]
  BY DEF IInv, GateType
<1>4. /\ task' \in [Tasks -> TaskState]
      /\ \A u \in Tasks : /\ task'[u].counts = task[u].counts
                          /\ task'[u].pc = IF u = t THEN pc ELSE task[u].pc
  BY <1>2, <1>3 DEF TaskState
<1>5. Verified'
  BY <1>1, <1>2, <1>4 DEF IInv, Verified, verify_auth_configuration, auth_required
<1> QED
  BY <1>1, <1>4, <1>5, Idle

\* Redis forgets no counter whose window is not over.
LEMMA TickStep ==
    ASSUME IInv, Tick
    PROVE  IInv'
<1>1. /\ clock \in 0..MaxClock /\ clock < MaxClock /\ MaxClock \in Nat
      /\ clock' = clock + 1 /\ settings' = settings /\ task' = task /\ req' = req
      /\ req \in [Requests -> Request]
  BY GateAssumption DEF Tick, IInv, GateType
<1>2. clock \in Nat /\ clock' \in 0..MaxClock /\ clock' \in Nat /\ clock <= clock'
  BY <1>1
<1>3. PICK S : S = {b \in DOMAIN redis : redis[b].expires > clock + 1}
  OBVIOUS
<1>4. /\ redis' \in PartialCounts([count : Nat, expires : Nat])
      /\ DOMAIN redis' = S
      /\ \A b \in S : redis'[b] = redis[b]
  <2>1. PICK V : V = [count : Nat, expires : Nat]
    OBVIOUS
  <2>2. redis \in PartialCounts(V)
    BY <2>1 DEF IInv, GateType
  <2>3. redis' = Restricted(redis, S)
    BY <1>3 DEF Tick
  <2>4. /\ Restricted(redis, S) \in PartialCounts(V)
        /\ DOMAIN Restricted(redis, S) = DOMAIN redis \cap S
        /\ \A b \in DOMAIN redis \cap S : Restricted(redis, S)[b] = redis[b]
    BY <2>2, RestrictedFacts
  <2> QED
    BY <1>3, <2>1, <2>3, <2>4
<1>5. GateType' /\ Verified'
  BY <1>1, <1>2, <1>4
     DEF IInv, GateType, Verified, verify_auth_configuration, auth_required
<1>6. /\ \A b : Admitted(b)' = Admitted(b) /\ Through(b)' = Through(b)
      /\ \A t, b : /\ AdmittedBy(t, b)' = AdmittedBy(t, b)
                   /\ ThroughBy(t, b)' = ThroughBy(t, b)
  BY <1>1, SameSizes
<1>7. ASSUME NEW r \in Requests
      PROVE  ReqOK(req[r])' /\ RefusalOK(req[r])'
  <2>1. PICK y \in Request : y = req[r] /\ ReqOK(y)
    BY <1>1 DEF IInv
  <2>2. ReqOK(y)'
    BY <1>1, <1>2, <2>1, ReqOKStays
  <2>3. ReqOK(req[r])'
    BY <1>1, <2>1, <2>2
  <2>4. RefusalOK(req[r])'
    BY <1>1, <1>6 DEF IInv, RefusalOK, Limit
  <2> QED
    BY <2>3, <2>4
<1>8. ASSUME NEW b \in Buckets
      PROVE  RedisOK(b)'
  <2>1. RedisOK(b) /\ (b \in DOMAIN redis => redis[b].expires \in Nat)
    BY CounterTypes DEF IInv
  <2>2. WindowEnd(b) \in Nat
    <3>1. b.number \in Nat
      BY DEF Buckets
    <3> QED
      BY <3>1, BucketFacts
  <2>3. clock' < WindowEnd(b) /\ b \in DOMAIN redis => b \in S
    BY <1>1, <1>2, <1>3, <2>1, <2>2 DEF RedisOK
  <2>4. clock' < WindowEnd(b) => clock < WindowEnd(b)
    BY <1>1, <1>2, <2>2
  <2>5. b \in S => b \in DOMAIN redis
    BY <1>3
  <2> QED
    BY <1>4, <1>6, <2>1, <2>3, <2>4, <2>5 DEF RedisOK, WindowEnd, Length, Limit
<1>9. ASSUME NEW t \in Tasks, NEW b \in Buckets
      PROVE  LocalOK(t, b)'
  <2>1. LocalOK(t, b)
    BY DEF IInv
  <2>2. WindowEnd(b) \in Nat
    <3>1. b.number \in Nat
      BY DEF Buckets
    <3> QED
      BY <3>1, BucketFacts
  <2>3. clock' < WindowEnd(b) => clock < WindowEnd(b)
    BY <1>1, <1>2, <2>2
  <2> QED
    BY <1>1, <1>6, <2>1, <2>3 DEF LocalOK, Shortest, WindowEnd, Length, Limit
<1> QED
  BY <1>5, <1>7, <1>8, <1>9 DEF IInv

LEMMA InitOK ==
    ASSUME Init
    PROVE  IInv
<1>1. NewRequest \in Request
  <2>1. PICK c \in Credentials : c = CHOOSE e \in Credentials : TRUE
    BY GateAssumption
  <2>2. PICK s \in Routes : s = CHOOSE n \in Routes : TRUE
    BY GateAssumption
  <2>3. PICK z : z = 0 /\ z \in UNION {0..window[l] : l \in Limited} /\ z \in 0..MaxClock
    <3>1. 0 \in UNION {0..window[l] : l \in Limited} /\ 0 \in 0..MaxClock
      BY GateAssumption DEF Limited
    <3> QED
      BY <3>1
  <2>4. NewRequest = [pc |-> "new", task |-> NoTask, cred |-> c, needed |-> s,
                      org |-> "", bucket |-> NoBucket, at |-> z, counted |-> z,
                      status |-> "none", by |-> "nobody", retry_after |-> z]
    BY <2>1, <2>2, <2>3 DEF NewRequest
  <2>5. "" \in Orgs
    BY DEF Orgs
  <2> QED
    BY <2>3, <2>4, <2>5 DEF Request, Statuses
<1>2. /\ NewRequest.pc = "new" /\ NewRequest.status = "none"
      /\ NewRequest.by = "nobody"
  BY DEF NewRequest
<1>3. /\ \A r \in Requests : req[r] = NewRequest
      /\ \A t \in Tasks : task[t] = NewTask
  BY DEF Init
<1>4. NoCounts \in [{} -> Nat] /\ NoCounts \in [{} -> [count : Nat, expires : Nat]]
  BY DEF NoCounts
<1>5. /\ NoCounts \in LocalCounts
      /\ NoCounts \in PartialCounts([count : Nat, expires : Nat])
  BY <1>4 DEF LocalCounts, PartialCounts
<1>6. GateType
  <2>1. NewTask \in TaskState
    BY <1>5 DEF NewTask, TaskState
  <2> QED
    BY <1>1, <1>5, <2>1, GateAssumption DEF GateType, Init
<1>7. Verified
  BY <1>3 DEF Verified, NewTask
<1>8. \A r \in Requests : ReqOK(req[r]) /\ RefusalOK(req[r])
  BY <1>2, <1>3 DEF ReqOK, RefusalOK, Waiting
<1>9. /\ \A b : Admitted(b) = 0
      /\ \A t, b : AdmittedBy(t, b) = 0
  <2>1. \A b : {r \in Requests : PassedIn(req[r], "redis", b)} = {}
    BY <1>2, <1>3 DEF PassedIn
  <2>2. \A t, b : {r \in Requests : PassedIn(req[r], "local", b) /\ req[r].task = t} = {}
    BY <1>2, <1>3 DEF PassedIn
  <2> QED
    BY <2>1, <2>2, FS_EmptySet DEF Admitted, AdmittedBy
<1>10. DOMAIN redis = {} /\ \A t \in Tasks : DOMAIN task[t].counts = {}
  BY <1>3 DEF Init, NewTask, NoCounts
<1>11. \A b \in Buckets : RedisOK(b)
  BY <1>9, <1>10, BucketFacts DEF RedisOK
<1>12. \A t \in Tasks, b \in Buckets : LocalOK(t, b)
  BY <1>9, <1>10, BucketFacts DEF LocalOK
<1> QED
  BY <1>6, <1>7, <1>8, <1>11, <1>12 DEF IInv

LEMMA NextOK ==
    ASSUME IInv, [Next]_vars
    PROVE  IInv'
<1>1. ASSUME NEW t \in Tasks, Start(t)
      PROVE  IInv'
  BY <1>1, StartStep
<1>2. ASSUME NEW r \in Requests, NEW t \in Tasks, NEW c \in Credentials,
             NEW needed \in Routes, Arrive(r, t, c, needed)
      PROVE  IInv'
  BY <1>2, ArriveStep
<1>3. ASSUME NEW r \in Requests, Count(r)
      PROVE  IInv'
  BY <1>3, PingStep, RedisCountStep, LocalCountStep DEF Count
<1>4. CASE Tick
  BY <1>4, TickStep
<1>5. CASE UNCHANGED vars
  <2>1. /\ settings' = settings /\ clock' = clock /\ redis' = redis
        /\ task' = task /\ req' = req
    BY <1>5 DEF vars
  <2>2. Verified' /\ task \in [Tasks -> TaskState]
    BY <2>1 DEF IInv, GateType, Verified, verify_auth_configuration, auth_required
  <2> QED
    BY <2>1, <2>2, Idle
<1> QED
  BY <1>1, <1>2, <1>3, <1>4, <1>5 DEF Next

LEMMA Inductive == Spec => []IInv
  BY InitOK, NextOK, PTL DEF Spec

-----------------------------------------------------------------------------
(* What the gate promises *)

\* Every variable keeps its type, and no Retry-After is longer than the longest
\* window (TypeOK).
THEOREM TypeCorrect == Spec => []TypeOK
<1>1. IInv => TypeOK
  <2> SUFFICES ASSUME IInv PROVE TypeOK
    OBVIOUS
  <2>1. GateType
    BY DEF IInv
  <2>2. \A t \in Tasks : /\ task[t].pc \in {"off", "up", "crashed"}
                         /\ task[t].client \in BOOLEAN /\ task[t].failed \in BOOLEAN
    BY <2>1, CounterTypes DEF TaskState
  <2> QED
    BY <2>1, <2>2, CounterTypes DEF TypeOK, GateType
<1> QED
  BY <1>1, Inductive, PTL

\* Each process on its own counters holds the limit of the shortest windows,
\* whatever the other requests purge (_LocalWindows.incr).
THEOREM LocalLimit == Spec => []LocalMinuteLimit
<1>1. IInv => LocalMinuteLimit
  <2> SUFFICES ASSUME IInv, NEW t \in Tasks,
                      NEW b \in {req[r].bucket : r \in Requests} \ {NoBucket},
                      \A s \in Limited : Length(b) <= 2 * window[s]
               PROVE  Cardinality({r \in Requests :
                        /\ Passed(r, "local") /\ req[r].task = t
                        /\ req[r].bucket = b}) <= Limit(b)
    BY DEF LocalMinuteLimit
  <2>1. b \in Buckets
    BY DEF IInv, GateType, Request
  <2>2. AdmittedBy(t, b) <= Limit(b)
    BY <2>1 DEF IInv, LocalOK, Shortest
  <2>3. {r \in Requests : /\ Passed(r, "local") /\ req[r].task = t
                          /\ req[r].bucket = b}
          = {r \in Requests : PassedIn(req[r], "local", b) /\ req[r].task = t}
    BY DEF Passed, PassedIn, WindowEnd
  <2> QED
    BY <2>2, <2>3 DEF AdmittedBy
<1> QED
  BY <1>1, Inductive, PTL

\* A 429 is given only in a window that is used up (RateLimiter.check).
THEOREM RefusalsNotEarly == Spec => []NoEarlyRefusal
<1>1. IInv => NoEarlyRefusal
  <2> SUFFICES ASSUME IInv, NEW r \in Requests, req[r].status = "429"
               PROVE  Cardinality({o \in Requests :
                        /\ req[o].status = "ok" /\ req[o].bucket = req[r].bucket
                        /\ IF req[r].by = "redis" THEN req[o].by # "local"
                           ELSE req[o].by = "local" /\ req[o].task = req[r].task})
                      >= Limit(req[r].bucket)
    BY DEF NoEarlyRefusal
  <2> DEFINE b == req[r].bucket
             t == req[r].task
             Others == {o \in Requests :
                        /\ req[o].status = "ok" /\ req[o].bucket = b
                        /\ IF req[r].by = "redis" THEN req[o].by # "local"
                           ELSE req[o].by = "local" /\ req[o].task = t}
  <2>1. Limit(b) <= IF req[r].by = "redis" THEN Through(b) ELSE ThroughBy(t, b)
    BY DEF IInv, RefusalOK
  <2>2. CASE req[r].by = "redis"
    <3>1. Others = {o \in Requests : ThroughIn(req[o], b)}
      BY <2>2 DEF ThroughIn
    <3> HIDE DEF Others
    <3>2. Cardinality(Others) = Through(b)
      BY <3>1 DEF Through
    <3> QED
      BY <2>1, <2>2, <3>2 DEF Others
  <2>3. CASE req[r].by # "redis"
    <3>1. Others = {o \in Requests : ThroughOn(req[o], t, b)}
      BY <2>3 DEF ThroughOn
    <3> HIDE DEF Others
    <3>2. Cardinality(Others) = ThroughBy(t, b)
      BY <3>1 DEF ThroughBy
    <3> QED
      BY <2>1, <2>3, <3>2 DEF Others
  <2> QED
    BY <2>2, <2>3
<1> QED
  BY <1>1, Inductive, PTL

\* Who waits for Retry-After returns within a second of the next window
\* (RateLimiter.check).
THEOREM RetryAtNextWindow == Spec => []RetryReachesNextWindow
<1>1. IInv => RetryReachesNextWindow
  <2> SUFFICES ASSUME IInv, NEW r \in Requests, req[r].status = "429"
               PROVE  /\ WindowEnd(req[r].bucket)
                           < req[r].at + 2 * req[r].retry_after + 2
                      /\ req[r].at + 2 * req[r].retry_after
                           < WindowEnd(req[r].bucket) + 2
    BY DEF RetryReachesNextWindow, WindowEnd
  <2>1. /\ req[r].bucket \in Buckets /\ InWindow(req[r])
        /\ req[r].retry_after = RetryAfter(req[r].bucket, req[r].at)
    BY DEF IInv, ReqOK
  <2>2. req[r].at \in Nat
    BY GateAssumption DEF IInv, GateType, Request
  <2> QED
    BY <2>1, <2>2, RetryFacts DEF InWindow
<1> QED
  BY <1>1, Inductive, PTL

\* Whoever is served has one known holder (require, verify_auth_configuration).
THEOREM ServedAttributable == Spec => []ServedIsAttributable
<1>1. IInv => ServedIsAttributable
  BY DEF IInv, ReqOK, Attributed, ServedIsAttributable
<1> QED
  BY <1>1, Inductive, PTL

-----------------------------------------------------------------------------
(* The gate implements Quota *)

\* The requests a step of the gate admits, as Quota sees them.
Bar == [r \in Requests |-> IF Passed(r, "redis") THEN req[r].bucket ELSE NoBucket]

\* A step changes at most one request, one that has no answer yet.
LEMMA OneRequest ==
    ASSUME IInv, [Next]_vars
    PROVE  \/ req' = req
           \/ \E r \in Requests : \E x :
                req[r].pc # "done" /\ req' = [req EXCEPT ![r] = x]
<1>1. ASSUME NEW r \in Requests, NEW t \in Tasks, NEW c \in Credentials,
             NEW needed \in Routes, Arrive(r, t, c, needed)
      PROVE  req[r].pc # "done" /\ \E x : req' = [req EXCEPT ![r] = x]
  <2>1. \A p : Authorise(r, c, p, t, needed) => \E x : req' = [req EXCEPT ![r] = x]
    BY DEF Authorise, Check, Reject
  <2>2. \A status : Reject(r, status) => \E x : req' = [req EXCEPT ![r] = x]
    BY DEF Reject
  <2> QED
    BY <1>1, <2>1, <2>2 DEF Arrive, AuthenticateJwt
<1>2. ASSUME NEW r \in Requests, Count(r)
      PROVE  req[r].pc # "done" /\ \E x : req' = [req EXCEPT ![r] = x]
  BY <1>2 DEF Count, Ping, RedisCount, LocalCount
<1> QED
  BY <1>1, <1>2 DEF Next, vars, Start, Tick

\* Quota counts as this module does.
LEMMA SameCardinality == \A S : Promise!Cardinality(S) = Cardinality(S)
  BY DEF Promise!Cardinality, Cardinality

\* A request let through on a count of Redis finds room in its bucket.
LEMMA AdmitStep ==
    ASSUME IInv, IInv', NEW r \in Requests, NEW x, req[r].pc # "done",
           req' = [req EXCEPT ![r] = x]
    PROVE  Bar' = Bar \/ Promise!Admit(r)
<1>1. /\ req \in [Requests -> Request] /\ req' \in [Requests -> Request]
      /\ req[r].status = "none"
  BY DEF IInv, GateType, ReqOK
<1>2. x \in Request /\ \A o \in Requests : req'[o] = IF o = r THEN x ELSE req[o]
  BY <1>1
<1>3. PICK b : b = x.bucket
  OBVIOUS
<1>4. /\ Bar[r] = NoBucket
      /\ Bar'[r] = IF PassedIn(x, "redis", b) THEN b ELSE NoBucket
      /\ \A o \in Requests : o # r => Bar'[o] = Bar[o]
  BY <1>1, <1>2, <1>3 DEF Bar, Passed, PassedIn, WindowEnd, Length
<1>5. Bar = [o \in Requests |-> Bar[o]] /\ Bar' = [o \in Requests |-> Bar'[o]]
  BY DEF Bar
<1>6. CASE ~PassedIn(x, "redis", b) \/ b = NoBucket
  <2>1. \A o \in Requests : Bar'[o] = Bar[o]
    BY <1>4, <1>6
  <2> QED
    BY <1>5, <2>1
<1>7. CASE PassedIn(x, "redis", b) /\ b # NoBucket
  <2>1. b \in Buckets
    BY <1>2, <1>3, <1>7 DEF Request
  <2>2. Bar' = [Bar EXCEPT ![r] = b] /\ Bar'[r] = b
    BY <1>4, <1>5, <1>7
  <2>3. Admitted(b) \in Nat /\ Admitted(b)' = Admitted(b) + 1
    BY ONLY <1>1, <1>2, <1>7, Sizes, r \in Requests, req' = [req EXCEPT ![r] = x]
  <2>4. Admitted(b)' <= Limit(b)
    BY <2>1 DEF IInv, RedisOK, Limit
  <2>5. {o \in Requests : Bar[o] = b} = {o \in Requests : PassedIn(req[o], "redis", b)}
    BY <1>7 DEF Bar, Passed, PassedIn, WindowEnd
  <2>6. Cardinality({o \in Requests : Bar[o] = b}) < Limit(b)
    <3>1. Limit(b) \in Nat
      BY BucketFacts
    <3>2. Admitted(b) < Limit(b)
      BY <2>3, <2>4, <3>1
    <3> QED
      BY <2>5, <3>2 DEF Admitted
  <2>7. Promise!Cardinality({o \in Requests : Bar[o] = b}) < Limit(b)
    BY <2>6, SameCardinality
  <2>8. /\ Bar[r] = NoBucket /\ Bar'[r] \in Buckets
        /\ Promise!Cardinality({o \in Requests : Bar[o] = Bar'[r]}) < Limit(Bar'[r])
        /\ Bar' = [Bar EXCEPT ![r] = Bar'[r]]
    <3>1. PICK c : c = Bar'[r] /\ c = b
      BY <2>2
    <3> QED
      BY <1>4, <2>1, <2>2, <2>7, <3>1
  <2>9. (/\ Bar[r] = NoBucket /\ Bar'[r] \in Buckets
         /\ Promise!Cardinality({o \in Requests : Bar[o] = Bar'[r]}) < Limit(Bar'[r])
         /\ Bar' = [Bar EXCEPT ![r] = Bar'[r]]) => Promise!Admit(r)
    BY DEF Promise!Admit, Bar
  <2> QED
    BY <2>8, <2>9
<1> QED
  BY <1>6, <1>7

\* Redis shared by every process keeps the quota of each bucket (RateLimiter).
THEOREM QuotaImplemented == Spec => QuotaKept
<1>1. Init => Promise!Init
  <2>1. Init => \A r \in Requests : ~Passed(r, "redis")
    <3>1. NewRequest.status # "ok"
      BY DEF NewRequest
    <3>2. Init => \A r \in Requests : req[r] = NewRequest
      BY DEF Init
    <3> QED
      BY <3>1, <3>2 DEF Passed
  <2> QED
    BY <2>1 DEF Promise!Init
<1>2. IInv /\ IInv' /\ [Next]_vars => [Promise!Next]_Bar
  <2> SUFFICES ASSUME IInv, IInv', [Next]_vars
               PROVE  Promise!Next \/ Bar' = Bar
    OBVIOUS
  <2>1. CASE req' = req
    BY <2>1 DEF Bar, Passed, Length
  <2>2. ASSUME NEW r \in Requests, NEW x, req[r].pc # "done",
               req' = [req EXCEPT ![r] = x]
        PROVE  Promise!Next \/ Bar' = Bar
    BY <2>2, AdmitStep DEF Promise!Next
  <2> QED
    BY <2>1, <2>2, OneRequest
<1> QED
  BY <1>1, <1>2, Inductive, PTL DEF Spec, QuotaKept, Promise!Spec, Bar
=============================================================================
