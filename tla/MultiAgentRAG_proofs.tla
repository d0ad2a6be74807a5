------------------------- MODULE MultiAgentRAG_proofs -------------------------
(***************************************************************************)
(* Proofs about MultiAgentRAG, for any number of requests and threads, any *)
(* passages and any settings.                                              *)
(***************************************************************************)
EXTENDS MultiAgentRAG, TLAPS

-----------------------------------------------------------------------------
(* The operators keep their types. *)

\* A canned message is an answer.
LEMMA MessageType ==
    ASSUME NEW k \in AnswerKinds, NEW r \in Tags
    PROVE  Message(k, r) \in Answers
  BY DEF Message, Answers, AnyIds, PassageIds

\* An untouched thread is a state.
LEMMA FreshType == FreshState \in AgentState
<1>1. Message("none", NoOne) \in Answers
  BY MessageType DEF AnswerKinds, DraftKinds, Tags
<1>2. <<>> \in Seq(WebPages)
  OBVIOUS
<1> QED
  BY <1>1, <1>2 DEF FreshState, AgentState, Tags, Reasons

\* The evidence of a state is made of passages.
LEMMA RetrievedType ==
    ASSUME NEW s \in AgentState
    PROVE  RetrievedIds(s) \subseteq PassageIds
<1>1. s.corpus \subseteq Chunks /\ s.web \in Seq(WebPages)
  BY DEF AgentState
<1>2. \A i \in DOMAIN s.web : s.web[i] \in WebPages
  BY <1>1
<1> QED
  BY <1>1, <1>2 DEF RetrievedIds, PassageIds

\* What ask makes of a checkpoint is a state.
LEMMA ResumeType ==
    ASSUME NEW s \in AgentState
    PROVE  Resume(s) \in AgentState
<1>1. <<>> \in Seq(WebPages)
  OBVIOUS
<1> QED
  BY <1>1 DEF Resume, AgentState

\* What the supervisor node writes first is a state with no attempt spent.
LEMMA ResetType ==
    ASSUME NEW s \in AgentState, NEW r \in Requests, NEW g \in check_input
    PROVE  /\ Reset(s, r, g) \in AgentState
           /\ Reset(s, r, g).attempts = 0
           /\ Reset(s, r, g).allowed = g.allowed
<1>1. <<>> \in Seq(WebPages)
  OBVIOUS
<1>2. g.allowed = TRUE \/ g.allowed = FALSE
  <2>1. CASE g = [allowed |-> FALSE, reasons |-> {"input_blocked"}]
    BY <2>1
  <2>2. CASE g = [allowed |-> FALSE, reasons |-> {"input_blocked", "pii_detected"}]
    BY <2>2
  <2>3. CASE g = [allowed |-> TRUE, reasons |-> {"pii_detected"}]
    BY <2>3
  <2>4. CASE g = [allowed |-> TRUE, reasons |-> {}]
    BY <2>4
  <2> QED
    BY <2>1, <2>2, <2>3, <2>4 DEF check_input
<1>3. g.reasons \subseteq Reasons
  BY DEF check_input, Reasons
<1> QED
  BY <1>1, <1>2, <1>3 DEF Reset, AgentState, Tags

\* What is known when the compliance node is entered, and still holds of the
\* state it leaves: s is the state, r the request, n its number of drafts.
Settled(s, r, n) ==
    /\ s.answer.by = r
    /\ s.refused => s.answer.kind \notin DraftKinds
    /\ ~s.refused =>
         /\ s.answer.kind \in DraftKinds
         /\ critic_enabled => s.approved /\ s.answer.kind # "empty"
         /\ answerability_check_enabled => RetrievedIds(s) # {}
    /\ s.answer.kind = "unverified" => n = critic_max_retries + 1

\* What compliance adds to it: no directive goes out, citations resolve and
\* fabricated ones are flagged.
Shipped(s, r, n) ==
    /\ Settled(s, r, n)
    /\ ~s.refused =>
         /\ s.answer.kind # "directive"
         /\ s.citations \subseteq RetrievedIds(s)
         /\ guardrail_require_citations /\ RetrievedIds(s) # {} =>
              /\ s.answer.cites # {} =>
                   /\ s.citations = s.answer.cites \cap RetrievedIds(s)
                   /\ s.citations # {}
              /\ ~(s.answer.cites \subseteq RetrievedIds(s))
                   => "hallucinated_citation" \in s.reasons

\* What holds of a request at each node: r is the request, p the node it is at,
\* s its state, n its number of drafts.
NodeOK(r, p, s, n) ==
    /\ n <= critic_max_retries + 1
    /\ p \in {"idle", "supervisor"} => n = 0
    /\ p \in {"researcher", "web_search", "answerability", "analyst"} =>
         n = s.attempts /\ s.attempts <= critic_max_retries
    /\ p = "analyst" /\ answerability_check_enabled => RetrievedIds(s) # {}
    /\ p = "critic" =>
         /\ n = s.attempts + 1 /\ s.attempts <= critic_max_retries
         /\ s.answer.by = r /\ s.answer.kind \in DraftKinds
         /\ s.refused = FALSE
         /\ s.citations = RetrievedIds(s)
         /\ answerability_check_enabled => RetrievedIds(s) # {}
    /\ p = "compliance" =>
         /\ Settled(s, r, n)
         /\ ~s.refused => s.citations = RetrievedIds(s)

\* What holds of a request that was answered, and was told a.
DeliveryOK(r, p, s, n, a) ==
    a # NoResponse => p = "done" /\ a = Response(s) /\ Shipped(s, r, n)

\* The inductive invariant.
IInv ==
    /\ TypeOK
    /\ \A r \in Requests : /\ NodeOK(r, pc[r], st[r], drafts[r])
                           /\ DeliveryOK(r, pc[r], st[r], drafts[r], resp[r])

-----------------------------------------------------------------------------
(* Compliance *)

\* The verdict of the output check is well-formed.
LEMMA CheckOutputType ==
    ASSUME NEW s \in AgentState
    PROVE  /\ check_output(s).allowed \in BOOLEAN
           /\ check_output(s).reasons \subseteq Reasons
           /\ check_output(s).grounded \subseteq AnyIds
           /\ check_output(s).hallucinated \subseteq AnyIds
<1>1. s.answer.cites \subseteq AnyIds
  BY DEF AgentState, Answers
<1> QED
  BY <1>1 DEF check_output, Reasons

\* Compliance delivers what Shipped says.
LEMMA FinalShipped ==
    ASSUME NEW s \in AgentState, NEW r \in Requests, NEW n \in Nat,
           Settled(s, r, n),
           ~s.refused => s.citations = RetrievedIds(s)
    PROVE  /\ Final(s, r, check_output(s)) \in AgentState
           /\ Shipped(Final(s, r, check_output(s)), r, n)
<1> DEFINE out == check_output(s)
<1> DEFINE f == Final(s, r, out)
<1>1. /\ out.allowed \in BOOLEAN
      /\ out.reasons \subseteq Reasons
      /\ out.grounded \subseteq AnyIds
  BY CheckOutputType
<1>2. RetrievedIds(s) \subseteq PassageIds
  BY RetrievedType
<1>3. Message("withheld", r) \in Answers
  BY MessageType DEF AnswerKinds, Tags
<1>4. f \in AgentState
  BY <1>1, <1>2, <1>3 DEF Final, AgentState
<1>5. RetrievedIds(f) = RetrievedIds(s)
  BY DEF Final, RetrievedIds, AgentState
<1>6. CASE ~out.allowed
  <2>1. f.refused /\ f.answer = Message("withheld", r)
    BY <1>1, <1>6 DEF Final, AgentState
  <2> QED
    BY <1>4, <2>1 DEF Shipped, Settled, Message, DraftKinds
<1>7. CASE out.allowed
  <2>1. /\ f.answer = s.answer
        /\ f.refused = s.refused
        /\ f.approved = s.approved
    BY <1>1, <1>7 DEF Final, AgentState
  <2>2. Settled(f, r, n)
    BY <1>5, <2>1 DEF Settled
  <2>3. ASSUME ~f.refused
        PROVE  /\ f.answer.kind # "directive"
               /\ f.citations \subseteq RetrievedIds(s)
               /\ guardrail_require_citations /\ RetrievedIds(s) # {} =>
                    /\ s.answer.cites # {} =>
                         /\ f.citations = s.answer.cites \cap RetrievedIds(s)
                         /\ f.citations # {}
                    /\ ~(s.answer.cites \subseteq RetrievedIds(s))
                         => "hallucinated_citation" \in f.reasons
    <3>1. ~s.refused /\ s.citations = RetrievedIds(s)
      BY <2>1, <2>3
    <3>2. s.answer.kind # "directive"
      BY <1>7 DEF check_output
    <3>3. out.grounded = s.answer.cites \cap RetrievedIds(s)
      BY <3>1, <3>2 DEF check_output
    <3>4. f.citations = IF out.grounded \cap RetrievedIds(s) # {}
                        THEN out.grounded \cap RetrievedIds(s)
                        ELSE s.citations
      BY DEF Final, AgentState
    <3>5. ASSUME guardrail_require_citations, RetrievedIds(s) # {},
                 s.answer.cites # {}
          PROVE  s.answer.cites \cap RetrievedIds(s) # {}
      BY <1>7, <3>1, <3>5 DEF check_output
    <3>6. ASSUME guardrail_require_citations, RetrievedIds(s) # {},
                 ~(s.answer.cites \subseteq RetrievedIds(s))
          PROVE  "hallucinated_citation" \in f.reasons
      <4>1. "hallucinated_citation" \in out.reasons
        BY <3>1, <3>2, <3>6 DEF check_output
      <4>2. f.reasons = s.reasons \cup out.reasons
        BY DEF Final, AgentState
      <4> QED
        BY <4>1, <4>2
    <3> QED
      BY <2>1, <3>1, <3>2, <3>3, <3>4, <3>5, <3>6
  <2>4. Shipped(f, r, n)
    BY <1>5, <2>1, <2>2, <2>3 DEF Shipped
  <2> QED
    BY <1>4, <2>4
<1> QED
  BY <1>1, <1>4, <1>6, <1>7

-----------------------------------------------------------------------------
(* A step of one request *)

\* Where a request can be.
Places == Nodes \cup {"idle", "done", "failed"}

\* A request that is not answered moves to another place with a state that fits
\* it; nothing else changes but its own history variables.
LEMMA MoveKeepsInv ==
    ASSUME IInv, NEW r \in Requests, NEW s \in AgentState, NEW p \in Places,
           pc[r] # "done",
           st' = [st EXCEPT ![r] = s],
           pc' = [pc EXCEPT ![r] = p],
           ckpt' \in [Threads \cup Requests -> AgentState],
           thread' \in [Requests -> Threads \cup {NoThread}],
           audit' \in Seq(AuditRow),
           resp' = resp,
           NEW n \in Nat, drafts' = [drafts EXCEPT ![r] = n],
           NodeOK(r, p, s, n)
    PROVE  IInv'
<1>1. TypeOK'
  BY DEF IInv, TypeOK, Places
<1>2. ASSUME NEW q \in Requests, q # r
      PROVE  pc'[q] = pc[q] /\ st'[q] = st[q] /\ drafts'[q] = drafts[q]
  BY <1>2 DEF IInv, TypeOK
<1>3. pc'[r] = p /\ st'[r] = s /\ drafts'[r] = n
  BY DEF IInv, TypeOK
<1>4. ASSUME NEW q \in Requests
      PROVE  NodeOK(q, pc'[q], st'[q], drafts'[q])
  BY <1>2, <1>3, <1>4 DEF IInv
<1>5. ASSUME NEW q \in Requests
      PROVE  DeliveryOK(q, pc'[q], st'[q], drafts'[q], resp'[q])
  <2>1. CASE q = r
    BY <2>1 DEF IInv, DeliveryOK
  <2>2. CASE q # r
    BY <1>2, <2>2 DEF IInv
  <2> QED
    BY <2>1, <2>2
<1> QED
  BY <1>1, <1>4, <1>5 DEF IInv

\* The same for a node that ends with Advance and touches no history.
LEMMA AdvanceKeepsInv ==
    ASSUME IInv, NEW r \in Requests, NEW s \in AgentState, NEW p \in Places,
           pc[r] # "done",
           Advance(r, s, p),
           UNCHANGED <<thread, audit, resp, drafts>>,
           NodeOK(r, p, s, drafts[r])
    PROVE  IInv'
<1>1. drafts[r] \in Nat /\ drafts' = [drafts EXCEPT ![r] = drafts[r]]
  BY DEF IInv, TypeOK
<1>2. /\ ckpt' \in [Threads \cup Requests -> AgentState]
      /\ thread' \in [Requests -> Threads \cup {NoThread}]
      /\ audit' \in Seq(AuditRow)
  BY DEF Advance, IInv, TypeOK
<1> QED
  BY <1>1, <1>2, MoveKeepsInv DEF Advance

-----------------------------------------------------------------------------
(* One lemma for each action *)

\* ask: a new turn, whatever its thread's checkpoint holds.
LEMMA AskKeepsInv ==
    ASSUME IInv, NEW r \in Requests, NEW t \in Threads \cup {NoThread}, Ask(r, t)
    PROVE  IInv'
<1> DEFINE s == Resume(ckpt[CkptKey(r, t)])
<1>1. ckpt[CkptKey(r, t)] \in AgentState
  BY DEF IInv, TypeOK, CkptKey
<1>2. s \in AgentState
  BY <1>1, ResumeType
<1>3. /\ st' = [st EXCEPT ![r] = s]
      /\ pc' = [pc EXCEPT ![r] = "supervisor"]
      /\ drafts' = [drafts EXCEPT ![r] = 0]
  BY DEF Ask, IInv, TypeOK, NodeOK
<1>4. /\ ckpt' \in [Threads \cup Requests -> AgentState]
      /\ thread' \in [Requests -> Threads \cup {NoThread}]
      /\ audit' \in Seq(AuditRow)
  BY <1>2 DEF Ask, IInv, TypeOK
<1>5. pc[r] # "done" /\ resp' = resp
  BY DEF Ask
<1>6. NodeOK(r, "supervisor", s, 0)
  BY SettingsAssumption DEF NodeOK
<1>7. "supervisor" \in Places
  BY DEF Places, Nodes
<1> HIDE DEF s
<1> QED
  BY <1>2, <1>3, <1>4, <1>5, <1>6, <1>7, MoveKeepsInv

\* The supervisor node: rejected by the input guardrail, or routed.
LEMMA RouteKeepsInv ==
    ASSUME IInv, NEW r \in Requests, Route(r)
    PROVE  IInv'
<1>1. /\ st[r] \in AgentState
      /\ drafts[r] = 0
      /\ pc[r] # "done"
      /\ UNCHANGED <<thread, audit, resp, drafts>>
  BY DEF Route, IInv, TypeOK, NodeOK
<1>2. PICK g \in check_input :
         LET s == Reset(st[r], r, g) IN
         \/ /\ ~g.allowed
            /\ LET b == [s EXCEPT !.answer = Message("rejected", r),
                                  !.refused = TRUE, !.route = "blocked"]
               IN Advance(r, b, RouteFromSupervisor(b))
         \/ /\ g.allowed
            /\ \E p \in plan :
                 LET a == [s EXCEPT !.route = p, !.search_by = r]
                 IN Advance(r, a, RouteFromSupervisor(a))
  BY DEF Route
<1> DEFINE s == Reset(st[r], r, g)
<1>3. s \in AgentState /\ s.attempts = 0 /\ s.allowed = g.allowed
  BY <1>1, ResetType
<1> HIDE DEF s
<1>4. CASE /\ ~g.allowed
           /\ LET b == [s EXCEPT !.answer = Message("rejected", r),
                                 !.refused = TRUE, !.route = "blocked"]
              IN Advance(r, b, RouteFromSupervisor(b))
  <2> DEFINE b == [s EXCEPT !.answer = Message("rejected", r),
                            !.refused = TRUE, !.route = "blocked"]
  <2>1. Message("rejected", r) \in Answers
    BY MessageType DEF AnswerKinds, Tags
  <2>2. b \in AgentState
    BY <1>3, <2>1 DEF AgentState
  <2>3. /\ b.allowed = FALSE /\ b.refused
        /\ b.answer = Message("rejected", r)
    BY <1>3, <1>4 DEF AgentState
  <2>4. RouteFromSupervisor(b) = "compliance"
    BY <2>3 DEF RouteFromSupervisor
  <2>5. Advance(r, b, "compliance")
    BY <1>4, <2>4
  <2> HIDE DEF b
  <2>6. NodeOK(r, "compliance", b, drafts[r])
    BY <1>1, <2>3, SettingsAssumption DEF NodeOK, Settled, Message, DraftKinds
  <2>7. "compliance" \in Places
    BY DEF Places, Nodes
  <2> QED
    BY <1>1, <2>2, <2>5, <2>6, <2>7, AdvanceKeepsInv
<1>5. CASE /\ g.allowed
           /\ \E p \in plan :
                LET a == [s EXCEPT !.route = p, !.search_by = r]
                IN Advance(r, a, RouteFromSupervisor(a))
  <2>1. PICK p \in plan :
           LET a == [s EXCEPT !.route = p, !.search_by = r]
           IN Advance(r, a, RouteFromSupervisor(a))
    BY <1>5
  <2> DEFINE a == [s EXCEPT !.route = p, !.search_by = r]
  <2> DEFINE next == RouteFromSupervisor(a)
  <2>2. p \in {"corpus", "web", "both"}
    BY DEF plan
  <2>3. a \in AgentState /\ a.attempts = 0 /\ a.allowed = g.allowed
    BY <1>3, <2>2 DEF AgentState, Tags
  <2>4. next \in {"web_search", "researcher"}
    BY <1>5, <2>3 DEF RouteFromSupervisor
  <2>5. Advance(r, a, next)
    BY <2>1
  <2> HIDE DEF a, next
  <2>6. NodeOK(r, next, a, drafts[r])
    BY <1>1, <2>3, <2>4, SettingsAssumption DEF NodeOK
  <2>7. next \in Places
    BY <2>4 DEF Places, Nodes
  <2> QED
    BY <1>1, <2>3, <2>5, <2>6, <2>7, AdvanceKeepsInv
<1> QED
  BY <1>2, <1>4, <1>5 DEF s

\* The researcher node, first pass and retry.
LEMMA ResearchKeepsInv ==
    ASSUME IInv, NEW r \in Requests, Research(r)
    PROVE  IInv'
<1>1. /\ st[r] \in AgentState
      /\ drafts[r] = st[r].attempts /\ st[r].attempts <= critic_max_retries
      /\ drafts[r] <= critic_max_retries + 1
      /\ pc[r] # "done"
      /\ UNCHANGED <<thread, audit, resp, drafts>>
  BY DEF Research, IInv, TypeOK, NodeOK
<1>2. PICK c \in CorpusResults :
         LET s == Retrieve(st[r], c) IN Advance(r, s, AfterResearch(s))
  BY DEF Research
<1> DEFINE s == Retrieve(st[r], c)
<1> DEFINE next == AfterResearch(s)
<1>3. s \in AgentState /\ s.attempts = st[r].attempts
  BY <1>1, IdsAssumption DEF Retrieve, AgentState
<1>4. next \in {"web_search", "answerability"}
  BY DEF AfterResearch
<1>5. Advance(r, s, next)
  BY <1>2
<1> HIDE DEF s, next
<1>6. NodeOK(r, next, s, drafts[r])
  BY <1>1, <1>3, <1>4 DEF NodeOK
<1>7. next \in Places
  BY <1>4 DEF Places, Nodes
<1> QED
  BY <1>1, <1>3, <1>5, <1>6, <1>7, AdvanceKeepsInv

\* The web_search node.
LEMMA SearchWebKeepsInv ==
    ASSUME IInv, NEW r \in Requests, SearchWeb(r)
    PROVE  IInv'
<1>1. /\ st[r] \in AgentState
      /\ drafts[r] = st[r].attempts /\ st[r].attempts <= critic_max_retries
      /\ drafts[r] <= critic_max_retries + 1
      /\ pc[r] # "done"
      /\ UNCHANGED <<thread, audit, resp, drafts>>
  BY DEF SearchWeb, IInv, TypeOK, NodeOK
<1>2. PICK w \in WebResults \cup {<<>>} :
         Advance(r, [st[r] EXCEPT !.web = @ \o w], "answerability")
  BY DEF SearchWeb
<1> DEFINE s == [st[r] EXCEPT !.web = @ \o w]
<1>3. w \in Seq(WebPages)
  <2>1. CASE w = <<>>
    BY <2>1
  <2>2. CASE w \in WebResults
    BY <2>2, IdsAssumption
  <2> QED
    BY <2>1, <2>2
<1>4. st[r].web \o w \in Seq(WebPages)
  <2>1. st[r].web \in Seq(WebPages)
    BY <1>1 DEF AgentState
  <2> QED
    BY <1>3, <2>1
<1>5. s \in AgentState /\ s.attempts = st[r].attempts
  BY <1>1, <1>4 DEF AgentState
<1>6. Advance(r, s, "answerability")
  BY <1>2
<1> HIDE DEF s
<1>7. NodeOK(r, "answerability", s, drafts[r])
  BY <1>1, <1>5 DEF NodeOK
<1>8. "answerability" \in Places
  BY DEF Places, Nodes
<1> QED
  BY <1>1, <1>5, <1>6, <1>7, <1>8, AdvanceKeepsInv

\* The answerability node: an answerable question has evidence when the
\* check is on, an unanswerable one is refused.
LEMMA CheckAnswerabilityKeepsInv ==
    ASSUME IInv, NEW r \in Requests, CheckAnswerability(r)
    PROVE  IInv'
<1>1. /\ st[r] \in AgentState
      /\ drafts[r] = st[r].attempts /\ st[r].attempts <= critic_max_retries
      /\ drafts[r] <= critic_max_retries + 1
      /\ pc[r] # "done"
      /\ UNCHANGED <<thread, audit, resp, drafts>>
  BY DEF CheckAnswerability, IInv, TypeOK, NodeOK
<1> DEFINE yes == [st[r] EXCEPT !.answerable = TRUE]
<1> DEFINE no == [st[r] EXCEPT !.answerable = FALSE, !.reason_by = r,
                               !.answer = Message("unanswerable", r),
                               !.refused = TRUE,
                               !.citations = RetrievedIds(st[r])]
<1>2. PICK verdict \in answerability_check(st[r]) :
         LET s == IF verdict THEN yes ELSE no
         IN Advance(r, s, AfterAnswerability(s))
  BY DEF CheckAnswerability
<1>3. CASE verdict
  <2>1. yes \in AgentState /\ yes.answerable = TRUE
        /\ yes.attempts = st[r].attempts
    BY <1>1 DEF AgentState
  <2>2. RetrievedIds(yes) = RetrievedIds(st[r])
    BY <1>1 DEF RetrievedIds, AgentState
  <2>3. answerability_check_enabled => RetrievedIds(st[r]) # {}
    BY <1>2, <1>3 DEF answerability_check
  <2>4. Advance(r, yes, "analyst")
    BY <1>2, <1>3, <2>1 DEF AfterAnswerability
  <2> HIDE DEF yes
  <2>5. NodeOK(r, "analyst", yes, drafts[r])
    BY <1>1, <2>1, <2>2, <2>3 DEF NodeOK
  <2>6. "analyst" \in Places
    BY DEF Places, Nodes
  <2> QED
    BY <1>1, <2>1, <2>4, <2>5, <2>6, AdvanceKeepsInv
<1>4. CASE ~verdict
  <2>1. Message("unanswerable", r) \in Answers
    BY MessageType DEF AnswerKinds, Tags
  <2>2. RetrievedIds(st[r]) \subseteq PassageIds
    BY <1>1, RetrievedType
  <2>3. no \in AgentState
    BY <1>1, <2>1, <2>2 DEF AgentState, Tags
  <2>4. /\ no.answerable = FALSE /\ no.refused
        /\ no.answer = Message("unanswerable", r)
    BY <1>1 DEF AgentState
  <2>5. Advance(r, no, "compliance")
    BY <1>2, <1>4, <2>4 DEF AfterAnswerability
  <2> HIDE DEF no
  <2>6. NodeOK(r, "compliance", no, drafts[r])
    BY <1>1, <2>4 DEF NodeOK, Settled, Message, DraftKinds
  <2>7. "compliance" \in Places
    BY DEF Places, Nodes
  <2> QED
    BY <1>1, <2>3, <2>5, <2>6, <2>7, AdvanceKeepsInv
<1> QED
  BY <1>3, <1>4

\* The analyst node: one draft more, of this request.
LEMMA AnalyseKeepsInv ==
    ASSUME IInv, NEW r \in Requests, Analyse(r)
    PROVE  IInv'
<1>1. /\ st[r] \in AgentState
      /\ drafts[r] \in Nat
      /\ drafts[r] = st[r].attempts /\ st[r].attempts <= critic_max_retries
      /\ answerability_check_enabled => RetrievedIds(st[r]) # {}
      /\ pc[r] # "done"
      /\ resp' = resp
  BY DEF Analyse, IInv, TypeOK, NodeOK
<1>2. PICK d \in Draft(r) : Advance(r, Write(st[r], d), "critic")
  BY DEF Analyse
<1>3. d \in Answers /\ d.by = r /\ d.kind \in DraftKinds
  <2>1. CASE d = Message("empty", r)
    BY <2>1, MessageType DEF Message, DraftKinds, AnswerKinds, Tags
  <2>2. CASE d \in {[kind |-> k, by |-> r, cites |-> c] :
                      k \in {"prose", "directive"}, c \in DraftCites}
    BY <2>2, IdsAssumption
       DEF Answers, AnswerKinds, DraftKinds, Tags, AnyIds, PassageIds
  <2> QED
    BY <2>1, <2>2 DEF Draft
<1> DEFINE s == Write(st[r], d)
<1>4. RetrievedIds(st[r]) \subseteq PassageIds
  BY <1>1, RetrievedType
<1>5. /\ s \in AgentState
      /\ s.attempts = st[r].attempts /\ s.answer = d
      /\ s.refused = FALSE /\ s.citations = RetrievedIds(st[r])
  BY <1>1, <1>3, <1>4 DEF Write, AgentState
<1>6. RetrievedIds(s) = RetrievedIds(st[r])
  BY <1>1 DEF Write, RetrievedIds, AgentState
<1>7. /\ st' = [st EXCEPT ![r] = s]
      /\ pc' = [pc EXCEPT ![r] = "critic"]
      /\ drafts' = [drafts EXCEPT ![r] = drafts[r] + 1]
  BY <1>2 DEF Advance, Analyse
<1>8. /\ ckpt' \in [Threads \cup Requests -> AgentState]
      /\ thread' \in [Requests -> Threads \cup {NoThread}]
      /\ audit' \in Seq(AuditRow)
  BY <1>2, <1>5 DEF Advance, Analyse, IInv, TypeOK
<1> HIDE DEF s
<1>9. NodeOK(r, "critic", s, drafts[r] + 1)
  BY <1>1, <1>3, <1>5, <1>6, SettingsAssumption DEF NodeOK
<1>10. "critic" \in Places /\ drafts[r] + 1 \in Nat
  BY <1>1 DEF Places, Nodes
<1> QED
  BY <1>1, <1>5, <1>7, <1>8, <1>9, <1>10, MoveKeepsInv

\* What a rejection makes of a draft: the budget is spent and the draft becomes
\* a refusal, or it goes back to retrieval with one attempt more.
LEMMA RejectNode ==
    ASSUME NEW s \in AgentState, NEW r \in Requests, NEW n \in Nat,
           NodeOK(r, "critic", s, n)
    PROVE  /\ Reject(s, r) \in AgentState
           /\ AfterCritic(Reject(s, r)) \in {"researcher", "compliance"}
           /\ NodeOK(r, AfterCritic(Reject(s, r)), Reject(s, r), n)
<1> DEFINE f == Reject(s, r)
<1>1. critic_max_retries \in Nat /\ s.attempts \in Nat
  BY SettingsAssumption DEF AgentState
<1>2. n = s.attempts + 1 /\ s.attempts <= critic_max_retries
  BY DEF NodeOK
<1>3. Message("unverified", r) \in Answers
  BY MessageType DEF AnswerKinds, Tags
<1>4. f \in AgentState
  <2>1. ASSUME NEW a \in Answers, NEW b \in BOOLEAN
        PROVE  [s EXCEPT !.approved = FALSE, !.attempts = n, !.critic_by = r,
                         !.answer = a, !.refused = b] \in AgentState
    BY DEF AgentState, Tags
  <2>2. s.answer \in Answers /\ s.refused = FALSE
    BY DEF AgentState, NodeOK
  <2>3. CASE n > critic_max_retries
    <3>1. f = [s EXCEPT !.approved = FALSE, !.attempts = n, !.critic_by = r,
                        !.answer = Message("unverified", r), !.refused = TRUE]
      BY <1>2, <2>2, <2>3 DEF Reject
    <3> QED
      BY <1>3, <2>1, <3>1
  <2>4. CASE ~(n > critic_max_retries)
    <3>1. f = [s EXCEPT !.approved = FALSE, !.attempts = n, !.critic_by = r,
                        !.answer = s.answer, !.refused = FALSE]
      BY <1>2, <2>2, <2>4 DEF Reject
    <3> QED
      BY <2>1, <2>2, <3>1
  <2> QED
    BY <2>3, <2>4
<1>5. f.approved = FALSE /\ f.attempts = n
  BY <1>2 DEF Reject, AgentState
<1>6. CASE n > critic_max_retries
  <2>1. f.refused = TRUE /\ f.answer = Message("unverified", r)
    BY <1>2, <1>6 DEF Reject, AgentState
  <2>2. AfterCritic(f) = "compliance"
    BY <1>5, <1>6 DEF AfterCritic
  <2> HIDE DEF f
  <2>3. n = critic_max_retries + 1
    BY <1>1, <1>2, <1>6
  <2>4. NodeOK(r, "compliance", f, n)
    BY <2>1, <2>3, <1>1 DEF NodeOK, Settled, Message, DraftKinds
  <2> QED
    BY <1>4, <2>2, <2>4 DEF f
<1>7. CASE ~(n > critic_max_retries)
  <2>1. AfterCritic(f) = "researcher"
    BY <1>5, <1>7 DEF AfterCritic
  <2> HIDE DEF f
  <2>2. NodeOK(r, "researcher", f, n)
    BY <1>1, <1>5, <1>7 DEF NodeOK
  <2> QED
    BY <1>4, <2>1, <2>2 DEF f
<1> QED
  BY <1>6, <1>7

\* The critic node: an approved draft goes to compliance, see RejectNode for
\* the others.
LEMMA CriticiseKeepsInv ==
    ASSUME IInv, NEW r \in Requests, Criticise(r)
    PROVE  IInv'
<1>1. /\ st[r] \in AgentState
      /\ drafts[r] \in Nat
      /\ NodeOK(r, "critic", st[r], drafts[r])
      /\ pc[r] # "done"
      /\ UNCHANGED <<thread, audit, resp, drafts>>
  BY DEF Criticise, IInv, TypeOK
<1>2. PICK approved \in review(st[r]) :
         LET s == IF approved THEN [st[r] EXCEPT !.approved = TRUE]
                  ELSE Reject(st[r], r)
         IN Advance(r, s, AfterCritic(s))
  BY DEF Criticise
<1>3. CASE approved
  <2> DEFINE s == [st[r] EXCEPT !.approved = TRUE]
  <2>1. /\ s \in AgentState /\ s.approved = TRUE
        /\ s.answer = st[r].answer /\ s.refused = st[r].refused
        /\ s.citations = st[r].citations
    BY <1>1 DEF AgentState
  <2>2. RetrievedIds(s) = RetrievedIds(st[r])
    BY <1>1 DEF RetrievedIds, AgentState
  <2>3. critic_enabled => st[r].answer.kind # "empty"
    BY <1>2, <1>3 DEF review
  <2>4. Advance(r, s, "compliance")
    BY <1>2, <1>3, <2>1 DEF AfterCritic
  <2> HIDE DEF s
  <2>5. NodeOK(r, "compliance", s, drafts[r])
    BY <1>1, <2>1, <2>2, <2>3 DEF NodeOK, Settled, DraftKinds
  <2>6. "compliance" \in Places
    BY DEF Places, Nodes
  <2> QED
    BY <1>1, <2>1, <2>4, <2>5, <2>6, AdvanceKeepsInv
<1>4. CASE ~approved
  <2> DEFINE s == Reject(st[r], r)
  <2> DEFINE next == AfterCritic(s)
  <2>1. /\ s \in AgentState
        /\ next \in {"researcher", "compliance"}
        /\ NodeOK(r, next, s, drafts[r])
    BY <1>1, RejectNode
  <2>2. Advance(r, s, next)
    BY <1>2, <1>4
  <2>3. next \in Places
    BY <2>1 DEF Places, Nodes
  <2> HIDE DEF s, next
  <2> QED
    BY <1>1, <2>1, <2>2, <2>3, AdvanceKeepsInv
<1> QED
  BY <1>3, <1>4

\* A request that fails leaves its state as it was.
LEMMA FailedKeepsInv ==
    ASSUME IInv, NEW r \in Requests, pc[r] \in Nodes,
           pc' = [pc EXCEPT ![r] = "failed"],
           audit' \in Seq(AuditRow),
           UNCHANGED <<thread, st, ckpt, resp, drafts>>
    PROVE  IInv'
<1>1. /\ st[r] \in AgentState /\ drafts[r] \in Nat
      /\ st' = [st EXCEPT ![r] = st[r]]
      /\ drafts' = [drafts EXCEPT ![r] = drafts[r]]
      /\ ckpt' \in [Threads \cup Requests -> AgentState]
      /\ thread' \in [Requests -> Threads \cup {NoThread}]
      /\ resp' = resp
  BY DEF IInv, TypeOK
<1>2. pc[r] # "done" /\ "failed" \in Places
  BY DEF Nodes, Places
<1>3. NodeOK(r, "failed", st[r], drafts[r])
  BY DEF IInv, NodeOK
<1> QED
  BY <1>1, <1>2, <1>3, MoveKeepsInv

\* The audit row is well-formed.
LEMMA RowType ==
    ASSUME NEW r \in Requests, NEW s \in AgentState, NEW f \in AgentState
    PROVE  Row(r, s, f, check_output(s)) \in AuditRow
<1>1. RetrievedIds(s) \subseteq PassageIds
  BY RetrievedType
<1>2. check_output(s).hallucinated \subseteq AnyIds
  BY CheckOutputType
<1>3. /\ f.answer \in Answers /\ f.refused \in BOOLEAN
      /\ f.citations \subseteq PassageIds
      /\ s.search_by \in Tags /\ s.reason_by \in Tags /\ s.trace_by \in Tags
      /\ s.attempts \in Nat
  BY DEF AgentState
<1> QED
  BY <1>1, <1>2, <1>3 DEF Row, AuditRow

\* The compliance node: delivers what FinalShipped says, or fails.
LEMMA ComplyKeepsInv ==
    ASSUME IInv, NEW r \in Requests, Comply(r)
    PROVE  IInv'
<1> DEFINE f == Final(st[r], r, check_output(st[r]))
<1> DEFINE row == Row(r, st[r], f, check_output(st[r]))
<1>1. /\ st[r] \in AgentState /\ drafts[r] \in Nat
      /\ pc[r] = "compliance"
      /\ NodeOK(r, "compliance", st[r], drafts[r])
  BY DEF Comply, IInv, TypeOK
<1>2. f \in AgentState /\ Shipped(f, r, drafts[r])
  BY <1>1, FinalShipped DEF NodeOK
<1>3. row \in AuditRow
  BY <1>1, <1>2, RowType
<1>4. /\ WriteAudit(row)
      /\ \/ Advance(r, f, "done") /\ resp' = [resp EXCEPT ![r] = Response(f)]
         \/ pc' = [pc EXCEPT ![r] = "failed"] /\ UNCHANGED <<st, ckpt, resp>>
      /\ UNCHANGED <<thread, drafts>>
  BY DEF Comply
<1> HIDE DEF row
<1>5. audit' \in Seq(AuditRow)
  <2>1. audit \in Seq(AuditRow)
    BY DEF IInv, TypeOK
  <2>2. CASE audit' = Append(audit, row)
    BY <1>3, <2>1, <2>2
  <2>3. CASE audit' = audit
    BY <2>1, <2>3
  <2> QED
    BY <1>4, <2>2, <2>3 DEF WriteAudit
<1> HIDE DEF f
<1>6. CASE /\ pc' = [pc EXCEPT ![r] = "failed"]
           /\ UNCHANGED <<st, ckpt, resp>>
  <2>1. pc[r] \in Nodes
    BY <1>1 DEF Nodes
  <2> QED
    BY <1>4, <1>5, <1>6, <2>1, FailedKeepsInv
<1>7. CASE Advance(r, f, "done") /\ resp' = [resp EXCEPT ![r] = Response(f)]
  <2>1. Response(f) \in Responses
    <3>1. RetrievedIds(f) \subseteq PassageIds
      BY <1>2, RetrievedType
    <3>2. /\ f.answer \in Answers /\ f.refused \in BOOLEAN
          /\ f.citations \subseteq PassageIds /\ f.reasons \subseteq Reasons
          /\ f.trace_by \in Tags
      BY <1>2 DEF AgentState
    <3> QED
      BY <3>1, <3>2 DEF Response, Responses
  <2>2. TypeOK'
    BY <1>2, <1>4, <1>5, <1>7, <2>1 DEF Advance, IInv, TypeOK
  <2>3. ASSUME NEW q \in Requests, q # r
        PROVE  /\ pc'[q] = pc[q] /\ st'[q] = st[q] /\ drafts'[q] = drafts[q]
               /\ resp'[q] = resp[q]
    BY <1>4, <1>7, <2>3 DEF Advance, IInv, TypeOK
  <2>4. pc'[r] = "done" /\ st'[r] = f /\ drafts'[r] = drafts[r]
        /\ resp'[r] = Response(f)
    BY <1>4, <1>7 DEF Advance, IInv, TypeOK
  <2>5. NodeOK(r, "done", f, drafts[r])
    BY <1>1 DEF NodeOK
  <2>6. DeliveryOK(r, "done", f, drafts[r], Response(f))
    BY <1>2 DEF DeliveryOK
  <2>7. ASSUME NEW q \in Requests
        PROVE  /\ NodeOK(q, pc'[q], st'[q], drafts'[q])
               /\ DeliveryOK(q, pc'[q], st'[q], drafts'[q], resp'[q])
    <3>1. CASE q = r
      BY <2>4, <2>5, <2>6, <3>1
    <3>2. CASE q # r
      BY <2>3, <3>2 DEF IInv
    <3> QED
      BY <3>1, <3>2
  <2> QED
    BY <2>2, <2>7 DEF IInv
<1> QED
  BY <1>4, <1>6, <1>7

-----------------------------------------------------------------------------
(* The invariant *)

\* Before the first question the invariant holds.
LEMMA InitInv == Init => IInv
<1> SUFFICES ASSUME Init PROVE IInv
  OBVIOUS
<1>1. TypeOK
  <2>1. audit \in Seq(AuditRow)
    BY DEF Init
  <2> QED
    BY <2>1, FreshType DEF Init, TypeOK, Tags
<1>2. ASSUME NEW r \in Requests
      PROVE  /\ NodeOK(r, pc[r], st[r], drafts[r])
             /\ DeliveryOK(r, pc[r], st[r], drafts[r], resp[r])
  <2>1. pc[r] = "idle" /\ drafts[r] = 0 /\ resp[r] = NoResponse
    BY DEF Init
  <2> QED
    BY <2>1, SettingsAssumption DEF NodeOK, DeliveryOK
<1> QED
  BY <1>1, <1>2 DEF IInv

\* Every step keeps it.
LEMMA NextKeepsInv == IInv /\ [Next]_vars => IInv'
<1> SUFFICES ASSUME IInv, [Next]_vars PROVE IInv'
  OBVIOUS
<1>1. ASSUME NEW r \in Requests, NEW t \in Threads \cup {NoThread}, Ask(r, t)
      PROVE  IInv'
  BY <1>1, AskKeepsInv
<1>2. ASSUME NEW r \in Requests, Step(r)
      PROVE  IInv'
  BY <1>2, RouteKeepsInv, ResearchKeepsInv, SearchWebKeepsInv,
     CheckAnswerabilityKeepsInv, AnalyseKeepsInv, CriticiseKeepsInv,
     ComplyKeepsInv DEF Step
<1>3. ASSUME NEW r \in Requests, Fail(r)
      PROVE  IInv'
  <2>1. audit' \in Seq(AuditRow)
    BY <1>3 DEF Fail, IInv, TypeOK
  <2> QED
    BY <1>3, <2>1, FailedKeepsInv DEF Fail
<1>4. CASE UNCHANGED vars
  BY <1>4 DEF vars, IInv, TypeOK
<1> QED
  BY <1>1, <1>2, <1>3, <1>4 DEF Next, Finished

\* The inductive invariant holds in every reachable state.
THEOREM Invariance == Spec => []IInv
  BY InitInv, NextKeepsInv, PTL DEF Spec

-----------------------------------------------------------------------------
(* What it implies *)

\* Every variable keeps its type: in particular citations and retrieved ids of
\* a response are ids of passages, and no state grows a value of another sort.
THEOREM TypeCorrect == Spec => []TypeOK
<1>1. IInv => TypeOK
  BY DEF IInv
<1> QED
  BY <1>1, Invariance, PTL

\* What a delivered response says of the state it was made from.
LEMMA Delivered ==
    ASSUME IInv, NEW r \in Requests, Answered(r)
    PROVE  /\ st[r] \in AgentState
           /\ Shipped(st[r], r, drafts[r])
           /\ resp[r].answer = st[r].answer
           /\ resp[r].refused = st[r].refused
           /\ resp[r].citations = st[r].citations
           /\ resp[r].reasons = st[r].reasons
           /\ resp[r].retrieved = RetrievedIds(st[r])
<1>1. resp[r] = Response(st[r]) /\ Shipped(st[r], r, drafts[r])
  BY DEF IInv, DeliveryOK, Answered
<1>2. st[r] \in AgentState
  BY DEF IInv, TypeOK
<1> QED
  BY <1>1, <1>2 DEF Response

\* No answer leaves the graph that is not a draft of this very question, signed
\* by the critic and written over evidence, whatever the checkpoint of the
\* thread held and whoever else was writing to it.
THEOREM VerifiedDelivery == Spec => []OnlyVerifiedShips
<1>1. IInv => OnlyVerifiedShips
  <2> SUFFICES ASSUME IInv, NEW r \in Requests, Answered(r), ~resp[r].refused
               PROVE  /\ resp[r].answer.by = r
                      /\ resp[r].answer.kind # "directive"
                      /\ critic_enabled =>
                           st[r].approved /\ resp[r].answer.kind = "prose"
                      /\ answerability_check_enabled => resp[r].retrieved # {}
    BY DEF OnlyVerifiedShips
  <2> QED
    BY Delivered DEF Shipped, Settled, DraftKinds
<1> QED
  BY <1>1, Invariance, PTL

\* The refused flag of a response and its text agree, on every turn of every
\* thread.
THEOREM RefusalIsText == Spec => []RefusalMatchesText
<1>1. IInv => RefusalMatchesText
  <2> SUFFICES ASSUME IInv, NEW r \in Requests, Answered(r)
               PROVE  /\ resp[r].answer.by = r
                      /\ resp[r].refused <=> resp[r].answer.kind \notin DraftKinds
    BY DEF RefusalMatchesText
  <2> QED
    BY Delivered DEF Shipped, Settled
<1> QED
  BY <1>1, Invariance, PTL

\* Delivered citations resolve to retrieved passages, for any set of ids a
\* model may invent.
THEOREM GroundedDelivery == Spec => []CitationsGrounded
<1>1. IInv => CitationsGrounded
  <2> SUFFICES ASSUME IInv, NEW r \in Requests, Answered(r), ~resp[r].refused
               PROVE  LET a == resp[r] IN
                      /\ a.citations \subseteq a.retrieved
                      /\ guardrail_require_citations /\ a.retrieved # {}
                           /\ a.answer.cites # {}
                           => /\ a.citations = a.answer.cites \cap a.retrieved
                              /\ a.citations # {}
    BY DEF CitationsGrounded
  <2> QED
    BY Delivered DEF Shipped
<1> QED
  BY <1>1, Invariance, PTL

\* With the answerability check on, an invented citation is flagged.  (With the
\* check off a draft may be written over no evidence at all, and the output
\* check then looks at nothing.)
THEOREM FabricationIsFlagged ==
    ASSUME answerability_check_enabled
    PROVE  Spec => []FabricationFlagged
<1>1. IInv => FabricationFlagged
  <2> SUFFICES ASSUME IInv, guardrail_require_citations,
                      NEW r \in Requests, Answered(r), ~resp[r].refused,
                      ~(resp[r].answer.cites \subseteq resp[r].retrieved)
               PROVE  "hallucinated_citation" \in resp[r].reasons
    BY DEF FabricationFlagged
  <2> QED
    BY Delivered DEF Shipped, Settled
<1> QED
  BY <1>1, Invariance, PTL

\* No request pays for more than critic_max_retries + 1 drafts.
THEOREM BudgetKept == Spec => []DraftBudget
<1>1. IInv => DraftBudget
  BY DEF IInv, NodeOK, DraftBudget
<1> QED
  BY <1>1, Invariance, PTL

\* An answer is given up as unverified only after the whole budget of drafts
\* of this request.
THEOREM BudgetSpent == Spec => []UnverifiedOnlyWhenSpent
<1>1. IInv => UnverifiedOnlyWhenSpent
  <2> SUFFICES ASSUME IInv, NEW r \in Requests, Answered(r),
                      resp[r].answer.kind = "unverified"
               PROVE  drafts[r] = critic_max_retries + 1
    BY DEF UnverifiedOnlyWhenSpent
  <2> QED
    BY Delivered DEF Shipped, Settled
<1> QED
  BY <1>1, Invariance, PTL

-----------------------------------------------------------------------------
(* What a node may write *)

\* The tags of state s are those of the state s0 before, or r.
OwnTags(s0, s, r) ==
    /\ s.trace_by \in {s0.trace_by, r} /\ s.search_by \in {s0.search_by, r}
    /\ s.reason_by \in {s0.reason_by, r} /\ s.critic_by \in {s0.critic_by, r}
    /\ s.answer.by \in {s0.answer.by, r}

\* The web passages of s0 are still there in s.
KeepsWeb(s0, s) ==
    \A i \in DOMAIN s0.web : i \in DOMAIN s.web /\ s.web[i] = s0.web[i]

\* A node of r ends with state s: what it has written is its own, and only the
\* supervisor drops web passages.
Wrote(r, s) ==
    /\ s \in AgentState /\ OwnTags(st[r], s, r)
    /\ pc[r] # "supervisor" => KeepsWeb(st[r], s)

LEMMA RouteWrites ==
    ASSUME IInv, NEW r \in Requests, Route(r)
    PROVE  \E s, p : Advance(r, s, p) /\ p # "idle" /\ Wrote(r, s)
<1>1. st[r] \in AgentState /\ pc[r] = "supervisor"
  BY DEF Route, IInv, TypeOK
<1>2. PICK g \in check_input :
         LET s == Reset(st[r], r, g) IN
         \/ /\ ~g.allowed
            /\ LET b == [s EXCEPT !.answer = Message("rejected", r),
                                  !.refused = TRUE, !.route = "blocked"]
               IN Advance(r, b, RouteFromSupervisor(b))
         \/ /\ g.allowed
            /\ \E p \in plan :
                 LET a == [s EXCEPT !.route = p, !.search_by = r]
                 IN Advance(r, a, RouteFromSupervisor(a))
  BY DEF Route
<1> DEFINE s == Reset(st[r], r, g)
<1>3. s \in AgentState
  BY <1>1, ResetType
<1>4. /\ s.trace_by \in {st[r].trace_by, r} /\ s.search_by = st[r].search_by
      /\ s.reason_by = st[r].reason_by /\ s.critic_by = st[r].critic_by
      /\ s.answer = st[r].answer
  BY <1>1 DEF Reset, AgentState
<1> HIDE DEF s
<1>5. CASE LET b == [s EXCEPT !.answer = Message("rejected", r),
                              !.refused = TRUE, !.route = "blocked"]
           IN Advance(r, b, RouteFromSupervisor(b))
  <2> DEFINE b == [s EXCEPT !.answer = Message("rejected", r),
                            !.refused = TRUE, !.route = "blocked"]
  <2>1. Message("rejected", r) \in Answers /\ Message("rejected", r).by = r
    BY MessageType DEF AnswerKinds, Tags, Message
  <2>2. b \in AgentState /\ OwnTags(st[r], b, r)
    BY <1>3, <1>4, <2>1 DEF AgentState, OwnTags
  <2>3. RouteFromSupervisor(b) # "idle"
    BY DEF RouteFromSupervisor
  <2> QED
    BY <1>1, <1>5, <2>2, <2>3 DEF Wrote
<1>6. CASE \E p \in plan : LET a == [s EXCEPT !.route = p, !.search_by = r]
                           IN Advance(r, a, RouteFromSupervisor(a))
  <2>1. PICK p \in plan : LET a == [s EXCEPT !.route = p, !.search_by = r]
                          IN Advance(r, a, RouteFromSupervisor(a))
    BY <1>6
  <2> DEFINE a == [s EXCEPT !.route = p, !.search_by = r]
  <2>2. p \in {"corpus", "web", "both"}
    BY DEF plan
  <2>3. a \in AgentState /\ OwnTags(st[r], a, r)
    BY <1>3, <1>4, <2>2 DEF AgentState, OwnTags, Tags
  <2>4. RouteFromSupervisor(a) # "idle"
    BY DEF RouteFromSupervisor
  <2> QED
    BY <1>1, <2>1, <2>3, <2>4 DEF Wrote
<1> QED
  BY <1>2, <1>5, <1>6 DEF s

LEMMA ResearchWrites ==
    ASSUME IInv, NEW r \in Requests, Research(r)
    PROVE  \E s, p : Advance(r, s, p) /\ p # "idle" /\ Wrote(r, s)
<1>1. st[r] \in AgentState
  BY DEF IInv, TypeOK
<1>2. PICK c \in CorpusResults :
         LET s == Retrieve(st[r], c) IN Advance(r, s, AfterResearch(s))
  BY DEF Research
<1> DEFINE s == Retrieve(st[r], c)
<1>3. s \in AgentState /\ OwnTags(st[r], s, r) /\ KeepsWeb(st[r], s)
  BY <1>1, IdsAssumption DEF Retrieve, AgentState, OwnTags, KeepsWeb
<1>4. AfterResearch(s) # "idle"
  BY DEF AfterResearch
<1> QED
  BY <1>2, <1>3, <1>4 DEF Wrote

LEMMA SearchWebWrites ==
    ASSUME IInv, NEW r \in Requests, SearchWeb(r)
    PROVE  \E s, p : Advance(r, s, p) /\ p # "idle" /\ Wrote(r, s)
<1>1. st[r] \in AgentState /\ st[r].web \in Seq(WebPages)
  BY DEF IInv, TypeOK, AgentState
<1>2. PICK w \in WebResults \cup {<<>>} :
         Advance(r, [st[r] EXCEPT !.web = @ \o w], "answerability")
  BY DEF SearchWeb
<1>3. w \in Seq(WebPages)
  <2>1. <<>> \in Seq(WebPages)
    OBVIOUS
  <2> QED
    BY ONLY <2>1, IdsAssumption, w \in WebResults \cup {<<>>}
<1>4. PICK web : web = st[r].web \o w
  OBVIOUS
<1>5. /\ web \in Seq(WebPages)
      /\ \A i \in DOMAIN st[r].web : i \in DOMAIN web /\ web[i] = st[r].web[i]
  BY <1>1, <1>3, <1>4
<1> DEFINE s == [st[r] EXCEPT !.web = web]
<1>6. s \in AgentState /\ OwnTags(st[r], s, r) /\ s.web = web
  BY <1>1, <1>5 DEF AgentState, OwnTags
<1>7. KeepsWeb(st[r], s)
  BY <1>5, <1>6 DEF KeepsWeb
<1>8. Advance(r, s, "answerability")
  BY <1>2, <1>4
<1> QED
  BY <1>6, <1>7, <1>8 DEF Wrote

LEMMA CheckWrites ==
    ASSUME IInv, NEW r \in Requests, CheckAnswerability(r)
    PROVE  \E s, p : Advance(r, s, p) /\ p # "idle" /\ Wrote(r, s)
<1>1. st[r] \in AgentState
  BY DEF IInv, TypeOK
<1> DEFINE yes == [st[r] EXCEPT !.answerable = TRUE]
           no  == [st[r] EXCEPT !.answerable = FALSE, !.reason_by = r,
                                !.answer = Message("unanswerable", r),
                                !.refused = TRUE,
                                !.citations = RetrievedIds(st[r])]
<1>2. \/ Advance(r, yes, AfterAnswerability(yes))
      \/ Advance(r, no, AfterAnswerability(no))
  BY DEF CheckAnswerability
<1>3. yes \in AgentState /\ OwnTags(st[r], yes, r) /\ KeepsWeb(st[r], yes)
  BY <1>1 DEF AgentState, OwnTags, KeepsWeb
<1>4. no \in AgentState /\ OwnTags(st[r], no, r) /\ KeepsWeb(st[r], no)
  <2>1. RetrievedIds(st[r]) \subseteq PassageIds
    BY <1>1, RetrievedType
  <2>2. /\ Message("unanswerable", r) \in Answers
        /\ Message("unanswerable", r).by = r
    BY MessageType DEF AnswerKinds, Tags, Message
  <2> QED
    BY <1>1, <2>1, <2>2 DEF AgentState, OwnTags, KeepsWeb, Tags
<1>5. AfterAnswerability(yes) # "idle" /\ AfterAnswerability(no) # "idle"
  BY DEF AfterAnswerability
<1> HIDE DEF yes, no
<1> QED
  BY <1>2, <1>3, <1>4, <1>5 DEF Wrote

LEMMA AnalyseWrites ==
    ASSUME IInv, NEW r \in Requests, Analyse(r)
    PROVE  \E s, p : Advance(r, s, p) /\ p # "idle" /\ Wrote(r, s)
<1>1. st[r] \in AgentState
  BY DEF IInv, TypeOK
<1>2. PICK d \in Draft(r) : Advance(r, Write(st[r], d), "critic")
  BY DEF Analyse
<1>3. d \in Answers /\ d.by = r
  <2>1. Message("empty", r) \in Answers /\ Message("empty", r).by = r
    BY MessageType DEF AnswerKinds, DraftKinds, Tags, Message
  <2>2. ASSUME NEW k \in {"prose", "directive"}, NEW c \in DraftCites,
               d = [kind |-> k, by |-> r, cites |-> c]
        PROVE  d \in Answers /\ d.by = r
    BY <2>2, IdsAssumption DEF Answers, AnswerKinds, DraftKinds, Tags, AnyIds, PassageIds
  <2> QED
    BY <2>1, <2>2 DEF Draft
<1> DEFINE s == Write(st[r], d)
<1>4. RetrievedIds(st[r]) \subseteq PassageIds
  BY <1>1, RetrievedType
<1>5. s \in AgentState /\ OwnTags(st[r], s, r) /\ KeepsWeb(st[r], s)
  BY <1>1, <1>3, <1>4 DEF Write, AgentState, OwnTags, KeepsWeb
<1> QED
  BY <1>2, <1>5 DEF Wrote

LEMMA CriticiseWrites ==
    ASSUME IInv, NEW r \in Requests, Criticise(r)
    PROVE  \E s, p : Advance(r, s, p) /\ p # "idle" /\ Wrote(r, s)
<1>1. /\ st[r] \in AgentState /\ drafts[r] \in Nat
      /\ NodeOK(r, "critic", st[r], drafts[r])
  BY DEF Criticise, IInv, TypeOK
<1> DEFINE yes == [st[r] EXCEPT !.approved = TRUE]
           no  == Reject(st[r], r)
<1>2. Advance(r, yes, AfterCritic(yes)) \/ Advance(r, no, AfterCritic(no))
  BY DEF Criticise
<1>3. yes \in AgentState /\ OwnTags(st[r], yes, r) /\ KeepsWeb(st[r], yes)
  BY <1>1 DEF AgentState, OwnTags, KeepsWeb
<1>4. no \in AgentState
  BY <1>1, RejectNode
<1>5. OwnTags(st[r], no, r) /\ KeepsWeb(st[r], no)
  <2>1. /\ no.trace_by = st[r].trace_by /\ no.search_by = st[r].search_by
        /\ no.reason_by = st[r].reason_by /\ no.critic_by = r
        /\ no.answer \in {st[r].answer, Message("unverified", r)}
        /\ no.web = st[r].web
    BY <1>1 DEF Reject, AgentState
  <2>2. Message("unverified", r).by = r
    BY DEF Message
  <2> HIDE DEF no
  <2> QED
    BY <2>1, <2>2 DEF OwnTags, KeepsWeb
<1>6. AfterCritic(yes) # "idle" /\ AfterCritic(no) # "idle"
  BY DEF AfterCritic
<1> HIDE DEF yes, no
<1> QED
  BY <1>2, <1>3, <1>4, <1>5, <1>6 DEF Wrote

\* A node ends with Advance or, the last one, may fail after its audit row.
LEMMA StepWrites ==
    ASSUME IInv, NEW r \in Requests, Step(r)
    PROVE  /\ pc[r] \in Nodes /\ thread' = thread
           /\ \/ \E s, p : Advance(r, s, p) /\ p # "idle" /\ Wrote(r, s)
              \/ pc' = [pc EXCEPT ![r] = "failed"] /\ st' = st /\ ckpt' = ckpt
<1>1. pc[r] \in Nodes /\ thread' = thread
  BY DEF Step, Route, Research, SearchWeb, CheckAnswerability, Analyse, Criticise,
         Comply, Nodes
<1>2. ASSUME Comply(r)
      PROVE  \/ \E s, p : Advance(r, s, p) /\ p # "idle" /\ Wrote(r, s)
             \/ pc' = [pc EXCEPT ![r] = "failed"] /\ st' = st /\ ckpt' = ckpt
  <2> DEFINE f == Final(st[r], r, check_output(st[r]))
  <2>1. /\ st[r] \in AgentState /\ drafts[r] \in Nat
        /\ NodeOK(r, "compliance", st[r], drafts[r])
    BY <1>2 DEF Comply, IInv, TypeOK
  <2>2. f \in AgentState
    BY <2>1, FinalShipped DEF NodeOK
  <2>3. /\ f.trace_by = st[r].trace_by /\ f.search_by = st[r].search_by
        /\ f.reason_by = st[r].reason_by /\ f.critic_by = st[r].critic_by
        /\ f.answer \in {st[r].answer, Message("withheld", r)}
        /\ f.web = st[r].web
    BY <2>1 DEF Final, AgentState
  <2>4. Message("withheld", r).by = r
    BY DEF Message
  <2>5. Advance(r, f, "done") \/ (pc' = [pc EXCEPT ![r] = "failed"]
                                  /\ st' = st /\ ckpt' = ckpt)
    BY <1>2 DEF Comply
  <2> HIDE DEF f
  <2>6. Wrote(r, f)
    BY <2>2, <2>3, <2>4 DEF Wrote, OwnTags, KeepsWeb
  <2> QED
    BY <2>5, <2>6
<1> QED
  BY <1>1, <1>2, RouteWrites, ResearchWrites, SearchWebWrites, CheckWrites,
     AnalyseWrites, CriticiseWrites DEF Step

-----------------------------------------------------------------------------
(* Web evidence *)

\* Passages that are kept stay in the evidence; the corpus has no web passage.
LEMMA KeptEvidence ==
    ASSUME NEW s0 \in AgentState, NEW s \in AgentState, KeepsWeb(s0, s)
    PROVE  RetrievedIds(s0) \cap WebPages \subseteq RetrievedIds(s)
<1>1. s0.corpus \cap WebPages = {}
  BY IdsAssumption DEF AgentState
<1> QED
  BY <1>1 DEF RetrievedIds, KeepsWeb

\* The pages fetched for a request stay in its evidence, whatever the critic
\* sends back and whoever else writes to its thread.
THEOREM WebKept == Spec => WebEvidenceKept
<1> DEFINE Kept(r) == pc[r] \in Nodes \ {"supervisor"} =>
                        RetrievedIds(st[r]) \cap WebPages \subseteq RetrievedIds(st'[r])
<1>1. ASSUME IInv, [Next]_vars
      PROVE  [\A r \in Requests : Kept(r)]_vars
  <2> SUFFICES ASSUME NEW q \in Requests, pc[q] \in Nodes \ {"supervisor"}
               PROVE  RetrievedIds(st[q]) \cap WebPages \subseteq RetrievedIds(st'[q])
    OBVIOUS
  <2>1. st \in [Requests -> AgentState] /\ pc[q] # "idle" /\ pc[q] # "supervisor"
    BY <1>1 DEF IInv, TypeOK, Nodes
  <2>2. CASE st'[q] = st[q]
    BY <2>2
  <2>3. ASSUME NEW r \in Requests, NEW t \in Threads \cup {NoThread}, Ask(r, t)
        PROVE  st'[q] = st[q]
    BY <2>1, <2>3 DEF Ask
  <2>4. ASSUME NEW r \in Requests, Step(r)
        PROVE  RetrievedIds(st[q]) \cap WebPages \subseteq RetrievedIds(st'[q])
    <3>1. \/ \E s, p : Advance(r, s, p) /\ p # "idle" /\ Wrote(r, s)
          \/ st' = st
      BY <1>1, <2>4, StepWrites
    <3>2. ASSUME NEW s, NEW p, Advance(r, s, p), Wrote(r, s), q = r
          PROVE  RetrievedIds(st[q]) \cap WebPages \subseteq RetrievedIds(st'[q])
      <4>1. st'[q] = s /\ s \in AgentState /\ KeepsWeb(st[q], s)
        BY <2>1, <3>2 DEF Advance, Wrote
      <4> QED
        BY <2>1, <4>1, KeptEvidence
    <3>3. ASSUME NEW s, NEW p, Advance(r, s, p), q # r
          PROVE  st'[q] = st[q]
      BY <2>1, <3>3 DEF Advance
    <3> QED
      BY <2>2, <3>1, <3>2, <3>3
  <2>5. ASSUME NEW r \in Requests, Fail(r)
        PROVE  st'[q] = st[q]
    BY <2>5 DEF Fail
  <2>6. CASE UNCHANGED vars
    BY <2>6 DEF vars
  <2> QED
    BY <1>1, <2>2, <2>3, <2>4, <2>5, <2>6 DEF Next, Finished
<1> QED
  BY <1>1, Invariance, PTL DEF Spec, WebEvidenceKept

-----------------------------------------------------------------------------
(* Conversations *)

\* The requests that wrote what a state carries.
Writers(s) ==
    {s.trace_by, s.search_by, s.reason_by, s.critic_by, s.answer.by} \ {NoOne}

\* Request w has been asked, in the conversation kept under k.
AskedUnder(w, k) ==
    w \in Requests /\ pc[w] # "idle" /\ CkptKey(w, thread[w]) = k

\* A checkpoint, and the state of a request that was asked, carry only what
\* requests of that conversation wrote.
TagsOK ==
    /\ \A k \in Threads \cup Requests : \A w \in Writers(ckpt[k]) : AskedUnder(w, k)
    /\ \A r \in Requests : pc[r] # "idle" =>
         \A w \in Writers(st[r]) : AskedUnder(w, CkptKey(r, thread[r]))

\* A request's key is one of the keys of the checkpoints.
LEMMA KeyType ==
    ASSUME NEW r \in Requests, NEW t \in Threads \cup {NoThread}
    PROVE  CkptKey(r, t) \in Threads \cup Requests
  BY DEF CkptKey

\* A write of r, under the key of r, of a state made by r and by requests of
\* that key.
LEMMA WriteKeepsTags ==
    ASSUME IInv, TagsOK, NEW r \in Requests, NEW s, NEW k \in Threads \cup Requests,
           st' = [st EXCEPT ![r] = s], ckpt' = [ckpt EXCEPT ![k] = s],
           pc'[r] # "idle", k = CkptKey(r, thread'[r]),
           \A q \in Requests \ {r} : pc'[q] = pc[q] /\ thread'[q] = thread[q],
           pc[r] # "idle" => thread'[r] = thread[r],
           \A w \in Writers(s) : w = r \/ AskedUnder(w, k)
    PROVE  TagsOK'
<1>1. st \in [Requests -> AgentState] /\ ckpt \in [Threads \cup Requests -> AgentState]
  BY DEF IInv, TypeOK
<1>2. ASSUME NEW w, NEW j, AskedUnder(w, j)
      PROVE  w \in Requests /\ pc'[w] # "idle" /\ CkptKey(w, thread'[w]) = j
  BY <1>2 DEF AskedUnder
<1>3. ASSUME NEW w \in Writers(s)
      PROVE  w \in Requests /\ pc'[w] # "idle" /\ CkptKey(w, thread'[w]) = k
  BY <1>2
<1>4. ASSUME NEW j \in Threads \cup Requests, NEW w \in Writers(ckpt'[j])
      PROVE  w \in Requests /\ pc'[w] # "idle" /\ CkptKey(w, thread'[w]) = j
  <2>1. CASE j = k
    BY <1>1, <1>3, <2>1
  <2>2. CASE j # k
    <3>1. ckpt'[j] = ckpt[j]
      BY <1>1, <2>2
    <3> QED
      BY <1>2, <3>1 DEF TagsOK
  <2> QED
    BY <2>1, <2>2
<1>5. ASSUME NEW q \in Requests, pc'[q] # "idle", NEW w \in Writers(st'[q])
      PROVE  /\ w \in Requests /\ pc'[w] # "idle"
             /\ CkptKey(w, thread'[w]) = CkptKey(q, thread'[q])
  <2>1. CASE q = r
    BY <1>1, <1>3, <2>1
  <2>2. CASE q # r
    <3>1. st'[q] = st[q] /\ pc[q] # "idle" /\ thread'[q] = thread[q]
      BY <1>1, <1>5, <2>2
    <3>2. AskedUnder(w, CkptKey(q, thread[q]))
      BY <1>5, <3>1 DEF TagsOK
    <3> QED
      BY <1>2, <3>1, <3>2
  <2> QED
    BY <2>1, <2>2
<1> QED
  BY <1>4, <1>5 DEF TagsOK, AskedUnder

\* Every step keeps the tags inside the conversations.
LEMMA NextKeepsTags ==
    ASSUME IInv, TagsOK, [Next]_vars
    PROVE  TagsOK'
<1>1. /\ st \in [Requests -> AgentState]
      /\ pc \in [Requests -> Nodes \cup {"idle", "done", "failed"}]
      /\ thread \in [Requests -> Threads \cup {NoThread}]
      /\ ckpt \in [Threads \cup Requests -> AgentState]
  BY DEF IInv, TypeOK
<1>2. ASSUME NEW r \in Requests, NEW t \in Threads \cup {NoThread}, Ask(r, t)
      PROVE  TagsOK'
  <2>1. PICK k : k = CkptKey(r, t)
    OBVIOUS
  <2>2. k \in Threads \cup Requests
    BY <2>1, KeyType
  <2>3. PICK s : s = Resume(ckpt[k])
    OBVIOUS
  <2>4. Writers(s) = Writers(ckpt[k])
    BY <1>1, <2>2, <2>3 DEF Writers, Resume, AgentState
  <2>5. \A w \in Writers(s) : w = r \/ AskedUnder(w, k)
    BY <2>2, <2>4 DEF TagsOK
  <2>6. st' = [st EXCEPT ![r] = s] /\ ckpt' = [ckpt EXCEPT ![k] = s]
    BY <1>2, <2>1, <2>3 DEF Ask
  <2>7. /\ pc'[r] # "idle" /\ thread'[r] = t /\ pc[r] = "idle"
        /\ \A q \in Requests \ {r} : pc'[q] = pc[q] /\ thread'[q] = thread[q]
    BY <1>1, <1>2 DEF Ask
  <2> QED
    BY <2>1, <2>2, <2>5, <2>6, <2>7, WriteKeepsTags
<1>3. ASSUME NEW r \in Requests, pc[r] \in Nodes,
             pc' = [pc EXCEPT ![r] = "failed"],
             st' = st, ckpt' = ckpt, thread' = thread
      PROVE  TagsOK'
  <2>1. \A q \in Requests : pc'[q] # "idle" <=> pc[q] # "idle"
    BY <1>1, <1>3 DEF Nodes
  <2> QED
    BY <1>3, <2>1 DEF TagsOK, AskedUnder
<1>4. ASSUME NEW r \in Requests, Step(r)
      PROVE  TagsOK'
  <2>1. /\ pc[r] \in Nodes /\ thread' = thread
        /\ \/ \E s, p : Advance(r, s, p) /\ p # "idle" /\ Wrote(r, s)
           \/ pc' = [pc EXCEPT ![r] = "failed"] /\ st' = st /\ ckpt' = ckpt
    BY <1>4, StepWrites
  <2>2. ASSUME NEW s, NEW p, Advance(r, s, p), p # "idle", Wrote(r, s)
        PROVE  TagsOK'
    <3>1. PICK k : k = CkptKey(r, thread[r])
      OBVIOUS
    <3>2. k \in Threads \cup Requests
      BY <1>1, <3>1, KeyType
    <3>3. \A w \in Writers(s) : w = r \/ w \in Writers(st[r])
      BY <2>2 DEF Wrote, OwnTags, Writers
    <3>4. \A w \in Writers(s) : w = r \/ AskedUnder(w, k)
      BY <2>1, <3>1, <3>3 DEF TagsOK, Nodes
    <3>5. st' = [st EXCEPT ![r] = s] /\ ckpt' = [ckpt EXCEPT ![k] = s]
      BY <2>2, <3>1 DEF Advance
    <3>6. /\ pc'[r] # "idle" /\ thread'[r] = thread[r]
          /\ \A q \in Requests \ {r} : pc'[q] = pc[q] /\ thread'[q] = thread[q]
      BY <1>1, <2>1, <2>2 DEF Advance
    <3> QED
      BY <3>1, <3>2, <3>4, <3>5, <3>6, WriteKeepsTags
  <2> QED
    BY <1>3, <2>1, <2>2
<1>5. ASSUME NEW r \in Requests, Fail(r)
      PROVE  TagsOK'
  BY <1>3, <1>5 DEF Fail
<1>6. CASE UNCHANGED vars
  BY <1>6 DEF vars, TagsOK, AskedUnder
<1> QED
  BY <1>2, <1>4, <1>5, <1>6 DEF Next, Finished

\* No answer, reason, rewritten query or trace crosses from one conversation to
\* another, and a question without a thread_id shares nothing with anyone.
THEOREM Isolation == Spec => []ConversationsIsolated
<1>1. Init => TagsOK
  BY DEF Init, TagsOK, Writers, FreshState, Message
<1>2. IInv /\ TagsOK /\ [Next]_vars => TagsOK'
  BY NextKeepsTags
<1>3. IInv /\ TagsOK => ConversationsIsolated
  <2> SUFFICES ASSUME IInv, TagsOK, NEW r \in Requests, pc[r] # "idle",
                      NEW w \in Writers(st[r]) \ {r}
               PROVE  thread[w] = thread[r] /\ thread[r] # NoThread
    BY DEF ConversationsIsolated, Writers
  <2>1. w \in Requests /\ CkptKey(w, thread[w]) = CkptKey(r, thread[r])
    BY DEF TagsOK, AskedUnder
  <2>2. {thread[w], thread[r]} \subseteq Threads \cup {NoThread}
    BY <2>1 DEF IInv, TypeOK
  <2> QED
    BY <2>1, <2>2, RequestsAssumption DEF CkptKey
<1> QED
  BY <1>1, <1>2, <1>3, Invariance, PTL DEF Spec

-----------------------------------------------------------------------------
(* The audit trail *)

\* What the audit trail says of one request: p is where it is, a what it was
\* told.
RowOK(row, p, a) ==
    /\ p \in {"done", "failed"}
    /\ row.answer.by = row.request
    /\ a # NoResponse =>
         /\ row.answer = a.answer /\ row.refused = a.refused
         /\ row.cited = a.citations /\ row.retrieved = a.retrieved

\* The property of the runs, in those terms.
LEMMA AuditByRows ==
    AuditMatchesDelivery <=>
      /\ \A i, j \in DOMAIN audit : audit[i].request = audit[j].request => i = j
      /\ \A i \in DOMAIN audit :
           RowOK(audit[i], pc[audit[i].request], resp[audit[i].request])
  BY DEF AuditMatchesDelivery, RowOK, Answered

\* The row compliance writes says what the state it leaves says.
LEMMA RowSaysFinal ==
    ASSUME NEW s \in AgentState, NEW r \in Requests, NEW n \in Nat,
           NodeOK(r, "compliance", s, n), NEW f, NEW row,
           f = Final(s, r, check_output(s)), row = Row(r, s, f, check_output(s))
    PROVE  /\ row.request = r
           /\ RowOK(row, "failed", NoResponse)
           /\ RowOK(row, "done", Response(f))
<1>1. f \in AgentState /\ Shipped(f, r, n)
  BY FinalShipped DEF NodeOK
<1>2. f.corpus = s.corpus /\ f.web = s.web
  BY DEF Final, AgentState
<1>3. RetrievedIds(f) = RetrievedIds(s)
  BY <1>2 DEF RetrievedIds
<1>4. /\ row.request = r /\ row.answer = f.answer /\ row.refused = f.refused
      /\ row.cited = f.citations /\ row.retrieved = RetrievedIds(s)
  BY DEF Row
<1>5. f.answer.by = r
  BY <1>1 DEF Shipped, Settled
<1>6. PICK a : a = Response(f)
  OBVIOUS
<1>7. /\ a.answer = f.answer /\ a.refused = f.refused
      /\ a.citations = f.citations /\ a.retrieved = RetrievedIds(f)
  BY <1>6 DEF Response
<1> QED
  BY ONLY <1>3, <1>4, <1>5, <1>6, <1>7 DEF RowOK

\* A row is about a request.
LEMMA RowRequest ==
    ASSUME IInv, NEW i \in DOMAIN audit
    PROVE  audit[i].request \in Requests
<1>1. PICK rows : rows = AuditRow
  OBVIOUS
<1>2. audit \in Seq(rows)
  BY <1>1 DEF IInv, TypeOK
<1>3. audit[i] \in rows
  BY ONLY <1>2, i \in DOMAIN audit
<1> QED
  BY ONLY <1>1, <1>3 DEF AuditRow

\* A step that writes no row and no response, and revives no request.
LEMMA QuietKeepsAudit ==
    ASSUME IInv, AuditMatchesDelivery, audit' = audit, resp' = resp,
           \A q \in Requests : pc[q] \in {"done", "failed"} => pc'[q] = pc[q]
    PROVE  AuditMatchesDelivery'
<1>1. \A i \in DOMAIN audit : audit[i].request \in Requests
  BY RowRequest
<1>2. \A i \in DOMAIN audit : pc'[audit[i].request] = pc[audit[i].request]
  BY <1>1 DEF AuditMatchesDelivery
<1> QED
  BY <1>2 DEF AuditMatchesDelivery, Answered

\* The compliance node writes the only row of its request.
LEMMA ComplyKeepsAudit ==
    ASSUME IInv, AuditMatchesDelivery, NEW r \in Requests, Comply(r)
    PROVE  AuditMatchesDelivery'
<1>1. PICK f : f = Final(st[r], r, check_output(st[r]))
  OBVIOUS
<1>2. PICK row : row = Row(r, st[r], f, check_output(st[r]))
  OBVIOUS
<1>3. /\ st[r] \in AgentState /\ drafts[r] \in Nat /\ pc[r] = "compliance"
      /\ NodeOK(r, "compliance", st[r], drafts[r])
      /\ pc \in [Requests -> Nodes \cup {"idle", "done", "failed"}]
      /\ resp \in [Requests -> Responses \cup {NoResponse}]
      /\ audit \in Seq(AuditRow)
  BY DEF Comply, IInv, TypeOK
<1>4. /\ row.request = r /\ RowOK(row, "failed", NoResponse)
      /\ RowOK(row, "done", Response(f))
  BY <1>1, <1>2, <1>3, RowSaysFinal
<1>5. /\ audit' = Append(audit, row) \/ audit' = audit
      /\ \/ pc' = [pc EXCEPT ![r] = "done"] /\ resp' = [resp EXCEPT ![r] = Response(f)]
         \/ pc' = [pc EXCEPT ![r] = "failed"] /\ resp' = resp
  BY <1>1, <1>2 DEF Comply, WriteAudit, Advance
<1>6. resp[r] = NoResponse
  BY <1>3 DEF IInv, DeliveryOK
<1>7. RowOK(row, pc'[r], resp'[r])
  <2>1. \/ pc'[r] = "done" /\ resp'[r] = Response(f)
        \/ pc'[r] = "failed" /\ resp'[r] = NoResponse
    BY <1>3, <1>5, <1>6
  <2> QED
    BY <1>4, <2>1
<1>8. ASSUME NEW i \in DOMAIN audit
      PROVE  /\ audit[i].request # r /\ audit[i].request \in Requests
             /\ RowOK(audit[i], pc'[audit[i].request], resp'[audit[i].request])
  <2>1. audit[i].request \in Requests
    BY RowRequest
  <2>2. RowOK(audit[i], pc[audit[i].request], resp[audit[i].request])
    BY AuditByRows
  <2>3. audit[i].request # r
    BY <1>3, <2>2 DEF RowOK
  <2>4. /\ pc'[audit[i].request] = pc[audit[i].request]
        /\ resp'[audit[i].request] = resp[audit[i].request]
    BY <1>3, <1>5, <2>1, <2>3
  <2> QED
    BY <2>1, <2>2, <2>3, <2>4
<1>9. \A i, j \in DOMAIN audit : audit[i].request = audit[j].request => i = j
  BY DEF AuditMatchesDelivery
<1>10. CASE audit' = audit
  <2>1. \A i \in DOMAIN audit' :
          RowOK(audit'[i], pc'[audit'[i].request], resp'[audit'[i].request])
    BY <1>8, <1>10
  <2> QED
    BY <1>9, <1>10, <2>1 DEF AuditMatchesDelivery, RowOK, Answered
<1>11. CASE audit' = Append(audit, row)
  <2>1. \A i \in DOMAIN audit' : \/ i \in DOMAIN audit /\ audit'[i] = audit[i]
                                 \/ i = Len(audit) + 1 /\ audit'[i] = row
    BY <1>3, <1>11
  <2>2. \A i \in DOMAIN audit' :
          RowOK(audit'[i], pc'[audit'[i].request], resp'[audit'[i].request])
    BY <1>4, <1>7, <1>8, <2>1
  <2>3. \A i, j \in DOMAIN audit' : audit'[i].request = audit'[j].request => i = j
    BY <1>4, <1>8, <1>9, <2>1
  <2> QED
    BY <2>2, <2>3 DEF AuditMatchesDelivery, RowOK, Answered
<1> QED
  BY <1>5, <1>10, <1>11

\* The audit trail says what each client was told, and nothing else.
THEOREM AuditKept == Spec => []AuditMatchesDelivery
<1>1. Init => AuditMatchesDelivery
  BY DEF Init, AuditMatchesDelivery
<1>2. ASSUME IInv, AuditMatchesDelivery, [Next]_vars
      PROVE  AuditMatchesDelivery'
  <2>1. pc \in [Requests -> Nodes \cup {"idle", "done", "failed"}]
    BY <1>2 DEF IInv, TypeOK
  <2>2. ASSUME NEW r \in Requests, pc[r] \in Nodes \cup {"idle"}, NEW p,
               pc' = [pc EXCEPT ![r] = p], audit' = audit, resp' = resp
        PROVE  AuditMatchesDelivery'
    <3>1. \A q \in Requests : pc[q] \in {"done", "failed"} => pc'[q] = pc[q]
      BY <2>1, <2>2 DEF Nodes
    <3> QED
      BY <1>2, <2>2, <3>1, QuietKeepsAudit
  <2>3. ASSUME NEW r \in Requests, NEW t \in Threads \cup {NoThread}, Ask(r, t)
        PROVE  AuditMatchesDelivery'
    BY <2>2, <2>3 DEF Ask
  <2>4. ASSUME NEW r \in Requests, Step(r), ~Comply(r)
        PROVE  AuditMatchesDelivery'
    <3>1. pc[r] \in Nodes /\ audit' = audit /\ resp' = resp
      BY <2>4 DEF Step, Route, Research, SearchWeb, CheckAnswerability, Analyse,
                  Criticise, Nodes
    <3>2. \E p : pc' = [pc EXCEPT ![r] = p]
      BY <1>2, <2>4, StepWrites DEF Advance
    <3> QED
      BY <2>2, <3>1, <3>2
  <2>5. ASSUME NEW r \in Requests, Comply(r)
        PROVE  AuditMatchesDelivery'
    BY <1>2, <2>5, ComplyKeepsAudit
  <2>6. ASSUME NEW r \in Requests, Fail(r)
        PROVE  AuditMatchesDelivery'
    BY <2>2, <2>6 DEF Fail
  <2>7. CASE UNCHANGED vars
    BY <1>2, <2>7 DEF vars, AuditMatchesDelivery, Answered
  <2> QED
    BY <1>2, <2>3, <2>4, <2>5, <2>6, <2>7 DEF Next, Finished
<1> QED
  BY <1>1, <1>2, Invariance, PTL DEF Spec

-----------------------------------------------------------------------------
(* The way to the end *)

\* The edges of the graph: from node p with n attempts to p2 with n2.
Edge(p, n, p2, n2) ==
    \/ /\ p = "supervisor" /\ p2 \in {"researcher", "web_search", "compliance"}
       /\ n2 = 0
    \/ p = "researcher" /\ p2 \in {"web_search", "answerability"} /\ n2 = n
    \/ p = "web_search" /\ p2 = "answerability" /\ n2 = n
    \/ p = "answerability" /\ p2 \in {"analyst", "compliance"} /\ n2 = n
    \/ p = "analyst" /\ p2 = "critic" /\ n2 = n
    \/ p = "critic" /\ p2 = "researcher" /\ n2 = n + 1
    \/ p = "critic" /\ p2 = "compliance"
    \/ p2 \in {"done", "failed"}

\* Every node takes one of them.
LEMMA StepIsEdge ==
    ASSUME IInv, NEW r \in Requests, Step(r)
    PROVE  Edge(pc[r], st[r].attempts, pc'[r], st'[r].attempts)
<1>1. /\ st \in [Requests -> AgentState] /\ st[r] \in AgentState
      /\ pc \in [Requests -> Nodes \cup {"idle", "done", "failed"}]
  BY DEF IInv, TypeOK
<1>2. ASSUME NEW s, NEW p, Advance(r, s, p)
      PROVE  pc'[r] = p /\ st'[r] = s
  BY <1>1, <1>2 DEF Advance
<1>3. CASE Route(r)
  <2>1. PICK g \in check_input :
           LET s == Reset(st[r], r, g) IN
           \/ LET b == [s EXCEPT !.answer = Message("rejected", r),
                                 !.refused = TRUE, !.route = "blocked"]
              IN Advance(r, b, RouteFromSupervisor(b))
           \/ \E p \in plan : LET a == [s EXCEPT !.route = p, !.search_by = r]
                              IN Advance(r, a, RouteFromSupervisor(a))
    BY <1>3 DEF Route
  <2> DEFINE s == Reset(st[r], r, g)
  <2>2. s \in AgentState /\ s.attempts = 0
    BY <1>1, ResetType
  <2> HIDE DEF s
  <2>3. ASSUME NEW a, a.attempts = 0, Advance(r, a, RouteFromSupervisor(a))
        PROVE  Edge(pc[r], st[r].attempts, pc'[r], st'[r].attempts)
    <3>1. pc'[r] = RouteFromSupervisor(a) /\ st'[r] = a
      BY <1>2, <2>3
    <3> QED
      BY <1>3, <2>3, <3>1 DEF Route, RouteFromSupervisor, Edge
  <2>4. CASE Advance(r, [s EXCEPT !.answer = Message("rejected", r),
                                  !.refused = TRUE, !.route = "blocked"],
                     RouteFromSupervisor([s EXCEPT !.answer = Message("rejected", r),
                                  !.refused = TRUE, !.route = "blocked"]))
    <3>1. PICK b : b = [s EXCEPT !.answer = Message("rejected", r),
                                 !.refused = TRUE, !.route = "blocked"]
      OBVIOUS
    <3>2. b.attempts = 0
      BY <2>2, <3>1 DEF AgentState
    <3> QED
      BY <2>3, <2>4, <3>1, <3>2
  <2>5. ASSUME NEW p \in plan,
               Advance(r, [s EXCEPT !.route = p, !.search_by = r],
                       RouteFromSupervisor([s EXCEPT !.route = p, !.search_by = r]))
        PROVE  Edge(pc[r], st[r].attempts, pc'[r], st'[r].attempts)
    <3>1. PICK a : a = [s EXCEPT !.route = p, !.search_by = r]
      OBVIOUS
    <3>2. a.attempts = 0
      BY <2>2, <3>1 DEF AgentState
    <3> QED
      BY <2>3, <2>5, <3>1, <3>2
  <2> QED
    BY <2>1, <2>4, <2>5 DEF s
<1>4. CASE Research(r)
  <2>1. PICK c \in CorpusResults :
           Advance(r, Retrieve(st[r], c), AfterResearch(Retrieve(st[r], c)))
    BY <1>4 DEF Research
  <2>2. Retrieve(st[r], c).attempts = st[r].attempts
    BY <1>1 DEF Retrieve, AgentState
  <2> QED
    BY <1>2, <1>4, <2>1, <2>2 DEF Research, AfterResearch, Edge
<1>5. CASE SearchWeb(r)
  <2>1. PICK w \in WebResults \cup {<<>>} :
           Advance(r, [st[r] EXCEPT !.web = @ \o w], "answerability")
    BY <1>5 DEF SearchWeb
  <2>2. PICK s : s = [st[r] EXCEPT !.web = @ \o w]
    OBVIOUS
  <2>3. s.attempts = st[r].attempts
    BY <1>1, <2>2 DEF AgentState
  <2>4. pc'[r] = "answerability" /\ st'[r] = s
    BY <1>2, <2>1, <2>2
  <2> QED
    BY <1>5, <2>3, <2>4 DEF SearchWeb, Edge
<1>6. CASE CheckAnswerability(r)
  <2> DEFINE yes == [st[r] EXCEPT !.answerable = TRUE]
             no  == [st[r] EXCEPT !.answerable = FALSE, !.reason_by = r,
                                  !.answer = Message("unanswerable", r),
                                  !.refused = TRUE,
                                  !.citations = RetrievedIds(st[r])]
  <2>1. \/ Advance(r, yes, AfterAnswerability(yes))
        \/ Advance(r, no, AfterAnswerability(no))
    BY <1>6 DEF CheckAnswerability
  <2>2. yes.attempts = st[r].attempts /\ no.attempts = st[r].attempts
    BY <1>1 DEF AgentState
  <2> HIDE DEF yes, no
  <2> QED
    BY <1>2, <1>6, <2>1, <2>2 DEF CheckAnswerability, AfterAnswerability, Edge
<1>7. CASE Analyse(r)
  <2>1. PICK d \in Draft(r) : Advance(r, Write(st[r], d), "critic")
    BY <1>7 DEF Analyse
  <2>2. Write(st[r], d).attempts = st[r].attempts
    BY <1>1 DEF Write, AgentState
  <2> QED
    BY <1>2, <1>7, <2>1, <2>2 DEF Analyse, Edge
<1>8. CASE Criticise(r)
  <2> DEFINE yes == [st[r] EXCEPT !.approved = TRUE]
             no  == Reject(st[r], r)
  <2>1. Advance(r, yes, AfterCritic(yes)) \/ Advance(r, no, AfterCritic(no))
    BY <1>8 DEF Criticise
  <2>2. yes.approved = TRUE /\ no.attempts = st[r].attempts + 1
    BY <1>1 DEF Reject, AgentState
  <2> HIDE DEF yes, no
  <2> QED
    BY <1>2, <1>8, <2>1, <2>2 DEF Criticise, AfterCritic, Edge
<1>9. CASE Comply(r)
  BY <1>1, <1>9 DEF Comply, Advance, Edge
<1> QED
  BY <1>3, <1>4, <1>5, <1>6, <1>7, <1>8, <1>9 DEF Step

\* An edge shortens the distance, given what the invariant says of the attempts
\* at both ends.
LEMMA EdgeDescends ==
    ASSUME NEW p \in Nodes, NEW s \in AgentState,
           NEW p2, NEW s2 \in AgentState, Edge(p, s.attempts, p2, s2.attempts),
           NEW r, NEW n \in Nat, NodeOK(r, p, s, n),
           NEW m \in Nat, NodeOK(r, p2, s2, m)
    PROVE  Distance(p2, s2) < Distance(p, s) /\ Distance(p2, s2) >= 0
<1>1. s.attempts \in Nat /\ s2.attempts \in Nat /\ critic_max_retries \in Nat
  BY SettingsAssumption DEF AgentState
<1>2. p \notin {"supervisor", "compliance"} => s.attempts <= critic_max_retries
  BY DEF NodeOK, Nodes
<1>3. p2 \in Nodes \ {"supervisor", "compliance"} => s2.attempts <= critic_max_retries
  BY DEF NodeOK, Nodes
<1> QED
  BY <1>1, <1>2, <1>3 DEF Edge, Distance, Nodes

\* Every node brings its request nearer the end, for any retry budget and any
\* number of requests.  With the fairness of the nodes this is why every question
\* ends.
THEOREM Descent == Spec => NodesDescend
<1> DEFINE Nearer(r) == pc[r] \in Nodes =>
                          \/ pc'[r] = pc[r] /\ st'[r] = st[r]
                          \/ /\ Distance(pc'[r], st'[r]) < Distance(pc[r], st[r])
                             /\ Distance(pc'[r], st'[r]) >= 0
<1>1. ASSUME IInv, [Next]_vars, IInv'
      PROVE  [\A r \in Requests : Nearer(r)]_vars
  <2> SUFFICES ASSUME NEW q \in Requests, pc[q] \in Nodes
               PROVE  \/ pc'[q] = pc[q] /\ st'[q] = st[q]
                      \/ /\ Distance(pc'[q], st'[q]) < Distance(pc[q], st[q])
                         /\ Distance(pc'[q], st'[q]) >= 0
    OBVIOUS
  <2>1. /\ st \in [Requests -> AgentState] /\ st'[q] \in AgentState
        /\ pc \in [Requests -> Nodes \cup {"idle", "done", "failed"}]
        /\ drafts[q] \in Nat /\ drafts'[q] \in Nat
        /\ NodeOK(q, pc[q], st[q], drafts[q])
        /\ NodeOK(q, pc'[q], st'[q], drafts'[q])
    BY <1>1 DEF IInv, TypeOK
  <2>2. ASSUME Edge(pc[q], st[q].attempts, pc'[q], st'[q].attempts)
        PROVE  /\ Distance(pc'[q], st'[q]) < Distance(pc[q], st[q])
               /\ Distance(pc'[q], st'[q]) >= 0
    BY <2>1, <2>2, EdgeDescends
  <2>3. ASSUME NEW r \in Requests, NEW t \in Threads \cup {NoThread}, Ask(r, t)
        PROVE  pc'[q] = pc[q] /\ st'[q] = st[q]
    BY <2>1, <2>3 DEF Ask, Nodes
  <2>4. ASSUME NEW r \in Requests, Step(r), r # q
        PROVE  pc'[q] = pc[q] /\ st'[q] = st[q]
    BY <1>1, <2>1, <2>4, StepWrites DEF Advance
  <2>5. ASSUME Step(q)
        PROVE  Edge(pc[q], st[q].attempts, pc'[q], st'[q].attempts)
    BY <1>1, <2>5, StepIsEdge
  <2>6. ASSUME NEW r \in Requests, Fail(r)
        PROVE  \/ pc'[q] = pc[q] /\ st'[q] = st[q]
               \/ Edge(pc[q], st[q].attempts, pc'[q], st'[q].attempts)
    BY <2>1, <2>6 DEF Fail, Edge
  <2>7. CASE UNCHANGED vars
    BY <2>7 DEF vars
  <2> QED
    BY <1>1, <2>2, <2>3, <2>4, <2>5, <2>6, <2>7 DEF Next, Finished
<1> QED
  BY <1>1, Invariance, PTL DEF Spec, NodesDescend
=============================================================================
