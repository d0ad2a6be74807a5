---------------------------- MODULE MultiAgentRAG ----------------------------
(***************************************************************************)
(* The six-role question-answering graph of agent/orchestrator.py, with    *)
(* the roles of agent/roles.py, the two guardrail stages of guardrails/,   *)
(* the per-thread checkpoints of memory/threads.py and the audit trail of  *)
(* memory/audit.py.                                                        *)
(*                                                                         *)
(* One process serves many requests at once from a thread pool.  Every     *)
(* request runs the graph on a private working state st[r]; what requests  *)
(* share is the checkpoint of the conversation they belong to and the      *)
(* audit table.  A request may start while another one of the same thread  *)
(* is still running, and may fail at any node.                             *)
(*                                                                         *)
(* Models are oracles: a routing, answerability or critic call returns any *)
(* verdict or fails (and then the code's fail-open branch is taken); a     *)
(* draft cites any set of ids of DraftCites, invented ones included.  The  *)
(* values a turn leaves in the state are tagged with the request that      *)
(* wrote them, which is what tells a stale value from a fresh one.         *)
(***************************************************************************)
EXTENDS Naturals, Sequences, FiniteSets

CONSTANTS
    Requests,       \* the questions asked, each of them once
    Threads,        \* the conversation ids callers supply
    NoThread,       \* the caller supplied none
    NoOne,          \* tag of a value no request has written
    Chunks,         \* ids of indexed passages
    WebPages,       \* ids of web passages ("web-" plus a hash of the URL)
    Fabricated,     \* ids a model may invent
    CorpusResults,  \* sets of passages a retrieval may return
    WebResults,     \* lists of pages a web search may return
    DraftCites,     \* sets of ids a draft may cite
    critic_max_retries,
    critic_enabled,
    answerability_check_enabled,
    web_search_enabled,
    guardrail_require_citations,
    audit_enabled

PassageIds == Chunks \cup WebPages
AnyIds == PassageIds \cup Fabricated

ASSUME RequestsAssumption ==
    /\ NoOne \notin Requests
    /\ Threads \cap Requests = {}
    /\ NoThread \notin Threads
ASSUME IdsAssumption ==
    /\ Chunks \cap WebPages = {}
    /\ Fabricated \cap (Chunks \cup WebPages) = {}
    /\ CorpusResults \subseteq SUBSET Chunks
    /\ WebResults \subseteq Seq(WebPages)
    /\ DraftCites \subseteq SUBSET (Chunks \cup WebPages \cup Fabricated)
ASSUME SettingsAssumption ==
    /\ critic_max_retries \in Nat
    /\ {critic_enabled, answerability_check_enabled, web_search_enabled,
        guardrail_require_citations, audit_enabled} \subseteq BOOLEAN

VARIABLES
    pc,       \* pc[r]: the node request r runs next
    thread,   \* thread[r]: the thread_id its caller supplied
    st,       \* st[r]: its working AgentState
    ckpt,     \* ckpt[k]: the latest checkpoint under key k
    audit,    \* the query_audit table, in insertion order
    resp,     \* resp[r]: what its caller received, NoResponse until then
    drafts    \* history: how many drafts the Analyst wrote for r

vars == <<pc, thread, st, ckpt, audit, resp, drafts>>

-----------------------------------------------------------------------------
(* Data *)

Nodes == {"supervisor", "researcher", "web_search", "answerability",
          "analyst", "critic", "compliance"}

DraftKinds == {"prose", "directive", "empty"}
AnswerKinds == DraftKinds \cup
               {"none", "rejected", "unanswerable", "unverified", "withheld"}
Tags == Requests \cup {NoOne}

\* An answer: what sort of text it is, whose question it answers, which ids
\* stand in it in brackets.
Answers == [kind : AnswerKinds, by : Tags, cites : SUBSET AnyIds]
Message(kind, r) == [kind |-> kind, by |-> r, cites |-> {}]

Reasons == {"pii_detected", "input_blocked", "no_inline_citations",
            "hallucinated_citation", "overconfident_directive"}

AgentState == [
    trace_by    : Tags,                 \* the request that minted trace_id
    allowed     : BOOLEAN,
    reasons     : SUBSET Reasons,       \* guardrail_reasons
    route       : {"none", "blocked", "corpus", "web", "both"},
    search_by   : Tags,                 \* the request that set search_query
    corpus      : SUBSET Chunks,        \* retrieved, the corpus passages
    web         : Seq(WebPages),        \* retrieved, the modality=web passages
    answerable  : BOOLEAN,
    reason_by   : Tags,                 \* ... that set unanswerable_reason
    answer      : Answers,
    citations   : SUBSET PassageIds,
    refused     : BOOLEAN,
    attempts    : Nat,                  \* critic_attempts
    critic_by   : Tags,                 \* ... that set critic_reasons
    approved    : BOOLEAN]              \* _critic_approved

\* A thread nobody has written: absent channels read as their .get defaults.
FreshState == [
    trace_by |-> NoOne, allowed |-> TRUE, reasons |-> {}, route |-> "none",
    search_by |-> NoOne, corpus |-> {}, web |-> <<>>, answerable |-> TRUE,
    reason_by |-> NoOne, answer |-> Message("none", NoOne), citations |-> {},
    refused |-> FALSE, attempts |-> 0,
    critic_by |-> NoOne, approved |-> TRUE]

\* The ids of state["retrieved"], which is always the corpus passages followed
\* by the web passages.
RetrievedIds(s) == s.corpus \cup {s.web[i] : i \in DOMAIN s.web}

Responses == [answer : Answers, refused : BOOLEAN, citations : SUBSET PassageIds,
              reasons : SUBSET Reasons,
              retrieved : SUBSET PassageIds, trace_by : Tags]
NoResponse == [none |-> TRUE]

AuditRow == [request : Requests, answer : Answers, refused : BOOLEAN,
             cited : SUBSET PassageIds, retrieved : SUBSET PassageIds,
             hallucinated : SUBSET AnyIds, rewritten_by : Tags,
             refusal_by : Tags, trace_by : Tags, attempts : Nat]

-----------------------------------------------------------------------------
(* Guardrails *)

\* check_input: a query is rejected (too long, empty, injection marker) or let
\* through, and apart from that its PII may have been found and redacted.
check_input == {[allowed |-> FALSE, reasons |-> {"input_blocked"}],
                [allowed |-> FALSE, reasons |-> {"input_blocked", "pii_detected"}],
                [allowed |-> TRUE,  reasons |-> {"pii_detected"}],
                [allowed |-> TRUE,  reasons |-> {}]}

\* Mutants: known ids are only tested for emptiness; the flag is raised only
\* when the answer is blocked.
check_output_EmptinessOnly(s) ==
    [allowed |-> s.answer.kind # "directive", reasons |-> {},
     cited |-> s.answer.cites,
     grounded |-> s.answer.cites \cap (RetrievedIds(s) \cup s.citations),
     hallucinated |-> {}]
check_output_FlagOnBlockOnly(s) ==
    LET known == RetrievedIds(s) \cup s.citations
        grounded == s.answer.cites \cap known
        hallucinated == s.answer.cites \ known
        allFake == hallucinated # {} /\ grounded = {} /\ ~s.refused
    IN [allowed |-> ~allFake /\ s.answer.kind # "directive",
        reasons |-> IF allFake THEN {"hallucinated_citation"} ELSE {},
        cited |-> s.answer.cites, grounded |-> grounded,
        hallucinated |-> hallucinated]

\* check_output: the ids in the answer are split into those that name a known
\* passage and those that do not.  An answer all of whose citations are
\* fabricated is blocked, and so is a "you must file today" directive; that
\* early return carries no citation analysis.
check_output(s) ==
    LET known == RetrievedIds(s) \cup s.citations
        cited == s.answer.cites
        grounded == cited \cap known
        hallucinated == cited \ known
        verify == /\ guardrail_require_citations
                  /\ RetrievedIds(s) # {}
                  /\ ~s.refused
        flags == {f \in {"no_inline_citations", "hallucinated_citation"} :
                    /\ verify
                    /\ \/ f = "no_inline_citations" /\ cited = {}
                       \/ f = "hallucinated_citation" /\ hallucinated # {}}
        fabricated == verify /\ hallucinated # {} /\ grounded = {}
        directive == ~fabricated /\ s.answer.kind = "directive"
    IN [allowed |-> ~fabricated /\ ~directive,
        reasons |-> IF directive THEN flags \cup {"overconfident_directive"}
                                 ELSE flags,
        cited |-> IF directive THEN {} ELSE cited,
        grounded |-> IF directive THEN {} ELSE grounded,
        hallucinated |-> IF directive THEN {} ELSE hallucinated]

-----------------------------------------------------------------------------
(* Checkpoints and routing edges *)

\* Mutant: every request without a thread_id shares one checkpoint.
CkptKey_SharedOneshot(r, t) ==
    IF t = NoThread THEN CHOOSE q \in Requests : TRUE ELSE t
\* The key a request's checkpoints are kept under: its thread, or a throwaway
\* "oneshot-<uuid>" of its own.
CkptKey(r, t) == IF t = NoThread THEN r ELSE t

RouteFromSupervisor(s) ==
    IF ~s.allowed THEN "compliance"
    ELSE IF s.route = "web" THEN "web_search" ELSE "researcher"

AfterResearch(s) == IF s.route = "both" THEN "web_search" ELSE "answerability"

\* Mutant: unanswerable questions are searched for again.
AfterAnswerability_SearchesAgain(s) ==
    IF s.answerable THEN "analyst" ELSE "researcher"
AfterAnswerability(s) == IF s.answerable THEN "analyst" ELSE "compliance"

\* Mutant: one retry too many.
AfterCritic_OffByOne(s) ==
    IF s.approved \/ s.attempts > critic_max_retries + 1
    THEN "compliance" ELSE "researcher"
AfterCritic(s) ==
    IF s.approved \/ s.attempts > critic_max_retries
    THEN "compliance" ELSE "researcher"

\* A node ends: its updates enter the working state, the checkpoint is saved
\* and the edge function picks the next node.
Advance(r, s, next) ==
    /\ st' = [st EXCEPT ![r] = s]
    /\ ckpt' = [ckpt EXCEPT ![CkptKey(r, thread[r])] = s]
    /\ pc' = [pc EXCEPT ![r] = next]

-----------------------------------------------------------------------------
(* Entry *)

\* ask: the input overwrites the channels it names; every other channel comes
\* from the thread's latest checkpoint.  The result is saved as the run's first
\* checkpoint.
Resume(s) == [s EXCEPT !.allowed = TRUE, !.reasons = {}, !.citations = {},
                       !.corpus = {}, !.web = <<>>]

Ask(r, t) ==
    /\ pc[r] = "idle"
    /\ thread' = [thread EXCEPT ![r] = t]
    /\ LET s == Resume(ckpt[CkptKey(r, t)]) IN
         /\ st' = [st EXCEPT ![r] = s]
         /\ ckpt' = [ckpt EXCEPT ![CkptKey(r, t)] = s]
    /\ pc' = [pc EXCEPT ![r] = "supervisor"]
    /\ UNCHANGED <<audit, resp, drafts>>

-----------------------------------------------------------------------------
(* Nodes *)

\* What the supervisor node writes before it looks at the guardrail verdict.
\* Mutant: critic_attempts is not reset.
Reset_KeepsAttempts(s, r, g) ==
    [s EXCEPT !.allowed = g.allowed, !.reasons = g.reasons,
              !.trace_by = IF @ = NoOne THEN r ELSE @,
              !.corpus = {}, !.web = <<>>, !.citations = {}]
Reset(s, r, g) ==
    [s EXCEPT !.allowed = g.allowed, !.reasons = g.reasons,
              !.trace_by = IF @ = NoOne THEN r ELSE @,
              !.attempts = 0,
              !.corpus = {}, !.web = <<>>, !.citations = {}]

\* Supervisor.plan: a route it knows, "corpus" when the call fails, the reply
\* names no known route or web search is switched off.
plan == IF web_search_enabled THEN {"corpus", "web", "both"} ELSE {"corpus"}

Route(r) ==
    /\ pc[r] = "supervisor"
    /\ \E g \in check_input :
         LET s == Reset(st[r], r, g) IN
         \/ /\ ~g.allowed
            /\ LET b == [s EXCEPT !.answer = Message("rejected", r),
                                  !.refused = TRUE, !.route = "blocked"]
               IN Advance(r, b, RouteFromSupervisor(b))
         \/ /\ g.allowed
            /\ \E p \in plan :
                 LET a == [s EXCEPT !.route = p, !.search_by = r]
                 IN Advance(r, a, RouteFromSupervisor(a))
    /\ UNCHANGED <<thread, audit, resp, drafts>>

\* The corpus part of the evidence is replaced; the web part is kept, since a
\* retry rejects the draft and not the sources.
\* Mutant: the retry starts from the corpus passages alone.
Retrieve_DropsWeb(s, c) == [s EXCEPT !.corpus = c, !.web = <<>>]
Retrieve(s, c) == [s EXCEPT !.corpus = c]

Research(r) ==
    /\ pc[r] = "researcher"
    /\ \E c \in CorpusResults :
         LET s == Retrieve(st[r], c) IN Advance(r, s, AfterResearch(s))
    /\ UNCHANGED <<thread, audit, resp, drafts>>

\* A disabled or failing web search returns no page and the request goes on.
SearchWeb(r) ==
    /\ pc[r] = "web_search"
    /\ \E w \in WebResults \cup {<<>>} :
         Advance(r, [st[r] EXCEPT !.web = @ \o w], "answerability")
    /\ UNCHANGED <<thread, audit, resp, drafts>>

\* AnswerabilityGate.check: the verdicts it may return.  No evidence is never
\* answerable; a failing checker counts as TRUE.
answerability_check(s) ==
    IF ~answerability_check_enabled THEN {TRUE}
    ELSE IF RetrievedIds(s) = {} THEN {FALSE}
    ELSE BOOLEAN

CheckAnswerability(r) ==
    /\ pc[r] = "answerability"
    /\ \E verdict \in answerability_check(st[r]) :
         LET yes == [st[r] EXCEPT !.answerable = TRUE]
             no  == [st[r] EXCEPT !.answerable = FALSE, !.reason_by = r,
                                  !.answer = Message("unanswerable", r),
                                  !.refused = TRUE,
                                  !.citations = RetrievedIds(st[r])]
             s   == IF verdict THEN yes ELSE no
         IN Advance(r, s, AfterAnswerability(s))
    /\ UNCHANGED <<thread, audit, resp, drafts>>

\* What the Analyst's model may return.
Draft(r) == {[kind |-> k, by |-> r, cites |-> c] :
                k \in {"prose", "directive"}, c \in DraftCites}
            \cup {Message("empty", r)}

\* What a draft writes; it withdraws the refusal of an earlier turn.
\* Mutant: the refusal flag of the thread's last turn is left standing.
Write_KeepsRefused(s, d) ==
    [s EXCEPT !.answer = d, !.citations = RetrievedIds(s)]
Write(s, d) ==
    [s EXCEPT !.answer = d, !.refused = FALSE, !.citations = RetrievedIds(s)]

Analyse(r) ==
    /\ pc[r] = "analyst"
    /\ \E d \in Draft(r) : Advance(r, Write(st[r], d), "critic")
    /\ drafts' = [drafts EXCEPT ![r] = @ + 1]
    /\ UNCHANGED <<thread, audit, resp>>

\* Critic.review: the verdicts it may return.  A disabled or failing critic
\* approves; an empty draft is rejected without a call.
review(s) ==
    IF ~critic_enabled THEN {TRUE}
    ELSE IF s.answer.kind = "empty" THEN {FALSE}
    ELSE BOOLEAN

\* What a rejection writes.  A suggested query is taken while a retry is left;
\* once the budget is spent the draft is replaced by a refusal.
\* Mutants: the exhausted draft is shipped; the rejection is not counted.
Reject_NotCounted(s, r) == [s EXCEPT !.approved = FALSE, !.critic_by = r]
Reject_Ships(s, r) ==
    [s EXCEPT !.approved = FALSE, !.attempts = @ + 1, !.critic_by = r]
Reject(s, r) ==
    LET n == s.attempts + 1
        spent == n > critic_max_retries
    IN [s EXCEPT !.approved = FALSE, !.attempts = n, !.critic_by = r,
                 !.answer = IF spent THEN Message("unverified", r) ELSE @,
                 !.refused = @ \/ spent]

Criticise(r) ==
    /\ pc[r] = "critic"
    /\ \E approved \in review(st[r]) :
         LET s == IF approved THEN [st[r] EXCEPT !.approved = TRUE]
                  ELSE Reject(st[r], r)
         IN Advance(r, s, AfterCritic(s))
    /\ UNCHANGED <<thread, audit, resp, drafts>>

\* The state compliance leaves: citations narrowed to the passages the answer
\* really cites, the answer withheld when the output check blocks it.
\* Mutant: every cited id becomes a citation, resolved or not.
Final_CitesUnresolved(s, r, out) ==
    [s EXCEPT !.answer = IF out.allowed THEN @ ELSE Message("withheld", r),
              !.citations = IF out.cited # {} THEN out.cited ELSE @,
              !.refused = @ \/ ~out.allowed,
              !.reasons = @ \cup out.reasons]
Final(s, r, out) ==
    LET cited == out.grounded \cap RetrievedIds(s)
    IN [s EXCEPT !.answer = IF out.allowed THEN @ ELSE Message("withheld", r),
                 !.citations = IF cited # {} THEN cited ELSE @,
                 !.refused = @ \/ ~out.allowed,
                 !.reasons = @ \cup out.reasons]

\* The row _audit writes; f is the state compliance leaves.
\* Mutant: the row is built from the state compliance was given.
Row_BeforeGuardrail(r, s, f, out) ==
    [request |-> r, answer |-> s.answer, refused |-> s.refused,
     cited |-> s.citations, retrieved |-> RetrievedIds(s),
     hallucinated |-> out.hallucinated, rewritten_by |-> s.search_by,
     refusal_by |-> s.reason_by, trace_by |-> s.trace_by,
     attempts |-> s.attempts]
Row(r, s, f, out) ==
    [request |-> r, answer |-> f.answer, refused |-> f.refused,
     cited |-> f.citations, retrieved |-> RetrievedIds(s),
     hallucinated |-> out.hallucinated, rewritten_by |-> s.search_by,
     refusal_by |-> s.reason_by, trace_by |-> s.trace_by,
     attempts |-> s.attempts]

Response(f) ==
    [answer |-> f.answer, refused |-> f.refused, citations |-> f.citations,
     reasons |-> f.reasons, retrieved |-> RetrievedIds(f),
     trace_by |-> f.trace_by]

\* write_audit appends one row or, when the insert fails, logs and goes on.
\* The node's own checkpoint write may still fail after that (see Fail).
WriteAudit(row) ==
    \/ audit_enabled /\ audit' = Append(audit, row)
    \/ UNCHANGED audit

Comply(r) ==
    /\ pc[r] = "compliance"
    /\ LET out == check_output(st[r])
           f == Final(st[r], r, out)
       IN /\ WriteAudit(Row(r, st[r], f, out))
          /\ \/ /\ Advance(r, f, "done")
                /\ resp' = [resp EXCEPT ![r] = Response(f)]
             \/ /\ pc' = [pc EXCEPT ![r] = "failed"]
                /\ UNCHANGED <<st, ckpt, resp>>
    /\ UNCHANGED <<thread, drafts>>

\* A node raises (retrieval, the Analyst's call, the checkpoint write): the
\* node's updates are lost, the last checkpoint stays, the caller gets a 500.
Fail(r) ==
    /\ pc[r] \in Nodes
    /\ pc' = [pc EXCEPT ![r] = "failed"]
    /\ UNCHANGED <<thread, st, ckpt, audit, resp, drafts>>

-----------------------------------------------------------------------------
(* Specification *)

Init ==
    /\ pc = [r \in Requests |-> "idle"]
    /\ thread = [r \in Requests |-> NoThread]
    /\ st = [r \in Requests |-> FreshState]
    /\ ckpt = [k \in Threads \cup Requests |-> FreshState]
    /\ audit = <<>>
    /\ resp = [r \in Requests |-> NoResponse]
    /\ drafts = [r \in Requests |-> 0]

Step(r) ==
    \/ Route(r) \/ Research(r) \/ SearchWeb(r) \/ CheckAnswerability(r)
    \/ Analyse(r) \/ Criticise(r) \/ Comply(r)

\* Every question has been answered or has failed.
Finished ==
    /\ \A r \in Requests : pc[r] \in {"done", "failed"}
    /\ UNCHANGED vars

Next ==
    \/ \E r \in Requests :
         \/ \E t \in Threads \cup {NoThread} : Ask(r, t)
         \/ Step(r)
         \/ Fail(r)
    \/ Finished

Spec == Init /\ [][Next]_vars

\* The calls a node makes have timeouts, so a started node ends.
Fairness == \A r \in Requests : WF_vars(Step(r))
FairSpec == Spec /\ Fairness

-----------------------------------------------------------------------------
(* Properties *)

\* The types of the runs of the graph, their checkpoints and the audit trail.
TypeOK ==
    /\ pc \in [Requests -> Nodes \cup {"idle", "done", "failed"}]
    /\ thread \in [Requests -> Threads \cup {NoThread}]
    /\ st \in [Requests -> AgentState]
    /\ ckpt \in [Threads \cup Requests -> AgentState]
    /\ audit \in Seq(AuditRow)
    /\ resp \in [Requests -> Responses \cup {NoResponse}]
    /\ drafts \in [Requests -> Nat]

Answered(r) == resp[r] # NoResponse

\* An answer that is not a refusal is a draft written for this very question,
\* the critic signed that draft, and it was written over evidence: no answer of
\* an earlier turn of the thread, no rejected or blank draft and no draft over
\* an empty retrieval is ever delivered (orchestrator.py, criticise and comply;
\* answerability.py, check).
OnlyVerifiedShips ==
    \A r \in Requests : Answered(r) /\ ~resp[r].refused =>
        /\ resp[r].answer.by = r
        /\ resp[r].answer.kind # "directive"
        /\ critic_enabled => st[r].approved /\ resp[r].answer.kind = "prose"
        /\ answerability_check_enabled => resp[r].retrieved # {}

\* The refused flag and the text agree, whatever the thread's checkpoint
\* carried in: a refusal never goes out with a draft as its text, and a draft
\* never goes out marked refused because the previous turn was.
RefusalMatchesText ==
    \A r \in Requests : Answered(r) =>
        /\ resp[r].answer.by = r
        /\ resp[r].refused <=> resp[r].answer.kind \notin DraftKinds

\* The citations delivered with an answer are passages that were retrieved for
\* it and, when the answer cites anything, exactly those its text cites: an
\* answer all of whose citations are invented is not delivered (comply with
\* check_output).
CitationsGrounded ==
    \A r \in Requests : Answered(r) /\ ~resp[r].refused =>
        LET a == resp[r] IN
        /\ a.citations \subseteq a.retrieved
        /\ guardrail_require_citations /\ a.retrieved # {} /\ a.answer.cites # {}
             => /\ a.citations = a.answer.cites \cap a.retrieved
                /\ a.citations # {}

\* ARCHITECTURE.md 3, step 12: "Compliance verifies every cited id exists in
\* the retrieved set".  An answer that cites an id outside it carries the
\* hallucinated_citation flag.
FabricationFlagged ==
    guardrail_require_citations =>
        \A r \in Requests : Answered(r) /\ ~resp[r].refused =>
            (~(resp[r].answer.cites \subseteq resp[r].retrieved)
                => "hallucinated_citation" \in resp[r].reasons)

\* The critic cycle is bounded: no request, whatever turn of its thread it is,
\* pays for more than critic_max_retries + 1 drafts (_after_critic).
DraftBudget == \A r \in Requests : drafts[r] <= critic_max_retries + 1

\* A request is refused as unverified only when this request used up its whole
\* budget of drafts; rejections of an earlier turn do not count (route resets
\* critic_attempts).
UnverifiedOnlyWhenSpent ==
    \A r \in Requests :
        Answered(r) /\ resp[r].answer.kind = "unverified"
            => drafts[r] = critic_max_retries + 1

\* The audit trail says what the client was told: one row at most for each
\* request, only once the request is over, and with the answer, the verdict and
\* the sources that were delivered (comply with _audit).
AuditMatchesDelivery ==
    /\ \A i, j \in DOMAIN audit : audit[i].request = audit[j].request => i = j
    /\ \A i \in DOMAIN audit :
         LET row == audit[i]
             r == row.request
         IN /\ pc[r] \in {"done", "failed"}
            /\ row.answer.by = r
            /\ Answered(r) =>
                 /\ row.answer = resp[r].answer
                 /\ row.refused = resp[r].refused
                 /\ row.cited = resp[r].citations
                 /\ row.retrieved = resp[r].retrieved

\* Whatever a request's state carries was written by itself or by a request of
\* the same conversation: a question asked without a thread_id starts cold, and
\* nobody resumes it (ask, oneshot ids).
ConversationsIsolated ==
    \A r \in Requests : pc[r] # "idle" =>
        \A w \in {st[r].trace_by, st[r].search_by, st[r].reason_by,
                  st[r].critic_by, st[r].answer.by} \ {NoOne, r} :
            thread[w] = thread[r] /\ thread[r] # NoThread

\* A retry re-runs the corpus retrieval and keeps the web passages: pages once
\* fetched for a request stay in its evidence until it is answered (research).
WebEvidenceKept ==
    [][\A r \in Requests :
         pc[r] \in Nodes \ {"supervisor"} =>
             RetrievedIds(st[r]) \cap WebPages \subseteq RetrievedIds(st'[r])]_vars

\* How far a request at node p with state s is from its end, at most: a round of
\* nodes for every retry that is left, and the rest of this one.
Distance(p, s) ==
    LET left == critic_max_retries - s.attempts IN
    CASE p = "supervisor"    -> 6 * critic_max_retries + 7
      [] p = "researcher"    -> 6 * left + 6
      [] p = "web_search"    -> 6 * left + 5
      [] p = "answerability" -> 6 * left + 4
      [] p = "analyst"       -> 6 * left + 3
      [] p = "critic"        -> 6 * left + 2
      [] p = "compliance"    -> 1
      [] OTHER               -> 0

\* Every node brings its request nearer the end, by a measure no other request
\* and no earlier turn can lengthen: the graph has no way round it, and the
\* critic cycle none that does not spend a retry (the edges of _build_graph).
NodesDescend ==
    [][\A r \in Requests : pc[r] \in Nodes =>
         \/ pc'[r] = pc[r] /\ st'[r] = st[r]
         \/ /\ Distance(pc'[r], st'[r]) < Distance(pc[r], st[r])
            /\ Distance(pc'[r], st'[r]) >= 0]_vars

\* Every question that is asked is answered, or fails, in the end: the critic
\* cycle terminates and no node waits for another request.
EveryAskEnds ==
    \A r \in Requests : pc[r] = "supervisor" ~> pc[r] \in {"done", "failed"}

-----------------------------------------------------------------------------
(* What the documentation says, and the code does not do *)

\* audit.py: the row must answer "what did the system tell this client".  A
\* refusal_reason is recorded with a refusal, and is the reason of that refusal.
AuditRefusalReasonOwn ==
    \A i \in DOMAIN audit :
        audit[i].refusal_by # NoOne =>
            audit[i].refused /\ audit[i].refusal_by = audit[i].request
=============================================================================
