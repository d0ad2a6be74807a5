------------------------------- MODULE AskStream -------------------------------
(***************************************************************************)
(* POST /v1/ask/stream (api/app.py): the answer to a question as           *)
(* server-sent events.  A worker thread runs the agent and posts events to *)
(* the event loop, the loop puts them on the stream's queue, an            *)
(* asynchronous generator takes them off and writes them to the client.    *)
(*                                                                         *)
(* All requests share one agent, and with it one progress callback: ask()  *)
(* stores its caller's on_stage in self._on_stage, and every node of every *)
(* running request calls whatever is stored there (agent/orchestrator.py). *)
(* Plain asks are here because they overwrite the callback too.  The graph *)
(* is a number of nodes that report a stage; MultiAgentRAG is its model.   *)
(***************************************************************************)
EXTENDS Naturals, Sequences, FiniteSets

CONSTANTS
    Streams,      \* requests to /v1/ask/stream
    Plain,        \* requests to /v1/ask
    NoOne,        \* _on_stage is None
    PoolSize,     \* threads of the loop's default executor, which runs streams
    MaxStages     \* bound: stages a run of the graph reports

ASSUME StreamsAssumption ==
    /\ Streams \cap Plain = {} /\ NoOne \notin Streams \cup Plain
    /\ PoolSize \in Nat \ {0} /\ MaxStages \in Nat

VARIABLES
    thread,       \* thread[r]: where the thread that runs r stands
    on_stage,     \* the agent's _on_stage: whose emit it is
    stages,       \* stages[r]: stages the nodes of r have reported
    loop,         \* callbacks handed to the loop: a queue and an event each
    queue,        \* queue[s]: the asyncio.Queue of stream s
    client,       \* client[s]: its generator, as the client sees it
    sent          \* sent[s]: the events written to the client

vars == <<thread, on_stage, stages, loop, queue, client, sent>>

Requests == Streams \cup Plain
Event(type, r) == [type |-> type, by |-> r]
Events == [type : {"stage", "answer", "error", "sentinel", "done"}, by : Requests]

\* call_soon_threadsafe(queue.put_nowait, event), for the queue of s.
Post(s, event) == Append(loop, [to |-> s, event |-> event])

\* Threads of the executor that are taken, orphaned ones included.
Busy == {s \in Streams : thread[s] \in {"routing", "asking", "nodes", "finally"}}

-----------------------------------------------------------------------------
(* The handler *)

\* events() starts: a queue, and a task that asks the executor for a thread.
Connect(s) ==
    /\ client[s] = "none"
    /\ client' = [client EXCEPT ![s] = "open"]
    /\ thread' = [thread EXCEPT ![s] = "submitted"]
    /\ UNCHANGED <<on_stage, stages, loop, queue, sent>>

\* The client goes away: the generator is closed and its finally cancels the
\* task, which reaches work() only while no thread has taken it.
Disconnect(s) ==
    /\ client[s] = "open"
    /\ client' = [client EXCEPT ![s] = "gone"]
    /\ thread' = [thread EXCEPT ![s] = IF @ = "submitted" THEN "cancelled" ELSE @]
    /\ UNCHANGED <<on_stage, stages, loop, queue, sent>>

\* The loop runs the oldest callback.
RunCallback ==
    /\ loop # <<>>
    /\ LET c == Head(loop) IN queue' = [queue EXCEPT ![c.to] = Append(@, c.event)]
    /\ loop' = Tail(loop)
    /\ UNCHANGED <<thread, on_stage, stages, client, sent>>

\* What the generator writes for the event it takes off the queue; the sentinel
\* ends the loop and becomes the final "done".
Written(s, event) == IF event.type = "sentinel" THEN Event("done", s) ELSE event

Deliver(s) ==
    /\ client[s] = "open" /\ queue[s] # <<>>
    /\ sent' = [sent EXCEPT ![s] = Append(@, Written(s, Head(queue[s])))]
    /\ queue' = [queue EXCEPT ![s] = Tail(@)]
    /\ client' = [client EXCEPT ![s] =
                    IF Head(queue[s]).type = "sentinel" THEN "done" ELSE @]
    /\ UNCHANGED <<thread, on_stage, stages, loop>>

-----------------------------------------------------------------------------
(* The thread *)

\* A free thread takes the work.
StartWork(s) ==
    /\ thread[s] = "submitted"
    /\ Cardinality(Busy) < PoolSize
    /\ thread' = [thread EXCEPT ![s] = "routing"]
    /\ UNCHANGED <<on_stage, stages, loop, queue, client, sent>>

\* work() reports the first stage itself.
EmitRouting(s) ==
    /\ thread[s] = "routing"
    /\ loop' = Post(s, Event("stage", s))
    /\ thread' = [thread EXCEPT ![s] = "asking"]
    /\ UNCHANGED <<on_stage, stages, queue, client, sent>>

\* /v1/ask, in a thread of its own pool.
AskPlain(r) ==
    /\ r \in Plain /\ thread[r] = "idle"
    /\ thread' = [thread EXCEPT ![r] = "asking"]
    /\ UNCHANGED <<on_stage, stages, loop, queue, client, sent>>

\* ask: self._on_stage = on_stage.
SetCallback(r) ==
    /\ thread[r] = "asking"
    /\ on_stage' = IF r \in Streams THEN r ELSE NoOne
    /\ thread' = [thread EXCEPT ![r] = "nodes"]
    /\ UNCHANGED <<stages, loop, queue, client, sent>>

\* A node of r begins: _emit calls the callback stored now.
\* Mutant: the callback is called without looking.
_emit_Unchecked(r) ==
    /\ thread[r] = "nodes" /\ stages[r] < MaxStages
    /\ stages' = [stages EXCEPT ![r] = @ + 1]
    /\ loop' = Post(on_stage, Event("stage", r))
    /\ UNCHANGED <<thread, on_stage, queue, client, sent>>
_emit(r) ==
    /\ thread[r] = "nodes" /\ stages[r] < MaxStages
    /\ stages' = [stages EXCEPT ![r] = @ + 1]
    /\ loop' = IF on_stage = NoOne THEN loop ELSE Post(on_stage, Event("stage", r))
    /\ UNCHANGED <<thread, on_stage, queue, client, sent>>

\* What a finished or failed ask leaves to do, and what the thread does next:
\* post the answer or the error, then the sentinel.
\* Mutants: the sentinel only follows an answer; the sentinel overtakes the
\* outcome.
Outcome_NoFinally(s, type) ==
    /\ loop' = Post(s, Event(type, s))
    /\ thread' = [thread EXCEPT ![s] = IF type = "answer" THEN "finally" ELSE "ended"]
Outcome_SentinelFirst(s, type) ==
    /\ loop' = Post(s, Event("sentinel", s))
               \o <<[to |-> s, event |-> Event(type, s)]>>
    /\ thread' = [thread EXCEPT ![s] = "ended"]
Outcome(s, type) ==
    /\ loop' = Post(s, Event(type, s))
    /\ thread' = [thread EXCEPT ![s] = "finally"]

\* ask returns, or raises anywhere.
AskEnds(s) ==
    /\ s \in Streams
    /\ \/ thread[s] = "nodes" /\ Outcome(s, "answer")
       \/ thread[s] \in {"asking", "nodes"} /\ Outcome(s, "error")
    /\ UNCHANGED <<on_stage, stages, queue, client, sent>>

\* The finally clause of work().
PostSentinel(s) ==
    /\ thread[s] = "finally"
    /\ loop' = Post(s, Event("sentinel", s))
    /\ thread' = [thread EXCEPT ![s] = "ended"]
    /\ UNCHANGED <<on_stage, stages, queue, client, sent>>

PlainEnds(r) ==
    /\ r \in Plain /\ thread[r] \in {"asking", "nodes"}
    /\ thread' = [thread EXCEPT ![r] = "ended"]
    /\ UNCHANGED <<on_stage, stages, loop, queue, client, sent>>

-----------------------------------------------------------------------------
Init ==
    /\ thread = [r \in Requests |-> "idle"]
    /\ on_stage = NoOne
    /\ stages = [r \in Requests |-> 0]
    /\ loop = <<>>
    /\ queue = [s \in Streams |-> <<>>]
    /\ client = [s \in Streams |-> "none"]
    /\ sent = [s \in Streams |-> <<>>]

\* The thread of a stream goes on.
Work(s) == EmitRouting(s) \/ SetCallback(s) \/ _emit(s) \/ AskEnds(s) \/ PostSentinel(s)

\* Every request is over and nothing is left to deliver.
Finished ==
    /\ \A r \in Requests : thread[r] \in {"ended", "cancelled"}
    /\ \A s \in Streams : client[s] \in {"gone", "done"}
    /\ loop = <<>>
    /\ UNCHANGED vars

Next ==
    \/ \E s \in Streams : Connect(s) \/ Disconnect(s) \/ StartWork(s)
                          \/ Work(s) \/ Deliver(s)
    \/ \E r \in Plain : AskPlain(r) \/ SetCallback(r) \/ _emit(r) \/ PlainEnds(r)
    \/ RunCallback
    \/ Finished

Spec == Init /\ [][Next]_vars

\* The event loop runs its callbacks and resumes a generator that has an event,
\* the executor hands out free threads, and a thread goes on (what ask calls
\* has timeouts).
Fairness ==
    /\ WF_vars(RunCallback)
    /\ \A s \in Streams : /\ WF_vars(Deliver(s))
                          /\ WF_vars(StartWork(s))
                          /\ WF_vars(Work(s))
FairSpec == Spec /\ Fairness

-----------------------------------------------------------------------------
(* Properties *)

\* The types of the streams, their queues and the worker threads.
TypeOK ==
    /\ thread \in [Requests -> {"idle", "submitted", "cancelled", "routing",
                                "asking", "nodes", "finally", "ended"}]
    /\ on_stage \in Streams \cup {NoOne}
    /\ stages \in [Requests -> 0..MaxStages]
    /\ loop \in Seq([to : Streams, event : Events])
    /\ queue \in [Streams -> Seq(Events)]
    /\ client \in [Streams -> {"none", "open", "gone", "done"}]
    /\ sent \in [Streams -> Seq(Events)]

\* Where the outcomes stand among the events written to the client.
Outcomes(s) == {i \in DOMAIN sent[s] : sent[s][i].type \in {"answer", "error"}}

\* Whoever else is streaming, asking or gone, a client gets at most one outcome
\* and it is that of its own question; it is told "done" only after it, nothing
\* after that, and always when its generator ran to the end (work, events).
OneOwnOutcome ==
    \A s \in Streams :
        /\ \A i, j \in Outcomes(s) : i = j
        /\ \A i \in Outcomes(s) : sent[s][i].by = s
        /\ \A i \in DOMAIN sent[s] : sent[s][i].type = "done" =>
             i = Len(sent[s]) /\ Outcomes(s) # {}
        /\ client[s] = "done" => /\ sent[s] # <<>>
                                 /\ sent[s][Len(sent[s])].type = "done"

\* A client that stays gets its answer or an error, and the end, also when the
\* agent fails and when earlier clients went away and left their threads
\* running in a full pool.
StreamEnds == \A s \in Streams : client[s] = "open" ~> client[s] \in {"done", "gone"}

-----------------------------------------------------------------------------
(* What the documentation says, and the code does not do *)

\* ask_stream: "Stages are emitted as they complete, then the verified answer
\* once".  No stage follows the answer.
StagesThenAnswer ==
    \A s \in Streams : \A i, j \in DOMAIN sent[s] :
        sent[s][i].type = "stage" /\ sent[s][j].type = "answer" => i < j
=============================================================================
