# FinanceRAG: TLA+ specifications

FinanceRAG answers questions of a tax consultancy from an indexed corpus. This
directory models the parts of it that carry state across steps, threads and
processes, checks them with TLC on small instances, and proves the main safety
results with TLAPS for instances of any size.

    tlc -workers 2 -config MultiAgentRAG_turns.cfg MCMultiAgentRAG
    tlapm MultiAgentRAG_proofs.tla

`PROJECT.json` lists the components, the runs with their properties, a mutant
for each property (a plausible bug of the code under which TLC finds the
property violated), the source lines of every definition, the findings, the
hazards and the theorems.

## 1. The system

### Parts, their state and operations

| part | state | operations |
|---|---|---|
| multi-agent graph (`agent/orchestrator.py`, `agent/roles.py`) | an `AgentState` for each running question; the checkpoint of each conversation | `ask`, and the nodes supervisor, researcher, web search, answerability, analyst, critic, compliance |
| guardrails (`guardrails/`) | none | `check_input`, `check_output`, `AnswerabilityGate.check` |
| audit trail (`memory/audit.py`) | table `query_audit` | `write_audit`, `recent_audits` |
| conversation memory (`memory/threads.py`) | checkpoints in Postgres | built once per API task, with the agent |
| index jobs (`pipeline/jobs.py`, `pipeline/launcher.py`) | table `index_jobs`; ECS tasks or threads | create, dispatch, run, mark, reap, retry |
| index pipeline (`pipeline/index.py`, `ingestion/`, `chunking/`, `embeddings/`, `multimodal/`, `parsing/`) | rows of documents, chunks, entity links | ingest, chunk, embed, publish, link, invalidate |
| corpus store and retrieval (`store/`, `retrieval/`, `ranking/`) | the same rows | hybrid search, entity expansion, parent context, reranking |
| answer cache (`cache/semantic_cache.py`) | Redis: a version, exact entries, vectors, payloads, a set of ids | `get`, `set`, `bump_corpus_version` |
| single-pass agent (`agent/graph.py`) | none of its own | `ask` of the command line, behind the cache |
| API (`api/app.py`) | one agent; a queue for each stream | `/v1/ask`, `/v1/ask/stream`, `/v1/index`, `/v1/upload`, read-only endpoints |
| authentication, rate limits (`api/auth.py`, `api/ratelimit.py`) | key table, JWKS; counters in Redis or in the process | authenticate, require a scope, count and refuse |
| evaluation (`evaluation/`, `metrics/`, `scripts/run_eval.py`) | tables of evaluation runs | record, compare, gate |
| telemetry, configuration, migrations, infrastructure, web client | | |

### How they interact

The API runs in several tasks behind a load balancer. Each has one agent, shared
by all requests of its thread pools. A request runs the graph synchronously in a
thread; requests of one conversation meet in its checkpoints, all of them meet in
the progress callback of the agent, and their outcome goes to the audit table.
`/v1/index` and `/v1/upload` write a job row and start a worker: an ECS task, or
a thread of the API. Worker, dispatcher, reaper and operator write the same row.
The worker publishes into the store that questions read, and at the end bumps
the version of the answer cache that the command line reads and writes.

### What is hard here

* **State of an earlier turn.** `ask` resumes everything it does not overwrite
  from the checkpoint: the verdicts of one question are the defaults of the next.
* **Two writers of one row.** `run_job` has no guard on the status; a reaped but
  living worker and its retry write in any order.
* **Death between two steps.** A worker, a thread or the whole API disappears
  between two commits, and something has to notice.
* **Ambiguous failure.** A call that raised may have been carried out.
* **One callback for all.** Concurrent requests overwrite the progress callback.
* **A cache of several keys.** Storing takes four commands, invalidating two,
  and they interleave; the version is read twice by one ask.
* **Rows that only grow.** Index runs upsert by content-derived ids and delete
  nothing; they overlap, and die between transactions. A retrieval reads the same
  rows in three statements.
* **One statement, two views.** `link_entities` inserts and selects in one READ
  COMMITTED statement: the insert meets rows that its snapshot does not show.
* **A count that travels.** The rate limiter names its window by one clock,
  counts in another process, and the key expires by a third.
* **Model output.** Citations may be invented, verdicts arbitrary; each stage
  that fails open leaves the work to the next one.

### What makes each part correct

* Graph: what is delivered is a critic-approved draft of *this* question over
  evidence, or a refusal; flag and text agree; citations resolve; the critic cycle
  is bounded and ends; the audit row says what was delivered; conversations do not
  mix.
* Jobs: success means that the chunks are in the store; failure has a reason; 202
  means that a worker was started; a row that nobody works on and that stays
  running is one the next reap would fail.
* Stream: one outcome, one's own, then the end; a client that stays is served.
* Cache: an index run leaves no older answer behind; a hit answers the question.
* Store and retrieval: the last publish of a document is whole, and linked but for
  names that another run commits during the statement; a passage carries the
  section of its own revision unless its document is published meanwhile; only what
  is in the scope of the query clears the relevance floor.
* Gate: a served request is attributable to one credential; no more than the
  limit in a window; no client is refused early; Retry-After is honest.

## 2. The modules and the code

| module | models | composed of |
|---|---|---|
| `MultiAgentRAG` | orchestrator, roles, guardrails, checkpoints, audit | requests x threads x audit table |
| `IndexJobs` | job table, dispatcher, workers, reaper, retry, API handlers | jobs x workers x store (a flag per job) |
| `AskStream` | `/v1/ask/stream`, `/v1/ask`, event loop, executor, shared callback | requests x loop x one agent |
| `AnswerCache` | single-pass agent, answer cache, invalidation by `index_corpus` | asks x index runs x Redis |
| `CorpusStore` | document and chunk rows, entity links, `index_corpus`, chunk ids, `retrieve` with search, expansion, parent context, reranking | index runs x retrievals x tables |
| `RequestGate` | `authenticate`, `require`, start-up check, rate limiter | API processes x requests x Redis x clock |
| `Quota` | what the rate limiter promises | refined by `RequestGate` |
| `MC*` | instances for TLC | |
| `MultiAgentRAG_proofs`, `IndexJobs_proofs`, `AskStream_proofs`, `AnswerCache_proofs`, `CorpusStore_proofs`, `RequestGate_proofs` | inductive invariants and theorems | |

**MultiAgentRAG.** `st[r]` is the working `AgentState` of request `r`, `pc[r]`
the node it runs next, `ckpt` the latest checkpoint of each thread (or one-shot
id). Every node is one action: it reads its state, takes the verdicts of its
model calls from a set, writes the channels the code returns, saves the
checkpoint and follows the edge (`Advance`). `Comply` is the last node with the
output check, the audit insert and the response. `Fail` ends a request at any
node. Passages are ids. A draft is a kind of text, the request it was written
for and the set of ids it cites. Values that can go stale carry the request that
wrote them (`trace_by`, `search_by`, `reason_by`, `critic_by`); this is the only
addition to the state, besides the history variable `drafts`.

**IndexJobs.** `row[j]` is the row of `index_jobs`, `api[j]` the handler that
created it, `worker[w]` one run of `run_job`. Each UPDATE is a step, each worker
may be killed between steps, each statement may fail. `RunEcsTask` has three
outcomes: the task was started and the call returned, the task was started and
the call raised, and no task was started (refused or failed). The operator may run
any job again, whatever its status (`Retry`). The age of a row is a bit that time
sets (`Age`). `index_runner[j]` is the runner of a job, so that
both kinds meet in one instance.

**AskStream.** `thread[r]` is the thread that runs the request, `loop` the
callbacks handed to the event loop, `queue[s]` the queue of a stream, `sent[s]`
what its client got. `on_stage` is the one callback of the agent. The graph is a
number of nodes that report a stage.

**AnswerCache.** `ask[a]` is one invocation of `ask`, `version`, `exact`, `vec`,
`payload`, `ids` are the Redis keys, `index[i]` is an index run. Every Redis
command is an action. An answer is known by the ask that computed it. A key may
have expired when it is read (a read may miss what was stored; a later read of
the same key may still find it, which only adds behaviours). `raced` and the
fields `seen` and `after` are history.

**CorpusStore.** `documents`, `chunks`, `entities` and `links` are the tables,
`run[r]` one execution of `index_corpus`, `query[q]` one of `retrieve`. Each
transaction is an action: a row of `documents`, all chunks of a run. The links of
one chunk take two: `link_entities` starts the statement and takes its snapshot of
`entities`, `commit_links` commits. A name is resolved to its id when the snapshot
has it or the insert creates it; a name another run has committed in between is
neither, and is not linked (`Resolved`); `raced` remembers those. A chunk
id is document, position and head of the text, as `_chunk_id` hashes them, so a
revision that keeps its head overwrites the row of the one before and one that
does not leaves it behind. Scores only decide an order, and the model allows
every order; what the floor compares, the raw cosine, is a bit of the hit.
`last`, `disturbed` and `current` are history.

**RequestGate.** `task[t]` is a process with its module globals (`client` and
`failed` for `_redis_client` and `_redis_failed`, `counts` for `_LocalWindows`),
`req[r]` a request. `Arrive` is authentication, scopes, the reading of the clock
and the choice of a backend, which read nothing that is shared but the globals;
`Ping`, `RedisCount` and `LocalCount` follow, each at its own time. Redis and the
identity provider answer or fail at every call; Redis may have counted before it
fails. The clock counts half seconds because `Retry-After` is cut to whole ones.
`Promise` is `Quota` with `admitted[r]` mapped to the bucket of a request that
Redis counted in time and let through; `QuotaKept` says that every step of the
gate is a step of `Quota` or none.

## 3. The runs

| run | instance | shows |
|---|---|---|
| `turns` | 2 requests, 1 thread or none, 1 retry, no web | `OnlyVerifiedShips`, `RefusalMatchesText`, `UnverifiedOnlyWhenSpent`, `AuditMatchesDelivery`, `ConversationsIsolated` with turns in sequence and overlapping, every node failing |
| `evidence` | 1 request, all routes, 2 retries, rich citations | `CitationsGrounded`, `FabricationFlagged`, `DraftBudget`, `WebEvidenceKept`, that every node brings the question nearer its end (`NodesDescend`), and that it gets there (`EveryAskEnds`) |
| `jobs` | 2 jobs, one in an ECS task and one in a thread; 2 workers | `SucceededIsPublished`, `FailedSaysWhy`, `AcceptedIsStarted`, `ExitZeroIsPublished`, and `AbandonedIsReapable`: a row that is running for ever has no living worker, and a reap would fail it |
| `streams` | 2 streams, 1 plain ask, 1 thread | `OneOwnOutcome`, `StreamEnds` |
| `cache` | 3 asks, 2 similar queries, 1 index run | `InvalidationHolds`, `HitAnswersQuestion` |
| `corpus` | 2 runs of 2 organisations, 2 documents of 3 chunks in 2 revisions, 1 retrieval; both documents mention the same entity | `PublishIsWhole`, `LinksComplete`, `ExcerptOfSameRevision`, `FloorClearedInScope` |
| `limits` | 3 requests, 2 processes, 5 configurations, 2 windows | the refinement `QuotaKept`, `LocalMinuteLimit`, `NoEarlyRefusal`, `RetryReachesNextWindow`, `ServedIsAttributable` |

The remaining runs end in a violation: TLC shows a behaviour of the code that
contradicts a statement of the repository.

| run | statement | what the code does |
|---|---|---|
| `refusal_reason` | the audit row answers "what did the system tell this client" | the row of a later turn carries the `unanswerable_reason` an earlier one left in the checkpoint |
| `queued` | "a job nobody is running must not look pending" | a worker killed before it marks the row leaves it queued for ever; the reaper looks at running rows only |
| `stages` | "Stages are emitted as they complete, then the verified answer once" | nodes of another request call this stream's callback, after its answer too |
| `cache_fresh` | "Invalidate/semantic-reset answer cache when corpus changes" | an ask that retrieved before an index run stores its answer under the new version, or re-adds its old id after the ids were deleted |
| `scope` | "`org_id` is an equality filter [...] never softened into a ranking hint" | the entity expansion has no scope predicate: passages of another organisation are among the results |

`cache` and `cache_fresh` belong together: `InvalidationHolds` is what the
protocol does give. Weaker provisos fail as well: it is not enough that the
older asks are over when the version is bumped, since an ask that began before
the run published can overwrite the payload of one that began after it.

Other disagreements met while modelling, present in the models as behaviours but
without a run of their own:

* `critic_reasons` is not reset between turns: the analyst of a later turn is
  told why a draft of an earlier one was rejected.
* With `ANSWERABILITY_CHECK_ENABLED=false` an empty retrieval skips the citation
  check, and a draft with invented citations is delivered unflagged. The run
  `evidence` and the theorem `FabricationIsFlagged` therefore have the setting on.
* `link_entities` drops a link, without an error, when another run commits a name
  of the chunk for the first time while the statement is under way: ON CONFLICT DO
  NOTHING waits and returns no row for the name, and the UNION SELECT does not see
  it in its snapshot (`pgvector_store.py:258-272`). The docstring calls the method
  a port of `MERGE (c)-[:MENTIONS]->(e)` (line 248), and `entity_links` counts the
  name all the same (`index.py:77`). `LinksComplete` says that nothing else is
  dropped; without its second disjunct TLC finds the dropped link.
* "The next container start reaps anything a killed worker abandoned"
  (`docs/AWS_AND_TERRAFORM.md:474-475`). A container start reaps only rows that
  were marked running `stale_job_minutes` (60) ago (`api/app.py:65`); a younger
  one waits for another start or for `reap-jobs`, which nothing schedules. So
  `AbandonedIsReapable` says no more than that a reap would fail the row.
* The reaper fails the row of a slow but living worker, which then goes on.
* A success can be overwritten: `_mark` has no guard, and a second worker of the
  same job that fails writes "failed" over the "succeeded" of the first.
* Search, expansion and parent lookup share no snapshot: a document published
  between them gives a passage the section text of another revision.
  `ExcerptOfSameRevision` leaves out exactly the documents so `disturbed`.
* A `run_task` call that times out after ECS accepted the task answers 503 and
  marks the row failed while the task runs.
* The error column is never cleared: a job that succeeds on a retry keeps the
  error of the first attempt.
* `run-job` takes its exit code from the row, which another worker may have
  written. `ExitZeroIsPublished` is what remains true.
* The key of an uploaded object is opened as a local path and the job fails for
  want of its file, although `api/app.py:335` says that the indexing task stages
  it; `resolve_upload_paths` is called from nowhere.
* A count that is under way when its window ends can find the key of Redis
  expired and start again at one, so a window can let a few late requests through
  beyond its limit. `QuotaKept` is about the counts that arrive in time.
* A purge of the local counters, set off by a read or an ask, drops the index
  counters of the hour that is running. `LocalMinuteLimit` is about the shortest
  windows, which the purge respects. The counters are not "bounded by the number
  of live credentials" (`ratelimit.py:81`): the key has the window in it.
* All tokens have the `key_id` "jwt": everyone who signs in with the identity
  provider shares one counter, although limits are "per credential".
* A token with a scope the API does not know is answered with 500: the
  `ValueError` of `_parse_scopes` is not caught in `_authenticate_jwt`.
* A client that waits exactly `Retry-After` may be back up to a second before the
  next window, and be refused again.
* Nothing removes the chunks of a replaced revision, and `superseded_date` is
  never written: retrieval goes on finding them (`current` tells them apart).
* `task.cancel()` on disconnect does not stop a thread that has begun.

### Bounds, and why they are enough

* Two requests, one conversation: staleness needs an earlier turn and a later
  one; overlap needs two. A third turn resumes what a second one left, and no
  property relates three. One retry is enough to tell "resets" from "keeps".
* One request with two retries for evidence: the off-by-one of the budget and the
  loss of evidence across rounds need two rounds. Citations range over a retrieved
  passage, an unretrieved one, a web page and an invented id.
* Web search is off in `turns` for size; `evidence` has it.
* Two jobs and two workers: a dispatched worker and its retry overlap, or a
  worker of each kind; no property relates more than two writers of a row.
* Two streams and one thread, so that one has to wait; a plain ask, because it
  stores `None`; `MaxStages` bounds the stages a graph run reports.
* Three asks around one index run: one that stored before, one that stores
  meanwhile, one that reads after. Versions are bounded by the number of runs.
* Two index runs and two documents: overlap, re-indexing and takeover by another
  organisation need two runs, the expansion across documents two of them. The
  second revision keeps the heads of the section and of its first piece and
  changes that of the other, so that one id is overwritten and one left behind,
  and it moves the only entity from one piece to the other. Both documents mention
  that entity, so two runs can race for its name. The documents are of different
  service lines and the question is about one of them, as of a date before the
  first revision's: the search then finds passages of one document in its second
  revision, and the others come by the expansion alone. `retrieval_top_k` is 2 and
  `rerank_top_k` 1, so that both cuts happen.
* Three requests with limits of 1 and windows of one and two seconds: one that
  uses the window up, one that disturbs (fails, purges, comes late) and one that
  is judged. `purge_limit` 1 makes the second key purge; `MaxClock` 4 is two
  windows of the short kind; `MaxDelay` 1 lets a count cross the end of a window.
  The configurations: keys and tokens with Redis, keys without Redis, nothing to
  authenticate with, a secret given twice, and development without limiter.

Symmetry is used for interchangeable asks, requests and processes in runs without
liveness properties; the documents of `corpus` and `scope` differ in their service
line, and those runs have none. `cache`, `corpus` and `limits` have no deadlock
check: once all asks, runs and requests of the instance are used up and the clock
stands still, the system stops.

### Fairness

* `MultiAgentRAG`: weak fairness of every node of a request that was asked. Model
  and database calls have timeouts and nodes wait for nothing else.
* `IndexJobs`: weak fairness of the steps of a living worker (the same reason) and
  of the clock. None of the reaper: it runs when a container starts and as a manual
  command, and nothing in `infra` schedules either. Nothing says that an operator
  retries or that anyone is killed.
* `AskStream`: weak fairness of the event loop, of the generator when it has an
  event, of the executor when a thread is free, and of a thread that has begun.
  Clients need not leave, plain asks need not end.

## 4. What is proved

For every value of the constants that satisfies the named assumptions:
`RequestsAssumption`, `IdsAssumption`, `SettingsAssumption` (ids of requests,
threads, passages and inventions are apart, results are passages, settings are
of their type), `JobsAssumption`, `CorpusAssumption` (a file has a revision,
every revision has heads, mentions and a date, limits are numbers),
`StreamsAssumption` (streams and plain questions are apart, the pool has a
thread), `AsksAssumption` (there are finitely many index runs, similarity is a
relation on queries) and `GateAssumption` (settings are of their type, windows
last, a call to Redis is shorter than any window, there are finitely many
requests, and at least one credential and one route for a request to have).

`MultiAgentRAG_proofs`: `TypeCorrect`, `VerifiedDelivery`, `RefusalIsText`,
`GroundedDelivery`, `FabricationIsFlagged`, `BudgetKept`, `BudgetSpent`. None of
the properties is inductive: they speak of delivered responses, and what is
delivered depends on what the nodes before left in the state, including what was
resumed. `IInv` adds for every node what holds of the working state when the
request stands there (`NodeOK`): after the supervisor the channels that decide
the outcome are this request's own, before the analyst there is evidence or the
gate is off, before the critic the draft is this request's, before compliance
the state is a refusal with its text or an approved draft; and the number of
drafts is tied to `critic_attempts`. `DeliveryOK` says that a response is the
image of such a state. Checkpoints need nothing but their type: the proof shows
that nothing a checkpoint can hold survives the supervisor to decide an outcome.
There is one lemma for each node, on `MoveKeepsInv`, which reduces a step of one
request to the two facts about that request.

`IndexJobs_proofs`: `TypeCorrect`, `SuccessIsPublished`, `FailureHasReason`,
`AcceptedHasWorker`, `ExitZeroHasChunks`. `IInv` adds that a worker past
publishing has its job published (`WorkerOK`), that rows are consistent with the
store (`RowOK`) and that a launched job has a worker (`Started`). Since
`published` only grows and a worker keeps its job, the facts survive whatever
other workers do to the row, which is the argument why the missing guard of
`run_job` does no harm here.

`CorpusStore_proofs`: `TypeCorrect`, `PublishWhole`, `LinksAreComplete`,
`ExcerptsMatch`, `FloorInScope`. `PublishIsWhole` compares the table with what the
last publisher has read, so `IInv` adds that this run has begun and reads nothing
again (`LastBegan`). Completeness of the links is a fact about each run, whoever
published last: what it has to link is linked, raced or still in `todo` (`RunOK`),
and `links` and `raced` only grow. A statement that is under way has a snapshot of
`entities`, and rows of `entities` are never removed: at its commit a name is in
the snapshot, new, or committed by another run since and then raced
(`CommitLinksOK`). For a retrieval between two statements, `QueryOK` says
that a passage which was current when read and whose document has not been
published since is of the revision published last (`OfLast`), which is what the
lookup of its section then finds; and that whatever has a cosine was found by the
search in scope, so the expansion, which is not limited to the scope, cannot lift
a refusal. `OneRun` and `OneQuery` reduce a step to the run or the retrieval that
takes it; `PublishDisturbs` is the one place where the two meet.

Four more results about the graph rest on `IInv`:

* `AuditKept`. `AuditMatchesDelivery` is inductive once `IInv` holds: a request
  that stands at compliance has neither row nor response, and the row compliance
  writes is made from the state it leaves (`RowSaysFinal`). Rows of other requests
  are about requests that are over, which no step revives.
* `Isolation`. What has to be added is that the checkpoint of a conversation
  carries only what requests of that conversation wrote, and that they were asked
  (`TagsOK`). `StepWrites` says of every node that what it writes is its own.
* `WebKept`, an action property, from the same `StepWrites`: only the supervisor
  drops web passages.
* `Descent`: every node lowers `Distance`, which is at most six nodes for every
  retry. It is the part of termination that needs no fairness, for any budget;
  that nodes are taken at all is what `EveryAskEnds` adds, for the instance.

`AskStream_proofs`: `TypeCorrect`, `OneOutcome`. An event is on its way through
three queues: the loop's, the stream's and what was written. `StreamOK` says that
the outcome of a stream stands in at most one of them, once, from the moment its
thread is in the `finally` clause; that the sentinel is behind it wherever both
are; and that "done" is last. Facts are about the positions of events (`Pos`,
`LPos`); `AppendPos`, `TailPos` and `ShiftKeeps` say what putting an event at the
end and taking one off the head does to them. Stages of other requests can be
anywhere and disturb nothing.

`AnswerCache_proofs`: `TypeCorrect`, `InvalidationWorks`, `HitsAnswer`. `IInv`
ties what stands under a key to the ask that computed it (`Entries`): a stored
answer is one, never a refusal, to the query of its id. For a run that published
while no ask was between its retrieval and its end it says what the two commands of the invalidation have
done (`Invalidated`): after the INCR the older answers are under an older
version, after the DEL no id leads to one. `StoreOK` and `LookupOK` carry this
through the four commands of an ask that stores and the reads of one that looks
up. `version` is at most the number of runs past their INCR, which is what makes
it bounded, and why there have to be finitely many.

`RequestGate_proofs`: `TypeCorrect`, `LocalLimit`, `RefusalsNotEarly`,
`RetryAtNextWindow`, `ServedAttributable` and the refinement `QuotaImplemented`.
`RedisOK` and `LocalOK` hold each counter between two numbers: while the window
lasts it is at least the number of requests it let through, so that the limit
holds; and it is at most the number of requests let through at all, until that
number has reached the limit, so that nobody is refused early. The local ones need
that a purge spares the shortest windows. `ReqOK` ties a request to its principal,
its bucket and the time it read the clock, `RefusalOK` a refusal to the requests
that used the window up. For the refinement, a step either admits the one request
Redis has counted in time, and then the limit has room for it, or leaves
`admitted` as it is.

Only model-checked: the liveness properties `EveryAskEnds`,
`AbandonedIsReapable` and `StreamEnds`, because fairness and ENABLED are beyond
the prover. Every invariant and action property of the passing runs is stated by a theorem.

## 5. What is not modelled, and the plan

Text processing (parsing, captioning, prompt building, the patterns of the
guardrails) is abstracted to its outcomes. Telemetry, configuration, migrations
and infrastructure hold no state the properties depend on. Reads that change
nothing (health, job listing, audit listing) are left out. Loss of the whole
content of Redis is not modelled; after it the version restarts at 0 and a bump
can reach a version that an ask in flight has just stored under.

The splitting of text into chunks, the fusion of scores and the evaluation
metrics are arithmetic and text processing of one process; the models take every
outcome they can have. Caption chunks of images and the diagnostic searches of
the store are left out of `CorpusStore`. The web client and the evaluation
harness are not modelled.

Next, in this order:

1. Proofs: the measures behind `AbandonedIsReapable` and `StreamEnds`, as `Descent`
   is the one behind `EveryAskEnds`.
2. Conversation memory across API tasks with and without a checkpointer, and the
   race of the first requests.
3. The session of the web client: sign-in, expiry and reload while a question is
   under way.
4. Pure algorithms, against reference definitions: rank fusion, packing of
   windows, splitting at tables, retrieval metrics, the regression gate.
