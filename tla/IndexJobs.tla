------------------------------- MODULE IndexJobs -------------------------------
(***************************************************************************)
(* Background indexing: the index_jobs table (pipeline/jobs.py), the       *)
(* dispatch of a job to a worker (pipeline/launcher.py), the worker itself *)
(* (run_job around pipeline/index.py, started by the run-job command of    *)
(* cli.py), the reaper, and the API handlers /v1/index and /v1/upload.     *)
(*                                                                         *)
(* A worker is one process, or with the inline runner one thread of the    *)
(* API.  Every UPDATE of a row is a step of its own, and anything may be   *)
(* killed between two steps.  A statement may fail; a call to ECS may fail *)
(* after the task was in fact started.  An operator may run any job again. *)
(* Time is one bit of a row: whether its started_at is older than the      *)
(* reaper's cutoff.                                                        *)
(***************************************************************************)
EXTENDS Naturals

CONSTANTS
    Jobs,          \* the jobs ever requested
    Workers,       \* the worker processes ever started, one run each
    NoJob,         \* the job of a worker that was not started
    index_runner   \* index_runner[j]: "ecs" or "inline", the setting of the
                   \* API process that dispatches j

ASSUME JobsAssumption ==
    /\ NoJob \notin Jobs
    /\ index_runner \in [Jobs -> {"ecs", "inline"}]

VARIABLES
    row,          \* row[j]: the index_jobs row of j
    source,       \* source[j]: server-side paths, or the key of an upload
    api,          \* api[j]: where the request handler that created j stands
    reply,        \* reply[j]: the status code its caller received
    worker,       \* worker[w]: the run of worker w
    published     \* the jobs whose chunks are committed to the store

vars == <<row, source, api, reply, worker, published>>

Statuses == {"absent", "queued", "running", "succeeded", "failed"}
Errors == {"none", "dispatch", "missing", "run", "abandoned"}
Row == [status : Statuses, error : Errors, attempts : Nat, stale : BOOLEAN]

\* Where run_job stands; "report" is the run-job command reading the row back.
Live == {"mark_running", "ingest", "publish", "bump",
         "mark_succeeded", "mark_failed", "report"}
\* A worker: an ECS task, a thread of the API or a command in a shell.  "exit0"
\* and "exit1" are its exit codes and err is what it is about to record.
Worker == [pc : Live \cup {"off", "exit0", "exit1", "killed"},
           job : Jobs \cup {NoJob}, host : {"task", "api", "shell"},
           err : Errors]

Alive(w) == worker[w].pc \in Live
Start(j, host) == [pc |-> "mark_running", job |-> j, host |-> host,
                   err |-> "none"]

-----------------------------------------------------------------------------
(* The table *)

\* _mark: the columns a status change writes.  An error is written only when
\* one is passed, and never cleared.
\* Mutant: a status the schema does not know.
Marked_Misspelt(old, status, error) ==
    [status   |-> IF status = "succeeded" THEN "success" ELSE status,
     error    |-> IF error = "none" THEN old.error ELSE error,
     attempts |-> IF status = "running" THEN old.attempts + 1 ELSE old.attempts,
     stale    |-> IF status = "running" THEN FALSE ELSE old.stale]
Marked(old, status, error) ==
    [status   |-> status,
     error    |-> IF error = "none" THEN old.error ELSE error,
     attempts |-> IF status = "running" THEN old.attempts + 1 ELSE old.attempts,
     stale    |-> IF status = "running" THEN FALSE ELSE old.stale]

_mark(j, status, error) == row' = [row EXCEPT ![j] = Marked(@, status, error)]

\* reap_stale_jobs: what it makes of one row.
\* Mutants: the reason is not recorded; only the first attempt is reaped.
Reaped_Silent(old) ==
    IF old.status = "running" /\ old.stale
    THEN [old EXCEPT !.status = "failed"] ELSE old
Reaped_FirstOnly(old) ==
    IF old.status = "running" /\ old.stale /\ old.attempts = 1
    THEN [old EXCEPT !.status = "failed",
                     !.error = IF @ = "none" THEN "abandoned" ELSE @]
    ELSE old
Reaped(old) ==
    IF old.status = "running" /\ old.stale
    THEN [old EXCEPT !.status = "failed",
                     !.error = IF @ = "none" THEN "abandoned" ELSE @]
    ELSE old

reap_stale_jobs == row' = [j \in Jobs |-> Reaped(row[j])]

-----------------------------------------------------------------------------
(* The API *)

\* POST /v1/index names paths; POST /v1/upload has first stored the bytes and
\* names their key.  create_job commits the row.
CreateJob(j, from) ==
    /\ row[j].status = "absent"
    /\ row' = [row EXCEPT ![j].status = "queued"]
    /\ source' = [source EXCEPT ![j] = from]
    /\ api' = [api EXCEPT ![j] = "created"]
    /\ UNCHANGED <<reply, worker, published>>

\* _run_ecs_task: the task starts and the call returns its ARN, the task starts
\* and the call fails (a timeout), or ECS refuses it.
RunEcsTask(j) ==
    /\ api[j] = "created" /\ index_runner[j] = "ecs"
    /\ \/ \E w \in Workers :
            /\ worker[w].pc = "off"
            /\ worker' = [worker EXCEPT ![w] = Start(j, "task")]
            /\ \E seen \in {"launched", "raised"} :
                 api' = [api EXCEPT ![j] = seen]
       \/ api' = [api EXCEPT ![j] = "raised"] /\ UNCHANGED worker
    /\ UNCHANGED <<row, source, reply, published>>

\* The rest of dispatch_index_job and of its handler: 202 for a task that was
\* started; a failed dispatch is recorded and answered 503, or 500 when the
\* row cannot be updated either.
\* Mutant: a failed dispatch is logged and forgotten.
Answer_Optimistic(j) ==
    /\ api[j] \in {"launched", "raised"}
    /\ reply' = [reply EXCEPT ![j] = "202"]
    /\ UNCHANGED row
Answer(j) ==
    \/ /\ api[j] = "launched"
       /\ reply' = [reply EXCEPT ![j] = "202"]
       /\ UNCHANGED row
    \/ /\ api[j] = "raised"
       /\ reply' = [reply EXCEPT ![j] = "503"]
       /\ _mark(j, "failed", "dispatch")
    \/ /\ api[j] = "raised"
       /\ reply' = [reply EXCEPT ![j] = "500"]
       /\ UNCHANGED row

Dispatched(j) ==
    /\ Answer(j)
    /\ api' = [api EXCEPT ![j] = "done"]
    /\ UNCHANGED <<source, worker, published>>

\* The inline runner: a daemon thread of the API.
StartThread(j) ==
    /\ api[j] = "created" /\ index_runner[j] = "inline"
    /\ \E w \in Workers :
         /\ worker[w].pc = "off"
         /\ worker' = [worker EXCEPT ![w] = Start(j, "api")]
    /\ api' = [api EXCEPT ![j] = "done"]
    /\ reply' = [reply EXCEPT ![j] = "202"]
    /\ UNCHANGED <<row, source, published>>

\* The API container is replaced: its requests and its threads are gone, and
\* the new one reaps before it serves, unless the database refuses.
ApiRestarts ==
    /\ api' = [j \in Jobs |->
                IF api[j] \in {"created", "launched", "raised"}
                THEN "lost" ELSE api[j]]
    /\ worker' = [w \in Workers |->
                IF Alive(w) /\ worker[w].host = "api"
                THEN [worker[w] EXCEPT !.pc = "killed"] ELSE worker[w]]
    /\ reap_stale_jobs \/ UNCHANGED row
    /\ UNCHANGED <<source, reply, published>>

-----------------------------------------------------------------------------
(* A worker: run_job *)

Goto(w, next) == worker' = [worker EXCEPT ![w].pc = next]
Raise(w, error) ==
    worker' = [worker EXCEPT ![w].pc = "mark_failed", ![w].err = error]

\* The row is read and marked running before the try: a failing statement ends
\* the process with a traceback and leaves the row alone.
MarkRunning(w) ==
    /\ worker[w].pc = "mark_running"
    /\ \/ _mark(worker[w].job, "running", "none") /\ Goto(w, "ingest")
       \/ UNCHANGED row /\ Goto(w, "exit1")
    /\ UNCHANGED <<source, api, reply, published>>

\* index_corpus up to the embeddings: the paths are opened on this machine's
\* file system.  Paths may or may not name files there, the key of an upload
\* never does, and nothing ingested is an error; parsing or the embedding
\* service may fail too.
\* Mutant: nothing ingested is nothing to do.
Read_AcceptsNothing(w) ==
    \/ source[worker[w].job] = "paths" /\ Goto(w, "publish")
    \/ Raise(w, "run")
    \/ Goto(w, "bump")
Read(w) ==
    \/ source[worker[w].job] = "paths" /\ Goto(w, "publish")
    \/ source[worker[w].job] = "paths" /\ Raise(w, "run")
    \/ Raise(w, "missing")

Ingest(w) ==
    /\ worker[w].pc = "ingest"
    /\ Read(w)
    /\ UNCHANGED <<row, source, api, reply, published>>

\* upsert_document, upsert_chunks and link_entities, which may fail before or
\* after the chunks are committed.
Publish(w) ==
    /\ worker[w].pc = "publish"
    /\ \/ published' = published \cup {worker[w].job} /\ Goto(w, "bump")
       \/ published' = published \cup {worker[w].job} /\ Raise(w, "run")
       \/ UNCHANGED published /\ Raise(w, "run")
    /\ UNCHANGED <<row, source, api, reply>>

\* bump_corpus_version, the last call of index_corpus: it returns, also when
\* there is no Redis, or raises, when Redis goes away under it.
Invalidate(w) ==
    /\ worker[w].pc = "bump"
    /\ \/ Goto(w, "mark_succeeded")
       \/ Raise(w, "run")
    /\ UNCHANGED <<row, source, api, reply, published>>

\* The success is recorded inside the try: when that fails, the except clause
\* records a failure.
MarkSucceeded(w) ==
    /\ worker[w].pc = "mark_succeeded"
    /\ \/ _mark(worker[w].job, "succeeded", "none") /\ Goto(w, "report")
       \/ UNCHANGED row /\ Raise(w, "run")
    /\ UNCHANGED <<source, api, reply, published>>

\* The except clause; a failing statement leaves run_job with the row running.
MarkFailed(w) ==
    /\ worker[w].pc = "mark_failed"
    /\ \/ _mark(worker[w].job, "failed", worker[w].err) /\ Goto(w, "report")
       \/ UNCHANGED row /\ Goto(w, "exit1")
    /\ UNCHANGED <<source, api, reply, published>>

\* run-job reads the row again and exits 0 when it says succeeded.  (A thread
\* of the API just ends: nobody reads its exit code.)
\* Mutant: the command succeeds whenever run_job returns.
ExitCode_Returned(w) == "exit0"
ExitCode(w) ==
    IF row[worker[w].job].status = "succeeded" THEN "exit0" ELSE "exit1"

Report(w) ==
    /\ worker[w].pc = "report"
    /\ Goto(w, ExitCode(w))
    /\ UNCHANGED <<row, source, api, reply, published>>

WorkerStep(w) ==
    \/ MarkRunning(w) \/ Ingest(w) \/ Publish(w) \/ Invalidate(w)
    \/ MarkSucceeded(w) \/ MarkFailed(w) \/ Report(w)

\* Out of memory, a stopped task: no handler runs.
Kill(w) ==
    /\ Alive(w) /\ worker[w].host # "api"
    /\ Goto(w, "killed")
    /\ UNCHANGED <<row, source, api, reply, published>>

-----------------------------------------------------------------------------
(* Operators and time *)

\* An operator runs `finance-rag run-job` on a job, whatever its row says:
\* neither the command nor run_job looks.
Retry(w, j) ==
    /\ worker[w].pc = "off"
    /\ row[j].status # "absent"
    /\ worker' = [worker EXCEPT ![w] = Start(j, "shell")]
    /\ UNCHANGED <<row, source, api, reply, published>>

\* `finance-rag reap-jobs`.
ReapCommand ==
    /\ reap_stale_jobs
    /\ UNCHANGED <<source, api, reply, worker, published>>

\* An hour has passed since the job was marked running.
Age(j) ==
    /\ row[j].status = "running" /\ ~row[j].stale
    /\ row' = [row EXCEPT ![j].stale = TRUE]
    /\ UNCHANGED <<source, api, reply, worker, published>>

-----------------------------------------------------------------------------
Init ==
    /\ row = [j \in Jobs |-> [status |-> "absent", error |-> "none",
                              attempts |-> 0, stale |-> FALSE]]
    /\ source = [j \in Jobs |-> "paths"]
    /\ api = [j \in Jobs |-> "idle"]
    /\ reply = [j \in Jobs |-> "none"]
    /\ worker = [w \in Workers |-> [pc |-> "off", job |-> NoJob, host |-> "task",
                                    err |-> "none"]]
    /\ published = {}

Next ==
    \/ \E j \in Jobs :
         \/ \E from \in {"paths", "upload"} : CreateJob(j, from)
         \/ RunEcsTask(j) \/ Dispatched(j) \/ StartThread(j) \/ Age(j)
    \/ \E w \in Workers :
         \/ WorkerStep(w) \/ Kill(w)
         \/ \E j \in Jobs : Retry(w, j)
    \/ ApiRestarts \/ ReapCommand

Spec == Init /\ [][Next]_vars

\* A live worker goes on (its calls time out) and time passes.  Nothing says that
\* anybody reaps: no schedule runs the command, and a container need not be
\* replaced.
Fairness ==
    /\ \A w \in Workers : WF_vars(WorkerStep(w))
    /\ \A j \in Jobs : WF_vars(Age(j))
FairSpec == Spec /\ Fairness

-----------------------------------------------------------------------------
(* Properties *)

\* The types of the job rows, the dispatches and the workers: among them that
\* the status of a row is one of the four _mark is called with.
TypeOK ==
    /\ row \in [Jobs -> Row]
    /\ source \in [Jobs -> {"paths", "upload"}]
    /\ api \in [Jobs -> {"idle", "created", "launched", "raised", "done", "lost"}]
    /\ reply \in [Jobs -> {"none", "202", "503", "500"}]
    /\ worker \in [Workers -> Worker]
    /\ published \subseteq Jobs

\* A row says succeeded only when the chunks of the job are in the store,
\* whichever worker said so and however many of them, reaped or retried, work
\* on the same row (run_job around index_corpus).
SucceededIsPublished ==
    \A j \in Jobs : row[j].status = "succeeded" => j \in published

\* A failed row says why, whoever failed it: the dispatcher, the worker or the
\* reaper ("leaving a job stuck in running with nothing to diagnose").
FailedSaysWhy ==
    \A j \in Jobs : row[j].status = "failed" => row[j].error # "none"

\* 202 is answered only when a worker was started for the job ("an endpoint
\* that always reports success and never delivers" is what it replaces).
AcceptedIsStarted ==
    \A j \in Jobs : reply[j] = "202" => \E w \in Workers : worker[w].job = j

\* run-job exits 0 only when the chunks of its job are in the store, although
\* it takes the exit code from a row that other workers write too ("so the ECS
\* task, and any pipeline waiting on it, sees the failure", cli.py).
ExitZeroIsPublished ==
    \A w \in Workers : worker[w].pc = "exit0" => worker[w].job \in published

\* A row that stays running is in the end one the reaper will fail whenever it
\* is next run, and nobody's work: kills, failures that could not be recorded,
\* retries and reaps of living workers leave no other row behind
\* (reap_stale_jobs; "visibly retryable rather than silently stuck").
AbandonedIsReapable ==
    \A j \in Jobs :
        <>[](row[j].status = "running" =>
                /\ \A w \in Workers : worker[w].job = j => ~Alive(w)
                /\ Reaped(row[j]).status = "failed")

-----------------------------------------------------------------------------
(* What the documentation says, and the code does not do *)

\* launcher.py:114-115: "a job nobody is running must not look pending".
QueuedIsAttended ==
    \A j \in Jobs : row[j].status = "queued" =>
        \/ api[j] \in {"created", "launched", "raised"}
        \/ \E w \in Workers : worker[w].job = j /\ Alive(w)
=============================================================================
