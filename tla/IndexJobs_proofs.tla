---------------------------- MODULE IndexJobs_proofs ----------------------------
(***************************************************************************)
(* Proofs about IndexJobs, for any number of jobs and of workers and for   *)
(* both runners.                                                           *)
(***************************************************************************)
EXTENDS IndexJobs, TLAPS

\* What holds of one worker x when p is the set of published jobs: it works on
\* a job, it reaches the end of index_corpus, or exits 0, only past the commit, and
\* what it is about to record as a failure has a reason.
WorkerOK(x, p) ==
    /\ x.pc # "off" => x.job \in Jobs
    /\ x.pc = "off" => x.job = NoJob
    /\ x.pc \in {"bump", "mark_succeeded", "exit0"} => x.job \in p
    /\ x.pc = "mark_failed" => x.err # "none"

\* What holds of one row o of job j.
RowOK(o, j, p) ==
    /\ o.status = "succeeded" => j \in p
    /\ o.status = "failed" => o.error # "none"

\* A worker was started for j.
Started(j, ws) == \E w \in Workers : ws[w].job = j

\* The inductive invariant.
IInv ==
    /\ TypeOK
    /\ \A w \in Workers : WorkerOK(worker[w], published)
    /\ \A j \in Jobs : RowOK(row[j], j, published)
    /\ \A j \in Jobs : api[j] = "launched" \/ reply[j] = "202"
                         => Started(j, worker)

-----------------------------------------------------------------------------
(* The pieces of the state one by one *)

\* A new worker is well-formed.
LEMMA StartOK ==
    ASSUME NEW j \in Jobs, NEW h \in {"task", "api", "shell"}, NEW p
    PROVE  Start(j, h) \in Worker /\ WorkerOK(Start(j, h), p) /\ Start(j, h).job = j
  BY DEF Start, Worker, Live, Errors, WorkerOK

\* A status change that is allowed leaves a well-formed row.
LEMMA MarkedOK ==
    ASSUME NEW o \in Row, NEW j \in Jobs, NEW p,
           NEW s \in Statuses, NEW e \in Errors,
           s = "succeeded" => j \in p,
           s = "failed" => e # "none"
    PROVE  Marked(o, s, e) \in Row /\ RowOK(Marked(o, s, e), j, p)
<1> DEFINE err == IF e = "none" THEN o.error ELSE e
<1>1. ASSUME NEW n \in Nat, NEW b \in BOOLEAN,
             Marked(o, s, e) = [status |-> s, error |-> err,
                                attempts |-> n, stale |-> b]
      PROVE  Marked(o, s, e) \in Row /\ RowOK(Marked(o, s, e), j, p)
  BY <1>1 DEF Row, RowOK
<1>2. o.attempts \in Nat /\ o.attempts + 1 \in Nat /\ o.stale \in BOOLEAN
  BY DEF Row
<1>3. CASE s = "running"
  <2>1. Marked(o, s, e) = [status |-> s, error |-> err,
                           attempts |-> o.attempts + 1, stale |-> FALSE]
    BY <1>3 DEF Marked
  <2> HIDE DEF err
  <2> QED
    BY <1>1, <1>2, <2>1
<1>4. CASE s # "running"
  <2>1. Marked(o, s, e) = [status |-> s, error |-> err,
                           attempts |-> o.attempts, stale |-> o.stale]
    BY <1>4 DEF Marked
  <2> HIDE DEF err
  <2> QED
    BY <1>1, <1>2, <2>1
<1> QED
  BY <1>3, <1>4

\* Reaping keeps a row well-formed.
LEMMA ReapedOK ==
    ASSUME NEW o \in Row, NEW j \in Jobs, NEW p, RowOK(o, j, p)
    PROVE  Reaped(o) \in Row /\ RowOK(Reaped(o), j, p)
<1>1. CASE o.status = "running" /\ o.stale
  BY <1>1 DEF Reaped, Row, RowOK, Statuses, Errors
<1>2. CASE ~(o.status = "running" /\ o.stale)
  BY <1>2 DEF Reaped
<1> QED
  BY <1>1, <1>2

\* Publishing more breaks neither a worker nor a row.
LEMMA PublishMore ==
    ASSUME NEW p, NEW q, p \subseteq q
    PROVE  /\ \A x : WorkerOK(x, p) => WorkerOK(x, q)
           /\ \A o, j : RowOK(o, j, p) => RowOK(o, j, q)
  BY DEF WorkerOK, RowOK

\* A step that changes one worker, whose job stays what it is, and rows and
\* published jobs in an allowed way.
LEMMA OneWorker ==
    ASSUME IInv, NEW w \in Workers, NEW x \in Worker,
           worker' = [worker EXCEPT ![w] = x],
           x.job = worker[w].job \/ worker[w].job = NoJob,
           WorkerOK(x, published'),
           published \subseteq published', published' \subseteq Jobs,
           row' \in [Jobs -> Row],
           \A j \in Jobs : RowOK(row'[j], j, published'),
           source' \in [Jobs -> {"paths", "upload"}],
           api' \in [Jobs -> {"idle", "created", "launched", "raised", "done", "lost"}],
           reply' \in [Jobs -> {"none", "202", "503", "500"}],
           \A j \in Jobs : api'[j] = "launched" \/ reply'[j] = "202"
               => api[j] = "launched" \/ reply[j] = "202" \/ x.job = j
    PROVE  IInv'
<1>1. TypeOK'
  BY DEF IInv, TypeOK
<1>2. \A v \in Workers : WorkerOK(worker'[v], published')
  BY PublishMore DEF IInv, TypeOK
<1>3. ASSUME NEW j \in Jobs, api'[j] = "launched" \/ reply'[j] = "202"
      PROVE  Started(j, worker')
  <2>1. CASE x.job = j
    <3>1. worker'[w].job = j
      BY <2>1 DEF IInv, TypeOK
    <3> QED
      BY <3>1 DEF Started
  <2>2. CASE api[j] = "launched" \/ reply[j] = "202"
    <3>1. PICK v \in Workers : worker[v].job = j
      BY <2>2 DEF IInv, Started
    <3>2. worker'[v].job = j
      BY <3>1, JobsAssumption DEF IInv, TypeOK
    <3> QED
      BY <3>2 DEF Started
  <2> QED
    BY <1>3, <2>1, <2>2
<1> QED
  BY <1>1, <1>2, <1>3 DEF IInv

\* The same when nothing but the worker changes.
LEMMA OnlyWorker ==
    ASSUME IInv, NEW w \in Workers, NEW x \in Worker,
           worker' = [worker EXCEPT ![w] = x],
           x.job = worker[w].job \/ worker[w].job = NoJob,
           WorkerOK(x, published),
           UNCHANGED <<row, source, api, reply, published>>
    PROVE  IInv'
<1>1. /\ row' \in [Jobs -> Row]
      /\ \A j \in Jobs : RowOK(row'[j], j, published')
      /\ source' \in [Jobs -> {"paths", "upload"}]
      /\ api' \in [Jobs -> {"idle", "created", "launched", "raised", "done", "lost"}]
      /\ reply' \in [Jobs -> {"none", "202", "503", "500"}]
      /\ published' \subseteq Jobs /\ published' = published
      /\ api' = api /\ reply' = reply
  BY DEF IInv, TypeOK
<1> QED
  BY <1>1, OneWorker
\* The same when no worker changes.
LEMMA NoWorker ==
    ASSUME IInv,
           UNCHANGED <<worker, published>>,
           row' \in [Jobs -> Row],
           \A j \in Jobs : RowOK(row'[j], j, published),
           source' \in [Jobs -> {"paths", "upload"}],
           api' \in [Jobs -> {"idle", "created", "launched", "raised", "done", "lost"}],
           reply' \in [Jobs -> {"none", "202", "503", "500"}],
           \A j \in Jobs : api'[j] = "launched" \/ reply'[j] = "202"
               => api[j] = "launched" \/ reply[j] = "202"
    PROVE  IInv'
  BY DEF IInv, TypeOK, Started

-----------------------------------------------------------------------------
(* The API *)

\* The row of a new job is queued.
LEMMA CreateJobKeepsInv ==
    ASSUME IInv, NEW j \in Jobs, NEW from \in {"paths", "upload"}, CreateJob(j, from)
    PROVE  IInv'
<1>1. row' \in [Jobs -> Row] /\ \A k \in Jobs : RowOK(row'[k], k, published)
  BY DEF CreateJob, IInv, TypeOK, Row, RowOK, Statuses
<1>2. /\ source' \in [Jobs -> {"paths", "upload"}]
      /\ api' \in [Jobs -> {"idle", "created", "launched", "raised", "done", "lost"}]
      /\ reply' \in [Jobs -> {"none", "202", "503", "500"}]
      /\ \A k \in Jobs : api'[k] = "launched" => api[k] = "launched"
      /\ UNCHANGED <<worker, published, reply>>
  BY DEF CreateJob, IInv, TypeOK
<1> QED
  BY <1>1, <1>2, NoWorker

\* run_task: a task was started, or not.
LEMMA RunEcsTaskKeepsInv ==
    ASSUME IInv, NEW j \in Jobs, RunEcsTask(j)
    PROVE  IInv'
<1>1. /\ row' \in [Jobs -> Row] /\ \A k \in Jobs : RowOK(row'[k], k, published)
      /\ source' \in [Jobs -> {"paths", "upload"}]
      /\ reply' \in [Jobs -> {"none", "202", "503", "500"}]
      /\ published \subseteq Jobs
      /\ published' = published /\ reply' = reply
  BY DEF RunEcsTask, IInv, TypeOK
<1>2. CASE \E w \in Workers :
             /\ worker[w].pc = "off"
             /\ worker' = [worker EXCEPT ![w] = Start(j, "task")]
             /\ \E seen \in {"launched", "raised"} :
                  api' = [api EXCEPT ![j] = seen]
  <2>1. PICK w \in Workers, seen \in {"launched", "raised"} :
           /\ worker[w].pc = "off"
           /\ worker' = [worker EXCEPT ![w] = Start(j, "task")]
           /\ api' = [api EXCEPT ![j] = seen]
    BY <1>2
  <2> DEFINE x == Start(j, "task")
  <2>2. x \in Worker /\ WorkerOK(x, published) /\ x.job = j
    BY StartOK
  <2>3. worker[w].job = NoJob
    BY <2>1 DEF IInv, WorkerOK
  <2>4. /\ api' \in [Jobs -> {"idle", "created", "launched", "raised", "done", "lost"}]
        /\ \A k \in Jobs : api'[k] = "launched" => api[k] = "launched" \/ k = j
    BY <2>1 DEF IInv, TypeOK
  <2>5. worker' = [worker EXCEPT ![w] = x]
    BY <2>1
  <2> HIDE DEF x
  <2> QED
    BY <1>1, <2>2, <2>3, <2>4, <2>5, OneWorker
<1>3. CASE api' = [api EXCEPT ![j] = "raised"] /\ UNCHANGED worker
  <2>1. /\ api' \in [Jobs -> {"idle", "created", "launched", "raised", "done", "lost"}]
        /\ \A k \in Jobs : api'[k] = "launched" => api[k] = "launched"
    BY <1>3 DEF IInv, TypeOK
  <2> QED
    BY <1>1, <1>3, <2>1, NoWorker
<1> QED
  BY <1>2, <1>3 DEF RunEcsTask

\* The handler's answer: 202 only when the task was seen to start.
LEMMA DispatchedKeepsInv ==
    ASSUME IInv, NEW j \in Jobs, Dispatched(j)
    PROVE  IInv'
<1>1. /\ source' \in [Jobs -> {"paths", "upload"}]
      /\ api' \in [Jobs -> {"idle", "created", "launched", "raised", "done", "lost"}]
      /\ \A k \in Jobs : api'[k] = "launched" => api[k] = "launched"
      /\ UNCHANGED <<worker, published>>
  BY DEF Dispatched, IInv, TypeOK
<1>2. /\ reply' \in [Jobs -> {"none", "202", "503", "500"}]
      /\ \A k \in Jobs : reply'[k] = "202" => reply[k] = "202" \/ api[k] = "launched"
  BY DEF Dispatched, Answer, IInv, TypeOK
<1>3. row' \in [Jobs -> Row] /\ \A k \in Jobs : RowOK(row'[k], k, published)
  <2>1. CASE row' = row
    BY <2>1 DEF IInv, TypeOK
  <2>2. CASE _mark(j, "failed", "dispatch")
    <3>1. row[j] \in Row
      BY DEF IInv, TypeOK
    <3>2. /\ Marked(row[j], "failed", "dispatch") \in Row
          /\ RowOK(Marked(row[j], "failed", "dispatch"), j, published)
      BY <3>1, MarkedOK DEF Statuses, Errors
    <3> QED
      BY <2>2, <3>2 DEF _mark, IInv, TypeOK
  <2> QED
    BY <2>1, <2>2 DEF Dispatched, Answer
<1> QED
  BY <1>1, <1>2, <1>3, NoWorker

\* The inline runner answers 202 for the thread it starts.
LEMMA StartThreadKeepsInv ==
    ASSUME IInv, NEW j \in Jobs, StartThread(j)
    PROVE  IInv'
<1>1. /\ row' \in [Jobs -> Row] /\ \A k \in Jobs : RowOK(row'[k], k, published)
      /\ source' \in [Jobs -> {"paths", "upload"}]
      /\ api' \in [Jobs -> {"idle", "created", "launched", "raised", "done", "lost"}]
      /\ reply' \in [Jobs -> {"none", "202", "503", "500"}]
      /\ published \subseteq Jobs /\ published' = published
      /\ \A k \in Jobs : api'[k] = "launched" => api[k] = "launched"
      /\ \A k \in Jobs : reply'[k] = "202" => reply[k] = "202" \/ k = j
  BY DEF StartThread, IInv, TypeOK
<1>2. PICK w \in Workers : /\ worker[w].pc = "off"
                           /\ worker' = [worker EXCEPT ![w] = Start(j, "api")]
  BY DEF StartThread
<1> DEFINE x == Start(j, "api")
<1>3. x \in Worker /\ WorkerOK(x, published) /\ x.job = j
  BY StartOK
<1>4. worker[w].job = NoJob
  BY <1>2 DEF IInv, WorkerOK
<1>5. worker' = [worker EXCEPT ![w] = x]
  BY <1>2
<1> HIDE DEF x
<1> QED
  BY <1>1, <1>3, <1>4, <1>5, OneWorker

\* reap_stale_jobs keeps every row well-formed.
LEMMA ReapKeepsRows ==
    ASSUME IInv, reap_stale_jobs
    PROVE  row' \in [Jobs -> Row] /\ \A j \in Jobs : RowOK(row'[j], j, published)
<1>1. ASSUME NEW j \in Jobs
      PROVE  Reaped(row[j]) \in Row /\ RowOK(Reaped(row[j]), j, published)
  BY ReapedOK DEF IInv, TypeOK
<1> QED
  BY <1>1 DEF reap_stale_jobs

\* A replaced API container kills its threads and reaps.
LEMMA ApiRestartsKeepsInv ==
    ASSUME IInv, ApiRestarts
    PROVE  IInv'
<1>1. row' \in [Jobs -> Row] /\ \A j \in Jobs : RowOK(row'[j], j, published)
  BY ReapKeepsRows DEF ApiRestarts, IInv, TypeOK
<1>2. /\ source' \in [Jobs -> {"paths", "upload"}]
      /\ api' \in [Jobs -> {"idle", "created", "launched", "raised", "done", "lost"}]
      /\ reply' \in [Jobs -> {"none", "202", "503", "500"}]
      /\ \A j \in Jobs : api'[j] = "launched" => api[j] = "launched"
      /\ reply' = reply /\ published' = published /\ published \subseteq Jobs
  BY DEF ApiRestarts, IInv, TypeOK
<1>3. ASSUME NEW w \in Workers
      PROVE  /\ worker'[w] \in Worker
             /\ WorkerOK(worker'[w], published)
             /\ worker'[w].job = worker[w].job
  <2>1. worker[w] \in Worker /\ WorkerOK(worker[w], published)
    BY DEF IInv, TypeOK
  <2>2. worker'[w] = worker[w] \/ worker'[w] = [worker[w] EXCEPT !.pc = "killed"]
    BY DEF ApiRestarts
  <2>3. CASE worker'[w] = worker[w]
    BY <2>1, <2>3
  <2>4. CASE worker'[w] = [worker[w] EXCEPT !.pc = "killed"] /\ Alive(w)
    BY <2>1, <2>4 DEF Worker, WorkerOK, Alive, Live
  <2> QED
    BY <2>2, <2>3, <2>4 DEF ApiRestarts
<1>4. worker' \in [Workers -> Worker]
  BY <1>3 DEF ApiRestarts
<1>5. \A j \in Jobs : Started(j, worker) => Started(j, worker')
  BY <1>3 DEF Started
<1>6. TypeOK'
  BY <1>1, <1>2, <1>4 DEF TypeOK
<1> QED
  BY <1>1, <1>2, <1>3, <1>5, <1>6 DEF IInv

-----------------------------------------------------------------------------
(* A worker *)

\* Goto as a change of place and error.
LEMMA GotoMoves ==
    ASSUME IInv, NEW w \in Workers, NEW pcn, Goto(w, pcn)
    PROVE  worker' = [worker EXCEPT ![w] =
               [worker[w] EXCEPT !.pc = pcn, !.err = worker[w].err]]
<1>1. worker \in [Workers -> Worker] /\ worker[w] \in Worker
  BY DEF IInv, TypeOK
<1>2. [worker[w] EXCEPT !.pc = pcn]
        = [worker[w] EXCEPT !.pc = pcn, !.err = worker[w].err]
  BY <1>1 DEF Worker
<1> QED
  BY <1>2 DEF Goto

\* A worker that goes on, with published jobs growing or not and its row
\* changed in an allowed way.
LEMMA WorkerGoes ==
    ASSUME IInv, NEW w \in Workers, worker[w].pc # "off",
           NEW pcn \in Live \cup {"exit0", "exit1", "killed"}, Goto(w, pcn),
           published \subseteq published', published' \subseteq Jobs,
           pcn \in {"bump", "mark_succeeded", "exit0"} => worker[w].job \in published',
           pcn # "mark_failed",
           row' \in [Jobs -> Row],
           \A j \in Jobs : RowOK(row'[j], j, published'),
           UNCHANGED <<source, api, reply>>
    PROVE  IInv'
<1> DEFINE x == [worker[w] EXCEPT !.pc = pcn, !.err = worker[w].err]
<1>1. /\ worker[w] \in Worker /\ worker[w].job \in Jobs
      /\ worker[w].err \in Errors
  BY DEF IInv, TypeOK, Worker, WorkerOK
<1>2. x \in Worker /\ x.job = worker[w].job /\ x.pc = pcn /\ pcn # "off"
  BY <1>1 DEF Worker, Live
<1>3. worker' = [worker EXCEPT ![w] = x]
  BY GotoMoves
<1>4. /\ source' \in [Jobs -> {"paths", "upload"}]
      /\ api' \in [Jobs -> {"idle", "created", "launched", "raised", "done", "lost"}]
      /\ reply' \in [Jobs -> {"none", "202", "503", "500"}]
      /\ api' = api /\ reply' = reply
  BY DEF IInv, TypeOK
<1> HIDE DEF x
<1>5. WorkerOK(x, published')
  BY <1>1, <1>2 DEF WorkerOK
<1> QED
  BY <1>2, <1>3, <1>4, <1>5, OneWorker

\* A worker that raises, likewise.
LEMMA WorkerRaises ==
    ASSUME IInv, NEW w \in Workers, worker[w].pc # "off",
           NEW e \in Errors, e # "none", Raise(w, e),
           published \subseteq published', published' \subseteq Jobs,
           UNCHANGED <<row, source, api, reply>>
    PROVE  IInv'
<1> DEFINE x == [worker[w] EXCEPT !.pc = "mark_failed", !.err = e]
<1>1. /\ worker[w] \in Worker /\ worker[w].job \in Jobs
      /\ "mark_failed" \in Live
  BY DEF IInv, TypeOK, Worker, WorkerOK, Live
<1>2. x \in Worker /\ x.job = worker[w].job /\ x.pc = "mark_failed" /\ x.err = e
  BY <1>1 DEF Worker
<1>3. worker' = [worker EXCEPT ![w] = x]
  BY DEF Raise, IInv, TypeOK
<1>4. /\ row' \in [Jobs -> Row]
      /\ source' \in [Jobs -> {"paths", "upload"}]
      /\ api' \in [Jobs -> {"idle", "created", "launched", "raised", "done", "lost"}]
      /\ reply' \in [Jobs -> {"none", "202", "503", "500"}]
      /\ api' = api /\ reply' = reply
  BY DEF IInv, TypeOK
<1>5. \A j \in Jobs : RowOK(row'[j], j, published')
  BY PublishMore DEF IInv
<1> HIDE DEF x
<1>6. WorkerOK(x, published')
  BY <1>1, <1>2 DEF WorkerOK
<1> QED
  BY <1>2, <1>3, <1>4, <1>5, <1>6, OneWorker

\* A statement of a worker on its own row.
LEMMA MarkKeepsRows ==
    ASSUME IInv, NEW w \in Workers, worker[w].pc # "off",
           NEW s \in Statuses, NEW e \in Errors,
           s = "succeeded" => worker[w].job \in published,
           s = "failed" => e # "none",
           _mark(worker[w].job, s, e)
    PROVE  row' \in [Jobs -> Row] /\ \A j \in Jobs : RowOK(row'[j], j, published)
<1> DEFINE k == worker[w].job
<1>1. k \in Jobs /\ row[k] \in Row
  BY DEF IInv, TypeOK, WorkerOK
<1>2. Marked(row[k], s, e) \in Row /\ RowOK(Marked(row[k], s, e), k, published)
  BY <1>1, MarkedOK
<1>3. row' = [row EXCEPT ![k] = Marked(row[k], s, e)]
  BY DEF _mark
<1> HIDE DEF k
<1> QED
  BY <1>1, <1>2, <1>3 DEF IInv, TypeOK

\* run_job and the run-job command, step by step.
LEMMA WorkerStepKeepsInv ==
    ASSUME IInv, NEW w \in Workers, WorkerStep(w)
    PROVE  IInv'
<1>1. /\ row \in [Jobs -> Row] /\ published \subseteq Jobs
      /\ \A j \in Jobs : RowOK(row[j], j, published)
      /\ worker[w] \in Worker /\ WorkerOK(worker[w], published)
  BY DEF IInv, TypeOK
<1>2. CASE MarkRunning(w)
  <2>1. worker[w].pc # "off" /\ UNCHANGED <<source, api, reply, published>>
    BY <1>2 DEF MarkRunning
  <2>2. CASE _mark(worker[w].job, "running", "none") /\ Goto(w, "ingest")
    <3>1. row' \in [Jobs -> Row] /\ \A j \in Jobs : RowOK(row'[j], j, published)
      BY <2>1, <2>2, MarkKeepsRows DEF Statuses, Errors
    <3> QED
      BY <1>1, <2>1, <2>2, <3>1, WorkerGoes DEF Live
  <2>3. CASE UNCHANGED row /\ Goto(w, "exit1")
    BY <1>1, <2>1, <2>3, WorkerGoes
  <2> QED
    BY <1>2, <2>2, <2>3 DEF MarkRunning
<1>3. CASE Ingest(w)
  <2>1. worker[w].pc # "off" /\ UNCHANGED <<row, source, api, reply, published>>
    BY <1>3 DEF Ingest
  <2>2. CASE Goto(w, "publish")
    BY <1>1, <2>1, <2>2, WorkerGoes DEF Live
  <2>3. CASE Raise(w, "run")
    BY <1>1, <2>1, <2>3, WorkerRaises DEF Errors
  <2>4. CASE Raise(w, "missing")
    BY <1>1, <2>1, <2>4, WorkerRaises DEF Errors
  <2> QED
    BY <1>3, <2>2, <2>3, <2>4 DEF Ingest, Read
<1>4. CASE Publish(w)
  <2>1. /\ worker[w].pc # "off" /\ UNCHANGED <<row, source, api, reply>>
        /\ worker[w].job \in Jobs
    BY <1>1, <1>4 DEF Publish, WorkerOK
  <2>2. CASE published' = published \cup {worker[w].job} /\ Goto(w, "bump")
    <3>1. \A j \in Jobs : RowOK(row'[j], j, published')
      BY <1>1, <2>1, <2>2, PublishMore
    <3> QED
      BY <1>1, <2>1, <2>2, <3>1, WorkerGoes DEF Live
  <2>3. CASE published' = published \cup {worker[w].job} /\ Raise(w, "run")
    BY <1>1, <2>1, <2>3, WorkerRaises DEF Errors
  <2>4. CASE UNCHANGED published /\ Raise(w, "run")
    BY <1>1, <2>1, <2>4, WorkerRaises DEF Errors
  <2> QED
    BY <1>4, <2>2, <2>3, <2>4 DEF Publish
<1>5. CASE Invalidate(w)
  <2>1. /\ worker[w].pc # "off" /\ UNCHANGED <<row, source, api, reply, published>>
        /\ worker[w].job \in published
    BY <1>1, <1>5 DEF Invalidate, WorkerOK
  <2>2. CASE Goto(w, "mark_succeeded")
    BY <1>1, <2>1, <2>2, WorkerGoes DEF Live
  <2>3. CASE Raise(w, "run")
    BY <1>1, <2>1, <2>3, WorkerRaises DEF Errors
  <2> QED
    BY <1>5, <2>2, <2>3 DEF Invalidate
<1>6. CASE MarkSucceeded(w)
  <2>1. /\ worker[w].pc # "off" /\ UNCHANGED <<source, api, reply, published>>
        /\ worker[w].job \in published
    BY <1>1, <1>6 DEF MarkSucceeded, WorkerOK
  <2>2. CASE _mark(worker[w].job, "succeeded", "none") /\ Goto(w, "report")
    <3>1. row' \in [Jobs -> Row] /\ \A j \in Jobs : RowOK(row'[j], j, published)
      BY <2>1, <2>2, MarkKeepsRows DEF Statuses, Errors
    <3> QED
      BY <1>1, <2>1, <2>2, <3>1, WorkerGoes DEF Live
  <2>3. CASE UNCHANGED row /\ Raise(w, "run")
    BY <1>1, <2>1, <2>3, WorkerRaises DEF Errors
  <2> QED
    BY <1>6, <2>2, <2>3 DEF MarkSucceeded
<1>7. CASE MarkFailed(w)
  <2>1. /\ worker[w].pc # "off" /\ UNCHANGED <<source, api, reply, published>>
        /\ worker[w].err \in Errors /\ worker[w].err # "none"
    BY <1>1, <1>7 DEF MarkFailed, WorkerOK, Worker
  <2>2. CASE _mark(worker[w].job, "failed", worker[w].err) /\ Goto(w, "report")
    <3>1. row' \in [Jobs -> Row] /\ \A j \in Jobs : RowOK(row'[j], j, published)
      BY <2>1, <2>2, MarkKeepsRows DEF Statuses
    <3> QED
      BY <1>1, <2>1, <2>2, <3>1, WorkerGoes DEF Live
  <2>3. CASE UNCHANGED row /\ Goto(w, "exit1")
    BY <1>1, <2>1, <2>3, WorkerGoes
  <2> QED
    BY <1>7, <2>2, <2>3 DEF MarkFailed
<1>8. CASE Report(w)
  <2>1. /\ worker[w].pc # "off" /\ UNCHANGED <<row, source, api, reply, published>>
        /\ worker[w].job \in Jobs
    BY <1>1, <1>8 DEF Report, WorkerOK
  <2>2. CASE row[worker[w].job].status = "succeeded" /\ Goto(w, "exit0")
    <3>1. worker[w].job \in published
      BY <1>1, <2>1, <2>2 DEF RowOK
    <3> QED
      BY <1>1, <2>1, <2>2, <3>1, WorkerGoes
  <2>3. CASE Goto(w, "exit1")
    BY <1>1, <2>1, <2>3, WorkerGoes
  <2> QED
    BY <1>8, <2>2, <2>3 DEF Report, ExitCode
<1> QED
  BY <1>2, <1>3, <1>4, <1>5, <1>6, <1>7, <1>8 DEF WorkerStep

\* A killed worker leaves everything but itself alone.
LEMMA KillKeepsInv ==
    ASSUME IInv, NEW w \in Workers, Kill(w)
    PROVE  IInv'
<1>1. /\ row \in [Jobs -> Row] /\ published \subseteq Jobs
      /\ \A j \in Jobs : RowOK(row[j], j, published)
  BY DEF IInv, TypeOK
<1>2. /\ worker[w].pc # "off" /\ Goto(w, "killed")
      /\ UNCHANGED <<row, source, api, reply, published>>
  BY DEF Kill, Alive, Live
<1> QED
  BY <1>1, <1>2, WorkerGoes

\* A retry is a new worker.
LEMMA RetryKeepsInv ==
    ASSUME IInv, NEW w \in Workers, NEW j \in Jobs, Retry(w, j)
    PROVE  IInv'
<1> DEFINE x == Start(j, "shell")
<1>1. x \in Worker /\ WorkerOK(x, published)
  BY StartOK
<1>2. /\ worker[w].job = NoJob
      /\ worker' = [worker EXCEPT ![w] = x]
      /\ UNCHANGED <<row, source, api, reply, published>>
  BY DEF Retry, IInv, WorkerOK
<1> HIDE DEF x
<1> QED
  BY <1>1, <1>2, OnlyWorker

\* The reaper and the clock change rows only.
LEMMA RowsKeepInv ==
    ASSUME IInv,
           row' \in [Jobs -> Row], \A j \in Jobs : RowOK(row'[j], j, published),
           UNCHANGED <<source, api, reply, worker, published>>
    PROVE  IInv'
<1>1. /\ source' \in [Jobs -> {"paths", "upload"}]
      /\ api' \in [Jobs -> {"idle", "created", "launched", "raised", "done", "lost"}]
      /\ reply' \in [Jobs -> {"none", "202", "503", "500"}]
      /\ api' = api /\ reply' = reply
  BY DEF IInv, TypeOK
<1> QED
  BY <1>1, NoWorker

-----------------------------------------------------------------------------
(* The invariant *)

\* It holds of the empty table.
LEMMA InitInv == Init => IInv
<1> SUFFICES ASSUME Init PROVE IInv
  OBVIOUS
<1>1. TypeOK
  BY DEF Init, TypeOK, Row, Statuses, Errors, Worker
<1>2. \A w \in Workers : WorkerOK(worker[w], published)
  BY DEF Init, WorkerOK
<1>3. \A j \in Jobs : RowOK(row[j], j, published)
  BY DEF Init, RowOK
<1>4. \A j \in Jobs : api[j] # "launched" /\ reply[j] # "202"
  BY DEF Init
<1> QED
  BY <1>1, <1>2, <1>3, <1>4 DEF IInv

\* Every step keeps it.
LEMMA NextKeepsInv == IInv /\ [Next]_vars => IInv'
<1> SUFFICES ASSUME IInv, [Next]_vars PROVE IInv'
  OBVIOUS
<1>1. ASSUME NEW j \in Jobs, NEW from \in {"paths", "upload"}, CreateJob(j, from)
      PROVE  IInv'
  BY <1>1, CreateJobKeepsInv
<1>2. ASSUME NEW j \in Jobs, RunEcsTask(j) \/ Dispatched(j) \/ StartThread(j)
      PROVE  IInv'
  BY <1>2, RunEcsTaskKeepsInv, DispatchedKeepsInv, StartThreadKeepsInv
<1>3. ASSUME NEW j \in Jobs, Age(j)
      PROVE  IInv'
  <2>1. row' \in [Jobs -> Row] /\ \A k \in Jobs : RowOK(row'[k], k, published)
    BY <1>3 DEF Age, IInv, TypeOK, Row, RowOK
  <2> QED
    BY <1>3, <2>1, RowsKeepInv DEF Age
<1>4. ASSUME NEW w \in Workers, WorkerStep(w) \/ Kill(w)
      PROVE  IInv'
  BY <1>4, WorkerStepKeepsInv, KillKeepsInv
<1>5. ASSUME NEW w \in Workers, NEW j \in Jobs, Retry(w, j)
      PROVE  IInv'
  BY <1>5, RetryKeepsInv
<1>6. CASE ApiRestarts
  BY <1>6, ApiRestartsKeepsInv
<1>7. CASE ReapCommand
  BY <1>7, ReapKeepsRows, RowsKeepInv DEF ReapCommand
<1>8. CASE UNCHANGED vars
  BY <1>8 DEF vars, IInv, TypeOK
<1> QED
  BY <1>1, <1>2, <1>3, <1>4, <1>5, <1>6, <1>7, <1>8 DEF Next

\* The inductive invariant holds in every reachable state.
THEOREM Invariance == Spec => []IInv
  BY InitInv, NextKeepsInv, PTL DEF Spec

-----------------------------------------------------------------------------
(* What it implies *)

\* A row only ever holds a status, an error and a count the schema knows, with
\* any number of workers writing to it.
THEOREM TypeCorrect == Spec => []TypeOK
<1>1. IInv => TypeOK
  BY DEF IInv
<1> QED
  BY <1>1, Invariance, PTL

\* succeeded in the table means chunks in the store, for any number of jobs,
\* retries, kills and overlapping workers.
THEOREM SuccessIsPublished == Spec => []SucceededIsPublished
<1>1. IInv => SucceededIsPublished
  BY DEF IInv, RowOK, SucceededIsPublished
<1> QED
  BY <1>1, Invariance, PTL

\* A failed row always says why.
THEOREM FailureHasReason == Spec => []FailedSaysWhy
<1>1. IInv => FailedSaysWhy
  BY DEF IInv, RowOK, FailedSaysWhy
<1> QED
  BY <1>1, Invariance, PTL

\* 202 is answered only for a job a worker was started for.
THEOREM AcceptedHasWorker == Spec => []AcceptedIsStarted
<1>1. IInv => AcceptedIsStarted
  BY DEF IInv, Started, AcceptedIsStarted
<1> QED
  BY <1>1, Invariance, PTL

\* Exit code 0 means chunks in the store, whoever wrote the row it was read
\* from.
THEOREM ExitZeroHasChunks == Spec => []ExitZeroIsPublished
<1>1. IInv => ExitZeroIsPublished
  BY DEF IInv, WorkerOK, ExitZeroIsPublished
<1> QED
  BY <1>1, Invariance, PTL
=============================================================================
