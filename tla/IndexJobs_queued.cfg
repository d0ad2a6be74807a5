\* As IndexJobs_jobs.cfg.
SPECIFICATION Spec
CONSTANTS
    j1 = j1
    j2 = j2
    Jobs = {j1, j2}
    Workers = {w1, w2}
    NoJob = NoJob
    index_runner <- Runner
INVARIANTS
    QueuedIsAttended
