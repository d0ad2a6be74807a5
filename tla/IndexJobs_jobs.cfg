\* Two jobs, one dispatched to ECS and one to a thread, and two workers: a job
\* and its retry, or both jobs side by side.
SPECIFICATION FairSpec
CONSTANTS
    j1 = j1
    j2 = j2
    Jobs = {j1, j2}
    Workers = {w1, w2}
    NoJob = NoJob
    index_runner <- Runner
INVARIANTS
    TypeOK
    SucceededIsPublished
    FailedSaysWhy
    AcceptedIsStarted
    ExitZeroIsPublished
PROPERTIES
    AbandonedIsReapable
