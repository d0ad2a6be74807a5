\* Three asks of two similar questions around one index run.
SPECIFICATION Spec
CONSTANTS
    Asks = {a1, a2, a3}
    IndexRuns = {i1}
    NoAsk = NoAsk
    q1 = q1
    q2 = q2
    Queries = {q1, q2}
    Similar <- Close
    cache_semantic_max_scan = 2
SYMMETRY Symmetric
CHECK_DEADLOCK FALSE
INVARIANTS
    TypeOK
    InvalidationHolds
    HitAnswersQuestion
