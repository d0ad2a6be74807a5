\* An ask that retrieved before an index run stores its answer after it.
SPECIFICATION Spec
CONSTANTS
    Asks = {a1, a2}
    IndexRuns = {i1}
    NoAsk = NoAsk
    q1 = q1
    q2 = q2
    Queries = {q1, q2}
    Similar <- Close
    cache_semantic_max_scan = 2
CHECK_DEADLOCK FALSE
INVARIANT
    CacheIsFresh
