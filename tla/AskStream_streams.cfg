\* Two streams that share one thread, and a plain question beside them.
SPECIFICATION FairSpec
CONSTANTS
    Streams = {s1, s2}
    Plain = {p1}
    NoOne = NoOne
    PoolSize = 1
    MaxStages = 1
INVARIANTS
    TypeOK
    OneOwnOutcome
PROPERTIES
    StreamEnds
