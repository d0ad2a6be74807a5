\* A stream, and another one that starts while it runs.
SPECIFICATION Spec
CONSTANTS
    Streams = {s1, s2}
    Plain = {p1}
    NoOne = NoOne
    PoolSize = 2
    MaxStages = 1
SYMMETRY Interchangeable
INVARIANTS
    StagesThenAnswer
