SPECIFICATION FairSpec
CONSTANTS
    Benchmarks <- MCBenchmarks
    MayFail = TRUE
    MaxProbes = 2
    MaxStreams = 4
    MayLose = {1, 2, 3, 4}
INVARIANTS
    MeasurementsApart
    NothingLeft
PROPERTIES
    BothEnd
CHECK_DEADLOCK FALSE
