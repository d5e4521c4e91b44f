SPECIFICATION RunnerSpec
CONSTANTS
    Keys = {k1, k2, k3}
    NoKey = NoKey
    WaitLimit = 4
    AirdropEvery = 2
    PollLimit = 2
    WritesCanFail = TRUE
    MaxRuns = 3
CHECK_DEADLOCK FALSE
INVARIANTS
    RunnerInv
    FundsReachable
    FailedReportsAreTrue
    OneMarkerPerRun
PROPERTY RunEnds
