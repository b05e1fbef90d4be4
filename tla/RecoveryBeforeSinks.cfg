SPECIFICATION FairSpec
CONSTANTS
    Offered = {"one"}
    Input <- Offered
    NoInput = NoInput
    Kids <- MCKids
    Broken <- MCBroken
    FileKey <- MCFileKey
    NoKey = "none"
    Verdict <- MCVerdict
    Worker = {w1}
    Replayer = {}
    Snapshot = {"v1", "nopacks"}
    NoPacks = "nopacks"
    Dest = {d1, d2}
    StaticSinks = {d1}
    Durable = TRUE
    QueueCap = 1
    FetchLimit = 1
    MaxRaw = 1
    MaxSubmits = 1
    MaxFaults = 0
    MaxCrashes = 1
CHECK_DEADLOCK FALSE
PROPERTIES EveryDestinationGetsARow
