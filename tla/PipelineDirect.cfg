SPECIFICATION Spec
CONSTANTS
    Offered = {"mixed", "one", "garbled", "empty"}
    Input <- Offered
    NoInput = NoInput
    Kids <- MCKids
    Broken <- MCBroken
    FileKey <- MCFileKey
    NoKey = "none"
    Verdict <- MCVerdict
    Worker = {w1, w2}
    Replayer = {}
    Snapshot = {"v1", "nopacks"}
    NoPacks = "nopacks"
    Dest = {}
    StaticSinks = {}
    Durable = FALSE
    QueueCap = 2
    FetchLimit = 1
    MaxRaw = 2
    MaxSubmits = 2
    MaxFaults = 1
    MaxCrashes = 1
CHECK_DEADLOCK FALSE
INVARIANTS NoSilentLoss OneOutcomePerChild
