SPECIFICATION Spec
CONSTANTS
    Offered = {"mixed", "one"}
    Input <- Offered
    NoInput = NoInput
    Kids <- MCKids
    Broken <- MCBroken
    FileKey <- MCFileKey
    NoKey = "none"
    Verdict <- MCVerdict
    Worker = {w1, w2}
    Replayer = {}
    Snapshot = {"nopacks", "v1"}
    NoPacks = "nopacks"
    Dest = {}
    StaticSinks = {}
    Durable = TRUE
    QueueCap = 2
    FetchLimit = 1
    MaxRaw = 2
    MaxSubmits = 2
    MaxFaults = 2
    MaxCrashes = 2
CHECK_DEADLOCK FALSE
INVARIANTS TypeOK AccountingBalanced NoPhantomPending StatusMatchesOutcomes
PROPERTIES KeepsCustody
