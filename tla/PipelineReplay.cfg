SPECIFICATION Spec
CONSTANTS
    Offered = {"late", "bad", "respooled"}
    Input <- Offered
    NoInput = NoInput
    Kids <- MCKids
    Broken <- MCBroken
    FileKey <- MCFileKey
    NoKey = "none"
    Verdict <- MCVerdict
    Worker = {w1}
    Replayer = {p1, p2}
    Snapshot = {"v1", "v2", "nopacks"}
    NoPacks = "nopacks"
    Dest = {d1}
    StaticSinks = {}
    Durable = TRUE
    QueueCap = 2
    FetchLimit = 1
    MaxRaw = 2
    MaxSubmits = 3
    MaxFaults = 1
    MaxCrashes = 1
CHECK_DEADLOCK FALSE
INVARIANTS AccountingBalanced OneOutcomePerChild
