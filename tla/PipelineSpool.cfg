SPECIFICATION DeliverySpec
CONSTANTS
    Offered = {"spooled", "one"}
    Input <- Offered
    NoInput = NoInput
    Kids <- MCKids
    Broken <- MCBroken
    FileKey <- MCFileKey
    NoKey = "none"
    Verdict <- MCVerdict
    Worker = {w1, w2}
    Replayer = {}
    Snapshot = {"nopacks"}
    NoPacks = "nopacks"
    Dest = {d1}
    StaticSinks = {d1}
    Durable = TRUE
    QueueCap = 1
    FetchLimit = 1
    MaxRaw = 2
    MaxSubmits = 2
    MaxFaults = 1
    MaxCrashes = 1
CHECK_DEADLOCK FALSE
INVARIANTS NoFalseDelivery
PROPERTIES OutcomeStable DeliveredIsFinal EventuallySettled EventuallyDelivered
