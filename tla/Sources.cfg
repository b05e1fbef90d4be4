SPECIFICATION Spec
CONSTANTS
    Kinds = {"file", "poll", "kafka", "http", "udp", "tcp", "tls"}
    MaxRecord = 3
    BatchSize = 2
    File = {"f1", "f2"}
    NameOf <- MCNameOf
    Lines = 2
    None = None
    OutCap = 1
    InCap = 1
    MaxFaults = 2
    MaxCancels = 2
    MaxRestarts = 2
CHECK_DEADLOCK FALSE
INVARIANTS  SpoolKeepsFiles PushLosesAtMostOne
PROPERTIES ShutdownCompletes 
