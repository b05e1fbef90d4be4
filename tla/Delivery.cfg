SPECIFICATION Spec
CONSTANTS
    Event = {"e1", "e2", "bad"}
    Corrupt = {"bad"}
    Static = {"out"}
    Conn = {"sink"}
    kinds = {"ndjson", "http", "parquet", "direct"}
    Kindings <- MCKindings
    FetchLimit = 2
    MaxEvents = 2
    MaxReplace = 1
    MaxFaults = 1
    MaxCrashes = 1
CHECK_DEADLOCK FALSE
INVARIANTS DeliveredIsDurable 
PROPERTIES RowsAreDelivered
