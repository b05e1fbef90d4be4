SPECIFICATION Spec
CONSTANTS
    File = {"a.yaml", "b.yaml", "x.yaml"}
    Pack = {"a1", "a2", "b1"}
    Name = {"a", "b"}
    NameOf <- MCNameOf
    FileOf <- MCFileOf
    None = None
    Shipped <- MCTidy
    MaxOps = 3
    MaxFaults = 2
    MaxCrashes = 1
CHECK_DEADLOCK FALSE
INVARIANTS RestartLoads ManifestDescribesFiles UndoIsConsistent ServesWhatRestartLoads
PROPERTIES KeepsPackSet
