SPECIFICATION Spec
CONSTANTS
    Static = {"http"}
    Dynamic = {"kafka", "tls"}
    Loops = {"kafka"}
    MaxLaunch = 5
    MaxStale = 1
    Sink = {"siem", "siemBad"}
    NameOf <- MCNameOf
    Uncompilable = {"siemBad"}
    Unstartable = {"kafka"}
    FileName = {"a"}
    None = None
    Garbage = Garbage
    MaxCalls = 2
    MaxFaults = 1
    MaxCrashes = 1
INVARIANTS FilesMatchRuntime  OneLaunchRuns  SourcesServe
PROPERTIES CallsReturn
CHECK_DEADLOCK FALSE
