SPECIFICATION Spec
CONSTANTS
    Client = {q1, q2}
    MaxRelease = 4
    MajorOf <- MCMajorOf
    Prerelease = {3}
    NeedsNewer = {3}
    Catalog <- MCCatalog
    Posted <- MCPosted
    Bundle <- MCBundle
    Custom = {mine}
    CustomVersion = 1
    Junk = Junk
    None = None
    MaxRevision = 2
    MaxCalls = 2
    MaxEdits = 1
SYMMETRY MCSymmetry
CHECK_DEADLOCK FALSE
INVARIANTS InstalledIsVerified
PROPERTIES HandEditsSurvive UpgradeIsOrdinary 
