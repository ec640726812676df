SPECIFICATION FairSpec
CONSTANTS
    base = base
    derived = derived
    other = other
    Sources = {base}
    Others = {other}
    ParentOf <- MCNoParent
    RoundTrips = FALSE
    MaxClock = 3
    MaxGen = 3
    NoFile = NoFile
    NoTime = NoTime
INVARIANT
    NoOrphans
