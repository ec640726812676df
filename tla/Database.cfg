SPECIFICATION MCSpec
CONSTANTS
    Tasks = {t1, t2}
    Inodes = {f1, f2, f3}
    NoInode = NoInode
    base = base
    derived = derived
    other = other
    Sources = {base, derived}
    Others = {other}
    ParentOf <- MCParentOf
    RoundTrips = FALSE
    MaxClock = 2
    MaxGen = 3
    NoFile = NoFile
    NoTime = NoTime
SYMMETRY MCSymmetry
INVARIANTS
    HalfMadeOnlyAfterFailure
    RowsHaveSymbols
    LinksNameAParent
    RefreshRepairs
    IndexFollowsDisk
PROPERTY
    OldStampedOnlyByScan
