SPECIFICATION FairOpenSpec
CONSTANTS
    Tasks = {t1, t2}
    Inodes = {f1, f2, f3, f4}
    NoInode = NoInode
PROPERTY
    ReadyMeansCurrent
