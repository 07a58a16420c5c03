SPECIFICATION FairSpec
CONSTANT N = 2
INVARIANTS
    SuccessMeansStored
    SnapshotRowsAreReal
    EveryDestinationTried
    HooksEncloseBackup
PROPERTY RunEnds
CHECK_DEADLOCK FALSE
