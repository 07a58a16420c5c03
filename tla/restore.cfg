SPECIFICATION FairSpec
CONSTANTS
    s1 = s1
    s2 = s2
    v1 = v1
    r1 = r1
    None = None
    Snapshots = {s1, s2}
    Volumes = {v1}
    Requests = {r1}
    MaxFaults = 1
    MaxEvents = 2
INVARIANTS
    SuccessMeansRestored
    RefusedNeverRuns
PROPERTIES
    RunningVolumeUntouched
    RestoreEnds
CHECK_DEADLOCK FALSE
