SPECIFICATION Spec
CONSTANTS
    u1 = u1
    u2 = u2
    u3 = u3
    r1 = r1
    r2 = r2
    r3 = r3
    e1 = e1
    e2 = e2
    s1 = s1
    None = None
    Users = {u1, u2, u3}
    Emails = {e1, e2}
    Subjects = {s1}
    Requests = {r1, r2, r3}
    InitialTables <- MCInitialTables
    KeysOnDisk = TRUE
    MaxFaults = 1
SYMMETRY Symmetry
INVARIANTS
    RotatedOnce
    RevokedIsRefused
    DecisionStands
    OneAccountPerSubject
PROPERTY IssuedToActive
CHECK_DEADLOCK FALSE
