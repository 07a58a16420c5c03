SPECIFICATION FairSpec
CONSTANTS
    m1 = m1
    m2 = m2
    Machines = {m1, m2}
    Trusted = {m1}
    Modes = {"auto", "external", "plain"}
    EnrollLimit = 1
    Versions = {1, 2}
    SizeOf <- SizeByVersion
    MaxFaults = 2
    MaxEvents = 1
INVARIANTS
    IssuedStayValid
    CredentialsMatch
    OnlyTrustedRegister
    DuplicatesHaveCause
PROPERTIES
    EnrolledConnects
CHECK_DEADLOCK FALSE
