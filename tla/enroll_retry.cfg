SPECIFICATION FairSpec
CONSTANTS
    m1 = m1
    m2 = m2
    Machines = {m1}
    Trusted = {m1}
    Modes = {"auto"}
    EnrollLimit = 1
    Versions = {1}
    SizeOf <- SizeByVersion
    MaxFaults = 0
    MaxEvents = 0
PROPERTIES
    RetryLoopHandlesIt
CHECK_DEADLOCK FALSE
