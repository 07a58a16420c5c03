SPECIFICATION VolumesFairSpec
CONSTANTS
    a1 = a1
    q1 = q1
    Agents = {a1}
    Requests = {q1}
    AskedOf <- OneAgent
    MaxSessions = 2
    MaxServerRestarts = 1
    BackoffInitial = 1
    BackoffMax = 1
PROPERTIES
    RequestEnds
    ReportReturns
