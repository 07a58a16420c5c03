SPECIFICATION Spec
CONSTANTS
    a1 = a1
    j1 = j1
    j2 = j2
    Agents = {a1}
    Jobs = {j1, j2}
    AgentOf <- OneAgent
    NoJob = NoJob
    MaxSessions = 2
    MaxServerRestarts = 1
    BackoffInitial = 1
    BackoffMax = 1
    QueueSize = 1
INVARIANTS
    RunsAtMostOnce
    RecordSound
PROPERTIES
    ImplementsJobRecord
