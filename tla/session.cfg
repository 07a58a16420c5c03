SPECIFICATION FairSpec
CONSTANTS
    a1 = a1
    j1 = j1
    j2 = j2
    Agents = {a1}
    Jobs = {j1}
    AgentOf <- OneAgent
    NoJob = NoJob
    MaxSessions = 2
    MaxServerRestarts = 1
    BackoffInitial = 1
    BackoffMax = 2
    QueueSize = 1
INVARIANT RegistryHoldsOpenStream
PROPERTIES
    DeadStreamIsCleanedUp
    StreamingAgentShownOnline
    ClosedStreamFreesRunningJobs
    ExecutorGetsIdle
    QueuedJobIsExecuted
