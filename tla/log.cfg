SPECIFICATION FairSpec
CONSTANTS
    MaxLines = 7
    logFlushBatchSize = 3
INVARIANTS
    AcknowledgedIsComplete
    NoGaps
PROPERTY CloseEnds
