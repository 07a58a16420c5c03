SPECIFICATION FairSpec
CONSTANTS
    e1 = e1
    Events = {e1}
    BatchLimit = 1
    MaxFaults = 2
INVARIANTS
    SentWebhookWasDelivered
    ExhaustedAfterAllAttempts
PROPERTY DeliveryIsDecided
CHECK_DEADLOCK FALSE
