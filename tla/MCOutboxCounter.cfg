SPECIFICATION Spec
CONSTANTS
    d1 = d1
    d2 = d2
    w1 = w1
    w2 = w2
    NoDelivery = NoDelivery
    Deliveries <- TwoDeliveries
    Processes <- TwoWorkers
    Workers <- TwoWorkers
    Codes <- AnswerCodes
    MaxAttempts = 2
    Backoff <- BackoffOneTwo
    DeadLetterAfterAttempts = TRUE
    PostgreSQL = TRUE
    Once = FALSE
    BatchSize = 1
    Faults = {}
    MaxOverdue = 1
    MaxFaults = 0
    MaxAsked = 0
    MaxRequeues = 0
INVARIANT EveryPostCounted
