SPECIFICATION FairSpec
CONSTANTS
    d1 = d1
    d2 = d2
    w1 = w1
    w2 = w2
    NoDelivery = NoDelivery
    Deliveries <- TwoDeliveries
    Processes <- OneWorker
    Workers <- OneWorker
    Codes <- AnswerCodes
    MaxAttempts = 2
    Backoff <- BackoffOneTwo
    DeadLetterAfterAttempts = TRUE
    PostgreSQL = TRUE
    Once = FALSE
    BatchSize = 2
    Faults = {"crash"}
    MaxOverdue = 1
    MaxFaults = 1
    MaxAsked = 0
    MaxRequeues = 0
PROPERTY AtLeastOnce
