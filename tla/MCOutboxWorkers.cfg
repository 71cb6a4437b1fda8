SPECIFICATION FairSpec
CONSTANTS
    d1 = d1
    d2 = d2
    w1 = w1
    w2 = w2
    NoDelivery = NoDelivery
    Deliveries <- OneDelivery
    Processes <- TwoWorkers
    Workers <- TwoWorkers
    Codes <- AnswerCodes
    MaxAttempts = 2
    Backoff <- BackoffOneTwo
    DeadLetterAfterAttempts = TRUE
    PostgreSQL = TRUE
    Once = TRUE
    BatchSize = 1
    Faults = {"crash", "raise"}
    MaxOverdue = 1
    MaxFaults = 1
    MaxAsked = 1
    MaxRequeues = 0
INVARIANTS
    DeliveredWasAcked
    DeliveringHasExecutor
PROPERTIES
    NoRowWaitsForever
    DecidedWithoutFaults
