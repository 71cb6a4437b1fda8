SPECIFICATION Spec
CONSTANTS
    d1 = d1
    d2 = d2
    w1 = w1
    w2 = w2
    NoDelivery = NoDelivery
    Deliveries <- TwoDeliveries
    Processes <- OneWorker
    Workers <- OneWorker
    Codes <- AnswerCodes
    MaxAttempts = 3
    Backoff <- BackoffOneTwo
    DeadLetterAfterAttempts = TRUE
    PostgreSQL = TRUE
    Once = FALSE
    BatchSize = 2
    Faults <- AllFaults
    MaxOverdue = 1
    MaxFaults = 1
    MaxAsked = 1
    MaxRequeues = 1
SYMMETRY Interchangeable
INVARIANTS
    TypeOK
    SoleWorkerInv
    AttemptBudget
    EveryPostCounted
PROPERTIES
    AckedNeverResent
    HonoursSchedule
    ImplementsLifecycle
