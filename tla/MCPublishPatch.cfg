SPECIFICATION Spec
CONSTANTS
    p1 = p1
    a1 = a1
    r1 = r1
    s1 = s1
    s2 = s2
    c1 = c1
    c2 = c2
    x1 = x1
    NoDelivery = NoDelivery
    NoSub = NoSub
    Producers <- OneProducer
    Admins <- OneAdmin
    Runners <- OneRunner
    Processes <- AllProcesses
    Subs <- TwoSubs
    Changes <- TwoChanges
    Tests <- OneTest
    Kind <- TwoKinds
    Deliveries <- AllDeliveries
    Lists <- Transitions
    Settings <- AllSettings
    Codes <- JustOK
    MaxAttempts = 2
    Backoff <- AtOnce
    DeadLetterAfterAttempts = TRUE
    MaxRequests = 2
    MaxFaults = 0
    MaxDisturbances = 2
SYMMETRY InterchangeableSubs
INVARIANT SecretSurvivesPatch
