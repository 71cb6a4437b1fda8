SPECIFICATION Spec
CONSTANTS
    MaxAttempts = 5
    Backoff <- ShortBackoff
    DeadLetterAfterAttempts = TRUE
    Answers <- SampleAnswers
INVARIANTS
    TypeOK
    WaitedWithinJitter
    GivesUpForAReason
CHECK_DEADLOCK FALSE
