SPECIFICATION Spec
CONSTANTS
    MaxAttempts = 5
    Backoff <- DefaultBackoff
    DeadLetterAfterAttempts = TRUE
    Answers <- SampleAnswers
INVARIANT WholeScheduleUsed
CHECK_DEADLOCK FALSE
