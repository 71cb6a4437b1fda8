------------------------------ MODULE RetryPolicy ------------------------------
(***************************************************************************)
(* The retry policy of delivery/retry.py and the verdict that              *)
(* delivery/executor.py draws from it after a failed attempt.              *)
(*                                                                         *)
(* An answer is the pair (status_code, error) of a DeliveryResult.         *)
(* Python's None status code is NoCode; only WHETHER there is an error     *)
(* message matters to the policy, so `error' is a Boolean.                 *)
(*                                                                         *)
(* Delays are whole numbers of some unit of time: the +-10% jitter of      *)
(* random.uniform(0.9, 1.1) is the set of whole delays in that window.     *)
(***************************************************************************)
EXTENDS Sequences, Functions

CONSTANTS
    MaxAttempts,             \* SINPAPEL_WEBHOOKS_MAX_ATTEMPTS
    Backoff,                 \* SINPAPEL_WEBHOOKS_RETRY_BACKOFF
    DeadLetterAfterAttempts  \* SINPAPEL_WEBHOOKS_DEAD_LETTER_AFTER_ATTEMPTS

ASSUME MaxAttemptsAssumption == MaxAttempts \in Nat \ {0}
ASSUME BackoffAssumption == Backoff \in Seq(Nat) /\ Len(Backoff) > 0
ASSUME DeadLetterAssumption == DeadLetterAfterAttempts \in BOOLEAN

NoCode == 0
StatusCode == 100..599
Answer == StatusCode \cup {NoCode}

NonRetryable == {400, 401, 403, 404, 410, 422}

Success(code) == code \in 200..299

\* Mutant: every 4xx is taken for a configuration error (408 and 429 are not).
ShouldRetryNo4xx(code, error) ==
    \/ error
    \/ code = NoCode
    \/ ~Success(code) /\ code \notin 400..499

ShouldRetry(code, error) ==
    \/ error
    \/ code = NoCode
    \/ ~Success(code) /\ code \notin NonRetryable

\* Mutant: the attempts counter used as a zero-based index.
BackoffIndexOffByOne(attempts) ==
    IF attempts >= Len(Backoff) THEN Len(Backoff) ELSE attempts + 1

\* Python's backoff_list[min(attempts - 1, len - 1)], counted from one.
BackoffIndex(attempts) ==
    CASE attempts < 1            -> 1
      [] attempts > Len(Backoff) -> Len(Backoff)
      [] OTHER                   -> attempts

BaseDelay(attempts) == Backoff[BackoffIndex(attempts)]

Jittered(base) == {s \in 0..(2 * base) : 9 * base <= 10 * s /\ 10 * s <= 11 * base}

RetryDelays(attempts) == Jittered(BaseDelay(attempts))

\* Mutant: one attempt too many before giving up.
FailureStatusOffByOne(attempts, code, error, allowRetry) ==
    IF ~allowRetry \/ ~ShouldRetry(code, error) THEN "failed"
    ELSE IF attempts <= MaxAttempts THEN "pending"
    ELSE IF DeadLetterAfterAttempts THEN "dead_letter"
    ELSE "failed"

\* Mutant: a status that WebhookDelivery does not know (choices are not enforced
\* by the database).
FailureStatusMisspelt(attempts, code, error, allowRetry) ==
    IF ~allowRetry \/ ~ShouldRetry(code, error) THEN "failed"
    ELSE IF attempts < MaxAttempts THEN "pending"
    ELSE IF DeadLetterAfterAttempts THEN "dead-letter"
    ELSE "failed"

\* What a failed attempt turns the row into: _persist_failure's four branches.
FailureStatus(attempts, code, error, allowRetry) ==
    IF ~allowRetry \/ ~ShouldRetry(code, error) THEN "failed"
    ELSE IF attempts < MaxAttempts THEN "pending"
    ELSE IF DeadLetterAfterAttempts THEN "dead_letter"
    ELSE "failed"
================================================================================
