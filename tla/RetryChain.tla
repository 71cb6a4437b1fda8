------------------------------- MODULE RetryChain -------------------------------
(***************************************************************************)
(* One delivery driven through execute_delivery(allow_retry=True) until it *)
(* settles, with nobody else touching its row: the schedule that the retry *)
(* policy produces.  Module Outbox adds the queue, the workers and the     *)
(* operators around this chain.                                            *)
(***************************************************************************)
EXTENDS RetryPolicy

CONSTANT Answers  \* the answers a consumer may give: status codes and NoCode

ASSUME AnswersAssumption == Answers \subseteq Answer

VARIABLES
    status,    \* WebhookDelivery.status
    attempts,  \* WebhookDelivery.attempts
    waited,    \* the sum of the delays scheduled so far
    seen       \* history: the answers received so far

vars == <<status, attempts, waited, seen>>

Init ==
    /\ status = "pending"
    /\ attempts = 0
    /\ waited = 0
    /\ seen = {}

Delivered(code) ==
    /\ status = "pending" /\ Success(code)
    /\ attempts' = attempts + 1
    /\ status' = "delivered"
    /\ seen' = seen \cup {code}
    /\ UNCHANGED waited

Failed(code) ==
    /\ status = "pending" /\ ~Success(code)
    /\ attempts' = attempts + 1
    /\ status' = FailureStatus(attempts', code, code = NoCode, TRUE)
    /\ seen' = seen \cup {code}
    /\ IF status' = "pending"
       THEN \E delay \in RetryDelays(attempts') : waited' = waited + delay
       ELSE UNCHANGED waited

Next == \E code \in Answers : Delivered(code) \/ Failed(code)

Spec == Init /\ [][Next]_vars

--------------------------------------------------------------------------------

TypeOK ==
    /\ status \in {"pending", "delivered", "failed", "dead_letter"}
    /\ attempts \in 0..MaxAttempts
    /\ waited \in Nat
    /\ seen \subseteq Answers

\* The schedule as the settings describe it: the n-th retry waits for the n-th
\* entry, and past the end of the list for its last entry.
Entry(i) == Backoff[IF i > Len(Backoff) THEN Len(Backoff) ELSE i]

Nominal[n \in Nat] == IF n = 0 THEN 0 ELSE Nominal[n - 1] + Entry(n)

Retries == IF status = "pending" THEN attempts ELSE attempts - 1

\* The whole time a delivery was made to wait is within 10% of the configured
\* schedule, however many retries it took (compute_next_retry_at).
WaitedWithinJitter ==
    attempts > 0 => /\ 9 * Nominal[Retries] <= 10 * waited
                    /\ 10 * waited <= 11 * Nominal[Retries]

\* The classes of the should_retry docstring, written down independently of it.
ConfigErrors == {400, 401, 403, 404, 410, 422}
Transient == (100..199 \cup 300..599 \cup {NoCode}) \ ConfigErrors

\* A chain gives up for exactly two reasons: an answer that says the request is
\* wrong (never followed by another attempt), or MaxAttempts answers of which
\* every single one was worth a retry.
GivesUpForAReason ==
    /\ status = "failed" /\ DeadLetterAfterAttempts => seen \cap ConfigErrors # {}
    /\ status \in {"pending", "dead_letter"} => seen \subseteq Transient
    /\ status = "dead_letter" => attempts = MaxAttempts
    /\ status = "pending" => attempts < MaxAttempts

\* README.md:105-106 documents 5 retry attempts spaced 1m/5m/30m/2h/12h: a row is
\* given up only after the whole list has been waited for.  The code counts the
\* first attempt in MaxAttempts, so with the defaults the last delay is never used.
WholeScheduleUsed ==
    status = "dead_letter" => 10 * waited >= 9 * Nominal[Len(Backoff)]
================================================================================
