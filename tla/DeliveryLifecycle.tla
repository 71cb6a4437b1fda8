---------------------------- MODULE DeliveryLifecycle ----------------------------
(***************************************************************************)
(* What the queue promises about one WebhookDelivery, with no workers,     *)
(* batches, clocks or in-memory objects: which statuses may follow which,  *)
(* that an attempt starts only from the queue and never beside another     *)
(* attempt of the same delivery, and what its end may do to a delivery     *)
(* that an operator has put back into the queue meanwhile.                 *)
(***************************************************************************)
EXTENDS Integers

CONSTANTS
    Deliveries,
    MaxAttempts,
    GivenUp      \* the status of a delivery that ran out of attempts

VARIABLES
    status,    \* WebhookDelivery.status, "new" before the row and "deleted" after it
    attempts,  \* WebhookDelivery.attempts
    flight     \* the deliveries being attempted

vars == <<status, attempts, flight>>

Stored(d) == status[d] \notin {"new", "deleted"}

Init ==
    /\ status = [d \in Deliveries |-> "new"]
    /\ attempts = [d \in Deliveries |-> 0]
    /\ flight = {}

Create(D) ==
    /\ D # {} /\ \A d \in D : status[d] = "new"
    /\ status' = [d \in Deliveries |-> IF d \in D THEN "pending" ELSE status[d]]
    /\ UNCHANGED <<attempts, flight>>

Begin(d) ==
    /\ status[d] = "pending" /\ d \notin flight
    /\ status' = [status EXCEPT ![d] = "delivering"]
    /\ attempts' = [attempts EXCEPT ![d] = @ + 1]
    /\ flight' = flight \cup {d}

\* The result is recorded, over a forced retry if there was one meanwhile.
Settle(d, result) ==
    /\ d \in flight /\ status[d] \in {"pending", "delivering"}
    /\ result = "pending" => attempts[d] < MaxAttempts
    /\ result = GivenUp /\ result # "failed" => attempts[d] >= MaxAttempts
    /\ status' = [status EXCEPT ![d] = result]
    /\ flight' = flight \ {d}
    /\ UNCHANGED attempts

\* The attempt ends without recording anything.
Abandon(d) ==
    /\ d \in flight
    /\ flight' = flight \ {d}
    /\ UNCHANGED <<status, attempts>>

ForceRetry(d) ==
    /\ Stored(d)
    /\ status' = [status EXCEPT ![d] = "pending"]
    /\ UNCHANGED <<attempts, flight>>

Requeue(D) ==
    /\ D # {} /\ \A d \in D : status[d] = "dead_letter" /\ d \notin flight
    /\ status' = [d \in Deliveries |-> IF d \in D THEN "pending" ELSE status[d]]
    /\ attempts' = [d \in Deliveries |-> IF d \in D THEN 0 ELSE attempts[d]]
    /\ UNCHANGED flight

Remove(d) ==
    /\ Stored(d)
    /\ status' = [status EXCEPT ![d] = "deleted"]
    /\ attempts' = [attempts EXCEPT ![d] = 0]
    /\ UNCHANGED flight

Next ==
    \/ \E D \in SUBSET Deliveries : Create(D) \/ Requeue(D)
    \/ \E d \in Deliveries :
          \/ Begin(d)
          \/ \E result \in {"delivered", "failed", "pending", GivenUp} : Settle(d, result)
          \/ Abandon(d)
          \/ ForceRetry(d)
          \/ Remove(d)

Spec == Init /\ [][Next]_vars
================================================================================
