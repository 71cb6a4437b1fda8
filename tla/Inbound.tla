--------------------------------- MODULE Inbound ---------------------------------
(***************************************************************************)
(* The inbound receiver: ReceiverDispatcher.dispatch, run by concurrent    *)
(* request threads over the InboundWebhookEvent table, which remembers     *)
(* every (source, event_id) that was ever accepted, and the registry of    *)
(* handlers, which is filled at startup and never changes until the next.  *)
(*                                                                         *)
(* A thread goes through                                                   *)
(*                                                                         *)
(*   "idle" --Accept--> "lookup" --Lookup--> "insert" --Insert-->          *)
(*   "created" --CallHandler--> "handling" --HandlerReturns / Raises-->    *)
(*   "save" --Save--> "reply" --Reply--> "idle"                            *)
(*                                                                         *)
(* The sender is any at-least-once sender (another installation's outbox): *)
(* it repeats an event until it sees a 200 for it, may repeat it while an  *)
(* earlier attempt is still being processed, and may lose an answer.       *)
(***************************************************************************)
EXTENDS Signing

CONSTANTS
    Events,    \* (source, event_id) pairs
    Threads,   \* request threads
    NoEvent,   \* not such a pair: the event of an idle thread
    Requests,  \* the requests that arrive, as what the checks see of them
    MaxFaults  \* bound: killed threads, restarts and lost answers

ASSUME NoEventAssumption == NoEvent \notin Events
ASSUME FaultsAssumption == MaxFaults \in Nat

VARIABLES
    table,       \* InboundWebhookEvent.handler_status, or "absent"
    registered,  \* the events whose (source, event_type) has a handler
    pc,          \* where each thread is in dispatch
    ev,          \* the event each thread works on
    verdict,     \* the handler_status each thread is about to save
    code,        \* the HTTP status each thread is about to answer with
    runs,        \* history: how often the handler was called for an event
    outcome,     \* history: how the last call ended
    verified,    \* history: events that came with an authentic request
    settled,     \* the sender has seen a 200 for the event
    faults       \* how many faults happened

threadVars == <<pc, ev, verdict, code>>
historyVars == <<runs, outcome, verified>>
vars == <<table, registered, threadVars, historyVars, settled, faults>>

HandlerStatus == {"processed", "error", "duplicate", "no_handler"}
Final == HandlerStatus \ {"duplicate"}

\* What steps 2 to 5 of dispatch look at.  A body that is not in an encoding that
\* json.loads detects raises UnicodeDecodeError, which is not a JSONDecodeError.
Request ==
    [known : BOOLEAN, signature : Signature, headers : BOOLEAN,
     json : {"valid", "malformed", "undecodable"}]

Valid ==
    [known |-> TRUE, signature |-> [shape |-> "proper", age |-> 0, genuine |-> TRUE],
     headers |-> TRUE, json |-> "valid"]

ASSUME RequestsAssumption == Valid \in Requests /\ Requests \subseteq Request

\* A body that the source signed, not too long ago and not too far in the future: what
\* verify_signature is there to establish.  The code covers the stamp and the body, not
\* the header that names the event.
Authentic(r) ==
    /\ r.known
    /\ r.signature.shape = "proper" /\ r.signature.genuine
    /\ r.signature.age \in -Tolerance * Ticks .. Tolerance * Ticks

\* The first check that fails decides; 200 stands for none.
Refusal(r) ==
    IF ~r.known \/ Verify(r.signature) = "refused" THEN 401
    ELSE IF Verify(r.signature) = "raises" THEN 500
    ELSE IF ~r.headers \/ r.json = "malformed" THEN 400
    ELSE IF r.json = "undecodable" THEN 500
    ELSE 200

Init ==
    /\ table = [e \in Events |-> "absent"]
    /\ registered \in SUBSET Events
    /\ pc = [t \in Threads |-> "idle"]
    /\ ev = [t \in Threads |-> NoEvent]
    /\ verdict = [t \in Threads |-> "duplicate"]
    /\ code = [t \in Threads |-> 200]
    /\ runs = [e \in Events |-> 0]
    /\ outcome = [e \in Events |-> "none"]
    /\ verified = {}
    /\ settled = {}
    /\ faults = 0

--------------------------------------------------------------------------------

\* Move to a label; `Answer' also fixes what the thread will answer.
GoTo(t, label) == pc' = [pc EXCEPT ![t] = label]

Answer(t, status) ==
    /\ GoTo(t, "reply")
    /\ code' = [code EXCEPT ![t] = status]

Conclude(t, status, httpCode) ==
    /\ GoTo(t, "save")
    /\ verdict' = [verdict EXCEPT ![t] = status]
    /\ code' = [code EXCEPT ![t] = httpCode]

\* Steps 1 to 5: the body, the secret, the signature, the headers and the JSON.
Receive(t, e, r) ==
    /\ pc[t] = "idle"
    /\ ev' = [ev EXCEPT ![t] = e]
    /\ IF Refusal(r) = 200
       THEN /\ GoTo(t, "lookup")
            /\ UNCHANGED code
       ELSE Answer(t, Refusal(r))
    /\ verified' = IF Authentic(r) THEN verified \cup {e} ELSE verified
    /\ UNCHANGED <<table, registered, verdict, runs, outcome, settled, faults>>

\* Mutant: a duplicate is answered with 409 Conflict.
LookupConflict(t) ==
    /\ pc[t] = "lookup"
    /\ IF table[ev[t]] = "absent"
       THEN /\ GoTo(t, "insert")
            /\ UNCHANGED code
       ELSE Answer(t, 409)
    /\ UNCHANGED <<table, registered, ev, verdict, historyVars, settled, faults>>

\* Step 6, get_or_create: the SELECT.
Lookup(t) ==
    /\ pc[t] = "lookup"
    /\ IF table[ev[t]] = "absent"
       THEN /\ GoTo(t, "insert")
            /\ UNCHANGED code
       ELSE Answer(t, 200)
    /\ UNCHANGED <<table, registered, ev, verdict, historyVars, settled, faults>>

\* Mutant: the table has no unique constraint.
InsertAnyway(t) ==
    /\ pc[t] = "insert"
    /\ table' = [table EXCEPT ![ev[t]] = "duplicate"]
    /\ GoTo(t, "created")
    /\ UNCHANGED <<registered, ev, verdict, code, historyVars, settled, faults>>

\* Mutant: update_or_create, which writes the defaults over a row that is there.
InsertUpdates(t) ==
    /\ pc[t] = "insert"
    /\ table' = [table EXCEPT ![ev[t]] = "duplicate"]
    /\ IF table[ev[t]] = "absent"
       THEN /\ GoTo(t, "created")
            /\ UNCHANGED code
       ELSE Answer(t, 200)
    /\ UNCHANGED <<registered, ev, verdict, historyVars, settled, faults>>

\* Step 6, get_or_create: the INSERT, and the second SELECT when the unique
\* constraint on (source, event_id) refuses it.
Insert(t) ==
    /\ pc[t] = "insert"
    /\ IF table[ev[t]] = "absent"
       THEN /\ table' = [table EXCEPT ![ev[t]] = "duplicate"]
            /\ GoTo(t, "created")
            /\ UNCHANGED code
       ELSE /\ Answer(t, 200)
            /\ UNCHANGED table
    /\ UNCHANGED <<registered, ev, verdict, historyVars, settled, faults>>

\* Mutant: 404 without a trace in the log.
NoHandlerUnsaved(t) ==
    /\ pc[t] = "created" /\ ev[t] \notin registered
    /\ Answer(t, 404)
    /\ UNCHANGED <<table, registered, ev, verdict, historyVars, settled, faults>>

\* Step 7 without a handler: 404.
NoHandler(t) ==
    /\ pc[t] = "created" /\ ev[t] \notin registered
    /\ Conclude(t, "no_handler", 404)
    /\ UNCHANGED <<table, registered, ev, historyVars, settled, faults>>

CallHandler(t) ==
    /\ pc[t] = "created" /\ ev[t] \in registered
    /\ GoTo(t, "handling")
    /\ runs' = [runs EXCEPT ![ev[t]] = @ + 1]
    /\ UNCHANGED <<table, registered, ev, verdict, code, outcome, verified, settled, faults>>

\* The answer is 200, but for a dict that JsonResponse cannot serialise: that raises
\* in the view, after the status has been saved.
HandlerReturns(t) ==
    /\ pc[t] = "handling"
    /\ \E httpCode \in {200, 500} : Conclude(t, "processed", httpCode)
    /\ outcome' = [outcome EXCEPT ![ev[t]] = "returned"]
    /\ UNCHANGED <<table, registered, ev, runs, verified, settled, faults>>

\* Mutant: the except branch forgets to set handler_status.
HandlerRaisesUnmarked(t) ==
    /\ pc[t] = "handling"
    /\ Conclude(t, "processed", 500)
    /\ outcome' = [outcome EXCEPT ![ev[t]] = "raised"]
    /\ UNCHANGED <<table, registered, ev, runs, verified, settled, faults>>

\* Mutant: the status of a failed WebhookDelivery, which this table does not know.
HandlerRaisesFailed(t) ==
    /\ pc[t] = "handling"
    /\ Conclude(t, "failed", 500)
    /\ outcome' = [outcome EXCEPT ![ev[t]] = "raised"]
    /\ UNCHANGED <<table, registered, ev, runs, verified, settled, faults>>

HandlerRaises(t) ==
    /\ pc[t] = "handling"
    /\ Conclude(t, "error", 500)
    /\ outcome' = [outcome EXCEPT ![ev[t]] = "raised"]
    /\ UNCHANGED <<table, registered, ev, runs, verified, settled, faults>>

\* inbound_event.save(update_fields=["handler_status"])
Save(t) ==
    /\ pc[t] = "save"
    /\ table' = [table EXCEPT ![ev[t]] = verdict[t]]
    /\ GoTo(t, "reply")
    /\ UNCHANGED <<registered, ev, verdict, code, historyVars, settled, faults>>

Forget(T) ==
    /\ pc' = [t \in Threads |-> IF t \in T THEN "idle" ELSE pc[t]]
    /\ ev' = [t \in Threads |-> IF t \in T THEN NoEvent ELSE ev[t]]
    /\ verdict' = [t \in Threads |-> IF t \in T THEN "duplicate" ELSE verdict[t]]
    /\ code' = [t \in Threads |-> IF t \in T THEN 200 ELSE code[t]]

Reply(t) ==
    /\ pc[t] = "reply"
    /\ settled' = IF code[t] = 200 THEN settled \cup {ev[t]} ELSE settled
    /\ Forget({t})
    /\ UNCHANGED <<table, registered, historyVars, faults>>

--------------------------------------------------------------------------------
(* Faults: the answer is lost or the thread dies (worker timeout, an exception of
   the database); the whole process restarts, perhaps with other handlers. *)

Kill(t) ==
    /\ pc[t] # "idle" /\ faults < MaxFaults
    /\ Forget({t})
    /\ faults' = faults + 1
    /\ UNCHANGED <<table, registered, historyVars, settled>>

Restart(handlers) ==
    /\ faults < MaxFaults
    /\ registered' = handlers
    /\ Forget(Threads)
    /\ faults' = faults + 1
    /\ UNCHANGED <<table, historyVars, settled>>

Dispatch(t) ==
    \/ Lookup(t)
    \/ Insert(t)
    \/ NoHandler(t)
    \/ CallHandler(t)
    \/ HandlerReturns(t)
    \/ HandlerRaises(t)
    \/ Save(t)
    \/ Reply(t)

Next ==
    \/ \E t \in Threads : Dispatch(t) \/ Kill(t)
    \/ \E t \in Threads, e \in Events, r \in Requests : Receive(t, e, r)
    \/ \E handlers \in SUBSET Events : Restart(handlers)

Spec == Init /\ [][Next]_vars

\* A request that was accepted is worked on, handlers end, and a sender that has not
\* seen a 200 gets a thread for another attempt again and again.
FairSpec ==
    /\ Spec
    /\ \A t \in Threads : WF_vars(Dispatch(t))
    /\ \A e \in Events : SF_vars(e \notin settled /\ \E t \in Threads : Receive(t, e, Valid))

--------------------------------------------------------------------------------

TypeOK ==
    /\ table \in [Events -> HandlerStatus \cup {"absent"}]
    /\ registered \subseteq Events
    /\ pc \in [Threads -> {"idle", "lookup", "insert", "created", "handling", "save", "reply"}]
    /\ ev \in [Threads -> Events \cup {NoEvent}]
    /\ \A t \in Threads : pc[t] # "idle" => ev[t] # NoEvent
    /\ verdict \in [Threads -> HandlerStatus]
    /\ code \in [Threads -> {200, 400, 401, 404, 500}]
    /\ runs \in [Events -> Nat]
    /\ outcome \in [Events -> {"none", "returned", "raised"}]
    /\ verified \subseteq Events
    /\ settled \subseteq Events
    /\ faults \in Nat

\* A handler is called at most once for an event, although the sender repeats it
\* while it is being processed, after a lost answer, a 404, a 500 or a restart
\* (dispatch, get_or_create on the unique pair).
HandledAtMostOnce == \A e \in Events : runs[e] <= 1

\* The dedup log tells how the call really ended (dispatch, steps 7 and 8).
StatusTellsTheTruth ==
    \A e \in Events :
        /\ table[e] = "processed" => outcome[e] = "returned"
        /\ table[e] = "error" => outcome[e] = "raised"
        /\ table[e] \in {"absent", "no_handler"} => runs[e] = 0

Owns(t, e) == pc[t] \in {"created", "handling", "save"} /\ ev[t] = e

\* An event without a verdict is being worked on by exactly one thread, unless a fault
\* has taken that thread away (dispatch: only the creator of the row goes on).
UndecidedHasOwner ==
    \A e \in Events : table[e] = "duplicate" =>
        \/ faults > 0
        \/ \E t \in Threads : Owns(t, e) /\ \A u \in Threads : Owns(u, e) => u = t

\* An event is recorded only after a request in its name whose body the source signed
\* within the tolerance of this moment, and no sender is told 200 for an event the table
\* does not know (verify_signature; dispatch, the order of steps 2 to 6).
OnlyVerifiedRecorded ==
    \A e \in Events :
        /\ table[e] # "absent" => e \in verified
        /\ e \in settled => table[e] # "absent"

\* The verdict on an event never changes once it is written, whatever arrives later
\* (dispatch: a duplicate is answered without touching the row).
VerdictIsFinal ==
    [][\A e \in Events : table[e] \in Final => table'[e] = table[e]]_vars

\* A sender that repeats an event is told 200 in the end: neither a handler that
\* raises, nor a missing handler, nor a crash makes it repeat for ever (dispatch).
SenderComesToRest == \A e \in Events : <>(e \in settled)

--------------------------------------------------------------------------------
(* The abstract specification. *)

Promise == INSTANCE HandledOnce WITH
    shown <- verified,
    log <- table,
    calls <- runs,
    ending <- outcome,
    told <- settled

\* Threads that race for one event, repeated and refused requests, killed threads and
\* restarts never make a step that the promise to the sender does not allow (dispatch
\* as a whole).
ImplementsPromise == Promise!Spec
================================================================================
