--------------------------------- MODULE Publish ---------------------------------
(***************************************************************************)
(* The outbound half of the library in one piece: changes of the domain    *)
(* (Signals) are emitted to the subscriptions of the moment                *)
(* (Subscriptions) and delivered by execute_delivery (Executor) under      *)
(* whichever backend is configured, while the admin API changes, tests and *)
(* deletes subscriptions and puts deliveries back.                         *)
(*                                                                         *)
(* A Runner is a Celery worker.  The outbox worker is the business of      *)
(* Outbox: under that backend a delivery stays pending here.               *)
(*                                                                         *)
(* stage says where a thread is: a producer in emit_event ("idle",         *)
(* "recorded", "matched", "chosen", "stored", "enqueue"), an admin in a    *)
(* test ("test", "announced", "send", "sent", "wiped") or in a retry or    *)
(* requeue request ("requeue", "enqueue").                                 *)
(***************************************************************************)
EXTENDS Executor, Signals, Subscriptions, FiniteSets

CONSTANTS
    Tests,     \* test requests and runs of the test command
    Runners,   \* Celery workers
    Settings,  \* values of SINPAPEL_WEBHOOKS_BACKEND, one for the whole run
    MaxFaults,  \* bound: killed processes, broker failures, uncaught exceptions
    MaxDisturbances  \* bound: faults and requests to the admin API together

Threads == Producers \cup Admins

Stages == {"idle", "recorded", "matched", "chosen", "stored", "enqueue", "test", "announced",
           "send", "sent", "wiped", "requeue"}

Origins == Changes \cup Tests

ASSUME DeliveriesAssumption == Deliveries = Origins \X Subs
ASSUME ProcessesAssumption == Processes = Threads \cup Runners
ASSUME OriginsAssumption == Changes \cap Tests = {}
ASSUME RolesAssumption ==
    Producers \cap Admins = {} /\ Threads \cap Runners = {}
ASSUME SettingsAssumption ==
    Settings \subseteq {"unset", "inline", "outbox", "celery", "unusable"}
ASSUME MaxFaultsAssumption == MaxFaults \in Nat

VARIABLES
    setting,  \* SINPAPEL_WEBHOOKS_BACKEND
    events,   \* the WebhookEvent table, by the change or test an event is about
    stage,    \* where each thread is
    listed,   \* deliveries a thread has built and not stored, or read to put back
    ids,      \* deliveries a thread is about to enqueue
    tasks,    \* Celery messages in the broker, by delivery
    asked,    \* history: how often an operator put a delivery back
    steady,   \* history: subscriptions that matched from the event to the selection
    ever,     \* history: subscriptions that matched at some moment in between
    lost,     \* history: changes whose hook was dropped or raised
    dropped,  \* history: deliveries whose thread ended before it enqueued them
    awaiting, \* history: deliveries that an attempt, not an operator, put back last
    retries,  \* history: how often an attempt put a delivery back
    faults    \* how many faults happened

threadVars == <<stage, listed, ids>>
matchVars == <<steady, ever>>
retryVars == <<awaiting, retries>>
lossVars == <<lost, dropped, retryVars>>
vars == <<row, execVars, historyVars, signalVars, subVars, setting, events,
          threadVars, tasks, asked, matchVars, lossVars, faults>>

Init ==
    /\ ExecutorInit
    /\ SignalsInit
    /\ SubscriptionsInit
    /\ setting \in Settings
    /\ events = {}
    /\ stage = [t \in Threads |-> "idle"]
    /\ listed = [t \in Threads |-> {}]
    /\ ids = [t \in Threads |-> {}]
    /\ tasks = [d \in Deliveries |-> 0]
    /\ asked = [d \in Deliveries |-> 0]
    /\ steady = [c \in Changes |-> {}]
    /\ ever = [c \in Changes |-> {}]
    /\ lost = {}
    /\ dropped = {}
    /\ awaiting = {}
    /\ retries = [d \in Deliveries |-> 0]
    /\ faults = 0

\* get_delivery_backend: "none" stands for ImproperlyConfigured.
Backend ==
    CASE setting = "unset"    -> "inline"
      [] setting = "unusable" -> "none"
      [] OTHER                -> setting

Fault ==
    /\ faults < MaxFaults /\ faults + requests < MaxDisturbances
    /\ faults' = faults + 1

Bounded == requests' + faults <= MaxDisturbances

Idle(p) == pc[p] = "ready"

At(t, label) == stage[t] = label /\ Idle(t)

GoTo(t, label) == stage' = [stage EXCEPT ![t] = label]

\* The subscription filter of emit_event.
Matching(table, c) ==
    {s \in Subs : /\ table[s].state = "stored"
                  /\ table[s].active
                  /\ Kind[c] \in table[s].events}

\* The deliveries that a thread answers for until it has enqueued them.
Charge(t) ==
    ids[t]
        \cup (IF stage[t] \in {"stored", "send"} THEN listed[t] ELSE {})
        \cup ({cur[t]} \ {NoDelivery})

\* The thread's request or hook ends here, whatever was left to do.
Abandon(t) ==
    /\ Return(t)
    /\ GoTo(t, "idle")
    /\ listed' = [listed EXCEPT ![t] = {}]
    /\ ids' = [ids EXCEPT ![t] = {}]
    /\ dropped' = dropped \cup Charge(t)
    /\ IF t \in Producers
       THEN DropHooks(t) /\ lost' = lost \cup Range(hooks[t])
       ELSE UNCHANGED <<signalVars, lost>>
    /\ UNCHANGED retryVars

--------------------------------------------------------------------------------
(* emit_event, run by a producer for the first of its hooks. *)

\* WebhookEvent.objects.create
RecordEvent(p) ==
    /\ tx[p] = "hooks" /\ At(p, "idle")
    /\ LET c == Head(hooks[p])
       IN  /\ events' = events \cup {c}
           /\ steady' = [steady EXCEPT ![c] = Matching(sub, c)]
           /\ ever' = [ever EXCEPT ![c] = Matching(sub, c)]
    /\ GoTo(p, "recorded")
    /\ UNCHANGED <<row, execVars, historyVars, signalVars, subVars, setting, listed, ids,
                   tasks, asked, lossVars, faults>>

EndEmission(p) ==
    /\ GoTo(p, "idle")
    /\ NextHook(p)
    /\ UNCHANGED <<row, execVars, historyVars, subVars, setting, events, listed, ids,
                   tasks, asked, matchVars, lossVars, faults>>

\* subscriptions.exists(), and the resolution of the backend when there are some.
FindSubscribers(p) ==
    /\ At(p, "recorded") /\ Backend # "none"
    /\ Matching(sub, Head(hooks[p])) # {}
    /\ GoTo(p, "matched")
    /\ UNCHANGED <<row, execVars, historyVars, signalVars, subVars, setting, events, listed,
                   ids, tasks, asked, matchVars, lossVars, faults>>

NoSubscribers(p) ==
    /\ At(p, "recorded")
    /\ Matching(sub, Head(hooks[p])) = {}
    /\ EndEmission(p)

\* Mutant: deactivated subscriptions are not left out.
BuiltForInactive(c) == {c} \X {s \in Subs : Stored(s) /\ Kind[c] \in sub[s].events}

\* WebhookDelivery(subscription=sub, event=event), not saved yet.
Built(c) == {c} \X Matching(sub, c)

\* The second query.
Select(p) ==
    /\ At(p, "matched")
    /\ listed' = [listed EXCEPT ![p] = Built(Head(hooks[p]))]
    /\ GoTo(p, "chosen")
    /\ UNCHANGED <<row, execVars, historyVars, signalVars, subVars, setting, events, ids,
                   tasks, asked, matchVars, lossVars, faults>>

Insertable(D) == \A d \in D : Stored(d[2])

Insert(D) == row' = [d \in Deliveries |-> IF d \in D THEN NewRow("pending") ELSE row[d]]

BulkCreate(p) ==
    /\ At(p, "chosen") /\ Insertable(listed[p])
    /\ Insert(listed[p])
    /\ GoTo(p, "stored")
    /\ UNCHANGED <<execVars, historyVars, signalVars, subVars, setting, events, listed, ids,
                   tasks, asked, matchVars, lossVars, faults>>

\* Mutant: the query for the ids does not ask for the event.
PendingOfAny(c) == {d \in Deliveries : row[d].status = "pending"}

PendingOf(c) == {d \in Deliveries : d[1] = c /\ row[d].status = "pending"}

\* The ids come from a query of their own.
ReadBack(p) ==
    /\ At(p, "stored")
    /\ ids' = [ids EXCEPT ![p] = PendingOf(Head(hooks[p]))]
    /\ listed' = [listed EXCEPT ![p] = {}]
    /\ GoTo(p, "enqueue")
    /\ UNCHANGED <<row, execVars, historyVars, signalVars, subVars, setting, events,
                   tasks, asked, matchVars, lossVars, faults>>

FinishEmission(p) ==
    /\ At(p, "enqueue") /\ ids[p] = {}
    /\ EndEmission(p)

\* ImproperlyConfigured; IntegrityError when a chosen subscription is gone, which
\* keeps the whole bulk_create from happening.
EmissionRaises(p) ==
    /\ \/ At(p, "recorded") /\ Backend = "none" /\ Matching(sub, Head(hooks[p])) # {}
       \/ At(p, "chosen") /\ ~Insertable(listed[p])
    /\ Abandon(p)
    /\ UNCHANGED <<row, historyVars, subVars, setting, events, tasks, asked, matchVars,
                   faults>>

--------------------------------------------------------------------------------
(* backend.enqueue, called by emit_event and by the admin API. *)

\* Mutant: Celery's enqueue is as empty as the outbox's.
DispatchNothing(t, d) ==
    \/ /\ Backend \in {"outbox", "celery"}
       /\ UNCHANGED <<row, execVars, historyVars, tasks>>
    \/ /\ Backend = "inline"
       /\ Fetch(t, d) \/ FetchMissing(t, d)
       /\ UNCHANGED tasks

\* Nothing, a message to the broker, or the attempt itself.
Dispatch(t, d) ==
    \/ /\ Backend = "outbox"
       /\ UNCHANGED <<row, execVars, historyVars, tasks>>
    \/ /\ Backend = "celery"
       /\ tasks' = [tasks EXCEPT ![d] = @ + 1]
       /\ UNCHANGED <<row, execVars, historyVars>>
    \/ /\ Backend = "inline"
       /\ Fetch(t, d) \/ FetchMissing(t, d)
       /\ UNCHANGED tasks

Enqueue(t, d) ==
    /\ At(t, "enqueue") /\ d \in ids[t]
    /\ ids' = [ids EXCEPT ![t] = @ \ {d}]
    /\ Dispatch(t, d)
    /\ UNCHANGED <<signalVars, subVars, setting, events, stage, listed, asked,
                   matchVars, lossVars, faults>>

\* No backend (the retry endpoint asks for it last), or no broker.
EnqueueRaises(t) ==
    /\ At(t, "enqueue") /\ ids[t] # {}
    /\ \/ Backend = "none" /\ UNCHANGED faults
       \/ Backend = "celery" /\ Fault
    /\ Abandon(t)
    /\ UNCHANGED <<row, historyVars, subVars, setting, events, tasks, asked, matchVars>>

\* A failed attempt leaves the row pending when it is to be retried.
NoteRetry(d) ==
    IF row'[d].status = "pending"
    THEN /\ awaiting' = awaiting \cup {d}
         /\ retries' = [retries EXCEPT ![d] = @ + 1]
    ELSE UNCHANGED retryVars

\* Inline attempts and tests are made with allow_retry=False, in the thread.
Attempt(p, allowRetry) ==
    /\ \/ /\ MarkDelivering(p) \/ SaveMissing(p) \/ Post(p) \/ PersistSuccess(p)
          /\ UNCHANGED retryVars
       \/ /\ PersistFailure(p, allowRetry)
          /\ NoteRetry(cur[p])
    /\ UNCHANGED <<signalVars, subVars, setting, events, threadVars, tasks, asked,
                   matchVars, lost, dropped, faults>>

\* What requests.post raises beyond Timeout and ConnectionError.
RequestRaises(p) ==
    /\ Fault
    /\ PostRaises(p)
    /\ UNCHANGED <<signalVars, subVars, setting, events, threadVars, tasks, asked,
                   matchVars, lossVars>>

\* An attempt raised in the middle of a hook, or of a retry or requeue request.
ThreadRaised(t) ==
    /\ pc[t] = "raised" /\ stage[t] = "enqueue"
    /\ Abandon(t)
    /\ UNCHANGED <<row, historyVars, subVars, setting, events, tasks, asked, matchVars,
                   faults>>

--------------------------------------------------------------------------------
(* Celery workers, with early acknowledgement. *)

\* The message leaves the broker before the task runs.
TakeTask(r, d) ==
    /\ tasks[d] > 0
    /\ Fetch(r, d) \/ FetchMissing(r, d)
    /\ tasks' = [tasks EXCEPT ![d] = @ - 1]
    /\ UNCHANGED <<signalVars, subVars, setting, events, threadVars, asked, matchVars,
                   lossVars, faults>>

\* The task fails.
RunnerRaised(r) ==
    /\ pc[r] = "raised"
    /\ Return(r)
    /\ UNCHANGED <<row, historyVars, signalVars, subVars, setting, events, threadVars, tasks,
                   asked, matchVars, lossVars, faults>>

--------------------------------------------------------------------------------
(* POST subscriptions/<s>/test/, and the test_subscription command. *)

\* get_object(); the rest works on the copy.
StartTest(a, x, s) ==
    /\ At(a, "idle") /\ held[a] = Nothing
    /\ x \notin events \cup {d[1] : d \in UNION Range(listed)}
    /\ \A d \in {x} \X Subs : row[d].status = "new"
    /\ Stored(s) /\ OtherRequest /\ Bounded
    /\ listed' = [listed EXCEPT ![a] = {<<x, s>>}]
    /\ GoTo(a, "test")
    /\ UNCHANGED <<row, execVars, historyVars, signalVars, setting, events, ids, tasks,
                   asked, matchVars, lossVars, faults>>

TestEvent(a) ==
    /\ At(a, "test")
    /\ events' = events \cup {d[1] : d \in listed[a]}
    /\ GoTo(a, "announced")
    /\ UNCHANGED <<row, execVars, historyVars, signalVars, subVars, setting, listed, ids,
                   tasks, asked, matchVars, lossVars, faults>>

TestDelivery(a) ==
    /\ At(a, "announced") /\ Insertable(listed[a])
    /\ Insert(listed[a])
    /\ GoTo(a, "send")
    /\ UNCHANGED <<execVars, historyVars, signalVars, subVars, setting, events, listed, ids,
                   tasks, asked, matchVars, lossVars, faults>>

\* IntegrityError outside the try: the event stays.
TestDeliveryRaises(a) ==
    /\ At(a, "announced") /\ ~Insertable(listed[a])
    /\ Abandon(a)
    /\ UNCHANGED <<row, historyVars, subVars, setting, events, tasks, asked, matchVars,
                   faults>>

SendTest(a) ==
    /\ At(a, "send")
    /\ \E d \in listed[a] : Fetch(a, d) \/ FetchMissing(a, d)
    /\ GoTo(a, "sent")
    /\ UNCHANGED <<signalVars, subVars, setting, events, listed, ids, tasks, asked,
                   matchVars, lossVars, faults>>

Erase(D) == row' = [d \in Deliveries |-> IF d \in D /\ Exists(d) THEN NewRow("deleted") ELSE row[d]]

\* finally: after an answer and after an exception.
WipeDelivery(a) ==
    /\ stage[a] = "sent" /\ pc[a] \in {"ready", "raised"}
    /\ Erase(listed[a])
    /\ Return(a)
    /\ GoTo(a, "wiped")
    /\ UNCHANGED <<historyVars, signalVars, subVars, setting, events, listed, ids, tasks,
                   asked, matchVars, lossVars, faults>>

\* Mutant: the event is expected to go with its delivery.
WipeNoEvent(a) ==
    /\ At(a, "wiped")
    /\ Abandon(a)
    /\ UNCHANGED <<row, historyVars, subVars, setting, events, tasks, asked, matchVars, faults>>

WipeEvent(a) ==
    /\ At(a, "wiped")
    /\ events' = events \ {d[1] : d \in listed[a]}
    /\ Abandon(a)
    /\ UNCHANGED <<row, historyVars, subVars, setting, tasks, asked, matchVars, faults>>

--------------------------------------------------------------------------------
(* POST deliveries/<d>/retry/ and deliveries/requeue-dead-letter/. *)

ReadToPutBack(a, D) ==
    /\ At(a, "idle") /\ held[a] = Nothing
    /\ OtherRequest /\ Bounded
    /\ listed' = [listed EXCEPT ![a] = D]
    /\ GoTo(a, "requeue")
    /\ UNCHANGED <<row, execVars, historyVars, signalVars, setting, events, ids, tasks,
                   asked, matchVars, lossVars, faults>>

\* retry: any row; requeue-dead-letter: some or all dead letters, and the backend is
\* resolved before anything is saved.
AskRetry(a, d) == Exists(d) /\ ReadToPutBack(a, {d})

AskRequeue(a) ==
    /\ Backend # "none"
    /\ \E D \in SUBSET {d \in Deliveries : row[d].status = "dead_letter"} :
          D # {} /\ ReadToPutBack(a, D)

PutBack(a, d) ==
    /\ At(a, "requeue") /\ d \in listed[a] /\ Exists(d)
    /\ row' = [row EXCEPT ![d] =
           [status |-> "pending", attempts |-> @.attempts, eta |-> 0]]
    /\ asked' = [asked EXCEPT ![d] = @ + 1]
    /\ awaiting' = awaiting \ {d}
    /\ listed' = [listed EXCEPT ![a] = @ \ {d}]
    /\ ids' = [ids EXCEPT ![a] = {d}]
    /\ GoTo(a, "enqueue")
    /\ UNCHANGED <<execVars, historyVars, signalVars, subVars, setting, events, tasks,
                   matchVars, lost, dropped, retries, faults>>

PutBackRaises(a) ==
    /\ At(a, "requeue") /\ \E d \in listed[a] : ~Exists(d)
    /\ Abandon(a)
    /\ UNCHANGED <<row, historyVars, subVars, setting, events, tasks, asked, matchVars,
                   faults>>

\* The next row of the request, or its end.
PutBackNext(a) ==
    /\ At(a, "enqueue") /\ ids[a] = {}
    /\ GoTo(a, IF listed[a] = {} THEN "idle" ELSE "requeue")
    /\ UNCHANGED <<row, execVars, historyVars, signalVars, subVars, setting, events, listed,
                   ids, tasks, asked, matchVars, lossVars, faults>>

--------------------------------------------------------------------------------
(* The other requests of the admin API, and what they mean for the emissions that
   are between their event and their selection. *)

Selecting(c) ==
    \E p \in Producers :
        stage[p] \in {"recorded", "matched"} /\ Head(hooks[p]) = c

Watch ==
    /\ steady' = [c \in Changes |->
           IF Selecting(c) THEN steady[c] \cap Matching(sub', c) ELSE steady[c]]
    /\ ever' = [c \in Changes |->
           IF Selecting(c) THEN ever[c] \cup Matching(sub', c) ELSE ever[c]]

\* on_delete=CASCADE.
Cascade ==
    row' = [d \in Deliveries |->
        IF sub'[d[2]].state = "deleted" /\ Exists(d) THEN NewRow("deleted") ELSE row[d]]

ManageSubscriptions ==
    /\ \/ \E s \in Subs, active \in BOOLEAN, list \in Lists : Create(s, active, list)
       \/ \E s \in Subs : RotateSecret(s) \/ Destroy(s)
       \/ \E a \in Admins, s \in Subs : At(a, "idle") /\ ReadForPatch(a, s)
       \/ \E a \in Admins, body \in Body, fields \in SUBSET Columns : Patch(a, body, fields)
    /\ Bounded
    /\ Watch
    /\ Cascade
    /\ UNCHANGED <<execVars, historyVars, signalVars, setting, events, threadVars, tasks,
                   asked, lossVars, faults>>

--------------------------------------------------------------------------------

\* The process is killed.  A thread that holds a PATCH or an open transaction and
\* dies is one that never goes on, or one that rolls back.
CrashThread(t) ==
    /\ stage[t] # "idle" \/ (t \in Producers /\ tx[t] = "hooks")
    /\ Fault
    /\ Abandon(t)
    /\ UNCHANGED <<row, historyVars, subVars, setting, events, tasks, asked, matchVars>>

CrashRunner(r) ==
    /\ ~Idle(r)
    /\ Fault
    /\ Return(r)
    /\ dropped' = dropped \cup ({cur[r]} \ {NoDelivery})
    /\ UNCHANGED <<row, historyVars, signalVars, subVars, setting, events, threadVars, tasks,
                   asked, matchVars, lost, retryVars>>

Transact(p) ==
    /\ TransactionStep(p)
    /\ UNCHANGED <<row, execVars, historyVars, subVars, setting, events, threadVars, tasks,
                   asked, matchVars, lossVars, faults>>

Emit(p) ==
    \/ RecordEvent(p)
    \/ FindSubscribers(p)
    \/ NoSubscribers(p)
    \/ Select(p)
    \/ BulkCreate(p)
    \/ ReadBack(p)
    \/ FinishEmission(p)
    \/ EmissionRaises(p)

Test(a) ==
    \/ \E x \in Tests, s \in Subs : StartTest(a, x, s)
    \/ TestEvent(a)
    \/ TestDelivery(a)
    \/ TestDeliveryRaises(a)
    \/ SendTest(a)
    \/ WipeDelivery(a)
    \/ WipeEvent(a)

Requeue(a) ==
    \/ \E d \in Deliveries : AskRetry(a, d) \/ PutBack(a, d)
    \/ AskRequeue(a)
    \/ PutBackRaises(a)
    \/ PutBackNext(a)

Run(r) ==
    \/ \E d \in Deliveries : TakeTask(r, d)
    \/ Attempt(r, TRUE)
    \/ RunnerRaised(r)

\* Nothing is left to do: the model stops here and nowhere else.
Rest ==
    /\ \A t \in Threads : stage[t] = "idle"
    /\ \A p \in Producers : tx[p] = "outside"
    /\ \A p \in Processes : Idle(p)
    /\ \A d \in Deliveries : tasks[d] = 0
    /\ UNCHANGED vars

Next ==
    \/ \E p \in Producers : Transact(p) \/ Emit(p)
    \/ \E a \in Admins : Test(a) \/ Requeue(a)
    \/ \E t \in Threads :
          \/ \E d \in Deliveries : Enqueue(t, d)
          \/ EnqueueRaises(t)
          \/ ThreadRaised(t)
          \/ Attempt(t, FALSE)
          \/ CrashThread(t)
    \/ \E r \in Runners : Run(r) \/ CrashRunner(r)
    \/ \E p \in Processes : RequestRaises(p)
    \/ ManageSubscriptions
    \/ Rest

Spec == Init /\ [][Next]_vars

\* What a thread does once its hook or request has begun.
Proceed(t) ==
    \/ t \in Producers /\ Emit(t)
    \/ t \in Admins /\ stage[t] # "idle" /\ (Test(t) \/ Requeue(t))
    \/ \E d \in Deliveries : Enqueue(t, d)
    \/ EnqueueRaises(t)
    \/ ThreadRaised(t)
    \/ Attempt(t, FALSE)

\* Threads go on with what they have begun and Celery workers run.  Nothing obliges a
\* producer or an operator to begin anything, a transaction to end, or a fault to happen.
FairSpec ==
    /\ Spec
    /\ \A t \in Threads : WF_vars(Proceed(t))
    /\ \A r \in Runners : WF_vars(Run(r))

--------------------------------------------------------------------------------
(* What the library promises its publisher and its subscribers. *)

TypeOK ==
    /\ ExecutorTypeOK /\ SignalsTypeOK /\ SubscriptionsTypeOK
    /\ setting \in Settings
    /\ events \subseteq Origins
    /\ stage \in [Threads -> Stages]
    /\ listed \in [Threads -> SUBSET Deliveries]
    /\ ids \in [Threads -> SUBSET Deliveries]
    /\ tasks \in [Deliveries -> Nat]
    /\ asked \in [Deliveries -> Nat]
    /\ steady \in [Changes -> SUBSET Subs]
    /\ ever \in [Changes -> SUBSET Subs]
    /\ lost \subseteq Changes
    /\ dropped \subseteq Deliveries
    /\ awaiting \subseteq Deliveries
    /\ retries \in [Deliveries -> Nat]
    /\ faults \in 0..MaxFaults

Destroyed == {s \in Subs : told[s].state = "deleted"}

\* The change is still on its way to emit_event, or in it.
Underway(c) == \E p \in Producers : c \in Range(hooks[p])

\* Nothing is announced that did not happen: no event is about a change that was
\* rolled back, wholly or to a savepoint, or that its handler should have ignored
\* (signals.py, transaction.on_commit).
EventsAreTrue ==
    \A c \in Changes \cap events : c \in durable /\ Newsworthy(c)

\* Everything that happened is announced: a committed change has its event unless the
\* hook is still to run, or was lost.  And hooks are lost for three reasons only: a
\* fault, an unusable backend, and the deletion of a subscription in the middle of
\* an emission (signals.py, emit_event).
ChangesAreAnnounced ==
    /\ \A c \in durable : Newsworthy(c) => c \in events \/ Underway(c) \/ c \in lost
    /\ lost # {} => faults > 0 \/ Backend = "none" \/ Destroyed # {}

\* The deliveries of an event are for the subscriptions that wanted it: every one that
\* was active and listed the type all the time from the event to the selection,
\* and none that at no time was or did (emit_event between requests of the admin
\* API).
SubscribersAreServed ==
    \A c \in Changes : \A s \in Subs :
        /\ row[<<c, s>>].status # "new" => s \in ever[c]
        /\ c \in events \ lost /\ ~Underway(c) /\ s \in steady[c] =>
              row[<<c, s>>].status # "new"

\* Somebody is going to attempt a pending delivery: the outbox worker, the thread that
\* has yet to enqueue it, a Celery message or a running attempt, whether it is new or was
\* put back by an operator.  The exceptions are a thread that ended too early, for one
\* of the three reasons above, and under Celery what an attempt has put back for a retry,
\* which is RetriesAreMade's business (emit_event, backends, retry endpoints).
PendingIsCaredFor ==
    /\ \A d \in Deliveries : row[d].status = "pending" =>
          \/ Backend = "outbox" \/ tasks[d] > 0 \/ d \in dropped
          \/ \E t \in Threads : d \in Charge(t)
          \/ \E r \in Runners : cur[r] = d
          \/ Backend = "celery" /\ d \in awaiting
    /\ dropped # {} => faults > 0 \/ Backend = "none" \/ Destroyed # {}

\* Without an outbox worker a delivery is posted once, and once more for every time it
\* was put back, by an operator or for a retry, however emissions, tests and requests
\* overlap.  Inline attempts are never retried (InlineBackend, CeleryBackend,
\* emit_event's query for the ids).
PostsAreAskedFor ==
    Backend # "outbox" => \A d \in Deliveries :
        posts[d] <= 1 + asked[d] + (IF Backend = "inline" THEN 0 ELSE retries[d])

\* A delivery that a failed attempt under Celery has put back is retried (README, section
\* 6: "Distributed retry"; celery.py: "mismo retry policy que outbox").  It is violated:
\* see the README.
RetriesAreMade ==
    \A d \in Deliveries :
        row[d].status = "pending" /\ d \in awaiting /\ Backend = "celery" ~>
            row[d].status # "pending"

\* Once a test is over, nothing of it is left: no delivery short of a fault, and no
\* event unless, besides, its subscription was deleted under it (test action and
\* command, "Synthetic event es transient").
TestsLeaveNothing ==
    \A x \in Tests :
        (\A a \in Admins : \A d \in listed[a] : d[1] # x) =>
            /\ (\E s \in Subs : Exists(<<x, s>>)) => faults > 0
            /\ x \in events => faults > 0 \/ Destroyed # {}
================================================================================
