# A verification project for sinpapel-webhooks

TLA+ models of the webhook library under `src/`, the TLC runs that check them on
small instances, and theorems proved with TLAPS for every instance.

- [The system](#the-system): inventory and hazards
- [The modules](#the-modules): what models what
- [The runs](#the-runs): questions, bounds, results
- [Fairness](#fairness)
- [The proofs](#the-proofs)
- [Disagreements between documents and code](#disagreements-between-documents-and-code)
- [What is not modelled](#what-is-not-modelled) and [the plan](#the-plan)

## The system

sinpapel-webhooks is a Django app. Domain events of *sinpapel* become rows of an
outbound queue that is drained by HTTP POSTs; inbound POSTs of other services are
verified, deduplicated and handed to registered handlers.

| Component | State | Operations | Talks to |
|---|---|---|---|
| signal handlers (`signals.py`) | the `on_commit` hooks of the open transaction | snapshot the payload in `post_save`, emit after commit | `emit_event` |
| `emit_event` (`emit.py`) | `WebhookEvent`, `WebhookDelivery` rows | create the event, one pending delivery per matching active subscription, `enqueue` each | backend |
| backend factory (`delivery/factory.py`) | one cached backend object | `get_delivery_backend` | backends |
| backends (`delivery/backends/`) | none (outbox, inline), broker messages (celery) | `enqueue`, `deliver_now` | executor |
| executor (`delivery/executor.py`) | the row, and the object in memory that was read from it | read, mark `delivering` and count, POST, persist | consumer, retry policy |
| retry policy (`delivery/retry.py`) | none | `should_retry`, `compute_next_retry_at` | |
| worker (`management/commands/sinpapel_webhooks_worker.py`) | the claimed ids, row locks while claiming | claim, drain, sleep, `--once`, SIGINT | outbox backend |
| requeue command (`..._requeue_dead_letter.py`) | | one UPDATE of dead letters | table |
| admin API, deliveries (`admin_api/viewsets.py`) | rows read at the start of a request | retry, requeue-dead-letter | backend, table |
| admin API, subscriptions (`admin_api/viewsets.py`, `serializers.py`) | `WebhookSubscription` rows; the instance that a PATCH has read | create, PATCH and PUT, DELETE, rotate-secret | table; deliveries through the cascade |
| test endpoint and command (`viewsets.py`, `..._test_subscription.py`) | a synthetic event and delivery, for the time of one attempt | create both, `deliver_now`, delete both | executor, table |
| inbound view and dispatcher (`views.py`, `receivers/dispatch.py`) | `InboundWebhookEvent` rows | verify, deduplicate, call the handler, record, answer | signing, registry |
| registry (`receivers/registry.py`) | (source, event) to handler | filled at startup, `get` | |
| signing (`signing.py`) | none | `compute_signature`, `verify_signature` with a time window | |

What makes the system correct, component by component, and where it is hard:

- **Executor.** The row and the object in memory are two copies. Between its four
  steps other workers, operators and deletions write the row, and the process may
  die. It must count every POST, say `delivered` only after a 2xx, and leave a row
  in `delivering` only while somebody is executing it.
- **Worker.** The batch is a list of ids chosen in a transaction that ends before
  the work begins. What was due when it was claimed need not be due, or exist, when
  its turn comes. Rows must neither be lost with a dead worker nor sent twice.
- **Operators.** Retry and requeue write `pending` over any status, from a read
  that may be old. The budget of attempts must survive them.
- **Retry policy.** Two off-by-one hazards: the index into the backoff list, and
  the comparison with `MAX_ATTEMPTS`.
- **Inbound.** The sender repeats; several copies of one event run at once; the
  row is committed before the handler runs. A handler must be called at most once,
  and the dedup log must say what happened.
- **Signals and emit.** A handler runs inside the host's transaction and its hook after
  it: nothing may be announced that was rolled back, to a savepoint or wholly, and
  nothing that was committed may be forgotten. `emit_event` is six separate
  statements without a transaction of its own (event, `exists`, second query,
  `bulk_create`, third query for the ids, `enqueue`), between which subscriptions
  change and processes die.
- **Subscriptions.** A PATCH saves every column of the instance it read, so it can
  undo whatever other requests did in between.
- **Signatures.** The sender's stamp is truncated to a second, the receiver's clock is
  not, and clocks differ in both directions.

The hazards, with the line where each one bites and the properties that watch it,
are listed in `PROJECT.json`.

## The modules

```
RetryPolicy ──> RetryChain ──> MCRetryChain
     │
     └──> Executor ──> Outbox ──> MCOutbox
              │           └── INSTANCE DeliveryLifecycle
Signals ──────┤
Subscriptions ┴──> Publish ──> MCPublish

Signing ──> Inbound ──> MCInbound
               └── INSTANCE HandledOnce

proofs:  RetryChainProofs
         ExecutorProofs ──> OutboxProofs ──> SoleWorkerProofs
         ExecutorProofs, SignalsProofs ──> PublishProofs ──> PublishPromises
         InboundProofs
```

**RetryPolicy** holds the pure functions. An answer is a status code, or `NoCode`
where Python has `None`, and a flag for the error text. `FailureStatus` is
`_persist_failure` without its writes: the status that a failed attempt leads to.
The jitter of `random.uniform(0.9, 1.1)` is the set of whole delays in the window.

**RetryChain** is one delivery that nobody disturbs. It exists to check the policy
against a definition of the schedule that is written independently of it.

**Executor** is `execute_delivery` as the steps the database and the network see:

| Action | Code |
|---|---|
| `Fetch`, `FetchMissing` | `.get(pk=...)`, and its `DoesNotExist` |
| `MarkDelivering`, `SaveMissing` | the in-memory increment and the `save` of status and attempts; `DatabaseError` when the row is gone |
| `Post`, `PostRaises` | `requests.post`: an answer, a caught transport error (`NoCode`), or an exception that is not caught, before or after the request went out |
| `PersistSuccess`, `PersistFailure` | the two `_persist_*` functions |

`row` is the table (status, attempts and `eta`, which is `scheduled_at` minus now);
`mem` is the attempts of the object in memory; `posts` and `acked` are history
variables that only properties read. An uncaught exception leaves the process in
`"raised"`, which its caller deals with.

**Outbox** adds the worker loop (`Claim`, `Commit`, `Deliver`, `FinishBatch`,
`Wake`), its end (`Die`, `Crash`, `Interrupt`) and its next start (`Start`), and
everything else that writes the table: `BulkCreate`, `Delete` (cascades),
`AdminRetry`, the two steps of a requeue-dead-letter request, and
`CommandRequeue`. `LockedBy` is the set of rows that a claim transaction holds under
SELECT ... FOR UPDATE; any other UPDATE waits for them. On a database without
SKIP LOCKED it is empty. A row's time passes with `Tick`; a row that is overdue by
`MaxOverdue` stays so.

**DeliveryLifecycle** is the abstract specification: statuses, attempts and which
deliveries are in flight, with no workers, batches, clocks or copies. It allows an
attempt to begin only from `pending` and never beside another attempt of the same
delivery, and a result to be recorded only on a delivery in flight. `Outbox` with a
single worker implements it under the mapping at the end of `Outbox.tla`.

**Signals** is `signals.py` on top of Django's transactions. `change` says whether a
save was a creation or an update, `Emits` is the guard of the handlers (`created` for
some event types, every save for others). `work` and `durable` are a transaction's
changes before and after its commit; `hooks` is `run_on_commit`, in order; `inner`
and `mark` remember what belongs to the open savepoint. Rolling back takes changes and
hooks along (`Undo`); outside a transaction a save is durable and its hook runs at
once. A hook that raises drops the hooks behind it (`DropHooks`), since
`on_commit` is called without `robust`.

**Subscriptions** is the table under create, PATCH, rotate-secret and DELETE. A PATCH
is `ReadForPatch` (`get_object`) and `Patch` (`update`, `save` without
`update_fields`), with the copy in `held` in between. `told` is what the clients were
answered, `clobbered` the rows over which an old copy was saved.

**Publish** composes the three: a producer that runs its first hook goes through
`emit_event` one statement at a time (`RecordEvent`, `FindSubscribers` or
`NoSubscribers`, `Select`, `BulkCreate`, `ReadBack`, `Enqueue` for each id,
`FinishEmission`), `Dispatch` is the `enqueue` of the configured backend, and a
`Runner` is a Celery worker with early acknowledgement (`TakeTask`). An admin thread
may run a test (`StartTest` to `WipeEvent`), or a retry or requeue-dead-letter request
(`ReadToPutBack`, `PutBack`, `Enqueue`, `PutBackNext`); `ManageSubscriptions` is the
rest of the admin API, with the cascade of a DELETE. `EmissionRaises`,
`EnqueueRaises`, `RequestRaises`, `PutBackRaises` and `TestDeliveryRaises` are the
exceptions that the code lets through, `CrashThread` and `CrashRunner` are killed
processes. `steady` and `ever` record which subscriptions matched all the time, or at
some time, from the event to the selection; `lost` and `dropped` what an exception or
a crash left undone; `awaiting` and `retries` which deliveries a failed attempt has put
back for a retry, until an operator puts them back, and how often.

**Signing** is `verify_signature` over the shape of the header, the age of the stamp in
fractions of a second, and whether the code is genuine, in the order of the checks. What
it raises is part of its result: a stamp that no float can hold stumbles over the drift,
before the window, and a code that is not ASCII over `compare_digest`, behind it.

**HandledOnce** is the abstract specification of the receiver: one event as its sender sees
it, recorded after a request in its name whose body the source signed (the code
covers the stamp and the body, not the header with the id of the event), handled at
most once, decided once for ever by what really happened, acknowledged only when it is on record. It has no
threads, requests or crashes; an event may stop at any stage. `Inbound` implements it.

**Inbound** is `ReceiverDispatcher.dispatch` under concurrent request threads. A
request is an event and what the checks see of it (`Requests`: is the source known, are
the headers there, the signature, the JSON), in the order in which they look. `get_or_create` is its SELECT and its INSERT, with the unique constraint
deciding between two threads that both found nothing. The sender is any at-least-once
sender. `Kill` is a thread that dies or an answer that is lost; `Restart` ends all
threads and may change the set of registered handlers, as a deployment does. A
handler's dictionary that `JsonResponse` cannot serialise is a 500 after the
status was saved; a body in no detectable encoding is a 500 before anything is.

Operators whose comment starts with "Mutant" are never part of a specification:
they are plausible bugs in the operator that follows them, and each property is
known to fail when one of them takes that operator's place.

## The runs

| Run | Instance | Result |
|---|---|---|
| `retry_chain` | 5 attempts, 3 backoff entries, 7 answers | holds |
| `retry_schedule` | the default settings | `WholeScheduleUsed` violated |
| `outbox_single` | 1 worker, 2 deliveries, batches of 2, 3 attempts, all faults, 1 forced retry per row, 1 run of the requeue command | holds |
| `outbox_workers` | 2 workers on PostgreSQL with `--once`, restarted; 1 delivery, 1 crash or uncaught exception, 1 forced retry, fair | holds |
| `outbox_double_send` | 2 workers, no fault | `AckedNeverResent` violated |
| `outbox_attempts_atomic` | 2 workers, no fault | `EveryPostCounted` violated |
| `outbox_interrupt` | 1 worker, 1 SIGINT | `GracefulExit` violated |
| `outbox_at_least_once` | 1 fair worker, 1 crash | `AtLeastOnce` violated |
| `inbound` | 2 threads, 2 events, 2 faults; signatures on both sides of both edges of the window | holds |
| `publish` | 2 subscriptions, 2 changes, 1 producer, 1 admin, 1 test, 1 Celery worker, 4 settings of the backend | holds |
| `patch_keeps_secret` | as `publish`, without faults | `SecretSurvivesPatch` violated |
| `celery_retries` | 1 subscription, 1 change, Celery, fair, no fault and no request | `RetriesAreMade` violated |

What they show:

- `retry_chain`. The delays of a chain add up to the configured schedule within
  10% (`WaitedWithinJitter`), clamped entries included. A chain ends after an answer
  that says the request is wrong, or after `MaxAttempts` answers every one of which
  was worth a retry (`GivesUpForAReason`).
- `outbox_single`. With one worker, whatever operators, deletions, crashes, SIGINTs
  and uncaught exceptions do in between: a delivery is attempted at most
  `MaxAttempts` times plus once per forced retry (`AttemptBudget`); every POST is in
  the attempts column (`EveryPostCounted`); an acknowledged delivery is not sent
  again unless somebody asks (`AckedNeverResent`); an attempt starts only from a row
  that is pending and due at that moment, however old the claim
  (`HonoursSchedule`); and the whole implements `DeliveryLifecycle`
  (`ImplementsLifecycle`). `SoleWorkerInv` is the reason why, see the proofs.
- `outbox_workers`. When two workers execute the same row, which is no rarity (see
  `outbox_double_send`), `delivered` still rests on a 2xx (`DeliveredWasAcked`), and
  short of a fault a row in `delivering` is being executed (`DeliveringHasExecutor`). No
  row stays `pending` for ever, although a worker may die with it in its batch and another
  may put it back from an old copy (`NoRowWaitsForever`). Without faults every delivery
  is decided (`DecidedWithoutFaults`): lost increments cost attempts, but not all of them.
- `inbound`. A handler is called at most once per event (`HandledAtMostOnce`); the
  log says how the call ended (`StatusTellsTheTruth`) and does not change
  (`VerdictIsFinal`); a row without a verdict has exactly one thread working on it,
  short of a fault (`UndecidedHasOwner`); only requests whose body was signed within
  the tolerance leave a trace and only recorded events are answered 200 (`OnlyVerifiedRecorded`); the
  whole implements `HandledOnce` (`ImplementsPromise`); and a sender that
  repeats itself comes to rest (`SenderComesToRest`). That last property says only
  that the sender is told 200. After a killed thread, a missing handler or an
  exception the event is acknowledged on repetition and never handled: this is what
  the README of the library documents ("duplicate" is answered 200), and it means
  that handlers run *at most* once, not exactly once.
- `publish`. Whatever transactions, emissions, requests and faults do between each
  other's steps: no event is about a change that was rolled back or that its handler
  should ignore (`EventsAreTrue`). A committed change has its event, unless the hook is
  still to run or was lost, and hooks are lost for three reasons only: a fault, an
  unusable backend, the deletion of a subscription in the middle of an emission
  (`ChangesAreAnnounced`). Deliveries are made for every subscription that matched all
  the time from the event to the selection and for none that never did
  (`SubscribersAreServed`): what happens in between decides the others. A pending
  delivery has somebody who will attempt it, also one that an operator has put back
  (`PendingIsCaredFor`). The exceptions are the same three, and what a failed attempt
  under Celery has put back for a retry: nobody cares for that, which is not excused
  but refuted on its own in `celery_retries`. Without an outbox worker a delivery is posted once, and at most once
  more for each time it was put back, by an operator or, under Celery, for a retry
  (`PostsAreAskedFor`); inline attempts are never retried. That is why the
  third query of `emit_event` must ask for its own event only. A test leaves no
  delivery behind short of a fault, and its event only when its subscription was deleted
  under it (`TestsLeaveNothing`). And rows that no PATCH has written over with an old copy
  are what the answered requests say (`OnlyStalePatchClobbers`); `patch_keeps_secret`
  is the other half of that.

**Bounds.** Two deliveries are needed for a batch with a tail and for a request that
requeues several rows; properties speak of one delivery at a time or of one worker
and one delivery, so a third adds no new kind of interleaving. Two workers are
needed for overlap, and the theorems cover any number. `outbox_workers` has a single
delivery, for which both compete all the time; rows of several deliveries meet only
in a batch, which is the subject of `outbox_single`. Two attempts are the least
with a retry and an exhaustion; the main run has three, so that a retry may fail
again, and its backoff list has two entries, so that the last one is clamped. The
answers are one that succeeds, one that is refused, one worth a retry, and no answer.
`MaxOverdue` = 1 tells a row that is just due from one that has been due for a
while. One fault, one forced retry per delivery and one run of the command are
combined with each other in every order. `MaxFaults`, `MaxAsked`, `MaxRequeues` and
`MaxOverdue` are bounds of the models, not of the code; the theorems hold for all
their values.

In `publish` one producer suffices for the order of hooks, savepoints and emissions of
one thread; what two producers could do to each other passes through the tables, where
the admin thread, the test and the Celery worker already interfere with every step,
and the proofs about `Signals` and `EventsAreTrue` cover any number. Two subscriptions are
needed for one that changes during an emission and one that does not; two changes, one
of each kind of event type, for two hooks in a transaction, one of which is dropped with
the other. `MaxRequests` = 2 and `MaxFaults` = 1, together at most
`MaxDisturbances` = 2, allow any two requests, or a request and a fault, at any two
points. Every status code other than a 2xx means to this module what no answer means,
so `Codes` is one code. All subscriptions list the first kind of event and may be
deactivated, so a change of the list is a deactivation by another name. "inline" is not
among the settings because "unset" means the same. The step `Rest` is there so that the
deadlock check accepts the end of all activity and nothing else. The outbox worker is
not in `Publish`: under that backend a delivery stays pending there, and `Outbox`, whose
`BulkCreate` and `Delete` stand for `emit_event` and the cascade, goes on from that.

In `inbound` a second has two ticks and the tolerance is one second: the signatures
have ages just inside and just outside the window on either side.

`RetryChain` stops when the delivery settles, so its configurations do not check for
deadlock. All the others do. Symmetry of deliveries and of subscriptions is used only
in runs without liveness properties.

## Fairness

`Outbox!FairSpec` has weak fairness on each worker's steps as a whole, on the loop of
a requeue request, and on time. A worker that has stopped is started again: the
module docstring of the worker names cron and systemd's `Restart=` for that. Nothing
obliges a producer or an operator to act, or a fault to happen; faults are bounded,
because a worker that crashes for ever delivers nothing.

`Publish!FairSpec` has weak fairness on each thread's next statement in a hook, a test or
a request about deliveries that it has begun, and on each Celery worker: a process that
is not killed goes on, and `requests.post` has a timeout. A worker that was killed is
idle, as the next process of its pool is. Nobody is obliged to begin anything, no
transaction to end, and no fault to happen.

`Inbound!FairSpec` has weak fairness on each thread (handlers end) and strong
fairness on each event's next attempt: a thread is busy now and then, and the
accept queue of the server does not starve one sender for ever.

## The proofs

Everything below is checked by TLAPS without assumptions other than the named
ASSUMEs of the modules: `MaxAttempts` is a positive number, `Backoff` a non-empty
list of numbers, `Workers` are processes, `NoDelivery` is no delivery, producers, admins
and runners are different processes, tests are no changes, and so on.

| Theorem | Says | For |
|---|---|---|
| `RetryChainProofs!ChainTypeCorrect` | `TypeOK` | any settings and answers |
| `RetryChainProofs!GivenUpForAReason` | `GivesUpForAReason` | any settings and answers |
| `RetryChainProofs!ScheduleWaitedFor` | `WaitedWithinJitter` | any backoff list |
| `OutboxProofs!TypeCorrect` | `TypeOK` | any number of workers |
| `OutboxProofs!DeliveredMeansAcknowledged` | `DeliveredWasAcked` | any number of workers |
| `OutboxProofs!DeliveringMeansExecuting` | `DeliveringHasExecutor` | any number of workers |
| `SoleWorkerProofs!SoleWorkerInvariant` | `SoleWorkerInv` | one worker |
| `SoleWorkerProofs!AttemptBudgetHolds` | `AttemptBudget` | one worker |
| `SoleWorkerProofs!PostsAreCounted` | `EveryPostCounted` | one worker |
| `SoleWorkerProofs!AcknowledgedOnce` | `AckedNeverResent` | one worker |
| `SoleWorkerProofs!ScheduleHonoured` | `HonoursSchedule` | one worker |
| `SoleWorkerProofs!SoleWorkerImplementsLifecycle` | `ImplementsLifecycle` | one worker |
| `PublishProofs!TypeCorrect` | `TypeOK` | any instance |
| `PublishProofs!EventsAreAlwaysTrue` | `EventsAreTrue` | any instance |
| `PublishProofs!PatchesStayFaithful` | `OnlyStalePatchClobbers` | any instance |
| `PublishProofs!PatchesAreFaithful` | the same of `SubscriptionsSpec` | any instance |
| `PublishPromises!ChangesAreAlwaysAnnounced` | `ChangesAreAnnounced` | any instance |
| `PublishPromises!SubscribersAreAlwaysServed` | `SubscribersAreServed` | any instance |
| `PublishPromises!PendingIsAlwaysCaredFor` | `PendingIsCaredFor` | any instance |
| `PublishPromises!PostsAreAlwaysAskedFor` | `PostsAreAskedFor` | any instance |
| `PublishPromises!TestsAlwaysLeaveNothing` | `TestsLeaveNothing` | any instance |
| `InboundProofs!TypeCorrect` | `TypeOK` | any threads and faults |
| `InboundProofs!AtMostOneCall` | `HandledAtMostOnce` | any threads and faults |
| `InboundProofs!TruthfulLog` | `StatusTellsTheTruth` | any threads and faults |
| `InboundProofs!VerdictsAreFinal` | `VerdictIsFinal` | any threads and faults |
| `InboundProofs!UndecidedIsOwned` | `UndecidedHasOwner` | any threads and faults |
| `InboundProofs!OnlyVerified` | `OnlyVerifiedRecorded` | any threads and faults |
| `InboundProofs!PromiseIsKept` | `ImplementsPromise` | any threads and faults |
| `InboundProofs!PromptIsInWindow` | a message that arrives within the tolerance less one second is in the window | any tolerance, any resolution |
| `InboundProofs!ReplayIsOutOfWindow` | a message older than the tolerance is not | any tolerance, any resolution |

*Retry chain.* The reference schedule `Nominal` is a recursive function, and the
library's induction theorems take a predicate, which the provers here cannot
instantiate. `SetInduction` is induction for a *set* of numbers, from the
well-foundedness of the order; with it the sums up to n exist (`SumsExist`), agree with
each other (`SumsAgree`), and so `Nominal` obeys its own equation
(`NominalRecurrence`). Each delay is within 10% of its entry (`DelayIsTheEntry`), and so
are the sums. That a chain gives up for a reason rests on `AttemptLeft`: what is pending
has an attempt to go.

*One worker.* `AttemptBudget` is not inductive: an attempt may start from a row in
the queue, so the row must have an attempt left (`PendingHasBudget`); the number
written is the one in memory, so memory must agree with the row
(`SnapshotIsCurrent`), although an operator may have changed the status meanwhile;
and the row must still be in the queue when its turn in the batch comes
(`BatchStaysDue`). Posts are counted because between the save and the POST there is
one to spare (`PostsLag`). Acknowledged deliveries are not resent because such a row
never returns to the queue by itself (`ClosedStaysClosed`). Steps of the
environment are reduced to five things that may happen to a row (kept, created,
restarted, gone, forced), which are handled once for all. `SoleWorker`, the
hypothesis that any two workers are equal, is what makes memory agree with the row;
the run `outbox_attempts_atomic` shows that it cannot be dropped.

*Refinement.* With one worker every step of `Outbox` is a step of `DeliveryLifecycle`
under the mapping, or changes nothing that it sees (`Unseen`). The attempt begins, settles
and is abandoned in `BeginMapped`, `SettleMapped` and `AbandonMapped`; the five
things the environment may do to a row are mapped in `EnvironmentMapped`. The
single-worker invariant is what makes the guards of the abstract actions true, and a key
that was never used has no attempts (`BlankUntilCreated`).

*Any number of workers.* `DeliveredWasAcked` needs only that a 2xx in memory has been
recorded; `DeliveringHasExecutor` is inductive with the types.

*Publish.* `NextOfSubs` and `NextOfSignals` show that every step of the composition is
a step of `Subscriptions`, or of one producer in `Signals`, or leaves their variables
alone; what is proved of the parts then holds of the whole. `EventsAreTrue` rests on
`Ledger`: a change that is not committed belongs to one producer (`OneOwner`); a hook
is about a newsworthy change that its producer has made, or, once the hooks run, has
committed (`HooksAreTrue`); and the hooks from before a savepoint are about changes
from before it, or else a partial rollback would leave a hook without its change
(`MarkSeparates`). What is durable stays what it is (`Kept`), so an event that was
true stays true. That a test announces nothing else is `TestPrepared`. The types need
`Ledger` too, and that a thread in the middle of `emit_event` has a hook (`Emitting`).

*What Publish promises.* Every one of the five theorems is an invariant of its own on top
of `Groundwork`, which holds of any step what the rest needs: the types and the truth of
events; `News`, the other half of `Ledger` (a newsworthy change of an open transaction
has its hook, before the mark if it is from before the savepoint, and no change has
two); `SubsInv` (a subscription that a client was told is gone is gone, and a row belongs
to a subscription that has been); `Control` (which thread can be at which stage with
what in hand); and `RowsInv` (what a thread lists, is about to enqueue or executes is a
row that has been made). A step is a request about subscriptions or belongs to one
process, and leaves every other process where it is (`NextMoves`, `OthersStill`).

- `ChangesAreAnnounced`: `NewsInv` follows a change from its commit through the hook to
  its event. `LossInv` says why a hook is lost: an `IntegrityError` in `bulk_create`,
  a row that is gone when an inline attempt reads or saves it, or a missing key, each of
  them only after somebody destroyed a subscription (`MissingRow`, `StopsForAReason`).
- `SubscribersAreServed`: during an emission `steady` is within the matching
  subscriptions and these within `ever`; after the selection, the list is between the
  two (`Serves`); an emission that is over has served whom it had to (`Served`). It
  needs that an event has one emission only (`OneEmitter`).
- `TestsLeaveNothing`: a delivery of a test is there only while its test is at `send`
  or `sent`, its event only while its test has a stage at all (`Leftovers`).
- `PendingIsCaredFor`: `CareInv` names whoever has a pending delivery more narrowly than
  the property does (an attempt that has already been marked does not count, for its
  row is not pending). A row becomes pending in four places only (`PendingFrom`), and
  one of them, a failed attempt of a worker, is an exception under Celery for as long as
  nobody puts the row back (`AwaitingGoesOn`). Only Celery's workers retry, and they run
  under no other setting (`CeleryOnly`). That a delivery which is new or put back
  is in somebody's hands rests on the order of an emission: hook, event, deliveries
  (`OrderInv`), and on no two tests sharing a delivery (`FreshInv`).
- `PostsAreAskedFor`: for each delivery, the processes that may still post it, the
  messages in the broker and the POSTs that were made are together at most one for its
  making and one for every time an operator put it back (`Balance`). That is tighter
  than the property, which allows for retries: the code makes none under Celery, but a
  version that made them would be right. Every move of a
  process pays for what it does (`Pays`). The place where this could fail is the third
  query of `emit_event`: that it returns nothing that the emission has not made itself
  is the `stored` part of `EmissionInOrder`. Processes are counted with the cardinality
  of a finite set, whose finiteness is part of the invariant: the theorem holds for
  infinitely many processes, too.

*Subscriptions.* A PATCH in progress holds a row that was stored (`HoldsARow`); when the
copy is still current, saving all of it is the same as saving the fields that were
sent.

*Inbound.* The creator of a row owns its event until it replies (`SoleOwner`), the
row has no verdict meanwhile (`OwnedIsUndecided`), and the history agrees with the
owner's stage (`Progress`). `Owned` adds that a row without a verdict has its owner
unless a fault took it; `Trail` follows a request from its verified signature to its
answer. Together with `Unended` (a call has no ending before it ends) they are what the
refinement of `HandledOnce` needs: `OwnedIsUndecided` and `Progress` for the guards of
`Call`, `End` and `Decide`, `Trail` for those of `Record` and `Tell`
(`DispatchMapped`); refused requests, duplicates and faults are stutters.

Model-checked only: the liveness properties `NoRowWaitsForever`, `DecidedWithoutFaults`
and `SenderComesToRest`, which rest on fairness and `ENABLED` and are outside the
prover's reach. Every other property of a passing run is a theorem. Each inductive
invariant was checked by TLC on small instances before it was proved.

## Disagreements between documents and code

Each is a run that TLC ends with a counterexample.

1. `retry_schedule`: the settings table documents 5 retries spaced
   1m/5m/30m/2h/12h; the first attempt counts, so the 12h entry is never used.
2. `outbox_double_send`: the worker calls itself multi-worker safe; row locks end
   before the rows are marked, and a second worker sends them again.
3. `outbox_attempts_atomic`: "increment attempts atomically" is a read, an addition
   in Python and a write; two executors lose an increment.
4. `outbox_interrupt`: SIGINT is announced to finish the batch; it cuts it short and
   may leave a row in `delivering`.
5. `outbox_at_least_once`: a worker that dies at the wrong moment leaves a row in
   `delivering`, which nothing looks at again.
6. `patch_keeps_secret`: the serializer says that the secret is not modifiable through
   PATCH, only through rotate-secret (`admin_api/serializers.py:49`). A PATCH that read
   the row before a rotation and saves after it puts the old secret back. In the same
   way it reactivates a subscription that was deactivated meanwhile, and inserts one that
   was deleted.
7. `celery_retries`: the library's README gives Celery "Distributed retry" (section 6),
   and the backend's docstring the same retry policy as the outbox
   (`delivery/backends/celery.py:24-26`). A failed attempt only writes `pending` and
   `scheduled_at`; tasks are dispatched by `enqueue` alone, which nobody calls again. The
   retry is never made, with no fault at all, unless the host also runs an outbox
   worker, which no document asks for.

Noted while reading and not turned into runs: the factory defaults to `inline`
(`delivery/factory.py:54`) while the settings table says `outbox`;
`exceptions.py` declares a `WebhookReceiverNotFound` that nothing raises; the
docstring of the retry endpoints' backend method promises a manual retry through
`deliver_now`, while the endpoint calls `enqueue`; the test command calls its event
transient (`..._test_subscription.py:21`, and `:56`, "deleted en finally"), while event and
delivery are created before the `try`, so that the event stays when the subscription is
deleted in between (the exception for `Destroyed` in `TestsLeaveNothing`; the endpoint does
the same, `viewsets.py:68-72`).

## What is not modelled

- **Payloads, headers, envelope, response bodies, `last_*` columns**: no control
  flow depends on them.
- **HMAC**: a code is the one that `compute_signature` makes, or it is not.
- **Read-only admin views, other serializers, permissions, URLs, migrations**: they
  change no state.
- **Transactions around requests** (`ATOMIC_REQUESTS`): a setting of the host
  project; the models assume Django's default, autocommit. `emit_event` called directly
  within an open transaction of the host is the same question.
- **The outbox worker beside a synthetic test delivery**: the worker may pick it up while
  it exists, which is an instance of two executors on one row (`outbox_double_send`).
- **The cascade of a DELETE in several statements**: Django deletes deliveries and
  subscription in one transaction, taken as one step.
- **Backends of the host project** named by a dotted path.
- **The duplicate-registration error and `clear()`** of the registry.

## The plan

Done, in the order of importance: retry policy and chain; executor and outbox with
the worker, the operators and the faults; the abstract life cycle; the single-worker
invariant and its theorems; the theorems for any number of workers; inbound with
signatures, and the theorems about all its invariants; signals, subscriptions and
`Publish` with the inline and Celery backends and the synthetic test; the theorems
about types, events and PATCH there; the retry chain's schedule for every backoff list;
the refinement of `DeliveryLifecycle`; the five promises of `Publish`; and `HandledOnce`
with its refinement by `Inbound`.

Next:

1. `Outbox` under several workers implements a life cycle that allows attempts to overlap:
   what is left of `DeliveryLifecycle` when the sole worker is dropped.
2. That `Publish` under the outbox backend does to the table what the environment of
   `Outbox` may do, so that the theorems of the one hold behind the other.
3. Liveness of `Publish`: that what is in somebody's hands (`PendingIsCaredFor`) is attempted
   in the end, inline and under Celery, short of the exceptions named there.
