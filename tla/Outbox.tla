--------------------------------- MODULE Outbox ---------------------------------
(***************************************************************************)
(* The outbox backend: the WebhookDelivery table used as a queue, the      *)
(* workers (sinpapel_webhooks_worker) that drain it, and everything else   *)
(* that writes to it while they do: emit_event, the retry and              *)
(* requeue-dead-letter endpoints, the requeue_dead_letter command and the  *)
(* deletion of rows.                                                       *)
(*                                                                         *)
(* A worker's loop is mode: "poll" (about to claim), "claiming" (inside    *)
(* the claim transaction), "drain" (processing the batch), "sleep",        *)
(* "exited" (returned: --once or KeyboardInterrupt) and "down" (killed, or *)
(* ended by an uncaught exception).                                        *)
(***************************************************************************)
EXTENDS Executor

CONSTANTS
    Workers,      \* the processes that run the worker command
    PostgreSQL,   \* connection.vendor == "postgresql"
    Once,         \* --once
    BatchSize,    \* --batch-size
    Faults,       \* which faults happen: subset of FaultKinds
    MaxOverdue,   \* bound: a row overdue by more than this counts as overdue by this
    MaxFaults,    \* bound: crashes, interrupts and uncaught exceptions
    MaxAsked,     \* bound: forced retries per delivery
    MaxRequeues   \* bound: runs of the requeue command

FaultKinds == {"crash", "interrupt", "raise", "delete"}

ASSUME WorkersAssumption == Workers \subseteq Processes
ASSUME SwitchesAssumption == PostgreSQL \in BOOLEAN /\ Once \in BOOLEAN
ASSUME FaultsAssumption == Faults \subseteq FaultKinds
ASSUME BoundsAssumption ==
    /\ BatchSize \in Nat \ {0}
    /\ {MaxOverdue, MaxFaults, MaxAsked, MaxRequeues} \subseteq Nat

VARIABLES
    mode,      \* where each worker is in its loop
    batch,     \* the ids each worker has claimed and not processed yet
    restq,     \* the rows a requeue-dead-letter request read and has not saved yet
    asked,     \* history: how often an operator forced a retry of a delivery
    requeues,  \* how often the requeue command ran
    faults     \* how many faults happened

workerVars == <<mode, batch>>
operatorVars == <<restq, asked, requeues>>
vars == <<row, execVars, historyVars, workerVars, operatorVars, faults>>

Init ==
    /\ ExecutorInit
    /\ mode = [w \in Workers |-> "poll"]
    /\ batch = [w \in Workers |-> <<>>]
    /\ restq = {}
    /\ asked = [d \in Deliveries |-> 0]
    /\ requeues = 0
    /\ faults = 0

\* Mutant: the claim compares scheduled_at for equality.
DueExactly == {d \in Deliveries : row[d].status = "pending" /\ row[d].eta = 0}

\* Mutant: the claim forgets scheduled_at.
DueAnyTime == {d \in Deliveries : row[d].status = "pending"}

\* Mutant: the claim also takes rows that a dead worker seems to have left behind.
DueOrStuck == {d \in Deliveries : row[d].status \in {"pending", "delivering"} /\ row[d].eta <= 0}

Due == {d \in Deliveries : row[d].status = "pending" /\ row[d].eta <= 0}

DeadLetters == {d \in Deliveries : row[d].status = "dead_letter"}

\* The row locks of SELECT ... FOR UPDATE live as long as the claim transaction.
LockedBy(w) == IF PostgreSQL /\ mode[w] = "claiming" THEN Range(batch[w]) ELSE {}

Locked == UNION {LockedBy(w) : w \in Workers}

InFlight == {d \in Deliveries : \E w \in Workers : cur[w] = d /\ pc[w] \in {"marked", "answered"}}

--------------------------------------------------------------------------------
(* emit_event: bulk_create of one row per matching subscription. *)

BulkCreate(D) ==
    /\ D # {} /\ \A d \in D : row[d].status = "new"
    /\ row' = [d \in Deliveries |-> IF d \in D THEN NewRow("pending") ELSE row[d]]
    /\ UNCHANGED <<execVars, historyVars, workerVars, operatorVars, faults>>

--------------------------------------------------------------------------------
(* The worker. *)

Claimable == Due \ Locked

\* order_by("scheduled_at"); rows of the same time come in any order.
OldestFirst(s, D) ==
    /\ IsInjective(s)
    /\ \A i, j \in DOMAIN s : i < j => row[s[i]].eta <= row[s[j]].eta
    /\ \A i \in DOMAIN s, d \in D \ Range(s) : row[s[i]].eta <= row[d].eta

\* The SELECT of _drain_batch: at most BatchSize claimable rows, oldest first.
Claim(w) ==
    /\ mode[w] = "poll"
    /\ \E n \in 0..BatchSize : \E s \in [1..n -> Claimable] :
          /\ OldestFirst(s, Claimable)
          /\ n < BatchSize => Claimable \subseteq Range(s)
          /\ batch' = [batch EXCEPT ![w] = s]
    /\ mode' = [mode EXCEPT ![w] = "claiming"]
    /\ UNCHANGED <<row, execVars, historyVars, operatorVars, faults>>

\* The claim transaction ends, and its row locks with it.
Commit(w) ==
    /\ mode[w] = "claiming"
    /\ mode' = [mode EXCEPT ![w] =
           IF batch[w] # <<>> THEN "drain" ELSE IF Once THEN "exited" ELSE "sleep"]
    /\ UNCHANGED <<row, execVars, historyVars, batch, operatorVars, faults>>

\* for delivery_id in pending_ids: backend.deliver_now(delivery_id)
Deliver(w) ==
    /\ mode[w] = "drain" /\ batch[w] # <<>>
    /\ Fetch(w, Head(batch[w])) \/ FetchMissing(w, Head(batch[w]))
    /\ batch' = [batch EXCEPT ![w] = Tail(@)]
    /\ UNCHANGED <<mode, operatorVars, faults>>

Execute(w) ==
    /\ \/ MarkDelivering(w) /\ cur[w] \notin Locked
       \/ SaveMissing(w)
       \/ Post(w)
       \/ PersistSuccess(w) /\ cur[w] \notin Locked
       \/ PersistFailure(w, TRUE) /\ cur[w] \notin Locked
    /\ UNCHANGED <<workerVars, operatorVars, faults>>

FinishBatch(w) ==
    /\ mode[w] = "drain" /\ pc[w] = "ready" /\ batch[w] = <<>>
    /\ mode' = [mode EXCEPT ![w] = IF Once THEN "exited" ELSE "poll"]
    /\ UNCHANGED <<row, execVars, historyVars, batch, operatorVars, faults>>

\* time.sleep(poll_interval) ends.
Wake(w) ==
    /\ mode[w] = "sleep"
    /\ mode' = [mode EXCEPT ![w] = "poll"]
    /\ UNCHANGED <<row, execVars, historyVars, batch, operatorVars, faults>>

\* The process ends: memory and batch are gone, an open claim is rolled back.
Halt(w, how) ==
    /\ mode' = [mode EXCEPT ![w] = how]
    /\ batch' = [batch EXCEPT ![w] = <<>>]
    /\ Return(w)
    /\ UNCHANGED <<row, historyVars, operatorVars>>

\* No handler between execute_delivery and the command: the worker ends.
Die(w) ==
    /\ pc[w] = "raised"
    /\ Halt(w, "down")
    /\ UNCHANGED faults

\* Cron (--once), or the service manager, starts the command again.
Start(w) ==
    /\ mode[w] \in {"exited", "down"}
    /\ mode' = [mode EXCEPT ![w] = "poll"]
    /\ UNCHANGED <<row, execVars, historyVars, batch, operatorVars, faults>>

--------------------------------------------------------------------------------
(* Faults. *)

Running(w) == mode[w] \notin {"exited", "down"}

Fault(kind) == kind \in Faults /\ faults < MaxFaults /\ faults' = faults + 1

Crash(w) == Running(w) /\ Fault("crash") /\ Halt(w, "down")

\* SIGINT: KeyboardInterrupt surfaces at whatever statement is running, and is
\* caught outside the loop.
Interrupt(w) == Running(w) /\ Fault("interrupt") /\ Halt(w, "exited")

RequestRaises(w) ==
    /\ Fault("raise")
    /\ PostRaises(w)
    /\ UNCHANGED <<workerVars, operatorVars>>

\* CASCADE from the subscription or the event.
Delete(d) ==
    /\ "delete" \in Faults
    /\ Exists(d) /\ d \notin Locked
    /\ row' = [row EXCEPT ![d] = NewRow("deleted")]
    /\ UNCHANGED <<execVars, historyVars, workerVars, operatorVars, faults>>

--------------------------------------------------------------------------------
(* Operators. *)

\* What both endpoints write, attempts left as they are.  With this backend the
\* enqueue() that follows does nothing.
PutBack(d) ==
    /\ row' = [row EXCEPT ![d] =
           [status |-> "pending", attempts |-> @.attempts, eta |-> 0]]
    /\ asked' = [asked EXCEPT ![d] = @ + 1]

\* POST deliveries/<d>/retry: whatever the status of the row.
AdminRetry(d) ==
    /\ Exists(d) /\ d \notin Locked
    /\ asked[d] < MaxAsked
    /\ PutBack(d)
    /\ UNCHANGED <<execVars, historyVars, workerVars, restq, requeues, faults>>

\* POST deliveries/requeue-dead-letter reads the rows it was asked for...
AdminReadDeadLetters(D) ==
    /\ restq = {} /\ D # {} /\ D \subseteq DeadLetters
    /\ \A d \in D : asked[d] < MaxAsked
    /\ restq' = D
    /\ UNCHANGED <<row, execVars, historyVars, workerVars, asked, requeues, faults>>

\* ...and saves them one by one; a row deleted meanwhile fails the request.
AdminRequeueDeadLetter(d) ==
    /\ d \in restq
    /\ \/ /\ Exists(d) /\ d \notin Locked
          /\ PutBack(d)
          /\ restq' = restq \ {d}
       \/ /\ ~Exists(d)
          /\ restq' = {}
          /\ UNCHANGED <<row, asked>>
    /\ UNCHANGED <<execVars, historyVars, workerVars, requeues, faults>>

\* sinpapel_webhooks_requeue_dead_letter --all / --id: one UPDATE.
CommandRequeue(D) ==
    /\ requeues < MaxRequeues
    /\ D # {} /\ (D = DeadLetters \/ \E d \in DeadLetters : D = {d})
    /\ row' = [d \in Deliveries |-> IF d \in D THEN NewRow("pending") ELSE row[d]]
    /\ posts' = [d \in Deliveries |-> IF d \in D THEN 0 ELSE posts[d]]
    /\ requeues' = requeues + 1
    /\ UNCHANGED <<execVars, acked, workerVars, restq, asked, faults>>

--------------------------------------------------------------------------------

\* One unit of time passes.
Tick ==
    /\ row' = [d \in Deliveries |->
           IF Exists(d) /\ row[d].eta > -MaxOverdue THEN [row[d] EXCEPT !.eta = @ - 1]
           ELSE row[d]]
    /\ UNCHANGED <<execVars, historyVars, workerVars, operatorVars, faults>>

WorkerStep(w) ==
    \/ Claim(w)
    \/ Commit(w)
    \/ Deliver(w)
    \/ Execute(w)
    \/ FinishBatch(w)
    \/ Wake(w)
    \/ Die(w)
    \/ Start(w)

FaultStep(w) == Crash(w) \/ Interrupt(w) \/ RequestRaises(w)

Next ==
    \/ \E D \in SUBSET Deliveries :
          BulkCreate(D) \/ AdminReadDeadLetters(D) \/ CommandRequeue(D)
    \/ \E w \in Workers : WorkerStep(w) \/ FaultStep(w)
    \/ \E d \in Deliveries : Delete(d) \/ AdminRetry(d) \/ AdminRequeueDeadLetter(d)
    \/ Tick

Spec == Init /\ [][Next]_vars

\* Workers run, a stopped worker is started again (cron, systemd Restart=), a
\* request thread finishes, and time passes.  Nothing obliges a producer or an
\* operator to act, or a fault to happen.
FairSpec ==
    /\ Spec
    /\ \A w \in Workers : WF_vars(WorkerStep(w))
    /\ \A d \in Deliveries : WF_vars(AdminRequeueDeadLetter(d))
    /\ WF_vars(Tick)

--------------------------------------------------------------------------------
(* What the outbox promises. *)

TypeOK ==
    /\ ExecutorTypeOK
    /\ mode \in [Workers -> {"poll", "claiming", "drain", "sleep", "exited", "down"}]
    /\ batch \in [Workers -> Seq(Deliveries)]
    /\ restq \subseteq Deliveries
    /\ asked \in [Deliveries -> Nat]
    /\ requeues \in Nat
    /\ faults \in Nat

\* The next two properties hold for any number of workers on any database.

\* "delivered" is never a guess: some POST of this very delivery was answered with
\* 2xx, whatever stale executors, operators and crashes do to the row
\* (execute_delivery, _persist_success).
DeliveredWasAcked ==
    \A d \in Deliveries : row[d].status = "delivered" => acked[d]

\* A row is "delivering" only while a live process is executing it, unless a fault
\* has struck: overlapping executors of one row never leave it behind in a
\* status that no claim looks at.
DeliveringHasExecutor ==
    \A d \in Deliveries : row[d].status = "delivering" =>
        d \in InFlight \/ faults > 0

\* The properties below need a single worker.

\* A delivery is attempted at most MaxAttempts times, plus once for each retry that
\* an operator forced, whatever order the forced retries, the requeues, the
\* running attempt and the crashes come in (_persist_failure's exhaustion test).
AttemptBudget ==
    \A d \in Deliveries : row[d].attempts <= MaxAttempts + asked[d]

\* No POST goes out that the attempts column does not count: the counter is saved
\* before the request is made, so a crash can only make it count too many
\* (execute_delivery, mark before post).
EveryPostCounted ==
    \A d \in Deliveries : Exists(d) => posts[d] <= row[d].attempts

\* Once a consumer has acknowledged a delivery it is not sent again unless an
\* operator forced a retry: not after a crash, an interrupt or an uncaught
\* exception, and not because a batch was claimed before the acknowledgement
\* (sinpapel_webhooks_worker: "multi-worker safe").
AckedNeverResent ==
    [][\A d \in Deliveries : acked[d] /\ asked[d] = 0 => posts'[d] <= posts[d]]_vars

\* An attempt starts from a row that is pending and due at that moment, although the
\* claim that chose the row may be arbitrarily old by then: the backoff of
\* compute_next_retry_at is always waited for in full.
HonoursSchedule ==
    [][\A d \in Deliveries :
          row[d].status # "delivering" /\ row'[d].status = "delivering" =>
              row[d].status = "pending" /\ row[d].eta <= 0]_vars

--------------------------------------------------------------------------------
(* Why a single worker keeps these promises: the inductive invariant. *)

\* A worker executes a delivery only while it processes a batch.
IdleUnlessDraining == \A w \in Workers : mode[w] # "drain" => pc[w] = "ready"

\* What a worker has claimed stays claimable until it gets there, or disappears.
BatchStaysDue ==
    \A w \in Workers :
        /\ IsInjective(batch[w])
        /\ \A d \in Range(batch[w]) : Exists(d) => d \in Due

\* An operator may force a delivery back into the queue while it is attempted.
BeingAttempted(d) ==
    row[d].status = "delivering" \/ (row[d].status = "pending" /\ asked[d] > 0)

\* The object in memory is never staler than the status an operator may have
\* changed: its attempts are those of the row.
SnapshotIsCurrent ==
    \A w \in Workers : pc[w] \in {"fetched", "marked", "answered"} =>
        /\ cur[w] \notin Range(batch[w])
        /\ row[cur[w]].status # "new"
        /\ Exists(cur[w]) =>
              /\ mem[w] = row[cur[w]].attempts
              /\ IF pc[w] = "fetched" THEN cur[w] \in Due ELSE BeingAttempted(cur[w])

\* A row in the queue has an attempt left.
PendingHasBudget ==
    \A d \in Deliveries :
        /\ row[d].attempts <= MaxAttempts + asked[d]
        /\ row[d].status = "pending" => row[d].attempts < MaxAttempts + asked[d]

\* Between the save of the counter and the POST there is one to spare.
PostsLag ==
    /\ \A d \in Deliveries :
          /\ row[d].status = "new" => posts[d] = 0 /\ ~acked[d]
          /\ Exists(d) => posts[d] <= row[d].attempts
    /\ \A w \in Workers : pc[w] = "marked" /\ Exists(cur[w]) => posts[cur[w]] < mem[w]

\* Acknowledged, and never forced back into the queue.
Closed(d) == acked[d] /\ asked[d] = 0

ClosedStaysClosed ==
    /\ \A d \in Deliveries :
          Closed(d) => row[d].status \in {"delivering", "delivered", "deleted"}
    /\ \A w \in Workers :
          pc[w] = "marked" \/ (pc[w] = "answered" /\ ~Success(ans[w])) => ~Closed(cur[w])

\* The whole of it: claims, snapshots, budgets and acknowledgements stay in step
\* while operators, deletions and faults interleave with the one worker
\* (_drain_batch and execute_delivery).
SoleWorkerInv ==
    /\ IdleUnlessDraining
    /\ BatchStaysDue
    /\ SnapshotIsCurrent
    /\ PendingHasBudget
    /\ PostsLag
    /\ ClosedStaysClosed

--------------------------------------------------------------------------------
(* The abstract specification. *)

Lifecycle == INSTANCE DeliveryLifecycle WITH
    status <- [d \in Deliveries |-> row[d].status],
    attempts <- [d \in Deliveries |-> row[d].attempts],
    flight <- InFlight,
    GivenUp <- IF DeadLetterAfterAttempts THEN "dead_letter" ELSE "failed"

\* A single worker implements the life cycle of a delivery: overlapping operators,
\* stale requeue requests and faults never make a step that it does not allow
\* (execute_delivery and _drain_batch taken together).
ImplementsLifecycle == Lifecycle!Spec

--------------------------------------------------------------------------------
(* Progress, under FairSpec. *)

Settled(d) == row[d].status \in {"delivered", "failed", "dead_letter", "deleted"}

\* Whatever happens to the workers, no row waits in the queue for ever: neither its
\* delay nor a worker that dies with the row in its batch keeps it from being
\* claimed again (_drain_batch).
NoRowWaitsForever ==
    \A d \in Deliveries : row[d].status = "pending" ~> row[d].status # "pending"

\* Without faults every delivery is decided: its retries are made one after the
\* other until it is delivered, refused or given up (_persist_failure).
DecidedWithoutFaults ==
    \A d \in Deliveries : row[d].status = "pending" ~> Settled(d) \/ faults > 0

--------------------------------------------------------------------------------
(* What the documentation says and the code does not do. *)

\* README.md:322 and its FAQ promise at-least-once delivery with automatic retry: a
\* delivery is never abandoned undecided.  A worker that dies between the save of
\* "delivering" and the save of the result abandons it.
AtLeastOnce ==
    \A d \in Deliveries : row[d].status \in {"pending", "delivering"} ~> Settled(d)

\* sinpapel_webhooks_worker:33,105 says that SIGINT ends the worker after the current
\* batch: a worker that has exited leaves no delivery half done.
GracefulExit ==
    (\E w \in Workers : mode[w] = "exited") =>
        \A d \in Deliveries : row[d].status = "delivering" =>
            \E w \in Workers : cur[w] = d
================================================================================
