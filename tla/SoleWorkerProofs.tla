---------------------------- MODULE SoleWorkerProofs ----------------------------
(***************************************************************************)
(* What a single worker guarantees: the proof that SoleWorkerInv is        *)
(* inductive when there is one worker, and the promises that follow.       *)
(***************************************************************************)
EXTENDS OutboxProofs

USE WorkersAssumption, MaxAttemptsAssumption

SoleWorker == \A u, v \in Workers : u = v

LEMMA TailOfBatch ==
    ASSUME NEW b \in Seq(Deliveries), b # <<>>, IsInjective(b)
    PROVE  /\ IsInjective(Tail(b))
           /\ Range(Tail(b)) \subseteq Range(b)
           /\ Head(b) \in Range(b)
           /\ Head(b) \notin Range(Tail(b))
<1>1. /\ DOMAIN Tail(b) = 1..(Len(b) - 1)
      /\ \A i \in DOMAIN Tail(b) : Tail(b)[i] = b[i + 1] /\ i + 1 \in DOMAIN b
      /\ Head(b) = b[1] /\ 1 \in DOMAIN b
  OBVIOUS
<1>2. \A i \in DOMAIN Tail(b) : i + 1 # 1 /\ i \in Int
  BY <1>1
<1>3. \A i, j \in DOMAIN Tail(b) : i + 1 = j + 1 => i = j
  BY <1>1
<1> QED
  BY <1>1, <1>2, <1>3 DEF IsInjective, Range

--------------------------------------------------------------------------------
(* Steps of producers, operators, deletions and time: the worker does not move. *)

WorkerStill == UNCHANGED <<pc, cur, mem, ans, mode, batch>>

\* The five things that may happen to a row in such a step.
Kept(d) ==
    /\ row'[d].status = row[d].status /\ row'[d].attempts = row[d].attempts
    /\ row'[d].eta \in Int /\ row'[d].eta <= row[d].eta
    /\ posts'[d] = posts[d] /\ asked'[d] = asked[d]

Created(d) ==
    /\ row[d].status = "new" /\ row'[d] = NewRow("pending")
    /\ posts'[d] = posts[d] /\ asked'[d] = asked[d]

Restarted(d) ==
    /\ row[d].status = "dead_letter" /\ row'[d] = NewRow("pending")
    /\ posts'[d] = 0 /\ asked'[d] = asked[d]

Gone(d) ==
    /\ Exists(d) /\ row'[d] = NewRow("deleted")
    /\ posts'[d] = posts[d] /\ asked'[d] = asked[d]

Forced(d) ==
    /\ Exists(d)
    /\ row'[d] = [status |-> "pending", attempts |-> row[d].attempts, eta |-> 0]
    /\ posts'[d] = posts[d] /\ asked'[d] = asked[d] + 1

EnvironmentStep ==
    /\ WorkerStill /\ acked' = acked
    /\ \A d \in Deliveries : Kept(d) \/ Created(d) \/ Restarted(d) \/ Gone(d) \/ Forced(d)

LEMMA EnvironmentSteps ==
    ASSUME TypeOK,
           \/ \E D \in SUBSET Deliveries :
                 BulkCreate(D) \/ AdminReadDeadLetters(D) \/ CommandRequeue(D)
           \/ \E d \in Deliveries : Delete(d) \/ AdminRetry(d) \/ AdminRequeueDeadLetter(d)
           \/ Tick
    PROVE  EnvironmentStep
<1> USE DEF execVars, historyVars, workerVars, operatorVars, WorkerStill, EnvironmentStep
<1>0. \A d \in Deliveries : row[d] \in Row /\ row[d].eta \in Int
  BY DEF TypeOK, ExecutorTypeOK, Row
<1>1. ASSUME NEW D \in SUBSET Deliveries, BulkCreate(D) PROVE EnvironmentStep
  BY <1>0, <1>1 DEF BulkCreate, Kept, Created
<1>2. ASSUME NEW D \in SUBSET Deliveries, AdminReadDeadLetters(D) PROVE EnvironmentStep
  BY <1>0, <1>2 DEF AdminReadDeadLetters, Kept
<1>3. ASSUME NEW D \in SUBSET Deliveries, CommandRequeue(D) PROVE EnvironmentStep
  BY <1>0, <1>3 DEF CommandRequeue, DeadLetters, Kept, Restarted
<1>4. ASSUME NEW d \in Deliveries, Delete(d) PROVE EnvironmentStep
  BY <1>0, <1>4 DEF Delete, Kept, Gone, TypeOK, ExecutorTypeOK
<1>5. ASSUME NEW d \in Deliveries, AdminRetry(d) \/ AdminRequeueDeadLetter(d) PROVE EnvironmentStep
  <2>1. CASE PutBack(d) /\ Exists(d) /\ UNCHANGED <<execVars, historyVars, workerVars>>
    BY <1>0, <2>1 DEF PutBack, Kept, Forced, TypeOK, ExecutorTypeOK
  <2>2. CASE UNCHANGED <<row, asked, execVars, historyVars, workerVars>>
    BY <1>0, <2>2 DEF Kept
  <2> QED
    BY <1>5, <2>1, <2>2 DEF AdminRetry, AdminRequeueDeadLetter
<1>6. CASE Tick
  BY <1>0, <1>6 DEF Tick, Kept
<1> QED
  BY <1>1, <1>2, <1>3, <1>4, <1>5, <1>6

\* What each of the five leaves of the invariant, row by row.
LEMMA RowPreserved ==
    ASSUME TypeOK, SoleWorkerInv, EnvironmentStep, NEW d \in Deliveries
    PROVE  /\ (Exists(d) => d \in Due) => (Exists(d)' => d \in Due')
           /\ row'[d].attempts <= MaxAttempts + asked'[d]
           /\ row'[d].status = "pending" => row'[d].attempts < MaxAttempts + asked'[d]
           /\ row'[d].status = "new" => row[d].status = "new" /\ posts'[d] = 0 /\ ~acked'[d]
           /\ Exists(d)' => posts'[d] <= row'[d].attempts
           /\ Closed(d)' => Closed(d) /\ row'[d].status \in {"delivering", "delivered", "deleted"}
           /\ row[d].status \in {"pending", "delivering"} /\ Exists(d)' =>
                 /\ row'[d].status \in {"pending", "delivering"}
                 /\ BeingAttempted(d) => BeingAttempted(d)'
                 /\ row'[d].attempts = row[d].attempts
                 /\ posts'[d] = posts[d]
           /\ row[d].status = "deleted" => ~Exists(d)'
<1>1. /\ row[d].attempts \in Nat /\ row[d].eta \in Int /\ asked[d] \in Nat /\ posts[d] \in Nat
      /\ row[d].status \in Status \cup {"new", "deleted"}
  BY DEF TypeOK, ExecutorTypeOK, Row
<1>2. /\ row[d].attempts <= MaxAttempts + asked[d]
      /\ row[d].status = "pending" => row[d].attempts < MaxAttempts + asked[d]
      /\ row[d].status = "new" => posts[d] = 0 /\ ~acked[d]
      /\ Exists(d) => posts[d] <= row[d].attempts
      /\ Closed(d) => row[d].status \in {"delivering", "delivered", "deleted"}
      /\ acked'[d] = acked[d]
  BY DEF SoleWorkerInv, PendingHasBudget, PostsLag, ClosedStaysClosed, EnvironmentStep
<1> USE DEF Exists, Due, NewRow, Status, Closed, BeingAttempted
<1>3. CASE Kept(d)
  BY <1>1, <1>2, <1>3 DEF Kept
<1>4. CASE Created(d)
  BY <1>1, <1>2, <1>4 DEF Created
<1>5. CASE Restarted(d)
  BY <1>1, <1>2, <1>5 DEF Restarted
<1>6. CASE Gone(d)
  BY <1>1, <1>2, <1>6 DEF Gone
<1>7. CASE Forced(d)
  BY <1>1, <1>2, <1>7 DEF Forced
<1> QED
  BY <1>3, <1>4, <1>5, <1>6, <1>7 DEF EnvironmentStep

LEMMA EnvironmentPreserves ==
    ASSUME TypeOK, SoleWorkerInv, EnvironmentStep
    PROVE  SoleWorkerInv'
<1> USE DEF EnvironmentStep, WorkerStill
<1>1. IdleUnlessDraining'
  BY DEF SoleWorkerInv, IdleUnlessDraining
<1>2. BatchStaysDue'
  <2>1. \A w \in Workers : Range(batch[w]) \subseteq Deliveries
    BY DEF TypeOK, Range
  <2> QED
    BY <2>1, RowPreserved DEF SoleWorkerInv, BatchStaysDue
<1>3. SnapshotIsCurrent'
  <2> SUFFICES ASSUME NEW w \in Workers, pc[w] \in {"fetched", "marked", "answered"}
               PROVE  /\ cur[w] \notin Range(batch[w])
                      /\ row'[cur[w]].status # "new"
                      /\ Exists(cur[w])' =>
                           /\ mem[w] = row'[cur[w]].attempts
                           /\ IF pc[w] = "fetched" THEN cur[w] \in Due' ELSE BeingAttempted(cur[w])'
    BY DEF SnapshotIsCurrent
  <2>1. PICK d \in Deliveries : d = cur[w]
    BY DEF TypeOK, ExecutorTypeOK
  <2>2. row[d].status \in Status \cup {"new", "deleted"}
    BY <2>1 DEF TypeOK, ExecutorTypeOK, Row
  <2>3. /\ d \notin Range(batch[w]) /\ row[d].status # "new"
        /\ Exists(d) => /\ mem[w] = row[d].attempts
                        /\ IF pc[w] = "fetched" THEN d \in Due ELSE BeingAttempted(d)
                        /\ row[d].status \in {"pending", "delivering"}
    BY <2>1 DEF SoleWorkerInv, SnapshotIsCurrent, Due, BeingAttempted
  <2>4. ~Exists(d) => row[d].status = "deleted"
    BY <2>2, <2>3 DEF Exists
  <2>5. Exists(d)' => Exists(d)
    BY <2>1, <2>4, RowPreserved
  <2> QED
    BY <2>1, <2>3, <2>5, RowPreserved
<1>4. PendingHasBudget'
  BY RowPreserved DEF PendingHasBudget
<1>5. PostsLag'
  <2>1. ASSUME NEW w \in Workers, pc[w] = "marked", Exists(cur[w])'
        PROVE  posts'[cur[w]] < mem[w]
    <3>1. cur[w] \in Deliveries
      BY <2>1 DEF TypeOK, ExecutorTypeOK
    <3>2. row[cur[w]].status \in Status \cup {"new", "deleted"}
      BY <3>1 DEF TypeOK, ExecutorTypeOK, Row
    <3>3. Exists(cur[w]) /\ row[cur[w]].status \in {"pending", "delivering"}
      BY <2>1, <3>1, <3>2, RowPreserved DEF SoleWorkerInv, SnapshotIsCurrent, BeingAttempted, Exists
    <3> QED
      BY <2>1, <3>1, <3>3, RowPreserved DEF SoleWorkerInv, PostsLag
  <2> QED
    BY <2>1, RowPreserved DEF PostsLag
<1>6. ClosedStaysClosed'
  <2>1. \A w \in Workers : pc[w] \in {"marked", "answered"} => cur[w] \in Deliveries
    BY DEF TypeOK, ExecutorTypeOK
  <2> QED
    BY <2>1, RowPreserved DEF SoleWorkerInv, ClosedStaysClosed
<1> QED
  BY <1>1, <1>2, <1>3, <1>4, <1>5, <1>6 DEF SoleWorkerInv

--------------------------------------------------------------------------------
(* Steps of the worker and of the faults that strike it. *)

LEMMA HaltPreserves ==
    ASSUME TypeOK, SoleWorker, SoleWorkerInv, NEW w \in Workers, NEW how \in {"exited", "down"},
           Halt(w, how)
    PROVE  SoleWorkerInv'
<1>1. /\ \A u \in Workers : u = w
      /\ pc'[w] = "ready" /\ batch'[w] = <<>>
      /\ UNCHANGED <<row, posts, acked, asked>>
  BY DEF SoleWorker, TypeOK, ExecutorTypeOK, Halt, Return, historyVars, operatorVars
<1>2. IdleUnlessDraining' /\ SnapshotIsCurrent'
  BY <1>1 DEF IdleUnlessDraining, SnapshotIsCurrent
<1>3. BatchStaysDue'
  BY <1>1 DEF BatchStaysDue, IsInjective, Range
<1>4. PendingHasBudget' /\ PostsLag' /\ ClosedStaysClosed'
  BY <1>1 DEF SoleWorkerInv, PendingHasBudget, PostsLag, ClosedStaysClosed, Closed, Exists
<1> QED
  BY <1>2, <1>3, <1>4 DEF SoleWorkerInv

\* Steps of the loop: the table and the execution stay as they are.
LEMMA LoopPreserves ==
    ASSUME TypeOK, SoleWorker, SoleWorkerInv, NEW w \in Workers,
           Claim(w) \/ Commit(w) \/ FinishBatch(w) \/ Wake(w) \/ Start(w)
    PROVE  SoleWorkerInv'
<1>1. /\ \A u \in Workers : u = w
      /\ UNCHANGED <<row, pc, cur, mem, ans, posts, acked, asked>>
      /\ pc[w] = "ready"
  BY DEF SoleWorker, SoleWorkerInv, IdleUnlessDraining, Claim, Commit, FinishBatch, Wake, Start,
         execVars, historyVars, operatorVars
<1>2. IdleUnlessDraining' /\ SnapshotIsCurrent'
  BY <1>1 DEF IdleUnlessDraining, SnapshotIsCurrent
<1>3. BatchStaysDue'
  <2>1. CASE Claim(w)
    <3>1. PICK n \in 0..BatchSize : \E s \in [1..n -> Claimable] :
              OldestFirst(s, Claimable) /\ batch' = [batch EXCEPT ![w] = s]
      BY <2>1 DEF Claim
    <3>2. PICK s \in [1..n -> Claimable] :
              OldestFirst(s, Claimable) /\ batch' = [batch EXCEPT ![w] = s]
      BY <3>1
    <3>3. batch'[w] = s /\ IsInjective(s) /\ Range(s) \subseteq Due
      BY <3>2 DEF TypeOK, OldestFirst, Range, Claimable
    <3> QED
      BY <1>1, <3>3 DEF BatchStaysDue, Due
  <2>2. CASE UNCHANGED batch
    BY <1>1, <2>2 DEF SoleWorkerInv, BatchStaysDue, Due, Exists
  <2> QED
    BY <2>1, <2>2 DEF Commit, FinishBatch, Wake, Start
<1>4. PendingHasBudget' /\ PostsLag' /\ ClosedStaysClosed'
  BY <1>1 DEF SoleWorkerInv, PendingHasBudget, PostsLag, ClosedStaysClosed, Closed, Exists
<1> QED
  BY <1>2, <1>3, <1>4 DEF SoleWorkerInv

LEMMA DeliverPreserves ==
    ASSUME TypeOK, SoleWorker, SoleWorkerInv, NEW w \in Workers, Deliver(w)
    PROVE  SoleWorkerInv'
<1> DEFINE d == Head(batch[w])
<1>1. /\ \A u \in Workers : u = w
      /\ UNCHANGED <<row, posts, acked, asked, mode>>
      /\ mode[w] = "drain" /\ batch[w] \in Seq(Deliveries) /\ batch[w] # <<>>
      /\ batch'[w] = Tail(batch[w])
  BY DEF SoleWorker, TypeOK, Deliver, Fetch, FetchMissing, historyVars, operatorVars
<1>2. /\ IsInjective(batch'[w]) /\ Range(batch'[w]) \subseteq Range(batch[w])
      /\ d \in Range(batch[w]) /\ d \notin Range(batch'[w]) /\ d \in Deliveries
  BY <1>1, TailOfBatch, HeadTail DEF SoleWorkerInv, BatchStaysDue
<1>3. IdleUnlessDraining'
  BY <1>1 DEF IdleUnlessDraining
<1>4. BatchStaysDue'
  BY <1>1, <1>2 DEF SoleWorkerInv, BatchStaysDue, Due, Exists
<1> HIDE DEF d
<1>5. \/ pc'[w] = "raised"
      \/ pc'[w] = "fetched" /\ cur'[w] = d /\ mem'[w] = row[d].attempts /\ Exists(d)
  BY DEF Deliver, Fetch, FetchMissing, Raise, TypeOK, ExecutorTypeOK, d
<1>6. SnapshotIsCurrent'
  BY <1>1, <1>2, <1>5 DEF SoleWorkerInv, SnapshotIsCurrent, BatchStaysDue, Due, Exists, Status
<1>7. PendingHasBudget' /\ PostsLag' /\ ClosedStaysClosed'
  BY <1>1, <1>5 DEF SoleWorkerInv, PendingHasBudget, PostsLag, ClosedStaysClosed, Closed, Exists
<1> QED
  BY <1>3, <1>4, <1>6, <1>7 DEF SoleWorkerInv

\* Steps of execute_delivery after the fetch, with d the delivery being executed.
LEMMA ExecutePreserves ==
    ASSUME TypeOK, SoleWorker, SoleWorkerInv, NEW w \in Workers,
           Execute(w) \/ RequestRaises(w)
    PROVE  SoleWorkerInv'
<1>1. /\ \A u \in Workers : u = w
      /\ UNCHANGED <<mode, batch, asked>>
      /\ pc[w] \in {"fetched", "marked", "answered"} /\ mode[w] = "drain"
  BY DEF SoleWorker, Execute, RequestRaises, workerVars, operatorVars, MarkDelivering, SaveMissing,
         Post, PersistSuccess, PersistFailure, PostRaises, SoleWorkerInv, IdleUnlessDraining
<1>2. PICK d \in Deliveries : d = cur[w]
  BY <1>1 DEF TypeOK, ExecutorTypeOK
<1>3. /\ row[d].attempts \in Nat /\ row[d].eta \in Int /\ asked[d] \in Nat /\ posts[d] \in Nat
      /\ mem[w] \in Nat /\ row[d] \in Row
  BY <1>2 DEF TypeOK, ExecutorTypeOK, Row
<1>4. /\ d \notin Range(batch[w]) /\ row[d].status # "new"
      /\ Exists(d) => /\ mem[w] = row[d].attempts
                      /\ IF pc[w] = "fetched" THEN d \in Due ELSE BeingAttempted(d)
                      /\ posts[d] <= row[d].attempts
      /\ pc[w] = "marked" /\ Exists(d) => posts[d] < mem[w]
      /\ pc[w] = "marked" \/ (pc[w] = "answered" /\ ~Success(ans[w])) => ~Closed(d)
  BY <1>1, <1>2 DEF SoleWorkerInv, SnapshotIsCurrent, PostsLag, ClosedStaysClosed
<1>5. IdleUnlessDraining'
  BY <1>1 DEF IdleUnlessDraining
<1>6. ASSUME \A e \in Deliveries : e # d => row'[e] = row[e]
      PROVE  BatchStaysDue'
  <2>1. Range(batch[w]) \subseteq Deliveries
    BY DEF TypeOK, Range
  <2> QED
    BY <1>1, <1>4, <1>6, <2>1 DEF SoleWorkerInv, BatchStaysDue, Due, Exists
<1>7. CASE MarkDelivering(w)
  <2>1. /\ row' = [row EXCEPT ![d] =
                     [status |-> "delivering", attempts |-> mem[w] + 1, eta |-> row[d].eta]]
        /\ pc'[w] = "marked" /\ mem'[w] = mem[w] + 1 /\ Exists(d) /\ d \in Due
        /\ UNCHANGED <<cur, ans, posts, acked>>
    BY <1>2, <1>4, <1>7 DEF MarkDelivering, historyVars, TypeOK, ExecutorTypeOK
  <2>2. /\ row'[d] = [status |-> "delivering", attempts |-> mem[w] + 1, eta |-> row[d].eta]
        /\ \A e \in Deliveries : e # d => row'[e] = row[e]
    BY <2>1 DEF TypeOK, ExecutorTypeOK
  <2> HIDE <2>1
  <2>3. pc'[w] = "marked" /\ mem'[w] = mem[w] + 1 /\ Exists(d) /\ d \in Due
        /\ cur'[w] = d /\ UNCHANGED <<posts, acked>>
    BY <1>2, <2>1
  <2>4. SnapshotIsCurrent'
    BY <1>1, <1>4, <2>2, <2>3 DEF SnapshotIsCurrent, BeingAttempted
  <2>5. PendingHasBudget'
    BY <1>1, <1>3, <1>4, <2>2, <2>3 DEF SoleWorkerInv, PendingHasBudget, Due
  <2>6. PostsLag'
    BY <1>1, <1>3, <1>4, <2>2, <2>3 DEF SoleWorkerInv, PostsLag, Exists
  <2>7. ~Closed(d)
    BY <2>3 DEF SoleWorkerInv, ClosedStaysClosed, Due
  <2>8. ClosedStaysClosed'
    BY <1>1, <2>2, <2>3, <2>7 DEF SoleWorkerInv, ClosedStaysClosed, Closed
  <2> QED
    BY <1>5, <1>6, <2>2, <2>4, <2>5, <2>6, <2>8 DEF SoleWorkerInv
<1>8. CASE SaveMissing(w)
  <2>1. pc'[w] = "raised" /\ UNCHANGED <<row, posts, acked>>
    BY <1>8 DEF SaveMissing, Raise, historyVars, TypeOK, ExecutorTypeOK
  <2>2. SnapshotIsCurrent' /\ PendingHasBudget' /\ PostsLag' /\ ClosedStaysClosed'
    BY <1>1, <2>1 DEF SoleWorkerInv, SnapshotIsCurrent, PendingHasBudget, PostsLag,
                      ClosedStaysClosed, Closed, Exists
  <2> QED
    BY <1>5, <1>6, <2>1, <2>2 DEF SoleWorkerInv
<1>9. CASE Post(w)
  <2>1. /\ pc[w] = "marked" /\ pc'[w] = "answered" /\ UNCHANGED <<row, cur, mem>>
        /\ posts' = [posts EXCEPT ![d] = @ + 1]
        /\ acked'[d] = (acked[d] \/ Success(ans'[w]))
        /\ \A e \in Deliveries : e # d => acked'[e] = acked[e]
    BY <1>2, <1>9 DEF Post, TypeOK, ExecutorTypeOK
  <2>2. posts'[d] = posts[d] + 1 /\ \A e \in Deliveries : e # d => posts'[e] = posts[e]
    BY <2>1 DEF TypeOK, ExecutorTypeOK
  <2>3. SnapshotIsCurrent'
    BY <1>1, <2>1 DEF SoleWorkerInv, SnapshotIsCurrent, BeingAttempted, Due, Exists
  <2>4. PendingHasBudget'
    BY <1>1, <2>1 DEF SoleWorkerInv, PendingHasBudget
  <2>5. PostsLag'
    BY <1>1, <1>2, <1>3, <1>4, <2>1, <2>2 DEF SoleWorkerInv, PostsLag, Exists
  <2>6. Closed(d)' => row[d].status \in {"delivering", "deleted"}
    BY <1>1, <1>3, <1>4, <2>1 DEF Closed, BeingAttempted, Exists, Row
  <2>7. ClosedStaysClosed'
    BY <1>1, <1>2, <2>1, <2>6 DEF SoleWorkerInv, ClosedStaysClosed, Closed
  <2> QED
    BY <1>5, <1>6, <2>1, <2>3, <2>4, <2>5, <2>7 DEF SoleWorkerInv
<1>10. CASE PersistSuccess(w)
  <2>1. pc'[w] = "ready" /\ Exists(d) /\ row' = [row EXCEPT ![d].status = "delivered"]
    BY <1>2, <1>10 DEF PersistSuccess, Return, TypeOK, ExecutorTypeOK
  <2>2. /\ row'[d].status = "delivered" /\ row'[d].attempts = row[d].attempts
        /\ \A e \in Deliveries : e # d => row'[e] = row[e]
        /\ UNCHANGED <<posts, acked>>
    BY <1>3, <1>10, <2>1 DEF PersistSuccess, historyVars, TypeOK, ExecutorTypeOK, Row
  <2>3. SnapshotIsCurrent'
    BY <1>1, <2>1 DEF SnapshotIsCurrent
  <2>4. PendingHasBudget'
    BY <1>1, <2>2 DEF SoleWorkerInv, PendingHasBudget
  <2>5. PostsLag'
    BY <1>1, <2>1, <2>2 DEF SoleWorkerInv, PostsLag, Exists
  <2>6. ClosedStaysClosed'
    BY <1>1, <2>1, <2>2 DEF SoleWorkerInv, ClosedStaysClosed, Closed
  <2> QED
    BY <1>5, <1>6, <2>2, <2>3, <2>4, <2>5, <2>6 DEF SoleWorkerInv
<1>11. CASE PersistFailure(w, TRUE)
  <2> DEFINE verdict == FailureStatus(mem[w], ans[w], ans[w] = NoCode, TRUE)
  <2>1. /\ pc[w] = "answered" /\ ~Success(ans[w]) /\ pc'[w] = "ready" /\ Exists(d)
        /\ UNCHANGED <<posts, acked>>
    BY <1>2, <1>11 DEF PersistFailure, Return, historyVars, TypeOK, ExecutorTypeOK
  <2>2. /\ verdict \in {"failed", "dead_letter", "pending"}
        /\ verdict = "pending" => mem[w] < MaxAttempts
    BY DEF FailureStatus
  <2>3. /\ row'[d].status = verdict /\ row'[d].attempts = row[d].attempts
        /\ \A e \in Deliveries : e # d => row'[e] = row[e]
    <3>1. \/ row' = [row EXCEPT ![d].status = verdict]
          \/ \E delay : row' = [row EXCEPT ![d] =
                 [status |-> verdict, attempts |-> @.attempts, eta |-> delay]]
      BY <1>2, <1>11 DEF PersistFailure
    <3> HIDE DEF verdict
    <3> QED
      BY <1>3, <3>1 DEF TypeOK, ExecutorTypeOK, Row
  <2> HIDE DEF verdict
  <2>4. SnapshotIsCurrent'
    BY <1>1, <2>1 DEF SnapshotIsCurrent
  <2>5. PendingHasBudget'
    BY <1>1, <1>3, <1>4, <2>1, <2>2, <2>3 DEF SoleWorkerInv, PendingHasBudget
  <2>6. PostsLag'
    BY <1>1, <2>1, <2>2, <2>3 DEF SoleWorkerInv, PostsLag, Exists
  <2>7. ClosedStaysClosed'
    BY <1>1, <1>4, <2>1, <2>2, <2>3 DEF SoleWorkerInv, ClosedStaysClosed, Closed
  <2> QED
    BY <1>5, <1>6, <2>3, <2>4, <2>5, <2>6, <2>7 DEF SoleWorkerInv
<1>12. CASE RequestRaises(w)
  <2>1. /\ pc[w] = "marked" /\ pc'[w] = "raised" /\ UNCHANGED <<row, acked>>
        /\ \E sent \in 0..1 : posts' = [posts EXCEPT ![d] = @ + sent]
    BY <1>2, <1>12 DEF RequestRaises, PostRaises, Raise, TypeOK, ExecutorTypeOK
  <2>2. posts'[d] \in {posts[d], posts[d] + 1} /\ \A e \in Deliveries : e # d => posts'[e] = posts[e]
    BY <1>3, <2>1 DEF TypeOK, ExecutorTypeOK
  <2>3. SnapshotIsCurrent' /\ PendingHasBudget' /\ ClosedStaysClosed'
    BY <1>1, <2>1 DEF SoleWorkerInv, SnapshotIsCurrent, PendingHasBudget, ClosedStaysClosed, Closed
  <2>4. PostsLag'
    BY <1>1, <1>3, <1>4, <2>1, <2>2 DEF SoleWorkerInv, PostsLag, Exists
  <2> QED
    BY <1>5, <1>6, <2>1, <2>3, <2>4 DEF SoleWorkerInv
<1> QED
  BY <1>7, <1>8, <1>9, <1>10, <1>11, <1>12 DEF Execute

LEMMA StepPreserves ==
    ASSUME SoleWorker, TypeOK, SoleWorkerInv, [Next]_vars
    PROVE  SoleWorkerInv'
<1>1. ASSUME NEW w \in Workers, WorkerStep(w) \/ FaultStep(w) PROVE SoleWorkerInv'
  <2>1. CASE Claim(w) \/ Commit(w) \/ FinishBatch(w) \/ Wake(w) \/ Start(w)
    BY <2>1, LoopPreserves
  <2>2. CASE Deliver(w)
    BY <2>2, DeliverPreserves
  <2>3. CASE Execute(w) \/ RequestRaises(w)
    BY <2>3, ExecutePreserves
  <2>4. CASE Halt(w, "down")
    BY <2>4, HaltPreserves
  <2>5. CASE Halt(w, "exited")
    BY <2>5, HaltPreserves
  <2> QED
    BY <1>1, <2>1, <2>2, <2>3, <2>4, <2>5 DEF WorkerStep, FaultStep, Die, Crash, Interrupt
<1>2. CASE EnvironmentStep
  BY <1>2, EnvironmentPreserves
<1>3. CASE UNCHANGED vars
  BY <1>3 DEF vars, execVars, historyVars, workerVars, operatorVars, SoleWorkerInv,
     IdleUnlessDraining, BatchStaysDue, SnapshotIsCurrent, BeingAttempted, PendingHasBudget,
     PostsLag, ClosedStaysClosed, Closed, Due, Exists
<1> QED
  BY <1>1, <1>2, <1>3, EnvironmentSteps DEF Next

\* The inductive invariant of a single worker, whatever producers, operators,
\* deletions and faults do between its steps.
THEOREM SoleWorkerInvariant == SoleWorker => (Spec => []SoleWorkerInv)
<1>1. Init => SoleWorkerInv
  BY DEF Init, ExecutorInit, NewRow, SoleWorkerInv, IdleUnlessDraining, BatchStaysDue,
     IsInjective, Range, SnapshotIsCurrent, PendingHasBudget, PostsLag, ClosedStaysClosed, Closed,
     Exists, Status
<1> SUFFICES ASSUME SoleWorker PROVE Spec => []SoleWorkerInv
  OBVIOUS
<1>2. TypeOK /\ SoleWorkerInv /\ [Next]_vars => SoleWorkerInv'
  BY StepPreserves
<1> QED
  BY <1>1, <1>2, TypeCorrect, PTL DEF Spec

\* However retries, requeues, crashes and interrupts interleave, a delivery is
\* attempted at most MaxAttempts times plus once for each retry forced by hand.
THEOREM AttemptBudgetHolds == SoleWorker => (Spec => []AttemptBudget)
<1>1. SoleWorkerInv => AttemptBudget
  BY DEF SoleWorkerInv, PendingHasBudget, AttemptBudget
<1> QED
  BY <1>1, SoleWorkerInvariant, PTL

\* Every POST that was ever sent is in the attempts column.
THEOREM PostsAreCounted == SoleWorker => (Spec => []EveryPostCounted)
<1>1. SoleWorkerInv => EveryPostCounted
  BY DEF SoleWorkerInv, PostsLag, EveryPostCounted
<1> QED
  BY <1>1, SoleWorkerInvariant, PTL

\* An acknowledged delivery is never posted again unless an operator asks for it.
THEOREM AcknowledgedOnce == SoleWorker => (Spec => AckedNeverResent)
<1> DEFINE NoResend == \A d \in Deliveries : acked[d] /\ asked[d] = 0 => posts'[d] <= posts[d]
<1>1. TypeOK /\ SoleWorkerInv /\ [Next]_vars => [NoResend]_vars
  <2> SUFFICES ASSUME TypeOK, SoleWorkerInv, Next, NEW d \in Deliveries, Closed(d)
               PROVE  posts'[d] <= posts[d]
    BY DEF Closed
  <2>0. posts[d] \in Nat
    BY DEF TypeOK, ExecutorTypeOK
  <2>1. ASSUME NEW w \in Workers, Post(w) \/ PostRaises(w) PROVE posts'[d] <= posts[d]
    <3>1. pc[w] = "marked" /\ d # cur[w]
      BY <2>1 DEF SoleWorkerInv, ClosedStaysClosed, Post, PostRaises
    <3> QED
      BY <2>0, <2>1, <3>1 DEF Post, PostRaises, TypeOK, ExecutorTypeOK
  <2>2. ASSUME NEW D \in SUBSET Deliveries, CommandRequeue(D) PROVE posts'[d] <= posts[d]
    BY <2>0, <2>2 DEF CommandRequeue
  <2>3. CASE UNCHANGED posts
    BY <2>0, <2>3
  <2> QED
    BY <2>1, <2>2, <2>3
       DEF Next, WorkerStep, FaultStep, BulkCreate, AdminReadDeadLetters, Claim, Commit, Deliver,
           Execute, FinishBatch, Wake, Die, Start, Crash, Interrupt, RequestRaises, Halt, Delete,
           AdminRetry, AdminRequeueDeadLetter, Tick, Fetch, FetchMissing, MarkDelivering,
           SaveMissing, PersistSuccess, PersistFailure, historyVars
<1> QED
  BY <1>1, TypeCorrect, SoleWorkerInvariant, PTL DEF Spec, AckedNeverResent

\* An attempt starts only from a row that is pending and due at that moment.
THEOREM ScheduleHonoured == SoleWorker => (Spec => HonoursSchedule)
<1> DEFINE Started(d) == row[d].status # "delivering" /\ row'[d].status = "delivering"
           Ripe(d) == row[d].status = "pending" /\ row[d].eta <= 0
           OnTime == \A d \in Deliveries : Started(d) => Ripe(d)
<1>1. TypeOK /\ SoleWorkerInv /\ [Next]_vars => [OnTime]_vars
  <2> SUFFICES ASSUME TypeOK, SoleWorkerInv, Next, NEW d \in Deliveries, Started(d) PROVE Ripe(d)
    OBVIOUS
  <2>1. ASSUME NEW w \in Workers, MarkDelivering(w) PROVE Ripe(d)
    <3>1. pc[w] = "fetched" /\ Exists(cur[w]) /\ d = cur[w]
      BY <2>1 DEF MarkDelivering, TypeOK, ExecutorTypeOK
    <3> QED
      BY <3>1 DEF SoleWorkerInv, SnapshotIsCurrent, Due
  <2>2. ASSUME NEW w \in Workers, PersistSuccess(w) \/ PersistFailure(w, TRUE) PROVE FALSE
    <3> DEFINE verdict == FailureStatus(mem[w], ans[w], ans[w] = NoCode, TRUE)
    <3>1. verdict # "delivering"
      BY VerdictType
    <3>2. CASE row' = [row EXCEPT ![cur[w]].status = "delivered"]
      BY <3>2 DEF TypeOK, ExecutorTypeOK, Row
    <3>3. CASE PersistFailure(w, TRUE) /\ verdict = "pending"
      <4>1. PICK delay \in RetryDelays(mem[w]) :
                row' = [row EXCEPT ![cur[w]] =
                    [status |-> verdict, attempts |-> @.attempts, eta |-> delay]]
        BY <3>3 DEF PersistFailure
      <4> HIDE DEF verdict
      <4> QED
        BY <3>1, <4>1 DEF TypeOK, ExecutorTypeOK
    <3>4. CASE PersistFailure(w, TRUE) /\ verdict # "pending"
      <4>1. row' = [row EXCEPT ![cur[w]].status = verdict]
        BY <3>4 DEF PersistFailure
      <4> HIDE DEF verdict
      <4> QED
        BY <3>1, <4>1 DEF TypeOK, ExecutorTypeOK, Row
    <3> QED
      BY <2>2, <3>2, <3>3, <3>4 DEF PersistSuccess
  <2>3. CASE EnvironmentStep
    <3>1. Kept(d) \/ Created(d) \/ Restarted(d) \/ Gone(d) \/ Forced(d)
      BY <2>3 DEF EnvironmentStep
    <3>2. ~Kept(d)
      BY DEF Kept
    <3>3. row'[d].status \notin {"pending", "deleted"}
      OBVIOUS
    <3> QED
      BY <3>1, <3>2, <3>3 DEF Created, Restarted, Gone, Forced, NewRow
  <2>4. CASE UNCHANGED row
    BY <2>4
  <2>5. ASSUME NEW w \in Workers, WorkerStep(w) \/ FaultStep(w) PROVE Ripe(d)
    BY <2>1, <2>2, <2>4, <2>5
       DEF WorkerStep, FaultStep, Claim, Commit, Deliver, Execute, FinishBatch, Wake, Die, Start,
           Crash, Interrupt, RequestRaises, PostRaises, Halt, Fetch, FetchMissing, SaveMissing, Post
  <2> QED
    BY <2>3, <2>5, EnvironmentSteps DEF Next
<1> QED
  BY <1>1, TypeCorrect, SoleWorkerInvariant, PTL DEF Spec, HonoursSchedule

--------------------------------------------------------------------------------
(* The single worker implements the life cycle of a delivery. *)

\* A row has no attempts before it is created.
BlankUntilCreated == \A d \in Deliveries : row[d].status = "new" => row[d].attempts = 0

\* What no step does: a row that is there never becomes new again, and a new one stays as
\* it is until it is created.
LEMMA NewRowsStay ==
    ASSUME TypeOK, [Next]_vars, NEW d \in Deliveries, row'[d].status = "new"
    PROVE  row[d].status = "new" /\ row'[d].attempts = row[d].attempts
<1>0. row \in [Deliveries -> Row]
  BY DEF TypeOK, ExecutorTypeOK
<1>1. ASSUME NEW w \in Workers, WorkerStep(w) \/ FaultStep(w)
      PROVE  row[d].status = "new" /\ row'[d].attempts = row[d].attempts
  <2>1. CASE UNCHANGED row
    BY <2>1
  <2>2. CASE MarkDelivering(w)
    BY <1>0, <2>2 DEF MarkDelivering
  <2>3. CASE PersistSuccess(w)
    BY <1>0, <2>3 DEF PersistSuccess, Row
  <2>4. CASE PersistFailure(w, TRUE)
    <3> DEFINE verdict == FailureStatus(mem[w], ans[w], ans[w] = NoCode, TRUE)
    <3>1. verdict # "new"
      BY VerdictType
    <3>2. \/ row' = [row EXCEPT ![cur[w]].status = verdict]
          \/ \E delay : row' = [row EXCEPT ![cur[w]] =
                 [status |-> verdict, attempts |-> @.attempts, eta |-> delay]]
      BY <2>4 DEF PersistFailure
    <3> HIDE DEF verdict
    <3>3. CASE row' = [row EXCEPT ![cur[w]].status = verdict]
      BY <1>0, <3>1, <3>3 DEF Row
    <3>4. ASSUME NEW delay, row' = [row EXCEPT ![cur[w]] =
                 [status |-> verdict, attempts |-> @.attempts, eta |-> delay]]
          PROVE  row[d].status = "new" /\ row'[d].attempts = row[d].attempts
      BY <1>0, <3>1, <3>4
    <3> QED
      BY <3>2, <3>3, <3>4
  <2> QED
    BY <1>1, <2>1, <2>2, <2>3, <2>4
       DEF WorkerStep, FaultStep, Claim, Commit, Deliver, Execute, FinishBatch, Wake, Die, Start,
           Crash, Interrupt, RequestRaises, PostRaises, Halt, Fetch, FetchMissing, SaveMissing, Post
<1>2. CASE EnvironmentStep
  <2>1. Kept(d) \/ Created(d) \/ Restarted(d) \/ Gone(d) \/ Forced(d)
    BY <1>2 DEF EnvironmentStep
  <2> QED
    BY <2>1 DEF Kept, Created, Restarted, Gone, Forced, NewRow
<1>3. CASE UNCHANGED vars
  BY <1>3 DEF vars
<1> QED
  BY <1>1, <1>2, <1>3, EnvironmentSteps DEF Next

LEMMA BlankInvariant == Spec => []BlankUntilCreated
<1>1. Init => BlankUntilCreated
  BY DEF Init, ExecutorInit, NewRow, BlankUntilCreated
<1>2. TypeOK /\ BlankUntilCreated /\ [Next]_vars => BlankUntilCreated'
  BY NewRowsStay DEF BlankUntilCreated
<1> QED
  BY <1>1, <1>2, TypeCorrect, PTL DEF Spec

\* The life cycle sees the status, the attempts and what is in flight, and nothing else.
Unseen ==
    /\ \A d \in Deliveries : row'[d].status = row[d].status /\ row'[d].attempts = row[d].attempts
    /\ InFlight' = InFlight

LEMMA UnseenStutters == Unseen => UNCHANGED Lifecycle!vars
BY DEF Unseen, Lifecycle!vars

\* What is in flight, and what a step of the worker makes of it.
LEMMA FlightOfSoleWorker ==
    ASSUME TypeOK, SoleWorker, NEW w \in Workers
    PROVE  InFlight = IF pc[w] \in {"marked", "answered"} THEN {cur[w]} ELSE {}
BY DEF SoleWorker, InFlight, TypeOK, ExecutorTypeOK

LEMMA BeginMapped ==
    ASSUME TypeOK, TypeOK', SoleWorker, SoleWorkerInv, NEW w \in Workers, MarkDelivering(w)
    PROVE  Lifecycle!Next
<1>1. PICK d \in Deliveries : d = cur[w] /\ row[d] \in Row /\ row[d].attempts \in Nat
  BY DEF MarkDelivering, TypeOK, ExecutorTypeOK, Row
<1>2. row[d].status = "pending" /\ mem[w] = row[d].attempts /\ pc[w] = "fetched"
  BY <1>1 DEF MarkDelivering, SoleWorkerInv, SnapshotIsCurrent, Due
<1>3. /\ row' = [row EXCEPT ![d] =
                   [status |-> "delivering", attempts |-> mem[w] + 1, eta |-> row[d].eta]]
      /\ pc'[w] = "marked" /\ cur'[w] = d
  BY <1>1 DEF MarkDelivering, TypeOK, ExecutorTypeOK
<1>4. InFlight = {} /\ InFlight' = {d}
  BY <1>2, <1>3, FlightOfSoleWorker DEF InFlight, SoleWorker
<1>5. Lifecycle!Begin(d)
  BY <1>1, <1>2, <1>3, <1>4 DEF Lifecycle!Begin, TypeOK, ExecutorTypeOK
<1> QED
  BY <1>5 DEF Lifecycle!Next

LEMMA SettleMapped ==
    ASSUME TypeOK, SoleWorker, SoleWorkerInv, NEW w \in Workers,
           PersistSuccess(w) \/ PersistFailure(w, TRUE)
    PROVE  Lifecycle!Next
<1> DEFINE GivenUp == IF DeadLetterAfterAttempts THEN "dead_letter" ELSE "failed"
<1>1. PICK d \in Deliveries : d = cur[w] /\ row[d] \in Row /\ row[d].attempts \in Nat
  BY DEF PersistSuccess, PersistFailure, TypeOK, ExecutorTypeOK, Row
<1>2. /\ row[d].status \in {"pending", "delivering"} /\ mem[w] = row[d].attempts
      /\ pc[w] = "answered" /\ pc'[w] = "ready"
  BY <1>1 DEF PersistSuccess, PersistFailure, Return, SoleWorkerInv, SnapshotIsCurrent, BeingAttempted,
              TypeOK, ExecutorTypeOK
<1>3. InFlight = {d} /\ InFlight' = {}
  BY <1>1, <1>2, FlightOfSoleWorker DEF InFlight, SoleWorker
<1>4. ASSUME NEW result \in {"delivered", "failed", "pending", GivenUp},
             result = "pending" => mem[w] < MaxAttempts,
             result = GivenUp /\ result # "failed" => mem[w] >= MaxAttempts,
             row'[d].status = result, row'[d].attempts = row[d].attempts,
             \A e \in Deliveries : e # d => row'[e] = row[e]
      PROVE  Lifecycle!Next
  <2>1. Lifecycle!Settle(d, result)
    BY <1>1, <1>2, <1>3, <1>4 DEF Lifecycle!Settle
  <2> QED
    BY <2>1 DEF Lifecycle!Next
<1>5. CASE PersistSuccess(w)
  <2>1. row'[d].status = "delivered" /\ row'[d].attempts = row[d].attempts
        /\ \A e \in Deliveries : e # d => row'[e] = row[e]
    BY <1>1, <1>5 DEF PersistSuccess, TypeOK, ExecutorTypeOK, Row
  <2> QED
    BY <1>4, <2>1
<1>6. CASE PersistFailure(w, TRUE)
  <2> DEFINE verdict == FailureStatus(mem[w], ans[w], ans[w] = NoCode, TRUE)
  <2>1. verdict \in {"failed", "pending", "dead_letter"}
    BY VerdictType
  <2>2. verdict = "pending" => mem[w] < MaxAttempts
    BY DEF FailureStatus
  <2>3. verdict = "dead_letter" => mem[w] >= MaxAttempts /\ DeadLetterAfterAttempts
    <3>1. mem[w] \in Nat
      BY <1>1, <1>2
    <3> QED
      BY <3>1 DEF FailureStatus
  <2>4. /\ row'[d].status = verdict /\ row'[d].attempts = row[d].attempts
        /\ \A e \in Deliveries : e # d => row'[e] = row[e]
    <3>1. \/ row' = [row EXCEPT ![d].status = verdict]
          \/ \E delay : row' = [row EXCEPT ![d] =
                 [status |-> verdict, attempts |-> @.attempts, eta |-> delay]]
      BY <1>1, <1>6 DEF PersistFailure
    <3> HIDE DEF verdict
    <3>2. row \in [Deliveries -> Row] /\ d \in Deliveries
      BY DEF TypeOK, ExecutorTypeOK
    <3>3. CASE row' = [row EXCEPT ![d].status = verdict]
      BY <1>1, <3>2, <3>3 DEF Row
    <3>4. ASSUME NEW delay, row' = [row EXCEPT ![d] =
                 [status |-> verdict, attempts |-> @.attempts, eta |-> delay]]
          PROVE  /\ row'[d].status = verdict /\ row'[d].attempts = row[d].attempts
                 /\ \A e \in Deliveries : e # d => row'[e] = row[e]
      BY <3>2, <3>4
    <3> QED
      BY <3>1, <3>3, <3>4
  <2> HIDE DEF verdict
  <2> QED
    BY <1>4, <2>1, <2>2, <2>3, <2>4
<1> QED
  BY <1>5, <1>6

\* The attempt ends without a result, or the worker had none under way.
LEMMA AbandonMapped ==
    ASSUME TypeOK, SoleWorker, NEW w \in Workers, UNCHANGED row, pc'[w] \notin {"marked", "answered"}
    PROVE  [Lifecycle!Next]_(Lifecycle!vars)
<1>1. InFlight' = {}
  BY DEF InFlight, SoleWorker
<1>2. CASE pc[w] \in {"marked", "answered"}
  <2>1. cur[w] \in Deliveries /\ InFlight = {cur[w]}
    BY <1>2, FlightOfSoleWorker DEF TypeOK, ExecutorTypeOK
  <2>2. Lifecycle!Abandon(cur[w])
    BY <1>1, <2>1 DEF Lifecycle!Abandon
  <2> QED
    BY <2>1, <2>2 DEF Lifecycle!Next
<1>3. CASE pc[w] \notin {"marked", "answered"}
  <2>1. Unseen
    BY <1>1, <1>3, FlightOfSoleWorker DEF Unseen
  <2> QED
    BY <2>1, UnseenStutters
<1> QED
  BY <1>2, <1>3

LEMMA WorkerMapped ==
    ASSUME TypeOK, TypeOK', SoleWorker, SoleWorkerInv, NEW w \in Workers, WorkerStep(w) \/ FaultStep(w)
    PROVE  [Lifecycle!Next]_(Lifecycle!vars)
<1>1. CASE Claim(w) \/ Commit(w) \/ FinishBatch(w) \/ Wake(w) \/ Start(w)
  <2>1. Unseen
    BY <1>1 DEF Claim, Commit, FinishBatch, Wake, Start, execVars, Unseen, InFlight
  <2> QED
    BY <2>1, UnseenStutters
<1>2. CASE Deliver(w) \/ SaveMissing(w) \/ RequestRaises(w) \/ Halt(w, "down") \/ Halt(w, "exited")
  <2>1. UNCHANGED row /\ pc'[w] \notin {"marked", "answered"}
    BY <1>2 DEF Deliver, Fetch, FetchMissing, SaveMissing, RequestRaises, PostRaises, Halt, Return, Raise,
                TypeOK, ExecutorTypeOK
  <2> QED
    BY <2>1, AbandonMapped
<1>3. CASE MarkDelivering(w)
  BY <1>3, BeginMapped
<1>4. CASE Post(w)
  <2>1. Unseen
    BY <1>4 DEF Post, Unseen, InFlight, TypeOK, ExecutorTypeOK
  <2> QED
    BY <2>1, UnseenStutters
<1>5. CASE PersistSuccess(w) \/ PersistFailure(w, TRUE)
  BY <1>5, SettleMapped
<1> QED
  BY <1>1, <1>2, <1>3, <1>4, <1>5 DEF WorkerStep, FaultStep, Execute, Die, Crash, Interrupt

LEMMA EnvironmentMapped ==
    ASSUME TypeOK, SoleWorkerInv, BlankUntilCreated,
           \/ \E D \in SUBSET Deliveries :
                 BulkCreate(D) \/ AdminReadDeadLetters(D) \/ CommandRequeue(D)
           \/ \E d \in Deliveries : Delete(d) \/ AdminRetry(d) \/ AdminRequeueDeadLetter(d)
           \/ Tick
    PROVE  [Lifecycle!Next]_(Lifecycle!vars)
<1> USE DEF execVars
<1>0. \A d \in Deliveries : row[d] \in Row
  BY DEF TypeOK, ExecutorTypeOK
<1>1. ASSUME NEW D \in SUBSET Deliveries, BulkCreate(D) PROVE Lifecycle!Next
  <2>1. /\ \A d \in D : row[d].status = "new"
        /\ \A d \in Deliveries : row'[d] = IF d \in D THEN NewRow("pending") ELSE row[d]
        /\ InFlight' = InFlight /\ D # {}
    BY <1>1 DEF BulkCreate, InFlight
  <2>2. Lifecycle!Create(D)
    BY <2>1 DEF BlankUntilCreated, Lifecycle!Create, NewRow
  <2> QED
    BY <2>2 DEF Lifecycle!Next
<1>2. ASSUME NEW D \in SUBSET Deliveries, AdminReadDeadLetters(D) PROVE UNCHANGED Lifecycle!vars
  <2>1. Unseen
    BY <1>2 DEF AdminReadDeadLetters, Unseen, InFlight
  <2> QED
    BY <2>1, UnseenStutters
\* A dead letter is not in flight: what is in flight is "delivering", or put back.
<1>3. ASSUME NEW D \in SUBSET Deliveries, CommandRequeue(D) PROVE Lifecycle!Next
  <2>1. D \subseteq DeadLetters /\ D # {}
    BY <1>3 DEF CommandRequeue
  <2>2. D \cap InFlight = {}
    BY <2>1 DEF DeadLetters, InFlight, SoleWorkerInv, SnapshotIsCurrent, BeingAttempted, Exists, Status
  <2>3. Lifecycle!Requeue(D)
    BY <1>3, <2>1, <2>2 DEF CommandRequeue, Lifecycle!Requeue, NewRow, InFlight, DeadLetters
  <2> QED
    BY <2>3 DEF Lifecycle!Next
<1>4. ASSUME NEW d \in Deliveries, Delete(d) PROVE Lifecycle!Next
  <2>1. Lifecycle!Remove(d)
    BY <1>0, <1>4 DEF Delete, Lifecycle!Remove, Lifecycle!Stored, NewRow, Exists, Status, InFlight, TypeOK,
                      ExecutorTypeOK
  <2> QED
    BY <2>1 DEF Lifecycle!Next
<1>5. ASSUME NEW d \in Deliveries, AdminRetry(d) \/ AdminRequeueDeadLetter(d)
      PROVE  [Lifecycle!Next]_(Lifecycle!vars)
  <2>1. CASE PutBack(d) /\ Exists(d) /\ UNCHANGED execVars
    <3>1. Lifecycle!ForceRetry(d)
      BY <1>0, <2>1 DEF PutBack, Lifecycle!ForceRetry, Lifecycle!Stored, Exists, Status, InFlight, TypeOK,
                        ExecutorTypeOK
    <3> QED
      BY <3>1 DEF Lifecycle!Next
  <2>2. CASE UNCHANGED <<row, execVars>>
    <3>1. Unseen
      BY <2>2 DEF Unseen, InFlight
    <3> QED
      BY <3>1, UnseenStutters
  <2> QED
    BY <1>5, <2>1, <2>2 DEF AdminRetry, AdminRequeueDeadLetter
<1>6. ASSUME Tick PROVE UNCHANGED Lifecycle!vars
  <2>1. Unseen
    BY <1>0, <1>6 DEF Tick, Unseen, InFlight, Row
  <2> QED
    BY <2>1, UnseenStutters
<1> QED
  BY <1>1, <1>2, <1>3, <1>4, <1>5, <1>6

\* A single worker, with operators, deletions and faults at any moment around it, never
\* makes a step that the life cycle of a delivery does not allow.
THEOREM SoleWorkerImplementsLifecycle == SoleWorker => (Spec => ImplementsLifecycle)
<1>1. Init => Lifecycle!Init
  BY DEF Init, ExecutorInit, NewRow, InFlight, Lifecycle!Init
<1> SUFFICES ASSUME SoleWorker PROVE Spec => ImplementsLifecycle
  OBVIOUS
<1>2. TypeOK /\ TypeOK' /\ SoleWorkerInv /\ BlankUntilCreated /\ [Next]_vars =>
          [Lifecycle!Next]_(Lifecycle!vars)
  <2> SUFFICES ASSUME TypeOK, TypeOK', SoleWorkerInv, BlankUntilCreated, [Next]_vars
               PROVE  [Lifecycle!Next]_(Lifecycle!vars)
    OBVIOUS
  <2>1. CASE UNCHANGED vars
    <3>1. Unseen
      BY <2>1 DEF vars, execVars, Unseen, InFlight
    <3> QED
      BY <3>1, UnseenStutters
  <2> QED
    BY <2>1, WorkerMapped, EnvironmentMapped DEF Next
<1> QED
  BY <1>1, <1>2, TypeCorrect, SoleWorkerInvariant, BlankInvariant, PTL DEF Spec, ImplementsLifecycle, Lifecycle!Spec
================================================================================
