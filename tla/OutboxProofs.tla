------------------------------ MODULE OutboxProofs ------------------------------
(***************************************************************************)
(* Theorems about the outbox, for every number of deliveries, every batch  *)
(* size, every retry policy and every bound.                               *)
(***************************************************************************)
EXTENDS Outbox, ExecutorProofs, SequenceTheorems

USE WorkersAssumption

--------------------------------------------------------------------------------
(* What the helpers return. *)

LEMMA OlderRowType == ASSUME NEW r \in Row PROVE [r EXCEPT !.eta = @ - 1] \in Row
BY DEF Row

--------------------------------------------------------------------------------
(* Type correctness. *)

LEMMA HeadTail ==
    ASSUME NEW b \in Seq(Deliveries), b # <<>>
    PROVE  /\ Head(b) \in Deliveries
           /\ Tail(b) \in Seq(Deliveries)
OBVIOUS

\* The batch that a claim reads is a sequence of rows it may claim.
LEMMA ClaimedBatch ==
    ASSUME NEW S, NEW n \in Nat, NEW s \in [1..n -> S]
    PROVE  s \in Seq(S) /\ Range(s) \subseteq S
BY SeqDef DEF Range

LEMMA HaltType ==
    ASSUME TypeOK, NEW w \in Workers, NEW how \in {"exited", "down"}, Halt(w, how), faults' \in Nat
    PROVE  TypeOK'
<1>1. ExecutorTypeOK'
  BY ReturnType DEF TypeOK, Halt, ExecutorTypeOK, historyVars
<1> QED
  BY <1>1 DEF TypeOK, Halt, operatorVars

LEMMA TypeInvariant == TypeOK /\ [Next]_vars => TypeOK'
<1> SUFFICES ASSUME TypeOK, [Next]_vars PROVE TypeOK'
  OBVIOUS
<1> USE DEF TypeOK
<1>1. ASSUME NEW D \in SUBSET Deliveries, BulkCreate(D) PROVE TypeOK'
  <2>1. row' \in [Deliveries -> Row]
    BY <1>1, NewRowType DEF BulkCreate, ExecutorTypeOK, Status
  <2> QED
    BY <1>1, <2>1 DEF BulkCreate, ExecutorTypeOK, execVars, historyVars, workerVars, operatorVars
<1>2. ASSUME NEW D \in SUBSET Deliveries, AdminReadDeadLetters(D) PROVE TypeOK'
  BY <1>2 DEF AdminReadDeadLetters, ExecutorTypeOK, execVars, historyVars, workerVars
<1>3. ASSUME NEW D \in SUBSET Deliveries, CommandRequeue(D) PROVE TypeOK'
  <2>1. row' \in [Deliveries -> Row]
    BY <1>3, NewRowType DEF CommandRequeue, ExecutorTypeOK, Status
  <2> QED
    BY <1>3, <2>1 DEF CommandRequeue, ExecutorTypeOK, execVars, workerVars
<1>4. ASSUME NEW w \in Workers, Claim(w) PROVE TypeOK'
  <2>0. PICK n \in 0..BatchSize : \E s \in [1..n -> Claimable] : batch' = [batch EXCEPT ![w] = s]
    BY <1>4 DEF Claim
  <2>1. PICK s \in [1..n -> Claimable] : batch' = [batch EXCEPT ![w] = s]
    BY <2>0
  <2>2. Claimable \subseteq Deliveries
    BY DEF Claimable, Due
  <2>3. s \in Seq(Deliveries)
    BY <2>1, <2>2, BoundsAssumption, ClaimedBatch
  <2> QED
    BY <1>4, <2>1, <2>3 DEF Claim, ExecutorTypeOK, execVars, historyVars, operatorVars
<1>5. ASSUME NEW w \in Workers, Commit(w) \/ FinishBatch(w) \/ Wake(w) \/ Start(w) PROVE TypeOK'
  BY <1>5 DEF Commit, FinishBatch, Wake, Start, ExecutorTypeOK, execVars, historyVars, operatorVars
<1>6. ASSUME NEW w \in Workers, Deliver(w) PROVE TypeOK'
  <2>1. Head(batch[w]) \in Deliveries /\ Tail(batch[w]) \in Seq(Deliveries)
    BY <1>6, HeadTail DEF Deliver
  <2>2. ExecutorTypeOK'
    BY <1>6, <2>1, ExecutorSteps DEF Deliver
  <2> QED
    BY <1>6, <2>1, <2>2 DEF Deliver, operatorVars
<1>7. ASSUME NEW w \in Workers, Execute(w) \/ RequestRaises(w) PROVE TypeOK'
  <2>1. ExecutorTypeOK'
    BY <1>7, ExecutorSteps DEF Execute, RequestRaises
  <2>2. UNCHANGED <<workerVars, operatorVars>> /\ faults' \in {faults, faults + 1}
    BY <1>7 DEF Execute, RequestRaises, Fault
  <2> QED
    BY <2>1, <2>2 DEF workerVars, operatorVars
<1>8. ASSUME NEW w \in Workers, Die(w) \/ Crash(w) \/ Interrupt(w) PROVE TypeOK'
  <2>1. faults' \in Nat
    BY <1>8 DEF Die, Crash, Interrupt, Fault
  <2> HIDE DEF TypeOK
  <2>2. CASE Halt(w, "down")
    BY <2>1, <2>2, HaltType
  <2>3. CASE Halt(w, "exited")
    BY <2>1, <2>3, HaltType
  <2> QED
    BY <1>8, <2>2, <2>3 DEF Die, Crash, Interrupt
<1>9. ASSUME NEW d \in Deliveries, Delete(d) PROVE TypeOK'
  <2>1. row' \in [Deliveries -> Row]
    BY <1>9, NewRowType DEF Delete, ExecutorTypeOK
  <2> QED
    BY <1>9, <2>1 DEF Delete, ExecutorTypeOK, execVars, historyVars, workerVars, operatorVars
<1>10. ASSUME NEW d \in Deliveries, AdminRetry(d) \/ AdminRequeueDeadLetter(d) PROVE TypeOK'
  <2>1. row' \in [Deliveries -> Row] /\ asked' \in [Deliveries -> Nat]
    <3>1. [status |-> "pending", attempts |-> row[d].attempts, eta |-> 0] \in Row
      BY DEF ExecutorTypeOK, Row, Status
    <3>2. CASE PutBack(d)
      BY <3>1, <3>2 DEF PutBack, ExecutorTypeOK
    <3>3. CASE UNCHANGED <<row, asked>>
      BY <3>3 DEF ExecutorTypeOK
    <3> QED
      BY <1>10, <3>2, <3>3 DEF AdminRetry, AdminRequeueDeadLetter
  <2>2. restq' \subseteq Deliveries
    BY <1>10 DEF AdminRetry, AdminRequeueDeadLetter
  <2> QED
    BY <1>10, <2>1, <2>2
       DEF AdminRetry, AdminRequeueDeadLetter, ExecutorTypeOK, execVars, historyVars, workerVars
<1>11. CASE Tick
  <2>1. row' \in [Deliveries -> Row]
    <3>1. \A d \in Deliveries : [row[d] EXCEPT !.eta = @ - 1] \in Row
      BY OlderRowType DEF ExecutorTypeOK
    <3> QED
      BY <1>11, <3>1 DEF Tick, ExecutorTypeOK
  <2> QED
    BY <1>11, <2>1 DEF Tick, ExecutorTypeOK, execVars, historyVars, workerVars, operatorVars
<1>12. CASE UNCHANGED vars
  BY <1>12 DEF vars, ExecutorTypeOK, execVars, historyVars, workerVars, operatorVars
<1> QED
  BY <1>1, <1>2, <1>3, <1>4, <1>5, <1>6, <1>7, <1>8, <1>9, <1>10, <1>11, <1>12
     DEF Next, WorkerStep, FaultStep

\* Every column and every variable keeps its type, for every instance.
THEOREM TypeCorrect == Spec => []TypeOK
<1>1. Init => TypeOK
  BY NewRowType DEF Init, ExecutorInit, TypeOK, ExecutorTypeOK
<1> QED
  BY <1>1, TypeInvariant, PTL DEF Spec

--------------------------------------------------------------------------------
(* What holds however many workers share the table, on any database.  First: a row that
   says delivered was acknowledged. *)

\* A 2xx in memory has been recorded, so that writing "delivered" is justified.
SuccessIsAcked ==
    \A w \in Workers : pc[w] = "answered" /\ Success(ans[w]) => acked[cur[w]]

AckInv == DeliveredWasAcked /\ SuccessIsAcked

LEMMA AckEnvironment ==
    ASSUME TypeOK, AckInv, UNCHANGED <<pc, cur, ans, acked>>,
           \A d \in Deliveries : row'[d].status = "delivered" => row[d].status = "delivered"
    PROVE  AckInv'
BY DEF AckInv, DeliveredWasAcked, SuccessIsAcked

LEMMA AckQuiet ==
    ASSUME TypeOK, AckInv, NEW w \in Workers, pc'[w] # "answered", acked' = acked,
           \A v \in Workers \ {w} : pc'[v] = pc[v] /\ cur'[v] = cur[v] /\ ans'[v] = ans[v],
           \A d \in Deliveries : row'[d].status = "delivered" => row[d].status = "delivered"
    PROVE  AckInv'
BY DEF AckInv, DeliveredWasAcked, SuccessIsAcked

\* What a process that returns or raises leaves of its memory.
LEMMA Forgotten ==
    ASSUME ExecutorTypeOK, NEW w \in Processes, Return(w) \/ Raise(w)
    PROVE  /\ pc'[w] \in {"ready", "raised"}
           /\ \A v \in Processes \ {w} : pc'[v] = pc[v] /\ cur'[v] = cur[v] /\ ans'[v] = ans[v]
BY DEF ExecutorTypeOK, Return, Raise, Forget

LEMMA AckExecutor ==
    ASSUME TypeOK, AckInv, NEW w \in Workers,
           \/ \E d \in Deliveries : Fetch(w, d) \/ FetchMissing(w, d)
           \/ MarkDelivering(w)
           \/ SaveMissing(w)
           \/ Post(w)
           \/ PostRaises(w)
           \/ PersistSuccess(w)
           \/ PersistFailure(w, TRUE)
           \/ Halt(w, "down") \/ Halt(w, "exited")
    PROVE  AckInv'
<1> USE DEF TypeOK, ExecutorTypeOK, AckInv, DeliveredWasAcked, SuccessIsAcked
<1>1. ASSUME NEW d \in Deliveries, Fetch(w, d) \/ FetchMissing(w, d) PROVE AckInv'
  <2>1. pc'[w] # "answered" /\ \A v \in Workers \ {w} : pc'[v] = pc[v] /\ cur'[v] = cur[v] /\ ans'[v] = ans[v]
    BY <1>1 DEF Fetch, FetchMissing, Raise, Forget
  <2>2. UNCHANGED <<row, acked>>
    BY <1>1 DEF Fetch, FetchMissing, historyVars
  <2> HIDE DEF AckInv
  <2> QED
    BY <2>1, <2>2, AckQuiet
<1>2. CASE MarkDelivering(w)
  BY <1>2 DEF MarkDelivering, historyVars, Row
<1>3. CASE SaveMissing(w) \/ PostRaises(w)
  <2>1. Raise(w) /\ UNCHANGED <<row, acked>>
    BY <1>3 DEF SaveMissing, PostRaises, historyVars
  <2> HIDE DEF AckInv
  <2> QED
    BY <2>1, Forgotten, AckQuiet
<1>4. CASE Post(w)
  <2>1. cur[w] \in Deliveries
    BY <1>4 DEF Post
  <2>2. PICK code \in Codes \cup {NoCode} :
            /\ ans' = [ans EXCEPT ![w] = code]
            /\ acked' = [acked EXCEPT ![cur[w]] = @ \/ Success(code)]
    BY <1>4 DEF Post
  <2>3. \A d \in Deliveries : acked[d] => acked'[d]
    BY <2>1, <2>2, Zenon
  <2>4. Success(ans'[w]) => acked'[cur[w]]
    BY <2>1, <2>2
  <2> QED
    BY <1>4, <2>3, <2>4 DEF Post
<1>5. CASE PersistSuccess(w)
  <2>1. acked[cur[w]] /\ cur[w] \in Deliveries
    BY <1>5 DEF PersistSuccess
  <2> QED
    BY <1>5, <2>1 DEF PersistSuccess, Return, Forget, historyVars
<1>6. CASE PersistFailure(w, TRUE)
  <2> DEFINE verdict == FailureStatus(mem[w], ans[w], ans[w] = NoCode, TRUE)
  <2>1. verdict # "delivered"
    BY VerdictType
  <2> HIDE DEF verdict
  <2>2. \A d \in Deliveries : row'[d].status = "delivered" => row[d].status = "delivered"
    <3>1. CASE verdict = "pending"
      <4>1. PICK delay \in RetryDelays(mem[w]) :
                row' = [row EXCEPT ![cur[w]] =
                    [status |-> verdict, attempts |-> @.attempts, eta |-> delay]]
        BY <1>6, <3>1 DEF PersistFailure, verdict
      <4> QED
        BY <2>1, <4>1
    <3>2. CASE verdict # "pending"
      <4>1. row' = [row EXCEPT ![cur[w]].status = verdict]
        BY <1>6, <3>2 DEF PersistFailure, verdict
      <4> QED
        BY <2>1, <4>1 DEF Row
    <3> QED
      BY <3>1, <3>2
  <2> QED
    <3>1. Return(w) /\ UNCHANGED acked
      BY <1>6 DEF PersistFailure, historyVars
    <3> HIDE DEF AckInv
    <3> QED
      BY <2>2, <3>1, Forgotten, AckQuiet
<1>7. CASE Halt(w, "down") \/ Halt(w, "exited")
  <2>1. Return(w) /\ UNCHANGED <<row, acked>>
    BY <1>7 DEF Halt, historyVars
  <2> HIDE DEF AckInv
  <2> QED
    BY <2>1, Forgotten, AckQuiet
<1> QED
  BY <1>1, <1>2, <1>3, <1>4, <1>5, <1>6, <1>7

LEMMA AckStep == TypeOK /\ AckInv /\ [Next]_vars => AckInv'
<1> SUFFICES ASSUME TypeOK, AckInv, [Next]_vars PROVE AckInv'
  OBVIOUS
<1>1. ASSUME NEW w \in Workers, Deliver(w) \/ Execute(w) \/ Die(w) \/ FaultStep(w) PROVE AckInv'
  <2>1. CASE Deliver(w)
    <3>1. Head(batch[w]) \in Deliveries
      BY <2>1, HeadTail DEF Deliver, TypeOK
    <3> QED
      BY <2>1, <3>1, AckExecutor DEF Deliver
  <2> QED
    BY <1>1, <2>1, AckExecutor DEF Execute, Die, FaultStep, Crash, Interrupt, RequestRaises
<1>2. ASSUME NEW w \in Workers, Claim(w) \/ Commit(w) \/ FinishBatch(w) \/ Wake(w) \/ Start(w)
      PROVE  AckInv'
  BY <1>2, AckEnvironment
     DEF Claim, Commit, FinishBatch, Wake, Start, execVars, historyVars
<1>3. ASSUME NEW D \in SUBSET Deliveries,
             BulkCreate(D) \/ AdminReadDeadLetters(D) \/ CommandRequeue(D)
      PROVE  AckInv'
  BY <1>3, AckEnvironment
     DEF BulkCreate, AdminReadDeadLetters, CommandRequeue, NewRow, execVars, historyVars
<1>4. ASSUME NEW d \in Deliveries, Delete(d) \/ AdminRetry(d) \/ AdminRequeueDeadLetter(d)
      PROVE  AckInv'
  <2>1. \A e \in Deliveries : row'[e].status = "delivered" => row[e].status = "delivered"
    <3>1. CASE row' = [row EXCEPT ![d] = NewRow("deleted")]
      BY <3>1 DEF NewRow, TypeOK, ExecutorTypeOK
    <3>2. CASE PutBack(d)
      BY <3>2 DEF PutBack, TypeOK, ExecutorTypeOK
    <3>3. CASE UNCHANGED row
      BY <3>3
    <3> QED
      BY <1>4, <3>1, <3>2, <3>3 DEF Delete, AdminRetry, AdminRequeueDeadLetter
  <2> QED
    BY <1>4, <2>1, AckEnvironment DEF Delete, AdminRetry, AdminRequeueDeadLetter, execVars, historyVars
<1>5. CASE Tick
  <2>1. \A e \in Deliveries : row'[e].status = "delivered" => row[e].status = "delivered"
    BY <1>5 DEF Tick
  <2> QED
    BY <1>5, <2>1, AckEnvironment DEF Tick, execVars, historyVars
<1>6. CASE UNCHANGED vars
  BY <1>6, AckEnvironment DEF vars, execVars, historyVars
<1> QED
  BY <1>1, <1>2, <1>3, <1>4, <1>5, <1>6 DEF Next, WorkerStep

\* A row says "delivered" only if the consumer answered a POST of it with 2xx.
THEOREM DeliveredMeansAcknowledged == Spec => []DeliveredWasAcked
<1>1. Init => AckInv
  BY DEF Init, ExecutorInit, NewRow, AckInv, DeliveredWasAcked, SuccessIsAcked
<1>2. AckInv => DeliveredWasAcked
  BY DEF AckInv
<1> QED
  BY <1>1, <1>2, AckStep, TypeCorrect, PTL DEF Spec

--------------------------------------------------------------------------------
(* Rows in flight. *)

LEMMA FlightEnvironment ==
    ASSUME TypeOK, DeliveringHasExecutor, UNCHANGED <<pc, cur, faults>>,
           \A d \in Deliveries : row'[d].status = "delivering" => row[d].status = "delivering"
    PROVE  DeliveringHasExecutor'
BY DEF DeliveringHasExecutor, InFlight

\* An executor leaves a delivery that is "delivering" only by taking it out of that
\* status, or when the row is gone.
LEMMA FlightExecutor ==
    ASSUME TypeOK, DeliveringHasExecutor, NEW w \in Workers, faults' = faults,
           \A v \in Workers \ {w} : pc'[v] = pc[v] /\ cur'[v] = cur[v],
           \A d \in Deliveries : row'[d].status = "delivering" =>
              \/ cur'[w] = d /\ pc'[w] \in {"marked", "answered"}
              \/ row[d].status = "delivering" /\ ~(cur[w] = d /\ pc[w] \in {"marked", "answered"})
    PROVE  DeliveringHasExecutor'
BY DEF DeliveringHasExecutor, InFlight

LEMMA FlightFault ==
    ASSUME TypeOK, faults' = faults + 1
    PROVE  DeliveringHasExecutor'
BY DEF DeliveringHasExecutor, TypeOK

LEMMA FlightStep == TypeOK /\ DeliveringHasExecutor /\ [Next]_vars => DeliveringHasExecutor'
<1> SUFFICES ASSUME TypeOK, DeliveringHasExecutor, [Next]_vars PROVE DeliveringHasExecutor'
  OBVIOUS
<1>0. ExecutorTypeOK
  BY DEF TypeOK
<1>1. ASSUME NEW w \in Workers, Deliver(w) \/ Execute(w) \/ Die(w) PROVE DeliveringHasExecutor'
  <2>0. faults' = faults
    BY <1>1 DEF Deliver, Execute, Die
  <2>1. ASSUME NEW d, Fetch(w, d) PROVE DeliveringHasExecutor'
    BY <2>0, <2>1, FlightExecutor DEF Fetch, TypeOK, ExecutorTypeOK
  <2>2. ASSUME NEW d, FetchMissing(w, d) PROVE DeliveringHasExecutor'
    <3>1. Raise(w) /\ UNCHANGED row /\ pc[w] = "ready"
      BY <2>2 DEF FetchMissing
    <3> QED
      BY <1>0, <2>0, <3>1, Forgotten, FlightExecutor
  <2>3. CASE MarkDelivering(w)
    <3>1. \A d \in Deliveries \ {cur[w]} : row'[d] = row[d]
      BY <2>3 DEF MarkDelivering, TypeOK, ExecutorTypeOK
    <3> QED
      BY <2>0, <2>3, <3>1, FlightExecutor DEF MarkDelivering, TypeOK, ExecutorTypeOK
  <2>4. CASE SaveMissing(w)
    <3>1. Raise(w) /\ UNCHANGED row /\ ~Exists(cur[w])
      BY <2>4 DEF SaveMissing
    <3> QED
      BY <1>0, <2>0, <3>1, Forgotten, FlightExecutor DEF Exists, Status
  <2>5. CASE Post(w)
    BY <2>0, <2>5, FlightExecutor DEF Post, TypeOK, ExecutorTypeOK
  <2>6. CASE PersistSuccess(w)
    <3>1. Return(w) /\ row' = [row EXCEPT ![cur[w]].status = "delivered"]
      BY <2>6 DEF PersistSuccess
    <3>2. \A d \in Deliveries : row'[d].status = "delivering" =>
              row[d].status = "delivering" /\ cur[w] # d
      BY <1>0, <3>1 DEF ExecutorTypeOK, Row
    <3> QED
      BY <1>0, <2>0, <3>1, <3>2, Forgotten, FlightExecutor
  <2>7. CASE PersistFailure(w, TRUE)
    <3> DEFINE verdict == FailureStatus(mem[w], ans[w], ans[w] = NoCode, TRUE)
    <3>1. verdict # "delivering"
      BY VerdictType
    <3>2. \A d \in Deliveries : row'[d].status = "delivering" =>
              row[d].status = "delivering" /\ cur[w] # d
      <4>1. CASE verdict = "pending"
        <5>1. PICK delay \in RetryDelays(mem[w]) :
                  row' = [row EXCEPT ![cur[w]] =
                      [status |-> verdict, attempts |-> @.attempts, eta |-> delay]]
          BY <2>7, <4>1 DEF PersistFailure
        <5> HIDE DEF verdict
        <5> QED
          BY <1>0, <3>1, <5>1 DEF ExecutorTypeOK
      <4>2. CASE verdict # "pending"
        <5>1. row' = [row EXCEPT ![cur[w]].status = verdict]
          BY <2>7, <4>2 DEF PersistFailure
        <5> HIDE DEF verdict
        <5> QED
          BY <1>0, <3>1, <5>1 DEF ExecutorTypeOK, Row
      <4> QED
        BY <4>1, <4>2
    <3>3. Return(w)
      BY <2>7 DEF PersistFailure
    <3> QED
      BY <1>0, <2>0, <3>2, <3>3, Forgotten, FlightExecutor
  <2>8. CASE Die(w)
    <3>1. Return(w) /\ UNCHANGED row /\ pc[w] = "raised"
      BY <2>8 DEF Die, Halt
    <3> QED
      BY <1>0, <2>0, <3>1, Forgotten, FlightExecutor
  <2> QED
    BY <1>1, <2>1, <2>2, <2>3, <2>4, <2>5, <2>6, <2>7, <2>8 DEF Deliver, Execute
<1>2. ASSUME NEW w \in Workers, Claim(w) \/ Commit(w) \/ FinishBatch(w) \/ Wake(w) \/ Start(w)
      PROVE  DeliveringHasExecutor'
  BY <1>2, FlightEnvironment DEF Claim, Commit, FinishBatch, Wake, Start, execVars
<1>3. ASSUME NEW w \in Workers, FaultStep(w) PROVE DeliveringHasExecutor'
  BY <1>3, FlightFault DEF FaultStep, Crash, Interrupt, RequestRaises, Fault
<1>4. ASSUME NEW D \in SUBSET Deliveries,
             BulkCreate(D) \/ AdminReadDeadLetters(D) \/ CommandRequeue(D)
      PROVE  DeliveringHasExecutor'
  BY <1>4, FlightEnvironment DEF BulkCreate, AdminReadDeadLetters, CommandRequeue, NewRow, execVars
<1>5. ASSUME NEW d \in Deliveries, Delete(d) \/ AdminRetry(d) \/ AdminRequeueDeadLetter(d)
      PROVE  DeliveringHasExecutor'
  <2>1. \A e \in Deliveries : row'[e].status = "delivering" => row[e].status = "delivering"
    <3>1. CASE row' = [row EXCEPT ![d] = NewRow("deleted")]
      BY <3>1 DEF NewRow, TypeOK, ExecutorTypeOK
    <3>2. CASE PutBack(d)
      BY <3>2 DEF PutBack, TypeOK, ExecutorTypeOK
    <3>3. CASE UNCHANGED row
      BY <3>3
    <3> QED
      BY <1>5, <3>1, <3>2, <3>3 DEF Delete, AdminRetry, AdminRequeueDeadLetter
  <2> QED
    BY <1>5, <2>1, FlightEnvironment DEF Delete, AdminRetry, AdminRequeueDeadLetter, execVars
<1>6. CASE Tick
  <2>1. \A e \in Deliveries : row'[e].status = "delivering" => row[e].status = "delivering"
    BY <1>6 DEF Tick
  <2> QED
    BY <1>6, <2>1, FlightEnvironment DEF Tick, execVars
<1>7. CASE UNCHANGED vars
  BY <1>7, FlightEnvironment DEF vars, execVars
<1> QED
  BY <1>1, <1>2, <1>3, <1>4, <1>5, <1>6, <1>7 DEF Next, WorkerStep

\* Short of a fault, a row is "delivering" only while a live process executes it.
THEOREM DeliveringMeansExecuting == Spec => []DeliveringHasExecutor
<1>1. Init => DeliveringHasExecutor
  BY DEF Init, ExecutorInit, NewRow, DeliveringHasExecutor
<1> QED
  BY <1>1, FlightStep, TypeCorrect, PTL DEF Spec
================================================================================
