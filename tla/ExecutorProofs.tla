----------------------------- MODULE ExecutorProofs -----------------------------
(***************************************************************************)
(* Lemmas about the steps of execute_delivery, for whoever calls it.       *)
(***************************************************************************)
EXTENDS Executor, TLAPS

LEMMA NewRowType == \A s \in Status \cup {"new", "deleted"} : NewRow(s) \in Row
BY DEF NewRow, Row

LEMMA VerdictType ==
    ASSUME NEW a, NEW code, NEW error, NEW allowRetry
    PROVE  FailureStatus(a, code, error, allowRetry) \in {"failed", "pending", "dead_letter"}
BY DEF FailureStatus

LEMMA DelaysType == ASSUME NEW a, NEW delay \in RetryDelays(a) PROVE delay \in Int
BY DEF RetryDelays, Jittered

--------------------------------------------------------------------------------
(* Type correctness. *)

LEMMA ReturnType ==
    ASSUME ExecutorTypeOK, NEW p \in Processes, Return(p) \/ Raise(p)
    PROVE  /\ pc' \in [Processes -> {"ready", "fetched", "marked", "answered", "raised"}]
           /\ cur' \in [Processes -> Deliveries \cup {NoDelivery}]
           /\ mem' \in [Processes -> Nat]
           /\ ans' \in [Processes -> Codes \cup {NoCode}]
           /\ \A q \in Processes : pc'[q] \in {"fetched", "marked", "answered"} => cur'[q] # NoDelivery
BY DEF ExecutorTypeOK, Return, Raise, Forget

LEMMA ExecutorSteps ==
    ASSUME ExecutorTypeOK, NEW w \in Processes, NEW allowRetry \in BOOLEAN,
           \/ \E d \in Deliveries : Fetch(w, d) \/ FetchMissing(w, d)
           \/ MarkDelivering(w)
           \/ SaveMissing(w)
           \/ Post(w)
           \/ PostRaises(w)
           \/ PersistSuccess(w)
           \/ PersistFailure(w, allowRetry)
    PROVE  ExecutorTypeOK'
<1> USE DEF ExecutorTypeOK
<1>1. ASSUME NEW d \in Deliveries, Fetch(w, d) PROVE ExecutorTypeOK'
  BY <1>1, NoDeliveryAssumption DEF Fetch, historyVars, Row
<1>2. ASSUME NEW d \in Deliveries, FetchMissing(w, d) PROVE ExecutorTypeOK'
  BY <1>2, ReturnType DEF FetchMissing, historyVars
<1>3. CASE MarkDelivering(w)
  <2>1. cur[w] \in Deliveries
    BY <1>3 DEF MarkDelivering
  <2>2. row' \in [Deliveries -> Row]
    BY <1>3, <2>1 DEF MarkDelivering, Row, Status
  <2> QED
    BY <1>3, <2>2 DEF MarkDelivering, historyVars
<1>4. CASE SaveMissing(w)
  BY <1>4, ReturnType DEF SaveMissing, historyVars
<1>5. CASE Post(w)
  BY <1>5 DEF Post
<1>6. CASE PostRaises(w)
  <2>1. posts' \in [Deliveries -> Nat]
    BY <1>6 DEF PostRaises
  <2> QED
    BY <1>6, <2>1, ReturnType DEF PostRaises
<1>7. CASE PersistSuccess(w)
  <2>1. row' \in [Deliveries -> Row]
    BY <1>7 DEF PersistSuccess, Row, Status
  <2> QED
    BY <1>7, <2>1, ReturnType DEF PersistSuccess, historyVars
<1>8. CASE PersistFailure(w, allowRetry)
  <2> DEFINE verdict == FailureStatus(mem[w], ans[w], ans[w] = NoCode, allowRetry)
  <2>1. cur[w] \in Deliveries
    BY <1>8 DEF PersistFailure
  <2>2. verdict \in Status
    BY DEF FailureStatus, Status
  <2> HIDE DEF verdict
  <2>3. row' \in [Deliveries -> Row]
    <3>1. CASE verdict = "pending"
      <4>1. PICK delay \in RetryDelays(mem[w]) :
                row' = [row EXCEPT ![cur[w]] =
                    [status |-> verdict, attempts |-> @.attempts, eta |-> delay]]
        BY <1>8, <3>1 DEF PersistFailure, verdict
      <4>2. delay \in Int
        BY <4>1, DelaysType
      <4>3. [status |-> verdict, attempts |-> row[cur[w]].attempts, eta |-> delay] \in Row
        BY <2>1, <2>2, <4>2 DEF Row
      <4> QED
        BY <4>1, <4>3
    <3>2. CASE verdict # "pending"
      <4>1. row' = [row EXCEPT ![cur[w]].status = verdict]
        BY <1>8, <3>2 DEF PersistFailure, verdict
      <4> QED
        BY <2>1, <2>2, <4>1 DEF Row
    <3> QED
      BY <3>1, <3>2
  <2> QED
    BY <1>8, <2>3, ReturnType DEF PersistFailure, historyVars
<1> QED
  BY <1>1, <1>2, <1>3, <1>4, <1>5, <1>6, <1>7, <1>8
================================================================================
