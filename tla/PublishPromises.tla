---------------------------- MODULE PublishPromises ----------------------------
(***************************************************************************)
(* What the outbound half promises its publisher and its subscribers, for  *)
(* every number of producers, changes, subscriptions, requests, workers    *)
(* and faults.                                                             *)
(*                                                                         *)
(* Every promise rests on Groundwork (PublishProofs) and on an invariant   *)
(* of its own: LossInv, why hooks and deliveries are lost; OrderInv, in    *)
(* which order an emission goes; ServedInv, whom it serves; Leftovers,     *)
(* what a test leaves; FreshInv, that keys are not used twice; CareInv,    *)
(* who has a pending delivery; PostsInv, what every POST is accounted to.  *)
(***************************************************************************)
EXTENDS PublishProofs, FiniteSetTheorems

--------------------------------------------------------------------------------
(* What is lost is lost for a reason. *)

\* The reasons there are.
Reasons == faults > 0 \/ Backend = "none" \/ Destroyed # {}

LossInv ==
    /\ lost # {} => Reasons
    /\ dropped # {} => Reasons
    /\ \A p \in Producers : pc[p] = "raised" => Reasons

LEMMA ReasonsStay ==
    ASSUME TypeOK, SubsGoOn, [Next]_vars
    PROVE  /\ UNCHANGED setting
           /\ UNCHANGED faults \/ Fault
           /\ Reasons => Reasons'
<1>1. UNCHANGED setting /\ (UNCHANGED faults \/ Fault)
  <2>1. ASSUME NEW u \in Processes, Moves(u) PROVE UNCHANGED setting /\ (UNCHANGED faults \/ Fault)
    <3>1. ASSUME NEW t \in Threads, Stops(t) PROVE UNCHANGED setting /\ (UNCHANGED faults \/ Fault)
      BY <3>1, StopsAbandons
    <3>2. ASSUME NEW p \in Producers, ProducerMoves(p) PROVE UNCHANGED <<setting, faults>>
      BY <3>2 DEF ProducerMoves, Transact, RecordEvent, FindSubscribers, NoSubscribers, EndEmission, Select,
         BulkCreate, ReadBack, FinishEmission
    <3>3. ASSUME NEW a \in Admins, AdminMoves(a) PROVE UNCHANGED <<setting, faults>>
      BY <3>3 DEF AdminMoves, StartTest, TestEvent, TestDelivery, SendTest, WipeDelivery, ReadToPutBack,
         PutBack, PutBackNext
    <3>4. ASSUME RunnerMoves(u) PROVE UNCHANGED setting /\ (UNCHANGED faults \/ Fault)
      BY <3>4 DEF RunnerMoves, TakeTask, RunnerRaised, CrashRunner
    <3> QED
      BY <2>1, <3>1, <3>2, <3>3, <3>4 DEF Moves, Enqueue, Executes
  <2> QED
    BY <2>1, NextMoves DEF ManageSubscriptions, vars
<1>2. faults \in Nat
  BY DEF TypeOK
<1>3. faults > 0 => faults' > 0
  BY <1>1, <1>2 DEF Fault
<1> QED
  BY <1>1, <1>3 DEF Reasons, Backend, SubsGoOn

\* A delivery that a producer lists or holds is one of a change that its hook is about.
LEMMA OwnHook ==
    ASSUME Groundwork, NEW p \in Producers, stage[p] # "idle"
    PROVE  Head(hooks[p]) \in Changes /\ Announces(p, Head(hooks[p])) /\ tx[p] = "hooks"
<1>1. tx[p] = "hooks" /\ Ledger
  BY DEF Groundwork, TypeInv, Emitting
<1> QED
  BY <1>1, FirstHook

\* A producer misses a row only after somebody destroyed the subscription.
LEMMA MissingRow ==
    ASSUME Groundwork, NEW p \in Producers, NEW d \in Deliveries, ~Exists(d), stage[p] = "enqueue",
           d \in ids[p] \/ d = cur[p]
    PROVE  Reasons
<1>1. p \in Processes /\ p \in Threads
  BY ProcessesAssumption DEF Threads
<1>2. Used(d)
  BY <1>1, NoDeliveryAssumption DEF Groundwork, RowsInv, UsedHere
<1>3. row[d].status = "deleted"
  BY <1>2 DEF Groundwork, TypeInv, TypeOK, ExecutorTypeOK, Row, Used, Exists
<1>4. d[1] = Head(hooks[p])
  BY NoDeliveryAssumption DEF Groundwork, Control, ProducerInStep
<1>5. d[1] \in Changes
  BY <1>4, OwnHook
<1> QED
  BY <1>3, <1>5 DEF Groundwork, RowsInv, Reasons

LEMMA StopsForAReason ==
    ASSUME Groundwork, LossInv, NEW t \in Threads, Stops(t),
           UNCHANGED setting, Reasons => Reasons'
    PROVE  Reasons' \/ (t \notin Producers /\ Charge(t) = {})
<1>0. /\ Groundwork /\ TypeOK /\ RowsInv /\ Control /\ SubsInv
      /\ t \in Processes /\ HandsFree(t)
      /\ t \in Producers => t \notin Admins
      /\ t \in Admins => AdminInStep(t)
  BY ProcessesAssumption, RolesAssumption DEF Groundwork, TypeInv, Control
<1>1. ASSUME Fault PROVE Reasons'
  <2>1. faults \in Nat
    BY <1>0 DEF TypeOK
  <2> QED
    BY <1>1, <2>1 DEF Fault, Reasons
<1>2. ASSUME Backend = "none" PROVE Reasons'
  BY <1>2 DEF Reasons
<1>3. ASSUME t \in Producers, EmissionRaises(t) PROVE Reasons'
  <2>1. CASE Backend = "none"
    BY <1>2, <2>1
  <2>2. ASSUME ~Insertable(listed[t]) PROVE Reasons
    <3>1. PICK d \in listed[t] : ~Stored(d[2])
      BY <2>2 DEF Insertable
    <3>2. d \in Deliveries /\ d[2] \in Subs
      BY <1>0, DeliveriesAssumption DEF TypeOK
    <3>3. sub[d[2]].state # "new"
      BY <1>0 DEF RowsInv
    <3>4. sub[d[2]].state = "deleted"
      BY <1>0, <3>1, <3>2, <3>3 DEF Stored, SubsInv, SubscriptionsTypeOK, Subscription
    <3>5. told[d[2]].state = "deleted"
      BY <1>0, <3>2, <3>4 DEF SubsInv, SubsAreTold
    <3> QED
      BY <3>2, <3>5 DEF Reasons, Destroyed
  <2> QED
    BY <1>3, <2>1, <2>2 DEF EmissionRaises
<1>4. ASSUME t \in Admins, TestDeliveryRaises(t) \/ PutBackRaises(t) \/ WipeEvent(t) PROVE Charge(t) = {}
  BY <1>0, <1>4 DEF TestDeliveryRaises, PutBackRaises, WipeEvent, At, Idle, Charge, AdminInStep, HandsFree
<1>5. ASSUME EnqueueRaises(t) PROVE Reasons'
  BY <1>1, <1>2, <1>5 DEF EnqueueRaises
<1>6. ASSUME ThreadRaised(t) PROVE Reasons' \/ (t \notin Producers /\ Charge(t) = {})
  <2>1. CASE t \in Producers
    BY <1>6, <2>1 DEF ThreadRaised, LossInv
  <2>2. CASE t \notin Producers
    <3>1. t \in Admins
      BY <2>2 DEF Threads
    <3> QED
      BY <1>0, <1>6, <2>2, <3>1 DEF ThreadRaised, Charge, AdminInStep, HandsFree
  <2> QED
    BY <2>1, <2>2
<1>7. ASSUME CrashThread(t) PROVE Reasons'
  BY <1>1, <1>7 DEF CrashThread
<1> QED
  BY <1>0, <1>3, <1>4, <1>5, <1>6, <1>7 DEF Stops

LEMMA LossInit == Init => LossInv
<1> SUFFICES ASSUME Init PROVE LossInv
  OBVIOUS
<1>1. \A p \in Producers : p \in Processes /\ pc[p] = "ready"
  BY ProcessesAssumption DEF Init, ExecutorInit, Threads
<1> QED
  BY <1>1 DEF Init, LossInv

LEMMA LossStep == Groundwork /\ LossInv /\ [Next]_vars => LossInv'
<1> SUFFICES ASSUME Groundwork, LossInv, [Next]_vars PROVE LossInv'
  OBVIOUS
<1>0. /\ TypeOK /\ Control /\ UNCHANGED setting /\ (Reasons => Reasons')
      /\ pc = [q \in Processes |-> pc[q]]
      /\ Producers \subseteq Threads /\ Producers \cap Admins = {} /\ Producers \cap Runners = {}
      /\ Threads \subseteq Processes
  BY GroundworkStep, ReasonsStay, RolesAssumption, ProcessesAssumption
     DEF Groundwork, TypeInv, TypeOK, ExecutorTypeOK, Threads
<1>1. ASSUME Fault PROVE Reasons'
  <2>1. faults \in Nat
    BY <1>0 DEF TypeOK
  <2> QED
    BY <1>1, <2>1 DEF Fault, Reasons
<1> DEFINE Books == (lost' = lost /\ dropped' = dropped) \/ Reasons'
           Raised(u) == u \in Producers /\ pc'[u] = "raised" => Reasons'
<1>2. ASSUME Books, \A u \in Producers : Raised(u) PROVE LossInv'
  BY <1>0, <1>2 DEF LossInv
<1>3. ASSUME NEW u \in Processes, Moves(u), Books, Raised(u) PROVE LossInv'
  <2>1. \A v \in Producers \ {u} : pc'[v] = pc[v]
    BY <1>0, <1>3, OthersStill DEF Still
  <2>2. \A v \in Producers : Raised(v)
    BY <1>0, <1>3, <2>1 DEF LossInv
  <2> QED
    BY <1>2, <1>3, <2>2
<1>4. ASSUME NEW t \in Threads, Stops(t) PROVE LossInv'
  <2>1. Abandon(t) /\ pc'[t] = "ready" /\ t \in Processes /\ Moves(t)
    BY <1>0, <1>4, StopsAbandons, Abandoned DEF Moves
  <2>2. Reasons' \/ (t \notin Producers /\ Charge(t) = {})
    BY <1>0, <1>4, StopsForAReason
  <2>3. Books
    BY <2>1, <2>2 DEF Abandon
  <2> QED
    BY <1>3, <2>1, <2>3
<1>5. ASSUME NEW p \in Producers, ProducerMoves(p) PROVE LossInv'
  <2>1. UNCHANGED <<execVars, lossVars>>
    BY <1>5 DEF ProducerMoves, Transact, RecordEvent, FindSubscribers, NoSubscribers, EndEmission, Select,
       BulkCreate, ReadBack, FinishEmission
  <2> QED
    BY <1>0, <1>2, <2>1 DEF execVars, lossVars, LossInv
<1>6. ASSUME NEW a \in Admins, AdminMoves(a) PROVE LossInv'
  <2>1. UNCHANGED <<lost, dropped>>
    BY <1>6 DEF AdminMoves, StartTest, TestEvent, TestDelivery, SendTest, WipeDelivery, ReadToPutBack,
       PutBack, PutBackNext, lossVars
  <2>2. a \in Processes /\ a \notin Producers /\ Moves(a)
    BY <1>0, <1>6 DEF Moves, Threads
  <2> QED
    BY <1>3, <2>1, <2>2
<1>7. ASSUME NEW t \in Threads, NEW d \in Deliveries, Enqueue(t, d) PROVE LossInv'
  <2>1. UNCHANGED lossVars /\ t \in Processes /\ Moves(t)
    BY <1>0, <1>7 DEF Enqueue, Moves
  <2>2. ASSUME t \in Producers, pc'[t] = "raised" PROVE Reasons
    <3>1. pc[t] = "ready" /\ stage[t] = "enqueue" /\ d \in ids[t] /\ ~Exists(d)
      BY <1>0, <1>7, <2>2 DEF Enqueue, At, Idle, Dispatch, Fetch, FetchMissing, execVars
    <3> QED
      BY <2>2, <3>1, MissingRow
  <2> QED
    BY <1>0, <1>3, <2>1, <2>2 DEF lossVars
<1>8. ASSUME NEW r \in Runners, RunnerMoves(r) PROVE LossInv'
  <2>1. UNCHANGED lossVars \/ Fault
    BY <1>8 DEF RunnerMoves, TakeTask, RunnerRaised, CrashRunner
  <2>2. r \in Processes /\ r \notin Producers /\ Moves(r)
    BY <1>0, <1>8, ProcessesAssumption DEF Moves
  <2> QED
    BY <1>1, <1>3, <2>1, <2>2 DEF lossVars
<1>9. ASSUME NEW q \in Processes, Executes(q) PROVE LossInv'
  <2>1. UNCHANGED <<lost, dropped>> /\ Moves(q) /\ pc[q] # "ready" /\ pc[q] # "raised"
    BY <1>0, <1>9, ExecutesOn DEF Moves
  <2>2. ASSUME q \in Producers, pc'[q] = "raised" PROVE Reasons'
    <3>1. SaveMissing(q) \/ Fault
      BY <1>0, <1>9, <2>2 DEF Executes, MarkDelivering, Post, PersistSuccess, PersistFailure, Return
    <3>2. ASSUME SaveMissing(q) PROVE Reasons
      <4>1. ~Exists(cur[q]) /\ cur[q] # NoDelivery /\ cur[q] \in Deliveries
        BY <1>0, <3>2 DEF SaveMissing, TypeOK, ExecutorTypeOK
      <4>2. stage[q] = "enqueue"
        BY <1>0, <2>1, <2>2 DEF Control, ProducerInStep
      <4> QED
        BY <2>2, <4>1, <4>2, MissingRow
    <3> QED
      BY <1>0, <1>1, <3>1, <3>2
  <2> QED
    BY <1>3, <2>1, <2>2
<1>10. ASSUME ManageSubscriptions \/ UNCHANGED vars PROVE LossInv'
  BY <1>0, <1>2, <1>10 DEF ManageSubscriptions, vars, execVars, lossVars, LossInv
<1> QED
  BY <1>4, <1>5, <1>6, <1>7, <1>8, <1>9, <1>10, NextMoves DEF Moves

--------------------------------------------------------------------------------
(* What has happened is announced. *)

\* An emission has its event from the first step on.
EmittingNow == \A p \in Producers : stage[p] # "idle" => Head(hooks[p]) \in events

\* News is announced, about to be, or lost.
NewsInv == \A c \in durable : Newsworthy(c) => c \in events \/ c \in lost \/ \E p \in Producers : Announces(p, c)

LEMMA EventsOfChangesStay ==
    ASSUME Groundwork, [Next]_vars, NEW c \in Changes \cap events PROVE c \in events'
<1>1. ASSUME NEW a \in Admins, WipeEvent(a) PROVE c \in events'
  <2>1. \A d \in listed[a] : d[1] \in Tests
    BY <1>1 DEF Groundwork, Control, AdminInStep, TestStages, WipeEvent, At
  <2> QED
    BY <1>1, <2>1, OriginsAssumption DEF WipeEvent
<1>2. ASSUME NEW t \in Threads, Stops(t) PROVE c \in events'
  BY <1>1, <1>2, StopsAbandons DEF Stops, EmissionRaises, EnqueueRaises, ThreadRaised, CrashThread,
     TestDeliveryRaises, PutBackRaises
<1>3. ASSUME NEW u \in Producers, ProducerMoves(u) PROVE events \subseteq events'
  BY <1>3 DEF ProducerMoves, Transact, RecordEvent, FindSubscribers, NoSubscribers, EndEmission, Select,
     BulkCreate, ReadBack, FinishEmission
<1>4. ASSUME NEW u \in Admins, AdminMoves(u) PROVE events \subseteq events'
  BY <1>4 DEF AdminMoves, StartTest, TestEvent, TestDelivery, SendTest, WipeDelivery, ReadToPutBack,
     PutBack, PutBackNext
<1>5. ASSUME NEW u \in Runners, RunnerMoves(u) PROVE UNCHANGED events
  BY <1>5 DEF RunnerMoves, TakeTask, RunnerRaised, CrashRunner
<1> QED
  BY <1>2, <1>3, <1>4, <1>5, NextMoves DEF Moves, Enqueue, Executes, ManageSubscriptions, vars

LEMMA EmittingNowStep ==
    ASSUME Groundwork, EmittingNow, [Next]_vars PROVE EmittingNow'
<1>0. /\ TypeOK /\ stage = [t \in Threads |-> stage[t]]
      /\ Producers \subseteq Threads /\ Producers \cap Admins = {} /\ Producers \cap Runners = {}
      /\ Threads \subseteq Processes
  BY RolesAssumption, ProcessesAssumption DEF Groundwork, TypeInv, TypeOK, Threads
<1>1. ASSUME NEW p \in Producers, UNCHANGED <<stage[p], hooks[p]>>, stage'[p] # "idle"
      PROVE  Head(hooks'[p]) \in events'
  <2>1. Head(hooks[p]) \in Changes \cap events
    BY <1>1, OwnHook DEF EmittingNow
  <2> QED
    BY <1>1, <2>1, EventsOfChangesStay
<1>2. ASSUME NEW p \in Producers, Moves(p), stage'[p] # "idle" PROVE Head(hooks'[p]) \in events'
  <2>1. ASSUME Stops(p) PROVE FALSE
    BY <1>0, <1>2, <2>1, StopsAbandons, Abandoned
  <2>2. ASSUME Transact(p) PROVE FALSE
    <3>1. stage[p] = "idle"
      BY <2>2 DEF Transact, TransactionStep, SaveOutside, SaveInside, ReleaseSavepoint, RollbackSavepoint,
         Rollback, Commit, Groundwork, TypeInv, Emitting
    <3> QED
      BY <1>2, <2>2, <3>1 DEF Transact, threadVars
  <2>3. ASSUME NoSubscribers(p) \/ FinishEmission(p) PROVE FALSE
    BY <1>0, <1>2, <2>3 DEF NoSubscribers, FinishEmission, EndEmission, GoTo
  <2>4. ASSUME RecordEvent(p) PROVE Head(hooks'[p]) \in events'
    BY <2>4 DEF RecordEvent, signalVars
  <2>5. ASSUME \/ FindSubscribers(p) \/ Select(p) \/ BulkCreate(p) \/ ReadBack(p)
               \/ \E d \in Deliveries : Enqueue(p, d)
               \/ Executes(p)
        PROVE  stage[p] # "idle" /\ UNCHANGED <<hooks, events>>
    BY <1>0, <1>2, <2>5 DEF FindSubscribers, Select, BulkCreate, ReadBack, Enqueue, Executes, At, signalVars, threadVars
  <2> QED
    BY <1>0, <1>2, <2>1, <2>2, <2>3, <2>4, <2>5 DEF Moves, ProducerMoves, EmittingNow
<1>3. ASSUME NEW u \in Processes, Moves(u), NEW p \in Producers, stage'[p] # "idle" PROVE Head(hooks'[p]) \in events'
  BY <1>0, <1>1, <1>2, <1>3, OthersStill DEF Still
<1>4. ASSUME ManageSubscriptions \/ UNCHANGED vars PROVE EmittingNow'
  BY <1>1, <1>4 DEF ManageSubscriptions, vars, threadVars, signalVars, EmittingNow
<1> QED
  BY <1>3, <1>4, NextMoves DEF EmittingNow

\* What can happen to a queue of hooks.
LEMMA HooksGoOn ==
    ASSUME Groundwork, NEW p \in Producers, Moves(p)
    PROVE  \/ UNCHANGED signalVars
           \/ Transact(p)
           \/ NextHook(p) /\ stage[p] # "idle"
           \/ DropHooks(p) /\ Abandon(p)
<1>0. p \in Threads /\ p \notin Admins /\ p \notin Runners
  BY RolesAssumption DEF Threads
<1>1. ASSUME Stops(p) PROVE DropHooks(p) /\ Abandon(p)
  BY <1>0, <1>1, StopsAbandons DEF Abandon
<1> QED
  BY <1>0, <1>1 DEF Moves, ProducerMoves, RecordEvent, FindSubscribers, NoSubscribers, EndEmission, Select,
     BulkCreate, ReadBack, FinishEmission, At, Enqueue, Executes

LEMMA LostStayLost == ASSUME [Next]_vars PROVE lost \subseteq lost'
<1>1. ASSUME NEW t \in Threads, Stops(t) PROVE lost \subseteq lost'
  BY <1>1, StopsAbandons DEF Abandon
<1>2. ASSUME NEW u \in Producers, ProducerMoves(u) PROVE UNCHANGED lost
  BY <1>2 DEF ProducerMoves, Transact, RecordEvent, FindSubscribers, NoSubscribers, EndEmission, Select,
     BulkCreate, ReadBack, FinishEmission, lossVars
<1>3. ASSUME NEW u \in Admins, AdminMoves(u) PROVE UNCHANGED lost
  BY <1>3 DEF AdminMoves, StartTest, TestEvent, TestDelivery, SendTest, WipeDelivery, ReadToPutBack,
     PutBack, PutBackNext, lossVars
<1>4. ASSUME NEW u \in Runners, RunnerMoves(u) PROVE UNCHANGED lost
  BY <1>4 DEF RunnerMoves, TakeTask, RunnerRaised, CrashRunner, lossVars
<1> QED
  BY <1>1, <1>2, <1>3, <1>4, NextMoves DEF Moves, Enqueue, Executes, ManageSubscriptions, vars, lossVars

LEMMA NewsInvStep ==
    ASSUME Groundwork, EmittingNow, NewsInv, [Next]_vars PROVE NewsInv'
<1>0. /\ Ledger /\ Ledger' /\ Kept /\ News
      /\ Producers \subseteq Threads /\ Threads \subseteq Processes /\ TypeOK
  BY NextOfSignals, LedgerStep, ProcessesAssumption DEF Groundwork, EventsInv, Threads, TypeInv
<1>1. ASSUME NEW c \in durable, Newsworthy(c)'
      PROVE  c \in events' \/ c \in lost' \/ \E p \in Producers : Announces(p, c)'
  <2>0. c \in Changes /\ Newsworthy(c)
    BY <1>0, <1>1 DEF Kept, Newsworthy, Ledger, SignalsTypeOK
  <2>1. CASE c \in events
    BY <2>0, <2>1, EventsOfChangesStay
  <2>2. CASE c \in lost
    BY <2>2, LostStayLost
  <2>3. ASSUME NEW p \in Producers, Announces(p, c)
        PROVE  c \in events' \/ c \in lost' \/ Announces(p, c)'
    <3>1. CASE hooks'[p] = hooks[p]
      BY <2>3, <3>1 DEF Announces
    <3>2. ASSUME Moves(p) PROVE c \in events' \/ c \in lost' \/ Announces(p, c)'
      <4>1. ASSUME Transact(p) PROVE FALSE
        <5>1. tx[p] # "hooks"
          BY <4>1 DEF Transact, TransactionStep, SaveOutside, SaveInside, ReleaseSavepoint, RollbackSavepoint,
             Rollback, Commit
        <5>2. c \in work[p]
          BY <1>0, <2>0, <2>3, <5>1 DEF Ledger, HooksAreTrue
        <5> QED
          BY <1>0, <5>2 DEF Ledger, OneOwner
      <4>2. ASSUME NextHook(p), stage[p] # "idle" PROVE c \in events' \/ Announces(p, c)'
        <5>1. CASE c = Head(hooks[p])
          BY <2>0, <4>2, <5>1, EventsOfChangesStay DEF EmittingNow
        <5>2. CASE c # Head(hooks[p])
          BY <1>0, <2>3, <4>2, <5>2, OnlyTheHeadGoes
        <5> QED
          BY <5>1, <5>2
      <4>3. ASSUME Abandon(p) PROVE c \in lost'
        <5>1. DOMAIN hooks[p] = 1..Len(hooks[p])
          BY <1>0 DEF Ledger, SignalsTypeOK
        <5>2. c \in Range(hooks[p])
          BY <2>3, <5>1 DEF Announces, Range
        <5> QED
          BY <4>3, <5>2 DEF Abandon
      <4>4. ASSUME UNCHANGED signalVars PROVE Announces(p, c)'
        BY <2>3, <4>4 DEF signalVars, Announces
      <4> QED
        BY <3>2, <4>1, <4>2, <4>3, <4>4, HooksGoOn
    <3>3. ASSUME NEW u \in Processes \ {p}, Moves(u) PROVE hooks'[p] = hooks[p]
      BY <1>0, <3>3, OthersStill DEF Still
    <3> QED
      BY <1>0, <3>1, <3>2, <3>3, NextMoves DEF ManageSubscriptions, vars, signalVars
  <2> QED
    BY <2>0, <2>1, <2>2, <2>3 DEF NewsInv
<1>2. ASSUME NEW c \in durable', c \notin durable, Newsworthy(c)' PROVE \E p \in Producers : Announces(p, c)'
  <2>1. ASSUME NEW p \in Producers, Transact(p) PROVE Announces(p, c)'
    BY <1>0, <1>2, <2>1, NewsGetsOut DEF Transact
  <2>2. ASSUME UNCHANGED durable PROVE FALSE
    BY <1>2, <2>2
  <2>3. (\E p \in Producers : Transact(p)) \/ UNCHANGED durable
    <3>1. ASSUME NEW u \in Processes, Moves(u) PROVE (u \in Producers /\ Transact(u)) \/ UNCHANGED durable
      <4>1. CASE u \in Producers
        BY <3>1, <4>1, HooksGoOn DEF signalVars, NextHook, DropHooks
      <4>2. ASSUME u \in Admins, AdminMoves(u) PROVE UNCHANGED durable
        BY <4>2 DEF AdminMoves, StartTest, TestEvent, TestDelivery, SendTest, WipeDelivery, ReadToPutBack,
           PutBack, PutBackNext, signalVars
      <4>3. ASSUME u \in Threads, Stops(u) PROVE UNCHANGED durable
        BY <4>3, StopsAbandons DEF Abandon, DropHooks, signalVars
      <4>4. ASSUME u \in Runners, RunnerMoves(u) PROVE UNCHANGED durable
        BY <4>4 DEF RunnerMoves, TakeTask, RunnerRaised, CrashRunner, signalVars
      <4> QED
        BY <3>1, <4>1, <4>2, <4>3, <4>4 DEF Moves, Enqueue, Executes, signalVars
    <3> QED
      BY <3>1, NextMoves DEF ManageSubscriptions, vars, signalVars
  <2> QED
    BY <2>1, <2>2, <2>3
<1> QED
  BY <1>1, <1>2 DEF NewsInv

\* Everything that happened is announced, is about to be, or was lost for one of the three
\* reasons, whatever the number of producers, changes and subscriptions.
THEOREM ChangesAreAlwaysAnnounced == Spec => []ChangesAreAnnounced
<1> DEFINE Inv == Groundwork /\ LossInv /\ EmittingNow /\ NewsInv
<1>1. Init => Inv
  <2>1. Init => EmittingNow /\ NewsInv
    BY DEF Init, EmittingNow, NewsInv, SignalsInit, Threads
  <2> QED
    BY <2>1, GroundworkInit, LossInit
<1>2. Inv /\ [Next]_vars => Inv'
  BY GroundworkStep, LossStep, EmittingNowStep, NewsInvStep
<1>3. Inv => ChangesAreAnnounced
  <2> SUFFICES ASSUME Inv PROVE ChangesAreAnnounced
    OBVIOUS
  <2>1. ASSUME NEW p \in Producers, NEW c, Announces(p, c) PROVE Underway(c)
    <3>1. hooks[p] \in Seq(Changes)
      BY DEF Groundwork, TypeInv, Ledger, SignalsTypeOK
    <3>2. DOMAIN hooks[p] = 1..Len(hooks[p])
      BY <3>1
    <3> QED
      BY <2>1, <3>2 DEF Announces, Underway, Range
  <2> QED
    BY <2>1 DEF ChangesAreAnnounced, NewsInv, LossInv, Reasons
<1> QED
  BY <1>1, <1>2, <1>3, PTL DEF Spec

--------------------------------------------------------------------------------
(* The order of an emission: the hook, the event, the deliveries. *)

\* A hook whose event is there is the one that is running.
EventsOfHooks ==
    \A p \in Producers : \A i \in 1..Len(hooks[p]) :
        hooks[p][i] \in events => i = 1 /\ stage[p] # "idle"

\* Deliveries come after their event.
EventsFirst == \A d \in Deliveries : d[1] \in Changes /\ Used(d) => d[1] \in events

\* An emission has no deliveries before it stores them, and then those it listed.
EmissionInOrder(p) ==
    /\ stage[p] \in {"recorded", "matched", "chosen"} =>
          \A d \in Deliveries : d[1] = Head(hooks[p]) => ~Used(d)
    /\ stage[p] = "stored" =>
          \A d \in Deliveries : d[1] = Head(hooks[p]) /\ Used(d) => d \in listed[p]

OrderInv ==
    /\ EmittingNow
    /\ EventsOfHooks
    /\ EventsFirst
    /\ \A p \in Producers : EmissionInOrder(p)

LEMMA RunningHook ==
    ASSUME Groundwork, NEW p \in Producers, stage[p] # "idle"
    PROVE  1 \in 1..Len(hooks[p]) /\ Head(hooks[p]) = hooks[p][1]
<1>1. tx[p] = "hooks" /\ hooks[p] \in Seq(Changes) /\ hooks[p] # <<>>
  BY DEF Groundwork, TypeInv, Emitting, Ledger, SignalsTypeOK, HooksLeft
<1>2. Len(hooks[p]) \in Nat \ {0}
  BY <1>1, EmptySeq
<1> QED
  BY <1>1, <1>2

LEMMA OneEmitter ==
    ASSUME Groundwork, NEW p \in Producers, NEW q \in Producers, stage[p] # "idle", stage[q] # "idle",
           Head(hooks[p]) = Head(hooks[q])
    PROVE  p = q
BY RunningHook DEF Groundwork, News, AnnouncedOnce

LEMMA TransactsIdle == ASSUME Groundwork, NEW p \in Producers, Transact(p) PROVE stage[p] = "idle" /\ stage'[p] = "idle"
BY DEF Transact, TransactionStep, SaveOutside, SaveInside, ReleaseSavepoint, RollbackSavepoint,
   Rollback, Commit, Groundwork, TypeInv, Emitting, threadVars

\* Where a producer's stage comes from.
LEMMA StagesGoOn ==
    ASSUME Groundwork, NEW p \in Producers, Moves(p)
    PROVE  \/ stage'[p] = "idle"
           \/ RecordEvent(p) /\ stage'[p] = "recorded"
           \/ /\ UNCHANGED signalVars
              /\ \/ FindSubscribers(p) /\ stage'[p] = "matched"
                 \/ Select(p) /\ stage'[p] = "chosen"
                 \/ BulkCreate(p) /\ stage'[p] = "stored"
                 \/ ReadBack(p) /\ stage'[p] = "enqueue"
                 \/ stage'[p] = "enqueue" /\ stage[p] = "enqueue" /\ UNCHANGED row
                 \/ stage'[p] = "enqueue" /\ stage[p] = "enqueue" /\ Executes(p)
<1>0. /\ TypeOK /\ stage = [t \in Threads |-> stage[t]] /\ p \in Threads /\ p \notin Admins /\ p \notin Runners
      /\ p \in Processes /\ ProducerInStep(p)
  BY RolesAssumption, ProcessesAssumption DEF Groundwork, TypeInv, TypeOK, Threads, Control
<1>1. ASSUME Stops(p) PROVE stage'[p] = "idle"
  BY <1>0, <1>1, StopsAbandons, Abandoned
<1>2. ASSUME Transact(p) PROVE stage'[p] = "idle"
  BY <1>2, TransactsIdle
<1>3. ASSUME NoSubscribers(p) \/ FinishEmission(p) PROVE stage'[p] = "idle"
  BY <1>0, <1>3 DEF NoSubscribers, FinishEmission, EndEmission, GoTo
<1>4. ASSUME NEW d \in Deliveries, Enqueue(p, d)
      PROVE  UNCHANGED <<row, signalVars>> /\ stage'[p] = "enqueue" /\ stage[p] = "enqueue"
  BY <1>4 DEF Enqueue, At, Dispatch, Fetch, FetchMissing
<1>5. ASSUME Executes(p) PROVE UNCHANGED signalVars /\ stage'[p] = "enqueue" /\ stage[p] = "enqueue"
  BY <1>0, <1>5, ExecutesOn DEF threadVars, ProducerInStep
<1>6. ASSUME RecordEvent(p) \/ FindSubscribers(p) \/ Select(p) \/ BulkCreate(p) \/ ReadBack(p)
      PROVE  \/ RecordEvent(p) /\ stage'[p] = "recorded"
             \/ /\ UNCHANGED signalVars
                /\ \/ FindSubscribers(p) /\ stage'[p] = "matched"
                   \/ Select(p) /\ stage'[p] = "chosen"
                   \/ BulkCreate(p) /\ stage'[p] = "stored"
                   \/ ReadBack(p) /\ stage'[p] = "enqueue"
  BY <1>0, <1>6 DEF RecordEvent, FindSubscribers, Select, BulkCreate, ReadBack, GoTo
<1> QED
  BY <1>0, <1>1, <1>2, <1>3, <1>4, <1>5, <1>6 DEF Moves, ProducerMoves

\* A delivery of a change is made by its producer.
LEMMA MadeByItsProducer ==
    ASSUME Groundwork, [Next]_vars, NEW d \in Deliveries, d[1] \in Changes, ~Used(d), Used(d)'
    PROVE  \E p \in Producers : BulkCreate(p) /\ d \in listed[p] /\ d[1] = Head(hooks[p]) /\ stage[p] = "chosen"
<1>1. RowGoesOn(d)
  BY RowsGoOn DEF Groundwork, TypeInv
<1>2. ASSUME NEW a \in Admins, TestDelivery(a), d \in listed[a] PROVE FALSE
  BY <1>2, OriginsAssumption DEF TestDelivery, At, Groundwork, Control, AdminInStep, TestStages
<1>3. ASSUME NEW p \in Producers, BulkCreate(p), d \in listed[p] PROVE d[1] = Head(hooks[p]) /\ stage[p] = "chosen"
  BY <1>3 DEF BulkCreate, At, Groundwork, Control, ProducerInStep
<1> QED
  BY <1>1, <1>2, <1>3 DEF RowGoesOn, Used, Exists, Status

LEMMA EventsOfHooksStep ==
    ASSUME Groundwork, OrderInv, [Next]_vars PROVE EventsOfHooks'
<1>0. /\ Ledger /\ Producers \subseteq Threads /\ Threads \subseteq Processes /\ TypeOK
      /\ events \cap Changes \subseteq durable
  BY ProcessesAssumption DEF Groundwork, EventsInv, Threads, TypeInv, EventsAreTrue
<1>1. ASSUME NEW c \in Changes, c \in events' \ events
      PROVE  \E p \in Producers : RecordEvent(p) /\ c = Head(hooks[p])
  <2>1. ASSUME NEW a \in Admins, TestEvent(a) PROVE FALSE
    BY <1>1, <2>1, OriginsAssumption DEF TestEvent, At, Groundwork, Control, AdminInStep, TestStages
  <2> QED
    BY <1>1, <2>1, WhereEventsComeFrom DEF RecordEvent
<1>2. ASSUME NEW p \in Producers, NEW i \in 1..Len(hooks'[p]), hooks'[p][i] \in events', hooks'[p] = hooks[p],
             stage[p] # "idle" => stage'[p] # "idle", RecordEvent(p) => stage'[p] # "idle"
      PROVE  i = 1 /\ stage'[p] # "idle"
  <2>0. hooks[p] \in Seq(Changes) /\ hooks[p][i] \in Changes
    BY <1>0, <1>2 DEF Ledger, SignalsTypeOK
  <2>1. CASE hooks[p][i] \in events
    BY <1>2, <2>1 DEF OrderInv, EventsOfHooks
  <2>2. CASE hooks[p][i] \notin events
    <3>1. PICK q \in Producers : RecordEvent(q) /\ hooks[p][i] = Head(hooks[q])
      BY <1>1, <1>2, <2>0, <2>2
    <3>2. hooks[q] \in Seq(Changes) /\ hooks[q] # <<>>
      BY <1>0, <3>1 DEF Ledger, SignalsTypeOK, HooksLeft, RecordEvent
    <3>3. Len(hooks[q]) \in Nat \ {0}
      BY <3>2, EmptySeq
    <3>4. Head(hooks[q]) = hooks[q][1] /\ 1 \in 1..Len(hooks[q])
      BY <3>2, <3>3
    <3>5. p = q /\ i = 1
      BY <1>2, <3>1, <3>4 DEF Groundwork, News, AnnouncedOnce
    <3> QED
      BY <1>2, <3>1, <3>5
  <2> QED
    BY <2>1, <2>2
<1>3. ASSUME NEW p \in Producers, Moves(p), NEW i \in 1..Len(hooks'[p]), hooks'[p][i] \in events'
      PROVE  i = 1 /\ stage'[p] # "idle"
  <2>1. ASSUME Transact(p) PROVE FALSE
    <3>1. events' = events /\ stage[p] = "idle" /\ HooksMove(p, 0)
      BY <1>0, <2>1, TransactsIdle, HooksMoveOn DEF Transact
    <3>2. hooks'[p][i] \in Changes
      BY <3>1 DEF HooksMove
    <3>3. change[hooks'[p][i]] # "none"
      BY <1>0, <1>3, <3>1, <3>2, NotMade
    <3>4. i \in 1..Len(hooks[p]) /\ hooks'[p][i] = hooks[p][i]
      BY <3>1, <3>3 DEF HooksMove
    <3> QED
      BY <1>3, <3>1, <3>4 DEF OrderInv, EventsOfHooks
  <2>2. ASSUME NextHook(p) PROVE FALSE
    <3>1. hooks[p] \in Seq(Changes) /\ hooks'[p] = Tail(hooks[p]) /\ hooks[p] # <<>> /\ Len(hooks[p]) \in Nat
      BY <1>0, <2>2 DEF NextHook, SignalsTypeOK, Ledger, HooksLeft
    <3>2. i + 1 \in 1..Len(hooks[p]) /\ hooks'[p][i] = hooks[p][i + 1] /\ i + 1 # 1 /\ hooks[p][i + 1] \in Changes
      BY <3>1, TailOfHooks
    <3>3. Len(hooks'[p]) = Len(hooks[p]) - 1
      BY <3>1, TailOfHooks
    <3>4. hooks[p][i + 1] \notin events
      BY <3>2 DEF OrderInv, EventsOfHooks
    <3>5. PICK q \in Producers : RecordEvent(q) /\ hooks[p][i + 1] = Head(hooks[q])
      BY <1>1, <1>3, <3>2, <3>4
    <3>6. hooks'[p] = hooks[p]
      BY <3>5 DEF RecordEvent, signalVars
    <3>7. Len(hooks[p]) = Len(hooks[p]) - 1 /\ Len(hooks[p]) \in Nat
      BY <3>1, <3>3, <3>6
    <3> QED
      BY <3>7
  <2>3. ASSUME DropHooks(p) PROVE FALSE
    BY <1>0, <1>3, <2>3 DEF DropHooks, Ledger, SignalsTypeOK
  <2>4. ASSUME UNCHANGED signalVars PROVE i = 1 /\ stage'[p] # "idle"
    <3>1. hooks' = hooks /\ tx' = tx
      BY <2>4 DEF signalVars
    <3>2. CASE stage'[p] # "idle"
      BY <1>2, <1>3, <3>1, <3>2
    <3>3. CASE stage'[p] = "idle" /\ stage[p] = "idle"
      <4>1. RecordEvent(p) => stage'[p] # "idle"
        BY <1>0 DEF RecordEvent, GoTo, TypeOK
      <4> QED
        BY <1>2, <1>3, <3>1, <3>3, <4>1
    <3>4. CASE stage'[p] = "idle" /\ stage[p] # "idle"
      <4>1. tx[p] = "hooks" /\ hooks[p] # <<>> /\ hooks[p] \in Seq(Changes) /\ Len(hooks[p]) \in Nat
        BY <3>4 DEF Groundwork, TypeInv, Emitting, Ledger, HooksLeft, SignalsTypeOK
      <4>2. NextHook(p) \/ DropHooks(p)
        <5>1. ASSUME Stops(p) PROVE DropHooks(p)
          BY <1>0, <5>1, StopsAbandons DEF Abandon
        <5>2. p \notin Admins /\ p \notin Runners /\ stage = [t \in Threads |-> stage[t]] /\ p \in Threads
          BY <1>0, RolesAssumption DEF Threads, TypeOK
        <5> QED
          BY <1>3, <3>4, <5>1, <5>2, TransactsIdle DEF Moves, ProducerMoves, RecordEvent, FindSubscribers, NoSubscribers,
             EndEmission, Select, BulkCreate, ReadBack, FinishEmission, Enqueue, Executes, threadVars, GoTo
      <4> QED
        BY <2>2, <2>3, <4>2
    <3> QED
      BY <3>2, <3>3, <3>4
  <2> QED
    BY <1>3, <2>1, <2>2, <2>3, <2>4, HooksGoOn
<1>4. ASSUME NEW p \in Producers, hooks'[p] = hooks[p], stage'[p] = stage[p],
             NEW i \in 1..Len(hooks'[p]), hooks'[p][i] \in events'
      PROVE  i = 1 /\ stage'[p] # "idle"
  BY <1>0, <1>2, <1>4 DEF RecordEvent, GoTo, TypeOK
<1>5. ASSUME NEW u \in Processes, Moves(u), NEW p \in Producers, NEW i \in 1..Len(hooks'[p]), hooks'[p][i] \in events'
      PROVE  i = 1 /\ stage'[p] # "idle"
  BY <1>0, <1>3, <1>4, <1>5, OthersStill DEF Still
<1>6. ASSUME ManageSubscriptions \/ UNCHANGED vars PROVE EventsOfHooks'
  BY <1>4, <1>6 DEF ManageSubscriptions, vars, signalVars, threadVars, EventsOfHooks
<1> QED
  BY <1>5, <1>6, NextMoves DEF EventsOfHooks

LEMMA OrderInit == Init => OrderInv
<1> SUFFICES ASSUME Init PROVE OrderInv
  OBVIOUS
<1>1. /\ \A p \in Producers : hooks[p] = <<>> /\ stage[p] = "idle"
      /\ \A d \in Deliveries : row[d].status = "new"
  BY DEF Init, SignalsInit, ExecutorInit, NewRow, Threads
<1> QED
  BY <1>1 DEF OrderInv, EmittingNow, EventsOfHooks, EventsFirst, EmissionInOrder, Used

LEMMA OrderStep == Groundwork /\ OrderInv /\ [Next]_vars => OrderInv'
<1> SUFFICES ASSUME Groundwork, OrderInv, [Next]_vars PROVE OrderInv'
  OBVIOUS
<1>0. /\ Producers \subseteq Threads /\ Threads \subseteq Processes /\ TypeOK
      /\ \A d \in Deliveries : Used(d) => Used(d)'
  BY ProcessesAssumption, RowsGoOn DEF Groundwork, Threads, TypeInv, RowGoesOn
<1>1. EmittingNow' /\ EventsOfHooks'
  BY EmittingNowStep, EventsOfHooksStep DEF OrderInv
<1>2. ASSUME NEW d \in Deliveries, d[1] \in Changes, Used(d)' PROVE d[1] \in events'
  <2>1. CASE Used(d)
    BY <1>2, <2>1, EventsOfChangesStay DEF OrderInv, EventsFirst
  <2>2. CASE ~Used(d)
    <3>1. PICK p \in Producers : d[1] = Head(hooks[p]) /\ stage[p] = "chosen"
      BY <1>2, <2>2, MadeByItsProducer
    <3>2. d[1] \in events
      BY <3>1 DEF OrderInv, EmittingNow
    <3> QED
      BY <1>2, <3>2, EventsOfChangesStay
  <2> QED
    BY <2>1, <2>2
<1>3. ASSUME NEW p \in Producers, Still(p) PROVE EmissionInOrder(p)'
  <2>1. ASSUME NEW d \in Deliveries, ~Used(d), Used(d)', stage[p] # "idle", d[1] = Head(hooks[p])
        PROVE  stage[p] = "chosen" /\ BulkCreate(p)
    <3>1. d[1] \in Changes
      BY <2>1, OwnHook
    <3>2. PICK q \in Producers : BulkCreate(q) /\ d[1] = Head(hooks[q]) /\ stage[q] = "chosen"
      BY <2>1, <3>1, MadeByItsProducer
    <3> QED
      BY <2>1, <3>2, OneEmitter
  <2>2. BulkCreate(p) => stage'[p] # "chosen"
    BY <1>0 DEF BulkCreate, GoTo, TypeOK
  <2> QED
    BY <1>0, <1>3, <2>1, <2>2 DEF OrderInv, EmissionInOrder, Still
<1>4. ASSUME NEW p \in Producers, Moves(p) PROVE EmissionInOrder(p)'
  <2>1. ASSUME RecordEvent(p) PROVE EmissionInOrder(p)'
    <3>0. stage'[p] = "recorded" /\ hooks'[p] = hooks[p] /\ row' = row /\ tx[p] = "hooks" /\ stage[p] = "idle"
      BY <1>0, <2>1 DEF RecordEvent, GoTo, At, signalVars, TypeOK
    <3>1. Head(hooks[p]) \in Changes /\ Announces(p, Head(hooks[p]))
      BY <3>0, FirstHook DEF Groundwork, TypeInv
    <3>2. Head(hooks[p]) \notin events
      BY <3>0, <3>1 DEF OrderInv, EventsOfHooks, Announces
    <3>3. \A d \in Deliveries : d[1] = Head(hooks[p]) => ~Used(d)
      BY <3>1, <3>2 DEF OrderInv, EventsFirst
    <3> QED
      BY <3>0, <3>3 DEF EmissionInOrder, Used
  <2>2. ASSUME FindSubscribers(p) \/ Select(p), UNCHANGED signalVars, stage'[p] \in {"matched", "chosen"}
        PROVE  EmissionInOrder(p)'
    <3>1. stage[p] \in {"recorded", "matched"} /\ row' = row /\ hooks' = hooks
      BY <2>2 DEF FindSubscribers, Select, At, signalVars
    <3> QED
      BY <2>2, <3>1 DEF OrderInv, EmissionInOrder, Used
  <2>3. ASSUME BulkCreate(p), UNCHANGED signalVars, stage'[p] = "stored" PROVE EmissionInOrder(p)'
    <3>1. stage[p] = "chosen" /\ hooks' = hooks /\ listed' = listed
          /\ \A d \in Deliveries : d \notin listed[p] => row'[d] = row[d]
      BY <2>3 DEF BulkCreate, At, signalVars, Insert
    <3> QED
      BY <2>3, <3>1 DEF OrderInv, EmissionInOrder, Used
  <2>4. ASSUME stage'[p] \in {"idle", "enqueue"} PROVE EmissionInOrder(p)'
    BY <2>4 DEF EmissionInOrder
  <2> QED
    BY <1>4, <2>1, <2>2, <2>3, <2>4, StagesGoOn
<1>5. \A p \in Producers : EmissionInOrder(p)'
  <2>1. ASSUME NEW u \in Processes, Moves(u), NEW p \in Producers PROVE EmissionInOrder(p)'
    BY <1>0, <1>3, <1>4, <2>1, OthersStill
  <2>2. ASSUME ManageSubscriptions \/ UNCHANGED vars, NEW p \in Producers PROVE Still(p)
    BY <2>2 DEF ManageSubscriptions, vars, Still, execVars, threadVars, signalVars
  <2> QED
    BY <1>3, <2>1, <2>2, NextMoves
<1> QED
  BY <1>1, <1>2, <1>5 DEF OrderInv, EventsFirst

--------------------------------------------------------------------------------
(* Who is served. *)

\* Between its event and its deliveries an emission keeps between the subscriptions that
\* matched all the time and those that matched at some time.
Serves(p) ==
    LET c == Head(hooks[p])
    IN  /\ stage[p] \in {"recorded", "matched"} =>
              steady[c] \subseteq Matching(sub, c) /\ Matching(sub, c) \subseteq ever[c]
        /\ stage[p] = "chosen" => \A s \in Subs :
              /\ s \in steady[c] => <<c, s>> \in listed[p]
              /\ <<c, s>> \in listed[p] => s \in ever[c]
        /\ stage[p] \in {"stored", "enqueue"} => \A s \in steady[c] : Used(<<c, s>>)

\* An emission that is over has served whom it had to.
Served(c) ==
    c \in events /\ c \notin lost /\ (\A p \in Producers : ~Announces(p, c)) =>
        \A s \in steady[c] : Used(<<c, s>>)

\* Nobody else is served.
OnlyMatching == \A c \in Changes, s \in Subs : Used(<<c, s>>) => s \in ever[c]

ServedInv ==
    /\ \A p \in Producers : Serves(p)
    /\ \A c \in Changes : Served(c)
    /\ OnlyMatching

\* How the history of the matches moves.
LEMMA MatchesGoOn ==
    ASSUME Groundwork, [Next]_vars, NEW c \in Changes
    PROVE  \/ \E p \in Producers : RecordEvent(p) /\ c = Head(hooks[p])
           \/ steady'[c] = steady[c] /\ ever'[c] = ever[c] /\ UNCHANGED sub
           \/ /\ ManageSubscriptions
              /\ steady'[c] \subseteq steady[c] /\ ever[c] \subseteq ever'[c]
              /\ Selecting(c) => steady'[c] \subseteq Matching(sub', c) /\ Matching(sub', c) \subseteq ever'[c]
<1>0. steady \in [Changes -> SUBSET Subs] /\ ever \in [Changes -> SUBSET Subs]
  BY DEF Groundwork, TypeInv, TypeOK
<1>1. ASSUME UNCHANGED <<steady, ever, sub>>
      PROVE  steady'[c] = steady[c] /\ ever'[c] = ever[c] /\ UNCHANGED sub
  BY <1>1
<1>2. ASSUME NEW p \in Producers, RecordEvent(p), c # Head(hooks[p])
      PROVE  steady'[c] = steady[c] /\ ever'[c] = ever[c] /\ UNCHANGED sub
  BY <1>0, <1>2 DEF RecordEvent, subVars
<1>3. ASSUME ManageSubscriptions
      PROVE  /\ steady'[c] \subseteq steady[c] /\ ever[c] \subseteq ever'[c]
             /\ Selecting(c) => steady'[c] \subseteq Matching(sub', c) /\ Matching(sub', c) \subseteq ever'[c]
  BY <1>0, <1>3 DEF ManageSubscriptions, Watch
<1>4. ASSUME NEW p \in Producers, ProducerMoves(p), ~RecordEvent(p) PROVE UNCHANGED <<steady, ever, sub>>
  BY <1>4 DEF ProducerMoves, Transact, FindSubscribers, NoSubscribers, EndEmission, Select,
     BulkCreate, ReadBack, FinishEmission, matchVars, subVars
<1>5. ASSUME NEW a \in Admins, AdminMoves(a) PROVE UNCHANGED <<steady, ever, sub>>
  BY <1>5 DEF AdminMoves, StartTest, TestEvent, TestDelivery, SendTest, WipeDelivery, ReadToPutBack,
     PutBack, PutBackNext, matchVars, subVars, OtherRequest
<1>6. ASSUME NEW t \in Threads, Stops(t) PROVE UNCHANGED <<steady, ever, sub>>
  BY <1>6, StopsAbandons DEF matchVars, subVars
<1>7. ASSUME NEW r \in Runners, RunnerMoves(r) PROVE UNCHANGED <<steady, ever, sub>>
  BY <1>7 DEF RunnerMoves, TakeTask, RunnerRaised, CrashRunner, matchVars, subVars
<1>8. ASSUME NEW u \in Processes, Executes(u) PROVE UNCHANGED <<steady, ever, sub>>
  BY <1>8 DEF Executes, matchVars, subVars
<1>9. ASSUME NEW t \in Threads, NEW d \in Deliveries, Enqueue(t, d) PROVE UNCHANGED <<steady, ever, sub>>
  BY <1>9 DEF Enqueue, matchVars, subVars
<1>10. ASSUME UNCHANGED vars PROVE UNCHANGED <<steady, ever, sub>>
  BY <1>10 DEF vars, matchVars, subVars
<1> QED
  BY <1>1, <1>2, <1>3, <1>4, <1>5, <1>6, <1>7, <1>8, <1>9, <1>10, NextMoves DEF Moves

LEMMA ServedInit == Init => ServedInv
<1> SUFFICES ASSUME Init PROVE ServedInv
  OBVIOUS
<1>1. /\ \A p \in Producers : stage[p] = "idle"
      /\ \A d \in Deliveries : row[d].status = "new"
      /\ events = {}
      /\ \A c \in Changes, s \in Subs : <<c, s>> \in Deliveries
  BY DeliveriesAssumption DEF Init, ExecutorInit, NewRow, Threads, Origins
<1> QED
  BY <1>1 DEF ServedInv, Serves, Served, OnlyMatching, Used

\* While p emits, nobody else records its event.
LEMMA NotRecorded ==
    ASSUME Groundwork, NEW p \in Producers, stage[p] # "idle", NEW q \in Producers, RecordEvent(q)
    PROVE  Head(hooks[q]) # Head(hooks[p])
<1>1. stage[q] = "idle" /\ tx[q] = "hooks" /\ q # p /\ hooks[q] # <<>> /\ hooks[q] \in Seq(Changes)
  BY DEF RecordEvent, At, Groundwork, TypeInv, Ledger, SignalsTypeOK, HooksLeft
<1>2. Len(hooks[q]) \in Nat \ {0}
  BY <1>1, EmptySeq
<1>3. 1 \in 1..Len(hooks[q]) /\ Head(hooks[q]) = hooks[q][1]
  BY <1>1, <1>2
<1> QED
  BY <1>1, <1>3, RunningHook DEF Groundwork, News, AnnouncedOnce

\* What an emission has established lasts as long as its stage.
LEMMA ServesOn ==
    ASSUME Groundwork, OrderInv, ServedInv, [Next]_vars, NEW p \in Producers,
           UNCHANGED <<stage[p], hooks[p], listed[p]>>
    PROVE  Serves(p)'
<1> DEFINE c == Head(hooks[p])
<1>0. /\ \A d \in Deliveries : Used(d) => Used(d)'
      /\ \A s \in Subs : c \in Changes => <<c, s>> \in Deliveries
      /\ steady \in [Changes -> SUBSET Subs]
  BY RowsGoOn, DeliveriesAssumption DEF Groundwork, TypeInv, TypeOK, RowGoesOn, Origins
<1>1. CASE stage[p] = "idle"
  BY <1>1 DEF Serves
<1>2. CASE stage[p] # "idle"
  <2>1. c \in Changes
    BY <1>2, OwnHook
  <2>2. \/ steady'[c] = steady[c] /\ ever'[c] = ever[c] /\ UNCHANGED sub
        \/ /\ steady'[c] \subseteq steady[c] /\ ever[c] \subseteq ever'[c]
           /\ stage[p] \in {"recorded", "matched"} =>
                 steady'[c] \subseteq Matching(sub', c) /\ Matching(sub', c) \subseteq ever'[c]
    <3>1. ~\E q \in Producers : RecordEvent(q) /\ c = Head(hooks[q])
      BY <1>2, NotRecorded
    <3>2. stage[p] \in {"recorded", "matched"} => Selecting(c)
      BY DEF Selecting
    <3>3. stage[p] \in {"recorded", "matched"} =>
             steady[c] \subseteq Matching(sub, c) /\ Matching(sub, c) \subseteq ever[c]
      BY DEF ServedInv, Serves
    <3> HIDE DEF c
    <3> QED
      BY <2>1, <3>1, <3>2, <3>3, MatchesGoOn
  <2>3. Serves(p)
    BY DEF ServedInv
  <2>4. steady'[c] \subseteq steady[c] /\ ever[c] \subseteq ever'[c]
    BY <2>2
  <2>5. stage[p] \in {"recorded", "matched"} =>
             steady'[c] \subseteq Matching(sub', c) /\ Matching(sub', c) \subseteq ever'[c]
    BY <2>2, <2>3 DEF Serves, Matching
  <2>6. stage[p] = "chosen" => \A s \in Subs :
              /\ s \in steady'[c] => <<c, s>> \in listed[p]
              /\ <<c, s>> \in listed[p] => s \in ever'[c]
    BY <2>3, <2>4 DEF Serves
  <2>7. stage[p] \in {"stored", "enqueue"} => \A s \in steady'[c] : Used(<<c, s>>)'
    BY <1>0, <2>1, <2>3, <2>4 DEF Serves
  <2>8. c' = c
    OBVIOUS
  <2> QED
    BY <2>5, <2>6, <2>7, <2>8 DEF Serves
<1> QED
  BY <1>1, <1>2

LEMMA ServesStep ==
    ASSUME Groundwork, OrderInv, ServedInv, NEW p \in Producers, Moves(p), [Next]_vars PROVE Serves(p)'
<1> DEFINE c == Head(hooks[p])
<1>0. /\ \A d \in Deliveries : Used(d) => Used(d)'
      /\ \A s \in Subs : c \in Changes => <<c, s>> \in Deliveries
      /\ steady \in [Changes -> SUBSET Subs] /\ ever \in [Changes -> SUBSET Subs]
      /\ TypeOK /\ Serves(p) /\ p \in Threads
  BY RowsGoOn, DeliveriesAssumption DEF Groundwork, TypeInv, TypeOK, RowGoesOn, Origins, ServedInv, Threads
<1>1. ASSUME stage'[p] = "idle" PROVE Serves(p)'
  BY <1>1 DEF Serves
<1>2. ASSUME RecordEvent(p), stage'[p] = "recorded" PROVE Serves(p)'
  <2>1. c \in Changes
    BY <1>2, FirstHook DEF RecordEvent, Groundwork, TypeInv
  <2>2. hooks' = hooks /\ sub' = sub /\ steady'[c] = Matching(sub, c) /\ ever'[c] = Matching(sub, c)
    BY <1>0, <1>2, <2>1 DEF RecordEvent, signalVars, subVars
  <2> QED
    BY <1>2, <2>2 DEF Serves, Matching
<1>3. ASSUME UNCHANGED signalVars, FindSubscribers(p), stage'[p] = "matched" PROVE Serves(p)'
  BY <1>0, <1>3 DEF FindSubscribers, At, Serves, Matching, signalVars, subVars, matchVars
<1>4. ASSUME UNCHANGED signalVars, Select(p), stage'[p] = "chosen" PROVE Serves(p)'
  <2>1. /\ hooks' = hooks /\ steady' = steady /\ ever' = ever /\ stage[p] = "matched"
        /\ listed'[p] = {c} \X Matching(sub, c)
    BY <1>0, <1>4 DEF Select, At, Built, signalVars, matchVars, TypeOK
  <2>2. steady[c] \subseteq Matching(sub, c) /\ Matching(sub, c) \subseteq ever[c]
    BY <1>0, <2>1 DEF Serves
  <2>3. \A s \in Subs : /\ s \in steady[c] => <<c, s>> \in listed'[p]
                        /\ <<c, s>> \in listed'[p] => s \in ever[c]
    BY <2>1, <2>2
  <2> QED
    BY <1>4, <2>1, <2>3 DEF Serves
<1>5. ASSUME UNCHANGED signalVars, BulkCreate(p), stage'[p] = "stored" PROVE Serves(p)'
  <2>1. /\ hooks' = hooks /\ steady' = steady /\ stage[p] = "chosen"
        /\ \A d \in Deliveries : d \in listed[p] => row'[d] = NewRow("pending")
    BY <1>5 DEF BulkCreate, Insert, At, signalVars, matchVars
  <2>2. c \in Changes
    BY <2>1, OwnHook
  <2>3. \A s \in steady[c] : Used(<<c, s>>)'
    BY <1>0, <2>1, <2>2 DEF Serves, Used, NewRow
  <2> QED
    BY <1>5, <2>1, <2>3 DEF Serves
<1>6. ASSUME UNCHANGED signalVars, stage'[p] = "enqueue", stage[p] \in {"stored", "enqueue"},
             UNCHANGED steady
      PROVE  Serves(p)'
  <2>1. c \in Changes /\ hooks' = hooks
    BY <1>6, OwnHook DEF signalVars
  <2>2. \A s \in steady[c] : Used(<<c, s>>)'
    BY <1>0, <1>6, <2>1 DEF Serves
  <2> QED
    BY <1>6, <2>1, <2>2 DEF Serves
<1>7. ASSUME ReadBack(p) PROVE stage[p] = "stored" /\ UNCHANGED steady
  BY <1>7 DEF ReadBack, At, matchVars
<1>8. ASSUME stage[p] = "enqueue", stage'[p] = "enqueue" PROVE UNCHANGED steady
  <2>0. p \notin Admins /\ p \notin Runners
    BY <1>0, RolesAssumption DEF Threads
  <2>1. ASSUME Stops(p) PROVE FALSE
    BY <1>0, <1>8, <2>1, StopsAbandons, Abandoned
  <2>2. ~RecordEvent(p)
    BY <1>8 DEF RecordEvent, At
  <2> QED
    BY <2>0, <2>1, <2>2 DEF Moves, ProducerMoves, Transact, FindSubscribers, NoSubscribers, EndEmission, Select,
       BulkCreate, ReadBack, FinishEmission, Enqueue, Executes, matchVars
<1> QED
  BY <1>1, <1>2, <1>3, <1>4, <1>5, <1>6, <1>7, <1>8, StagesGoOn

LEMMA ServedStep == Groundwork /\ OrderInv /\ ServedInv /\ [Next]_vars => ServedInv'
<1> SUFFICES ASSUME Groundwork, OrderInv, ServedInv, [Next]_vars PROVE ServedInv'
  OBVIOUS
<1>0. /\ TypeOK /\ Ledger /\ Producers \subseteq Threads /\ Threads \subseteq Processes
      /\ \A d \in Deliveries : Used(d) => Used(d)'
      /\ \A c \in Changes, s \in Subs : <<c, s>> \in Deliveries
      /\ steady \in [Changes -> SUBSET Subs]
      /\ events \cap Changes \subseteq durable
  BY RowsGoOn, DeliveriesAssumption, ProcessesAssumption
     DEF Groundwork, TypeInv, TypeOK, RowGoesOn, Origins, Threads, EventsInv, EventsAreTrue
<1>1. ASSUME NEW p \in Producers PROVE Serves(p)'
  <2>1. ASSUME NEW u \in Processes \ {p}, Moves(u) PROVE UNCHANGED <<stage[p], hooks[p], listed[p]>>
    BY <1>0, <2>1, OthersStill DEF Still
  <2>2. ASSUME ManageSubscriptions \/ UNCHANGED vars PROVE UNCHANGED <<stage[p], hooks[p], listed[p]>>
    BY <2>2 DEF ManageSubscriptions, vars, threadVars, signalVars
  <2> QED
    BY <1>0, <2>1, <2>2, ServesStep, ServesOn, NextMoves
<1>2. ASSUME NEW c \in Changes, NEW s \in Subs, Used(<<c, s>>)' PROVE s \in ever'[c]
  <2>1. CASE Used(<<c, s>>)
    <3>1. s \in ever[c] /\ c \in events
      BY <1>0, <2>1 DEF ServedInv, OnlyMatching, OrderInv, EventsFirst
    <3>2. ASSUME NEW p \in Producers, RecordEvent(p), c = Head(hooks[p]) PROVE FALSE
      <4>1. Announces(p, c) /\ tx[p] = "hooks" /\ stage[p] = "idle"
        BY <1>0, <3>2, FirstHook DEF RecordEvent, At
      <4> QED
        BY <3>1, <4>1 DEF OrderInv, EventsOfHooks, Announces
    <3> QED
      BY <3>1, <3>2, MatchesGoOn
  <2>2. CASE ~Used(<<c, s>>)
    <3>1. PICK p \in Producers : /\ BulkCreate(p) /\ <<c, s>> \in listed[p] /\ c = Head(hooks[p])
                                 /\ stage[p] = "chosen"
      BY <1>0, <1>2, <2>2, MadeByItsProducer
    <3>2. s \in ever[c]
      BY <3>1 DEF ServedInv, Serves
    <3> QED
      BY <3>1, <3>2 DEF BulkCreate, matchVars
  <2> QED
    BY <2>1, <2>2
<1>3. ASSUME NEW c \in Changes, c \in events', c \notin lost', \A p \in Producers : ~Announces(p, c)'
      PROVE  \A s \in steady'[c] : Used(<<c, s>>)'
  <2>1. ASSUME NEW p \in Producers, RecordEvent(p), c = Head(hooks[p]) PROVE FALSE
    <3>1. Announces(p, c)
      BY <1>0, <2>1, FirstHook DEF RecordEvent
    <3>2. Announces(p, c)'
      BY <2>1, <3>1 DEF RecordEvent, signalVars, Announces
    <3> QED
      BY <1>3, <3>2
  <2>2. c \in events
    <3>1. ASSUME NEW a \in Admins, TestEvent(a) PROVE c \in events
      BY <1>3, <3>1, OriginsAssumption DEF TestEvent, At, Groundwork, Control, AdminInStep, TestStages
    <3> QED
      BY <1>3, <2>1, <3>1, WhereEventsComeFrom DEF RecordEvent
  <2>3. c \notin lost
    BY <1>3, LostStayLost
  <2>4. steady'[c] \subseteq steady[c]
    BY <2>1, MatchesGoOn
  <2>5. \A s \in steady[c] : Used(<<c, s>>) \/ Used(<<c, s>>)'
    <3>1. CASE \A p \in Producers : ~Announces(p, c)
      BY <2>2, <2>3, <3>1 DEF ServedInv, Served
    <3>2. ASSUME NEW p \in Producers, Announces(p, c) PROVE \A s \in steady[c] : Used(<<c, s>>)
      <4>1. hooks'[p] # hooks[p]
        BY <1>3, <3>2 DEF Announces
      <4>2. Moves(p)
        <5>1. ASSUME NEW u \in Processes \ {p}, Moves(u) PROVE FALSE
          BY <1>0, <4>1, <5>1, OthersStill DEF Still
        <5> QED
          BY <4>1, <5>1, NextMoves DEF ManageSubscriptions, vars, signalVars
      <4>3. ~Transact(p)
        <5>1. ASSUME Transact(p) PROVE FALSE
          <6>1. tx[p] # "hooks"
            BY <5>1 DEF Transact, TransactionStep, SaveOutside, SaveInside, ReleaseSavepoint, RollbackSavepoint,
               Rollback, Commit
          <6>2. c \in work[p]
            BY <1>0, <3>2, <6>1 DEF Ledger, HooksAreTrue
          <6> QED
            BY <1>0, <2>2, <6>2 DEF Ledger, OneOwner
        <5> QED
          BY <5>1
      <4>4. ~Abandon(p)
        <5>1. DOMAIN hooks[p] = 1..Len(hooks[p])
          BY <1>0 DEF Ledger, SignalsTypeOK
        <5>2. c \in Range(hooks[p])
          BY <3>2, <5>1 DEF Announces, Range
        <5> QED
          BY <1>3, <5>2 DEF Abandon
      <4>5. NextHook(p) /\ stage[p] # "idle"
        BY <4>1, <4>2, <4>3, <4>4, HooksGoOn DEF signalVars
      <4>6. c = Head(hooks[p])
        BY <1>0, <1>3, <3>2, <4>5, OnlyTheHeadGoes
      <4>7. NoSubscribers(p) \/ FinishEmission(p)
        <5>1. p \notin Admins /\ p \notin Runners
          BY <1>0, RolesAssumption DEF Threads
        <5>2. ~Stops(p)
          BY <1>0, <4>4, StopsAbandons
        <5> QED
          BY <4>1, <4>2, <4>3, <5>1, <5>2 DEF Moves, ProducerMoves, RecordEvent, FindSubscribers,
             Select, BulkCreate, ReadBack, Enqueue, Executes, signalVars
      <4>8. Serves(p)
        BY DEF ServedInv
      <4> QED
        BY <4>6, <4>7, <4>8 DEF NoSubscribers, FinishEmission, At, Serves
    <3> QED
      BY <3>1, <3>2
  <2> QED
    BY <1>0, <2>4, <2>5
<1> QED
  BY <1>1, <1>2, <1>3 DEF ServedInv, Served, OnlyMatching

LEMMA AnnouncesUnderway ==
    ASSUME Groundwork, NEW c PROVE (\E p \in Producers : Announces(p, c)) <=> Underway(c)
<1>1. ASSUME NEW p \in Producers PROVE Announces(p, c) <=> c \in Range(hooks[p])
  <2>1. hooks[p] \in Seq(Changes)
    BY DEF Groundwork, TypeInv, Ledger, SignalsTypeOK
  <2>2. DOMAIN hooks[p] = 1..Len(hooks[p])
    BY <2>1
  <2> QED
    BY <2>2 DEF Announces, Range
<1> QED
  BY <1>1 DEF Underway

\* Whoever wanted an event all the time its emission looked gets a delivery, and nobody gets
\* one who never wanted it.
THEOREM SubscribersAreAlwaysServed == Spec => []SubscribersAreServed
<1> DEFINE Inv == Groundwork /\ OrderInv /\ ServedInv
<1>1. Init => Inv
  BY GroundworkInit, OrderInit, ServedInit
<1>2. Inv /\ [Next]_vars => Inv'
  BY GroundworkStep, OrderStep, ServedStep
<1>3. Inv => SubscribersAreServed
  <2> SUFFICES ASSUME Inv, NEW c \in Changes, NEW s \in Subs
               PROVE  /\ row[<<c, s>>].status # "new" => s \in ever[c]
                      /\ c \in events \ lost /\ ~Underway(c) /\ s \in steady[c] =>
                            row[<<c, s>>].status # "new"
    BY DEF SubscribersAreServed
  <2>1. (\E p \in Producers : Announces(p, c)) <=> Underway(c)
    BY AnnouncesUnderway
  <2> QED
    BY <2>1 DEF ServedInv, Served, OnlyMatching, Used
<1> QED
  BY <1>1, <1>2, <1>3, PTL DEF Spec

--------------------------------------------------------------------------------
(* What a test leaves. *)

\* A delivery of a test is there only while the test sends it, and its event only while the
\* test is in progress, unless a process was killed or the subscription destroyed.
Leftovers ==
    \A x \in Tests :
        /\ \A s \in Subs : Exists(<<x, s>>) =>
              \/ faults > 0
              \/ \E a \in Admins : stage[a] \in {"send", "sent"} /\ listed[a] = {<<x, s>>}
        /\ x \in events =>
              \/ faults > 0 \/ Destroyed # {}
              \/ \E a \in Admins, u \in Subs :
                    stage[a] \in TestStages \ {"test"} /\ listed[a] = {<<x, u>>}

\* Where the stage of a test goes: on, or to its end.
LEMMA TestsGoOn ==
    ASSUME Groundwork, NEW a \in Admins, Moves(a), stage[a] \in TestStages
    PROVE  \/ UNCHANGED <<stage[a], listed[a]>>
           \/ TestEvent(a) /\ stage[a] = "test" /\ stage'[a] = "announced" /\ UNCHANGED listed
           \/ TestDelivery(a) /\ stage[a] = "announced" /\ stage'[a] = "send" /\ UNCHANGED listed
           \/ SendTest(a) /\ stage[a] = "send" /\ stage'[a] = "sent" /\ UNCHANGED listed
           \/ WipeDelivery(a) /\ stage[a] = "sent" /\ stage'[a] = "wiped" /\ UNCHANGED listed
           \/ TestDeliveryRaises(a) /\ stage[a] = "announced"
           \/ WipeEvent(a) /\ stage[a] = "wiped"
           \/ Fault /\ Stops(a)
<1>0. stage = [t \in Threads |-> stage[t]] /\ a \in Threads /\ a \notin Producers /\ a \notin Runners
  BY RolesAssumption DEF Groundwork, TypeInv, TypeOK, Threads
<1>1. ASSUME Stops(a) PROVE TestDeliveryRaises(a) \/ WipeEvent(a) \/ (Fault /\ Stops(a))
  BY <1>0, <1>1 DEF Stops, PutBackRaises, EnqueueRaises, ThreadRaised, CrashThread, At, TestStages
<1>2. ASSUME AdminMoves(a)
      PROVE  \/ TestEvent(a) /\ stage[a] = "test" /\ stage'[a] = "announced" /\ UNCHANGED listed
             \/ TestDelivery(a) /\ stage[a] = "announced" /\ stage'[a] = "send" /\ UNCHANGED listed
             \/ SendTest(a) /\ stage[a] = "send" /\ stage'[a] = "sent" /\ UNCHANGED listed
             \/ WipeDelivery(a) /\ stage[a] = "sent" /\ stage'[a] = "wiped" /\ UNCHANGED listed
  BY <1>0, <1>2 DEF AdminMoves, StartTest, TestEvent, TestDelivery, SendTest, WipeDelivery, ReadToPutBack,
     PutBack, PutBackNext, At, GoTo, TestStages
<1>3. ASSUME NEW d \in Deliveries, Enqueue(a, d) PROVE FALSE
  BY <1>3 DEF Enqueue, At, TestStages
<1>4. ASSUME Executes(a) PROVE UNCHANGED <<stage[a], listed[a]>>
  BY <1>4 DEF Executes, threadVars
<1>5. ASSUME TestDeliveryRaises(a) \/ WipeEvent(a)
      PROVE  (TestDeliveryRaises(a) /\ stage[a] = "announced") \/ (WipeEvent(a) /\ stage[a] = "wiped")
  BY <1>5 DEF TestDeliveryRaises, WipeEvent, At
<1> QED
  BY <1>0, <1>1, <1>2, <1>3, <1>4, <1>5 DEF Moves

LEMMA LeftoversInit == Init => Leftovers
<1> SUFFICES ASSUME Init PROVE Leftovers
  OBVIOUS
<1>1. events = {} /\ \A x \in Tests, s \in Subs : <<x, s>> \in Deliveries
  BY DeliveriesAssumption DEF Init, Origins
<1>2. \A x \in Tests, s \in Subs : ~Exists(<<x, s>>)
  BY <1>1 DEF Init, ExecutorInit, NewRow, Exists, Status
<1> QED
  BY <1>1, <1>2 DEF Leftovers

LEMMA LeftoversStep == Groundwork /\ Leftovers /\ [Next]_vars => Leftovers'
<1> SUFFICES ASSUME Groundwork, Leftovers, [Next]_vars, NEW x \in Tests
             PROVE  /\ \A s \in Subs : Exists(<<x, s>>)' =>
                          \/ faults' > 0
                          \/ \E a \in Admins : stage'[a] \in {"send", "sent"} /\ listed'[a] = {<<x, s>>}
                    /\ x \in events' =>
                          \/ faults' > 0 \/ Destroyed' # {}
                          \/ \E a \in Admins, u \in Subs :
                                stage'[a] \in TestStages \ {"test"} /\ listed'[a] = {<<x, u>>}
  BY DEF Leftovers
<1>0. /\ TypeOK /\ SubsGoOn /\ (UNCHANGED faults \/ Fault) /\ faults \in Nat
      /\ Admins \subseteq Threads /\ Threads \subseteq Processes /\ (\A s \in Subs : <<x, s>> \in Deliveries)
      /\ stage = [t \in Threads |-> stage[t]] /\ Control /\ RowsInv /\ SubsInv
  BY GroundworkStep, ReasonsStay, ProcessesAssumption, DeliveriesAssumption
     DEF Groundwork, TypeInv, TypeOK, Threads, Origins
<1>1. (faults > 0 => faults' > 0) /\ (Fault => faults' > 0)
  BY <1>0 DEF Fault
<1>2. ASSUME NEW a \in Admins, ~Moves(a) PROVE UNCHANGED <<stage[a], listed[a]>>
  <2>1. ASSUME NEW u \in Processes \ {a}, Moves(u) PROVE UNCHANGED <<stage[a], listed[a]>>
    BY <1>0, <2>1, OthersStill DEF Still
  <2> QED
    BY <1>0, <1>2, <2>1, NextMoves DEF ManageSubscriptions, vars, threadVars
<1>3. ASSUME NEW s \in Subs, Exists(<<x, s>>)'
      PROVE  \/ faults' > 0
             \/ \E a \in Admins : stage'[a] \in {"send", "sent"} /\ listed'[a] = {<<x, s>>}
  <2>1. CASE ~Exists(<<x, s>>)
    <3>1. PICK t \in Threads : /\ <<x, s>> \in listed[t]
                               /\ (t \in Producers /\ BulkCreate(t)) \/ (t \in Admins /\ TestDelivery(t))
      <4>1. RowGoesOn(<<x, s>>)
        BY <1>0, RowsGoOn
      <4> QED
        BY <1>3, <2>1, <4>1 DEF RowGoesOn, Exists
    <3>2. ASSUME t \in Producers, BulkCreate(t) PROVE FALSE
      <4>1. stage[t] # "idle"
        BY <3>2 DEF BulkCreate, At
      <4>2. x = Head(hooks[t]) /\ Head(hooks[t]) \in Changes
        BY <1>0, <3>1, <3>2, <4>1, OwnHook DEF Control, ProducerInStep
      <4> QED
        BY <4>2, OriginsAssumption
    <3>3. t \in Admins /\ TestDelivery(t)
      BY <3>1, <3>2
    <3>4. \E y \in Tests, u \in Subs : listed[t] = {<<y, u>>}
      BY <1>0, <3>3 DEF TestDelivery, At, Control, AdminInStep, TestStages
    <3>5. listed[t] = {<<x, s>>}
      BY <3>1, <3>4
    <3> QED
      BY <1>0, <3>3, <3>5 DEF TestDelivery, GoTo
  <2>2. ASSUME NEW a \in Admins, stage[a] \in {"send", "sent"}, listed[a] = {<<x, s>>}
        PROVE  faults' > 0 \/ (stage'[a] \in {"send", "sent"} /\ listed'[a] = {<<x, s>>})
    <3>1. ASSUME WipeDelivery(a) PROVE FALSE
      <4>1. row'[<<x, s>>] = IF Exists(<<x, s>>) THEN NewRow("deleted") ELSE row[<<x, s>>]
        BY <1>0, <2>2, <3>1 DEF WipeDelivery, Erase
      <4> QED
        BY <1>3, <4>1 DEF Exists, Status, NewRow
    <3>2. CASE Moves(a)
      BY <1>1, <2>2, <3>1, <3>2, TestsGoOn DEF TestStages
    <3> QED
      BY <1>2, <2>2, <3>2
  <2> QED
    BY <1>1, <2>1, <2>2 DEF Leftovers
<1>4. ASSUME x \in events'
      PROVE  \/ faults' > 0 \/ Destroyed' # {}
             \/ \E a \in Admins, u \in Subs :
                   stage'[a] \in TestStages \ {"test"} /\ listed'[a] = {<<x, u>>}
  <2>1. CASE x \notin events
    <3>1. ASSUME NEW p \in Producers, RecordEvent(p) PROVE FALSE
      <4>1. Head(hooks[p]) \in Changes
        BY <3>1, FirstHook DEF RecordEvent, Groundwork, TypeInv
      <4> QED
        BY <1>4, <2>1, <3>1, <4>1, OriginsAssumption DEF RecordEvent
    <3>2. PICK a \in Admins : TestEvent(a)
      BY <1>4, <2>1, <3>1, WhereEventsComeFrom
    <3>3. PICK y \in Tests, u \in Subs : listed[a] = {<<y, u>>}
      BY <1>0, <3>2 DEF TestEvent, At, Control, AdminInStep, TestStages
    <3>4. x = y
      BY <1>4, <2>1, <3>2, <3>3 DEF TestEvent
    <3>5. stage'[a] = "announced" /\ listed'[a] = listed[a]
      BY <1>0, <3>2 DEF TestEvent, GoTo
    <3> QED
      BY <3>3, <3>4, <3>5 DEF TestStages
  <2>2. ASSUME NEW a \in Admins, NEW u \in Subs, stage[a] \in TestStages \ {"test"}, listed[a] = {<<x, u>>}
        PROVE  \/ faults' > 0 \/ Destroyed' # {}
               \/ stage'[a] \in TestStages \ {"test"} /\ listed'[a] = {<<x, u>>}
    <3>1. ASSUME WipeEvent(a) PROVE FALSE
      BY <1>4, <2>2, <3>1 DEF WipeEvent
    <3>2. ASSUME TestDeliveryRaises(a) PROVE Destroyed # {}
      <4>1. ~Stored(u)
        BY <2>2, <3>2 DEF TestDeliveryRaises, Insertable
      <4>0. <<x, u>> \in listed[a] /\ <<x, u>>[2] = u /\ a \in Threads
        BY <1>0, <2>2
      <4>2. sub[u].state # "new"
        BY <1>0, <4>0 DEF RowsInv
      <4>3. sub[u].state = "deleted"
        BY <1>0, <4>1, <4>2 DEF Stored, SubsInv, SubscriptionsTypeOK, Subscription
      <4> QED
        BY <1>0, <4>3 DEF SubsInv, SubsAreTold, Destroyed
    <3>3. CASE Moves(a)
      BY <1>0, <1>1, <2>2, <3>1, <3>2, <3>3, TestsGoOn DEF TestStages, SubsGoOn
    <3> QED
      BY <1>2, <2>2, <3>3
  <2> QED
    BY <1>0, <1>1, <2>1, <2>2 DEF Leftovers, SubsGoOn
<1> QED
  BY <1>3, <1>4

\* Once a test is over nothing of it is left, whatever else goes on, short of a fault or of the
\* deletion of its subscription.
THEOREM TestsAlwaysLeaveNothing == Spec => []TestsLeaveNothing
<1> DEFINE Inv == Groundwork /\ Leftovers
<1>1. Init => Inv
  BY GroundworkInit, LeftoversInit
<1>2. Inv /\ [Next]_vars => Inv'
  BY GroundworkStep, LeftoversStep
<1>3. Inv => TestsLeaveNothing
  <2> SUFFICES ASSUME Inv, NEW x \in Tests, \A a \in Admins : \A d \in listed[a] : d[1] # x
               PROVE  /\ (\E s \in Subs : Exists(<<x, s>>)) => faults > 0
                      /\ x \in events => faults > 0 \/ Destroyed # {}
    BY DEF TestsLeaveNothing
  <2>1. ASSUME NEW a \in Admins, NEW s \in Subs PROVE listed[a] # {<<x, s>>}
    <3>1. <<x, s>>[1] = x
      OBVIOUS
    <3> QED
      BY <3>1
  <2>2. ASSUME NEW s \in Subs, Exists(<<x, s>>) PROVE faults > 0
    <3>1. \/ faults > 0
          \/ \E a \in Admins : listed[a] = {<<x, s>>}
      BY <2>2 DEF Leftovers
    <3> QED
      BY <2>1, <3>1
  <2>3. ASSUME x \in events PROVE faults > 0 \/ Destroyed # {}
    <3>1. \/ faults > 0 \/ Destroyed # {}
          \/ \E a \in Admins, u \in Subs : listed[a] = {<<x, u>>}
      BY <2>3 DEF Leftovers
    <3> QED
      BY <2>1, <3>1
  <2> QED
    BY <2>2, <2>3
<1> QED
  BY <1>1, <1>2, <1>3, PTL DEF Spec

--------------------------------------------------------------------------------
(* Keys are not used twice. *)

\* No two tests share a delivery, and a test has none before it stores it.
TestsApart ==
    \A a, b \in Admins : a # b /\ stage[a] \in TestStages /\ stage[b] \in TestStages =>
        listed[a] \cap listed[b] = {}

TestsFresh ==
    \A a \in Admins : stage[a] \in {"test", "announced"} => \A d \in listed[a] : ~Used(d)

FreshInv == OrderInv /\ TestsApart /\ TestsFresh

LEMMA InsertsFresh ==
    ASSUME Groundwork, FreshInv, NEW t \in Threads, NEW d \in listed[t],
           (t \in Producers /\ BulkCreate(t)) \/ (t \in Admins /\ TestDelivery(t))
    PROVE  ~Used(d)
<1>1. d \in Deliveries
  BY DEF Groundwork, TypeInv, TypeOK
<1>2. ASSUME t \in Producers, BulkCreate(t) PROVE ~Used(d)
  <2>1. stage[t] = "chosen" /\ d[1] = Head(hooks[t])
    BY <1>2 DEF BulkCreate, At, Groundwork, Control, ProducerInStep
  <2> QED
    BY <1>1, <1>2, <2>1 DEF FreshInv, OrderInv, EmissionInOrder
<1>3. ASSUME t \in Admins, TestDelivery(t) PROVE ~Used(d)
  BY <1>3 DEF TestDelivery, At, FreshInv, TestsFresh
<1> QED
  BY <1>2, <1>3

LEMMA FreshInit == Init => FreshInv
<1> SUFFICES ASSUME Init PROVE TestsApart /\ TestsFresh
  BY OrderInit DEF FreshInv
<1>1. \A a \in Admins : stage[a] = "idle"
  BY DEF Init, Threads
<1> QED
  BY <1>1 DEF TestsApart, TestsFresh, TestStages

LEMMA FreshStep == Groundwork /\ FreshInv /\ [Next]_vars => FreshInv'
<1> SUFFICES ASSUME Groundwork, FreshInv, [Next]_vars PROVE FreshInv'
  OBVIOUS
<1>0. /\ TypeOK /\ Admins \subseteq Threads /\ Threads \subseteq Processes
      /\ stage = [t \in Threads |-> stage[t]] /\ listed = [t \in Threads |-> listed[t]]
      /\ \A t \in Threads : listed[t] \subseteq Deliveries
      /\ Control /\ RowsInv
  BY ProcessesAssumption DEF Groundwork, TypeInv, TypeOK, Threads
<1>1. OrderInv'
  BY OrderStep DEF FreshInv
<1>2. ASSUME NEW a \in Admins, ~Moves(a) PROVE UNCHANGED <<stage[a], listed[a]>>
  <2>1. ASSUME NEW u \in Processes \ {a}, Moves(u) PROVE UNCHANGED <<stage[a], listed[a]>>
    BY <1>0, <2>1, OthersStill DEF Still
  <2> QED
    BY <1>0, <1>2, <2>1, NextMoves DEF ManageSubscriptions, vars, threadVars
\* How a test comes to have a stage: it starts, with what nobody has, or it goes on.
<1>3. ASSUME NEW a \in Admins, stage'[a] \in TestStages
      PROVE  \/ stage[a] \in TestStages /\ UNCHANGED listed[a]
             \/ \E x \in Tests, s \in Subs : StartTest(a, x, s)
  <2>1. CASE ~Moves(a)
    BY <1>2, <1>3, <2>1
  <2>2. CASE Moves(a)
    <3>0. a \in Threads /\ a \notin Producers /\ a \notin Runners /\ a \in Processes /\ AdminInStep(a)
      BY <1>0, RolesAssumption DEF Threads, Control
    <3>1. ~Stops(a)
      BY <1>3, <3>0, <1>0, StopsAbandons, Abandoned DEF TestStages
    <3>2. ASSUME AdminMoves(a)
          PROVE  \/ stage[a] \in TestStages /\ UNCHANGED listed[a]
                 \/ \E x \in Tests, s \in Subs : StartTest(a, x, s)
      BY <1>0, <1>3, <3>0, <3>2 DEF AdminMoves, TestEvent, TestDelivery, SendTest, WipeDelivery,
         ReadToPutBack, PutBack, PutBackNext, GoTo, At, TestStages
    <3>3. ASSUME (\E d \in Deliveries : Enqueue(a, d)) \/ Executes(a)
          PROVE  UNCHANGED <<stage, listed>>
      BY <3>3 DEF Enqueue, Executes, threadVars
    <3> QED
      BY <1>3, <2>2, <3>0, <3>1, <3>2, <3>3 DEF Moves
  <2> QED
    BY <2>1, <2>2
<1>4. ASSUME NEW a \in Admins, NEW x \in Tests, NEW s \in Subs, StartTest(a, x, s)
      PROVE  /\ listed'[a] = {<<x, s>>} /\ ~Used(<<x, s>>) /\ UNCHANGED row
             /\ \A t \in Threads \ {a} : listed'[t] = listed[t] /\ <<x, s>> \notin listed[t]
  <2>1. ASSUME NEW t \in Threads, <<x, s>> \in listed[t] PROVE FALSE
    <3>1. listed[t] \in Range(listed)
      BY <1>0 DEF Range
    <3>2. <<x, s>> \in UNION Range(listed) /\ <<x, s>>[1] = x
      BY <2>1, <3>1
    <3> QED
      BY <1>4, <3>2 DEF StartTest
  <2> QED
    BY <1>0, <1>4, <2>1 DEF StartTest, Used
<1>5. ASSUME NEW a \in Admins, NEW b \in Admins, a # b, stage'[a] \in TestStages, stage'[b] \in TestStages
      PROVE  listed'[a] \cap listed'[b] = {}
  <2>1. ASSUME NEW x \in Tests, NEW s \in Subs, StartTest(a, x, s) PROVE listed'[a] \cap listed'[b] = {}
    <3>1. listed'[a] = {<<x, s>>} /\ listed'[b] = listed[b] /\ <<x, s>> \notin listed[b]
      BY <1>0, <1>4, <1>5, <2>1
    <3> QED
      BY <3>1
  <2>2. ASSUME NEW x \in Tests, NEW s \in Subs, StartTest(b, x, s) PROVE listed'[a] \cap listed'[b] = {}
    <3>1. listed'[b] = {<<x, s>>} /\ listed'[a] = listed[a] /\ <<x, s>> \notin listed[a]
      BY <1>0, <1>4, <1>5, <2>2
    <3> QED
      BY <3>1
  <2>3. ASSUME stage[a] \in TestStages, stage[b] \in TestStages, UNCHANGED <<listed[a], listed[b]>>
        PROVE  listed'[a] \cap listed'[b] = {}
    BY <1>5, <2>3 DEF FreshInv, TestsApart
  <2> DEFINE Started(u) == \E x \in Tests, s \in Subs : StartTest(u, x, s)
  <2>4. /\ (stage[a] \in TestStages /\ listed'[a] = listed[a]) \/ Started(a)
        /\ (stage[b] \in TestStages /\ listed'[b] = listed[b]) \/ Started(b)
    BY <1>3, <1>5
  <2>5. CASE Started(a)
    BY <2>1, <2>5
  <2>6. CASE Started(b)
    BY <2>2, <2>6
  <2> HIDE DEF Started
  <2>7. CASE ~Started(a) /\ ~Started(b)
    BY <2>3, <2>4, <2>7
  <2> QED
    BY <2>5, <2>6, <2>7
<1>6. ASSUME NEW a \in Admins, stage'[a] \in {"test", "announced"}, NEW d \in listed'[a] PROVE ~Used(d)'
  <2>0. stage'[a] \in TestStages
    BY <1>6 DEF TestStages
  <2>1. ASSUME NEW x \in Tests, NEW s \in Subs, StartTest(a, x, s) PROVE ~Used(d)'
    <3>1. listed'[a] = {<<x, s>>} /\ ~Used(<<x, s>>) /\ UNCHANGED row
      BY <1>4, <2>1
    <3>2. d = <<x, s>>
      BY <1>6, <3>1
    <3> QED
      BY <3>1, <3>2 DEF Used
  <2>2. ASSUME stage[a] \in TestStages, UNCHANGED listed[a] PROVE ~Used(d)'
    <3>1. stage[a] \in {"test", "announced"}
      <4>1. ~Stops(a)
        BY <1>0, <1>6, StopsAbandons, Abandoned
      <4>2. ~TestDeliveryRaises(a) /\ ~WipeEvent(a)
        BY <1>0, <4>1 DEF Stops
      <4> QED
        BY <1>2, <1>6, <2>2, <4>1, <4>2, TestsGoOn DEF TestStages
    <3>2. ~Used(d) /\ d \in Deliveries
      BY <1>0, <1>6, <2>2, <3>1 DEF FreshInv, TestsFresh
    <3>3. ASSUME Used(d)' PROVE FALSE
      <4>1. PICK t \in Threads : /\ d \in listed[t]
                                 /\ (t \in Producers /\ BulkCreate(t)) \/ (t \in Admins /\ TestDelivery(t))
        BY <1>0, <3>2, <3>3, RowsGoOn DEF RowGoesOn, Used, Exists, Status
      <4>2. \E x \in Tests, s \in Subs : listed[a] = {<<x, s>>}
        BY <1>0, <2>2 DEF Control, AdminInStep
      <4>3. d[1] \in Tests
        BY <1>6, <2>2, <4>2
      <4>4. ASSUME t \in Producers, BulkCreate(t) PROVE FALSE
        BY <1>0, <4>1, <4>3, <4>4, OwnHook, OriginsAssumption DEF BulkCreate, At, Control, ProducerInStep
      <4>5. t \in Admins /\ TestDelivery(t)
        BY <4>1, <4>4
      <4>6. t = a
        BY <1>6, <2>2, <4>1, <4>5 DEF FreshInv, TestsApart, TestDelivery, At, TestStages
      <4> QED
        BY <1>0, <1>6, <4>5, <4>6 DEF TestDelivery, GoTo
    <3> QED
      BY <3>3
  <2> QED
    BY <1>3, <2>0, <2>1, <2>2
<1> QED
  BY <1>1, <1>5, <1>6 DEF FreshInv, TestsApart, TestsFresh

--------------------------------------------------------------------------------
(* Who cares for a pending delivery. *)

\* Celery's workers work for Celery only.
CeleryOnly ==
    /\ \A r \in Runners : pc[r] # "ready" => Backend = "celery"
    /\ \A d \in Deliveries : tasks[d] > 0 => Backend = "celery"

\* Somebody has it.
Holds(u, d) ==
    \/ u \in Threads /\ (d \in ids[u] \/ (stage[u] \in {"stored", "send"} /\ d \in listed[u]))
    \/ cur[u] = d /\ pc[u] = "fetched"

CaredFor(d) ==
    \/ Backend = "outbox" \/ tasks[d] > 0 \/ d \in dropped
    \/ \E u \in Processes : Holds(u, d)
    \/ Backend = "celery" /\ d \in awaiting

CareInv ==
    /\ CeleryOnly
    /\ \A d \in Deliveries : row[d].status = "pending" => CaredFor(d)

\* What an attempt makes pending waits for a retry.
LEMMA AttemptWrites ==
    ASSUME TypeOK, NEW q \in Processes, Executes(q), NEW d \in Deliveries, row'[d] # row[d],
           row'[d].status = "pending"
    PROVE  q \in Runners /\ pc[q] = "answered" /\ d \in awaiting'
<1>0. row = [e \in Deliveries |-> row[e]] /\ row[d] \in Row /\ mem[q] \in Nat
  BY DEF TypeOK, ExecutorTypeOK
<1>1. d = cur[q]
  BY ExecutesRow
<1>2. ~MarkDelivering(q)
  BY <1>0, <1>1 DEF MarkDelivering
<1>3. ~PersistSuccess(q)
  BY <1>0, <1>1 DEF PersistSuccess, Row
<1>4. ~PersistFailure(q, FALSE)
  <2> DEFINE verdict == FailureStatus(mem[q], ans[q], ans[q] = NoCode, FALSE)
  <2>1. verdict = "failed"
    BY DEF FailureStatus
  <2> QED
    BY <1>0, <1>1, <2>1 DEF PersistFailure, Row
<1>5. ~SaveMissing(q) /\ ~Post(q) /\ ~PostRaises(q)
  BY DEF SaveMissing, Post, PostRaises
<1>6. q \in Runners /\ PersistFailure(q, TRUE) /\ NoteRetry(cur[q])
  BY <1>2, <1>3, <1>4, <1>5 DEF Executes
<1> QED
  BY <1>1, <1>6 DEF PersistFailure, NoteRetry

\* Who writes a row that there is.
LEMMA WhoWrites ==
    ASSUME Groundwork, FreshInv, [Next]_vars, NEW d \in Deliveries, row'[d] # row[d]
    PROVE  \/ ~Exists(d)'
           \/ \E t \in Threads : /\ d \in listed[t] /\ row'[d] = NewRow("pending") /\ ~Used(d)
                                 /\ (t \in Producers /\ BulkCreate(t)) \/ (t \in Admins /\ TestDelivery(t))
           \/ \E a \in Admins : PutBack(a, d)
           \/ \E q \in Processes : Executes(q)
<1>0. TypeOK /\ row = [e \in Deliveries |-> row[e]] /\ row[d] \in Row
  BY DEF Groundwork, TypeInv, TypeOK, ExecutorTypeOK
<1>1. ASSUME ~Exists(d)
      PROVE  \E t \in Threads : /\ d \in listed[t] /\ row'[d] = NewRow("pending") /\ ~Used(d)
                                /\ (t \in Producers /\ BulkCreate(t)) \/ (t \in Admins /\ TestDelivery(t))
  BY <1>0, <1>1, RowsGoOn, InsertsFresh DEF RowGoesOn
<1>2. ASSUME NEW t \in Threads, Exists(d), (t \in Producers /\ BulkCreate(t)) \/ (t \in Admins /\ TestDelivery(t))
      PROVE  row'[d] = row[d]
  <2>1. d \notin listed[t]
    BY <1>2, InsertsFresh DEF Used, Exists, Status
  <2> QED
    BY <1>0, <1>2, <2>1 DEF BulkCreate, TestDelivery, Insert
<1>3. ASSUME NEW u \in Threads, Stops(u) PROVE row'[d] = row[d]
  BY <1>3, StopsAbandons
<1>4. ASSUME NEW u \in Producers, ProducerMoves(u), Exists(d) PROVE row'[d] = row[d]
  BY <1>2, <1>4 DEF ProducerMoves, Transact, RecordEvent, FindSubscribers, NoSubscribers, EndEmission,
       Select, ReadBack, FinishEmission, Threads
<1>5. ASSUME NEW u \in Admins, AdminMoves(u), Exists(d), Exists(d)'
      PROVE  row'[d] = row[d] \/ PutBack(u, d)
  <2>2. ASSUME WipeDelivery(u) PROVE row'[d] = row[d]
    <3>1. row'[d] = IF d \in listed[u] /\ Exists(d) THEN NewRow("deleted") ELSE row[d]
      BY <2>2 DEF WipeDelivery, Erase
    <3> QED
      BY <1>5, <3>1 DEF NewRow, Exists, Status
  <2>3. ASSUME NEW e \in Deliveries, PutBack(u, e) PROVE row'[d] = row[d] \/ PutBack(u, d)
    BY <1>0, <2>3 DEF PutBack
  <2> QED
    BY <1>2, <1>5, <2>2, <2>3 DEF AdminMoves, StartTest, TestEvent, SendTest, ReadToPutBack,
       PutBackNext, Fetch, FetchMissing, Threads
<1>6. ASSUME NEW u \in Threads, NEW e \in Deliveries, Enqueue(u, e) PROVE row'[d] = row[d]
  BY <1>6 DEF Enqueue, Dispatch, Fetch, FetchMissing
<1>7. ASSUME NEW u \in Runners, RunnerMoves(u) PROVE row'[d] = row[d]
  BY <1>7 DEF RunnerMoves, TakeTask, RunnerRaised, CrashRunner, Fetch, FetchMissing
<1>8. ASSUME ManageSubscriptions, Exists(d)' PROVE row'[d] = row[d]
  <2>1. row'[d] = IF sub'[d[2]].state = "deleted" /\ Exists(d) THEN NewRow("deleted") ELSE row[d]
    BY <1>8 DEF ManageSubscriptions, Cascade
  <2> QED
    BY <1>8, <2>1 DEF NewRow, Exists, Status
<1>9. ASSUME UNCHANGED vars PROVE row'[d] = row[d]
  BY <1>9 DEF vars
<1> QED
  BY <1>1, <1>3, <1>4, <1>5, <1>6, <1>7, <1>8, <1>9, NextMoves DEF Moves

LEMMA PendingFrom ==
    ASSUME Groundwork, FreshInv, [Next]_vars, NEW d \in Deliveries, row'[d] # row[d],
           row'[d].status = "pending"
    PROVE  \/ \E t \in Threads : /\ d \in listed[t]
                                 /\ (t \in Producers /\ BulkCreate(t)) \/ (t \in Admins /\ TestDelivery(t))
           \/ \E a \in Admins : PutBack(a, d)
           \/ \E r \in Runners : pc[r] = "answered" /\ d \in awaiting'
<1>1. Exists(d)'
  BY DEF Exists, Status
<1>2. ASSUME NEW q \in Processes, Executes(q)
      PROVE  q \in Runners /\ pc[q] = "answered" /\ d \in awaiting'
  BY <1>2, AttemptWrites DEF Groundwork, TypeInv
<1> QED
  BY <1>1, <1>2, WhoWrites

LEMMA CeleryOnlyStep == Groundwork /\ CeleryOnly /\ [Next]_vars => CeleryOnly'
<1> SUFFICES ASSUME Groundwork, CeleryOnly, [Next]_vars PROVE CeleryOnly'
  OBVIOUS
<1>0. /\ TypeOK /\ UNCHANGED setting /\ Runners \subseteq Processes /\ Threads \cap Runners = {}
      /\ pc = [q \in Processes |-> pc[q]]
      /\ tasks \in [Deliveries -> Nat]
      /\ Producers \subseteq Threads /\ Admins \subseteq Threads
  BY GroundworkStep, ReasonsStay, ProcessesAssumption, RolesAssumption
     DEF Groundwork, TypeInv, TypeOK, ExecutorTypeOK, Threads
<1>1. Backend = "celery" => Backend' = "celery"
  BY <1>0 DEF Backend
<1>2. ASSUME NEW r \in Runners, pc'[r] # "ready" PROVE Backend = "celery"
  <2>1. CASE pc[r] # "ready"
    BY <2>1 DEF CeleryOnly
  <2>2. CASE pc[r] = "ready"
    <3>1. ASSUME NEW u \in Processes \ {r}, Moves(u) PROVE FALSE
      BY <1>0, <1>2, <2>2, <3>1, OthersStill DEF Still
    <3>2. ASSUME Moves(r) PROVE Backend = "celery"
      <4>1. ~Executes(r)
        BY <1>0, <2>2, ExecutesOn
      <4>2. RunnerMoves(r)
        BY <1>0, <3>2, <4>1 DEF Moves
      <4>3. \E d \in Deliveries : tasks[d] > 0
        BY <1>0, <1>2, <4>2 DEF RunnerMoves, TakeTask, RunnerRaised, CrashRunner, Return
      <4> QED
        BY <4>3 DEF CeleryOnly
    <3> QED
      BY <1>2, <2>2, <3>1, <3>2, NextMoves DEF ManageSubscriptions, vars, execVars
  <2> QED
    BY <2>1, <2>2
<1>3. ASSUME NEW d \in Deliveries, tasks'[d] > 0 PROVE Backend = "celery"
  <2>1. ASSUME NEW t \in Threads, NEW e \in Deliveries, Enqueue(t, e) PROVE Backend = "celery" \/ UNCHANGED tasks
    BY <2>1 DEF Enqueue, Dispatch
  <2>2. ASSUME NEW u \in Runners, RunnerMoves(u) PROVE tasks'[d] = tasks[d] \/ tasks[d] > 0
    BY <1>0, <2>2 DEF RunnerMoves, TakeTask, RunnerRaised, CrashRunner
  <2>3. ASSUME NEW u \in Producers, ProducerMoves(u) PROVE UNCHANGED tasks
    BY <2>3 DEF ProducerMoves, Transact, RecordEvent, FindSubscribers, NoSubscribers, EndEmission, Select,
       BulkCreate, ReadBack, FinishEmission
  <2>4. ASSUME NEW u \in Admins, AdminMoves(u) PROVE UNCHANGED tasks
    BY <2>4 DEF AdminMoves, StartTest, TestEvent, TestDelivery, SendTest, WipeDelivery, ReadToPutBack,
       PutBack, PutBackNext
  <2>5. ASSUME NEW u \in Threads, Stops(u) PROVE UNCHANGED tasks
    BY <2>5, StopsAbandons
  <2>6. ASSUME (\E u \in Processes : Executes(u)) \/ ManageSubscriptions \/ UNCHANGED vars PROVE UNCHANGED tasks
    BY <2>6 DEF Executes, ManageSubscriptions, vars
  <2> QED
    BY <1>3, <2>1, <2>2, <2>3, <2>4, <2>5, <2>6, NextMoves DEF Moves, CeleryOnly
<1> QED
  BY <1>1, <1>2, <1>3 DEF CeleryOnly

--------------------------------------------------------------------------------
\* Nothing is taken from what was dropped.
LEMMA DroppedStayDropped == ASSUME [Next]_vars PROVE dropped \subseteq dropped'
<1>1. ASSUME NEW u \in Producers, ProducerMoves(u) PROVE dropped \subseteq dropped'
  BY <1>1 DEF ProducerMoves, Transact, RecordEvent, FindSubscribers, NoSubscribers, EndEmission, Select,
     BulkCreate, ReadBack, FinishEmission, lossVars
<1>2. ASSUME NEW u \in Admins, AdminMoves(u) PROVE dropped \subseteq dropped'
  BY <1>2 DEF AdminMoves, StartTest, TestEvent, TestDelivery, SendTest, WipeDelivery, ReadToPutBack,
     PutBack, PutBackNext, lossVars
<1>3. ASSUME NEW u \in Threads, Stops(u) PROVE dropped \subseteq dropped'
  BY <1>3, StopsAbandons DEF Abandon
<1> QED
  BY <1>1, <1>2, <1>3, NextMoves DEF Moves, Enqueue, Executes, RunnerMoves, TakeTask, RunnerRaised, CrashRunner,
     ManageSubscriptions, vars, lossVars

\* Only an operator takes a delivery from those that wait for a retry.
LEMMA AwaitingGoesOn ==
    ASSUME [Next]_vars, NEW d \in awaiting
    PROVE  d \in awaiting' \/ \E a \in Admins : PutBack(a, d)
<1>1. ASSUME NEW u \in Producers, ProducerMoves(u) PROVE UNCHANGED awaiting
  BY <1>1 DEF ProducerMoves, Transact, RecordEvent, FindSubscribers, NoSubscribers, EndEmission, Select,
     BulkCreate, ReadBack, FinishEmission, lossVars, retryVars
<1>2. ASSUME NEW u \in Admins, AdminMoves(u) PROVE d \in awaiting' \/ PutBack(u, d)
  <2>1. ASSUME NEW e \in Deliveries, PutBack(u, e) PROVE d \in awaiting' \/ PutBack(u, d)
    BY <2>1 DEF PutBack
  <2> QED
    BY <1>2, <2>1 DEF AdminMoves, StartTest, TestEvent, TestDelivery, SendTest, WipeDelivery, ReadToPutBack,
       PutBackNext, lossVars, retryVars
<1>3. ASSUME NEW u \in Threads, Stops(u) PROVE UNCHANGED awaiting
  BY <1>3, StopsAbandons DEF Abandon, retryVars
<1>4. ASSUME NEW u \in Processes, Executes(u) PROVE d \in awaiting'
  BY <1>4 DEF Executes, NoteRetry, retryVars
<1> QED
  BY <1>1, <1>2, <1>3, <1>4, NextMoves DEF Moves, Enqueue, RunnerMoves, TakeTask, RunnerRaised, CrashRunner,
     ManageSubscriptions, vars, lossVars, retryVars

\* A message that leaves the broker becomes an attempt.
LEMMA TasksGoOn ==
    ASSUME Groundwork, [Next]_vars, NEW d \in Deliveries, tasks[d] > 0, Exists(d)
    PROVE  tasks'[d] > 0 \/ \E u \in Processes : Holds(u, d)'
<1>0. /\ tasks \in [Deliveries -> Nat] /\ Runners \subseteq Processes
      /\ pc = [q \in Processes |-> pc[q]] /\ cur = [q \in Processes |-> cur[q]]
  BY ProcessesAssumption DEF Groundwork, TypeInv, TypeOK, ExecutorTypeOK
<1>1. ASSUME NEW u \in Producers, ProducerMoves(u) PROVE UNCHANGED tasks
  BY <1>1 DEF ProducerMoves, Transact, RecordEvent, FindSubscribers, NoSubscribers, EndEmission, Select,
     BulkCreate, ReadBack, FinishEmission
<1>2. ASSUME NEW u \in Admins, AdminMoves(u) PROVE UNCHANGED tasks
  BY <1>2 DEF AdminMoves, StartTest, TestEvent, TestDelivery, SendTest, WipeDelivery, ReadToPutBack,
     PutBack, PutBackNext
<1>3. ASSUME NEW u \in Threads, Stops(u) PROVE UNCHANGED tasks
  BY <1>3, StopsAbandons
<1>4. ASSUME NEW t \in Threads, NEW e \in Deliveries, Enqueue(t, e) PROVE tasks'[d] > 0
  BY <1>0, <1>4 DEF Enqueue, Dispatch
<1>5. ASSUME NEW r \in Runners, NEW e \in Deliveries, TakeTask(r, e)
      PROVE  tasks'[d] > 0 \/ Holds(r, d)'
  <2>1. CASE d = e
    BY <1>0, <1>5, <2>1 DEF TakeTask, Fetch, FetchMissing, Holds
  <2>2. CASE d # e
    BY <1>0, <1>5, <2>2 DEF TakeTask
  <2> QED
    BY <2>1, <2>2
<1>6. ASSUME NEW r \in Runners, RunnerRaised(r) \/ CrashRunner(r) PROVE UNCHANGED tasks
  BY <1>6 DEF RunnerRaised, CrashRunner
<1>7. ASSUME (\E u \in Processes : Executes(u)) \/ ManageSubscriptions \/ UNCHANGED vars PROVE UNCHANGED tasks
  BY <1>7 DEF Executes, ManageSubscriptions, vars
<1> QED
  BY <1>0, <1>1, <1>2, <1>3, <1>4, <1>5, <1>6, <1>7, NextMoves DEF Moves, RunnerMoves

\* Whoever has a pending delivery keeps it, hands it on, or drops it.
LEMMA HoldsGoOn ==
    ASSUME Groundwork, [Next]_vars, NEW d \in Deliveries, row[d].status = "pending", row'[d] = row[d],
           NEW u \in Processes, Holds(u, d)
    PROVE  CaredFor(d)'
<1>0. /\ TypeOK /\ UNCHANGED setting
      /\ pc = [q \in Processes |-> pc[q]] /\ cur = [q \in Processes |-> cur[q]]
      /\ ids = [t \in Threads |-> ids[t]] /\ stage = [t \in Threads |-> stage[t]]
      /\ listed = [t \in Threads |-> listed[t]]
      /\ tasks \in [Deliveries -> Nat] /\ row = [e \in Deliveries |-> row[e]]
      /\ Exists(d) /\ d # NoDelivery
      /\ Threads \cap Runners = {} /\ Producers \cap Admins = {}
      /\ Producers \subseteq Threads /\ Admins \subseteq Threads
  BY GroundworkStep, ReasonsStay, NoDeliveryAssumption, RolesAssumption
     DEF Groundwork, TypeInv, TypeOK, ExecutorTypeOK, Threads, Exists, Status
<1>1. /\ u \in Producers => ProducerInStep(u)
      /\ u \in Admins => AdminInStep(u)
      /\ HandsFree(u)
  BY DEF Groundwork, Control
<1>2. ASSUME Holds(u, d)' PROVE CaredFor(d)'
  BY <1>2 DEF CaredFor
<1>3. ASSUME NEW v \in Processes \ {u}, Moves(v) PROVE Holds(u, d)'
  <2>1. Still(u)
    BY <1>0, <1>3, OthersStill
  <2> QED
    BY <2>1 DEF Still, Holds
<1>4. ASSUME ManageSubscriptions \/ UNCHANGED vars PROVE Holds(u, d)'
  BY <1>4 DEF ManageSubscriptions, vars, execVars, threadVars, Holds
<1>5. ASSUME u \in Threads, Stops(u) PROVE d \in dropped'
  <2>1. d \in Charge(u)
    BY <1>0, <1>5 DEF Holds, Charge
  <2> QED
    BY <1>5, <2>1, StopsAbandons DEF Abandon
<1>6. ASSUME u \in Producers, ProducerMoves(u) PROVE Holds(u, d)'
  <2>1. CASE ReadBack(u)
    <3>1. /\ d \in listed[u] /\ d[1] = Head(hooks[u])
      BY <1>0, <1>1, <1>6, <2>1 DEF ReadBack, At, Idle, Holds, ProducerInStep
    <3>2. d \in ids'[u]
      BY <1>0, <1>6, <2>1, <3>1 DEF ReadBack, PendingOf
    <3> QED
      BY <1>0, <1>6, <3>2 DEF Holds
  <2>2. CASE ~ReadBack(u)
    <3>1. stage[u] = "stored" \/ (stage[u] = "enqueue" /\ (ids[u] # {} \/ ~Idle(u)))
      BY <1>0, <1>1, <1>6 DEF Holds, Idle, ProducerInStep, EmitStages
    <3>2. ~Transact(u)
      BY <1>6, <3>1, TransactsIdle
    <3> QED
      BY <1>6, <2>2, <3>1, <3>2 DEF ProducerMoves, RecordEvent, FindSubscribers, NoSubscribers, Select, BulkCreate,
         FinishEmission, At
  <2> QED
    BY <2>1, <2>2
<1>7. ASSUME u \in Admins, AdminMoves(u) PROVE Holds(u, d)'
  <2>1. \/ stage[u] = "send" /\ pc[u] = "ready" /\ d \in listed[u]
        \/ stage[u] = "enqueue" /\ (ids[u] # {} \/ ~Idle(u))
        \/ stage[u] = "sent" /\ pc[u] = "fetched"
    BY <1>0, <1>1, <1>7 DEF Holds, Idle, AdminInStep, TestStages
  <2>2. SendTest(u)
    BY <1>7, <2>1 DEF AdminMoves, StartTest, TestEvent, TestDelivery, WipeDelivery, ReadToPutBack, PutBack,
       PutBackNext, At, Idle
  <2>3. PICK x \in Tests, s \in Subs : listed[u] = {<<x, s>>}
    BY <1>1, <1>7, <2>2 DEF SendTest, At, AdminInStep, TestStages
  <2>4. Fetch(u, d)
    BY <1>0, <2>1, <2>2, <2>3 DEF SendTest, At, FetchMissing
  <2> QED
    BY <1>0, <2>4 DEF Fetch, Holds
<1>8. ASSUME u \in Threads, NEW e \in Deliveries, Enqueue(u, e) PROVE CaredFor(d)'
  <2>1. d \in ids[u] /\ pc[u] = "ready"
    BY <1>8 DEF Enqueue, At, Idle, Holds
  <2>2. CASE d # e
    <3>1. d \in ids'[u]
      BY <1>0, <1>8, <2>1, <2>2 DEF Enqueue
    <3> QED
      BY <1>2, <1>8, <3>1 DEF Holds
  <2>3. CASE d = e
    <3>1. CASE Backend = "outbox"
      BY <1>0, <3>1 DEF CaredFor, Backend
    <3>2. CASE Backend = "celery"
      <4>1. tasks'[d] > 0
        BY <1>0, <1>8, <2>3, <3>2 DEF Enqueue, Dispatch
      <4> QED
        BY <4>1 DEF CaredFor
    <3>3. CASE Backend = "inline"
      <4>1. Fetch(u, d)
        BY <1>0, <1>8, <2>3, <3>3 DEF Enqueue, Dispatch, FetchMissing
      <4>2. Holds(u, d)'
        BY <1>0, <4>1 DEF Fetch, Holds
      <4> QED
        BY <1>2, <4>2
    <3> QED
      BY <1>8, <3>1, <3>2, <3>3 DEF Enqueue, Dispatch
  <2> QED
    BY <2>2, <2>3
<1>9. ASSUME u \in Runners, RunnerMoves(u) PROVE d \in dropped'
  BY <1>0, <1>9 DEF Holds, RunnerMoves, TakeTask, Fetch, FetchMissing, RunnerRaised, CrashRunner
<1>10. ASSUME Executes(u) PROVE Holds(u, d)'
  <2>1. UNCHANGED threadVars
    BY <1>0, <1>10, ExecutesOn
  <2>2. ~(cur[u] = d /\ pc[u] = "fetched")
    <3>1. ASSUME cur[u] = d, MarkDelivering(u) PROVE row'[d].status = "delivering"
      BY <1>0, <3>1 DEF MarkDelivering
    <3> QED
      BY <1>0, <1>10, <3>1 DEF Executes, SaveMissing, Post, PersistSuccess, PersistFailure, PostRaises
  <2> QED
    BY <2>1, <2>2 DEF Holds, threadVars
<1> QED
  BY <1>2, <1>3, <1>4, <1>5, <1>6, <1>7, <1>8, <1>9, <1>10, NextMoves DEF Moves, CaredFor

LEMMA CareInit == Init => CareInv
<1> SUFFICES ASSUME Init PROVE CareInv
  OBVIOUS
<1>1. /\ \A u \in Processes : pc[u] = "ready"
      /\ \A d \in Deliveries : tasks[d] = 0 /\ row[d].status = "new"
  BY DEF Init, ExecutorInit, NewRow
<1> QED
  BY <1>1, ProcessesAssumption DEF CareInv, CeleryOnly

LEMMA CareStep == Groundwork /\ FreshInv /\ CareInv /\ [Next]_vars => CareInv'
<1> SUFFICES ASSUME Groundwork, FreshInv, CareInv, [Next]_vars PROVE CareInv'
  OBVIOUS
<1>1. CeleryOnly'
  BY CeleryOnlyStep DEF CareInv
<1>2. ASSUME NEW d \in Deliveries, row'[d].status = "pending" PROVE CaredFor(d)'
  <2>0. /\ TypeOK /\ UNCHANGED setting /\ Runners \subseteq Processes /\ Threads \subseteq Processes
        /\ Producers \subseteq Threads /\ Admins \subseteq Threads
        /\ ids = [t \in Threads |-> ids[t]] /\ stage = [t \in Threads |-> stage[t]]
    BY GroundworkStep, ReasonsStay, ProcessesAssumption DEF Groundwork, TypeInv, TypeOK, Threads
  <2>1. ASSUME NEW a \in Admins, PutBack(a, d) PROVE Holds(a, d)'
    BY <2>0, <2>1 DEF PutBack, Holds
  <2>2. CASE row'[d] = row[d]
    <3>1. CaredFor(d) /\ Exists(d)
      BY <1>2, <2>2 DEF CareInv, Exists, Status
    <3>2. ASSUME Backend = "outbox" PROVE CaredFor(d)'
      BY <2>0, <3>2 DEF CaredFor, Backend
    <3>3. ASSUME tasks[d] > 0 PROVE CaredFor(d)'
      BY <3>1, <3>3, TasksGoOn DEF CaredFor
    <3>4. ASSUME d \in dropped PROVE CaredFor(d)'
      BY <3>4, DroppedStayDropped DEF CaredFor
    <3>5. ASSUME Backend = "celery", d \in awaiting, ~\E a \in Admins : PutBack(a, d) PROVE CaredFor(d)'
      BY <2>0, <3>5, AwaitingGoesOn DEF CaredFor, Backend
    <3>6. ASSUME NEW a \in Admins, PutBack(a, d) PROVE CaredFor(d)'
      BY <2>0, <2>1, <3>6 DEF CaredFor
    <3> QED
      BY <1>2, <2>2, <3>1, <3>2, <3>3, <3>4, <3>5, <3>6, HoldsGoOn DEF CaredFor
  <2>3. CASE row'[d] # row[d]
    <3>1. ASSUME NEW t \in Threads, d \in listed[t],
                 (t \in Producers /\ BulkCreate(t)) \/ (t \in Admins /\ TestDelivery(t))
          PROVE  Holds(t, d)'
      BY <2>0, <3>1 DEF BulkCreate, TestDelivery, GoTo, Holds
    <3>2. ASSUME NEW r \in Runners, pc[r] = "answered" PROVE Backend' = "celery"
      BY <2>0, <3>2 DEF CareInv, CeleryOnly, Backend
    <3> QED
      BY <1>2, <2>0, <2>3, <2>1, <3>1, <3>2, PendingFrom DEF CaredFor
  <2> QED
    BY <2>2, <2>3
<1> QED
  BY <1>1, <1>2 DEF CareInv

\* Whoever holds a delivery answers for it.
LEMMA CareIsEnough == Groundwork /\ LossInv /\ CareInv => PendingIsCaredFor
<1> SUFFICES ASSUME Groundwork, LossInv, CareInv PROVE PendingIsCaredFor
  OBVIOUS
<1>1. ASSUME NEW d \in Deliveries, NEW u \in Processes, Holds(u, d)
      PROVE  (u \in Threads /\ d \in Charge(u)) \/ (u \in Runners /\ cur[u] = d)
  <2>1. u \in Threads \/ u \in Runners
    BY ProcessesAssumption
  <2> QED
    BY <1>1, <2>1, NoDeliveryAssumption, RolesAssumption DEF Holds, Charge
<1>2. ASSUME NEW d \in Deliveries, row[d].status = "pending"
      PROVE  \/ Backend = "outbox" \/ tasks[d] > 0 \/ d \in dropped
             \/ \E t \in Threads : d \in Charge(t)
             \/ \E r \in Runners : cur[r] = d
             \/ Backend = "celery" /\ d \in awaiting
  BY <1>1, <1>2 DEF CareInv, CaredFor
<1> QED
  BY <1>2 DEF PendingIsCaredFor, LossInv, Reasons

\* A pending delivery is never forgotten: somebody has it, or it was dropped for one of the
\* three reasons, or an attempt under Celery has put it back and nobody has since.
THEOREM PendingIsAlwaysCaredFor == Spec => []PendingIsCaredFor
<1> DEFINE IInv == Groundwork /\ FreshInv /\ LossInv /\ CareInv
<1>1. Init => IInv
  BY GroundworkInit, FreshInit, LossInit, CareInit
<1>2. IInv /\ [Next]_vars => IInv'
  BY GroundworkStep, FreshStep, LossStep, CareStep
<1>3. IInv => PendingIsCaredFor
  BY CareIsEnough
<1> QED
  BY <1>1, <1>2, <1>3, PTL DEF Spec

--------------------------------------------------------------------------------
(* How often a delivery is posted. *)

\* A process that may yet ask for a POST of the delivery, or make it.
Has(u, d) ==
    \/ u \in Threads /\ (d \in ids[u] \/ (stage[u] \in {"stored", "send"} /\ d \in listed[u]))
    \/ cur[u] = d /\ pc[u] \in {"fetched", "marked"}

Holders(d) == {u \in Processes : Has(u, d)}

\* A thread does not attempt what it has still to enqueue.
OnceHeld == \A t \in Threads : cur[t] \notin ids[t]

Made(d) == IF Used(d) THEN 1 ELSE 0

\* Every POST, message and holder of a delivery is accounted for: by its making, or by an
\* operator.
Balance(d) ==
    /\ IsFiniteSet(Holders(d))
    /\ Cardinality(Holders(d)) + posts[d] + tasks[d] <= asked[d] + Made(d)

PostsInv == OnceHeld /\ \A d \in Deliveries : Balance(d)

LEMMA OnceHeldStep == Groundwork /\ OnceHeld /\ [Next]_vars => OnceHeld'
<1> SUFFICES ASSUME Groundwork, OnceHeld, [Next]_vars, NEW t \in Threads PROVE cur'[t] \notin ids'[t]
  BY DEF OnceHeld
<1>0. /\ TypeOK /\ t \in Processes
      /\ pc = [q \in Processes |-> pc[q]] /\ cur = [q \in Processes |-> cur[q]]
      /\ ids = [u \in Threads |-> ids[u]] /\ stage = [u \in Threads |-> stage[u]]
      /\ NoDelivery \notin Deliveries /\ Threads \cap Runners = {} /\ (t \in Producers \/ t \in Admins)
      /\ ids'[t] \subseteq Deliveries
  BY GroundworkStep, ProcessesAssumption, RolesAssumption, NoDeliveryAssumption
     DEF Groundwork, TypeInv, TypeOK, ExecutorTypeOK, Threads
<1>1. /\ t \in Producers => ProducerInStep(t)
      /\ t \in Admins => AdminInStep(t)
      /\ HandsFree(t)'
  BY <1>0, GroundworkStep DEF Groundwork, Control
<1>2. ASSUME UNCHANGED <<cur[t], ids[t]>> PROVE cur'[t] \notin ids'[t]
  BY <1>2 DEF OnceHeld
<1>3. ASSUME pc'[t] \in {"ready", "raised"} \/ ids'[t] = {} PROVE cur'[t] \notin ids'[t]
  BY <1>0, <1>1, <1>3 DEF HandsFree
<1>4. ASSUME Stops(t) PROVE ids'[t] = {}
  BY <1>0, <1>4, StopsAbandons, Abandoned
<1>5. ASSUME t \in Producers, ProducerMoves(t)
      PROVE  UNCHANGED <<cur[t], ids[t]>> \/ pc'[t] \in {"ready", "raised"}
  BY <1>5 DEF ProducerMoves, Transact, RecordEvent, FindSubscribers, NoSubscribers, EndEmission,
     Select, BulkCreate, ReadBack, FinishEmission, At, Idle, execVars, threadVars
<1>6. ASSUME t \in Admins, AdminMoves(t)
      PROVE  UNCHANGED <<cur[t], ids[t]>> \/ pc'[t] \in {"ready", "raised"} \/ ids'[t] = {}
  <2>1. ASSUME SendTest(t) PROVE ids'[t] = {}
    BY <1>1, <1>6, <2>1 DEF SendTest, At, AdminInStep
  <2>2. ASSUME WipeDelivery(t) PROVE pc'[t] = "ready"
    BY <1>0, <2>2 DEF WipeDelivery, Return
  <2> QED
    BY <1>6, <2>1, <2>2 DEF AdminMoves, StartTest, TestEvent, TestDelivery, ReadToPutBack, PutBack,
       PutBackNext, At, Idle, execVars
<1>7. ASSUME NEW e \in Deliveries, Enqueue(t, e) PROVE cur'[t] \notin ids'[t]
  <2>1. pc[t] = "ready" /\ ids'[t] = ids[t] \ {e}
    BY <1>0, <1>7 DEF Enqueue, At, Idle
  <2>2. CASE UNCHANGED execVars
    BY <1>3, <2>1, <2>2 DEF execVars
  <2>3. ASSUME Fetch(t, e) PROVE cur'[t] = e
    BY <1>0, <2>3 DEF Fetch
  <2>4. ASSUME FetchMissing(t, e) PROVE pc'[t] = "raised"
    BY <1>0, <2>4 DEF FetchMissing, Raise
  <2> QED
    BY <1>3, <1>7, <2>1, <2>2, <2>3, <2>4 DEF Enqueue, Dispatch
<1>8. ASSUME Executes(t) PROVE UNCHANGED <<cur[t], ids[t]>> \/ pc'[t] \in {"ready", "raised"}
  BY <1>0, <1>8, ExecutesOn DEF threadVars
<1>9. ASSUME Moves(t) PROVE cur'[t] \notin ids'[t]
  BY <1>0, <1>2, <1>3, <1>4, <1>5, <1>6, <1>7, <1>8, <1>9 DEF Moves
<1>10. ASSUME NEW v \in Processes \ {t}, Moves(v) PROVE UNCHANGED <<cur[t], ids[t]>>
  BY <1>0, <1>10, OthersStill DEF Still
<1>11. ASSUME ManageSubscriptions \/ UNCHANGED vars PROVE UNCHANGED <<cur[t], ids[t]>>
  BY <1>11 DEF ManageSubscriptions, vars, execVars, threadVars
<1> QED
  BY <1>2, <1>9, <1>10, <1>11, NextMoves

\* What a process pays for what it does to a delivery.
Even(d) == UNCHANGED <<posts[d], tasks[d], asked[d]>>

Pays(u, d) ==
    \/ Even(d) /\ (Has(u, d)' => Has(u, d) \/ (~Used(d) /\ Used(d)'))
    \/ UNCHANGED <<posts[d], tasks[d]>> /\ asked'[d] = asked[d] + 1
    \/ /\ UNCHANGED <<posts[d], asked[d]>> /\ tasks'[d] = tasks[d] + 1
       /\ Has(u, d) /\ ~Has(u, d)'
    \/ UNCHANGED <<posts[d], asked[d]>> /\ tasks'[d] = tasks[d] - 1 /\ ~Has(u, d)
    \/ /\ UNCHANGED <<tasks[d], asked[d]>> /\ posts'[d] \in {posts[d], posts[d] + 1}
       /\ Has(u, d) /\ ~Has(u, d)'

LEMMA ProducersPay ==
    ASSUME Groundwork, FreshInv, [Next]_vars, NEW p \in Producers, ProducerMoves(p), NEW d \in Deliveries
    PROVE  Pays(p, d)
<1>0. /\ TypeOK /\ p \in Threads /\ p \in Processes /\ ProducerInStep(p)
      /\ pc = [q \in Processes |-> pc[q]] /\ cur = [q \in Processes |-> cur[q]]
      /\ ids = [u \in Threads |-> ids[u]] /\ stage = [u \in Threads |-> stage[u]]
      /\ listed = [u \in Threads |-> listed[u]]
  BY ProcessesAssumption DEF Groundwork, TypeInv, TypeOK, ExecutorTypeOK, Threads, Control
<1>1. Even(d) /\ UNCHANGED execVars
  BY DEF ProducerMoves, Transact, RecordEvent, FindSubscribers, NoSubscribers, EndEmission,
     Select, BulkCreate, ReadBack, FinishEmission, historyVars, Even
<1>2. CASE BulkCreate(p)
  <2>1. ASSUME d \in listed[p] PROVE ~Used(d) /\ Used(d)'
    <3>1. row'[d] = NewRow("pending")
      BY <1>2, <2>1 DEF BulkCreate, Insert
    <3> QED
      BY <1>2, <2>1, <3>1, InsertsFresh, <1>0 DEF Used, NewRow
  <2> QED
    BY <1>0, <1>1, <1>2, <2>1 DEF BulkCreate, GoTo, Pays, Has, execVars
<1>3. CASE ReadBack(p)
  <2>1. ASSUME d \in ids'[p] PROVE d \in listed[p] /\ stage[p] = "stored"
    <3>1. stage[p] = "stored" /\ d[1] = Head(hooks[p]) /\ row[d].status = "pending"
      BY <1>0, <1>3, <2>1 DEF ReadBack, At, PendingOf
    <3> QED
      BY <3>1 DEF FreshInv, OrderInv, EmissionInOrder, Used
  <2>2. stage'[p] = "enqueue"
    BY <1>0, <1>3 DEF ReadBack, GoTo
  <2> QED
    BY <1>0, <1>1, <2>1, <2>2 DEF Pays, Has, execVars
<1>4. CASE ~BulkCreate(p) /\ ~ReadBack(p)
  <2>1. UNCHANGED ids /\ stage'[p] \notin {"stored", "send"}
    <3>1. ASSUME Transact(p) PROVE UNCHANGED ids /\ stage'[p] \notin {"stored", "send"}
      BY <3>1, TransactsIdle DEF Transact, threadVars
    <3> QED
      BY <1>0, <1>4, <3>1 DEF ProducerMoves, RecordEvent, FindSubscribers, NoSubscribers, EndEmission,
         Select, FinishEmission, GoTo
  <2> QED
    BY <1>1, <2>1 DEF Pays, Has, execVars
<1> QED
  BY <1>2, <1>3, <1>4

LEMMA AdminsPay ==
    ASSUME Groundwork, FreshInv, [Next]_vars, NEW a \in Admins, AdminMoves(a), NEW d \in Deliveries
    PROVE  Pays(a, d)
<1>0. /\ TypeOK /\ a \in Threads /\ a \in Processes /\ AdminInStep(a)
      /\ pc = [q \in Processes |-> pc[q]] /\ cur = [q \in Processes |-> cur[q]]
      /\ ids = [u \in Threads |-> ids[u]] /\ stage = [u \in Threads |-> stage[u]]
      /\ listed = [u \in Threads |-> listed[u]]
      /\ asked \in [Deliveries -> Nat] /\ d # NoDelivery
  BY ProcessesAssumption, NoDeliveryAssumption
     DEF Groundwork, TypeInv, TypeOK, ExecutorTypeOK, Threads, Control
<1>1. ASSUME \/ \E x \in Tests, s \in Subs : StartTest(a, x, s)
             \/ TestEvent(a)
             \/ \E D \in SUBSET {e \in Deliveries : Exists(e)} : ReadToPutBack(a, D)
             \/ PutBackNext(a)
      PROVE  Pays(a, d)
  <2>1. /\ Even(d) /\ UNCHANGED execVars /\ UNCHANGED ids
        /\ stage'[a] \notin {"stored", "send"}
    BY <1>0, <1>1 DEF StartTest, TestEvent, ReadToPutBack, PutBackNext, historyVars, Even, GoTo
  <2> QED
    BY <2>1 DEF Pays, Has, execVars
<1>2. ASSUME TestDelivery(a) PROVE Pays(a, d)
  <2>1. ASSUME d \in listed[a] PROVE ~Used(d) /\ Used(d)'
    <3>1. row'[d] = NewRow("pending")
      BY <1>2, <2>1 DEF TestDelivery, Insert
    <3> QED
      BY <1>0, <1>2, <2>1, <3>1, InsertsFresh DEF Used, NewRow
  <2> QED
    BY <1>0, <1>2, <2>1 DEF TestDelivery, GoTo, Pays, Has, Even, execVars, historyVars
<1>3. ASSUME SendTest(a) PROVE Pays(a, d)
  <2>1. Even(d) /\ UNCHANGED ids /\ stage'[a] = "sent" /\ stage[a] = "send"
    BY <1>0, <1>3 DEF SendTest, At, Fetch, FetchMissing, historyVars, Even, GoTo
  <2>2. ASSUME cur'[a] = d PROVE d \in listed[a]
    BY <1>0, <1>3, <2>2 DEF SendTest, Fetch, FetchMissing, Raise, Forget
  <2> QED
    BY <1>0, <2>1, <2>2 DEF Pays, Has
<1>4. ASSUME WipeDelivery(a) PROVE Pays(a, d)
  <2>1. Even(d) /\ UNCHANGED ids /\ stage'[a] = "wiped" /\ pc'[a] = "ready"
    BY <1>0, <1>4 DEF WipeDelivery, historyVars, Even, GoTo, Return
  <2> QED
    BY <2>1 DEF Pays, Has
<1>5. ASSUME NEW e \in Deliveries, PutBack(a, e) PROVE Pays(a, d)
  <2>1. /\ UNCHANGED <<posts[d], tasks[d]>> /\ UNCHANGED execVars
        /\ ids'[a] = {e} /\ stage'[a] = "enqueue"
    BY <1>0, <1>5 DEF PutBack, historyVars, GoTo
  <2>2. CASE d = e
    BY <1>0, <1>5, <2>1, <2>2 DEF PutBack, Pays
  <2>3. CASE d # e
    BY <1>0, <1>5, <2>1, <2>3 DEF PutBack, Pays, Even, Has, execVars
  <2> QED
    BY <2>2, <2>3
<1> QED
  BY <1>1, <1>2, <1>3, <1>4, <1>5 DEF AdminMoves

LEMMA OthersPay ==
    ASSUME Groundwork, OnceHeld, NEW u \in Processes, NEW d \in Deliveries,
           \/ u \in Threads /\ (Stops(u) \/ \E e \in Deliveries : Enqueue(u, e))
           \/ u \in Runners /\ RunnerMoves(u)
           \/ Executes(u)
    PROVE  Pays(u, d)
<1>0. /\ TypeOK
      /\ pc = [q \in Processes |-> pc[q]] /\ cur = [q \in Processes |-> cur[q]]
      /\ ids = [t \in Threads |-> ids[t]] /\ stage = [t \in Threads |-> stage[t]]
      /\ posts \in [Deliveries -> Nat] /\ tasks \in [Deliveries -> Nat]
      /\ d # NoDelivery /\ Threads \cap Runners = {}
      /\ u \in Threads /\ pc[u] # "ready" => stage[u] \notin {"stored", "send"}
      /\ u \in Threads /\ stage[u] = "enqueue" => stage[u] \notin {"stored", "send"}
      /\ HandsFree(u)
  BY NoDeliveryAssumption, RolesAssumption
     DEF Groundwork, TypeInv, TypeOK, ExecutorTypeOK, Threads, Control, ProducerInStep, AdminInStep
<1>1. ASSUME u \in Threads, Stops(u) PROVE Pays(u, d)
  <2>1. Even(d)
    BY <1>1, StopsAbandons DEF Even, historyVars
  <2>2. ~Has(u, d)'
    BY <1>0, <1>1, StopsAbandons, Abandoned DEF Has
  <2> QED
    BY <2>1, <2>2 DEF Pays
<1>2. ASSUME u \in Threads, NEW e \in Deliveries, Enqueue(u, e) PROVE Pays(u, d)
  <2>1. /\ pc[u] = "ready" /\ stage[u] = "enqueue" /\ e \in ids[u] /\ ids'[u] = ids[u] \ {e}
        /\ UNCHANGED <<stage, listed, asked>> /\ UNCHANGED posts
    BY <1>0, <1>2 DEF Enqueue, At, Idle, Dispatch, Fetch, FetchMissing, historyVars
  <2>2. ASSUME d # e PROVE cur'[u] = d => cur[u] = d
    BY <1>0, <1>2, <2>2 DEF Enqueue, Dispatch, Fetch, FetchMissing, Raise, Forget, execVars
  <2>3. CASE d # e
    <3>1. UNCHANGED tasks[d]
      BY <1>0, <1>2, <2>3 DEF Enqueue, Dispatch
    <3>2. Has(u, d)' => Has(u, d)
      BY <1>0, <2>1, <2>2, <2>3 DEF Has, HandsFree
    <3> QED
      BY <2>1, <3>1, <3>2 DEF Pays, Even
  <2>4. CASE d = e
    <3>1. Has(u, d)
      BY <1>2, <2>1, <2>4 DEF Has
    <3>2. CASE UNCHANGED tasks
      BY <2>1, <3>1, <3>2 DEF Pays, Even
    <3>3. CASE UNCHANGED execVars /\ tasks' = [tasks EXCEPT ![d] = @ + 1]
      <4>1. ~Has(u, d)'
        BY <1>0, <2>1, <2>4, <3>3 DEF Has, execVars
      <4> QED
        BY <1>0, <2>1, <3>1, <3>3, <4>1 DEF Pays
    <3> QED
      BY <1>2, <2>4, <3>2, <3>3 DEF Enqueue, Dispatch
  <2> QED
    BY <2>3, <2>4
<1>3. ASSUME u \in Runners, NEW e \in Deliveries, TakeTask(u, e) PROVE Pays(u, d)
  <2>1. /\ UNCHANGED asked /\ UNCHANGED posts /\ ~Has(u, d)
    BY <1>0, <1>3 DEF TakeTask, Fetch, FetchMissing, historyVars, Has, HandsFree
  <2>2. CASE d = e
    BY <1>0, <1>3, <2>1, <2>2 DEF TakeTask, Pays
  <2>3. CASE d # e
    <3>1. ~Has(u, d)' /\ UNCHANGED tasks[d]
      BY <1>0, <1>3, <2>3 DEF TakeTask, Fetch, FetchMissing, Raise, Forget, Has
    <3> QED
      BY <2>1, <3>1 DEF Pays, Even
  <2> QED
    BY <2>2, <2>3
<1>4. ASSUME u \in Runners, RunnerRaised(u) \/ CrashRunner(u) PROVE Pays(u, d)
  BY <1>0, <1>4 DEF RunnerRaised, CrashRunner, Return, historyVars, Pays, Even, Has
<1>5. ASSUME Executes(u) PROVE Pays(u, d)
  <2>0. UNCHANGED <<stage, listed, ids, tasks, asked>> /\ pc[u] \notin {"ready", "raised"}
    BY <1>0, <1>5, ExecutesOn DEF threadVars
  <2>1. ASSUME Post(u) \/ PostRaises(u) PROVE Pays(u, d)
    <3>1. CASE d = cur[u]
      <4>1. Has(u, d)
        BY <2>1, <3>1 DEF Has, Post, PostRaises
      <4>2. u \in Threads => d \notin ids[u]
        BY <3>1 DEF OnceHeld
      <4>3. pc'[u] \in {"answered", "raised"}
        BY <1>0, <2>1 DEF Post, PostRaises, Raise
      <4>4. ~Has(u, d)'
        BY <1>0, <2>0, <4>2, <4>3 DEF Has
      <4>5. posts'[d] \in {posts[d], posts[d] + 1}
        BY <1>0, <2>1, <3>1 DEF Post, PostRaises
      <4> QED
        BY <2>0, <4>1, <4>4, <4>5 DEF Pays
    <3>2. CASE d # cur[u]
      <4>1. UNCHANGED posts[d]
        BY <1>0, <2>1, <3>2 DEF Post, PostRaises
      <4>2. cur'[u] # d
        BY <1>0, <1>5, <3>2, ExecutesOn
      <4> QED
        BY <2>0, <4>1, <4>2 DEF Pays, Even, Has
    <3> QED
      BY <3>1, <3>2
  <2>2. ASSUME ~Post(u), ~PostRaises(u) PROVE Pays(u, d)
    <3>1. UNCHANGED posts
      BY <1>5, <2>2 DEF Executes, MarkDelivering, SaveMissing, PersistSuccess, PersistFailure, historyVars
    <3>2. pc'[u] \in {"fetched", "marked"} => pc[u] = "fetched" /\ UNCHANGED cur
      BY <1>0, <1>5, <2>2 DEF Executes, MarkDelivering, SaveMissing, PersistSuccess, PersistFailure, Return, Raise
    <3> QED
      BY <2>0, <3>1, <3>2 DEF Pays, Even, Has
  <2> QED
    BY <2>1, <2>2
<1> QED
  BY <1>1, <1>2, <1>3, <1>4, <1>5 DEF RunnerMoves

\* One process more, one process less.
LEMMA CountOf ==
    ASSUME NEW S, NEW T, NEW u, IsFiniteSet(S), S \ {u} = T \ {u}
    PROVE  /\ IsFiniteSet(T) /\ Cardinality(T) \in Nat /\ Cardinality(S) \in Nat
           /\ Cardinality(T) <= Cardinality(S) + 1
           /\ (u \in T => u \in S) => Cardinality(T) <= Cardinality(S)
           /\ u \in S /\ u \notin T => Cardinality(T) + 1 = Cardinality(S)
<1>1. IsFiniteSet(S \ {u}) /\ Cardinality(S \ {u}) = (IF u \in S THEN Cardinality(S) - 1 ELSE Cardinality(S))
  BY FS_RemoveElement
<1>2. CASE u \in T
  <2>1. T = (S \ {u}) \cup {u}
    BY <1>2
  <2>2. IsFiniteSet(T) /\ Cardinality(T) = Cardinality(S \ {u}) + 1
    BY <1>1, <2>1, FS_AddElement
  <2> QED
    BY <1>1, <1>2, <2>2, FS_CardinalityType
<1>3. CASE u \notin T
  <2>1. T = S \ {u}
    BY <1>3
  <2> QED
    BY <1>1, <1>3, <2>1, FS_CardinalityType
<1> QED
  BY <1>2, <1>3

LEMMA BalanceStep ==
    ASSUME Groundwork, FreshInv, OnceHeld, [Next]_vars, NEW d \in Deliveries, Balance(d)
    PROVE  Balance(d)'
<1>0. /\ TypeOK
      /\ posts[d] \in Nat /\ tasks[d] \in Nat /\ asked[d] \in Nat
      /\ posts'[d] \in Nat /\ tasks'[d] \in Nat /\ asked'[d] \in Nat
      /\ Used(d) => Used(d)'
  BY GroundworkStep, RowsGoOn DEF Groundwork, TypeInv, TypeOK, ExecutorTypeOK, RowGoesOn
<1> DEFINE S == Holders(d)
           T == Holders(d)'
           M == Made(d)
           N == Made(d)'
<1>1. M \in {0, 1} /\ N \in {0, 1} /\ M <= N /\ (~Used(d) /\ Used(d)' => N = M + 1)
  BY <1>0 DEF Made
<1>2. IsFiniteSet(S) /\ Cardinality(S) + posts[d] + tasks[d] <= asked[d] + M
  BY DEF Balance
<1>3. ASSUME NEW u \in Processes, Moves(u) PROVE Balance(d)'
  <2>1. Pays(u, d)
    BY <1>3, ProducersPay, AdminsPay, OthersPay DEF Moves
  <2>2. S \ {u} = T \ {u}
    <3>1. ASSUME NEW v \in Processes \ {u} PROVE Has(v, d)' <=> Has(v, d)
      BY <1>0, <1>3, OthersStill DEF Still, Has
    <3> QED
      BY <3>1 DEF Holders
  <2>3. (u \in S <=> Has(u, d)) /\ (u \in T <=> Has(u, d)')
    BY DEF Holders
  <2> HIDE DEF S, T, M, N
  <2>4. /\ IsFiniteSet(T) /\ Cardinality(T) \in Nat /\ Cardinality(S) \in Nat
        /\ Cardinality(T) <= Cardinality(S) + 1
        /\ (u \in T => u \in S) => Cardinality(T) <= Cardinality(S)
        /\ u \in S /\ u \notin T => Cardinality(T) + 1 = Cardinality(S)
    BY <1>2, <2>2, CountOf
  <2>5. Cardinality(T) + posts'[d] + tasks'[d] <= asked'[d] + N
    BY <1>0, <1>1, <1>2, <2>1, <2>3, <2>4 DEF Pays, Even
  <2> QED
    BY <2>4, <2>5 DEF Balance, T, N
<1>4. ASSUME ManageSubscriptions \/ UNCHANGED vars PROVE Balance(d)'
  <2>1. T = S /\ posts' = posts /\ tasks' = tasks /\ asked' = asked
    BY <1>4 DEF ManageSubscriptions, vars, execVars, threadVars, historyVars, Holders, Has
  <2>2. Cardinality(S) \in Nat
    BY <1>2, FS_CardinalityType
  <2> HIDE DEF S, T, M, N
  <2>3. Cardinality(T) + posts'[d] + tasks'[d] <= asked'[d] + N
    BY <1>0, <1>1, <1>2, <2>1, <2>2
  <2> QED
    BY <1>2, <2>1, <2>3 DEF Balance, T, N
<1> QED
  BY <1>3, <1>4, NextMoves

LEMMA PostsInit == Init => PostsInv
<1> SUFFICES ASSUME Init PROVE PostsInv
  OBVIOUS
<1>1. /\ \A u \in Processes : pc[u] = "ready"
      /\ \A t \in Threads : ids[t] = {} /\ listed[t] = {}
      /\ \A d \in Deliveries : posts[d] = 0 /\ tasks[d] = 0 /\ asked[d] = 0 /\ row[d].status = "new"
  BY DEF Init, ExecutorInit, NewRow
<1>2. ASSUME NEW d \in Deliveries PROVE Balance(d)
  <2>1. Holders(d) = {}
    BY <1>1 DEF Holders, Has
  <2>2. IsFiniteSet(Holders(d)) /\ Cardinality(Holders(d)) = 0
    BY <2>1, FS_EmptySet
  <2> QED
    BY <1>1, <2>2 DEF Balance, Made, Used
<1> QED
  BY <1>1, <1>2 DEF PostsInv, OnceHeld

LEMMA PostsStep == Groundwork /\ FreshInv /\ PostsInv /\ [Next]_vars => PostsInv'
BY OnceHeldStep, BalanceStep DEF PostsInv

\* Nobody posts a delivery more often than it was made and put back, whatever the number of
\* producers, operators and workers and however their steps overlap.  Balance is the
\* tighter account: as long as nobody dispatches Celery's retries, none is posted.
THEOREM PostsAreAlwaysAskedFor == Spec => []PostsAreAskedFor
<1> DEFINE IInv == Groundwork /\ FreshInv /\ PostsInv
<1>1. Init => IInv
  BY GroundworkInit, FreshInit, PostsInit
<1>2. IInv /\ [Next]_vars => IInv'
  BY GroundworkStep, FreshStep, PostsStep
<1>3. IInv => PostsAreAskedFor
  <2> SUFFICES ASSUME IInv, NEW d \in Deliveries
               PROVE  posts[d] <= 1 + asked[d] + (IF Backend = "inline" THEN 0 ELSE retries[d])
    BY DEF PostsAreAskedFor
  <2>1. /\ posts[d] \in Nat /\ tasks[d] \in Nat /\ asked[d] \in Nat /\ retries[d] \in Nat
        /\ IsFiniteSet(Holders(d))
        /\ Cardinality(Holders(d)) + posts[d] + tasks[d] <= asked[d] + Made(d)
    BY DEF Groundwork, TypeInv, TypeOK, ExecutorTypeOK, PostsInv, Balance
  <2>2. Cardinality(Holders(d)) \in Nat /\ Made(d) \in {0, 1}
    BY <2>1, FS_CardinalityType DEF Made
  <2> QED
    BY <2>1, <2>2
<1> QED
  BY <1>1, <1>2, <1>3, PTL DEF Spec
================================================================================
