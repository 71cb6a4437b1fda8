----------------------------- MODULE PublishProofs -----------------------------
(***************************************************************************)
(* Theorems about the outbound half in one piece, for every number of      *)
(* producers, changes, subscriptions, requests, workers and faults.        *)
(***************************************************************************)
EXTENDS Publish, ExecutorProofs, SignalsProofs

USE NoSubAssumption, MaxRequestsAssumption

--------------------------------------------------------------------------------
(* The subscriptions by themselves: type correctness. *)

LEMMA SecretType == /\ requests \in 0..MaxRequests => requests \in 0..ClientSecret
                    /\ ClientSecret \in 0..ClientSecret /\ 0 \in 0..ClientSecret
BY DEF ClientSecret

LEMMA BlankType == ASSUME NEW state \in {"new", "stored", "deleted"} PROVE Blank(state) \in Subscription
BY SecretType DEF Blank, Subscription

LEMMA FreshType ==
    ASSUME NEW active \in BOOLEAN, NEW list \in Lists
    PROVE  Fresh(active, list) \in Subscription
BY SecretType DEF Fresh, Subscription

LEMMA MergeType ==
    ASSUME NEW record \in Subscription, NEW body \in Body, NEW fields \in SUBSET Columns
    PROVE  /\ Merge(record, body, fields) \in Subscription
           /\ Merge(record, body, fields).state = record.state
<1>1. ClientSecret \in 0..ClientSecret
  BY SecretType
<1> QED
  BY <1>1 DEF Merge, Subscription, Body, Columns

LEMMA SubscriptionsType ==
    SubscriptionsTypeOK /\ [SubscriptionsNext]_subVars => SubscriptionsTypeOK'
<1> SUFFICES ASSUME SubscriptionsTypeOK, [SubscriptionsNext]_subVars PROVE SubscriptionsTypeOK'
  OBVIOUS
<1> USE DEF SubscriptionsTypeOK
<1>1. ASSUME NEW s \in Subs, NEW active \in BOOLEAN, NEW list \in Lists, Create(s, active, list)
      PROVE  SubscriptionsTypeOK'
  BY <1>1, FreshType DEF Create, Write, Request
<1>2. ASSUME NEW s \in Subs, RotateSecret(s) PROVE SubscriptionsTypeOK'
  <2>1. requests' \in 0..MaxRequests /\ requests' \in 0..ClientSecret
    BY <1>2 DEF RotateSecret, Request, ClientSecret
  <2>2. \A record \in Subscription : [record EXCEPT !.secret = requests'] \in Subscription
    BY <2>1 DEF Subscription
  <2> QED
    BY <1>2, <2>1, <2>2 DEF RotateSecret
<1>3. ASSUME NEW s \in Subs, Destroy(s) PROVE SubscriptionsTypeOK'
  BY <1>3, BlankType DEF Destroy, Write, Request
<1>4. ASSUME NEW a \in Admins, NEW s \in Subs, ReadForPatch(a, s) PROVE SubscriptionsTypeOK'
  BY <1>4 DEF ReadForPatch, Request
<1>5. ASSUME NEW a \in Admins, NEW body \in Body, NEW fields \in SUBSET Columns,
             Patch(a, body, fields)
      PROVE  SubscriptionsTypeOK'
  <2>1. held[a].key \in Subs /\ held[a].copy \in Subscription
    BY <1>5 DEF Patch
  <2>2. Validated(fields) \in SUBSET Columns /\ fields \ {"secret"} \in SUBSET Columns
    BY DEF Validated
  <2>3. /\ Merge(held[a].copy, body, Validated(fields)) \in Subscription
        /\ Merge(told[held[a].key], body, fields \ {"secret"}) \in Subscription
    BY <2>1, <2>2, MergeType
  <2>4. Nothing \in [key : Subs \cup {NoSub}, copy : Subscription]
    BY BlankType DEF Nothing
  <2> QED
    BY <1>5, <2>1, <2>3, <2>4 DEF Patch
<1>6. CASE OtherRequest
  BY <1>6 DEF OtherRequest, Request
<1>7. CASE UNCHANGED subVars
  BY <1>7 DEF subVars
<1> QED
  BY <1>1, <1>2, <1>3, <1>4, <1>5, <1>6, <1>7 DEF SubscriptionsNext

--------------------------------------------------------------------------------
(* Their inductive invariant: what a PATCH holds is a row that existed. *)

HoldsARow == \A a \in Admins : held[a].key # NoSub => held[a].copy.state = "stored"

PatchInv == SubscriptionsTypeOK /\ HoldsARow /\ OnlyStalePatchClobbers

LEMMA PatchInit == SubscriptionsInit => PatchInv
<1> SUFFICES ASSUME SubscriptionsInit PROVE PatchInv
  OBVIOUS
<1>1. {Blank("new")} \cup {Fresh(TRUE, list) : list \in Lists} \subseteq Subscription
  BY BlankType, FreshType
<1>2. Nothing \in [key : Subs \cup {NoSub}, copy : Subscription] /\ Nothing.key = NoSub
  BY BlankType DEF Nothing
<1>3. sub \in [Subs -> Subscription] /\ told = sub
  BY <1>1 DEF SubscriptionsInit
<1>4. SubscriptionsTypeOK
  BY <1>2, <1>3 DEF SubscriptionsInit, SubscriptionsTypeOK
<1>5. HoldsARow /\ OnlyStalePatchClobbers
  BY <1>2, <1>3 DEF SubscriptionsInit, HoldsARow, OnlyStalePatchClobbers
<1> QED
  BY <1>4, <1>5 DEF PatchInv

LEMMA PatchStep == PatchInv /\ [SubscriptionsNext]_subVars => PatchInv'
<1> SUFFICES ASSUME PatchInv, [SubscriptionsNext]_subVars
             PROVE  HoldsARow' /\ OnlyStalePatchClobbers'
  BY SubscriptionsType DEF PatchInv
<1> USE DEF PatchInv, SubscriptionsTypeOK, HoldsARow, OnlyStalePatchClobbers
<1>1. ASSUME NEW s \in Subs, NEW record, Write(s, record), UNCHANGED <<held, clobbered>>
      PROVE  HoldsARow' /\ OnlyStalePatchClobbers'
  BY <1>1 DEF Write
<1>2. ASSUME NEW s \in Subs, RotateSecret(s) PROVE HoldsARow' /\ OnlyStalePatchClobbers'
  BY <1>2 DEF RotateSecret
<1>3. ASSUME NEW a \in Admins, NEW s \in Subs, ReadForPatch(a, s)
      PROVE  HoldsARow' /\ OnlyStalePatchClobbers'
  BY <1>3 DEF ReadForPatch, Stored
<1>4. ASSUME NEW a \in Admins, NEW body \in Body, NEW fields \in SUBSET Columns,
             Patch(a, body, fields)
      PROVE  HoldsARow' /\ OnlyStalePatchClobbers'
  <2> DEFINE s == held[a].key
  <2>1. s \in Subs /\ held[a].copy.state = "stored"
    BY <1>4 DEF Patch
  <2>2. HoldsARow'
    BY <1>4 DEF Patch, Nothing
  <2>3. \A u \in Subs \ {s} : sub'[u] = sub[u] /\ told'[u] = told[u] /\ (u \in clobbered' <=> u \in clobbered)
    BY <1>4 DEF Patch
  <2>4. ASSUME s \notin clobbered' PROVE sub'[s] = told'[s]
    <3>1. s \notin clobbered /\ sub[s] = held[a].copy /\ told[s] = held[a].copy
      BY <1>4, <2>1, <2>4 DEF Patch
    <3>2. sub'[s] = Merge(held[a].copy, body, fields \ {"secret"})
      BY <1>4, <2>1 DEF Patch, Validated
    <3>3. told'[s] = Merge(told[s], body, fields \ {"secret"})
      BY <1>4, <2>1, <3>1 DEF Patch
    <3> QED
      BY <3>1, <3>2, <3>3
  <2> QED
    BY <2>2, <2>3, <2>4
<1>5. CASE OtherRequest
  BY <1>5 DEF OtherRequest
<1>6. CASE UNCHANGED subVars
  BY <1>6 DEF subVars
<1> QED
  BY <1>1, <1>2, <1>3, <1>4, <1>5, <1>6 DEF SubscriptionsNext, Create, Destroy

\* A PATCH that writes over no newer row changes the fields it was sent and no others,
\* although it saves them all, and the secret is not among them.
THEOREM PatchesAreFaithful == SubscriptionsSpec => []OnlyStalePatchClobbers
<1>1. PatchInv => OnlyStalePatchClobbers
  BY DEF PatchInv
<1> QED
  BY <1>1, PatchInit, PatchStep, PTL DEF SubscriptionsSpec

--------------------------------------------------------------------------------
(* The composition leaves the subscriptions to Subscriptions. *)

LEMMA ProducersLeaveSubs ==
    ASSUME NEW p \in Producers, Transact(p) \/ Emit(p) PROVE UNCHANGED subVars
BY DEF Transact, Emit, RecordEvent, FindSubscribers, NoSubscribers, EndEmission, Select, BulkCreate,
       ReadBack, FinishEmission, EmissionRaises

LEMMA RunnersLeaveSubs ==
    ASSUME NEW r \in Runners, Run(r) \/ CrashRunner(r) PROVE UNCHANGED subVars
BY DEF Run, TakeTask, Attempt, RunnerRaised, CrashRunner

LEMMA AdminsAskSubs ==
    ASSUME NEW a \in Admins, Test(a) \/ Requeue(a) PROVE OtherRequest \/ UNCHANGED subVars
<1>1. ASSUME Test(a) PROVE OtherRequest \/ UNCHANGED subVars
  BY <1>1 DEF Test, StartTest, TestEvent, TestDelivery, TestDeliveryRaises, SendTest, WipeDelivery, WipeEvent
<1>2. ASSUME Requeue(a) PROVE OtherRequest \/ UNCHANGED subVars
  BY <1>2 DEF Requeue, AskRetry, AskRequeue, ReadToPutBack, PutBack, PutBackRaises, PutBackNext
<1> QED
  BY <1>1, <1>2

LEMMA NextOfSubs == [Next]_vars => [SubscriptionsNext]_subVars
<1>1. ASSUME ManageSubscriptions PROVE SubscriptionsNext
  BY <1>1 DEF ManageSubscriptions, SubscriptionsNext
<1>2. ASSUME NEW p \in Processes, RequestRaises(p) PROVE UNCHANGED subVars
  BY <1>2 DEF RequestRaises
<1>3. ASSUME NEW t \in Threads,
             \/ \E d \in Deliveries : Enqueue(t, d)
             \/ EnqueueRaises(t) \/ ThreadRaised(t) \/ Attempt(t, FALSE) \/ CrashThread(t)
      PROVE  UNCHANGED subVars
  BY <1>3 DEF Enqueue, EnqueueRaises, ThreadRaised, Attempt, CrashThread
<1>4. ASSUME UNCHANGED vars PROVE UNCHANGED subVars
  BY <1>4 DEF vars
<1> QED
  BY <1>1, <1>2, <1>3, <1>4, ProducersLeaveSubs, RunnersLeaveSubs, AdminsAskSubs
     DEF Next, Rest, SubscriptionsNext

\* With emissions, tests and deliveries going on around it: a PATCH that writes over no
\* newer row changes the fields it was sent and no others.
THEOREM PatchesStayFaithful == Spec => []OnlyStalePatchClobbers
<1>1. Init => SubscriptionsInit
  BY DEF Init
<1> QED
  BY <1>1, NextOfSubs, PatchesAreFaithful, PTL DEF Spec, SubscriptionsSpec

--------------------------------------------------------------------------------
(* Events.  Signals says what a transaction and its hooks may do; what is left is where
   events come from: from the first hook of a producer, or from a test. *)

LEMMA NextOfSignals == [Next]_vars => (\E p \in Producers : SignalStep(p)) \/ UNCHANGED signalVars
<1> USE DEF SignalStep
<1>0. ASSUME NEW t \in Threads, Abandon(t)
      PROVE  (\E p \in Producers : SignalStep(p)) \/ UNCHANGED signalVars
  BY <1>0 DEF Abandon
<1>1. ASSUME NEW p \in Producers, Transact(p) \/ Emit(p)
      PROVE  (\E q \in Producers : SignalStep(q)) \/ UNCHANGED signalVars
  BY <1>0, <1>1 DEF Transact, Emit, RecordEvent, FindSubscribers, NoSubscribers, EndEmission, Select,
     BulkCreate, ReadBack, FinishEmission, EmissionRaises, Threads
<1>2. ASSUME NEW a \in Admins, Test(a) PROVE (\E p \in Producers : SignalStep(p)) \/ UNCHANGED signalVars
  BY <1>0, <1>2 DEF Test, StartTest, TestEvent, TestDelivery, TestDeliveryRaises, SendTest,
     WipeDelivery, WipeEvent, Threads
<1>3. ASSUME NEW a \in Admins, Requeue(a) PROVE (\E p \in Producers : SignalStep(p)) \/ UNCHANGED signalVars
  BY <1>0, <1>3 DEF Requeue, AskRetry, AskRequeue, ReadToPutBack, PutBack, PutBackRaises, PutBackNext, Threads
<1>4. ASSUME NEW t \in Threads,
             \/ \E d \in Deliveries : Enqueue(t, d)
             \/ EnqueueRaises(t) \/ ThreadRaised(t) \/ Attempt(t, FALSE) \/ CrashThread(t)
      PROVE  (\E p \in Producers : SignalStep(p)) \/ UNCHANGED signalVars
  BY <1>0, <1>4 DEF Enqueue, EnqueueRaises, ThreadRaised, Attempt, CrashThread
<1>5. ASSUME NEW r \in Runners, Run(r) \/ CrashRunner(r) PROVE UNCHANGED signalVars
  BY <1>5 DEF Run, TakeTask, Attempt, RunnerRaised, CrashRunner
<1>6. ASSUME \/ \E p \in Processes : RequestRaises(p)
             \/ ManageSubscriptions \/ Rest \/ UNCHANGED vars
      PROVE  UNCHANGED signalVars
  BY <1>6 DEF RequestRaises, ManageSubscriptions, Rest, vars
<1> QED
  BY <1>1, <1>2, <1>3, <1>4, <1>5, <1>6 DEF Next

LEMMA WhereEventsComeFrom ==
    [Next]_vars =>
        \/ events' \subseteq events
        \/ \E p \in Producers : RecordEvent(p)
        \/ \E a \in Admins : TestEvent(a)
<1>1. ASSUME NEW p \in Producers, Transact(p) \/ Emit(p) PROVE events' \subseteq events \/ RecordEvent(p)
  BY <1>1 DEF Transact, Emit, FindSubscribers, NoSubscribers, EndEmission, Select, BulkCreate, ReadBack,
     FinishEmission, EmissionRaises
<1>2. ASSUME NEW a \in Admins, Test(a) PROVE events' \subseteq events \/ TestEvent(a)
  BY <1>2 DEF Test, StartTest, TestDelivery, TestDeliveryRaises, SendTest, WipeDelivery, WipeEvent
<1>3. ASSUME NEW a \in Admins, Requeue(a) PROVE events' \subseteq events
  BY <1>3 DEF Requeue, AskRetry, AskRequeue, ReadToPutBack, PutBack, PutBackRaises, PutBackNext
<1>4. ASSUME NEW t \in Threads,
             \/ \E d \in Deliveries : Enqueue(t, d)
             \/ EnqueueRaises(t) \/ ThreadRaised(t) \/ Attempt(t, FALSE) \/ CrashThread(t)
      PROVE  events' \subseteq events
  BY <1>4 DEF Enqueue, EnqueueRaises, ThreadRaised, Attempt, CrashThread
<1>5. ASSUME NEW r \in Runners, Run(r) \/ CrashRunner(r) PROVE events' \subseteq events
  BY <1>5 DEF Run, TakeTask, Attempt, RunnerRaised, CrashRunner
<1>6. ASSUME \/ \E p \in Processes : RequestRaises(p)
             \/ ManageSubscriptions \/ Rest \/ UNCHANGED vars
      PROVE  events' \subseteq events
  BY <1>6 DEF RequestRaises, ManageSubscriptions, Rest, vars
<1> QED
  BY <1>1, <1>2, <1>3, <1>4, <1>5, <1>6 DEF Next

\* What a test announces is its own: the event of a change is none of its business.
TestPrepared ==
    /\ stage \in [Threads -> Stages]
    /\ listed = [t \in Threads |-> listed[t]]
    /\ \A a \in Admins : stage[a] = "test" => \A d \in listed[a] : d[1] \in Tests

\* Only StartTest takes a thread to "test", and nobody changes what another has listed.
LEMMA OthersKeepTests ==
    ASSUME TestPrepared, NEW t \in Threads, NEW label \in Stages \ {"test"}, GoTo(t, label),
           UNCHANGED listed \/ \E D : listed' = [listed EXCEPT ![t] = D]
    PROVE  TestPrepared'
BY DEF TestPrepared, GoTo, Threads

LEMMA AbandonKeepsTests == ASSUME TestPrepared, NEW t \in Threads, Abandon(t) PROVE TestPrepared'
<1>1. "idle" \in Stages \ {"test"}
  BY DEF Stages
<1>2. GoTo(t, "idle") /\ listed' = [listed EXCEPT ![t] = {}]
  BY DEF Abandon
<1> QED
  BY <1>1, <1>2, OthersKeepTests DEF TestPrepared

LEMMA TestPreparedStep == TestPrepared /\ [Next]_vars => TestPrepared'
<1> SUFFICES ASSUME TestPrepared, [Next]_vars PROVE TestPrepared'
  OBVIOUS
<1>0. {"idle", "recorded", "matched", "chosen", "stored", "enqueue", "announced", "send", "sent", "wiped",
       "requeue"} \subseteq Stages \ {"test"}
  BY DEF Stages
<1>1. ASSUME UNCHANGED <<stage, listed>> PROVE TestPrepared'
  BY <1>1 DEF TestPrepared
<1>2. ASSUME NEW p \in Producers, Transact(p) \/ Emit(p) PROVE TestPrepared'
  <2>1. ASSUME EndEmission(p) PROVE TestPrepared'
    BY <1>0, <2>1, OthersKeepTests DEF EndEmission, Threads
  <2>2. ASSUME RecordEvent(p) \/ FindSubscribers(p) \/ BulkCreate(p) PROVE TestPrepared'
    BY <1>0, <2>2, OthersKeepTests DEF RecordEvent, FindSubscribers, BulkCreate, Threads
  <2>3. ASSUME Select(p) \/ ReadBack(p) PROVE TestPrepared'
    BY <1>0, <2>3, OthersKeepTests DEF Select, ReadBack, Threads
  <2>4. ASSUME EmissionRaises(p) PROVE TestPrepared'
    BY <2>4, AbandonKeepsTests DEF EmissionRaises, Threads
  <2>5. ASSUME Transact(p) PROVE TestPrepared'
    BY <1>1, <2>5 DEF Transact, threadVars
  <2> QED
    BY <1>2, <2>1, <2>2, <2>3, <2>4, <2>5 DEF Emit, NoSubscribers, FinishEmission
<1>3. ASSUME NEW a \in Admins, Test(a) PROVE TestPrepared'
  <2>1. ASSUME NEW x \in Tests, NEW s \in Subs, StartTest(a, x, s) PROVE TestPrepared'
    <3>1. /\ stage' = [stage EXCEPT ![a] = "test"]
          /\ listed' = [listed EXCEPT ![a] = {<<x, s>>}]
          /\ a \in Threads /\ "test" \in Stages
      BY <2>1 DEF StartTest, GoTo, Threads, Stages
    <3>2. \A d \in listed'[a] : d[1] \in Tests
      BY <3>1 DEF TestPrepared
    <3>3. \A b \in Admins \ {a} : stage'[b] = stage[b] /\ listed'[b] = listed[b]
      BY <3>1 DEF TestPrepared, Threads
    <3>4. stage' \in [Threads -> Stages] /\ listed' = [t \in Threads |-> listed'[t]]
      BY <3>1 DEF TestPrepared
    <3> QED
      BY <3>2, <3>3, <3>4 DEF TestPrepared
  <2>2. ASSUME TestEvent(a) \/ TestDelivery(a) \/ SendTest(a) \/ WipeDelivery(a) PROVE TestPrepared'
    BY <1>0, <2>2, OthersKeepTests DEF TestEvent, TestDelivery, SendTest, WipeDelivery, Threads
  <2>3. ASSUME TestDeliveryRaises(a) \/ WipeEvent(a) PROVE TestPrepared'
    BY <2>3, AbandonKeepsTests DEF TestDeliveryRaises, WipeEvent, Threads
  <2> QED
    BY <1>3, <2>1, <2>2, <2>3 DEF Test
<1>4. ASSUME NEW a \in Admins, Requeue(a) PROVE TestPrepared'
  <2>1. ASSUME NEW D, ReadToPutBack(a, D) PROVE TestPrepared'
    BY <1>0, <2>1, OthersKeepTests DEF ReadToPutBack, Threads
  <2>2. ASSUME NEW d \in Deliveries, PutBack(a, d) PROVE TestPrepared'
    BY <1>0, <2>2, OthersKeepTests DEF PutBack, Threads
  <2>3. ASSUME PutBackNext(a) PROVE TestPrepared'
    <3>1. (IF listed[a] = {} THEN "idle" ELSE "requeue") \in Stages \ {"test"}
      BY <1>0
    <3> QED
      BY <2>3, <3>1, OthersKeepTests DEF PutBackNext, Threads
  <2>4. ASSUME PutBackRaises(a) PROVE TestPrepared'
    BY <2>4, AbandonKeepsTests DEF PutBackRaises, Threads
  <2> QED
    BY <1>4, <2>1, <2>2, <2>3, <2>4 DEF Requeue, AskRetry, AskRequeue
<1>5. ASSUME NEW t \in Threads,
             \/ \E d \in Deliveries : Enqueue(t, d)
             \/ EnqueueRaises(t) \/ ThreadRaised(t) \/ Attempt(t, FALSE) \/ CrashThread(t)
      PROVE  TestPrepared'
  BY <1>1, <1>5, AbandonKeepsTests DEF Enqueue, EnqueueRaises, ThreadRaised, Attempt, CrashThread, threadVars
<1>6. ASSUME NEW r \in Runners, Run(r) \/ CrashRunner(r) PROVE TestPrepared'
  BY <1>1, <1>6 DEF Run, TakeTask, Attempt, RunnerRaised, CrashRunner, threadVars
<1>7. ASSUME \/ \E p \in Processes : RequestRaises(p)
             \/ ManageSubscriptions \/ Rest \/ UNCHANGED vars
      PROVE  TestPrepared'
  BY <1>1, <1>7 DEF RequestRaises, ManageSubscriptions, Rest, vars, threadVars
<1> QED
  BY <1>2, <1>3, <1>4, <1>5, <1>6, <1>7 DEF Next

--------------------------------------------------------------------------------

\* The first hook of a producer that emits.
LEMMA FirstHook ==
    ASSUME Ledger, NEW p \in Producers, tx[p] = "hooks"
    PROVE  Head(hooks[p]) \in Changes /\ Announces(p, Head(hooks[p]))
<1>1. hooks[p] \in Seq(Changes) /\ hooks[p] # <<>>
  BY DEF Ledger, SignalsTypeOK, HooksLeft
<1>2. Len(hooks[p]) \in Nat \ {0}
  BY <1>1, EmptySeq
<1>3. Head(hooks[p]) = hooks[p][1] /\ 1 \in 1..Len(hooks[p])
  BY <1>1, <1>2
<1> QED
  BY <1>1, <1>3 DEF Announces

EventsInv == Ledger /\ TestPrepared /\ EventsAreTrue

LEMMA EventsInit == Init => EventsInv
<1> SUFFICES ASSUME Init PROVE EventsInv
  OBVIOUS
<1>1. Ledger
  BY LedgerInit DEF Init
<1>2. TestPrepared
  BY DEF Init, TestPrepared, Stages, Threads
<1>3. EventsAreTrue
  BY DEF Init, EventsAreTrue
<1> QED
  BY <1>1, <1>2, <1>3 DEF EventsInv

LEMMA EventsStep == EventsInv /\ [Next]_vars => EventsInv'
<1> SUFFICES ASSUME EventsInv, [Next]_vars PROVE EventsInv'
  OBVIOUS
<1>1. Ledger' /\ Kept
  BY NextOfSignals, LedgerStep DEF EventsInv
<1>2. TestPrepared'
  BY TestPreparedStep DEF EventsInv
<1>3. durable \subseteq Changes
  BY DEF EventsInv, Ledger, SignalsTypeOK
<1>4. ASSUME NEW c \in Changes, c \in events' PROVE c \in durable /\ Newsworthy(c)
  <2>1. CASE events' \subseteq events
    BY <1>4, <2>1 DEF EventsInv, EventsAreTrue
  <2>2. ASSUME NEW p \in Producers, RecordEvent(p) PROVE c \in durable /\ Newsworthy(c)
    <3>1. tx[p] = "hooks" /\ events' = events \cup {Head(hooks[p])}
      BY <2>2 DEF RecordEvent
    <3>2. Head(hooks[p]) \in Changes /\ Announces(p, Head(hooks[p]))
      BY <3>1, FirstHook DEF EventsInv
    <3>3. Head(hooks[p]) \in durable /\ Newsworthy(Head(hooks[p]))
      BY <3>1, <3>2 DEF EventsInv, Ledger, HooksAreTrue
    <3> QED
      BY <1>4, <3>1, <3>3 DEF EventsInv, EventsAreTrue
  <2>3. ASSUME NEW a \in Admins, TestEvent(a) PROVE c \in durable /\ Newsworthy(c)
    <3>1. stage[a] = "test" /\ events' = events \cup {d[1] : d \in listed[a]}
      BY <2>3 DEF TestEvent, At
    <3>2. \A d \in listed[a] : d[1] # c
      BY <3>1, OriginsAssumption DEF EventsInv, TestPrepared
    <3> QED
      BY <1>4, <3>1, <3>2 DEF EventsInv, EventsAreTrue
  <2> QED
    BY <2>1, <2>2, <2>3, WhereEventsComeFrom
<1>5. EventsAreTrue'
  <2>1. ASSUME NEW c \in Changes, c \in events' PROVE c \in durable' /\ Newsworthy(c)'
    <3>1. c \in durable /\ Newsworthy(c)
      BY <1>4, <2>1
    <3>2. c \in durable' /\ change'[c] = change[c]
      BY <1>1, <3>1 DEF Kept
    <3> QED
      BY <3>1, <3>2 DEF Newsworthy
  <2> QED
    BY <2>1 DEF EventsAreTrue
<1> QED
  BY <1>1, <1>2, <1>5 DEF EventsInv

\* No event is about a change that was rolled back, wholly or to a savepoint, or that its
\* handler should have ignored, however transactions, emissions and tests overlap.
THEOREM EventsAreAlwaysTrue == Spec => []EventsAreTrue
<1>1. EventsInv => EventsAreTrue
  BY DEF EventsInv
<1> QED
  BY <1>1, EventsInit, EventsStep, PTL DEF Spec

--------------------------------------------------------------------------------
(* Type correctness.  The executor's part first. *)

LEMMA ForgetsType ==
    ASSUME ExecutorTypeOK, NEW p \in Processes, Return(p), UNCHANGED historyVars,
           row' \in [Deliveries -> Row]
    PROVE  ExecutorTypeOK'
BY ReturnType DEF ExecutorTypeOK, historyVars

LEMMA AbandonExecutor ==
    ASSUME ExecutorTypeOK, NEW t \in Threads, Abandon(t), UNCHANGED <<row, historyVars>>
    PROVE  ExecutorTypeOK'
<1>1. t \in Processes /\ row' \in [Deliveries -> Row]
  BY ProcessesAssumption DEF ExecutorTypeOK
<1> QED
  BY <1>1, ForgetsType DEF Abandon

LEMMA AttemptType ==
    ASSUME ExecutorTypeOK, NEW p \in Processes, NEW allowRetry \in BOOLEAN, Attempt(p, allowRetry)
    PROVE  ExecutorTypeOK'
BY ExecutorSteps DEF Attempt

\* Rows that are made and unmade in bulk.
LEMMA NewRowsType ==
    ASSUME ExecutorTypeOK, UNCHANGED <<execVars, historyVars>>, NEW D,
           \/ Insert(D) \/ Cascade
           \/ \E d \in Deliveries :
                 row' = [row EXCEPT ![d] = [status |-> "pending", attempts |-> @.attempts, eta |-> 0]]
    PROVE  ExecutorTypeOK'
<1>1. row' \in [Deliveries -> Row]
  <2>1. NewRow("pending") \in Row /\ NewRow("deleted") \in Row
    BY NewRowType DEF Status
  <2>2. \A d \in Deliveries : [status |-> "pending", attempts |-> row[d].attempts, eta |-> 0] \in Row
    BY DEF ExecutorTypeOK, Row, Status
  <2> QED
    BY <2>1, <2>2 DEF Insert, Cascade, ExecutorTypeOK
<1> QED
  BY <1>1 DEF ExecutorTypeOK, execVars, historyVars

LEMMA ExecutorTypeStep == TypeOK /\ [Next]_vars => ExecutorTypeOK'
<1> SUFFICES ASSUME TypeOK, [Next]_vars PROVE ExecutorTypeOK'
  OBVIOUS
<1> ExecutorTypeOK /\ listed \in [Threads -> SUBSET Deliveries]
  BY DEF TypeOK
<1>0. ASSUME UNCHANGED <<row, execVars, historyVars>> PROVE ExecutorTypeOK'
  BY <1>0 DEF ExecutorTypeOK, execVars, historyVars
<1>1. ASSUME NEW p \in Processes, NEW d \in Deliveries, Fetch(p, d) \/ FetchMissing(p, d)
      PROVE  ExecutorTypeOK'
  BY <1>1, ExecutorSteps
<1>2. ASSUME NEW p \in Producers, Transact(p) \/ Emit(p) PROVE ExecutorTypeOK'
  <2>1. ASSUME BulkCreate(p) PROVE ExecutorTypeOK'
    BY <2>1, NewRowsType DEF BulkCreate
  <2>2. ASSUME EmissionRaises(p) PROVE ExecutorTypeOK'
    BY <2>2, AbandonExecutor DEF EmissionRaises, Threads
  <2> QED
    BY <1>0, <1>2, <2>1, <2>2 DEF Transact, Emit, RecordEvent, FindSubscribers, NoSubscribers,
       EndEmission, Select, ReadBack, FinishEmission
<1>3. ASSUME NEW a \in Admins, Test(a) PROVE ExecutorTypeOK'
  <2>0. a \in Threads /\ a \in Processes
    BY ProcessesAssumption DEF Threads
  <2>1. ASSUME TestDelivery(a) PROVE ExecutorTypeOK'
    BY <2>1, NewRowsType DEF TestDelivery
  <2>2. ASSUME TestDeliveryRaises(a) \/ WipeEvent(a) PROVE ExecutorTypeOK'
    BY <2>0, <2>2, AbandonExecutor DEF TestDeliveryRaises, WipeEvent
  <2>3. ASSUME SendTest(a) PROVE ExecutorTypeOK'
    BY <1>0, <1>1, <2>0, <2>3 DEF SendTest
  <2>4. ASSUME WipeDelivery(a) PROVE ExecutorTypeOK'
    <3>1. NewRow("deleted") \in Row
      BY NewRowType
    <3>2. row' \in [Deliveries -> Row]
      BY <2>4, <3>1 DEF WipeDelivery, Erase, ExecutorTypeOK
    <3> QED
      BY <2>0, <2>4, <3>2, ForgetsType DEF WipeDelivery
  <2> QED
    BY <1>0, <1>3, <2>1, <2>2, <2>3, <2>4 DEF Test, StartTest, TestEvent
<1>4. ASSUME NEW a \in Admins, Requeue(a) PROVE ExecutorTypeOK'
  <2>1. ASSUME NEW d \in Deliveries, PutBack(a, d) PROVE ExecutorTypeOK'
    BY <2>1, NewRowsType DEF PutBack
  <2>2. ASSUME PutBackRaises(a) PROVE ExecutorTypeOK'
    BY <2>2, AbandonExecutor DEF PutBackRaises, Threads
  <2> QED
    BY <1>0, <1>4, <2>1, <2>2 DEF Requeue, AskRetry, AskRequeue, ReadToPutBack, PutBackNext
<1>5. ASSUME NEW t \in Threads,
             \/ \E d \in Deliveries : Enqueue(t, d)
             \/ EnqueueRaises(t) \/ ThreadRaised(t) \/ Attempt(t, FALSE) \/ CrashThread(t)
      PROVE  ExecutorTypeOK'
  <2>0. t \in Processes
    BY ProcessesAssumption
  <2>1. ASSUME NEW d \in Deliveries, Enqueue(t, d) PROVE ExecutorTypeOK'
    BY <1>0, <1>1, <2>0, <2>1 DEF Enqueue, Dispatch
  <2>2. ASSUME EnqueueRaises(t) \/ ThreadRaised(t) \/ CrashThread(t) PROVE ExecutorTypeOK'
    BY <2>2, AbandonExecutor DEF EnqueueRaises, ThreadRaised, CrashThread
  <2> QED
    BY <1>5, <2>0, <2>1, <2>2, AttemptType
<1>6. ASSUME NEW r \in Runners, Run(r) \/ CrashRunner(r) PROVE ExecutorTypeOK'
  <2>0. r \in Processes
    BY ProcessesAssumption
  <2>1. ASSUME NEW d \in Deliveries, TakeTask(r, d) PROVE ExecutorTypeOK'
    BY <1>1, <2>0, <2>1 DEF TakeTask
  <2>2. ASSUME RunnerRaised(r) \/ CrashRunner(r) PROVE ExecutorTypeOK'
    <3>1. row' \in [Deliveries -> Row]
      BY <2>2 DEF RunnerRaised, CrashRunner, ExecutorTypeOK
    <3> QED
      BY <2>0, <2>2, <3>1, ForgetsType DEF RunnerRaised, CrashRunner
  <2> QED
    BY <1>6, <2>0, <2>1, <2>2, AttemptType DEF Run
<1>7. ASSUME NEW p \in Processes, RequestRaises(p) PROVE ExecutorTypeOK'
  BY <1>7, ExecutorSteps DEF RequestRaises
<1>8. ASSUME ManageSubscriptions PROVE ExecutorTypeOK'
  BY <1>8, NewRowsType DEF ManageSubscriptions
<1>9. ASSUME Rest \/ UNCHANGED vars PROVE ExecutorTypeOK'
  BY <1>0, <1>9 DEF Rest, vars
<1> QED
  BY <1>2, <1>3, <1>4, <1>5, <1>6, <1>7, <1>8, <1>9 DEF Next

--------------------------------------------------------------------------------
(* The types of the rest. *)

\* A producer that is in emit_event runs the hooks of a committed transaction.
Emitting ==
    /\ stage \in [Threads -> Stages]
    /\ \A p \in Producers : stage[p] # "idle" => tx[p] = "hooks"

RetryTypes ==
    /\ awaiting \subseteq Deliveries
    /\ retries \in [Deliveries -> Nat]

ThreadTypes ==
    /\ stage \in [Threads -> Stages]
    /\ listed \in [Threads -> SUBSET Deliveries]
    /\ ids \in [Threads -> SUBSET Deliveries]
    /\ dropped \subseteq Deliveries
    /\ lost \subseteq Changes
    /\ RetryTypes

TableTypes ==
    /\ setting \in Settings
    /\ events \subseteq Origins
    /\ tasks \in [Deliveries -> Nat]
    /\ asked \in [Deliveries -> Nat]
    /\ steady \in [Changes -> SUBSET Subs]
    /\ ever \in [Changes -> SUBSET Subs]
    /\ faults \in 0..MaxFaults

LEMMA TypesOfParts ==
    TypeOK <=> /\ ExecutorTypeOK /\ SignalsTypeOK /\ SubscriptionsTypeOK
               /\ ThreadTypes /\ TableTypes
BY DEF TypeOK, ThreadTypes, RetryTypes, TableTypes

LEMMA AbandonType == ASSUME TypeOK, NEW t \in Threads, Abandon(t) PROVE ThreadTypes'
<1>1. Charge(t) \subseteq Deliveries
  <2>1. t \in Processes
    BY ProcessesAssumption
  <2>2. cur[t] \in Deliveries \cup {NoDelivery}
    BY <2>1 DEF TypeOK, ExecutorTypeOK
  <2> QED
    BY <2>2 DEF TypeOK, Charge
<1>2. lost' \subseteq Changes
  <2>1. CASE t \in Producers
    <3>1. Range(hooks[t]) \subseteq Changes
      BY <2>1 DEF TypeOK, SignalsTypeOK, Range
    <3> QED
      BY <2>1, <3>1 DEF Abandon, TypeOK
  <2>2. CASE t \notin Producers
    BY <2>2 DEF Abandon, TypeOK
  <2> QED
    BY <2>1, <2>2
<1>3. "idle" \in Stages
  BY DEF Stages
<1> QED
  BY <1>1, <1>2, <1>3 DEF Abandon, ThreadTypes, RetryTypes, retryVars, GoTo, TypeOK

LEMMA StayTypes == ThreadTypes /\ UNCHANGED <<threadVars, lossVars>> => ThreadTypes'
BY DEF ThreadTypes, RetryTypes, threadVars, lossVars, retryVars

LEMMA NotedTypes == ASSUME RetryTypes, NEW d \in Deliveries, NoteRetry(d) PROVE RetryTypes'
BY DEF RetryTypes, NoteRetry, retryVars

LEMMA AttemptTypes ==
    ASSUME TypeOK, NEW p \in Processes, NEW allowRetry \in BOOLEAN, Attempt(p, allowRetry)
    PROVE  ThreadTypes'
<1>0. ThreadTypes /\ RetryTypes
  BY TypesOfParts DEF ThreadTypes
<1>1. RetryTypes'
  <2>1. CASE UNCHANGED retryVars
    BY <1>0, <2>1 DEF RetryTypes, retryVars
  <2>2. CASE PersistFailure(p, allowRetry) /\ NoteRetry(cur[p])
    <3>1. cur[p] \in Deliveries
      BY <2>2 DEF PersistFailure, TypeOK, ExecutorTypeOK
    <3> QED
      BY <1>0, <2>2, <3>1, NotedTypes
  <2> QED
    BY <2>1, <2>2 DEF Attempt
<1> QED
  BY <1>0, <1>1 DEF Attempt, ThreadTypes, threadVars

LEMMA ThreadTypesStep ==
    TypeOK /\ Ledger /\ Emitting /\ [Next]_vars => ThreadTypes'
<1> SUFFICES ASSUME TypeOK, Ledger, Emitting, [Next]_vars PROVE ThreadTypes'
  OBVIOUS
<1>0. ThreadTypes /\ Threads \subseteq Processes
  BY TypesOfParts, ProcessesAssumption
<1>1. ASSUME NEW t \in Threads, NEW label \in Stages, GoTo(t, label), UNCHANGED <<lost, dropped>>, RetryTypes',
             UNCHANGED listed \/ \E D \in SUBSET Deliveries : listed' = [listed EXCEPT ![t] = D],
             UNCHANGED ids \/ \E D \in SUBSET Deliveries : ids' = [ids EXCEPT ![t] = D]
      PROVE  ThreadTypes'
  BY <1>0, <1>1 DEF ThreadTypes, GoTo
<1>2. /\ {"idle", "recorded", "matched", "chosen", "stored", "enqueue", "test", "announced", "send", "sent",
          "wiped", "requeue"} \subseteq Stages
      /\ UNCHANGED lossVars => UNCHANGED <<lost, dropped>> /\ RetryTypes'
  BY <1>0 DEF Stages, lossVars, retryVars, ThreadTypes, RetryTypes
<1>3. ASSUME NEW p \in Producers, Transact(p) \/ Emit(p) PROVE ThreadTypes'
  <2>0. p \in Threads
    BY DEF Threads
  <2>1. ASSUME EndEmission(p) PROVE ThreadTypes'
    BY <1>1, <1>2, <2>0, <2>1 DEF EndEmission
  <2>2. ASSUME RecordEvent(p) \/ FindSubscribers(p) \/ BulkCreate(p) PROVE ThreadTypes'
    BY <1>1, <1>2, <2>0, <2>2 DEF RecordEvent, FindSubscribers, BulkCreate
  <2>3. ASSUME Select(p) PROVE ThreadTypes'
    <3>1. Head(hooks[p]) \in Changes
      BY <2>3, FirstHook DEF Select, At, Emitting
    <3>2. Built(Head(hooks[p])) \in SUBSET Deliveries
      BY <3>1, DeliveriesAssumption DEF Built, Matching, Origins
    <3> QED
      BY <1>1, <1>2, <2>0, <2>3, <3>2 DEF Select
  <2>4. ASSUME ReadBack(p) PROVE ThreadTypes'
    <3>1. PendingOf(Head(hooks[p])) \in SUBSET Deliveries /\ {} \in SUBSET Deliveries
      BY DEF PendingOf
    <3> QED
      BY <1>1, <1>2, <2>0, <2>4, <3>1 DEF ReadBack
  <2>5. ASSUME EmissionRaises(p) PROVE ThreadTypes'
    BY <2>0, <2>5, AbandonType DEF EmissionRaises
  <2>6. ASSUME Transact(p) PROVE ThreadTypes'
    BY <1>0, <2>6, StayTypes DEF Transact
  <2> QED
    BY <1>3, <2>1, <2>2, <2>3, <2>4, <2>5, <2>6 DEF Emit, NoSubscribers, FinishEmission
<1>4. ASSUME NEW a \in Admins, Test(a) PROVE ThreadTypes'
  <2>0. a \in Threads
    BY DEF Threads
  <2>1. ASSUME NEW x \in Tests, NEW s \in Subs, StartTest(a, x, s) PROVE ThreadTypes'
    <3>1. {<<x, s>>} \in SUBSET Deliveries
      BY DeliveriesAssumption DEF Origins
    <3> QED
      BY <1>1, <1>2, <2>0, <2>1, <3>1 DEF StartTest
  <2>2. ASSUME TestEvent(a) \/ TestDelivery(a) \/ SendTest(a) \/ WipeDelivery(a) PROVE ThreadTypes'
    BY <1>1, <1>2, <2>0, <2>2 DEF TestEvent, TestDelivery, SendTest, WipeDelivery
  <2>3. ASSUME TestDeliveryRaises(a) \/ WipeEvent(a) PROVE ThreadTypes'
    BY <2>0, <2>3, AbandonType DEF TestDeliveryRaises, WipeEvent
  <2> QED
    BY <1>4, <2>1, <2>2, <2>3 DEF Test
<1>5. ASSUME NEW a \in Admins, Requeue(a) PROVE ThreadTypes'
  <2>0. a \in Threads
    BY DEF Threads
  <2>1. ASSUME NEW D \in SUBSET Deliveries, ReadToPutBack(a, D) PROVE ThreadTypes'
    BY <1>1, <1>2, <2>0, <2>1 DEF ReadToPutBack
  <2>2. ASSUME NEW d \in Deliveries, PutBack(a, d) PROVE ThreadTypes'
    <3>1. listed[a] \ {d} \in SUBSET Deliveries /\ {d} \in SUBSET Deliveries
      BY <1>0, <2>0 DEF ThreadTypes
    <3>2. RetryTypes'
      BY <1>0, <2>2 DEF PutBack, ThreadTypes, RetryTypes
    <3> QED
      BY <1>1, <1>2, <2>0, <2>2, <3>1, <3>2 DEF PutBack
  <2>3. ASSUME PutBackNext(a) PROVE ThreadTypes'
    BY <1>1, <1>2, <2>0, <2>3 DEF PutBackNext
  <2>4. ASSUME PutBackRaises(a) PROVE ThreadTypes'
    BY <2>0, <2>4, AbandonType DEF PutBackRaises
  <2>5. ASSUME AskRequeue(a) PROVE ThreadTypes'
    <3>1. PICK D \in SUBSET {d \in Deliveries : row[d].status = "dead_letter"} : ReadToPutBack(a, D)
      BY <2>5 DEF AskRequeue
    <3> QED
      BY <2>1, <3>1
  <2> QED
    BY <1>5, <2>1, <2>2, <2>3, <2>4, <2>5 DEF Requeue, AskRetry
<1>6. ASSUME NEW t \in Threads,
             \/ \E d \in Deliveries : Enqueue(t, d)
             \/ EnqueueRaises(t) \/ ThreadRaised(t) \/ Attempt(t, FALSE) \/ CrashThread(t)
      PROVE  ThreadTypes'
  <2>1. ASSUME NEW d \in Deliveries, Enqueue(t, d) PROVE ThreadTypes'
    BY <1>0, <1>2, <2>1 DEF Enqueue, ThreadTypes
  <2>2. ASSUME EnqueueRaises(t) \/ ThreadRaised(t) \/ CrashThread(t) PROVE ThreadTypes'
    BY <2>2, AbandonType DEF EnqueueRaises, ThreadRaised, CrashThread
  <2>3. ASSUME Attempt(t, FALSE) PROVE ThreadTypes'
    BY <1>0, <2>3, AttemptTypes
  <2> QED
    BY <1>6, <2>1, <2>2, <2>3
<1>7. ASSUME NEW r \in Runners, Run(r) \/ CrashRunner(r) PROVE ThreadTypes'
  <2>1. ASSUME CrashRunner(r) PROVE ThreadTypes'
    <3>1. cur[r] \in Deliveries \cup {NoDelivery}
      BY ProcessesAssumption DEF TypeOK, ExecutorTypeOK
    <3> QED
      BY <1>0, <2>1, <3>1 DEF CrashRunner, ThreadTypes, RetryTypes, retryVars, threadVars
  <2>2. ASSUME Attempt(r, TRUE) PROVE ThreadTypes'
    <3>1. r \in Processes
      BY ProcessesAssumption
    <3> QED
      BY <2>2, <3>1, AttemptTypes
  <2> QED
    BY <1>0, <1>7, <2>1, <2>2, StayTypes DEF Run, TakeTask, RunnerRaised
<1>8. ASSUME \/ \E p \in Processes : RequestRaises(p)
             \/ ManageSubscriptions \/ Rest \/ UNCHANGED vars
      PROVE  ThreadTypes'
  BY <1>0, <1>8, StayTypes DEF RequestRaises, ManageSubscriptions, Rest, vars
<1> QED
  BY <1>3, <1>4, <1>5, <1>6, <1>7, <1>8 DEF Next

LEMMA TableTypesStep ==
    TypeOK /\ Ledger /\ [Next]_vars => TableTypes'
<1> SUFFICES ASSUME TypeOK, Ledger, [Next]_vars PROVE TableTypes'
  OBVIOUS
<1>0. TableTypes
  BY TypesOfParts
<1>1. \A table, c : Matching(table, c) \subseteq Subs
  BY DEF Matching
<1>2. ASSUME UNCHANGED <<setting, tasks, asked, matchVars>>, events' \subseteq Origins,
             UNCHANGED faults \/ Fault
      PROVE  TableTypes'
  <2>1. faults' \in 0..MaxFaults
    BY <1>0, <1>2, MaxFaultsAssumption DEF TableTypes, Fault
  <2> QED
    BY <1>0, <1>2, <2>1 DEF TableTypes, matchVars
<1>3. events \subseteq Origins
  BY <1>0 DEF TableTypes
<1>4. ASSUME NEW p \in Producers, Transact(p) \/ Emit(p) PROVE TableTypes'
  <2>1. ASSUME RecordEvent(p) PROVE TableTypes'
    <3>1. Head(hooks[p]) \in Changes
      BY <2>1, FirstHook DEF RecordEvent
    <3> QED
      BY <1>0, <1>1, <2>1, <3>1 DEF RecordEvent, TableTypes, Origins
  <2> QED
    BY <1>2, <1>3, <1>4, <2>1 DEF Transact, Emit, FindSubscribers, NoSubscribers, EndEmission, Select,
       BulkCreate, ReadBack, FinishEmission, EmissionRaises
<1>5. ASSUME NEW a \in Admins, Test(a) PROVE TableTypes'
  <2>1. ASSUME TestEvent(a) PROVE TableTypes'
    <3>1. listed[a] \subseteq Origins \X Subs
      BY DeliveriesAssumption DEF TypeOK, Threads
    <3>2. events' \subseteq Origins
      BY <1>3, <2>1, <3>1 DEF TestEvent
    <3> QED
      BY <1>2, <2>1, <3>2 DEF TestEvent
  <2> QED
    BY <1>2, <1>3, <1>5, <2>1 DEF Test, StartTest, TestDelivery, TestDeliveryRaises, SendTest,
       WipeDelivery, WipeEvent
<1>6. ASSUME NEW a \in Admins, Requeue(a) PROVE TableTypes'
  <2>1. ASSUME NEW d \in Deliveries, PutBack(a, d) PROVE TableTypes'
    BY <1>0, <2>1 DEF PutBack, TableTypes, matchVars
  <2> QED
    BY <1>2, <1>3, <1>6, <2>1 DEF Requeue, AskRetry, AskRequeue, ReadToPutBack, PutBackRaises, PutBackNext
<1>7. ASSUME NEW t \in Threads,
             \/ \E d \in Deliveries : Enqueue(t, d)
             \/ EnqueueRaises(t) \/ ThreadRaised(t) \/ Attempt(t, FALSE) \/ CrashThread(t)
      PROVE  TableTypes'
  <2>1. ASSUME NEW d \in Deliveries, Enqueue(t, d) PROVE TableTypes'
    <3>1. tasks' \in [Deliveries -> Nat]
      BY <1>0, <2>1 DEF Enqueue, Dispatch, TableTypes
    <3> QED
      BY <1>0, <2>1, <3>1 DEF Enqueue, TableTypes, matchVars
  <2> QED
    BY <1>2, <1>3, <1>7, <2>1 DEF EnqueueRaises, ThreadRaised, Attempt, CrashThread
<1>8. ASSUME NEW r \in Runners, Run(r) \/ CrashRunner(r) PROVE TableTypes'
  <2>1. ASSUME NEW d \in Deliveries, TakeTask(r, d) PROVE TableTypes'
    <3>1. tasks' \in [Deliveries -> Nat]
      BY <1>0, <2>1 DEF TakeTask, TableTypes
    <3> QED
      BY <1>0, <2>1, <3>1 DEF TakeTask, TableTypes, matchVars
  <2> QED
    BY <1>2, <1>3, <1>8, <2>1 DEF Run, Attempt, RunnerRaised, CrashRunner
<1>9. ASSUME ManageSubscriptions PROVE TableTypes'
  <2>1. steady' \in [Changes -> SUBSET Subs] /\ ever' \in [Changes -> SUBSET Subs]
    BY <1>0, <1>1, <1>9 DEF ManageSubscriptions, Watch, TableTypes
  <2> QED
    BY <1>0, <1>9, <2>1 DEF ManageSubscriptions, TableTypes
<1>10. ASSUME (\E p \in Processes : RequestRaises(p)) \/ Rest \/ UNCHANGED vars PROVE TableTypes'
  BY <1>2, <1>3, <1>10 DEF RequestRaises, Rest, vars
<1> QED
  BY <1>4, <1>5, <1>6, <1>7, <1>8, <1>9, <1>10 DEF Next

LEMMA OthersKeepTx ==
    ASSUME SignalsTypeOK, NEW q \in Producers, SignalStep(q), NEW p \in Producers \ {q}
    PROVE  tx'[p] = tx[p]
BY DEF SignalStep, TransactionStep, SaveOutside, SaveInside, ReleaseSavepoint, RollbackSavepoint,
   Rollback, Commit, NextHook, DropHooks, SignalsTypeOK

LEMMA EmittingStep == TypeOK /\ Emitting /\ [Next]_vars => Emitting'
<1> SUFFICES ASSUME TypeOK, Emitting, [Next]_vars PROVE Emitting'
  OBVIOUS
<1>0. SignalsTypeOK /\ stage \in [Threads -> Stages] /\ Producers \cap Admins = {}
      /\ Producers \subseteq Threads /\ Admins \subseteq Threads
  BY RolesAssumption DEF TypeOK, Threads
<1>1. {"idle", "recorded", "matched", "chosen", "stored", "enqueue", "test", "announced", "send", "sent",
       "wiped", "requeue"} \subseteq Stages
  BY DEF Stages
<1>2. ASSUME UNCHANGED <<stage, tx>> PROVE Emitting'
  BY <1>2 DEF Emitting
\* A producer that runs hooks goes on with them.
<1>3. ASSUME NEW p \in Producers, tx[p] = "hooks", NEW label \in Stages, GoTo(p, label), UNCHANGED tx
      PROVE  Emitting'
  BY <1>0, <1>3 DEF Emitting, GoTo
<1>4. ASSUME NEW p \in Producers, GoTo(p, "idle"), SignalStep(p) PROVE Emitting'
  BY <1>0, <1>1, <1>4, OthersKeepTx DEF Emitting, GoTo
<1>5. ASSUME NEW a \in Admins, NEW label \in Stages, GoTo(a, label), UNCHANGED tx PROVE Emitting'
  BY <1>0, <1>5 DEF Emitting, GoTo
<1>6. ASSUME NEW t \in Threads, Abandon(t) PROVE Emitting'
  <2>1. CASE t \in Producers
    BY <1>4, <1>6, <2>1 DEF Abandon, SignalStep
  <2>2. CASE t \notin Producers
    BY <1>1, <1>5, <1>6, <2>2 DEF Abandon, Threads, signalVars
  <2> QED
    BY <2>1, <2>2
<1>7. ASSUME NEW p \in Producers, Transact(p) \/ Emit(p) PROVE Emitting'
  <2>1. ASSUME EndEmission(p) PROVE Emitting'
    BY <1>4, <2>1 DEF EndEmission, SignalStep
  <2>2. ASSUME RecordEvent(p) \/ FindSubscribers(p) \/ Select(p) \/ BulkCreate(p) \/ ReadBack(p)
        PROVE  Emitting'
    <3>1. tx[p] = "hooks"
      BY <2>2 DEF RecordEvent, FindSubscribers, Select, BulkCreate, ReadBack, At, Emitting
    <3> QED
      BY <1>1, <1>3, <2>2, <3>1 DEF RecordEvent, FindSubscribers, Select, BulkCreate, ReadBack, signalVars
  <2>3. ASSUME EmissionRaises(p) PROVE Emitting'
    BY <1>0, <1>6, <2>3 DEF EmissionRaises
  <2>4. ASSUME Transact(p) PROVE Emitting'
    <3>1. TransactionStep(p) /\ UNCHANGED stage /\ tx[p] # "hooks"
      BY <2>4 DEF Transact, threadVars, TransactionStep, SaveOutside, SaveInside, ReleaseSavepoint,
         RollbackSavepoint, Rollback, Commit
    <3>2. stage[p] = "idle"
      BY <3>1 DEF Emitting
    <3> QED
      BY <1>0, <3>1, <3>2, OthersKeepTx DEF Emitting, SignalStep
  <2> QED
    BY <1>7, <2>1, <2>2, <2>3, <2>4 DEF Emit, NoSubscribers, FinishEmission
<1>8. ASSUME NEW a \in Admins, Test(a) PROVE Emitting'
  BY <1>0, <1>1, <1>5, <1>6, <1>8 DEF Test, StartTest, TestEvent, TestDelivery, TestDeliveryRaises,
     SendTest, WipeDelivery, WipeEvent, signalVars
<1>9. ASSUME NEW a \in Admins, Requeue(a) PROVE Emitting'
  BY <1>0, <1>1, <1>5, <1>6, <1>9 DEF Requeue, AskRetry, AskRequeue, ReadToPutBack, PutBack,
     PutBackRaises, PutBackNext, signalVars
<1>10. ASSUME NEW t \in Threads,
             \/ \E d \in Deliveries : Enqueue(t, d)
             \/ EnqueueRaises(t) \/ ThreadRaised(t) \/ Attempt(t, FALSE) \/ CrashThread(t)
      PROVE  Emitting'
  BY <1>2, <1>6, <1>10 DEF Enqueue, EnqueueRaises, ThreadRaised, Attempt, CrashThread, threadVars, signalVars
<1>11. ASSUME NEW r \in Runners, Run(r) \/ CrashRunner(r) PROVE Emitting'
  BY <1>2, <1>11 DEF Run, TakeTask, Attempt, RunnerRaised, CrashRunner, threadVars, signalVars
<1>12. ASSUME \/ \E p \in Processes : RequestRaises(p)
              \/ ManageSubscriptions \/ Rest \/ UNCHANGED vars
       PROVE  Emitting'
  BY <1>2, <1>12 DEF RequestRaises, ManageSubscriptions, Rest, vars, threadVars, signalVars
<1> QED
  BY <1>7, <1>8, <1>9, <1>10, <1>11, <1>12 DEF Next

TypeInv == TypeOK /\ Ledger /\ Emitting

LEMMA TypeInit == Init => TypeInv
<1> SUFFICES ASSUME Init PROVE TypeInv
  OBVIOUS
<1>1. Ledger
  BY LedgerInit DEF Init
<1>2. SubscriptionsTypeOK
  BY PatchInit DEF Init, PatchInv
<1>3. ExecutorTypeOK
  BY NewRowType DEF Init, ExecutorInit, ExecutorTypeOK
<1>4. "idle" \in Stages
  BY DEF Stages
<1>5. ThreadTypes /\ TableTypes /\ Emitting
  BY <1>4, MaxFaultsAssumption DEF Init, ThreadTypes, RetryTypes, TableTypes, Emitting, Threads
<1> QED
  BY <1>1, <1>2, <1>3, <1>5, TypesOfParts DEF TypeInv, Ledger

LEMMA TypeStep == TypeInv /\ [Next]_vars => TypeInv'
<1> SUFFICES ASSUME TypeInv, [Next]_vars PROVE TypeInv'
  OBVIOUS
<1>1. TypeOK /\ Ledger /\ Emitting /\ SubscriptionsTypeOK
  BY DEF TypeInv, TypeOK
<1>2. Ledger'
  BY <1>1, NextOfSignals, LedgerStep
<1>3. SubscriptionsTypeOK'
  BY <1>1, NextOfSubs, SubscriptionsType
<1>4. ExecutorTypeOK' /\ ThreadTypes' /\ TableTypes' /\ Emitting'
  BY <1>1, ExecutorTypeStep, ThreadTypesStep, TableTypesStep, EmittingStep
<1>5. TypeOK'
  BY <1>2, <1>3, <1>4 DEF TypeOK, ThreadTypes, RetryTypes, TableTypes, Ledger
<1> QED
  BY <1>2, <1>4, <1>5 DEF TypeInv

\* Every table and every thread keeps its type: a delivery belongs to an event and a
\* subscription, and an emission looks at a hook that is there.
THEOREM TypeCorrect == Spec => []TypeOK
<1>1. TypeInv => TypeOK
  BY DEF TypeInv
<1> QED
  BY <1>1, TypeInit, TypeStep, PTL DEF Spec

--------------------------------------------------------------------------------
(* Subscriptions that are there, and that are gone. *)

\* The table and its clients agree on what has never been and on what is gone, and a PATCH
\* holds a subscription that has been.
SubsAreTold ==
    /\ \A s \in Subs :
          /\ sub[s].state = "new" => told[s].state = "new"
          /\ sub[s].state = "deleted" => told[s].state = "deleted"
    /\ \A a \in Admins : held[a].key # NoSub => sub[held[a].key].state # "new"

SubsInv == SubscriptionsTypeOK /\ HoldsARow /\ SubsAreTold

\* Subscriptions are not made new again, and a deletion that was answered stays one.
SubsGoOn ==
    /\ \A s \in Subs : sub[s].state # "new" => sub'[s].state # "new"
    /\ Destroyed \subseteq Destroyed'

LEMMA SubsInit == SubscriptionsInit => SubsInv
<1> SUFFICES ASSUME SubscriptionsInit PROVE SubsInv
  OBVIOUS
<1>1. SubscriptionsTypeOK /\ HoldsARow
  BY PatchInit DEF PatchInv
<1> QED
  BY <1>1 DEF SubscriptionsInit, SubsInv, SubsAreTold, Nothing

LEMMA SubsStep ==
    ASSUME SubsInv, [SubscriptionsNext]_subVars PROVE SubsInv' /\ SubsGoOn
<1>0. SubscriptionsTypeOK' /\ SubscriptionsTypeOK /\ HoldsARow
  BY SubscriptionsType DEF SubsInv
<1>1. ASSUME NEW s \in Subs, NEW active \in BOOLEAN, NEW list \in Lists, Create(s, active, list)
      PROVE  HoldsARow' /\ SubsAreTold' /\ SubsGoOn
  BY <1>1 DEF Create, Write, Fresh, SubscriptionsTypeOK, SubsInv, HoldsARow, SubsAreTold, SubsGoOn, Destroyed
<1>2. ASSUME NEW s \in Subs, RotateSecret(s) PROVE HoldsARow' /\ SubsAreTold' /\ SubsGoOn
  <2>1. \A u \in Subs : sub'[u].state = sub[u].state /\ told'[u].state = told[u].state
    BY <1>2 DEF RotateSecret, Subscription, SubscriptionsTypeOK, SubsInv, HoldsARow, SubsAreTold, SubsGoOn, Destroyed
  <2> QED
    BY <1>2, <2>1 DEF RotateSecret, SubscriptionsTypeOK, SubsInv, HoldsARow, SubsAreTold, SubsGoOn, Destroyed
<1>3. ASSUME NEW s \in Subs, Destroy(s) PROVE HoldsARow' /\ SubsAreTold' /\ SubsGoOn
  BY <1>3 DEF Destroy, Write, Blank, SubscriptionsTypeOK, SubsInv, HoldsARow, SubsAreTold, SubsGoOn, Destroyed
<1>4. ASSUME NEW a \in Admins, NEW s \in Subs, ReadForPatch(a, s)
      PROVE  HoldsARow' /\ SubsAreTold' /\ SubsGoOn
  BY <1>4 DEF ReadForPatch, Stored, SubscriptionsTypeOK, SubsInv, HoldsARow, SubsAreTold, SubsGoOn, Destroyed
<1>5. ASSUME NEW a \in Admins, NEW body \in Body, NEW fields \in SUBSET Columns,
             Patch(a, body, fields)
      PROVE  HoldsARow' /\ SubsAreTold' /\ SubsGoOn
  <2> DEFINE s == held[a].key
  <2>1. s \in Subs /\ held[a].copy.state = "stored" /\ held[a].copy \in Subscription /\ told[s] \in Subscription
    BY <1>5 DEF Patch, SubscriptionsTypeOK, SubsInv, HoldsARow, SubsAreTold, SubsGoOn, Destroyed
  <2>2. \A b \in Admins : held'[b] = IF b = a THEN Nothing ELSE held[b]
    BY <1>5 DEF Patch, SubscriptionsTypeOK, SubsInv, HoldsARow, SubsAreTold, SubsGoOn, Destroyed
  <2>3. \A u \in Subs \ {s} : sub'[u] = sub[u] /\ told'[u] = told[u]
    BY <1>5 DEF Patch, SubscriptionsTypeOK, SubsInv, HoldsARow, SubsAreTold, SubsGoOn, Destroyed
  <2>4. Validated(fields) \in SUBSET Columns /\ fields \ {"secret"} \in SUBSET Columns
    BY DEF Validated
  <2>5. sub'[s].state = "stored"
    BY <1>5, <2>1, <2>4, MergeType DEF Patch, SubscriptionsTypeOK, SubsInv, HoldsARow, SubsAreTold, SubsGoOn, Destroyed
  <2>6. told'[s].state = told[s].state
    BY <1>5, <2>1, <2>4, MergeType DEF Patch, SubscriptionsTypeOK, SubsInv, HoldsARow, SubsAreTold, SubsGoOn, Destroyed
  <2> QED
    BY <2>1, <2>2, <2>3, <2>5, <2>6 DEF Nothing, SubscriptionsTypeOK, SubsInv, HoldsARow, SubsAreTold, SubsGoOn, Destroyed
<1>6. ASSUME OtherRequest \/ UNCHANGED subVars PROVE HoldsARow' /\ SubsAreTold' /\ SubsGoOn
  <2>1. UNCHANGED <<sub, held, told>>
    BY <1>6 DEF OtherRequest, subVars
  <2> QED
    BY <2>1 DEF SubsInv, HoldsARow, SubsAreTold, SubsGoOn, Destroyed
<1>7. HoldsARow' /\ SubsAreTold' /\ SubsGoOn
  BY <1>1, <1>2, <1>3, <1>4, <1>5, <1>6 DEF SubscriptionsNext
<1> QED
  BY <1>0, <1>7 DEF SubsInv

--------------------------------------------------------------------------------
(* Steps.  All of them but the requests about subscriptions are made by one process, and
   leave every other process where it is. *)

ProducerMoves(p) ==
    Transact(p) \/ RecordEvent(p) \/ FindSubscribers(p) \/ NoSubscribers(p) \/ Select(p)
    \/ BulkCreate(p) \/ ReadBack(p) \/ FinishEmission(p)

AdminMoves(a) ==
    \/ \E x \in Tests, s \in Subs : StartTest(a, x, s)
    \/ TestEvent(a) \/ TestDelivery(a) \/ SendTest(a) \/ WipeDelivery(a)
    \/ \E D \in SUBSET {d \in Deliveries : Exists(d)} : ReadToPutBack(a, D)
    \/ \E d \in Deliveries : PutBack(a, d)
    \/ PutBackNext(a)

\* The ways in which a hook or a request ends before its time, and the end of a test.
Stops(t) ==
    \/ t \in Producers /\ EmissionRaises(t)
    \/ t \in Admins /\ (TestDeliveryRaises(t) \/ PutBackRaises(t) \/ WipeEvent(t))
    \/ EnqueueRaises(t) \/ ThreadRaised(t) \/ CrashThread(t)

Executes(q) ==
    /\ \/ /\ UNCHANGED faults
          /\ \/ /\ MarkDelivering(q) \/ SaveMissing(q) \/ Post(q) \/ PersistSuccess(q)
                /\ UNCHANGED retryVars
             \/ PersistFailure(q, FALSE) /\ NoteRetry(cur[q])
             \/ q \in Runners /\ PersistFailure(q, TRUE) /\ NoteRetry(cur[q])
       \/ Fault /\ PostRaises(q) /\ UNCHANGED retryVars
    /\ UNCHANGED <<signalVars, subVars, setting, events, threadVars, tasks, asked,
                   matchVars, lost, dropped>>

RunnerMoves(r) == (\E d \in Deliveries : TakeTask(r, d)) \/ RunnerRaised(r) \/ CrashRunner(r)

Moves(u) ==
    \/ u \in Producers /\ ProducerMoves(u)
    \/ u \in Admins /\ AdminMoves(u)
    \/ u \in Threads /\ (Stops(u) \/ \E d \in Deliveries : Enqueue(u, d))
    \/ u \in Runners /\ RunnerMoves(u)
    \/ Executes(u)

LEMMA NextMoves ==
    ASSUME [Next]_vars
    PROVE  (\E u \in Processes : Moves(u)) \/ ManageSubscriptions \/ UNCHANGED vars
<1>0. Producers \subseteq Processes /\ Admins \subseteq Processes /\ Threads \subseteq Processes
      /\ Runners \subseteq Processes /\ Producers \subseteq Threads /\ Admins \subseteq Threads
  BY ProcessesAssumption DEF Threads
<1>1. ASSUME NEW p \in Producers, Transact(p) \/ Emit(p) PROVE Moves(p)
  BY <1>0, <1>1 DEF Emit, Moves, ProducerMoves, Stops
<1>2. ASSUME NEW a \in Admins, Test(a) PROVE Moves(a)
  BY <1>0, <1>2 DEF Test, Moves, AdminMoves, Stops
<1>3. ASSUME NEW a \in Admins, Requeue(a) PROVE Moves(a)
  <2>1. ASSUME NEW d \in Deliveries, AskRetry(a, d) PROVE AdminMoves(a)
    <3>1. {d} \in SUBSET {e \in Deliveries : Exists(e)} /\ ReadToPutBack(a, {d})
      BY <2>1 DEF AskRetry
    <3> QED
      BY <3>1 DEF AdminMoves
  <2>2. ASSUME AskRequeue(a) PROVE AdminMoves(a)
    <3>1. PICK D \in SUBSET {d \in Deliveries : row[d].status = "dead_letter"} : ReadToPutBack(a, D)
      BY <2>2 DEF AskRequeue
    <3>2. D \in SUBSET {e \in Deliveries : Exists(e)}
      BY <3>1 DEF Exists, Status
    <3> QED
      BY <3>1, <3>2 DEF AdminMoves
  <2> QED
    BY <1>0, <1>3, <2>1, <2>2 DEF Requeue, Moves, AdminMoves, Stops
<1>4. ASSUME NEW t \in Threads,
             \/ \E d \in Deliveries : Enqueue(t, d)
             \/ EnqueueRaises(t) \/ ThreadRaised(t) \/ CrashThread(t)
      PROVE  Moves(t)
  BY <1>4 DEF Moves, Stops
<1>5. ASSUME NEW q \in Processes, NEW allowRetry \in BOOLEAN, Attempt(q, allowRetry),
             allowRetry => q \in Runners
      PROVE  Moves(q)
  <2>1. CASE allowRetry
    BY <1>5, <2>1 DEF Attempt, Moves, Executes
  <2>2. CASE ~allowRetry
    BY <1>5, <2>2 DEF Attempt, Moves, Executes
  <2> QED
    BY <2>1, <2>2
<1>6. ASSUME NEW q \in Processes, RequestRaises(q) PROVE Moves(q)
  BY <1>6 DEF RequestRaises, Moves, Executes, lossVars
<1>7. ASSUME NEW r \in Runners, Run(r) \/ CrashRunner(r) PROVE Moves(r)
  BY <1>0, <1>5, <1>7 DEF Run, Moves, RunnerMoves
<1>8. ASSUME NEW t \in Threads, Attempt(t, FALSE) PROVE Moves(t)
  BY <1>0, <1>5, <1>8
<1> QED
  BY <1>0, <1>1, <1>2, <1>3, <1>4, <1>6, <1>7, <1>8 DEF Next, Rest

\* Where a process is, and what it holds.
Still(u) ==
    /\ pc'[u] = pc[u] /\ cur'[u] = cur[u] /\ mem'[u] = mem[u] /\ ans'[u] = ans[u]
    /\ u \in Threads => stage'[u] = stage[u] /\ listed'[u] = listed[u] /\ ids'[u] = ids[u]
    /\ u \in Producers => hooks'[u] = hooks[u] /\ tx'[u] = tx[u]

LEMMA OthersStill ==
    ASSUME TypeOK, NEW u \in Processes, Moves(u), NEW v \in Processes \ {u} PROVE Still(v)
<1>0. /\ pc = [q \in Processes |-> pc[q]] /\ cur = [q \in Processes |-> cur[q]]
      /\ mem = [q \in Processes |-> mem[q]] /\ ans = [q \in Processes |-> ans[q]]
      /\ stage = [t \in Threads |-> stage[t]] /\ listed = [t \in Threads |-> listed[t]]
      /\ ids = [t \in Threads |-> ids[t]]
      /\ Producers \subseteq Threads /\ Admins \subseteq Threads /\ SignalsTypeOK
  BY DEF TypeOK, ExecutorTypeOK, Threads
<1>1. ASSUME UNCHANGED signalVars \/ (u \in Producers /\ SignalStep(u))
      PROVE  v \in Producers => hooks'[v] = hooks[v] /\ tx'[v] = tx[v]
  BY <1>0, <1>1, OthersKeepBooks DEF signalVars
<1>2. ASSUME Return(u) \/ Raise(u) PROVE pc'[v] = pc[v] /\ cur'[v] = cur[v] /\ mem'[v] = mem[v] /\ ans'[v] = ans[v]
  BY <1>0, <1>2 DEF Return, Raise, Forget
<1>3. ASSUME u \in Threads, Abandon(u) PROVE Still(v)
  <2>1. UNCHANGED signalVars \/ (u \in Producers /\ SignalStep(u))
    BY <1>3 DEF Abandon, SignalStep
  <2>2. v \in Threads => stage'[v] = stage[v] /\ listed'[v] = listed[v] /\ ids'[v] = ids[v]
    BY <1>0, <1>3 DEF Abandon, GoTo
  <2> QED
    BY <1>1, <1>2, <1>3, <2>1, <2>2 DEF Abandon, Still
<1>4. ASSUME u \in Threads, Stops(u) PROVE Still(v)
  BY <1>3, <1>4 DEF Stops, EmissionRaises, TestDeliveryRaises, PutBackRaises, WipeEvent, EnqueueRaises,
     ThreadRaised, CrashThread
<1>5. ASSUME u \in Producers, ProducerMoves(u) PROVE Still(v)
  <2>1. pc'[v] = pc[v] /\ cur'[v] = cur[v] /\ mem'[v] = mem[v] /\ ans'[v] = ans[v]
    BY <1>5 DEF ProducerMoves, Transact, RecordEvent, FindSubscribers, NoSubscribers, EndEmission, Select,
       BulkCreate, ReadBack, FinishEmission, execVars
  <2>2. UNCHANGED signalVars \/ SignalStep(u)
    BY <1>5 DEF ProducerMoves, Transact, RecordEvent, FindSubscribers, NoSubscribers, EndEmission, Select,
       BulkCreate, ReadBack, FinishEmission, SignalStep
  <2>3. v \in Threads => stage'[v] = stage[v] /\ listed'[v] = listed[v] /\ ids'[v] = ids[v]
    BY <1>0, <1>5 DEF ProducerMoves, Transact, RecordEvent, FindSubscribers, NoSubscribers, EndEmission, Select,
       BulkCreate, ReadBack, FinishEmission, GoTo, threadVars
  <2> QED
    BY <1>1, <1>5, <2>1, <2>2, <2>3 DEF Still
<1>6. ASSUME NEW d, Fetch(u, d) \/ FetchMissing(u, d)
      PROVE  pc'[v] = pc[v] /\ cur'[v] = cur[v] /\ mem'[v] = mem[v] /\ ans'[v] = ans[v]
  BY <1>0, <1>2, <1>6 DEF Fetch, FetchMissing
<1>7. ASSUME u \in Admins, AdminMoves(u) PROVE Still(v)
  <2>1. pc'[v] = pc[v] /\ cur'[v] = cur[v] /\ mem'[v] = mem[v] /\ ans'[v] = ans[v]
    BY <1>2, <1>6, <1>7 DEF AdminMoves, StartTest, TestEvent, TestDelivery, SendTest, WipeDelivery, ReadToPutBack,
       PutBack, PutBackNext, execVars
  <2>2. UNCHANGED signalVars
    BY <1>7 DEF AdminMoves, StartTest, TestEvent, TestDelivery, SendTest, WipeDelivery, ReadToPutBack,
       PutBack, PutBackNext
  <2>3. v \in Threads => stage'[v] = stage[v] /\ listed'[v] = listed[v] /\ ids'[v] = ids[v]
    BY <1>0, <1>7 DEF AdminMoves, StartTest, TestEvent, TestDelivery, SendTest, WipeDelivery, ReadToPutBack,
       PutBack, PutBackNext, GoTo
  <2> QED
    BY <1>1, <2>1, <2>2, <2>3 DEF Still
<1>8. ASSUME u \in Threads, NEW d \in Deliveries, Enqueue(u, d) PROVE Still(v)
  <2>1. pc'[v] = pc[v] /\ cur'[v] = cur[v] /\ mem'[v] = mem[v] /\ ans'[v] = ans[v]
    BY <1>6, <1>8 DEF Enqueue, Dispatch, execVars
  <2> QED
    BY <1>0, <1>1, <1>8, <2>1 DEF Enqueue, Still
<1>9. ASSUME u \in Runners, RunnerMoves(u) PROVE Still(v)
  <2>1. pc'[v] = pc[v] /\ cur'[v] = cur[v] /\ mem'[v] = mem[v] /\ ans'[v] = ans[v]
    BY <1>2, <1>6, <1>9 DEF RunnerMoves, TakeTask, RunnerRaised, CrashRunner
  <2>2. UNCHANGED <<signalVars, threadVars>>
    BY <1>9 DEF RunnerMoves, TakeTask, RunnerRaised, CrashRunner
  <2> QED
    BY <1>1, <2>1, <2>2 DEF Still, threadVars
<1>10. ASSUME Executes(u) PROVE Still(v)
  <2>1. pc'[v] = pc[v] /\ cur'[v] = cur[v] /\ mem'[v] = mem[v] /\ ans'[v] = ans[v]
    BY <1>0, <1>2, <1>10 DEF Executes, MarkDelivering, SaveMissing, Post, PersistSuccess, PostRaises, PersistFailure
  <2>2. UNCHANGED <<signalVars, threadVars>>
    BY <1>10 DEF Executes
  <2> QED
    BY <1>1, <2>1, <2>2 DEF Still, threadVars
<1> QED
  BY <1>4, <1>5, <1>7, <1>8, <1>9, <1>10 DEF Moves

--------------------------------------------------------------------------------
(* Where a thread can be with what. *)

EmitStages == {"idle", "recorded", "matched", "chosen", "stored", "enqueue"}

TestStages == {"test", "announced", "send", "sent", "wiped"}

\* A process that executes nothing holds nothing.
HandsFree(u) == pc[u] \in {"ready", "raised"} => cur[u] = NoDelivery

\* A producer emits the first of its hooks, and lists, enqueues and attempts deliveries of
\* that one only.
ProducerInStep(p) ==
    /\ stage[p] \in EmitStages
    /\ pc[p] # "ready" => stage[p] = "enqueue"
    /\ stage[p] # "enqueue" => ids[p] = {}
    /\ stage[p] \notin {"chosen", "stored"} => listed[p] = {}
    /\ \A d \in listed[p] \cup ids[p] : d[1] = Head(hooks[p])
    /\ cur[p] # NoDelivery => cur[p][1] = Head(hooks[p])

\* An admin enqueues one delivery at a time and tests one subscription at a time.
AdminInStep(a) ==
    /\ stage[a] \in TestStages \cup {"idle", "requeue", "enqueue"}
    /\ pc[a] # "ready" => stage[a] \in {"enqueue", "sent"} /\ ids[a] = {}
    /\ stage[a] # "enqueue" => ids[a] = {}
    /\ ids[a] # {} => \E d \in Deliveries : ids[a] = {d}
    /\ stage[a] \in TestStages => \E x \in Tests, s \in Subs : listed[a] = {<<x, s>>}

Control ==
    /\ \A u \in Processes : HandsFree(u)
    /\ \A p \in Producers : ProducerInStep(p)
    /\ \A a \in Admins : AdminInStep(a)

LEMMA ControlInit == Init => Control
<1> SUFFICES ASSUME Init PROVE Control
  OBVIOUS
<1>1. /\ \A u \in Processes : pc[u] = "ready" /\ cur[u] = NoDelivery
      /\ \A t \in Producers \cup Admins : t \in Processes /\ stage[t] = "idle" /\ listed[t] = {} /\ ids[t] = {}
  BY ProcessesAssumption DEF Init, ExecutorInit, Threads
<1> QED
  BY <1>1 DEF Control, HandsFree, ProducerInStep, AdminInStep, EmitStages, TestStages

LEMMA StillInStep ==
    ASSUME Control, NEW v \in Processes, Still(v)
    PROVE  /\ HandsFree(v)'
           /\ v \in Producers => ProducerInStep(v)'
           /\ v \in Admins => AdminInStep(v)'
BY DEF Control, Still, HandsFree, ProducerInStep, AdminInStep, Threads

LEMMA HandsFreeStep ==
    ASSUME TypeOK, Control, NEW u \in Processes, Moves(u) PROVE HandsFree(u)'
<1>0. pc = [q \in Processes |-> pc[q]] /\ cur = [q \in Processes |-> cur[q]] /\ HandsFree(u)
  BY DEF TypeOK, ExecutorTypeOK, Control
<1>1. ASSUME UNCHANGED execVars PROVE HandsFree(u)'
  BY <1>0, <1>1 DEF HandsFree, execVars
<1>2. ASSUME Return(u) \/ Raise(u) PROVE HandsFree(u)'
  BY <1>0, <1>2 DEF HandsFree, Return, Raise, Forget
<1>3. ASSUME NEW d, Fetch(u, d) \/ FetchMissing(u, d) PROVE HandsFree(u)'
  BY <1>0, <1>2, <1>3 DEF HandsFree, Fetch, FetchMissing
<1>4. ASSUME u \in Threads, Stops(u) PROVE HandsFree(u)'
  BY <1>2, <1>4 DEF Stops, EmissionRaises, TestDeliveryRaises, PutBackRaises, WipeEvent, EnqueueRaises,
     ThreadRaised, CrashThread, Abandon
<1>5. ASSUME u \in Producers, ProducerMoves(u) PROVE HandsFree(u)'
  BY <1>1, <1>5 DEF ProducerMoves, Transact, RecordEvent, FindSubscribers, NoSubscribers, EndEmission, Select,
     BulkCreate, ReadBack, FinishEmission
<1>6. ASSUME u \in Admins, AdminMoves(u) PROVE HandsFree(u)'
  BY <1>1, <1>2, <1>3, <1>6 DEF AdminMoves, StartTest, TestEvent, TestDelivery, SendTest, WipeDelivery,
     ReadToPutBack, PutBack, PutBackNext
<1>7. ASSUME u \in Threads, NEW d \in Deliveries, Enqueue(u, d) PROVE HandsFree(u)'
  BY <1>1, <1>3, <1>7 DEF Enqueue, Dispatch
<1>8. ASSUME u \in Runners, RunnerMoves(u) PROVE HandsFree(u)'
  BY <1>2, <1>3, <1>8 DEF RunnerMoves, TakeTask, RunnerRaised, CrashRunner
<1>9. ASSUME Executes(u) PROVE HandsFree(u)'
  BY <1>0, <1>2, <1>9 DEF Executes, HandsFree, MarkDelivering, SaveMissing, Post, PersistSuccess, PostRaises,
     PersistFailure
<1> QED
  BY <1>4, <1>5, <1>6, <1>7, <1>8, <1>9 DEF Moves

\* An attempt goes on with the delivery it has, or ends.
LEMMA ExecutesOn ==
    ASSUME TypeOK, NEW q \in Processes, Executes(q)
    PROVE  /\ pc[q] # "ready" /\ pc[q] # "raised"
           /\ cur'[q] = cur[q] \/ (cur'[q] = NoDelivery /\ pc'[q] \in {"ready", "raised"})
           /\ UNCHANGED <<signalVars, subVars, setting, events, threadVars, tasks, asked, matchVars, lost, dropped>>
BY DEF TypeOK, ExecutorTypeOK, Executes, MarkDelivering, SaveMissing, Post, PersistSuccess, PostRaises,
   PersistFailure, Return, Raise, Forget

LEMMA Abandoned ==
    ASSUME TypeOK, NEW t \in Threads, Abandon(t)
    PROVE  /\ stage'[t] = "idle" /\ listed'[t] = {} /\ ids'[t] = {}
           /\ pc'[t] = "ready" /\ cur'[t] = NoDelivery
<1>1. t \in Processes
  BY ProcessesAssumption
<1> QED
  BY <1>1 DEF TypeOK, ExecutorTypeOK, Abandon, GoTo, Return, Forget

LEMMA StopsAbandons ==
    ASSUME NEW t \in Threads, Stops(t)
    PROVE  /\ Abandon(t)
           /\ UNCHANGED <<row, historyVars, subVars, setting, tasks, asked, matchVars>>
           /\ UNCHANGED faults \/ Fault
           /\ UNCHANGED events \/ WipeEvent(t)
BY DEF Stops, EmissionRaises, TestDeliveryRaises, PutBackRaises, WipeEvent, EnqueueRaises, ThreadRaised, CrashThread

LEMMA ProducerStep ==
    ASSUME TypeOK, Control, Emitting, NEW p \in Producers, Moves(p) PROVE ProducerInStep(p)'
<1>0. /\ p \in Threads /\ p \in Processes /\ p \notin Admins /\ p \notin Runners /\ ProducerInStep(p) /\ HandsFree(p)
      /\ pc = [q \in Processes |-> pc[q]] /\ cur = [q \in Processes |-> cur[q]]
      /\ stage = [t \in Threads |-> stage[t]] /\ listed = [t \in Threads |-> listed[t]]
      /\ ids = [t \in Threads |-> ids[t]]
  BY RolesAssumption, ProcessesAssumption DEF TypeOK, ExecutorTypeOK, Control, Threads
<1> DEFINE Over == /\ listed'[p] = {} /\ ids'[p] = {} /\ cur'[p] = NoDelivery /\ pc'[p] = "ready"
                       /\ stage'[p] \in EmitStages
<1>1. ASSUME Over PROVE ProducerInStep(p)'
  BY <1>1 DEF ProducerInStep
<1>2. ASSUME Stops(p) PROVE ProducerInStep(p)'
  BY <1>0, <1>1, <1>2, StopsAbandons, Abandoned DEF EmitStages
<1>3. ASSUME Transact(p) PROVE ProducerInStep(p)'
  <2>1. stage[p] = "idle"
    BY <1>3 DEF Transact, Emitting, TransactionStep, SaveOutside, SaveInside, ReleaseSavepoint,
       RollbackSavepoint, Rollback, Commit
  <2>2. Over
    BY <1>0, <1>3, <2>1 DEF Transact, ProducerInStep, HandsFree, threadVars, execVars
  <2> QED
    BY <1>1, <2>2
<1>4. ASSUME RecordEvent(p) \/ FindSubscribers(p) \/ NoSubscribers(p) \/ FinishEmission(p) PROVE ProducerInStep(p)'
  <2>1. Over
    BY <1>0, <1>4 DEF RecordEvent, FindSubscribers, NoSubscribers, FinishEmission, EndEmission, At, Idle, GoTo,
       ProducerInStep, HandsFree, EmitStages, execVars
  <2> QED
    BY <1>1, <2>1
<1>5. ASSUME Select(p) PROVE ProducerInStep(p)'
  <2>1. /\ stage'[p] = "chosen" /\ ids'[p] = {} /\ listed'[p] = {Head(hooks[p])} \X Matching(sub, Head(hooks[p]))
        /\ pc'[p] = "ready" /\ cur'[p] = NoDelivery /\ hooks'[p] = hooks[p]
    BY <1>0, <1>5 DEF Select, At, Idle, GoTo, ProducerInStep, HandsFree, execVars, Built, signalVars
  <2> QED
    BY <2>1 DEF ProducerInStep, EmitStages
<1>6. ASSUME BulkCreate(p) PROVE ProducerInStep(p)'
  BY <1>0, <1>6 DEF BulkCreate, At, Idle, GoTo, ProducerInStep, HandsFree, EmitStages, execVars, signalVars
<1>7. ASSUME ReadBack(p) PROVE ProducerInStep(p)'
  <2>1. /\ stage'[p] = "enqueue" /\ ids'[p] = PendingOf(Head(hooks[p])) /\ listed'[p] = {}
        /\ pc'[p] = "ready" /\ cur'[p] = NoDelivery /\ hooks'[p] = hooks[p]
    BY <1>0, <1>7 DEF ReadBack, At, Idle, GoTo, ProducerInStep, HandsFree, execVars, signalVars
  <2> QED
    BY <2>1 DEF ProducerInStep, EmitStages, PendingOf
<1>8. ASSUME NEW d \in Deliveries, Enqueue(p, d) PROVE ProducerInStep(p)'
  <2>1. /\ stage'[p] = "enqueue" /\ ids'[p] \subseteq ids[p] /\ d \in ids[p] /\ hooks'[p] = hooks[p]
        /\ listed'[p] = listed[p] /\ stage[p] = "enqueue"
    BY <1>0, <1>8 DEF Enqueue, At, signalVars
  <2>2. cur'[p] = d \/ cur'[p] = NoDelivery
    BY <1>0, <1>8 DEF Enqueue, Dispatch, At, Idle, Fetch, FetchMissing, Raise, Forget, execVars, HandsFree
  <2> QED
    BY <1>0, <2>1, <2>2 DEF ProducerInStep
<1>9. ASSUME Executes(p) PROVE ProducerInStep(p)'
  <2>1. /\ pc[p] # "ready" /\ (cur'[p] = cur[p] \/ cur'[p] = NoDelivery)
        /\ stage'[p] = stage[p] /\ ids'[p] = ids[p] /\ listed'[p] = listed[p] /\ hooks'[p] = hooks[p]
    BY <1>0, <1>9, ExecutesOn DEF threadVars, signalVars
  <2> QED
    BY <1>0, <2>1 DEF ProducerInStep
<1> QED
  BY <1>0, <1>2, <1>3, <1>4, <1>5, <1>6, <1>7, <1>8, <1>9 DEF Moves, ProducerMoves

LEMMA AdminStep ==
    ASSUME TypeOK, Control, NEW a \in Admins, Moves(a) PROVE AdminInStep(a)'
<1>0. /\ a \in Threads /\ a \in Processes /\ a \notin Producers /\ a \notin Runners /\ AdminInStep(a) /\ HandsFree(a)
      /\ pc = [q \in Processes |-> pc[q]] /\ cur = [q \in Processes |-> cur[q]]
      /\ stage = [t \in Threads |-> stage[t]] /\ listed = [t \in Threads |-> listed[t]]
      /\ ids = [t \in Threads |-> ids[t]]
  BY RolesAssumption, ProcessesAssumption DEF TypeOK, ExecutorTypeOK, Control, Threads
<1>2. ASSUME Stops(a) PROVE AdminInStep(a)'
  <2>1. /\ stage'[a] = "idle" /\ listed'[a] = {} /\ ids'[a] = {} /\ pc'[a] = "ready"
    BY <1>0, <1>2, StopsAbandons, Abandoned
  <2> QED
    BY <2>1 DEF AdminInStep, TestStages
<1>3. ASSUME NEW x \in Tests, NEW s \in Subs, StartTest(a, x, s) PROVE AdminInStep(a)'
  BY <1>0, <1>3 DEF StartTest, At, Idle, GoTo, AdminInStep, TestStages, execVars
<1>4. ASSUME TestEvent(a) \/ TestDelivery(a) PROVE AdminInStep(a)'
  BY <1>0, <1>4 DEF TestEvent, TestDelivery, At, Idle, GoTo, AdminInStep, TestStages, execVars
<1>5. ASSUME SendTest(a) \/ WipeDelivery(a) PROVE AdminInStep(a)'
  <2>1. /\ stage[a] \in {"send", "sent"} /\ stage'[a] \in {"sent", "wiped"} /\ ids'[a] = ids[a] /\ listed'[a] = listed[a]
        /\ pc'[a] # "ready" => stage'[a] = "sent"
    BY <1>0, <1>5 DEF SendTest, WipeDelivery, At, GoTo, Return
  <2> QED
    BY <1>0, <2>1 DEF AdminInStep, TestStages
<1>6. ASSUME NEW D, ReadToPutBack(a, D) PROVE AdminInStep(a)'
  BY <1>0, <1>6 DEF ReadToPutBack, At, Idle, GoTo, AdminInStep, TestStages, execVars
<1>7. ASSUME NEW d \in Deliveries, PutBack(a, d) PROVE AdminInStep(a)'
  BY <1>0, <1>7 DEF PutBack, At, Idle, GoTo, AdminInStep, TestStages, execVars
<1>8. ASSUME PutBackNext(a) PROVE AdminInStep(a)'
  BY <1>0, <1>8 DEF PutBackNext, At, Idle, GoTo, AdminInStep, TestStages, execVars
<1>9. ASSUME NEW d \in Deliveries, Enqueue(a, d) PROVE AdminInStep(a)'
  <2>1. stage'[a] = "enqueue" /\ stage[a] = "enqueue" /\ ids'[a] = ids[a] \ {d} /\ d \in ids[a]
    BY <1>0, <1>9 DEF Enqueue, At
  <2>2. ids'[a] = {}
    BY <1>0, <2>1 DEF AdminInStep
  <2> QED
    BY <2>1, <2>2 DEF AdminInStep, TestStages
<1>10. ASSUME Executes(a) PROVE AdminInStep(a)'
  <2>1. pc[a] # "ready" /\ stage'[a] = stage[a] /\ ids'[a] = ids[a] /\ listed'[a] = listed[a]
    BY <1>0, <1>10, ExecutesOn DEF threadVars
  <2> QED
    BY <1>0, <2>1 DEF AdminInStep
<1> QED
  BY <1>0, <1>2, <1>3, <1>4, <1>5, <1>6, <1>7, <1>8, <1>9, <1>10 DEF Moves, AdminMoves

LEMMA ControlStep ==
    ASSUME TypeOK, Emitting, Control, [Next]_vars PROVE Control'
<1>0. Producers \subseteq Processes /\ Admins \subseteq Processes
  BY ProcessesAssumption DEF Threads
<1>1. ASSUME NEW u \in Processes, Moves(u) PROVE Control'
  <2>1. \A v \in Processes \ {u} : /\ HandsFree(v)'
                                   /\ v \in Producers => ProducerInStep(v)'
                                   /\ v \in Admins => AdminInStep(v)'
    BY <1>1, OthersStill, StillInStep
  <2>2. /\ HandsFree(u)'
        /\ u \in Producers => ProducerInStep(u)'
        /\ u \in Admins => AdminInStep(u)'
    BY <1>1, HandsFreeStep, ProducerStep, AdminStep
  <2> QED
    BY <1>0, <2>1, <2>2 DEF Control
<1>2. ASSUME ManageSubscriptions \/ UNCHANGED vars PROVE Control'
  <2>1. \A v \in Processes : Still(v)
    BY <1>2 DEF ManageSubscriptions, vars, Still, execVars, threadVars, signalVars
  <2> QED
    BY <1>0, <2>1, StillInStep DEF Control
<1> QED
  BY <1>1, <1>2, NextMoves

--------------------------------------------------------------------------------
(* Rows of the delivery table: where they come from and where they go. *)

\* The key has been given away.
Used(d) == row[d].status # "new"

\* An attempt writes to no other row than its own, and only while there is one.
LEMMA ExecutesRow ==
    ASSUME TypeOK, NEW q \in Processes, Executes(q), NEW d \in Deliveries
    PROVE  row'[d] = row[d] \/ (d = cur[q] /\ Exists(d) /\ row'[d].status \in Status)
<1>0. row = [e \in Deliveries |-> row[e]] /\ row[d] \in Row
  BY DEF TypeOK, ExecutorTypeOK
<1>1. ASSUME SaveMissing(q) \/ Post(q) \/ PostRaises(q) PROVE row'[d] = row[d]
  BY <1>1 DEF SaveMissing, Post, PostRaises
<1>2. ASSUME MarkDelivering(q) \/ PersistSuccess(q)
      PROVE  row'[d] = row[d] \/ (d = cur[q] /\ Exists(d) /\ row'[d].status \in Status)
  BY <1>0, <1>2 DEF MarkDelivering, PersistSuccess, Status, Row
<1>3. ASSUME NEW allowRetry \in BOOLEAN, PersistFailure(q, allowRetry)
      PROVE  row'[d] = row[d] \/ (d = cur[q] /\ Exists(d) /\ row'[d].status \in Status)
  <2> DEFINE verdict == FailureStatus(mem[q], ans[q], ans[q] = NoCode, allowRetry)
  <2>1. verdict \in Status
    BY VerdictType DEF Status
  <2>2. \/ \E delay : row' = [row EXCEPT ![cur[q]] = [status |-> verdict, attempts |-> @.attempts, eta |-> delay]]
        \/ row' = [row EXCEPT ![cur[q]].status = verdict]
    BY <1>3 DEF PersistFailure
  <2>3. Exists(cur[q])
    BY <1>3 DEF PersistFailure
  <2> HIDE DEF verdict
  <2>4. row'[d] = row[d] \/ (d = cur[q] /\ row'[d].status = verdict)
    <3>1. ASSUME NEW delay,
                 row' = [row EXCEPT ![cur[q]] = [status |-> verdict, attempts |-> @.attempts, eta |-> delay]]
          PROVE  row'[d] = row[d] \/ (d = cur[q] /\ row'[d].status = verdict)
      <4>1. CASE d = cur[q]
        <5>1. row'[d] = [status |-> verdict, attempts |-> row[d].attempts, eta |-> delay]
          BY <1>0, <3>1, <4>1
        <5> QED
          BY <4>1, <5>1
      <4> QED
        BY <1>0, <3>1, <4>1
    <3>2. ASSUME row' = [row EXCEPT ![cur[q]].status = verdict]
          PROVE  row'[d] = row[d] \/ (d = cur[q] /\ row'[d].status = verdict)
      BY <1>0, <3>2 DEF Row
    <3> QED
      BY <2>2, <3>1, <3>2
  <2> QED
    BY <2>1, <2>3, <2>4
<1> QED
  BY <1>1, <1>2, <1>3 DEF Executes

\* Where a row is made, and where it goes.
RowGoesOn(d) ==
    /\ Used(d) => Used(d)'
    /\ ~Exists(d) =>
          \/ row'[d] = row[d]
          \/ \E t \in Threads : /\ d \in listed[t] /\ row'[d] = NewRow("pending")
                                /\ (t \in Producers /\ BulkCreate(t)) \/ (t \in Admins /\ TestDelivery(t))
    /\ row[d].status # "deleted" /\ row'[d].status = "deleted" =>
          \/ \E a \in Admins : WipeDelivery(a) /\ d \in listed[a]
          \/ ManageSubscriptions /\ sub'[d[2]].state = "deleted"

LEMMA RowsGoOn ==
    ASSUME TypeOK, [Next]_vars, NEW d \in Deliveries PROVE RowGoesOn(d)
<1>0. row = [e \in Deliveries |-> row[e]] /\ row[d] \in Row
  BY DEF TypeOK, ExecutorTypeOK
<1>1. ASSUME row'[d] = row[d] PROVE RowGoesOn(d)
  BY <1>1 DEF RowGoesOn, Used
<1>2. ASSUME NEW u \in Processes, Executes(u) PROVE RowGoesOn(d)
  <2>1. row'[d] = row[d] \/ (Exists(d) /\ row'[d].status \in Status)
    BY <1>2, ExecutesRow
  <2> QED
    BY <1>1, <2>1 DEF RowGoesOn, Used, Exists, Status
<1>3. ASSUME NEW u \in Threads, Stops(u) PROVE RowGoesOn(d)
  BY <1>1, <1>3, StopsAbandons
<1>4. ASSUME NEW u \in Producers, ProducerMoves(u) PROVE RowGoesOn(d)
  <2>1. ASSUME BulkCreate(u) PROVE RowGoesOn(d)
    <3>1. u \in Threads
      BY DEF Threads
    <3>2. row'[d] = IF d \in listed[u] THEN NewRow("pending") ELSE row[d]
      BY <2>1 DEF BulkCreate, Insert
    <3>3. NewRow("pending").status = "pending"
      BY DEF NewRow
    <3> QED
      BY <1>1, <2>1, <3>1, <3>2, <3>3 DEF RowGoesOn, Used
  <2> QED
    BY <1>1, <1>4, <2>1 DEF ProducerMoves, Transact, RecordEvent, FindSubscribers, NoSubscribers, EndEmission,
       Select, ReadBack, FinishEmission
<1>5. ASSUME NEW u \in Admins, AdminMoves(u) PROVE RowGoesOn(d)
  <2>1. ASSUME TestDelivery(u) PROVE RowGoesOn(d)
    <3>1. u \in Threads
      BY DEF Threads
    <3>2. row'[d] = IF d \in listed[u] THEN NewRow("pending") ELSE row[d]
      BY <2>1 DEF TestDelivery, Insert
    <3>3. NewRow("pending").status = "pending"
      BY DEF NewRow
    <3> QED
      BY <1>1, <2>1, <3>1, <3>2, <3>3 DEF RowGoesOn, Used
  <2>2. ASSUME WipeDelivery(u) PROVE RowGoesOn(d)
    <3>1. row'[d] = IF d \in listed[u] /\ Exists(d) THEN NewRow("deleted") ELSE row[d]
      BY <2>2 DEF WipeDelivery, Erase
    <3>3. NewRow("deleted").status = "deleted"
      BY DEF NewRow
    <3> QED
      BY <1>1, <2>2, <3>1, <3>3 DEF RowGoesOn, Used, Exists, Status
  <2>3. ASSUME NEW e \in Deliveries, PutBack(u, e) PROVE RowGoesOn(d)
    <3>1. row'[d] = row[d] \/ (Exists(d) /\ row'[d].status = "pending")
      BY <1>0, <2>3 DEF PutBack
    <3> QED
      BY <1>1, <3>1 DEF RowGoesOn, Used, Exists, Status
  <2> QED
    BY <1>1, <1>5, <2>1, <2>2, <2>3 DEF AdminMoves, StartTest, TestEvent, SendTest, ReadToPutBack,
       PutBackNext, Fetch, FetchMissing
<1>6. ASSUME NEW u \in Threads, NEW e \in Deliveries, Enqueue(u, e) PROVE RowGoesOn(d)
  BY <1>1, <1>6 DEF Enqueue, Dispatch, Fetch, FetchMissing
<1>7. ASSUME NEW u \in Runners, RunnerMoves(u) PROVE RowGoesOn(d)
  BY <1>1, <1>7 DEF RunnerMoves, TakeTask, RunnerRaised, CrashRunner, Fetch, FetchMissing
<1>8. ASSUME ManageSubscriptions PROVE RowGoesOn(d)
  <2>1. row'[d] = IF sub'[d[2]].state = "deleted" /\ Exists(d) THEN NewRow("deleted") ELSE row[d]
    BY <1>8 DEF ManageSubscriptions, Cascade
  <2>3. NewRow("deleted").status = "deleted"
    BY DEF NewRow
  <2> QED
    BY <1>1, <1>8, <2>1, <2>3 DEF RowGoesOn, Used, Exists, Status
<1>9. ASSUME UNCHANGED vars PROVE RowGoesOn(d)
  BY <1>1, <1>9 DEF vars
<1> QED
  BY <1>2, <1>3, <1>4, <1>5, <1>6, <1>7, <1>8, <1>9, NextMoves DEF Moves

\* Only deliveries that have been stored are enqueued, sent and put back.
UsedHere(u) ==
    /\ cur[u] # NoDelivery => Used(cur[u])
    /\ u \in Threads =>
          /\ \A d \in ids[u] : Used(d)
          /\ stage[u] \notin {"chosen", "test", "announced"} => \A d \in listed[u] : Used(d)

RowsInv ==
    /\ \A d \in Deliveries : Used(d) => sub[d[2]].state # "new"
    /\ \A t \in Threads : \A d \in listed[t] : sub[d[2]].state # "new"
    /\ \A d \in Deliveries : d[1] \in Changes /\ row[d].status = "deleted" => Destroyed # {}
    /\ \A d \in Deliveries : tasks[d] > 0 => Used(d)
    /\ \A u \in Processes : UsedHere(u)

LEMMA RowsInit == Init => RowsInv
<1> SUFFICES ASSUME Init PROVE RowsInv
  OBVIOUS
<1>1. /\ \A d \in Deliveries : row[d].status = "new" /\ tasks[d] = 0
      /\ \A u \in Processes : cur[u] = NoDelivery
      /\ \A t \in Threads : listed[t] = {} /\ ids[t] = {}
  BY DEF Init, ExecutorInit, NewRow
<1> QED
  BY <1>1 DEF RowsInv, UsedHere, Used

LEMMA ListedFrom ==
    ASSUME TypeOK, NEW u \in Processes, Moves(u), NEW t \in Threads, NEW d \in listed'[t]
    PROVE  d \in listed[t] \/ Stored(d[2]) \/ Exists(d)
<1>0. listed = [v \in Threads |-> listed[v]] /\ Producers \subseteq Threads /\ Admins \subseteq Threads
  BY DEF TypeOK, Threads
<1>1. ASSUME NEW v \in Threads, Stops(v) PROVE d \in listed[t]
  BY <1>0, <1>1, StopsAbandons DEF Abandon
<1>2. ASSUME NEW p \in Producers, ProducerMoves(p) PROVE d \in listed[t] \/ Stored(d[2])
  <2>1. ASSUME Select(p) PROVE d \in listed[t] \/ Stored(d[2])
    BY <1>0, <2>1 DEF Select, Built, Matching, Stored
  <2> QED
    BY <1>0, <1>2, <2>1 DEF ProducerMoves, Transact, RecordEvent, FindSubscribers, NoSubscribers, EndEmission,
       BulkCreate, ReadBack, FinishEmission, threadVars
<1>3. ASSUME NEW a \in Admins, AdminMoves(a) PROVE d \in listed[t] \/ Stored(d[2]) \/ Exists(d)
  BY <1>0, <1>3 DEF AdminMoves, StartTest, TestEvent, TestDelivery, SendTest, WipeDelivery, ReadToPutBack, PutBack,
     PutBackNext
<1>4. ASSUME UNCHANGED listed PROVE d \in listed[t]
  BY <1>4
<1> QED
  BY <1>1, <1>2, <1>3, <1>4 DEF Moves, Enqueue, RunnerMoves, TakeTask, RunnerRaised, CrashRunner, Executes, threadVars

LEMMA UsedHereStep ==
    ASSUME TypeOK, Control, RowsInv, NEW u \in Processes, Moves(u),
           \A d \in Deliveries : RowGoesOn(d)
    PROVE  UsedHere(u)'
<1>0. /\ pc = [q \in Processes |-> pc[q]] /\ cur = [q \in Processes |-> cur[q]]
      /\ stage = [t \in Threads |-> stage[t]] /\ listed = [t \in Threads |-> listed[t]]
      /\ ids = [t \in Threads |-> ids[t]]
      /\ cur[u] \in Deliveries \cup {NoDelivery}
      /\ \A t \in Threads : listed[t] \subseteq Deliveries /\ ids[t] \subseteq Deliveries
      /\ Producers \subseteq Threads /\ Admins \subseteq Threads
  BY DEF TypeOK, ExecutorTypeOK, Threads
<1>1. \A d \in Deliveries : Used(d) => Used(d)'
  BY DEF RowGoesOn
<1>2. UsedHere(u)
  BY DEF RowsInv
<1>3. ASSUME cur'[u] = NoDelivery \/ cur'[u] = cur[u] \/ (Exists(cur'[u]) /\ UNCHANGED row)
      PROVE  (cur[u] # NoDelivery => Used(cur[u]))'
  <2>1. CASE Exists(cur'[u]) /\ UNCHANGED row
    BY <2>1 DEF Used, Exists, Status
  <2>2. CASE cur'[u] = NoDelivery \/ cur'[u] = cur[u]
    BY <1>0, <1>1, <1>2, <2>2 DEF UsedHere
  <2> QED
    BY <1>3, <2>1, <2>2
<1>4. ASSUME NEW d, Fetch(u, d) \/ FetchMissing(u, d) PROVE cur'[u] = NoDelivery \/ (Exists(cur'[u]) /\ UNCHANGED row)
  BY <1>0, <1>4 DEF Fetch, FetchMissing, Raise, Forget
<1> DEFINE Keeps == /\ \A d \in ids'[u] : d \in ids[u]
                    /\ \A d \in listed'[u] : d \in listed[u]
                    /\ stage[u] \in {"chosen", "test", "announced"} =>
                          stage'[u] \in {"chosen", "test", "announced"} \/ listed'[u] = {}
<1>5. ASSUME (cur[u] # NoDelivery => Used(cur[u]))', u \in Threads => Keeps PROVE UsedHere(u)'
  <2>1. ASSUME u \in Threads, NEW d \in ids'[u] PROVE Used(d)'
    BY <1>0, <1>1, <1>2, <1>5, <2>1 DEF UsedHere
  <2>2. ASSUME u \in Threads, stage'[u] \notin {"chosen", "test", "announced"}, NEW d \in listed'[u] PROVE Used(d)'
    BY <1>0, <1>1, <1>2, <1>5, <2>2 DEF UsedHere
  <2> QED
    BY <1>5, <2>1, <2>2 DEF UsedHere
<1>6. ASSUME u \in Threads, Stops(u) PROVE UsedHere(u)'
  BY <1>6, StopsAbandons, Abandoned DEF UsedHere
<1>7. ASSUME u \in Producers, ProducerMoves(u) PROVE UsedHere(u)'
  <2>0. (cur[u] # NoDelivery => Used(cur[u]))'
    BY <1>3, <1>7 DEF ProducerMoves, Transact, RecordEvent, FindSubscribers, NoSubscribers, EndEmission, Select,
       BulkCreate, ReadBack, FinishEmission, execVars
  <2>1. ASSUME Select(u) PROVE UsedHere(u)'
    <3>1. ids'[u] = ids[u] /\ stage'[u] = "chosen"
      BY <1>0, <1>7, <2>1 DEF Select, GoTo
    <3> QED
      BY <1>0, <1>1, <1>2, <1>7, <2>0, <3>1 DEF UsedHere
  <2>2. ASSUME BulkCreate(u) PROVE UsedHere(u)'
    <3>1. ids'[u] = ids[u] /\ listed'[u] = listed[u] /\ \A d \in listed[u] : row'[d].status = "pending"
      BY <1>0, <1>7, <2>2 DEF BulkCreate, Insert, NewRow
    <3> QED
      BY <1>0, <1>1, <1>2, <1>7, <2>0, <3>1 DEF UsedHere, Used
  <2>3. ASSUME ReadBack(u) PROVE UsedHere(u)'
    <3>1. listed'[u] = {} /\ \A d \in ids'[u] : row'[d].status = "pending"
      BY <1>0, <1>7, <2>3 DEF ReadBack, PendingOf
    <3> QED
      BY <2>0, <3>1 DEF UsedHere, Used
  <2>4. ASSUME Transact(u) \/ RecordEvent(u) \/ FindSubscribers(u) \/ NoSubscribers(u) \/ FinishEmission(u)
        PROVE  Keeps
    BY <1>0, <1>7, <2>4 DEF Transact, RecordEvent, FindSubscribers, NoSubscribers, EndEmission,
       FinishEmission, At, GoTo, threadVars
  <2> QED
    BY <1>5, <1>7, <2>0, <2>1, <2>2, <2>3, <2>4 DEF ProducerMoves
<1>8. ASSUME u \in Admins, AdminMoves(u) PROVE UsedHere(u)'
  <2>0. (cur[u] # NoDelivery => Used(cur[u]))'
    <3>1. cur'[u] = NoDelivery \/ cur'[u] = cur[u] \/ (Exists(cur'[u]) /\ UNCHANGED row)
      BY <1>0, <1>4, <1>8 DEF AdminMoves, StartTest, TestEvent, TestDelivery, SendTest, WipeDelivery, ReadToPutBack,
         PutBack, PutBackNext, Return, Forget, execVars
    <3> QED
      BY <1>3, <3>1
  <2>1. ASSUME NEW x \in Tests, NEW s \in Subs, StartTest(u, x, s) PROVE UsedHere(u)'
    <3>1. ids'[u] = ids[u] /\ stage'[u] = "test"
      BY <1>0, <1>8, <2>1 DEF StartTest, GoTo
    <3> QED
      BY <1>0, <1>1, <1>2, <1>8, <2>0, <3>1 DEF UsedHere
  <2>2. ASSUME TestDelivery(u) PROVE UsedHere(u)'
    <3>1. ids'[u] = ids[u] /\ listed'[u] = listed[u] /\ \A d \in listed[u] : row'[d].status = "pending"
      BY <1>0, <1>8, <2>2 DEF TestDelivery, Insert, NewRow
    <3> QED
      BY <1>0, <1>1, <1>2, <1>8, <2>0, <3>1 DEF UsedHere, Used
  <2>3. ASSUME NEW D \in SUBSET {d \in Deliveries : Exists(d)}, ReadToPutBack(u, D) PROVE UsedHere(u)'
    <3>1. ids'[u] = ids[u] /\ listed'[u] = D /\ UNCHANGED row
      BY <1>0, <1>8, <2>3 DEF ReadToPutBack
    <3> QED
      BY <1>0, <1>1, <1>2, <1>8, <2>0, <3>1 DEF UsedHere, Used, Exists, Status
  <2>4. ASSUME NEW d \in Deliveries, PutBack(u, d) PROVE UsedHere(u)'
    <3>1. /\ ids'[u] = {d} /\ listed'[u] \subseteq listed[u] /\ Exists(d) /\ stage[u] = "requeue"
      BY <1>0, <1>8, <2>4 DEF PutBack, At
    <3>2. Used(d)'
      BY <1>1, <3>1 DEF Used, Exists, Status
    <3> QED
      BY <1>0, <1>1, <1>2, <1>8, <2>0, <3>1, <3>2 DEF UsedHere
  <2>5. ASSUME TestEvent(u) \/ SendTest(u) \/ WipeDelivery(u) \/ PutBackNext(u) PROVE Keeps
    BY <1>0, <1>8, <2>5 DEF TestEvent, SendTest, WipeDelivery, PutBackNext, At, GoTo
  <2> QED
    BY <1>5, <1>8, <2>0, <2>1, <2>2, <2>3, <2>4, <2>5 DEF AdminMoves
<1>9. ASSUME u \in Threads, NEW d \in Deliveries, Enqueue(u, d) PROVE UsedHere(u)'
  <2>1. cur'[u] = NoDelivery \/ cur'[u] = cur[u] \/ (Exists(cur'[u]) /\ UNCHANGED row)
    BY <1>4, <1>9 DEF Enqueue, Dispatch, execVars
  <2>2. Keeps
    BY <1>0, <1>9 DEF Enqueue
  <2> QED
    BY <1>3, <1>5, <2>1, <2>2
<1>10. ASSUME u \in Runners, RunnerMoves(u) PROVE UsedHere(u)'
  <2>1. cur'[u] = NoDelivery \/ cur'[u] = cur[u] \/ (Exists(cur'[u]) /\ UNCHANGED row)
    BY <1>0, <1>4, <1>10 DEF RunnerMoves, TakeTask, RunnerRaised, CrashRunner, Return, Forget
  <2>2. u \in Threads => Keeps
    BY <1>0, <1>10 DEF RunnerMoves, TakeTask, RunnerRaised, CrashRunner, threadVars
  <2> QED
    BY <1>3, <1>5, <2>1, <2>2
<1>11. ASSUME Executes(u) PROVE UsedHere(u)'
  <2>1. cur'[u] = NoDelivery \/ cur'[u] = cur[u]
    BY <1>11, ExecutesOn
  <2>2. u \in Threads => Keeps
    BY <1>0, <1>11 DEF Executes, threadVars
  <2> QED
    BY <1>3, <1>5, <2>1, <2>2
<1> QED
  BY <1>6, <1>7, <1>8, <1>9, <1>10, <1>11 DEF Moves

LEMMA RowsStep ==
    ASSUME TypeOK, TypeOK', Control, RowsInv, SubsInv, [Next]_vars PROVE RowsInv' /\ SubsGoOn
<1>0. /\ SubsInv' /\ SubsGoOn
  BY SubsStep, NextOfSubs
<1>1. \A d \in Deliveries : RowGoesOn(d)
  BY RowsGoOn
<1>2. \A d \in Deliveries : d[1] \in Origins /\ d[2] \in Subs
  BY DeliveriesAssumption
<1>3. \A t \in Threads : listed[t] \subseteq Deliveries /\ listed'[t] \subseteq Deliveries
  BY DEF TypeOK
<1>4. ASSUME NEW d \in Deliveries, Used(d)' PROVE sub'[d[2]].state # "new"
  <2>1. Used(d) \/ \E t \in Threads : d \in listed[t]
    BY <1>1, <1>4 DEF RowGoesOn, Used, Exists, Status
  <2>2. sub[d[2]].state # "new"
    BY <2>1 DEF RowsInv
  <2> QED
    BY <1>0, <1>2, <2>2 DEF SubsGoOn
<1>5. ASSUME NEW t \in Threads, NEW d \in listed'[t] PROVE sub'[d[2]].state # "new"
  <2>0. d \in Deliveries
    BY <1>3
  <2>1. ASSUME NEW u \in Processes, Moves(u) PROVE d \in listed[t] \/ Stored(d[2]) \/ Exists(d)
    BY <2>1, ListedFrom
  <2>2. d \in listed[t] \/ Stored(d[2]) \/ Exists(d)
    BY <2>1, NextMoves DEF ManageSubscriptions, vars, threadVars
  <2>3. sub[d[2]].state # "new"
    BY <2>0, <2>2 DEF RowsInv, Stored, Exists, Status, Used
  <2> QED
    BY <1>0, <1>2, <2>0, <2>3 DEF SubsGoOn
<1>6. ASSUME NEW d \in Deliveries, d[1] \in Changes, row'[d].status = "deleted" PROVE Destroyed' # {}
  <2>1. CASE row[d].status = "deleted"
    BY <1>0, <1>6, <2>1 DEF RowsInv, SubsGoOn
  <2>2. ASSUME NEW a \in Admins, WipeDelivery(a), d \in listed[a] PROVE FALSE
    <3>1. \E x \in Tests, s \in Subs : listed[a] = {<<x, s>>}
      BY <2>2 DEF WipeDelivery, Control, AdminInStep, TestStages
    <3> QED
      BY <1>6, <2>2, <3>1, OriginsAssumption
  <2>3. CASE sub'[d[2]].state = "deleted"
    BY <1>0, <1>2, <2>3 DEF SubsInv, SubsAreTold, Destroyed
  <2> QED
    BY <1>1, <1>6, <2>1, <2>2, <2>3 DEF RowGoesOn
<1>7. ASSUME NEW d \in Deliveries, tasks'[d] > 0 PROVE Used(d)'
  <2>1. tasks[d] > 0 \/ \E t \in Threads : d \in ids[t]
    <3>0. tasks \in [Deliveries -> Nat]
      BY DEF TypeOK
    <3>1. ASSUME NEW t \in Threads, NEW e \in Deliveries, Enqueue(t, e) PROVE tasks'[d] = tasks[d] \/ d \in ids[t]
      BY <3>0, <3>1 DEF Enqueue, Dispatch
    <3>2. ASSUME NEW u \in Runners, RunnerMoves(u) PROVE tasks'[d] = tasks[d] \/ tasks[d] > 0
      BY <3>0, <3>2 DEF RunnerMoves, TakeTask, RunnerRaised, CrashRunner
    <3>3. ASSUME NEW u \in Producers, ProducerMoves(u) PROVE UNCHANGED tasks
      BY <3>3 DEF ProducerMoves, Transact, RecordEvent, FindSubscribers, NoSubscribers, EndEmission, Select,
         BulkCreate, ReadBack, FinishEmission
    <3>4. ASSUME NEW u \in Admins, AdminMoves(u) PROVE UNCHANGED tasks
      BY <3>4 DEF AdminMoves, StartTest, TestEvent, TestDelivery, SendTest, WipeDelivery, ReadToPutBack,
         PutBack, PutBackNext
    <3>5. ASSUME NEW u \in Threads, Stops(u) PROVE UNCHANGED tasks
      BY <3>5, StopsAbandons
    <3>6. ASSUME (\E u \in Processes : Executes(u)) \/ ManageSubscriptions \/ UNCHANGED vars PROVE UNCHANGED tasks
      BY <3>6 DEF Executes, ManageSubscriptions, vars
    <3> QED
      BY <1>7, <3>1, <3>2, <3>3, <3>4, <3>5, <3>6, NextMoves DEF Moves
  <2>2. ASSUME NEW t \in Threads, d \in ids[t] PROVE Used(d)
    BY <2>2, ProcessesAssumption DEF RowsInv, UsedHere
  <2>3. Used(d)
    BY <2>1, <2>2 DEF RowsInv
  <2> QED
    BY <1>1, <2>3 DEF RowGoesOn
<1>8. ASSUME NEW v \in Processes, Still(v) PROVE UsedHere(v)'
  <2>1. /\ cur[v] \in Deliveries \cup {NoDelivery}
        /\ v \in Threads => listed[v] \subseteq Deliveries /\ ids[v] \subseteq Deliveries
    BY DEF TypeOK, ExecutorTypeOK
  <2>2. \A d \in Deliveries : Used(d) => Used(d)'
    BY <1>1 DEF RowGoesOn
  <2> QED
    BY <1>8, <2>1, <2>2 DEF RowsInv, UsedHere, Still
<1>9. \A v \in Processes : UsedHere(v)'
  <2>1. ASSUME NEW u \in Processes, Moves(u), NEW v \in Processes PROVE UsedHere(v)'
    BY <1>1, <1>8, <2>1, OthersStill, UsedHereStep
  <2>2. ASSUME ManageSubscriptions \/ UNCHANGED vars, NEW v \in Processes PROVE UsedHere(v)'
    <3>1. Still(v)
      BY <2>2 DEF ManageSubscriptions, vars, Still, execVars, threadVars, signalVars
    <3> QED
      BY <1>8, <3>1
  <2> QED
    BY <2>1, <2>2, NextMoves
<1> QED
  BY <1>0, <1>4, <1>5, <1>6, <1>7, <1>9 DEF RowsInv

\* All of the above.
Groundwork == TypeInv /\ EventsInv /\ News /\ SubsInv /\ Control /\ RowsInv

LEMMA GroundworkInit == Init => Groundwork
<1>1. Init => SubscriptionsInit /\ SignalsInit
  BY DEF Init
<1> QED
  BY <1>1, TypeInit, EventsInit, NewsInit, SubsInit, ControlInit, RowsInit DEF Groundwork

LEMMA GroundworkStep == Groundwork /\ [Next]_vars => Groundwork' /\ SubsGoOn
<1> SUFFICES ASSUME Groundwork, [Next]_vars PROVE Groundwork' /\ SubsGoOn
  OBVIOUS
<1>1. TypeOK /\ Ledger /\ Emitting /\ News /\ SubsInv /\ Control /\ RowsInv
  BY DEF Groundwork, TypeInv
<1>2. TypeInv' /\ EventsInv'
  BY TypeStep, EventsStep DEF Groundwork
<1>3. News'
  BY <1>1, NewsStep, NextOfSignals
<1>4. SubsInv' /\ Control'
  BY <1>1, SubsStep, NextOfSubs, ControlStep
<1>5. RowsInv' /\ SubsGoOn
  BY <1>1, <1>2, RowsStep DEF TypeInv
<1> QED
  BY <1>2, <1>3, <1>4, <1>5 DEF Groundwork
================================================================================
