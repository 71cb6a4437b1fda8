----------------------------- MODULE InboundProofs -----------------------------
(***************************************************************************)
(* Theorems about the inbound receiver, for every number of threads and    *)
(* events and every number of faults: a handler is called at most once for *)
(* an event, the dedup log tells how the call ended and never changes its  *)
(* mind, and dispatch as a whole implements the promise of HandledOnce.    *)
(***************************************************************************)
EXTENDS Inbound, TLAPS

USE NoEventAssumption, FaultsAssumption

--------------------------------------------------------------------------------
(* Type correctness. *)

LEMMA RefusalType == ASSUME NEW r PROVE Refusal(r) \in {200, 400, 401, 500}
BY DEF Refusal

LEMMA ForgetType ==
    ASSUME TypeOK, NEW T \in SUBSET Threads, Forget(T)
    PROVE  /\ pc' \in [Threads -> {"idle", "lookup", "insert", "created", "handling", "save", "reply"}]
           /\ ev' \in [Threads -> Events \cup {NoEvent}]
           /\ \A t \in Threads : pc'[t] # "idle" => ev'[t] # NoEvent
           /\ verdict' \in [Threads -> HandlerStatus]
           /\ code' \in [Threads -> {200, 400, 401, 404, 500}]
BY DEF TypeOK, Forget, HandlerStatus

LEMMA TypeInvariant == TypeOK /\ [Next]_vars => TypeOK'
<1> SUFFICES ASSUME TypeOK, [Next]_vars PROVE TypeOK'
  OBVIOUS
<1> USE DEF TypeOK
<1>1. ASSUME NEW t \in Threads, NEW e \in Events, NEW r \in Requests, Receive(t, e, r) PROVE TypeOK'
  BY <1>1, RefusalType DEF Receive, Answer, GoTo
<1>2. ASSUME NEW t \in Threads, Lookup(t) \/ Insert(t) PROVE TypeOK'
  BY <1>2 DEF Lookup, Insert, Answer, GoTo, historyVars, HandlerStatus
<1>3. ASSUME NEW t \in Threads, NoHandler(t) PROVE TypeOK'
  BY <1>3 DEF NoHandler, Conclude, GoTo, historyVars, HandlerStatus
<1>4. ASSUME NEW t \in Threads, CallHandler(t) PROVE TypeOK'
  BY <1>4 DEF CallHandler, GoTo
<1>5. ASSUME NEW t \in Threads, HandlerReturns(t) \/ HandlerRaises(t) PROVE TypeOK'
  BY <1>5 DEF HandlerReturns, HandlerRaises, Conclude, GoTo, HandlerStatus
<1>6. ASSUME NEW t \in Threads, Save(t) PROVE TypeOK'
  BY <1>6 DEF Save, GoTo, historyVars
<1>7. ASSUME NEW t \in Threads, Reply(t) PROVE TypeOK'
  <2>1. settled' \subseteq Events
    BY <1>7 DEF Reply
  <2> QED
    BY <1>7, <2>1, ForgetType DEF Reply, historyVars
<1>8. ASSUME NEW t \in Threads, Kill(t) PROVE TypeOK'
  BY <1>8, ForgetType DEF Kill, historyVars
<1>9. ASSUME NEW handlers \in SUBSET Events, Restart(handlers) PROVE TypeOK'
  BY <1>9, ForgetType DEF Restart, historyVars
<1>10. CASE UNCHANGED vars
  BY <1>10 DEF vars, threadVars, historyVars
<1> QED
  BY <1>1, <1>2, <1>3, <1>4, <1>5, <1>6, <1>7, <1>8, <1>9, <1>10 DEF Next, Dispatch

\* Every column and every variable keeps its type.
THEOREM TypeCorrect == Spec => []TypeOK
<1>1. Init => TypeOK
  BY DEF Init, TypeOK, HandlerStatus
<1> QED
  BY <1>1, TypeInvariant, PTL DEF Spec

--------------------------------------------------------------------------------
(* The inductive invariant: the creator of a row owns its event until it replies. *)

SoleOwner == \A t, u \in Threads, e \in Events : Owns(t, e) /\ Owns(u, e) => t = u

OwnedIsUndecided == \A t \in Threads, e \in Events : Owns(t, e) => table[e] = "duplicate"

\* What the history says of an event at each stage of its owner.
Progress ==
    \A t \in Threads, e \in Events : Owns(t, e) =>
        /\ pc[t] = "created" => runs[e] = 0
        /\ pc[t] = "handling" => runs[e] = 1
        /\ pc[t] = "save" =>
              /\ verdict[t] \in Final
              /\ verdict[t] = "processed" => outcome[e] = "returned"
              /\ verdict[t] = "error" => outcome[e] = "raised"
              /\ verdict[t] = "no_handler" => runs[e] = 0

OnceInv == SoleOwner /\ OwnedIsUndecided /\ Progress /\ StatusTellsTheTruth /\ HandledAtMostOnce

\* A step that leaves the table and the history alone, and after which no thread owns
\* what it did not own at the same stage before.
LEMMA OnceQuiet ==
    ASSUME OnceInv, UNCHANGED <<table, runs, outcome>>,
           \A t \in Threads, e \in Events : Owns(t, e)' =>
               Owns(t, e) /\ pc'[t] = pc[t] /\ verdict'[t] = verdict[t]
    PROVE  OnceInv'
BY DEF OnceInv, SoleOwner, OwnedIsUndecided, Progress, StatusTellsTheTruth, HandledAtMostOnce

LEMMA OnceStep == TypeOK /\ OnceInv /\ [Next]_vars => OnceInv'
<1> SUFFICES ASSUME TypeOK, OnceInv, [Next]_vars PROVE OnceInv'
  OBVIOUS
<1>1. ASSUME NEW t \in Threads, NEW e \in Events, NEW r \in Requests, Receive(t, e, r) PROVE OnceInv'
  <2>1. pc'[t] \in {"lookup", "reply"} /\ \A u \in Threads \ {t} : pc'[u] = pc[u] /\ ev'[u] = ev[u]
    BY <1>1 DEF Receive, Answer, GoTo, TypeOK
  <2> QED
    BY <1>1, <2>1, OnceQuiet DEF Receive, Owns
<1>2. ASSUME NEW t \in Threads, Lookup(t) PROVE OnceInv'
  <2>1. pc'[t] \in {"insert", "reply"} /\ \A u \in Threads \ {t} : pc'[u] = pc[u]
    BY <1>2 DEF Lookup, Answer, GoTo, TypeOK
  <2> QED
    BY <1>2, <2>1, OnceQuiet DEF Lookup, Owns, historyVars
<1>3. ASSUME NEW t \in Threads, Insert(t) PROVE OnceInv'
  <2>1. ev[t] \in Events
    BY <1>3 DEF Insert, TypeOK
  <2>2. CASE table[ev[t]] = "absent"
    <3>1. /\ table' = [table EXCEPT ![ev[t]] = "duplicate"]
          /\ pc' = [pc EXCEPT ![t] = "created"]
          /\ UNCHANGED <<ev, verdict, runs, outcome>>
      BY <1>3, <2>2 DEF Insert, GoTo, historyVars
    <3>2. \A u \in Threads : ~Owns(u, ev[t])
      BY <2>1, <2>2 DEF OnceInv, OwnedIsUndecided
    <3>3. runs[ev[t]] = 0
      BY <2>1, <2>2 DEF OnceInv, StatusTellsTheTruth
    <3> QED
      BY <2>1, <3>1, <3>2, <3>3
         DEF OnceInv, SoleOwner, OwnedIsUndecided, Progress, StatusTellsTheTruth,
             HandledAtMostOnce, Owns, TypeOK
  <2>3. CASE table[ev[t]] # "absent"
    <3>1. /\ pc' = [pc EXCEPT ![t] = "reply"]
          /\ UNCHANGED <<table, ev, verdict, runs, outcome>>
      BY <1>3, <2>3 DEF Insert, Answer, GoTo, historyVars
    <3> QED
      BY <3>1, OnceQuiet DEF Owns, TypeOK
  <2> QED
    BY <2>2, <2>3
<1>4. ASSUME NEW t \in Threads, NoHandler(t) PROVE OnceInv'
  <2>1. /\ pc[t] = "created" /\ ev[t] \in Events
        /\ pc' = [pc EXCEPT ![t] = "save"]
        /\ verdict' = [verdict EXCEPT ![t] = "no_handler"]
        /\ UNCHANGED <<table, ev, runs, outcome>>
    BY <1>4 DEF NoHandler, Conclude, GoTo, historyVars, TypeOK
  <2> QED
    BY <2>1 DEF OnceInv, SoleOwner, OwnedIsUndecided, Progress, StatusTellsTheTruth,
                HandledAtMostOnce, Owns, TypeOK, Final, HandlerStatus
<1>5. ASSUME NEW t \in Threads, CallHandler(t) PROVE OnceInv'
  <2>1. /\ pc[t] = "created" /\ ev[t] \in Events
        /\ pc' = [pc EXCEPT ![t] = "handling"]
        /\ runs' = [runs EXCEPT ![ev[t]] = @ + 1]
        /\ UNCHANGED <<table, ev, verdict, outcome>>
    BY <1>5 DEF CallHandler, GoTo, TypeOK
  <2>2. runs[ev[t]] = 0 /\ table[ev[t]] = "duplicate" /\ Owns(t, ev[t])
    BY <2>1 DEF OnceInv, OwnedIsUndecided, Progress, Owns
  <2>3. runs'[ev[t]] = 1 /\ \A e \in Events \ {ev[t]} : runs'[e] = runs[e]
    BY <2>1, <2>2 DEF TypeOK
  <2> QED
    BY <2>1, <2>2, <2>3
       DEF OnceInv, SoleOwner, OwnedIsUndecided, Progress, StatusTellsTheTruth,
           HandledAtMostOnce, Owns, TypeOK
<1>6. ASSUME NEW t \in Threads, HandlerReturns(t) \/ HandlerRaises(t) PROVE OnceInv'
  <2>1. PICK status, result :
            /\ <<status, result>> \in {<<"processed", "returned">>, <<"error", "raised">>}
            /\ pc[t] = "handling" /\ ev[t] \in Events
            /\ pc' = [pc EXCEPT ![t] = "save"]
            /\ verdict' = [verdict EXCEPT ![t] = status]
            /\ outcome' = [outcome EXCEPT ![ev[t]] = result]
            /\ UNCHANGED <<table, ev, runs>>
    BY <1>6 DEF HandlerReturns, HandlerRaises, Conclude, GoTo, TypeOK
  <2>2. table[ev[t]] = "duplicate" /\ Owns(t, ev[t])
    BY <2>1 DEF OnceInv, OwnedIsUndecided, Owns
  <2> QED
    BY <2>1, <2>2
       DEF OnceInv, SoleOwner, OwnedIsUndecided, Progress, StatusTellsTheTruth,
           HandledAtMostOnce, Owns, TypeOK, Final, HandlerStatus
<1>7. ASSUME NEW t \in Threads, Save(t) PROVE OnceInv'
  <2>1. /\ pc[t] = "save" /\ ev[t] \in Events
        /\ pc' = [pc EXCEPT ![t] = "reply"]
        /\ table' = [table EXCEPT ![ev[t]] = verdict[t]]
        /\ UNCHANGED <<ev, verdict, runs, outcome>>
    BY <1>7 DEF Save, GoTo, historyVars, TypeOK
  <2>2. /\ verdict[t] \in Final
        /\ verdict[t] = "processed" => outcome[ev[t]] = "returned"
        /\ verdict[t] = "error" => outcome[ev[t]] = "raised"
        /\ verdict[t] = "no_handler" => runs[ev[t]] = 0
    BY <2>1 DEF OnceInv, Progress, Owns
  <2>3. \A u \in Threads \ {t} : ~Owns(u, ev[t])
    BY <2>1 DEF OnceInv, SoleOwner, Owns
  <2> QED
    BY <2>1, <2>2, <2>3
       DEF OnceInv, SoleOwner, OwnedIsUndecided, Progress, StatusTellsTheTruth,
           HandledAtMostOnce, Owns, TypeOK, Final, HandlerStatus
<1>8. ASSUME NEW T \in SUBSET Threads, Forget(T), UNCHANGED <<table, runs, outcome>> PROVE OnceInv'
  BY <1>8, OnceQuiet DEF Forget, Owns
<1>9. CASE UNCHANGED vars
  BY <1>9, OnceQuiet DEF vars, threadVars, historyVars, Owns
<1> QED
  BY <1>1, <1>2, <1>3, <1>4, <1>5, <1>6, <1>7, <1>8, <1>9
     DEF Next, Dispatch, Reply, Kill, Restart, historyVars

LEMMA OnceInvariant == Spec => []OnceInv
<1>1. Init => OnceInv
  BY DEF Init, OnceInv, SoleOwner, OwnedIsUndecided, Progress, StatusTellsTheTruth,
         HandledAtMostOnce, Owns
<1> QED
  BY <1>1, OnceStep, TypeCorrect, PTL DEF Spec

\* However often and however concurrently an event arrives, and whatever crashes in
\* between, its handler is called at most once.
THEOREM AtMostOneCall == Spec => []HandledAtMostOnce
<1>1. OnceInv => HandledAtMostOnce
  BY DEF OnceInv
<1> QED
  BY <1>1, OnceInvariant, PTL

\* The dedup log tells how the call really ended.
THEOREM TruthfulLog == Spec => []StatusTellsTheTruth
<1>1. OnceInv => StatusTellsTheTruth
  BY DEF OnceInv
<1> QED
  BY <1>1, OnceInvariant, PTL

\* A verdict, once written, stays.
THEOREM VerdictsAreFinal == Spec => VerdictIsFinal
<1> DEFINE Stays == \A e \in Events : table[e] \in Final => table'[e] = table[e]
<1>1. TypeOK /\ OnceInv /\ [Next]_vars => [Stays]_vars
  <2> SUFFICES ASSUME TypeOK, OnceInv, Next, NEW e \in Events, table[e] \in Final
               PROVE  table'[e] = table[e]
    OBVIOUS
  <2>1. ASSUME NEW t \in Threads, Insert(t) PROVE table'[e] = table[e]
    BY <2>1 DEF Insert, TypeOK, Final, HandlerStatus
  <2>2. ASSUME NEW t \in Threads, Save(t) PROVE table'[e] = table[e]
    <3>1. e # ev[t]
      BY <2>2 DEF Save, OnceInv, OwnedIsUndecided, Owns, Final
    <3> QED
      BY <2>2, <3>1 DEF Save, TypeOK
  <2>3. CASE UNCHANGED table
    BY <2>3
  <2> QED
    BY <2>1, <2>2, <2>3
       DEF Next, Dispatch, Receive, Lookup, NoHandler, CallHandler, HandlerReturns, HandlerRaises,
           Reply, Kill, Restart
<1> QED
  BY <1>1, TypeCorrect, OnceInvariant, PTL DEF Spec, VerdictIsFinal

--------------------------------------------------------------------------------
(* Who works on an event without a verdict, and what is behind a record. *)

\* Short of a fault somebody owns every event without a verdict.
Owned ==
    faults = 0 =>
        \A e \in Events : table[e] = "duplicate" => \E t \in Threads : Owns(t, e)

\* A step that leaves the table and the owners of every event alone.
LEMMA OwnedQuiet ==
    ASSUME Owned, UNCHANGED <<table, faults>>,
           \A t \in Threads, e \in Events : Owns(t, e) => Owns(t, e)'
    PROVE  Owned'
BY DEF Owned

LEMMA OwnedStep == TypeOK /\ OnceInv /\ Owned /\ [Next]_vars => Owned'
<1> SUFFICES ASSUME TypeOK, OnceInv, Owned, [Next]_vars PROVE Owned'
  OBVIOUS
<1>1. ASSUME NEW t \in Threads, NEW e \in Events, NEW r \in Requests, Receive(t, e, r) PROVE Owned'
  <2>1. pc[t] = "idle" /\ \A u \in Threads \ {t} : pc'[u] = pc[u] /\ ev'[u] = ev[u]
    BY <1>1 DEF Receive, Answer, GoTo, TypeOK
  <2> QED
    BY <1>1, <2>1, OwnedQuiet DEF Receive, Owns
<1>2. ASSUME NEW t \in Threads, Lookup(t) PROVE Owned'
  <2>1. pc[t] = "lookup" /\ ev' = ev /\ \A u \in Threads \ {t} : pc'[u] = pc[u]
    BY <1>2 DEF Lookup, Answer, GoTo, TypeOK
  <2> QED
    BY <1>2, <2>1, OwnedQuiet DEF Lookup, Owns
<1>3. ASSUME NEW t \in Threads, Insert(t) PROVE Owned'
  <2>1. pc[t] = "insert" /\ ev' = ev /\ \A u \in Threads \ {t} : pc'[u] = pc[u]
    BY <1>3 DEF Insert, Answer, GoTo, TypeOK
  <2>2. CASE table[ev[t]] = "absent"
    <3>1. pc'[t] = "created" /\ \A e \in Events \ {ev[t]} : table'[e] = table[e]
      BY <1>3, <2>2 DEF Insert, GoTo, TypeOK
    <3> QED
      BY <1>3, <2>1, <3>1 DEF Owned, Owns, Insert
  <2>3. CASE table[ev[t]] # "absent"
    BY <1>3, <2>1, <2>3, OwnedQuiet DEF Insert, Owns
  <2> QED
    BY <2>2, <2>3
<1>4. ASSUME NEW t \in Threads, NoHandler(t) \/ CallHandler(t) \/ HandlerReturns(t) \/ HandlerRaises(t)
      PROVE  Owned'
  <2>1. /\ pc[t] \in {"created", "handling"} /\ pc'[t] \in {"handling", "save"}
        /\ \A u \in Threads \ {t} : pc'[u] = pc[u]
        /\ UNCHANGED <<table, ev, faults>>
    BY <1>4 DEF NoHandler, CallHandler, HandlerReturns, HandlerRaises, Conclude, GoTo, TypeOK
  <2> QED
    BY <2>1, OwnedQuiet DEF Owns
<1>5. ASSUME NEW t \in Threads, Save(t) PROVE Owned'
  <2>1. /\ pc[t] = "save" /\ ev' = ev /\ faults' = faults
        /\ \A u \in Threads \ {t} : pc'[u] = pc[u]
        /\ table' = [table EXCEPT ![ev[t]] = verdict[t]]
    BY <1>5 DEF Save, GoTo, TypeOK
  <2>2. ev[t] \in Events /\ verdict[t] # "duplicate"
    BY <2>1 DEF OnceInv, Progress, Owns, TypeOK, Final
  <2>3. \A e \in Events \ {ev[t]} : table'[e] = table[e]
    BY <2>1 DEF TypeOK
  <2>4. table'[ev[t]] # "duplicate"
    BY <2>1, <2>2 DEF TypeOK
  <2> QED
    BY <2>1, <2>2, <2>3, <2>4 DEF Owned, Owns
<1>6. ASSUME NEW t \in Threads, Reply(t) PROVE Owned'
  <2>1. pc[t] = "reply" /\ \A u \in Threads \ {t} : pc'[u] = pc[u] /\ ev'[u] = ev[u]
    BY <1>6 DEF Reply, Forget
  <2> QED
    BY <1>6, <2>1, OwnedQuiet DEF Reply, Owns
<1>7. ASSUME NEW t \in Threads, Kill(t) PROVE Owned'
  BY <1>7, FaultsAssumption DEF Kill, Owned, TypeOK
<1>8. ASSUME NEW handlers \in SUBSET Events, Restart(handlers) PROVE Owned'
  BY <1>8, FaultsAssumption DEF Restart, Owned, TypeOK
<1>9. CASE UNCHANGED vars
  BY <1>9, OwnedQuiet DEF vars, threadVars, Owns
<1> QED
  BY <1>1, <1>2, <1>3, <1>4, <1>5, <1>6, <1>7, <1>8, <1>9 DEF Next, Dispatch

\* Short of a fault, an event without a verdict is being worked on by exactly one thread.
THEOREM UndecidedIsOwned == Spec => []UndecidedHasOwner
<1>1. Init => Owned
  BY DEF Init, Owned
<1>2. TypeOK /\ OnceInv /\ Owned => UndecidedHasOwner
  BY DEF TypeOK, OnceInv, SoleOwner, Owned, UndecidedHasOwner
<1> QED
  BY <1>1, <1>2, OwnedStep, TypeCorrect, OnceInvariant, PTL DEF Spec

\* What passes the checks of steps 2 to 5 is authentic, whatever the tolerance.
LEMMA AcceptedIsAuthentic ==
    ASSUME NEW r \in Requests, Refusal(r) = 200
    PROVE  Authentic(r)
<1>1. r.known /\ Verify(r.signature) = "accepted"
  BY DEF Refusal, Verify
<1>2. r.signature \in Signature
  BY RequestsAssumption DEF Request
<1>3. /\ r.signature.shape = "proper" /\ r.signature.genuine
      /\ InWindow(r.signature.age) /\ r.signature.age \in Int
  BY <1>1, <1>2 DEF Verify, Signature, Shape
<1>4. Tolerance * Ticks \in Int
  BY TicksAssumption, ToleranceAssumption
<1> QED
  BY <1>1, <1>3, <1>4 DEF Authentic, InWindow

\* Where a thread is says whether its event is known to be verified and recorded.
Trail ==
    /\ \A t \in Threads :
          /\ pc[t] \in {"lookup", "insert"} => ev[t] \in verified
          /\ pc[t] = "reply" /\ code[t] = 200 => table[ev[t]] # "absent"
    /\ \A e \in Events : e \in settled => table[e] # "absent"
    /\ \A e \in Events : table[e] # "absent" => e \in verified

\* A step that creates no row, settles nothing, and moves no thread to a stage of the trail.
LEMMA TrailQuiet ==
    ASSUME Trail, UNCHANGED <<table, settled>>, verified \subseteq verified',
           \A t \in Threads :
              /\ pc'[t] \in {"lookup", "insert"} =>
                    ev'[t] = ev[t] /\ pc[t] \in {"lookup", "insert"}
              /\ pc'[t] = "reply" /\ code'[t] = 200 =>
                    ev'[t] = ev[t] /\ pc[t] = "reply" /\ code[t] = 200
    PROVE  Trail'
BY DEF Trail

LEMMA TrailStep == TypeOK /\ OnceInv /\ Trail /\ [Next]_vars => Trail'
<1> SUFFICES ASSUME TypeOK, OnceInv, Trail, [Next]_vars PROVE Trail'
  OBVIOUS
<1>1. ASSUME NEW t \in Threads, NEW e \in Events, NEW r \in Requests, Receive(t, e, r) PROVE Trail'
  <2>1. /\ \A u \in Threads \ {t} : pc'[u] = pc[u] /\ ev'[u] = ev[u] /\ code'[u] = code[u]
        /\ ev'[t] = e /\ UNCHANGED <<table, settled>>
        /\ verified \subseteq verified'
    BY <1>1 DEF Receive, Answer, GoTo, TypeOK
  <2>2. CASE Refusal(r) = 200
    <3>1. pc'[t] = "lookup" /\ e \in verified'
      BY <1>1, <2>2, AcceptedIsAuthentic DEF Receive, GoTo, TypeOK
    <3> QED
      BY <2>1, <3>1 DEF Trail
  <2>3. CASE Refusal(r) # 200
    <3>1. pc'[t] = "reply" /\ code'[t] # 200
      BY <1>1, <2>3 DEF Receive, Answer, GoTo, TypeOK
    <3> QED
      BY <2>1, <3>1, TrailQuiet
  <2> QED
    BY <2>2, <2>3
<1>2. ASSUME NEW t \in Threads, Lookup(t) PROVE Trail'
  <2>1. /\ \A u \in Threads \ {t} : pc'[u] = pc[u] /\ code'[u] = code[u]
        /\ UNCHANGED <<table, ev, verified, settled>>
        /\ pc[t] = "lookup"
        /\ pc'[t] = "insert" \/ (pc'[t] = "reply" /\ table[ev[t]] # "absent")
    BY <1>2 DEF Lookup, Answer, GoTo, historyVars, TypeOK
  <2> QED
    BY <2>1 DEF Trail
<1>3. ASSUME NEW t \in Threads, Insert(t) PROVE Trail'
  <2>1. /\ \A u \in Threads \ {t} : pc'[u] = pc[u] /\ code'[u] = code[u]
        /\ UNCHANGED <<ev, verified, settled>>
        /\ pc[t] = "insert" /\ ev[t] \in verified
    BY <1>3 DEF Insert, Answer, GoTo, historyVars, TypeOK, Trail
  <2>2. \A e \in Events : table[e] # "absent" => table'[e] # "absent"
    BY <1>3 DEF Insert, TypeOK
  <2>3. \A e \in Events \ {ev[t]} : table'[e] = table[e]
    BY <1>3 DEF Insert, TypeOK
  <2>4. pc'[t] = "created" \/ (pc'[t] = "reply" /\ table'[ev[t]] # "absent")
    BY <1>3 DEF Insert, Answer, GoTo, TypeOK
  <2>5. \A u \in Threads : pc[u] # "idle" => ev[u] \in Events
    BY DEF TypeOK
  <2> QED
    BY <2>1, <2>2, <2>3, <2>4, <2>5 DEF Trail
<1>4. ASSUME NEW t \in Threads, NoHandler(t) \/ CallHandler(t) \/ HandlerReturns(t) \/ HandlerRaises(t)
      PROVE  Trail'
  <2>1. /\ pc'[t] \in {"handling", "save"}
        /\ \A u \in Threads \ {t} : pc'[u] = pc[u] /\ code'[u] = code[u]
        /\ UNCHANGED <<table, ev, verified, settled>>
    BY <1>4 DEF NoHandler, CallHandler, HandlerReturns, HandlerRaises, Conclude, GoTo,
                historyVars, TypeOK
  <2> QED
    BY <2>1, TrailQuiet
<1>5. ASSUME NEW t \in Threads, Save(t) PROVE Trail'
  <2>1. /\ pc[t] = "save" /\ ev[t] \in Events /\ pc'[t] = "reply"
        /\ \A u \in Threads \ {t} : pc'[u] = pc[u]
        /\ table' = [table EXCEPT ![ev[t]] = verdict[t]]
        /\ UNCHANGED <<ev, code, verified, settled>>
    BY <1>5 DEF Save, GoTo, historyVars, TypeOK
  <2>2. table[ev[t]] = "duplicate" /\ verdict[t] # "absent"
    BY <2>1 DEF OnceInv, OwnedIsUndecided, Owns, TypeOK, HandlerStatus
  <2>3. \A e \in Events : table'[e] # "absent" <=> table[e] # "absent"
    BY <2>1, <2>2 DEF TypeOK
  <2>4. \A u \in Threads : pc[u] # "idle" => ev[u] \in Events
    BY DEF TypeOK
  <2> QED
    BY <2>1, <2>2, <2>3, <2>4 DEF Trail
<1>6. ASSUME NEW t \in Threads, Reply(t) PROVE Trail'
  <2>1. /\ \A u \in Threads \ {t} : pc'[u] = pc[u] /\ ev'[u] = ev[u] /\ code'[u] = code[u]
        /\ pc[t] = "reply" /\ pc'[t] = "idle"
        /\ settled' = IF code[t] = 200 THEN settled \cup {ev[t]} ELSE settled
        /\ UNCHANGED <<table, verified>>
    BY <1>6 DEF Reply, Forget, historyVars
  <2> QED
    BY <2>1 DEF Trail
<1>7. ASSUME NEW T \in SUBSET Threads, Forget(T), UNCHANGED <<table, verified, settled>> PROVE Trail'
  BY <1>7, TrailQuiet DEF Forget
<1>8. CASE UNCHANGED vars
  BY <1>8, TrailQuiet DEF vars, threadVars, historyVars
<1> QED
  BY <1>1, <1>2, <1>3, <1>4, <1>5, <1>6, <1>7, <1>8
     DEF Next, Dispatch, Kill, Restart, historyVars

LEMMA TrailInvariant == Spec => []Trail
<1>1. Init => Trail
  BY DEF Init, Trail
<1> QED
  BY <1>1, TrailStep, TypeCorrect, OnceInvariant, PTL DEF Spec

\* Nothing is recorded without a request whose body was signed within the tolerance, and
\* nobody is told 200 for an event that the table does not know.
THEOREM OnlyVerified == Spec => []OnlyVerifiedRecorded
<1>1. Trail => OnlyVerifiedRecorded
  BY DEF Trail, OnlyVerifiedRecorded
<1> QED
  BY <1>1, TrailInvariant, PTL

--------------------------------------------------------------------------------
(* The promise to the sender, which every step keeps. *)

\* A call has no ending before it is made, or while it is being made.
Unended ==
    /\ \A e \in Events : runs[e] = 0 => outcome[e] = "none"
    /\ \A t \in Threads, e \in Events : Owns(t, e) /\ pc[t] = "handling" => outcome[e] = "none"

\* A step that calls no handler and ends no call.
LEMMA UnendedQuiet ==
    ASSUME Unended, UNCHANGED <<runs, outcome>>,
           \A t \in Threads : pc'[t] = "handling" => pc[t] = "handling" /\ ev'[t] = ev[t]
    PROVE  Unended'
BY DEF Unended, Owns

LEMMA UnendedStep == TypeOK /\ OnceInv /\ Unended /\ [Next]_vars => Unended'
<1> SUFFICES ASSUME TypeOK, OnceInv, Unended, [Next]_vars PROVE Unended'
  OBVIOUS
<1>1. ASSUME NEW t \in Threads, NEW e \in Events, NEW r \in Requests, Receive(t, e, r) PROVE Unended'
  <2>1. pc'[t] # "handling" /\ \A u \in Threads \ {t} : pc'[u] = pc[u] /\ ev'[u] = ev[u]
    BY <1>1 DEF Receive, Answer, GoTo, TypeOK
  <2> QED
    BY <1>1, <2>1, UnendedQuiet DEF Receive
<1>2. ASSUME NEW t \in Threads, Lookup(t) \/ Insert(t) \/ NoHandler(t) \/ Save(t) PROVE Unended'
  <2>1. pc'[t] # "handling" /\ \A u \in Threads \ {t} : pc'[u] = pc[u]
    BY <1>2 DEF Lookup, Insert, NoHandler, Save, Answer, Conclude, GoTo, TypeOK
  <2>2. UNCHANGED <<ev, runs, outcome>>
    BY <1>2 DEF Lookup, Insert, NoHandler, Save, historyVars
  <2> QED
    BY <2>1, <2>2, UnendedQuiet
<1>3. ASSUME NEW t \in Threads, CallHandler(t) PROVE Unended'
  <2>1. /\ pc[t] = "created" /\ ev[t] \in Events
        /\ \A u \in Threads \ {t} : pc'[u] = pc[u]
        /\ runs' = [runs EXCEPT ![ev[t]] = @ + 1]
        /\ UNCHANGED <<ev, outcome>>
    BY <1>3 DEF CallHandler, GoTo, TypeOK
  <2>2. runs[ev[t]] = 0
    BY <2>1 DEF OnceInv, Progress, Owns
  <2>3. runs'[ev[t]] = 1 /\ \A e \in Events \ {ev[t]} : runs'[e] = runs[e]
    BY <2>1, <2>2 DEF TypeOK
  <2> QED
    BY <2>1, <2>2, <2>3 DEF Unended, Owns
<1>4. ASSUME NEW t \in Threads, HandlerReturns(t) \/ HandlerRaises(t) PROVE Unended'
  <2>1. /\ pc[t] = "handling" /\ pc'[t] = "save" /\ ev[t] \in Events
        /\ \A u \in Threads \ {t} : pc'[u] = pc[u]
        /\ \A e \in Events \ {ev[t]} : outcome'[e] = outcome[e]
        /\ UNCHANGED <<ev, runs>>
    BY <1>4 DEF HandlerReturns, HandlerRaises, Conclude, GoTo, TypeOK
  <2>2. runs[ev[t]] = 1 /\ \A u \in Threads \ {t} : ~Owns(u, ev[t])
    BY <2>1 DEF OnceInv, SoleOwner, Progress, Owns
  <2> QED
    BY <2>1, <2>2 DEF Unended, Owns
<1>5. ASSUME NEW T \in SUBSET Threads, Forget(T), UNCHANGED <<runs, outcome>> PROVE Unended'
  BY <1>5, UnendedQuiet DEF Forget
<1>6. CASE UNCHANGED vars
  BY <1>6, UnendedQuiet DEF vars, threadVars, historyVars
<1> QED
  BY <1>1, <1>2, <1>3, <1>4, <1>5, <1>6 DEF Next, Dispatch, Reply, Kill, Restart, historyVars

LEMMA UnendedInvariant == Spec => []Unended
<1>1. Init => Unended
  BY DEF Init, Unended, Owns
<1> QED
  BY <1>1, UnendedStep, TypeCorrect, OnceInvariant, PTL DEF Spec

\* What the promise sees of a step of dispatch.
LEMMA DispatchMapped ==
    ASSUME TypeOK, OnceInv, Trail, Unended, NEW t \in Threads, Dispatch(t)
    PROVE  [Promise!Next]_(Promise!vars)
<1>0. pc[t] # "idle" => ev[t] \in Events
  BY DEF TypeOK
<1>1. CASE Lookup(t) \/ NoHandler(t)
  BY <1>1 DEF Lookup, NoHandler, historyVars, Promise!vars
<1>2. CASE Insert(t)
  <2>1. ev[t] \in Events /\ ev[t] \in verified
    BY <1>0, <1>2 DEF Insert, Trail
  <2>2. CASE table[ev[t]] = "absent"
    <3>1. Promise!Record(ev[t])
      BY <1>2, <2>1, <2>2 DEF Insert, historyVars, Promise!Record
    <3> QED
      BY <2>1, <3>1 DEF Promise!Next
  <2>3. CASE table[ev[t]] # "absent"
    BY <1>2, <2>3 DEF Insert, historyVars, Promise!vars
  <2> QED
    BY <2>2, <2>3
<1>3. CASE CallHandler(t)
  <2>1. ev[t] \in Events /\ Owns(t, ev[t]) /\ pc[t] = "created"
    BY <1>0, <1>3 DEF CallHandler, Owns
  <2>2. table[ev[t]] = "duplicate" /\ runs[ev[t]] = 0
    BY <2>1 DEF OnceInv, OwnedIsUndecided, Progress
  <2>3. runs' = [runs EXCEPT ![ev[t]] = 1]
    BY <1>3, <2>2 DEF CallHandler
  <2>4. Promise!Call(ev[t])
    BY <1>3, <2>2, <2>3 DEF CallHandler, Promise!Call
  <2> QED
    BY <2>1, <2>4 DEF Promise!Next
<1>4. CASE HandlerReturns(t) \/ HandlerRaises(t)
  <2>1. ev[t] \in Events /\ Owns(t, ev[t]) /\ pc[t] = "handling"
    BY <1>0, <1>4 DEF HandlerReturns, HandlerRaises, Owns
  <2>2. table[ev[t]] = "duplicate" /\ runs[ev[t]] = 1 /\ outcome[ev[t]] = "none"
    BY <2>1 DEF OnceInv, OwnedIsUndecided, Progress, Unended
  <2>3. PICK how \in {"returned", "raised"} : outcome' = [outcome EXCEPT ![ev[t]] = how]
    BY <1>4 DEF HandlerReturns, HandlerRaises
  <2>4. Promise!End(ev[t], how)
    BY <1>4, <2>2, <2>3 DEF HandlerReturns, HandlerRaises, Promise!End
  <2> QED
    BY <2>1, <2>4 DEF Promise!Next
<1>5. CASE Save(t)
  <2>1. ev[t] \in Events /\ Owns(t, ev[t]) /\ pc[t] = "save"
    BY <1>0, <1>5 DEF Save, Owns
  <2>2. /\ table[ev[t]] = "duplicate" /\ verdict[t] \in {"no_handler", "processed", "error"}
        /\ Promise!Justified(ev[t], verdict[t])
    BY <2>1 DEF OnceInv, OwnedIsUndecided, Progress, Final, HandlerStatus, Promise!Justified
  <2>3. Promise!Decide(ev[t], verdict[t])
    BY <1>5, <2>2 DEF Save, historyVars, Promise!Decide
  <2> QED
    BY <2>1, <2>2, <2>3 DEF Promise!Next
<1>6. CASE Reply(t)
  <2>1. ev[t] \in Events
    BY <1>0, <1>6 DEF Reply
  <2>2. CASE code[t] = 200
    <3>1. Promise!Tell(ev[t])
      BY <1>6, <2>2 DEF Reply, historyVars, Trail, Promise!Tell
    <3> QED
      BY <2>1, <3>1 DEF Promise!Next
  <2>3. CASE code[t] # 200
    BY <1>6, <2>3 DEF Reply, historyVars, Promise!vars
  <2> QED
    BY <2>2, <2>3
<1> QED
  BY <1>1, <1>2, <1>3, <1>4, <1>5, <1>6 DEF Dispatch

\* However many threads race for an event and whatever dies among them, the sender sees
\* one recording, at most one call and one justified verdict for ever.
THEOREM PromiseIsKept == Spec => ImplementsPromise
<1>1. Init => Promise!Init
  BY DEF Init, Promise!Init
<1>2. TypeOK /\ OnceInv /\ Trail /\ Unended /\ [Next]_vars => [Promise!Next]_(Promise!vars)
  <2> SUFFICES ASSUME TypeOK, OnceInv, Trail, Unended, [Next]_vars
               PROVE  [Promise!Next]_(Promise!vars)
    OBVIOUS
  <2>1. ASSUME NEW t \in Threads, NEW e \in Events, NEW r \in Requests, Receive(t, e, r)
        PROVE  [Promise!Next]_(Promise!vars)
    <3>1. CASE Authentic(r)
      <4>1. Promise!Show(e)
        BY <2>1, <3>1 DEF Receive, Promise!Show
      <4> QED
        BY <4>1 DEF Promise!Next
    <3>2. CASE ~Authentic(r)
      BY <2>1, <3>2 DEF Receive, Promise!vars
    <3> QED
      BY <3>1, <3>2
  <2>2. ASSUME NEW t \in Threads, Kill(t) PROVE UNCHANGED Promise!vars
    BY <2>2 DEF Kill, historyVars, Promise!vars
  <2>3. ASSUME NEW handlers \in SUBSET Events, Restart(handlers) PROVE UNCHANGED Promise!vars
    BY <2>3 DEF Restart, historyVars, Promise!vars
  <2>4. CASE UNCHANGED vars
    BY <2>4 DEF vars, threadVars, historyVars, Promise!vars
  <2> QED
    BY <2>1, <2>2, <2>3, <2>4, DispatchMapped DEF Next
<1> QED
  BY <1>1, <1>2, TypeCorrect, OnceInvariant, TrailInvariant, UnendedInvariant, PTL
     DEF Spec, ImplementsPromise, Promise!Spec

--------------------------------------------------------------------------------
(* What the tolerance means for a sender: compute_signature truncates its clock to
   a whole second, verify_signature compares that with a clock that is not. *)

\* A message is accepted for one second less than the tolerance, if the clocks agree ...
THEOREM PromptIsInWindow ==
    ASSUME NEW sent \in Int, NEW received \in Int, NEW seconds \in Int,
           IsStamp(seconds, sent), sent <= received,
           received - sent <= Tolerance * Ticks - Ticks
    PROVE  InWindow(received - seconds * Ticks)
<1>1. /\ Tolerance * Ticks \in Nat
      /\ seconds * Ticks \in Int /\ (seconds + 1) * Ticks = seconds * Ticks + Ticks
      /\ Ticks \in Nat
  BY TicksAssumption, ToleranceAssumption
<1> QED
  BY <1>1 DEF IsStamp, InWindow

\* ... and refused once it is older than the tolerance.
THEOREM ReplayIsOutOfWindow ==
    ASSUME NEW sent \in Int, NEW received \in Int, NEW seconds \in Int,
           IsStamp(seconds, sent), received - sent > Tolerance * Ticks
    PROVE  ~InWindow(received - seconds * Ticks)
<1>1. Tolerance * Ticks \in Nat /\ seconds * Ticks \in Int
  BY TicksAssumption, ToleranceAssumption
<1> QED
  BY <1>1 DEF IsStamp, InWindow
================================================================================
