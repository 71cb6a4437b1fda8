----------------------------- MODULE SignalsProofs -----------------------------
(***************************************************************************)
(* Lemmas about transactions and their hooks, for every number of          *)
(* producers and changes: a hook that is about to run announces a change   *)
(* that is durable, newsworthy, and will never be taken back.              *)
(***************************************************************************)
EXTENDS Signals, SequenceTheorems, TLAPS

SignalStep(p) == TransactionStep(p) \/ NextHook(p) \/ DropHooks(p)

\* Change b has a hook of producer p.
Announces(p, b) == \E i \in 1..Len(hooks[p]) : hooks[p][i] = b

\* A change that is not committed belongs to one producer; a committed one to nobody.
OneOwner ==
    /\ \A c \in durable : change[c] # "none"
    /\ \A p \in Producers : \A c \in work[p] :
          /\ change[c] # "none" /\ c \notin durable
          /\ \A q \in Producers \ {p} : c \notin work[q]

\* A hook is about something its producer has made, or has committed.
HooksAreTrue ==
    \A p \in Producers, b \in Changes : Announces(p, b) =>
        /\ Newsworthy(b)
        /\ IF tx[p] = "hooks" THEN b \in durable ELSE b \in work[p]

\* The hooks from before a savepoint are about changes from before it.
MarkSeparates ==
    \A p \in Producers :
        IF tx[p] = "savepoint"
        THEN \A i \in 1..mark[p] : hooks[p][i] \notin inner[p]
        ELSE inner[p] = {} /\ mark[p] = 0

\* Whoever runs hooks has one to run.
HooksLeft == \A p \in Producers : tx[p] = "hooks" => hooks[p] # <<>>

Ledger == SignalsTypeOK /\ OneOwner /\ HooksAreTrue /\ MarkSeparates /\ HooksLeft

\* A durable change stays what it is.
Kept == durable \subseteq durable' /\ \A b \in durable : change'[b] = change[b]

--------------------------------------------------------------------------------
(* Sequences of hooks. *)

LEMMA PrefixOfHooks ==
    ASSUME NEW s \in Seq(Changes), NEW n \in 0..Len(s)
    PROVE  /\ SubSeq(s, 1, n) \in Seq(Changes) /\ Len(SubSeq(s, 1, n)) = n
           /\ \A i \in 1..n : SubSeq(s, 1, n)[i] = s[i]
OBVIOUS

LEMMA TailOfHooks ==
    ASSUME NEW s \in Seq(Changes), s # <<>>
    PROVE  /\ Tail(s) \in Seq(Changes) /\ Len(Tail(s)) = Len(s) - 1
           /\ \A i \in 1..Len(s) - 1 : Tail(s)[i] = s[i + 1]
OBVIOUS

LEMMA MoreHooks ==
    ASSUME NEW s \in Seq(Changes), NEW c \in Changes
    PROVE  /\ Append(s, c) \in Seq(Changes) /\ Len(Append(s, c)) = Len(s) + 1
           /\ \A i \in 1..Len(s) : Append(s, c)[i] = s[i]
           /\ Append(s, c)[Len(s) + 1] = c
OBVIOUS

--------------------------------------------------------------------------------
(* Saves. *)

\* A change that has not been made is in nobody's books.
LEMMA NotMade ==
    ASSUME Ledger, NEW c \in Changes, change[c] = "none"
    PROVE  c \notin durable /\ \A q \in Producers : c \notin work[q] /\ ~Announces(q, c)
BY DEF Ledger, SignalsTypeOK, OneOwner, HooksAreTrue

\* How any save changes the books: the change is added to them, and to nobody else's.
LEMMA SaveKeepsLedger ==
    ASSUME Ledger, SignalsTypeOK', MarkSeparates', HooksLeft',
           NEW p \in Producers, NEW c \in Changes, NEW how \in {"create", "update"},
           change[c] = "none", change' = [change EXCEPT ![c] = how],
           \A q \in Producers \ {p} : work'[q] = work[q] /\ tx'[q] = tx[q] /\ hooks'[q] = hooks[q],
           \A b \in Changes : Announces(p, b)' => Announces(p, b) \/ (b = c /\ Emits(c, how)),
           \/ /\ durable' = durable \cup {c} /\ work'[p] = work[p]
              /\ \/ tx'[p] = "hooks" /\ \A b \in Changes : Announces(p, b)' => b = c
                 \/ tx'[p] = tx[p] /\ tx[p] # "hooks" /\ ~Emits(c, how)
           \/ /\ durable' = durable /\ work'[p] = work[p] \cup {c}
              /\ tx[p] # "hooks" /\ tx'[p] # "hooks"
    PROVE  Ledger' /\ Kept
<1>1. c \notin durable /\ \A q \in Producers : c \notin work[q] /\ ~Announces(q, c)
  BY NotMade
<1>2. /\ change'[c] = how /\ \A b \in Changes \ {c} : change'[b] = change[b]
      /\ \A b \in Changes \ {c} : Newsworthy(b)' <=> Newsworthy(b)
      /\ Emits(c, how) => Newsworthy(c)'
  BY DEF Ledger, SignalsTypeOK, Newsworthy, Emits
<1>3. durable \subseteq Changes /\ \A q \in Producers : work[q] \subseteq Changes
  BY DEF Ledger, SignalsTypeOK
<1>4. OneOwner
  BY DEF Ledger
<1>5. OneOwner'
  <2>1. CASE durable' = durable \cup {c} /\ work'[p] = work[p]
    <3>1. \A q \in Producers : work'[q] = work[q]
      BY <2>1
    <3> QED
      BY <1>1, <1>2, <1>3, <1>4, <2>1, <3>1 DEF OneOwner
  <2>2. CASE durable' = durable /\ work'[p] = work[p] \cup {c}
    <3>1. \A q \in Producers : work'[q] = IF q = p THEN work[q] \cup {c} ELSE work[q]
      BY <2>2
    <3> QED
      BY <1>1, <1>2, <1>3, <1>4, <2>2, <3>1 DEF OneOwner
  <2> QED
    BY <2>1, <2>2
<1>6. HooksAreTrue'
  <2>0. HooksAreTrue
    BY DEF Ledger
  <2>1. ASSUME NEW q \in Producers \ {p}, NEW b \in Changes, Announces(q, b)'
        PROVE  Newsworthy(b)' /\ IF tx'[q] = "hooks" THEN b \in durable' ELSE b \in work'[q]
    <3>1. Announces(q, b)
      BY <2>1 DEF Announces
    <3> QED
      BY <1>1, <1>2, <2>0, <3>1 DEF HooksAreTrue
  <2>2. ASSUME NEW b \in Changes, Announces(p, b)'
        PROVE  Newsworthy(b)' /\ IF tx'[p] = "hooks" THEN b \in durable' ELSE b \in work'[p]
    <3>1. CASE b = c
      BY <1>1, <1>2, <2>2, <3>1
    <3>2. CASE b # c
      BY <1>1, <1>2, <2>0, <2>2, <3>2 DEF HooksAreTrue
    <3> QED
      BY <3>1, <3>2
  <2>3. ASSUME NEW q \in Producers, NEW b \in Changes, Announces(q, b)'
        PROVE  Newsworthy(b)' /\ IF tx'[q] = "hooks" THEN b \in durable' ELSE b \in work'[q]
    BY <2>1, <2>2, <2>3
  <2> QED
    BY <2>3 DEF HooksAreTrue
<1>7. Kept
  BY <1>1, <1>2, <1>3 DEF Kept
<1> QED
  BY <1>5, <1>6, <1>7 DEF Ledger

LEMMA SaveOutsideStep ==
    ASSUME Ledger, NEW p \in Producers, NEW c \in Changes, NEW how \in {"create", "update"},
           SaveOutside(p, c, how)
    PROVE  Ledger' /\ Kept
<1>1. /\ tx[p] = "outside" /\ durable' = durable \cup {c}
      /\ UNCHANGED <<work, inner, mark>>
      /\ \A q \in Producers \ {p} : hooks'[q] = hooks[q] /\ tx'[q] = tx[q]
      /\ \/ Emits(c, how) /\ hooks'[p] = <<c>> /\ tx'[p] = "hooks"
         \/ ~Emits(c, how) /\ hooks'[p] = hooks[p] /\ tx'[p] = tx[p]
  BY DEF SaveOutside, Ledger, SignalsTypeOK
<1>2. mark[p] = 0 /\ inner[p] = {}
  BY <1>1 DEF Ledger, MarkSeparates
<1>3. hooks' \in [Producers -> Seq(Changes)]
  <2>1. <<c>> \in Seq(Changes)
    OBVIOUS
  <2> QED
    BY <2>1 DEF SaveOutside, Ledger, SignalsTypeOK
<1>4. SignalsTypeOK'
  <2>1. ASSUME NEW q \in Producers PROVE mark'[q] <= Len(hooks'[q])
    <3>1. CASE q = p
      BY <1>1, <1>2, <1>3, <3>1
    <3>2. CASE q # p
      BY <1>1, <3>2 DEF Ledger, SignalsTypeOK
    <3> QED
      BY <3>1, <3>2
  <2>2. tx' \in [Producers -> {"outside", "atomic", "savepoint", "hooks"}]
    BY DEF SaveOutside, Ledger, SignalsTypeOK
  <2>3. change' \in [Changes -> {"none", "create", "update"}]
    BY DEF SaveOutside, Ledger, SignalsTypeOK
  <2> QED
    BY <1>1, <1>3, <2>1, <2>2, <2>3 DEF Ledger, SignalsTypeOK
<1>5. MarkSeparates'
  <2>1. ASSUME NEW q \in Producers
        PROVE  IF tx'[q] = "savepoint"
               THEN \A i \in 1..mark'[q] : hooks'[q][i] \notin inner'[q]
               ELSE inner'[q] = {} /\ mark'[q] = 0
    BY <1>1, <1>2 DEF Ledger, MarkSeparates
  <2> QED
    BY <2>1 DEF MarkSeparates
<1>6. HooksLeft'
  BY <1>1 DEF Ledger, HooksLeft
<1>7. \A b \in Changes : Announces(p, b)' => IF Emits(c, how) THEN b = c ELSE Announces(p, b)
  BY <1>1 DEF Announces
<1>8. change[c] = "none" /\ change' = [change EXCEPT ![c] = how]
  BY DEF SaveOutside
<1> QED
  BY <1>1, <1>4, <1>5, <1>6, <1>7, <1>8, SaveKeepsLedger

LEMMA SaveInsideStep ==
    ASSUME Ledger, NEW p \in Producers, NEW c \in Changes, NEW how \in {"create", "update"},
           NEW block \in {"atomic", "savepoint"}, SaveInside(p, c, how, block)
    PROVE  Ledger' /\ Kept
<1>0. SignalsTypeOK
  BY DEF Ledger
<1>1. /\ tx[p] # "hooks" /\ tx'[p] = block
      /\ tx[p] = "savepoint" => block = "savepoint"
      /\ durable' = durable /\ work'[p] = work[p] \cup {c}
      /\ change[c] = "none" /\ change' = [change EXCEPT ![c] = how]
  BY <1>0 DEF SaveInside, SignalsTypeOK
<1>2. \A q \in Producers \ {p} : hooks'[q] = hooks[q] /\ tx'[q] = tx[q] /\ work'[q] = work[q]
  BY <1>0 DEF SaveInside, SignalsTypeOK
<1>3. \A q \in Producers \ {p} : inner'[q] = inner[q] /\ mark'[q] = mark[q]
  BY <1>0 DEF SaveInside, SignalsTypeOK
<1>4. IF block = "savepoint"
      THEN inner' = [inner EXCEPT ![p] = @ \cup {c}]
      ELSE inner' = inner
  BY DEF SaveInside
<1>5. IF block = "savepoint" /\ tx[p] # block
      THEN mark'[p] = Len(hooks[p])
      ELSE mark'[p] = mark[p]
  BY <1>0 DEF SaveInside, SignalsTypeOK
<1>6. /\ hooks' \in [Producers -> Seq(Changes)]
      /\ Len(hooks[p]) <= Len(hooks'[p]) /\ Len(hooks[p]) \in Nat /\ Len(hooks'[p]) \in Nat
      /\ \A i \in 1..Len(hooks[p]) : hooks'[p][i] = hooks[p][i]
      /\ \A b \in Changes : Announces(p, b)' => Announces(p, b) \/ (b = c /\ Emits(c, how))
  <2>0. hooks[p] \in Seq(Changes)
    BY <1>0 DEF SignalsTypeOK
  <2>1. CASE Emits(c, how)
    <3>1. hooks' = [hooks EXCEPT ![p] = Append(hooks[p], c)]
      BY <2>1 DEF SaveInside
    <3>2. Append(hooks[p], c) \in Seq(Changes) /\ hooks'[p] = Append(hooks[p], c)
      BY <1>0, <2>0, <3>1, MoreHooks DEF SignalsTypeOK
    <3>3. hooks' \in [Producers -> Seq(Changes)]
      BY <1>0, <3>1, <3>2 DEF SignalsTypeOK
    <3> QED
      BY <2>0, <2>1, <3>2, <3>3, MoreHooks DEF Announces
  <2>2. CASE ~Emits(c, how)
    BY <1>0, <2>0, <2>2 DEF SaveInside, Announces, SignalsTypeOK
  <2> QED
    BY <2>1, <2>2
<1>7. SignalsTypeOK'
  <2>1. /\ change' \in [Changes -> {"none", "create", "update"}]
        /\ tx' \in [Producers -> {"outside", "atomic", "savepoint", "hooks"}]
        /\ work' \in [Producers -> SUBSET Changes] /\ durable' \subseteq Changes
    BY <1>0 DEF SaveInside, SignalsTypeOK
  <2>2. ASSUME NEW q \in Producers PROVE inner'[q] \subseteq work'[q]
    BY <1>0, <1>1, <1>2, <1>3, <1>4, <2>2 DEF SaveInside, SignalsTypeOK
  <2>3. inner' \in [Producers -> SUBSET Changes]
    <3>1. inner[p] \cup {c} \in SUBSET Changes
      BY <1>0 DEF SignalsTypeOK
    <3>2. CASE block = "savepoint"
      <4>1. inner' = [inner EXCEPT ![p] = inner[p] \cup {c}]
        BY <1>4, <3>2
      <4> QED
        BY <1>0, <3>1, <4>1 DEF SignalsTypeOK
    <3>3. CASE block = "atomic"
      BY <1>0, <1>4, <3>3 DEF SignalsTypeOK
    <3> QED
      BY <3>2, <3>3
  <2>4. mark' \in [Producers -> Nat]
    BY <1>0, <1>6 DEF SaveInside, SignalsTypeOK
  <2>5. ASSUME NEW q \in Producers PROVE mark'[q] <= Len(hooks'[q])
    <3>1. mark[q] \in Nat /\ mark[q] <= Len(hooks[q])
      BY <1>0 DEF SignalsTypeOK
    <3>2. CASE q = p
      BY <1>5, <1>6, <3>1, <3>2
    <3>3. CASE q # p
      BY <1>2, <1>3, <3>1, <3>3
    <3> QED
      BY <3>2, <3>3
  <2> QED
    BY <1>6, <2>1, <2>2, <2>3, <2>4, <2>5 DEF SignalsTypeOK
<1>8. MarkSeparates'
  <2>0. MarkSeparates
    BY DEF Ledger
  <2>1. ASSUME NEW i \in 1..Len(hooks[p]) PROVE hooks[p][i] # c
    <3>1. Announces(p, hooks[p][i])
      BY DEF Announces
    <3> QED
      BY <1>1, <3>1, NotMade
  <2>2. CASE block = "savepoint"
    <3>0. inner'[p] = inner[p] \cup {c}
      BY <1>0, <1>4, <2>2 DEF SaveInside, SignalsTypeOK
    <3>1. ASSUME NEW i \in 1..mark'[p] PROVE hooks'[p][i] \notin inner'[p]
      <4>1. i \in 1..Len(hooks[p]) /\ hooks'[p][i] = hooks[p][i]
        BY <1>0, <1>5, <1>6 DEF SignalsTypeOK
      <4>2. hooks[p][i] \notin inner[p]
        BY <1>1, <1>5, <2>0, <2>2 DEF MarkSeparates
      <4> QED
        BY <2>1, <3>0, <4>1, <4>2
    <3>2. ASSUME NEW q \in Producers \ {p}
          PROVE  IF tx'[q] = "savepoint"
                 THEN \A i \in 1..mark'[q] : hooks'[q][i] \notin inner'[q]
                 ELSE inner'[q] = {} /\ mark'[q] = 0
      BY <1>2, <1>3, <2>0 DEF MarkSeparates
    <3> QED
      BY <1>1, <2>2, <3>1, <3>2 DEF MarkSeparates
  <2>3. CASE block = "atomic"
    <3>1. tx[p] # "savepoint" /\ tx'[p] # "savepoint" /\ inner'[p] = inner[p] /\ mark'[p] = mark[p]
      BY <1>1, <1>4, <1>5, <2>3
    <3>2. ASSUME NEW q \in Producers
          PROVE  IF tx'[q] = "savepoint"
                 THEN \A i \in 1..mark'[q] : hooks'[q][i] \notin inner'[q]
                 ELSE inner'[q] = {} /\ mark'[q] = 0
      BY <1>2, <1>3, <2>0, <3>1 DEF MarkSeparates
    <3> QED
      BY <3>2 DEF MarkSeparates
  <2> QED
    BY <2>2, <2>3
<1>9. HooksLeft'
  BY <1>1, <1>2 DEF Ledger, HooksLeft
<1>10. tx'[p] # "hooks"
  BY <1>1
<1>11. \A q \in Producers \ {p} : work'[q] = work[q] /\ tx'[q] = tx[q] /\ hooks'[q] = hooks[q]
  BY <1>2
<1>12. \A b \in Changes : Announces(p, b)' => Announces(p, b) \/ (b = c /\ Emits(c, how))
  BY <1>6
<1> QED
  BY <1>1, <1>7, <1>8, <1>9, <1>10, <1>11, <1>12, SaveKeepsLedger

--------------------------------------------------------------------------------
(* Rollbacks. *)

LEMMA UndoStep ==
    ASSUME Ledger, NEW p \in Producers, NEW C \in SUBSET Changes, NEW n \in 0..Len(hooks[p]),
           Undo(p, C, n), UNCHANGED durable,
           C \subseteq work[p], \A i \in 1..n : hooks[p][i] \notin C,
           NEW label \in {"outside", "atomic"}, tx[p] # "hooks",
           tx' = [tx EXCEPT ![p] = label]
    PROVE  Ledger' /\ Kept
<1>0. SignalsTypeOK /\ OneOwner /\ HooksAreTrue /\ MarkSeparates /\ HooksLeft
  BY DEF Ledger
<1>1. /\ \A b \in Changes : change'[b] = IF b \in C THEN "none" ELSE change[b]
      /\ \A q \in Producers : work'[q] = IF q = p THEN work[q] \ C ELSE work[q]
      /\ \A q \in Producers : inner'[q] = IF q = p THEN {} ELSE inner[q]
      /\ \A q \in Producers : mark'[q] = IF q = p THEN 0 ELSE mark[q]
      /\ \A q \in Producers : tx'[q] = IF q = p THEN label ELSE tx[q]
      /\ \A q \in Producers \ {p} : hooks'[q] = hooks[q]
      /\ hooks'[p] = SubSeq(hooks[p], 1, n)
  BY <1>0 DEF Undo, SignalsTypeOK
<1>2. /\ hooks'[p] \in Seq(Changes) /\ Len(hooks'[p]) = n /\ n \in Nat
      /\ \A b \in Changes : Announces(p, b)' => Announces(p, b) /\ b \notin C
  <2>1. hooks[p] \in Seq(Changes) /\ Len(hooks[p]) \in Nat
    BY <1>0 DEF SignalsTypeOK
  <2>2. /\ SubSeq(hooks[p], 1, n) \in Seq(Changes) /\ Len(SubSeq(hooks[p], 1, n)) = n
        /\ \A i \in 1..n : SubSeq(hooks[p], 1, n)[i] = hooks[p][i]
    BY <2>1, PrefixOfHooks
  <2> QED
    BY <1>1, <2>1, <2>2 DEF Announces
<1>3. SignalsTypeOK'
  <2>1. change' \in [Changes -> {"none", "create", "update"}]
    BY <1>0 DEF Undo, SignalsTypeOK
  <2>2. /\ tx' \in [Producers -> {"outside", "atomic", "savepoint", "hooks"}]
        /\ work' \in [Producers -> SUBSET Changes] /\ mark' \in [Producers -> Nat]
        /\ inner' \in [Producers -> SUBSET Changes]
    BY <1>0 DEF Undo, SignalsTypeOK
  <2>3. hooks' \in [Producers -> Seq(Changes)]
    BY <1>0, <1>1, <1>2 DEF Undo, SignalsTypeOK
  <2>4. ASSUME NEW q \in Producers PROVE inner'[q] \subseteq work'[q] /\ mark'[q] <= Len(hooks'[q])
    <3>1. CASE q = p
      BY <1>1, <1>2, <3>1
    <3>2. CASE q # p
      BY <1>0, <1>1, <3>2 DEF SignalsTypeOK
    <3> QED
      BY <3>1, <3>2
  <2> QED
    BY <1>0, <2>1, <2>2, <2>3, <2>4 DEF SignalsTypeOK
<1>4. OneOwner'
  <2>1. C \cap durable = {} /\ durable \subseteq Changes /\ \A q \in Producers : work[q] \subseteq Changes
    BY <1>0 DEF OneOwner, SignalsTypeOK
  <2>2. \A q \in Producers \ {p} : work[q] \cap C = {}
    BY <1>0 DEF OneOwner
  <2>3. \A b \in durable' : change'[b] # "none"
    BY <1>0, <1>1, <2>1 DEF OneOwner
  <2>4. ASSUME NEW q \in Producers, NEW b \in work'[q]
        PROVE  /\ change'[b] # "none" /\ b \notin durable'
               /\ \A o \in Producers \ {q} : b \notin work'[o]
    <3>1. b \in work[q] /\ b \in Changes /\ b \notin C
      BY <1>1, <2>1, <2>2
    <3>2. \A o \in Producers : work'[o] \subseteq work[o]
      BY <1>1
    <3> QED
      BY <1>0, <1>1, <3>1, <3>2 DEF OneOwner
  <2> QED
    BY <2>3, <2>4 DEF OneOwner
<1>5. HooksAreTrue'
  <2>1. \A b \in Changes \ C : Newsworthy(b)' <=> Newsworthy(b)
    BY <1>1 DEF Newsworthy
  <2>2. ASSUME NEW q \in Producers \ {p}, NEW b \in Changes, Announces(q, b)'
        PROVE  Newsworthy(b)' /\ IF tx'[q] = "hooks" THEN b \in durable' ELSE b \in work'[q]
    <3>1. Announces(q, b)
      BY <1>1, <2>2 DEF Announces
    <3>2. Newsworthy(b) /\ IF tx[q] = "hooks" THEN b \in durable ELSE b \in work[q]
      BY <1>0, <3>1 DEF HooksAreTrue
    <3>3. b \notin C
      BY <1>0, <3>2 DEF OneOwner
    <3>4. tx'[q] = tx[q] /\ work'[q] = work[q] /\ durable' = durable
      BY <1>1
    <3> QED
      BY <2>1, <3>2, <3>3, <3>4
  <2>3. ASSUME NEW b \in Changes, Announces(p, b)'
        PROVE  Newsworthy(b)' /\ IF tx'[p] = "hooks" THEN b \in durable' ELSE b \in work'[p]
    BY <1>0, <1>1, <1>2, <2>1, <2>3 DEF HooksAreTrue
  <2>4. ASSUME NEW q \in Producers, NEW b \in Changes, Announces(q, b)'
        PROVE  Newsworthy(b)' /\ IF tx'[q] = "hooks" THEN b \in durable' ELSE b \in work'[q]
    BY <2>2, <2>3, <2>4
  <2> QED
    BY <2>4 DEF HooksAreTrue
<1>6. MarkSeparates'
  <2>1. ASSUME NEW q \in Producers
        PROVE  IF tx'[q] = "savepoint"
               THEN \A i \in 1..mark'[q] : hooks'[q][i] \notin inner'[q]
               ELSE inner'[q] = {} /\ mark'[q] = 0
    BY <1>0, <1>1 DEF MarkSeparates
  <2> QED
    BY <2>1 DEF MarkSeparates
<1>7. HooksLeft'
  BY <1>0, <1>1 DEF HooksLeft
<1>8. Kept
  BY <1>0, <1>1 DEF Kept, OneOwner, SignalsTypeOK
<1> QED
  BY <1>3, <1>4, <1>5, <1>6, <1>7, <1>8 DEF Ledger

LEMMA RollbackStep ==
    ASSUME Ledger, NEW p \in Producers, RollbackSavepoint(p) \/ Rollback(p)
    PROVE  Ledger' /\ Kept
<1>1. /\ inner[p] \in SUBSET Changes /\ work[p] \in SUBSET Changes /\ inner[p] \subseteq work[p]
      /\ mark[p] \in 0..Len(hooks[p]) /\ 0 \in 0..Len(hooks[p])
  <2>1. hooks[p] \in Seq(Changes) /\ mark[p] \in Nat /\ mark[p] <= Len(hooks[p])
    BY DEF Ledger, SignalsTypeOK
  <2> QED
    BY <2>1 DEF Ledger, SignalsTypeOK
<1>2. CASE RollbackSavepoint(p)
  <2>1. \A i \in 1..mark[p] : hooks[p][i] \notin inner[p]
    BY <1>2 DEF RollbackSavepoint, Ledger, MarkSeparates
  <2>2. tx[p] # "hooks" /\ tx' = [tx EXCEPT ![p] = "atomic"] /\ Undo(p, inner[p], mark[p]) /\ UNCHANGED durable
    BY <1>2 DEF RollbackSavepoint
  <2> QED
    BY <1>1, <2>1, <2>2, UndoStep
<1>3. CASE Rollback(p)
  <2>1. tx[p] # "hooks" /\ tx' = [tx EXCEPT ![p] = "outside"] /\ Undo(p, work[p], 0) /\ UNCHANGED durable
    BY <1>3 DEF Rollback
  <2>2. \A i \in 1..0 : hooks[p][i] \notin work[p]
    OBVIOUS
  <2> QED
    BY <1>1, <2>1, <2>2, UndoStep
<1> QED
  BY <1>2, <1>3

--------------------------------------------------------------------------------
(* The rest. *)

LEMMA ReleaseStep ==
    ASSUME Ledger, NEW p \in Producers, ReleaseSavepoint(p) PROVE Ledger' /\ Kept
<1>0. SignalsTypeOK /\ OneOwner /\ HooksAreTrue /\ MarkSeparates /\ HooksLeft
  BY DEF Ledger
<1>1. /\ UNCHANGED <<change, durable, work, hooks>>
      /\ \A q \in Producers : tx'[q] = IF q = p THEN "atomic" ELSE tx[q]
      /\ \A q \in Producers : inner'[q] = IF q = p THEN {} ELSE inner[q]
      /\ \A q \in Producers : mark'[q] = IF q = p THEN 0 ELSE mark[q]
      /\ tx[p] = "savepoint"
  BY <1>0 DEF ReleaseSavepoint, SignalsTypeOK
<1>2. SignalsTypeOK'
  <2>1. /\ tx' \in [Producers -> {"outside", "atomic", "savepoint", "hooks"}]
        /\ inner' \in [Producers -> SUBSET Changes] /\ mark' \in [Producers -> Nat]
    BY <1>0 DEF ReleaseSavepoint, SignalsTypeOK
  <2>2. ASSUME NEW q \in Producers PROVE inner'[q] \subseteq work'[q] /\ mark'[q] <= Len(hooks'[q])
    <3>1. CASE q = p
      <4>1. hooks[p] \in Seq(Changes)
        BY <1>0 DEF SignalsTypeOK
      <4>2. inner'[q] = {} /\ mark'[q] = 0 /\ hooks'[q] = hooks[p] /\ 0 <= Len(hooks[p])
        BY <1>1, <3>1, <4>1
      <4> QED
        BY <4>2
    <3>2. CASE q # p
      BY <1>0, <1>1, <3>2 DEF SignalsTypeOK
    <3> QED
      BY <3>1, <3>2
  <2> QED
    BY <1>0, <1>1, <2>1, <2>2 DEF SignalsTypeOK
<1>3. OneOwner' /\ Kept
  BY <1>0, <1>1 DEF OneOwner, Kept
<1>4. HooksAreTrue'
  BY <1>0, <1>1 DEF HooksAreTrue, Announces, Newsworthy
<1>5. MarkSeparates'
  BY <1>0, <1>1 DEF MarkSeparates
<1>6. HooksLeft'
  BY <1>0, <1>1 DEF HooksLeft
<1> QED
  BY <1>2, <1>3, <1>4, <1>5, <1>6 DEF Ledger

LEMMA CommitStep ==
    ASSUME Ledger, NEW p \in Producers, Commit(p) PROVE Ledger' /\ Kept
<1>0. SignalsTypeOK /\ OneOwner /\ HooksAreTrue /\ MarkSeparates /\ HooksLeft
  BY DEF Ledger
<1>1. /\ UNCHANGED <<change, inner, hooks, mark>>
      /\ durable' = durable \cup work[p]
      /\ \A q \in Producers : work'[q] = IF q = p THEN {} ELSE work[q]
      /\ \A q \in Producers \ {p} : tx'[q] = tx[q]
      /\ tx[p] = "atomic" /\ inner[p] = {} /\ mark[p] = 0
      /\ \/ hooks[p] = <<>> /\ tx'[p] = "outside"
         \/ hooks[p] # <<>> /\ tx'[p] = "hooks"
  BY <1>0 DEF Commit, SignalsTypeOK, MarkSeparates
<1>2. SignalsTypeOK'
  <2>1. /\ tx' \in [Producers -> {"outside", "atomic", "savepoint", "hooks"}]
        /\ work' \in [Producers -> SUBSET Changes] /\ durable' \subseteq Changes
    BY <1>0, <1>1 DEF Commit, SignalsTypeOK
  <2>2. \A q \in Producers : inner'[q] \subseteq work'[q]
    BY <1>0, <1>1 DEF SignalsTypeOK
  <2> QED
    BY <1>0, <1>1, <2>1, <2>2 DEF SignalsTypeOK
<1>3. OneOwner' /\ Kept
  BY <1>0, <1>1 DEF OneOwner, Kept
<1>4. HooksAreTrue'
  <2>1. ASSUME NEW q \in Producers, NEW b \in Changes, Announces(q, b)
        PROVE  Newsworthy(b) /\ IF tx'[q] = "hooks" THEN b \in durable' ELSE b \in work'[q]
    <3>1. CASE q = p
      <4>1. hooks[p] # <<>>
        BY <2>1, <3>1 DEF Announces
      <4> QED
        BY <1>0, <1>1, <2>1, <3>1, <4>1 DEF HooksAreTrue
    <3>2. CASE q # p
      BY <1>0, <1>1, <2>1, <3>2 DEF HooksAreTrue
    <3> QED
      BY <3>1, <3>2
  <2> QED
    BY <1>1, <2>1 DEF HooksAreTrue, Announces, Newsworthy
<1>5. MarkSeparates'
  <2>1. ASSUME NEW q \in Producers
        PROVE  IF tx'[q] = "savepoint"
               THEN \A i \in 1..mark'[q] : hooks'[q][i] \notin inner'[q]
               ELSE inner'[q] = {} /\ mark'[q] = 0
    BY <1>0, <1>1 DEF MarkSeparates
  <2> QED
    BY <2>1 DEF MarkSeparates
<1>6. HooksLeft'
  BY <1>0, <1>1 DEF HooksLeft
<1> QED
  BY <1>2, <1>3, <1>4, <1>5, <1>6 DEF Ledger

LEMMA HookStep ==
    ASSUME Ledger, NEW p \in Producers, NextHook(p) \/ DropHooks(p)
    PROVE  Ledger' /\ Kept
<1>0. SignalsTypeOK /\ OneOwner /\ HooksAreTrue /\ MarkSeparates /\ HooksLeft
  BY DEF Ledger
<1>1. /\ UNCHANGED <<change, durable, work, inner, mark>> /\ tx[p] = "hooks"
      /\ mark[p] = 0 /\ inner[p] = {}
      /\ \A q \in Producers \ {p} : hooks'[q] = hooks[q] /\ tx'[q] = tx[q]
      /\ tx'[p] \in {"outside", "hooks"}
  BY <1>0 DEF NextHook, DropHooks, MarkSeparates, SignalsTypeOK
<1>2. /\ hooks'[p] \in Seq(Changes) /\ hooks' \in [Producers -> Seq(Changes)]
      /\ tx'[p] = "outside" <=> hooks'[p] = <<>>
      /\ \A b \in Changes : Announces(p, b)' => Announces(p, b)
  <2>0. hooks[p] \in Seq(Changes) /\ hooks[p] # <<>>
    BY <1>0, <1>1 DEF SignalsTypeOK, HooksLeft
  <2>1. CASE NextHook(p)
    <3>1. hooks' = [hooks EXCEPT ![p] = Tail(hooks[p])] /\ hooks'[p] = Tail(hooks[p])
      BY <1>0, <2>1 DEF NextHook, SignalsTypeOK
    <3>2. /\ Tail(hooks[p]) \in Seq(Changes) /\ Len(Tail(hooks[p])) = Len(hooks[p]) - 1
          /\ \A i \in 1..Len(hooks[p]) - 1 : Tail(hooks[p])[i] = hooks[p][i + 1]
      BY <2>0, TailOfHooks
    <3>3. tx'[p] = IF Len(hooks[p]) = 1 THEN "outside" ELSE "hooks"
      BY <1>0, <2>1 DEF NextHook, SignalsTypeOK
    <3>4. Len(hooks[p]) = 1 <=> Tail(hooks[p]) = <<>>
      <4>1. Len(hooks[p]) \in Nat
        BY <2>0
      <4>2. Len(Tail(hooks[p])) = 0 <=> Tail(hooks[p]) = <<>>
        BY <3>2, EmptySeq
      <4> QED
        BY <3>2, <4>1, <4>2
    <3>5. \A b \in Changes : Announces(p, b)' => Announces(p, b)
      BY <2>0, <3>1, <3>2 DEF Announces
    <3>6. hooks' \in [Producers -> Seq(Changes)]
      BY <1>0, <3>1, <3>2 DEF SignalsTypeOK
    <3> QED
      BY <3>1, <3>2, <3>3, <3>4, <3>5, <3>6
  <2>2. CASE DropHooks(p)
    <3>1. <<>> \in Seq(Changes) /\ Len(<<>>) = 0
      OBVIOUS
    <3>2. hooks' = [hooks EXCEPT ![p] = <<>>] /\ hooks'[p] = <<>> /\ tx'[p] = "outside"
      BY <1>0, <2>2 DEF DropHooks, SignalsTypeOK
    <3>3. hooks' \in [Producers -> Seq(Changes)]
      BY <1>0, <3>1, <3>2 DEF SignalsTypeOK
    <3> QED
      BY <3>1, <3>2, <3>3 DEF Announces
  <2> QED
    BY <2>1, <2>2
<1>3. SignalsTypeOK'
  <2>1. tx' \in [Producers -> {"outside", "atomic", "savepoint", "hooks"}]
    BY <1>0 DEF NextHook, DropHooks, SignalsTypeOK
  <2>2. ASSUME NEW q \in Producers PROVE mark'[q] <= Len(hooks'[q])
    <3>1. CASE q = p
      BY <1>1, <1>2, <3>1
    <3>2. CASE q # p
      BY <1>0, <1>1, <3>2 DEF SignalsTypeOK
    <3> QED
      BY <3>1, <3>2
  <2> QED
    BY <1>0, <1>1, <1>2, <2>1, <2>2 DEF SignalsTypeOK
<1>4. HooksAreTrue'
  <2>1. ASSUME NEW q \in Producers, NEW b \in Changes, Announces(q, b)'
        PROVE  Newsworthy(b) /\ IF tx'[q] = "hooks" THEN b \in durable ELSE b \in work[q]
    <3>1. CASE q = p
      <4>1. hooks'[p] # <<>>
        BY <2>1, <3>1 DEF Announces
      <4> QED
        BY <1>0, <1>1, <1>2, <2>1, <3>1, <4>1 DEF HooksAreTrue
    <3>2. CASE q # p
      <4>1. Announces(q, b)
        BY <1>1, <2>1, <3>2 DEF Announces
      <4> QED
        BY <1>0, <1>1, <3>2, <4>1 DEF HooksAreTrue
    <3> QED
      BY <3>1, <3>2
  <2> QED
    BY <1>1, <2>1 DEF HooksAreTrue, Newsworthy
<1>5. MarkSeparates'
  <2>1. ASSUME NEW q \in Producers
        PROVE  IF tx'[q] = "savepoint"
               THEN \A i \in 1..mark'[q] : hooks'[q][i] \notin inner'[q]
               ELSE inner'[q] = {} /\ mark'[q] = 0
    BY <1>0, <1>1 DEF MarkSeparates
  <2> QED
    BY <2>1 DEF MarkSeparates
<1>6. OneOwner' /\ Kept
  BY <1>0, <1>1 DEF OneOwner, Kept
<1>7. HooksLeft'
  BY <1>0, <1>1, <1>2 DEF HooksLeft
<1> QED
  BY <1>3, <1>4, <1>5, <1>6, <1>7 DEF Ledger

--------------------------------------------------------------------------------

LEMMA LedgerInit == SignalsInit => Ledger
<1> SUFFICES ASSUME SignalsInit PROVE Ledger
  OBVIOUS
<1>1. <<>> \in Seq(Changes) /\ Len(<<>>) = 0
  OBVIOUS
<1>2. SignalsTypeOK
  BY <1>1 DEF SignalsInit, SignalsTypeOK
<1>3. HooksAreTrue
  BY <1>1 DEF SignalsInit, HooksAreTrue, Announces
<1>4. OneOwner /\ MarkSeparates /\ HooksLeft
  BY DEF SignalsInit, OneOwner, MarkSeparates, HooksLeft
<1> QED
  BY <1>2, <1>3, <1>4 DEF Ledger

\* Whatever a producer does, the books stay in order and durable changes what they are.
LEMMA LedgerStep ==
    ASSUME Ledger, (\E p \in Producers : SignalStep(p)) \/ UNCHANGED signalVars
    PROVE  Ledger' /\ Kept
<1>1. ASSUME NEW p \in Producers, SignalStep(p) PROVE Ledger' /\ Kept
  <2>1. ASSUME TransactionStep(p) PROVE Ledger' /\ Kept
    BY <2>1, SaveOutsideStep, SaveInsideStep, ReleaseStep, RollbackStep, CommitStep
       DEF TransactionStep
  <2> QED
    BY <1>1, <2>1, HookStep DEF SignalStep
<1>2. CASE UNCHANGED signalVars
  <2>1. UNCHANGED <<change, durable, tx, work, inner, hooks, mark>>
    BY <1>2 DEF signalVars
  <2>2. SignalsTypeOK' /\ OneOwner' /\ MarkSeparates' /\ HooksLeft' /\ Kept
    BY <2>1 DEF Ledger, SignalsTypeOK, OneOwner, MarkSeparates, HooksLeft, Kept
  <2>3. HooksAreTrue'
    BY <2>1 DEF Ledger, HooksAreTrue, Announces, Newsworthy
  <2> QED
    BY <2>2, <2>3 DEF Ledger
<1> QED
  BY <1>1, <1>2

--------------------------------------------------------------------------------
(* News: what is announced, and that nothing that should be is left out. *)

\* Outside a transaction nothing is left to announce, and what a producer has made is not
\* committed only while it is in one.
NothingLeft ==
    \A p \in Producers :
        /\ tx[p] = "outside" => hooks[p] = <<>>
        /\ tx[p] \in {"outside", "hooks"} => work[p] = {}

\* Whatever is news and not committed has its hook, which a rollback to the savepoint
\* spares unless it takes the change back.
Registered ==
    \A p \in Producers : \A c \in work[p] : Newsworthy(c) =>
        IF tx[p] = "savepoint" /\ c \notin inner[p]
        THEN \E i \in 1..mark[p] : hooks[p][i] = c
        ELSE Announces(p, c)

\* No change has two hooks.
AnnouncedOnce ==
    \A p, q \in Producers : \A i \in 1..Len(hooks[p]), j \in 1..Len(hooks[q]) :
        hooks[p][i] = hooks[q][j] => p = q /\ i = j

News == NothingLeft /\ Registered /\ AnnouncedOnce

LEMMA OthersKeepBooks ==
    ASSUME SignalsTypeOK, NEW q \in Producers, SignalStep(q), NEW p \in Producers \ {q}
    PROVE  /\ tx'[p] = tx[p] /\ work'[p] = work[p] /\ inner'[p] = inner[p]
           /\ hooks'[p] = hooks[p] /\ mark'[p] = mark[p]
<1>1. ASSUME NEW c \in Changes, NEW how \in {"create", "update"}, SaveOutside(q, c, how)
      PROVE  /\ tx'[p] = tx[p] /\ work'[p] = work[p] /\ inner'[p] = inner[p]
             /\ hooks'[p] = hooks[p] /\ mark'[p] = mark[p]
  BY <1>1 DEF SaveOutside, SignalsTypeOK
<1>2. ASSUME NEW c \in Changes, NEW how \in {"create", "update"}, NEW block \in {"atomic", "savepoint"},
             SaveInside(q, c, how, block)
      PROVE  /\ tx'[p] = tx[p] /\ work'[p] = work[p] /\ inner'[p] = inner[p]
             /\ hooks'[p] = hooks[p] /\ mark'[p] = mark[p]
  BY <1>2 DEF SaveInside, SignalsTypeOK
<1>3. ASSUME \/ ReleaseSavepoint(q) \/ RollbackSavepoint(q) \/ Rollback(q) \/ Commit(q)
             \/ NextHook(q) \/ DropHooks(q)
      PROVE  /\ tx'[p] = tx[p] /\ work'[p] = work[p] /\ inner'[p] = inner[p]
             /\ hooks'[p] = hooks[p] /\ mark'[p] = mark[p]
  BY <1>3 DEF ReleaseSavepoint, RollbackSavepoint, Rollback, Undo, Commit, NextHook, DropHooks, SignalsTypeOK
<1> QED
  BY <1>1, <1>2, <1>3 DEF SignalStep, TransactionStep

\* How the queue of hooks moves: its head goes, or it is cut short, or it gets one more hook,
\* for a change that has just been made.
HooksMove(p, k) ==
    /\ hooks'[p] \in Seq(Changes)
    /\ \A i \in 1..Len(hooks'[p]) :
          \/ i + k \in 1..Len(hooks[p]) /\ hooks'[p][i] = hooks[p][i + k]
          \/ i = Len(hooks'[p]) /\ change[hooks'[p][i]] = "none"

LEMMA HooksMoveOn ==
    ASSUME Ledger, NEW p \in Producers
    PROVE  /\ TransactionStep(p) => HooksMove(p, 0)
           /\ DropHooks(p) => HooksMove(p, 0)
           /\ NextHook(p) => HooksMove(p, 1)
<1>0. SignalsTypeOK /\ hooks[p] \in Seq(Changes) /\ Len(hooks[p]) \in Nat /\ mark[p] \in 0..Len(hooks[p])
      /\ 0 \in 0..Len(hooks[p])
  <2>1. SignalsTypeOK /\ hooks[p] \in Seq(Changes) /\ mark[p] \in Nat /\ mark[p] <= Len(hooks[p])
    BY DEF Ledger, SignalsTypeOK
  <2> QED
    BY <2>1
<1>1. ASSUME hooks'[p] = hooks[p] PROVE HooksMove(p, 0)
  BY <1>0, <1>1 DEF HooksMove
<1>2. ASSUME NEW n \in 0..Len(hooks[p]), hooks'[p] = SubSeq(hooks[p], 1, n) PROVE HooksMove(p, 0)
  <2>1. /\ SubSeq(hooks[p], 1, n) \in Seq(Changes) /\ Len(SubSeq(hooks[p], 1, n)) = n
        /\ \A i \in 1..n : SubSeq(hooks[p], 1, n)[i] = hooks[p][i]
    BY <1>0, PrefixOfHooks
  <2> QED
    BY <1>0, <1>2, <2>1 DEF HooksMove
<1>3. ASSUME NEW c \in Changes, NEW how \in {"create", "update"}, SaveOutside(p, c, how)
      PROVE  HooksMove(p, 0)
  <2>1. change[c] = "none" /\ (hooks'[p] = hooks[p] \/ hooks'[p] = <<c>>)
    BY <1>0, <1>3 DEF SaveOutside, SignalsTypeOK
  <2>2. ASSUME hooks'[p] = <<c>> PROVE HooksMove(p, 0)
    BY <2>1, <2>2 DEF HooksMove
  <2> QED
    BY <1>1, <2>1, <2>2
<1>4. ASSUME NEW c \in Changes, NEW how \in {"create", "update"}, NEW block \in {"atomic", "savepoint"},
             SaveInside(p, c, how, block)
      PROVE  HooksMove(p, 0)
  <2>1. change[c] = "none" /\ (hooks'[p] = hooks[p] \/ hooks'[p] = Append(hooks[p], c))
    BY <1>0, <1>4 DEF SaveInside, SignalsTypeOK
  <2>2. ASSUME hooks'[p] = Append(hooks[p], c) PROVE HooksMove(p, 0)
    <3>1. /\ Append(hooks[p], c) \in Seq(Changes) /\ Len(Append(hooks[p], c)) = Len(hooks[p]) + 1
          /\ \A i \in 1..Len(hooks[p]) : Append(hooks[p], c)[i] = hooks[p][i]
          /\ Append(hooks[p], c)[Len(hooks[p]) + 1] = c
      BY <1>0, MoreHooks
    <3> QED
      BY <1>0, <2>1, <2>2, <3>1 DEF HooksMove
  <2> QED
    BY <1>1, <2>1, <2>2
<1>5. ASSUME ReleaseSavepoint(p) \/ Commit(p) PROVE HooksMove(p, 0)
  BY <1>1, <1>5 DEF ReleaseSavepoint, Commit
<1>6. ASSUME RollbackSavepoint(p) \/ Rollback(p) PROVE HooksMove(p, 0)
  <2>1. \E n \in 0..Len(hooks[p]) : hooks'[p] = SubSeq(hooks[p], 1, n)
    BY <1>0, <1>6 DEF RollbackSavepoint, Rollback, Undo, SignalsTypeOK
  <2> QED
    BY <1>2, <2>1
<1>7. ASSUME NextHook(p) PROVE HooksMove(p, 1)
  <2>1. hooks'[p] = Tail(hooks[p]) /\ hooks[p] # <<>>
    BY <1>0, <1>7 DEF NextHook, SignalsTypeOK, Ledger, HooksLeft
  <2>2. /\ Tail(hooks[p]) \in Seq(Changes) /\ Len(Tail(hooks[p])) = Len(hooks[p]) - 1
        /\ \A i \in 1..Len(hooks[p]) - 1 : Tail(hooks[p])[i] = hooks[p][i + 1]
    BY <1>0, <2>1, TailOfHooks
  <2> QED
    BY <1>0, <2>1, <2>2 DEF HooksMove
<1>8. ASSUME DropHooks(p) PROVE HooksMove(p, 0)
  <2>1. hooks'[p] = <<>>
    BY <1>0, <1>8 DEF DropHooks, SignalsTypeOK
  <2> QED
    BY <2>1 DEF HooksMove
<1> QED
  BY <1>3, <1>4, <1>5, <1>6, <1>7, <1>8 DEF TransactionStep

LEMMA AnnouncedOnceStep ==
    ASSUME Ledger, AnnouncedOnce, NEW p \in Producers, SignalStep(p) PROVE AnnouncedOnce'
<1>0. SignalsTypeOK
  BY DEF Ledger
<1>1. PICK k \in {0, 1} : HooksMove(p, k)
  BY HooksMoveOn DEF SignalStep
<1>2. \A q \in Producers \ {p} : hooks'[q] = hooks[q]
  BY <1>0, OthersKeepBooks
<1>3. \A q \in Producers : \A i \in 1..Len(hooks[q]) : hooks[q][i] \in Changes /\ change[hooks[q][i]] # "none"
  <2>1. ASSUME NEW q \in Producers, NEW i \in 1..Len(hooks[q])
        PROVE  hooks[q][i] \in Changes /\ Announces(q, hooks[q][i])
    <3>1. hooks[q] \in Seq(Changes)
      BY <1>0 DEF SignalsTypeOK
    <3> QED
      BY <3>1 DEF Announces
  <2> QED
    BY <2>1, NotMade
<1>4. Len(hooks'[p]) \in Nat /\ Len(hooks[p]) \in Nat
  BY <1>0, <1>1 DEF HooksMove, SignalsTypeOK
<1>5. ASSUME NEW q \in Producers \ {p}, NEW i \in 1..Len(hooks'[p]), NEW j \in 1..Len(hooks[q])
      PROVE  hooks'[p][i] # hooks[q][j]
  BY <1>1, <1>3 DEF HooksMove, AnnouncedOnce
<1>6. ASSUME NEW i \in 1..Len(hooks'[p]), NEW j \in 1..Len(hooks'[p]), hooks'[p][i] = hooks'[p][j]
      PROVE  i = j
  <2>1. \A m \in 1..Len(hooks'[p]) :
           \/ m + k \in 1..Len(hooks[p]) /\ hooks'[p][m] = hooks[p][m + k]
           \/ m = Len(hooks'[p]) /\ change[hooks'[p][m]] = "none"
    BY <1>1 DEF HooksMove
  <2>2. CASE i + k \in 1..Len(hooks[p]) /\ hooks'[p][i] = hooks[p][i + k]
    <3>1. change[hooks'[p][i]] # "none"
      BY <1>3, <2>2
    <3>2. j + k \in 1..Len(hooks[p]) /\ hooks'[p][j] = hooks[p][j + k]
      BY <1>6, <2>1, <3>1
    <3>3. hooks[p][i + k] = hooks[p][j + k]
      BY <1>6, <2>2, <3>2
    <3>4. i + k = j + k
      BY <2>2, <3>2, <3>3 DEF AnnouncedOnce
    <3> QED
      BY <1>4, <3>4
  <2>3. CASE i = Len(hooks'[p]) /\ change[hooks'[p][i]] = "none"
    <3>1. ~(j + k \in 1..Len(hooks[p]) /\ hooks'[p][j] = hooks[p][j + k])
      BY <1>3, <1>6, <2>3
    <3> QED
      BY <2>1, <2>3, <3>1
  <2> QED
    BY <2>1, <2>2, <2>3
<1>7. ASSUME NEW q \in Producers, NEW o \in Producers, NEW i \in 1..Len(hooks'[q]), NEW j \in 1..Len(hooks'[o]),
             hooks'[q][i] = hooks'[o][j]
      PROVE  q = o /\ i = j
  BY <1>2, <1>5, <1>6, <1>7 DEF AnnouncedOnce
<1> QED
  BY <1>7 DEF AnnouncedOnce

\* What everybody else owes is as it was.
LEMMA RegisteredElsewhere ==
    ASSUME Ledger, Registered, NEW p \in Producers, SignalStep(p), NEW q \in Producers \ {p},
           NEW C \in SUBSET Changes, C \cap work[q] = {},
           \A b \in Changes \ C : change'[b] = change[b]
    PROVE  \A c \in work'[q] : Newsworthy(c)' =>
               IF tx'[q] = "savepoint" /\ c \notin inner'[q]
               THEN \E i \in 1..mark'[q] : hooks'[q][i] = c
               ELSE Announces(q, c)'
<1>1. /\ tx'[q] = tx[q] /\ work'[q] = work[q] /\ inner'[q] = inner[q]
      /\ hooks'[q] = hooks[q] /\ mark'[q] = mark[q] /\ work[q] \subseteq Changes
  BY OthersKeepBooks DEF Ledger, SignalsTypeOK
<1>2. \A c \in work[q] : Newsworthy(c)' <=> Newsworthy(c)
  BY <1>1 DEF Newsworthy
<1>3. \A c \in work[q] : Announces(q, c)' <=> Announces(q, c)
  BY <1>1 DEF Announces
<1> QED
  BY <1>1, <1>2, <1>3 DEF Registered

LEMMA RegisteredStep ==
    ASSUME Ledger, NothingLeft, Registered, NEW p \in Producers, SignalStep(p) PROVE Registered'
<1>0. /\ SignalsTypeOK /\ OneOwner /\ MarkSeparates /\ hooks[p] \in Seq(Changes) /\ Len(hooks[p]) \in Nat
      /\ mark[p] \in Nat /\ mark[p] <= Len(hooks[p]) /\ work[p] \subseteq Changes
  BY DEF Ledger, SignalsTypeOK
<1> DEFINE Owed(q) == \A c \in work[q] : Newsworthy(c) =>
               IF tx[q] = "savepoint" /\ c \notin inner[q]
               THEN \E i \in 1..mark[q] : hooks[q][i] = c
               ELSE Announces(q, c)
<1>1. ASSUME \A q \in Producers \ {p} : Owed(q)', Owed(p)' PROVE Registered'
  <2>1. \A q \in Producers : Owed(q)'
    BY <1>1
  <2> QED
    BY <2>1 DEF Registered
<1>2. ASSUME NEW C \in SUBSET Changes, \A q \in Producers \ {p} : C \cap work[q] = {},
             \A b \in Changes \ C : change'[b] = change[b], Owed(p)'
      PROVE  Registered'
  <2>1. ASSUME NEW q \in Producers \ {p} PROVE Owed(q)'
    BY <1>2, RegisteredElsewhere
  <2> QED
    BY <1>1, <1>2, <2>1
<1>3. ASSUME UNCHANGED change, Owed(p)' PROVE Registered'
  <2>1. {} \in SUBSET Changes /\ \A q \in Producers \ {p} : {} \cap work[q] = {}
    OBVIOUS
  <2> QED
    BY <1>2, <1>3, <2>1
\* A save: c is new to everybody.
<1>4. ASSUME NEW c \in Changes, NEW how \in {"create", "update"},
             change[c] = "none", change' = [change EXCEPT ![c] = how], Owed(p)'
      PROVE  Registered'
  <2>1. {c} \in SUBSET Changes /\ \A q \in Producers \ {p} : {c} \cap work[q] = {}
    BY <1>4, NotMade
  <2>2. \A b \in Changes \ {c} : change'[b] = change[b]
    BY <1>0, <1>4 DEF SignalsTypeOK
  <2> QED
    BY <1>2, <1>4, <2>1, <2>2
<1>5. ASSUME NEW c \in Changes, NEW how \in {"create", "update"}, SaveOutside(p, c, how) PROVE Registered'
  <2>1. work'[p] = {}
    BY <1>0, <1>5 DEF SaveOutside, NothingLeft
  <2> QED
    BY <1>4, <1>5, <2>1 DEF SaveOutside
<1>6. ASSUME NEW c \in Changes, NEW how \in {"create", "update"}, NEW block \in {"atomic", "savepoint"},
             SaveInside(p, c, how, block)
      PROVE  Registered'
  <2>1. /\ tx'[p] = block /\ tx[p] # "hooks" /\ (tx[p] = "savepoint" => block = "savepoint")
        /\ change[c] = "none" /\ change' = [change EXCEPT ![c] = how]
        /\ work'[p] = work[p] \cup {c} /\ c \notin work[p]
        /\ inner'[p] = IF block = "savepoint" THEN inner[p] \cup {c} ELSE inner[p]
        /\ mark'[p] = IF block = "savepoint" /\ tx[p] # block THEN Len(hooks[p]) ELSE mark[p]
        /\ hooks'[p] = IF Emits(c, how) THEN Append(hooks[p], c) ELSE hooks[p]
    BY <1>0, <1>6, NotMade DEF SaveInside, SignalsTypeOK
  <2>2. /\ \A i \in 1..Len(hooks[p]) : hooks'[p][i] = hooks[p][i]
        /\ Len(hooks'[p]) \in Nat /\ Len(hooks[p]) <= Len(hooks'[p])
        /\ Emits(c, how) => hooks'[p][Len(hooks[p]) + 1] = c /\ Len(hooks'[p]) = Len(hooks[p]) + 1
    BY <1>0, <2>1, MoreHooks
  <2>3. \A b \in Changes : Announces(p, b) => Announces(p, b)'
    BY <1>0, <2>2 DEF Announces
  <2>4. Newsworthy(c)' => Announces(p, c)'
    <3>1. Newsworthy(c)' => Emits(c, how)
      BY <1>0, <2>1 DEF Newsworthy, Emits, SignalsTypeOK
    <3> QED
      BY <1>0, <2>2, <3>1 DEF Announces
  <2>5. ASSUME NEW b \in work[p], Newsworthy(b)'
        PROVE  IF tx'[p] = "savepoint" /\ b \notin inner'[p]
               THEN \E i \in 1..mark'[p] : hooks'[p][i] = b
               ELSE Announces(p, b)'
    <3>1. Newsworthy(b) /\ b \in Changes
      BY <1>0, <2>1, <2>5 DEF Newsworthy, SignalsTypeOK
    <3>2. CASE block = "atomic"
      BY <2>1, <2>3, <3>1, <3>2 DEF Registered
    <3>3. CASE block = "savepoint" /\ tx[p] # "savepoint"
      <4>1. Announces(p, b) /\ mark'[p] = Len(hooks[p])
        BY <2>1, <3>1, <3>3 DEF Registered
      <4> QED
        BY <2>2, <2>3, <3>1, <4>1 DEF Announces
    <3>4. CASE tx[p] = "savepoint"
      <4>1. mark'[p] = mark[p] /\ b \notin {c} /\ inner'[p] = inner[p] \cup {c}
        BY <2>1, <3>4
      <4>2. CASE b \in inner[p]
        <5>1. Announces(p, b)
          BY <3>1, <3>4, <4>2 DEF Registered
        <5>2. Announces(p, b)' /\ b \in inner'[p]
          BY <2>3, <3>1, <4>1, <4>2, <5>1
        <5> QED
          BY <5>2
      <4>3. CASE b \notin inner[p]
        <5>1. PICK i \in 1..mark[p] : hooks[p][i] = b
          BY <3>1, <3>4, <4>3 DEF Registered
        <5>2. i \in 1..Len(hooks[p]) /\ hooks'[p][i] = b
          BY <1>0, <2>2, <5>1
        <5>3. Announces(p, b)'
          BY <2>3, <3>1, <5>1, <5>2 DEF Announces
        <5>4. \E j \in 1..mark'[p] : hooks'[p][j] = b
          BY <4>1, <5>1, <5>2
        <5> QED
          BY <5>3, <5>4
      <4> QED
        BY <4>2, <4>3
    <3> QED
      BY <3>2, <3>3, <3>4
  <2>6. c \in inner'[p] \/ tx'[p] # "savepoint"
    BY <2>1
  <2> QED
    BY <1>4, <2>1, <2>4, <2>5, <2>6
<1>7. ASSUME ReleaseSavepoint(p) PROVE Registered'
  <2>1. /\ UNCHANGED change /\ work'[p] = work[p] /\ hooks'[p] = hooks[p] /\ tx'[p] = "atomic"
    BY <1>0, <1>7 DEF ReleaseSavepoint, SignalsTypeOK
  <2>2. ASSUME NEW c \in work[p], Newsworthy(c) PROVE Announces(p, c)
    <3>1. 1..mark[p] \subseteq 1..Len(hooks[p])
      BY <1>0
    <3> QED
      BY <2>2, <3>1 DEF Registered, Announces
  <2>3. Owed(p)'
    BY <2>1, <2>2 DEF Announces, Newsworthy
  <2> QED
    BY <1>3, <2>1, <2>3
<1>8. ASSUME RollbackSavepoint(p) PROVE Registered'
  <2>1. /\ tx[p] = "savepoint" /\ tx'[p] = "atomic" /\ work'[p] = work[p] \ inner[p]
        /\ hooks'[p] = SubSeq(hooks[p], 1, mark[p])
        /\ \A b \in Changes \ inner[p] : change'[b] = change[b]
        /\ inner[p] \subseteq work[p]
    BY <1>0, <1>8 DEF RollbackSavepoint, Undo, SignalsTypeOK
  <2>2. /\ Len(hooks'[p]) = mark[p] /\ \A i \in 1..mark[p] : hooks'[p][i] = hooks[p][i]
    BY <1>0, <2>1, PrefixOfHooks
  <2>3. ASSUME NEW c \in work'[p], Newsworthy(c)' PROVE Announces(p, c)'
    <3>1. c \in work[p] \ inner[p] /\ Newsworthy(c)
      BY <1>0, <2>1, <2>3 DEF Newsworthy
    <3>2. PICK i \in 1..mark[p] : hooks[p][i] = c
      BY <2>1, <3>1 DEF Registered
    <3>3. i \in 1..Len(hooks'[p]) /\ hooks'[p][i] = c
      BY <2>2, <3>2
    <3> QED
      BY <3>3 DEF Announces
  <2>4. \A q \in Producers \ {p} : inner[p] \cap work[q] = {}
    BY <1>0, <2>1 DEF OneOwner
  <2>5. inner[p] \in SUBSET Changes
    BY <1>0, <2>1
  <2> QED
    BY <1>2, <2>1, <2>3, <2>4, <2>5
<1>9. ASSUME Rollback(p) PROVE Registered'
  <2>1. work'[p] = {} /\ \A b \in Changes \ work[p] : change'[b] = change[b]
    BY <1>0, <1>9 DEF Rollback, Undo, SignalsTypeOK
  <2>2. \A q \in Producers \ {p} : work[p] \cap work[q] = {}
    BY <1>0 DEF OneOwner
  <2> QED
    BY <1>0, <1>2, <2>1, <2>2
<1>10. ASSUME Commit(p) \/ NextHook(p) \/ DropHooks(p) PROVE Registered'
  <2>1. UNCHANGED change /\ work'[p] = {}
    BY <1>0, <1>10 DEF Commit, NextHook, DropHooks, SignalsTypeOK, NothingLeft
  <2> QED
    BY <1>3, <2>1
<1> QED
  BY <1>5, <1>6, <1>7, <1>8, <1>9, <1>10 DEF SignalStep, TransactionStep

LEMMA NothingLeftStep ==
    ASSUME Ledger, Ledger', NothingLeft, NEW p \in Producers, SignalStep(p) PROVE NothingLeft'
<1>0. /\ SignalsTypeOK /\ hooks[p] \in Seq(Changes) /\ Len(hooks[p]) \in Nat
  BY DEF Ledger, SignalsTypeOK
<1> DEFINE Done == /\ tx'[p] = "outside" => hooks'[p] = <<>>
                   /\ tx'[p] \in {"outside", "hooks"} => work'[p] = {}
<1>1. ASSUME Done PROVE NothingLeft'
  BY <1>0, <1>1, OthersKeepBooks DEF NothingLeft
<1>2. ASSUME NEW c \in Changes, NEW how \in {"create", "update"}, SaveOutside(p, c, how) PROVE Done
  BY <1>0, <1>2 DEF SaveOutside, SignalsTypeOK, NothingLeft
<1>3. ASSUME NEW c \in Changes, NEW how \in {"create", "update"}, NEW block \in {"atomic", "savepoint"},
             SaveInside(p, c, how, block)
      PROVE  Done
  BY <1>0, <1>3 DEF SaveInside, SignalsTypeOK
<1>4. ASSUME ReleaseSavepoint(p) \/ RollbackSavepoint(p) PROVE Done
  BY <1>0, <1>4 DEF ReleaseSavepoint, RollbackSavepoint, SignalsTypeOK
<1>5. ASSUME Rollback(p) PROVE Done
  <2>1. tx'[p] = "outside" /\ work'[p] = {} /\ hooks'[p] = SubSeq(hooks[p], 1, 0)
    BY <1>0, <1>5 DEF Rollback, Undo, SignalsTypeOK
  <2>2. Len(hooks'[p]) = 0 /\ hooks'[p] \in Seq(Changes)
    BY <1>0, <2>1, PrefixOfHooks
  <2> QED
    BY <2>1, <2>2, EmptySeq
<1>6. ASSUME Commit(p) PROVE Done
  BY <1>0, <1>6 DEF Commit, SignalsTypeOK
<1>7. ASSUME NextHook(p) PROVE Done
  <2>1. /\ tx[p] = "hooks" /\ work'[p] = work[p] /\ hooks'[p] = Tail(hooks[p]) /\ hooks[p] # <<>>
        /\ tx'[p] = IF Len(hooks[p]) = 1 THEN "outside" ELSE "hooks"
    BY <1>0, <1>7 DEF NextHook, SignalsTypeOK, Ledger, HooksLeft
  <2>2. Tail(hooks[p]) \in Seq(Changes) /\ Len(Tail(hooks[p])) = Len(hooks[p]) - 1
    BY <1>0, <2>1, TailOfHooks
  <2>3. Len(Tail(hooks[p])) = 0 <=> Tail(hooks[p]) = <<>>
    BY <2>2, EmptySeq
  <2>4. Len(hooks[p]) = 1 => hooks'[p] = <<>>
    BY <1>0, <2>1, <2>2, <2>3
  <2> QED
    BY <2>1, <2>4 DEF NothingLeft
<1>8. ASSUME DropHooks(p) PROVE Done
  BY <1>0, <1>8 DEF DropHooks, SignalsTypeOK, NothingLeft
<1> QED
  BY <1>1, <1>2, <1>3, <1>4, <1>5, <1>6, <1>7, <1>8 DEF SignalStep, TransactionStep

LEMMA NewsInit == SignalsInit => News
BY DEF SignalsInit, News, NothingLeft, Registered, AnnouncedOnce

LEMMA NewsStep ==
    ASSUME Ledger, News, (\E p \in Producers : SignalStep(p)) \/ UNCHANGED signalVars PROVE News'
<1>1. Ledger'
  BY LedgerStep
<1>2. ASSUME NEW p \in Producers, SignalStep(p) PROVE News'
  BY <1>1, <1>2, NothingLeftStep, RegisteredStep, AnnouncedOnceStep DEF News
<1>3. CASE UNCHANGED signalVars
  <2>1. UNCHANGED <<change, durable, tx, work, inner, hooks, mark>>
    BY <1>3 DEF signalVars
  <2>2. Registered'
    BY <2>1 DEF News, Registered, Announces, Newsworthy
  <2> QED
    BY <2>1, <2>2 DEF News, NothingLeft, AnnouncedOnce
<1> QED
  BY <1>2, <1>3

\* News that a producer's step makes durable is about to be announced.
LEMMA NewsGetsOut ==
    ASSUME Ledger, News, NEW p \in Producers, TransactionStep(p),
           NEW c \in durable' \ durable, Newsworthy(c)'
    PROVE  Announces(p, c)'
<1>0. /\ SignalsTypeOK /\ hooks[p] \in Seq(Changes)
  BY DEF Ledger, SignalsTypeOK
<1>1. ASSUME NEW b \in Changes, NEW how \in {"create", "update"}, SaveOutside(p, b, how)
      PROVE  Announces(p, c)'
  <2>1. c = b /\ change'[b] = how
    BY <1>0, <1>1 DEF SaveOutside, SignalsTypeOK
  <2>2. Emits(b, how)
    BY <2>1 DEF Newsworthy, Emits
  <2>3. hooks'[p] = <<b>>
    BY <1>0, <1>1, <2>2 DEF SaveOutside, SignalsTypeOK
  <2> QED
    BY <2>1, <2>3 DEF Announces
<1>2. ASSUME Commit(p) PROVE Announces(p, c)'
  <2>1. c \in work[p] /\ tx[p] = "atomic" /\ UNCHANGED <<change, hooks>>
    BY <1>2 DEF Commit
  <2>2. Newsworthy(c)
    BY <2>1 DEF Newsworthy
  <2> QED
    BY <2>1, <2>2 DEF News, Registered, Announces
<1> QED
  BY <1>1, <1>2 DEF TransactionStep, SaveInside, ReleaseSavepoint, RollbackSavepoint, Rollback

\* The only hook that goes when the next one's turn comes is the first.
LEMMA OnlyTheHeadGoes ==
    ASSUME Ledger, NEW p \in Producers, NextHook(p), NEW c, Announces(p, c), c # Head(hooks[p])
    PROVE  Announces(p, c)'
<1>1. hooks[p] \in Seq(Changes) /\ hooks'[p] = Tail(hooks[p]) /\ hooks[p] # <<>> /\ Len(hooks[p]) \in Nat
  BY DEF NextHook, SignalsTypeOK, Ledger, HooksLeft
<1>2. /\ Len(Tail(hooks[p])) = Len(hooks[p]) - 1
      /\ \A i \in 1..Len(hooks[p]) - 1 : Tail(hooks[p])[i] = hooks[p][i + 1]
  BY <1>1, TailOfHooks
<1>3. PICK i \in 1..Len(hooks[p]) : hooks[p][i] = c
  BY DEF Announces
<1>4. i # 1
  BY <1>1, <1>3
<1>5. i - 1 \in 1..Len(hooks'[p]) /\ hooks'[p][i - 1] = c
  BY <1>1, <1>2, <1>3, <1>4
<1> QED
  BY <1>5 DEF Announces
================================================================================
