--------------------------------- MODULE Signals ---------------------------------
(***************************************************************************)
(* signals.py on top of Django's transactions: a change of the domain is   *)
(* saved, a handler takes the snapshot and registers an on_commit hook,    *)
(* and the hook runs when, and only if, the outermost transaction commits. *)
(*                                                                         *)
(* A producer is a request thread of the host project.  It is "outside"    *)
(* any atomic block, inside one ("atomic"), inside a nested one            *)
(* ("savepoint"), or runs the "hooks" of a transaction that has committed; *)
(* outside a transaction a hook runs within save().  What a hook does is   *)
(* said by the module that uses this one (Publish).                        *)
(***************************************************************************)
EXTENDS Naturals, Sequences

CONSTANTS
    Producers,  \* threads that change the domain
    Changes,    \* saves of domain objects, and sendings of sinpapel's own signals
    Kind        \* the event type that each change is about

\* post_save handlers that return unless `created'.
OnCreateOnly ==
    {"workflow.transition.completed", "signature.completed", "document.uploaded"}

\* post_save handlers for every save.
OnEverySave == {"workflow.predicate.configured", "sla.configured"}

\* Receivers of the custom signals of sinpapel.
OnSignal ==
    {"workflow.predicate.failed", "sla.breached", "sla.action.executed",
     "workflow.transition.preview"}

EventTypes == OnCreateOnly \cup OnEverySave \cup OnSignal

ASSUME KindAssumption == Kind \in [Changes -> EventTypes]

VARIABLES
    change,   \* how each change was made: "none" yet, "create" or "update"
    durable,  \* the changes that are committed
    tx,       \* the transaction state of each producer
    work,     \* the changes each producer has made and not committed
    inner,    \* those of them made since its savepoint
    hooks,    \* the on_commit hooks of each producer, by the change they announce
    mark      \* how many of them were there before its savepoint

signalVars == <<change, durable, tx, work, inner, hooks, mark>>

SignalsInit ==
    /\ change = [c \in Changes |-> "none"]
    /\ durable = {}
    /\ tx = [p \in Producers |-> "outside"]
    /\ work = [p \in Producers |-> {}]
    /\ inner = [p \in Producers |-> {}]
    /\ hooks = [p \in Producers |-> <<>>]
    /\ mark = [p \in Producers |-> 0]

SignalsTypeOK ==
    /\ change \in [Changes -> {"none", "create", "update"}]
    /\ durable \subseteq Changes
    /\ tx \in [Producers -> {"outside", "atomic", "savepoint", "hooks"}]
    /\ work \in [Producers -> SUBSET Changes]
    /\ inner \in [Producers -> SUBSET Changes]
    /\ \A p \in Producers : inner[p] \subseteq work[p]
    /\ hooks \in [Producers -> Seq(Changes)]
    /\ mark \in [Producers -> Nat]
    /\ \A p \in Producers : mark[p] <= Len(hooks[p])

--------------------------------------------------------------------------------

\* Mutant: the guard on `created' is forgotten.
EmitsOnEverySave(c, how) == TRUE

\* Mutant: every handler has the guard on `created'.
EmitsOnCreateOnly(c, how) == how = "create"

\* Whether the handler goes past its guard.
Emits(c, how) == Kind[c] \in OnCreateOnly => how = "create"

\* A save outside a transaction is durable at once, and its hook runs at once.
SaveOutside(p, c, how) ==
    /\ tx[p] = "outside"
    /\ change[c] = "none"
    /\ change' = [change EXCEPT ![c] = how]
    /\ durable' = durable \cup {c}
    /\ hooks' = IF Emits(c, how) THEN [hooks EXCEPT ![p] = <<c>>] ELSE hooks
    /\ tx' = IF Emits(c, how) THEN [tx EXCEPT ![p] = "hooks"] ELSE tx
    /\ UNCHANGED <<work, inner, mark>>

\* A save in an atomic block, or in a nested one.  Entering a block changes nothing
\* yet: it is part of the first save in it.
SaveInside(p, c, how, block) ==
    /\ tx[p] = "outside" \/ tx[p] = "atomic" \/ tx[p] = block
    /\ change[c] = "none"
    /\ change' = [change EXCEPT ![c] = how]
    /\ tx' = [tx EXCEPT ![p] = block]
    /\ work' = [work EXCEPT ![p] = @ \cup {c}]
    /\ inner' = IF block = "savepoint" THEN [inner EXCEPT ![p] = @ \cup {c}] ELSE inner
    /\ mark' = IF block = "savepoint" /\ tx[p] # block
               THEN [mark EXCEPT ![p] = Len(hooks[p])] ELSE mark
    /\ hooks' = IF Emits(c, how) THEN [hooks EXCEPT ![p] = Append(@, c)] ELSE hooks
    /\ UNCHANGED durable

ReleaseSavepoint(p) ==
    /\ tx[p] = "savepoint"
    /\ tx' = [tx EXCEPT ![p] = "atomic"]
    /\ inner' = [inner EXCEPT ![p] = {}]
    /\ mark' = [mark EXCEPT ![p] = 0]
    /\ UNCHANGED <<change, durable, work, hooks>>

\* Undoing changes takes the hooks registered with them along: all but the first n.
Undo(p, C, n) ==
    /\ change' = [c \in Changes |-> IF c \in C THEN "none" ELSE change[c]]
    /\ work' = [work EXCEPT ![p] = @ \ C]
    /\ inner' = [inner EXCEPT ![p] = {}]
    /\ hooks' = [hooks EXCEPT ![p] = SubSeq(@, 1, n)]
    /\ mark' = [mark EXCEPT ![p] = 0]

RollbackSavepoint(p) ==
    /\ tx[p] = "savepoint"
    /\ tx' = [tx EXCEPT ![p] = "atomic"]
    /\ Undo(p, inner[p], mark[p])
    /\ UNCHANGED durable

Rollback(p) ==
    /\ tx[p] \in {"atomic", "savepoint"}
    /\ tx' = [tx EXCEPT ![p] = "outside"]
    /\ Undo(p, work[p], 0)
    /\ UNCHANGED durable

Commit(p) ==
    /\ tx[p] = "atomic"
    /\ durable' = durable \cup work[p]
    /\ tx' = [tx EXCEPT ![p] = IF hooks[p] = <<>> THEN "outside" ELSE "hooks"]
    /\ work' = [work EXCEPT ![p] = {}]
    /\ UNCHANGED <<change, inner, hooks, mark>>

\* run_and_clear_commit_hooks: the next hook, or none, is left to run.
NextHook(p) ==
    /\ tx[p] = "hooks"
    /\ hooks' = [hooks EXCEPT ![p] = Tail(@)]
    /\ tx' = [tx EXCEPT ![p] = IF Len(hooks[p]) = 1 THEN "outside" ELSE "hooks"]
    /\ UNCHANGED <<change, durable, work, inner, mark>>

\* An exception in a hook, or the end of the thread: the hooks that are left never run.
DropHooks(p) ==
    /\ tx[p] = "hooks"
    /\ tx' = [tx EXCEPT ![p] = "outside"]
    /\ hooks' = [hooks EXCEPT ![p] = <<>>]
    /\ UNCHANGED <<change, durable, work, inner, mark>>

TransactionStep(p) ==
    \/ \E c \in Changes, how \in {"create", "update"} :
          SaveOutside(p, c, how) \/ \E block \in {"atomic", "savepoint"} : SaveInside(p, c, how, block)
    \/ ReleaseSavepoint(p)
    \/ RollbackSavepoint(p)
    \/ Rollback(p)
    \/ Commit(p)

--------------------------------------------------------------------------------

\* The changes that the README's table of event types says are announced.
Newsworthy(c) ==
    change[c] = "create" \/ (change[c] = "update" /\ Kind[c] \notin OnCreateOnly)
================================================================================
