------------------------------- MODULE HandledOnce -------------------------------
(***************************************************************************)
(* What the receiver of webhooks promises about one event, with no         *)
(* threads, requests, headers or crashes: it is recorded after a request   *)
(* in its name whose body its source signed, its handler is called only    *)
(* for a record that has no verdict and was never handled, the verdict is  *)
(* written once and follows from how that call ended, and the sender is    *)
(* told 200 of recorded events only. An event may stop at any stage, and   *)
(* one that stops is never picked up again.                                *)
(***************************************************************************)
EXTENDS Integers

CONSTANT Events

VARIABLES
    shown,   \* the events named by a request whose body the source signed
    log,     \* the verdict on record, "duplicate" while there is none yet
    calls,   \* how often the handler was called
    ending,  \* how that call ended
    told     \* the events of which the sender was told 200

vars == <<shown, log, calls, ending, told>>

Init ==
    /\ shown = {}
    /\ log = [e \in Events |-> "absent"]
    /\ calls = [e \in Events |-> 0]
    /\ ending = [e \in Events |-> "none"]
    /\ told = {}

Show(e) ==
    /\ shown' = shown \cup {e}
    /\ UNCHANGED <<log, calls, ending, told>>

Record(e) ==
    /\ e \in shown /\ log[e] = "absent"
    /\ log' = [log EXCEPT ![e] = "duplicate"]
    /\ UNCHANGED <<shown, calls, ending, told>>

Call(e) ==
    /\ log[e] = "duplicate" /\ calls[e] = 0
    /\ calls' = [calls EXCEPT ![e] = 1]
    /\ UNCHANGED <<shown, log, ending, told>>

End(e, how) ==
    /\ log[e] = "duplicate" /\ calls[e] = 1 /\ ending[e] = "none"
    /\ ending' = [ending EXCEPT ![e] = how]
    /\ UNCHANGED <<shown, log, calls, told>>

\* The verdict says whether there was a handler and how it ended.
Justified(e, verdict) ==
    \/ verdict = "no_handler" /\ calls[e] = 0
    \/ verdict = "processed" /\ ending[e] = "returned"
    \/ verdict = "error" /\ ending[e] = "raised"

Decide(e, verdict) ==
    /\ log[e] = "duplicate" /\ Justified(e, verdict)
    /\ log' = [log EXCEPT ![e] = verdict]
    /\ UNCHANGED <<shown, calls, ending, told>>

Tell(e) ==
    /\ log[e] # "absent"
    /\ told' = told \cup {e}
    /\ UNCHANGED <<shown, log, calls, ending>>

Next ==
    \E e \in Events :
        \/ Show(e)
        \/ Record(e)
        \/ Call(e)
        \/ \E how \in {"returned", "raised"} : End(e, how)
        \/ \E verdict \in {"no_handler", "processed", "error"} : Decide(e, verdict)
        \/ Tell(e)

Spec == Init /\ [][Next]_vars
================================================================================
