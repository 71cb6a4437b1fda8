------------------------------- MODULE MCPublish -------------------------------
(***************************************************************************)
(* Small instances of Publish for TLC.                                     *)
(***************************************************************************)
EXTENDS Publish, TLC

CONSTANTS p1, a1, r1, s1, s2, c1, c2, x1

OneProducer == {p1}
OneAdmin == {a1}
OneRunner == {r1}
AllProcesses == {p1, a1, r1}
OneSub == {s1}
TwoSubs == {s1, s2}
OneChange == {c1}
TwoChanges == {c1, c2}
NoTest == {}
OneTest == {x1}
AllDeliveries == {c1, c2, x1} \X TwoSubs
OneDelivery == {c1} \X OneSub

\* A 2xx; every other outcome is the same to this module as no answer.
JustOK == {200}

AtOnce == <<0>>

\* A change whose updates are no news, and one whose updates are.
TwoKinds == c1 :> "workflow.transition.completed" @@ c2 :> "sla.configured"

\* All subscriptions want the first kind, none the second.
Transitions == {{"workflow.transition.completed"}}

JustTransition == c1 :> "workflow.transition.completed"

JustCelery == {"celery"}

\* "inline" is what "unset" means.
AllSettings == {"unset", "outbox", "celery", "unusable"}

InterchangeableSubs == Permutations(TwoSubs)
================================================================================
