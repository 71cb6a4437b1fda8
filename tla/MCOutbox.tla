-------------------------------- MODULE MCOutbox --------------------------------
(***************************************************************************)
(* Small instances of Outbox for TLC.                                      *)
(***************************************************************************)
EXTENDS Outbox, TLC

CONSTANTS d1, d2, w1, w2

OneDelivery == {d1}
TwoDeliveries == {d1, d2}
OneWorker == {w1}
TwoWorkers == {w1, w2}

\* A delivery that succeeds, one refused for good, one worth a retry.
AnswerCodes == {200, 404, 503}

BackoffOneTwo == <<1, 2>>

AllFaults == FaultKinds

Interchangeable == Permutations(TwoDeliveries)
================================================================================
