------------------------------ MODULE MCRetryChain ------------------------------
(***************************************************************************)
(* RetryChain with the default settings, in minutes: 1m, 5m, 30m, 2h, 12h. *)
(***************************************************************************)
EXTENDS RetryChain

DefaultBackoff == <<1, 5, 30, 120, 720>>

\* Fewer entries than attempts, so that the last entry is used twice (minutes).
ShortBackoff == <<10, 20, 40>>

SampleAnswers == {NoCode, 101, 200, 301, 404, 408, 429, 503}
================================================================================
