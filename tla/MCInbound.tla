------------------------------- MODULE MCInbound -------------------------------
(***************************************************************************)
(* Small instances of Inbound for TLC.                                     *)
(***************************************************************************)
EXTENDS Inbound

CONSTANTS e1, e2, t1, t2

TwoEvents == {e1, e2}
TwoThreads == {t1, t2}

\* With two ticks in a second and a tolerance of one second: the ages at both ends of
\* the window and just beyond them.
Ages == {-3, -2, 2, 3}

Signed(shape, age, genuine) ==
    [Valid EXCEPT !.signature = [shape |-> shape, age |-> age, genuine |-> genuine]]

\* A valid request, and requests with one or two things wrong with them.
SampleRequests ==
    {Valid, [Valid EXCEPT !.known = FALSE], [Valid EXCEPT !.headers = FALSE],
     Signed("proper", 0, FALSE), Signed("malformed", 0, FALSE), Signed("huge", 0, FALSE),
     Signed("foreign", 0, FALSE), Signed("foreign", 3, FALSE),
     [Signed("proper", 3, TRUE) EXCEPT !.json = "malformed"]}
        \cup {Signed("proper", age, TRUE) : age \in Ages}
        \cup {[Valid EXCEPT !.json = j] : j \in {"malformed", "undecodable"}}


================================================================================
