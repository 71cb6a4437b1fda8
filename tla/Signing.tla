--------------------------------- MODULE Signing ---------------------------------
(***************************************************************************)
(* signing.py: what verify_signature makes of a signature header.          *)
(*                                                                         *)
(* Time is a whole number of ticks, so that a fraction of a second is a    *)
(* number of ticks; the header carries whole seconds.  HMAC-SHA256 is      *)
(* external and taken as unforgeable: the code v1 is either the one that   *)
(* compute_signature makes of this body, this timestamp and this secret,   *)
(* or it is not.                                                           *)
(***************************************************************************)
EXTENDS Integers

CONSTANTS
    Ticks,     \* ticks in a second
    Tolerance  \* SINPAPEL_WEBHOOKS_TIMESTAMP_TOLERANCE, in seconds

ASSUME TicksAssumption == Ticks \in Nat \ {0}
ASSUME ToleranceAssumption == Tolerance \in Nat

\* The header, as far as it can be read.  "malformed" stands for no header, a part
\* without "=", no t or v1, or a t that is no number; "huge" for a t that no float can
\* hold, which the drift stumbles over; "foreign" for a v1 that is not ASCII, which
\* compare_digest does not take.  Nobody catches what the last two raise.
Shape == {"proper", "malformed", "huge", "foreign"}

\* age: time.time() minus t, in ticks; negative for a sender whose clock is ahead.
Signature == [shape : Shape, age : Int, genuine : BOOLEAN]

\* int(time.time()): whole seconds, rounded down.
IsStamp(seconds, now) ==
    seconds * Ticks <= now /\ now < (seconds + 1) * Ticks

\* Mutant: the drift is not an absolute value.
InWindowOneSided(age) == age <= Tolerance * Ticks

InWindow(age) == age <= Tolerance * Ticks /\ -age <= Tolerance * Ticks

\* The order of the checks: the header, the drift, the window, the code.
Verify(signature) ==
    IF signature.shape = "malformed" THEN "refused"
    ELSE IF signature.shape = "huge" THEN "raises"
    ELSE IF ~InWindow(signature.age) THEN "refused"
    ELSE IF signature.shape = "foreign" THEN "raises"
    ELSE IF signature.genuine THEN "accepted" ELSE "refused"

================================================================================
