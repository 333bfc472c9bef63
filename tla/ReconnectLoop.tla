---------------------------- MODULE ReconnectLoop ----------------------------
(***************************************************************************)
(* What a reconnect loop promises whoever stops it: an attempt to connect  *)
(* may still end the one way or the other, but none begins once the stop   *)
(* was asked for, and a loop that is over stays over, whether it gave up   *)
(* or was stopped.  WsLink and VenueLink are both shown to implement this  *)
(* module; each of them maps its own steps of connecting onto it.          *)
(***************************************************************************)

VARIABLES
    loop,    \* "trying" to connect, "up", "pausing" before an attempt, "over"
    asked    \* the stop was asked for

vars == <<loop, asked>>

Init == loop = "trying" /\ asked = FALSE

Attempt ==
    /\ loop \in {"up", "pausing"}
    /\ ~ asked
    /\ loop' = "trying"
    /\ UNCHANGED asked

\* An attempt succeeds, is followed by a pause, or was the last one.
Conclude ==
    /\ loop = "trying"
    /\ loop' \in {"up", "pausing", "over"}
    /\ UNCHANGED asked

\* The stop cuts the loop off at once, or it goes on to notice it.
Ask ==
    /\ ~ asked
    /\ asked' = TRUE
    /\ loop' \in {loop, "over"}

End ==
    /\ asked
    /\ loop' = "over"
    /\ UNCHANGED asked

Next == Attempt \/ Conclude \/ Ask \/ End

Spec == Init /\ [][Next]_vars

===============================================================================
