---------------------------- MODULE DriverStream ----------------------------
(***************************************************************************)
(* What the portable stream and a backend owe each other: the driver's     *)
(* Stream interface (internal/driver/driver.go) as run and loop of         *)
(* stream.go use it.  The stream calls in the order below and the backend  *)
(* answers as written; there is no answer for a call that does not fit, so *)
(* neither side may bring it about.  StreamCore is on one side of it, the  *)
(* backends' models are on the other.                                      *)
(*                                                                         *)
(* Interrupt is the one call that may come at any moment, also when the    *)
(* stream is closed; the others come one after the other.                  *)
(***************************************************************************)
CONSTANT StartReportsInterrupt \* may Start end because of an Interrupt?

VARIABLES
    at,          \* "new", "ready" for a Wait, "period" to be committed, "xrun",
                 \* "interrupted", "over", "stopped", "closed"
    interrupted  \* Interrupt has been called

vars == <<at, interrupted>>

Init == at = "new" /\ interrupted = FALSE

Interruption == IF interrupted THEN {"interrupted"} ELSE {}

\* The device runs or it does not; a backend whose Start fails may have stopped
\* it already.
Start ==
    /\ at = "new"
    /\ at' \in {"ready", "over", "stopped"}
                  \cup (IF StartReportsInterrupt THEN Interruption ELSE {})
    /\ UNCHANGED interrupted

\* There is a period, or an xrun to recover from, or it is over; only a stream
\* that was interrupted says so.
Wait ==
    /\ at = "ready"
    /\ at' \in {"period", "xrun", "over"} \cup Interruption
    /\ UNCHANGED interrupted

\* The period that was waited for.
Commit ==
    /\ at = "period"
    /\ at' \in {"ready", "xrun", "over"}
    /\ UNCHANGED interrupted

Recover ==
    /\ at = "xrun"
    /\ at' \in {"ready", "over"}
    /\ UNCHANGED interrupted

\* The loop is left: it was asked to end, or its callback failed.
Leave ==
    /\ at \in {"ready", "period", "interrupted"}
    /\ at' = "over"
    /\ UNCHANGED interrupted

Stop ==
    /\ at \in {"over", "interrupted"}
    /\ at' = "stopped"
    /\ UNCHANGED interrupted

\* A stream may be closed without having been started.
Close ==
    /\ at \in {"new", "stopped"}
    /\ at' = "closed"
    /\ UNCHANGED interrupted

Interrupt ==
    /\ interrupted' = TRUE
    /\ UNCHANGED at

Next ==
    \/ Start \/ Wait \/ Commit \/ Recover \/ Leave \/ Stop \/ Close
    \/ Interrupt

Spec == Init /\ [][Next]_vars
=============================================================================
