-------------------------- MODULE StreamLifecycle ---------------------------
(***************************************************************************)
(* What a Stream promises to the goroutines that call it, with no locks,   *)
(* channels, threads or interrupts: an answer is tied to the phase of the  *)
(* stream at the moment it is given.                                       *)
(***************************************************************************)
CONSTANTS
    Callers,
    Nobody,    \* not a caller
    NoErr,     \* the nil error
    ErrState,  \* the call does not fit the phase
    StartErrs, \* why a device may refuse to start
    CloseErrs  \* what closing a device may answer, NoErr included

VARIABLES
    phase,     \* opened, active, ended, closing, closed
    starter,   \* the caller whose Start is in progress, or Nobody
    call,      \* the method each caller is in, or "none"
    answer,    \* the last method each caller returned from, and its result
    verdict    \* the error of the close

vars == <<phase, starter, call, answer, verdict>>

Init ==
    /\ phase = "opened"
    /\ starter = Nobody
    /\ call = [c \in Callers |-> "none"]
    /\ answer = [c \in Callers |-> <<"none", NoErr>>]
    /\ verdict = NoErr

Call(c, op) ==
    /\ call[c] = "none"
    /\ call' = [call EXCEPT ![c] = op]
    /\ UNCHANGED <<phase, starter, answer, verdict>>

Answer(c, result) ==
    /\ answer' = [answer EXCEPT ![c] = <<call[c], result>>]
    /\ call' = [call EXCEPT ![c] = "none"]

\* One Start, and only before any Close, brings the stream to life.
Activate(c) ==
    /\ call[c] = "Start" /\ phase = "opened"
    /\ phase' = "active"
    /\ starter' = c
    /\ UNCHANGED <<call, answer, verdict>>

\* It answers nil or the device's error; every other Start is refused.
AnswerStart(c) ==
    /\ call[c] = "Start"
    /\ \/ /\ starter = c
          /\ \E err \in StartErrs \cup {NoErr} : Answer(c, err)
       \/ starter # c /\ phase # "opened" /\ Answer(c, ErrState)
    /\ starter' = IF starter = c THEN Nobody ELSE starter
    /\ UNCHANGED <<phase, verdict>>

\* The audio stops; if a Close is waiting for that, it goes ahead.
End ==
    /\ phase = "active"
    /\ \/ phase' = "ended"
       \/ phase' = "closing" /\ \E c \in Callers : call[c] = "Close"
    /\ UNCHANGED <<starter, call, answer, verdict>>

\* Stop answers nil when the audio has stopped, and is refused before there is
\* any and after the close.
AnswerStop(c) ==
    /\ call[c] = "Stop"
    /\ \/ phase \in {"ended", "closing", "closed"} /\ Answer(c, NoErr)
       \/ phase \in {"opened", "closed"} /\ Answer(c, ErrState)
    /\ UNCHANGED <<phase, starter, verdict>>

BeginClose(c) ==
    /\ call[c] = "Close" /\ phase \in {"opened", "ended"}
    /\ phase' = "closing"
    /\ UNCHANGED <<starter, call, answer, verdict>>

\* The close happens once and every Close answers its error, afterwards.
FinishClose(c) ==
    /\ call[c] = "Close" /\ phase = "closing"
    /\ phase' = "closed"
    /\ verdict' \in CloseErrs
    /\ Answer(c, verdict')
    /\ UNCHANGED starter

AnswerClose(c) ==
    /\ call[c] = "Close" /\ phase = "closed"
    /\ Answer(c, verdict)
    /\ UNCHANGED <<phase, starter, verdict>>

Next ==
    \/ End
    \/ \E c \in Callers :
         \/ \E op \in {"Start", "Stop", "Close"} : Call(c, op)
         \/ Activate(c) \/ AnswerStart(c) \/ AnswerStop(c)
         \/ BeginClose(c) \/ FinishClose(c) \/ AnswerClose(c)

Spec == Init /\ [][Next]_vars
=============================================================================
