------------------------------ MODULE FakeHost ------------------------------
(***************************************************************************)
(* The in-process host of fake.go in manual mode: one shared fakeState,    *)
(* the streams opened on it one after the other, the FakeControl that      *)
(* releases periods with Advance, and the goroutines that end a stream.    *)
(*                                                                         *)
(* A stream is used as stream.go uses a driver stream: one thread runs     *)
(* Start, Wait, Commit and Stop; whoever asks for the end calls Interrupt  *)
(* once, without a lock, at any later moment; Close follows Stop.  The     *)
(* channels a goroutine has picked up stay those of the stream it picked   *)
(* them up from: tokens and interrupts are kept per stream.                *)
(***************************************************************************)
EXTENDS Naturals

CONSTANTS
    MaxStreams,   \* bound: streams ever opened
    MaxPeriods,   \* bound: periods ever released to one stream
    TokenCap      \* buffer of the tokens channel, 64 in the code

ASSUME BoundsAssumption ==
    MaxStreams \in Nat \ {0} /\ MaxPeriods \in Nat \ {0} /\ TokenCap \in Nat \ {0}

VARIABLES
    generation, claimed, started, ended,  \* fakeState; generation from 1
    requested, completed,                 \* periods asked for and committed
    tokens, interrupt,                    \* per stream: its two channels
    tpc, pending, faulted,                \* per stream: its thread
    stopRequested, interrupter,           \* per stream: who ends it
    failure,                              \* per stream: what its Err reports
    committed,                            \* history: commits per stream
    apc, target, owner, left, watch,      \* the Advance call
    result                                \* what it answered last

stateVars == <<generation, claimed, started, ended, requested, completed>>
channelVars == <<tokens, interrupt>>
threadVars == <<tpc, pending, faulted, failure, committed>>
enderVars == <<stopRequested, interrupter>>
advanceVars == <<apc, target, owner, left, result>>
vars == <<stateVars, channelVars, threadVars, enderVars, advanceVars, watch>>

Streams == 1 .. MaxStreams
Ok == "nil"
ErrState == "state"
ErrStopped == "stopped"

Init ==
    /\ generation = 1
    /\ claimed = FALSE /\ started = FALSE /\ ended = FALSE
    /\ requested = 0 /\ completed = 0
    /\ tokens = [s \in Streams |-> 0]
    /\ interrupt = [s \in Streams |-> FALSE]
    /\ tpc = [s \in Streams |-> "none"]
    /\ pending = [s \in Streams |-> FALSE]
    /\ faulted = [s \in Streams |-> FALSE]
    /\ failure = [s \in Streams |-> Ok]
    /\ committed = [s \in Streams |-> 0]
    /\ stopRequested = [s \in Streams |-> FALSE]
    /\ interrupter = [s \in Streams |-> "none"]
    /\ apc = "idle" /\ target = 0 /\ owner = 1 /\ left = 0
    /\ watch = "none" /\ result = "none"

\* close(changed) wakes the Advance that holds the channel in use now.
Notify_Lost == UNCHANGED watch
Notify == watch' = IF watch = "armed" THEN "fired" ELSE watch

Goto(s, point) == tpc' = [tpc EXCEPT ![s] = point]

-----------------------------------------------------------------------------
(* Opening and closing.                                                    *)

Busy == claimed \/ (started /\ ~ended)

ResetCounts == requested' = 0 /\ completed' = 0

\* A stream opened after one that has ended gets fresh channels; an Advance
\* still holding the changed channel of the old one is not woken by the new.
Open(s) ==
    /\ ~Busy
    /\ s = IF ended THEN generation + 1 ELSE generation
    /\ claimed' = TRUE
    /\ generation' = s
    /\ Goto(s, "opened")
    /\ \/ /\ ended
          /\ started' = FALSE /\ ended' = FALSE
          /\ ResetCounts
          /\ watch' = IF watch = "armed" THEN "orphan" ELSE watch
       \/ /\ ~ended
          /\ UNCHANGED <<started, ended, requested, completed, watch>>
    /\ UNCHANGED <<channelVars, pending, faulted, failure, committed, enderVars,
                   advanceVars>>

\* Close, of a stream whose thread is gone or never was.
Close(s) ==
    /\ tpc[s] \in {"opened", "gone"}
    /\ Goto(s, "closed")
    /\ claimed' = FALSE
    /\ ended' = TRUE
    /\ IF ended THEN UNCHANGED watch ELSE Notify
    /\ UNCHANGED <<generation, started, requested, completed, channelVars,
                   pending, faulted, failure, committed, enderVars, advanceVars>>

-----------------------------------------------------------------------------
(* The thread of a stream.                                                 *)

\* The opened stream is not closed, and no other can have started or ended.
Start(s) ==
    /\ tpc[s] = "opened"
    /\ ~ended /\ ~started
    /\ started' = TRUE
    /\ Goto(s, "wait")
    /\ Notify
    /\ UNCHANGED <<generation, claimed, ended, requested, completed, channelVars,
                   pending, faulted, failure, committed, enderVars, advanceVars>>

\* Wait, asleep on two channels; which one wins when both are ready is open.
\* s.state.tokens and s.state.interrupt are those of the newest stream.
TakeToken(s) ==
    /\ tpc[s] = "wait" /\ ~pending[s]
    /\ tokens[generation] > 0
    /\ tokens' = [tokens EXCEPT ![generation] = @ - 1]
    /\ pending' = [pending EXCEPT ![s] = TRUE]
    /\ UNCHANGED <<stateVars, interrupt, tpc, faulted, failure, committed, enderVars,
                   advanceVars, watch>>

\* The loop leaves quietly if it was asked to, and with an error if not.
WaitInterrupted(s) ==
    /\ tpc[s] = "wait" /\ ~pending[s]
    /\ interrupt[generation]
    /\ Goto(s, "stop")
    /\ failure' = [failure EXCEPT ![s] =
                     IF stopRequested[s] THEN Ok ELSE "interrupted"]
    /\ UNCHANGED <<stateVars, channelVars, pending, faulted, committed, enderVars,
                   advanceVars, watch>>

KeepToken_Dropped(s) == pending' = [pending EXCEPT ![s] = FALSE]
KeepToken(s) == UNCHANGED pending

\* An injected fault: Wait answers ErrXrun once, Recover does nothing, and the
\* token is kept for the Wait after it.
WaitFault(s) ==
    /\ tpc[s] = "wait" /\ pending[s] /\ ~faulted[s]
    /\ faulted' = [faulted EXCEPT ![s] = TRUE]
    /\ Goto(s, IF stopRequested[s] THEN "stop" ELSE "wait")
    /\ KeepToken(s)
    /\ UNCHANGED <<stateVars, channelVars, failure, committed, enderVars,
                   advanceVars, watch>>

\* Wait answers nil; the loop runs the callback unless it is asked to stop.
WaitReady(s) ==
    /\ tpc[s] = "wait" /\ pending[s]
    /\ faulted' = [faulted EXCEPT ![s] = FALSE]
    /\ Goto(s, IF stopRequested[s] THEN "stop" ELSE "callback")
    /\ UNCHANGED <<stateVars, channelVars, pending, failure, committed, enderVars,
                   advanceVars, watch>>

\* Commit, and on to the next period; or it is the last one, because the
\* callback panicked or a stop was requested.
Commit(s) ==
    /\ tpc[s] = "callback"
    /\ completed' = completed + 1
    /\ committed' = [committed EXCEPT ![s] = @ + 1]
    /\ pending' = [pending EXCEPT ![s] = FALSE]
    /\ Notify
    /\ \/ /\ Goto(s, IF stopRequested[s] THEN "stop" ELSE "wait")
          /\ UNCHANGED failure
       \/ /\ Goto(s, "stop")
          /\ failure' = [failure EXCEPT ![s] = "callback"]
    /\ UNCHANGED <<generation, claimed, started, ended, requested, channelVars,
                   faulted, enderVars, advanceVars>>

\* Stop interrupts first, then ends the stream.
StopInterrupt(s) ==
    /\ tpc[s] = "stop"
    /\ interrupt' = [interrupt EXCEPT ![generation] = TRUE]
    /\ Goto(s, "stopEnd")
    /\ UNCHANGED <<stateVars, tokens, pending, faulted, failure, committed, enderVars,
                   advanceVars, watch>>

StopEnd(s) ==
    /\ tpc[s] = "stopEnd"
    /\ ended' = TRUE
    /\ IF ended THEN UNCHANGED watch ELSE Notify
    /\ Goto(s, "gone")
    /\ UNCHANGED <<generation, claimed, started, requested, completed, channelVars,
                   pending, faulted, failure, committed, enderVars, advanceVars>>

-----------------------------------------------------------------------------
(* Ending a stream from outside.                                           *)

\* Stop or Close of stream.go on a running stream: ask, and claim Interrupt.
RequestStop(s) ==
    /\ tpc[s] \notin {"none", "opened", "gone", "closed"}
    /\ ~stopRequested[s]
    /\ stopRequested' = [stopRequested EXCEPT ![s] = TRUE]
    /\ interrupter' = [interrupter EXCEPT ![s] = "claimed"]
    /\ UNCHANGED <<stateVars, channelVars, threadVars, advanceVars, watch>>

\* The claimed Interrupt: it closes the channel fakeState holds by now.
Interrupt(s) ==
    /\ interrupter[s] = "claimed"
    /\ interrupter' = [interrupter EXCEPT ![s] = "called"]
    /\ interrupt' = [interrupt EXCEPT ![generation] = TRUE]
    /\ UNCHANGED <<stateVars, tokens, threadVars, stopRequested, advanceVars, watch>>

-----------------------------------------------------------------------------
(* Advance: one call at a time, by advanceMu.                              *)

Answer(r) == apc' = "idle" /\ result' = r /\ watch' = "none"

Advance(n) ==
    /\ apc = "idle"
    /\ \/ /\ ~started \/ ended
          /\ Answer(ErrState)
          /\ UNCHANGED <<requested, target, owner, left>>
       \/ /\ started /\ ~ended
          /\ requested + n <= MaxPeriods
          /\ requested' = requested + n
          /\ target' = requested + n
          /\ owner' = generation
          /\ left' = n
          /\ apc' = "release" /\ result' = "none"
          /\ UNCHANGED watch
    /\ UNCHANGED <<generation, claimed, started, ended, completed, channelVars,
                   threadVars, enderVars>>

\* One token into the channel picked up, or the interrupt picked up with it.
Release ==
    /\ apc = "release"
    /\ \/ /\ left > 0 /\ tokens[owner] < TokenCap
          /\ tokens' = [tokens EXCEPT ![owner] = @ + 1]
          /\ left' = left - 1
          /\ UNCHANGED <<apc, result, watch>>
       \/ /\ left > 0 /\ interrupt[owner]
          /\ Answer(ErrState)
          /\ UNCHANGED <<tokens, left>>
       \/ /\ left = 0
          /\ apc' = "look"
          /\ UNCHANGED <<tokens, left, result, watch>>
    /\ UNCHANGED <<stateVars, interrupt, threadVars, enderVars, target, owner>>

SameStream == generation = owner

\* The critical section of the waiting loop.
Look ==
    /\ apc = "look"
    /\ \/ ~SameStream /\ Answer(ErrState)
       \/ SameStream /\ completed >= target /\ Answer(Ok)
       \/ SameStream /\ completed < target /\ ended /\ Answer(ErrStopped)
       \/ /\ SameStream /\ completed < target /\ ~ended
          /\ watch' = "armed"
          /\ apc' = "asleep"
          /\ UNCHANGED result
    /\ UNCHANGED <<stateVars, channelVars, threadVars, enderVars, target, owner, left>>

\* Woken by changed it looks again; by interrupt, it looks at completed only.
WakeChanged ==
    /\ apc = "asleep" /\ watch = "fired"
    /\ apc' = "look" /\ watch' = "none"
    /\ UNCHANGED <<stateVars, channelVars, threadVars, enderVars, target, owner, left,
                   result>>

WakeInterrupted ==
    /\ apc = "asleep" /\ interrupt[owner]
    /\ Answer(IF completed >= target THEN Ok ELSE ErrStopped)
    /\ UNCHANGED <<stateVars, channelVars, threadVars, enderVars, target, owner, left>>

-----------------------------------------------------------------------------
ThreadStep(s) ==
    \/ TakeToken(s) \/ WaitInterrupted(s) \/ WaitReady(s) \/ Commit(s)
    \/ StopInterrupt(s) \/ StopEnd(s)

AdvanceStep == Release \/ Look \/ WakeChanged \/ WakeInterrupted

Next ==
    \/ \E s \in Streams :
         \/ Open(s) \/ Close(s) \/ Start(s) \/ ThreadStep(s) \/ WaitFault(s)
         \/ RequestStop(s) \/ Interrupt(s)
    \/ \E n \in 1 .. MaxPeriods : Advance(n)
    \/ AdvanceStep

Spec == Init /\ [][Next]_vars

\* The callback returns, so the threads run; so does the Advance in progress.
FairSpec ==
    Spec /\ WF_vars(AdvanceStep) /\ \A s \in Streams : WF_vars(ThreadStep(s))

-----------------------------------------------------------------------------
(* Properties.                                                             *)

Periods == 0 .. MaxPeriods

\* No period is lost or made up: what was released is waiting, in hand or
\* committed, whatever faults came between.  Only an interrupt makes Advance
\* give up before it has released them all.
Released ==
    tokens[generation] + committed[generation]
        + (IF pending[generation] THEN 1 ELSE 0)
        + (IF apc = "release" /\ owner = generation THEN left ELSE 0)

PeriodsKept ==
    /\ Released <= requested
    /\ ~interrupt[generation] => Released = requested

\* "Advance releases exactly periods manual periods and waits until those
\* periods have been committed" (fake.go:115): nil means that the stream it
\* released them to has committed all that was ever released to it.
AdvanceCommits == result = Ok => committed[owner] = target

\* Every period released is delivered once, and Advance tells the truth of it.
Delivered == PeriodsKept /\ AdvanceCommits

\* Every Advance returns: when its periods are committed, or when the stream
\* stops (fake.go:116), even if it stops between two looks at it.
AdvanceReturns == apc # "idle" ~> apc = "idle"
=============================================================================
