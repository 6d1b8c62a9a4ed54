----------------------------- MODULE StreamCore -----------------------------
(***************************************************************************)
(* The portable stream of stream.go: API goroutines that call Start, Stop  *)
(* and Close in any order and overlap, the one stream thread that Start    *)
(* creates, and the driver stream they share.                              *)
(*                                                                         *)
(* A critical section of Stream.mu never blocks, so each is one step; what *)
(* a method does after it unlocked (Interrupt, awaitClosed, device.Close,  *)
(* the closing section of Close) is a step of its own.  The stream thread  *)
(* takes a step per driver call.  A channel is a flag: TRUE is closed.     *)
(*                                                                         *)
(* The driver is its contract (driver/driver.go): any call may fail, Wait  *)
(* blocks until the device has something to report, and an Interrupt is    *)
(* remembered, so that it ends this Wait or the next one.  What one period *)
(* carries (frames, clocks, drop-outs, samples) is left out.               *)
(***************************************************************************)
EXTENDS FiniteSets

CONSTANTS
    Callers,              \* goroutines that use the stream
    StartReportsInterrupt \* may device.Start fail because it was interrupted?

ASSUME CallersAssumption == IsFiniteSet(Callers)
ASSUME StartReportsAssumption == StartReportsInterrupt \in BOOLEAN

VARIABLES
    state, closing, started,    \* Stream fields guarded by mu
    interrupt,                  \* some caller has claimed device.Interrupt
    stopRequested,              \* the atomic the loop polls
    startDone, done, closeDone, \* the channels awaitClosed polls
    startErr, closeErr,
    failure,                    \* failureErr, published by failureReady
    tpc, waitErr,               \* stream thread: control point, Wait's result
    device, interrupted,        \* driver stream: its state, its Interrupt
    pc, reply                   \* callers: control point, last call's result

apiVars    == <<state, closing, started, interrupt, stopRequested>>
closeVars  == <<closeDone, closeErr>>
startVars  == <<startDone, startErr>>
threadVars == <<done, failure, tpc, waitErr>>
deviceVars == <<device, interrupted>>
callVars   == <<pc, reply>>
vars == <<apiVars, closeVars, startVars, threadVars, deviceVars, callVars>>

NoErr == "nil"
ErrState == "state"
Ops == {"Start", "Stop", "Close"}
States == {"opened", "running", "stopping", "stopped", "failed", "closed"}
WaitErrs == {NoErr, "xrun", "lost", "interrupted", "wait"}
StartErrs == {"start", "startInterrupted"}
CloseErrs == {NoErr, "close"}
Failures == StartErrs \cup
    {"lost", "interrupted", "wait", "recover", "format", "callback",
     "commit", "stop"}
LoopPoints == {"top", "wait", "waited", "recover", "callback", "panic", "commit"}
DevicePoints == LoopPoints \cup {"start", "startFailed", "exit"}
ThreadPoints == DevicePoints \cup {"none", "finish", "exited"}
Closers == {"closeInterrupt", "closeAwait", "closeDevice", "closeFinish"}
CallPoints == Ops \cup Closers \cup
    {"idle", "startAwait", "stopInterrupt", "stopAwait", "stopAwaitClose",
     "closeAwaitClose"}

-----------------------------------------------------------------------------
(* Opening.                                                                *)

\* Open hands out a stream whose device is open and whose thread does not
\* exist; startDone and done are made by Start, before anyone can read them.
Init ==
    /\ state = "opened" /\ closing = FALSE /\ started = FALSE
    /\ interrupt = FALSE /\ stopRequested = FALSE
    /\ startDone = FALSE /\ done = FALSE /\ closeDone = FALSE
    /\ startErr = NoErr /\ closeErr = NoErr /\ failure = NoErr
    /\ tpc = "none" /\ waitErr = NoErr
    /\ device = "open" /\ interrupted = FALSE
    /\ pc = [c \in Callers |-> "idle"]
    /\ reply = [c \in Callers |-> <<"none", NoErr>>]

-----------------------------------------------------------------------------
(* Callers.                                                                *)

Goto(c, point) == pc' = [pc EXCEPT ![c] = point] /\ UNCHANGED reply

Return(c, op, result) ==
    /\ pc' = [pc EXCEPT ![c] = "idle"]
    /\ reply' = [reply EXCEPT ![c] = <<op, result>>]

\* A goroutine calls a method and has not yet locked mu.
Invoke(c, op) ==
    /\ pc[c] = "idle"
    /\ Goto(c, op)
    /\ UNCHANGED <<apiVars, closeVars, startVars, threadVars, deviceVars>>

Startable_Closing == state = "opened"
Startable == state = "opened" /\ ~closing

Start(c) ==
    /\ pc[c] = "Start"
    /\ \/ /\ ~Startable
          /\ Return(c, "Start", ErrState)
          /\ UNCHANGED <<apiVars, tpc>>
       \/ /\ Startable
          /\ state' = "running"
          /\ started' = TRUE
          /\ tpc' = "start"
          /\ Goto(c, "startAwait")
          /\ UNCHANGED <<closing, interrupt, stopRequested>>
    /\ UNCHANGED <<closeVars, startVars, done, failure, waitErr, deviceVars>>

StartReturn(c) ==
    /\ pc[c] = "startAwait"
    /\ startDone
    /\ Return(c, "Start", startErr)
    /\ UNCHANGED <<apiVars, closeVars, startVars, threadVars, deviceVars>>

\* The stream thread has ended on its own or at a request: finishRun ran.
Ended == state \in {"stopped", "failed"}

\* The first caller to ask for the end goes on to call device.Interrupt.
ClaimInterrupt_Never(c, int, after) == interrupt' = TRUE /\ Goto(c, after)
ClaimInterrupt(c, int, after) ==
    /\ interrupt' = TRUE
    /\ Goto(c, IF interrupt THEN after ELSE int)

StoreStopRequested == stopRequested' = TRUE

\* Stop and Close ask the thread to leave its loop.
RequestStop(c, int, after) ==
    /\ state' = "stopping"
    /\ StoreStopRequested
    /\ ClaimInterrupt(c, int, after)
    /\ UNCHANGED started

Stop(c) ==
    /\ pc[c] = "Stop"
    /\ \/ /\ closing \/ state = "closed"
          /\ Goto(c, "stopAwaitClose")
          /\ UNCHANGED apiVars
       \/ /\ ~closing /\ state # "closed"
          /\ \/ ~started /\ Return(c, "Stop", ErrState) /\ UNCHANGED apiVars
             \/ started /\ Ended /\ Return(c, "Stop", NoErr) /\ UNCHANGED apiVars
             \/ /\ started /\ ~Ended
                /\ RequestStop(c, "stopInterrupt", "stopAwait")
                /\ UNCHANGED closing
    /\ UNCHANGED <<closeVars, startVars, threadVars, deviceVars>>

\* awaitClosed(done) has returned.
ThreadGone_Assumed == TRUE
ThreadGone == done

StopReturn(c) ==
    /\ \/ pc[c] = "stopAwait" /\ ThreadGone /\ Return(c, "Stop", NoErr)
       \/ pc[c] = "stopAwaitClose" /\ closeDone /\ Return(c, "Stop", ErrState)
    /\ UNCHANGED <<apiVars, closeVars, startVars, threadVars, deviceVars>>

\* device.Interrupt, called without mu: anything may have happened since the
\* caller claimed it, another caller's device.Close included.
Interrupt(c) ==
    /\ \/ pc[c] = "stopInterrupt" /\ Goto(c, "stopAwait")
       \/ pc[c] = "closeInterrupt" /\ Goto(c, "closeAwait")
    /\ interrupted' = TRUE
    /\ UNCHANGED <<apiVars, closeVars, startVars, threadVars, device>>

MarkClosing_Not == UNCHANGED closing
MarkClosing == closing' = TRUE

\* state = "closed" implies closing, so Close's second early return (the state
\* is closed and nobody is closing) is the first one.
Close(c) ==
    /\ pc[c] = "Close"
    /\ \/ /\ closing
          /\ Goto(c, "closeAwaitClose")
          /\ UNCHANGED apiVars
       \/ /\ ~closing
          /\ MarkClosing
          /\ \/ /\ started /\ ~Ended
                /\ RequestStop(c, "closeInterrupt", "closeAwait")
             \/ /\ ~started \/ Ended
                /\ Goto(c, IF started THEN "closeAwait" ELSE "closeDevice")
                /\ UNCHANGED <<state, stopRequested, interrupt, started>>
    /\ UNCHANGED <<closeVars, startVars, threadVars, deviceVars>>

CloseAwait(c) ==
    /\ pc[c] = "closeAwait"
    /\ ThreadGone
    /\ Goto(c, "closeDevice")
    /\ UNCHANGED <<apiVars, closeVars, startVars, threadVars, deviceVars>>

CloseDevice(c) ==
    /\ pc[c] = "closeDevice"
    /\ device' = "closed"
    /\ Goto(c, "closeFinish")
    /\ UNCHANGED <<apiVars, closeVars, startVars, threadVars, interrupted>>

\* err is what the device.Close of the previous step answered.
CloseFinish(c) ==
    /\ pc[c] = "closeFinish"
    /\ \E err \in CloseErrs :
         /\ closeErr' = err
         /\ Return(c, "Close", err)
    /\ state' = "closed"
    /\ closeDone' = TRUE
    /\ UNCHANGED <<closing, started, interrupt, stopRequested, startVars,
                   threadVars, deviceVars>>

CloseSettled == closeDone

CloseReturn(c) ==
    /\ pc[c] = "closeAwaitClose"
    /\ CloseSettled
    /\ Return(c, "Close", closeErr)
    /\ UNCHANGED <<apiVars, closeVars, startVars, threadVars, deviceVars>>

-----------------------------------------------------------------------------
(* The stream thread.                                                      *)

SetFailure(err) == failure' = IF failure = NoErr THEN err ELSE failure

\* setFailure followed by a return from loop.
Fail(err) == SetFailure(err) /\ tpc' = "exit"

\* The results device.Start may have.  ALSA's refuses to start once interrupted,
\* CoreAudio's waits for its first input and may be interrupted there.
StartResults ==
    {NoErr, "start"}
        \cup (IF StartReportsInterrupt /\ interrupted THEN {"startInterrupted"} ELSE {})

StoreStartErr(err) == startErr' = err /\ SetFailure(err)

\* run: device.Start succeeds and startDone is closed; or it fails and the
\* error is stored for Start and for Err.
RunStart ==
    /\ tpc = "start"
    /\ \E err \in StartResults :
         \/ /\ err = NoErr
            /\ device' = "started"
            /\ startDone' = TRUE
            /\ tpc' = "top"
            /\ UNCHANGED <<startErr, failure>>
         \/ /\ err # NoErr
            /\ StoreStartErr(err)
            /\ tpc' = "startFailed"
            /\ UNCHANGED <<device, startDone>>
    /\ UNCHANGED <<apiVars, closeVars, done, waitErr, interrupted, callVars>>

\* run, device.Start failed: device.Stop, then startDone.
RunStartFailed ==
    /\ tpc = "startFailed"
    /\ device' = "stopped"
    /\ startDone' = TRUE
    /\ tpc' = "finish"
    /\ UNCHANGED <<apiVars, closeVars, startErr, done, failure, waitErr,
                   interrupted, callVars>>

loopFrame == <<apiVars, closeVars, startVars, done, deviceVars, callVars>>

LoopTop ==
    /\ tpc = "top"
    /\ tpc' = IF stopRequested THEN "exit" ELSE "wait"
    /\ UNCHANGED <<loopFrame, failure, waitErr>>

\* Wait returns err; only an interrupted device answers ErrInterrupted.
Wait(err) ==
    /\ tpc = "wait"
    /\ err = "interrupted" => interrupted
    /\ waitErr' = err
    /\ tpc' = "waited"
    /\ UNCHANGED <<loopFrame, failure>>

FatalWaitErrs == {"lost", "wait"}

\* What the loop makes of Wait's result, in the order of its tests.
AfterWait ==
    /\ tpc = "waited"
    /\ \/ /\ waitErr = "interrupted" /\ stopRequested
          /\ tpc' = "exit"
          /\ UNCHANGED failure
       \/ /\ waitErr = "interrupted" /\ ~stopRequested
          /\ Fail(waitErr)
       \/ /\ waitErr = "xrun"
          /\ tpc' = "recover"
          /\ UNCHANGED failure
       \/ /\ waitErr \in FatalWaitErrs
          /\ Fail(waitErr)
       \/ /\ waitErr = NoErr
          /\ tpc' = IF stopRequested THEN "exit" ELSE "callback"
          /\ UNCHANGED failure
    /\ waitErr' = NoErr
    /\ UNCHANGED loopFrame

Recover ==
    /\ tpc = "recover"
    /\ \/ tpc' = "top" /\ UNCHANGED failure
       \/ Fail("recover")
    /\ UNCHANGED <<loopFrame, waitErr>>

\* One period: the input does not decode, the callback panics, the output
\* does not encode, or all is ready for Commit.
RunCallback ==
    /\ tpc = "callback"
    /\ \/ Fail("format")
       \/ tpc' = "panic" /\ UNCHANGED failure
       \/ tpc' = "commit" /\ UNCHANGED failure
    /\ UNCHANGED <<loopFrame, waitErr>>

\* After a panic a period of silence is committed, whatever Commit answers.
CommitSilence ==
    /\ tpc = "panic"
    /\ Fail("callback")
    /\ UNCHANGED <<loopFrame, waitErr>>

Commit ==
    /\ tpc = "commit"
    /\ \/ tpc' \in {"top", "recover"} /\ UNCHANGED failure
       \/ Fail("commit")
    /\ UNCHANGED <<loopFrame, waitErr>>

\* run, after the loop: device.Stop, whose error counts as a failure.
RunStop ==
    /\ tpc = "exit"
    /\ device' = "stopped"
    /\ \E err \in {NoErr, "stop"} : SetFailure(err)
    /\ tpc' = "finish"
    /\ UNCHANGED <<apiVars, closeVars, startVars, done, waitErr, interrupted,
                   callVars>>

FinalState == IF failure = NoErr THEN "stopped" ELSE "failed"

FinishRun ==
    /\ tpc = "finish"
    /\ state' = FinalState
    /\ done' = TRUE
    /\ tpc' = "exited"
    /\ UNCHANGED <<closing, started, interrupt, stopRequested, closeVars,
                   startVars, failure, waitErr, deviceVars, callVars>>

-----------------------------------------------------------------------------
(* The specification.                                                      *)

\* What the thread does without waiting for the device.
ThreadStep ==
    \/ RunStart \/ RunStartFailed \/ LoopTop \/ Wait("interrupted")
    \/ AfterWait \/ Recover \/ RunCallback \/ CommitSilence \/ Commit
    \/ RunStop \/ FinishRun

CallerStep(c) ==
    \/ Start(c) \/ StartReturn(c)
    \/ Stop(c) \/ StopReturn(c) \/ Interrupt(c)
    \/ Close(c) \/ CloseAwait(c) \/ CloseDevice(c) \/ CloseFinish(c)
    \/ CloseReturn(c)

Next ==
    \/ ThreadStep
    \/ \E err \in WaitErrs : Wait(err)
    \/ \E c \in Callers : CallerStep(c) \/ \E op \in Ops : Invoke(c, op)

Spec == Init /\ [][Next]_vars

\* The thread runs and an interrupted Wait returns; a goroutine inside a call
\* is scheduled.  Nothing makes the device deliver, nobody has to call.
Fairness == WF_vars(ThreadStep) /\ \A c \in Callers : WF_vars(CallerStep(c))
FairSpec == Spec /\ Fairness

-----------------------------------------------------------------------------
(* Properties.                                                             *)

TypeOK ==
    /\ state \in States
    /\ closing \in BOOLEAN /\ started \in BOOLEAN
    /\ interrupt \in BOOLEAN /\ stopRequested \in BOOLEAN
    /\ startDone \in BOOLEAN /\ done \in BOOLEAN /\ closeDone \in BOOLEAN
    /\ startErr \in StartErrs \cup {NoErr}
    /\ closeErr \in CloseErrs
    /\ failure \in Failures \cup {NoErr}
    /\ tpc \in ThreadPoints
    /\ waitErr \in WaitErrs
    /\ device \in {"open", "started", "stopped", "closed"}
    /\ interrupted \in BOOLEAN
    /\ pc \in [Callers -> CallPoints]
    /\ reply \in [Callers -> (Ops \cup {"none"})
                              \X (StartErrs \cup CloseErrs \cup {ErrState})]

\* The driver is used as its interface demands: the loop runs on a started
\* device, and nothing but a late Interrupt reaches it once it is closed
\* (Close waits for the thread, run stops the device, stream.go:376-382).
DeviceProtocol ==
    /\ tpc \in LoopPoints => device = "started"
    /\ device = "closed" => tpc \notin DevicePoints

\* At most one Close performs the close, and none after closeDone is closed:
\* device.Close runs once and close(closeDone) cannot panic.
SingleCloser ==
    /\ \A c, d \in Callers : pc[c] \in Closers /\ pc[d] \in Closers => c = d
    /\ closeDone => \A c \in Callers : pc[c] \notin Closers

\* At most one caller ever calls device.Interrupt (stream.go:329, 377).
SingleInterrupt ==
    \A c \in Callers : pc[c] \in {"stopInterrupt", "closeInterrupt"} =>
        /\ ~interrupted
        /\ \A d \in Callers \ {c} :
             pc[d] \notin {"stopInterrupt", "closeInterrupt"}

\* One Close closes and one caller interrupts, however many come at once.
OneAtATime == SingleCloser /\ SingleInterrupt

\* Once a Stop has returned nil the thread has left the device for good: no
\* callback runs any more, and the stream says how it ended.
StopMeansStopped ==
    \A c \in Callers : reply[c] = <<"Stop", NoErr>> =>
        tpc = "exited" /\ state \in {"stopped", "failed", "closed"}

\* Every Close that has returned, the one that closed and those that waited
\* for it, finds the device closed and reports the same error.
CloseMeansClosed ==
    \A c \in Callers : reply[c][1] = "Close" =>
        state = "closed" /\ device = "closed" /\ reply[c][2] = closeErr

\* Start reports what device.Start answered: nil only if the device started,
\* and an error that Err already reports too.
StartMeansStarted ==
    \A c \in Callers : reply[c][1] = "Start" =>
        /\ reply[c][2] = NoErr => device # "open" /\ startErr = NoErr
        /\ reply[c][2] \in StartErrs => failure = reply[c][2]

\* An answer, once given, is true and stays so, whoever else calls.
AnswersTrue == StopMeansStopped /\ CloseMeansClosed /\ StartMeansStarted

\* How the stream ended is what Err says: stopped if and only if nothing
\* failed, even when a stop request raced the failure.
EndAgreesWithErr ==
    /\ state = "stopped" => failure = NoErr
    /\ state = "failed" => failure # NoErr
    /\ Ended => done

\* What the callers of one stream may rely on, however many they are: one of
\* them closes, no answer is ever untrue, and the end is what Err says.
LifecycleSafe == OneAtATime /\ AnswersTrue /\ EndAgreesWithErr

\* "Err reports the first spontaneous failure that stopped the stream"
\* (stream.go:419): a requested stop is never one.
ErrIsSpontaneous == failure \notin {"interrupted", "startInterrupted"}

StateSteps ==
    {<<"opened", "running">>, <<"opened", "closed">>,
     <<"running", "stopping">>, <<"running", "stopped">>, <<"running", "failed">>,
     <<"stopping", "stopped">>, <<"stopping", "failed">>,
     <<"stopped", "closed">>, <<"failed", "closed">>}

StateStep == <<state, state'>> \in StateSteps

\* The state only moves forward: an ended stream is never stopping again and
\* a closed one never reopens, however late finishRun and Stop run.
StateForward == [][StateStep]_state

\* The first failure is the one that stays (stream.go:500-508).
FirstFailureKept == [][failure # NoErr => failure' = failure]_failure

\* Every Start, Stop and Close returns, whatever calls run beside it and even
\* if the device never delivers another period.
CallsReturn ==
    \A c \in Callers : pc[c] \in Ops ~> pc[c] = "idle"

-----------------------------------------------------------------------------
(* The inductive invariant behind the safety properties: the fields of the *)
(* Stream, the thread's control point and the device always agree on how   *)
(* far the stream has come.                                                *)

Interrupters == {"stopInterrupt", "closeInterrupt"}

\* The fields and the thread agree.
ThreadInv ==
    /\ started <=> tpc # "none"
    /\ done <=> tpc = "exited"
    /\ state = "opened" => ~started
    /\ ~started => state \in {"opened", "closed"}
    /\ started /\ ~done => state \in {"running", "stopping"}
    /\ done => state \in {"stopped", "failed", "closed"}

\* The thread, the device and what Start will answer agree.
DeviceInv ==
    /\ tpc = "none" => device \in {"open", "closed"}
    /\ tpc \in {"start", "startFailed"} => device = "open"
    /\ tpc \in LoopPoints \cup {"exit"} => device = "started"
    /\ tpc = "finish" => device = "stopped"
    /\ tpc = "exited" => device # "open"
    /\ startDone <=> tpc \notin {"none", "start", "startFailed"}
    /\ tpc \in {"none", "start"} => failure = NoErr
    /\ startErr # NoErr => /\ failure = startErr
                           /\ tpc \in {"startFailed", "finish", "exited"}
    /\ tpc = "startFailed" => startErr # NoErr
    /\ device = "closed" => closing /\ (started => done)

\* The one who closes, and those who wait for it.
CloseInv ==
    /\ closeDone <=> state = "closed"
    /\ closeDone => closing /\ device = "closed"
    /\ \A c \in Callers :
         /\ pc[c] \in Closers => closing /\ ~closeDone
         /\ pc[c] \in {"closeDevice", "closeFinish"} => (started => done)
         /\ pc[c] = "closeFinish" => device = "closed"
         /\ pc[c] \in {"startAwait", "stopInterrupt", "stopAwait",
                       "closeInterrupt", "closeAwait"} => started

\* An interrupt follows a stop request.
InterruptInv ==
    /\ interrupted => interrupt
    /\ interrupt => stopRequested
    /\ waitErr = "interrupted" => interrupted
    /\ \A c \in Callers : pc[c] \in Interrupters => interrupt

\* Wait answers ErrInterrupted to nobody but a thread that was asked to stop,
\* and only a device whose Start can be interrupted says so.
SpontaneousInv ==
    /\ failure # "interrupted"
    /\ failure = "startInterrupted" => StartReportsInterrupt

\* What a call has answered stays true.
ReplyInv ==
    \A c \in Callers :
        /\ reply[c] = <<"Stop", NoErr>> => done
        /\ reply[c][1] = "Start" => \/ reply[c][2] = ErrState
                                    \/ startDone /\ reply[c][2] = startErr
        /\ reply[c][1] = "Close" => closeDone /\ reply[c][2] = closeErr

\* All of it, inductive.
IInv ==
    /\ TypeOK /\ ThreadInv /\ DeviceInv /\ CloseInv /\ InterruptInv /\ ReplyInv
    /\ SingleCloser /\ SingleInterrupt
    /\ EndAgreesWithErr /\ SpontaneousInv
=============================================================================
