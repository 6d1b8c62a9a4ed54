-------------------------- MODULE StreamCoreProofs --------------------------
(***************************************************************************)
(* Proofs about StreamCore for any finite set of callers and either kind   *)
(* of device: the inductive invariant IInv, what follows from it, and, in  *)
(* the second half, that StreamCore implements StreamLifecycle and uses    *)
(* its device as DriverStream says.                                        *)
(*                                                                         *)
(* One lemma per action shows that it keeps IInv; the loop's actions share *)
(* one, through LoopStep, which says all that the invariant needs of them. *)
(***************************************************************************)
EXTENDS StreamCoreRefinement, TLAPS

USE DEF NoErr, ErrState, Ops, States, WaitErrs, StartErrs, CloseErrs, Failures,
        LoopPoints, DevicePoints, ThreadPoints, Closers, CallPoints, Interrupters

\* What a step of the loop may change.
LoopStep ==
    /\ tpc \in LoopPoints
    /\ tpc' \in LoopPoints \cup {"exit"}
    /\ failure' \in Failures \cup {NoErr}
    /\ SpontaneousInv'
    /\ waitErr' \in WaitErrs
    /\ waitErr' = "interrupted" => interrupted
    /\ UNCHANGED loopFrame

\* A new stream satisfies the invariant.
LEMMA InitHolds == Init => IInv
<1> SUFFICES ASSUME Init PROVE IInv
  OBVIOUS
<1>1. TypeOK
  BY DEF Init, TypeOK
<1>2. ThreadInv /\ DeviceInv /\ CloseInv /\ InterruptInv /\ ReplyInv
  BY DEF Init, ThreadInv, DeviceInv, CloseInv, InterruptInv, ReplyInv
<1>3. SingleCloser /\ SingleInterrupt /\ EndAgreesWithErr /\ SpontaneousInv
  BY DEF Init, SingleCloser, SingleInterrupt, EndAgreesWithErr, SpontaneousInv,
     Ended
<1>4. QED
  BY <1>1, <1>2, <1>3 DEF IInv

\* Every action of the loop is a LoopStep: an ErrInterrupted is only ever
\* seen by a thread whose stopRequested is set, so it is no failure.
LEMMA LoopActions ==
  ASSUME IInv,
         \/ LoopTop \/ AfterWait \/ Recover \/ RunCallback
         \/ CommitSilence \/ Commit \/ \E err \in WaitErrs : Wait(err)
  PROVE  LoopStep
<1> USE DEF IInv, LoopStep, TypeOK, SpontaneousInv
<1>1. CASE LoopTop
  BY <1>1 DEF LoopTop, InterruptInv
<1>2. CASE \E err \in WaitErrs : Wait(err)
  BY <1>2 DEF Wait, InterruptInv
<1>3. CASE AfterWait
  BY <1>3 DEF AfterWait, FatalWaitErrs, Fail, SetFailure, InterruptInv
<1>4. CASE Recover
  BY <1>4 DEF Recover, Fail, SetFailure, InterruptInv
<1>5. CASE RunCallback \/ CommitSilence
  BY <1>5 DEF RunCallback, CommitSilence, Fail, SetFailure, InterruptInv
<1>6. CASE Commit
  BY <1>6 DEF Commit, Fail, SetFailure, InterruptInv
<1>7. QED
  BY <1>1, <1>2, <1>3, <1>4, <1>5, <1>6

-----------------------------------------------------------------------------
(* The actions keep the invariant.                                         *)

\* A call begins.
LEMMA InvokeKeeps ==
  ASSUME IInv, NEW c \in Callers, NEW op \in Ops, Invoke(c, op)
  PROVE  IInv'
<1> USE DEF IInv, Ended, apiVars, closeVars, startVars, threadVars, deviceVars, callVars
<1>1. TypeOK'
  BY DEF TypeOK, Invoke, Goto, Return
<1>2. CloseInv'
  BY DEF TypeOK, ThreadInv, DeviceInv, CloseInv, SingleCloser, Invoke, Goto, Return
<1>3. InterruptInv'
  BY DEF TypeOK, InterruptInv, Invoke, Goto, Return
<1>4. SingleCloser'
  BY DEF TypeOK, CloseInv, SingleCloser, Invoke, Goto, Return
<1>5. SingleInterrupt'
  BY DEF TypeOK, InterruptInv, SingleInterrupt, Invoke, Goto, Return
<1>6. (ThreadInv /\ DeviceInv /\ ReplyInv /\ EndAgreesWithErr /\ SpontaneousInv)'
  BY DEF ThreadInv, DeviceInv, ReplyInv, EndAgreesWithErr, SpontaneousInv, Invoke,
     Goto, Return
<1>7. QED
  BY <1>1, <1>2, <1>3, <1>4, <1>5, <1>6

\* Start is refused, or makes the stream and its thread run.
LEMMA StartKeeps ==
  ASSUME IInv, NEW c \in Callers, Start(c)
  PROVE  IInv'
<1> USE DEF IInv, Ended, apiVars, closeVars, startVars, threadVars, deviceVars, callVars
<1>1. TypeOK'
  <2>1. CASE ~Startable
    BY <2>1 DEF TypeOK, Start, Return
  <2>2. CASE Startable
    BY <2>2 DEF TypeOK, Start, Goto
  <2>3. QED
    BY <2>1, <2>2
<1>2. ThreadInv'
  BY DEF TypeOK, ThreadInv, CloseInv, Start, Startable, Goto, Return
<1>3. DeviceInv'
  BY DEF TypeOK, ThreadInv, DeviceInv, CloseInv, Start, Startable, Goto, Return
<1>4. ReplyInv'
  BY DEF TypeOK, ThreadInv, DeviceInv, CloseInv, ReplyInv, Start, Startable, Goto,
     Return
<1>5. CloseInv'
  BY DEF TypeOK, ThreadInv, DeviceInv, CloseInv, SingleCloser, Start, Startable,
     Goto, Return
<1>6. InterruptInv'
  BY DEF TypeOK, InterruptInv, Start, Startable, Goto, Return
<1>7. SingleCloser'
  BY DEF TypeOK, CloseInv, SingleCloser, Start, Startable, Goto, Return
<1>8. SingleInterrupt'
  BY DEF TypeOK, InterruptInv, SingleInterrupt, Start, Startable, Goto, Return
<1>9. (EndAgreesWithErr /\ SpontaneousInv)'
  BY DEF EndAgreesWithErr, SpontaneousInv, Start, Startable, Goto, Return
<1>10. QED
  BY <1>1, <1>2, <1>3, <1>4, <1>5, <1>6, <1>7, <1>8, <1>9

\* Start answers what device.Start did.
LEMMA StartReturnKeeps ==
  ASSUME IInv, NEW c \in Callers, StartReturn(c)
  PROVE  IInv'
<1> USE DEF IInv, Ended, apiVars, closeVars, startVars, threadVars, deviceVars, callVars
<1>1. TypeOK'
  BY DEF TypeOK, StartReturn, Goto, Return
<1>2. ReplyInv'
  BY DEF TypeOK, ThreadInv, DeviceInv, CloseInv, ReplyInv, StartReturn, Goto, Return
<1>3. CloseInv'
  BY DEF TypeOK, ThreadInv, DeviceInv, CloseInv, SingleCloser, StartReturn, Goto,
     Return
<1>4. InterruptInv'
  BY DEF TypeOK, InterruptInv, StartReturn, Goto, Return
<1>5. SingleCloser'
  BY DEF TypeOK, CloseInv, SingleCloser, StartReturn, Goto, Return
<1>6. SingleInterrupt'
  BY DEF TypeOK, InterruptInv, SingleInterrupt, StartReturn, Goto, Return
<1>7. (ThreadInv /\ DeviceInv /\ EndAgreesWithErr /\ SpontaneousInv)'
  BY DEF ThreadInv, DeviceInv, EndAgreesWithErr, SpontaneousInv, StartReturn, Goto,
     Return
<1>8. QED
  BY <1>1, <1>2, <1>3, <1>4, <1>5, <1>6, <1>7

\* Stop answers at once, or asks the thread to leave.
LEMMA StopKeeps ==
  ASSUME IInv, NEW c \in Callers, Stop(c)
  PROVE  IInv'
<1> USE DEF IInv, Ended, apiVars, closeVars, startVars, threadVars, deviceVars, callVars
<1>1. TypeOK'
  <2>1. CASE closing \/ state = "closed"
    BY <2>1 DEF TypeOK, Stop, Goto
  <2>2. CASE ~closing /\ state # "closed" /\ (~started \/ Ended)
    BY <2>2 DEF TypeOK, Stop, Return
  <2>3. CASE ~closing /\ state # "closed" /\ started /\ ~Ended
    <3>1. RequestStop(c, "stopInterrupt", "stopAwait") /\ UNCHANGED closing
      BY <2>3 DEF Stop
    <3>2. pc' \in [Callers -> CallPoints] /\ reply' = reply
      BY <3>1 DEF TypeOK, RequestStop, ClaimInterrupt, Goto
    <3>3. QED
      BY <3>1, <3>2 DEF TypeOK, Stop, RequestStop, StoreStopRequested,
         ClaimInterrupt
  <2>4. QED
    BY <2>1, <2>2, <2>3
<1>2. ThreadInv'
  BY DEF TypeOK, ThreadInv, CloseInv, Stop, RequestStop, StoreStopRequested,
     ClaimInterrupt, Goto, Return
<1>3. ReplyInv'
  BY DEF TypeOK, ThreadInv, DeviceInv, CloseInv, ReplyInv, Stop, RequestStop,
     StoreStopRequested, ClaimInterrupt, Goto, Return
<1>4. EndAgreesWithErr'
  BY DEF TypeOK, ThreadInv, EndAgreesWithErr, Stop, RequestStop,
     StoreStopRequested, ClaimInterrupt, Goto, Return
<1>5. CloseInv'
  BY DEF TypeOK, ThreadInv, DeviceInv, CloseInv, SingleCloser, Stop, RequestStop,
     StoreStopRequested, ClaimInterrupt, Goto, Return
<1>6. InterruptInv'
  BY DEF TypeOK, InterruptInv, Stop, RequestStop, StoreStopRequested,
     ClaimInterrupt, Goto, Return
<1>7. SingleCloser'
  BY DEF TypeOK, CloseInv, SingleCloser, Stop, RequestStop, StoreStopRequested,
     ClaimInterrupt, Goto, Return
<1>8. SingleInterrupt'
  BY DEF TypeOK, InterruptInv, SingleInterrupt, Stop, RequestStop,
     StoreStopRequested, ClaimInterrupt, Goto, Return
<1>9. (DeviceInv /\ SpontaneousInv)'
  BY DEF DeviceInv, SpontaneousInv, Stop, RequestStop, StoreStopRequested,
     ClaimInterrupt, Goto, Return
<1>10. QED
  BY <1>1, <1>2, <1>3, <1>4, <1>5, <1>6, <1>7, <1>8, <1>9

\* Stop answers once the thread or the close is done.
LEMMA StopReturnKeeps ==
  ASSUME IInv, NEW c \in Callers, StopReturn(c)
  PROVE  IInv'
<1> USE DEF IInv, Ended, apiVars, closeVars, startVars, threadVars, deviceVars, callVars
<1>1. TypeOK'
  BY DEF TypeOK, StopReturn, ThreadGone, Goto, Return
<1>2. ReplyInv'
  BY DEF TypeOK, ThreadInv, DeviceInv, CloseInv, ReplyInv, StopReturn, ThreadGone,
     Goto, Return
<1>3. CloseInv'
  BY DEF TypeOK, ThreadInv, DeviceInv, CloseInv, SingleCloser, StopReturn,
     ThreadGone, Goto, Return
<1>4. InterruptInv'
  BY DEF TypeOK, InterruptInv, StopReturn, ThreadGone, Goto, Return
<1>5. SingleCloser'
  BY DEF TypeOK, CloseInv, SingleCloser, StopReturn, ThreadGone, Goto, Return
<1>6. SingleInterrupt'
  BY DEF TypeOK, InterruptInv, SingleInterrupt, StopReturn, ThreadGone, Goto, Return
<1>7. (ThreadInv /\ DeviceInv /\ EndAgreesWithErr /\ SpontaneousInv)'
  BY DEF ThreadInv, DeviceInv, EndAgreesWithErr, SpontaneousInv, StopReturn,
     ThreadGone, Goto, Return
<1>8. QED
  BY <1>1, <1>2, <1>3, <1>4, <1>5, <1>6, <1>7

\* The claimed device.Interrupt is delivered.
LEMMA InterruptKeeps ==
  ASSUME IInv, NEW c \in Callers, Interrupt(c)
  PROVE  IInv'
<1> USE DEF IInv, Ended, apiVars, closeVars, startVars, threadVars, deviceVars, callVars
<1>1. TypeOK'
  BY DEF TypeOK, Interrupt, Goto, Return
<1>2. CloseInv'
  BY DEF TypeOK, ThreadInv, DeviceInv, CloseInv, SingleCloser, Interrupt, Goto,
     Return
<1>3. InterruptInv'
  BY DEF TypeOK, InterruptInv, Interrupt, Goto, Return
<1>4. SingleCloser'
  BY DEF TypeOK, CloseInv, SingleCloser, Interrupt, Goto, Return
<1>5. SingleInterrupt'
  BY DEF TypeOK, InterruptInv, SingleInterrupt, Interrupt, Goto, Return
<1>6. (ThreadInv /\ DeviceInv /\ ReplyInv /\ EndAgreesWithErr /\ SpontaneousInv)'
  BY DEF ThreadInv, DeviceInv, ReplyInv, EndAgreesWithErr, SpontaneousInv,
     Interrupt, Goto, Return
<1>7. QED
  BY <1>1, <1>2, <1>3, <1>4, <1>5, <1>6

\* Close takes charge, or waits for the one that has.
LEMMA CloseKeeps ==
  ASSUME IInv, NEW c \in Callers, Close(c)
  PROVE  IInv'
<1> USE DEF IInv, Ended, apiVars, closeVars, startVars, threadVars, deviceVars, callVars
<1>1. TypeOK'
  <2>1. pc' \in [Callers -> CallPoints] /\ reply' = reply
    BY DEF TypeOK, Close, RequestStop, ClaimInterrupt, Goto
  <2>2. /\ state' \in States /\ closing' \in BOOLEAN /\ started' = started
          /\ interrupt' \in BOOLEAN /\ stopRequested' \in BOOLEAN
    BY DEF TypeOK, Close, MarkClosing, RequestStop, StoreStopRequested,
       ClaimInterrupt
  <2>3. UNCHANGED <<closeVars, startVars, threadVars, deviceVars>>
    BY DEF Close
  <2>4. QED
    BY <2>1, <2>2, <2>3 DEF TypeOK
<1>2. ThreadInv'
  BY DEF TypeOK, ThreadInv, CloseInv, Close, MarkClosing, RequestStop,
     StoreStopRequested, ClaimInterrupt, Goto, Return
<1>3. DeviceInv'
  BY DEF TypeOK, ThreadInv, DeviceInv, CloseInv, Close, MarkClosing, RequestStop,
     StoreStopRequested, ClaimInterrupt, Goto, Return
<1>4. EndAgreesWithErr'
  BY DEF TypeOK, ThreadInv, EndAgreesWithErr, Close, MarkClosing, RequestStop,
     StoreStopRequested, ClaimInterrupt, Goto, Return
<1>5. CloseInv'
  BY DEF TypeOK, ThreadInv, DeviceInv, CloseInv, SingleCloser, Close, MarkClosing,
     RequestStop, StoreStopRequested, ClaimInterrupt, Goto, Return
<1>6. InterruptInv'
  BY DEF TypeOK, InterruptInv, Close, MarkClosing, RequestStop, StoreStopRequested,
     ClaimInterrupt, Goto, Return
<1>7. SingleCloser'
  BY DEF TypeOK, CloseInv, SingleCloser, Close, MarkClosing, RequestStop,
     StoreStopRequested, ClaimInterrupt, Goto, Return
<1>8. SingleInterrupt'
  BY DEF TypeOK, InterruptInv, SingleInterrupt, Close, MarkClosing, RequestStop,
     StoreStopRequested, ClaimInterrupt, Goto, Return
<1>9. (ReplyInv /\ SpontaneousInv)'
  BY DEF ReplyInv, SpontaneousInv, Close, MarkClosing, RequestStop,
     StoreStopRequested, ClaimInterrupt, Goto, Return
<1>10. QED
  BY <1>1, <1>2, <1>3, <1>4, <1>5, <1>6, <1>7, <1>8, <1>9

\* The closer has seen the thread end.
LEMMA CloseAwaitKeeps ==
  ASSUME IInv, NEW c \in Callers, CloseAwait(c)
  PROVE  IInv'
<1> USE DEF IInv, Ended, apiVars, closeVars, startVars, threadVars, deviceVars, callVars
<1>1. TypeOK'
  BY DEF TypeOK, CloseAwait, ThreadGone, Goto, Return
<1>2. CloseInv'
  BY DEF TypeOK, ThreadInv, DeviceInv, CloseInv, SingleCloser, CloseAwait,
     ThreadGone, Goto, Return
<1>3. InterruptInv'
  BY DEF TypeOK, InterruptInv, CloseAwait, ThreadGone, Goto, Return
<1>4. SingleCloser'
  BY DEF TypeOK, CloseInv, SingleCloser, CloseAwait, ThreadGone, Goto, Return
<1>5. SingleInterrupt'
  BY DEF TypeOK, InterruptInv, SingleInterrupt, CloseAwait, ThreadGone, Goto, Return
<1>6. (ThreadInv /\ DeviceInv /\ ReplyInv /\ EndAgreesWithErr /\ SpontaneousInv)'
  BY DEF ThreadInv, DeviceInv, ReplyInv, EndAgreesWithErr, SpontaneousInv,
     CloseAwait, ThreadGone, Goto, Return
<1>7. QED
  BY <1>1, <1>2, <1>3, <1>4, <1>5, <1>6

\* device.Close.
LEMMA CloseDeviceKeeps ==
  ASSUME IInv, NEW c \in Callers, CloseDevice(c)
  PROVE  IInv'
<1> USE DEF IInv, Ended, apiVars, closeVars, startVars, threadVars, deviceVars, callVars
<1>1. TypeOK'
  BY DEF TypeOK, CloseDevice, Goto, Return
<1>2. ThreadInv'
  BY DEF TypeOK, ThreadInv, CloseInv, CloseDevice, Goto, Return
<1>3. DeviceInv'
  BY DEF TypeOK, ThreadInv, DeviceInv, CloseInv, CloseDevice, Goto, Return
<1>4. CloseInv'
  BY DEF TypeOK, ThreadInv, DeviceInv, CloseInv, SingleCloser, CloseDevice, Goto,
     Return
<1>5. InterruptInv'
  BY DEF TypeOK, InterruptInv, CloseDevice, Goto, Return
<1>6. SingleCloser'
  BY DEF TypeOK, CloseInv, SingleCloser, CloseDevice, Goto, Return
<1>7. SingleInterrupt'
  BY DEF TypeOK, InterruptInv, SingleInterrupt, CloseDevice, Goto, Return
<1>8. (ReplyInv /\ EndAgreesWithErr /\ SpontaneousInv)'
  BY DEF ReplyInv, EndAgreesWithErr, SpontaneousInv, CloseDevice, Goto, Return
<1>9. QED
  BY <1>1, <1>2, <1>3, <1>4, <1>5, <1>6, <1>7, <1>8

\* The stream is closed.
LEMMA CloseFinishKeeps ==
  ASSUME IInv, NEW c \in Callers, CloseFinish(c)
  PROVE  IInv'
<1> USE DEF IInv, Ended, apiVars, closeVars, startVars, threadVars, deviceVars, callVars
<1>1. TypeOK'
  BY DEF TypeOK, CloseFinish, Goto, Return
<1>2. ThreadInv'
  BY DEF TypeOK, ThreadInv, CloseInv, CloseFinish, Goto, Return
<1>3. DeviceInv'
  BY DEF TypeOK, ThreadInv, DeviceInv, CloseInv, CloseFinish, Goto, Return
<1>4. ReplyInv'
  BY DEF TypeOK, ThreadInv, DeviceInv, CloseInv, ReplyInv, CloseFinish, Goto, Return
<1>5. EndAgreesWithErr'
  BY DEF TypeOK, ThreadInv, EndAgreesWithErr, CloseFinish, Goto, Return
<1>6. CloseInv'
  BY DEF TypeOK, ThreadInv, DeviceInv, CloseInv, SingleCloser, CloseFinish, Goto,
     Return
<1>7. InterruptInv'
  BY DEF TypeOK, InterruptInv, CloseFinish, Goto, Return
<1>8. SingleCloser'
  BY DEF TypeOK, CloseInv, SingleCloser, CloseFinish, Goto, Return
<1>9. SingleInterrupt'
  BY DEF TypeOK, InterruptInv, SingleInterrupt, CloseFinish, Goto, Return
<1>10. (SpontaneousInv)'
  BY DEF SpontaneousInv, CloseFinish, Goto, Return
<1>11. QED
  BY <1>1, <1>2, <1>3, <1>4, <1>5, <1>6, <1>7, <1>8, <1>9, <1>10

\* A second Close answers the close's error.
LEMMA CloseReturnKeeps ==
  ASSUME IInv, NEW c \in Callers, CloseReturn(c)
  PROVE  IInv'
<1> USE DEF IInv, Ended, apiVars, closeVars, startVars, threadVars, deviceVars, callVars
<1>1. TypeOK'
  BY DEF TypeOK, CloseReturn, CloseSettled, Goto, Return
<1>2. ReplyInv'
  BY DEF TypeOK, ThreadInv, DeviceInv, CloseInv, ReplyInv, CloseReturn,
     CloseSettled, Goto, Return
<1>3. CloseInv'
  BY DEF TypeOK, ThreadInv, DeviceInv, CloseInv, SingleCloser, CloseReturn,
     CloseSettled, Goto, Return
<1>4. InterruptInv'
  BY DEF TypeOK, InterruptInv, CloseReturn, CloseSettled, Goto, Return
<1>5. SingleCloser'
  BY DEF TypeOK, CloseInv, SingleCloser, CloseReturn, CloseSettled, Goto, Return
<1>6. SingleInterrupt'
  BY DEF TypeOK, InterruptInv, SingleInterrupt, CloseReturn, CloseSettled, Goto,
     Return
<1>7. (ThreadInv /\ DeviceInv /\ EndAgreesWithErr /\ SpontaneousInv)'
  BY DEF ThreadInv, DeviceInv, EndAgreesWithErr, SpontaneousInv, CloseReturn,
     CloseSettled, Goto, Return
<1>8. QED
  BY <1>1, <1>2, <1>3, <1>4, <1>5, <1>6, <1>7

\* device.Start.
LEMMA RunStartKeeps ==
  ASSUME IInv, RunStart
  PROVE  IInv'
<1> USE DEF IInv, Ended, apiVars, closeVars, startVars, threadVars, deviceVars, callVars
<1>1. TypeOK'
  <2>1. PICK err \in StartErrs \cup {NoErr} :
            \/ /\ err = NoErr /\ device' = "started" /\ startDone' = TRUE
               /\ tpc' = "top" /\ UNCHANGED <<startErr, failure>>
            \/ /\ err # NoErr /\ StoreStartErr(err) /\ tpc' = "startFailed"
               /\ UNCHANGED <<device, startDone>>
    BY DEF RunStart, StartResults
  <2>2. /\ startErr' \in StartErrs \cup {NoErr} /\ failure' \in Failures \cup {NoErr}
          /\ startDone' \in BOOLEAN /\ tpc' \in ThreadPoints
          /\ device' \in {"open", "started", "stopped", "closed"}
    BY <2>1 DEF TypeOK, StoreStartErr, SetFailure
  <2>3. UNCHANGED <<apiVars, closeVars, done, waitErr, interrupted, callVars>>
    BY DEF RunStart
  <2>4. QED
    BY <2>2, <2>3 DEF TypeOK
<1>2. ThreadInv'
  BY DEF TypeOK, ThreadInv, CloseInv, RunStart, StartResults, StoreStartErr,
     SetFailure
<1>3. DeviceInv'
  BY DEF TypeOK, ThreadInv, DeviceInv, CloseInv, RunStart, StartResults,
     StoreStartErr, SetFailure
<1>4. CloseInv'
  BY DEF TypeOK, ThreadInv, DeviceInv, CloseInv, SingleCloser, RunStart,
     StartResults, StoreStartErr, SetFailure
<1>5. ReplyInv'
  BY DEF TypeOK, ThreadInv, DeviceInv, CloseInv, ReplyInv, RunStart, StartResults,
     StoreStartErr, SetFailure
<1>6. EndAgreesWithErr'
  BY DEF TypeOK, ThreadInv, EndAgreesWithErr, RunStart, StartResults,
     StoreStartErr, SetFailure
<1>7. SpontaneousInv'
  BY DEF TypeOK, InterruptInv, SpontaneousInv, RunStart, StartResults,
     StoreStartErr, SetFailure
<1>8. (InterruptInv /\ SingleCloser /\ SingleInterrupt)'
  BY DEF InterruptInv, SingleCloser, SingleInterrupt, RunStart, StartResults,
     StoreStartErr, SetFailure
<1>9. QED
  BY <1>1, <1>2, <1>3, <1>4, <1>5, <1>6, <1>7, <1>8

\* The thread gives up after a failed start.
LEMMA RunStartFailedKeeps ==
  ASSUME IInv, RunStartFailed
  PROVE  IInv'
<1> USE DEF IInv, Ended, apiVars, closeVars, startVars, threadVars, deviceVars, callVars
<1>1. TypeOK'
  BY DEF TypeOK, RunStartFailed
<1>2. ThreadInv'
  BY DEF TypeOK, ThreadInv, CloseInv, RunStartFailed
<1>3. DeviceInv'
  BY DEF TypeOK, ThreadInv, DeviceInv, CloseInv, RunStartFailed
<1>4. CloseInv'
  BY DEF TypeOK, ThreadInv, DeviceInv, CloseInv, SingleCloser, RunStartFailed
<1>5. ReplyInv'
  BY DEF TypeOK, ThreadInv, DeviceInv, CloseInv, ReplyInv, RunStartFailed
<1>6. (InterruptInv /\ SingleCloser /\ SingleInterrupt /\ EndAgreesWithErr /\ SpontaneousInv)'
  BY DEF InterruptInv, SingleCloser, SingleInterrupt, EndAgreesWithErr,
     SpontaneousInv, RunStartFailed
<1>7. QED
  BY <1>1, <1>2, <1>3, <1>4, <1>5, <1>6

\* A step of the loop.
LEMMA LoopStepKeeps ==
  ASSUME IInv, LoopStep
  PROVE  IInv'
<1> USE DEF IInv, Ended, apiVars, closeVars, startVars, threadVars, deviceVars, callVars, loopFrame
<1>1. TypeOK'
  BY DEF TypeOK, LoopStep
<1>2. ThreadInv'
  BY DEF TypeOK, ThreadInv, CloseInv, LoopStep
<1>3. DeviceInv'
  BY DEF TypeOK, ThreadInv, DeviceInv, CloseInv, LoopStep
<1>4. InterruptInv'
  BY DEF TypeOK, InterruptInv, LoopStep
<1>5. EndAgreesWithErr'
  BY DEF TypeOK, ThreadInv, EndAgreesWithErr, LoopStep
<1>6. SpontaneousInv'
  BY DEF TypeOK, InterruptInv, SpontaneousInv, LoopStep
<1>7. (CloseInv /\ ReplyInv /\ SingleCloser /\ SingleInterrupt)'
  BY DEF CloseInv, ReplyInv, SingleCloser, SingleInterrupt, LoopStep
<1>8. QED
  BY <1>1, <1>2, <1>3, <1>4, <1>5, <1>6, <1>7

\* device.Stop.
LEMMA RunStopKeeps ==
  ASSUME IInv, RunStop
  PROVE  IInv'
<1> USE DEF IInv, Ended, apiVars, closeVars, startVars, threadVars, deviceVars, callVars
<1>1. TypeOK'
  BY DEF TypeOK, RunStop, SetFailure
<1>2. ThreadInv'
  BY DEF TypeOK, ThreadInv, CloseInv, RunStop, SetFailure
<1>3. DeviceInv'
  BY DEF TypeOK, ThreadInv, DeviceInv, CloseInv, RunStop, SetFailure
<1>4. CloseInv'
  BY DEF TypeOK, ThreadInv, DeviceInv, CloseInv, SingleCloser, RunStop, SetFailure
<1>5. EndAgreesWithErr'
  BY DEF TypeOK, ThreadInv, EndAgreesWithErr, RunStop, SetFailure
<1>6. SpontaneousInv'
  BY DEF TypeOK, InterruptInv, SpontaneousInv, RunStop, SetFailure
<1>7. (InterruptInv /\ ReplyInv /\ SingleCloser /\ SingleInterrupt)'
  BY DEF InterruptInv, ReplyInv, SingleCloser, SingleInterrupt, RunStop, SetFailure
<1>8. QED
  BY <1>1, <1>2, <1>3, <1>4, <1>5, <1>6, <1>7

\* The thread ends.
LEMMA FinishRunKeeps ==
  ASSUME IInv, FinishRun
  PROVE  IInv'
<1> USE DEF IInv, Ended, apiVars, closeVars, startVars, threadVars, deviceVars, callVars
<1>1. TypeOK'
  BY DEF TypeOK, FinishRun, FinalState
<1>2. ThreadInv'
  BY DEF TypeOK, ThreadInv, CloseInv, FinishRun, FinalState
<1>3. DeviceInv'
  BY DEF TypeOK, ThreadInv, DeviceInv, CloseInv, FinishRun, FinalState
<1>4. CloseInv'
  BY DEF TypeOK, ThreadInv, DeviceInv, CloseInv, SingleCloser, FinishRun, FinalState
<1>5. ReplyInv'
  BY DEF TypeOK, ThreadInv, DeviceInv, CloseInv, ReplyInv, FinishRun, FinalState
<1>6. EndAgreesWithErr'
  BY DEF TypeOK, ThreadInv, EndAgreesWithErr, FinishRun, FinalState
<1>7. (InterruptInv /\ SingleCloser /\ SingleInterrupt /\ SpontaneousInv)'
  BY DEF InterruptInv, SingleCloser, SingleInterrupt, SpontaneousInv, FinishRun,
     FinalState
<1>8. QED
  BY <1>1, <1>2, <1>3, <1>4, <1>5, <1>6, <1>7

-----------------------------------------------------------------------------
(* The invariant and the properties.                                       *)

\* Every step of the control state keeps it.
LEMMA NextKeeps == IInv /\ [Next]_vars => IInv'
<1> SUFFICES ASSUME IInv, [Next]_vars PROVE IInv'
  OBVIOUS
<1>1. ASSUME NEW c \in Callers, CallerStep(c) PROVE IInv'
  BY <1>1, StartKeeps, StartReturnKeeps, StopKeeps, StopReturnKeeps, InterruptKeeps,
     CloseKeeps, CloseAwaitKeeps, CloseDeviceKeeps, CloseFinishKeeps,
     CloseReturnKeeps
     DEF CallerStep
<1>2. ASSUME NEW c \in Callers, NEW op \in Ops, Invoke(c, op) PROVE IInv'
  BY <1>2, InvokeKeeps
<1>3. ASSUME ThreadStep \/ \E err \in WaitErrs : Wait(err) PROVE IInv'
  <2>1. CASE RunStart \/ RunStartFailed \/ RunStop \/ FinishRun
    BY <2>1, RunStartKeeps, RunStartFailedKeeps, RunStopKeeps, FinishRunKeeps
  <2>2. CASE \/ LoopTop \/ AfterWait \/ Recover \/ RunCallback
             \/ CommitSilence \/ Commit \/ \E err \in WaitErrs : Wait(err)
    BY <2>2, LoopActions, LoopStepKeeps
  <2>3. QED
    BY <1>3, <2>1, <2>2 DEF ThreadStep
<1>4. CASE UNCHANGED vars
  BY <1>4 DEF vars, apiVars, closeVars, startVars, threadVars, deviceVars, callVars,
     IInv, TypeOK, ThreadInv, DeviceInv, CloseInv, InterruptInv, ReplyInv,
     SingleCloser, SingleInterrupt, EndAgreesWithErr, SpontaneousInv, Ended
<1>5. QED
  BY <1>1, <1>2, <1>3, <1>4 DEF Next

\* The fields of the Stream, the thread, the device and the answers callers
\* hold always agree (the inductive invariant).
THEOREM Invariance == Spec => []IInv
<1>1. QED
  BY InitHolds, NextKeeps, PTL DEF Spec

\* Every variable keeps its type.
THEOREM TypeCorrect == Spec => []TypeOK
<1>1. IInv => TypeOK
  BY DEF IInv
<1>2. QED
  BY <1>1, Invariance, PTL

\* The loop runs on a started device only, and once device.Close has run the
\* thread never enters the driver again.
THEOREM DeviceSafe == Spec => []DeviceProtocol
<1>1. IInv => DeviceProtocol
  BY DEF IInv, TypeOK, DeviceProtocol, DeviceInv, ThreadInv
<1>2. QED
  BY <1>1, Invariance, PTL

\* One Close performs the close, one caller calls device.Interrupt.
THEOREM OneOfEach == Spec => []OneAtATime
<1>1. IInv => OneAtATime
  BY DEF IInv, OneAtATime
<1>2. QED
  BY <1>1, Invariance, PTL

\* What Start, Stop and Close have answered is true and stays true.
THEOREM AnswersHold == Spec => []AnswersTrue
<1>1. IInv => StopMeansStopped
  BY DEF IInv, StopMeansStopped, ReplyInv, ThreadInv
<1>2. IInv => CloseMeansClosed
  BY DEF IInv, CloseMeansClosed, ReplyInv, CloseInv
<1>3. IInv => StartMeansStarted
  BY DEF IInv, TypeOK, StartMeansStarted, ReplyInv, DeviceInv
<1>4. IInv => AnswersTrue
  BY <1>1, <1>2, <1>3 DEF AnswersTrue
<1>5. QED
  BY <1>4, Invariance, PTL

\* A stream is stopped when nothing failed and failed when something did.
THEOREM EndsAsErrSays == Spec => []EndAgreesWithErr
<1>1. IInv => EndAgreesWithErr
  BY DEF IInv
<1>2. QED
  BY <1>1, Invariance, PTL

\* So the callers of a stream may rely on all of it, for any number of them.
THEOREM CallersSafe == Spec => []LifecycleSafe
<1>1. OneAtATime /\ AnswersTrue /\ EndAgreesWithErr => LifecycleSafe
  BY DEF LifecycleSafe
<1>2. QED
  BY <1>1, OneOfEach, AnswersHold, EndsAsErrSays, PTL

\* With devices that start even if they were interrupted before, a requested
\* stop is never reported as a failure.
THEOREM RequestedStopIsNoFailure ==
  ASSUME StartReportsInterrupt = FALSE
  PROVE  Spec => []ErrIsSpontaneous
<1>1. IInv => ErrIsSpontaneous
  BY DEF IInv, ErrIsSpontaneous, SpontaneousInv
<1>2. QED
  BY <1>1, Invariance, PTL

\* setFailure never replaces a failure, and nothing else writes one.
THEOREM FirstFailureStays == Spec => FirstFailureKept
<1>1. [Next]_vars => [failure # NoErr => failure' = failure]_failure
  <2> SUFFICES ASSUME [Next]_vars, failure # NoErr PROVE failure' = failure
    OBVIOUS
  <2>1. ASSUME NEW c \in Callers, CallerStep(c) PROVE failure' = failure
    BY <2>1 DEF CallerStep, Start, StartReturn, Stop, StopReturn, Interrupt, Close,
       CloseAwait, CloseDevice, CloseFinish, CloseReturn, threadVars
  <2>2. ASSUME NEW c \in Callers, NEW op \in Ops, Invoke(c, op) PROVE failure' = failure
    BY <2>2 DEF Invoke, threadVars
  <2>3. CASE ThreadStep \/ \E err \in WaitErrs : Wait(err)
    BY <2>3 DEF ThreadStep, RunStart, StoreStartErr, RunStartFailed, LoopTop, Wait,
       AfterWait, Recover, RunCallback, CommitSilence, Commit, RunStop, FinishRun,
       Fail, SetFailure
  <2>4. CASE UNCHANGED vars
    BY <2>4 DEF vars, threadVars
  <2>5. QED
    BY <2>1, <2>2, <2>3, <2>4 DEF Next
<1>2. QED
  BY <1>1, PTL DEF Spec, FirstFailureKept

\* A step leaves the state alone or moves it forward.
LEMMA StateMoves ==
  ASSUME IInv, Next, state' # state
  PROVE  StateStep
<1> USE DEF IInv, TypeOK, ThreadInv, CloseInv, apiVars
<1>1. FinishRun \/ \E c \in Callers : Start(c) \/ Stop(c) \/ Close(c) \/ CloseFinish(c)
  <2>1. ASSUME NEW c \in Callers, CallerStep(c)
        PROVE  Start(c) \/ Stop(c) \/ Close(c) \/ CloseFinish(c)
    BY <2>1 DEF CallerStep, StartReturn, StopReturn, Interrupt, CloseAwait,
       CloseDevice,
       CloseReturn
  <2>2. ASSUME ThreadStep \/ \E err \in WaitErrs : Wait(err)
        PROVE  FinishRun
    BY <2>2 DEF ThreadStep, RunStart, RunStartFailed, LoopTop, Wait, AfterWait,
       Recover,
       RunCallback, CommitSilence, Commit, RunStop, loopFrame
  <2>3. QED
    BY <2>1, <2>2 DEF Next, Invoke
<1>2. ASSUME NEW c \in Callers, Start(c) PROVE StateStep
  BY <1>2 DEF StateStep, StateSteps, Start, Startable
<1>3. ASSUME NEW c \in Callers, Stop(c) PROVE StateStep
  BY <1>3 DEF StateStep, StateSteps, Stop, RequestStop, Ended
<1>4. ASSUME NEW c \in Callers, Close(c) PROVE StateStep
  BY <1>4 DEF StateStep, StateSteps, Close, RequestStop, Ended
<1>5. ASSUME NEW c \in Callers, CloseFinish(c) PROVE StateStep
  BY <1>5 DEF StateStep, StateSteps, CloseFinish
<1>6. CASE FinishRun
  BY <1>6 DEF StateStep, StateSteps, FinishRun, FinalState
<1>7. QED
  BY <1>1, <1>2, <1>3, <1>4, <1>5, <1>6

\* An ended stream is never stopping again and a closed one never reopens.
THEOREM StateMovesForward == Spec => StateForward
<1>1. IInv /\ [Next]_vars => [StateStep]_state
  BY StateMoves DEF StateStep, vars, apiVars
<1>2. QED
  BY <1>1, Invariance, PTL DEF Spec, StateForward

-----------------------------------------------------------------------------
(* StreamCore implements StreamLifecycle, for any finite set of callers:   *)
(* every initial state maps to one of the abstract specification, and      *)
(* every step to an abstract step or to a stutter.                         *)

\* At most one Start is in progress, so that the mapping of starter has one
\* value to choose.
SingleStarter ==
    \A c, d \in Callers : pc[c] = "startAwait" /\ pc[d] = "startAwait" => c = d

\* No caller is the abstract nobody.
Real == "nobody" \notin Callers

\* Start succeeds once, so no second Start can be waiting.
LEMMA SingleStarterKeeps == IInv /\ SingleStarter /\ [Next]_vars => SingleStarter'
<1> SUFFICES ASSUME IInv, SingleStarter, [Next]_vars PROVE SingleStarter'
  OBVIOUS
<1> USE DEF IInv, TypeOK, SingleStarter
<1>1. ASSUME NEW c \in Callers, Start(c) PROVE SingleStarter'
  BY <1>1 DEF Start, Startable, Goto, Return, CloseInv, ThreadInv
<1>2. ASSUME NEW c \in Callers, Stop(c) PROVE SingleStarter'
  BY <1>2 DEF Stop, RequestStop, ClaimInterrupt, Goto, Return
<1>3. ASSUME NEW c \in Callers, Close(c) PROVE SingleStarter'
  BY <1>3 DEF Close, RequestStop, ClaimInterrupt, Goto
<1>4. ASSUME NEW c \in Callers, StartReturn(c) \/ StopReturn(c) \/ Interrupt(c)
      PROVE  SingleStarter'
  BY <1>4 DEF StartReturn, StopReturn, Interrupt, Goto, Return
<1>5. ASSUME NEW c \in Callers,
             CloseAwait(c) \/ CloseDevice(c) \/ CloseFinish(c) \/ CloseReturn(c)
      PROVE  SingleStarter'
  BY <1>5 DEF CloseAwait, CloseDevice, CloseFinish, CloseReturn, Goto, Return
<1>6. CASE ThreadStep \/ \E err \in WaitErrs : Wait(err)
  BY <1>6 DEF ThreadStep, RunStart, RunStartFailed, LoopTop, Wait, AfterWait, Recover,
     RunCallback, CommitSilence, Commit, RunStop, FinishRun, loopFrame, callVars
<1>7. CASE UNCHANGED vars
  BY <1>7 DEF vars, callVars
<1>8. ASSUME NEW c \in Callers, NEW op \in Ops, Invoke(c, op) PROVE SingleStarter'
  BY <1>8 DEF Invoke, Goto
<1>9. QED
  BY <1>1, <1>2, <1>3, <1>4, <1>5, <1>6, <1>7, <1>8 DEF Next, CallerStep

\* A close that has begun and is not over is in some caller's hands.
HasCloser == closing /\ ~closeDone => \E c \in Callers : pc[c] \in Closers

\* The closer goes from one of its points to the next until closeDone.
LEMMA HasCloserKeeps == IInv /\ HasCloser /\ [Next]_vars => HasCloser'
<1> SUFFICES ASSUME IInv, HasCloser, [Next]_vars PROVE HasCloser'
  OBVIOUS
<1> USE DEF IInv, TypeOK, HasCloser
<1>1. ASSUME NEW c \in Callers,
             Start(c) \/ StartReturn(c) \/ StopReturn(c) \/ CloseReturn(c)
      PROVE  HasCloser'
  BY <1>1 DEF Start, StartReturn, StopReturn, CloseReturn, Goto, Return, apiVars, closeVars
<1>2. ASSUME NEW c \in Callers, Stop(c) PROVE HasCloser'
  BY <1>2 DEF Stop, RequestStop, ClaimInterrupt, Goto, Return, apiVars, closeVars
<1>3. ASSUME NEW c \in Callers, Close(c) PROVE HasCloser'
  BY <1>3 DEF Close, RequestStop, ClaimInterrupt, Goto, apiVars, closeVars
<1>4. ASSUME NEW c \in Callers, Interrupt(c) PROVE HasCloser'
  BY <1>4 DEF Interrupt, Goto, apiVars, closeVars
<1>5. ASSUME NEW c \in Callers, CloseAwait(c) \/ CloseDevice(c) \/ CloseFinish(c)
      PROVE  HasCloser'
  BY <1>5 DEF CloseAwait, CloseDevice, CloseFinish, Goto, Return, apiVars, closeVars
<1>6. CASE ThreadStep \/ \E err \in WaitErrs : Wait(err)
  BY <1>6 DEF ThreadStep, RunStart, RunStartFailed, LoopTop, Wait, AfterWait, Recover,
     RunCallback, CommitSilence, Commit, RunStop, FinishRun, loopFrame, callVars,
     apiVars, closeVars
<1>7. CASE UNCHANGED vars
  BY <1>7 DEF vars, callVars, apiVars, closeVars
<1>8. ASSUME NEW c \in Callers, NEW op \in Ops, Invoke(c, op) PROVE HasCloser'
  BY <1>8 DEF Invoke, Goto, apiVars, closeVars
<1>9. QED
  BY <1>1, <1>2, <1>3, <1>4, <1>5, <1>6, <1>7, <1>8 DEF Next, CallerStep

-----------------------------------------------------------------------------
(* The mapping, action by action.                                          *)

\* The caller in startAwait is the abstract starter.
StarterValue ==
    /\ Starter \in Callers \cup {"nobody"}
    /\ \A c \in Callers : Starter = c <=> pc[c] = "startAwait"

\* When nobody is called nobody, Starter names exactly the waiting caller.
LEMMA StarterKnown == Real /\ SingleStarter => StarterValue
  BY DEF Real, SingleStarter, StarterValue, Starter

\* The same of the state after the step.
LEMMA StarterKnownNext == Real /\ SingleStarter' => StarterValue'
  BY DEF Real, SingleStarter, StarterValue, Starter

\* A step that moves nobody into or out of startAwait keeps the starter.
LEMMA StarterSame ==
  ASSUME StarterValue, StarterValue', Real,
         \A c \in Callers : pc'[c] = "startAwait" <=> pc[c] = "startAwait"
  PROVE  Starter' = Starter
  BY DEF StarterValue, Real

\* A return from a method is the abstract answer of that method.
LEMMA AnswerMaps ==
  ASSUME NEW c \in Callers, NEW op, NEW result, Return(c, op, result),
         pc \in [Callers -> CallPoints], MethodAt(pc[c]) = op
  PROVE  Lifecycle!Answer(c, result)
<1> DEFINE call == [d \in Callers |-> MethodAt(pc[d])]
<1>1. reply' = [reply EXCEPT ![c] = <<call[c], result>>]
  BY DEF Return
<1>2. MethodAt("idle") = "none"
  BY DEF MethodAt
<1>3. \A d \in Callers : pc'[d] = IF d = c THEN "idle" ELSE pc[d]
  BY DEF Return
<1>4. call' = [call EXCEPT ![c] = "none"]
  BY <1>2, <1>3
<1>5. QED
  BY <1>1, <1>4 DEF Lifecycle!Answer

\* A stream just opened is the abstract opened stream.
LEMMA InitMaps == Init => Lifecycle!Init
  BY DEF Init, Lifecycle!Init, Phase, Starter, MethodAt

\* Calling a method is the abstract call.
LEMMA InvokeMaps ==
  ASSUME IInv, StarterValue, StarterValue', Real,
         NEW c \in Callers, NEW op \in Ops, Invoke(c, op)
  PROVE  Lifecycle!Call(c, op)
<1> USE DEF IInv, TypeOK, Invoke, Goto
<1>1. Phase' = Phase
  BY DEF Phase, apiVars, threadVars
<1>2. Starter' = Starter
  BY StarterSame
<1>3. MethodAt(pc[c]) = "none" /\ MethodAt(pc'[c]) = op
  BY DEF MethodAt
<1>4. QED
  BY <1>1, <1>2, <1>3 DEF Lifecycle!Call, closeVars

\* The Start that wins activates the stream, one that loses is answered.
LEMMA StartMaps ==
  ASSUME IInv, StarterValue, StarterValue', Real, NEW c \in Callers, Start(c)
  PROVE  Lifecycle!Activate(c) \/ Lifecycle!AnswerStart(c)
<1> USE DEF IInv, TypeOK
<1>1. CASE Startable
  <2>1. Phase = "opened" /\ Phase' = "active"
    BY <1>1 DEF Start, Startable, Phase, ThreadInv
  <2>2. Starter' = c
    BY <1>1 DEF Start, Startable, StarterValue, Goto
  <2>3. \A d \in Callers : MethodAt(pc'[d]) = MethodAt(pc[d])
    BY <1>1 DEF Start, Goto, MethodAt
  <2>4. QED
    BY <1>1, <2>1, <2>2, <2>3 DEF Start, Goto, Lifecycle!Activate, MethodAt, closeVars
<1>2. CASE ~Startable
  <2>1. Phase # "opened" /\ Phase' = Phase
    BY <1>2 DEF Start, Startable, Phase, ThreadInv, apiVars
  <2>2. Starter' = Starter /\ Starter # c
    BY <1>2, StarterSame DEF Start, Return, StarterValue
  <2>3. MethodAt(pc[c]) = "Start" /\ MethodAt(pc'[c]) = "none"
    BY <1>2 DEF Start, Return, MethodAt
  <2>4. QED
    BY <1>2, <2>1, <2>2, <2>3 DEF Start, Return, Lifecycle!AnswerStart, Lifecycle!Answer, closeVars
<1>3. QED
  BY <1>1, <1>2

\* The return of the Start that won is its abstract answer.
LEMMA StartReturnMaps ==
  ASSUME IInv, StarterValue, StarterValue', Real, NEW c \in Callers, StartReturn(c)
  PROVE  Lifecycle!AnswerStart(c)
<1> USE DEF IInv, TypeOK, StartReturn, Return
<1>1. Phase' = Phase
  BY DEF Phase, apiVars, threadVars
<1>2. Starter = c /\ Starter' = "nobody"
  BY DEF StarterValue, SingleStarter
<1>3. MethodAt(pc[c]) = "Start" /\ MethodAt(pc'[c]) = "none"
  BY DEF MethodAt
<1>4. startErr \in StartErrs \cup {NoErr}
  OBVIOUS
<1>5. QED
  BY <1>1, <1>2, <1>3, <1>4 DEF Lifecycle!AnswerStart, Lifecycle!Answer, closeVars

\* Stop answers at once, or goes on to wait, unseen by the abstraction.
LEMMA StopMaps ==
  ASSUME IInv, StarterValue, StarterValue', Real, NEW c \in Callers, Stop(c)
  PROVE  Lifecycle!AnswerStop(c) \/ UNCHANGED Lifecycle!vars
<1> USE DEF IInv, TypeOK
<1>1. Phase' = Phase
  BY DEF Stop, RequestStop, Phase, ThreadInv, Ended, apiVars, threadVars
<1>2. Starter' = Starter
  BY StarterSame DEF Stop, RequestStop, ClaimInterrupt, Goto, Return
<1>3. CASE closing \/ state = "closed"
  BY <1>1, <1>2, <1>3 DEF Stop, Goto, MethodAt, Lifecycle!vars, closeVars
<1>4. CASE ~closing /\ state # "closed" /\ (~started \/ Ended)
  <2>1. \/ Phase = "opened" /\ Return(c, "Stop", ErrState)
        \/ Phase = "ended" /\ Return(c, "Stop", NoErr)
    BY <1>4 DEF Stop, Phase, ThreadInv, EndAgreesWithErr
  <2>2. MethodAt(pc[c]) = "Stop"
    BY DEF Stop, MethodAt
  <2>3. MethodAt(pc'[c]) = "none"
    BY <2>1 DEF Return, MethodAt
  <2>4. QED
    BY <1>1, <1>2, <2>1, <2>2, <2>3
       DEF Stop, Return, Lifecycle!AnswerStop, Lifecycle!Answer, closeVars
<1>5. CASE ~closing /\ state # "closed" /\ started /\ ~Ended
  <2>1. pc' = [pc EXCEPT ![c] = IF interrupt THEN "stopAwait" ELSE "stopInterrupt"]
        /\ UNCHANGED <<reply, closeErr>>
    BY <1>5 DEF Stop, RequestStop, ClaimInterrupt, Goto, closeVars
  <2>2. \A d \in Callers : MethodAt(pc'[d]) = MethodAt(pc[d])
    BY <2>1 DEF Stop, MethodAt
  <2>3. QED
    BY <1>1, <1>2, <2>1, <2>2 DEF Lifecycle!vars
<1>6. QED
  BY <1>3, <1>4, <1>5

\* A Stop that waited answers in a phase that allows its answer.
LEMMA StopReturnMaps ==
  ASSUME IInv, StarterValue, StarterValue', Real, NEW c \in Callers, StopReturn(c)
  PROVE  Lifecycle!AnswerStop(c)
<1> USE DEF IInv, TypeOK
<1>1. Phase' = Phase
  BY DEF StopReturn, Phase, apiVars, threadVars
<1>2. Starter' = Starter
  BY StarterSame DEF StopReturn, Return
<1>3. \/ Phase \in {"ended", "closing", "closed"} /\ Return(c, "Stop", NoErr)
      \/ Phase = "closed" /\ Return(c, "Stop", ErrState)
  BY DEF StopReturn, ThreadGone, Phase, CloseInv
<1>4. MethodAt(pc[c]) = "Stop"
  BY DEF StopReturn, MethodAt
<1>5. \/ Phase \in {"ended", "closing", "closed"} /\ Lifecycle!Answer(c, NoErr)
      \/ Phase = "closed" /\ Lifecycle!Answer(c, ErrState)
  BY <1>3, <1>4, AnswerMaps
<1>6. UNCHANGED closeErr
  BY DEF StopReturn, closeVars
<1>7. QED
  BY ONLY <1>1, <1>2, <1>4, <1>5, <1>6 DEF Lifecycle!AnswerStop

\* device.Interrupt is invisible to callers.
LEMMA InterruptMaps ==
  ASSUME IInv, StarterValue, StarterValue', Real, NEW c \in Callers, Interrupt(c)
  PROVE  UNCHANGED Lifecycle!vars
<1> USE DEF IInv, TypeOK, Interrupt, Goto
<1>1. Phase' = Phase
  BY DEF Phase, apiVars, threadVars
<1>2. Starter' = Starter
  BY StarterSame
<1>3. \A d \in Callers : MethodAt(pc'[d]) = MethodAt(pc[d])
  BY DEF MethodAt
<1>4. QED
  BY <1>1, <1>2, <1>3 DEF Lifecycle!vars, closeVars

\* Close begins the abstract close only if there is no thread to wait for.
LEMMA CloseMaps ==
  ASSUME IInv, StarterValue, StarterValue', Real, NEW c \in Callers, Close(c)
  PROVE  Lifecycle!BeginClose(c) \/ UNCHANGED Lifecycle!vars
<1> USE DEF IInv, TypeOK
<1>1. /\ pc'[c] \in {"closeAwaitClose", "closeInterrupt", "closeAwait", "closeDevice"}
      /\ \A d \in Callers \ {c} : pc'[d] = pc[d]
      /\ UNCHANGED <<reply, closeErr>>
  BY DEF Close, RequestStop, ClaimInterrupt, Goto, closeVars
<1>2. Starter' = Starter
  BY <1>1, StarterSame DEF Close
<1>3. \A d \in Callers : MethodAt(pc'[d]) = MethodAt(pc[d])
  BY <1>1 DEF Close, MethodAt
<1>4. \/ Phase' = Phase
      \/ Phase \in {"opened", "ended"} /\ Phase' = "closing"
  BY DEF Close, MarkClosing, RequestStop, Phase, ThreadInv, CloseInv, Ended,
     apiVars, threadVars
<1>5. MethodAt(pc[c]) = "Close"
  BY DEF Close, MethodAt
<1>6. QED
  BY <1>1, <1>2, <1>3, <1>4, <1>5 DEF Lifecycle!BeginClose, Lifecycle!vars

\* Waiting for the thread and closing the device are invisible to callers.
LEMMA CloseInnerMaps ==
  ASSUME IInv, StarterValue, StarterValue', Real, NEW c \in Callers,
         CloseAwait(c) \/ CloseDevice(c)
  PROVE  UNCHANGED Lifecycle!vars
<1> USE DEF IInv, TypeOK, CloseAwait, CloseDevice, Goto
<1>1. Phase' = Phase
  BY DEF Phase, apiVars, threadVars
<1>2. Starter' = Starter
  BY StarterSame
<1>3. \A d \in Callers : MethodAt(pc'[d]) = MethodAt(pc[d])
  BY DEF MethodAt
<1>4. QED
  BY <1>1, <1>2, <1>3 DEF Lifecycle!vars, closeVars

\* The closing section of Close is the abstract close.
LEMMA CloseFinishMaps ==
  ASSUME IInv, StarterValue, StarterValue', Real, NEW c \in Callers, CloseFinish(c)
  PROVE  Lifecycle!FinishClose(c)
<1> USE DEF IInv, TypeOK, CloseFinish, Return
<1>1. Phase = "closing" /\ Phase' = "closed"
  BY DEF Phase, CloseInv
<1>2. Starter' = Starter
  BY StarterSame
<1>3. MethodAt(pc[c]) = "Close"
  BY DEF MethodAt
<1>4. closeErr' \in CloseErrs /\ Lifecycle!Answer(c, closeErr')
  <2>1. closeErr' \in CloseErrs /\ Return(c, "Close", closeErr')
    OBVIOUS
  <2> HIDE DEF Return
  <2>2. QED
    BY <1>3, <2>1, AnswerMaps
<1>5. QED
  BY ONLY <1>1, <1>2, <1>3, <1>4 DEF Lifecycle!FinishClose

\* A Close that waited for another answers the error of that one.
LEMMA CloseReturnMaps ==
  ASSUME IInv, StarterValue, StarterValue', Real, NEW c \in Callers, CloseReturn(c)
  PROVE  Lifecycle!AnswerClose(c)
<1> USE DEF IInv, TypeOK, CloseReturn, CloseSettled, Return
<1>1. Phase = "closed" /\ Phase' = Phase
  BY DEF Phase, CloseInv, apiVars, threadVars
<1>2. Starter' = Starter
  BY StarterSame
<1>3. MethodAt(pc[c]) = "Close"
  BY DEF MethodAt
<1>4. Lifecycle!Answer(c, closeErr) /\ UNCHANGED closeErr
  <2>1. Return(c, "Close", closeErr)
    OBVIOUS
  <2> HIDE DEF Return
  <2>2. QED
    BY <1>3, <2>1, AnswerMaps DEF closeVars
<1>5. QED
  BY ONLY <1>1, <1>2, <1>3, <1>4 DEF Lifecycle!AnswerClose

\* Of all the thread does callers see only finishRun, the abstract end.
LEMMA ThreadMaps ==
  ASSUME IInv, HasCloser, StarterValue, StarterValue', Real,
         ThreadStep \/ \E err \in WaitErrs : Wait(err)
  PROVE  Lifecycle!End \/ UNCHANGED Lifecycle!vars
<1> USE DEF IInv, TypeOK
<1>1. UNCHANGED <<callVars, closeVars>>
  BY DEF ThreadStep, RunStart, RunStartFailed, LoopTop, Wait, AfterWait, Recover,
     RunCallback, CommitSilence, Commit, RunStop, FinishRun, loopFrame
<1>2. Starter' = Starter
  BY <1>1, StarterSame DEF callVars
<1>3. CASE FinishRun
  <2>1. Phase = "active" /\ Phase' = IF closing THEN "closing" ELSE "ended"
    BY <1>3 DEF FinishRun, FinalState, Phase, ThreadInv
  <2>2. closing => \E c \in Callers : MethodAt(pc[c]) = "Close"
    BY <1>3 DEF HasCloser, FinishRun, ThreadInv, CloseInv, MethodAt
  <2>3. QED
    BY <1>1, <1>2, <2>1, <2>2 DEF Lifecycle!End, callVars, closeVars
<1>4. CASE ~FinishRun
  <2>1. UNCHANGED <<apiVars, done>>
    BY <1>4 DEF ThreadStep, RunStart, RunStartFailed, LoopTop, Wait, AfterWait, Recover,
       RunCallback, CommitSilence, Commit, RunStop, loopFrame
  <2>2. QED
    BY <1>1, <1>2, <2>1 DEF Phase, Lifecycle!vars, apiVars, callVars, closeVars
<1>5. QED
  BY <1>3, <1>4

-----------------------------------------------------------------------------
\* Every step is an abstract step or a stutter.
LEMMA StepMaps ==
  ASSUME IInv, HasCloser, SingleStarter, SingleStarter', Real, [Next]_vars
  PROVE  [Lifecycle!Next]_(Lifecycle!vars)
<1>1. StarterValue /\ StarterValue'
  BY StarterKnown, StarterKnownNext
<1>2. ASSUME NEW c \in Callers, CallerStep(c)
      PROVE  [Lifecycle!Next]_(Lifecycle!vars)
  BY <1>1, <1>2, StartMaps, StartReturnMaps, StopMaps, StopReturnMaps, InterruptMaps,
     CloseMaps, CloseInnerMaps, CloseFinishMaps, CloseReturnMaps
     DEF CallerStep, Lifecycle!Next
<1>3. ASSUME NEW c \in Callers, NEW op \in Ops, Invoke(c, op)
      PROVE  [Lifecycle!Next]_(Lifecycle!vars)
  BY <1>1, <1>3, InvokeMaps DEF Lifecycle!Next
<1>4. CASE ThreadStep \/ \E err \in WaitErrs : Wait(err)
  BY <1>1, <1>4, ThreadMaps DEF Lifecycle!Next
<1>5. CASE UNCHANGED vars
  BY <1>5 DEF vars, apiVars, closeVars, threadVars, callVars, Lifecycle!vars,
     Phase, Starter
<1>6. QED
  BY <1>2, <1>3, <1>4, <1>5 DEF Next

\* Callers of StreamCore see the lifecycle StreamLifecycle promises.
THEOREM Refinement ==
  ASSUME Real
  PROVE  Spec => LifecycleSpec
<1>1. Init => SingleStarter /\ HasCloser
  BY DEF Init, SingleStarter, HasCloser
<1>2. QED
  BY <1>1, Real, Invariance, InitMaps, SingleStarterKeeps, HasCloserKeeps, StepMaps, PTL
     DEF Spec, LifecycleSpec, Lifecycle!Spec

-----------------------------------------------------------------------------
(* StreamCore uses its device as DriverStream says.                        *)

\* What the callers' methods do to the device: they interrupt it, and the one
\* that closes finds it stopped, or never started.
LEMMA CallersUseDriver ==
  ASSUME IInv, NEW c \in Callers, CallerStep(c)
  PROVE  Driver!Interrupt \/ Driver!Close \/ UNCHANGED Driver!vars
<1> USE DEF IInv, TypeOK, Driver!vars
<1>1. CASE Start(c)
  <2>1. UNCHANGED <<device, interrupted, failure, waitErr>>
    BY <1>1 DEF Start, deviceVars
  <2>2. tpc' = tpc \/ (tpc = "none" /\ tpc' = "start")
    BY <1>1 DEF Start, Startable, ThreadInv
  <2>3. QED
    BY <2>1, <2>2 DEF DeviceAt
<1>2. CASE CloseDevice(c)
  <2>1. /\ device' = "closed" /\ UNCHANGED <<tpc, failure, waitErr, interrupted>>
        /\ tpc \in {"none", "exited"}
    BY <1>2 DEF CloseDevice, CloseInv, ThreadInv, threadVars
  <2>2. DeviceAt' = "closed" /\ DeviceAt \in {"new", "stopped", "closed"}
    BY <2>1 DEF DeviceAt, DeviceInv
  <2>3. QED
    BY <2>1, <2>2 DEF Driver!Close
<1>3. CASE Interrupt(c)
  BY <1>3 DEF Interrupt, DeviceAt, Driver!Interrupt, threadVars
<1>4. CASE ~(Start(c) \/ CloseDevice(c) \/ Interrupt(c))
  <2>1. UNCHANGED <<threadVars, deviceVars>>
    BY <1>4 DEF CallerStep, StartReturn, Stop, StopReturn, Close, CloseAwait, CloseFinish,
       CloseReturn
  <2>2. QED
    BY <2>1 DEF DeviceAt, threadVars, deviceVars
<1>5. QED
  BY <1>1, <1>2, <1>3, <1>4

\* The loop, on a device that has started: Wait, then Commit or Recover, and out.
LEMMA LoopUsesDriver ==
  ASSUME IInv,
         \/ LoopTop \/ AfterWait \/ Recover \/ RunCallback
         \/ CommitSilence \/ Commit \/ \E err \in WaitErrs : Wait(err)
  PROVE  \/ Driver!Wait \/ Driver!Commit \/ Driver!Recover \/ Driver!Leave
         \/ UNCHANGED Driver!vars
<1> USE DEF DeviceAt, FatalWaitErrs, Driver!vars
<1>1. /\ device = "started" /\ tpc \in LoopPoints /\ tpc' \in LoopPoints \cup {"exit"}
      /\ UNCHANGED <<device, interrupted>> /\ waitErr \in WaitErrs
  <2>1. LoopStep
    BY LoopActions
  <2>2. QED
    BY <2>1 DEF LoopStep, IInv, TypeOK, DeviceInv, loopFrame, deviceVars
<1>2. CASE LoopTop
  BY <1>1, <1>2 DEF LoopTop, Driver!Leave
<1>3. CASE \E err \in WaitErrs : Wait(err)
  BY <1>1, <1>3 DEF Wait, Driver!Wait, Driver!Interruption
<1>4. CASE AfterWait
  <2>1. CASE waitErr = NoErr
    BY <1>1, <1>4, <2>1 DEF AfterWait, Driver!Leave
  <2>2. CASE waitErr = "interrupted"
    BY <1>1, <1>4, <2>2 DEF AfterWait, Fail, Driver!Leave
  <2>3. CASE waitErr = "xrun" \/ waitErr \in FatalWaitErrs
    BY <1>1, <1>4, <2>3 DEF AfterWait, Fail
  <2>4. QED
    BY <1>1, <2>1, <2>2, <2>3
<1>5. CASE Recover
  BY <1>1, <1>5 DEF Recover, Fail, Driver!Recover
<1>6. CASE RunCallback \/ CommitSilence \/ Commit
  BY <1>1, <1>6 DEF RunCallback, CommitSilence, Commit, Fail, Driver!Commit, Driver!Leave
<1>7. QED
  BY <1>2, <1>3, <1>4, <1>5, <1>6

\* What run does before and after the loop.
LEMMA RunUsesDriver ==
  ASSUME IInv, RunStart \/ RunStartFailed \/ RunStop \/ FinishRun
  PROVE  Driver!Start \/ Driver!Stop \/ UNCHANGED Driver!vars
<1> USE DEF DeviceAt, Driver!vars
<1>1. CASE RunStart
  <2>1. device = "open" /\ tpc = "start" /\ failure = NoErr /\ UNCHANGED interrupted
    BY <1>1 DEF RunStart, IInv, DeviceInv
  <2>2. CASE device' = "started" /\ tpc' = "top"
    BY <2>1, <2>2 DEF Driver!Start
  <2>3. CASE UNCHANGED device /\ tpc' = "startFailed"
    <3>1. /\ failure' \in StartErrs
          /\ failure' = "startInterrupted" => StartReportsInterrupt /\ interrupted
      BY <1>1, <2>1, <2>3 DEF RunStart, StartResults, StoreStartErr, SetFailure
    <3>2. QED
      BY <2>1, <2>3, <3>1 DEF Driver!Start, Driver!Interruption
  <2>4. QED
    BY <1>1, <2>2, <2>3 DEF RunStart
<1>2. CASE RunStartFailed
  BY <1>2 DEF RunStartFailed, IInv, DeviceInv, Driver!Stop
<1>3. CASE RunStop
  BY <1>3 DEF RunStop, IInv, DeviceInv, Driver!Stop
<1>4. CASE FinishRun
  <2>1. device \in {"stopped", "closed"} /\ UNCHANGED <<device, interrupted>>
    BY <1>4 DEF FinishRun, IInv, DeviceInv, deviceVars
  <2>2. QED
    BY <2>1
<1>5. QED
  BY <1>1, <1>2, <1>3, <1>4

\* DriverSpec: whatever the interleaving of the callers, every call the thread
\* and the closing caller make of the device is one the driver's interface allows
\* then, for either kind of Start.
THEOREM DriverUsed == Spec => DriverSpec
<1>1. Init => Driver!Init
  BY DEF Init, Driver!Init, DeviceAt
<1>2. IInv /\ [Next]_vars => [Driver!Next]_(Driver!vars)
  <2> SUFFICES ASSUME IInv, [Next]_vars PROVE [Driver!Next]_(Driver!vars)
    OBVIOUS
  <2>1. ASSUME NEW c \in Callers, CallerStep(c) PROVE [Driver!Next]_(Driver!vars)
    BY <2>1, CallersUseDriver DEF Driver!Next
  <2>2. ASSUME NEW c \in Callers, NEW op \in Ops, Invoke(c, op)
        PROVE  [Driver!Next]_(Driver!vars)
    BY <2>2 DEF Invoke, DeviceAt, Driver!vars, threadVars, deviceVars
  <2>3. CASE ThreadStep \/ \E err \in WaitErrs : Wait(err)
    BY <2>3, LoopUsesDriver, RunUsesDriver DEF ThreadStep, Driver!Next
  <2>4. CASE UNCHANGED vars
    BY <2>4 DEF vars, DeviceAt, Driver!vars, threadVars, deviceVars
  <2>5. QED
    BY <2>1, <2>2, <2>3, <2>4 DEF Next
<1>3. QED
  BY <1>1, <1>2, Invariance, PTL DEF Spec, DriverSpec, Driver!Spec
=============================================================================
