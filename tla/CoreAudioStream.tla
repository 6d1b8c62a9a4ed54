---------------------------- MODULE CoreAudioStream --------------------------
(***************************************************************************)
(* A CoreAudio stream, output, input or duplex, between the system's       *)
(* threads and the stream thread (internal/coreaudio: stream, input,       *)
(* duplex, input_buffer and the callbacks in assembly).  The render        *)
(* callback takes frames from one ring and the capture callback puts       *)
(* packets into another; the stream thread fills the first and reads from  *)
(* the second through a resampler that needs Half frames on either side.   *)
(*                                                                         *)
(* Positions never wrap in the code, so only distances are kept: queued,   *)
(* used and lag count the frames between the head of a ring and its tail   *)
(* or the reader's phase.  Both clocks run at the same rate here.  Loads   *)
(* and stores are sequentially consistent, as Go's atomics and the         *)
(* acquire and release instructions of the callbacks make them for these   *)
(* accesses.                                                               *)
(***************************************************************************)
EXTENDS CoreAudioUnits

CONSTANTS
    Period,     \* frames of a callback period
    Fill,       \* frames kept queued ahead of the output, and its ring's size
    Half,       \* frames the resampler needs on either side of its phase
    Target,     \* how far behind the capture head the reader starts
    MaxQueue,   \* how far behind it may fall before it gives up what is queued
    Capacity,   \* frames of the capture ring
    MaxPacket,  \* frames of the largest capture packet
    MaxRequest, \* frames of the largest request of the render callback
    Spare       \* frames captured at most while the thread reads after a Recover

(* As Open sets them: Half is 64 frames, Target at least two buffers of    *)
(* the device and three periods more, MaxQueue more than that, a packet at *)
(* most 4096 frames or a buffer, and Capacity a power of two of at least   *)
(* four such packets and a second.  With these the last conjunct holds of  *)
(* any period and device, as long as the thread has read before another    *)
(* 1280 frames came; that a Target larger than the ring is never reached,  *)
(* and Start does not return, is modelled, not assumed away.               *)
ASSUME StreamAssumption ==
    /\ {Period, Fill, Half, Target, MaxQueue, Capacity, MaxPacket, MaxRequest, Spare}
          \subseteq Nat \ {0}
    /\ Fill % Period = 0
    /\ Target >= Period + Half /\ MaxQueue >= Target
    /\ Target <= Capacity => Target + Half + MaxPacket + Spare <= Capacity + Period

VARIABLES
    result,     \* why the stream thread has stopped
    asleep,     \* the half whose semaphore the thread sleeps on, or "none"
    n,          \* per side: the frames of the callback under way
    queued,     \* output ring: head - tail
    ready,      \* the stream's, or the duplex stream's, ready
    outReady,   \* the output half waited for a period not yet committed
    used, lag,  \* input ring: head - tail, and head - phase
    total,      \* the head of the input ring itself, counted up to Capacity
    begun,      \* reader.started
    queueReset, \* the reader fell behind MaxQueue
    drops,      \* the callback has dropped a packet since the last Recover
    status,     \* the capture callback has met an error
    stamp,      \* the timestamp of the last packet, with its sequence word
    look,       \* what the stream thread has read of it
    spare       \* what may still be captured during the read under way

stream == <<result, asleep, n, queued, ready, outReady, used, lag, total,
            begun, queueReset, drops, status, stamp, look, spare>>
vars == <<units, stream>>

Least(k, m) == IF k <= m THEN k ELSE m
Need == Period + Half
HasOutput == mode # "input"
HasInput == mode # "output"
Reading == pc \in {"clock", "clockHead", "clockTicks", "clockAgain", "reading"}
Stamped == [odd |-> FALSE, head |-> "old", ticks |-> "old"]
Unread == [moved |-> FALSE, head |-> "old", ticks |-> "old"]

StreamInit ==
    /\ UnitsInit
    /\ result = "none" /\ asleep = "none" /\ n = [d \in Sides |-> 0]
    /\ queued = 0 /\ ready = FALSE /\ outReady = FALSE
    /\ used = 0 /\ lag = 0 /\ total = 0 /\ begun = FALSE
    /\ queueReset = FALSE /\ drops = FALSE /\ status = FALSE
    /\ stamp = Stamped /\ look = Unread /\ spare = Spare

Kept == UNCHANGED <<mode, phase, build, has, closed, interrupted, wakeMu, work, checked>>
NoUnit == Kept /\ UNCHANGED <<running, started, stopped>>

(* Once the stream thread is on its way out, nothing looks at what the     *)
(* rings hold: of a callback only its presence and its signal are kept.    *)
Rings == <<n, queued, used, lag, total, begun, drops, status>>
Leaving == pc \in {"unprime", "stop", "stopInput", "over"}

Forgotten ==
    /\ queued' = 0 /\ used' = 0 /\ lag' = 0 /\ total' = 0 /\ n' = [d \in Sides |-> 0]
    /\ begun' = FALSE /\ drops' = FALSE /\ status' = FALSE

-----------------------------------------------------------------------------
(* The render callback: load the head, copy and, when there is not enough, *)
(* add silence; publish the tail; signal.                                  *)
Calls(d) == cb[d] = "idle" /\ d \in running /\ ~(Runs("closer", "dispose") /\ Of("closer") = d)
Callback(d, to) == cb' = [cb EXCEPT ![d] = to] /\ NoUnit /\ UNCHANGED pc

RenderLoad ==
    /\ Calls("output")
    /\ \E req \in 1 .. MaxRequest : n' = [n EXCEPT !["output"] = Least(req, queued)]
    /\ Callback("output", "copy")
    /\ UNCHANGED <<sem, result, asleep, queued, ready, outReady, used, lag, total, begun,
                   queueReset, drops, status, stamp, look, spare>>

RenderPublish ==
    /\ cb["output"] = "copy"
    /\ queued' = queued - n["output"]
    /\ n' = [n EXCEPT !["output"] = 0]
    /\ Callback("output", "signal")
    /\ UNCHANGED <<sem, result, asleep, ready, outReady, used, lag, total, begun,
                   queueReset, drops, status, stamp, look, spare>>

CallbackSignal(d) ==
    /\ cb[d] = "signal"
    /\ sem' = Raised(d)
    /\ Callback(d, "idle")
    /\ UNCHANGED stream

(* The capture callback: an error of AudioUnitRender, a packet that is too *)
(* large or one the ring has no room for is dropped; any other is copied,  *)
(* stamped under a sequence word that is odd meanwhile, and published.     *)
(* The fields of a stamp are "new" while it is being written, and "old"    *)
(* again when it is whole.                                                 *)
Room(k) == k <= Capacity - used

CaptureLoad ==
    /\ Calls("input")
    /\ \E k \in 1 .. MaxPacket, failed \in BOOLEAN :
         /\ ~begun /\ Reading => k <= spare
         /\ status' = (~Leaving /\ (status \/ failed))
         /\ IF failed \/ ~Room(k) \/ Leaving
            THEN drops' = ~Leaving /\ Callback("input", "signal") /\ UNCHANGED <<n, spare>>
            ELSE /\ n' = [n EXCEPT !["input"] = k] /\ Callback("input", "stamp")
                 /\ spare' = IF ~begun /\ Reading THEN spare - k ELSE spare
                 /\ UNCHANGED drops
    /\ UNCHANGED <<sem, result, asleep, queued, ready, outReady, used, lag, total, begun,
                   queueReset, stamp, look>>

Moved == [look EXCEPT !.moved = pc \in {"clockHead", "clockTicks", "clockAgain"}]

X_StampOdd == stamp' = [stamp EXCEPT !.head = "new"] /\ UNCHANGED look

StampOdd == stamp' = [stamp EXCEPT !.odd = TRUE, !.head = "new"]
            /\ look' = Moved

CaptureStamp ==
    /\ \/ /\ cb["input"] = "stamp" /\ Callback("input", "ticks") /\ StampOdd
       \/ /\ cb["input"] = "ticks" /\ Callback("input", "even")
          /\ stamp' = [stamp EXCEPT !.ticks = "new"] /\ UNCHANGED look
       \/ /\ cb["input"] = "even" /\ Callback("input", "publish")
          /\ stamp' = Stamped /\ look' = Moved
    /\ UNCHANGED <<sem, result, asleep, n, queued, ready, outReady, used, lag, total, begun,
                   queueReset, drops, status, spare>>

CapturePublish ==
    /\ cb["input"] = "publish"
    /\ used' = used + n["input"] /\ lag' = lag + n["input"]
    /\ total' = Least(total + n["input"], Capacity)
    /\ n' = [n EXCEPT !["input"] = 0]
    /\ Callback("input", "signal")
    /\ UNCHANGED <<sem, result, asleep, queued, ready, outReady, begun,
                   queueReset, drops, status, stamp, look, spare>>
-----------------------------------------------------------------------------
(* The stream thread.  It leaves its loop, or a Start that fails after the *)
(* input unit was started, by way of the units' stops.                     *)
Goes(p) == pc' = p /\ UNCHANGED cb

End(why) ==
    /\ result' = why /\ Forgotten
    /\ Goes(IF pc \in {"prime", "startOutput"} THEN "unprime" ELSE "stop")
Awake == phase = "opened" /\ asleep = "none"
Counts == UNCHANGED <<n, total, drops, status, stamp, spare>>

StartInput ==
    /\ Awake /\ pc = "out" /\ HasInput
    /\ \/ StartUnit("input") /\ Goes("prime") /\ UNCHANGED result
       \/ result' = "failed" /\ Goes("over") /\ UNCHANGED <<running, started, stopped>>
    /\ Kept /\ Counts
    /\ UNCHANGED <<sem, asleep, queued, ready, outReady, used, lag, begun, queueReset, look>>

(* Start queues Fill frames of silence before the unit is started.         *)
StartOutput ==
    /\ Awake /\ IF HasInput THEN pc = "startOutput" ELSE pc = "out"
    /\ queued' = Fill
    /\ \/ StartUnit("output") /\ Goes("wait") /\ UNCHANGED result
       \/ /\ result' = "failed" /\ Goes(IF HasInput THEN "unprime" ELSE "over")
          /\ stopped' = stopped \cup {"output"} /\ UNCHANGED <<running, started>>
    /\ Kept /\ Counts
    /\ UNCHANGED <<sem, asleep, ready, outReady, used, lag, begun, queueReset, look>>

(* Before the output is started the reader goes Target frames behind.      *)
PrimeReader ==
    /\ Awake /\ pc = "primed"
    /\ lag' = Target
    /\ Goes(IF HasOutput THEN "startOutput" ELSE "wait")
    /\ NoUnit /\ Counts
    /\ UNCHANGED <<sem, result, asleep, queued, ready, outReady, used, begun, queueReset, look>>

Unprime ==
    /\ Awake /\ pc = "unprime" /\ StopUnit("input") /\ Goes("over") /\ Forgotten
    /\ Kept /\ UNCHANGED <<started, sem, result, asleep, ready, outReady, queueReset, stamp, look, spare>>

-----------------------------------------------------------------------------
(* duplex.Wait, or stream.Wait alone: the output half first.               *)
Wait ==
    /\ Awake /\ pc = "wait"
    /\ IF ready \/ (~HasInput /\ outReady) THEN End("refused")
       ELSE /\ Goes(IF HasOutput /\ ~outReady THEN "output" ELSE "drops")
            /\ UNCHANGED <<result, Rings>>
    /\ NoUnit
    /\ UNCHANGED <<sem, asleep, ready, outReady, queueReset, stamp, look, spare>>

RoomForPeriod == Fill - queued >= Period

(* One look of the loop of stream.Wait.                                    *)
OutputLook ==
    /\ Awake /\ pc = "output"
    /\ IF "output" \in interrupted THEN End("interrupted") /\ UNCHANGED <<asleep, outReady>>
       ELSE /\ UNCHANGED <<result, Rings>>
            /\ IF RoomForPeriod
               THEN outReady' = TRUE /\ UNCHANGED asleep
                    /\ Goes(IF HasInput THEN "drops" ELSE "callback")
               ELSE asleep' = "output" /\ UNCHANGED <<outReady, pc, cb>>
    /\ NoUnit
    /\ UNCHANGED <<sem, ready, queueReset, stamp, look, spare>>

Drops ==
    /\ Awake /\ pc = "drops"
    /\ Goes(IF drops THEN "xrun" ELSE "input")
    /\ NoUnit /\ Counts
    /\ UNCHANGED <<sem, result, asleep, queued, ready, outReady, used, lag, begun,
                   queueReset, look>>

(* One look of the loop of captureStream.wait, from Start or from Wait.    *)
Required == IF pc = "prime" THEN Target ELSE Need

InputLook ==
    /\ Awake /\ pc \in {"prime", "input"}
    /\ CASE "input" \in interrupted -> End("interrupted") /\ UNCHANGED asleep
         [] "input" \notin interrupted /\ status -> End("failed") /\ UNCHANGED asleep
         [] OTHER ->
              /\ UNCHANGED <<result, Rings>>
              /\ IF lag >= Required
                 THEN Goes(IF pc = "prime" THEN "primed" ELSE "load") /\ UNCHANGED asleep
                 ELSE asleep' = "input" /\ UNCHANGED <<pc, cb>>
    /\ NoUnit
    /\ UNCHANGED <<sem, ready, outReady, queueReset, stamp, look, spare>>

(* The semaphore: a signal, a signal of the operating system, or a slice   *)
(* of time in vain.  A silent input is lost; of a silent output the device *)
(* is asked whether it is gone.                                            *)
Woken ==
    /\ asleep # "none" /\ sem[asleep] > 0
    /\ sem' = [sem EXCEPT ![asleep] = @ - 1] /\ asleep' = "none"
    /\ NoUnit /\ Counts /\ UNCHANGED <<pc, cb>>
    /\ UNCHANGED <<result, queued, ready, outReady, used, lag, begun, queueReset, look>>

Aborted ==
    /\ asleep # "none" /\ asleep' = "none"
    /\ NoUnit /\ Counts /\ UNCHANGED <<pc, cb>>
    /\ UNCHANGED <<sem, result, queued, ready, outReady, used, lag, begun, queueReset, look>>

TimedOut ==
    /\ asleep # "none" /\ sem[asleep] = 0 /\ asleep' = "none"
    /\ IF asleep = "input" THEN End("lost") ELSE UNCHANGED <<pc, cb, result, Rings>>
    /\ NoUnit
    /\ UNCHANGED <<sem, ready, outReady, queueReset, stamp, look, spare>>

DeviceGone ==
    /\ asleep = "output" /\ sem[asleep] = 0 /\ asleep' = "none"
    /\ End("lost")
    /\ NoUnit
    /\ UNCHANGED <<sem, ready, outReady, queueReset, stamp, look, spare>>

(* The head is loaded: a reader too far behind gives up what is queued,    *)
(* one that has not begun goes Target frames behind.                       *)

FellBehind == begun /\ lag > MaxQueue

LoadHead ==
    /\ Awake /\ pc = "load"
    /\ IF FellBehind
       THEN queueReset' = TRUE /\ Goes("xrun") /\ UNCHANGED <<lag, spare, look>>
       ELSE /\ lag' = IF begun THEN lag ELSE Target
            /\ spare' = Spare /\ look' = Unread
            /\ Goes("clock") /\ UNCHANGED queueReset
    /\ NoUnit
    /\ UNCHANGED <<sem, result, asleep, n, queued, ready, outReady, used, total, begun, drops, status, stamp>>

(* captureStream.clock: the sequence word before, the fields, the sequence *)
(* word after; some tries in vain and there is no clock.                   *)
ReadClock ==
    /\ Awake
    /\ CASE pc = "clock" -> /\ look' = Unread
                            /\ IF stamp.odd THEN Goes("clock") \/ Goes("reading") ELSE Goes("clockHead")
         [] pc = "clockHead" -> look' = [look EXCEPT !.head = stamp.head] /\ Goes("clockTicks")
         [] pc = "clockTicks" -> look' = [look EXCEPT !.ticks = stamp.ticks] /\ Goes("clockAgain")
         [] pc = "clockAgain" -> /\ look' = Unread
                                 /\ Goes("reading") \/ (look.moved /\ Goes("clock"))
         [] OTHER -> FALSE
    /\ NoUnit /\ Counts
    /\ UNCHANGED <<sem, result, asleep, queued, ready, outReady, used, lag, begun, queueReset>>

(* inputReader.read, and the tail it leaves Half frames before its phase,  *)
(* or at the first frame of all.                                           *)
X_TailOf(distance) == Least(total, distance)

TailOf(distance) == Least(total, distance + Half)

Read ==
    /\ Awake /\ pc = "reading"
    /\ lag' = lag - Period /\ used' = TailOf(lag')
    /\ begun' = TRUE /\ ready' = TRUE /\ spare' = Spare
    /\ Goes("callback")
    /\ NoUnit /\ UNCHANGED <<n, total, drops, status, stamp>>
    /\ UNCHANGED <<sem, result, asleep, queued, outReady, queueReset, look>>

(* Commit: each half must have its period up; then neither has any more.   *)
X_PeriodGone == ready' = FALSE /\ UNCHANGED outReady

PeriodGone == ready' = FALSE /\ outReady' = FALSE

Commit ==
    /\ Awake /\ pc = "callback"
    /\ IF (HasInput /\ ~ready) \/ (HasOutput /\ ~outReady)
       THEN End("refused") /\ UNCHANGED <<ready, outReady>>
       ELSE /\ queued' = IF HasOutput THEN queued + Period ELSE queued
            /\ PeriodGone
            /\ Goes("wait") /\ UNCHANGED <<result, n, used, lag, total, begun, drops, status>>
    /\ NoUnit
    /\ UNCHANGED <<sem, asleep, queueReset, stamp, look, spare>>

(* Recover: the reader starts again at the head, or Target frames behind   *)
(* it when it had fallen behind.  An output period waited for stays so.    *)
Recover ==
    /\ Awake /\ pc = "xrun"
    /\ lag' = IF queueReset THEN Target ELSE 0
    /\ used' = lag' /\ begun' = FALSE /\ queueReset' = FALSE /\ drops' = FALSE
    /\ Goes("wait")
    /\ NoUnit
    /\ UNCHANGED <<sem, result, asleep, n, queued, ready, outReady, total, status, stamp, look, spare>>

(* Stop: the output half, then the input half.                             *)
Stop ==
    /\ Awake
    /\ \/ /\ pc = "stop" /\ HasOutput /\ HasInput
          /\ StopUnit("output") /\ Goes("stopInput") /\ Forgotten
       \/ /\ pc = "stop" /\ ~HasInput /\ StopUnit("output") /\ Goes("over") /\ Forgotten
       \/ /\ pc \in {"stop", "stopInput"} /\ (HasOutput => pc = "stopInput")
          /\ StopUnit("input") /\ Goes("over") /\ Forgotten
    /\ Kept /\ UNCHANGED <<started, sem, result, asleep, ready, outReady, queueReset, stamp, look, spare>>

-----------------------------------------------------------------------------
Thread ==
    \/ StartInput \/ StartOutput \/ PrimeReader \/ Unprime \/ Wait \/ OutputLook \/ Drops
    \/ InputLook \/ Woken \/ TimedOut \/ LoadHead \/ ReadClock \/ Read \/ Commit
    \/ Recover \/ Stop

RenderGoesOn == RenderPublish \/ CallbackSignal("output")
CaptureGoesOn == CaptureStamp \/ CapturePublish \/ CallbackSignal("input")

Goroutines ==
    (Interrupting("caller") \/ Interrupting("closer") \/ Closing) /\ UNCHANGED stream

Next ==
    \/ (OpenStep \/ OpenFails \/ BeginClose) /\ UNCHANGED stream
    \/ Goroutines
    \/ Thread \/ Aborted \/ DeviceGone
    \/ RenderLoad \/ CaptureLoad \/ RenderGoesOn \/ CaptureGoesOn

(* The stream thread runs once it was started, a callback once called and  *)
(* a Close or an Interrupt once begun are carried through; a slice of time *)
(* on a semaphore ends.  The devices owe nothing.                          *)
Fairness ==
    /\ WF_vars(Thread /\ pc # "out") /\ WF_vars(RenderGoesOn) /\ WF_vars(CaptureGoesOn)
    /\ WF_vars((Interrupting("closer") \/ Closing) /\ UNCHANGED stream)
    /\ WF_vars(Interrupting("caller") /\ Head(work["caller"])[1] # "swap" /\ UNCHANGED stream)

Spec == StreamInit /\ [][Next]_vars /\ Fairness

-----------------------------------------------------------------------------
(* A commit never overwrites frames the render callback has still to play, *)
(* the ones it is copying included.                                        *)
OutputHeld == queued <= Fill /\ n["output"] <= queued

(* How far back the resampler reaches: Half frames before its phase, but   *)
(* not before the first frame, nor before where the reader has started     *)
(* again, which is the tail until its first read.                          *)
Touched == Least(IF begun THEN total ELSE used, lag + Half)

(* While the stream thread holds a head it has loaded, all the frames that *)
(* the reader needs have been published, and none of those the resampler   *)
(* reaches is being overwritten by a packet that arrives.  Between equal   *)
(* rates the reader copies frames instead, from its phase on and without a *)
(* look at where it has started again: these may be overwritten too, but   *)
(* only in a ring that does not hold Target frames, a packet and what is   *)
(* captured meanwhile.                                                     *)
InputHeld ==
    /\ Reading => lag >= Need
    /\ pc = "reading" =>
        /\ Touched + n["input"] <= Capacity
        /\ Target + MaxPacket + Spare <= Capacity => lag + n["input"] <= Capacity

(* Neither a callback nor the stream thread touches frames that are the    *)
(* other's, in either buffer.                                              *)
BuffersHeld == OutputHeld /\ InputHeld

(* A clock that is returned was written for one packet.                    *)
ClockOfOnePacket == pc = "clockAgain" /\ ~look.moved => look.head = look.ticks

(* An interrupt reaches the stream thread wherever it sleeps, in Start as  *)
(* in Wait, even when a device says nothing more; and Close returns.       *)
(* Except that a dropped packet is recovered from before the flag is       *)
(* looked at: a callback that drops one in every loop, for ever, hides it. *)
CallsEnd ==
    /\ (work["caller"] = <<>> /\ pc # "out") ~> (pc = "over" \/ drops)
    /\ (phase = "closing") ~> (phase = "closed")

(* How far the stream has come, seen through the driver's interface.  A    *)
(* Start that fails has stopped what it started.                           *)
StreamAt ==
    CASE phase \in {"closing", "closed"} -> "closed"
      [] phase \notin {"closing", "closed"} /\ pc \in {"out", "prime", "primed", "startOutput"} -> "new"
      [] phase = "opened" /\ pc = "callback" -> "period"
      [] phase = "opened" /\ pc = "xrun" -> "xrun"
      [] phase = "opened" /\ pc \in {"unprime", "stop", "stopInput"} ->
             IF result \in {"interrupted", "refused"} THEN result ELSE "over"
      [] phase = "opened" /\ pc = "over" -> "stopped"
      [] OTHER -> "ready"

Driver == INSTANCE DriverStream WITH
    StartReportsInterrupt <- TRUE, at <- StreamAt, interrupted <- (interrupted # {})

(* The stream answers as the driver's interface says: whether one half or  *)
(* both, a Wait or a Commit that the core makes in its turn is never       *)
(* refused, also after an xrun that left the output half with its period   *)
(* up; and only a stream that was interrupted says so.                     *)
DriverSpec == Driver!Spec
=============================================================================
