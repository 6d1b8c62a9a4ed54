---------------------------- MODULE WasapiStream -----------------------------
(***************************************************************************)
(* A WASAPI stream from Open to Stop: WasapiSession acquires and releases, *)
(* this module adds what the stream thread does between Start and Stop     *)
(* (Wait, Commit, Recover), the two directions of a shared duplex stream   *)
(* on one thread, and the endpoints' buffers and events.  The thread makes *)
(* its calls in the order of the portable loop (StreamCore): Wait, the     *)
(* callback, Commit, Recover after an xrun, Stop after anything else.      *)
(***************************************************************************)
EXTENDS WasapiSession

VARIABLES
    pc,         \* what the stream thread is doing
    result,     \* why the loop has ended: "none", "interrupted", "refused", "fatal"
    stager,     \* the capture stager
    ready,      \* the render side may be committed
    packets,    \* the capture endpoint: what it holds, and what it lost before that
    padding     \* frames queued in the render endpoint

vars == <<session, pc, result, stager, ready, packets, padding>>

Capturing == mode \notin {"render", "exclusiveRender"}
Rendering == mode \in {"render", "exclusiveRender", "duplex"}
Polled == Capturing /\ ~Exclusive

(* An exclusive render period is the whole endpoint buffer.                *)
RenderPeriod == IF mode = "exclusiveRender" THEN BufferFrames ELSE Period

NoPackets == [next |-> 0, frames |-> 0, gap |-> FALSE]

StreamInit ==
    /\ Init
    /\ pc = "out" /\ result = "none"
    /\ stager = NewStager /\ ready = FALSE
    /\ packets = NoPackets
    /\ padding = 0

Device == UNCHANGED <<packets, padding>>
Here(p) == phase = "run" /\ pc = p

(* The thread leaves its loop.                                             *)
End(why) == pc' = "end" /\ result' = why

-----------------------------------------------------------------------------
(* The endpoints.  A captured chunk raises the audio event; what an unread *)
(* buffer cannot hold replaces it (whatever is lost shifts the positions   *)
(* by one).  A rendered chunk makes room.                                  *)
CaptureTick ==
    /\ Capturing /\ phase = "run"
    /\ \E k \in (IF Exclusive THEN {BufferFrames} ELSE 1 .. BufferFrames) :
         packets' = IF packets.frames + k <= BufferFrames
                    THEN [packets EXCEPT !.frames = @ + k]
                    ELSE [packets EXCEPT !.next = IF packets.gap THEN @ ELSE Advance(@, 1),
                                         !.frames = k, !.gap = TRUE]
    /\ signalled' = signalled \cup {<<"capture", "audio">>}
    /\ UNCHANGED <<mode, phase, side, step, err, field, live, offer, changes, opened, granted,
                   todo, requested, caller, pc, result, stager, ready, padding>>

RenderTick ==
    /\ Rendering /\ phase = "run"
    /\ \E k \in (IF Exclusive THEN {BufferFrames} ELSE 1 .. Period) :
         padding' = IF padding > k THEN padding - k ELSE 0
    /\ signalled' = signalled \cup {<<"render", "audio">>}
    /\ UNCHANGED <<mode, phase, side, step, err, field, live, offer, changes, opened, granted,
                   todo, requested, caller, pc, result, stager, ready, packets>>

(* The packets the endpoint may hand out next.  An endpoint that lost      *)
(* frames flags the next packet, or both it and the one before (whose end  *)
(* the stager expects) carry their position; the first packet may be       *)
(* flagged without a loss.                                                 *)
NextPackets ==
    { Packet(packets.next, n, flagged, stamped) :
        n \in (IF Exclusive THEN {packets.frames} ELSE 1 .. packets.frames),
        flagged \in (IF packets.gap \/ ~stager.havePacket THEN BOOLEAN ELSE {FALSE}),
        stamped \in BOOLEAN }
HonestPackets ==
    { p \in NextPackets : packets.gap => \/ p.flagged
                                         \/ stager.expected # Unknown /\ p.position # Unknown }

-----------------------------------------------------------------------------
(* Start has returned: the loop begins.  The render buffer was primed full *)
(* of silence.                                                             *)
EnterLoop ==
    /\ Here("out")
    /\ pc' = "wait"
    /\ padding' = IF Rendering THEN BufferFrames ELSE 0
    /\ UNCHANGED <<session, result, stager, ready, packets>>

(* Wait refuses a period that is still to be committed.                    *)
Wait ==
    /\ Here("wait")
    /\ IF stager.ready \/ ready THEN End("refused")
       ELSE /\ UNCHANGED result
            /\ pc' = CASE mode = "exclusiveRender" -> "waitBuffer"
                       [] mode = "exclusiveCapture" -> "waitPacket"
                       [] Polled -> "pollCapture"
                       [] OTHER -> "pollRender"
    /\ UNCHANGED <<session, stager, ready>> /\ Device

(* After the capture side was polled: duplex polls the render side too.    *)
X_AfterCaptureOnly(s) ==
    IF ~s.ready THEN "block" ELSE IF mode = "duplex" THEN "pollRender" ELSE "callback"

AfterCapture(s) ==
    IF mode = "duplex" THEN "pollRender" ELSE IF s.ready THEN "callback" ELSE "block"

(* captureStream.pollReady: a period of staged frames, or a drain.         *)
PollCapture ==
    /\ Here("pollCapture")
    /\ IF "capture" \in requested THEN End("interrupted") /\ UNCHANGED stager
       ELSE /\ stager' = PreparePeriod(stager)
            /\ pc' = IF stager'.ready THEN AfterCapture(stager') ELSE "drain"
            /\ UNCHANGED result
    /\ UNCHANGED <<session, ready>> /\ Device

(* drainCapturePackets: packet after packet until a period is staged or    *)
(* the endpoint has no more.                                               *)
X_TakeAllPackets ==
    \E p \in HonestPackets :
        /\ stager' = LET s == AppendPacket(stager, p)
                     IN  IF Len(p.content) = packets.frames THEN PreparePeriod(s) ELSE s
        /\ packets' = [packets EXCEPT !.next = Advance(@, Len(p.content)),
                                      !.frames = @ - Len(p.content), !.gap = FALSE]

TakePacket ==
    \E p \in HonestPackets :
        /\ stager' = LET s == AppendPacket(stager, p)
                     IN  IF Len(s.stage) >= Period THEN PreparePeriod(s) ELSE s
        /\ packets' = [packets EXCEPT !.next = Advance(@, Len(p.content)),
                                      !.frames = @ - Len(p.content), !.gap = FALSE]

Drain ==
    /\ Here("drain")
    /\ \/ /\ packets.frames = 0
          /\ pc' = AfterCapture(stager)
          /\ UNCHANGED <<stager, packets>>
       \/ /\ TakePacket
          /\ pc' = IF stager'.ready THEN AfterCapture(stager') ELSE "drain"
    /\ UNCHANGED <<session, result, ready, padding>>

(* The exclusive drain: a packet that is not there yet is waited for with  *)
(* the next event.                                                         *)
DrainExclusive ==
    /\ Here("drainPacket")
    /\ \/ /\ UNCHANGED <<stager, packets>>
          /\ pc' = "block"
       \/ /\ packets.frames > 0 /\ TakePacket
          /\ pc' = IF stager'.ready THEN "callback" ELSE "drainPacket"
    /\ UNCHANGED <<session, result, ready, padding>>

(* A capture call is refused, with an xrun or with an error that ends the  *)
(* stream: no packet is had, or one is staged and cannot be released.      *)
CaptureFails ==
    /\ Here("drain") \/ Here("drainPacket")
    /\ \/ pc' = "xrun" /\ UNCHANGED result
       \/ End("fatal")
    /\ \/ UNCHANGED stager
       \/ packets.frames > 0 /\ \E p \in HonestPackets : stager' = AppendPacket(stager, p)
    /\ UNCHANGED <<session, ready>> /\ Device

(* wasapiStream.pollReady: room for a whole period, ...                    *)
RoomForPeriod == BufferFrames - padding >= RenderPeriod

PollRender ==
    /\ Here("pollRender")
    /\ IF "render" \in requested THEN End("interrupted")
       ELSE /\ UNCHANGED result
            /\ pc' = CASE ready /\ (mode = "duplex" => stager.ready) -> "callback"
                       [] ~ready /\ RoomForPeriod -> "sample"
                       [] OTHER -> "block"
    /\ UNCHANGED <<session, stager, ready>> /\ Device

(* ... then the interrupt flag again, and the clock for the deadlines.     *)
SampleClock ==
    /\ Here("sample")
    /\ IF "render" \in requested THEN End("interrupted") /\ UNCHANGED ready
       ELSE /\ ready' = TRUE /\ UNCHANGED result
            /\ pc' = IF mode = "duplex" /\ ~stager.ready THEN "block" ELSE "callback"
    /\ UNCHANGED <<session, stager>> /\ Device

RenderFails ==
    /\ Here("pollRender") \/ Here("sample")
    /\ "render" \notin requested
    /\ \/ Here("pollRender") /\ pc' = "xrun" /\ UNCHANGED result
       \/ End("fatal")
    /\ UNCHANGED <<session, stager, ready>> /\ Device

(* The exclusive Waits look at the flag, capture also at what is staged,   *)
(* and block.                                                              *)
WaitExclusive ==
    /\ Here("waitBuffer") \/ Here("waitPacket")
    /\ IF requested # {} THEN End("interrupted") /\ UNCHANGED stager
       ELSE /\ stager' = IF mode = "exclusiveCapture" THEN PreparePeriod(stager) ELSE stager
            /\ pc' = IF stager'.ready THEN "callback" ELSE "block"
            /\ UNCHANGED result
    /\ UNCHANGED <<session, ready>> /\ Device

(* WaitForMultipleObjects over both events of each side: the first that is *)
(* set is reset and answers.  The one-sided streams look at the flag too,  *)
(* duplex at its next poll.                                                *)
Handles == [i \in 1 .. 2 * Len(SidesOf(mode)) |->
               <<SidesOf(mode)[(i + 1) \div 2], IF i % 2 = 1 THEN "audio" ELSE "interrupt">>]
FirstSet == CHOOSE i \in DOMAIN Handles :
                /\ Handles[i] \in signalled
                /\ \A j \in 1 .. i - 1 : Handles[j] \notin signalled

Wake ==
    /\ Here("block") /\ \E i \in DOMAIN Handles : Handles[i] \in signalled
    /\ signalled' = signalled \ {Handles[FirstSet]}
    /\ IF \/ Handles[FirstSet][2] = "interrupt"
          \/ mode # "duplex" /\ requested # {}
       THEN End("interrupted") /\ UNCHANGED ready
       ELSE /\ UNCHANGED result
            /\ ready' = (ready \/ mode = "exclusiveRender")
            /\ pc' = CASE mode = "exclusiveRender" -> "callback"
                       [] mode = "exclusiveCapture" -> "drainPacket"
                       [] Polled -> "pollCapture"
                       [] OTHER -> "pollRender"
    /\ UNCHANGED <<mode, phase, side, step, err, field, live, offer, changes, opened, granted,
                   todo, requested, caller, stager>>
    /\ Device

(* The wait itself may fail.                                               *)
WaitFails ==
    /\ Here("block") /\ End("fatal")
    /\ UNCHANGED <<session, stager, ready>> /\ Device

-----------------------------------------------------------------------------
(* Commit: the captured period is dropped from the stage, then the render  *)
(* buffer is filled; each side must have a period up.                      *)
CommitAnswers == {"ok", "xrun", "fatal"}

X_Clears(answer) == answer = "ok"

(* Whatever the endpoint answers, the render period is no longer up.       *)
Clears(answer) == answer \in CommitAnswers

Commit ==
    /\ Here("callback")
    /\ IF (Capturing /\ ~stager.ready) \/ (Rendering /\ ~ready)
       THEN End("refused") /\ UNCHANGED <<stager, ready, padding>>
       ELSE /\ stager' = IF Capturing THEN CommitPeriod(stager) ELSE stager
            /\ \E answer \in (IF Rendering THEN CommitAnswers ELSE {"ok"}) :
                 /\ ready' = (ready /\ ~Clears(answer))
                 /\ padding' = IF answer = "ok" /\ Rendering THEN padding + RenderPeriod ELSE padding
                 /\ CASE answer = "ok" -> pc' = "wait" /\ UNCHANGED result
                      [] answer = "xrun" -> pc' = "xrun" /\ UNCHANGED result
                      [] OTHER -> End("fatal")
            /\ (mode = "exclusiveRender" /\ padding > 0) => pc' # "wait"
    /\ UNCHANGED <<session, packets>>

(* Recover: the capture side starts a new stage, the render side does      *)
(* nothing; a duplex stream recovers its capture side.                     *)
Recover ==
    /\ Here("xrun")
    /\ stager' = IF Capturing THEN Reset(stager) ELSE stager
    /\ pc' = "wait"
    /\ UNCHANGED <<session, result, ready>> /\ Device

(* The loop is over: the core calls Stop on the same thread.  What is      *)
(* staged or queued is not looked at any more.                             *)
Stop ==
    /\ Here("end")
    /\ phase' = "clean" /\ todo' = SidesOf(mode)
    /\ stager' = NewStager /\ ready' = FALSE
    /\ packets' = NoPackets /\ padding' = 0
    /\ UNCHANGED <<mode, side, step, err, field, live, offer, changes, opened, granted,
                   signalled, requested, caller, pc, result>>

Running ==
    \/ EnterLoop \/ Wait \/ PollCapture \/ Drain \/ DrainExclusive \/ PollRender
    \/ SampleClock \/ WaitExclusive \/ Wake \/ Commit \/ Recover \/ Stop

Next ==
    \/ Running \/ CaptureFails \/ RenderFails \/ WaitFails
    \/ CaptureTick \/ RenderTick
    \/ (SessionThread \/ Interrupt \/ EndpointChanges)
         /\ UNCHANGED <<pc, result, stager, ready, packets, padding>>

(* The stream thread runs (no call has to fail), and a call of Interrupt   *)
(* once begun is carried through.  The endpoints owe nothing: a silent     *)
(* endpoint never moves.                                                   *)
CallerGoesOn == Interrupt /\ Head(caller)[1] = "signal"
                /\ UNCHANGED <<pc, result, stager, ready, packets, padding>>
Fairness == WF_vars(Running) /\ WF_vars(CallerGoesOn)
Spec == StreamInit /\ [][Next]_vars /\ Fairness

-----------------------------------------------------------------------------

(* A period given to the callback is a run of frames the endpoint captured *)
(* one after the other, and the device position told with it is the        *)
(* position of its first frame.                                            *)
PeriodTrue ==
    stager.ready =>
        /\ \A i \in 1 .. Period - 1 : Input(stager)[i + 1] = Advance(Input(stager)[i], 1)
        /\ stager.active \in {Unknown, Input(stager)[1]}

(* Each packet that follows lost frames counts one dropout, no other does, *)
(* once the stager has seen a packet: a drain never overflows the stage.   *)
DropoutsTellGaps ==
    [][ stager.havePacket /\ pc \in {"drain", "drainPacket"} =>
            (stager'.dropouts # stager.dropouts <=> packets.gap) ]_stager

(* Calls made in the order of the core are never refused by a one-sided    *)
(* stream: every xrun is recovered from, every period waited for can be    *)
(* committed, on every side.                                               *)
NeverRefused == mode # "duplex" => result # "refused"

(* An xrun is recoverable (internal/driver/driver.go:11): after a Recover  *)
(* that succeeded, no stream refuses to Wait.                              *)
XrunRecoverable == result # "refused"

(* A running stream that is interrupted leaves its loop, whatever the      *)
(* endpoints do: the event cannot be missed between a look at the flag and *)
(* the wait.  Except that a drain does not look: an endpoint that loses    *)
(* frames before every packet, for ever, keeps it busy.                    *)
InterruptHeard == (phase = "run" /\ caller = <<>>) ~> (phase # "run" \/ packets.gap)

(* No wake-up is lost: a thread that blocks with no event to wake it has   *)
(* taken everything its endpoints had for it; in a duplex stream neither   *)
(* side's event is consumed on behalf of the other.  And no interrupt is:  *)
(* its event is set, or the one who has set the flag is about to set it,   *)
(* also when the flag was set before the event existed.                    *)
AboutToSignal(d) == caller # <<>> /\ Head(caller) = <<"signal", d>>

NoLostWakeup ==
    pc = "block" =>
        /\ (mode \in {"capture", "loopback", "duplex"} /\ <<"capture", "audio">> \notin signalled)
               => stager.ready \/ packets.frames = 0
        /\ (mode \in {"render", "duplex"} /\ <<"render", "audio">> \notin signalled)
               => ready \/ ~RoomForPeriod
        /\ \A d \in requested : <<d, "interrupt">> \in signalled \/ AboutToSignal(d)

(* How far the stream has come, seen through the driver's interface.       *)
StreamAt ==
    CASE phase \in {"open", "failed", "opened", "start"} -> "new"
      [] phase = "clean" -> "over"
      [] phase = "stopped" -> "stopped"
      [] Here("callback") -> "period"
      [] Here("xrun") -> "xrun"
      [] Here("end") -> IF result = "interrupted" THEN "interrupted"
                        ELSE IF result = "refused" /\ mode # "duplex" THEN "refused"
                        ELSE "over"
      [] OTHER -> "ready"

Driver == INSTANCE DriverStream WITH
    StartReportsInterrupt <- FALSE, at <- StreamAt, interrupted <- (requested # {})

(* The stream answers as the driver's interface says: a Wait or a Commit   *)
(* that the core makes in its turn is never refused by a one-sided stream, *)
(* every xrun is recovered from, on every side, and only a stream that was *)
(* interrupted says so, whichever event woke it.  Except that a duplex     *)
(* stream may refuse after a Recover: it counts here as a failure.         *)
DriverSpec == Driver!Spec
=============================================================================
