------------------------------- MODULE AlsaPcm -------------------------------
(***************************************************************************)
(* The ALSA stream of internal/alsa/pcm_linux.go: Start, Wait, Commit,     *)
(* Recover and Stop, called by the stream thread as run and loop of        *)
(* stream.go call them; Interrupt, by a goroutine at any moment; Close,    *)
(* after the thread.  Under them the kernel: the state of the PCM device,  *)
(* the levels of its two buffers, and the pipe that wakes a poll.          *)
(*                                                                         *)
(* The devices of a duplex stream are linked and have one state, which an  *)
(* underrun, a suspend or an unplugging changes for both.  Frames are      *)
(* counted in pieces, several to a period.  EINTR, which is retried, and   *)
(* the timestamps are left out; "other" is any errno with no meaning of    *)
(* its own.                                                                *)
(***************************************************************************)
EXTENDS Naturals

CONSTANTS
    Periods, Pieces,    \* periods of a buffer, pieces of a period
    NoProgressLimit,    \* pcmNoProgressLimit
    MaxIncidents        \* bound: underruns and suspends of a running device

ASSUME GeometryAssumption == Periods \in Nat \ {0} /\ Pieces \in Nat \ {0}
ASSUME LimitAssumption == NoProgressLimit \in Nat \ {0} /\ MaxIncidents \in Nat

VARIABLES
    eps,                          \* the directions of the stream
    kernel, queued, avail,        \* the devices, and the levels of the buffers
    byte,                         \* the wake pipe holds a byte
    started, stopped, closed, interrupted, wakeMu, dropouts, recoverErr,
    tpc, op,                      \* the thread: control point, driver call
    xep, fill, done, noProgress,  \* transferFull: device, periods to go, pieces
                                  \* of this one, tries in vain
    ready, revents,               \* Wait: devices ready, result of the poll
    stopRequested, ipc,           \* Interrupt, by "stop" and by "close"
    incidents, resumed            \* history: of the running device

kernelVars == <<kernel, queued, avail, incidents>>
flagVars == <<started, stopped, closed>>
errVars == <<dropouts, recoverErr, resumed>>
xferVars == <<xep, fill, done, noProgress>>
pollVars == <<ready, revents>>
callerVars == <<interrupted, wakeMu, stopRequested, ipc>>
threadVars == <<tpc, op, xferVars, pollVars>>
vars == <<eps, kernelVars, byte, flagVars, errVars, callerVars, threadVars>>

Buffer == Periods * Pieces
Room == Buffer - queued

Init ==
    /\ eps \in {{"out"}, {"in"}, {"out", "in"}}
    /\ kernel = "setup" /\ queued = 0 /\ avail = 0 /\ incidents = 0
    /\ byte = FALSE
    /\ started = FALSE /\ stopped = FALSE /\ closed = FALSE
    /\ interrupted = FALSE /\ wakeMu = "free" /\ stopRequested = FALSE
    /\ dropouts = 0 /\ recoverErr = "none" /\ resumed = FALSE
    /\ tpc = "start" /\ op = "none"
    /\ xep = "out" /\ fill = 0 /\ done = 0 /\ noProgress = 0
    /\ ready = {} /\ revents = {}
    /\ ipc = [c \in {"stop", "close"} |-> "idle"]

-----------------------------------------------------------------------------
(* The kernel.  The software parameters make it start when the output      *)
(* buffer is full and stop when a buffer has run out.                      *)

\* A piece played and a piece recorded.
Tick ==
    /\ kernel = "running"
    /\ "out" \in eps => queued > 0
    /\ "in" \in eps => avail < Buffer
    /\ queued' = IF "out" \in eps THEN queued - 1 ELSE queued
    /\ avail' = IF "in" \in eps THEN avail + 1 ELSE avail
    /\ UNCHANGED <<eps, kernel, incidents, byte, flagVars, errVars, callerVars,
                   threadVars>>

Underrun ==
    /\ kernel = "running" /\ incidents < MaxIncidents
    /\ ("out" \in eps /\ queued = 0) \/ ("in" \in eps /\ avail = Buffer)
    /\ kernel' = "xrun" /\ incidents' = incidents + 1
    /\ UNCHANGED <<eps, queued, avail, byte, flagVars, errVars, callerVars,
                   threadVars>>

Suspend ==
    /\ kernel \in {"prepared", "running", "xrun"} /\ incidents < MaxIncidents
    /\ kernel' = "suspended"
    /\ incidents' = IF kernel = "running" THEN incidents + 1 ELSE incidents
    /\ UNCHANGED <<eps, queued, avail, byte, flagVars, errVars, callerVars,
                   threadVars>>

\* Unplugged; or it stops moving and says nothing.
Vanish ==
    /\ \/ kernel # "gone" /\ kernel' = "gone"
       \/ kernel = "running" /\ kernel' = "stalled"
    /\ UNCHANGED <<eps, queued, avail, incidents, byte, flagVars, errVars,
                   callerVars, threadVars>>

\* What poll says of a device: room or data for a period, or an error.
Pollable_Data(ep) == IF ep = "out" THEN Room >= Pieces ELSE avail >= Pieces
Pollable(ep) ==
    \/ kernel \notin {"prepared", "running", "stalled"}
    \/ IF ep = "out" THEN Room >= Pieces ELSE avail >= Pieces

-----------------------------------------------------------------------------
(* What a driver call answers, and where run and loop go with it.  They    *)
(* stop the device after every other answer; those to an interrupt and to  *)
(* a call out of its turn are told apart.                                  *)

AfterCall(call, res) ==
    CASE call = "stop" -> "exited"
      [] call # "stop" /\ res = "nil" ->
             IF call = "wait" THEN "callback" ELSE "loop"
      [] call \in {"wait", "commit"} /\ res = "xrun" -> "recover"
      [] call # "stop" /\ res = "interrupted" -> "interrupted"
      [] call \in {"wait", "commit", "recover"} /\ res = "state" -> "refused"
      [] OTHER -> "stop"

Answer(call, res) ==
    /\ tpc' = AfterCall(call, res)
    /\ op' = "none"
    /\ xep' = "out" /\ fill' = 0 /\ done' = 0 /\ noProgress' = 0
    /\ ready' = {} /\ revents' = {}

NoteXrun_Underruns(call, res, errno) ==
    dropouts' = IF call \in {"start", "wait", "commit"} /\ errno = "xrun"
                THEN dropouts + 1 ELSE dropouts
\* Recover does not count what it meets.
NoteXrun(call, res, errno) ==
    dropouts' = IF call \in {"start", "wait", "commit"} /\ res = "xrun"
                THEN dropouts + 1 ELSE dropouts

\* mapOperationError: both underrun and suspend are ErrXrun.
Mapped(errno) ==
    CASE errno \in {"xrun", "suspended"} -> "xrun"
      [] errno \in {"gone", "setup"} -> "lost"
      [] OTHER -> errno

Fails(errno) ==
    /\ recoverErr' = IF Mapped(errno) = "xrun" THEN errno ELSE recoverErr
    /\ NoteXrun(op, Mapped(errno), errno)
    /\ Answer(op, Mapped(errno))
    /\ UNCHANGED resumed

-----------------------------------------------------------------------------
(* transferFull and waitReady.                                             *)

BeginTransfer(ep, periods) ==
    /\ tpc' = "transfer"
    /\ xep' = ep /\ fill' = periods /\ done' = 0 /\ noProgress' = 0

\* The answer of Start, Wait, Commit or Recover once all its periods are there.
Completed ==
    /\ recoverErr' = IF op = "recover" THEN "none" ELSE recoverErr
    /\ Answer(op, "nil")
    /\ UNCHANGED <<dropouts, resumed>>

WholePeriod_Any(pieces) == pieces > 0
WholePeriod(pieces) == pieces = Pieces
GivesUp(tries) == tries >= NoProgressLimit
Movable == IF xep = "out" THEN Room ELSE avail
Least(m, n) == IF m <= n THEN m ELSE n

\* WRITEI or READI moves some frames; a device that is not running yet takes
\* all it can, and starts when its buffer is full.
TransferSome ==
    /\ tpc = "transfer"
    /\ kernel \in {"running", "stalled"} \/ (kernel = "prepared" /\ xep = "out")
    /\ \E n \in 1 .. Least(Movable, Pieces - done) :
          /\ kernel = "prepared" => n = Least(Movable, Pieces - done)
          /\ queued' = IF xep = "out" THEN queued + n ELSE queued
          /\ avail' = IF xep = "in" THEN avail - n ELSE avail
          /\ kernel' = IF kernel = "prepared" /\ queued' = Buffer
                       THEN "running" ELSE kernel
          /\ IF ~WholePeriod(done + n)
             THEN /\ done' = done + n /\ noProgress' = 0
                  /\ UNCHANGED <<errVars, tpc, op, xep, fill, pollVars>>
             ELSE IF fill > 1
                  THEN /\ BeginTransfer(xep, fill - 1)
                       /\ UNCHANGED <<errVars, op, pollVars>>
                  ELSE Completed
    /\ UNCHANGED <<eps, incidents, byte, flagVars, callerVars>>

\* EAGAIN, or no frame moved: poll, and give up after some tries.
TransferNone ==
    /\ tpc = "transfer"
    /\ \/ kernel = "running"
       \/ kernel \in {"prepared", "stalled"} /\ Movable = 0
    /\ IF GivesUp(noProgress + 1)
       THEN Fails("other")
       ELSE /\ noProgress' = noProgress + 1
            /\ tpc' = "waitReady"
            /\ UNCHANGED <<errVars, op, xep, fill, done, pollVars>>
    /\ UNCHANGED <<eps, kernelVars, byte, flagVars, callerVars>>

TransferFails ==
    /\ tpc = "transfer"
    /\ \/ kernel \in {"xrun", "suspended", "gone", "setup"} /\ Fails(kernel)
       \/ Fails("other")
    /\ UNCHANGED <<eps, kernelVars, byte, flagVars, callerVars>>

Interruptible_None(call) == FALSE
Interruptible_Any(call) == TRUE
Interruptible(call) == call = "wait"

\* ppoll returns and the byte is drained.
WaitReadyPoll ==
    /\ tpc = "waitReady"
    /\ Pollable(xep) \/ byte
    /\ revents' = (IF Pollable(xep) THEN {xep} ELSE {})
                      \cup (IF kernel = "gone" THEN {"lost"} ELSE {})
    /\ byte' = FALSE
    /\ tpc' = "waitReadyCheck"
    /\ UNCHANGED <<eps, kernelVars, flagVars, errVars, callerVars, op, xferVars,
                   ready>>

WaitReadyCheck ==
    /\ tpc = "waitReadyCheck"
    /\ IF interrupted /\ Interruptible(op) THEN Fails("interrupted")
       ELSE IF "lost" \in revents THEN Fails("gone")
       ELSE /\ tpc' = IF xep \in revents THEN "transfer" ELSE "waitReady"
            /\ revents' = {}
            /\ UNCHANGED <<errVars, op, xferVars, ready>>
    /\ UNCHANGED <<eps, kernelVars, byte, flagVars, callerVars>>

-----------------------------------------------------------------------------
(* Start.                                                                  *)

\* TTSTAMP, PREPARE and LINK of the devices, any of which may fail.
Start ==
    /\ tpc = "start"
    /\ \/ /\ closed \/ started \/ stopped \/ interrupted
          /\ Answer("start", "state") /\ UNCHANGED <<kernel, started>>
       \/ /\ ~(closed \/ started \/ stopped \/ interrupted)
          /\ kernel' = kernel \/ (kernel = "setup" /\ kernel' = "prepared")
          /\ \E res \in {"lost", "other"} : Answer("start", res)
          /\ UNCHANGED started
       \/ /\ ~(closed \/ started \/ stopped \/ interrupted) /\ kernel = "setup"
          /\ kernel' = "prepared" /\ started' = TRUE
          /\ tpc' = "prime" /\ op' = "start"
          /\ UNCHANGED <<xferVars, pollVars>>
    /\ UNCHANGED <<eps, queued, avail, incidents, byte, stopped, closed,
                   errVars, callerVars>>

\* A stream may be closed without having been started.
NeverStarted ==
    /\ tpc = "start"
    /\ tpc' = "exited"
    /\ UNCHANGED <<eps, kernelVars, byte, flagVars, errVars, callerVars, op,
                   xferVars, pollVars>>

PrimePeriods == Periods

\* Start and Recover go on alike: silence for the whole output buffer, which
\* starts the devices, or START for a capture stream.
Prime ==
    /\ tpc = "prime"
    /\ \/ /\ "out" \in eps
          /\ BeginTransfer("out", PrimePeriods)
          /\ UNCHANGED <<kernel, errVars, op, pollVars>>
       \/ /\ "out" \notin eps
          /\ \/ kernel = "prepared" /\ kernel' = "running" /\ Completed
             \/ /\ kernel' = kernel
                /\ \E res \in {"lost", "other"} : Answer(op, res)
                /\ UNCHANGED errVars
    /\ UNCHANGED <<eps, queued, avail, incidents, byte, flagVars, callerVars>>

-----------------------------------------------------------------------------
(* Wait.                                                                   *)

\* The loop leaves when it sees the request, at its top or after the wait.
LoopTop ==
    /\ tpc = "loop"
    /\ tpc' = IF stopRequested THEN "stop" ELSE "wait"
    /\ UNCHANGED <<eps, kernelVars, byte, flagVars, errVars, callerVars, op,
                   xferVars, pollVars>>

\* Wait, Commit and Recover are for a stream that was started.
OutOfTurn == closed \/ ~started \/ stopped

Wait ==
    /\ tpc = "wait"
    /\ IF OutOfTurn THEN Answer("wait", "state")
       ELSE /\ op' = "wait"
            /\ tpc' = IF interrupted THEN "waitCheck" ELSE "poll"
            /\ UNCHANGED <<xferVars, pollVars>>
    /\ UNCHANGED <<eps, kernelVars, byte, flagVars, errVars, callerVars>>

\* ppoll returns; a device that was ready once is not asked again.
WaitPoll ==
    /\ tpc = "poll"
    /\ byte \/ \E ep \in eps \ ready : Pollable(ep)
    /\ revents' = {ep \in eps \ ready : Pollable(ep)}
                      \cup (IF kernel = "gone" THEN {"lost"} ELSE {})
    /\ byte' = FALSE
    /\ tpc' = "waitCheck"
    /\ UNCHANGED <<eps, kernelVars, flagVars, errVars, callerVars, op, xferVars,
                   ready>>

AllReady(set) == set = eps

\* The tests after ppoll, in the code's order; then the whole input period.
WaitCheck ==
    /\ tpc = "waitCheck"
    /\ LET now == ready \cup (revents \cap eps)
       IN  IF interrupted THEN Fails("interrupted")
           ELSE IF "lost" \in revents THEN Fails("gone")
           ELSE IF ~AllReady(now)
                THEN /\ tpc' = "poll" /\ ready' = now /\ revents' = {}
                     /\ UNCHANGED <<errVars, op, xferVars>>
           ELSE IF "in" \in eps
                THEN /\ BeginTransfer("in", 1)
                     /\ ready' = now /\ revents' = {}
                     /\ UNCHANGED <<errVars, op>>
                ELSE Completed
    /\ UNCHANGED <<eps, kernelVars, byte, flagVars, callerVars>>

-----------------------------------------------------------------------------
(* Commit, Recover and Stop.                                               *)

Commit ==
    /\ tpc = "callback"
    /\ IF stopRequested
       THEN tpc' = "stop" /\ UNCHANGED <<op, xferVars, pollVars>>
       ELSE IF OutOfTurn THEN Answer("commit", "state")
       ELSE IF "out" \in eps
            THEN /\ op' = "commit"
                 /\ BeginTransfer("out", 1)
                 /\ UNCHANGED pollVars
            ELSE Answer("commit", "nil")
    /\ UNCHANGED <<eps, kernelVars, byte, flagVars, errVars, callerVars>>

\* A suspended device is resumed where it stopped, unless it refuses.  With
\* linked devices the first RESUME may have resumed both, and the second say so.
Recover ==
    /\ tpc = "recover"
    /\ IF OutOfTurn
       THEN /\ Answer("recover", "state")
            /\ UNCHANGED <<kernel, queued, avail, recoverErr, resumed>>
       ELSE \/ /\ recoverErr = "suspended"
               /\ \/ /\ kernel = "suspended" /\ kernel' = "running"
                     /\ recoverErr' = "none" /\ resumed' = TRUE
                     /\ Answer("recover", "nil")
                  \/ /\ kernel \in {"suspended", "gone"}
                     /\ \/ kernel' = kernel
                        \/ /\ eps = {"out", "in"} /\ kernel = "suspended"
                           /\ kernel' = "running"
                     /\ Answer("recover", "lost")
                     /\ UNCHANGED <<recoverErr, resumed>>
               /\ UNCHANGED <<queued, avail>>
            \/ /\ kernel # "gone" /\ kernel' = "prepared"
               /\ queued' = 0 /\ avail' = 0
               /\ tpc' = "prime" /\ op' = "recover"
               /\ UNCHANGED <<recoverErr, resumed, xferVars, pollVars>>
            \/ /\ \E res \in {"lost", "other"} : Answer("recover", res)
               /\ UNCHANGED <<kernel, queued, avail, recoverErr, resumed>>
    /\ UNCHANGED <<eps, incidents, byte, flagVars, dropouts, callerVars>>

Dropped == IF started /\ kernel # "gone" THEN "setup" ELSE kernel

\* DROP; what a vanished device says to it is benign.
Stop ==
    /\ tpc \in {"stop", "interrupted", "refused"}
    /\ stopped' = TRUE
    /\ \/ kernel' = Dropped /\ Answer("stop", "nil")
       \/ started /\ UNCHANGED kernel /\ Answer("stop", "other")
    /\ UNCHANGED <<eps, queued, avail, incidents, byte, started, closed,
                   errVars, callerVars>>

-----------------------------------------------------------------------------
(* Interrupt, by Stop of stream.go after it has set stopRequested, and by   *)
(* Close of this stream, which runs once the thread has gone.              *)

Goes(c, there) == ipc' = [ipc EXCEPT ![c] = there]

Claim(c) ==
    /\ ipc[c] = "idle"
    /\ IF c = "stop" THEN stopRequested' = TRUE
       ELSE tpc = "exited" /\ UNCHANGED stopRequested
    /\ Goes(c, "swap")
    /\ UNCHANGED <<eps, kernelVars, byte, flagVars, errVars, interrupted,
                   wakeMu, threadVars>>

\* What follows Interrupt: nothing for Stop, the rest of Close for Close.
Interrupted(c) == IF c = "close" THEN "lockClose" ELSE "done"

Swap(c) ==
    /\ ipc[c] = "swap"
    /\ interrupted' = TRUE
    /\ Goes(c, IF interrupted THEN Interrupted(c) ELSE "lock")
    /\ UNCHANGED <<eps, kernelVars, byte, flagVars, errVars, wakeMu,
                   stopRequested, threadVars>>

Lock_Unchecked(c) ==
    /\ ipc[c] \in {"lock", "lockClose"} /\ wakeMu = "free"
    /\ wakeMu' = c
    /\ Goes(c, IF ipc[c] = "lockClose" THEN "close" ELSE "write")
    /\ UNCHANGED <<eps, kernelVars, byte, flagVars, errVars, interrupted,
                   stopRequested, threadVars>>
Lock(c) ==
    /\ ipc[c] \in {"lock", "lockClose"} /\ wakeMu = "free"
    /\ wakeMu' = c
    /\ Goes(c, IF ipc[c] = "lockClose" THEN "close"
               ELSE IF closed THEN "unlock" ELSE "write")
    /\ UNCHANGED <<eps, kernelVars, byte, flagVars, errVars, interrupted,
                   stopRequested, threadVars>>

Write(c) ==
    /\ ipc[c] = "write"
    /\ byte' = TRUE
    /\ Goes(c, "unlock")
    /\ UNCHANGED <<eps, kernelVars, flagVars, errVars, interrupted, wakeMu,
                   stopRequested, threadVars>>

Unlock(c) ==
    /\ ipc[c] = "unlock"
    /\ wakeMu' = "free"
    /\ Goes(c, IF closed /\ c = "close" THEN "done" ELSE Interrupted(c))
    /\ UNCHANGED <<eps, kernelVars, byte, flagVars, errVars, interrupted,
                   stopRequested, threadVars>>

\* The devices, the arenas and the pipe.
Close ==
    /\ ipc["close"] = "close"
    /\ closed' = TRUE
    /\ Goes("close", "unlock")
    /\ UNCHANGED <<eps, kernelVars, byte, started, stopped, errVars,
                   interrupted, wakeMu, stopRequested, threadVars>>

-----------------------------------------------------------------------------
Thread ==
    \/ Start \/ Prime \/ LoopTop \/ Wait \/ WaitPoll \/ WaitCheck
    \/ TransferSome \/ TransferNone \/ TransferFails
    \/ WaitReadyPoll \/ WaitReadyCheck
    \/ Commit \/ Recover \/ Stop
Caller(c) ==
    \/ Swap(c) \/ Lock(c) \/ Write(c) \/ Unlock(c)
    \/ c = "close" /\ Close
Device == Tick \/ Underrun

Next ==
    \/ Device \/ Suspend \/ Vanish \/ NeverStarted
    \/ Thread
    \/ \E c \in {"stop", "close"} : Claim(c) \/ Caller(c)

\* The thread and the callers run; a running device moves until its buffer is
\* used up.  Nobody need ask for anything, and a device may stall.
Spec == /\ Init /\ [][Next]_vars
        /\ WF_vars(Thread) /\ WF_vars(Device)
        /\ \A c \in {"stop", "close"} : WF_vars(Caller(c))

-----------------------------------------------------------------------------

\* Whenever the stream waits on a running device, every underrun and every
\* suspend since the beginning has been counted, and once.
IncidentsCounted ==
    tpc \in {"loop", "wait"} /\ kernel = "running" => dropouts = incidents

\* pcmLatency: "In a duplex stream the frames in flight across both buffers
\* total one buffer", whenever the stream waits on a running device.
OneBufferInFlight ==
    tpc \in {"loop", "wait"} /\ kernel = "running" /\ eps = {"out", "in"}
        => queued + avail = Buffer

\* It does, until the devices have been resumed: of the period that was under
\* way when they were suspended, the input is gone and the output never comes.
OneBufferUntilResumed == ~resumed => OneBufferInFlight

\* What is counted and what is in flight: both, whatever happens between.
BooksKept == IncidentsCounted /\ OneBufferUntilResumed

\* Nobody writes to the pipe, or calls the devices, once they are closed.
NoUseAfterClose ==
    closed => /\ tpc = "exited"
              /\ \A c \in {"stop", "close"} : ipc[c] # "write"

\* A thread that was interrupted does not stay in Wait, even if the device
\* never moves again.
InterruptHeard == <>[](~interrupted \/ op # "wait")

\* The other calls end by themselves, unless the device stalls.
CallsEnd ==
    []<>(op \notin {"start", "commit", "recover"} \/ kernel = "stalled")

-----------------------------------------------------------------------------
\* How far the stream has come, seen through the driver's interface.
StreamAt ==
    CASE closed -> "closed"
      [] ~closed /\ tpc = "exited" -> IF stopped THEN "stopped" ELSE "new"
      [] ~closed /\ (tpc = "start" \/ op = "start") -> "new"
      [] ~closed /\ (tpc \in {"loop", "wait"} \/ op = "wait") -> "ready"
      [] ~closed /\ (tpc = "callback" \/ op = "commit") -> "period"
      [] ~closed /\ (tpc = "recover" \/ op = "recover") -> "xrun"
      [] ~closed /\ tpc \in {"interrupted", "refused"} -> tpc
      [] OTHER -> "over"

Driver == INSTANCE DriverStream WITH StartReportsInterrupt <- FALSE, at <- StreamAt

\* The stream answers as the driver's interface says: a call that the core makes
\* in its turn is never refused; only a stream that was interrupted says so, and
\* only in Wait, although Commit and Recover go to sleep on the same pipe.
DriverSpec == Driver!Spec
=============================================================================
