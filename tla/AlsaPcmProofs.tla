---------------------------- MODULE AlsaPcmProofs ----------------------------
(***************************************************************************)
(* Proofs about AlsaPcm for any number of periods, pieces, tries and       *)
(* incidents: every incident is counted once, the two buffers of a duplex  *)
(* stream hold one between them until the devices are resumed, nothing is  *)
(* used after the close, an interrupt that falls into a Wait is on its way *)
(* to it, and the stream answers in the order of DriverStream.             *)
(***************************************************************************)
EXTENDS AlsaPcm, TLAPS

Duplex == {"out", "in"}
Interrupters == {"stop", "close"}

\* Where the thread is: in transferFull or waitReady; filling the buffers of
\* a device that does not run; on a device that runs unless it was stopped.
Moving == tpc \in {"transfer", "waitReady", "waitReadyCheck"}
Priming == op \in {"start", "recover"}
Live == tpc \in {"loop", "wait", "callback"} \/ op \in {"wait", "commit"}
Leaving == {"stop", "interrupted", "refused"}

\* The levels are levels, and a period is never left whole.
TypeInv ==
    /\ eps \in {{"out"}, {"in"}, Duplex}
    /\ kernel \in {"setup", "prepared", "running", "xrun", "suspended", "gone", "stalled"}
    /\ queued \in 0 .. Buffer /\ avail \in 0 .. Buffer
    /\ incidents \in Nat /\ dropouts \in Nat
    /\ fill \in 0 .. Periods /\ done \in 0 .. Pieces - 1
    /\ ready \in SUBSET eps
    /\ ipc \in [Interrupters -> {"idle", "swap", "lock", "lockClose", "close", "write",
                                 "unlock", "done"}]

\* Which call the thread is in, and what that call transfers.
PlaceInv ==
    /\ op \in {"none", "start", "wait", "commit", "recover"}
    /\ tpc \in {"start", "loop", "wait", "callback", "recover", "exited"} \cup Leaving
          <=> op = "none"
    /\ tpc \in {"poll", "waitCheck"} => op = "wait"
    /\ tpc = "prime" => Priming
    /\ tpc \in {"start", "loop", "wait", "callback", "recover", "exited", "poll",
                "waitCheck", "prime"} \cup Leaving \/ Moving
    /\ op = "commit" \/ Priming => Moving \/ tpc = "prime"
    /\ op \in {"wait", "commit"} /\ Moving
          => xep = (IF op = "wait" THEN "in" ELSE "out") /\ fill = 1
    /\ Priming /\ Moving => xep = "out" /\ fill >= 1

\* Only the thread starts and stops the stream, and no call is out of its turn.
TurnInv ==
    /\ tpc = "start" => ~started /\ ~stopped
    /\ tpc \in {"loop", "wait", "callback", "recover"} \/ op # "none" => started /\ ~stopped
    /\ tpc \in Leaving => ~stopped
    /\ tpc # "refused"

\* An incident of a running device is counted by the call that meets it, which
\* leaves for Recover; a device that is primed cannot have one.
CountInv ==
    /\ tpc = "start" => kernel \in {"setup", "gone"}
    /\ tpc = "recover" => kernel \in {"xrun", "suspended", "gone"}
    /\ Priming => kernel \in {"prepared", "suspended", "gone"}
    /\ Live => kernel \in {"running", "stalled", "xrun", "suspended", "gone"}
    /\ tpc \in {"start", "recover"} \/ Priming => dropouts = incidents
    /\ Live /\ kernel \in {"running", "stalled"} => dropouts = incidents
    /\ Live /\ kernel \in {"xrun", "suspended"} => incidents = dropouts + 1

\* What a duplex stream has read and not written again.
Missing == CASE op = "wait" /\ Moving -> done
             [] tpc = "callback" -> Pieces
             [] op = "commit" -> Pieces - done
             [] OTHER -> 0

\* A primed device lacks what is still to be written, and a duplex stream on a
\* running device what the thread holds.
LevelInv ==
    /\ tpc \in {"start", "prime"} => queued = 0 /\ avail = 0
    /\ Priming /\ Moving /\ kernel = "prepared"
          => avail = 0 /\ queued = Buffer - (fill * Pieces - done)
    /\ ~resumed /\ eps = Duplex /\ kernel = "running" /\ Live
          => queued + avail = Buffer - Missing

\* Who holds the lock may write or close, and the close comes last.
CloseInv ==
    /\ \A c \in Interrupters : ipc[c] \in {"write", "close", "unlock"} => wakeMu = c
    /\ ipc["stop"] \notin {"lockClose", "close"}
    /\ ipc["close"] # "idle" => tpc = "exited"
    /\ closed => ipc["close"] \in {"unlock", "done"} /\ ipc["stop"] # "write"

\* An interrupt that Wait has not been told of is on its way: its byte is in the
\* pipe, or somebody is about to put it there.
WakeInv ==
    interrupted /\ op = "wait" /\ tpc \in {"poll", "transfer", "waitReady"}
        => byte \/ \E c \in Interrupters : ipc[c] \in {"lock", "write"}

AlsaInv == TypeInv /\ PlaceInv /\ TurnInv /\ CountInv /\ LevelInv /\ CloseInv /\ WakeInv

USE DEF Leaving, OutOfTurn, kernelVars, flagVars, errVars, xferVars, pollVars, callerVars, threadVars

\* A buffer is a whole number of periods, and a period of pieces.
LEMMA Geometry ==
    /\ Periods \in Nat /\ Periods >= 1 /\ Pieces \in Nat /\ Pieces >= 1
    /\ Buffer \in Nat /\ Buffer = Periods * Pieces
<1>1. Periods \in Nat /\ Periods >= 1 /\ Pieces \in Nat /\ Pieces >= 1
  BY GeometryAssumption
<1>2. Periods * Pieces \in Nat
  BY <1>1
<1>3. QED
  BY <1>1, <1>2 DEF Buffer

\* A transfer goes on with the period, begins the next or completes the call; a
\* device that is primed takes a whole period, and starts with the last.
LEMMA TransferKept == ASSUME AlsaInv, TransferSome PROVE AlsaInv'
<1> USE Geometry DEF AlsaInv
<1>1. PICK n \in 1 .. Least(Movable, Pieces - done) :
         /\ kernel = "prepared" => n = Least(Movable, Pieces - done)
         /\ queued' = IF xep = "out" THEN queued + n ELSE queued
         /\ avail' = IF xep = "in" THEN avail - n ELSE avail
         /\ kernel' = IF kernel = "prepared" /\ queued' = Buffer THEN "running" ELSE kernel
         /\ IF ~WholePeriod(done + n)
            THEN /\ done' = done + n /\ noProgress' = 0
                 /\ UNCHANGED <<errVars, tpc, op, xep, fill, pollVars>>
            ELSE IF fill > 1
                 THEN /\ BeginTransfer(xep, fill - 1)
                      /\ UNCHANGED <<errVars, op, pollVars>>
                 ELSE Completed
  BY DEF TransferSome
<1>2. /\ tpc = "transfer" /\ UNCHANGED <<eps, incidents, byte, flagVars, callerVars>>
      /\ kernel \in {"running", "stalled"} \/ (kernel = "prepared" /\ xep = "out")
  BY DEF TransferSome
<1>3. /\ queued \in 0 .. Buffer /\ avail \in 0 .. Buffer /\ done \in 0 .. Pieces - 1
      /\ fill \in 0 .. Periods /\ Movable \in 0 .. Buffer
      /\ Movable = IF xep = "out" THEN Buffer - queued ELSE avail
  BY DEF TypeInv, Movable, Room
<1>4. n \in Nat /\ 1 <= n /\ n <= Movable /\ n <= Pieces - done
  BY <1>3 DEF Least
<1>5. /\ op \in {"start", "wait", "commit", "recover"}
      /\ op \in {"wait", "commit"} => xep = (IF op = "wait" THEN "in" ELSE "out") /\ fill = 1
      /\ Priming => xep = "out" /\ fill >= 1
  BY <1>2 DEF PlaceInv, Moving, Priming
<1>6. /\ Live => kernel \in {"running", "stalled"} /\ dropouts = incidents
      /\ Priming => kernel = "prepared" /\ dropouts = incidents
      /\ Live \/ Priming
  BY <1>2, <1>5 DEF CountInv, Live, Priming
<1>7. ASSUME Priming
      PROVE  /\ n = Pieces - done /\ avail = 0 /\ queued' = Buffer - (fill - 1) * Pieces
             /\ kernel' = (IF fill > 1 THEN "prepared" ELSE "running")
  <2>1. avail = 0 /\ queued = Buffer - (fill * Pieces - done) /\ xep = "out" /\ fill >= 1
    BY <1>2, <1>5, <1>6, <1>7 DEF LevelInv, Moving
  <2>2. fill * Pieces \in Nat /\ (fill - 1) * Pieces = fill * Pieces - Pieces
    BY <1>3
  <2>3. fill * Pieces >= Pieces
    BY <1>3, <2>1
  <2>4. n = Pieces - done
    BY <1>1, <1>3, <1>6, <1>7, <2>1, <2>2, <2>3 DEF Least
  <2>5. queued' = Buffer - (fill - 1) * Pieces
    BY <1>1, <1>3, <2>1, <2>2, <2>4
  <2>6. queued' = Buffer <=> fill = 1
    <3>1. CASE fill = 1
      BY <2>5, <3>1
    <3>2. CASE fill > 1
      <4>1. (fill - 1) * Pieces >= Pieces
        BY <1>3, <3>2
      <4>2. QED
        BY <1>3, <2>2, <2>5, <3>2, <4>1
    <3>3. QED
      BY <1>3, <2>1, <3>1, <3>2
  <2>7. QED
    BY <1>1, <1>3, <1>6, <1>7, <2>1, <2>4, <2>5, <2>6
<1>8. queued' \in 0 .. Buffer /\ avail' \in 0 .. Buffer
  BY <1>1, <1>3, <1>4
<1>9. CASE done + n # Pieces
  <2>1. /\ done' = done + n /\ UNCHANGED <<errVars, tpc, op, xep, fill, pollVars>>
    BY <1>1, <1>9 DEF WholePeriod
  <2>2. ~Priming /\ kernel' = kernel /\ Live
    BY <1>1, <1>3, <1>4, <1>6, <1>7, <1>9
  <2>3. TypeInv'
    BY <1>2, <1>3, <1>4, <1>8, <1>9, <2>1, <2>2 DEF TypeInv
  <2>4. PlaceInv' /\ TurnInv' /\ CountInv'
    BY <1>2, <2>1, <2>2 DEF PlaceInv, TurnInv, CountInv, Moving, Priming, Live
  <2>5. LevelInv'
    BY <1>1, <1>2, <1>3, <1>4, <1>5, <1>6, <2>1, <2>2 DEF LevelInv, Moving, Priming, Live, Missing
  <2>6. CloseInv' /\ WakeInv'
    BY <1>2, <2>1 DEF CloseInv, WakeInv
  <2>7. QED
    BY <2>3, <2>4, <2>5, <2>6
<1>10. CASE done + n = Pieces /\ fill > 1
  <2>1. /\ tpc' = "transfer" /\ xep' = xep /\ fill' = fill - 1 /\ done' = 0
        /\ UNCHANGED <<errVars, op, pollVars>>
    BY <1>1, <1>10 DEF WholePeriod, BeginTransfer
  <2>2. Priming /\ ~Live /\ kernel' = "prepared"
    BY <1>2, <1>5, <1>6, <1>7, <1>10 DEF Priming, Live
  <2>3. TypeInv'
    BY <1>2, <1>3, <1>8, <1>10, <2>1, <2>2 DEF TypeInv
  <2>4. PlaceInv' /\ TurnInv' /\ CountInv'
    BY <1>2, <1>3, <1>5, <1>6, <1>10, <2>1, <2>2 DEF PlaceInv, TurnInv, CountInv, Moving, Priming, Live
  <2>5. LevelInv'
    BY <1>1, <1>3, <1>5, <1>7, <2>1, <2>2 DEF LevelInv, Moving, Priming, Live
  <2>6. CloseInv' /\ WakeInv'
    BY <1>2, <2>1, <2>2 DEF CloseInv, WakeInv, Priming
  <2>7. QED
    BY <2>3, <2>4, <2>5, <2>6
<1>11. CASE done + n = Pieces /\ ~(fill > 1)
  <2>1. /\ tpc' = (IF op = "wait" THEN "callback" ELSE "loop") /\ op' = "none"
        /\ fill' = 0 /\ done' = 0 /\ ready' = {} /\ UNCHANGED <<dropouts, resumed>>
    BY <1>1, <1>5, <1>11 DEF WholePeriod, Completed, Answer, AfterCall
  <2>2. kernel' \in {"running", "stalled"} /\ (kernel = "running" => kernel' = "running")
        /\ (~Priming => kernel' = kernel)
    BY <1>1, <1>6, <1>7, <1>11
  <2>3. TypeInv'
    BY <1>2, <1>8, <2>1, <2>2 DEF TypeInv
  <2>4. PlaceInv' /\ TurnInv' /\ CountInv'
    BY <1>2, <1>6, <2>1, <2>2 DEF PlaceInv, TurnInv, CountInv, Moving, Priming, Live
  <2>5. LevelInv'
    <3>1. CASE Priming
      <4>1. fill = 1 /\ queued' = Buffer /\ avail' = 0
        BY <1>1, <1>3, <1>5, <1>7, <1>11, <3>1
      <4>2. QED
        BY <2>1, <3>1, <4>1 DEF LevelInv, Moving, Priming, Live, Missing
    <3>2. CASE ~Priming
      BY <1>1, <1>2, <1>3, <1>4, <1>5, <1>6, <1>11, <2>1, <2>2, <3>2
         DEF LevelInv, Moving, Priming, Live, Missing
    <3>3. QED
      BY <3>1, <3>2
  <2>6. CloseInv' /\ WakeInv'
    BY <1>2, <2>1 DEF CloseInv, WakeInv
  <2>7. QED
    BY <2>3, <2>4, <2>5, <2>6
<1>12. QED
  BY <1>9, <1>10, <1>11

\* An interrupt and the close pass each other under the lock.
LEMMA CallerKept ==
    ASSUME AlsaInv, NEW c \in Interrupters, Claim(c) \/ Caller(c)
    PROVE  AlsaInv'
<1> USE Geometry DEF AlsaInv
<1>1. UNCHANGED <<eps, started, stopped, kernelVars, errVars, threadVars>> /\ c \in {"stop", "close"}
  BY DEF Claim, Caller, Swap, Lock, Write, Unlock, Close, Interrupters
<1>2. TypeInv'
  <2>1. PICK there \in {"swap", "lock", "lockClose", "close", "write", "unlock", "done"} :
          ipc' = [ipc EXCEPT ![c] = there]
    BY <1>1 DEF Claim, Caller, Swap, Lock, Write, Unlock, Close, Goes, Interrupted
  <2>2. QED
    BY <1>1, <2>1 DEF TypeInv
<1>3. PlaceInv' /\ TurnInv' /\ CountInv' /\ LevelInv'
  BY <1>1 DEF PlaceInv, TurnInv, CountInv, LevelInv, Moving, Priming, Live, Missing
<1>4. closed /\ c = "stop" => tpc = "exited" /\ ipc[c] # "write"
  BY DEF CloseInv, Interrupters
<1> USE DEF TypeInv, Goes, Interrupted, Interrupters
<1>5. CASE Claim(c)
  BY <1>1, <1>2, <1>3, <1>5 DEF Claim, CloseInv, WakeInv
<1>6. CASE Swap(c)
  BY <1>1, <1>2, <1>3, <1>6 DEF Swap, CloseInv, WakeInv
<1>7. CASE Lock(c)
  <2>1. CloseInv'
    BY <1>1, <1>7 DEF Lock, CloseInv
  <2>2. WakeInv'
    BY <1>1, <1>7 DEF Lock, CloseInv, WakeInv
  <2>3. QED
    BY <1>2, <1>3, <2>1, <2>2
<1>8. CASE Write(c)
  BY <1>1, <1>2, <1>3, <1>8 DEF Write, CloseInv, WakeInv
<1>9. CASE Unlock(c)
  BY <1>1, <1>2, <1>3, <1>9 DEF Unlock, CloseInv, WakeInv
<1>10. CASE c = "close" /\ Close
  BY <1>1, <1>2, <1>3, <1>10 DEF Close, CloseInv, WakeInv, PlaceInv
<1>11. QED
  BY <1>5, <1>6, <1>7, <1>8, <1>9, <1>10 DEF Caller

\* What the devices do by themselves.
LEMMA KernelKept ==
    ASSUME AlsaInv, Tick \/ Underrun \/ Suspend \/ Vanish
    PROVE  AlsaInv'
<1> USE Geometry DEF AlsaInv, TypeInv, PlaceInv, TurnInv, CountInv, LevelInv, CloseInv, WakeInv,
                     Moving, Priming, Live, Missing, Duplex, Interrupters
<1>1. CASE Tick
  BY <1>1 DEF Tick
<1>2. CASE Underrun
  BY <1>2 DEF Underrun
<1>3. CASE Suspend
  BY <1>3 DEF Suspend
<1>4. CASE Vanish
  BY <1>4 DEF Vanish
<1>5. QED
  BY <1>1, <1>2, <1>3, <1>4

\* What the thread does, transfers excepted.
LEMMA ThreadKept ==
    ASSUME AlsaInv,
           \/ NeverStarted \/ Start \/ Prime \/ LoopTop \/ Wait \/ WaitPoll \/ WaitCheck
           \/ TransferNone \/ TransferFails \/ WaitReadyPoll \/ WaitReadyCheck
           \/ Commit \/ Recover \/ Stop
    PROVE  AlsaInv'
<1> USE Geometry DEF AlsaInv, TypeInv, PlaceInv, TurnInv, CountInv, LevelInv, CloseInv, WakeInv,
                     Moving, Priming, Live, Missing, Duplex, Interrupters
<1>1. CASE NeverStarted
  BY <1>1 DEF NeverStarted
<1>2. CASE Start
  BY <1>2 DEF Start, Answer, AfterCall
<1>3. CASE Prime
  BY <1>3 DEF Prime, BeginTransfer, PrimePeriods, Answer, AfterCall, Completed
<1>4. CASE LoopTop
  BY <1>4 DEF LoopTop
<1>5. CASE Wait
  BY <1>5 DEF Wait
<1>6. CASE WaitPoll
  BY <1>6 DEF WaitPoll
<1>7. CASE WaitCheck
  BY <1>7 DEF WaitCheck, AllReady, Fails, Mapped, NoteXrun, Answer, AfterCall, BeginTransfer, Completed
<1>8. CASE TransferNone
  BY <1>8 DEF TransferNone, GivesUp, Fails, Mapped, NoteXrun, Answer, AfterCall
<1>9. CASE TransferFails
  BY <1>9 DEF TransferFails, Fails, Mapped, NoteXrun, Answer, AfterCall
<1>10. CASE WaitReadyPoll
  BY <1>10 DEF WaitReadyPoll
<1>11. CASE WaitReadyCheck
  BY <1>11 DEF WaitReadyCheck, Interruptible, Fails, Mapped, NoteXrun, Answer, AfterCall
<1>12. CASE Commit
  BY <1>12 DEF Commit, BeginTransfer, Answer, AfterCall
<1>13. CASE Recover
  BY <1>13 DEF Recover, Answer, AfterCall
<1>14. CASE Stop
  BY <1>14 DEF Stop, Dropped, Answer, AfterCall
<1>15. QED
  BY <1>1, <1>2, <1>3, <1>4, <1>5, <1>6, <1>7, <1>8, <1>9, <1>10, <1>11, <1>12, <1>13, <1>14

\* A stream that was opened.
LEMMA InitAlsa == Init => AlsaInv
BY Geometry DEF Init, AlsaInv, TypeInv, PlaceInv, TurnInv, CountInv, LevelInv, CloseInv, WakeInv, Moving,
   Priming, Live, Missing, Duplex, Interrupters

\* What has happened to the devices, what the thread holds and who wakes it agree
\* at every step, for any geometry of the buffers.
THEOREM AlsaInvariance == Spec => []AlsaInv
<1>1. AlsaInv /\ [Next]_vars => AlsaInv'
  <2> SUFFICES ASSUME AlsaInv, [Next]_vars PROVE AlsaInv'
    OBVIOUS
  <2>1. CASE Next
    BY <2>1, KernelKept, ThreadKept, TransferKept, CallerKept DEF Next, Thread, Device, Interrupters
  <2>2. CASE UNCHANGED vars
    BY <2>2 DEF vars, AlsaInv, TypeInv, PlaceInv, TurnInv, CountInv, LevelInv, CloseInv, WakeInv, Moving,
                Priming, Live, Missing
  <2>3. QED
    BY <2>1, <2>2
<1>2. QED
  BY <1>1, InitAlsa, PTL DEF Spec

\* IncidentsCounted: every underrun and suspend of a running device is counted, by
\* the call that meets it and by no other, whatever Recover meets on its way.
THEOREM IncidentsAllCounted == Spec => []IncidentsCounted
<1>1. AlsaInv => IncidentsCounted
  BY DEF AlsaInv, CountInv, Live, IncidentsCounted
<1>2. QED
  BY <1>1, AlsaInvariance, PTL

\* OneBufferUntilResumed: what a duplex stream reads it writes again, and Start and
\* Recover fill the output buffer exactly.
THEOREM OneBuffer == Spec => []OneBufferUntilResumed
<1>1. AlsaInv => OneBufferUntilResumed
  <2> SUFFICES ASSUME AlsaInv, ~resumed, tpc \in {"loop", "wait"}, kernel = "running", eps = Duplex
               PROVE  queued + avail = Buffer
    BY DEF OneBufferUntilResumed, OneBufferInFlight, Duplex
  <2>1. op = "none" /\ Live
    BY DEF AlsaInv, PlaceInv, Live
  <2>2. queued + avail = Buffer - Missing /\ Missing = 0
    BY <2>1 DEF AlsaInv, LevelInv, Missing
  <2>3. QED
    BY <2>2, Geometry
<1>2. QED
  BY <1>1, AlsaInvariance, PTL

\* BooksKept: both, for any sequence of incidents.
THEOREM BooksAlwaysKept == Spec => []BooksKept
<1>1. QED
  BY IncidentsAllCounted, OneBuffer, PTL DEF BooksKept

\* NoUseAfterClose: the close waits for the lock of whoever writes to the pipe, and
\* nobody writes who gets the lock after it.
THEOREM NothingAfterClose == Spec => []NoUseAfterClose
<1>1. AlsaInv => NoUseAfterClose
  BY DEF AlsaInv, CloseInv, NoUseAfterClose, Interrupters
<1>2. QED
  BY <1>1, AlsaInvariance, PTL

\* An interrupt that comes while the thread is in Wait cannot be slept through:
\* until the thread looks at the flag the byte that wakes its poll is in the pipe
\* or about to be written, although Commit and Recover drain the same pipe.
THEOREM InterruptPending == Spec => []WakeInv
<1>1. AlsaInv => WakeInv
  BY DEF AlsaInv
<1>2. QED
  BY <1>1, AlsaInvariance, PTL

-----------------------------------------------------------------------------
(* The order of the driver's calls.                                        *)

\* What the driver's interface sees of the thread's points.
StreamSeen ==
    /\ closed => StreamAt = "closed"
    /\ ~closed =>
         /\ tpc = "exited" => StreamAt = (IF stopped THEN "stopped" ELSE "new")
         /\ tpc = "start" \/ op = "start" => StreamAt = "new"
         /\ tpc \in {"loop", "wait"} \/ op = "wait" => StreamAt = "ready"
         /\ tpc = "callback" \/ op = "commit" => StreamAt = "period"
         /\ tpc = "recover" \/ op = "recover" => StreamAt = "xrun"
         /\ tpc = "interrupted" => StreamAt = "interrupted"
         /\ tpc = "stop" => StreamAt = "over"

LEMMA AlsaSeen == AlsaInv => StreamSeen
<1> SUFFICES ASSUME AlsaInv PROVE StreamSeen
  OBVIOUS
<1>1. CASE closed
  BY <1>1 DEF StreamSeen, StreamAt
<1>2. CASE ~closed /\ op = "none"
  BY <1>2 DEF StreamSeen, StreamAt
<1>3. CASE ~closed /\ op # "none"
  <2>1. tpc \notin {"start", "loop", "wait", "callback", "recover", "exited", "stop", "interrupted", "refused"}
    BY <1>3 DEF AlsaInv, PlaceInv
  <2>2. QED
    BY <1>3, <2>1 DEF StreamSeen, StreamAt
<1>4. QED
  BY <1>1, <1>2, <1>3

\* Between calls, and where a call begins.
LEMMA TurnAnswers ==
    ASSUME AlsaInv, StreamSeen, StreamSeen',
           NeverStarted \/ Start \/ LoopTop \/ Wait \/ Commit \/ Recover \/ Stop
    PROVE  \/ Driver!Start \/ Driver!Wait \/ Driver!Commit \/ Driver!Recover \/ Driver!Leave
           \/ Driver!Stop \/ UNCHANGED Driver!vars
<1>1. tpc # "exited" /\ ~closed /\ ~closed' /\ UNCHANGED interrupted
  <2>1. tpc # "exited"
    BY DEF NeverStarted, Start, LoopTop, Wait, Commit, Recover, Stop
  <2>2. UNCHANGED <<closed, interrupted>>
    BY DEF NeverStarted, Start, LoopTop, Wait, Commit, Recover, Stop, flagVars, callerVars
  <2>3. QED
    BY <2>1, <2>2 DEF AlsaInv, CloseInv
<1>2. /\ tpc = "start" => StreamAt = "new"
      /\ tpc \in {"loop", "wait"} => StreamAt = "ready"
      /\ tpc = "callback" => StreamAt = "period"
      /\ tpc = "recover" => StreamAt = "xrun"
      /\ tpc = "interrupted" => StreamAt = "interrupted"
      /\ tpc = "stop" => StreamAt = "over"
  BY <1>1 DEF StreamSeen
<1>3. /\ tpc' = "exited" => StreamAt' = (IF stopped' THEN "stopped" ELSE "new")
      /\ op' = "start" => StreamAt' = "new"
      /\ tpc' \in {"loop", "wait"} \/ op' = "wait" => StreamAt' = "ready"
      /\ tpc' = "callback" \/ op' = "commit" => StreamAt' = "period"
      /\ tpc' = "recover" \/ op' = "recover" => StreamAt' = "xrun"
      /\ tpc' = "stop" => StreamAt' = "over"
  BY <1>1 DEF StreamSeen
<1>4. tpc \in {"wait", "callback", "recover"} => ~OutOfTurn
  BY <1>1 DEF AlsaInv, TurnInv
<1>5. CASE NeverStarted
  <2>1. tpc = "start" /\ tpc' = "exited" /\ ~stopped'
    BY <1>5 DEF NeverStarted, AlsaInv, TurnInv
  <2>2. QED
    BY <1>1, <1>2, <1>3, <2>1 DEF Driver!vars
<1>6. CASE Start
  <2>1. tpc = "start" /\ (tpc' = "stop" \/ op' = "start")
    BY <1>6 DEF Start, Answer, AfterCall
  <2>2. QED
    BY <1>1, <1>2, <1>3, <2>1 DEF Driver!Start, Driver!vars
<1>7. CASE LoopTop
  <2>1. tpc = "loop" /\ tpc' \in {"stop", "wait"}
    BY <1>7 DEF LoopTop
  <2>2. QED
    BY <1>1, <1>2, <1>3, <2>1 DEF Driver!Leave, Driver!vars
<1>8. CASE Wait
  <2>1. tpc = "wait" /\ op' = "wait"
    BY <1>4, <1>8 DEF Wait
  <2>2. QED
    BY <1>1, <1>2, <1>3, <2>1 DEF Driver!vars
<1>9. CASE Commit
  <2>1. tpc = "callback" /\ (tpc' \in {"stop", "loop"} \/ op' = "commit")
    BY <1>4, <1>9 DEF Commit, Answer, AfterCall
  <2>2. QED
    BY <1>1, <1>2, <1>3, <2>1 DEF Driver!Commit, Driver!vars
<1>10. CASE Recover
  <2>1. tpc = "recover" /\ (tpc' \in {"stop", "loop"} \/ op' = "recover")
    BY <1>4, <1>10 DEF Recover, Answer, AfterCall
  <2>2. QED
    BY <1>1, <1>2, <1>3, <2>1 DEF Driver!Recover, Driver!vars
<1>11. CASE Stop
  <2>1. tpc \in {"stop", "interrupted"} /\ tpc' = "exited" /\ stopped' = TRUE
    BY <1>11 DEF Stop, Answer, AfterCall, AlsaInv, TurnInv
  <2>2. QED
    BY <1>1, <1>2, <1>3, <2>1 DEF Driver!Stop
<1>12. QED
  BY <1>5, <1>6, <1>7, <1>8, <1>9, <1>10, <1>11

\* Within a call: it goes on, or it answers.
LEMMA CallAnswers ==
    ASSUME AlsaInv, StreamSeen, StreamSeen',
           \/ Prime \/ WaitPoll \/ WaitCheck \/ TransferSome \/ TransferNone \/ TransferFails
           \/ WaitReadyPoll \/ WaitReadyCheck
    PROVE  \/ Driver!Start \/ Driver!Wait \/ Driver!Commit \/ Driver!Recover
           \/ UNCHANGED Driver!vars
<1>1. /\ op \in {"start", "wait", "commit", "recover"} /\ tpc # "exited"
      /\ UNCHANGED <<closed, interrupted>>
  <2>1. tpc \in {"prime", "poll", "waitCheck", "transfer", "waitReady", "waitReadyCheck"}
    BY DEF Prime, WaitPoll, WaitCheck, TransferSome, TransferNone, TransferFails, WaitReadyPoll,
       WaitReadyCheck
  <2>2. UNCHANGED <<closed, interrupted>>
    BY DEF Prime, WaitPoll, WaitCheck, TransferSome, TransferNone, TransferFails, WaitReadyPoll,
       WaitReadyCheck, flagVars, callerVars
  <2>3. QED
    BY <2>1, <2>2 DEF AlsaInv, PlaceInv
<1>2. ~closed /\ ~closed'
  BY <1>1 DEF AlsaInv, CloseInv
<1>3. \/ UNCHANGED op
      \/ op' = "none" /\ tpc' = AfterCall(op, "nil")
      \/ \E res \in {"xrun", "lost", "other"} : op' = "none" /\ tpc' = AfterCall(op, res)
      \/ op' = "none" /\ op = "wait" /\ interrupted /\ tpc' = AfterCall(op, "interrupted")
  <2>1. CASE Prime
    BY <2>1 DEF Prime, BeginTransfer, Completed, Answer
  <2>2. CASE WaitPoll \/ WaitReadyPoll
    BY <2>2 DEF WaitPoll, WaitReadyPoll
  <2>3. CASE WaitCheck
    <3>1. op = "wait"
      BY <2>3 DEF WaitCheck, AlsaInv, PlaceInv
    <3>2. QED
      BY <2>3, <3>1 DEF WaitCheck, BeginTransfer, Completed, Fails, Mapped, Answer
  <2>4. CASE TransferSome
    BY <2>4 DEF TransferSome, BeginTransfer, Completed, Answer, errVars, pollVars
  <2>5. CASE TransferNone
    BY <2>5 DEF TransferNone, Fails, Mapped, Answer
  <2>6. CASE TransferFails
    <3>1. PICK errno \in {"xrun", "suspended", "gone", "setup", "other"} : Fails(errno)
      BY <2>6 DEF TransferFails
    <3>2. Mapped(errno) \in {"xrun", "lost", "other"}
      BY DEF Mapped
    <3>3. QED
      BY <3>1, <3>2 DEF Fails, Answer
  <2>7. CASE WaitReadyCheck
    BY <2>7 DEF WaitReadyCheck, Interruptible, Fails, Mapped, Answer
  <2>8. QED
    BY <2>1, <2>2, <2>3, <2>4, <2>5, <2>6, <2>7
<1>4. /\ op = "start" => StreamAt = "new"
      /\ op = "wait" => StreamAt = "ready"
      /\ op = "commit" => StreamAt = "period"
      /\ op = "recover" => StreamAt = "xrun"
  BY <1>2 DEF StreamSeen
<1>5. /\ op' = "start" => StreamAt' = "new"
      /\ tpc' = "loop" \/ op' = "wait" => StreamAt' = "ready"
      /\ tpc' = "callback" \/ op' = "commit" => StreamAt' = "period"
      /\ tpc' = "recover" \/ op' = "recover" => StreamAt' = "xrun"
      /\ tpc' = "interrupted" => StreamAt' = "interrupted"
      /\ tpc' = "stop" => StreamAt' = "over"
  BY <1>2 DEF StreamSeen
<1>6. CASE UNCHANGED op
  BY <1>1, <1>4, <1>5, <1>6 DEF Driver!vars
<1>7. CASE op = "start" /\ ~UNCHANGED op
  BY <1>1, <1>3, <1>4, <1>5, <1>7 DEF AfterCall, Driver!Start
<1>8. CASE op = "wait" /\ ~UNCHANGED op
  <2>1. tpc' \in {"callback", "recover", "stop"} \/ (tpc' = "interrupted" /\ interrupted)
    BY <1>3, <1>8 DEF AfterCall
  <2>2. QED
    BY <1>1, <1>4, <1>5, <1>8, <2>1 DEF Driver!Wait, Driver!Interruption
<1>9. CASE op = "commit" /\ ~UNCHANGED op
  <2>1. tpc' \in {"loop", "recover", "stop"}
    BY <1>3, <1>9 DEF AfterCall
  <2>2. QED
    BY <1>1, <1>4, <1>5, <1>9, <2>1 DEF Driver!Commit
<1>10. CASE op = "recover" /\ ~UNCHANGED op
  <2>1. tpc' \in {"loop", "stop"}
    BY <1>3, <1>10 DEF AfterCall
  <2>2. QED
    BY <1>1, <1>4, <1>5, <1>10, <2>1 DEF Driver!Recover
<1>11. QED
  BY <1>1, <1>6, <1>7, <1>8, <1>9, <1>10

\* DriverSpec: the stream answers as the driver's interface says, for any geometry
\* and whatever the kernel and the interrupts do; no call in its turn is refused,
\* and Commit and Recover, which sleep where Wait does, never end by an interrupt.
THEOREM AnswersInTurn == Spec => DriverSpec
<1>1. Init => Driver!Init
  BY DEF Init, Driver!Init, StreamAt
<1>2. AlsaInv /\ StreamSeen /\ StreamSeen' /\ [Next]_vars => [Driver!Next]_(Driver!vars)
  <2> SUFFICES ASSUME AlsaInv, StreamSeen, StreamSeen', [Next]_vars
               PROVE  [Driver!Next]_(Driver!vars)
    OBVIOUS
  <2>1. CASE NeverStarted \/ Start \/ LoopTop \/ Wait \/ Commit \/ Recover \/ Stop
    BY <2>1, TurnAnswers DEF Driver!Next
  <2>2. CASE \/ Prime \/ WaitPoll \/ WaitCheck \/ TransferSome \/ TransferNone \/ TransferFails
             \/ WaitReadyPoll \/ WaitReadyCheck
    BY <2>2, CallAnswers DEF Driver!Next
  <2>3. CASE UNCHANGED <<tpc, op, stopped, closed>> /\ (UNCHANGED interrupted \/ interrupted' = TRUE)
    <3>1. StreamAt' = StreamAt
      BY <2>3 DEF StreamAt
    <3>2. QED
      BY <2>3, <3>1 DEF Driver!Next, Driver!Interrupt, Driver!vars
  <2>4. CASE Close
    <3>1. tpc = "exited" /\ ~closed /\ closed' /\ UNCHANGED interrupted
      BY <2>4 DEF Close, AlsaInv, CloseInv
    <3>2. StreamAt \in {"new", "stopped"} /\ StreamAt' = "closed"
      BY <3>1 DEF StreamSeen
    <3>3. QED
      BY <3>1, <3>2 DEF Driver!Next, Driver!Close
  <2>5. Device \/ Suspend \/ Vanish \/ UNCHANGED vars
          => UNCHANGED <<tpc, op, stopped, closed, interrupted>>
    BY DEF Device, Tick, Underrun, Suspend, Vanish, vars, flagVars, callerVars, threadVars
  <2>6. ASSUME NEW c \in {"stop", "close"}, Claim(c) \/ Swap(c) \/ Lock(c) \/ Write(c) \/ Unlock(c)
        PROVE  /\ UNCHANGED <<tpc, op, stopped, closed>>
               /\ UNCHANGED interrupted \/ interrupted' = TRUE
    BY <2>6 DEF Claim, Swap, Lock, Write, Unlock, flagVars, threadVars
  <2>7. QED
    BY <2>1, <2>2, <2>3, <2>4, <2>5, <2>6 DEF Next, Thread, Caller
<1>3. QED
  BY <1>1, <1>2, AlsaSeen, AlsaInvariance, PTL DEF Spec, DriverSpec, Driver!Spec
=============================================================================
