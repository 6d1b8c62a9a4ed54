---------------------------- MODULE CoreAudioUnits ---------------------------
(***************************************************************************)
(* The two halves of a CoreAudio stream (internal/coreaudio): each has a   *)
(* control block and a ring in memory outside Go, a Mach semaphore, and an *)
(* audio unit whose callback runs on a thread of the system.  Open builds  *)
(* them, Start and Stop switch the units, Interrupt wakes whoever sleeps   *)
(* on a semaphore, and Close, which may run while Interrupt does, takes    *)
(* everything apart.  CoreAudioStream adds what the threads exchange.      *)
(***************************************************************************)
EXTENDS Naturals, Sequences

CONSTANTS Modes,        \* the kinds of stream the instance opens
          MaxSignals    \* a semaphore's count saturates here

Sides == {"output", "input"}
ASSUME UnitsAssumption ==
    Modes \subseteq {"output", "input", "duplex"} /\ MaxSignals \in Nat \ {0}

VARIABLES
    mode,         \* the kind of stream
    phase,        \* "open", "opened", "closing", "closed"
    build,        \* what Open still has to make
    has,          \* per side: what exists of it
    running,      \* the sides whose unit calls back
    started, stopped, closed, interrupted,      \* the sides with that flag set
    sem,          \* per side: the count of the semaphore
    wakeMu,       \* per side: who holds wakeMu
    work,         \* what the interrupting goroutine and the closing one have left
    checked,      \* the goroutines whose look under wakeMu found the half open
    cb,           \* per side: where its callback is
    pc            \* where the stream thread is

units == <<mode, phase, build, has, running, started, stopped, closed, interrupted,
           sem, wakeMu, work, checked, cb, pc>>

HalvesOf(m) == IF m = "duplex" THEN <<"output", "input">> ELSE <<m>>

BuildOf(d) == <<<<"memory", d>>, <<"unit", d>>, <<"initialized", d>>>>
InterruptOf(d) == <<<<"swap", d>>, <<"check", d>>, <<"signal", d>>>>
CloseOf(d) == InterruptOf(d) \o
    <<<<"stop", d>>, <<"dispose", d>>, <<"seal", d>>, <<"destroy", d>>, <<"unmap", d>>>>

(* A duplex stream takes its output first, in all three.                   *)
Each(steps) == IF Len(steps) = 2 THEN steps[1] \o steps[2] ELSE steps[1]
BuildAll(sides) == Each([i \in DOMAIN sides |-> BuildOf(sides[i])])
InterruptAll(sides) == Each([i \in DOMAIN sides |-> InterruptOf(sides[i])])
CloseAll(sides) == Each([i \in DOMAIN sides |-> CloseOf(sides[i])])

X_InterruptedSides(m) == <<HalvesOf(m)[Len(HalvesOf(m))]>>

InterruptedSides(m) == HalvesOf(m)

UnitsInit ==
    /\ mode \in Modes
    /\ phase = "open" /\ build = BuildAll(HalvesOf(mode))
    /\ has = [d \in Sides |-> {}] /\ running = {}
    /\ started = {} /\ stopped = {} /\ closed = {} /\ interrupted = {}
    /\ sem = [d \in Sides |-> 0] /\ wakeMu = [d \in Sides |-> "free"]
    /\ work = [p \in {"caller", "closer"} |->
                 IF p = "caller" THEN InterruptAll(InterruptedSides(mode)) ELSE <<>>]
    /\ checked = {} /\ cb = [d \in Sides |-> "idle"] /\ pc = "out"

-----------------------------------------------------------------------------
(* newStream and newCaptureStream make the memory and the semaphore,       *)
(* attachUnit and attach the unit and what it is set to.                   *)
OpenStep ==
    /\ phase = "open" /\ build # <<>>
    /\ LET d == Head(build)[2]
           new == IF Head(build)[1] = "memory" THEN {"memory", "semaphore"} ELSE {Head(build)[1]}
       IN  has' = [has EXCEPT ![d] = @ \cup new]
    /\ build' = Tail(build)
    /\ phase' = IF Tail(build) = <<>> THEN "opened" ELSE phase
    /\ UNCHANGED <<mode, running, started, stopped, closed, interrupted, sem, wakeMu, work,
                   checked, cb, pc>>

X_Made == <<Head(build)[2]>>

Made == IF has["output"] # {} /\ has["input"] # {} THEN HalvesOf("duplex")
        ELSE IF has["output"] # {} THEN <<"output">> ELSE <<"input">>

(* A step fails: whatever has been made is closed.                         *)
OpenFails ==
    /\ phase = "open" /\ build # <<>>
    /\ phase' = "closing" /\ build' = <<>>
    /\ work' = [p \in {"caller", "closer"} |->
                  IF p = "closer" /\ \E d \in Sides : has[d] # {} THEN CloseAll(Made) ELSE <<>>]
    /\ UNCHANGED <<mode, has, running, started, stopped, closed, interrupted, sem, wakeMu,
                   checked, cb, pc>>

(* AudioOutputUnitStart, with the guards of Start.                         *)
Startable(d) == d \notin closed /\ d \notin started /\ d \notin stopped
StartUnit(d) ==
    /\ Startable(d)
    /\ started' = started \cup {d} /\ running' = running \cup {d}
    /\ UNCHANGED stopped

(* When AudioOutputUnitStop returns, the callback has finished its last    *)
(* call and will not run again; when it fails, the unit may go on.         *)
StopUnit(d) ==
    /\ stopped' = stopped \cup {d}
    /\ IF d \in stopped \/ d \notin started \/ "unit" \notin has[d]
       THEN UNCHANGED running
       ELSE \/ cb[d] = "idle" /\ running' = running \ {d}
            \/ UNCHANGED running

-----------------------------------------------------------------------------
Runs(p, step) == work[p] # <<>> /\ Head(work[p])[1] = step
                 /\ (p = "caller" => phase # "open")
Of(p) == Head(work[p])[2]
Done(p, n) == work' = [work EXCEPT ![p] = SubSeq(@, n + 1, Len(@))]

(* Interrupt, by the goroutine that stops the stream or by Close: only the *)
(* first one goes on to the semaphore.                                     *)
SwapInterrupted(p) ==
    /\ Runs(p, "swap")
    /\ interrupted' = interrupted \cup {Of(p)}
    /\ Done(p, IF Of(p) \in interrupted THEN 3 ELSE 1)
    /\ UNCHANGED <<mode, phase, build, has, running, started, stopped, closed, sem, wakeMu,
                   checked, cb, pc>>

X_LockWake(p) == UNCHANGED wakeMu

LockWake(p) == wakeMu[Of(p)] = "free" /\ wakeMu' = [wakeMu EXCEPT ![Of(p)] = p]

CheckOpen(p) ==
    /\ Runs(p, "check") /\ LockWake(p)
    /\ checked' = IF Of(p) \in closed THEN checked ELSE checked \cup {p}
    /\ Done(p, 1)
    /\ UNCHANGED <<mode, phase, build, has, running, started, stopped, closed, interrupted,
                   sem, cb, pc>>

Raised(d) == [sem EXCEPT ![d] = IF @ < MaxSignals THEN @ + 1 ELSE @]

SignalAndUnlock(p) ==
    /\ Runs(p, "signal")
    /\ sem' = IF p \in checked THEN Raised(Of(p)) ELSE sem
    /\ checked' = checked \ {p}
    /\ wakeMu' = [wakeMu EXCEPT ![Of(p)] = "free"]
    /\ Done(p, 1)
    /\ UNCHANGED <<mode, phase, build, has, running, started, stopped, closed, interrupted, cb, pc>>

(* Close, once the stream thread is over or was never started.             *)
BeginClose ==
    /\ phase = "opened" /\ pc \in {"out", "over"}
    /\ phase' = "closing"
    /\ work' = [work EXCEPT !["closer"] = CloseAll(HalvesOf(mode))]
    /\ UNCHANGED <<mode, build, has, running, started, stopped, closed, interrupted, sem, wakeMu,
                   checked, cb, pc>>

CloseStop ==
    /\ Runs("closer", "stop") /\ StopUnit(Of("closer")) /\ Done("closer", 1)
    /\ UNCHANGED <<mode, phase, build, has, started, closed, interrupted, sem, wakeMu, checked, cb, pc>>

(* Disposing of a unit that still runs waits for its callback too.         *)
Dispose ==
    /\ Runs("closer", "dispose") /\ cb[Of("closer")] = "idle"
    /\ has' = [has EXCEPT ![Of("closer")] = @ \ {"unit", "initialized"}]
    /\ running' = running \ {Of("closer")}
    /\ Done("closer", 1)
    /\ UNCHANGED <<mode, phase, build, started, stopped, closed, interrupted, sem, wakeMu,
                   checked, cb, pc>>

(* closed is set, and the semaphore's field cleared, under wakeMu.         *)
Seal ==
    /\ Runs("closer", "seal") /\ wakeMu[Of("closer")] = "free"
    /\ closed' = closed \cup {Of("closer")}
    /\ Done("closer", 1)
    /\ UNCHANGED <<mode, phase, build, has, running, started, stopped, interrupted, sem, wakeMu,
                   checked, cb, pc>>

Destroy ==
    /\ Runs("closer", "destroy")
    /\ has' = [has EXCEPT ![Of("closer")] = @ \ {"semaphore"}]
    /\ sem' = [sem EXCEPT ![Of("closer")] = 0]
    /\ Done("closer", 1)
    /\ UNCHANGED <<mode, phase, build, running, started, stopped, closed, interrupted, wakeMu,
                   checked, cb, pc>>

Unmap ==
    /\ Runs("closer", "unmap")
    /\ has' = [has EXCEPT ![Of("closer")] = @ \ {"memory"}]
    /\ Done("closer", 1)
    /\ UNCHANGED <<mode, phase, build, running, started, stopped, closed, interrupted, sem, wakeMu,
                   checked, cb, pc>>

CloseReturns ==
    /\ phase = "closing" /\ work["closer"] = <<>> /\ phase' = "closed"
    /\ UNCHANGED <<mode, build, has, running, started, stopped, closed, interrupted, sem, wakeMu,
                   work, checked, cb, pc>>

Interrupting(p) == SwapInterrupted(p) \/ CheckOpen(p) \/ SignalAndUnlock(p)
Closing == CloseStop \/ Dispose \/ Seal \/ Destroy \/ Unmap \/ CloseReturns

-----------------------------------------------------------------------------
(* Whatever failed, and whoever was interrupting, everything that was made *)
(* is gone when Close, or an Open that failed, has returned ...            *)
NothingLeft == phase = "closed" => \A d \in Sides : has[d] = {}

(* ... and nothing is used that is gone: no semaphore is signalled after   *)
(* it was destroyed, by Interrupt or by a callback, and no callback runs   *)
(* after its unit was disposed of or its memory unmapped.                  *)
NoUseAfterClose ==
    /\ \A p \in {"caller", "closer"} : p \in checked => "semaphore" \in has[Of(p)]
    /\ \A d \in Sides : cb[d] # "idle" => {"memory", "semaphore", "unit"} \subseteq has[d]

(* What was made is given back, all of it and not too early.               *)
UnitsSafe == NothingLeft /\ NoUseAfterClose
=============================================================================
