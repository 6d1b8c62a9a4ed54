----------------------------- MODULE StreamLoop -----------------------------
(***************************************************************************)
(* What the loop of stream.go tells about lost audio: the device counts    *)
(* drop-outs, at any moment, also while the loop is elsewhere; the loop    *)
(* reads that counter after every Wait and after a Commit that failed with *)
(* ErrXrun, adds what is new to Stats.Dropouts, and hands the callback a   *)
(* Time with Frame, Dropouts and Discontinuity.                            *)
(*                                                                         *)
(* Each read of the counter and each driver call is a step.  The errors    *)
(* that end the loop, StreamCore's subject, are one here; clocks, samples  *)
(* and timing distributions are left out.  Frames are counted in periods.  *)
(***************************************************************************)
EXTENDS Integers

CONSTANTS
    StatMax,       \* MaxUint64: where Stats.Dropouts saturates
    TimeMax,       \* MaxUint32: where Time.Dropouts is clamped
    MaxDrops,      \* bound: drop-outs of the device
    MaxXruns,      \* bound: ErrXrun results
    MaxCallbacks   \* bound: periods

ASSUME LimitsAssumption == StatMax \in Nat /\ TimeMax \in Nat
ASSUME LoopBoundsAssumption ==
    MaxDrops \in Nat /\ MaxXruns \in Nat /\ MaxCallbacks \in Nat

VARIABLES
    counter,         \* device.Dropouts()
    restarted,       \* the device's counter has started again at zero
    lpc, waitErr,    \* the loop: control point, Wait's result
    lastDropouts, frame, discontinuity,   \* locals of loop
    dropouts,        \* stats.dropouts
    time,            \* the Time of the last callback
    lost, seen, xruns    \* history: drop-outs since the loop began, those of
                         \* them before the last read, and ErrXrun results

deviceVars == <<counter, restarted, lost>>
localVars == <<lastDropouts, frame, discontinuity>>
statVars == <<dropouts, seen>>
loopVars == <<deviceVars, lpc, waitErr, localVars, statVars, time, xruns>>

Least(m, n) == IF m <= n THEN m ELSE n

\* atomicSaturatingAdd, with the loop as the only writer.
Saturated(n) == Least(n, StatMax)

LoopInit ==
    /\ counter \in 0 .. 1 /\ restarted = FALSE
    /\ lpc = "begin" /\ waitErr = "nil"
    /\ lastDropouts = 0 /\ frame = 0 /\ discontinuity = FALSE
    /\ dropouts = 0
    /\ time = [Frame |-> 0, Dropouts |-> 0, Discontinuity |-> FALSE,
               seen |-> 0, xruns |-> 0]
    /\ lost = 0 /\ seen = 0 /\ xruns = 0

-----------------------------------------------------------------------------
(* The device.                                                             *)

Drop ==
    /\ counter < MaxDrops /\ lost < MaxDrops
    /\ counter' = counter + 1
    /\ lost' = lost + 1
    /\ UNCHANGED <<restarted, lpc, waitErr, localVars, statVars, time, xruns>>

\* The loop is prepared for a counter that starts again.
Restart ==
    /\ ~restarted
    /\ counter' = 0
    /\ restarted' = TRUE
    /\ UNCHANGED <<lost, lpc, waitErr, localVars, statVars, time, xruns>>

-----------------------------------------------------------------------------
(* The loop.                                                               *)

Begin ==
    /\ lpc = "begin"
    /\ lastDropouts' = counter
    /\ lost' = 0
    /\ lpc' = "wait"
    /\ UNCHANGED <<counter, restarted, waitErr, frame, discontinuity, statVars,
                   time, xruns>>

\* stopRequested ends the loop; so does an error other than ErrXrun.
Wait ==
    /\ lpc = "wait"
    /\ waitErr' \in {"nil", "xrun", "end"}
    /\ waitErr' = "xrun" => xruns < MaxXruns
    /\ xruns' = IF waitErr' = "xrun" THEN xruns + 1 ELSE xruns
    /\ lpc' = "waited"
    /\ UNCHANGED <<deviceVars, localVars, statVars, time>>

Fresh(current) ==
    IF current >= lastDropouts THEN current - lastDropouts ELSE current

AfterWait ==
    /\ lpc = "waited"
    /\ dropouts' = Saturated(dropouts + Fresh(counter))
    /\ discontinuity' = (discontinuity \/ Fresh(counter) # 0)
    /\ lastDropouts' = counter
    /\ seen' = lost
    /\ lpc' = CASE waitErr = "nil" -> "callback"
                [] waitErr = "xrun" -> "recover"
                [] waitErr = "end" -> "end"
    /\ UNCHANGED <<deviceVars, waitErr, frame, time, xruns>>

Recovered_Quiet == UNCHANGED discontinuity
Recovered == discontinuity' = TRUE

Recover ==
    /\ lpc = "recover"
    /\ \/ lpc' = "end" /\ UNCHANGED discontinuity
       \/ lpc' = "wait" /\ Recovered
    /\ UNCHANGED <<deviceVars, waitErr, lastDropouts, frame, statVars, time,
                   xruns>>

\* A callback that panics, and samples that cannot be decoded or encoded,
\* end the loop.
RunCallback ==
    /\ lpc = "callback"
    /\ frame < MaxCallbacks
    /\ time' = [Frame |-> frame, Dropouts |-> Least(dropouts, TimeMax),
                Discontinuity |-> discontinuity, seen |-> seen,
                xruns |-> xruns]
    /\ frame' = frame + 1
    /\ lpc' \in {"commit", "end"}
    /\ UNCHANGED <<deviceVars, waitErr, lastDropouts, discontinuity, statVars,
                   xruns>>

\* The read after a failed Commit; the next Wait counts from here.
CountAgain_KeepLast ==
    IF counter > lastDropouts
    THEN /\ dropouts' = Saturated(dropouts + counter - lastDropouts)
         /\ UNCHANGED lastDropouts
    ELSE UNCHANGED <<dropouts, lastDropouts>>
CountAgain ==
    IF counter > lastDropouts
    THEN /\ dropouts' = Saturated(dropouts + counter - lastDropouts)
         /\ lastDropouts' = counter
    ELSE UNCHANGED <<dropouts, lastDropouts>>

CommitPeriod ==
    /\ lpc = "commit"
    /\ \/ /\ lpc' = "wait"
          /\ discontinuity' = FALSE
          /\ UNCHANGED <<lastDropouts, statVars, xruns>>
       \/ /\ lpc' = "end"
          /\ UNCHANGED <<lastDropouts, discontinuity, statVars, xruns>>
       \/ /\ xruns < MaxXruns
          /\ lpc' = "recover"
          /\ xruns' = xruns + 1
          /\ CountAgain
          /\ seen' = lost
          /\ UNCHANGED discontinuity
    /\ UNCHANGED <<deviceVars, waitErr, frame, time>>

-----------------------------------------------------------------------------
Loop == Begin \/ Wait \/ AfterWait \/ Recover \/ RunCallback \/ CommitPeriod

LoopNext == Drop \/ Restart \/ Loop

LoopSpec == LoopInit /\ [][LoopNext]_loopVars

-----------------------------------------------------------------------------
(* Properties.                                                             *)

TypeOK ==
    /\ counter \in Nat /\ lost \in Nat /\ seen \in Nat /\ xruns \in Nat
    /\ restarted \in BOOLEAN /\ discontinuity \in BOOLEAN
    /\ lpc \in {"begin", "wait", "waited", "recover", "callback", "commit",
                "end"}
    /\ waitErr \in {"nil", "xrun", "end"}
    /\ lastDropouts \in Nat /\ frame \in Nat
    /\ dropouts \in 0 .. StatMax
    /\ time \in [Frame : Nat, Dropouts : 0 .. TimeMax,
                 Discontinuity : BOOLEAN, seen : Nat, xruns : Nat]

\* A drop-out is counted once, whichever of the two reads finds it: none is
\* lost between a failed Commit and the next Wait, none counted by both.
CountedOnce == ~restarted => dropouts = Saturated(seen)

\* Even a counter that starts again at zero makes Stats.Dropouts report no
\* drop-out that did not happen.
NeverOver == dropouts <= lost

\* Stats.Dropouts reports every drop-out the device counted, and none that did
\* not happen.
DropoutsTrue == CountedOnce /\ NeverOver

\* A callback whose Time.Dropouts is not the last callback's is told of a
\* discontinuity, whatever happened in between, and the count never falls.
AnnouncedStep ==
    /\ time'.Dropouts >= time.Dropouts
    /\ time'.Dropouts # time.Dropouts => time'.Discontinuity
Announced == [][AnnouncedStep]_time

\* Time.Discontinuity is neither forgotten nor repeated: it is set exactly
\* when a drop-out was read or the device reported ErrXrun since the last
\* callback.
ToldStep ==
    ~restarted =>
        (time'.Discontinuity <=> seen # time.seen \/ xruns # time.xruns)
Told == [][ToldStep]_time

\* No callback after a gap takes it for continuous audio, and no other one is
\* told of a gap.
GapsTold == Announced /\ Told

-----------------------------------------------------------------------------
(* The inductive invariant.                                                *)

\* What the device has counted since the last read is what happened since.
CounterInv ==
    /\ seen <= lost
    /\ ~restarted /\ lpc # "begin" =>
          /\ lastDropouts <= counter
          /\ counter - lastDropouts = lost - seen
    /\ lpc = "begin" => lastDropouts = 0 /\ dropouts = 0 /\ seen = 0

\* What has been counted, with what the next read would add, happened.
BoundInv == lpc # "begin" => dropouts + Fresh(counter) <= lost

\* The last callback was told of nothing that came later.
HistoryInv ==
    /\ time.seen <= seen
    /\ time.xruns <= xruns
    /\ time.Dropouts <= dropouts
    /\ lpc \in {"begin", "wait", "waited", "callback"} /\ ~discontinuity
          => time.Dropouts = Least(dropouts, TimeMax)
    /\ lpc = "commit" => time.Dropouts = Least(dropouts, TimeMax)

Gap == seen # time.seen \/ xruns # time.xruns

\* discontinuity means a gap until the callback is told of it, and is of no
\* meaning from then until Commit has answered.
GapInv ==
    /\ lpc \in {"begin", "wait", "callback"} => (discontinuity <=> Gap)
    /\ lpc = "waited" /\ waitErr # "xrun" => (discontinuity <=> Gap)
    /\ lpc = "recover" \/ (lpc = "waited" /\ waitErr = "xrun")
          => time.xruns < xruns
    /\ lpc = "commit" => ~Gap

\* IInv is inductive; the properties above follow from it.
IInv ==
    /\ TypeOK
    /\ CountedOnce
    /\ CounterInv
    /\ BoundInv
    /\ HistoryInv
    /\ (~restarted => GapInv)
=============================================================================
