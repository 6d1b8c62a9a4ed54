------------------------- MODULE StreamStatsProofs --------------------------
(***************************************************************************)
(* What Stats tells of a stream: first the drop-outs and the gaps that go  *)
(* with them, StreamLoop, for any limits of the counters and any number of *)
(* drop-outs, periods and ErrXrun results, where IInv is inductive; then   *)
(* the allocations, AllocWatchdog, for any number of them, where           *)
(* WatchdogInv is.                                                         *)
(***************************************************************************)
EXTENDS StreamLoop, AllocWatchdog, TLAPS

USE LimitsAssumption DEF Least, Saturated, Fresh, Gap

\* The parts of IInv that depend on the steps of the loop.
LEMMA InitHolds == LoopInit => IInv
<1> SUFFICES ASSUME LoopInit PROVE IInv
  OBVIOUS
<1>1. TypeOK
  <2>1. time \in [Frame : Nat, Dropouts : 0 .. TimeMax,
                 Discontinuity : BOOLEAN, seen : Nat, xruns : Nat]
    BY DEF LoopInit
  <2>2. counter \in Nat /\ dropouts \in 0 .. StatMax
    BY DEF LoopInit
  <2>3. QED
    BY <2>1, <2>2 DEF LoopInit, TypeOK
<1>2. CountedOnce /\ CounterInv /\ BoundInv /\ HistoryInv /\ GapInv
  BY DEF LoopInit, CountedOnce, CounterInv, BoundInv, HistoryInv, GapInv
<1>3. QED
  BY <1>1, <1>2 DEF IInv

\* A drop-out, or a counter that restarts, leaves the loop where it is: what
\* the next read would add grows by at most one, and not at all.
LEMMA DeviceStep ==
  ASSUME IInv, Drop \/ Restart
  PROVE  IInv'
<1> USE DEF IInv, Drop, Restart, localVars, statVars
<1>1. TypeOK'
  <2>1. counter' \in Nat /\ lost' \in Nat
    BY DEF TypeOK
  <2>2. restarted' \in BOOLEAN
    BY DEF TypeOK
  <2>3. QED
    BY <2>1, <2>2 DEF TypeOK
<1>2. CountedOnce' /\ CounterInv'
  BY DEF TypeOK, CountedOnce, CounterInv
<1>3. BoundInv'
  BY DEF TypeOK, BoundInv, CounterInv
<1>4. HistoryInv' /\ (~restarted' => GapInv')
  BY DEF TypeOK, HistoryInv, GapInv
<1>5. QED
  BY <1>1, <1>2, <1>3, <1>4

\* The first read takes what the device counted before for granted.
LEMMA BeginStep ==
  ASSUME IInv, Begin
  PROVE  IInv'
<1> USE DEF IInv, Begin, statVars
<1>1. TypeOK'
  BY DEF TypeOK
<1>2. CountedOnce' /\ CounterInv' /\ BoundInv'
  <2>1. dropouts' = 0 /\ seen' = 0 /\ lost' = 0 /\ lpc' = "wait"
    BY DEF CounterInv
  <2>2. counter' \in Nat /\ lastDropouts' = counter'
    BY DEF TypeOK
  <2>3. QED
    BY <2>1, <2>2 DEF CountedOnce, CounterInv, BoundInv
<1>3. HistoryInv' /\ (~restarted' => GapInv')
  BY DEF TypeOK, HistoryInv, GapInv
<1>4. QED
  BY <1>1, <1>2, <1>3

\* Wait reads nothing; an ErrXrun is one more than the last callback knows.
LEMMA WaitStep ==
  ASSUME IInv, Wait
  PROVE  IInv'
<1> USE DEF IInv, Wait, deviceVars, localVars, statVars
<1>1. TypeOK'
  BY DEF TypeOK
<1>2. CountedOnce' /\ CounterInv' /\ BoundInv'
  BY DEF TypeOK, CountedOnce, CounterInv, BoundInv
<1>3. HistoryInv' /\ (~restarted' => GapInv')
  BY DEF TypeOK, HistoryInv, GapInv
<1>4. QED
  BY <1>1, <1>2, <1>3

\* The read after Wait counts what is new, and marks it.
LEMMA AfterWaitStep ==
  ASSUME IInv, AfterWait
  PROVE  IInv'
<1> USE DEF IInv, AfterWait, deviceVars
<1>1. Fresh(counter) \in Nat
  BY DEF TypeOK
<1>2. discontinuity' <=> discontinuity \/ Fresh(counter) # 0
  BY Zenon DEF TypeOK
<1>3. TypeOK'
  BY <1>1 DEF TypeOK
<1>4. CountedOnce' /\ CounterInv' /\ BoundInv'
  BY DEF TypeOK, CountedOnce, CounterInv, BoundInv
<1>5. HistoryInv'
  <2>1. time' = time /\ xruns' = xruns /\ seen' = lost /\ seen <= seen'
    BY DEF CounterInv
  <2>2. dropouts <= dropouts'
    BY <1>1 DEF TypeOK
  <2>3. Fresh(counter) = 0 => dropouts' = dropouts
    BY <1>1 DEF TypeOK
  <2>4. QED
    BY <1>2, <2>1, <2>2, <2>3 DEF TypeOK, HistoryInv
<1>6. ~restarted' => GapInv'
  <2> SUFFICES ASSUME ~restarted PROVE GapInv'
    OBVIOUS
  <2>1. Fresh(counter) = lost - seen /\ seen <= lost /\ seen' = lost
    BY DEF TypeOK, CounterInv
  <2>2. time.seen <= seen /\ time.xruns <= xruns /\ time' = time /\ xruns' = xruns
    BY DEF HistoryInv
  <2>3. discontinuity' <=> discontinuity \/ seen' # seen
    <3> DEFINE n == Fresh(counter)
    <3> HIDE DEF n
    <3>1. n # 0 <=> seen' # seen
      <4>1. n = lost - seen /\ seen' = lost
        BY <2>1 DEF n
      <4>2. lost \in Nat /\ seen \in Nat
        BY DEF TypeOK
      <4>3. QED
        BY ONLY <4>1, <4>2
    <3>2. QED
      BY <1>2, <3>1 DEF n
  <2>4. CASE waitErr = "xrun"
    BY <2>2, <2>4 DEF TypeOK, GapInv
  <2>5. CASE waitErr # "xrun"
    BY <2>1, <2>2, <2>3, <2>5 DEF TypeOK, GapInv
  <2>6. QED
    BY <2>4, <2>5
<1>7. QED
  BY <1>3, <1>4, <1>5, <1>6

\* A recovery that succeeds is a discontinuity.
LEMMA RecoverStep ==
  ASSUME IInv, Recover
  PROVE  IInv'
<1> USE DEF IInv, Recover, Recovered, deviceVars, statVars
<1>1. TypeOK'
  BY DEF TypeOK
<1>2. CountedOnce' /\ CounterInv' /\ BoundInv'
  BY DEF TypeOK, CountedOnce, CounterInv, BoundInv
<1>3. HistoryInv' /\ (~restarted' => GapInv')
  BY DEF TypeOK, HistoryInv, GapInv
<1>4. QED
  BY <1>1, <1>2, <1>3

\* The callback is told everything the loop has read.
LEMMA CallbackStep ==
  ASSUME IInv, RunCallback
  PROVE  IInv'
<1> USE DEF IInv, RunCallback, deviceVars, statVars
<1>1. TypeOK'
  BY DEF TypeOK
<1>2. CountedOnce' /\ CounterInv' /\ BoundInv'
  BY DEF TypeOK, CountedOnce, CounterInv, BoundInv
<1>3. HistoryInv' /\ (~restarted' => GapInv')
  BY DEF TypeOK, HistoryInv, GapInv
<1>4. QED
  BY <1>1, <1>2, <1>3

\* A Commit that succeeds ends the discontinuity; one that fails with ErrXrun
\* counts what is new, and the next Wait starts from there.
LEMMA CommitStep ==
  ASSUME IInv, CommitPeriod
  PROVE  IInv'
<1> USE DEF IInv, CommitPeriod, deviceVars, statVars
<1>1. TypeOK'
  <2>1. lastDropouts' \in Nat /\ seen' \in Nat /\ xruns' \in Nat
    BY DEF TypeOK, CountAgain
  <2>2. dropouts' \in 0 .. StatMax
    BY DEF TypeOK, CountAgain
  <2>3. QED
    BY <2>1, <2>2 DEF TypeOK
<1>2. CountedOnce' /\ CounterInv' /\ BoundInv'
  BY DEF TypeOK, CountedOnce, CounterInv, BoundInv, CountAgain
<1>3. HistoryInv' /\ (~restarted' => GapInv')
  BY DEF TypeOK, HistoryInv, GapInv, CounterInv, CountAgain
<1>4. QED
  BY <1>1, <1>2, <1>3

\* IInv is an invariant of the loop and its device.
THEOREM LoopInvariance == LoopSpec => []IInv
<1>1. IInv /\ [LoopNext]_loopVars => IInv'
  <2> SUFFICES ASSUME IInv, [LoopNext]_loopVars PROVE IInv'
    OBVIOUS
  <2>1. CASE LoopNext
    BY <2>1, DeviceStep, BeginStep, WaitStep, AfterWaitStep, RecoverStep,
       CallbackStep, CommitStep DEF LoopNext, Loop
  <2>2. CASE UNCHANGED loopVars
    BY <2>2 DEF IInv, TypeOK, CountedOnce, CounterInv, BoundInv, HistoryInv,
       GapInv, loopVars, deviceVars, localVars, statVars
  <2>3. QED
    BY <2>1, <2>2
<1>2. QED
  BY InitHolds, <1>1, PTL DEF LoopSpec

\* Stats.Dropouts is, up to saturation, what the device has counted since the
\* loop began and the loop has read: nothing twice, nothing left out.
THEOREM DropoutsCountedOnce == LoopSpec => []CountedOnce
<1>1. IInv => CountedOnce
  BY DEF IInv
<1>2. QED
  BY LoopInvariance, <1>1, PTL

\* Stats.Dropouts never exceeds what happened, even if the counter restarts.
THEOREM NeverOverCounted == LoopSpec => []NeverOver
<1>1. IInv => NeverOver
  BY DEF IInv, TypeOK, BoundInv, CounterInv, NeverOver
<1>2. QED
  BY LoopInvariance, <1>1, PTL

\* Stats.Dropouts is neither too small nor too large.
THEOREM DropoutsAreTrue == LoopSpec => []DropoutsTrue
<1>1. CountedOnce /\ NeverOver => DropoutsTrue
  BY DEF DropoutsTrue
<1>2. QED
  BY <1>1, DropoutsCountedOnce, NeverOverCounted, PTL

\* Only the callback changes time.
LEMMA TimeChanges ==
  ASSUME LoopNext, time' # time
  PROVE  RunCallback
BY DEF LoopNext, Loop, Drop, Restart, Begin, Wait, AfterWait, Recover, CommitPeriod

\* A callback with a new count is told of a discontinuity.
THEOREM CountAnnounced == LoopSpec => Announced
<1>1. IInv /\ [LoopNext]_loopVars => [AnnouncedStep]_time
  <2> SUFFICES ASSUME IInv, LoopNext, time' # time PROVE AnnouncedStep
    BY DEF loopVars
  <2>1. RunCallback
    BY TimeChanges
  <2>2. QED
    BY <2>1 DEF IInv, TypeOK, HistoryInv, RunCallback, AnnouncedStep
<1>2. QED
  BY LoopInvariance, <1>1, PTL DEF LoopSpec, Announced

\* A callback is told of a discontinuity when and only when there was one.
THEOREM DiscontinuityTold == LoopSpec => Told
<1>1. IInv /\ [LoopNext]_loopVars => [ToldStep]_time
  <2> SUFFICES ASSUME IInv, LoopNext, time' # time PROVE ToldStep
    BY DEF loopVars
  <2>1. RunCallback
    BY TimeChanges
  <2>2. QED
    BY <2>1 DEF IInv, TypeOK, GapInv, RunCallback, ToldStep
<1>2. QED
  BY LoopInvariance, <1>1, PTL DEF LoopSpec, Told

\* A callback is told of every gap, and of nothing else.
THEOREM GapsAreTold == LoopSpec => GapsTold
BY CountAnnounced, DiscontinuityTold DEF GapsTold

-----------------------------------------------------------------------------
(* The totals of the watchdog are bounded by what was allocated since the   *)
(* baseline, and by the exact reading of stop.                             *)

\* Where the sampler is once it has seen, after its reading, that stop had not
\* begun.
Admitted == {"update", "report", "scope", "updateScope", "reportScope"}

\* Counts and readings are numbers, and no reading shows what there is not.
ReadingInv ==
    /\ count \in Nat /\ published \in Nat /\ published <= count
    /\ counting \in SUBSET Counts
    /\ baseline \in [Counts -> Nat] /\ stats \in [Counts -> Nat] /\ exact \in Nat
    /\ reading \in [Parties -> Nat]
    /\ pc = [p \in Parties |-> pc[p]]
    /\ \A k \in Counts : baseline[k] <= published
    /\ \A p \in Parties : reading[p] <= published

\* A count is on once its baseline is final, and only then is there a total.
CountingInv ==
    /\ pc["thread"] \in {"begin", "arm"} => counting = {}
    /\ pc["thread"] \notin {"begin", "arm"} => "run" \in counting
    /\ pc["thread"] \in {"start", "startScope", "armScope"} => "scope" \notin counting
    /\ pc["sampler"] \in Admitted \cup {"read", "recheck"} => "run" \in counting
    /\ \A p \in Parties :
         /\ pc[p] \in {"updateScope", "reportScope"} => "scope" \in counting
         /\ pc[p] = "report" => reading[p] > baseline["run"]
         /\ pc[p] = "reportScope" => reading[p] > baseline["scope"]

\* stop has set its flag.
AfterStop == Stopped \/ pc["thread"] = "readExact"

\* After stop's reading nobody reports a later one.
StopInv ==
    /\ AfterStop => stopped
    /\ Stopped => reading["thread"] = exact
    /\ Stopped /\ pc["sampler"] \in Admitted => reading["sampler"] <= exact

WatchdogInv == ReadingInv /\ CountingInv /\ StopInv /\ TotalsTrue

USE DEF Counts, Parties

\* It holds before the first capture.
LEMMA WatchdogInitHolds == WatchdogInit => WatchdogInv
BY DEF WatchdogInit, WatchdogInv, ReadingInv, CountingInv, StopInv, TotalsTrue, LowerBound,
       NeverAboveExact, Stopped, AfterStop, Admitted

\* What the heap does, and steps that leave everything as it is.
LEMMA HeapKeeps ==
  ASSUME WatchdogInv, Allocate \/ Publish \/ UNCHANGED allVars
  PROVE  WatchdogInv'
BY DEF Allocate, Publish, allVars, allocVars, watchdogVars, WatchdogInv, ReadingInv,
       CountingInv, StopInv, TotalsTrue, LowerBound, NeverAboveExact, Stopped, AfterStop

\* A party, given what it may count, claims a total and goes on to report it.
LEMMA UpdateKeeps ==
  ASSUME WatchdogInv, NEW p \in Parties,
         \/ /\ pc[p] = "update"
            /\ Update(p, "run", "report", "scope")
         \/ /\ pc[p] = "updateScope"
            /\ Update(p, "scope", "reportScope", IF p = "thread" THEN "returned" ELSE "sleep")
  PROVE  WatchdogInv'
<1>1. UNCHANGED <<count, published, counting, stopped, baseline, stats, exact, reading>>
  BY DEF Update, allocVars
<1>2. PICK next \in {"report", "scope", "reportScope", "returned", "sleep"} :
          /\ pc' = [pc EXCEPT ![p] = next]
          /\ next = "report" => reading[p] > baseline["run"]
          /\ next = "reportScope" => reading[p] > baseline["scope"] /\ pc[p] = "updateScope"
          /\ next = "returned" => p = "thread"
          /\ next = "sleep" => p = "sampler"
          /\ pc[p] \in {"update", "updateScope"}
  BY DEF Update, StepTo, AboveBaseline
<1>3. (Stopped' <=> Stopped) /\ (AfterStop' <=> AfterStop)
  BY <1>2 DEF AfterStop, Stopped, WatchdogInv, ReadingInv
<1>4. ReadingInv'
  BY <1>1, <1>2 DEF WatchdogInv, ReadingInv
<1>5. CountingInv'
  BY <1>1, <1>2 DEF WatchdogInv, ReadingInv, CountingInv, Admitted
<1>6. StopInv'
  BY <1>1, <1>2, <1>3 DEF WatchdogInv, ReadingInv, StopInv, Admitted
<1>7. TotalsTrue'
  BY <1>1, <1>3 DEF WatchdogInv, TotalsTrue, LowerBound, NeverAboveExact
<1>8. QED
  BY <1>4, <1>5, <1>6, <1>7 DEF WatchdogInv

\* A claimed total is what was read, less the baseline.
LEMMA ReportKeeps ==
  ASSUME WatchdogInv, NEW p \in Parties,
         \/ /\ pc[p] = "report"
            /\ Report(p, "run", "scope")
         \/ /\ pc[p] = "reportScope"
            /\ Report(p, "scope", IF p = "thread" THEN "returned" ELSE "sleep")
  PROVE  WatchdogInv'
<1>1. UNCHANGED <<count, published, counting, stopped, baseline, exact, reading>>
  BY DEF Report, allocVars, watchdogVars
<1>2. PICK k \in Counts, next \in {"scope", "returned", "sleep"} :
          /\ pc' = [pc EXCEPT ![p] = next]
          /\ stats' = [stats EXCEPT ![k] = KeepLargest(@, Total(p, k))]
          /\ next = "returned" => p = "thread"
          /\ next = "sleep" => p = "sampler"
          /\ pc[p] \in {"report", "reportScope"}
          /\ k = "run" <=> pc[p] = "report"
  BY DEF Report, StepTo
<1>3. Total(p, k) = reading[p] - baseline[k] /\ reading[p] > baseline[k] /\ k \in counting
  BY <1>2 DEF WatchdogInv, ReadingInv, CountingInv, Total, Admitted, Stopped
<1>4. (Stopped' <=> Stopped) /\ (AfterStop' <=> AfterStop)
  BY <1>2 DEF AfterStop, Stopped, WatchdogInv, ReadingInv
<1>5. ReadingInv'
  <2>1. Total(p, k) \in Nat
    BY <1>3 DEF WatchdogInv, ReadingInv
  <2>2. KeepLargest(stats[k], Total(p, k)) \in Nat
    BY <2>1 DEF WatchdogInv, ReadingInv, KeepLargest
  <2>3. stats' \in [Counts -> Nat]
    BY <1>2, <2>2 DEF WatchdogInv, ReadingInv
  <2>4. QED
    BY <1>1, <1>2, <2>3 DEF WatchdogInv, ReadingInv
<1>6. CountingInv'
  BY <1>1, <1>2 DEF WatchdogInv, ReadingInv, CountingInv, Admitted
<1>7. StopInv'
  BY <1>1, <1>2, <1>4 DEF WatchdogInv, ReadingInv, StopInv, Admitted
<1>8. LowerBound'
  BY <1>1, <1>2, <1>3 DEF WatchdogInv, ReadingInv, TotalsTrue, LowerBound, KeepLargest
<1>9. Stopped => reading[p] <= exact
  BY <1>2 DEF WatchdogInv, ReadingInv, StopInv, AfterStop, Admitted
<1>10. NeverAboveExact'
  BY <1>1, <1>2, <1>3, <1>4, <1>9 DEF WatchdogInv, ReadingInv, TotalsTrue, NeverAboveExact, KeepLargest
<1>11. QED
  BY <1>5, <1>6, <1>7, <1>8, <1>10 DEF WatchdogInv, TotalsTrue

\* The sampler's reading is older than the flag it finds clear.
LEMMA SamplerKeeps ==
  ASSUME WatchdogInv, Sampler
  PROVE  WatchdogInv'
<1>1. CASE Wake
  BY <1>1 DEF Wake, StepTo, allocVars, watchdogVars, WatchdogInv, ReadingInv, CountingInv,
              StopInv, TotalsTrue, LowerBound, NeverAboveExact, Stopped, AfterStop, Admitted
<1>2. CASE Read
  <2>1. /\ UNCHANGED <<count, published, counting, stopped, baseline, stats, exact>>
        /\ pc["sampler"] = "read" /\ pc' = [pc EXCEPT !["sampler"] = "recheck"]
        /\ reading' = [reading EXCEPT !["sampler"] = published]
    BY <1>2 DEF Read, StepTo, allocVars, watchdogVars
  <2>2. ReadingInv'
    <3>1. reading' \in [Parties -> Nat] /\ \A p \in Parties : reading'[p] <= published
      BY <2>1 DEF WatchdogInv, ReadingInv
    <3>2. pc' = [p \in Parties |-> pc'[p]]
      BY <2>1 DEF WatchdogInv, ReadingInv
    <3>3. QED
      BY <2>1, <3>1, <3>2 DEF WatchdogInv, ReadingInv
  <2>3. CountingInv'
    BY <2>1 DEF WatchdogInv, ReadingInv, CountingInv, Admitted
  <2>4. StopInv'
    BY <2>1 DEF WatchdogInv, ReadingInv, StopInv, Stopped, AfterStop, Admitted
  <2>5. TotalsTrue'
    BY <2>1 DEF WatchdogInv, ReadingInv, TotalsTrue, LowerBound, NeverAboveExact, Stopped
  <2>6. QED
    BY <2>2, <2>3, <2>4, <2>5 DEF WatchdogInv
<1>3. CASE Recheck
  BY <1>3 DEF Recheck, StillWanted, StepTo, allocVars, watchdogVars, WatchdogInv, ReadingInv, CountingInv,
              StopInv, TotalsTrue, LowerBound, NeverAboveExact, Stopped, AfterStop, Admitted
<1>4. CASE pc["sampler"] = "scope" /\ TestScope("sampler", "updateScope", "sleep")
  BY <1>4 DEF TestScope, StepTo, allocVars, watchdogVars, WatchdogInv, ReadingInv, CountingInv,
              StopInv, TotalsTrue, LowerBound, NeverAboveExact, Stopped, AfterStop, Admitted
<1>5. QED
  BY <1>1, <1>2, <1>3, <1>4, UpdateKeeps, ReportKeeps DEF Sampler

\* The thread takes a baseline before it counts, and sets the flag before it
\* reads.
LEMMA ThreadKeeps ==
  ASSUME WatchdogInv, Thread
  PROVE  WatchdogInv'
<1>1. CASE ReadBaseline \/ StartScope
  BY <1>1 DEF ReadBaseline, StartScope, ScopeBaseline, StepTo, WatchdogInv, ReadingInv, CountingInv,
              StopInv, TotalsTrue, LowerBound, NeverAboveExact, Stopped, AfterStop, Admitted
<1>2. CASE Arm \/ DeviceStart \/ LeaveLoop \/ Stop
  BY <1>2 DEF Arm, DeviceStart, LeaveLoop, Stop, StepTo, allocVars, watchdogVars, WatchdogInv, ReadingInv,
              CountingInv, StopInv, TotalsTrue, LowerBound, NeverAboveExact, Stopped, AfterStop, Admitted
<1>3. CASE StopRead
  <2>1. /\ UNCHANGED <<count, counting, stopped, baseline, stats>>
        /\ pc["thread"] = "readExact" /\ pc' = [pc EXCEPT !["thread"] = "update"]
        /\ reading' = [reading EXCEPT !["thread"] = count]
        /\ published' = count /\ exact' = count
    BY <1>3 DEF StopRead, ReadExact, StepTo, watchdogVars
  <2>2. stopped
    BY <2>1 DEF WatchdogInv, StopInv, AfterStop
  <2>3. ReadingInv'
    <3>1. reading' \in [Parties -> Nat] /\ \A p \in Parties : reading'[p] <= count
      BY <2>1 DEF WatchdogInv, ReadingInv
    <3>2. pc' = [p \in Parties |-> pc'[p]]
      BY <2>1 DEF WatchdogInv, ReadingInv
    <3>3. \A k \in Counts : baseline'[k] <= count
      BY <2>1 DEF WatchdogInv, ReadingInv
    <3>4. QED
      BY <2>1, <3>1, <3>2, <3>3 DEF WatchdogInv, ReadingInv
  <2>4. CountingInv'
    BY <2>1 DEF WatchdogInv, ReadingInv, CountingInv, Admitted
  <2>5. StopInv'
    BY <2>1, <2>2 DEF WatchdogInv, ReadingInv, StopInv, AfterStop, Stopped, Admitted
  <2>6. TotalsTrue'
    BY <2>1 DEF WatchdogInv, ReadingInv, TotalsTrue, LowerBound, NeverAboveExact, Stopped
  <2>7. QED
    BY <2>3, <2>4, <2>5, <2>6 DEF WatchdogInv
<1>4. CASE pc["thread"] = "scope" /\ TestScope("thread", "updateScope", "returned")
  BY <1>4 DEF TestScope, StepTo, allocVars, watchdogVars, WatchdogInv, ReadingInv, CountingInv,
              StopInv, TotalsTrue, LowerBound, NeverAboveExact, Stopped, AfterStop, Admitted
<1>5. QED
  BY <1>1, <1>2, <1>3, <1>4, UpdateKeeps, ReportKeeps DEF Thread

\* The invariant, for any number of allocations.
THEOREM WatchdogInvariance == WatchdogSpec => []WatchdogInv
<1>1. WatchdogInv /\ [WatchdogNext]_allVars => WatchdogInv'
  BY HeapKeeps, SamplerKeeps, ThreadKeeps DEF WatchdogNext
<1>2. QED
  BY WatchdogInitHolds, <1>1, PTL DEF WatchdogSpec

\* No total counts an object from before its count, or from after stop's reading,
\* however late the sampler reports.
THEOREM TotalsBounded == WatchdogSpec => []TotalsTrue
<1>1. WatchdogInv => TotalsTrue
  BY DEF WatchdogInv
<1>2. QED
  BY WatchdogInvariance, <1>1, PTL
=============================================================================
