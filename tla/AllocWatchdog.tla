---------------------------- MODULE AllocWatchdog ----------------------------
(***************************************************************************)
(* The allocation watchdog of internal/rt/rt.go and the stream thread that *)
(* brackets its loop with it (stream.go run): a baseline reading, a sampler*)
(* goroutine whose readings lag, an exact reading when the loop is over,   *)
(* and totals that reach Stats through a callback of the caller.           *)
(*                                                                         *)
(* Two things are counted, each from its own baseline: "run", from before  *)
(* the device starts, and "scope", from before the loop.  A load, a store, *)
(* a reading, a successful compare-and-swap and a report are one step each.*)
(***************************************************************************)
EXTENDS Naturals

CONSTANTS
    MaxAllocs,  \* bound: how many heap objects are ever allocated
    Word        \* 2^64, where a uint64 wraps

ASSUME AllocsAssumption == MaxAllocs \in Nat /\ Word \in Nat /\ MaxAllocs < Word

VARIABLES
    count,          \* heap objects allocated so far, by anybody
    published,      \* how many of them a metrics read would show
    counting,       \* which of the two are being counted
    stopped,
    baseline,       \* the reading each count starts from
    reported,       \* the largest total each count has claimed to report
    stats,          \* what the stream has been told of each count
    exact,          \* the reading of stop, 0 before it
    pc,             \* where the sampler and the stream thread are
    reading         \* their latest readings

allocVars == <<count, published>>
watchdogVars == <<counting, stopped, baseline, reported>>
allVars == <<allocVars, watchdogVars, stats, exact, pc, reading>>

Counts == {"run", "scope"}
Parties == {"sampler", "thread"}

WatchdogInit ==
    /\ count = 0 /\ published = 0
    /\ counting = {}
    /\ stopped = FALSE
    /\ baseline = [k \in Counts |-> 0]
    /\ reported = [k \in Counts |-> 0]
    /\ stats = [k \in Counts |-> 0]
    /\ exact = 0
    /\ pc = [p \in Parties |-> IF p = "sampler" THEN "sleep" ELSE "begin"]
    /\ reading = [p \in Parties |-> 0]

-----------------------------------------------------------------------------
(* Allocations, anywhere in the process, until the bound.                  *)

Allocate ==
    /\ count < MaxAllocs
    /\ count' = count + 1
    /\ UNCHANGED <<published, watchdogVars, stats, exact, pc, reading>>

\* A P releases a cached span: a metrics read sees more of them.
Publish ==
    /\ published < count
    /\ published' \in published + 1 .. count
    /\ UNCHANGED <<count, watchdogVars, stats, exact, pc, reading>>

-----------------------------------------------------------------------------
(* Reporting a total: update and updateScope.                              *)

StepTo(p, point) == pc' = [pc EXCEPT ![p] = point]

\* uint64 subtraction: below the baseline it wraps.
Total(p, k) ==
    IF reading[p] >= baseline[k] THEN reading[p] - baseline[k]
    ELSE Word + reading[p] - baseline[k]

\* Anything to report at all?
AboveBaseline(p, k) == reading[p] > baseline[k]

\* update, updateScope: nothing above the baseline or no more than another
\* party has claimed, or a total to report next.  The loads before the
\* compare-and-swap that succeeds decide nothing.
Update(p, k, report, after) ==
    /\ \/ /\ AboveBaseline(p, k) /\ Total(p, k) > reported[k]
          /\ reported' = [reported EXCEPT ![k] = Total(p, k)]
          /\ StepTo(p, report)
       \/ /\ AboveBaseline(p, k) => Total(p, k) <= reported[k]
          /\ UNCHANGED reported
          /\ StepTo(p, after)
    /\ UNCHANGED <<allocVars, counting, stopped, baseline, stats, exact, reading>>

\* atomicMaxUint64 of stream.go: the stream keeps the largest.
KeepLargest(old, total) == IF total > old THEN total ELSE old

\* report and scopeReport, after the compare-and-swap.
Report(p, k, after) ==
    /\ stats' = [stats EXCEPT ![k] = KeepLargest(@, Total(p, k))]
    /\ StepTo(p, after)
    /\ UNCHANGED <<allocVars, watchdogVars, exact, reading>>

\* if w.scopeCounting.Load()
TestScope(p, yes, no) ==
    /\ StepTo(p, IF "scope" \in counting THEN yes ELSE no)
    /\ UNCHANGED <<allocVars, watchdogVars, stats, exact, reading>>

-----------------------------------------------------------------------------
(* The sampler.                                                            *)

\* The last slice of an interval is slept; a slice that ends stopped is the
\* sampler's last step.
Wake ==
    /\ pc["sampler"] = "sleep"
    /\ StepTo("sampler", IF stopped THEN "gone"
                       ELSE IF "run" \in counting THEN "read" ELSE "sleep")
    /\ UNCHANGED <<allocVars, watchdogVars, stats, exact, reading>>

\* metrics.Read: never more than there are.
Read ==
    /\ pc["sampler"] = "read"
    /\ reading' = [reading EXCEPT !["sampler"] = published]
    /\ StepTo("sampler", "recheck")
    /\ UNCHANGED <<allocVars, watchdogVars, stats, exact>>

StillWanted_Always == TRUE
StillWanted == ~stopped

Recheck ==
    /\ pc["sampler"] = "recheck"
    /\ StepTo("sampler", IF StillWanted THEN "update" ELSE "gone")
    /\ UNCHANGED <<allocVars, watchdogVars, stats, exact, reading>>

Sampler ==
    \/ Wake \/ Read \/ Recheck
    \/ pc["sampler"] = "update" /\ Update("sampler", "run", "report", "scope")
    \/ pc["sampler"] = "report" /\ Report("sampler", "run", "scope")
    \/ pc["sampler"] = "scope" /\ TestScope("sampler", "updateScope", "sleep")
    \/ pc["sampler"] = "updateScope"
       /\ Update("sampler", "scope", "reportScope", "sleep")
    \/ pc["sampler"] = "reportScope" /\ Report("sampler", "scope", "sleep")

-----------------------------------------------------------------------------
(* The stream thread.                                                      *)

\* StartWatchdogWithScope, the sampler started, takes the exact baseline:
\* ReadMemStats publishes every count.
ReadBaseline ==
    /\ pc["thread"] = "begin"
    /\ published' = count
    /\ baseline' = [baseline EXCEPT !["run"] = count]
    /\ StepTo("thread", "arm")
    /\ UNCHANGED <<count, counting, stopped, reported, stats, exact, reading>>

Arm ==
    /\ pc["thread"] = "arm"
    /\ counting' = counting \cup {"run"}
    /\ StepTo("thread", "start")
    /\ UNCHANGED <<allocVars, stopped, baseline, reported, stats, exact, reading>>

\* device.Start: a device that does not start goes to stop at once.
DeviceStart ==
    /\ pc["thread"] = "start"
    /\ \E next \in {"startScope", "stop"} : StepTo("thread", next)
    /\ UNCHANGED <<allocVars, watchdogVars, stats, exact, reading>>

ScopeBaseline == [baseline EXCEPT !["scope"] = count]

\* startScope: the baseline first, then the flag the sampler tests.
StartScope ==
    /\ \/ /\ pc["thread"] = "startScope"
          /\ published' = count
          /\ baseline' = ScopeBaseline
          /\ StepTo("thread", "armScope")
          /\ UNCHANGED counting
       \/ /\ pc["thread"] = "armScope"
          /\ counting' = counting \cup {"scope"}
          /\ StepTo("thread", "loop")
          /\ UNCHANGED <<published, baseline>>
    /\ UNCHANGED <<count, stopped, reported, stats, exact, reading>>

\* The loop is over.
LeaveLoop ==
    /\ pc["thread"] = "loop"
    /\ StepTo("thread", "stop")
    /\ UNCHANGED <<allocVars, watchdogVars, stats, exact, reading>>

\* stop: the flag first, then the exact reading.
Stop ==
    /\ pc["thread"] = "stop"
    /\ stopped' = TRUE
    /\ StepTo("thread", "readExact")
    /\ UNCHANGED <<allocVars, counting, baseline, reported, stats, exact, reading>>

ReadExact_Lagging == published
ReadExact == count

StopRead ==
    /\ pc["thread"] = "readExact"
    /\ published' = count
    /\ reading' = [reading EXCEPT !["thread"] = ReadExact]
    /\ exact' = count
    /\ StepTo("thread", "update")
    /\ UNCHANGED <<count, watchdogVars, stats>>

Thread ==
    \/ ReadBaseline \/ Arm \/ DeviceStart \/ StartScope \/ LeaveLoop
    \/ Stop \/ StopRead
    \/ pc["thread"] = "update" /\ Update("thread", "run", "report", "scope")
    \/ pc["thread"] = "report" /\ Report("thread", "run", "scope")
    \/ pc["thread"] = "scope" /\ TestScope("thread", "updateScope", "returned")
    \/ pc["thread"] = "updateScope"
       /\ Update("thread", "scope", "reportScope", "returned")
    \/ pc["thread"] = "reportScope" /\ Report("thread", "scope", "returned")

-----------------------------------------------------------------------------
WatchdogNext == Allocate \/ Publish \/ Sampler \/ Thread

WatchdogSpec == WatchdogInit /\ [][WatchdogNext]_allVars

\* Both run; nothing has to allocate.  The callback of a stream need not
\* return, so the loop is left only if it is.
WatchdogFairSpec == WatchdogSpec /\ WF_allVars(Sampler) /\ WF_allVars(Thread /\ ~LeaveLoop)

-----------------------------------------------------------------------------
(* Properties.                                                             *)

Stopped == pc["thread"] \in
    {"update", "report", "scope", "updateScope", "reportScope", "returned"}

\* "The sampler ... never reports more than stop's exact total" (rt.go:80-81):
\* allocations made after the loop, by the cleanup or by anyone, are in no
\* total, however late the sampler's last reading is reported.
NeverAboveExact ==
    Stopped => \A k \in counting :
        exact >= baseline[k] /\ stats[k] <= exact - baseline[k]

\* Before that, a total is a lower bound: no allocation is counted that was
\* made before the baseline of its count.
LowerBound ==
    \A k \in Counts : stats[k] # 0 =>
        /\ k \in counting
        /\ baseline[k] + stats[k] <= count

\* No total counts what is not the stream's, from before its count or from after
\* its end.
TotalsTrue == LowerBound /\ NeverAboveExact

\* "It is exact after Stop" (tymbal.go:175): what the stream has been told when the
\* watchdog's stop has returned, which the end of the stream waits for, is what was
\* allocated.  The code does not keep this: a party claims a total in one step and
\* reports it in a later one, and stop returns when it finds its total claimed.
Exact == \A k \in counting : stats[k] = exact - baseline[k]
ExactAfterStop == pc["thread"] = "returned" => Exact

\* What is left of that promise: the last total is not lost between the two.  When
\* the sampler is done, which it will be, the totals are exact and stay so.
ExactInTheEnd ==
    stopped ~> [](pc["sampler"] = "gone" /\ pc["thread"] = "returned" /\ Exact)
=============================================================================
