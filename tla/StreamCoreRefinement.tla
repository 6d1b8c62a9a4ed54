------------------------ MODULE StreamCoreRefinement ------------------------
(***************************************************************************)
(* StreamCore implements StreamLifecycle, towards its callers: the lock,   *)
(* the channels, the thread and the interrupt together keep what the       *)
(* stream promises; and DriverStream, towards its device.                  *)
(***************************************************************************)
EXTENDS StreamCore

\* The method a caller is in, from its control point.
MethodAt(point) ==
    IF point = "idle" THEN "none"
    ELSE IF point \in {"Start", "startAwait"} THEN "Start"
    ELSE IF point \in {"Close", "closeAwaitClose"} \cup Closers THEN "Close"
    ELSE "Stop"

\* A closing stream stays active until its thread is gone.
Phase ==
    IF state = "closed" THEN "closed"
    ELSE IF closing /\ (started => done) THEN "closing"
    ELSE IF done THEN "ended"
    ELSE IF started THEN "active" ELSE "opened"

Starter ==
    IF \E c \in Callers : pc[c] = "startAwait"
    THEN CHOOSE c \in Callers : pc[c] = "startAwait" ELSE "nobody"

Lifecycle == INSTANCE StreamLifecycle WITH
    Nobody <- "nobody", phase <- Phase, starter <- Starter,
    call <- [c \in Callers |-> MethodAt(pc[c])],
    answer <- reply, verdict <- closeErr

\* Whatever the interleaving of the calls, the thread and the device, callers
\* see the promised lifecycle: one Start wins, Stop answers nil only once the
\* audio has stopped, every Close answers the one close that happened.
LifecycleSpec == Lifecycle!Spec

\* How far the stream has come with its device, from the thread's control point
\* and the last answer of Wait.
DeviceAt ==
    CASE device = "closed" -> "closed"
      [] device = "stopped" -> "stopped"
      [] tpc = "startFailed" -> IF failure = "startInterrupted" THEN "interrupted" ELSE "over"
      [] tpc \in {"top", "wait"} -> "ready"
      [] tpc \in {"callback", "panic", "commit"} -> "period"
      [] tpc = "waited" -> CASE waitErr = NoErr -> "period"
                             [] waitErr \in FatalWaitErrs -> "over"
                             [] OTHER -> waitErr
      [] tpc = "recover" -> "xrun"
      [] tpc = "exit" -> "over"
      [] OTHER -> "new"

Driver == INSTANCE DriverStream WITH at <- DeviceAt

\* Whatever the callers do, the device is called as the driver's interface says:
\* Wait, Commit and Recover in turn, Stop before Close, each once, and nothing
\* after them but an Interrupt that is late (stream.go:376-382, 464-480, 511-657).
DriverSpec == Driver!Spec
=============================================================================
