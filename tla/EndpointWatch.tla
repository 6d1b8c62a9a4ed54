---------------------------- MODULE EndpointWatch ----------------------------
(***************************************************************************)
(* Host.Watch on Windows (internal/wasapi/notifications_windows.go): the   *)
(* system notifies a COM object of every change of its audio endpoints; a  *)
(* thread that owns the COM registration takes a new snapshot and publishes*)
(* it; a dispatcher compares it with the last one and calls the client     *)
(* back, once per difference; stop, which the callback itself may call,    *)
(* ends all three.                                                         *)
(*                                                                         *)
(* One direction of endpoints stands for the two, which go through the     *)
(* same code; names are left out, and a format stands for channels and     *)
(* sample rates.  The goroutine that called Watch runs until it has the    *)
(* stop function.                                                          *)
(***************************************************************************)
EXTENDS Naturals

CONSTANTS
    EndpointCount,   \* endpoint IDs are 1 .. EndpointCount, as they sort
    Formats,
    Users,           \* goroutines that may call stop
    Callback,        \* the callback, as a caller of stop
    MaxChanges,      \* bound: changes of the endpoints
    MaxFailures      \* bound: snapshots that fail

ASSUME CountAssumption ==
    EndpointCount \in Nat /\ MaxChanges \in Nat /\ MaxFailures \in Nat
ASSUME CallbackAssumption == Callback \notin Users
ASSUME FormatAssumption == "absent" \notin Formats

VARIABLES
    world, changeCount,     \* the endpoints there are
    registered, notes,      \* the enumerator: our client, notifications due
    client,                 \* notificationObject
    wake,                   \* queue.wake
    opc, goal, defaultRead, failures,   \* runCOMOwner, endpointSnapshot
    taken,                  \* its last snapshot
    mpc,                    \* watchEndpoints
    latest, dispatchWake,   \* what publish writes
    dispatchState, stopLoop, dispatchStop, once,
    dpc, previous, events, loaded,      \* dispatch, dispatchEvent; previous is
                            \* the owner's baseline until dispatch begins
    spc, cancelLoaded,                  \* stop, cancelDispatch
    view, blind             \* history: the endpoints as the callbacks told
                            \* them; the snapshot after Register failed

worldVars == <<world, changeCount>>
comVars == <<registered, notes, client>>
scanVars == <<defaultRead, failures, taken, blind>>
ownerVars == <<opc, goal, scanVars>>
publishVars == <<latest, dispatchWake>>
dispatchVars == <<dpc, previous, events, loaded, view>>
stopVars == <<spc, cancelLoaded, stopLoop, dispatchStop, once>>
systemVars == <<worldVars, comVars, wake>>
clientVars == <<publishVars, dispatchState, dispatchVars, stopVars>>
watchVars == <<systemVars, ownerVars, mpc, clientVars>>

Endpoints == 1 .. EndpointCount
NoEndpoint == 0
Stoppers == Users \cup {Callback}

\* A list of endpoints: for each ID its format, and the one marked default.
Lists == [devs : [Endpoints -> Formats \cup {"absent"}],
          def : Endpoints \cup {NoEndpoint}]
Consistent(list) == list.def # NoEndpoint => list.devs[list.def] # "absent"
Worlds == {list \in Lists : Consistent(list)}
EmptyList == [devs |-> [e \in Endpoints |-> "absent"], def |-> NoEndpoint]

\* enumerateFlow marks the endpoint whose ID is the default's, if it is there.
Marked(devs, def) ==
    [devs |-> devs,
     def |-> IF def # NoEndpoint /\ devs[def] # "absent" THEN def ELSE NoEndpoint]

-----------------------------------------------------------------------------
(* diffEndpointSnapshots: a set of events, told in the order of First: the   *)
(* endpoints by their IDs, then the default.                               *)

EndpointEvent(old, new, e) ==
    LET device == IF new.devs[e] = "absent" THEN old ELSE new
    IN  [kind |-> CASE old.devs[e] = "absent" -> "added"
                    [] old.devs[e] # "absent" /\ new.devs[e] = "absent" -> "removed"
                    [] OTHER -> "format",
         id |-> e, format |-> device.devs[e], default |-> device.def = e]

DefaultEvents_IfPresent(old, new) ==
    IF old.def = new.def \/ new.def = NoEndpoint THEN {}
    ELSE {[kind |-> "default", id |-> new.def, format |-> new.devs[new.def],
           default |-> TRUE]}
DefaultEvents(old, new) ==
    IF old.def = new.def THEN {}
    ELSE IF new.def # NoEndpoint
         THEN {[kind |-> "default", id |-> new.def,
                format |-> new.devs[new.def], default |-> TRUE]}
         ELSE {[kind |-> "default", id |-> old.def,
                format |-> old.devs[old.def], default |-> FALSE]}

Diff(old, new) ==
    {EndpointEvent(old, new, e) : e \in {d \in Endpoints : old.devs[d] # new.devs[d]}}
        \cup DefaultEvents(old, new)

First(event, batch) ==
    /\ event \in batch
    /\ IF event.kind = "default" THEN batch = {event}
       ELSE \A other \in batch : other.kind = "default" \/ event.id <= other.id

\* What a client makes of an event.
Told(list, event) ==
    CASE event.kind = "default" ->
           [list EXCEPT !.def = IF event.default THEN event.id ELSE NoEndpoint]
      [] event.kind = "removed" -> [list EXCEPT !.devs[event.id] = "absent"]
      [] OTHER -> [list EXCEPT !.devs[event.id] = event.format]

-----------------------------------------------------------------------------
Unloaded == [cancelled |-> FALSE, active |-> FALSE]

WatchInit ==
    /\ world \in Worlds /\ changeCount = 0
    /\ registered = FALSE /\ notes = 0 /\ client = "none" /\ wake = FALSE
    /\ opc = "init" /\ goal = "baseline" /\ defaultRead = NoEndpoint
    /\ failures = 0
    /\ taken = EmptyList /\ blind = FALSE
    /\ mpc = "setup"
    /\ latest = EmptyList /\ dispatchWake = FALSE
    /\ dispatchState = Unloaded
    /\ stopLoop = FALSE /\ dispatchStop = FALSE /\ once = "new"
    /\ dpc = "none" /\ previous = EmptyList /\ events = {}
    /\ loaded = Unloaded /\ cancelLoaded = Unloaded
    /\ spc = [s \in Stoppers |-> "idle"]
    /\ view = EmptyList

-----------------------------------------------------------------------------
(* The system: an endpoint comes, goes or changes its format, or another    *)
(* becomes the default.  It notifies a registered client, some time later.  *)

Change ==
    /\ changeCount < MaxChanges
    /\ \/ \E e \in Endpoints, f \in (Formats \cup {"absent"}) :
            /\ f # world.devs[e]
            /\ world' = Marked([world.devs EXCEPT ![e] = f], world.def)
       \/ \E e \in Endpoints :
            /\ e # world.def /\ world.devs[e] # "absent"
            /\ world' = [world EXCEPT !.def = e]
    /\ changeCount' = changeCount + 1
    /\ notes' = IF registered THEN notes + 1 ELSE notes
    /\ UNCHANGED <<registered, client, wake, ownerVars, mpc, clientVars>>

\* notificationSignal: a full queue already asks for a whole snapshot.
Notify ==
    /\ notes > 0
    /\ notes' = notes - 1
    /\ wake' = TRUE
    /\ UNCHANGED <<worldVars, registered, client, ownerVars, mpc, clientVars>>

-----------------------------------------------------------------------------
(* runCOMOwner.                                                            *)

OwnerStart ==
    /\ opc = "init"
    /\ opc' \in {"defaults", "failed"}
    /\ UNCHANGED <<systemVars, goal, scanVars, mpc, clientVars>>

SnapshotDefaults ==
    /\ opc = "defaults"
    /\ defaultRead' = world.def
    /\ opc' = "devices"
    /\ UNCHANGED <<systemVars, goal, failures, taken, blind, mpc, clientVars>>

AfterSnapshot == CASE goal = "baseline" -> "register"
                   [] goal = "current" -> "ready"
                   [] goal = "rescan" -> "publish"

SnapshotDevices ==
    /\ opc = "devices"
    /\ taken' = Marked(world.devs, defaultRead)
    /\ previous' = IF goal = "baseline" THEN taken' ELSE previous
    /\ view' = IF goal = "baseline" THEN taken' ELSE view
    /\ blind' = IF goal = "rescan" THEN FALSE ELSE blind
    /\ defaultRead' = NoEndpoint
    /\ opc' = AfterSnapshot
    /\ UNCHANGED <<systemVars, goal, failures, mpc, publishVars, dispatchState,
                   dpc, events, loaded, stopVars>>

\* The first failure leaves an empty baseline, the second takes the baseline
\* for the current list, later ones are tried again.
SnapshotFails ==
    /\ opc \in {"defaults", "devices"} /\ failures < MaxFailures
    /\ failures' = failures + 1
    /\ taken' = IF goal = "current" THEN previous ELSE taken
    /\ blind' = (blind \/ goal = "current")
    /\ defaultRead' = NoEndpoint
    /\ opc' = IF goal = "rescan" THEN "retry" ELSE AfterSnapshot
    /\ UNCHANGED <<systemVars, goal, mpc, clientVars>>

\* The client may not be allocated, or not be registered.
Register ==
    /\ opc = "register"
    /\ \/ /\ registered' = TRUE /\ client' = "held"
          /\ opc' = "defaults" /\ goal' = "current"
       \/ /\ client' \in {"none", "freed"}
          /\ opc' = "failed" /\ UNCHANGED <<registered, goal>>
    /\ UNCHANGED <<worldVars, notes, wake, scanVars, mpc, clientVars>>

StartLoop ==
    /\ opc = "ready" /\ mpc = "returned"
    /\ opc' = "loop" /\ goal' = "rescan"
    /\ UNCHANGED <<systemVars, scanVars, mpc, clientVars>>

LoopTop ==
    /\ opc = "loop"
    /\ opc' = IF stopLoop THEN "unregister" ELSE "select"
    /\ UNCHANGED <<systemVars, goal, scanVars, mpc, clientVars>>

LoopSelect ==
    /\ opc = "select"
    /\ \/ stopLoop /\ opc' = "unregister" /\ UNCHANGED wake
       \/ wake /\ wake' = FALSE /\ opc' = "defaults"
    /\ UNCHANGED <<worldVars, comVars, goal, scanVars, mpc, clientVars>>

Retry_Forget ==
    /\ opc = "retry"
    /\ opc' = IF stopLoop THEN "unregister" ELSE "loop"
    /\ UNCHANGED <<systemVars, goal, scanVars, mpc, clientVars>>
\* The timer, unless stop comes first.
Retry ==
    /\ opc = "retry"
    /\ \/ stopLoop /\ opc' = "unregister" /\ UNCHANGED wake
       \/ wake' = TRUE /\ opc' = "loop"
    /\ UNCHANGED <<worldVars, comVars, goal, scanVars, mpc, clientVars>>

\* unregisterAndRelease: a client that could not be unregistered is kept.
Unregister ==
    /\ opc = "unregister"
    /\ registered' \in BOOLEAN
    /\ notes' = IF registered' THEN notes ELSE 0
    /\ client' = IF registered' THEN "held" ELSE "freed"
    /\ opc' = "done"
    /\ UNCHANGED <<worldVars, wake, goal, scanVars, mpc, clientVars>>

-----------------------------------------------------------------------------
(* publish, by the owner after a snapshot and by watchEndpoints before the   *)
(* owner's loop begins.                                                    *)

Publish ==
    /\ \/ /\ opc = "publish" /\ opc' = "wake" /\ UNCHANGED mpc
       \/ /\ mpc = "publish" /\ mpc' = "wake" /\ UNCHANGED opc
    /\ latest' = taken
    /\ UNCHANGED <<systemVars, goal, scanVars, dispatchWake, dispatchState,
                   dispatchVars, stopVars>>

PublishWake ==
    /\ \/ /\ opc = "wake" /\ opc' = "loop" /\ UNCHANGED mpc
       \/ /\ mpc = "wake" /\ mpc' = "returned" /\ UNCHANGED opc
    /\ dispatchWake' = TRUE
    /\ UNCHANGED <<systemVars, goal, scanVars, latest, dispatchState,
                   dispatchVars, stopVars>>

\* watchEndpoints, when the owner is ready or has given up.
WatchStart ==
    /\ mpc = "setup"
    /\ \/ opc = "ready" /\ mpc' = "publish" /\ dpc' = "select"
       \/ opc = "failed" /\ mpc' = "failed" /\ UNCHANGED dpc
    /\ UNCHANGED <<systemVars, ownerVars, publishVars, dispatchState, previous,
                   events, loaded, view, stopVars>>

-----------------------------------------------------------------------------
(* dispatch and dispatchEvent.                                             *)

DispatchSelect ==
    /\ dpc = "select"
    /\ \/ dispatchStop /\ dpc' = "done" /\ UNCHANGED dispatchWake
       \/ dispatchWake /\ dispatchWake' = FALSE /\ dpc' = "read"
    /\ UNCHANGED <<systemVars, ownerVars, mpc, latest, dispatchState, previous,
                   events, loaded, view, stopVars>>

NextEvent(batch) == IF batch = {} THEN "select" ELSE "admit"

DispatchRead ==
    /\ dpc = "read"
    /\ events' = Diff(previous, latest)
    /\ previous' = latest
    /\ dpc' = NextEvent(events')
    /\ UNCHANGED <<systemVars, ownerVars, mpc, publishVars, dispatchState,
                   loaded, view, stopVars>>

AdmitLoad ==
    /\ dpc = "admit"
    /\ loaded' = dispatchState
    /\ dpc' = IF loaded'.cancelled \/ loaded'.active THEN "done" ELSE "swap"
    /\ UNCHANGED <<systemVars, ownerVars, mpc, publishVars, dispatchState,
                   previous, events, view, stopVars>>

AdmitSwap_Store ==
    /\ dpc = "swap"
    /\ dispatchState' = [loaded EXCEPT !.active = TRUE]
    /\ dpc' = "callback"
    /\ \E event \in events : First(event, events) /\ view' = Told(view, event)
    /\ loaded' = Unloaded
    /\ UNCHANGED <<systemVars, ownerVars, mpc, publishVars, previous, events,
                   stopVars>>
AdmitSwap ==
    /\ dpc = "swap"
    /\ \/ /\ dispatchState = loaded
          /\ dispatchState' = [loaded EXCEPT !.active = TRUE]
          /\ dpc' = "callback"
          /\ \E event \in events : First(event, events) /\ view' = Told(view, event)
       \/ /\ dispatchState # loaded
          /\ dpc' = "admit" /\ UNCHANGED <<dispatchState, view>>
    /\ loaded' = Unloaded
    /\ UNCHANGED <<systemVars, ownerVars, mpc, publishVars, previous, events,
                   stopVars>>

\* The callback returns from the stop it called before it returns itself.
CallbackReturn ==
    /\ dpc = "callback" /\ spc[Callback] \in {"idle", "returned"}
    /\ dpc' = "finish"
    /\ UNCHANGED <<systemVars, ownerVars, mpc, publishVars, dispatchState,
                   previous, events, loaded, view, stopVars>>

FinishLoad ==
    /\ dpc = "finish"
    /\ loaded' = dispatchState
    /\ dpc' = "finishSwap"
    /\ UNCHANGED <<systemVars, ownerVars, mpc, publishVars, dispatchState,
                   previous, events, view, stopVars>>

FinishSwap ==
    /\ dpc = "finishSwap"
    /\ \/ /\ dispatchState = loaded
          /\ dispatchState' = [loaded EXCEPT !.active = FALSE]
          /\ \E event \in events : First(event, events) /\ events' = events \ {event}
          /\ dpc' = NextEvent(events')
       \/ /\ dispatchState # loaded
          /\ dpc' = "finish" /\ UNCHANGED <<dispatchState, events>>
    /\ loaded' = Unloaded
    /\ UNCHANGED <<systemVars, ownerVars, mpc, publishVars, previous, view,
                   stopVars>>

-----------------------------------------------------------------------------
(* stop.  The callback can call it once watchEndpoints has returned it.    *)

StopVarsBut(s, there) == spc' = [spc EXCEPT ![s] = there]

CallStop(s) ==
    /\ spc[s] = "idle" /\ mpc = "returned"
    /\ s = Callback => dpc = "callback"
    /\ StopVarsBut(s, "once")
    /\ UNCHANGED <<systemVars, ownerVars, mpc, publishVars, dispatchState,
                   dispatchVars, cancelLoaded, stopLoop, dispatchStop, once>>

\* stopOnce.Do: who comes second waits for the first.
EnterOnce(s) ==
    /\ spc[s] = "once"
    /\ \/ once = "new" /\ once' = "busy" /\ StopVarsBut(s, "cancel")
       \/ once = "done" /\ UNCHANGED once /\ StopVarsBut(s, "returned")
    /\ UNCHANGED <<systemVars, ownerVars, mpc, publishVars, dispatchState,
                   dispatchVars, cancelLoaded, stopLoop, dispatchStop>>

CancelLoad(s) ==
    /\ spc[s] = "cancel"
    /\ cancelLoaded' = dispatchState
    /\ StopVarsBut(s, IF cancelLoaded'.cancelled THEN "close" ELSE "swap")
    /\ UNCHANGED <<systemVars, ownerVars, mpc, publishVars, dispatchState,
                   dispatchVars, stopLoop, dispatchStop, once>>

CancelSwap(s) ==
    /\ spc[s] = "swap"
    /\ \/ /\ dispatchState = cancelLoaded
          /\ dispatchState' = [cancelLoaded EXCEPT !.cancelled = TRUE]
          /\ StopVarsBut(s, "close")
       \/ /\ dispatchState # cancelLoaded
          /\ StopVarsBut(s, "cancel") /\ UNCHANGED dispatchState
    /\ cancelLoaded' = Unloaded
    /\ UNCHANGED <<systemVars, ownerVars, mpc, publishVars, dispatchVars,
                   stopLoop, dispatchStop, once>>

CloseLoop(s) ==
    /\ spc[s] = "close"
    /\ stopLoop' = TRUE
    /\ StopVarsBut(s, "await")
    /\ UNCHANGED <<systemVars, ownerVars, mpc, publishVars, dispatchState,
                   dispatchVars, cancelLoaded, dispatchStop, once>>

StopReturn_Join(s) ==
    /\ spc[s] = "await" /\ opc = "done" /\ dpc # "callback"
    /\ dispatchStop' = TRUE
    /\ once' = "done"
    /\ StopVarsBut(s, "returned")
    /\ UNCHANGED <<systemVars, ownerVars, mpc, publishVars, dispatchState,
                   dispatchVars, cancelLoaded, stopLoop>>
\* Waits for the owner, not for the dispatcher.
StopReturn(s) ==
    /\ spc[s] = "await" /\ opc = "done"
    /\ dispatchStop' = TRUE
    /\ once' = "done"
    /\ StopVarsBut(s, "returned")
    /\ UNCHANGED <<systemVars, ownerVars, mpc, publishVars, dispatchState,
                   dispatchVars, cancelLoaded, stopLoop>>

-----------------------------------------------------------------------------
\* runCOMOwner, and watchEndpoints, which run one after the other: each waits
\* while the other acts.
Owner ==
    \/ OwnerStart \/ SnapshotDefaults \/ SnapshotDevices \/ SnapshotFails
    \/ Register \/ StartLoop \/ LoopTop \/ LoopSelect \/ Retry \/ Unregister
    \/ Publish \/ PublishWake \/ WatchStart
Dispatcher ==
    \/ DispatchSelect \/ DispatchRead \/ AdmitLoad \/ AdmitSwap
    \/ CallbackReturn \/ FinishLoad \/ FinishSwap
Stopping(s) ==
    EnterOnce(s) \/ CancelLoad(s) \/ CancelSwap(s) \/ CloseLoop(s) \/ StopReturn(s)

WatchNext ==
    \/ Change \/ Notify
    \/ Owner
    \/ Dispatcher
    \/ \E s \in Stoppers : CallStop(s) \/ Stopping(s)

\* The threads run, callbacks return, and the system delivers what it owes;
\* nobody need stop the watch.
WatchSpec ==
    /\ WatchInit /\ [][WatchNext]_watchVars
    /\ WF_watchVars(Notify) /\ WF_watchVars(Owner)
    /\ WF_watchVars(Dispatcher)
    /\ \A s \in Stoppers : WF_watchVars(Stopping(s))

-----------------------------------------------------------------------------
\* No callback begins once somebody's stop has cancelled the dispatch, and so
\* none after stop has returned to anybody: the promise of dispatchEvent that
\* cancellation prevents every later admission.
NoLateCallback ==
    [][\A s \in Stoppers :
          dpc' = "callback" /\ dpc # "callback"
              => spc[s] \notin {"close", "await", "returned"}]_watchVars

\* The callbacks tell the differences exactly: when a batch is through, a client
\* that began with the baseline and applied the events has the snapshot, the
\* default endpoint included.
EventsTellSnapshot == dpc \in {"select", "read"} => view = previous

\* Every stop returns, also one called by the callback, and one that comes
\* second while the first waits: since nobody calls it twice, nobody being in it
\* again and again means that everybody gets out.
StopReturns == []<>(\A s \in Stoppers : spc[s] \in {"idle", "returned"})

\* In the end the client knows the endpoints there are, whatever came between a
\* notification and its snapshot, and although notifications coalesce; unless
\* the watch was stopped, could not be set up, or failed to see the endpoints
\* after it had registered.
ClientUpToDate ==
    <>[](view = world \/ blind \/ stopLoop \/ dispatchState.cancelled
            \/ mpc = "failed")
=============================================================================
