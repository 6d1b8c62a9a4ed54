---------------------------- MODULE WasapiSession ----------------------------
(***************************************************************************)
(* How a WASAPI stream comes by its COM objects and gives them back        *)
(* (internal/wasapi: stream, capture, duplex and exclusive files).  Open   *)
(* probes every endpoint on a thread of its own, keeps what it learnt as   *)
(* plain data and releases everything; Start acquires again on the stream  *)
(* thread, compares with what Open learnt, and undoes everything when a    *)
(* step fails; Stop releases.  Interrupt comes from another goroutine at   *)
(* any time and signals a Windows event that Start creates and Stop        *)
(* closes.  WasapiStream adds what happens between Start and Stop.         *)
(*                                                                         *)
(* What an endpoint offers (mix format, engine period, buffer, latency,    *)
(* clock frequency) is one value of Offers; it may change once.            *)
(***************************************************************************)
EXTENDS CaptureStager

CONSTANTS Modes,    \* the kinds of stream the instance opens
          Offers    \* what an endpoint may offer

VARIABLES
    mode,       \* the kind of stream the request asks for
    phase,      \* where the stream is in its life
    side, step, \* the endpoint being acquired, and the step of its chain
    err,        \* what Open or Start answered, "none" while all is well
    field,      \* per side: the objects the code's fields and locals name
    live,       \* per side: the objects that exist
    offer,      \* per side: what the endpoint offers now
    changes,    \* the changes of an offer still to come
    opened,     \* per side: what Open learnt of format and of buffer
    granted,    \* per side: what the initialised client works with
    todo,       \* the sides still to be cleaned up
    signalled,  \* the auto-reset events that are set
    requested,  \* the sides whose interruptRequested is set
    caller      \* what is left of the call of Interrupt

session == <<mode, phase, side, step, err, field, live, offer, changes, opened,
             granted, todo, signalled, requested, caller>>

AllModes == {"render", "capture", "loopback", "duplex", "exclusiveRender", "exclusiveCapture"}
ASSUME SessionAssumption == Modes \subseteq AllModes

Exclusive == mode \in {"exclusiveRender", "exclusiveCapture"}
AllSides == {"capture", "render"}

(* Open hands a request with both endpoints to the duplex stream, which    *)
(* opens and starts the capture side first.                                *)
SidesOf(m) ==
    CASE m = "duplex" -> <<"capture", "render">>
      [] m \in {"render", "exclusiveRender"} -> <<"render">>
      [] OTHER -> <<"capture">>

Objects == {"com", "enumerator", "device", "client", "audio", "interrupt",
            "service", "clock", "running"}
None == "none"
Errors == {"lost", "busy", "unsupported", "format", "other"}

-----------------------------------------------------------------------------
(* The chains of steps.  "check" compares the formats (and the period      *)
(* range) before the client is initialised, "recheck" what it was granted. *)

ProbeRender == <<"com", "enumerator", "device", "client", "check", "event", "init", "recheck">>
ProbeCapture == <<"com", "enumerator", "device", "client", "check", "event", "init", "recheck">>
ProbeExclusiveRender ==
    <<"com", "enumerator", "device", "client", "check", "init", "event", "recheck">>
ProbeExclusiveCapture ==
    <<"com", "enumerator", "device", "client", "check", "init", "event", "recheck">>
StartRender == <<"com", "enumerator", "device", "client", "check", "events", "init",
                 "recheck", "service", "clock", "prime", "start", "sample">>
StartCapture == <<"com", "enumerator", "device", "client", "check", "events", "init",
                  "recheck", "service", "start">>
StartExclusiveRender == <<"com", "enumerator", "device", "client", "check", "init",
                          "recheck", "events", "service", "prime", "start">>
StartExclusiveCapture == <<"com", "enumerator", "device", "client", "check", "init",
                           "recheck", "events", "service", "start">>

Chain ==
    IF phase = "open"
    THEN CASE mode = "exclusiveRender" -> ProbeExclusiveRender
           [] mode = "exclusiveCapture" -> ProbeExclusiveCapture
           [] ~Exclusive /\ side = "render" -> ProbeRender
           [] OTHER -> ProbeCapture
    ELSE CASE mode = "exclusiveRender" -> StartExclusiveRender
           [] mode = "exclusiveCapture" -> StartExclusiveCapture
           [] ~Exclusive /\ side = "render" -> StartRender
           [] OTHER -> StartCapture

AtStep(name) == phase \in {"open", "start"} /\ err = None /\ step <= Len(Chain) /\ Chain[step] = name

(* What a step acquires. *)
Gets(name) ==
    CASE name = "event" -> {"audio"}
      [] name = "events" -> {"audio", "interrupt"}
      [] name = "start" -> {"running"}
      [] name \in Objects -> {name}
      [] OTHER -> {}

(* The errors of a step: an invalidated device answers ErrLost everywhere, *)
(* the rest is classified call by call.                                    *)
HResultErrors == {"lost", "other"}
GetDeviceErrors == {"lost", "other"}
ActivateErrors == {"lost", "other", "unsupported"}
InitializeErrors == {"lost", "unsupported", "format"}
ExclusiveErrors == {"lost", "busy", "unsupported", "format", "other"}
ErrorsOf(name) ==
    CASE name \in {"com", "event", "events"} -> {"other"}
      [] name = "device" -> GetDeviceErrors
      [] Exclusive /\ name \in {"client", "check", "init", "recheck", "start", "prime"} -> ExclusiveErrors
      [] ~Exclusive /\ name = "client" -> ActivateErrors
      [] ~Exclusive /\ name = "init" -> InitializeErrors
      [] OTHER -> HResultErrors \cup {"format"}

-----------------------------------------------------------------------------
Init ==
    /\ mode \in Modes
    /\ phase = "open" /\ side = SidesOf(mode)[1] /\ step = 1 /\ err = None
    /\ field = [d \in AllSides |-> {}] /\ live = field
    /\ offer = [d \in AllSides |-> CHOOSE o \in Offers : TRUE] /\ changes = 1
    /\ opened = [d \in AllSides |-> [format |-> None, buffer |-> None]]
    /\ granted = [d \in AllSides |-> None]
    /\ todo = <<>> /\ signalled = {} /\ requested = {}
    /\ caller = LET one(d) == <<<<"flag", d>>, <<"signal", d>>>>
                IN  IF mode = "duplex" THEN one("capture") \o one("render")
                    ELSE one(SidesOf(mode)[1])

(* The audio engine may be reconfigured between any two calls, from the    *)
(* moment Open has looked at the endpoint's format.                        *)
EndpointChanges ==
    /\ changes > 0 /\ phase \in {"open", "opened", "start"}
    /\ \E d \in {SidesOf(mode)[i] : i \in DOMAIN SidesOf(mode)}, o \in Offers :
            /\ o # offer[d] /\ opened[d].format # None
            /\ offer' = [offer EXCEPT ![d] = o]
    /\ changes' = changes - 1
    /\ UNCHANGED <<mode, phase, side, step, err, field, live, opened, granted, todo,
                   signalled, requested, caller>>

Environment == UNCHANGED <<mode, offer, changes, requested, caller>>

(* A step that acquires: the field is set when the object exists.  Events  *)
(* are created both or not at all, and an interrupt requested before its   *)
(* event existed is signalled now.                                         *)
Acquire ==
    /\ phase \in {"open", "start"} /\ err = None /\ step <= Len(Chain)
    /\ Chain[step] \notin {"check", "init", "recheck", "sample", "prime"}
    /\ live' = [live EXCEPT ![side] = @ \cup Gets(Chain[step])]
    /\ field' = [field EXCEPT ![side] = @ \cup Gets(Chain[step])]
    /\ step' = step + 1
    /\ signalled' = IF Chain[step] = "events" /\ side \in requested
                    THEN signalled \cup {<<side, "interrupt">>} ELSE signalled
    /\ UNCHANGED <<phase, side, err, opened, granted, todo>> /\ Environment

(* The mix format, or the exclusive format, is what Open will go by; Start *)
(* refuses any other.                                                      *)
Check ==
    /\ AtStep("check")
    /\ IF phase = "open"
       THEN opened' = [opened EXCEPT ![side].format = offer[side]]
       ELSE offer[side] = opened[side].format /\ UNCHANGED opened
    /\ step' = step + 1
    /\ UNCHANGED <<phase, side, err, field, live, granted, todo, signalled>> /\ Environment

(* Initialize fixes what the client works with.                            *)
Initialize ==
    /\ AtStep("init") /\ "client" \in field[side]
    /\ granted' = [granted EXCEPT ![side] = offer[side]]
    /\ step' = step + 1
    /\ UNCHANGED <<phase, side, err, field, live, opened, todo, signalled>> /\ Environment

(* An exclusive endpoint may refuse the buffer as not aligned: the client  *)
(* is released, its field cleared, and a new one activated and initialised *)
(* with the aligned duration.                                              *)
X_Misaligned ==
    /\ AtStep("init") /\ Exclusive /\ "client" \in field[side]
    /\ live' = [live EXCEPT ![side] = @ \ {"client"}]
    /\ UNCHANGED <<phase, side, step, err, field, opened, granted, todo, signalled>> /\ Environment

Misaligned ==
    /\ AtStep("init") /\ Exclusive /\ "client" \in field[side]
    /\ live' = [live EXCEPT ![side] = @ \ {"client"}]
    /\ field' = [field EXCEPT ![side] = @ \ {"client"}]
    /\ UNCHANGED <<phase, side, step, err, opened, granted, todo, signalled>> /\ Environment

Reactivate ==
    /\ AtStep("init") /\ "client" \notin field[side]
    /\ live' = [live EXCEPT ![side] = @ \cup {"client"}]
    /\ field' = [field EXCEPT ![side] = @ \cup {"client"}]
    /\ granted' = [granted EXCEPT ![side] = offer[side]]
    /\ step' = step + 1
    /\ UNCHANGED <<phase, side, err, opened, todo, signalled>> /\ Environment

(* What the client was granted is read back: Open takes the buffer from    *)
(* it, Start refuses another.  Both compare the format again; a loopback   *)
(* client has no engine period to compare.                                 *)
X_RecheckNothing ==
    /\ AtStep("recheck")
    /\ IF phase = "open"
       THEN opened' = [opened EXCEPT ![side].buffer = granted[side]]
       ELSE UNCHANGED opened
    /\ step' = step + 1
    /\ UNCHANGED <<phase, side, err, field, live, granted, todo, signalled>> /\ Environment

Recheck ==
    /\ AtStep("recheck")
    /\ mode \notin {"loopback", "exclusiveRender", "exclusiveCapture"} =>
           granted[side] = opened[side].format
    /\ IF phase = "open"
       THEN opened' = [opened EXCEPT ![side].buffer = granted[side]]
       ELSE granted[side] = opened[side].buffer /\ UNCHANGED opened
    /\ step' = step + 1
    /\ UNCHANGED <<phase, side, err, field, live, granted, todo, signalled>> /\ Environment

(* Priming the render buffer and the first sample of its clock acquire     *)
(* nothing.                                                                *)
Prepare ==
    /\ AtStep("prime") \/ AtStep("sample")
    /\ step' = step + 1
    /\ UNCHANGED <<phase, side, err, field, live, opened, granted, todo, signalled>>
    /\ Environment

(* A step that fails, for a reason of its own or because what it compares  *)
(* has changed.                                                            *)
StepFails ==
    /\ phase \in {"open", "start"} /\ err = None /\ step <= Len(Chain)
    /\ err' \in ErrorsOf(Chain[step])
    /\ UNCHANGED <<phase, side, step, field, live, opened, granted, todo, signalled>>
    /\ Environment

-----------------------------------------------------------------------------
(* withSTA and the deferred releases of a probe: whatever it holds is      *)
(* given back, then the answer is looked at.  Duplex goes on to the second *)
(* endpoint, and refuses two that do not share rate and geometry.          *)
ProbeEnds ==
    /\ phase = "open" /\ (err # None \/ step > Len(Chain))
    /\ live' = [live EXCEPT ![side] = @ \ field[side]]
    /\ field' = [field EXCEPT ![side] = {}]
    /\ IF err # None
       THEN phase' = "failed" /\ UNCHANGED <<side, step, err>>
       ELSE \/ /\ mode = "duplex" /\ side = "capture"
               /\ side' = "render" /\ step' = 1 /\ UNCHANGED <<phase, err>>
            \/ /\ mode = "duplex" /\ side = "render"
               /\ IF opened["capture"] = opened["render"]
                  THEN phase' = "opened" /\ UNCHANGED err
                  ELSE phase' = "failed" /\ err' = "format"
               /\ UNCHANGED <<side, step>>
            \/ /\ mode # "duplex"
               /\ phase' = "opened" /\ UNCHANGED <<side, step, err>>
    /\ UNCHANGED <<opened, todo, signalled>> /\ granted' = [granted EXCEPT ![side] = None]
    /\ Environment

Start ==
    /\ phase = "opened"
    /\ phase' = "start" /\ side' = SidesOf(mode)[1] /\ step' = 1
    /\ UNCHANGED <<err, field, live, opened, granted, todo, signalled>> /\ Environment

(* A side has started; an interrupt that came meanwhile is signalled       *)
(* again.  Duplex goes on to the render side; what the endpoints offer is  *)
(* not looked at any more.                                                 *)
SideStarted ==
    /\ phase = "start" /\ err = None /\ step > Len(Chain)
    /\ signalled' = IF side \in requested THEN signalled \cup {<<side, "interrupt">>} ELSE signalled
    /\ IF mode = "duplex" /\ side = "capture"
       THEN side' = "render" /\ step' = 1 /\ UNCHANGED <<phase, offer, changes>>
       ELSE /\ phase' = "run" /\ UNCHANGED <<side, step>>
            /\ offer' = [d \in AllSides |-> opened[SidesOf(mode)[1]].format] /\ changes' = 0
    /\ UNCHANGED <<mode, err, field, live, opened, granted, todo, requested, caller>>

(* The capture side of a duplex stream has started by the time the render  *)
(* side fails: it is stopped too.                                          *)
ToUndo == IF mode = "duplex" /\ side = "render" THEN <<"render", "capture">> ELSE <<side>>

(* Start failed: what it acquired is given back.                           *)
StartFails ==
    /\ phase = "start" /\ err # None
    /\ phase' = "clean"
    /\ todo' = ToUndo
    /\ UNCHANGED <<side, step, err, field, live, opened, granted, signalled>> /\ Environment

(* cleanupOnStreamThread: the client is stopped, every object released,    *)
(* the audio event closed; ...                                             *)
ReleaseObjects ==
    /\ phase = "clean" /\ todo # <<>>
    /\ LET d == Head(todo)
           gone == field[d] \ {"interrupt", "com"}
       IN  /\ gone # {}
           /\ live' = [live EXCEPT ![d] = @ \ gone]
           /\ field' = [field EXCEPT ![d] = @ \ gone]
           /\ signalled' = signalled \ {<<d, "audio">>}
           /\ granted' = [granted EXCEPT ![d] = None]
    /\ UNCHANGED <<phase, side, step, err, opened, todo>> /\ Environment

(* ... then, under interruptMu, the interrupt event is closed and its      *)
(* field cleared; COM goes last.                                           *)
CloseInterrupt ==
    /\ phase = "clean" /\ todo # <<>>
    /\ LET d == Head(todo)
       IN  /\ field[d] \subseteq {"interrupt", "com"}
           /\ live' = [live EXCEPT ![d] = @ \ field[d]]
           /\ field' = [field EXCEPT ![d] = {}]
           /\ signalled' = signalled \ {<<d, "interrupt">>}
    /\ todo' = Tail(todo)
    /\ phase' = IF Tail(todo) = <<>> THEN "stopped" ELSE phase
    /\ UNCHANGED <<side, step, err, opened, granted>> /\ Environment

-----------------------------------------------------------------------------
(* Interrupt, from another goroutine, from the moment Open has returned:   *)
(* the flag, then under interruptMu the event if there is one; a duplex    *)
(* stream interrupts both sides, one after the other.                      *)
X_InterruptFlagOnly ==
    /\ caller # <<>> /\ phase \notin {"open", "failed"}
    /\ LET d == Head(caller)[2]
       IN  /\ requested' = IF Head(caller)[1] = "flag" THEN requested \cup {d} ELSE requested
           /\ UNCHANGED signalled
    /\ caller' = Tail(caller)
    /\ UNCHANGED <<mode, phase, side, step, err, field, live, offer, changes, opened,
                   granted, todo>>

Interrupt ==
    /\ caller # <<>> /\ phase \notin {"open", "failed"}
    /\ LET d == Head(caller)[2]
       IN  IF Head(caller)[1] = "flag"
           THEN requested' = requested \cup {d} /\ UNCHANGED signalled
           ELSE /\ signalled' = IF "interrupt" \in field[d]
                                THEN signalled \cup {<<d, "interrupt">>} ELSE signalled
                /\ UNCHANGED requested
    /\ caller' = Tail(caller)
    /\ UNCHANGED <<mode, phase, side, step, err, field, live, offer, changes, opened,
                   granted, todo>>

SessionThread ==
    \/ Acquire \/ Check \/ Initialize \/ Misaligned \/ Reactivate \/ Recheck \/ Prepare
    \/ StepFails \/ ProbeEnds \/ Start \/ SideStarted \/ StartFails \/ ReleaseObjects
    \/ CloseInterrupt

-----------------------------------------------------------------------------
(* The code's fields name exactly the objects that exist, whichever step   *)
(* failed and whoever released: nothing is released twice, no event that   *)
(* is closed can be signalled; and nothing is left after Open has          *)
(* answered, after a Start that failed, or after Stop.                     *)
HandlesExact ==
    /\ field = live
    /\ phase \in {"opened", "failed", "stopped"} => \A d \in AllSides : live[d] = {}

(* A client runs only with the buffer, and but for loopback the format,    *)
(* that Open told the caller of, however the endpoint changed meanwhile;   *)
(* two clients that run together have the same geometry.                   *)
StartedAsOpened ==
    /\ \A d \in AllSides :
           "running" \in live[d] => granted[d] = opened[d].buffer
    /\ \A d, e \in AllSides :
           "running" \in live[d] /\ "running" \in live[e] => granted[d] = granted[e]
=============================================================================
