----------------------------- MODULE WasapiProofs ----------------------------
(***************************************************************************)
(* For any period, endpoint buffer and kinds of streams: the fields of a   *)
(* stream name the objects that exist, and a client runs with what Open    *)
(* told the caller of; every period is a run of frames at the position     *)
(* told with it, and every loss is counted; no wake-up and no interrupt is *)
(* lost; and the stream answers the core as the driver's contract says.    *)
(*                                                                         *)
(* The first part is about the session, the second about the loop between  *)
(* Start and Stop, which needs of the session only the phase; the third is *)
(* about the watch of the endpoints, which stands beside the streams.      *)
(***************************************************************************)
EXTENDS WasapiStream, EndpointWatch, SequenceTheorems, TLAPS

HasSide(d) == IF d = "capture" THEN Capturing ELSE Rendering
Todos == {<<>>, <<"capture">>, <<"render">>, <<"capture", "render">>, <<"render", "capture">>}
Phases == {"open", "opened", "failed", "start", "run", "clean", "stopped"}
Listed(d) == \E i \in 1 .. Len(todo) : todo[i] = d

SessionType ==
    /\ mode \in AllModes /\ side \in AllSides /\ step \in Nat \ {0} /\ phase \in Phases
    /\ live \in [AllSides -> SUBSET Objects] /\ field = live
    /\ granted = [d \in AllSides |-> granted[d]]
    /\ todo \in Todos

\* What a side holds, in which phase: while one is probed the other holds
\* nothing, and all that is held when Start fails or Stop begins is listed.
HandleInv ==
    /\ phase \in {"open", "start"} => HasSide(side)
    /\ \A d \in AllSides : live[d] # {} =>
        /\ HasSide(d)
        /\ phase \notin {"opened", "failed", "stopped"}
        /\ phase = "open" => d = side
        /\ phase = "start" => d = side \/ (mode = "duplex" /\ side = "render")
        /\ phase = "clean" => Listed(d)
    /\ phase = "clean" => todo # <<>>

\* The step of Start that compares what the client was granted.
RecheckAt == IF Exclusive THEN 7 ELSE 8
GrantedAsOpened(d) == granted[d] = opened[d].buffer

\* A client that runs has passed it, and its grant has not changed since; two
\* endpoints of different geometry were refused by Open.
RunInv ==
    /\ \A d \in AllSides : "running" \in live[d] =>
         /\ GrantedAsOpened(d)
         /\ phase \in {"start", "run", "clean"}
         /\ phase = "start" /\ d = side => step > RecheckAt
    /\ phase = "start" /\ step > RecheckAt => GrantedAsOpened(side)
    /\ mode = "duplex" /\ phase \in {"opened", "start", "run", "clean"}
          => opened["capture"] = opened["render"]

SessionInv == SessionType /\ HandleInv /\ RunInv

-----------------------------------------------------------------------------
(* The chains and the lists.                                               *)

\* A probe never starts a client; Start does so after the comparison, which
\* follows what is compared.
LEMMA ChainFacts ==
  ASSUME mode \in AllModes, side \in AllSides, phase \in {"open", "start"},
         step \in Nat \ {0}, step <= Len(Chain)
  PROVE  /\ phase = "open" => Chain[step] \notin {"start", "running"}
         /\ phase = "start" =>
              /\ Chain[step] \in {"start", "running"} => step > RecheckAt
              /\ Chain[step] = "init" => step < RecheckAt
              /\ step = RecheckAt => Chain[step] = "recheck"
<1>1. CASE phase = "open"
  <2>1. step \in 1 .. 8
    BY <1>1 DEF Chain, ProbeExclusiveRender, ProbeExclusiveCapture, ProbeRender, ProbeCapture
  <2>2. QED
    BY <1>1, <2>1 DEF Chain, ProbeExclusiveRender, ProbeExclusiveCapture, ProbeRender, ProbeCapture
<1>2. CASE phase = "start" /\ mode = "exclusiveRender"
  <2>1. Chain = StartExclusiveRender /\ RecheckAt = 7
    BY <1>2 DEF Chain, RecheckAt, Exclusive
  <2>2. step \in 1 .. 11
    BY <2>1 DEF StartExclusiveRender
  <2>3. QED
    BY <1>2, <2>1, <2>2 DEF StartExclusiveRender
<1>3. CASE phase = "start" /\ mode = "exclusiveCapture"
  <2>1. Chain = StartExclusiveCapture /\ RecheckAt = 7
    BY <1>3 DEF Chain, RecheckAt, Exclusive
  <2>2. step \in 1 .. 10
    BY <2>1 DEF StartExclusiveCapture
  <2>3. QED
    BY <1>3, <2>1, <2>2 DEF StartExclusiveCapture
<1>4. CASE phase = "start" /\ ~Exclusive /\ side = "render"
  <2>1. Chain = StartRender /\ RecheckAt = 8
    BY <1>4 DEF Chain, RecheckAt, Exclusive
  <2>2. step \in 1 .. 13
    BY <2>1 DEF StartRender
  <2>3. QED
    BY <1>4, <2>1, <2>2 DEF StartRender
<1>5. CASE phase = "start" /\ ~Exclusive /\ side = "capture"
  <2>1. Chain = StartCapture /\ RecheckAt = 8
    BY <1>5 DEF Chain, RecheckAt, Exclusive
  <2>2. step \in 1 .. 10
    BY <2>1 DEF StartCapture
  <2>3. QED
    BY <1>5, <2>1, <2>2 DEF StartCapture
<1>6. QED
  BY <1>1, <1>2, <1>3, <1>4, <1>5 DEF AllSides, Exclusive

\* What a handle that is obtained adds.
LEMMA GetsFacts ==
  ASSUME NEW name
  PROVE  /\ Gets(name) \subseteq Objects
         /\ "running" \in Gets(name) => name \in {"start", "running"}
<1>1. CASE name \in {"event", "events", "start"}
  BY <1>1 DEF Gets, Objects
<1>2. CASE name \notin {"event", "events", "start"} /\ name \in Objects
  BY <1>2 DEF Gets
<1>3. CASE name \notin {"event", "events", "start"} /\ name \notin Objects
  BY <1>3 DEF Gets
<1>4. QED
  BY <1>1, <1>2, <1>3

\* The first of the list, and those after it.
LEMMA TodoFacts ==
  ASSUME todo \in Todos, todo # <<>>
  PROVE  /\ Head(todo) \in AllSides /\ Tail(todo) \in Todos
         /\ \A d : Listed(d) => d = Head(todo) \/ \E i \in 1 .. Len(Tail(todo)) : Tail(todo)[i] = d
<1>1. CASE todo \in {<<"capture">>, <<"render">>}
  <2> DEFINE capture == <<"capture">>
             render == <<"render">>
  <2>a. capture \in Seq(AllSides) /\ capture # <<>> /\ Len(capture) = 1
    BY DEF AllSides
  <2>b. render \in Seq(AllSides) /\ render # <<>> /\ Len(render) = 1
    BY DEF AllSides
  <2>1. todo \in Seq(AllSides) /\ todo # <<>> /\ Len(todo) = 1
    BY <1>1, <2>a, <2>b
  <2>2. Tail(todo) \in Seq(AllSides) /\ Len(Tail(todo)) = 0
    BY <2>1, HeadTailProperties
  <2>3. Tail(todo) = <<>>
    BY <2>2, EmptySeq
  <2>4. QED
    BY <1>1, <2>1, <2>2, <2>3 DEF Todos, AllSides, Listed
<1>2. CASE todo = <<"capture", "render">>
  <2>1. Tail(todo) = <<"render">> /\ Len(todo) = 2 /\ Len(<<"render">>) = 1
    BY <1>2
  <2>2. QED
    BY <1>2, <2>1 DEF Todos, AllSides, Listed
<1>3. CASE todo = <<"render", "capture">>
  <2>1. Tail(todo) = <<"capture">> /\ Len(todo) = 2 /\ Len(<<"capture">>) = 1
    BY <1>3
  <2>2. QED
    BY <1>3, <2>1 DEF Todos, AllSides, Listed
<1>4. QED
  BY <1>1, <1>2, <1>3 DEF Todos

-----------------------------------------------------------------------------
(* The session.                                                            *)

\* The invariant of the handles holds before Open.
LEMMA SessionInit == StreamInit => SessionInv
<1> SUFFICES ASSUME StreamInit PROVE SessionInv
  OBVIOUS
<1> USE DEF StreamInit, Init
<1>1. mode \in AllModes
  BY SessionAssumption
<1>2. side \in AllSides /\ HasSide(side)
  BY <1>1 DEF AllModes, SidesOf, AllSides, HasSide, Capturing, Rendering
<1>3. \A d \in AllSides : live[d] = {}
  OBVIOUS
<1>4. QED
  BY <1>1, <1>2, <1>3 DEF SessionInv, SessionType, HandleInv, RunInv, Phases, Todos

\* Whoever changes no object and no grant, goes to no other phase, side or
\* list, and learns of no endpoint once Start has begun.
LEMMA ObjectsKeep ==
  ASSUME SessionInv, UNCHANGED <<mode, phase, side, field, live, granted, todo>>,
         UNCHANGED opened \/ phase = "open",
         step' = step \/ (step' = step + 1 /\ (phase # "start" \/ step # RecheckAt))
  PROVE  SessionInv'
<1> USE DEF SessionInv
<1>1. SessionType'
  BY DEF SessionType
<1>2. HandleInv'
  BY DEF HandleInv, HasSide, Capturing, Rendering, Listed
<1>3. RecheckAt' = RecheckAt /\ RecheckAt \in Nat
  BY DEF RecheckAt, Exclusive
<1>4. phase = "start" /\ step' > RecheckAt => step > RecheckAt
  BY <1>3 DEF SessionType
<1>5. phase = "open" => \A d \in AllSides : "running" \notin live[d]
  BY DEF RunInv
<1>6. \A d \in AllSides : UNCHANGED opened => GrantedAsOpened(d)' = GrantedAsOpened(d)
  BY DEF GrantedAsOpened
<1>7. step' >= step
  BY DEF SessionType
<1>8. RunInv'
  <2>1. CASE phase = "open"
    BY <1>3, <1>5, <2>1 DEF RunInv
  <2>2. CASE UNCHANGED opened
    BY <1>3, <1>4, <1>6, <1>7, <2>2 DEF RunInv, SessionType
  <2>3. QED
    BY <2>1, <2>2
<1>9. QED
  BY <1>1, <1>2, <1>8

\* Open takes one handle after another.
LEMMA AcquireKeeps ==
  ASSUME SessionInv, Acquire
  PROVE  SessionInv'
<1> USE DEF SessionInv
<1> DEFINE gets == Gets(Chain[step])
<1>1. /\ UNCHANGED <<mode, phase, side, granted, opened, todo>> /\ step' = step + 1
      /\ phase \in {"open", "start"} /\ step <= Len(Chain) /\ Chain[step] # "recheck"
      /\ live' = [live EXCEPT ![side] = @ \cup gets] /\ field' = live'
  BY DEF Acquire, Environment, SessionType
<1>2. gets \subseteq Objects
  BY GetsFacts
<1>3. "running" \in gets => phase = "start" /\ step > RecheckAt
  BY <1>1, GetsFacts, ChainFacts DEF SessionType
<1>4. phase = "start" => step # RecheckAt
  BY <1>1, ChainFacts DEF SessionType
<1> HIDE DEF gets
<1>5. /\ live' \in [AllSides -> SUBSET Objects] /\ live'[side] = live[side] \cup gets
      /\ \A d \in AllSides : d # side => live'[d] = live[d]
  BY <1>1, <1>2 DEF SessionType
<1>6. SessionType'
  BY <1>1, <1>5 DEF SessionType
<1>7. HandleInv'
  BY <1>1, <1>5 DEF HandleInv, HasSide, Capturing, Rendering
<1>8. RecheckAt' = RecheckAt /\ RecheckAt \in Nat /\ \A d \in AllSides : GrantedAsOpened(d)' = GrantedAsOpened(d)
  BY <1>1 DEF RecheckAt, Exclusive, GrantedAsOpened
<1>9. RunInv'
  BY <1>1, <1>3, <1>4, <1>5, <1>8 DEF RunInv, SessionType
<1>10. QED
  BY <1>6, <1>7, <1>9

\* The client that is initialised, or given up and activated again, is not
\* running yet.
LEMMA InitializeKeeps ==
  ASSUME SessionInv, Initialize \/ Misaligned \/ Reactivate
  PROVE  SessionInv'
<1> USE DEF SessionInv
<1>1. /\ UNCHANGED <<mode, phase, side, opened, todo>> /\ AtStep("init")
      /\ step' = step \/ step' = step + 1
  BY DEF Initialize, Misaligned, Reactivate, Environment
<1>2. /\ phase \in {"open", "start"} /\ (phase = "start" => step < RecheckAt)
  BY <1>1, ChainFacts DEF AtStep, SessionType
<1>3. RecheckAt' = RecheckAt /\ RecheckAt \in Nat
  BY <1>1 DEF RecheckAt, Exclusive
<1>4. /\ live' \in [AllSides -> SUBSET Objects] /\ field' = live'
      /\ \A d \in AllSides : d # side => live'[d] = live[d]
      /\ "running" \in live'[side] => "running" \in live[side]
  <2>1. live \in [AllSides -> SUBSET Objects] /\ field = live /\ side \in AllSides
    BY DEF SessionType
  <2>2. QED
    BY <2>1 DEF Initialize, Misaligned, Reactivate, Objects
<1>g. /\ granted' = [d \in AllSides |-> granted'[d]]
      /\ \A d \in AllSides : d # side => granted'[d] = granted[d]
  <2>1. granted' = granted \/ granted' = [granted EXCEPT ![side] = offer[side]]
    BY DEF Initialize, Misaligned, Reactivate
  <2>2. granted = [d \in AllSides |-> granted[d]]
    BY DEF SessionType
  <2>3. CASE granted' = granted
    BY <2>2, <2>3
  <2>4. CASE granted' = [granted EXCEPT ![side] = offer[side]]
    BY <2>2, <2>4
  <2>5. QED
    BY <2>1, <2>3, <2>4
<1>5. \A d \in AllSides : d # side => GrantedAsOpened(d)' = GrantedAsOpened(d)
  BY <1>1, <1>g DEF GrantedAsOpened
<1>6. "running" \notin live'[side]
  BY <1>2, <1>3, <1>4 DEF RunInv, SessionType
<1>7. SessionType'
  BY <1>1, <1>4, <1>g DEF SessionType
<1>8. HandleInv'
  BY <1>1, <1>2, <1>4 DEF HandleInv, HasSide, Capturing, Rendering, SessionType
<1>9. RunInv'
  BY <1>1, <1>2, <1>3, <1>4, <1>5, <1>6 DEF RunInv, SessionType
<1>10. QED
  BY <1>7, <1>8, <1>9

\* What Start compares is what Open told the caller.
LEMMA RecheckKeeps ==
  ASSUME SessionInv, Recheck
  PROVE  SessionInv'
<1> USE DEF SessionInv
<1>1. /\ UNCHANGED <<mode, phase, side, field, live, granted, todo>> /\ step' = step + 1
      /\ phase \in {"open", "start"} /\ step <= Len(Chain)
      /\ phase = "start" => GrantedAsOpened(side) /\ UNCHANGED opened
  BY DEF Recheck, Environment, AtStep, GrantedAsOpened
<1>2. CASE phase = "open"
  BY <1>1, <1>2, ObjectsKeep
<1>3. CASE phase = "start"
  <2>1. SessionType'
    BY <1>1 DEF SessionType
  <2>2. HandleInv'
    BY <1>1 DEF HandleInv, HasSide, Capturing, Rendering, Listed
  <2>3. RecheckAt' = RecheckAt /\ RecheckAt \in Nat /\ \A d \in AllSides : GrantedAsOpened(d)' = GrantedAsOpened(d)
    BY <1>1, <1>3 DEF RecheckAt, Exclusive, GrantedAsOpened
  <2>4. RunInv'
    BY <1>1, <1>3, <2>3 DEF RunInv, SessionType
  <2>5. QED
    BY <2>1, <2>2, <2>4
<1>4. QED
  BY <1>1, <1>2, <1>3

\* All that was held by a probe is given back by its end.
LEMMA ProbeEndsKeeps ==
  ASSUME SessionInv, ProbeEnds
  PROVE  SessionInv'
<1> USE DEF SessionInv
<1>1. /\ UNCHANGED <<mode, opened, todo>> /\ phase = "open" /\ phase' \in {"open", "opened", "failed"}
      /\ live' = [live EXCEPT ![side] = @ \ field[side]] /\ field' = [field EXCEPT ![side] = {}]
      /\ step' = step \/ step' = 1
      /\ side' = side \/ (mode = "duplex" /\ side' = "render")
  BY DEF ProbeEnds, Environment
<1>2. /\ live' \in [AllSides -> SUBSET Objects] /\ field' = live'
      /\ \A d \in AllSides : live'[d] = {}
  <2>1. \A d \in AllSides : d # side => live[d] = {}
    BY <1>1 DEF HandleInv
  <2>2. \A d \in AllSides : live'[d] = {} /\ field'[d] = {}
    BY <1>1, <2>1 DEF SessionType
  <2>3. live' \in [AllSides -> SUBSET Objects] /\ field' \in [AllSides -> SUBSET Objects]
    BY <1>1 DEF SessionType
  <2>4. QED
    BY <2>2, <2>3
<1>g. granted' = [d \in AllSides |-> granted'[d]]
  BY DEF ProbeEnds, SessionType
<1>3. SessionType'
  <2>1. mode' \in AllModes /\ side' \in AllSides /\ step' \in Nat \ {0} /\ phase' \in Phases /\ todo' \in Todos
    BY <1>1 DEF SessionType, Phases, AllSides
  <2>2. QED
    BY <1>2, <1>g, <2>1 DEF SessionType
<1>4. HandleInv'
  BY <1>1, <1>2 DEF HandleInv, HasSide, Capturing, Rendering
<1>5. mode = "duplex" /\ phase' = "opened" => opened["capture"] = opened["render"]
  BY <1>1 DEF ProbeEnds, SessionType, AllSides, None
<1>6. RunInv'
  BY <1>1, <1>2, <1>5 DEF RunInv
<1>7. QED
  BY <1>3, <1>4, <1>6

\* Start begins only what Open has made.
LEMMA StartKeeps ==
  ASSUME SessionInv, Start
  PROVE  SessionInv'
<1> USE DEF SessionInv
<1>1. /\ UNCHANGED <<mode, field, live, granted, opened, todo>> /\ phase = "opened" /\ phase' = "start"
      /\ side' = SidesOf(mode)[1] /\ step' = 1
  BY DEF Start, Environment
<1>2. side' \in AllSides /\ HasSide(side)'
  <2>1. CASE mode \in {"render", "exclusiveRender"}
    BY <1>1, <2>1 DEF SidesOf, AllSides, HasSide, Rendering
  <2>2. CASE mode \in {"capture", "loopback", "exclusiveCapture", "duplex"}
    BY <1>1, <2>2 DEF SidesOf, AllSides, HasSide, Capturing
  <2>3. QED
    BY <2>1, <2>2 DEF SessionType, AllModes
<1>3. \A d \in AllSides : live'[d] = {}
  BY <1>1 DEF HandleInv
<1>4. SessionType'
  BY <1>1, <1>2 DEF SessionType, Phases
<1>5. HandleInv'
  BY <1>1, <1>2, <1>3 DEF HandleInv
<1>6. RunInv'
  BY <1>1, <1>3 DEF RunInv, RecheckAt
<1>7. QED
  BY <1>4, <1>5, <1>6

\* Every side that holds something is one of the stream's when the loop begins.
LEMMA SideStartedKeeps ==
  ASSUME SessionInv, SideStarted
  PROVE  SessionInv'
<1> USE DEF SessionInv
<1>1. /\ UNCHANGED <<mode, field, live, granted, opened, todo>> /\ phase = "start"
      /\ \/ mode = "duplex" /\ side = "capture" /\ side' = "render" /\ step' = 1 /\ phase' = "start"
         \/ ~(mode = "duplex" /\ side = "capture") /\ phase' = "run" /\ UNCHANGED <<side, step>>
  BY DEF SideStarted
<1>2. SessionType'
  BY <1>1 DEF SessionType, Phases, AllSides
<1>3. HandleInv'
  BY <1>1 DEF HandleInv, HasSide, Capturing, Rendering
<1>4. RecheckAt' = RecheckAt /\ RecheckAt \in {7, 8}
      /\ \A d \in AllSides : GrantedAsOpened(d)' = GrantedAsOpened(d)
  BY <1>1 DEF RecheckAt, Exclusive, GrantedAsOpened
<1>5. mode = "duplex" /\ side = "capture" => live["render"] = {}
  BY <1>1 DEF HandleInv, AllSides
<1>6. RunInv'
  BY <1>1, <1>4, <1>5 DEF RunInv
<1>7. QED
  BY <1>2, <1>3, <1>6

\* A Start that fails and a Stop list every side that holds something.
LEMMA CleanBegins ==
  ASSUME SessionInv, UNCHANGED <<mode, field, live, granted, opened, side, step>>, phase' = "clean",
         \/ phase = "start" /\ todo' = ToUndo
         \/ phase = "run" /\ todo' = SidesOf(mode)
  PROVE  SessionInv'
<1> USE DEF SessionInv
<1>1. todo' \in Todos /\ todo' # <<>>
  <2>1. ToUndo \in Todos \ {<<>>}
    BY DEF ToUndo, Todos, SessionType, AllSides
  <2>2. SidesOf(mode) \in Todos \ {<<>>}
    BY DEF SidesOf, Todos, SessionType, AllModes
  <2>3. QED
    BY <2>1, <2>2
<1>2. \A d \in AllSides : live[d] # {} => Listed(d)'
  <2>1. CASE phase = "start" /\ todo' = ToUndo
    <3>1. CASE mode = "duplex" /\ side = "render"
      <4>1. todo' = <<"render", "capture">>
        BY <2>1, <3>1 DEF ToUndo
      <4>2. QED
        BY <4>1 DEF Listed, AllSides
    <3>2. CASE ~(mode = "duplex" /\ side = "render")
      <4>1. todo' = <<side>>
        BY <2>1, <3>2 DEF ToUndo
      <4>2. \A d \in AllSides : live[d] # {} => d = side
        BY <2>1, <3>2 DEF HandleInv
      <4>3. QED
        BY <4>1, <4>2 DEF Listed
    <3>3. QED
      BY <3>1, <3>2
  <2>2. CASE phase = "run" /\ todo' = SidesOf(mode)
    <3>1. \A d \in AllSides : live[d] # {} => HasSide(d)
      BY DEF HandleInv
    <3>2. CASE mode = "duplex"
      <4>1. todo' = <<"capture", "render">>
        BY <2>2, <3>2 DEF SidesOf
      <4>2. QED
        BY <4>1 DEF Listed, AllSides
    <3>3. CASE mode \in {"render", "exclusiveRender"}
      <4>1. todo' = <<"render">>
        BY <2>2, <3>3 DEF SidesOf
      <4>2. \A d \in AllSides : live[d] # {} => d = "render"
        BY <3>1, <3>3 DEF HasSide, Capturing, AllSides
      <4>3. QED
        BY <4>1, <4>2 DEF Listed
    <3>4. CASE mode \in {"capture", "loopback", "exclusiveCapture"}
      <4>1. todo' = <<"capture">>
        BY <2>2, <3>4 DEF SidesOf
      <4>2. \A d \in AllSides : live[d] # {} => d = "capture"
        BY <3>1, <3>4 DEF HasSide, Rendering, AllSides
      <4>3. QED
        BY <4>1, <4>2 DEF Listed
    <3>5. QED
      BY <3>2, <3>3, <3>4 DEF SessionType, AllModes
  <2>3. QED
    BY <2>1, <2>2
<1>3. SessionType'
  BY <1>1 DEF SessionType, Phases
<1>4. HandleInv'
  BY <1>1, <1>2 DEF HandleInv, HasSide, Capturing, Rendering
<1>5. RunInv'
  BY DEF RunInv, GrantedAsOpened
<1>6. QED
  BY <1>3, <1>4, <1>5

\* A client is stopped before what it was granted is forgotten.
LEMMA ReleaseKeeps ==
  ASSUME SessionInv, ReleaseObjects
  PROVE  SessionInv'
<1> USE DEF SessionInv
<1> DEFINE d == Head(todo)
           gone == field[d] \ {"interrupt", "com"}
<1>1. /\ UNCHANGED <<mode, phase, side, step, opened, todo>> /\ phase = "clean" /\ todo # <<>>
      /\ live' = [live EXCEPT ![d] = @ \ gone] /\ field' = [field EXCEPT ![d] = @ \ gone]
      /\ granted' = [granted EXCEPT ![d] = None]
  BY DEF ReleaseObjects, Environment
<1>2. d \in AllSides
  BY <1>1, TodoFacts DEF SessionType
<1> HIDE DEF d
<1>3. /\ live' \in [AllSides -> SUBSET Objects] /\ field' = live' /\ live'[d] \subseteq live[d]
      /\ "running" \notin live'[d] /\ \A e \in AllSides : e # d => live'[e] = live[e]
  BY <1>1, <1>2 DEF SessionType
<1>4. /\ granted' = [e \in AllSides |-> granted'[e]]
      /\ \A e \in AllSides : e # d => granted'[e] = granted[e]
  BY <1>1, <1>2 DEF SessionType
<1>5. SessionType'
  BY <1>1, <1>3, <1>4 DEF SessionType
<1>6. HandleInv'
  BY <1>1, <1>2, <1>3 DEF HandleInv, HasSide, Capturing, Rendering, Listed
<1>7. RunInv'
  BY <1>1, <1>2, <1>3, <1>4 DEF RunInv, GrantedAsOpened
<1>8. QED
  BY <1>5, <1>6, <1>7

\* The side that is done with holds nothing any more.
LEMMA CloseKeeps ==
  ASSUME SessionInv, CloseInterrupt
  PROVE  SessionInv'
<1> USE DEF SessionInv
<1> DEFINE d == Head(todo)
<1>1. /\ UNCHANGED <<mode, side, step, opened, granted>> /\ phase = "clean" /\ todo # <<>>
      /\ live' = [live EXCEPT ![d] = @ \ field[d]] /\ field' = [field EXCEPT ![d] = {}]
      /\ todo' = Tail(todo) /\ phase' = IF Tail(todo) = <<>> THEN "stopped" ELSE phase
  BY DEF CloseInterrupt, Environment
<1>2. d \in AllSides /\ todo' \in Todos /\ \A e : Listed(e) => e = d \/ Listed(e)'
  BY <1>1, TodoFacts DEF SessionType, Listed
<1> HIDE DEF d
<1>3. /\ live' \in [AllSides -> SUBSET Objects] /\ field' = live' /\ live'[d] = {}
      /\ \A e \in AllSides : e # d => live'[e] = live[e]
  BY <1>1, <1>2 DEF SessionType
<1>4. SessionType'
  BY <1>1, <1>2, <1>3 DEF SessionType, Phases
<1>5. \A e \in AllSides : live'[e] # {} => HasSide(e)' /\ Listed(e)'
  BY <1>1, <1>2, <1>3 DEF HandleInv, HasSide, Capturing, Rendering
<1>6. \A e : ~Listed(e)' \/ todo' # <<>>
  BY DEF Listed
<1>7. HandleInv'
  BY <1>1, <1>5, <1>6 DEF HandleInv
<1>8. RunInv'
  BY <1>1, <1>2, <1>3, <1>7 DEF RunInv, GrantedAsOpened, HandleInv
<1>9. QED
  BY <1>4, <1>7, <1>8

\* Between Start and Stop nothing of it changes.
LEMMA SessionRests ==
  ASSUME SessionInv, UNCHANGED <<mode, phase, side, step, field, live, opened, granted, todo>>
  PROVE  SessionInv'
BY ObjectsKeep

\* Every step of the session keeps it.
LEMMA SessionKeeps ==
  ASSUME SessionInv, [Next]_vars
  PROVE  SessionInv'
<1>1. CASE \/ UNCHANGED vars \/ Interrupt \/ EndpointChanges \/ StepFails \/ CaptureFails \/ RenderFails
           \/ WaitFails \/ CaptureTick \/ RenderTick \/ Wait \/ EnterLoop \/ PollCapture \/ Drain
           \/ DrainExclusive \/ PollRender \/ SampleClock \/ WaitExclusive \/ Wake \/ Commit \/ Recover
  <2>1. UNCHANGED <<mode, phase, side, step, field, live, opened, granted, todo>>
    BY <1>1 DEF vars, session, Interrupt, EndpointChanges, StepFails, Environment, CaptureFails, RenderFails,
       WaitFails, CaptureTick, RenderTick, Wait, EnterLoop, PollCapture, Drain, DrainExclusive, PollRender,
       SampleClock, WaitExclusive, Wake, Commit, Recover
  <2>2. QED
    BY <2>1, SessionRests
<1>2. CASE Stop
  BY <1>2, CleanBegins DEF Stop, Here
<1>3. CASE StartFails
  BY <1>3, CleanBegins DEF StartFails, Environment
<1>4. CASE Check \/ Prepare
  <2>1. /\ UNCHANGED <<mode, phase, side, field, live, granted, todo>> /\ step' = step + 1
        /\ UNCHANGED opened \/ phase = "open"
    BY <1>4 DEF Check, Prepare, Environment
  <2>2. /\ phase \in {"open", "start"} /\ step <= Len(Chain)
        /\ Chain[step] \in {"check", "prime", "sample"}
    BY <1>4 DEF Check, Prepare, AtStep
  <2>3. phase = "start" => step # RecheckAt
    BY <2>2, ChainFacts DEF SessionInv, SessionType
  <2>4. QED
    BY <2>1, <2>3, ObjectsKeep
<1>5. QED
  BY <1>1, <1>2, <1>3, <1>4, AcquireKeeps, InitializeKeeps, RecheckKeeps, ProbeEndsKeeps, StartKeeps,
     SideStartedKeeps, ReleaseKeeps, CloseKeeps DEF Next, Running, SessionThread

\* The inductive invariant of a session: which handles exist at each point of Open, Start and Close.
THEOREM SessionInvariance == Spec => []SessionInv
BY SessionInit, SessionKeeps, PTL DEF Spec

(* No object is released twice, no closed event is signalled, and nothing  *)
(* is left behind by Open, by a Start that failed at any of its steps, or  *)
(* by Stop.                                                                *)
THEOREM HandlesKept == Spec => []HandlesExact
<1>1. SessionInv => HandlesExact
  BY DEF SessionInv, SessionType, HandleInv, HandlesExact
<1>2. QED
  BY <1>1, SessionInvariance, PTL

(* Whenever an endpoint is reconfigured, a client runs with what the       *)
(* caller was told, and the two of a duplex stream with the same.          *)
THEOREM OpenedKept == Spec => []StartedAsOpened
<1>1. SessionInv => StartedAsOpened
  <2> SUFFICES ASSUME SessionInv PROVE StartedAsOpened
    OBVIOUS
  <2>1. \A d \in AllSides : "running" \in live[d] =>
          granted[d] = opened[d].buffer /\ HasSide(d) /\ phase \in {"start", "run", "clean"}
    BY DEF SessionInv, RunInv, HandleInv, GrantedAsOpened
  <2>2. HasSide("capture") /\ HasSide("render") => mode = "duplex"
    BY DEF HasSide, Capturing, Rendering
  <2>3. ASSUME NEW d \in AllSides, NEW e \in AllSides, "running" \in live[d], "running" \in live[e]
        PROVE  granted[d] = granted[e]
    <3>1. CASE d = e
      BY <3>1
    <3>2. CASE d # e
      <4>1. opened["capture"] = opened["render"]
        BY <2>1, <2>2, <2>3, <3>2 DEF SessionInv, RunInv, AllSides
      <4>2. QED
        BY <2>1, <2>3, <4>1 DEF AllSides
    <3>3. QED
      BY <3>1, <3>2
  <2>4. QED
    BY <2>1, <2>3 DEF StartedAsOpened
<1>2. QED
  BY <1>1, SessionInvariance, PTL

-----------------------------------------------------------------------------
(* Positions.                                                              *)

\* A number is its quotient and its remainder.
LEMMA ModQuotient ==
  ASSUME NEW m \in Nat \ {0}, NEW a \in Int
  PROVE  \E q \in Int : a = m * q + (a % m)
<1>1. m \in Nat /\ m > 0
  OBVIOUS
<1>2. QED
  BY <1>1, SMTT(20)

\* Multiples of the modulus do not matter.
LEMMA ModShift ==
  ASSUME NEW m \in Nat \ {0}, NEW q \in Int, NEW b \in Int, NEW k \in Int, b = m * q + k
  PROVE  b % m = k % m
<1>1. PICK p \in Int : k = m * p + (k % m)
  BY ModQuotient, Zenon
<1> DEFINE r == k % m
<1>2. r \in 0 .. m - 1
  BY SMTT(20)
<1> HIDE DEF r
<1>3. b = m * (q + p) + r
  BY <1>1, <1>2, SMTT(20) DEF r
<1>4. (m * (q + p) + r) % m = r
  BY <1>2, SMTT(20)
<1>5. QED
  BY <1>3, <1>4 DEF r

\* An advanced stager is a stager.
LEMMA AdvanceType ==
  ASSUME NEW a \in Position, NEW n \in Nat
  PROVE  Advance(a, n) \in Position /\ Unknown \notin Position /\ Advance(a, 0) = a /\ Advance(a, 1) # a
<1>1. Positions \in Nat \ {0} /\ Positions > 2
  BY StagerAssumption
<1>2. a \in 0 .. Positions - 1 /\ a # Unknown /\ Unknown \notin Position
  BY <1>1 DEF Position, Unknown
<1>3. \A k \in Nat : Advance(a, k) = (a + k) % Positions
  BY <1>2 DEF Advance
<1>4. (a + n) % Positions \in 0 .. Positions - 1
  BY <1>1, <1>2, SMTT(20)
<1>5. (a + 0) % Positions = a
  BY <1>1, <1>2, SMTT(20)
<1>6. (a + 1) % Positions # a
  <2>1. CASE a + 1 < Positions
    BY <1>1, <1>2, <2>1, SMTT(20)
  <2>2. CASE a + 1 = Positions
    <3>1. (a + 1) % Positions = 0
      BY <1>1, <2>2, SMTT(20)
    <3>2. QED
      BY <1>1, <2>2, <3>1
  <2>3. QED
    BY <1>1, <1>2, <2>1, <2>2
<1>7. QED
  BY <1>2, <1>3, <1>4, <1>5, <1>6 DEF Position

\* To advance twice is to advance by the sum.
LEMMA AdvanceAdd ==
  ASSUME NEW a \in Position, NEW n \in Nat, NEW k \in Nat
  PROVE  Advance(Advance(a, n), k) = Advance(a, n + k)
<1>1. Positions \in Nat \ {0} /\ a \in Nat /\ a # Unknown
  BY StagerAssumption DEF Position, Unknown
<1> DEFINE r == (a + n) % Positions
<1>2. PICK q \in Int : a + n = Positions * q + r
  <2>1. a + n \in Int
    BY <1>1
  <2>2. QED
    BY <1>1, <2>1, ModQuotient, Zenon
<1>3. r \in Int /\ r # Unknown /\ Advance(a, n) = r
  BY <1>1, AdvanceType DEF Advance, Position
<1> HIDE DEF r
<1>4. a + (n + k) = Positions * q + (r + k)
  BY <1>1, <1>2, <1>3, SMTT(20)
<1>5. (a + (n + k)) % Positions = (r + k) % Positions
  <2>1. a + (n + k) \in Int /\ r + k \in Int
    BY <1>1, <1>3
  <2>2. QED
    BY <1>1, <1>4, <2>1, ModShift, Zenon
<1>6. QED
  BY <1>1, <1>3, <1>5 DEF Advance

-----------------------------------------------------------------------------
(* The stager.                                                             *)

\* Frames one after the other.
Consecutive(q) == \A i \in 1 .. Len(q) : q[i] \in Position /\ q[i] = Advance(q[1], i - 1)

\* What is staged is a run, and the positions told are its first frame's.
StageOk(s) ==
    /\ s \in Stager
    /\ Consecutive(s.stage)
    /\ s.stage # <<>> => s.at \in {Unknown, s.stage[1]} /\ s.havePacket
    /\ s.ready => Len(s.stage) >= Period /\ s.active \in {Unknown, s.stage[1]}
    /\ s.expected # Unknown => s.havePacket

\* What a run of frames of a packet is.
LEMMA FramesFacts ==
  ASSUME NEW q \in Frames
  PROVE  /\ Len(q) \in Nat /\ \A i \in 1 .. Len(q) : q[i] \in Position
         /\ q # <<>> => Len(q) >= 1
         /\ Len(q) = 0 => q = <<>>
BY LenProperties, ElementOfSeq, EmptySeq DEF Frames

\* A stage without frames is one.
LEMMA EmptyFrames == <<>> \in Frames /\ Len(<<>>) = 0 /\ Consecutive(<<>>)
BY EmptySeq DEF Frames, Consecutive

\* One run after another is a run, when the second begins where the first ends.
LEMMA RunsJoin ==
  ASSUME NEW q \in Frames, NEW r \in Frames, Consecutive(q), Consecutive(r), Len(r) >= 1,
         q # <<>> => r[1] = Advance(q[1], Len(q))
  PROVE  /\ q \o r \in Frames /\ Consecutive(q \o r) /\ Len(q \o r) = Len(q) + Len(r)
         /\ (q \o r)[1] = IF q = <<>> THEN r[1] ELSE q[1]
<1> DEFINE t == q \o r
<1>1. /\ t \in Frames /\ Len(t) = Len(q) + Len(r)
      /\ \A i \in 1 .. Len(q) + Len(r) : t[i] = IF i <= Len(q) THEN q[i] ELSE r[i - Len(q)]
  BY ConcatProperties DEF Frames
<1>2. Len(q) \in Nat /\ Len(r) \in Nat /\ (q = <<>> <=> Len(q) = 0) /\ Len(<<>>) = 0
  BY FramesFacts, EmptyFrames
<1>3. t[1] = IF q = <<>> THEN r[1] ELSE q[1]
  BY <1>1, <1>2
<1> HIDE DEF t
<1>4. ASSUME NEW i \in 1 .. Len(t)
      PROVE  t[i] \in Position /\ t[i] = Advance(t[1], i - 1)
  <2>1. CASE i <= Len(q)
    <3>1. i \in 1 .. Len(q) /\ t[i] = q[i] /\ t[1] = q[1]
      BY <1>1, <1>2, <1>3, <2>1
    <3>2. QED
      BY <3>1 DEF Consecutive
  <2>2. CASE i > Len(q)
    <3> DEFINE j == i - Len(q)
    <3>1. j \in 1 .. Len(r) /\ t[i] = r[j] /\ j - 1 \in Nat
      BY <1>1, <1>2, <2>2
    <3>2. t[i] \in Position /\ t[i] = Advance(r[1], j - 1)
      BY <3>1 DEF Consecutive
    <3>3. CASE q = <<>>
      BY <1>2, <1>3, <3>2, <3>3
    <3>4. CASE q # <<>>
      <4>1. q[1] \in Position
        BY <1>2, <3>4 DEF Consecutive
      <4>2. Advance(r[1], j - 1) = Advance(q[1], Len(q) + (j - 1))
        <5>1. r[1] = Advance(q[1], Len(q)) /\ Len(q) \in Nat /\ j - 1 \in Nat
          BY <1>2, <3>1, <3>4
        <5>2. Advance(Advance(q[1], Len(q)), j - 1) = Advance(q[1], Len(q) + (j - 1))
          BY ONLY <4>1, <5>1, AdvanceAdd
        <5>3. QED
          BY ONLY <5>1, <5>2
      <4>3. Len(q) + (j - 1) = i - 1
        BY <1>1, <1>2
      <4>4. QED
        BY <1>3, <3>2, <3>4, <4>2, <4>3
    <3>5. QED
      BY <3>3, <3>4
  <2>3. QED
    BY <1>1, <1>2, <2>1, <2>2
<1>5. Consecutive(t)
  BY <1>4 DEF Consecutive
<1>6. QED
  BY <1>1, <1>3, <1>5 DEF t

\* A run without its first frames is one.
LEMMA RunsDrop ==
  ASSUME NEW q \in Frames, Consecutive(q), NEW n \in Nat, n <= Len(q)
  PROVE  LET rest == SubSeq(q, n + 1, Len(q))
         IN  /\ rest \in Frames /\ Consecutive(rest) /\ Len(rest) = Len(q) - n
             /\ rest # <<>> => rest[1] = Advance(q[1], n) /\ q[1] \in Position
<1> DEFINE rest == SubSeq(q, n + 1, Len(q))
<1>1. Len(q) \in Nat /\ \A i \in n + 1 .. Len(q) : q[i] \in Position
  BY FramesFacts
<1>2. rest \in Frames /\ Len(rest) = Len(q) - n /\ \A i \in 1 .. Len(q) - n : rest[i] = q[n + i]
  <2>1. /\ rest \in Seq(Position) /\ Len(rest) = IF n + 1 <= Len(q) THEN Len(q) - (n + 1) + 1 ELSE 0
        /\ \A i \in 1 .. Len(q) - (n + 1) + 1 : rest[i] = q[n + 1 + i - 1]
    BY <1>1, SubSeqProperties
  <2> HIDE DEF rest
  <2>2. QED
    BY <1>1, <2>1 DEF Frames
<1> HIDE DEF rest
<1>3. rest # <<>> => Len(rest) >= 1 /\ Len(q) >= 1
  BY <1>1, <1>2, FramesFacts
<1>4. ASSUME NEW i \in 1 .. Len(rest)
      PROVE  rest[i] \in Position /\ rest[i] = Advance(rest[1], i - 1)
  <2>1. /\ rest[i] = Advance(q[1], n + i - 1) /\ rest[i] \in Position
        /\ rest[1] = Advance(q[1], n) /\ q[1] \in Position
    <3>1. /\ i \in 1 .. Len(q) - n /\ 1 \in 1 .. Len(q) - n
          /\ n + i \in 1 .. Len(q) /\ n + 1 \in 1 .. Len(q) /\ 1 \in 1 .. Len(q)
          /\ n + i \in n + 1 .. Len(q)
      BY <1>1, <1>2
    <3>2. rest[i] = q[n + i] /\ rest[1] = q[n + 1]
      BY <1>2, <3>1
    <3>3. /\ q[n + i] = Advance(q[1], n + i - 1) /\ q[n + 1] = Advance(q[1], n + 1 - 1)
          /\ q[n + i] \in Position /\ q[1] \in Position
      BY <3>1 DEF Consecutive
    <3>4. n + 1 - 1 = n
      OBVIOUS
    <3>5. QED
      BY <3>2, <3>3, <3>4
  <2>2. Advance(rest[1], i - 1) = Advance(q[1], n + (i - 1))
    <3>1. i - 1 \in Nat
      BY <1>1, <1>2
    <3>2. Advance(Advance(q[1], n), i - 1) = Advance(q[1], n + (i - 1))
      BY <2>1, <3>1, AdvanceAdd
    <3>3. QED
      BY <2>1, <3>2
  <2>3. n + (i - 1) = n + i - 1
    BY <1>1, <1>2
  <2>4. QED
    BY <2>1, <2>2, <2>3
<1>5. Consecutive(rest)
  BY <1>4 DEF Consecutive
<1>6. rest # <<>> => rest[1] = Advance(q[1], n) /\ q[1] \in Position
  BY <1>1, <1>2, <1>3 DEF Consecutive
<1>7. QED
  BY <1>2, <1>5, <1>6 DEF rest

\* A new stager has nothing.
LEMMA StartsOk == StageOk(NewStager) /\ NewStager.stage = <<>> /\ ~NewStager.ready
                  /\ NewStager.expected = Unknown /\ ~NewStager.havePacket
BY EmptyFrames DEF StageOk, NewStager, Stager, Places, Consecutive

\* What is counted as lost leaves an empty stage, and changes the count.
LEMMA CountOk ==
  ASSUME NEW s, StageOk(s)
  PROVE  LET t == CountDropout(s)
         IN  /\ StageOk(t) /\ t.stage = <<>> /\ t.expected = Unknown /\ ~t.ready
             /\ t.havePacket = s.havePacket /\ t.dropouts # s.dropouts
<1> DEFINE t == CountDropout(s)
<1>1. s \in Stager /\ s.dropouts \in 0 .. 1 /\ s.havePacket \in BOOLEAN
  BY DEF StageOk, Stager
<1>2. (s.dropouts + 1) % 2 \in 0 .. 1 /\ (s.dropouts + 1) % 2 # s.dropouts
  <2>1. CASE s.dropouts = 0
    BY <2>1
  <2>2. CASE s.dropouts = 1
    BY <2>2
  <2>3. QED
    BY <1>1, <2>1, <2>2
<1>3. /\ t \in Stager /\ t.stage = <<>> /\ t.expected = Unknown /\ ~t.ready
      /\ t.havePacket = s.havePacket /\ t.dropouts = (s.dropouts + 1) % 2
  BY <1>1, <1>2, EmptyFrames DEF CountDropout, ResetStage, Stager, Places
<1> HIDE DEF t
<1>4. StageOk(t)
  BY <1>3, EmptyFrames DEF StageOk
<1>5. QED
  BY <1>2, <1>3, <1>4 DEF t

\* A packet is a run; its position, when it is told, is its first frame's.
LEMMA PacketOk ==
  ASSUME NEW first \in Position, NEW n \in Nat \ {0}, NEW flagged, NEW stamped
  PROVE  LET p == Packet(first, n, flagged, stamped)
         IN  /\ p.content \in Frames /\ Len(p.content) = n /\ p.content[1] = first
             /\ Consecutive(p.content) /\ p.position \in {first, Unknown} /\ p.flagged = flagged
<1> DEFINE c == [i \in 1 .. n |-> Advance(first, i - 1)]
<1>1. \A i \in 1 .. n : Advance(first, i - 1) \in Position
  BY AdvanceType
<1>2. c \in Frames /\ Len(c) = n
  BY <1>1 DEF Frames
<1>3. c[1] = first
  BY AdvanceType
<1>4. \A i \in 1 .. n : c[i] = Advance(first, i - 1)
  OBVIOUS
<1> HIDE DEF c
<1>5. Consecutive(c)
  BY <1>1, <1>2, <1>3, <1>4 DEF Consecutive
<1>6. Packet(first, n, flagged, stamped).content = c
  BY DEF Packet, c
<1>7. QED
  BY <1>2, <1>3, <1>5, <1>6 DEF Packet

\* Staging a packet that begins where the stage ends.
LEMMA StageJoins ==
  ASSUME NEW s, StageOk(s), NEW p, p.content \in Frames, Consecutive(p.content), Len(p.content) >= 1,
         NEW first \in Position, p.content[1] = first, p.position \in {first, Unknown},
         s.stage # <<>> => first = Advance(s.stage[1], Len(s.stage))
  PROVE  LET t == Stage(s, p)
         IN  /\ StageOk(t) /\ t.stage # <<>> /\ t.havePacket /\ t.ready = s.ready
             /\ t.dropouts = s.dropouts
             /\ Len(t.stage) = Len(s.stage) + Len(p.content)
             /\ Advance(t.stage[1], Len(t.stage)) = Advance(first, Len(p.content))
             /\ t.expected \in {Unknown, Advance(first, Len(p.content))}
<1> DEFINE t == Stage(s, p)
           q == s.stage \o p.content
<1>1. s.stage \in Frames /\ Consecutive(s.stage) /\ s \in Stager
  BY DEF StageOk, Stager
<1>2. /\ q \in Frames /\ Consecutive(q) /\ Len(q) = Len(s.stage) + Len(p.content)
      /\ q[1] = IF s.stage = <<>> THEN first ELSE s.stage[1]
  BY <1>1, RunsJoin
<1>3. Len(p.content) \in Nat /\ Len(s.stage) \in Nat /\ (s.stage = <<>> <=> Len(s.stage) = 0)
  BY <1>1, FramesFacts, EmptyFrames
<1> DEFINE e == Advance(p.position, Len(p.content))
           at == IF s.stage = <<>> THEN p.position ELSE s.at
<1>4. e \in Places /\ e \in {Unknown, Advance(first, Len(p.content))}
  BY <1>3, AdvanceType DEF Places, Advance
<1>5. at \in Places
  BY <1>1 DEF Stager, Places
<1>6. t = [s EXCEPT !.stage = q, !.at = at, !.expected = e, !.havePacket = TRUE]
  BY DEF Stage
<1> HIDE DEF t, q, e, at
<1>7. /\ t \in Stager /\ t.stage = q /\ t.at = at /\ t.expected = e /\ t.havePacket
      /\ t.ready = s.ready /\ t.active = s.active /\ t.dropouts = s.dropouts
  BY <1>1, <1>2, <1>4, <1>5, <1>6 DEF Stager
<1>8. Len(q) >= 1 /\ q # <<>>
  <2>1. \A a, b \in Nat : b >= 1 => a + b >= 1
    OBVIOUS
  <2>2. Len(s.stage) + Len(p.content) >= 1
    BY <1>3, <2>1, Zenon
  <2>3. Len(<<>>) = 0 /\ ~(0 >= 1)
    BY EmptyFrames
  <2>4. QED
    BY <1>2, <2>2, <2>3, Zenon
<1>9. at \in {Unknown, q[1]}
  BY <1>2 DEF at, StageOk
<1>10. s.ready => Len(q) >= Period /\ s.active \in {Unknown, q[1]}
  <2>1. s.ready => Len(s.stage) >= Period /\ s.active \in {Unknown, s.stage[1]}
    BY DEF StageOk
  <2>2. Period \in Nat \ {0}
    BY StagerAssumption
  <2>a. \A a, b \in Nat : a >= Period => a # 0 /\ a + b >= Period
    BY <2>2
  <2>3. s.ready => Len(s.stage) # 0 /\ Len(s.stage) + Len(p.content) >= Period
    BY <1>3, <2>1, <2>a, Zenon
  <2>4. s.ready => s.stage # <<>> /\ Len(q) >= Period
    BY <1>2, <1>3, <2>3, Zenon
  <2>5. QED
    BY <1>2, <2>1, <2>4
<1>11. StageOk(t)
  BY <1>2, <1>7, <1>8, <1>9, <1>10 DEF StageOk
<1>12. Advance(q[1], Len(q)) = Advance(first, Len(p.content))
  <2>1. CASE s.stage = <<>>
    BY <1>2, <1>3, <2>1
  <2>2. CASE s.stage # <<>>
    <3>1. s.stage[1] \in Position
      BY <1>1, <1>3, <2>2 DEF Consecutive
    <3>2. Advance(Advance(s.stage[1], Len(s.stage)), Len(p.content))
             = Advance(s.stage[1], Len(s.stage) + Len(p.content))
      BY <1>3, <3>1, AdvanceAdd
    <3>3. QED
      BY <1>2, <2>2, <3>2
  <2>3. QED
    BY <2>1, <2>2
<1>13. QED
  BY <1>2, <1>4, <1>7, <1>8, <1>11, <1>12 DEF t

\* A period that is shown is the stage's first; what is not shown is too short.
LEMMA PrepareOk ==
  ASSUME NEW s, StageOk(s)
  PROVE  LET t == PreparePeriod(s)
         IN  /\ StageOk(t) /\ t.stage = s.stage /\ t.expected = s.expected
             /\ t.havePacket = s.havePacket /\ t.dropouts = s.dropouts
             /\ ~t.ready => ~s.ready /\ Len(s.stage) < Period
<1> DEFINE t == PreparePeriod(s)
<1>1. s \in Stager /\ s.stage \in Frames /\ Len(s.stage) \in Nat
  BY FramesFacts DEF StageOk, Stager
<1>2. Period \in Nat \ {0}
  BY StagerAssumption
<1>3. CASE s.ready \/ Len(s.stage) < Period
  BY <1>3 DEF PreparePeriod, StageOk
<1>4. CASE ~(s.ready \/ Len(s.stage) < Period)
  <2>1. t = [s EXCEPT !.ready = TRUE, !.active = s.at]
    BY <1>4 DEF PreparePeriod
  <2> HIDE DEF t
  <2>2. /\ t \in Stager /\ t.stage = s.stage /\ t.at = s.at /\ t.ready /\ t.active = s.at
        /\ t.expected = s.expected /\ t.havePacket = s.havePacket /\ t.dropouts = s.dropouts
    BY <1>1, <2>1 DEF Stager
  <2>3. Len(s.stage) >= Period /\ Len(s.stage) # 0
    BY <1>1, <1>2, <1>4
  <2>4. s.stage # <<>>
    BY <2>3, EmptyFrames
  <2>5. StageOk(t)
    BY <2>2, <2>3, <2>4 DEF StageOk
  <2>6. QED
    BY <2>2, <2>5 DEF t
<1>5. QED
  BY <1>3, <1>4

\* The period that is committed leaves the rest of the run, at its position.
LEMMA CommitOk ==
  ASSUME NEW s, StageOk(s), s.ready
  PROVE  LET t == CommitPeriod(s)
         IN  /\ StageOk(t) /\ ~t.ready /\ t.expected = s.expected
             /\ t.stage # <<>> => /\ s.stage # <<>>
                                  /\ Advance(t.stage[1], Len(t.stage)) = Advance(s.stage[1], Len(s.stage))
<1> DEFINE t == CommitPeriod(s)
           rest == SubSeq(s.stage, Period + 1, Len(s.stage))
           at == IF rest = <<>> THEN Unknown ELSE Advance(s.at, Period)
<1>1. s \in Stager /\ s.stage \in Frames /\ Len(s.stage) \in Nat /\ Len(s.stage) >= Period
  BY FramesFacts DEF StageOk, Stager
<1>2. Period \in Nat \ {0}
  BY StagerAssumption
<1>3. /\ rest \in Frames /\ Consecutive(rest) /\ Len(rest) = Len(s.stage) - Period
      /\ rest # <<>> => rest[1] = Advance(s.stage[1], Period) /\ s.stage[1] \in Position
  BY <1>1, <1>2, RunsDrop DEF StageOk
<1>4. t = [s EXCEPT !.stage = rest, !.at = at, !.ready = FALSE, !.active = Unknown]
  BY <1>1 DEF CommitPeriod, Stager
<1>5. s.stage # <<>> /\ s.at \in {Unknown, s.stage[1]} /\ s.havePacket
  <2>1. Len(s.stage) # 0
    BY <1>1, <1>2
  <2>2. QED
    BY <2>1, EmptyFrames DEF StageOk
<1>6. at \in Places /\ (rest # <<>> => at \in {Unknown, rest[1]})
  <2>1. CASE rest = <<>>
    BY <2>1 DEF Places
  <2>2. CASE rest # <<>> /\ s.at = Unknown
    BY <2>2 DEF Places, Advance
  <2>3. CASE rest # <<>> /\ s.at = s.stage[1]
    BY <1>2, <1>3, <2>3, AdvanceType DEF Places
  <2>4. QED
    BY <1>5, <2>1, <2>2, <2>3
<1> HIDE DEF t, rest, at
<1>7. /\ t \in Stager /\ t.stage = rest /\ t.at = at /\ ~t.ready /\ t.active = Unknown
      /\ t.expected = s.expected /\ t.havePacket = s.havePacket
  BY <1>1, <1>3, <1>4, <1>6 DEF Stager, Places
<1>8. StageOk(t)
  BY <1>3, <1>5, <1>6, <1>7 DEF StageOk
<1>9. rest # <<>> => Advance(rest[1], Len(rest)) = Advance(s.stage[1], Len(s.stage))
  <2>1. Len(rest) \in Nat /\ Period + Len(rest) = Len(s.stage)
    BY <1>1, <1>2, <1>3
  <2>2. rest # <<>> => Advance(Advance(s.stage[1], Period), Len(rest)) = Advance(s.stage[1], Period + Len(rest))
    BY <1>2, <1>3, <2>1, AdvanceAdd
  <2>3. QED
    BY <1>3, <2>1, <2>2
<1>10. QED
  BY <1>5, <1>7, <1>8, <1>9 DEF t

\* A stager reset has nothing.
LEMMA ResetOk ==
  ASSUME NEW s, StageOk(s)
  PROVE  LET t == Reset(s)
         IN  StageOk(t) /\ t.stage = <<>> /\ ~t.ready /\ t.expected = Unknown
<1> DEFINE t == Reset(s)
<1>1. s \in Stager
  BY DEF StageOk
<1>2. /\ t \in Stager /\ t.stage = <<>> /\ ~t.ready /\ t.expected = Unknown
  BY <1>1, EmptyFrames DEF Reset, ResetStage, Stager, Places
<1> HIDE DEF t
<1>3. StageOk(t)
  BY <1>2, EmptyFrames DEF StageOk
<1>4. QED
  BY <1>2, <1>3 DEF t

Chunk == [next : Position, frames : 0 .. BufferFrames, gap : BOOLEAN]

\* What the stager expects of an endpoint, and its stage, meet what the
\* endpoint holds; after a loss they are short of it.
Follows(s, held) ==
    /\ s.expected # Unknown => held.next = IF held.gap THEN Advance(s.expected, 1) ELSE s.expected
    /\ s.stage # <<>> /\ ~held.gap => held.next = Advance(s.stage[1], Len(s.stage))

\* The packet an endpoint hands out, and that the stager sees exactly the gaps.
LEMMA GapIsTold ==
  ASSUME StageOk(stager), packets \in Chunk, Follows(stager, packets), packets.frames > 0,
         NEW p \in HonestPackets
  PROVE  /\ p.content \in Frames /\ Consecutive(p.content) /\ Len(p.content) \in 1 .. packets.frames
         /\ p.content[1] = packets.next /\ p.position \in {packets.next, Unknown}
         /\ Discontinuity(stager, p) <=> packets.gap /\ stager.havePacket
<1>1. /\ packets.next \in Position /\ packets.frames \in 1 .. BufferFrames /\ packets.gap \in BOOLEAN
      /\ Unknown \notin Position
  BY StagerAssumption DEF Chunk, Position, Unknown
<1>2. PICK n \in 1 .. packets.frames, flagged \in BOOLEAN, stamped \in BOOLEAN :
        /\ p = Packet(packets.next, n, flagged, stamped)
        /\ flagged => packets.gap \/ ~stager.havePacket
        /\ packets.gap => p.flagged \/ (stager.expected # Unknown /\ p.position # Unknown)
  <2>1. /\ p \in NextPackets
        /\ packets.gap => p.flagged \/ (stager.expected # Unknown /\ p.position # Unknown)
    BY DEF HonestPackets
  <2> DEFINE ns == IF Exclusive THEN {packets.frames} ELSE 1 .. packets.frames
             flags == IF packets.gap \/ ~stager.havePacket THEN BOOLEAN ELSE {FALSE}
  <2>a. NextPackets = {Packet(packets.next, n, flagged, stamped) : n \in ns, flagged \in flags, stamped \in BOOLEAN}
    BY DEF NextPackets
  <2>3. ns \subseteq 1 .. packets.frames
    BY <1>1
  <2>4. \A flagged \in flags : flagged \in BOOLEAN /\ (flagged => packets.gap \/ ~stager.havePacket)
    OBVIOUS
  <2> HIDE DEF ns, flags
  <2>2. \E n \in ns, flagged \in flags, stamped \in BOOLEAN : p = Packet(packets.next, n, flagged, stamped)
    BY <2>1, <2>a
  <2>5. QED
    BY <2>1, <2>2, <2>3, <2>4, Zenon
<1>3. /\ p.content \in Frames /\ Len(p.content) = n /\ p.content[1] = packets.next
      /\ Consecutive(p.content) /\ p.position \in {packets.next, Unknown} /\ p.flagged = flagged
  BY <1>1, <1>2, PacketOk
<1>4. CASE packets.gap /\ stager.havePacket
  <2>1. stager.expected # Unknown => packets.next # stager.expected
    <3>1. stager.expected # Unknown => stager.expected \in Position
      BY DEF StageOk, Stager, Places
    <3>2. QED
      BY <1>4, <3>1, AdvanceType DEF Follows
  <2>2. QED
    BY <1>2, <1>3, <1>4, <2>1 DEF Discontinuity
<1>5. CASE ~packets.gap /\ stager.havePacket
  BY <1>2, <1>3, <1>5 DEF Discontinuity, Follows
<1>6. CASE ~stager.havePacket
  <2>1. stager.expected = Unknown
    BY <1>6 DEF StageOk
  <2>2. QED
    BY <1>2, <1>3, <1>6, <2>1 DEF Discontinuity
<1>7. QED
  BY <1>1, <1>2, <1>3, <1>4, <1>5, <1>6

\* The packet is staged where it belongs, and the stage and the expectation
\* meet what the endpoint holds after it.
LEMMA AppendOk ==
  ASSUME StageOk(stager), packets \in Chunk, Follows(stager, packets), packets.frames > 0,
         NEW p \in HonestPackets
  PROVE  LET t == AppendPacket(stager, p)
         IN  /\ StageOk(t) /\ (t.ready => stager.ready)
             /\ Advance(t.stage[1], Len(t.stage)) = Advance(packets.next, Len(p.content))
             /\ t.expected \in {Unknown, Advance(packets.next, Len(p.content))}
             /\ stager.havePacket /\ Len(stager.stage) < Period =>
                  (t.dropouts # stager.dropouts <=> packets.gap)
<1>1. /\ p.content \in Frames /\ Consecutive(p.content) /\ Len(p.content) \in 1 .. packets.frames
      /\ p.content[1] = packets.next /\ p.position \in {packets.next, Unknown}
      /\ Discontinuity(stager, p) <=> packets.gap /\ stager.havePacket
  BY GapIsTold
<1>2. packets.next \in Position /\ packets.frames \in 1 .. BufferFrames
  BY DEF Chunk
<1>3. Len(p.content) \in Nat /\ Len(p.content) >= 1 /\ Len(p.content) <= BufferFrames
  <2>1. BufferFrames \in Nat
    BY StagerAssumption
  <2>2. \A f \in 1 .. BufferFrames : \A n \in 1 .. f : n \in Nat /\ n >= 1 /\ n <= BufferFrames
    BY <2>1
  <2>3. QED
    BY <1>1, <1>2, <2>2
<1> DEFINE aligned == IF Discontinuity(stager, p) THEN CountDropout(stager) ELSE stager
           fitting == IF Overflows(aligned, p) THEN CountDropout(aligned) ELSE aligned
<1>4. /\ StageOk(aligned) /\ (aligned.ready => stager.ready)
      /\ aligned.stage # <<>> => aligned = stager /\ packets.next = Advance(stager.stage[1], Len(stager.stage))
      /\ aligned.stage \in {<<>>, stager.stage}
      /\ Discontinuity(stager, p) => aligned.dropouts # stager.dropouts
      /\ ~Discontinuity(stager, p) => aligned = stager
  <2>1. CASE Discontinuity(stager, p)
    BY <2>1, CountOk
  <2>2. CASE ~Discontinuity(stager, p)
    <3>1. aligned = stager /\ ~(packets.gap /\ stager.havePacket)
      BY <1>1, <2>2
    <3>2. stager.stage # <<>> => stager.havePacket
      BY DEF StageOk
    <3>3. stager.stage # <<>> => packets.next = Advance(stager.stage[1], Len(stager.stage))
      BY <3>1, <3>2 DEF Follows, Chunk
    <3>4. QED
      BY <2>2, <3>1, <3>3
  <2>3. QED
    BY <2>1, <2>2
<1> HIDE DEF aligned
<1>5. /\ StageOk(fitting) /\ (fitting.ready => stager.ready)
      /\ fitting.stage # <<>> => packets.next = Advance(fitting.stage[1], Len(fitting.stage))
      /\ Len(stager.stage) < Period => fitting = aligned
  <2>1. CASE Overflows(aligned, p)
    <3>1. StageOk(fitting) /\ fitting.stage = <<>> /\ ~fitting.ready
      BY <1>4, <2>1, CountOk
    <3>2. Len(stager.stage) < Period => ~Overflows(aligned, p)
      <4>1. stager.stage \in Frames /\ Len(stager.stage) \in Nat
        BY FramesFacts DEF StageOk, Stager
      <4>2. Period \in Nat \ {0} /\ BufferFrames \in Nat
        BY StagerAssumption
      <4>3. Len(aligned.stage) \in {0, Len(stager.stage)}
        BY <1>4, EmptyFrames
      <4>4. \A a, b \in Nat : a < Period /\ b <= BufferFrames => ~(a + b > BufferFrames + Period) /\ ~(0 + b > BufferFrames + Period)
        BY <4>2
      <4>5. Len(stager.stage) < Period => ~(Len(aligned.stage) + Len(p.content) > BufferFrames + Period)
        BY <1>3, <4>1, <4>3, <4>4, Zenon
      <4>6. QED
        BY <4>5 DEF Overflows, Capacity
    <3>3. QED
      BY <2>1, <3>1, <3>2
  <2>2. CASE ~Overflows(aligned, p)
    BY <1>4, <2>2
  <2>3. QED
    BY <2>1, <2>2
<1> DEFINE t == Stage(fitting, p)
<1>6. AppendPacket(stager, p) = t
  BY DEF AppendPacket, aligned
<1> HIDE DEF fitting
<1>7. /\ StageOk(t) /\ t.ready = fitting.ready /\ t.dropouts = fitting.dropouts
      /\ Advance(t.stage[1], Len(t.stage)) = Advance(packets.next, Len(p.content))
      /\ t.expected \in {Unknown, Advance(packets.next, Len(p.content))}
  BY <1>1, <1>2, <1>3, <1>5, StageJoins
<1> HIDE DEF t
<1>8. stager.havePacket /\ Len(stager.stage) < Period => (t.dropouts # stager.dropouts <=> packets.gap)
  BY <1>1, <1>4, <1>5, <1>7
<1>9. QED
  BY <1>5, <1>6, <1>7, <1>8

-----------------------------------------------------------------------------
(* The loop.                                                               *)

Points == {"out", "wait", "waitBuffer", "waitPacket", "pollCapture", "drain", "drainPacket",
           "pollRender", "sample", "block", "callback", "xrun", "end"}

\* The thread is in its loop between Start and Stop only, and begins it with
\* nothing staged and nothing prepared.
PcInv ==
    /\ pc \in Points
    /\ pc \notin {"out", "end"} => phase = "run"
    /\ phase \in {"open", "opened", "failed", "start"} => pc = "out"
    /\ phase # "run" \/ pc = "out" => stager = NewStager /\ ~ready

Short == ~stager.ready /\ Len(stager.stage) < Period

\* Each kind of stream waits in its own way; the callback finds a period on
\* every side; packets are asked for while no whole period is staged; and
\* outside a duplex stream, a period that is up is handed to the callback.
PlaceInv ==
    /\ pc \in {"pollCapture", "drain"} => Polled
    /\ pc \in {"drainPacket", "waitPacket"} => mode = "exclusiveCapture"
    /\ pc = "waitBuffer" => mode = "exclusiveRender"
    /\ pc \in {"pollRender", "sample"} => mode \in {"render", "duplex"}
    /\ ~Capturing => stager = NewStager
    /\ ~Rendering => ~ready
    /\ pc = "callback" => (Capturing => stager.ready) /\ (Rendering => ready)
    /\ pc \in {"drain", "drainPacket"} \/ (pc = "block" /\ mode = "exclusiveCapture") => Short
    /\ mode # "duplex" => /\ stager.ready \/ ready => pc \in {"callback", "end"}
                          /\ result # "refused"

\* Until a call fails the stage meets what the endpoint holds.
StagingInv ==
    /\ packets \in Chunk
    /\ StageOk(stager)
    /\ pc \notin {"xrun", "end"} => Follows(stager, packets)

\* What each side's event would be missed for has been looked at since.
CaptureQuiet == mode \in {"capture", "loopback", "duplex"} /\ <<"capture", "audio">> \notin signalled
RenderQuiet == mode \in {"render", "duplex"} /\ <<"render", "audio">> \notin signalled
WakeInv ==
    /\ pc \in {"pollRender", "sample", "block"} /\ CaptureQuiet => stager.ready \/ packets.frames = 0
    /\ pc = "block" /\ RenderQuiet => ready \/ ~RoomForPeriod

LoopInv == mode \in AllModes /\ PcInv /\ PlaceInv /\ StagingInv /\ WakeInv

\* The invariant of the loop holds before Start.
LEMMA LoopInit == StreamInit => LoopInv
<1> SUFFICES ASSUME StreamInit PROVE LoopInv
  OBVIOUS
<1>1. mode \in AllModes
  BY SessionAssumption DEF StreamInit, Init
<1>2. PcInv
  BY DEF StreamInit, Init, PcInv, Points
<1>3. PlaceInv
  BY StartsOk DEF StreamInit, PlaceInv
<1>4. 0 \in Position /\ 0 \in 0 .. BufferFrames
  BY StagerAssumption DEF Position
<1>5. StagingInv
  BY <1>4, StartsOk DEF StreamInit, StagingInv, NoPackets, Chunk, Follows
<1>6. WakeInv
  BY DEF StreamInit, WakeInv
<1>7. QED
  BY <1>1, <1>2, <1>3, <1>5, <1>6 DEF LoopInv

\* What never changes while the loop runs.
LEMMA ModeKeeps ==
  ASSUME mode' = mode
  PROVE  Capturing' = Capturing /\ Rendering' = Rendering /\ Polled' = Polled
BY DEF Capturing, Rendering, Polled, Exclusive

\* The points of the loop are within a running session.
LEMMA StillRunning ==
  ASSUME PcInv, phase = "run", phase' = phase, pc' \in Points \ {"out"}
  PROVE  PcInv'
BY DEF PcInv

\* Acquiring and releasing happen outside of the loop; Interrupt and the
\* endpoints' offers do not touch it.
LEMMA SessionLeaves ==
  ASSUME LoopInv, SessionThread \/ Interrupt \/ EndpointChanges,
         UNCHANGED <<pc, result, stager, ready, packets, padding>>
  PROVE  LoopInv'
<1> USE DEF LoopInv
<1>1. mode' = mode
  BY DEF SessionThread, Interrupt, EndpointChanges, Environment, Acquire, Check, Initialize, Misaligned,
     Reactivate, Recheck, Prepare, StepFails, ProbeEnds, Start, SideStarted, StartFails, ReleaseObjects,
     CloseInterrupt
<1>2. CASE phase = "run"
  <2>1. phase' = "run" /\ signalled \subseteq signalled'
    BY <1>2 DEF SessionThread, Interrupt, EndpointChanges, Environment, Acquire, Check, Initialize, Misaligned,
       Reactivate, Recheck, Prepare, StepFails, ProbeEnds, Start, SideStarted, StartFails, ReleaseObjects,
       CloseInterrupt, AtStep
  <2>2. PcInv'
    BY <1>2, <2>1 DEF PcInv
  <2>3. WakeInv'
    BY <1>1, <2>1 DEF WakeInv, RoomForPeriod, RenderPeriod, CaptureQuiet, RenderQuiet
  <2>4. PlaceInv' /\ StagingInv'
    BY <1>1, ModeKeeps DEF PlaceInv, StagingInv, Short
  <2>5. QED
    BY <1>1, <2>2, <2>3, <2>4
<1>3. CASE phase # "run"
  <2>1. /\ phase' = "run" => phase = "start"
        /\ phase' \in {"open", "opened", "failed", "start"} => phase \in {"open", "opened", "failed", "start"}
    BY <1>3 DEF SessionThread, Interrupt, EndpointChanges, Environment, Acquire, Check, Initialize, Misaligned,
       Reactivate, Recheck, Prepare, StepFails, ProbeEnds, Start, SideStarted, StartFails, ReleaseObjects,
       CloseInterrupt, AtStep
  <2>2. PcInv'
    BY <1>3, <2>1 DEF PcInv
  <2>3. WakeInv'
    BY <1>3 DEF WakeInv, PcInv
  <2>4. PlaceInv' /\ StagingInv'
    BY <1>1, ModeKeeps DEF PlaceInv, StagingInv, Short
  <2>5. QED
    BY <1>1, <2>2, <2>3, <2>4
<1>4. QED
  BY <1>2, <1>3

\* The devices keep the invariant of the loop.
LEMMA TicksKeep ==
  ASSUME LoopInv, CaptureTick \/ RenderTick
  PROVE  LoopInv'
<1> USE DEF LoopInv
<1>1. UNCHANGED <<mode, phase, pc, result, stager, ready>> /\ phase = "run"
  BY DEF CaptureTick, RenderTick
<1>2. PcInv' /\ PlaceInv'
  BY <1>1, ModeKeeps DEF PcInv, PlaceInv, Short
<1>3. CASE CaptureTick
  <2>1. /\ UNCHANGED padding /\ <<"capture", "audio">> \in signalled' /\ signalled \subseteq signalled'
    BY <1>3 DEF CaptureTick
  <2>2. WakeInv'
    BY <1>1, <2>1 DEF WakeInv, CaptureQuiet, RenderQuiet, RoomForPeriod, RenderPeriod
  <2>3. /\ packets \in Chunk /\ packets.next \in Position /\ packets.frames \in 0 .. BufferFrames
        /\ packets.gap \in BOOLEAN /\ BufferFrames \in Nat \ {0}
    BY StagerAssumption DEF StagingInv, Chunk
  <2>4. Advance(packets.next, 1) \in Position
    BY <2>3, AdvanceType
  <2>5. PICK k \in 1 .. BufferFrames :
          packets' = IF packets.frames + k <= BufferFrames
                     THEN [packets EXCEPT !.frames = @ + k]
                     ELSE [packets EXCEPT !.next = IF packets.gap THEN @ ELSE Advance(@, 1),
                                          !.frames = k, !.gap = TRUE]
    <3>1. (IF Exclusive THEN {BufferFrames} ELSE 1 .. BufferFrames) \subseteq 1 .. BufferFrames
      BY <2>3
    <3>2. QED
      BY <1>3, <3>1 DEF CaptureTick
  <2>6. CASE packets.frames + k <= BufferFrames
    <3>1. packets' = [packets EXCEPT !.frames = @ + k] /\ packets.frames + k \in 0 .. BufferFrames
      BY <2>3, <2>5, <2>6
    <3>2. packets' \in Chunk /\ packets'.next = packets.next /\ packets'.gap = packets.gap
      BY <2>3, <3>1 DEF Chunk
    <3>3. QED
      BY <1>1, <1>2, <2>2, <3>2 DEF StagingInv, Follows
  <2>7. CASE packets.frames + k > BufferFrames
    <3> DEFINE next == IF packets.gap THEN packets.next ELSE Advance(packets.next, 1)
    <3>1. packets' = [packets EXCEPT !.next = next, !.frames = k, !.gap = TRUE]
      BY <2>3, <2>5, <2>7
    <3>2. next \in Position
      BY <2>3, <2>4
    <3> HIDE DEF next
    <3>a. packets' = [next |-> next, frames |-> k, gap |-> TRUE]
      BY <2>3, <3>1 DEF Chunk
    <3>b. k \in 0 .. BufferFrames
      BY <2>3
    <3>3. packets' \in Chunk /\ packets'.gap = TRUE /\ packets'.next = next
      BY <3>2, <3>a, <3>b DEF Chunk
    <3>4. QED
      BY <1>1, <1>2, <2>2, <3>3 DEF StagingInv, Follows, next
  <2>8. QED
    BY <2>3, <2>6, <2>7
<1>4. CASE RenderTick
  <2>1. /\ UNCHANGED packets /\ <<"render", "audio">> \in signalled' /\ signalled \subseteq signalled'
    BY <1>4 DEF RenderTick
  <2>2. WakeInv'
    BY <1>1, <2>1 DEF WakeInv, CaptureQuiet, RenderQuiet
  <2>3. StagingInv'
    BY <1>1, <2>1 DEF StagingInv
  <2>4. QED
    BY <1>1, <1>2, <2>2, <2>3
<1>5. QED
  BY <1>3, <1>4

\* The steps that look at the stage without changing it.
LEMMA LooksKeep ==
  ASSUME LoopInv, EnterLoop \/ Wait \/ PollRender \/ SampleClock \/ RenderFails \/ WaitFails
  PROVE  LoopInv'
<1> USE DEF LoopInv
<1>1. /\ UNCHANGED <<mode, phase, stager, packets, signalled>> /\ phase = "run"
      /\ pc \notin {"xrun", "end"}
  BY DEF EnterLoop, Wait, PollRender, SampleClock, RenderFails, WaitFails, Here, session, Device
<1>2. Capturing' = Capturing /\ Rendering' = Rendering /\ Polled' = Polled
  BY <1>1, ModeKeeps
<1>3. pc' \in Points \ {"out"}
  BY DEF EnterLoop, Wait, PollRender, SampleClock, RenderFails, WaitFails, Points, End
<1>4. PcInv' /\ StagingInv'
  BY <1>1, <1>3, StillRunning DEF StagingInv
<1>5. CASE EnterLoop
  <2>1. pc' = "wait" /\ UNCHANGED <<result, ready>> /\ ~ready /\ ~stager.ready /\ pc = "out"
    BY <1>5, StartsOk DEF EnterLoop, PcInv, Here
  <2>2. PlaceInv'
    BY <1>1, <1>2, <2>1 DEF PlaceInv
  <2>3. QED
    BY <1>1, <1>4, <2>1, <2>2 DEF WakeInv
<1>6. CASE Wait
  <2>1. /\ UNCHANGED ready /\ pc = "wait"
        /\ \/ pc' = "end" /\ result' = "refused" /\ (stager.ready \/ ready)
           \/ UNCHANGED result /\ mode = "exclusiveRender" /\ pc' = "waitBuffer"
           \/ UNCHANGED result /\ mode = "exclusiveCapture" /\ pc' = "waitPacket"
           \/ UNCHANGED result /\ Polled /\ pc' = "pollCapture"
           \/ UNCHANGED result /\ mode = "render" /\ pc' = "pollRender"
    BY <1>6 DEF Wait, Here, End, Polled, Capturing, Exclusive, AllModes, Device
  <2>2. PlaceInv'
    BY <1>1, <1>2, <2>1 DEF PlaceInv
  <2>3. WakeInv'
    BY <1>1, <2>1 DEF WakeInv, CaptureQuiet
  <2>4. QED
    BY <1>1, <1>4, <2>2, <2>3

<1>7. CASE PollRender
  <2>1. /\ UNCHANGED <<ready, padding>> /\ pc = "pollRender"
        /\ \/ pc' = "end" /\ result' = "interrupted"
           \/ UNCHANGED result /\ pc' = "callback" /\ ready /\ (mode = "duplex" => stager.ready)
           \/ UNCHANGED result /\ pc' = "sample"
           \/ UNCHANGED result /\ pc' = "block" /\ (ready \/ ~RoomForPeriod)
    BY <1>7 DEF PollRender, Here, End, Device
  <2>2. mode \in {"render", "duplex"} /\ (mode = "render" => ~Capturing)
    BY <2>1 DEF PlaceInv, Capturing
  <2>3. PlaceInv'
    BY <1>1, <1>2, <2>1, <2>2 DEF PlaceInv
  <2>4. WakeInv'
    BY <1>1, <2>1 DEF WakeInv, CaptureQuiet, RoomForPeriod, RenderPeriod
  <2>5. QED
    BY <1>1, <1>4, <2>3, <2>4
<1>8. CASE SampleClock
  <2>1. /\ pc = "sample"
        /\ \/ pc' = "end" /\ result' = "interrupted" /\ UNCHANGED ready
           \/ UNCHANGED result /\ pc' = "block" /\ ready' /\ mode = "duplex"
           \/ UNCHANGED result /\ pc' = "callback" /\ ready' /\ (mode = "duplex" => stager.ready)
    BY <1>8 DEF SampleClock, Here, End
  <2>2. mode \in {"render", "duplex"} /\ (mode = "render" => ~Capturing) /\ Rendering
    BY <2>1 DEF PlaceInv, Capturing, Rendering
  <2>3. PlaceInv'
    BY <1>1, <1>2, <2>1, <2>2 DEF PlaceInv
  <2>4. WakeInv'
    BY <1>1, <2>1 DEF WakeInv, CaptureQuiet
  <2>5. QED
    BY <1>1, <1>4, <2>3, <2>4
<1>9. CASE RenderFails \/ WaitFails
  <2>1. /\ UNCHANGED ready /\ pc \in {"pollRender", "sample", "block"}
        /\ \/ pc = "pollRender" /\ pc' = "xrun" /\ UNCHANGED result
           \/ pc' = "end" /\ result' = "fatal"
    BY <1>9 DEF RenderFails, WaitFails, Here, End
  <2>2. PlaceInv'
    BY <1>1, <1>2, <2>1 DEF PlaceInv
  <2>3. QED
    BY <1>1, <1>4, <2>1, <2>2 DEF WakeInv
<1>10. QED
  BY <1>5, <1>6, <1>7, <1>8, <1>9

\* A stage that is looked at for a period meets the endpoint as before.
LEMMA PrepareKeeps ==
  ASSUME StagingInv, pc \notin {"xrun", "end"}, UNCHANGED packets,
         stager' = PreparePeriod(stager) \/ UNCHANGED stager
  PROVE  StagingInv'
<1>1. /\ StageOk(stager)' /\ stager'.stage = stager.stage /\ stager'.expected = stager.expected
  BY PrepareOk DEF StagingInv
<1>2. QED
  BY <1>1 DEF StagingInv, Follows

\* So does all that comes before the first wait.
LEMMA PreparesKeep ==
  ASSUME LoopInv, PollCapture \/ WaitExclusive
  PROVE  LoopInv'
<1> USE DEF LoopInv
<1>1. /\ UNCHANGED <<mode, phase, packets, signalled, ready>> /\ phase = "run"
      /\ pc \in {"pollCapture", "waitBuffer", "waitPacket"}
  BY DEF PollCapture, WaitExclusive, Here, session, Device
<1>2. Capturing' = Capturing /\ Rendering' = Rendering /\ Polled' = Polled
  BY <1>1, ModeKeeps
<1>3. stager' = PreparePeriod(stager) \/ UNCHANGED stager
  BY DEF PollCapture, WaitExclusive
<1>4. pc' \in Points \ {"out"}
  BY DEF PollCapture, WaitExclusive, Points, End, AfterCapture
<1>5. PcInv' /\ StagingInv'
  BY <1>1, <1>3, <1>4, StillRunning, PrepareKeeps
<1>6. StageOk(stager)
  BY DEF StagingInv
<1>7. CASE PollCapture
  <2>1. /\ pc = "pollCapture"
        /\ \/ pc' = "end" /\ result' = "interrupted" /\ UNCHANGED stager
           \/ /\ UNCHANGED result /\ stager' = PreparePeriod(stager)
              /\ \/ stager'.ready /\ mode = "duplex" /\ pc' = "pollRender"
                 \/ stager'.ready /\ mode # "duplex" /\ pc' = "callback"
                 \/ ~stager'.ready /\ pc' = "drain"
    BY <1>7 DEF PollCapture, AfterCapture, Here, End
  <2>2. Polled /\ Capturing
    BY <2>1 DEF PlaceInv, Polled
  <2>3. stager' = PreparePeriod(stager) => (~stager'.ready => Short')
    BY <1>6, PrepareOk DEF Short
  <2>4. mode # "duplex" => ~Rendering /\ ~ready
    BY <2>2 DEF Rendering, PlaceInv, Polled, Capturing
  <2>5. PlaceInv'
    BY <1>1, <1>2, <2>1, <2>2, <2>3, <2>4 DEF PlaceInv
  <2>6. WakeInv'
    BY <1>1, <2>1 DEF WakeInv
  <2>7. QED
    BY <1>1, <1>5, <2>5, <2>6
<1>8. CASE WaitExclusive
  <2>1. \/ pc' = "end" /\ result' = "interrupted" /\ UNCHANGED stager
        \/ /\ UNCHANGED result /\ pc' = IF stager'.ready THEN "callback" ELSE "block"
           /\ stager' = IF mode = "exclusiveCapture" THEN PreparePeriod(stager) ELSE stager
    BY <1>8 DEF WaitExclusive, End
  <2>2. \/ mode = "exclusiveCapture" /\ pc = "waitPacket" /\ Capturing /\ ~Rendering /\ ~ready
        \/ mode = "exclusiveRender" /\ pc = "waitBuffer" /\ ~Capturing /\ stager = NewStager
    BY <1>8 DEF WaitExclusive, Here, PlaceInv, Capturing, Rendering
  <2>3. stager' = PreparePeriod(stager) => (~stager'.ready => Short')
    BY <1>6, PrepareOk DEF Short
  <2>4. PlaceInv'
    BY <1>1, <1>2, <2>1, <2>2, <2>3, StartsOk DEF PlaceInv
  <2>5. WakeInv'
    BY <1>1, <2>2 DEF WakeInv, CaptureQuiet, RenderQuiet
  <2>6. QED
    BY <1>1, <1>5, <2>4, <2>5
<1>9. QED
  BY <1>7, <1>8

\* Taking a packet leaves a stage that meets what the endpoint still holds.
LEMMA TakeOk ==
  ASSUME StagingInv, Short, pc \notin {"xrun", "end"}, packets.frames > 0, TakePacket
  PROVE  /\ packets' \in Chunk /\ StageOk(stager)' /\ Follows(stager, packets)'
         /\ ~stager'.ready => Short'
         /\ stager.havePacket => (stager'.dropouts # stager.dropouts <=> packets.gap)
<1>1. StageOk(stager) /\ packets \in Chunk /\ Follows(stager, packets) /\ Len(stager.stage) < Period
  BY DEF StagingInv, Short
<1>2. PICK p \in HonestPackets :
        /\ stager' = LET s == AppendPacket(stager, p)
                     IN  IF Len(s.stage) >= Period THEN PreparePeriod(s) ELSE s
        /\ packets' = [packets EXCEPT !.next = Advance(@, Len(p.content)),
                                      !.frames = @ - Len(p.content), !.gap = FALSE]
  BY DEF TakePacket
<1> DEFINE s == AppendPacket(stager, p)
           n == Len(p.content)
<1>3. n \in 1 .. packets.frames
  BY <1>1, GapIsTold
<1>4. /\ StageOk(s) /\ ~s.ready
      /\ Advance(s.stage[1], Len(s.stage)) = Advance(packets.next, n)
      /\ s.expected \in {Unknown, Advance(packets.next, n)}
      /\ stager.havePacket => (s.dropouts # stager.dropouts <=> packets.gap)
  BY <1>1, AppendOk DEF Short
<1>5. stager' = IF Len(s.stage) >= Period THEN PreparePeriod(s) ELSE s
  BY <1>2
<1> HIDE DEF s, n
<1>6. /\ packets.next \in Position /\ packets.frames \in 0 .. BufferFrames /\ BufferFrames \in Nat
      /\ n \in Nat /\ packets.frames - n \in 0 .. BufferFrames
  <2>1. packets.next \in Position /\ packets.frames \in 0 .. BufferFrames /\ BufferFrames \in Nat
    BY <1>1, StagerAssumption DEF Chunk
  <2>2. \A f \in 0 .. BufferFrames : \A k \in 1 .. f : k \in Nat /\ f - k \in 0 .. BufferFrames
    BY <2>1
  <2>3. QED
    BY <1>3, <2>1, <2>2
<1>7. packets' = [next |-> Advance(packets.next, n), frames |-> packets.frames - n, gap |-> FALSE]
  BY <1>1, <1>2 DEF Chunk, n
<1>8. packets' \in Chunk /\ packets'.gap = FALSE /\ packets'.next = Advance(packets.next, n)
  BY <1>6, <1>7, AdvanceType DEF Chunk
<1>9. /\ StageOk(stager)' /\ stager'.stage = s.stage /\ stager'.expected = s.expected
      /\ stager'.dropouts = s.dropouts /\ (~stager'.ready => Len(s.stage) < Period)
  <2>1. CASE Len(s.stage) >= Period
    BY <1>4, <1>5, <2>1, PrepareOk
  <2>2. CASE ~(Len(s.stage) >= Period)
    <3>1. Len(s.stage) \in Nat /\ Period \in Nat
      BY <1>4, FramesFacts, StagerAssumption DEF StageOk, Stager
    <3>2. QED
      BY <1>4, <1>5, <2>2, <3>1
  <2>3. QED
    BY <2>1, <2>2
<1>10. Follows(stager, packets)'
  BY <1>4, <1>8, <1>9 DEF Follows
<1>11. QED
  BY <1>4, <1>8, <1>9, <1>10 DEF Short

\* A drain that ends has emptied the endpoint; one that goes on takes a packet.
LEMMA DrainTakes ==
  ASSUME LoopInv, Drain \/ DrainExclusive
  PROVE  \/ UNCHANGED <<stager, packets>> /\ (pc = "drain" => packets.frames = 0)
         \/ packets.frames > 0 /\ TakePacket
<1> USE DEF LoopInv
<1>1. CASE Drain
  <2>1. (UNCHANGED <<stager, packets>> /\ packets.frames = 0) \/ TakePacket
    BY <1>1 DEF Drain
  <2>2. pc = "drain" /\ ~Exclusive
    BY <1>1 DEF Drain, Here, PlaceInv, Polled
  <2>3. packets.frames \in Nat
    BY StagerAssumption DEF StagingInv, Chunk
  <2>4. TakePacket => packets.frames > 0
    <3>1. packets.frames = 0 => 1 .. packets.frames = {}
      BY <2>3
    <3>2. packets.frames = 0 => NextPackets = {}
      BY <2>2, <3>1 DEF NextPackets
    <3>3. TakePacket => NextPackets # {}
      BY DEF TakePacket, HonestPackets
    <3>4. QED
      BY <2>3, <3>2, <3>3
  <2>5. QED
    BY <2>1, <2>4
<1>2. CASE DrainExclusive
  BY <1>2 DEF DrainExclusive, Here
<1>3. QED
  BY <1>1, <1>2

\* So does draining what capture has queued.
LEMMA DrainsKeep ==
  ASSUME LoopInv, Drain \/ DrainExclusive
  PROVE  LoopInv'
<1> USE DEF LoopInv
<1>1. /\ UNCHANGED <<mode, phase, signalled, ready, result, padding>> /\ phase = "run"
      /\ pc \in {"drain", "drainPacket"}
  BY DEF Drain, DrainExclusive, Here, session
<1>2. Capturing' = Capturing /\ Rendering' = Rendering /\ Polled' = Polled
  BY <1>1, ModeKeeps
<1>3. Short /\ ~stager.ready
  BY <1>1 DEF PlaceInv, Short
<1>4. \/ UNCHANGED <<stager, packets>> /\ (pc = "drain" => packets.frames = 0)
      \/ packets.frames > 0 /\ TakePacket
  BY DrainTakes
<1>5. StagingInv' /\ (~stager'.ready => Short')
  <2>1. CASE UNCHANGED <<stager, packets>>
    BY <1>1, <1>3, <2>1 DEF StagingInv, Short
  <2>2. CASE packets.frames > 0 /\ TakePacket
    BY <1>1, <1>3, <2>2, TakeOk DEF StagingInv
  <2>3. QED
    BY <1>4, <2>1, <2>2
<1>6. CASE Drain
  <2>1. Polled /\ Capturing /\ ~Exclusive /\ (mode # "duplex" => ~Rendering)
    BY <1>6 DEF Drain, Here, PlaceInv, Polled, Capturing, Rendering
  <2>2. \/ packets.frames = 0 /\ UNCHANGED <<stager, packets>> /\ pc' = AfterCapture(stager')
        \/ pc' = IF stager'.ready THEN AfterCapture(stager') ELSE "drain"
    BY <1>6 DEF Drain
  <2>3. \/ stager'.ready /\ mode = "duplex" /\ pc' = "pollRender"
        \/ stager'.ready /\ mode # "duplex" /\ pc' = "callback"
        \/ ~stager'.ready /\ pc' = "drain"
        \/ ~stager'.ready /\ packets'.frames = 0 /\ pc' = (IF mode = "duplex" THEN "pollRender" ELSE "block")
    BY <2>2 DEF AfterCapture
  <2>4. PcInv'
    BY <1>1, <2>3, StillRunning DEF Points
  <2>r. mode # "duplex" => ~ready
    BY <2>1 DEF PlaceInv
  <2>5. PlaceInv'
    BY <1>1, <1>2, <1>5, <2>1, <2>3, <2>r DEF PlaceInv, Exclusive
  <2>6. WakeInv'
    BY <1>1, <2>1, <2>3 DEF WakeInv, RenderQuiet, Rendering
  <2>7. QED
    BY <1>1, <1>5, <2>4, <2>5, <2>6
<1>7. CASE DrainExclusive
  <2>1. mode = "exclusiveCapture" /\ Capturing /\ ~Rendering /\ ~ready
    BY <1>7 DEF DrainExclusive, Here, PlaceInv, Capturing, Rendering
  <2>2. \/ pc' = "block" /\ UNCHANGED stager
        \/ pc' = IF stager'.ready THEN "callback" ELSE "drainPacket"
    BY <1>7 DEF DrainExclusive
  <2>3. PcInv'
    BY <1>1, <2>2, StillRunning DEF Points
  <2>4. PlaceInv'
    BY <1>1, <1>2, <1>3, <1>5, <2>1, <2>2 DEF PlaceInv
  <2>5. WakeInv'
    BY <1>1, <2>1 DEF WakeInv, CaptureQuiet, RenderQuiet
  <2>6. QED
    BY <1>1, <1>5, <2>3, <2>4, <2>5
<1>8. QED
  BY <1>6, <1>7

\* So does a capture that fails.
LEMMA CaptureFailsKeeps ==
  ASSUME LoopInv, CaptureFails
  PROVE  LoopInv'
<1> USE DEF LoopInv
<1>1. /\ UNCHANGED <<mode, phase, signalled, ready, packets>> /\ phase = "run"
      /\ pc \in {"drain", "drainPacket"} /\ pc' \in {"xrun", "end"}
      /\ result' = result \/ result' = "fatal"
  BY DEF CaptureFails, Here, session, Device, End
<1>2. Capturing' = Capturing /\ Rendering' = Rendering /\ Polled' = Polled
  BY <1>1, ModeKeeps
<1>3. ~stager.ready /\ Capturing
  BY <1>1 DEF PlaceInv, Short, Polled, Capturing
<1>4. StageOk(stager)' /\ ~stager'.ready
  <2>1. CASE UNCHANGED stager
    BY <1>3, <2>1 DEF StagingInv
  <2>2. CASE packets.frames > 0 /\ \E p \in HonestPackets : stager' = AppendPacket(stager, p)
    BY <1>1, <1>3, <2>2, AppendOk DEF StagingInv
  <2>3. QED
    BY <2>1, <2>2 DEF CaptureFails
<1>5. PcInv' /\ StagingInv'
  BY <1>1, <1>4, StillRunning DEF Points, StagingInv
<1>6. PlaceInv'
  BY <1>1, <1>2, <1>3, <1>4 DEF PlaceInv
<1>7. WakeInv'
  BY <1>1 DEF WakeInv
<1>8. QED
  BY <1>1, <1>5, <1>6, <1>7

\* The event that woke the thread is looked for on the side it belongs to.
LEMMA WakeKeeps ==
  ASSUME LoopInv, Wake
  PROVE  LoopInv'
<1> USE DEF LoopInv
<1>1. /\ UNCHANGED <<mode, phase, stager, packets, padding>> /\ phase = "run" /\ pc = "block"
      /\ \/ pc' = "end" /\ result' = "interrupted" /\ (ready' => ready)
         \/ UNCHANGED result /\ mode = "exclusiveRender" /\ pc' = "callback" /\ ready'
         \/ UNCHANGED result /\ mode = "exclusiveCapture" /\ pc' = "drainPacket" /\ (ready' => ready)
         \/ UNCHANGED result /\ Polled /\ pc' = "pollCapture" /\ (ready' => ready)
         \/ UNCHANGED result /\ mode = "render" /\ pc' = "pollRender" /\ (ready' => ready)
  <2>1. /\ UNCHANGED <<mode, phase, stager, packets, padding>> /\ phase = "run" /\ pc = "block"
        /\ \/ End("interrupted") /\ UNCHANGED ready
           \/ /\ UNCHANGED result
              /\ ready' = (ready \/ mode = "exclusiveRender")
              /\ pc' = CASE mode = "exclusiveRender" -> "callback"
                         [] mode = "exclusiveCapture" -> "drainPacket"
                         [] Polled -> "pollCapture"
                         [] OTHER -> "pollRender"
    BY DEF Wake, Here, Device
  <2>2. mode \notin {"exclusiveRender", "exclusiveCapture"} /\ ~Polled => mode = "render"
    BY DEF Polled, Capturing, Exclusive, AllModes
  <2>3. QED
    <3>1. CASE End("interrupted") /\ UNCHANGED ready
      BY <2>1, <3>1 DEF End
    <3>2. CASE mode = "exclusiveRender" /\ ~End("interrupted")
      <4>1. ready' = (ready \/ TRUE)
        BY <2>1, <3>2
      <4>2. ready'
        BY <4>1, Zenon
      <4>3. UNCHANGED result /\ pc' = "callback"
        BY <2>1, <3>2 DEF Polled, Exclusive
      <4>4. QED
        BY <2>1, <3>2, <4>2, <4>3, Zenon
    <3>3. CASE mode = "exclusiveCapture" /\ ~End("interrupted")
      BY <2>1, <3>3 DEF Polled, Exclusive
    <3>4. CASE Polled /\ ~End("interrupted")
      <4>1. mode \notin {"exclusiveRender", "exclusiveCapture"}
        BY <3>4 DEF Polled, Exclusive
      <4>2. QED
        BY <2>1, <3>4, <4>1
    <3>5. CASE mode = "render" /\ ~Polled /\ ~End("interrupted")
      BY <2>1, <3>5
    <3>6. CASE End("interrupted") /\ ~UNCHANGED ready
      <4>1. UNCHANGED result /\ pc' # "end"
        BY <2>1, <3>6
      <4>2. QED
        BY <3>6, <4>1 DEF End
    <3>7. QED
      BY <2>2, <3>1, <3>2, <3>3, <3>4, <3>5, <3>6
<1>2. Capturing' = Capturing /\ Rendering' = Rendering /\ Polled' = Polled
  BY <1>1, ModeKeeps
<1>3. PcInv' /\ StagingInv'
  BY <1>1, StillRunning DEF Points, StagingInv
<1>4. PlaceInv'
  BY <1>1, <1>2 DEF PlaceInv, Capturing, Rendering, Short
<1>5. WakeInv'
  BY <1>1 DEF WakeInv, CaptureQuiet
<1>6. QED
  BY <1>1, <1>3, <1>4, <1>5

\* Each side has a period up, so nothing is refused; what is left of the stage
\* still meets the endpoint, and no period is up on either side.
LEMMA CommitKeeps ==
  ASSUME LoopInv, Commit
  PROVE  LoopInv'
<1> USE DEF LoopInv
<1>1. /\ UNCHANGED <<mode, phase, signalled, packets>> /\ phase = "run" /\ pc = "callback"
      /\ (Capturing => stager.ready) /\ (Rendering => ready)
  BY DEF Commit, Here, session, PlaceInv
<1>2. Capturing' = Capturing /\ Rendering' = Rendering /\ Polled' = Polled
  BY <1>1, ModeKeeps
<1>3. stager' = IF Capturing THEN CommitPeriod(stager) ELSE stager
  BY <1>1 DEF Commit
<1>4. PICK answer \in (IF Rendering THEN CommitAnswers ELSE {"ok"}) :
        /\ ready' = (ready /\ ~Clears(answer))
        /\ CASE answer = "ok" -> pc' = "wait" /\ UNCHANGED result
             [] answer = "xrun" -> pc' = "xrun" /\ UNCHANGED result
             [] OTHER -> End("fatal")
  BY <1>1 DEF Commit
<1>5. ~ready' /\ pc' \in {"wait", "xrun", "end"} /\ (result' = result \/ result' = "fatal")
  <2>1. ~(ready /\ ~Clears(answer))
    BY <1>1, <1>4 DEF Clears, CommitAnswers, PlaceInv
  <2>2. pc' \in {"wait", "xrun", "end"} /\ (result' = result \/ result' = "fatal")
    BY <1>4 DEF End
  <2>3. QED
    BY <1>4, <2>1, <2>2
<1>6. StageOk(stager)' /\ ~stager'.ready /\ Follows(stager, packets)'
  <2>0. StageOk(stager) /\ Follows(stager, packets)
    BY <1>1 DEF StagingInv
  <2>1. CASE Capturing
    <3>1. /\ StageOk(stager)' /\ ~stager'.ready /\ stager'.expected = stager.expected
          /\ stager'.stage # <<>> =>
               /\ stager.stage # <<>>
               /\ Advance(stager'.stage[1], Len(stager'.stage)) = Advance(stager.stage[1], Len(stager.stage))
      BY <1>1, <1>3, <2>0, <2>1, CommitOk
    <3>2. QED
      BY <1>1, <2>0, <3>1 DEF Follows
  <2>2. CASE ~Capturing
    BY <1>1, <1>3, <2>0, <2>2, StartsOk DEF PlaceInv, Follows
  <2>3. QED
    BY <2>1, <2>2
<1>7. PcInv' /\ StagingInv' /\ WakeInv'
  BY <1>1, <1>5, <1>6, StillRunning DEF Points, StagingInv, WakeInv
<1>8. PlaceInv'
  BY <1>1, <1>2, <1>3, <1>5, <1>6 DEF PlaceInv
<1>9. QED
  BY <1>1, <1>7, <1>8

\* Recover drops the capture side's stage and its expectations.
LEMMA RecoverKeeps ==
  ASSUME LoopInv, Recover
  PROVE  LoopInv'
<1> USE DEF LoopInv
<1>1. /\ UNCHANGED <<mode, phase, signalled, packets, result, ready>> /\ phase = "run" /\ pc = "xrun"
      /\ pc' = "wait" /\ stager' = IF Capturing THEN Reset(stager) ELSE stager
  BY DEF Recover, Here, session, Device
<1>2. Capturing' = Capturing /\ Rendering' = Rendering /\ Polled' = Polled
  BY <1>1, ModeKeeps
<1>3. StageOk(stager)' /\ ~stager'.ready /\ stager'.stage = <<>> /\ stager'.expected = Unknown
  <2>1. CASE Capturing
    BY <1>1, <2>1, ResetOk DEF StagingInv
  <2>2. CASE ~Capturing
    BY <1>1, <2>2, StartsOk DEF PlaceInv
  <2>3. QED
    BY <2>1, <2>2
<1>4. PcInv' /\ StagingInv' /\ WakeInv'
  BY <1>1, <1>3, StillRunning DEF Points, StagingInv, WakeInv, Follows
<1>5. PlaceInv'
  BY <1>1, <1>2, <1>3 DEF PlaceInv
<1>6. QED
  BY <1>1, <1>4, <1>5

\* So does Stop.
LEMMA StopKeeps ==
  ASSUME LoopInv, Stop
  PROVE  LoopInv'
<1> USE DEF LoopInv
<1>1. /\ UNCHANGED <<mode, pc, result>> /\ pc = "end" /\ phase' = "clean"
      /\ stager' = NewStager /\ ready' = FALSE /\ packets' = NoPackets
  BY DEF Stop, Here
<1>2. Capturing' = Capturing /\ Rendering' = Rendering /\ Polled' = Polled
  BY <1>1, ModeKeeps
<1>3. packets' \in Chunk
  BY <1>1, StagerAssumption DEF Chunk, NoPackets, Position
<1>4. PcInv' /\ StagingInv' /\ WakeInv'
  BY <1>1, <1>3, StartsOk DEF PcInv, StagingInv, WakeInv
<1>5. PlaceInv'
  BY <1>1, <1>2, StartsOk DEF PlaceInv
<1>6. QED
  BY <1>1, <1>4, <1>5

\* Every step keeps it.
LEMMA LoopKeeps ==
  ASSUME LoopInv, [Next]_vars
  PROVE  LoopInv'
<1>1. CASE UNCHANGED vars
  <2>1. UNCHANGED <<mode, phase, pc, result, stager, ready, packets, padding, signalled>>
    BY <1>1 DEF vars, session
  <2>2. QED
    BY <2>1, ModeKeeps DEF LoopInv, PcInv, PlaceInv, StagingInv, WakeInv, Short, CaptureQuiet, RenderQuiet,
       RoomForPeriod, RenderPeriod
<1>2. CASE Next
  BY <1>2, SessionLeaves, TicksKeep, LooksKeep, PreparesKeep, DrainsKeep, CaptureFailsKeeps, WakeKeeps,
     CommitKeeps, RecoverKeeps, StopKeeps DEF Next, Running
<1>3. QED
  BY <1>1, <1>2

\* The inductive invariant of the loop: buffers, events, stager and what has been told of gaps.
THEOREM LoopInvariance == Spec => []LoopInv
BY LoopInit, LoopKeeps, PTL DEF Spec

(* Whatever packets the endpoint hands out, however they are lost, and     *)
(* whichever calls fail, a period is a run of frames, at the position told *)
(* with it.                                                                *)
THEOREM PeriodsTrue == Spec => []PeriodTrue
<1>1. LoopInv => PeriodTrue
  <2> SUFFICES ASSUME LoopInv, stager.ready
               PROVE  /\ \A i \in 1 .. Period - 1 : Input(stager)[i + 1] = Advance(Input(stager)[i], 1)
                      /\ stager.active \in {Unknown, Input(stager)[1]}
    BY DEF PeriodTrue
  <2> DEFINE q == stager.stage
  <2>1. /\ q \in Frames /\ Consecutive(q) /\ Len(q) \in Nat /\ Len(q) >= Period
        /\ stager.active \in {Unknown, q[1]}
    BY FramesFacts DEF LoopInv, StagingInv, StageOk, Stager
  <2>2. Period \in Nat \ {0}
    BY StagerAssumption
  <2> HIDE DEF q
  <2>3. \A i \in 1 .. Period : SubSeq(q, 1, Period)[i] = q[i]
    BY <2>1, <2>2
  <2>4. ASSUME NEW i \in 1 .. Period - 1
        PROVE  q[i + 1] = Advance(q[i], 1)
    <3>1. i \in 1 .. Len(q) /\ i + 1 \in 1 .. Len(q) /\ 1 \in 1 .. Len(q) /\ i - 1 \in Nat /\ (i - 1) + 1 = i
          /\ (i + 1) - 1 = i
      BY <2>1, <2>2
    <3>2. q[1] \in Position /\ q[i] = Advance(q[1], i - 1) /\ q[i + 1] = Advance(q[1], i)
      BY <2>1, <3>1 DEF Consecutive
    <3>3. QED
      BY <3>1, <3>2, AdvanceAdd
  <2>5. \A i \in 1 .. Period - 1 : i \in 1 .. Period /\ i + 1 \in 1 .. Period
    BY <2>2
  <2>6. QED
    BY <2>1, <2>2, <2>3, <2>4, <2>5 DEF Input, q
<1>2. QED
  BY <1>1, LoopInvariance, PTL

(* No one-sided stream is refused a call made in the core's order.         *)
THEOREM NothingRefused == Spec => []NeverRefused
<1>1. LoopInv => NeverRefused
  BY DEF LoopInv, PlaceInv, NeverRefused
<1>2. QED
  BY <1>1, LoopInvariance, PTL

-----------------------------------------------------------------------------
(* The interrupt.                                                          *)

\* What is left of an Interrupt: on each side the flag, then the event.
Ours == {d \in AllSides : HasSide(d)}
CallInv ==
    /\ caller \in Seq({"flag", "signal"} \X AllSides)
    /\ \A i \in 1 .. Len(caller) :
         /\ caller[i][2] \in Ours
         /\ caller[i][1] = "flag" =>
              i + 1 \in 1 .. Len(caller) /\ caller[i + 1] = <<"signal", caller[i][2]>>
         /\ caller[i][1] = "signal" =>
              IF i = 1 THEN caller[1][2] \in requested ELSE caller[i - 1] = <<"flag", caller[i][2]>>

\* The sides that have an event, those whose event is set, and the one that the
\* call is about to set.
Made == {d \in AllSides : "interrupt" \in live[d]}
Rung == {d \in AllSides : <<d, "interrupt">> \in signalled}
About == {d \in AllSides : AboutToSignal(d)}

\* Start creates the events in this step, so that they are there for the loop.
EventsAt == IF Exclusive THEN 8 ELSE 6
EventsMade ==
    /\ phase = "start" => /\ step > EventsAt => side \in Made
                          /\ mode = "duplex" /\ side = "render" => "capture" \in Made
    /\ phase = "run" => Ours \subseteq Made

\* An event is set for a request only; and while the stream starts or runs, each
\* request has its event set or about to be, once there is one.
EventInv ==
    /\ requested \subseteq Ours
    /\ Rung \subseteq requested
    /\ phase \in {"start", "run"} /\ pc # "end" => requested \cap Made \subseteq Rung \cup About

InterruptInv == CallInv /\ EventsMade /\ EventInv

\* Nobody has asked for anything when Open begins.
LEMMA InterruptInit == StreamInit => InterruptInv
<1> SUFFICES ASSUME StreamInit PROVE InterruptInv
  OBVIOUS
<1> DEFINE One(d) == <<<<"flag", d>>, <<"signal", d>>>>
<1>1. /\ mode \in AllModes /\ phase = "open" /\ signalled = {} /\ requested = {}
      /\ caller = IF mode = "duplex" THEN One("capture") \o One("render") ELSE One(SidesOf(mode)[1])
  BY SessionAssumption DEF StreamInit, Init
<1>2. ASSUME NEW d \in AllSides
      PROVE  /\ One(d) \in Seq({"flag", "signal"} \X AllSides) /\ Len(One(d)) = 2
             /\ One(d)[1] = <<"flag", d>> /\ One(d)[2] = <<"signal", d>>
  OBVIOUS
<1>3. CallInv
  <2>1. CASE mode = "duplex"
    <3> DEFINE both == One("capture") \o One("render")
    <3>1. "capture" \in AllSides /\ "render" \in AllSides /\ "capture" \in Ours /\ "render" \in Ours
      BY <2>1 DEF AllSides, Ours, HasSide, Capturing, Rendering
    <3>2. /\ both \in Seq({"flag", "signal"} \X AllSides) /\ Len(both) = 4
          /\ both[1] = <<"flag", "capture">> /\ both[2] = <<"signal", "capture">>
          /\ both[3] = <<"flag", "render">> /\ both[4] = <<"signal", "render">>
      <4>1. both \in Seq({"flag", "signal"} \X AllSides)
        BY <1>2, <3>1, ConcatProperties
      <4>2. Len(both) = 4
        BY <1>2, <3>1, ConcatProperties
      <4>3. both[1] = One("capture")[1] /\ both[2] = One("capture")[2]
        BY <1>2, <3>1, ConcatProperties
      <4>4. both[3] = One("render")[1] /\ both[4] = One("render")[2]
        BY <1>2, <3>1, ConcatProperties
      <4>5. QED
        BY <1>2, <3>1, <4>1, <4>2, <4>3, <4>4
    <3>3. caller = both
      BY <1>1, <2>1
    <3> HIDE DEF both, One
    <3>4. Len(caller) = 4
      BY <3>2, <3>3
    <3>5. ASSUME NEW i \in 1 .. Len(caller)
          PROVE  /\ caller[i][2] \in Ours
                 /\ caller[i][1] = "flag" =>
                      i + 1 \in 1 .. Len(caller) /\ caller[i + 1] = <<"signal", caller[i][2]>>
                 /\ caller[i][1] = "signal" =>
                      i # 1 /\ caller[i - 1] = <<"flag", caller[i][2]>>
      <4>1. i = 1 \/ i = 2 \/ i = 3 \/ i = 4
        BY <3>4
      <4>2. CASE i = 1
        BY <3>1, <3>2, <3>3, <3>4, <4>2
      <4>3. CASE i = 2
        BY <3>1, <3>2, <3>3, <4>3
      <4>4. CASE i = 3
        <5>1. i + 1 = 4 /\ i - 1 = 2
          BY <4>4
        <5>2. caller[i] = <<"flag", "render">> /\ caller[i + 1] = <<"signal", "render">>
          BY ONLY <3>2, <3>3, <4>4, <5>1
        <5>3. QED
          BY ONLY <3>1, <3>4, <4>4, <5>1, <5>2
      <4>5. CASE i = 4
        BY <3>1, <3>2, <3>3, <4>5
      <4>6. QED
        BY <4>1, <4>2, <4>3, <4>4, <4>5
    <3>6. QED
      BY <3>2, <3>3, <3>5 DEF CallInv
  <2>2. CASE mode # "duplex"
    <3> DEFINE d == SidesOf(mode)[1]
    <3>1. d \in AllSides /\ d \in Ours
      BY <1>1, <2>2 DEF SidesOf, AllSides, Ours, HasSide, Capturing, Rendering, AllModes
    <3>2. caller = One(d)
      BY <1>1, <2>2
    <3> HIDE DEF d
    <3>3. /\ caller \in Seq({"flag", "signal"} \X AllSides) /\ Len(caller) = 2
          /\ caller[1] = <<"flag", d>> /\ caller[2] = <<"signal", d>>
      BY <1>2, <3>1, <3>2
    <3>4. \A i \in 1 .. 2 : i \in {1, 2}
      OBVIOUS
    <3>5. QED
      BY <3>1, <3>3, <3>4 DEF CallInv
  <2>3. QED
    BY <2>1, <2>2
<1>4. EventsMade /\ EventInv
  BY <1>1 DEF EventsMade, EventInv, Rung
<1>5. QED
  BY <1>3, <1>4 DEF InterruptInv

\* A step of the call: the flag is followed by its event.
LEMMA InterruptMoves ==
  ASSUME SessionInv, InterruptInv, Interrupt, UNCHANGED pc
  PROVE  InterruptInv'
<1> DEFINE d == Head(caller)[2]
<1>1. /\ caller # <<>> /\ caller' = Tail(caller) /\ UNCHANGED <<mode, phase, side, step, live>>
      /\ live = field
  BY DEF Interrupt, SessionInv, SessionType
<1>2. /\ Head(caller) = caller[1] /\ caller[1] \in {"flag", "signal"} \X AllSides
      /\ caller' \in Seq({"flag", "signal"} \X AllSides) /\ Len(caller) \in Nat /\ Len(caller) >= 1
      /\ Len(caller') = Len(caller) - 1
      /\ \A i \in 1 .. Len(caller') : caller'[i] = caller[i + 1]
  BY <1>1, HeadTailProperties DEF InterruptInv, CallInv
<1>3. d \in AllSides /\ d \in Ours /\ Ours' = Ours
  BY <1>1, <1>2 DEF InterruptInv, CallInv, Ours, HasSide, Capturing, Rendering
<1>4. EventsMade' /\ Made' = Made
  <2>1. Made' = Made /\ EventsAt' = EventsAt
    BY <1>1 DEF Made, Exclusive, EventsAt
  <2>2. QED
    BY <1>1, <1>3, <2>1 DEF InterruptInv, EventsMade
<1>5. ASSUME NEW i \in 1 .. Len(caller')
      PROVE  /\ caller'[i][2] \in Ours
             /\ caller'[i][1] = "flag" =>
                  i + 1 \in 1 .. Len(caller') /\ caller'[i + 1] = <<"signal", caller'[i][2]>>
             /\ caller'[i][1] = "signal" /\ i # 1 => caller'[i - 1] = <<"flag", caller'[i][2]>>
             /\ caller'[i][1] = "signal" /\ i = 1 => caller[1] = <<"flag", caller'[1][2]>>
  <2>1. i + 1 \in 1 .. Len(caller) /\ i + 1 # 1 /\ caller'[i] = caller[i + 1] /\ (i + 1) - 1 = i
    BY <1>2
  <2>2. caller'[i][2] \in Ours
    BY <2>1 DEF InterruptInv, CallInv
  <2>3. ASSUME caller'[i][1] = "flag"
        PROVE  i + 1 \in 1 .. Len(caller') /\ caller'[i + 1] = <<"signal", caller'[i][2]>>
    <3>1. (i + 1) + 1 \in 1 .. Len(caller) /\ caller[(i + 1) + 1] = <<"signal", caller[i + 1][2]>>
      BY <2>1, <2>3 DEF InterruptInv, CallInv
    <3>2. i + 1 \in 1 .. Len(caller')
      BY <1>2, <3>1
    <3>3. QED
      BY <1>2, <2>1, <3>1, <3>2
  <2>4. ASSUME caller'[i][1] = "signal" PROVE caller[i] = <<"flag", caller'[i][2]>>
    BY <2>1, <2>4 DEF InterruptInv, CallInv
  <2>5. i # 1 => i - 1 \in 1 .. Len(caller') /\ caller'[i - 1] = caller[i]
    BY <1>2
  <2>6. QED
    BY <2>2, <2>3, <2>4, <2>5
<1>6. CASE Head(caller)[1] = "flag"
  <2>1. requested' = requested \cup {d} /\ UNCHANGED signalled
    BY <1>6 DEF Interrupt
  <2>2. CallInv'
    BY <1>2, <1>3, <1>5, <2>1 DEF CallInv
  <2>3. Len(caller') >= 1 /\ caller'[1] = <<"signal", d>>
    <3>1. 1 + 1 \in 1 .. Len(caller) /\ caller[1 + 1] = <<"signal", caller[1][2]>>
      BY <1>2, <1>6 DEF InterruptInv, CallInv
    <3>2. QED
      BY <1>2, <3>1
  <2>4. d \in About'
    BY <1>2, <1>3, <2>3, HeadTailProperties DEF About, AboutToSignal
  <2>5. About = {}
    BY <1>6 DEF About, AboutToSignal
  <2>6. EventInv'
    <3>1. Rung' = Rung
      BY <2>1 DEF Rung
    <3>2. QED
      BY <1>1, <1>3, <1>4, <2>1, <2>4, <2>5, <3>1 DEF InterruptInv, EventInv
  <2>7. QED
    BY <1>4, <2>2, <2>6 DEF InterruptInv
<1>7. CASE Head(caller)[1] # "flag"
  <2>1. /\ signalled' = (IF "interrupt" \in live[d] THEN signalled \cup {<<d, "interrupt">>} ELSE signalled)
        /\ UNCHANGED requested
    BY <1>1, <1>7 DEF Interrupt
  <2>2. Head(caller) = <<"signal", d>> /\ d \in requested
    BY <1>2, <1>7 DEF InterruptInv, CallInv
  <2>3. CallInv'
    <3>1. Len(caller') >= 1 => caller'[1][1] # "signal"
      BY <1>2, <1>5, <1>7
    <3>2. QED
      BY <1>2, <1>3, <1>5, <2>1, <3>1 DEF CallInv
  <2>4. EventInv'
    <3>1. About \subseteq {d}
      BY <2>2 DEF About, AboutToSignal
    <3>2. Rung \subseteq Rung' /\ Rung' \subseteq Rung \cup {d}
      BY <2>1 DEF Rung
    <3>3. d \in Made => d \in Rung'
      BY <2>1 DEF Rung, Made
    <3>4. QED
      BY <1>1, <1>3, <1>4, <2>1, <2>2, <3>1, <3>2, <3>3 DEF InterruptInv, EventInv
  <2>5. QED
    BY <1>4, <2>3, <2>4 DEF InterruptInv
<1>8. QED
  BY <1>6, <1>7

\* Start creates both events of a side in one step, and no step names one alone.
LEMMA ChainEvents ==
  ASSUME mode \in AllModes, side \in AllSides, phase = "start", step \in Nat \ {0}
  PROVE  /\ EventsAt < Len(Chain)
         /\ step = EventsAt => Chain[step] = "events"
         /\ step <= Len(Chain) => Chain[step] # "interrupt"
<1>1. CASE mode = "exclusiveRender"
  <2>1. Chain = StartExclusiveRender /\ EventsAt = 8
    BY <1>1 DEF Chain, EventsAt, Exclusive
  <2>2. Len(Chain) = 11
    BY <2>1 DEF StartExclusiveRender
  <2>3. step \in 1 .. 11 => Chain[step] # "interrupt"
    BY <2>1 DEF StartExclusiveRender
  <2>4. QED
    BY <2>1, <2>2, <2>3 DEF StartExclusiveRender
<1>2. CASE mode = "exclusiveCapture"
  <2>1. Chain = StartExclusiveCapture /\ EventsAt = 8
    BY <1>2 DEF Chain, EventsAt, Exclusive
  <2>2. Len(Chain) = 10
    BY <2>1 DEF StartExclusiveCapture
  <2>3. step \in 1 .. 10 => Chain[step] # "interrupt"
    BY <2>1 DEF StartExclusiveCapture
  <2>4. QED
    BY <2>1, <2>2, <2>3 DEF StartExclusiveCapture
<1>3. CASE ~Exclusive /\ side = "render"
  <2>1. Chain = StartRender /\ EventsAt = 6
    BY <1>3 DEF Chain, EventsAt, Exclusive
  <2>2. Len(Chain) = 13
    BY <2>1 DEF StartRender
  <2>3. step \in 1 .. 13 => Chain[step] # "interrupt"
    BY <2>1 DEF StartRender
  <2>4. QED
    BY <2>1, <2>2, <2>3 DEF StartRender
<1>4. CASE ~Exclusive /\ side = "capture"
  <2>1. Chain = StartCapture /\ EventsAt = 6
    BY <1>4 DEF Chain, EventsAt, Exclusive
  <2>2. Len(Chain) = 10
    BY <2>1 DEF StartCapture
  <2>3. step \in 1 .. 10 => Chain[step] # "interrupt"
    BY <2>1 DEF StartCapture
  <2>4. QED
    BY <2>1, <2>2, <2>3 DEF StartCapture
<1>5. QED
  BY <1>1, <1>2, <1>3, <1>4 DEF Exclusive, AllSides

\* Outside of Start and the loop only the requests count.
LEMMA InterruptOver ==
  ASSUME InterruptInv, UNCHANGED <<mode, requested, caller>>, phase' \notin {"start", "run"},
         Rung' \subseteq requested
  PROVE  InterruptInv'
<1>1. Ours' = Ours
  BY DEF Ours, HasSide, Capturing, Rendering
<1>2. QED
  BY <1>1 DEF InterruptInv, CallInv, EventsMade, EventInv

\* In the loop, and in a step of Start that creates no event, nothing changes but
\* that the event which ends the loop is taken.
LEMMA InterruptStays ==
  ASSUME InterruptInv, UNCHANGED <<mode, phase, requested, caller>>, Made' = Made,
         phase = "start" => UNCHANGED side /\ (step' > EventsAt => step > EventsAt),
         Rung' \subseteq Rung, pc' # "end" => pc # "end" /\ Rung' = Rung
  PROVE  InterruptInv'
<1>1. Ours' = Ours /\ About' = About /\ EventsAt' = EventsAt
  BY DEF Ours, HasSide, Capturing, Rendering, About, AboutToSignal, EventsAt, Exclusive
<1>2. CallInv'
  BY <1>1 DEF InterruptInv, CallInv
<1>3. EventsMade'
  BY <1>1 DEF InterruptInv, EventsMade
<1>4. EventInv'
  BY <1>1 DEF InterruptInv, EventInv
<1>5. QED
  BY <1>2, <1>3, <1>4 DEF InterruptInv

\* Start creates an event and sets it if it was asked for before; a side that has
\* started has one.
LEMMA StartInterrupt ==
  ASSUME SessionInv, LoopInv, InterruptInv, SessionThread, UNCHANGED pc, phase' \in {"start", "run"}
  PROVE  InterruptInv'
<1> USE DEF SessionType
<1>0. SessionType /\ HandleInv
  BY DEF SessionInv
<1>1. UNCHANGED <<mode, requested, caller>> /\ phase \in {"opened", "start"}
  BY DEF SessionThread, Environment, Acquire, Check, Initialize, Misaligned, Reactivate, Recheck,
     Prepare, StepFails, ProbeEnds, Start, SideStarted, StartFails, ReleaseObjects, CloseInterrupt, AtStep
<1>2. pc # "end" /\ pc' # "end" /\ side \in AllSides
  BY <1>0, <1>1 DEF LoopInv, PcInv
<1>3. /\ Ours' = Ours /\ About' = About /\ EventsAt' = EventsAt
      /\ CallInv' /\ CallInv /\ EventsMade /\ EventInv
  <2>1. Ours' = Ours /\ About' = About /\ EventsAt' = EventsAt
    BY <1>1 DEF Ours, HasSide, Capturing, Rendering, About, AboutToSignal, EventsAt, Exclusive
  <2>2. QED
    BY <1>1, <2>1 DEF InterruptInv, CallInv
<1>4. CASE Start
  <2>1. /\ phase' = "start" /\ step' = 1 /\ UNCHANGED <<live, signalled>> /\ phase = "opened"
        /\ side' = SidesOf(mode)[1]
    BY <1>4 DEF Start
  <2>2. Made' = {} /\ Rung' = Rung
    BY <1>0, <2>1 DEF HandleInv, Made, Rung
  <2>3. mode = "duplex" => side' = "capture"
    BY <2>1 DEF SidesOf
  <2>4. ~(1 > EventsAt)
    BY DEF EventsAt
  <2>5. EventsMade'
    BY <1>1, <1>3, <2>1, <2>3, <2>4 DEF EventsMade
  <2>6. EventInv'
    BY <1>1, <1>3, <2>2 DEF EventInv
  <2>7. QED
    BY <1>3, <2>5, <2>6 DEF InterruptInv
<1>5. CASE Acquire /\ phase = "start"
  <2>1. /\ live' = [live EXCEPT ![side] = @ \cup Gets(Chain[step])] /\ step' = step + 1
        /\ signalled' = IF Chain[step] = "events" /\ side \in requested
                        THEN signalled \cup {<<side, "interrupt">>} ELSE signalled
        /\ UNCHANGED <<phase, side>> /\ step <= Len(Chain)
    BY <1>5 DEF Acquire
  <2>2. /\ step = EventsAt => Chain[step] = "events"
        /\ "interrupt" \in Gets(Chain[step]) <=> Chain[step] = "events"
    <3>1. Chain[step] # "interrupt" /\ (step = EventsAt => Chain[step] = "events")
      BY <1>0, <1>5, <2>1, ChainEvents
    <3>2. QED
      BY <3>1 DEF Gets, Objects
  <2>3. /\ Chain[step] = "events" => Made' = Made \cup {side}
        /\ Chain[step] # "events" => Made' = Made
    BY <1>0, <2>1, <2>2 DEF Made
  <2>4. /\ Chain[step] = "events" /\ side \in requested => Rung' = Rung \cup {side}
        /\ ~(Chain[step] = "events" /\ side \in requested) => Rung' = Rung
    BY <1>2, <2>1 DEF Rung
  <2>5. EventsMade'
    <3>1. step' > EventsAt => step > EventsAt \/ step = EventsAt
      BY <1>0, <2>1 DEF EventsAt
    <3>2. QED
      BY <1>1, <1>3, <1>5, <2>1, <2>2, <2>3, <3>1 DEF EventsMade
  <2>6. EventInv'
    BY <1>1, <1>2, <1>3, <1>5, <2>1, <2>3, <2>4 DEF EventInv
  <2>7. QED
    BY <1>3, <2>5, <2>6 DEF InterruptInv
<1>6. CASE SideStarted
  <2>1. /\ phase = "start" /\ step > Len(Chain) /\ UNCHANGED live
        /\ signalled' = IF side \in requested THEN signalled \cup {<<side, "interrupt">>} ELSE signalled
        /\ IF mode = "duplex" /\ side = "capture"
           THEN side' = "render" /\ step' = 1 /\ phase' = "start"
           ELSE phase' = "run" /\ UNCHANGED <<side, step>>
    BY <1>6 DEF SideStarted
  <2>2. side \in Made /\ (mode = "duplex" /\ side = "render" => "capture" \in Made)
    <3>1. EventsAt < Len(Chain) /\ Len(Chain) \in Nat /\ EventsAt \in Nat
      BY <1>0, <2>1, ChainEvents DEF EventsAt
    <3>2. step > EventsAt
      BY <1>0, <2>1, <3>1
    <3>3. QED
      BY <1>3, <2>1, <3>2 DEF EventsMade
  <2>3. Made' = Made
    BY <2>1 DEF Made
  <2>4. Ours \subseteq {side} \cup (IF mode = "duplex" THEN {"capture", "render"} ELSE {})
    BY <1>0, <2>1 DEF HandleInv, Ours, HasSide, Capturing, Rendering, AllSides
  <2>5. EventsMade'
    <3>1. ~(1 > EventsAt)
      BY DEF EventsAt
    <3>2. mode = "duplex" /\ side # "capture" => side = "render"
      BY <1>0 DEF AllSides
    <3>3. QED
      BY <1>1, <1>3, <2>1, <2>2, <2>3, <2>4, <3>1, <3>2 DEF EventsMade
  <2>6. EventInv'
    <3>1. Rung' = IF side \in requested THEN Rung \cup {side} ELSE Rung
      BY <1>2, <2>1 DEF Rung
    <3>2. QED
      BY <1>1, <1>2, <1>3, <2>1, <2>3, <3>1 DEF EventInv
  <2>7. QED
    BY <1>3, <2>5, <2>6 DEF InterruptInv
<1>7. CASE /\ phase = "start"
           /\ Check \/ Initialize \/ Misaligned \/ Reactivate \/ Recheck \/ Prepare \/ StepFails
  <2>1. /\ UNCHANGED <<phase, side, signalled>>
        /\ step' = step \/ (step' = step + 1 /\ step <= Len(Chain)
                            /\ Chain[step] \in {"check", "init", "recheck", "prime", "sample"})
    BY <1>7 DEF Check, Initialize, Misaligned, Reactivate, Recheck, Prepare, StepFails, AtStep
  <2>2. Made' = Made /\ Rung' = Rung
    <3>1. UNCHANGED live \/ live' = [live EXCEPT ![side] = @ \ {"client"}]
             \/ live' = [live EXCEPT ![side] = @ \cup {"client"}]
      BY <1>7 DEF Check, Initialize, Misaligned, Reactivate, Recheck, Prepare, StepFails
    <3>2. QED
      BY <1>0, <2>1, <3>1 DEF Made, Rung
  <2>3. step' > EventsAt => step > EventsAt
    <3>1. step = EventsAt => Chain[step] = "events"
      BY <1>0, <1>7, ChainEvents
    <3>2. QED
      BY <1>0, <2>1, <3>1 DEF EventsAt
  <2>4. QED
    BY <1>1, <1>2, <2>1, <2>2, <2>3, InterruptStays
<1>8. QED
  <2>1. /\ ProbeEnds => phase = "open"
        /\ ReleaseObjects \/ CloseInterrupt => phase = "clean"
        /\ StartFails => phase' = "clean"
        /\ Acquire => phase \in {"open", "start"}
    BY DEF ProbeEnds, ReleaseObjects, CloseInterrupt, StartFails, Acquire
  <2>2. /\ Check \/ Initialize \/ Misaligned \/ Reactivate \/ Recheck \/ Prepare \/ StepFails
              => phase \in {"open", "start"}
    BY DEF Check, Initialize, Misaligned, Reactivate, Recheck, Prepare, StepFails, AtStep
  <2>3. QED
    BY <1>1, <1>4, <1>5, <1>6, <1>7, <2>1, <2>2 DEF SessionThread

\* Every step keeps it.
LEMMA InterruptKeeps ==
  ASSUME SessionInv, LoopInv, InterruptInv, [Next]_vars
  PROVE  InterruptInv'
<1>1. CASE UNCHANGED vars
  BY <1>1 DEF vars, session, InterruptInv, CallInv, EventsMade, EventInv, Ours, HasSide, Capturing, Rendering,
     EventsAt, Exclusive, Made, Rung, About, AboutToSignal
<1>2. CASE Interrupt /\ UNCHANGED <<pc, result, stager, ready, packets, padding>>
  BY <1>2, InterruptMoves
<1>3. CASE EndpointChanges /\ UNCHANGED <<pc, result, stager, ready, packets, padding>>
  BY <1>3 DEF EndpointChanges, InterruptInv, CallInv, EventsMade, EventInv, Ours, HasSide, Capturing, Rendering,
     EventsAt, Exclusive, Made, Rung, About, AboutToSignal
<1>4. CASE SessionThread /\ UNCHANGED <<pc, result, stager, ready, packets, padding>>
  <2>1. CASE phase' \in {"start", "run"}
    BY <1>4, <2>1, StartInterrupt
  <2>2. CASE phase' \notin {"start", "run"}
    <3>1. UNCHANGED <<mode, requested, caller>>
      BY <1>4 DEF SessionThread, Environment, Acquire, Check, Initialize, Misaligned, Reactivate, Recheck,
         Prepare, StepFails, ProbeEnds, Start, SideStarted, StartFails, ReleaseObjects, CloseInterrupt
    <3>2. \/ signalled' \subseteq signalled
          \/ side \in requested /\ signalled' = signalled \cup {<<side, "interrupt">>}
      BY <1>4 DEF SessionThread, Environment, Acquire, Check, Initialize, Misaligned, Reactivate, Recheck,
         Prepare, StepFails, ProbeEnds, Start, SideStarted, StartFails, ReleaseObjects, CloseInterrupt
    <3>3. Rung' \subseteq requested
      BY <3>2 DEF InterruptInv, EventInv, Rung
    <3>4. QED
      BY <2>2, <3>1, <3>3, InterruptOver
  <2>3. QED
    BY <2>1, <2>2
<1>5. CASE Stop
  BY <1>5, InterruptOver DEF Stop, InterruptInv, EventInv, Rung
<1>6. CASE \/ CaptureFails \/ RenderFails \/ WaitFails \/ CaptureTick \/ RenderTick \/ EnterLoop \/ Wait
           \/ PollCapture \/ Drain \/ DrainExclusive \/ PollRender \/ SampleClock \/ WaitExclusive \/ Wake
           \/ Commit \/ Recover
  <2>1. /\ UNCHANGED <<mode, phase, requested, caller, live, side, step>> /\ phase = "run"
    BY <1>6 DEF CaptureFails, RenderFails, WaitFails, CaptureTick, RenderTick, EnterLoop, Wait, PollCapture,
       Drain, DrainExclusive, PollRender, SampleClock, WaitExclusive, Wake, Commit, Recover, session, Here
  <2>2. pc' # "end" => pc # "end"
    BY <1>6 DEF CaptureFails, RenderFails, WaitFails, CaptureTick, RenderTick, EnterLoop, Wait, PollCapture,
       Drain, DrainExclusive, PollRender, SampleClock, WaitExclusive, Wake, Commit, Recover, Here
  <2>3. Made' = Made /\ (phase = "start" => (step' > EventsAt => step > EventsAt))
    BY <2>1 DEF Made
  <2>4. Rung' \subseteq Rung /\ (pc' # "end" => Rung' = Rung)
    <3>1. CASE Wake
      <4>1. /\ signalled' = signalled \ {Handles[FirstSet]}
            /\ Handles[FirstSet][2] = "interrupt" => pc' = "end"
        BY <3>1 DEF Wake, End
      <4>2. QED
        BY <4>1 DEF Rung
    <3>2. CASE UNCHANGED signalled
      BY <3>2 DEF Rung
    <3>3. CASE CaptureTick \/ RenderTick
      <4>1. \/ signalled' = signalled \cup {<<"capture", "audio">>}
            \/ signalled' = signalled \cup {<<"render", "audio">>}
        BY <3>3 DEF CaptureTick, RenderTick
      <4>2. QED
        BY <4>1 DEF Rung
    <3>4. ~(Wake \/ CaptureTick \/ RenderTick) => UNCHANGED signalled
      BY <1>6 DEF CaptureFails, RenderFails, WaitFails, EnterLoop, Wait,
         PollCapture, Drain, DrainExclusive, PollRender, SampleClock, WaitExclusive, Commit, Recover, session
    <3>5. QED
      BY <3>1, <3>2, <3>3, <3>4
  <2>5. QED
    BY <2>1, <2>2, <2>3, <2>4, InterruptStays
<1>7. QED
  BY <1>1, <1>2, <1>3, <1>4, <1>5, <1>6 DEF Next, Running

\* The inductive invariant of the interrupt: its flags, its events and what is
\* left of the call.
THEOREM InterruptInvariance == Spec => []InterruptInv
BY InterruptInit, InterruptKeeps, SessionInvariance, LoopInvariance, PTL DEF Spec

(* A thread that blocks with no event to wake it has taken all that its    *)
(* endpoints had for it, in a duplex stream on both sides; and it blocks on *)
(* no interrupt, however its flag, its event and the start of the stream   *)
(* came after each other.                                                  *)
THEOREM WakeUpsKept == Spec => []NoLostWakeup
<1>1. LoopInv /\ SessionInv /\ InterruptInv => NoLostWakeup
  <2> SUFFICES ASSUME LoopInv, SessionInv, InterruptInv, pc = "block" PROVE NoLostWakeup
    BY DEF NoLostWakeup
  <2>1. phase = "run"
    BY DEF LoopInv, PcInv
  <2>2. \A d \in requested : <<d, "interrupt">> \in signalled \/ AboutToSignal(d)
    <3>1. requested \subseteq Rung \cup About
      BY <2>1 DEF InterruptInv, EventsMade, EventInv
    <3>2. \A d \in Rung : <<d, "interrupt">> \in signalled
      BY DEF Rung
    <3>3. \A d \in About : AboutToSignal(d)
      BY DEF About, AboutToSignal
    <3>4. QED
      BY ONLY <3>1, <3>2, <3>3
  <2>3. QED
    BY <2>2 DEF LoopInv, WakeInv, NoLostWakeup, CaptureQuiet, RenderQuiet
<1>2. QED
  BY <1>1, LoopInvariance, SessionInvariance, InterruptInvariance, PTL

-----------------------------------------------------------------------------
(* A WASAPI stream answers as DriverStream says.                           *)

\* The event that answers a wait is one that is set, of a side of the stream.
LEMMA FirstSetFacts ==
  ASSUME mode \in AllModes, \E i \in DOMAIN Handles : Handles[i] \in signalled
  PROVE  /\ Handles[FirstSet] \in signalled
         /\ \E d \in AllSides : Handles[FirstSet] \in {<<d, "audio">>, <<d, "interrupt">>}
<1> DEFINE n == 2 * Len(SidesOf(mode))
           Least(k) == /\ k \in DOMAIN Handles /\ Handles[k] \in signalled
                       /\ \A j \in 1 .. k - 1 : Handles[j] \notin signalled
<1>1. /\ SidesOf(mode) \in Seq(AllSides) /\ Len(SidesOf(mode)) \in {1, 2}
      /\ DOMAIN Handles = 1 .. n /\ n \in {2, 4}
  <2>1. SidesOf(mode) = <<"capture", "render">> \/ SidesOf(mode) = <<"render">> \/ SidesOf(mode) = <<"capture">>
    BY DEF SidesOf
  <2>2. SidesOf(mode) \in Seq(AllSides) /\ Len(SidesOf(mode)) \in {1, 2}
    <3>1. /\ <<"capture", "render">> \in Seq(AllSides) /\ Len(<<"capture", "render">>) = 2
          /\ <<"render">> \in Seq(AllSides) /\ Len(<<"render">>) = 1
          /\ <<"capture">> \in Seq(AllSides) /\ Len(<<"capture">>) = 1
      BY DEF AllSides
    <3>2. CASE SidesOf(mode) = <<"capture", "render">>
      BY <3>1, <3>2
    <3>3. CASE SidesOf(mode) = <<"render">>
      BY <3>1, <3>3
    <3>4. CASE SidesOf(mode) = <<"capture">>
      BY <3>1, <3>4
    <3>5. QED
      BY <2>1, <3>2, <3>3, <3>4
  <2>3. DOMAIN Handles = 1 .. n
    BY DEF Handles
  <2>4. \A l \in {1, 2} : 2 * l \in {2, 4}
    OBVIOUS
  <2>5. QED
    BY <2>2, <2>3, <2>4
<1>2. \E k \in DOMAIN Handles : Least(k)
  <2> HIDE DEF Handles, n
  <2>1. PICK i \in DOMAIN Handles : Handles[i] \in signalled
    OBVIOUS
  <2>2. i \in 1 .. 4 /\ (\A k \in 1 .. i : k \in DOMAIN Handles)
    BY <1>1
  <2> HIDE DEF Handles
  <2>3. CASE Handles[1] \in signalled
    BY <2>2, <2>3
  <2>4. CASE i >= 2 /\ Handles[1] \notin signalled /\ Handles[2] \in signalled
    BY <2>2, <2>4
  <2>5. CASE i >= 3 /\ (\A j \in {1, 2} : Handles[j] \notin signalled) /\ Handles[3] \in signalled
    BY <2>2, <2>5
  <2>6. CASE i = 4 /\ (\A j \in {1, 2, 3} : Handles[j] \notin signalled)
    BY <2>1, <2>2, <2>6
  <2>7. i = 1 \/ i = 2 \/ i = 3 \/ i = 4
    BY <2>2
  <2>8. QED
    BY <2>1, <2>2, <2>3, <2>4, <2>5, <2>6, <2>7
<1>3. Least(FirstSet)
  BY <1>2 DEF FirstSet
<1>4. Handles[FirstSet] = <<SidesOf(mode)[(FirstSet + 1) \div 2],
                           IF FirstSet % 2 = 1 THEN "audio" ELSE "interrupt">>
  BY <1>3 DEF Handles
<1>5. (FirstSet + 1) \div 2 \in 1 .. Len(SidesOf(mode))
  BY <1>1, <1>3
<1>6. SidesOf(mode)[(FirstSet + 1) \div 2] \in AllSides
  BY <1>1, <1>5
<1>7. QED
  BY <1>3, <1>4, <1>6

\* In the loop: what the driver's interface sees of its points.
Waiting == {"out", "wait", "waitBuffer", "waitPacket", "pollCapture", "drain", "drainPacket",
            "pollRender", "sample", "block"}

StreamSeen ==
    /\ phase \in {"open", "failed", "opened", "start"} => StreamAt = "new"
    /\ phase = "clean" => StreamAt = "over"
    /\ phase = "stopped" => StreamAt = "stopped"
    /\ phase = "run" =>
         /\ pc \in Waiting => StreamAt = "ready"
         /\ pc = "callback" => StreamAt = "period"
         /\ pc = "xrun" => StreamAt = "xrun"
         /\ pc = "end" => StreamAt = (IF result = "interrupted" THEN "interrupted" ELSE "over")
         /\ pc \in Waiting \cup {"callback", "xrun", "end"}

LEMMA LoopSeen == LoopInv => StreamSeen
<1> SUFFICES ASSUME LoopInv PROVE StreamSeen
  OBVIOUS
<1>1. CASE phase \in {"open", "failed", "opened", "start"}
  BY <1>1 DEF StreamAt, StreamSeen, Here
<1>2. CASE phase = "clean" \/ phase = "stopped"
  BY <1>2 DEF StreamAt, StreamSeen, Here
<1>3. CASE phase = "run" /\ pc \in Waiting
  BY <1>3 DEF StreamAt, StreamSeen, Here, Waiting
<1>4. CASE phase = "run" /\ pc \in {"callback", "xrun"}
  BY <1>4 DEF StreamAt, StreamSeen, Here, Waiting
<1>5. CASE phase = "run" /\ pc = "end"
  <2>1. mode # "duplex" => result # "refused"
    BY DEF LoopInv, PlaceInv
  <2>2. QED
    BY <1>5, <2>1 DEF StreamAt, StreamSeen, Here, Waiting
<1>6. CASE phase \notin {"open", "failed", "opened", "start", "clean", "stopped", "run"}
  BY <1>6 DEF StreamSeen
<1>7. pc \in Waiting \cup {"callback", "xrun", "end"}
  BY DEF LoopInv, PcInv, Points, Waiting
<1>8. QED
  BY <1>1, <1>2, <1>3, <1>4, <1>5, <1>6, <1>7

\* A Wait that ends with an interrupt has seen a request, in the flag or in the
\* event; a period that is up is committed; an xrun is recovered from.
LEMMA LoopAnswers ==
  ASSUME LoopInv, InterruptInv, StreamSeen, StreamSeen',
         \/ CaptureFails \/ RenderFails \/ WaitFails \/ EnterLoop \/ Wait \/ PollCapture \/ Drain
         \/ DrainExclusive \/ PollRender \/ SampleClock \/ WaitExclusive \/ Wake \/ Commit \/ Recover
  PROVE  Driver!Wait \/ Driver!Commit \/ Driver!Recover \/ UNCHANGED Driver!vars
<1>1. phase = "run" /\ UNCHANGED <<mode, phase, requested>>
  BY DEF CaptureFails, RenderFails, WaitFails, EnterLoop, Wait, PollCapture, Drain, DrainExclusive,
     PollRender, SampleClock, WaitExclusive, Wake, Commit, Recover, session, Here
<1>2. /\ pc \in Waiting => StreamAt = "ready"
      /\ pc = "callback" => StreamAt = "period"
      /\ pc = "xrun" => StreamAt = "xrun"
  BY <1>1 DEF StreamSeen
<1>3. /\ pc' \in Waiting => StreamAt' = "ready"
      /\ pc' = "callback" => StreamAt' = "period"
      /\ pc' = "xrun" => StreamAt' = "xrun"
      /\ pc' = "end" => StreamAt' = (IF result' = "interrupted" THEN "interrupted" ELSE "over")
      /\ pc' \in Waiting \cup {"callback", "xrun", "end"}
  BY <1>1 DEF StreamSeen
<1>4. (requested # {})' = (requested # {})
  BY <1>1
<1>5. CASE Commit
  <2>1. pc = "callback" /\ pc' \in {"wait", "xrun", "end"} /\ (pc' = "end" => result' # "interrupted")
    BY <1>5 DEF Commit, Here, End, CommitAnswers
  <2>2. StreamAt = "period" /\ StreamAt' \in {"ready", "xrun", "over"}
    BY <1>2, <1>3, <2>1 DEF Waiting
  <2>3. QED
    BY <1>4, <2>2 DEF Driver!Commit
<1>6. CASE Recover
  <2>1. pc = "xrun" /\ pc' = "wait"
    BY <1>6 DEF Recover, Here
  <2>2. StreamAt = "xrun" /\ StreamAt' = "ready"
    BY <1>2, <1>3, <2>1 DEF Waiting
  <2>3. QED
    BY <1>4, <2>2 DEF Driver!Recover
<1>7. CASE ~(Commit \/ Recover)
  <2>1. pc \in Waiting
    BY <1>7 DEF CaptureFails, RenderFails, WaitFails, EnterLoop, Wait, PollCapture, Drain, DrainExclusive,
       PollRender, SampleClock, WaitExclusive, Wake, Here, Waiting
  <2>2. pc' = "end" /\ result' = "interrupted" => requested # {}
    <3>1. CASE Wake
      <4>1. PICK d \in AllSides : Handles[FirstSet] \in {<<d, "audio">>, <<d, "interrupt">>}
        BY <3>1, FirstSetFacts DEF Wake, LoopInv
      <4>2. Handles[FirstSet] \in signalled
        BY <3>1, FirstSetFacts DEF Wake, LoopInv
      <4>3. CASE Handles[FirstSet] = <<d, "interrupt">>
        BY <4>2, <4>3 DEF InterruptInv, EventInv, Rung
      <4>4. CASE Handles[FirstSet] = <<d, "audio">>
        <5>1. Handles[FirstSet][2] # "interrupt"
          BY <4>4
        <5>2. requested # {} \/ pc' # "end"
          BY <3>1, <5>1 DEF Wake, Polled
        <5>3. QED
          BY <5>2
      <4>5. QED
        BY <4>1, <4>3, <4>4
    <3>2. CASE PollCapture \/ PollRender \/ SampleClock \/ WaitExclusive
      BY <3>2 DEF PollCapture, PollRender, SampleClock, WaitExclusive, AfterCapture
    <3>3. CASE ~(Wake \/ PollCapture \/ PollRender \/ SampleClock \/ WaitExclusive)
      <4>1. pc' = "end" => result' # "interrupted"
        BY <1>7, <3>3 DEF CaptureFails, RenderFails, WaitFails, EnterLoop, Wait, Drain, DrainExclusive,
           End, AfterCapture
      <4>2. QED
        BY <4>1
    <3>4. QED
      BY <3>1, <3>2, <3>3
  <2>3. StreamAt' \in {"ready", "period", "xrun", "over"} \cup (IF requested # {} THEN {"interrupted"} ELSE {})
    BY <1>3, <2>2
  <2>4. CASE StreamAt' = "ready"
    BY <1>2, <1>4, <2>1, <2>4 DEF Driver!vars
  <2>5. CASE StreamAt' # "ready"
    BY <1>2, <1>4, <2>1, <2>3, <2>5 DEF Driver!Wait, Driver!Interruption
  <2>6. QED
    BY <2>4, <2>5
<1>8. QED
  BY <1>5, <1>6, <1>7

\* Outside of the loop: Start has a running stream or a failed one, Stop a
\* stopped one.
LEMMA SessionAnswers ==
  ASSUME LoopInv, StreamSeen, StreamSeen', SessionThread, UNCHANGED <<pc, result>>
  PROVE  Driver!Start \/ Driver!Stop \/ UNCHANGED Driver!vars
<1> DEFINE New == {"open", "failed", "opened", "start"}
<1>1. UNCHANGED <<mode, requested>>
  BY DEF SessionThread, Environment, Acquire, Check, Initialize, Misaligned, Reactivate, Recheck,
     Prepare, StepFails, ProbeEnds, Start, SideStarted, StartFails, ReleaseObjects, CloseInterrupt
<1>2. (requested # {})' = (requested # {})
  BY <1>1
<1>3. CASE SideStarted
  <2>1. phase = "start" /\ phase' \in {"start", "run"} /\ pc' = "out"
    BY <1>3 DEF SideStarted, LoopInv, PcInv
  <2>2. StreamAt = "new" /\ StreamAt' \in {"new", "ready"}
    BY <2>1 DEF StreamSeen, Waiting
  <2>3. QED
    BY <1>2, <2>2 DEF Driver!Start, Driver!vars
<1>4. CASE StartFails
  <2>1. StreamAt = "new" /\ StreamAt' = "over"
    BY <1>4 DEF StartFails, StreamSeen
  <2>2. QED
    BY <1>2, <2>1 DEF Driver!Start
<1>5. CASE CloseInterrupt
  <2>1. StreamAt = "over" /\ StreamAt' \in {"over", "stopped"}
    BY <1>5 DEF CloseInterrupt, StreamSeen
  <2>2. QED
    BY <1>2, <2>1 DEF Driver!Stop, Driver!vars
<1>6. CASE ~(SideStarted \/ StartFails \/ CloseInterrupt)
  <2>1. (phase \in New /\ phase' \in New) \/ (phase = "clean" /\ phase' = "clean")
    BY <1>6 DEF SessionThread, Acquire, Check, Initialize, Misaligned, Reactivate, Recheck,
       Prepare, StepFails, ProbeEnds, Start, ReleaseObjects, AtStep
  <2>2. StreamAt' = StreamAt
    BY <2>1 DEF StreamSeen
  <2>3. QED
    BY <1>2, <2>2 DEF Driver!vars
<1>7. QED
  BY <1>3, <1>4, <1>5, <1>6

(* The stream answers as the driver's interface says, for every kind of    *)
(* stream, size of buffers and order of the endpoints' events, and however *)
(* the call of Interrupt falls.                                            *)
THEOREM AnswersInTurn == Spec => DriverSpec
<1>1. StreamInit => Driver!Init
  <2> SUFFICES ASSUME StreamInit PROVE StreamAt = "new" /\ (requested # {}) = FALSE
    BY DEF Driver!Init
  <2>1. phase = "open" /\ requested = {}
    BY DEF StreamInit, Init
  <2>2. QED
    BY <2>1, LoopInit, LoopSeen DEF StreamSeen
<1>2. LoopInv /\ InterruptInv /\ StreamSeen /\ StreamSeen' /\ [Next]_vars
        => [Driver!Next]_(Driver!vars)
  <2> SUFFICES ASSUME LoopInv, InterruptInv, StreamSeen, StreamSeen', [Next]_vars
               PROVE  [Driver!Next]_(Driver!vars)
    OBVIOUS
  <2>1. CASE UNCHANGED <<mode, phase, pc, result>> /\ (requested' = requested \/ requested' # {})
    <3>1. StreamAt' = StreamAt
      BY <2>1 DEF StreamAt, Here
    <3>2. QED
      BY <2>1, <3>1 DEF Driver!Next, Driver!Interrupt, Driver!vars
  <2>2. CASE Stop
    <3>1. /\ phase = "run" /\ pc = "end" /\ phase' = "clean" /\ UNCHANGED requested
      BY <2>2 DEF Stop, Here
    <3>2. StreamAt \in {"interrupted", "over"} /\ StreamAt' = "over"
      BY <3>1 DEF StreamSeen
    <3>3. QED
      BY <3>1, <3>2 DEF Driver!Next, Driver!Leave, Driver!vars
  <2>3. CASE SessionThread /\ UNCHANGED <<pc, result, stager, ready, packets, padding>>
    BY <2>3, SessionAnswers DEF Driver!Next
  <2>4. CASE \/ CaptureFails \/ RenderFails \/ WaitFails \/ EnterLoop \/ Wait \/ PollCapture \/ Drain
             \/ DrainExclusive \/ PollRender \/ SampleClock \/ WaitExclusive \/ Wake \/ Commit \/ Recover
    BY <2>4, LoopAnswers DEF Driver!Next
  <2>5. CaptureTick \/ RenderTick \/ UNCHANGED vars \/ (EndpointChanges /\ UNCHANGED <<pc, result>>)
          => UNCHANGED <<mode, phase, pc, result, requested>>
    BY DEF CaptureTick, RenderTick, EndpointChanges, vars, session
  <2>6. Interrupt /\ UNCHANGED <<pc, result>> =>
          /\ UNCHANGED <<mode, phase, pc, result>>
          /\ requested' = requested \/ requested' # {}
    BY DEF Interrupt
  <2>7. QED
    BY <2>1, <2>2, <2>3, <2>4, <2>5, <2>6 DEF Next, Running
<1>3. QED
  BY <1>1, <1>2, LoopSeen, LoopInvariance, InterruptInvariance, PTL
     DEF Spec, DriverSpec, Driver!Spec

(* Every loss is counted when its packet is taken, and nothing else is.    *)
THEOREM GapsCounted == Spec => DropoutsTellGaps
<1>1. ASSUME LoopInv, [Next]_vars, stager' # stager, stager.havePacket, pc \in {"drain", "drainPacket"}
      PROVE  stager'.dropouts # stager.dropouts <=> packets.gap
  <2>1. /\ phase = "run" /\ Short /\ StageOk(stager) /\ packets \in Chunk /\ Follows(stager, packets)
        /\ StagingInv
    BY <1>1 DEF LoopInv, PcInv, PlaceInv, StagingInv
  <2>2. \/ TakePacket /\ packets.frames > 0
        \/ packets.frames > 0 /\ \E p \in HonestPackets : stager' = AppendPacket(stager, p)
    <3>1. Drain \/ DrainExclusive \/ CaptureFails
      BY <1>1, <2>1 DEF Next, Running, SessionThread, vars, EnterLoop, Wait, PollCapture, PollRender, SampleClock,
         WaitExclusive, Wake, Commit, Recover, Stop, RenderFails, WaitFails, CaptureTick, RenderTick, Here
    <3>2. CASE Drain \/ DrainExclusive
      BY <1>1, <3>2, DrainTakes
    <3>3. CASE CaptureFails
      BY <1>1, <3>3 DEF CaptureFails
    <3>4. QED
      BY <3>1, <3>2, <3>3
  <2>3. CASE TakePacket /\ packets.frames > 0
    BY <1>1, <2>1, <2>3, TakeOk
  <2>4. CASE packets.frames > 0 /\ \E p \in HonestPackets : stager' = AppendPacket(stager, p)
    BY <1>1, <2>1, <2>4, AppendOk DEF Short
  <2>5. QED
    BY <2>2, <2>3, <2>4
<1>2. LoopInv /\ [Next]_vars =>
        [stager.havePacket /\ pc \in {"drain", "drainPacket"} =>
            (stager'.dropouts # stager.dropouts <=> packets.gap)]_stager
  BY <1>1
<1>3. QED
  BY <1>2, LoopInvariance, PTL DEF Spec, DropoutsTellGaps

-----------------------------------------------------------------------------
(* The endpoint watch, EndpointWatch, for any number of endpoints,         *)
(* goroutines, changes and failures: no callback begins once a stop has    *)
(* cancelled the dispatch, and a client that applies what the callbacks    *)
(* tell has each snapshot in turn.                                         *)

Flags == [cancelled : BOOLEAN, active : BOOLEAN]
Past == {"close", "await", "returned"}

FlagsOK == dispatchState \in Flags /\ loaded \in Flags /\ cancelLoaded \in Flags
CallsOK == spc \in [Stoppers -> {"idle", "once", "cancel", "swap", "close",
                                 "await", "returned"}]

\* Whoever has got past cancelDispatch has left the flag set, and so has a Do
\* that is done.
CancelHolds ==
    /\ \A s \in Stoppers : spc[s] \in Past => dispatchState.cancelled
    /\ once = "done" => dispatchState.cancelled

\* What dispatchEvent compares with was not cancelled.
AdmitsUncancelled == dpc = "swap" => ~loaded.cancelled

CancelInv == FlagsOK /\ CallsOK /\ CancelHolds /\ AdmitsUncancelled

CancelVars == <<dispatchState, loaded, cancelLoaded, spc, once, dpc>>

\* It holds of a watch that was never started.
LEMMA InitCancel == WatchInit => CancelInv
BY DEF WatchInit, CancelInv, FlagsOK, CallsOK, CancelHolds, AdmitsUncancelled,
       Flags, Past, Unloaded

\* Most steps leave alone what CancelInv is about.
LEMMA CancelStutter ==
    ASSUME CancelInv, UNCHANGED CancelVars
    PROVE  CancelInv'
BY DEF CancelVars, CancelInv, FlagsOK, CallsOK, CancelHolds, AdmitsUncancelled

\* What the devices and the owner of the watch do leaves the cancelling alone, a start excepted.
LEMMA OwnerQuiet == Change \/ Notify \/ Owner => UNCHANGED CancelVars \/ WatchStart
BY DEF Change, Notify, Owner, OwnerStart, SnapshotDefaults, SnapshotDevices,
       SnapshotFails, Register, StartLoop, LoopTop, LoopSelect, Retry,
       Unregister, Publish, PublishWake, WatchStart, CancelVars, clientVars,
       dispatchVars, stopVars

\* A start makes a fresh watch.
LEMMA WatchStartCancel == ASSUME CancelInv, WatchStart PROVE CancelInv'
BY DEF WatchStart, CancelInv, FlagsOK, CallsOK, CancelHolds, AdmitsUncancelled,
       stopVars

\* The dispatcher changes active only, and only if nobody cancelled meanwhile.
LEMMA DispatcherCancel == ASSUME CancelInv, Dispatcher PROVE CancelInv'
<1> USE DEF CancelInv, FlagsOK, CallsOK, CancelHolds, AdmitsUncancelled,
            stopVars
<1>1. CASE DispatchSelect BY <1>1 DEF DispatchSelect
<1>2. CASE DispatchRead BY <1>2 DEF DispatchRead, NextEvent
<1>3. CASE AdmitLoad BY <1>3 DEF AdmitLoad
<1>4. CASE AdmitSwap BY <1>4 DEF AdmitSwap, Flags, Unloaded
<1>5. CASE CallbackReturn BY <1>5 DEF CallbackReturn
<1>6. CASE FinishLoad BY <1>6 DEF FinishLoad
<1>7. CASE FinishSwap BY <1>7 DEF FinishSwap, Flags, Unloaded, NextEvent
<1> QED BY <1>1, <1>2, <1>3, <1>4, <1>5, <1>6, <1>7 DEF Dispatcher

\* A stop, or a cancel of the context, only adds to who wants the end.
LEMMA StopCancel ==
    ASSUME CancelInv, NEW s \in Stoppers, CallStop(s) \/ Stopping(s)
    PROVE  CancelInv'
<1> USE DEF CancelInv, FlagsOK, CallsOK, CancelHolds, AdmitsUncancelled,
            dispatchVars, StopVarsBut, Past
<1>1. CASE CallStop(s) BY <1>1 DEF CallStop
<1>2. CASE EnterOnce(s) BY <1>2 DEF EnterOnce
<1>3. CASE CancelLoad(s) BY <1>3 DEF CancelLoad
<1>4. CASE CancelSwap(s) BY <1>4 DEF CancelSwap, Flags, Unloaded
<1>5. CASE CloseLoop(s) BY <1>5 DEF CloseLoop
<1>6. CASE StopReturn(s) BY <1>6 DEF StopReturn
<1> QED BY <1>1, <1>2, <1>3, <1>4, <1>5, <1>6 DEF Stopping

\* The flag stays once it is set, and an admitted callback found it clear.
THEOREM CancelInvariance == WatchSpec => []CancelInv
<1>1. CancelInv /\ [WatchNext]_watchVars => CancelInv'
  <2> SUFFICES ASSUME CancelInv, [WatchNext]_watchVars PROVE CancelInv'
      OBVIOUS
  <2>1. CASE Change \/ Notify \/ Owner
        BY <2>1, OwnerQuiet, CancelStutter, WatchStartCancel
  <2>2. CASE Dispatcher BY <2>2, DispatcherCancel
  <2>3. CASE \E s \in Stoppers : CallStop(s) \/ Stopping(s) BY <2>3, StopCancel
  <2>4. CASE UNCHANGED watchVars
        BY <2>4, CancelStutter DEF watchVars, CancelVars, clientVars, dispatchVars,
                                   stopVars
  <2> QED BY <2>1, <2>2, <2>3, <2>4 DEF WatchNext
<1> QED BY <1>1, InitCancel, PTL DEF WatchSpec

\* NoLateCallback: only a compare-and-swap that found the dispatch uncancelled
\* begins a callback, so nobody has got past cancelDispatch by then.
THEOREM NothingAfterStop == WatchSpec => NoLateCallback
<1> DEFINE Late == \A s \in Stoppers :
                     dpc' = "callback" /\ dpc # "callback"
                         => spc[s] \notin {"close", "await", "returned"}
<1>1. CancelInv /\ [WatchNext]_watchVars => [Late]_watchVars
  <2> SUFFICES ASSUME CancelInv, WatchNext, NEW s \in Stoppers,
                      dpc' = "callback", dpc # "callback"
               PROVE  spc[s] \notin {"close", "await", "returned"}
      OBVIOUS
  <2>1. Dispatcher
    <3>1. ~(Change \/ Notify \/ Owner)
          BY OwnerQuiet DEF CancelVars, WatchStart
    <3>2. ~(\E t \in Stoppers : CallStop(t) \/ Stopping(t))
          BY DEF CallStop, Stopping, EnterOnce, CancelLoad, CancelSwap, CloseLoop,
                 StopReturn, dispatchVars
    <3> QED BY <3>1, <3>2 DEF WatchNext
  <2>2. AdmitSwap
        BY <2>1 DEF Dispatcher, DispatchSelect, DispatchRead, NextEvent,
                    AdmitLoad, CallbackReturn, FinishLoad, FinishSwap
  <2>3. dpc = "swap" /\ dispatchState = loaded BY <2>2 DEF AdmitSwap
  <2> QED BY <2>3 DEF CancelInv, CancelHolds, AdmitsUncancelled, Past
<1> QED BY <1>1, CancelInvariance, PTL DEF WatchSpec, NoLateCallback

-----------------------------------------------------------------------------
(* What the callbacks tell.                                                *)

\* Every list is one of endpoints.
ListsOK ==
    /\ world \in Lists /\ taken \in Lists /\ latest \in Lists
    /\ previous \in Lists /\ view \in Lists
    /\ defaultRead \in Endpoints \cup {NoEndpoint}

\* The baseline is the client's and the owner's until dispatch begins, when
\* watchEndpoints finds the owner ready.
SetupOK ==
    /\ goal \in {"baseline", "current", "rescan"}
    /\ opc = "ready" => goal # "baseline"
    /\ goal = "baseline" \/ mpc = "setup" => dpc = "none"

\* What an event says of the list it leads to.
Value(event) == IF event.kind = "removed" THEN "absent" ELSE event.format
Holder(event) == IF event.default THEN event.id ELSE NoEndpoint
Says(event, list) ==
    /\ event.id \in Endpoints
    /\ IF event.kind = "default" THEN Holder(event) = list.def
       ELSE Value(event) = list.devs[event.id]
Alike(event, other) ==
    \/ event.kind = "default" /\ other.kind = "default"
    \/ event.kind # "default" /\ other.kind # "default" /\ event.id = other.id

\* A batch has one event for each thing that differs.
Proper(batch, list) ==
    /\ \A event \in batch : Says(event, list)
    /\ \A event, other \in batch : Alike(event, other) => event = other

\* A batch is what is missing: it makes one list of the other.
Leads(old, batch, new) ==
    /\ \A e \in Endpoints :
         old.devs[e] = new.devs[e] \/ \E event \in batch : event.kind # "default" /\ event.id = e
    /\ old.def = new.def \/ \E event \in batch : event.kind = "default"

\* The first event of a batch is told before it is taken off.
Telling == dpc \in {"callback", "finish", "finishSwap"}
Pending == IF Telling THEN {event \in events : ~First(event, events)} ELSE events

TellInv ==
    /\ Proper(events, previous)
    /\ Telling \/ dpc \in {"admit", "swap"} => events # {}
    /\ dpc \in {"none", "select", "read"} => events = {}
    /\ Leads(view, Pending, previous)

WatchInv == ListsOK /\ SetupOK /\ TellInv

\* Marking a default makes a list of endpoints.
LEMMA MarkedOK ==
    ASSUME NEW devs \in [Endpoints -> Formats \cup {"absent"}],
           NEW def \in Endpoints \cup {NoEndpoint}
    PROVE  Marked(devs, def) \in Lists
BY DEF Marked, Lists

\* No two events of a batch are the first of it.
LEMMA FirstOnce ==
    ASSUME NEW batch, NEW list, Proper(batch, list), NEW event, NEW other,
           First(event, batch), First(other, batch)
    PROVE  event = other
<1>1. event \in batch /\ other \in batch
  BY DEF First
<1>2. CASE event.kind = "default" \/ other.kind = "default"
  BY <1>1, <1>2 DEF First
<1>3. CASE event.kind # "default" /\ other.kind # "default"
  <2>1. event.id <= other.id /\ other.id <= event.id
    BY <1>1, <1>3 DEF First
  <2>2. event.id \in Nat /\ other.id \in Nat
    BY <1>1, CountAssumption DEF Proper, Says, Endpoints
  <2>3. event.id = other.id
    BY <2>1, <2>2
  <2>4. QED
    BY <1>1, <1>3, <2>3 DEF Proper, Alike
<1>4. QED
  BY <1>2, <1>3

\* The differences of two lists are a proper batch, and lead from one to the
\* other.
LEMMA DiffOK ==
    ASSUME NEW old \in Lists, NEW new \in Lists
    PROVE  Proper(Diff(old, new), new) /\ Leads(old, Diff(old, new), new)
<1> DEFINE differ == {d \in Endpoints : old.devs[d] # new.devs[d]}
<1>1. ASSUME NEW e \in differ
      PROVE  LET event == EndpointEvent(old, new, e)
             IN  Says(event, new) /\ event.kind # "default" /\ event.id = e
  <2> DEFINE event == EndpointEvent(old, new, e)
  <2>1. CASE old.devs[e] = "absent"
    <3>1. event = [kind |-> "added", id |-> e, format |-> new.devs[e], default |-> new.def = e]
      BY <2>1 DEF EndpointEvent
    <3>2. event.kind = "added" /\ event.id = e /\ event.format = new.devs[e]
      BY <3>1
    <3>3. QED
      BY <3>2 DEF Says, Value
  <2>2. CASE old.devs[e] # "absent" /\ new.devs[e] = "absent"
    <3>1. event = [kind |-> "removed", id |-> e, format |-> old.devs[e], default |-> old.def = e]
      BY <2>2 DEF EndpointEvent
    <3>2. event.kind = "removed" /\ event.id = e
      BY <3>1
    <3>3. QED
      BY <2>2, <3>2 DEF Says, Value
  <2>3. CASE old.devs[e] # "absent" /\ new.devs[e] # "absent"
    <3>1. event = [kind |-> "format", id |-> e, format |-> new.devs[e], default |-> new.def = e]
      BY <2>3 DEF EndpointEvent
    <3>2. event.kind = "format" /\ event.id = e /\ event.format = new.devs[e]
      BY <3>1
    <3>3. QED
      BY <3>2 DEF Says, Value
  <2>4. QED
    BY <2>1, <2>2, <2>3
<1>2. ASSUME NEW event \in DefaultEvents(old, new)
      PROVE  Says(event, new) /\ event.kind = "default"
  <2>1. old.def # new.def /\ old.def \in Endpoints \cup {NoEndpoint} /\ new.def \in Endpoints \cup {NoEndpoint}
    BY DEF DefaultEvents, Lists
  <2>2. CASE new.def # NoEndpoint
    <3>1. event = [kind |-> "default", id |-> new.def, format |-> new.devs[new.def], default |-> TRUE]
      BY <2>1, <2>2 DEF DefaultEvents
    <3>2. event.kind = "default" /\ event.id = new.def /\ event.default = TRUE
      BY <3>1
    <3>3. QED
      BY <2>1, <2>2, <3>2 DEF Says, Holder
  <2>3. CASE new.def = NoEndpoint
    <3>1. event = [kind |-> "default", id |-> old.def, format |-> old.devs[old.def], default |-> FALSE]
      BY <2>1, <2>3 DEF DefaultEvents
    <3>2. event.kind = "default" /\ event.id = old.def /\ event.default = FALSE
      BY <3>1
    <3>3. QED
      BY <2>1, <2>3, <3>2 DEF Says, Holder
  <2>4. QED
    BY <2>2, <2>3
<1>3. \A event, other \in DefaultEvents(old, new) : event = other
  BY DEF DefaultEvents
<1>4. old.def # new.def => \E event : event \in DefaultEvents(old, new)
  BY DEF DefaultEvents
<1> DEFINE ofEndpoint == {EndpointEvent(old, new, e) : e \in differ}
<1>5. Diff(old, new) = ofEndpoint \cup DefaultEvents(old, new)
  BY DEF Diff
<1>6. \A event \in ofEndpoint : \E e \in differ : event = EndpointEvent(old, new, e)
  OBVIOUS
<1>7. \A e \in differ : EndpointEvent(old, new, e) \in ofEndpoint
  OBVIOUS
<1> HIDE DEF ofEndpoint
<1>8. ASSUME NEW event \in ofEndpoint
      PROVE  Says(event, new) /\ event.kind # "default" /\ event = EndpointEvent(old, new, event.id)
  <2>1. PICK e \in differ : event = EndpointEvent(old, new, e)
    BY <1>6
  <2>2. Says(event, new) /\ event.kind # "default" /\ event.id = e
    BY <1>1, <2>1
  <2>3. QED
    BY <2>1, <2>2
<1>9. Proper(Diff(old, new), new)
  <2>1. \A event \in Diff(old, new) : Says(event, new)
    BY <1>2, <1>5, <1>8
  <2>2. ASSUME NEW event \in Diff(old, new), NEW other \in Diff(old, new), Alike(event, other)
        PROVE  event = other
    <3>1. CASE event.kind = "default" /\ other.kind = "default"
      <4>1. event \in DefaultEvents(old, new) /\ other \in DefaultEvents(old, new)
        BY <1>5, <1>8, <3>1
      <4>2. QED
        BY <1>3, <4>1
    <3>2. CASE event.kind # "default" /\ other.kind # "default" /\ event.id = other.id
      <4>1. event \in ofEndpoint /\ other \in ofEndpoint
        BY <1>2, <1>5, <3>2
      <4>2. event = EndpointEvent(old, new, event.id) /\ other = EndpointEvent(old, new, other.id)
        BY <1>8, <4>1
      <4>3. EndpointEvent(old, new, event.id) = EndpointEvent(old, new, other.id)
        BY <3>2
      <4>4. QED
        BY <4>2, <4>3
    <3>3. QED
      BY <2>2, <3>1, <3>2 DEF Alike
  <2>3. QED
    BY <2>1, <2>2 DEF Proper
<1>10. Leads(old, Diff(old, new), new)
  <2>1. ASSUME NEW e \in Endpoints, old.devs[e] # new.devs[e]
        PROVE  \E event \in Diff(old, new) : event.kind # "default" /\ event.id = e
    <3>1. e \in differ
      BY <2>1
    <3>2. EndpointEvent(old, new, e) \in Diff(old, new)
      BY <1>5, <1>7, <3>1
    <3>3. QED
      BY <1>1, <3>1, <3>2
  <2>2. old.def # new.def => \E event \in Diff(old, new) : event.kind = "default"
    BY <1>2, <1>4, <1>5
  <2>3. QED
    BY <2>1, <2>2 DEF Leads
<1>11. QED
  BY <1>9, <1>10

\* The first event of a batch, told, leaves the rest of it missing.
LEMMA TellOK ==
    ASSUME NEW list \in Lists, NEW new \in Lists, NEW batch, Proper(batch, new),
           Leads(list, batch, new), NEW event, First(event, batch)
    PROVE  /\ Told(list, event) \in Lists
           /\ Leads(Told(list, event), {other \in batch : ~First(other, batch)}, new)
<1> DEFINE rest == {other \in batch : ~First(other, batch)}
           told == Told(list, event)
<1>1. event \in batch /\ Says(event, new)
  BY DEF First, Proper
<1>2. \A other \in batch : other = event \/ other \in rest
  BY FirstOnce
<1>3. /\ list.devs \in [Endpoints -> Formats \cup {"absent"}] /\ list.def \in Endpoints \cup {NoEndpoint}
      /\ new.devs \in [Endpoints -> Formats \cup {"absent"}] /\ new.def \in Endpoints \cup {NoEndpoint}
      /\ list = [devs |-> list.devs, def |-> list.def]
  BY DEF Lists
<1> HIDE DEF rest
<1>4. CASE event.kind = "default"
  <2>1. batch = {event}
    BY <1>4 DEF First
  <2>2. told = [devs |-> list.devs, def |-> new.def]
    <3>1. told = [list EXCEPT !.def = Holder(event)]
      BY <1>4 DEF Told, Holder
    <3>2. Holder(event) = new.def
      BY <1>1, <1>4 DEF Says
    <3>3. QED
      BY <1>3, <3>1, <3>2
  <2>3. told \in Lists /\ told.devs = list.devs /\ told.def = new.def
    BY <1>3, <2>2 DEF Lists
  <2> HIDE DEF told
  <2>4. \A e \in Endpoints : told.devs[e] = new.devs[e]
    BY <1>4, <2>1, <2>3 DEF Leads
  <2>5. Leads(told, rest, new)
    BY <2>3, <2>4 DEF Leads
  <2>6. QED
    BY <2>3, <2>5 DEF told, rest
<1>5. CASE event.kind # "default"
  <2>1. Value(event) = new.devs[event.id] /\ event.id \in Endpoints
    BY <1>1, <1>5 DEF Says
  <2>2. told = [list EXCEPT !.devs[event.id] = Value(event)]
    BY <1>5 DEF Told, Value
  <2>3. told = [devs |-> [list.devs EXCEPT ![event.id] = new.devs[event.id]], def |-> list.def]
    BY <1>3, <2>1, <2>2
  <2>4. /\ told \in Lists /\ told.def = list.def
        /\ told.devs = [list.devs EXCEPT ![event.id] = new.devs[event.id]]
    <3>1. [list.devs EXCEPT ![event.id] = new.devs[event.id]] \in [Endpoints -> Formats \cup {"absent"}]
      BY <1>3, <2>1
    <3>2. QED
      BY <1>3, <2>3, <3>1 DEF Lists
  <2> HIDE DEF told
  <2>5. ASSUME NEW e \in Endpoints, told.devs[e] # new.devs[e]
        PROVE  \E other \in rest : other.kind # "default" /\ other.id = e
    <3>1. e # event.id /\ told.devs[e] = list.devs[e]
      BY <1>3, <2>1, <2>4, <2>5
    <3>2. PICK other \in batch : other.kind # "default" /\ other.id = e
      BY <2>5, <3>1 DEF Leads
    <3>3. other # event
      BY <3>1, <3>2
    <3>4. QED
      BY <1>2, <3>2, <3>3
  <2>6. ASSUME told.def # new.def
        PROVE  \E other \in rest : other.kind = "default"
    <3>1. PICK other \in batch : other.kind = "default"
      BY <2>4, <2>6 DEF Leads
    <3>2. QED
      BY <1>2, <1>5, <3>1
  <2>7. Leads(told, rest, new)
    BY <2>5, <2>6 DEF Leads
  <2>8. QED
    BY <2>4, <2>7 DEF told, rest
<1>6. QED
  BY <1>4, <1>5

\* The lists are empty before the first snapshot.
LEMMA InitWatch == WatchInit => WatchInv
<1> SUFFICES ASSUME WatchInit PROVE WatchInv
  OBVIOUS
<1>1. world \in Lists /\ EmptyList \in Lists
  BY DEF WatchInit, Worlds, Lists, EmptyList
<1>2. ListsOK
  BY <1>1 DEF WatchInit, ListsOK
<1>3. SetupOK
  BY DEF WatchInit, SetupOK
<1>4. TellInv
  BY DEF WatchInit, TellInv, Proper, Leads, Telling, Pending
<1>5. QED
  BY <1>2, <1>3, <1>4 DEF WatchInv

\* What does not concern the dispatcher leaves what it tells alone.
LEMMA TellQuiet ==
    ASSUME TellInv, UNCHANGED <<dpc, events, previous, view>>
    PROVE  TellInv'
BY DEF TellInv, Telling, Pending

\* Nor does a step of the dispatcher that begins or ends no callback.
LEMMA TellStep ==
    ASSUME TellInv, UNCHANGED <<events, previous, view>>, Telling' = Telling,
           Telling' \/ dpc' \in {"admit", "swap"} => events # {},
           dpc' \in {"none", "select", "read"} => events = {}
    PROVE  TellInv'
<1>1. Pending' = Pending
  BY DEF Pending
<1>2. Proper(events, previous)' /\ Leads(view, Pending, previous)'
  BY <1>1 DEF TellInv
<1>3. QED
  BY <1>2 DEF TellInv

\* The system and the threads that take snapshots.
LEMMA OwnerWatch == ASSUME WatchInv, Change \/ Notify \/ Owner PROVE WatchInv'
<1> USE DEF WatchInv
<1>1. CASE Change
  <2>1. world' \in Lists
    <3>1. ASSUME NEW e \in Endpoints, NEW f \in Formats \cup {"absent"},
                 world' = Marked([world.devs EXCEPT ![e] = f], world.def)
          PROVE  world' \in Lists
      <4>1. [world.devs EXCEPT ![e] = f] \in [Endpoints -> Formats \cup {"absent"}] /\ world.def \in Endpoints \cup {NoEndpoint}
        BY DEF ListsOK, Lists
      <4>2. QED
        BY <3>1, <4>1, MarkedOK
    <3>2. ASSUME NEW e \in Endpoints, world' = [world EXCEPT !.def = e]
          PROVE  world' \in Lists
      BY <3>2 DEF ListsOK, Lists
    <3>3. QED
      BY <1>1, <3>1, <3>2 DEF Change
  <2>2. ListsOK'
    BY <1>1, <2>1 DEF Change, ListsOK, clientVars, publishVars, dispatchVars, ownerVars, scanVars
  <2>3. SetupOK' /\ TellInv'
    BY <1>1, TellQuiet DEF Change, SetupOK, clientVars, dispatchVars, ownerVars
  <2>4. QED
    BY <2>2, <2>3
<1>2. CASE Notify
  BY <1>2, TellQuiet DEF Notify, ListsOK, SetupOK, worldVars, clientVars, publishVars, dispatchVars, ownerVars, scanVars
<1>3. CASE Owner
  <2> USE DEF systemVars, worldVars, scanVars, ownerVars, publishVars, dispatchVars, clientVars
  <2>1. CASE OwnerStart
    BY <2>1, TellQuiet DEF OwnerStart, ListsOK, SetupOK
  <2>2. CASE SnapshotDefaults
    <3>1. world.def \in Endpoints \cup {NoEndpoint}
      BY DEF ListsOK, Lists
    <3>2. QED
      BY <2>2, <3>1, TellQuiet DEF SnapshotDefaults, ListsOK, SetupOK
  <2>3. CASE SnapshotDevices
    <3>1. taken' \in Lists
      BY <2>3, MarkedOK DEF SnapshotDevices, ListsOK, Lists
    <3>2. ListsOK'
      BY <2>3, <3>1 DEF SnapshotDevices, ListsOK
    <3>3. SetupOK'
      BY <2>3 DEF SnapshotDevices, SetupOK, AfterSnapshot
    <3>4. CASE goal = "baseline"
      <4>1. dpc = "none" /\ events = {} /\ dpc' = dpc /\ events' = events /\ view' = previous'
        BY <2>3, <3>4 DEF SnapshotDevices, SetupOK, TellInv
      <4>2. TellInv'
        BY <4>1 DEF TellInv, Telling, Pending, Proper, Leads
      <4>3. QED
        BY <3>2, <3>3, <4>2
    <3>5. CASE goal # "baseline"
      BY <2>3, <3>2, <3>3, <3>5, TellQuiet DEF SnapshotDevices
    <3>6. QED
      BY <3>4, <3>5
  <2>4. CASE SnapshotFails
    <3>1. ListsOK'
      BY <2>4 DEF SnapshotFails, ListsOK
    <3>2. SetupOK'
      BY <2>4 DEF SnapshotFails, SetupOK, AfterSnapshot
    <3>3. QED
      BY <2>4, <3>1, <3>2, TellQuiet DEF SnapshotFails
  <2>5. CASE Register
    BY <2>5, TellQuiet DEF Register, ListsOK, SetupOK
  <2>6. CASE StartLoop
    BY <2>6, TellQuiet DEF StartLoop, ListsOK, SetupOK
  <2>7. CASE LoopTop
    BY <2>7, TellQuiet DEF LoopTop, ListsOK, SetupOK
  <2>8. CASE LoopSelect
    BY <2>8, TellQuiet DEF LoopSelect, ListsOK, SetupOK
  <2>9. CASE Retry
    BY <2>9, TellQuiet DEF Retry, ListsOK, SetupOK
  <2>10. CASE Unregister
    BY <2>10, TellQuiet DEF Unregister, ListsOK, SetupOK
  <2>11. CASE Publish
    BY <2>11, TellQuiet DEF Publish, ListsOK, SetupOK
  <2>12. CASE PublishWake
    BY <2>12, TellQuiet DEF PublishWake, ListsOK, SetupOK
  <2>13. CASE WatchStart
    <3>1. ListsOK'
      BY <2>13 DEF WatchStart, ListsOK
    <3>2. SetupOK'
      BY <2>13 DEF WatchStart, SetupOK
    <3>3. CASE opc = "failed"
      BY <2>13, <3>1, <3>2, <3>3, TellQuiet DEF WatchStart
    <3>4. CASE dpc' = "select" /\ dpc = "none"
      BY <2>13, <3>1, <3>2, <3>4, TellStep DEF WatchStart, TellInv, Telling
    <3>5. QED
      BY <2>13, <3>3, <3>4 DEF WatchStart, SetupOK
  <2>14. QED
    BY <1>3, <2>1, <2>2, <2>3, <2>4, <2>5, <2>6, <2>7, <2>8, <2>9, <2>10, <2>11, <2>12, <2>13 DEF Owner
<1>4. QED
  BY <1>1, <1>2, <1>3

\* What is told is taken off the batch, one event at a time.
LEMMA DispatcherWatch == ASSUME WatchInv, Dispatcher PROVE WatchInv'
<1> USE DEF WatchInv
<1>0. SetupOK'
  BY DEF Dispatcher, DispatchSelect, DispatchRead, AdmitLoad, AdmitSwap, CallbackReturn, FinishLoad, FinishSwap, NextEvent, SetupOK, ownerVars
<1> USE DEF systemVars, worldVars, scanVars, ownerVars, publishVars
<1>1. CASE DispatchSelect
  <2>1. ListsOK'
    BY <1>1 DEF DispatchSelect, ListsOK
  <2>2. TellInv'
    BY <1>1, TellStep DEF DispatchSelect, TellInv, Telling
  <2>3. QED
    BY <1>0, <2>1, <2>2
<1>2. CASE DispatchRead
  <2>1. ListsOK'
    BY <1>2 DEF DispatchRead, ListsOK
  <2>2. events = {} /\ Leads(view, {}, previous) /\ previous \in Lists /\ latest \in Lists
    BY <1>2 DEF DispatchRead, TellInv, ListsOK, Pending, Telling
  <2>3. Proper(Diff(previous, latest), latest) /\ Leads(previous, Diff(previous, latest), latest)
    BY <2>2, DiffOK
  <2>4. Leads(view, Diff(previous, latest), latest)
    BY <2>2, <2>3 DEF Leads
  <2>5. Proper(events, previous)' /\ Leads(view, events, previous)'
    BY <1>2, <2>3, <2>4 DEF DispatchRead
  <2>6. dpc' = IF events' = {} THEN "select" ELSE "admit"
    BY <1>2 DEF DispatchRead, NextEvent
  <2>7. TellInv'
    BY <2>5, <2>6 DEF TellInv, Pending, Telling
  <2>8. QED
    BY <1>0, <2>1, <2>7
<1>3. CASE AdmitLoad
  <2>1. ListsOK'
    BY <1>3 DEF AdmitLoad, ListsOK
  <2>2. TellInv'
    BY <1>3, TellStep DEF AdmitLoad, TellInv, Telling
  <2>3. QED
    BY <1>0, <2>1, <2>2
<1>4. CASE AdmitSwap
  <2>1. CASE dpc' = "admit" /\ UNCHANGED view
    <3>1. ListsOK'
      BY <1>4, <2>1 DEF AdmitSwap, ListsOK
    <3>2. TellInv'
      BY <1>4, <2>1, TellStep DEF AdmitSwap, TellInv, Telling
    <3>3. QED
      BY <1>0, <3>1, <3>2
  <2>2. CASE dpc' = "callback" /\ \E event \in events : First(event, events) /\ view' = Told(view, event)
    <3>1. PICK event \in events : First(event, events) /\ view' = Told(view, event)
      BY <2>2
    <3>2. /\ Proper(events, previous) /\ Leads(view, events, previous)
          /\ view \in Lists /\ previous \in Lists /\ events # {}
      BY <1>4 DEF AdmitSwap, TellInv, ListsOK, Pending, Telling
    <3>3. /\ view' \in Lists
          /\ Leads(view', {other \in events : ~First(other, events)}, previous)
      BY <3>1, <3>2, TellOK
    <3>4. UNCHANGED <<events, previous>>
      BY <1>4 DEF AdmitSwap
    <3>5. ListsOK'
      BY <1>4, <3>3 DEF AdmitSwap, ListsOK
    <3>6. Pending' = {other \in events : ~First(other, events)}
      BY <2>2, <3>4 DEF Pending, Telling
    <3>7. TellInv'
      BY <2>2, <3>2, <3>3, <3>4, <3>6 DEF TellInv
    <3>8. QED
      BY <1>0, <3>5, <3>7
  <2>3. QED
    BY <1>4, <2>1, <2>2 DEF AdmitSwap
<1>5. CASE CallbackReturn
  <2>1. ListsOK'
    BY <1>5 DEF CallbackReturn, ListsOK
  <2>2. TellInv'
    BY <1>5, TellStep DEF CallbackReturn, TellInv, Telling
  <2>3. QED
    BY <1>0, <2>1, <2>2
<1>6. CASE FinishLoad
  <2>1. ListsOK'
    BY <1>6 DEF FinishLoad, ListsOK
  <2>2. TellInv'
    BY <1>6, TellStep DEF FinishLoad, TellInv, Telling
  <2>3. QED
    BY <1>0, <2>1, <2>2
<1>7. CASE FinishSwap
  <2>1. ListsOK'
    BY <1>7 DEF FinishSwap, ListsOK
  <2>2. CASE dpc' = "finish" /\ UNCHANGED events
    <3>1. TellInv'
      BY <1>7, <2>2, TellStep DEF FinishSwap, TellInv, Telling
    <3>2. QED
      BY <1>0, <2>1, <3>1
  <2>3. CASE /\ \E event \in events : First(event, events) /\ events' = events \ {event}
             /\ dpc' = NextEvent(events')
    <3>1. PICK event \in events : First(event, events) /\ events' = events \ {event}
      BY <2>3
    <3>2. /\ Proper(events, previous)
          /\ Leads(view, {other \in events : ~First(other, events)}, previous)
          /\ UNCHANGED <<previous, view>>
      BY <1>7 DEF FinishSwap, TellInv, Pending, Telling
    <3>3. events' = {other \in events : ~First(other, events)}
      BY <3>1, <3>2, FirstOnce
    <3>4. Proper(events', previous)
      BY <3>1, <3>2 DEF Proper
    <3>5. dpc' = IF events' = {} THEN "select" ELSE "admit"
      BY <2>3 DEF NextEvent
    <3>6. Pending' = events'
      BY <3>5 DEF Pending, Telling
    <3>7. Leads(view', Pending', previous')
      BY <3>2, <3>3, <3>6
    <3>8. TellInv'
      BY <3>2, <3>4, <3>5, <3>7 DEF TellInv, Telling
    <3>9. QED
      BY <1>0, <2>1, <3>8
  <2>4. QED
    BY <1>7, <2>2, <2>3 DEF FinishSwap
<1>8. QED
  BY <1>1, <1>2, <1>3, <1>4, <1>5, <1>6, <1>7 DEF Dispatcher

\* A stop tells nothing.
LEMMA StopWatch ==
    ASSUME WatchInv, NEW s \in Stoppers, CallStop(s) \/ Stopping(s)
    PROVE  WatchInv'
<1>1. UNCHANGED <<systemVars, ownerVars, mpc, publishVars, dispatchVars>>
  BY DEF CallStop, Stopping, EnterOnce, CancelLoad, CancelSwap, CloseLoop, StopReturn
<1>2. ListsOK' /\ SetupOK'
  BY <1>1 DEF WatchInv, ListsOK, SetupOK, systemVars, worldVars, ownerVars, scanVars, publishVars, dispatchVars
<1>3. TellInv'
  BY <1>1, TellQuiet DEF WatchInv, dispatchVars
<1>4. QED
  BY <1>2, <1>3 DEF WatchInv

\* What the client has been told and the batch still to be told make up the
\* snapshot, at every step of the dispatcher.
THEOREM WatchInvariance == WatchSpec => []WatchInv
<1>1. WatchInv /\ [WatchNext]_watchVars => WatchInv'
  <2> SUFFICES ASSUME WatchInv, [WatchNext]_watchVars PROVE WatchInv'
    OBVIOUS
  <2>1. CASE Change \/ Notify \/ Owner
    BY <2>1, OwnerWatch
  <2>2. CASE Dispatcher
    BY <2>2, DispatcherWatch
  <2>3. CASE \E s \in Stoppers : CallStop(s) \/ Stopping(s)
    BY <2>3, StopWatch
  <2>4. CASE UNCHANGED watchVars
    <3>1. UNCHANGED <<systemVars, ownerVars, mpc, publishVars, dispatchVars>>
      BY <2>4 DEF watchVars, clientVars
    <3>2. ListsOK' /\ SetupOK'
      BY <3>1 DEF WatchInv, ListsOK, SetupOK, systemVars, worldVars, ownerVars, scanVars, publishVars, dispatchVars
    <3>3. TellInv'
      BY <3>1, TellQuiet DEF WatchInv, dispatchVars
    <3>4. QED
      BY <3>2, <3>3 DEF WatchInv
  <2>5. QED
    BY <2>1, <2>2, <2>3, <2>4 DEF WatchNext
<1>2. QED
  BY <1>1, InitWatch, PTL DEF WatchSpec

\* EventsTellSnapshot: when a batch is through nothing is missing, so the client
\* has the list the dispatcher compared with last.
THEOREM SnapshotTold == WatchSpec => []EventsTellSnapshot
<1>1. WatchInv => EventsTellSnapshot
  <2> SUFFICES ASSUME WatchInv, dpc \in {"select", "read"} PROVE view = previous
    BY DEF EventsTellSnapshot
  <2>1. Leads(view, {}, previous)
    BY DEF WatchInv, TellInv, Pending, Telling
  <2>2. view.def = previous.def /\ \A e \in Endpoints : view.devs[e] = previous.devs[e]
    BY <2>1 DEF Leads
  <2>3. view \in Lists /\ previous \in Lists
    BY DEF WatchInv, ListsOK
  <2>4. view.devs = previous.devs
    BY <2>2, <2>3 DEF Lists
  <2>5. QED
    BY <2>2, <2>3, <2>4 DEF Lists
<1>2. QED
  BY <1>1, WatchInvariance, PTL
=============================================================================
