------------------------- MODULE StreamPriorityProofs ------------------------
(***************************************************************************)
(* For any set of threads, number of passes and number of messages: no     *)
(* thread is made real-time above the cap of RLIMIT_RTTIME, because nobody *)
(* lowers the limit from a value that is no longer true; a thread that     *)
(* ends gets back what it had, because nothing that was done to it takes a *)
(* privilege to undo; a promise is claimed only while it is held; and a    *)
(* pass over the threads of a process overlooks none that can be raised    *)
(* and puts all of them back.                                              *)
(***************************************************************************)
EXTENDS StreamPriority, TLAPS

Messages == [kind : {"signal", "reply", "error"}, value : Nat]

\* The levels and times a service answers are numbers, and it is asked for
\* them by the stream thread alone.
MessageInv ==
    /\ level \in Nat /\ promised \in Nat
    /\ inbox \in Seq(Messages)
    /\ asking => pc \in {"get", "time", "call"}

\* Whoever has read the limit holds the lock, and what it read is still true.
LockInv ==
    /\ limit \in Nat /\ read \in [{"stream", "other"} -> Nat]
    /\ pc \in {"capSet", "timeSet"} => rttimeMu = "stream" /\ read["stream"] = limit
    /\ read["other"] # 0 => rttimeMu = "other" /\ read["other"] = limit

\* Past the cap the limit is at the cap, and never above what was promised.
CapInv ==
    /\ pc \in {"direct", "connect", "get", "time", "timeCap", "timeSet", "call", "verify"}
          => limit <= TimeCap
    /\ restorable => limit <= TimeCap
    /\ limit <= promised

IInv == MessageInv /\ LockInv /\ CapInv

\* The smaller of two.
LEMMA MinOfTwo ==
  ASSUME NEW a \in Nat, NEW b \in Nat
  PROVE  Min({a, b}) \in Nat /\ Min({a, b}) \in {a, b} /\ Min({a, b}) <= a /\ Min({a, b}) <= b
<1>1. \E x \in {a, b} : \A y \in {a, b} : x <= y
  OBVIOUS
<1>2. QED
  BY <1>1 DEF Min

\* The smallest of three.
LEMMA MinOfThree ==
  ASSUME NEW a \in Nat, NEW b \in Nat, NEW c \in Nat
  PROVE  Min({a, b, c}) \in Nat /\ Min({a, b, c}) <= a /\ Min({a, b, c}) <= b /\ Min({a, b, c}) <= c
<1>1. \E x \in {a, b, c} : \A y \in {a, b, c} : x <= y
  OBVIOUS
<1>2. QED
  BY <1>1 DEF Min

\* The invariant of the grants holds at first.
LEMMA InitHolds == Init => IInv
BY DEF Init, ThreadsInit, IInv, MessageInv, LockInv, CapInv, TimeCap

\* Whoever keeps the limit and the lock alone, and stays on its side of the cap,
\* changes nothing of it.
LEMMA RestKeeps ==
  ASSUME IInv, UNCHANGED <<limit, rttimeMu, read, promised>>, MessageInv',
         pc' \notin {"capSet", "timeSet"} \/ pc' = pc,
         pc' \in {"direct", "connect", "get", "time", "timeCap", "timeSet", "call", "verify"} \/ restorable'
            => \/ pc \in {"direct", "connect", "get", "time", "timeCap", "timeSet", "call", "verify"}
               \/ restorable
  PROVE  IInv'
BY DEF IInv, LockInv, CapInv

\* The threads of the process are no part of it.
LEMMA ThreadsKeep ==
  ASSUME IInv, (ThreadsStep /\ UNCHANGED <<bus, own, rttime>>) \/ UNCHANGED vars
  PROVE  IInv'
<1>1. UNCHANGED <<pc, bus, own, rttime>>
  BY DEF ThreadsStep, ComeAndGo, Raise, RaiseThread, EndPass, Restore, PutThreadBack,
         EndRestore, Visit, VisitAgain, Attributes, vars, threads
<1>2. QED
  BY <1>1 DEF bus, own, rttime, IInv, MessageInv, LockInv, CapInv

\* A phase that comes to nothing leaves no message and no level.
LEMMA PhaseOver ==
  ASSUME NextPhase
  PROVE  pc' \in {"connect", "running"} /\ inbox' = <<>> /\ level' = 0 /\ ~asking'
BY DEF NextPhase, Return

\* Under the lock the limit is lowered from what it is.
LEMMA CapKeeps ==
  ASSUME IInv, CapTime
  PROVE  IInv'
<1> USE DEF own, bus
<1>1. CASE ReadLimit("stream") /\ pc = "cap" /\ pc' = "capSet" /\ UNCHANGED <<own, bus>>
  BY <1>1 DEF ReadLimit, Lock, IInv, MessageInv, LockInv, CapInv
<1>2. CASE ReadLimit("stream") /\ pc = "timeCap" /\ pc' = "timeSet" /\ UNCHANGED <<own, bus>>
  BY <1>2 DEF ReadLimit, Lock, IInv, MessageInv, LockInv, CapInv
<1>3. CASE /\ pc = "capSet" /\ LowerLimit("stream", TimeCap)
           /\ pc' \in {"running", "direct"} /\ UNCHANGED <<previous, restorable, bus>>
  <2>1. limit' \in Nat /\ limit' <= limit /\ limit' <= TimeCap
    BY <1>3, MinOfTwo, MinOfThree DEF LowerLimit, IInv, LockInv, TimeCap
  <2>2. rttimeMu' = "free" /\ read' = [read EXCEPT !["stream"] = 0] /\ read["other"] = 0
    BY <1>3 DEF LowerLimit, IInv, LockInv
  <2>3. QED
    BY <1>3, <2>1, <2>2 DEF IInv, MessageInv, LockInv, CapInv, TimeCap
<1>4. CASE /\ pc = "timeSet" /\ LowerLimit("stream", level)
           /\ promised' = Min({promised, level}) /\ pc' = "call"
           /\ UNCHANGED <<own, phase, expired, asking, inbox, count, level, pending, moved>>
  <2>1. limit' \in Nat /\ limit' <= limit /\ limit' <= TimeCap /\ limit' <= level
    BY <1>4, MinOfThree DEF LowerLimit, IInv, MessageInv, LockInv, TimeCap
  <2>2. rttimeMu' = "free" /\ read' = [read EXCEPT !["stream"] = 0] /\ read["other"] = 0
    BY <1>4 DEF LowerLimit, IInv, LockInv
  <2>3. promised' \in {promised, level}
    BY <1>4, MinOfTwo DEF IInv, MessageInv
  <2>4. QED
    BY <1>4, <2>1, <2>2, <2>3 DEF IInv, MessageInv, LockInv, CapInv, TimeCap
<1>5. CASE /\ LimitFails("stream") /\ pc \in {"capSet", "timeSet"}
           /\ \/ Return(Fallback) /\ UNCHANGED <<previous, restorable, bus>>
              \/ pc = "timeSet" /\ NextPhase /\ UNCHANGED <<previous, restorable, promised, pending, moved>>
  <2>1. limit' = limit /\ rttimeMu' = "free" /\ read' = [read EXCEPT !["stream"] = 0] /\ read["other"] = 0
    BY <1>5 DEF LimitFails, IInv, LockInv
  <2>2. CASE Return(Fallback) /\ UNCHANGED <<previous, restorable, bus>>
    BY <1>5, <2>1, <2>2 DEF Return, IInv, MessageInv, LockInv, CapInv
  <2>3. CASE pc = "timeSet" /\ NextPhase /\ UNCHANGED <<previous, restorable, promised, pending, moved>>
    <3>1. MessageInv'
      BY <2>3, PhaseOver DEF IInv, MessageInv
    <3>2. QED
      BY <2>1, <2>3, <3>1, PhaseOver DEF IInv, LockInv, CapInv
  <2>4. QED
    BY <1>5, <2>2, <2>3
<1>6. QED
  BY <1>1, <1>2, <1>3, <1>4, <1>5 DEF CapTime, Return

\* So it is by another stream.
LEMMA OtherKeeps ==
  ASSUME IInv, OtherStream
  PROVE  IInv'
<1>1. UNCHANGED <<pc, restorable, level, promised, inbox, asking>>
  BY DEF OtherStream, threads, bus, own
<1>2. CASE ReadLimit("other")
  BY <1>1, <1>2 DEF ReadLimit, Lock, IInv, MessageInv, LockInv, CapInv
<1>3. ASSUME NEW maximum \in {1, TimeCap}, read["other"] # 0, LowerLimit("other", maximum)
      PROVE  IInv'
  <2>1. limit' \in Nat /\ limit' <= limit
    BY <1>3, MinOfThree, MinOfTwo DEF LowerLimit, IInv, LockInv, TimeCap
  <2>2. rttimeMu' = "free" /\ read' = [read EXCEPT !["other"] = 0] /\ pc \notin {"capSet", "timeSet"}
    BY <1>3 DEF LowerLimit, IInv, LockInv
  <2>3. QED
    BY <1>1, <2>1, <2>2 DEF IInv, MessageInv, LockInv, CapInv, TimeCap
<1>4. QED
  BY <1>2, <1>3 DEF OtherStream

\* A reply brings a number.
LEMMA ReadKeeps ==
  ASSUME IInv, ReadMessage
  PROVE  IInv'
<1> DEFINE m == Head(inbox)
<1>1. m \in Messages /\ Tail(inbox) \in Seq(Messages)
  BY DEF ReadMessage, IInv, MessageInv
<1>2. pc \in {"get", "time", "call"} /\ UNCHANGED <<limit, rttimeMu, read, promised, restorable>>
  BY DEF ReadMessage, IInv, MessageInv, rttime
<1>3. CASE m.kind = "signal" /\ count + 1 < MaxMessages
  <2>1. inbox' = Tail(inbox) /\ UNCHANGED <<pc, asking, level>>
    BY <1>3 DEF ReadMessage
  <2>2. QED
    BY <1>1, <1>2, <2>1, RestKeeps DEF IInv, MessageInv
<1>4. CASE m.kind = "reply" /\ ~(m.kind = "signal" /\ count + 1 < MaxMessages)
  <2>1. Replied(m.value) /\ m.value \in Nat
    BY <1>1, <1>4 DEF ReadMessage, Messages
  <2>2. /\ pc' \in {"connect", "running", "call", "time", "timeCap", "verify"}
        /\ level' \in Nat /\ inbox' = <<>> /\ ~asking'
    BY <2>1 DEF Replied, Done, NextPhase, Return, IInv, MessageInv
  <2>3. QED
    BY <1>2, <2>2, RestKeeps DEF IInv, MessageInv
<1>5. CASE m.kind # "reply" /\ ~(m.kind = "signal" /\ count + 1 < MaxMessages)
  <2>1. CallFails
    BY <1>5 DEF ReadMessage
  <2>2. /\ pc' \in {"connect", "running", "verify"}
        /\ level' \in Nat /\ inbox' = <<>> /\ ~asking'
    BY <2>1 DEF CallFails, Done, NextPhase, Return, IInv, MessageInv
  <2>3. QED
    BY <1>2, <2>2, RestKeeps DEF IInv, MessageInv
<1>6. QED
  BY <1>3, <1>4, <1>5

\* A phase that fails or ends begins, or returns, past the cap.
LEMMA TimeoutKeeps ==
  ASSUME IInv, Timeout
  PROVE  IInv'
<1>1. /\ pc' \in {"connect", "running", "verify"}
      /\ level' \in Nat /\ inbox' = <<>> /\ ~asking'
  BY DEF Timeout, CallFails, Done, NextPhase, Return, IInv, MessageInv
<1>2. pc \in {"get", "time", "call"} /\ UNCHANGED <<limit, rttimeMu, read, promised, restorable>>
  BY DEF Timeout, rttime
<1>3. QED
  BY <1>1, <1>2, RestKeeps DEF IInv, MessageInv

\* A request answered without the daemon keeps it.
LEMMA DirectKeeps ==
  ASSUME IInv, Direct
  PROVE  IInv'
<1>1. pc = "direct" /\ UNCHANGED <<asking, inbox, level, limit, rttimeMu, read, promised>>
  BY DEF Direct, rttime
<1>2. pc' \in {"connect", "running"}
  BY DEF Direct, Granted, Refused, Return
<1>3. QED
  BY <1>1, <1>2, RestKeeps DEF IInv, MessageInv

\* So does the dial of the bus.
LEMMA ConnectKeeps ==
  ASSUME IInv, Connect
  PROVE  IInv'
<1>1. pc = "connect" /\ UNCHANGED <<limit, rttimeMu, read, promised, restorable>>
  BY DEF Connect, rttime
<1>2. /\ pc' \in {"connect", "running", "get"} /\ inbox' \in Seq(Messages)
      /\ level' \in Nat /\ ~asking'
  <2>1. CASE NextPhase
    BY <2>1, PhaseOver
  <2>2. CASE pc' = "get" /\ UNCHANGED <<asking, inbox, level>>
    BY <1>1, <2>2 DEF IInv, MessageInv
  <2>3. QED
    BY <2>1, <2>2 DEF Connect
<1>3. QED
  BY <1>1, <1>2, RestKeeps DEF IInv, MessageInv

\* So does the look at what was granted.
LEMMA VerifyKeeps ==
  ASSUME IInv, Verify
  PROVE  IInv'
<1>1. pc = "verify" /\ UNCHANGED <<limit, rttimeMu, read, promised>>
  BY DEF Verify, rttime
<1>2. /\ pc' \in {"connect", "running"} /\ inbox' \in Seq(Messages)
      /\ level' \in Nat /\ ~asking'
  <2>1. CASE NextPhase
    BY <2>1, PhaseOver
  <2>2. CASE pc' = "running" /\ UNCHANGED <<asking, inbox, level>>
    BY <1>1, <2>2 DEF IInv, MessageInv
  <2>3. QED
    BY <2>1, <2>2 DEF Verify, Return
<1>3. QED
  BY <1>1, <1>2, RestKeeps DEF IInv, MessageInv

\* The other steps of the stream thread, and the bus and its services.
LEMMA OthersKeep ==
  ASSUME IInv, Look \/ Send \/ Lower \/ Message \/ Expire \/ ServiceActs
  PROVE  IInv'
<1> USE DEF rttime, own, bus, threads
<1>1. UNCHANGED <<limit, rttimeMu, read, promised, restorable>>
  BY DEF Look, Send, Lower, Message, Expire, ServiceActs
<1>2. CASE Look
  <2>1. pc = "new" /\ pc' \in {"cap", "running"} /\ UNCHANGED <<asking, inbox, level>>
    BY <1>2 DEF Look, Return
  <2>2. QED
    BY <1>1, <2>1, RestKeeps DEF IInv, MessageInv
<1>3. CASE Send
  <2>1. pc \in {"get", "time", "call"} /\ UNCHANGED <<pc, inbox>> /\ level' \in {0, level}
    BY <1>3 DEF Send
  <2>2. QED
    BY <1>1, <2>1, RestKeeps DEF IInv, MessageInv
<1>4. CASE Lower
  <2>1. pc = "running" /\ pc' = "lowered" /\ UNCHANGED <<asking, inbox, level>>
    BY <1>4 DEF Lower
  <2>2. QED
    BY <1>1, <2>1, RestKeeps DEF IInv, MessageInv
<1>5. CASE Message
  <2>1. UNCHANGED <<pc, asking, level>>
    BY <1>5 DEF Message
  <2>2. inbox' \in Seq(Messages)
    <3>1. \E k \in {"signal", "reply", "error"}, v \in 0 .. TimeCap : inbox' = Append(inbox, [kind |-> k, value |-> v])
      <4>1. CASE inbox' = Append(inbox, [kind |-> "signal", value |-> 0])
        <5>1. "signal" \in {"signal", "reply", "error"} /\ 0 \in 0 .. TimeCap
          BY DEF TimeCap
        <5>2. QED
          BY <4>1, <5>1
      <4>2. CASE \E k \in {"reply", "error"}, v \in 0 .. TimeCap :
                   inbox' = Append(inbox, [kind |-> k, value |-> v])
        BY <4>2
      <4>3. QED
        BY <1>5, <4>1, <4>2 DEF Message
    <3>2. PICK k \in {"signal", "reply", "error"}, v \in 0 .. TimeCap : inbox' = Append(inbox, [kind |-> k, value |-> v])
      BY <3>1
    <3>3. [kind |-> k, value |-> v] \in Messages
      BY DEF TimeCap, Messages
    <3>4. QED
      BY <3>2, <3>3 DEF IInv, MessageInv
  <2>3. QED
    BY <1>1, <2>1, <2>2, RestKeeps DEF IInv, MessageInv
<1>6. CASE Expire \/ ServiceActs
  <2>1. UNCHANGED <<pc, asking, inbox, level>>
    BY <1>6 DEF Expire, ServiceActs
  <2>2. QED
    BY <1>1, <2>1, RestKeeps DEF IInv, MessageInv
<1>7. QED
  BY <1>2, <1>3, <1>4, <1>5, <1>6

(* Who reads the limit, lowers it and asks a service keeps to the promise, *)
(* whatever else the threads and the services do.                          *)
THEOREM CapInvariance == Spec => []IInv
<1>1. ASSUME IInv, [Next]_vars
      PROVE  IInv'
  BY <1>1, ThreadsKeep, CapKeeps, OtherKeeps, ReadKeeps, TimeoutKeeps, DirectKeeps, ConnectKeeps,
     VerifyKeeps, OthersKeep DEF Next, StreamStep, Environment
<1>2. QED
  BY InitHolds, <1>1, PTL DEF Spec

(* No thread is real-time, by itself or by a service, above the cap of     *)
(* RLIMIT_RTTIME or above what the service was promised.                   *)
THEOREM LimitKept == Spec => []RealtimeCapped
<1>1. IInv => RealtimeCapped
  BY DEF IInv, CapInv, RealtimeCapped
<1>2. QED
  BY <1>1, CapInvariance, PTL

-----------------------------------------------------------------------------
(* The thread is put back.  While the process's threads are left alone,    *)
(* only the stream and the services it asked change its thread.            *)

Attrs == [policy : {"other", "fifo", "unborn", "exited"}, prio : Nat, favour : Nat, reset : BOOLEAN]

\* What may have become of a thread that was `old`: it can be put back without
\* a privilege.
Over(old, cur) ==
    /\ old.policy \in {"other", "fifo"} /\ old.favour <= cur.favour
    /\ old.policy = "fifo" => cur.policy = "fifo" /\ old.prio <= cur.prio /\ old.favour = cur.favour

ServicePoints == {"connect", "get", "time", "timeCap", "timeSet", "call", "verify"}
\* A service has been asked for something and the kernel not yet what came of it.
Sent == pc = "verify" \/ (pc = "call" /\ asking)
Safe == sched[Stream] \in {previous, [previous EXCEPT !.reset = TRUE]}

\* The thread's attributes, and what was there before.
AttrInv ==
    /\ rtprio \in Nat
    /\ sched \in [Threads -> Attrs]
    /\ sched[Stream].policy \in {"other", "fifo"} /\ sched[Stream].favour <= 1
    /\ previous \in Attrs
    /\ \A r \in pending : r.prio \in Nat

\* Nothing is asked of a service for a thread that was real-time already, and
\* nothing has been done to one that is not to be restored.
BackInv ==
    /\ pc = "new" => previous = Unborn
    /\ previous = Unborn => pc \in {"new", "running", "lowered"} /\ pending = {} /\ ~restorable
    /\ previous # Unborn =>
        /\ Over(previous, sched[Stream])
        /\ pending # {} \/ pc \in ServicePoints => previous.policy = "other"
        /\ ~restorable /\ ~Sent => pending = {} /\ Safe
        /\ pc = "direct" => previous.prio <= StreamLevel
        /\ pc = "lowered" => pending = {} /\ Safe

OwnInv == task = "idle" => AttrInv /\ BackInv

\* No thread has a policy of its own at first.
LEMMA InitOwn == Init => OwnInv
<1> SUFFICES ASSUME Init PROVE OwnInv
  OBVIOUS
<1>1. rtprio \in Nat
  BY DEF Init, ThreadsInit, StreamLevel
<1> DEFINE Starts == {Normal, Attr("other", 0, 1, FALSE), Attr("other", 0, 0, TRUE),
                     Attr("fifo", ProcessLevel, 0, FALSE), Attr("fifo", Stronger, 0, TRUE)}
<1>2. /\ \A t \in Threads : sched[t] \in Starts \cup {Unborn}
      /\ sched[Stream] \in Starts /\ sched = [t \in Threads |-> sched[t]]
  <2>1. PICK first \in Starts, worker \in Threads \ {Stream} :
           \/ sched = [t \in Threads |-> IF t = Stream THEN first ELSE IF t = worker THEN Normal ELSE Unborn]
           \/ sched = [t \in Threads |-> IF t = Stream THEN Normal ELSE IF t = worker THEN first ELSE Unborn]
    BY DEF Init, ThreadsInit
  <2>2. QED
    BY <2>1, ThreadsAssumption
<1>3. sched \in [Threads -> Attrs]
  <2>1. Starts \cup {Unborn} \subseteq Attrs
    BY DEF Attrs, Attr, Normal, Unborn, ProcessLevel, Stronger
  <2> HIDE DEF Starts
  <2>2. QED
    BY <1>2, <2>1
<1>4. sched[Stream].policy \in {"other", "fifo"} /\ sched[Stream].favour <= 1
  BY <1>2 DEF Attr, Normal
<1>5. previous \in Attrs
  BY DEF Init, Unborn, Attr, Attrs
<1>6. QED
  BY <1>1, <1>3, <1>4, <1>5 DEF Init, ThreadsInit, OwnInv, AttrInv, BackInv

\* A step that changes neither the thread nor what was asked for.
LEMMA PlaceKeeps ==
  ASSUME AttrInv, BackInv, UNCHANGED <<sched, previous, restorable, pending, rtprio>>,
         pc' # "new", previous = Unborn => pc' \in {"running", "lowered"},
         pc' \in ServicePoints => pc \in ServicePoints \/ previous.policy = "other",
         Sent => Sent', pc' = "direct" => previous.prio <= StreamLevel,
         pc' # "lowered" \/ pc' = pc
  PROVE  AttrInv' /\ BackInv'
BY DEF AttrInv, BackInv, Over, Safe

\* What the thread had can always be set again.
LEMMA BackPermitted ==
  ASSUME AttrInv, BackInv, previous # Unborn
  PROVE  /\ Back \in {previous, [previous EXCEPT !.reset = TRUE]} /\ Back \in Attrs
         /\ Permitted(sched[Stream], Back)
         /\ Becomes(sched[Stream], Back) = Back
<1> DEFINE cur == sched[Stream]
<1>1. cur \in Attrs /\ previous \in Attrs /\ Over(previous, cur)
  BY ThreadsAssumption DEF AttrInv, BackInv
<1> HIDE DEF cur
<1>2. Back \in {previous, [previous EXCEPT !.reset = TRUE]}
  BY DEF Back
<1>3. /\ Back \in Attrs /\ Back.policy = previous.policy /\ Back.prio = previous.prio
      /\ Back.favour = previous.favour
  BY <1>1, <1>2 DEF Attrs
<1>4. Permitted(cur, Back)
  <2>1. CASE Permitted(cur, previous)
    BY <2>1 DEF Back, cur
  <2>2. CASE ~Permitted(cur, previous)
    <3>1. Back = [previous EXCEPT !.reset = TRUE]
      BY <2>2 DEF Back, cur
    <3>2. Back.reset
      BY <1>1, <3>1 DEF Attrs
    <3>3. QED
      BY <1>1, <1>3, <3>2 DEF Permitted, Over, Attrs
  <2>3. QED
    BY <2>1, <2>2
<1>5. Becomes(cur, Back) = Back
  <2>1. CASE Back.policy = "fifo"
    <3>1. cur.favour = Back.favour
      BY <1>1, <1>3, <2>1 DEF Over
    <3>2. [Back EXCEPT !.favour = Back.favour] = Back
      BY <1>3 DEF Attrs
    <3>3. QED
      BY <2>1, <3>1, <3>2 DEF Becomes
  <2>2. CASE Back.policy # "fifo"
    BY <2>2 DEF Becomes
  <2>3. QED
    BY <2>1, <2>2
<1>6. QED
  BY <1>2, <1>3, <1>4, <1>5 DEF cur

\* What is put back is what was there before, but for RESET_ON_FORK.
LEMMA RollBackKeeps ==
  ASSUME AttrInv, BackInv, previous # Unborn, RollBack
  PROVE  /\ sched' \in [Threads -> Attrs] /\ previous' \in Attrs
         /\ sched'[Stream] = previous' /\ previous' # Unborn
         /\ previous'.policy = previous.policy /\ previous'.favour = previous.favour
         /\ previous'.policy \in {"other", "fifo"} /\ previous'.favour <= 1
<1>1. sched' = [sched EXCEPT ![Stream] = Back] /\ previous' = Back
  BY BackPermitted DEF RollBack, SetAttr
<1>2. /\ Back \in Attrs /\ Back.policy = previous.policy /\ Back.favour = previous.favour
  BY BackPermitted DEF AttrInv, Attrs
<1>3. previous.policy \in {"other", "fifo"} /\ previous.favour <= 1
  BY ThreadsAssumption DEF AttrInv, BackInv, Over, Attrs
<1>4. Back # Unborn
  BY <1>2, <1>3 DEF Unborn, Attr
<1>5. QED
  BY <1>1, <1>2, <1>3, <1>4, ThreadsAssumption DEF AttrInv

\* After it the thread is what it was before.
LEMMA PutBackKeeps ==
  ASSUME AttrInv, BackInv, previous # Unborn, RollBack, UNCHANGED <<rtprio, pending>>,
         (pc' = "running" /\ restorable') \/ (pc' = "lowered" /\ pending = {})
  PROVE  AttrInv' /\ BackInv'
<1>1. pc' \notin ServicePoints /\ pc' # "new" /\ pc' # "direct"
  BY DEF ServicePoints
<1>2. AttrInv'
  BY RollBackKeeps DEF AttrInv
<1>3. pending # {} => previous.policy = "other"
  BY DEF BackInv
<1>4. sched'[Stream] = previous' /\ previous' # Unborn /\ previous'.policy = previous.policy
  BY RollBackKeeps
<1>5. Over(previous', sched'[Stream])
  <2>1. /\ previous'.policy \in {"other", "fifo"} /\ previous'.favour \in Nat
        /\ previous'.prio \in Nat
    BY RollBackKeeps DEF Attrs
  <2>2. QED
    BY <1>4, <2>1 DEF Over
<1>6. Safe' /\ (pc' = "lowered" => pending' = {}) /\ ~Sent'
  BY <1>1, <1>4 DEF Safe, Sent, ServicePoints
<1>7. pending # {} => pc' = "running" /\ restorable'
  OBVIOUS
<1>8. QED
  BY <1>1, <1>2, <1>3, <1>4, <1>5, <1>6, <1>7 DEF BackInv

\* Once the process's threads are raised there is nothing to keep.
LEMMA ThreadsOwn ==
  ASSUME OwnInv, ThreadsStep /\ UNCHANGED <<bus, own, rttime>>
  PROVE  OwnInv'
<1>1. task' # "idle"
  BY DEF ThreadsStep, ComeAndGo, Raise, RaiseThread, EndPass, Restore, PutThreadBack,
         EndRestore, Visit, VisitAgain, Attributes
<1>2. QED
  BY <1>1 DEF OwnInv

\* A look of the process scan keeps it.
LEMMA LookOwn ==
  ASSUME AttrInv, BackInv, Look
  PROVE  AttrInv' /\ BackInv'
<1>1. previous = Unborn /\ pc = "new" /\ pending = {} /\ ~restorable
  BY DEF Look, BackInv
<1>2. UNCHANGED <<sched, rtprio, pending, restorable>>
  BY DEF Look, Others, bus
<1>3. CASE previous' = sched[Stream] /\ pc' = "cap"
  <2>1. sched[Stream] \in Attrs /\ sched[Stream] # Unborn /\ sched[Stream].policy \in {"other", "fifo"}
    BY ThreadsAssumption DEF AttrInv, Unborn, Attr
  <2>2. Over(sched[Stream], sched[Stream])
    BY <2>1 DEF Over, Attrs
  <2>3. QED
    BY <1>1, <1>2, <1>3, <2>1, <2>2 DEF AttrInv, BackInv, Safe, Sent, ServicePoints
<1>4. CASE Return("normal") /\ UNCHANGED previous
  BY <1>1, <1>2, <1>4 DEF Return, AttrInv, BackInv
<1>5. QED
  BY <1>3, <1>4 DEF Look

\* The limit is no part of it, nor are connections, calls in the making,
\* messages and deadlines.
LEMMA PlacesKeep ==
  ASSUME AttrInv, BackInv, IInv, CapTime \/ Connect \/ ReadMessage \/ Timeout \/ Message \/ Expire
  PROVE  AttrInv' /\ BackInv'
<1> USE DEF Others, own, bus, threads, rttime
<1>1. CASE CapTime
  <2>1. UNCHANGED <<sched, previous, restorable, pending, rtprio>>
    BY <1>1 DEF CapTime
  <2>2. previous # Unborn /\ ~Sent
    BY <1>1 DEF CapTime, BackInv, Sent
  <2>3. /\ pc' \in {"capSet", "running", "direct", "timeSet", "call", "connect"}
        /\ pc' \in ServicePoints => pc \in ServicePoints
        /\ pc' = "direct" => ~(previous.prio > StreamLevel)
    BY <1>1, PhaseOver DEF CapTime, Return, ServicePoints
  <2>4. previous.prio \in Nat
    BY DEF AttrInv, Attrs
  <2>5. QED
    BY <2>1, <2>2, <2>3, <2>4, PlaceKeeps DEF StreamLevel
<1>2. CASE Connect
  <2>1. UNCHANGED <<sched, previous, restorable, pending, rtprio>> /\ pc = "connect"
    BY <1>2 DEF Connect
  <2>2. pc' \in {"get", "connect", "running"}
    BY <1>2, PhaseOver DEF Connect
  <2>3. previous # Unborn
    BY <2>1 DEF BackInv
  <2>4. QED
    BY <2>1, <2>2, <2>3, PlaceKeeps DEF Sent, ServicePoints
<1>3. CASE ReadMessage \/ Timeout
  <2>1. UNCHANGED <<sched, previous, restorable, pending, rtprio>> /\ pc \in {"get", "time", "call"}
    BY <1>3 DEF ReadMessage, Timeout, IInv, MessageInv
  <2>2. previous # Unborn
    BY <2>1 DEF BackInv
  <2>3. CASE UNCHANGED <<pc, asking>>
    BY <2>1, <2>2, <2>3, PlaceKeeps DEF Sent
  <2>4. CASE pc = "call" /\ pc' = "verify"
    BY <2>1, <2>2, <2>4, PlaceKeeps DEF Sent, ServicePoints
  <2>5. CASE ~Sent /\ pc' \in {"call", "time", "timeCap", "connect", "running"}
    BY <2>1, <2>2, <2>5, PlaceKeeps DEF ServicePoints
  <2>6. QED
    <3>1. CASE NextPhase /\ (pc # "call" \/ ~asking)
      BY <2>1, <2>5, <3>1, PhaseOver DEF Sent
    <3>2. ASSUME NEW v, Replied(v) PROVE AttrInv' /\ BackInv'
      <4>1. CASE pc = "call"
        BY <2>4, <3>2, <4>1 DEF Replied, Done
      <4>2. CASE pc \in {"get", "time"}
        <5>1. ~Sent
          BY <4>2 DEF Sent
        <5>2. pc' \in {"call", "time", "timeCap", "connect", "running"}
          BY <3>2, <4>2, PhaseOver DEF Replied, Done
        <5>3. QED
          BY <2>5, <5>1, <5>2
      <4>3. QED
        BY <2>1, <4>1, <4>2
    <3>3. CASE CallFails
      BY <2>1, <2>4, <3>1, <3>3 DEF CallFails, Done
    <3>4. QED
      BY <1>3, <2>3, <3>1, <3>2, <3>3 DEF ReadMessage, Timeout
<1>4. CASE Message \/ Expire
  <2>1. UNCHANGED <<sched, previous, restorable, pending, rtprio, pc, asking>>
    BY <1>4 DEF Message, Expire
  <2>2. QED
    BY <2>1 DEF AttrInv, BackInv, Safe, Sent
<1>5. QED
  BY <1>1, <1>2, <1>3, <1>4

\* The kernel grants the stream's priority, or one that is not below what the
\* thread had.
LEMMA DirectOwn ==
  ASSUME AttrInv, BackInv, Direct
  PROVE  AttrInv' /\ BackInv'
<1>1. pc = "direct" /\ previous # Unborn /\ Over(previous, sched[Stream]) /\ previous.prio <= StreamLevel
  BY DEF Direct, BackInv
<1>2. UNCHANGED <<previous, pending, rtprio>>
  BY DEF Direct, Others
<1>3. Allowed \in Nat
  BY MinOfTwo DEF Allowed, AttrInv, StreamLevel
<1>4. ASSUME NEW prio \in {StreamLevel, Allowed}, Granted(prio),
             previous.policy = "fifo" => previous.prio <= prio
      PROVE  AttrInv' /\ BackInv'
  <2>1. pc' = "running" /\ restorable' = TRUE
    BY <1>4 DEF Granted, Return
  <2>2. prio \in Nat /\ sched[Stream] \in Attrs
    BY <1>3, <1>4, ThreadsAssumption DEF StreamLevel, AttrInv
  <2> DEFINE new == Becomes(sched[Stream], Wanted(prio))
  <2>3. new \in Attrs /\ new.policy = "fifo" /\ new.prio = prio /\ new.favour = sched[Stream].favour
    BY <2>2 DEF Becomes, Wanted, Attr, Attrs
  <2>4. sched' = [sched EXCEPT ![Stream] = new]
    BY <1>4 DEF Granted, SetAttr
  <2> HIDE DEF new
  <2>5. AttrInv' /\ sched'[Stream] = new
    BY <1>2, <2>3, <2>4, ThreadsAssumption DEF AttrInv
  <2>6. Over(previous, new)
    BY <1>1, <1>4, <2>3 DEF Over
  <2>7. pending # {} => previous.policy = "other"
    BY <1>1 DEF BackInv
  <2>8. QED
    BY <1>1, <1>2, <2>1, <2>5, <2>6, <2>7 DEF BackInv, ServicePoints
<1>5. CASE Refused /\ Unchanged
  <2>1. UNCHANGED <<sched, restorable>> /\ pc' \in {"running", "connect"}
    BY <1>5 DEF Refused, Unchanged, Return
  <2>2. pc' = "connect" => previous.policy = "other"
    BY <1>1, <1>5 DEF Refused, WasRT, Return, Over
  <2>3. QED
    BY <1>1, <1>2, <2>1, <2>2, PlaceKeeps DEF Sent, ServicePoints
<1>6. CASE Return(Fallback) /\ Unchanged
  <2>1. UNCHANGED <<sched, restorable>> /\ pc' = "running"
    BY <1>6 DEF Unchanged, Return
  <2>2. QED
    BY <1>1, <1>2, <2>1, PlaceKeeps DEF Sent, ServicePoints
<1>7. QED
  <2>1. previous.prio \in Nat
    BY DEF AttrInv, Attrs
  <2>2. CASE Granted(StreamLevel)
    BY <1>1, <1>4, <2>2
  <2>3. CASE Granted(Allowed) /\ ~(WasRT /\ Allowed < previous.prio)
    BY <1>3, <1>4, <2>1, <2>3 DEF WasRT
  <2>4. QED
    BY <1>5, <1>6, <2>2, <2>3 DEF Direct

\* What is asked for is a priority or a nice level.
LEMMA SendOwn ==
  ASSUME AttrInv, BackInv, IInv, Send
  PROVE  AttrInv' /\ BackInv'
<1>1. UNCHANGED <<sched, previous, restorable, rtprio, pc>> /\ pc \in {"get", "time", "call"} /\ asking'
  BY DEF Send, Others, own
<1>2. previous # Unborn /\ previous.policy = "other"
  BY <1>1 DEF BackInv, ServicePoints
<1>3. CASE pc = "call"
  <2>1. \A r \in pending' : r \in pending \/ r.prio \in Nat
    BY <1>3 DEF Send, Askable, StreamLevel
  <2>2. AttrInv'
    BY <1>1, <2>1 DEF AttrInv
  <2>3. Sent'
    BY <1>1, <1>3 DEF Sent
  <2>4. QED
    BY <1>1, <1>2, <1>3, <2>2, <2>3 DEF BackInv
<1>4. CASE pc # "call"
  <2>1. pending' = pending
    BY <1>4 DEF Send
  <2>2. QED
    BY <1>1, <1>2, <1>4, <2>1, PlaceKeeps DEF Sent
<1>5. QED
  BY <1>3, <1>4

\* The thread is to be restored from now on, or has been already.
LEMMA VerifyOwn ==
  ASSUME AttrInv, BackInv, Verify
  PROVE  AttrInv' /\ BackInv'
<1>1. UNCHANGED <<rtprio, pending>> /\ restorable' = TRUE /\ pc = "verify"
  BY DEF Verify, Others, Restorable
<1>2. previous # Unborn /\ previous.policy = "other"
  BY <1>1 DEF BackInv, ServicePoints
<1>3. CASE RollBack /\ pc' = "running"
  BY <1>1, <1>2, <1>3, PutBackKeeps
<1>4. CASE Untouched /\ pc' \in {"running", "connect"}
  BY <1>1, <1>2, <1>4 DEF Untouched, AttrInv, BackInv
<1>5. QED
  BY <1>3, <1>4, PhaseOver DEF Verify, Return

\* So does a thread lowered again.
LEMMA LowerOwn ==
  ASSUME AttrInv, BackInv, Lower
  PROVE  AttrInv' /\ BackInv'
<1>1. UNCHANGED <<rtprio, pending, restorable>> /\ pc' = "lowered" /\ pending = {} /\ pc = "running"
  BY DEF Lower, Others, bus
<1>2. CASE restorable
  BY <1>1, <1>2, PutBackKeeps DEF Lower, BackInv
<1>3. CASE ~restorable
  BY <1>1, <1>3, PlaceKeeps DEF Lower, Untouched, AttrInv, BackInv, Sent, Safe, ServicePoints
<1>4. QED
  BY <1>2, <1>3

\* A service makes the thread stronger, or does nothing that cannot be undone.
LEMMA ServiceOwn ==
  ASSUME AttrInv, BackInv, ServiceActs
  PROVE  AttrInv' /\ BackInv'
<1>1. PICK r \in pending :
        /\ pending' = pending \ {r}
        /\ \/ UNCHANGED sched
           \/ \E new \in {Attr(IF r.nice THEN "other" ELSE "fifo", IF r.nice THEN 0 ELSE r.prio,
                               IF r.nice THEN 1 ELSE 0, flag) : flag \in BOOLEAN}
                         \cup {[sched[Stream] EXCEPT !.reset = TRUE]} : SetAttr(Stream, new)
  BY DEF ServiceActs
<1>2. UNCHANGED <<rtprio, previous, restorable, pc, asking>>
  BY DEF ServiceActs, Others, own
<1>3. /\ previous # Unborn /\ previous.policy = "other" /\ pc # "lowered" /\ pc # "new"
      /\ restorable \/ Sent
  BY <1>1 DEF BackInv
<1> DEFINE cur == sched'[Stream]
<1>4. /\ sched' \in [Threads -> Attrs] /\ cur.policy \in {"other", "fifo"}
      /\ cur.favour <= 1 /\ previous.favour <= cur.favour
  <2> DEFINE old == sched[Stream]
  <2>1. /\ old \in Attrs /\ old.policy \in {"other", "fifo"} /\ old.favour <= 1
        /\ previous.favour <= old.favour /\ previous.favour \in Nat
    BY <1>3, ThreadsAssumption DEF AttrInv, BackInv, Over, Attrs
  <2>2. CASE UNCHANGED sched
    BY <2>1, <2>2 DEF AttrInv
  <2>3. ASSUME NEW new \in Attrs, SetAttr(Stream, new), new.policy \in {"other", "fifo"},
               new.policy = "other" => new.favour <= 1 /\ old.favour <= new.favour
        PROVE  /\ sched' \in [Threads -> Attrs] /\ cur.policy \in {"other", "fifo"}
               /\ cur.favour <= 1 /\ previous.favour <= cur.favour
    <3> DEFINE become == Becomes(old, new)
    <3>1. /\ become \in Attrs /\ become.policy = new.policy
          /\ become.favour = IF new.policy = "fifo" THEN old.favour ELSE new.favour
      BY <2>1 DEF Becomes, Attrs
    <3>2. sched' = [sched EXCEPT ![Stream] = become]
      BY <2>3 DEF SetAttr
    <3> HIDE DEF become
    <3>3. sched' \in [Threads -> Attrs] /\ cur = become
      BY <3>1, <3>2, ThreadsAssumption DEF AttrInv
    <3>4. old.favour \in Nat /\ new.favour \in Nat
      BY <2>1 DEF Attrs
    <3> HIDE DEF old, cur
    <3>5. QED
      BY <2>1, <2>3, <3>1, <3>3, <3>4
  <2>4. ASSUME NEW flag \in BOOLEAN,
               SetAttr(Stream, Attr(IF r.nice THEN "other" ELSE "fifo", IF r.nice THEN 0 ELSE r.prio,
                                    IF r.nice THEN 1 ELSE 0, flag))
        PROVE  /\ sched' \in [Threads -> Attrs] /\ cur.policy \in {"other", "fifo"}
               /\ cur.favour <= 1 /\ previous.favour <= cur.favour
    <3>1. r.prio \in Nat
      BY DEF AttrInv
    <3> DEFINE new == Attr(IF r.nice THEN "other" ELSE "fifo", IF r.nice THEN 0 ELSE r.prio,
                           IF r.nice THEN 1 ELSE 0, flag)
    <3>2. /\ new \in Attrs /\ new.policy \in {"other", "fifo"}
          /\ new.policy = "other" => new.favour = 1
      BY <3>1 DEF Attr, Attrs
    <3> HIDE DEF new
    <3>3. SetAttr(Stream, new)
      BY <2>4 DEF new
    <3>4. QED
      BY <2>1, <2>3, <3>2, <3>3
  <2>5. CASE SetAttr(Stream, [old EXCEPT !.reset = TRUE])
    <3> DEFINE new == [old EXCEPT !.reset = TRUE]
    <3>1. new \in Attrs /\ new.policy = old.policy /\ new.favour = old.favour /\ old.favour \in Nat
      BY <2>1 DEF Attrs
    <3> HIDE DEF new
    <3>2. SetAttr(Stream, new)
      BY <2>5 DEF new
    <3>3. QED
      BY <2>1, <2>3, <3>1, <3>2
  <2>6. QED
    BY <1>1, <2>2, <2>4, <2>5
<1>5. QED
  BY <1>1, <1>2, <1>3, <1>4 DEF AttrInv, BackInv, Over, Sent

\* Everything together.
LEMMA OwnKeeps ==
  ASSUME IInv, OwnInv, [Next]_vars
  PROVE  OwnInv'
<1>1. CASE UNCHANGED vars
  BY <1>1 DEF vars, threads, bus, own, OwnInv, AttrInv, BackInv, Over, Safe, Sent
<1>2. CASE ThreadsStep /\ UNCHANGED <<bus, own, rttime>>
  BY <1>2, ThreadsOwn
<1>3. CASE StreamStep \/ Lower \/ Environment
  <2> SUFFICES ASSUME task' = "idle" PROVE AttrInv' /\ BackInv'
    BY DEF OwnInv
  <2>1. UNCHANGED task
    BY <1>3 DEF StreamStep, Look, CapTime, Direct, Connect, Send, ReadMessage, Timeout, Verify,
           Lower, Environment, OtherStream, Message, Expire, ServiceActs, Others, threads
  <2>2. AttrInv /\ BackInv
    BY <2>1 DEF OwnInv
  <2>3. CASE OtherStream
    BY <2>2, <2>3 DEF OtherStream, threads, bus, own, AttrInv, BackInv, Over, Safe, Sent
  <2>4. QED
    BY <1>3, <2>2, <2>3, LookOwn, PlacesKeep, DirectOwn, SendOwn, VerifyOwn, LowerOwn, ServiceOwn
       DEF StreamStep, Environment
<1>4. QED
  BY <1>1, <1>2, <1>3 DEF Next

(* Lower needs no privilege to give the thread back what it had, whichever *)
(* service acted and whenever.                                             *)
THEOREM ThreadPutBack == Spec => []PutBack
<1>1. OwnInv => PutBack
  BY DEF OwnInv, BackInv, Safe, PutBack
<1>2. IInv /\ OwnInv /\ [Next]_vars => OwnInv'
  BY OwnKeeps
<1>3. QED
  BY InitOwn, CapInvariance, <1>1, <1>2, PTL DEF Spec

-----------------------------------------------------------------------------
(* The threads of the process.  Where they can be raised at all, a stream  *)
(* is granted its priority by the kernel or goes without: the services are *)
(* for a process that has no privilege.                                    *)

USE DEF AtProcessLevel

Quiet == pc \in {"new", "running", "lowered"}
\* What a thread looks like that RaiseProcessThreads has raised.
Pattern(a) == a.policy = "fifo" /\ a.prio = ProcessLevel /\ ~a.reset
\* A thread has exited, or does not pass its policy on to its children.
Escape == \E u \in Threads : sched[u] = Exited \/ sched[u].reset
\* A normal thread of the list has still to be raised.
Due == \E u \in Threads : (u \in todo \/ u = current) /\ u \in Alive /\ ~Realtime(u)

TypeInv ==
    /\ rtprio \in Nat
    /\ sched \in [Threads -> Attrs] /\ found \in [Threads -> Attrs]
    /\ sched[Stream].policy \in {"other", "fifo"}
    /\ previous \in Attrs

\* With a privilege no service is asked, and what a stream was granted stays.
PrivInv ==
    /\ ~Privileged => task = "idle"
    /\ Privileged => pc \in {"new", "cap", "capSet", "direct", "running", "lowered"} /\ pending = {}
    /\ Privileged /\ (pc \in {"cap", "capSet", "direct"} \/ restorable) =>
          previous.policy \in {"other", "fifo"}
    /\ task \in {"raising", "restoring"} => Quiet
    /\ pc = "direct" => previous.prio <= StreamLevel
    /\ pc = "new" => ~restorable
    /\ Privileged /\ restorable => pc \in {"running", "lowered"}
    /\ Privileged /\ restorable /\ pc = "running" =>
         /\ sched[Stream].policy = "fifo" /\ sched[Stream].reset
         /\ previous.policy = "fifo" => sched[Stream].prio >= previous.prio

\* What the lists hold, and the thread that has been taken from one of them.
ListInv ==
    /\ task \in {"idle", "raising", "raised", "restoring", "restored", "abandoned"}
    /\ task = "idle" => seen = {} /\ raised = {}
    /\ task \notin {"raising", "restoring"} => todo = {} /\ current = "none"
    /\ seen \subseteq Threads /\ todo \subseteq Threads /\ raised \subseteq seen
    /\ \A t \in seen \cup todo : sched[t].policy # "unborn"
    /\ \A t \in raised : found[t].policy = "other"
    /\ current # "none" => current \in Threads \ todo /\ sched[current].policy # "unborn"
    /\ task = "raising" /\ current # "none" =>
          /\ current \in seen \ raised /\ found[current].policy = "other"
          /\ current \in Alive => sched[current].policy = "other"
    /\ task = "restoring" /\ current # "none" /\ current \in Alive => Ours(current)

\* During a pass every living thread is real-time, or is still to be looked
\* at, or was born during the pass; and then a normal one is due, or has been
\* raised, which makes another pass.
PassInv ==
    /\ task = "raising" => \A t \in raised \cap Alive : Realtime(t)
    /\ task = "raising" /\ ~err /\ pc # "lowered" =>
        \A t \in Alive : \/ Realtime(t) \/ t \in todo \/ t = current
                         \/ t \in since /\ (changed \/ Escape \/ Due)
    /\ NoneOverlooked

\* A thread that has been looked at is as it was found, or as it was made.
AsFound(t) ==
    /\ t \in raised => sched[t] = [found[t] EXCEPT !.policy = "fifo", !.prio = ProcessLevel, !.reset = FALSE]
    /\ t \in seen \ raised => sched[t] = found[t]
PutRight(t) ==
    /\ t \in seen /\ (t # Stream \/ pc = "new") => sched[t] = found[t]
    /\ t \notin seen => ~Pattern(sched[t])

RestoreInv ==
    /\ task \in {"raising", "raised"} =>
         \A t \in Alive : t # Stream \/ pc = "new" => AsFound(t)
    /\ task = "restoring" =>
         \A t \in Alive \ since :
            IF t \in todo \/ t = current THEN t # Stream \/ pc = "new" => AsFound(t)
            ELSE PutRight(t)
    /\ task = "restored" => \A t \in Alive \ since : PutRight(t)

ProcessInv == TypeInv /\ PrivInv /\ ListInv /\ PassInv /\ RestoreInv

\* A raised thread keeps its nice level, and nothing else of what was found.
LEMMA RaisedForm ==
  ASSUME NEW a \in Attrs
  PROVE  [Attr("fifo", ProcessLevel, 0, FALSE) EXCEPT !.favour = a.favour]
            = [a EXCEPT !.policy = "fifo", !.prio = ProcessLevel, !.reset = FALSE]
<1> DEFINE left == [Attr("fifo", ProcessLevel, 0, FALSE) EXCEPT !.favour = a.favour]
           right == [a EXCEPT !.policy = "fifo", !.prio = ProcessLevel, !.reset = FALSE]
<1>1. /\ left \in Attrs /\ left.policy = "fifo" /\ left.prio = ProcessLevel
      /\ left.favour = a.favour /\ left.reset = FALSE
  BY DEF Attr, Attrs, ProcessLevel
<1>2. /\ right \in Attrs /\ right.policy = "fifo" /\ right.prio = ProcessLevel
      /\ right.favour = a.favour /\ right.reset = FALSE
  BY DEF Attrs, ProcessLevel
<1> HIDE DEF left, right
<1>3. left = right
  BY <1>1, <1>2 DEF Attrs
<1>4. QED
  BY <1>3 DEF left, right

\* Nobody was raised at first.
LEMMA InitProcess == Init => ProcessInv
<1> SUFFICES ASSUME Init PROVE ProcessInv
  OBVIOUS
<1>1. AttrInv /\ BackInv
  BY InitOwn DEF OwnInv, Init, ThreadsInit
<1>2. found \in [Threads -> Attrs]
  BY DEF Init, ThreadsInit, Unborn, Attr, Attrs
<1>3. TypeInv
  BY <1>1, <1>2 DEF TypeInv, AttrInv
<1>4. PrivInv
  BY DEF Init, ThreadsInit, PrivInv
<1>5. ListInv /\ PassInv /\ RestoreInv
  BY DEF Init, ThreadsInit, ListInv, PassInv, RestoreInv, NoneOverlooked
<1>6. QED
  BY <1>3, <1>4, <1>5 DEF ProcessInv

Rest == UNCHANGED <<bus, own, rttime>>

\* A child is born from a living thread, which passes on its attributes or
\* none of them; a thread that exits is not the stream's.
LEMMA ComeAndGoKeeps ==
  ASSUME ProcessInv, ComeAndGo, Rest
  PROVE  ProcessInv'
<1> USE ThreadsAssumption DEF ProcessInv, Rest, own, bus
<1>1. task # "idle" /\ UNCHANGED <<capable, rtprio, pc, task, todo, current, seen, raised, found, changed, pass, err>>
  BY DEF ComeAndGo
<1>2. UNCHANGED <<previous, pending, restorable>>
  OBVIOUS
<1>a. CASE \E t \in Alive, child \in Threads :
              /\ sched[child] = Unborn /\ sched' = [sched EXCEPT ![child] = Inherited(sched[t])]
              /\ since' = since \cup {child}
  <2>1. PICK t \in Alive, child \in Threads :
              /\ sched[child] = Unborn /\ sched' = [sched EXCEPT ![child] = Inherited(sched[t])]
              /\ since' = since \cup {child}
    BY <1>a
  <2> DEFINE new == Inherited(sched[t])
  <2>2. sched[t] \in Attrs /\ sched[t].policy \in {"other", "fifo"} /\ t \in Threads
    BY DEF TypeInv, Alive
  <2>3. new \in Attrs /\ new.policy \in {"other", "fifo"} /\ (new.policy = "fifo" => sched[t].policy = "fifo")
        /\ (new.policy # "fifo" => sched[t].reset \/ sched[t].policy # "fifo")
    BY <2>2 DEF Inherited, Normal, Attr, Attrs
  <2> HIDE DEF new
  <2>4. child # Stream /\ child \notin seen \cup todo /\ sched[child].policy = "unborn" /\ child \notin Alive
    BY <2>1 DEF TypeInv, ListInv, Unborn, Attr, Alive
  <2>5. /\ sched' = [sched EXCEPT ![child] = new]
        /\ sched' \in [Threads -> Attrs] /\ sched'[child] = new
        /\ \A u \in Threads : u # child => sched'[u] = sched[u]
    BY <2>1, <2>3 DEF TypeInv, new
  <2>6. TypeInv' /\ PrivInv'
    BY <1>1, <1>2, <2>4, <2>5 DEF TypeInv, PrivInv, Quiet, Privileged
  <2>7. Alive' = Alive \cup {child}
    BY <2>3, <2>4, <2>5 DEF Alive
  <2>8. current # child
    BY <2>4 DEF ListInv
  <2>9. ListInv'
    BY <1>1, <2>4, <2>5, <2>7, <2>8 DEF ListInv, Ours
  <2>10. PassInv'
    <3>1. Escape => Escape'
      <4>1. sched[child] # Exited /\ ~sched[child].reset
        BY <2>1 DEF Unborn, Exited, Attr
      <4>2. QED
        BY <2>5, <4>1 DEF Escape
    <3>2. Due => Due'
      BY <1>1, <2>4, <2>5, <2>7, <2>8 DEF Due, Realtime
    <3>3. \A u \in Alive : Realtime(u) <=> Realtime(u)'
      BY <2>4, <2>5 DEF Realtime, Alive
    <3>4. ~Realtime(child)' => ~Realtime(t) \/ Escape'
      BY <2>2, <2>3, <2>4, <2>5 DEF Realtime, Escape
    <3>5. child \in since' /\ since \subseteq since' /\ child \notin raised
      BY <2>1, <2>4 DEF ListInv
    <3>6. task = "raising" => \A u \in raised' \cap Alive' : Realtime(u)'
      BY <1>1, <2>7, <3>3, <3>5 DEF PassInv
    <3>7. ASSUME task = "raising", ~err, pc # "lowered", NEW u \in Alive'
          PROVE  \/ Realtime(u)' \/ u \in todo' \/ u = current'
                 \/ u \in since' /\ (changed' \/ Escape' \/ Due')
      <4>1. CASE u \in Alive
        BY <1>1, <3>1, <3>2, <3>3, <3>5, <3>7, <4>1 DEF PassInv
      <4>2. CASE u = child
        <5>1. ~Realtime(t) /\ (t \in todo \/ t = current) => Due
          BY <2>2 DEF Due
        <5>2. ~Realtime(t) => changed \/ Escape \/ Due
          BY <3>7, <5>1 DEF PassInv
        <5>3. QED
          BY <1>1, <3>1, <3>2, <3>4, <3>5, <4>2, <5>2
      <4>3. QED
        BY <2>7, <4>1, <4>2
    <3>8. NoneOverlooked'
      <4> SUFFICES ASSUME task = "raised", ~err, pass < MaxPasses, pc # "lowered", NEW u \in Alive'
                   PROVE  Realtime(u)' \/ (u \in since' /\ Escape')
        BY <1>1 DEF NoneOverlooked, Escape
      <4>1. \A v \in Alive : Realtime(v) \/ (v \in since /\ Escape)
        BY DEF PassInv, NoneOverlooked, Escape
      <4>2. QED
        BY <2>7, <3>1, <3>3, <3>4, <3>5, <4>1
    <3>9. QED
      BY <1>1, <3>6, <3>7, <3>8 DEF PassInv
  <2>11. RestoreInv'
    <3>1. /\ \A u \in Alive : u # child /\ sched'[u] = sched[u] /\ AsFound(u)' = AsFound(u) /\ PutRight(u)' = PutRight(u)
          /\ child \in since' /\ \A u \in Alive' \ since' : u \in Alive \ since
          /\ child \notin seen /\ child \notin raised
      BY <1>1, <2>1, <2>4, <2>5, <2>7 DEF AsFound, PutRight, Alive, ListInv
    <3>2. AsFound(child)'
      BY <1>1, <3>1 DEF AsFound
    <3>3. task \in {"raising", "raised"} =>
            \A u \in Alive' : u # Stream \/ pc' = "new" => AsFound(u)'
      BY <1>1, <2>7, <3>1, <3>2 DEF RestoreInv
    <3>4. QED
      BY <1>1, <3>1, <3>3 DEF RestoreInv
  <2>12. QED
    BY <2>6, <2>9, <2>10, <2>11
<1>b. CASE \E t \in Alive : t # Stream /\ sched' = [sched EXCEPT ![t] = Exited] /\ UNCHANGED since
  <2>1. PICK t \in Alive : t # Stream /\ sched' = [sched EXCEPT ![t] = Exited]
    BY <1>b
  <2>2. /\ t \in Threads /\ sched' \in [Threads -> Attrs] /\ sched'[t] = Exited
        /\ \A u \in Threads : u # t => sched'[u] = sched[u]
    BY <2>1 DEF TypeInv, Alive, Exited, Attr, Attrs
  <2>3. Alive' = Alive \ {t} /\ Exited.policy = "exited"
    BY <2>2 DEF Alive, Exited, Attr
  <2>4. TypeInv' /\ PrivInv'
    BY <1>1, <1>2, <2>1, <2>2 DEF TypeInv, PrivInv, Quiet, Privileged
  <2>5. ListInv'
    BY <1>1, <2>2, <2>3 DEF ListInv, Ours
  <2>6. Escape'
    BY <2>2 DEF Escape
  <2>7. PassInv'
    BY <1>1, <1>b, <2>2, <2>3, <2>6 DEF PassInv, NoneOverlooked, Realtime, Escape
  <2>8. RestoreInv'
    <3>1. \A u \in Alive' : u \in Alive /\ sched'[u] = sched[u] /\ AsFound(u)' = AsFound(u) /\ PutRight(u)' = PutRight(u)
      BY <1>1, <2>2, <2>3 DEF AsFound, PutRight, Alive
    <3>2. QED
      BY <1>1, <1>b, <3>1 DEF RestoreInv
  <2>9. QED
    BY <2>4, <2>5, <2>7, <2>8
<1>c. QED
  BY <1>a, <1>b DEF ComeAndGo

\* Whoever changes no thread, and no list but to begin one of all that live.
LEMMA ListingKeeps ==
  ASSUME ProcessInv, Raise \/ EndPass \/ Restore \/ EndRestore, Rest
  PROVE  ProcessInv'
<1> USE ThreadsAssumption DEF ProcessInv, Rest, own, bus, Attributes
<1>1. UNCHANGED <<sched, capable, rtprio, pc, current, seen, raised, found, previous, pending, restorable>>
  BY DEF Raise, EndPass, Restore, EndRestore
<1>2. Alive' = Alive /\ \A u \in Threads : Realtime(u) <=> Realtime(u)'
  BY <1>1 DEF Alive, Realtime
<1>3. /\ Alive \subseteq Threads /\ \A t \in Alive : sched[t].policy # "unborn"
      /\ \A t \in Alive : AsFound(t)' = AsFound(t) /\ PutRight(t)' = PutRight(t)
  BY <1>1 DEF Alive, AsFound, PutRight
<1>4. /\ Settled /\ (Privileged \/ task # "idle") /\ (Settled \/ UNCHANGED task \/ task' \notin {"raising", "restoring"})
      /\ current = "none"
  BY DEF Raise, EndPass, Restore, EndRestore, ListInv, PrivInv, Quiet, Settled
<1>5. TypeInv' /\ PrivInv'
  BY <1>1, <1>4 DEF TypeInv, PrivInv, Quiet, Privileged, Settled
<1>6. ListInv'
  BY <1>1, <1>3, <1>4 DEF ListInv, Raise, EndPass, Restore, EndRestore, List, Ours
<1>7. PassInv'
  <2>1. CASE Raise \/ Restore \/ EndRestore
    BY <1>1, <1>2, <2>1 DEF PassInv, NoneOverlooked, Raise, Restore, EndRestore, List, ListInv
  <2>2. CASE EndPass /\ task' = "raising"
    <3>1. task = "raising" /\ todo' = Alive /\ UNCHANGED err
      BY <2>2 DEF EndPass, List
    <3>2. task' = "raising" => \A t \in raised' \cap Alive' : Realtime(t)'
      BY <1>1, <1>2, <1>3, <3>1 DEF PassInv
    <3>3. \A t \in Alive' : t \in todo'
      BY <1>2, <3>1
    <3>4. QED
      BY <2>2, <3>2, <3>3 DEF PassInv, NoneOverlooked
  <2>3. CASE EndPass /\ task' = "raised"
    <3>1. ~err' /\ pass' < MaxPasses => ~err /\ ~changed
      BY <2>3 DEF EndPass, Again
    <3>2. ~Due
      BY <2>3 DEF EndPass, Due, Alive, TypeInv
    <3>3. Escape' = Escape
      BY <1>1 DEF Escape
    <3>4. ~err' /\ pass' < MaxPasses /\ pc' # "lowered"
            => \A t \in Alive' : Realtime(t)' \/ (t \in since' /\ Escape')
      BY <1>1, <1>2, <1>3, <2>3, <3>1, <3>2, <3>3 DEF PassInv, EndPass
    <3>5. QED
      BY <2>3, <3>4 DEF PassInv, NoneOverlooked, Escape
  <2>4. QED
    BY <2>1, <2>2, <2>3 DEF EndPass
<1>8. RestoreInv'
  <2>1. CASE Raise
    BY <1>1, <1>2, <2>1 DEF RestoreInv, Raise, AsFound, ListInv
  <2>2. CASE EndPass
    BY <1>1, <1>2, <1>3, <2>2 DEF RestoreInv, EndPass
  <2>3. CASE Restore
    BY <1>1, <1>2, <1>3, <2>3 DEF RestoreInv, Restore, List
  <2>4. CASE EndRestore
    BY <1>1, <1>2, <1>3, <2>4 DEF RestoreInv, EndRestore
  <2>5. QED
    BY <2>1, <2>2, <2>3, <2>4
<1>9. QED
  BY <1>5, <1>6, <1>7, <1>8

\* A thread is taken from the list, and has been looked at.
LEMMA VisitKeeps ==
  ASSUME ProcessInv, NEW t \in Threads, Visit(t), Rest
  PROVE  ProcessInv'
<1> USE ThreadsAssumption DEF ProcessInv, Rest, own, bus, Attributes
<1>1. /\ UNCHANGED <<sched, capable, rtprio, pc, previous, pending, restorable, task, raised, changed, pass, err, since>>
      /\ task = "raising" /\ current = "none" /\ t \in todo
      /\ todo' = todo \ {t} /\ seen' = seen \cup {t}
  BY DEF Visit
<1>2. /\ found' \in [Threads -> Attrs]
      /\ \A u \in Threads : u # t \/ u \in raised => found'[u] = found[u]
      /\ t \notin raised => found'[t] = sched[t]
  BY DEF Visit, TypeInv
<1>3. /\ current' = t \/ current' = "none"
      /\ current' = t <=> t \notin raised /\ sched[t].policy = "other"
  BY <1>1 DEF Visit, ListInv
<1>4. Alive' = Alive /\ \A u \in Threads : Realtime(u) <=> Realtime(u)'
  BY <1>1 DEF Alive, Realtime
<1>5. TypeInv' /\ PrivInv'
  BY <1>1, <1>2 DEF TypeInv, PrivInv, Quiet, Privileged
<1>6. ListInv'
  <2>1. \A u \in raised' : found'[u].policy = "other"
    BY <1>1, <1>2 DEF ListInv
  <2>2. current' = t => current' \in seen' \ raised' /\ found'[current'].policy = "other"
    BY <1>1, <1>2, <1>3
  <2>3. QED
    BY <1>1, <1>3, <2>1, <2>2 DEF ListInv, Ours
<1>7. PassInv'
  <2>1. t \in Alive /\ ~Realtime(t) => current' = t
    BY <1>1, <1>3 DEF PassInv, Realtime, Alive
  <2>2. Due => Due'
    BY <1>1, <1>3, <1>4, <2>1 DEF Due, ListInv
  <2>3. Escape' = Escape /\ current \notin Alive
    BY <1>1 DEF Escape, Alive
  <2>4. QED
    <3>1. \A u \in raised' \cap Alive' : Realtime(u)'
      BY <1>1, <1>4 DEF PassInv, Alive
    <3>2. ASSUME ~err', pc' # "lowered", NEW u \in Alive'
          PROVE  \/ Realtime(u)' \/ u \in todo' \/ u = current'
                 \/ u \in since' /\ (changed' \/ Escape' \/ Due')
      <4>1. u \in Alive /\ u \in Threads /\ u # current
        BY <1>4, <2>3, <3>2 DEF Alive
      <4>2. \/ Realtime(u) \/ u \in todo
            \/ u \in since /\ (changed \/ Escape \/ Due)
        BY <1>1, <3>2, <4>1 DEF PassInv
      <4>3. QED
        BY <1>1, <1>4, <2>1, <2>2, <2>3, <4>1, <4>2
    <3>3. QED
      BY <1>1, <3>1, <3>2 DEF PassInv, NoneOverlooked
<1>8. RestoreInv'
  <2>1. \A u \in Alive : u # t => AsFound(u)' = AsFound(u)
    BY <1>1, <1>2 DEF AsFound, Alive
  <2>2. AsFound(t) => AsFound(t)'
    BY <1>1, <1>2 DEF AsFound
  <2>3. t \notin raised => AsFound(t)'
    BY <1>1, <1>2 DEF AsFound
  <2>4. QED
    BY <1>1, <1>4, <2>1, <2>2, <2>3 DEF RestoreInv
<1>9. QED
  BY <1>5, <1>6, <1>7, <1>8

\* It is raised, or that is refused and told.
LEMMA RaiseThreadKeeps ==
  ASSUME ProcessInv, RaiseThread, Rest
  PROVE  ProcessInv'
<1> USE ThreadsAssumption DEF ProcessInv, Rest, own, bus
<1>1. /\ UNCHANGED <<capable, rtprio, pc, previous, pending, restorable, task, todo, seen, found, pass, since>>
      /\ task = "raising" /\ current # "none" /\ current' = "none"
      /\ current \in Threads /\ current \in seen \ raised /\ found[current].policy = "other"
  BY DEF RaiseThread, ListInv
<1>2. CASE /\ current \in Alive /\ SetAttr(current, Attr("fifo", ProcessLevel, 0, FALSE))
           /\ raised' = raised \cup {current} /\ changed' = TRUE /\ UNCHANGED err
  <2> DEFINE next == Attr("fifo", ProcessLevel, 0, FALSE)
             new == [found[current] EXCEPT !.policy = "fifo", !.prio = ProcessLevel, !.reset = FALSE]
  <2>1. sched[current] \in Attrs /\ found[current] \in Attrs /\ sched[current].policy = "other"
    BY <1>1, <1>2 DEF TypeInv, ListInv
  <2>2. Becomes(sched[current], next) \in Attrs /\ Becomes(sched[current], next).policy = "fifo"
    BY <2>1 DEF Becomes, Attr, Attrs, ProcessLevel
  <2>3. current # Stream \/ pc = "new" => Becomes(sched[current], next) = new
    <3>1. current # Stream \/ pc = "new" => sched[current] = found[current]
      BY <1>1, <1>2 DEF RestoreInv, AsFound
    <3>2. [next EXCEPT !.favour = found[current].favour] = new
      BY <2>1, RaisedForm
    <3>3. next.policy = "fifo"
      BY DEF Attr
    <3>4. QED
      BY <3>1, <3>2, <3>3 DEF Becomes
  <2> DEFINE become == Becomes(sched[current], next)
  <2>4. /\ sched' = [sched EXCEPT ![current] = become] /\ sched' \in [Threads -> Attrs]
        /\ sched'[current] = become /\ \A u \in Threads : u # current => sched'[u] = sched[u]
    BY <1>1, <1>2, <2>2 DEF SetAttr, TypeInv
  <2> HIDE DEF next, become
  <2>5. become.policy = "fifo" /\ Alive' = Alive
    BY <1>2, <2>2, <2>4 DEF Alive, become
  <2>6. TypeInv'
    BY <1>1, <2>4, <2>5 DEF TypeInv
  <2>7. PrivInv'
    <3>1. current = Stream => ~(Privileged /\ restorable /\ pc = "running")
      BY <2>1 DEF PrivInv
    <3>2. QED
      BY <1>1, <2>4, <3>1 DEF PrivInv, Quiet, Privileged
  <2>8. ListInv'
    BY <1>1, <1>2, <2>4, <2>5 DEF ListInv
  <2>9. PassInv'
    <3>1. \A u \in Alive : Realtime(u) \/ u = current => Realtime(u)'
      BY <2>4, <2>5 DEF Realtime, Alive
    <3>2. QED
      BY <1>1, <1>2, <2>5, <3>1 DEF PassInv, NoneOverlooked
  <2>10. RestoreInv'
    <3>1. \A u \in Alive : u # current => AsFound(u)' = AsFound(u)
      BY <1>1, <1>2, <2>4 DEF AsFound, Alive
    <3>2. \A u \in Alive : u = current /\ (u # Stream \/ pc = "new") => AsFound(u)'
      BY <1>1, <1>2, <2>3, <2>4 DEF AsFound, become
    <3>3. QED
      BY <1>1, <2>5, <3>1, <3>2 DEF RestoreInv
  <2>11. QED
    BY <2>6, <2>7, <2>8, <2>9, <2>10
<1>3. CASE err' = TRUE /\ UNCHANGED <<sched, raised, changed>>
  <2>1. Alive' = Alive /\ \A u \in Alive : AsFound(u)' = AsFound(u) /\ Realtime(u)' = Realtime(u)
    BY <1>1, <1>3 DEF Alive, AsFound, Realtime
  <2>2. TypeInv' /\ PrivInv' /\ ListInv'
    BY <1>1, <1>3 DEF TypeInv, PrivInv, ListInv, Quiet, Privileged, Ours
  <2>3. PassInv' /\ RestoreInv'
    BY <1>1, <1>3, <2>1 DEF PassInv, RestoreInv, NoneOverlooked
  <2>4. QED
    BY <2>2, <2>3
<1>4. QED
  BY <1>2, <1>3 DEF RaiseThread

\* What was not raised, or is no longer as it was left, is not touched.
LEMMA VisitAgainKeeps ==
  ASSUME ProcessInv, NEW t \in Threads, VisitAgain(t), Rest
  PROVE  ProcessInv'
<1> USE ThreadsAssumption DEF ProcessInv, Rest, own, bus, Attributes
<1>1. /\ UNCHANGED <<sched, capable, rtprio, pc, previous, pending, restorable, task, seen, raised, found, changed, pass, err, since>>
      /\ task = "restoring" /\ current = "none" /\ t \in todo
      /\ todo' = todo \ {t} /\ current' = IF Ours(t) THEN t ELSE current
  BY DEF VisitAgain
<1>2. Alive' = Alive /\ \A u \in Alive : u \in Threads /\ AsFound(u)' = AsFound(u) /\ PutRight(u)' = PutRight(u)
  BY <1>1 DEF Alive, AsFound, PutRight
<1>3. TypeInv' /\ PrivInv'
  BY <1>1 DEF TypeInv, PrivInv, Quiet, Privileged
<1>4. Ours(t) => Ours(t)' /\ sched[t].policy # "unborn"
  BY <1>1 DEF Ours
<1>5. ListInv'
  BY <1>1, <1>4 DEF ListInv
<1>6. PassInv'
  BY <1>1 DEF PassInv, NoneOverlooked
<1>7. RestoreInv'
  <2>1. t \in Alive \ since => (t # Stream \/ pc = "new" => AsFound(t))
    BY <1>1 DEF RestoreInv
  <2>2. (t # Stream \/ pc = "new") /\ AsFound(t) /\ t \in raised => Ours(t)
    BY <1>1 DEF AsFound, Ours, TypeInv, Attrs, ListInv
  <2>3. t \in Alive \ since /\ ~Ours(t) => PutRight(t)
    BY <2>1, <2>2 DEF PutRight, AsFound, Ours, Pattern
  <2>4. QED
    BY <1>1, <1>2, <2>1, <2>3 DEF RestoreInv
<1>8. QED
  BY <1>3, <1>5, <1>6, <1>7

\* What was raised gets back what it had: that takes no privilege.
LEMMA PutThreadBackKeeps ==
  ASSUME ProcessInv, PutThreadBack, Rest
  PROVE  ProcessInv'
<1> USE ThreadsAssumption DEF ProcessInv, Rest, own, bus
<1> DEFINE back == IF current \in raised THEN found[current] ELSE Normal
<1>1. /\ UNCHANGED <<capable, rtprio, pc, previous, pending, restorable, task, todo, seen, raised, found, changed, pass, err, since>>
      /\ task = "restoring" /\ current # "none" /\ current' = "none" /\ current \in Threads
  BY DEF PutThreadBack, ListInv
<1>2. CASE current \notin Alive
  <2>1. UNCHANGED sched
    BY <1>2 DEF PutThreadBack
  <2>2. Alive' = Alive /\ \A u \in Alive : u # current /\ AsFound(u)' = AsFound(u) /\ PutRight(u)' = PutRight(u)
    BY <1>1, <1>2, <2>1 DEF Alive, AsFound, PutRight
  <2>3. "none" \notin Alive
    BY DEF Alive
  <2>4. TypeInv' /\ PrivInv' /\ ListInv' /\ PassInv'
    BY <1>1, <2>1 DEF TypeInv, PrivInv, ListInv, PassInv, NoneOverlooked, Quiet, Privileged
  <2>5. RestoreInv'
    BY <1>1, <2>2, <2>3 DEF RestoreInv
  <2>6. QED
    BY <2>4, <2>5
<1>3. CASE current \in Alive
  <2>1. Ours(current) /\ sched[current] \in Attrs
    BY <1>1, <1>3 DEF ListInv, TypeInv
  <2>2. back \in Attrs /\ back.policy = "other"
    BY <1>1 DEF TypeInv, ListInv, Normal, Attr, Attrs
  <2>3. current \notin raised => current \notin seen /\ back = Normal
    BY <1>1, <2>1 DEF Ours
  <2>4. Becomes(sched[current], back) = back
    BY <2>2 DEF Becomes
  <2>5. current \notin since /\ current \in raised /\ (current # Stream \/ pc = "new")
           => found[current].favour = sched[current].favour
    <3> SUFFICES ASSUME current \notin since, current \in raised, current # Stream \/ pc = "new"
                 PROVE  found[current].favour = sched[current].favour
      OBVIOUS
    <3>1. AsFound(current)
      BY <1>1, <1>3 DEF RestoreInv
    <3>2. found[current] \in Attrs
      BY <1>1 DEF TypeInv
    <3>3. QED
      BY <3>1, <3>2 DEF AsFound, Attrs
  <2>6. current \notin since /\ (current # Stream \/ pc = "new" \/ current \notin seen)
           => Permitted(sched[current], back)
    <3>1. ~sched[current].reset /\ sched[current].favour \in Nat
      BY <2>1 DEF Ours, Attrs
    <3>2. current \notin raised => Permitted(sched[current], back)
      BY <2>3, <3>1 DEF Permitted, Normal, Attr
    <3>3. current \notin since /\ current \in raised /\ (current # Stream \/ pc = "new")
             => Permitted(sched[current], back)
      BY <2>2, <2>5, <3>1 DEF Permitted
    <3>4. raised \subseteq seen
      BY DEF ListInv
    <3>5. QED
      BY <3>2, <3>3, <3>4
  <2>7. \A u \in Alive : u \in Threads /\ u # "none"
    BY DEF Alive
  <2>8. CASE Permitted(sched[current], back)
    <3>1. /\ sched' = [sched EXCEPT ![current] = back] /\ sched' \in [Threads -> Attrs]
          /\ sched'[current] = back /\ \A u \in Threads : u # current => sched'[u] = sched[u]
      BY <1>1, <1>3, <2>2, <2>4, <2>8 DEF PutThreadBack, SetAttr, TypeInv
    <3> HIDE DEF back
    <3>2. Alive' = Alive
      BY <1>3, <2>2, <3>1 DEF Alive
    <3>3. TypeInv'
      BY <1>1, <2>2, <3>1 DEF TypeInv
    <3>4. PrivInv'
      <4>1. current = Stream => ~(Privileged /\ restorable /\ pc = "running")
        BY <2>1 DEF PrivInv, Ours
      <4>2. QED
        BY <1>1, <3>1, <4>1 DEF PrivInv, Quiet, Privileged
    <3>5. ListInv'
      BY <1>1, <2>2, <3>1, <3>2 DEF ListInv
    <3>6. PassInv'
      BY <1>1 DEF PassInv, NoneOverlooked
    <3>7. \A u \in Alive : u # current => AsFound(u)' = AsFound(u) /\ PutRight(u)' = PutRight(u)
      BY <1>1, <2>7, <3>1 DEF AsFound, PutRight
    <3>8. \A u \in Alive : u = current => PutRight(u)'
      BY <1>1, <2>2, <2>3, <3>1 DEF PutRight, Pattern, ListInv, back
    <3>9. RestoreInv'
      <4>1. current \notin todo /\ task' = "restoring"
        BY <1>1 DEF ListInv
      <4>2. ASSUME NEW u \in Alive', u \notin since'
            PROVE  IF u \in todo' \/ u = current'
                   THEN u # Stream \/ pc' = "new" => AsFound(u)' ELSE PutRight(u)'
        <5>1. u \in Alive /\ u \notin since /\ u # current'
          BY <1>1, <2>7, <3>2, <4>2
        <5>2. CASE u = current
          BY <1>1, <3>8, <4>1, <5>1, <5>2
        <5>3. CASE u # current
          <6>1. IF u \in todo THEN u # Stream \/ pc = "new" => AsFound(u) ELSE PutRight(u)
            BY <1>1, <5>1, <5>3 DEF RestoreInv
          <6>2. QED
            BY <1>1, <3>7, <5>1, <5>3, <6>1
        <5>4. QED
          BY <5>2, <5>3
      <4>3. QED
        BY <4>1, <4>2 DEF RestoreInv
    <3>10. QED
      BY <3>3, <3>4, <3>5, <3>6, <3>9
  <2>9. CASE ~Permitted(sched[current], back)
    <3>1. UNCHANGED sched
      BY <1>3, <2>9 DEF PutThreadBack
    <3> HIDE DEF back
    <3>2. Alive' = Alive /\ \A u \in Alive : AsFound(u)' = AsFound(u) /\ PutRight(u)' = PutRight(u)
      BY <1>1, <3>1 DEF Alive, AsFound, PutRight
    <3>3. TypeInv' /\ PrivInv' /\ ListInv' /\ PassInv'
      BY <1>1, <3>1 DEF TypeInv, PrivInv, ListInv, PassInv, NoneOverlooked, Quiet, Privileged
    <3>4. current \in since \/ PutRight(current)
      BY <2>6, <2>9 DEF PutRight
    <3>5. RestoreInv'
      BY <1>1, <2>7, <3>2, <3>4 DEF RestoreInv
    <3>6. QED
      BY <3>3, <3>5
  <2>10. QED
    BY <2>8, <2>9
<1>4. QED
  BY <1>2, <1>3

\* Threads that come and go keep the invariant of the raised ones.
LEMMA ThreadsStepKeeps ==
  ASSUME ProcessInv, ThreadsStep, Rest
  PROVE  ProcessInv'
BY ComeAndGoKeeps, ListingKeeps, VisitKeeps, RaiseThreadKeeps, VisitAgainKeeps, PutThreadBackKeeps
   DEF ThreadsStep

\* Before the threads have been raised there is nothing to keep of the lists.
LEMMA IdleKeeps ==
  ASSUME ProcessInv, TypeInv', PrivInv', task = "idle", Others
  PROVE  ProcessInv'
BY DEF ProcessInv, Others, ListInv, PassInv, NoneOverlooked, RestoreInv

\* While nobody lists the threads the stream may make its own real-time, to be
\* reset on a fork, or put it back when it ends.
LEMMA OwnThreadKeeps ==
  ASSUME ProcessInv, TypeInv', PrivInv', Others,
         \/ UNCHANGED <<sched, since, pc>>
         \/ /\ task \notin {"raising", "restoring"} /\ pc' # "new" /\ pc # "lowered"
            /\ \A u \in Threads : u # Stream => sched'[u] = sched[u]
            /\ (UNCHANGED <<sched, since>> \/ since' = since \cup {Stream})
            /\ \/ pc' = "lowered" \/ UNCHANGED sched
               \/ sched'[Stream].policy = "fifo" /\ sched'[Stream].reset
  PROVE  ProcessInv'
<1> USE ThreadsAssumption DEF ProcessInv, Others
<1>1. CASE UNCHANGED <<sched, since, pc>>
  <2>1. Alive' = Alive /\ \A u \in Threads : /\ Realtime(u)' = Realtime(u) /\ Ours(u)' = Ours(u)
                                             /\ AsFound(u)' = AsFound(u) /\ PutRight(u)' = PutRight(u)
    BY <1>1 DEF Alive, Realtime, Ours, AsFound, PutRight
  <2>2. ListInv'
    BY <1>1, <2>1 DEF ListInv
  <2>3. Escape' = Escape /\ Due' = Due /\ \A u \in Alive : u \in Threads
    BY <1>1, <2>1 DEF Escape, Due, Alive
  <2>4. NoneOverlooked'
    BY <1>1, <2>1, <2>3 DEF PassInv, NoneOverlooked
  <2>5. PassInv'
    BY <1>1, <2>1, <2>3, <2>4 DEF PassInv
  <2>6. RestoreInv'
    BY <1>1, <2>1 DEF RestoreInv, Alive
  <2>7. QED
    BY <2>2, <2>5, <2>6
<1>2. CASE /\ task \notin {"raising", "restoring"} /\ pc' # "new" /\ pc # "lowered"
           /\ \A u \in Threads : u # Stream => sched'[u] = sched[u]
           /\ (UNCHANGED <<sched, since>> \/ since' = since \cup {Stream})
           /\ \/ pc' = "lowered" \/ UNCHANGED sched
              \/ sched'[Stream].policy = "fifo" /\ sched'[Stream].reset
  <2>1. /\ sched[Stream].policy \in {"other", "fifo"} /\ sched'[Stream].policy \in {"other", "fifo"}
        /\ Alive' = Alive /\ Stream \in Threads
    BY <1>2 DEF TypeInv, Alive
  <2>2. ListInv'
    BY <1>2, <2>1 DEF ListInv
  <2>3. PassInv'
    <3> SUFFICES ASSUME task = "raised", ~err, pass < MaxPasses, pc' # "lowered", NEW t \in Alive
                 PROVE  \/ Realtime(t)'
                        \/ t \in since' /\ \E u \in Threads : sched'[u] = Exited \/ sched'[u].reset
      BY <1>2, <2>1 DEF PassInv, NoneOverlooked
    <3>1. \/ Realtime(t)
          \/ t \in since /\ \E u \in Threads : sched[u] = Exited \/ sched[u].reset
      BY <1>2 DEF PassInv, NoneOverlooked
    <3>2. t \in Threads /\ since \subseteq since'
      BY <1>2 DEF Alive
    <3>3. CASE UNCHANGED sched
      BY <3>1, <3>2, <3>3 DEF Realtime
    <3>4. CASE sched'[Stream].policy = "fifo" /\ sched'[Stream].reset
      BY <1>2, <3>1, <3>2, <3>4, <2>1 DEF Realtime
    <3>5. QED
      BY <1>2, <3>3, <3>4
  <2>4. RestoreInv'
    <3>1. \A u \in Alive : u # Stream => AsFound(u)' = AsFound(u) /\ PutRight(u)' = PutRight(u)
      BY <1>2 DEF AsFound, PutRight, Alive
    <3>2. task = "restored" => \A u \in Alive' \ since' : PutRight(u)'
      <4> SUFFICES ASSUME task = "restored", NEW u \in Alive, u \notin since' PROVE PutRight(u)'
        BY <2>1
      <4>1. u \notin since /\ PutRight(u)
        BY <1>2 DEF RestoreInv
      <4>2. CASE u = Stream
        BY <1>2, <4>1, <4>2 DEF PutRight
      <4>3. QED
        BY <3>1, <4>1, <4>2
    <3>3. \A u \in Alive : u # Stream => (task = "raised" => AsFound(u))
      BY DEF RestoreInv
    <3>4. QED
      BY <1>2, <2>1, <3>1, <3>2, <3>3 DEF RestoreInv
  <2>5. QED
    BY <2>2, <2>3, <2>4
<1>3. QED
  BY <1>1, <1>2

\* Without a privilege the threads are never raised; the stream's own is as its
\* own steps and the services leave it.
LEMMA WithoutPrivilege ==
  ASSUME OwnInv', ProcessInv, Others, UNCHANGED found, ~Privileged
  PROVE  ProcessInv'
<1>1. task = "idle" /\ task' = "idle" /\ ~Privileged'
  BY DEF ProcessInv, PrivInv, Others, Privileged
<1>2. AttrInv' /\ BackInv'
  BY <1>1 DEF OwnInv
<1>3. TypeInv'
  BY <1>2 DEF AttrInv, TypeInv, ProcessInv
<1>4. PrivInv'
  <2>1. pc' = "direct" => previous' # Unborn
    BY <1>2 DEF BackInv
  <2>2. pc' = "new" => ~restorable'
    BY <1>2 DEF BackInv
  <2>3. QED
    BY <1>1, <1>2, <2>1, <2>2 DEF BackInv, PrivInv
<1>5. QED
  BY <1>1, <1>3, <1>4, IdleKeeps

\* With one, the kernel grants what a stream asks for, and nobody else is asked.
LEMMA DirectGrants ==
  ASSUME ProcessInv, IInv, Direct, Privileged
  PROVE  \/ UNCHANGED <<sched, since, restorable>> /\ pc' = "running"
         \/ \E prio \in Nat : /\ Granted(prio)
                              /\ previous.policy = "fifo" => previous.prio <= prio
<1>1. pc = "direct" /\ previous \in Attrs /\ previous.prio <= StreamLevel /\ rtprio \in Nat
  BY DEF Direct, ProcessInv, PrivInv, TypeInv
<1>2. Allowed \in Nat /\ Allowed <= rtprio
  BY <1>1, MinOfTwo DEF Allowed, StreamLevel
<1>3. capable => Permitted(sched[Stream], Wanted(StreamLevel))
  BY DEF Permitted
<1>4. rtprio > 0 => Permitted(sched[Stream], Wanted(Allowed))
  <2>1. /\ Wanted(Allowed).policy = "fifo" /\ Wanted(Allowed).prio = Allowed
        /\ Wanted(Allowed).reset
    BY DEF Wanted, Attr
  <2>2. QED
    BY <1>1, <1>2, <2>1 DEF Permitted
<1>5. CASE Granted(StreamLevel)
  BY <1>1, <1>5 DEF StreamLevel
<1>6. CASE Return(Fallback) /\ Unchanged
  BY <1>6 DEF Return, Unchanged
<1>7. CASE Granted(Allowed) /\ ~(WasRT /\ Allowed < previous.prio)
  BY <1>1, <1>2, <1>7 DEF WasRT, Attrs
<1>8. rtprio = 0 => capable
  BY <1>1 DEF Privileged
<1>9. QED
  BY <1>1, <1>3, <1>4, <1>5, <1>6, <1>7, <1>8 DEF Direct

\* So does a request answered without the daemon.
LEMMA DirectProcess ==
  ASSUME ProcessInv, IInv, Direct, Privileged
  PROVE  ProcessInv'
<1>1. /\ Others /\ UNCHANGED <<previous, pending>> /\ pc = "direct" /\ ~restorable
      /\ task \notin {"raising", "restoring"} /\ previous.policy \in {"other", "fifo"}
      /\ Privileged' /\ pending = {} /\ previous \in Attrs
  BY DEF Direct, Others, Privileged, Quiet, ProcessInv, PrivInv, TypeInv
<1>2. CASE UNCHANGED <<sched, since, restorable>> /\ pc' = "running"
  <2>1. TypeInv' /\ PrivInv'
    BY <1>1, <1>2 DEF TypeInv, PrivInv, Others, ProcessInv
  <2>2. QED
    BY <1>1, <1>2, <2>1, OwnThreadKeeps
<1>3. ASSUME NEW prio \in Nat, Granted(prio), previous.policy = "fifo" => previous.prio <= prio
      PROVE  ProcessInv'
  <2> DEFINE new == Becomes(sched[Stream], Wanted(prio))
  <2>1. /\ pc' = "running" /\ restorable' /\ since' = since \cup {Stream}
        /\ sched' = [sched EXCEPT ![Stream] = new]
    BY <1>3 DEF Granted, Return, SetAttr
  <2>2. sched \in [Threads -> Attrs] /\ Stream \in Threads
    BY ThreadsAssumption DEF ProcessInv, TypeInv
  <2>3. new \in Attrs /\ new.policy = "fifo" /\ new.prio = prio /\ new.reset
    BY <2>2 DEF Becomes, Wanted, Attr, Attrs
  <2> HIDE DEF new
  <2>4. /\ sched' \in [Threads -> Attrs] /\ sched'[Stream] = new
        /\ \A u \in Threads : u # Stream => sched'[u] = sched[u]
    BY <2>1, <2>2, <2>3
  <2>5. TypeInv' /\ PrivInv'
    BY <1>1, <1>3, <2>1, <2>3, <2>4 DEF TypeInv, PrivInv, Others, ProcessInv
  <2>6. QED
    BY <1>1, <2>1, <2>3, <2>4, <2>5, OwnThreadKeeps
<1>4. QED
  BY <1>2, <1>3, DirectGrants

\* What is put back keeps its policy.
LEMMA LowerProcess ==
  ASSUME ProcessInv, Lower, Privileged
  PROVE  ProcessInv'
<1>1. /\ Others /\ UNCHANGED <<pending, restorable>> /\ pc = "running" /\ pc' = "lowered"
      /\ task \notin {"raising", "restoring"} /\ Privileged' /\ pending = {}
  BY DEF Lower, Others, Privileged, bus, ProcessInv, PrivInv
<1>2. CASE UNCHANGED <<sched, since, previous>>
  <2>1. TypeInv' /\ PrivInv'
    BY <1>1, <1>2 DEF TypeInv, PrivInv, Others, ProcessInv, Quiet
  <2>2. QED
    BY <1>1, <1>2, <2>1, OwnThreadKeeps
<1>3. CASE restorable /\ SetAttr(Stream, Back) /\ previous' = Back /\ since' = since \cup {Stream}
  <2>1. previous \in Attrs /\ previous.policy \in {"other", "fifo"}
    BY <1>3 DEF ProcessInv, TypeInv, PrivInv
  <2>2. Back \in Attrs /\ Back.policy = previous.policy
    BY <2>1 DEF Back, Attrs
  <2>3. sched \in [Threads -> Attrs] /\ Stream \in Threads
    BY ThreadsAssumption DEF ProcessInv, TypeInv
  <2> DEFINE new == Becomes(sched[Stream], Back)
  <2>4. new \in Attrs /\ new.policy = previous.policy /\ sched' = [sched EXCEPT ![Stream] = new]
    BY <1>3, <2>2, <2>3 DEF Becomes, Attrs, SetAttr
  <2> HIDE DEF new
  <2>5. /\ sched' \in [Threads -> Attrs] /\ sched'[Stream] = new
        /\ \A u \in Threads : u # Stream => sched'[u] = sched[u]
    BY <2>3, <2>4
  <2>6. TypeInv' /\ PrivInv'
    BY <1>1, <1>3, <2>1, <2>2, <2>4, <2>5 DEF TypeInv, PrivInv, Others, ProcessInv, Quiet
  <2>7. QED
    BY <1>1, <1>3, <2>5, <2>6, OwnThreadKeeps
<1>4. CASE UNCHANGED <<sched, previous>> /\ since' = since \cup {Stream}
  <2>1. TypeInv' /\ PrivInv'
    BY <1>1, <1>4 DEF TypeInv, PrivInv, Others, ProcessInv, Quiet
  <2>2. QED
    BY <1>1, <1>4, <2>1, OwnThreadKeeps
<1>5. QED
  BY <1>2, <1>3, <1>4 DEF Lower, RollBack, Untouched

\* So does a look of the scan.
LEMMA LookProcess ==
  ASSUME ProcessInv, Look, Privileged
  PROVE  ProcessInv'
<1>1. /\ Others /\ UNCHANGED <<pending, restorable, sched, since>> /\ pc = "new" /\ ~restorable
      /\ task \notin {"raising", "restoring"} /\ Privileged' /\ pending = {}
      /\ sched \in [Threads -> Attrs] /\ sched[Stream].policy \in {"other", "fifo"} /\ previous \in Attrs
  BY DEF Look, Others, Privileged, bus, ProcessInv, PrivInv, TypeInv
<1>2. \/ previous' = sched[Stream] /\ pc' = "cap"
      \/ previous' = previous /\ pc' = "running"
  BY DEF Look, Return
<1>3. TypeInv' /\ PrivInv'
  BY <1>1, <1>2, ThreadsAssumption DEF TypeInv, PrivInv, Others, ProcessInv
<1>4. QED
  BY <1>1, <1>2, <1>3, OwnThreadKeeps

\* So does the limit set on the process.
LEMMA CapProcess ==
  ASSUME ProcessInv, CapTime, Privileged
  PROVE  ProcessInv'
<1>1. pc \in {"cap", "capSet"} /\ ~restorable /\ pending = {} /\ task \notin {"raising", "restoring"}
      /\ previous \in Attrs /\ previous.policy \in {"other", "fifo"} /\ previous.prio \in Nat
  BY DEF CapTime, ProcessInv, PrivInv, TypeInv, Quiet, Attrs
<1>2. /\ Others /\ UNCHANGED <<sched, since, previous, restorable, pending>> /\ Privileged'
      /\ pc' \in {"capSet", "direct", "running"}
      /\ pc' = "direct" => ~(previous.prio > StreamLevel)
  BY <1>1 DEF CapTime, own, bus, Others, Privileged, Return
<1>3. TypeInv' /\ PrivInv'
  BY <1>1, <1>2 DEF TypeInv, PrivInv, Others, ProcessInv, StreamLevel
<1>4. QED
  BY <1>1, <1>2, <1>3, OwnThreadKeeps

\* The stream's side of it, and the services'.
LEMMA StreamSideKeeps ==
  ASSUME IInv, OwnInv', ProcessInv, StreamStep \/ Lower \/ Environment
  PROVE  ProcessInv'
<1>1. Others /\ UNCHANGED found
  BY DEF StreamStep, Look, CapTime, Direct, Connect, Send, ReadMessage, Timeout, Verify,
         Lower, Environment, OtherStream, Message, Expire, ServiceActs, Others, threads
<1>2. CASE ~Privileged
  BY <1>1, <1>2, WithoutPrivilege
<1>3. CASE Privileged
  <2>1. /\ pc \in {"new", "cap", "capSet", "direct", "running", "lowered"} /\ pending = {}
        /\ ~asking
    BY <1>3 DEF ProcessInv, PrivInv, IInv, MessageInv
  <2>2. ~Connect /\ ~Send /\ ~ReadMessage /\ ~Timeout /\ ~Verify /\ ~Message /\ ~ServiceActs
    BY <2>1 DEF Connect, Send, ReadMessage, Timeout, Verify, Message, ServiceActs
  <2>3. CASE OtherStream \/ Expire
    <3>1. UNCHANGED <<sched, since, pc, previous, restorable, pending>>
      BY <2>3 DEF OtherStream, Expire, threads, bus, own
    <3>2. TypeInv' /\ PrivInv'
      BY <1>1, <3>1 DEF TypeInv, PrivInv, Others, ProcessInv, Quiet, Privileged
    <3>3. QED
      BY <1>1, <3>1, <3>2, OwnThreadKeeps
  <2>4. QED
    BY <1>3, <2>2, <2>3, LookProcess, CapProcess, DirectProcess, LowerProcess DEF StreamStep, Environment
<1>4. QED
  BY <1>2, <1>3

\* Every step keeps it.
LEMMA ProcessKeeps ==
  ASSUME IInv, OwnInv', ProcessInv, [Next]_vars
  PROVE  ProcessInv'
<1>1. CASE UNCHANGED vars
  <2>1. Others /\ UNCHANGED <<sched, since, pc, previous, restorable, pending>>
    BY <1>1 DEF vars, threads, bus, own, Others
  <2>2. TypeInv' /\ PrivInv'
    BY <2>1 DEF TypeInv, PrivInv, Others, ProcessInv, Quiet, Privileged
  <2>3. QED
    BY <2>1, <2>2, OwnThreadKeeps
<1>2. CASE ThreadsStep /\ UNCHANGED <<bus, own, rttime>>
  BY <1>2, ThreadsStepKeeps DEF Rest
<1>3. QED
  BY <1>1, <1>2, StreamSideKeeps DEF Next

\* The inductive invariant of the threads a scan has raised, and of what it will restore.
THEOREM ProcessInvariance == Spec => []ProcessInv
<1>1. IInv /\ OwnInv' /\ ProcessInv /\ [Next]_vars => ProcessInv'
  BY ProcessKeeps
<1>2. IInv /\ OwnInv /\ [Next]_vars => OwnInv'
  BY OwnKeeps
<1>3. QED
  BY InitOwn, InitProcess, CapInvariance, <1>1, <1>2, PTL DEF Spec

(* RaiseProcessThreads overlooks no thread, whatever threads come and go   *)
(* during its passes: one born normal has a parent that is still listed,   *)
(* which takes another pass, or one that has exited or resets its          *)
(* children.                                                               *)
THEOREM AllRaised == Spec => []NoneOverlooked
<1>1. ProcessInv => NoneOverlooked
  BY DEF ProcessInv, PassInv
<1>2. QED
  BY <1>1, ProcessInvariance, PTL

-----------------------------------------------------------------------------
(* A stream on a thread that RaiseProcessThreads has raised.  What it      *)
(* found is what the raise made of the thread, or what the restore put     *)
(* back; it can only add RESET_ON_FORK to that, and keeps it without a     *)
(* privilege.                                                              *)

\* What the raise makes of the stream's thread, and what is put back.
Made == [found[Stream] EXCEPT !.policy = "fifo", !.prio = ProcessLevel, !.reset = FALSE]
RaisedForms == {Made, found[Stream]}

\* What the stream puts back, while it runs or is about to.
HeldInv ==
    Stream \in raised =>
        /\ sched[Stream] \in RaisedForms \/ ByItsStream
        /\ pc \in {"cap", "capSet", "direct"} \/ (restorable /\ pc = "running") =>
              previous \in RaisedForms /\ sched[Stream].favour = found[Stream].favour

\* What has been read of it, and what the restore has passed over.
PassedInv ==
    /\ task = "raising" /\ current = Stream => sched[Stream] = found[Stream]
    /\ Stream \in raised \ since /\ (task = "restored" \/ (task = "restoring" /\ Stream \notin todo \cup {current}))
          => ~AtProcessLevel(Stream)

HeldKept == HeldInv /\ PassedInv

\* The two forms differ in their policy.
LEMMA Forms ==
  ASSUME ProcessInv, Stream \in raised
  PROVE  /\ found[Stream] \in Attrs /\ Made \in Attrs /\ found[Stream].policy = "other"
         /\ Made.policy = "fifo" /\ Made.prio = ProcessLevel /\ ~Made.reset
         /\ Made.favour = found[Stream].favour
<1>1. found[Stream] \in Attrs /\ found[Stream].policy = "other"
  BY ThreadsAssumption DEF ProcessInv, TypeInv, ListInv
<1>2. QED
  BY <1>1 DEF Made, Attrs, ProcessLevel

\* Threads that come and go leave the stream's alone; a list holds it.
LEMMA HeldByOthers ==
  ASSUME ProcessInv, HeldKept, ComeAndGo \/ Raise \/ EndPass \/ Restore \/ EndRestore, Rest
  PROVE  HeldKept'
<1> USE ThreadsAssumption DEF Rest, own, bus, Attributes
<1>1. /\ UNCHANGED <<capable, pc, raised, found, current, previous, restorable>>
      /\ sched'[Stream] = sched[Stream]
  <2>1. CASE ComeAndGo
    <3>1. sched[Stream] # Unborn /\ sched \in [Threads -> Attrs]
      BY DEF ProcessInv, TypeInv, Unborn, Attr
    <3>2. QED
      BY <2>1, <3>1 DEF ComeAndGo
  <2>2. QED
    BY <2>1 DEF Raise, EndPass, Restore, EndRestore
<1>2. HeldInv'
  BY <1>1 DEF HeldKept, HeldInv, RaisedForms, Made, ByItsStream
<1>3. task' = "raising" /\ current' = Stream => task = "raising"
  BY <1>1 DEF ComeAndGo, Raise, EndPass, Restore, EndRestore, ProcessInv, ListInv
<1>4. Stream \in Alive
  BY DEF ProcessInv, TypeInv, Alive
<1>5. CASE ComeAndGo
  BY <1>1, <1>2, <1>5 DEF ComeAndGo, HeldKept, PassedInv
<1>6. CASE Restore
  BY <1>1, <1>2, <1>4, <1>6 DEF Restore, List, HeldKept, PassedInv
<1>7. CASE Raise \/ EndPass \/ EndRestore
  BY <1>1, <1>2, <1>3, <1>7 DEF Raise, EndPass, EndRestore, HeldKept, PassedInv
<1>8. QED
  BY <1>5, <1>6, <1>7

\* A thread is looked at: a raised one has been found already.
LEMMA HeldByVisits ==
  ASSUME ProcessInv, HeldKept, NEW t \in Threads, Visit(t) \/ VisitAgain(t), Rest
  PROVE  HeldKept'
<1> USE ThreadsAssumption DEF Rest, own, bus, Attributes
<1>1. /\ UNCHANGED <<sched, capable, pc, raised, since, task, previous, restorable>>
      /\ Stream \in raised => found'[Stream] = found[Stream]
  BY DEF Visit, VisitAgain, ProcessInv, TypeInv
<1>2. HeldInv'
  <2>1. Stream \in raised => Made' = Made /\ RaisedForms' = RaisedForms
    BY <1>1 DEF Made, RaisedForms
  <2>2. ByItsStream' = ByItsStream
    BY <1>1 DEF ByItsStream
  <2>3. QED
    BY <1>1, <2>1, <2>2 DEF HeldKept, HeldInv
<1>3. PassedInv'
  <2>1. CASE Visit(t)
    <3>1. task = "raising" /\ (current' = Stream => t = Stream /\ Stream \notin raised)
      BY <2>1 DEF Visit
    <3>2. current' = Stream => found'[Stream] = sched[Stream]
      BY <2>1, <3>1 DEF Visit, ProcessInv, TypeInv
    <3>3. QED
      BY <1>1, <3>1, <3>2 DEF PassedInv
  <2>2. CASE VisitAgain(t)
    <3>1. task = "restoring" /\ todo' = todo \ {t} /\ current = "none"
          /\ current' = IF Ours(t) THEN t ELSE current
      BY <2>2 DEF VisitAgain
    <3>2. Stream \in raised /\ t = Stream /\ current' # Stream => ~AtProcessLevel(Stream)
      BY <3>1 DEF Ours
    <3>3. QED
      BY <1>1, <3>1, <3>2 DEF HeldKept, PassedInv
  <2>3. QED
    BY <2>1, <2>2
<1>4. QED
  BY <1>2, <1>3 DEF HeldKept

\* It is raised, from what it was found to be.
LEMMA HeldByRaise ==
  ASSUME ProcessInv, HeldKept, RaiseThread, Rest
  PROVE  HeldKept'
<1> USE ThreadsAssumption DEF Rest, own, bus
<1>1. /\ UNCHANGED <<capable, pc, found, since, task, todo, previous, restorable>>
      /\ task = "raising" /\ current' = "none" /\ current \in Threads
  BY DEF RaiseThread, ProcessInv, ListInv
<1>2. CASE Stream \notin raised'
  BY <1>1, <1>2 DEF HeldKept, HeldInv, PassedInv
<1>3. CASE Stream \in raised /\ current # Stream
  <2>1. sched'[Stream] = sched[Stream] /\ (Stream \in raised' => Stream \in raised)
    BY <1>1, <1>3 DEF RaiseThread, SetAttr, ProcessInv, TypeInv
  <2>2. QED
    BY <1>1, <2>1 DEF HeldKept, HeldInv, PassedInv, RaisedForms, Made, ByItsStream
<1>4. CASE current = Stream /\ Stream \in raised'
  <2>1. Stream \notin raised /\ Stream \in Alive /\ found[Stream].policy = "other"
    BY <1>1, <1>4 DEF ProcessInv, ListInv, TypeInv, Alive
  <2>2. sched' = [sched EXCEPT ![Stream] = Becomes(@, Attr("fifo", ProcessLevel, 0, FALSE))]
    BY <1>4, <2>1 DEF RaiseThread, SetAttr
  <2>3. sched[Stream] = found[Stream] /\ found[Stream] \in Attrs /\ sched \in [Threads -> Attrs]
    BY <1>1, <1>4 DEF HeldKept, PassedInv, ProcessInv, TypeInv
  <2>4. sched'[Stream] = [Attr("fifo", ProcessLevel, 0, FALSE) EXCEPT !.favour = found[Stream].favour]
    BY <2>2, <2>3 DEF Becomes, Attr
  <2>5. sched'[Stream] = Made'
    BY <1>1, <2>3, <2>4, RaisedForm DEF Made
  <2>6. ~(pc \in {"cap", "capSet", "direct"} \/ (restorable /\ pc = "running"))
    <3>1. Privileged /\ Quiet
      BY <1>1 DEF ProcessInv, PrivInv
    <3>2. sched[Stream].policy # "fifo"
      BY <2>1, <2>3
    <3>3. QED
      BY <3>1, <3>2 DEF ProcessInv, PrivInv, Quiet
  <2>7. QED
    BY <1>1, <2>5, <2>6 DEF HeldKept, HeldInv, PassedInv, RaisedForms
<1>5. QED
  BY <1>1, <1>2, <1>3, <1>4 DEF RaiseThread

\* It is put back, which needs no privilege.
LEMMA HeldByPutBack ==
  ASSUME ProcessInv, HeldKept, PutThreadBack, Rest
  PROVE  HeldKept'
<1> USE ThreadsAssumption DEF Rest, own, bus
<1>1. /\ UNCHANGED <<capable, pc, found, raised, since, task, todo, previous, restorable>>
      /\ task = "restoring" /\ current' = "none" /\ current \in Threads \ todo
  BY DEF PutThreadBack, ProcessInv, ListInv
<1>2. CASE current # Stream
  <2>1. sched'[Stream] = sched[Stream]
    BY <1>1, <1>2 DEF PutThreadBack, SetAttr, ProcessInv, TypeInv
  <2>2. QED
    BY <1>1, <1>2, <2>1 DEF HeldKept, HeldInv, PassedInv, RaisedForms, Made, ByItsStream
<1>3. CASE Stream \notin raised
  BY <1>1, <1>3 DEF HeldKept, HeldInv, PassedInv
<1>4. CASE current = Stream /\ Stream \in raised
  <2>1. Stream \in Alive /\ AtProcessLevel(Stream) /\ sched \in [Threads -> Attrs]
    BY <1>1, <1>4 DEF ProcessInv, ListInv, TypeInv, Alive, Ours
  <2>2. sched[Stream] \in RaisedForms
    BY <1>4, <2>1 DEF HeldKept, HeldInv, ByItsStream
  <2>3. sched[Stream] = Made
    BY <1>4, <2>1, <2>2, Forms DEF RaisedForms
  <2>4. Permitted(sched[Stream], found[Stream])
    BY <1>4, <2>1, <2>3, Forms DEF Permitted, Attrs
  <2>5. sched' = [sched EXCEPT ![Stream] = Becomes(@, found[Stream])]
    BY <1>4, <2>1, <2>4 DEF PutThreadBack, SetAttr
  <2>6. sched'[Stream] = found[Stream]
    BY <1>4, <2>1, <2>5, Forms DEF Becomes
  <2>7. ~(pc \in {"cap", "capSet", "direct"} \/ (restorable /\ pc = "running"))
    <3>1. Privileged /\ Quiet
      BY <1>1 DEF ProcessInv, PrivInv
    <3>2. ~sched[Stream].reset
      BY <2>1
    <3>3. QED
      BY <3>1, <3>2 DEF ProcessInv, PrivInv, Quiet
  <2>8. ~AtProcessLevel(Stream)'
    BY <1>4, <2>6, Forms
  <2>9. QED
    BY <1>1, <2>6, <2>7, <2>8 DEF HeldKept, HeldInv, PassedInv, RaisedForms
<1>5. QED
  BY <1>2, <1>3, <1>4

\* What the stream's own steps do to it.
LEMMA HeldByStream ==
  ASSUME IInv, ProcessInv, HeldKept, StreamStep \/ Lower \/ Environment
  PROVE  HeldKept'
<1> USE ThreadsAssumption
<1>1. Others
  BY DEF StreamStep, Look, CapTime, Direct, Connect, Send, ReadMessage, Timeout, Verify,
         Lower, Environment, OtherStream, Message, Expire, ServiceActs, Others, threads
<1>2. CASE Stream \notin raised
  <2>1. task = "raising" /\ current = Stream => UNCHANGED sched
    <3>1. task = "raising" => Privileged /\ Quiet /\ pending = {} /\ ~asking
      BY DEF ProcessInv, PrivInv, IInv, MessageInv, Quiet
    <3>2. QED
      BY <3>1 DEF StreamStep, Look, CapTime, Direct, Connect, Send, ReadMessage, Timeout, Verify,
         Lower, Environment, OtherStream, Message, Expire, ServiceActs, threads, Quiet
  <2>2. QED
    BY <1>1, <1>2, <2>1 DEF Others, HeldKept, HeldInv, PassedInv
<1>3. CASE Stream \in raised
  <2>1. /\ Privileged /\ pending = {} /\ ~asking /\ Privileged'
        /\ pc \in {"new", "cap", "capSet", "direct", "running", "lowered"}
    BY <1>1, <1>3 DEF ProcessInv, PrivInv, ListInv, IInv, MessageInv, Others, Privileged
  <2>2. ~Connect /\ ~Send /\ ~ReadMessage /\ ~Timeout /\ ~Verify /\ ~Message /\ ~ServiceActs
    BY <2>1 DEF Connect, Send, ReadMessage, Timeout, Verify, Message, ServiceActs
  <2>3. UNCHANGED <<Made, found, raised, task, todo, current, capable>>
    BY <1>1 DEF Others, Made
  <2>4. CASE OtherStream \/ Expire
    BY <2>3, <2>4 DEF OtherStream, Expire, threads, bus, own, HeldKept, HeldInv, PassedInv, RaisedForms, ByItsStream
  <2>5. CASE Look
    <3>1. /\ pc = "new" /\ UNCHANGED <<sched, since, restorable>> /\ ~restorable
          /\ (pc' = "cap" /\ previous' = sched[Stream]) \/ pc' = "running"
      BY <2>5 DEF Look, Return, ProcessInv, PrivInv
    <3>2. sched[Stream] \in RaisedForms /\ sched[Stream].favour = found[Stream].favour
      BY <1>3, <3>1, Forms DEF HeldKept, HeldInv, ByItsStream, RaisedForms
    <3>3. QED
      BY <2>3, <3>1, <3>2 DEF HeldKept, HeldInv, PassedInv, RaisedForms
  <2>6. CASE CapTime
    <3>1. /\ pc \in {"cap", "capSet"} /\ pc' \in {"capSet", "direct", "running"}
          /\ UNCHANGED <<sched, since, previous, restorable>> /\ ~restorable
      BY <2>1, <2>6 DEF CapTime, own, Return, ProcessInv, PrivInv
    <3>2. QED
      BY <2>3, <3>1 DEF HeldKept, HeldInv, PassedInv, RaisedForms, ByItsStream
  <2>7. CASE Direct
    <3>1. pc = "direct" /\ previous' = previous /\ ~restorable
      BY <2>1, <2>7 DEF Direct, ProcessInv, PrivInv
    <3>2. CASE UNCHANGED <<sched, since, restorable>> /\ pc' = "running"
      BY <2>3, <3>1, <3>2 DEF HeldKept, HeldInv, PassedInv, RaisedForms, ByItsStream
    <3>3. ASSUME NEW prio \in Nat, Granted(prio) PROVE HeldKept'
      <4>1. /\ pc' = "running" /\ restorable' /\ Stream \in since'
            /\ sched' = [sched EXCEPT ![Stream] = Becomes(@, Wanted(prio))]
        BY <3>3 DEF Granted, Return, SetAttr
      <4>2. sched'[Stream].reset /\ sched'[Stream].favour = sched[Stream].favour
        BY <4>1 DEF Becomes, Wanted, Attr, ProcessInv, TypeInv
      <4>3. task # "raising"
        BY <3>1 DEF ProcessInv, PrivInv, Quiet
      <4>4. QED
        BY <1>3, <2>3, <3>1, <4>1, <4>2, <4>3 DEF HeldKept, HeldInv, PassedInv, RaisedForms, ByItsStream
    <3>4. QED
      BY <2>1, <2>7, <3>2, <3>3, DirectGrants
  <2>8. CASE Lower
    <3>1. pc = "running" /\ pc' = "lowered" /\ task # "raising" /\ UNCHANGED restorable
      BY <2>8 DEF Lower
    <3>2. CASE ~restorable
      BY <2>3, <2>8, <3>1, <3>2 DEF Lower, Untouched, HeldKept, HeldInv, PassedInv, RaisedForms, ByItsStream
    <3>3. CASE restorable
      <4>1. /\ sched[Stream].reset /\ sched[Stream].policy = "fifo" /\ sched \in [Threads -> Attrs]
            /\ previous \in RaisedForms /\ sched[Stream].favour = found[Stream].favour
            /\ Stream \in since'
        BY <1>3, <2>1, <2>8, <3>1, <3>3
           DEF ProcessInv, PrivInv, TypeInv, HeldKept, HeldInv, Lower, RollBack
      <4>2. sched'[Stream] \in RaisedForms \/ (sched'[Stream].reset /\ ~capable)
        <5>1. CASE Permitted(sched[Stream], previous)
          <6>1. sched' = [sched EXCEPT ![Stream] = Becomes(@, previous)]
            BY <2>8, <3>3, <5>1 DEF Lower, RollBack, Back, SetAttr
          <6>2. sched'[Stream] = Becomes(sched[Stream], previous)
            BY <4>1, <6>1
          <6>3. Becomes(sched[Stream], found[Stream]) = found[Stream]
            BY <1>3, Forms DEF Becomes
          <6>4. Becomes(sched[Stream], Made) = Made
            <7>1. Becomes(sched[Stream], Made) = [Made EXCEPT !.favour = Made.favour]
              BY <1>3, <4>1, Forms DEF Becomes
            <7>2. QED
              BY <1>3, <7>1, Forms DEF Attrs
          <6>5. QED
            BY <4>1, <6>2, <6>3, <6>4 DEF RaisedForms
        <5>2. CASE ~Permitted(sched[Stream], previous)
          <6>1. ~capable
            BY <5>2 DEF Permitted
          <6>2. Back = [previous EXCEPT !.reset = TRUE] /\ previous \in Attrs
            BY <1>3, <4>1, <5>2, Forms DEF Back, RaisedForms
          <6>3. UNCHANGED sched \/ sched' = [sched EXCEPT ![Stream] = Becomes(@, Back)]
            BY <2>8, <3>3 DEF Lower, RollBack, SetAttr
          <6>4. Becomes(sched[Stream], Back).reset
            BY <6>2 DEF Becomes, Attrs
          <6>5. QED
            BY <4>1, <6>1, <6>3, <6>4
        <5>3. QED
          BY <5>1, <5>2
      <4>3. QED
        BY <2>3, <3>1, <3>3, <4>1, <4>2 DEF HeldKept, HeldInv, PassedInv, RaisedForms, ByItsStream
    <3>4. QED
      BY <3>2, <3>3
  <2>9. QED
    BY <2>2, <2>4, <2>5, <2>6, <2>7, <2>8 DEF StreamStep, Environment
<1>4. QED
  BY <1>2, <1>3

\* The inductive invariant of the stream's thread among the raised ones.
THEOREM HeldInvariance == Spec => []HeldKept
<1>1. Init => HeldKept
  BY ThreadsAssumption DEF Init, ThreadsInit, HeldKept, HeldInv, PassedInv
<1>2. ASSUME IInv, ProcessInv, HeldKept, [Next]_vars
      PROVE  HeldKept'
  <2>1. CASE UNCHANGED vars
    BY <1>2, <2>1 DEF vars, threads, own, HeldKept, HeldInv, PassedInv, RaisedForms, Made, ByItsStream
  <2>2. CASE ThreadsStep /\ UNCHANGED <<bus, own, rttime>>
    BY <1>2, <2>2, HeldByOthers, HeldByVisits, HeldByRaise, HeldByPutBack DEF ThreadsStep, Rest
  <2>3. QED
    BY <1>2, <2>1, <2>2, HeldByStream DEF Next
<1>3. QED
  BY <1>1, <1>2, CapInvariance, ProcessInvariance, PTL DEF Spec

(* Its restore undoes what it did, and nothing else; what a stream has     *)
(* made of its own thread it undoes unless the stream runs, or ended       *)
(* without the privilege to clear RESET_ON_FORK.                           *)
THEOREM AllRestored == Spec => []ThreadsRestored
<1>1. ProcessInv /\ HeldKept => ThreadsRestored
  <2> SUFFICES ASSUME ProcessInv, HeldKept, task = "restored", NEW t \in Alive \ since
               PROVE  /\ t \in raised => sched[t] = found[t] \/ (t = Stream /\ ByItsStream)
                      /\ t \in seen \ raised /\ (t # Stream \/ pc = "new") => sched[t] = found[t]
                      /\ t \notin seen => ~AtProcessLevel(t)
    BY DEF ThreadsRestored
  <2>1. PutRight(t) /\ raised \subseteq seen
    BY DEF ProcessInv, RestoreInv, ListInv
  <2>2. CASE t = Stream /\ t \in raised
    <3>1. ~AtProcessLevel(Stream) /\ (sched[Stream] \in RaisedForms \/ ByItsStream)
      BY <2>2 DEF HeldKept, HeldInv, PassedInv
    <3>2. sched[Stream] # Made
      BY <2>2, <3>1, Forms
    <3>3. QED
      BY <2>1, <2>2, <3>1, <3>2 DEF RaisedForms
  <2>3. QED
    BY <2>1, <2>2 DEF PutRight, Pattern
<1>2. QED
  BY <1>1, HeldInvariance, ProcessInvariance, PTL

-----------------------------------------------------------------------------
(* What Raise returned.  With a privilege it is what the kernel granted;   *)
(* without one, what the kernel reported last or what the thread had.      *)

Claimed == /\ grant = "fifo" => Realtime(Stream)
           /\ grant = "nice" => Realtime(Stream) \/ sched[Stream].favour > 0

GrantInv == ~Privileged /\ pc = "running" /\ restorable /\ ~moved => Claimed

\* Falling back on what the thread had is true of a thread that is no weaker.
LEMMA FallbackTrue ==
  ASSUME AttrInv', Over(previous', sched'[Stream]), grant' = Fallback,
         previous'.policy = previous.policy, previous'.favour = previous.favour
  PROVE  Claimed'
<1>1. sched'[Stream] \in Attrs /\ previous' \in Attrs
  BY ThreadsAssumption DEF AttrInv
<1>2. CASE grant' = "fifo"
  <2>1. previous.policy = "fifo"
    BY <1>2 DEF Fallback
  <2>2. QED
    BY <1>2, <2>1 DEF Over, Claimed, Realtime
<1>3. CASE grant' = "nice"
  <2>1. previous.favour > 0
    BY <1>3 DEF Fallback
  <2>2. QED
    BY <1>1, <1>3, <2>1 DEF Over, Claimed, Attrs
<1>4. QED
  BY <1>2, <1>3 DEF Claimed

\* Whoever returns says what the kernel has just granted or reported, or falls back.
LEMMA ReturnTrue ==
  ASSUME OwnInv, OwnInv', IInv, ProcessInv, ~Privileged', restorable', pc' = "running",
         StreamStep
  PROVE  Claimed'
<1>1. Others /\ ~Privileged
  <2>1. Others
    BY DEF StreamStep, Look, CapTime, Direct, Connect, Send, ReadMessage, Timeout, Verify
  <2>2. QED
    BY <2>1 DEF Others, Privileged
<1>2. AttrInv /\ BackInv /\ AttrInv' /\ BackInv'
  BY <1>1 DEF Others, OwnInv, ProcessInv, PrivInv
<1>3. previous' # Unborn /\ Over(previous', sched'[Stream])
  BY <1>2 DEF BackInv
<1>4. ASSUME UNCHANGED previous, grant' = Fallback
      PROVE  Claimed'
  BY <1>2, <1>3, <1>4, FallbackTrue
<1>5. ~Look
  BY <1>2 DEF Look, BackInv, bus
<1>6. ~Send
  BY DEF Send
<1>7. CASE CapTime \/ Connect \/ ReadMessage \/ Timeout
  <2>1. UNCHANGED previous
    BY <1>7 DEF CapTime, Connect, ReadMessage, Timeout, own
  <2>2. NextPhase => grant' = Fallback
    BY DEF NextPhase, Return
  <2>3. CallFails => grant' = Fallback
    BY <2>2 DEF CallFails, Done
  <2>4. ASSUME NEW v, Replied(v) PROVE grant' = Fallback
    BY <2>2, <2>4 DEF Replied, Done
  <2>5. (asking => pc \in {"get", "time", "call"})
    BY DEF IInv, MessageInv
  <2>6. grant' = Fallback
    BY <1>7, <2>2, <2>3, <2>4, <2>5 DEF CapTime, Connect, ReadMessage, Timeout, Return
  <2>7. QED
    BY <1>4, <2>1, <2>6
<1>8. CASE Direct
  <2>1. UNCHANGED previous /\ (grant' = Fallback \/ \E prio \in {StreamLevel, Allowed} : Granted(prio))
    BY <1>8 DEF Direct, Refused, Return
  <2>2. ASSUME NEW prio, Granted(prio) PROVE Claimed'
    <3> DEFINE new == Becomes(sched[Stream], Wanted(prio))
    <3>1. grant' = "fifo" /\ sched' = [sched EXCEPT ![Stream] = new]
      BY <2>2 DEF Granted, Return, SetAttr
    <3>2. new.policy = "fifo"
      BY DEF Becomes, Wanted, Attr
    <3> HIDE DEF new
    <3>3. QED
      BY <1>2, <3>1, <3>2, ThreadsAssumption DEF AttrInv, Claimed, Realtime
  <2>3. QED
    BY <1>4, <2>1, <2>2
<1>9. CASE Verify
  <2>1. previous # Unborn
    BY <1>2, <1>9 DEF Verify, BackInv
  <2>2. CASE grant' = Fallback /\ RollBack
    BY <1>2, <1>3, <2>1, <2>2, RollBackKeeps, FallbackTrue
  <2>3. CASE grant' = "fifo" /\ Untouched /\ Observed.policy = "fifo"
    BY <2>3 DEF Untouched, Observed, Claimed, Realtime
  <2>4. CASE grant' = "nice" /\ Untouched /\ Observed.favour > previous.favour
    BY <1>2, <2>4, ThreadsAssumption DEF Untouched, Observed, Claimed, AttrInv, Attrs
  <2>5. CASE NextPhase /\ Untouched
    BY <1>4, <2>5 DEF Untouched, NextPhase, Return
  <2>6. QED
    BY <1>9, <2>2, <2>3, <2>4, <2>5 DEF Verify, Return
<1>10. QED
  BY <1>5, <1>6, <1>7, <1>8, <1>9 DEF StreamStep

\* Every step keeps what is known of a grant.
LEMMA GrantKeeps ==
  ASSUME OwnInv, OwnInv', IInv, ProcessInv, GrantInv, [Next]_vars
  PROVE  GrantInv'
<1> SUFFICES ASSUME ~Privileged', pc' = "running", restorable', ~moved'
             PROVE  Claimed'
  BY DEF GrantInv
<1>1. CASE UNCHANGED <<capable, rtprio, sched, grant, pc, restorable, moved>>
  BY <1>1 DEF GrantInv, Claimed, Privileged, Realtime
<1>2. CASE UNCHANGED vars \/ OtherStream \/ Message \/ Expire
  BY <1>1, <1>2 DEF vars, OtherStream, Message, Expire, threads, own, bus
<1>3. CASE ThreadsStep
  <2>1. Privileged \/ task # "idle"
    BY <1>3 DEF ThreadsStep, ComeAndGo, Raise, RaiseThread, EndPass, Restore, PutThreadBack,
         EndRestore, Visit, VisitAgain
  <2>2. UNCHANGED <<capable, rtprio>>
    BY <1>3 DEF ThreadsStep, ComeAndGo, Raise, RaiseThread, EndPass, Restore, PutThreadBack,
         EndRestore, Visit, VisitAgain, Attributes
  <2>3. ~Privileged
    BY <2>2 DEF Privileged
  <2>4. QED
    BY <2>1, <2>3 DEF ProcessInv, PrivInv
<1>4. CASE ServiceActs
  <2>1. UNCHANGED <<capable, rtprio, grant, pc, restorable>>
    BY <1>4 DEF ServiceActs, Others, own
  <2>2. UNCHANGED <<sched, moved>>
    BY <1>4, <2>1 DEF ServiceActs
  <2>3. QED
    BY <1>1, <2>1, <2>2
<1>5. ~Lower
  BY DEF Lower
<1>6. QED
  BY <1>2, <1>3, <1>4, <1>5, ReturnTrue DEF Next, Environment

(* What Raise says the thread has it has, until a service acts behind its  *)
(* back, and it is not weaker than it was, also when a service granted     *)
(* less than it answered, or was too late, or was undone.                  *)
THEOREM GrantHolds == Spec => []GrantTrue
<1>1. Init => GrantInv
  BY DEF Init, ThreadsInit, GrantInv
<1>2. OwnInv /\ OwnInv' /\ IInv /\ ProcessInv /\ GrantInv /\ [Next]_vars => GrantInv'
  BY GrantKeeps
<1>3. OwnInv /\ ProcessInv /\ GrantInv => GrantTrue
  <2> SUFFICES ASSUME OwnInv, ProcessInv, GrantInv, pc = "running", restorable, ~moved
               PROVE  Claimed /\ (previous.policy = "fifo" =>
                                    Realtime(Stream) /\ sched[Stream].prio >= previous.prio)
    BY DEF GrantTrue, Claimed
  <2>1. CASE Privileged
    BY <2>1 DEF ProcessInv, PrivInv, Claimed, Realtime
  <2>2. CASE ~Privileged
    <3>1. AttrInv /\ BackInv
      BY <2>2 DEF OwnInv, ProcessInv, PrivInv
    <3>2. Over(previous, sched[Stream]) /\ sched[Stream] \in Attrs /\ previous \in Attrs
      BY <3>1, ThreadsAssumption DEF AttrInv, BackInv
    <3>3. QED
      BY <2>2, <3>2 DEF GrantInv, Over, Realtime, Attrs
  <2>3. QED
    BY <2>1, <2>2
<1>4. IInv /\ OwnInv /\ [Next]_vars => OwnInv'
  BY OwnKeeps
<1>5. QED
  BY InitOwn, CapInvariance, ProcessInvariance, <1>1, <1>2, <1>3, <1>4, PTL DEF Spec
=============================================================================
