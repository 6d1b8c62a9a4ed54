---------------------------- MODULE StreamPriority ---------------------------
(***************************************************************************)
(* A stream thread's real-time priority on Linux (rt.Raise and rt.Lower,   *)
(* internal/rt/priority_linux.go): the process's RLIMIT_RTTIME is lowered, *)
(* the thread asks the kernel, and when that is refused it asks two D-Bus  *)
(* services, the desktop portal and RealtimeKit, first for a real-time     *)
(* priority and then for a better nice level.  Each of the four phases     *)
(* has a deadline of its own; a client (internal/dbus/client.go) sends one *)
(* call at a time and looks for its reply among signals.  A service may    *)
(* answer and do nothing, or do what it was asked after its answer was     *)
(* given up.                                                               *)
(*                                                                         *)
(* Times keep their order only: 1 is less than the cap of 200 ms, 2 the    *)
(* cap, 3 no limit.                                                        *)
(***************************************************************************)
EXTENDS LinuxThreads, Sequences, FiniteSetsExt

CONSTANT MaxMessages    \* messages looked at for one reply, 64 in the code

ASSUME MessagesAssumption == MaxMessages \in Nat \ {0}

TimeCap == 2

VARIABLES
    previous,   \* the thread's attributes before
    grant,      \* what Raise returned: "none", "normal", "nice" or "fifo"
    restorable, \* grant.restore
    limit,      \* RLIMIT_RTTIME
    rttimeMu,   \* who holds linuxRTTimeMu
    read,       \* per holder: the limit as it was read
    phase,      \* the service phase, 0 before the first
    expired,    \* the deadline of the phase has passed
    asking,     \* a call has been sent
    inbox, count,
    level,      \* the time a service has answered
    promised,   \* the smallest RTTimeUSecMax a service was asked under
    pending,    \* what services were asked for and have neither done nor forgotten
    moved       \* a service acted after Raise had returned

bus == <<phase, expired, asking, inbox, count, level, promised, pending, moved>>
own == <<previous, grant, restorable>>
rttime == <<limit, rttimeMu, read>>
vars == <<threads, bus, own, rttime>>

Nice == phase \in {3, 4}
Others == UNCHANGED <<capable, rtprio, task, todo, current, seen, raised, found, changed, pass, err>>

Init ==
    /\ ThreadsInit
    /\ previous = Unborn /\ grant = "none" /\ restorable = FALSE
    /\ limit = TimeCap + 1 /\ rttimeMu = "free" /\ read = [w \in {"stream", "other"} |-> 0]
    /\ phase = 0 /\ expired = FALSE /\ asking = FALSE /\ inbox = <<>> /\ count = 0
    /\ level = 0 /\ promised = TimeCap + 1 /\ pending = {} /\ moved = FALSE

-----------------------------------------------------------------------------
(* The kernel's state before anything is changed.  A Raise that knows      *)
(* nothing else returns what the thread has already.                       *)
Fallback == CASE previous.policy = "fifo" -> "fifo"
              [] previous.policy # "fifo" /\ previous.favour > 0 -> "nice"
              [] OTHER -> "normal"
Return(kind) == grant' = kind /\ pc' = "running"
WasRT == previous.policy = "fifo"

Look ==
    /\ pc = "new" /\ task \notin {"raising", "restoring"}
    /\ \/ previous' = sched[Stream] /\ pc' = "cap" /\ UNCHANGED grant
       \/ Return("normal") /\ UNCHANGED previous
    /\ Others /\ UNCHANGED <<sched, since, restorable, bus, rttime>>

(* capLinuxRTTimeAt, by the stream thread and by other streams: the limit  *)
(* is read and lowered under a lock.                                       *)
X_Lock(who) == UNCHANGED rttimeMu

Lock(who) == rttimeMu = "free" /\ rttimeMu' = who

ReadLimit(who) == Lock(who) /\ read' = [read EXCEPT ![who] = limit] /\ UNCHANGED limit
LowerLimit(who, maximum) ==
    /\ limit' = Min({read[who], maximum, TimeCap})
    /\ rttimeMu' = "free" /\ read' = [read EXCEPT ![who] = 0]
LimitFails(who) ==
    rttimeMu' = "free" /\ read' = [read EXCEPT ![who] = 0] /\ UNCHANGED limit

(* A service phase that comes to nothing is followed by the next one; the  *)
(* last by the return of what the thread had.                              *)
BeginPhase(k) == phase' = k /\ expired' \in BOOLEAN
NextPhase ==
    /\ IF phase < 4 THEN pc' = "connect" /\ BeginPhase(phase + 1) /\ UNCHANGED grant
       ELSE Return(Fallback) /\ UNCHANGED <<phase, expired>>
    /\ asking' = FALSE /\ inbox' = <<>> /\ count' = 0 /\ level' = 0

CapTime ==
    /\ \/ /\ pc = "cap" /\ ReadLimit("stream") /\ pc' = "capSet" /\ UNCHANGED <<own, bus>>
       \/ /\ pc = "capSet" /\ LowerLimit("stream", TimeCap)
          /\ IF previous.prio > StreamLevel THEN Return(Fallback)
             ELSE pc' = "direct" /\ UNCHANGED grant
          /\ UNCHANGED <<previous, restorable, bus>>
       \/ /\ pc = "capSet" /\ LimitFails("stream") /\ Return(Fallback)
          /\ UNCHANGED <<previous, restorable, bus>>
       \/ /\ pc = "timeCap" /\ ReadLimit("stream") /\ pc' = "timeSet" /\ UNCHANGED <<own, bus>>
       \/ /\ pc = "timeSet" /\ LowerLimit("stream", level)
          /\ promised' = Min({promised, level}) /\ pc' = "call"
          /\ UNCHANGED <<own, phase, expired, asking, inbox, count, level, pending, moved>>
       \/ /\ pc = "timeSet" /\ LimitFails("stream") /\ NextPhase
          /\ UNCHANGED <<previous, restorable, promised, pending, moved>>
    /\ Others /\ UNCHANGED <<sched, since>>

(* Bounds: another stream starts after this one and before the threads are *)
(* raised.                                                                 *)
OtherStream ==
    /\ \/ pc # "new" /\ task = "idle" /\ rttimeMu # "other" /\ read["other"] = 0 /\ ReadLimit("other")
       \/ read["other"] # 0 /\ \E maximum \in {1, TimeCap} : LowerLimit("other", maximum)
    /\ UNCHANGED <<threads, bus, own>>

-----------------------------------------------------------------------------
(* sched_setattr for the stream's priority, and when that is not permitted *)
(* once more for what RLIMIT_RTPRIO allows.                                *)
Wanted(prio) == Attr("fifo", prio, 0, TRUE)
Allowed == Min({rtprio, StreamLevel})

Granted(prio) ==
    SetAttr(Stream, Wanted(prio)) /\ Return("fifo") /\ restorable' = TRUE
    /\ since' = since \cup {Stream} /\ UNCHANGED <<phase, expired>>
Unchanged == UNCHANGED <<sched, since, restorable>>

Refused == IF WasRT THEN Return(Fallback) /\ UNCHANGED <<phase, expired>>
           ELSE pc' = "connect" /\ BeginPhase(1) /\ UNCHANGED grant

Direct ==
    /\ pc = "direct"
    /\ IF Permitted(sched[Stream], Wanted(StreamLevel)) THEN Granted(StreamLevel)
       ELSE IF rtprio = 0 THEN Refused /\ Unchanged
       ELSE IF WasRT /\ Allowed < previous.prio
            THEN Return(Fallback) /\ Unchanged /\ UNCHANGED <<phase, expired>>
       ELSE IF Permitted(sched[Stream], Wanted(Allowed)) THEN Granted(Allowed)
       ELSE Refused /\ Unchanged
    /\ Others
    /\ UNCHANGED <<previous, asking, inbox, count, level, promised, pending, moved, rttime>>

-----------------------------------------------------------------------------
(* The service phases.                                                     *)
Connect ==
    /\ pc = "connect"
    /\ \/ ~expired /\ pc' = "get" /\ UNCHANGED <<grant, phase, expired, asking, inbox, count, level>>
       \/ NextPhase
    /\ Others
    /\ UNCHANGED <<sched, since, previous, restorable, promised, pending, moved, rttime>>

(* A service is asked for the priority it allows, its first answer, but for*)
(* no more than the stream's: which one it is is left open until then.     *)
Askable == IF Nice THEN {0} ELSE 1 .. StreamLevel

(* A call: what comes of it follows from where the thread is.              *)
Send ==
    /\ pc \in {"get", "time", "call"} /\ ~asking /\ ~expired
    /\ asking' = TRUE
    /\ \/ pc # "call" /\ UNCHANGED pending
       \/ /\ pc = "call"
          /\ \E prio \in Askable :
               pending' = pending \cup {[nice |-> Nice, prio |-> prio]}
    /\ level' = IF pc = "call" THEN 0 ELSE level
    /\ Others /\ UNCHANGED <<sched, since, pc, own, phase, expired, inbox, count, promised, moved, rttime>>

Done(next) == pc' = next /\ asking' = FALSE /\ inbox' = <<>> /\ count' = 0
              /\ UNCHANGED <<grant, phase, expired>>
CallFails == IF pc = "call" THEN Done("verify") /\ UNCHANGED level ELSE NextPhase

(* The answer of a service to what it was asked is useful, or the phase is *)
(* over.                                                                   *)
Useful(v) == IF Nice THEN v > previous.favour /\ previous.policy = "other" ELSE v > 0
Replied(v) ==
    CASE pc = "get" /\ Useful(v) -> Done(IF Nice THEN "call" ELSE "time") /\ UNCHANGED level
      [] pc = "time" /\ v > 0 -> Done("timeCap") /\ level' = v
      [] pc = "call" -> Done("verify") /\ UNCHANGED level
      [] OTHER -> NextPhase

ReadMessage ==
    /\ asking /\ inbox # <<>>
    /\ LET m == Head(inbox)
       IN  CASE m.kind = "signal" /\ count + 1 < MaxMessages ->
                    /\ count' = count + 1 /\ inbox' = Tail(inbox)
                    /\ UNCHANGED <<pc, grant, phase, expired, asking, level>>
             [] m.kind = "reply" -> Replied(m.value)
             [] OTHER -> CallFails
    /\ Others /\ UNCHANGED <<sched, since, previous, restorable, promised, pending, moved, rttime>>

X_TooLate == expired /\ ~asking

TooLate == expired

Timeout ==
    /\ pc \in {"get", "time", "call"} /\ TooLate
    /\ CallFails \/ (pc = "call" /\ ~asking /\ NextPhase)
    /\ Others
    /\ UNCHANGED <<sched, since, previous, restorable, promised, pending, moved, rttime>>

-----------------------------------------------------------------------------
(* rollback: what the thread had, with RESET_ON_FORK when it cannot be     *)
(* cleared.                                                                *)
Back == IF Permitted(sched[Stream], previous) THEN previous ELSE [previous EXCEPT !.reset = TRUE]
RollBack ==
    /\ IF Permitted(sched[Stream], Back)
       THEN SetAttr(Stream, Back) /\ previous' = Back ELSE UNCHANGED <<sched, previous>>
    /\ since' = since \cup {Stream}
Untouched == UNCHANGED <<sched, since, previous>>

X_Observed == IF Nice THEN Attr("other", 0, 1, TRUE) ELSE Wanted(StreamLevel)

Observed == sched[Stream]

X_Restorable == restorable

Restorable == TRUE

(* The kernel is asked whatever the service answered: a safe real-time     *)
(* policy or a better nice level is the grant, an unsafe one is undone.    *)
Verify ==
    /\ pc = "verify" /\ restorable' = Restorable
    /\ \/ Return(Fallback) /\ RollBack /\ UNCHANGED <<phase, expired, asking, inbox, count, level>>
       \/ /\ Observed.policy = "fifo"
          /\ IF Observed.reset THEN Return("fifo") /\ Untouched ELSE Return(Fallback) /\ RollBack
          /\ UNCHANGED <<phase, expired, asking, inbox, count, level>>
       \/ /\ Observed.policy = "other" /\ Observed.favour > previous.favour
          /\ Return("nice") /\ Untouched
          /\ UNCHANGED <<phase, expired, asking, inbox, count, level>>
       \/ /\ Observed.policy = "other" /\ Observed.favour = previous.favour
          /\ NextPhase /\ Untouched
    /\ Others /\ UNCHANGED <<promised, pending, moved, rttime>>

(* Lower, when the stream has ended.  What a service has still to do it    *)
(* does before, or never.                                                  *)
Lower ==
    /\ pc = "running" /\ task \notin {"raising", "restoring"} /\ pending = {}
    /\ pc' = "lowered"
    /\ IF restorable THEN RollBack ELSE Untouched
    /\ Others /\ UNCHANGED <<grant, restorable, bus, rttime>>

-----------------------------------------------------------------------------
(* The services and the bus.                                               *)
Message ==
    /\ asking /\ Len(inbox) < 2
    /\ \/ inbox' = Append(inbox, [kind |-> "signal", value |-> 0])
       \/ /\ \A i \in DOMAIN inbox : inbox[i].kind = "signal"
          /\ \E k \in {"reply", "error"}, v \in 0 .. TimeCap :
               /\ k = "error" \/ pc = "call" => v = 0
               /\ inbox' = Append(inbox, [kind |-> k, value |-> v])
    /\ UNCHANGED <<threads, own, rttime, phase, expired, asking, count, level, promised, pending, moved>>

Expire ==
    /\ phase > 0 /\ pc # "running" /\ ~expired /\ expired' = TRUE
    /\ UNCHANGED <<threads, own, rttime, phase, asking, inbox, count, level, promised, pending, moved>>

(* A service does what it was asked, without the flag or with nothing but  *)
(* the flag, at any time; or forgets it.                                   *)
ServiceActs ==
    /\ \E r \in pending :
         /\ pending' = pending \ {r}
         /\ \/ UNCHANGED <<sched, since, moved>>
            \/ /\ \E new \in {Attr(IF r.nice THEN "other" ELSE "fifo", IF r.nice THEN 0 ELSE r.prio,
                                   IF r.nice THEN 1 ELSE 0, flag) : flag \in BOOLEAN}
                             \cup {[sched[Stream] EXCEPT !.reset = TRUE]} : SetAttr(Stream, new)
               /\ moved' = (pc = "running")
               /\ since' = since \cup {Stream}
    /\ Others /\ UNCHANGED <<pc, own, rttime, phase, expired, asking, inbox, count, level, promised>>

StreamStep ==
    \/ Look \/ CapTime \/ Direct \/ Connect \/ Send \/ ReadMessage \/ Timeout \/ Verify
Environment == OtherStream \/ Message \/ Expire \/ ServiceActs

Next ==
    \/ ThreadsStep /\ UNCHANGED <<bus, own, rttime>>
    \/ StreamStep \/ Lower \/ Environment

(* A Raise under way goes on, a deadline passes, and the lock is given     *)
(* back; nobody waits for a sync.Mutex for ever, whoever else takes it     *)
(* again and again.  The services owe nothing.                             *)
Fairness ==
    /\ WF_vars(StreamStep /\ pc # "new") /\ SF_vars(CapTime) /\ WF_vars(Expire)
    /\ WF_vars(OtherStream /\ read["other"] # 0)

Spec == Init /\ [][Next]_vars /\ Fairness

-----------------------------------------------------------------------------
(* No thread is made real-time, by itself or by a service, before the      *)
(* process's RLIMIT_RTTIME is down at the cap, and at what that service    *)
(* allows; and no other stream raises it again.                            *)
RealtimeCapped ==
    /\ grant = "fifo" /\ restorable => limit <= TimeCap
    /\ pending # {} => limit <= promised

(* What Raise says the thread has, it has, unless a service has acted      *)
(* since; and it is never weaker than it was before.                       *)
GrantTrue ==
    pc = "running" /\ restorable /\ ~moved =>
        /\ grant = "fifo" => Realtime(Stream)
        /\ grant = "nice" => Realtime(Stream) \/ sched[Stream].favour > 0
        /\ previous.policy = "fifo" => Realtime(Stream) /\ sched[Stream].prio >= previous.prio

(* What a stream has made of its thread and the restore leaves as it is:   *)
(* the priority the stream runs with, or, without the privilege to clear   *)
(* it, the RESET_ON_FORK it has ended with.                                *)
ByItsStream ==
    /\ restorable /\ sched[Stream].reset
    /\ pc = "running" \/ (pc = "lowered" /\ ~capable)

(* After Lower the thread is what it was before Raise, whichever service   *)
(* acted, and however late in the stream; it may keep RESET_ON_FORK.       *)
PutBack ==
    pc = "lowered" /\ task = "idle" /\ previous # Unborn =>
        sched[Stream] \in {previous, [previous EXCEPT !.reset = TRUE]}

(* When the restore of RaiseProcessThreads returns, every thread is what   *)
(* it was: the ones it raised what they were before, one that had been     *)
(* real-time untouched, one born in between not at its priority.  Only a   *)
(* thread born, or changed by its stream, after the restore has listed the *)
(* threads escapes it, and of those it had raised one that a stream runs   *)
(* on, or ran on without privilege.                                        *)
ThreadsRestored ==
    task = "restored" =>
        \A t \in Alive \ since :
            /\ t \in raised => sched[t] = found[t] \/ (t = Stream /\ ByItsStream)
            /\ t \in seen \ raised /\ (t # Stream \/ pc = "new") => sched[t] = found[t]
            /\ t \notin seen => ~AtProcessLevel(t)

(* "The returned function puts back the threads it raised"                 *)
(* (threads_linux.go:19): once the stream on one of them has ended, none   *)
(* is left real-time.  The code does not keep this: a stream that cannot   *)
(* clear RESET_ON_FORK leaves its thread with it, and the restore passes   *)
(* over every thread that has it.                                          *)
RaisedPutBack ==
    task = "restored" /\ pc = "lowered" => \A t \in (Alive \cap raised) \ since : ~Realtime(t)

(* Raise returns, whatever the services do not answer.                     *)
RaiseReturns == (pc # "new") ~> (pc \in {"running", "lowered"})
=============================================================================
