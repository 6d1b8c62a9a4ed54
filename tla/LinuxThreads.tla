----------------------------- MODULE LinuxThreads ----------------------------
(***************************************************************************)
(* The threads of a Linux process and their scheduling attributes, and     *)
(* RaiseProcessThreads (internal/rt/threads_linux.go), which raises every  *)
(* normal thread to a real-time priority while threads come and go, and    *)
(* the function it returns, which puts them back.  StreamPriority adds     *)
(* what one of the threads, a stream's, does to itself.                    *)
(*                                                                         *)
(* Priorities keep their order only: the process's, the stream's and a     *)
(* stronger one; a nice level is "favour", 0 or 1.  A thread id is not     *)
(* used twice.                                                             *)
(***************************************************************************)
EXTENDS Naturals

CONSTANTS Threads,    \* the ids of the instance
          Stream,     \* the thread a stream runs on
          MaxPasses   \* passes over the threads, 8 in the code

ASSUME ThreadsAssumption ==
    Stream \in Threads /\ "none" \notin Threads /\ MaxPasses \in Nat \ {0}

ProcessLevel == 1
StreamLevel == 2
Stronger == 3

Attr(policy, prio, favour, reset) ==
    [policy |-> policy, prio |-> prio, favour |-> favour, reset |-> reset]
Normal == Attr("other", 0, 0, FALSE)
Unborn == Attr("unborn", 0, 0, FALSE)
Exited == Attr("exited", 0, 0, FALSE)

VARIABLES
    sched,      \* per thread: its attributes
    capable,    \* the process has CAP_SYS_NICE
    rtprio,     \* its RLIMIT_RTPRIO
    pc,         \* where the stream thread is
    task,       \* what RaiseProcessThreads and its restore have come to
    todo,       \* the threads listed and not looked at yet
    current,    \* the thread whose attributes have just been read, or "none"
    seen,       \* existing
    raised,     \* the keys of previous
    found,      \* per thread: what it was when it was last looked at
    changed, pass, err,
    since       \* threads born, or changed by their stream, since the last listing

threads == <<sched, capable, rtprio, pc, task, todo, current, seen, raised, found, changed, pass,
             err, since>>

Alive == {t \in Threads : sched[t].policy \in {"other", "fifo"}}
Realtime(t) == sched[t].policy = "fifo"

(* A bound: where nothing is permitted RaiseProcessThreads is refused for  *)
(* every thread, and nothing happens; there only a stream asks.            *)
Privileged == capable \/ rtprio > 0

ThreadsInit ==
    /\ capable \in BOOLEAN /\ rtprio \in (IF capable THEN {0} ELSE 0 .. StreamLevel)
    /\ \E first \in {Normal, Attr("other", 0, 1, FALSE), Attr("other", 0, 0, TRUE),
                     Attr("fifo", ProcessLevel, 0, FALSE), Attr("fifo", Stronger, 0, TRUE)},
          worker \in Threads \ {Stream} :
         \/ sched = [t \in Threads |-> IF t = Stream THEN first ELSE IF t = worker THEN Normal ELSE Unborn]
         \/ /\ capable \/ rtprio = ProcessLevel
            /\ sched = [t \in Threads |-> IF t = Stream THEN Normal ELSE IF t = worker THEN first ELSE Unborn]
    /\ pc = "new" /\ task = "idle" /\ todo = {} /\ current = "none"
    /\ seen = {} /\ raised = {} /\ found = [t \in Threads |-> Unborn]
    /\ changed = FALSE /\ pass = 0 /\ err = FALSE /\ since = {}

-----------------------------------------------------------------------------
(* sched_setattr, as the kernel answers it.  The nice level of a thread    *)
(* outlives its time as a real-time thread.                                *)
Permitted(old, new) ==
    \/ capable
    \/ /\ new.policy = "fifo" =>
            /\ old.policy = "fifo" \/ rtprio > 0
            /\ new.prio <= rtprio \/ (old.policy = "fifo" /\ new.prio <= old.prio)
       /\ new.policy = "other" => new.favour <= old.favour
       /\ old.reset => new.reset
Becomes(old, new) == IF new.policy = "fifo" THEN [new EXCEPT !.favour = old.favour] ELSE new
SetAttr(t, new) == sched' = [sched EXCEPT ![t] = Becomes(@, new)]

Inherited(a) == IF a.reset THEN Normal ELSE a

ComeAndGo ==
    /\ task # "idle"
    /\ \E t \in Alive :
         \/ \E child \in Threads : /\ sched[child] = Unborn
                                   /\ sched' = [sched EXCEPT ![child] = Inherited(sched[t])]
                                   /\ since' = since \cup {child}
         \/ t # Stream /\ sched' = [sched EXCEPT ![t] = Exited] /\ UNCHANGED since
    /\ UNCHANGED <<capable, rtprio, pc, task, todo, current, seen, raised, found, changed, pass, err>>

-----------------------------------------------------------------------------
Attributes == UNCHANGED <<sched, capable, rtprio, pc>>

(* The list of a pass, or of the restore.  Neither runs while a stream     *)
(* starts or ends.                                                         *)
Settled == pc \in {"new", "running", "lowered"}

List == todo' = Alive /\ since' = {}

Raise ==
    /\ task = "idle" /\ Settled /\ Privileged
    /\ \/ task' = "raising" /\ List /\ UNCHANGED err
       \/ task' = "raised" /\ err' = TRUE /\ UNCHANGED <<todo, since>>
    /\ pass' = 1
    /\ Attributes /\ UNCHANGED <<current, seen, raised, found, changed>>

(* One thread of the list is looked at: a thread that has been raised, has *)
(* a real-time policy or has exited is passed over ...                     *)
Visit(t) ==
    /\ task = "raising" /\ current = "none" /\ t \in todo
    /\ todo' = todo \ {t} /\ seen' = seen \cup {t}
    /\ found' = [found EXCEPT ![t] = IF t \in raised THEN @ ELSE sched[t]]
    /\ current' = IF t \notin raised /\ sched[t].policy = "other" THEN t ELSE current
    /\ Attributes /\ UNCHANGED <<task, raised, changed, pass, err, since>>

(* ... and another one is raised, unless it is gone or that is refused.    *)
RaiseThread ==
    LET next == Attr("fifo", ProcessLevel, 0, FALSE)
    IN  /\ task = "raising" /\ current # "none"
        /\ IF current \in Alive /\ Permitted(sched[current], next)
           THEN /\ SetAttr(current, next)
                /\ raised' = raised \cup {current} /\ changed' = TRUE
                /\ UNCHANGED err
           ELSE err' = TRUE /\ UNCHANGED <<sched, raised, changed>>
        /\ current' = "none"
        /\ UNCHANGED <<capable, rtprio, pc, task, todo, seen, found, pass, since>>

X_Again == FALSE

Again == changed /\ pass < MaxPasses

EndPass ==
    /\ task = "raising" /\ todo = {} /\ current = "none"
    /\ \/ /\ Again /\ List /\ changed' = FALSE /\ pass' = pass + 1 /\ UNCHANGED <<task, err>>
       \/ /\ task' = "raised" /\ UNCHANGED <<todo, since, changed, pass>>
          /\ IF Again THEN err' = TRUE ELSE UNCHANGED err    \* the list failed
    /\ Attributes /\ UNCHANGED <<current, seen, raised, found>>

(* The function returned.  It gives up when the threads cannot be listed.  *)
Restore ==
    /\ task = "raised" /\ Settled
    /\ \/ task' = "restoring" /\ List
       \/ task' = "abandoned" /\ UNCHANGED <<todo, since>>
    /\ changed' = FALSE /\ pass' = 0 /\ err' = FALSE
    /\ Attributes /\ UNCHANGED <<current, seen, raised, found>>

AtProcessLevel(t) ==
    sched[t].policy = "fifo" /\ sched[t].prio = ProcessLevel /\ ~sched[t].reset

X_Ours(t) == AtProcessLevel(t)

Ours(t) == (t \in raised \/ t \notin seen) /\ AtProcessLevel(t)

VisitAgain(t) ==
    /\ task = "restoring" /\ current = "none" /\ t \in todo
    /\ todo' = todo \ {t}
    /\ current' = IF Ours(t) THEN t ELSE current
    /\ Attributes /\ UNCHANGED <<task, seen, raised, found, changed, pass, err, since>>

PutThreadBack ==
    LET back == IF current \in raised THEN found[current] ELSE Normal
    IN  /\ task = "restoring" /\ current # "none"
        /\ IF current \in Alive /\ Permitted(sched[current], back)
           THEN SetAttr(current, back) ELSE UNCHANGED sched
        /\ current' = "none"
        /\ UNCHANGED <<capable, rtprio, pc, task, todo, seen, raised, found, changed, pass, err, since>>

EndRestore ==
    /\ task = "restoring" /\ todo = {} /\ current = "none" /\ task' = "restored"
    /\ Attributes /\ UNCHANGED <<todo, current, seen, raised, found, changed, pass, err, since>>

ThreadsStep ==
    \/ ComeAndGo \/ Raise \/ RaiseThread \/ EndPass \/ Restore \/ PutThreadBack \/ EndRestore
    \/ \E t \in Threads : Visit(t) \/ VisitAgain(t)

-----------------------------------------------------------------------------
(* When RaiseProcessThreads returns without an error, before its last pass,*)
(* no thread runs the normal policy, although threads were started by      *)
(* threads not yet raised during any of the passes.  Only a thread born    *)
(* after the last listing escapes, and only if its parent exited or resets *)
(* the policy of its children.  (A stream that ends puts its thread back.) *)
NoneOverlooked ==
    task = "raised" /\ ~err /\ pass < MaxPasses /\ pc # "lowered" =>
        \A t \in Alive : \/ Realtime(t)
                         \/ t \in since /\ \E u \in Threads : sched[u] = Exited \/ sched[u].reset
=============================================================================
