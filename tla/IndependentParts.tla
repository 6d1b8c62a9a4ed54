-------------------------- MODULE IndependentParts ---------------------------
(***************************************************************************)
(* Three parts of the system that share no state: what the loop tells of   *)
(* lost audio (StreamLoop), the allocation watchdog (AllocWatchdog) and    *)
(* the host that tests run on (FakeHost).  Every property is about one of  *)
(* them, so their steps need not be interleaved: a behaviour of this       *)
(* specification is a behaviour of one part while the others stay as they  *)
(* were at first, and the three state spaces add up where the product of   *)
(* the parts would multiply them.                                          *)
(***************************************************************************)
EXTENDS StreamLoop, AllocWatchdog, FakeHost

VARIABLE part   \* the one whose steps are taken

Parts == {"loop", "watchdog", "host"}

partsVars == <<part, loopVars, allVars, vars>>

\* The loop alone has more than one initial state.
PartsInit ==
    /\ part \in Parts
    /\ LoopInit /\ WatchdogInit /\ Init
    /\ counter # 0 => part = "loop"

PartsNext ==
    /\ UNCHANGED part
    /\ \/ part = "loop" /\ LoopNext /\ UNCHANGED <<allVars, vars>>
       \/ part = "watchdog" /\ WatchdogNext /\ UNCHANGED <<loopVars, vars>>
       \/ part = "host" /\ Next /\ UNCHANGED <<loopVars, allVars>>

\* The part that takes steps is as fair as its own module says.
PartsFairness ==
    /\ WF_allVars(part = "watchdog" /\ Sampler)
    /\ WF_allVars(part = "watchdog" /\ Thread /\ ~LeaveLoop)
    /\ WF_vars(part = "host" /\ AdvanceStep)
    /\ \A s \in Streams : WF_vars(part = "host" /\ ThreadStep(s))

PartsSpec == PartsInit /\ [][PartsNext]_partsVars /\ PartsFairness
=============================================================================
