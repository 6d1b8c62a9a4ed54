--------------------------- MODULE FakeHostProofs ---------------------------
(***************************************************************************)
(* Proofs about FakeHost for any number of streams and periods and any     *)
(* size of the tokens channel: no period is lost or made up, and an        *)
(* Advance that answers nil has seen all of its periods committed.         *)
(***************************************************************************)
EXTENDS FakeHost, TLAPS

Points == {"none", "opened", "wait", "callback", "stop", "stopEnd", "gone", "closed"}

\* Counts are numbers and each stream is somewhere.
TypeInv ==
    /\ generation \in Streams /\ owner \in Streams
    /\ claimed \in BOOLEAN /\ started \in BOOLEAN /\ ended \in BOOLEAN
    /\ requested \in Nat /\ completed \in Nat /\ target \in Nat /\ left \in Nat
    /\ tokens \in [Streams -> Nat] /\ committed \in [Streams -> Nat]
    /\ interrupt \in [Streams -> BOOLEAN] /\ pending \in [Streams -> BOOLEAN]
    /\ tpc \in [Streams -> Points]
    /\ apc \in {"idle", "release", "look", "asleep"}

\* Streams follow each other: those before the current one are closed, those
\* after it have not been touched, and the shared state is the current one's.
OneStream ==
    /\ \A s \in Streams : s < generation => tpc[s] = "closed"
    /\ \A s \in Streams : s > generation =>
         /\ tpc[s] = "none" /\ ~interrupt[s] /\ ~pending[s]
         /\ tokens[s] = 0 /\ committed[s] = 0
    /\ claimed <=> tpc[generation] \notin {"none", "closed"}
    /\ ended <=> tpc[generation] \in {"gone", "closed"}
    /\ tpc[generation] = "callback" => pending[generation]

\* An Advance that is overtaken by another stream finds nothing asked of that
\* one; one that is not has asked last.
CallInv ==
    /\ owner <= generation
    /\ completed = committed[generation]
    /\ apc # "idle" => /\ target >= 1
                       /\ IF owner = generation THEN target = requested ELSE requested = 0
    /\ result = Ok => committed[owner] = target /\ (owner = generation => target = requested)

FakeInv == TypeInv /\ OneStream /\ CallInv /\ PeriodsKept

USE DEF stateVars, channelVars, threadVars, enderVars, advanceVars, Streams

\* It holds of a host nobody has opened.
LEMMA InitFake == Init => FakeInv
<1> SUFFICES ASSUME Init PROVE FakeInv
  OBVIOUS
<1> USE BoundsAssumption DEF Init
<1>1. TypeInv
  <2>1. 1 \in Streams
    OBVIOUS
  <2>2. generation \in Streams /\ owner \in Streams
    BY <2>1
  <2>3. /\ tokens \in [Streams -> Nat] /\ committed \in [Streams -> Nat]
        /\ interrupt \in [Streams -> BOOLEAN] /\ pending \in [Streams -> BOOLEAN]
    OBVIOUS
  <2>4. tpc \in [Streams -> Points]
    BY DEF Points
  <2>5. QED
    BY <2>2, <2>3, <2>4 DEF TypeInv
<1>2. OneStream /\ CallInv
  BY DEF OneStream, CallInv, Ok
<1>3. PeriodsKept
  BY DEF PeriodsKept, Released
<1>4. QED
  BY <1>1, <1>2, <1>3 DEF FakeInv

\* Only the thread of the current stream can be anywhere but at an end.
LEMMA CurrentActs ==
    ASSUME TypeInv, OneStream, NEW s \in Streams, tpc[s] \notin {"none", "closed"}
    PROVE  s = generation
<1>1. generation \in Nat /\ s \in Nat
  BY BoundsAssumption DEF TypeInv
<1>2. ~(s < generation) /\ ~(s > generation)
  BY DEF OneStream
<1>3. QED
  BY <1>1, <1>2

\* What a Commit, the end of a Stop and a look of Advance write, apart from the
\* invariant.
LEMMA CommitWrites ==
    ASSUME NEW s \in Streams, Commit(s)
    PROVE  /\ tpc[s] = "callback"
           /\ completed' = completed + 1 /\ committed' = [committed EXCEPT ![s] = @ + 1]
           /\ pending' = [pending EXCEPT ![s] = FALSE]
           /\ UNCHANGED <<generation, claimed, started, ended, requested, tokens,
                          interrupt, advanceVars>>
           /\ \E there \in {"wait", "stop"} : tpc' = [tpc EXCEPT ![s] = there]
BY DEF Commit, Goto
LEMMA StopEndWrites ==
    ASSUME NEW s \in Streams, StopEnd(s)
    PROVE  /\ tpc[s] = "stopEnd" /\ tpc' = [tpc EXCEPT ![s] = "gone"] /\ ended' = TRUE
           /\ UNCHANGED <<generation, claimed, started, requested, completed, channelVars,
                          pending, committed, advanceVars>>
BY DEF StopEnd, Goto
LEMMA LookWrites ==
    ASSUME Look
    PROVE  /\ UNCHANGED <<stateVars, channelVars, threadVars, target, owner, left>>
           /\ apc = "look"
           /\ \/ apc' = "idle" /\ result' \in {ErrState, ErrStopped}
              \/ /\ apc' = "idle" /\ result' = Ok
                 /\ generation = owner /\ completed >= target
              \/ apc' = "asleep" /\ UNCHANGED result
BY DEF Look, Answer, SameStream

\* What the streams do, and whoever ends them.
LEMMA StreamKept ==
    ASSUME FakeInv, NEW s \in Streams,
           \/ Open(s) \/ Close(s) \/ Start(s) \/ ThreadStep(s) \/ WaitFault(s)
           \/ RequestStop(s) \/ Interrupt(s)
    PROVE  FakeInv'
<1> USE BoundsAssumption DEF FakeInv, TypeInv, OneStream, CallInv, PeriodsKept, Released,
      Points, Goto, Notify, Ok
<1>1. CASE Open(s)
  <2>1. /\ tpc' = [tpc EXCEPT ![s] = "opened"] /\ generation' = s /\ claimed' = TRUE
        /\ UNCHANGED <<tokens, interrupt, pending, faulted, failure, committed,
                       enderVars, advanceVars>>
    BY <1>1 DEF Open
  <2>2. CASE ended
    <3>1. /\ s = generation + 1 /\ tpc[generation] = "closed" /\ ended' = FALSE /\ started' = FALSE
          /\ requested' = 0 /\ completed' = 0
      BY <1>1, <2>2 DEF Open, Busy, ResetCounts
    <3>t. TypeInv'
      BY <2>1, <3>1
    <3>n. /\ tpc'[s] = "opened" /\ ended' = FALSE /\ claimed' = TRUE /\ generation' = s
          /\ \A o \in Streams \ {s} : tpc'[o] = tpc[o]
      BY <2>1, <3>1
    <3>b. \A o \in Streams : o < s => tpc'[o] = "closed"
      BY <3>1, <3>n
    <3>a. \A o \in Streams : o > s =>
            /\ tpc'[o] = "none" /\ ~interrupt'[o] /\ ~pending'[o]
            /\ tokens'[o] = 0 /\ committed'[o] = 0
      BY <2>1, <3>1, <3>n
    <3>2. TypeInv' /\ OneStream'
      BY <3>t, <3>n, <3>b, <3>a
    <3>3. owner # s
      BY <3>1
    <3>4. CallInv' /\ PeriodsKept'
      BY <2>1, <3>1, <3>3
    <3>5. QED
      BY <3>2, <3>4
  <2>3. CASE ~ended
    <3>1. s = generation /\ tpc[generation] = "none" /\ UNCHANGED <<started, ended, requested, completed>>
      BY <1>1, <2>3 DEF Open, Busy
    <3>2. TypeInv' /\ OneStream'
      BY <2>1, <2>3, <3>1
    <3>3. CallInv' /\ PeriodsKept'
      BY <2>1, <3>1
    <3>4. QED
      BY <3>2, <3>3
  <2>4. QED
    BY <2>2, <2>3
<1>2. CASE Close(s)
  <2>1. s = generation
    BY <1>2 DEF Close
  <2>2. TypeInv' /\ OneStream'
    BY <1>2, <2>1 DEF Close
  <2>3. CallInv' /\ PeriodsKept'
    BY <1>2 DEF Close
  <2>4. QED
    BY <2>2, <2>3
<1>3. CASE Start(s)
  BY <1>3 DEF Start
<1>4. CASE TakeToken(s)
  <2>w. tpc[s] = "wait"
    BY <1>4 DEF TakeToken
  <2>g. s = generation
    BY <2>w, CurrentActs
  <2>1. /\ s = generation /\ tokens[s] > 0 /\ ~pending[s]
        /\ tokens' = [tokens EXCEPT ![s] = @ - 1] /\ pending' = [pending EXCEPT ![s] = TRUE]
        /\ UNCHANGED <<stateVars, interrupt, tpc, committed, advanceVars>>
    BY <1>4, <2>g DEF TakeToken
  <2>2. TypeInv' /\ OneStream'
    BY <2>1
  <2>3. CallInv'
    BY <2>1
  <2>4. tokens'[s] = tokens[s] - 1 /\ pending'[s] = TRUE
    BY <2>1
  <2>5. PeriodsKept'
    BY <2>1, <2>4
  <2>6. QED
    BY <2>2, <2>3, <2>5
<1>5. CASE WaitInterrupted(s)
  BY <1>5 DEF WaitInterrupted
<1>6. CASE WaitReady(s)
  BY <1>6 DEF WaitReady
<1>7. CASE Commit(s)
  <2>1. /\ s = generation /\ pending[s] /\ tpc[s] = "callback"
        /\ completed' = completed + 1 /\ committed' = [committed EXCEPT ![s] = @ + 1]
        /\ pending' = [pending EXCEPT ![s] = FALSE]
        /\ UNCHANGED <<generation, claimed, started, ended, requested, tokens,
                       interrupt, advanceVars>>
    <3>1. tpc[s] = "callback"
      BY <1>7, CommitWrites
    <3>2. s = generation
      BY <3>1, CurrentActs
    <3>3. QED
      BY <1>7, <3>1, <3>2, CommitWrites
  <2>2. PICK there \in {"wait", "stop"} : tpc' = [tpc EXCEPT ![s] = there]
    BY <1>7, CommitWrites
  <2>t. TypeInv'
    BY <2>1, <2>2
  <2>o. OneStream'
    BY <2>1, <2>2
  <2>3. TypeInv' /\ OneStream'
    BY <2>t, <2>o
  <2>4. committed'[s] = committed[s] + 1 /\ pending'[s] = FALSE
    BY <2>1
  <2>5. PeriodsKept'
    BY <2>1, <2>4
  <2>6. ~(result = Ok /\ owner = generation)
    <3>1. /\ tokens[generation] \in Nat /\ committed[generation] \in Nat
          /\ left \in Nat /\ requested \in Nat /\ pending[generation]
      BY ONLY <2>1, TypeInv DEF TypeInv
    <3>2. Released <= requested
      BY ONLY PeriodsKept DEF PeriodsKept
    <3>3. committed[generation] + 1 <= requested
      BY ONLY <3>1, <3>2 DEF Released
    <3>4. result = Ok /\ owner = generation => committed[generation] = requested
      BY ONLY CallInv DEF CallInv
    <3>5. QED
      BY ONLY <3>1, <3>3, <3>4
  <2>7. CallInv'
    BY <2>1, <2>4, <2>6
  <2>8. QED
    BY <2>3, <2>5, <2>7
<1>8. CASE StopInterrupt(s)
  BY <1>8 DEF StopInterrupt
<1>9. CASE StopEnd(s)
  <2>1. /\ tpc[s] = "stopEnd" /\ tpc' = [tpc EXCEPT ![s] = "gone"] /\ ended' = TRUE
        /\ UNCHANGED <<generation, claimed, started, requested, completed, channelVars,
                       pending, committed, advanceVars>>
    BY <1>9, StopEndWrites
  <2>2. s = generation
    BY <2>1, CurrentActs
  <2>3. TypeInv'
    BY <2>1
  <2>4. OneStream'
    BY <2>1, <2>2
  <2>5. CallInv' /\ PeriodsKept'
    BY <2>1
  <2>6. QED
    BY <2>3, <2>4, <2>5
<1>10. CASE WaitFault(s)
  BY <1>10 DEF WaitFault, KeepToken
<1>11. CASE RequestStop(s)
  BY <1>11 DEF RequestStop
<1>12. CASE Interrupt(s)
  BY <1>12 DEF Interrupt
<1>13. QED
  BY <1>1, <1>2, <1>3, <1>4, <1>5, <1>6, <1>7, <1>8, <1>9, <1>10, <1>11, <1>12 DEF ThreadStep

\* What Advance does.
LEMMA AdvanceKept ==
    ASSUME FakeInv, (\E n \in 1 .. MaxPeriods : Advance(n)) \/ AdvanceStep
    PROVE  FakeInv'
<1> USE BoundsAssumption DEF FakeInv, TypeInv, OneStream, CallInv, PeriodsKept, Released,
      Answer, Ok, ErrState, ErrStopped
<1>1. CASE \E n \in 1 .. MaxPeriods : Advance(n)
  <2>1. PICK n \in 1 .. MaxPeriods : Advance(n)
    BY <1>1
  <2>2. CASE result' = ErrState
    BY <2>1, <2>2 DEF Advance
  <2>3. CASE result' = "none"
    <3>1. /\ apc = "idle" /\ apc' = "release" /\ requested' = requested + n /\ target' = requested + n
          /\ owner' = generation /\ left' = n /\ n \in Nat /\ n >= 1
          /\ UNCHANGED <<generation, claimed, started, ended, completed, channelVars, threadVars>>
      BY <2>1, <2>3 DEF Advance
    <3>2. TypeInv' /\ OneStream' /\ CallInv'
      BY <2>3, <3>1
    <3>3. Released' = Released + n
      BY <3>1
    <3>4. PeriodsKept'
      BY <3>1, <3>3
    <3>5. QED
      BY <3>2, <3>4
  <2>4. QED
    BY <2>1, <2>2, <2>3 DEF Advance
<1>2. CASE Release
  <2>1. UNCHANGED <<stateVars, interrupt, threadVars, target, owner>> /\ apc = "release"
    BY <1>2 DEF Release
  <2>2. CASE tokens' = [tokens EXCEPT ![owner] = @ + 1] /\ left > 0 /\ left' = left - 1
             /\ UNCHANGED <<apc, result>>
    <3>t. TypeInv'
      <4>1. tokens' \in [Streams -> Nat] /\ left' \in Nat
        BY ONLY <2>2, TypeInv DEF TypeInv
      <4>2. QED
        BY ONLY <2>1, <2>2, <4>1, TypeInv DEF TypeInv, stateVars, threadVars
    <3>c. CallInv'
      <4>1. UNCHANGED <<generation, completed, requested, committed, owner, target, apc, result>>
        BY ONLY <2>1, <2>2 DEF stateVars, threadVars
      <4>2. QED
        BY ONLY <4>1, CallInv DEF CallInv
    <3>1. TypeInv' /\ CallInv'
      BY <3>t, <3>c
    <3>2. OneStream'
      <4>1. /\ UNCHANGED <<generation, tpc, interrupt, pending, committed, claimed, ended>>
            /\ \A o \in Streams : o > generation => tokens'[o] = tokens[o]
        BY <2>1, <2>2
      <4>2. QED
        BY <4>1
    <3>3. PeriodsKept'
      <4>1. CASE owner = generation
        <5>1. tokens'[generation] = tokens[generation] + 1
          BY <2>2, <4>1
        <5>2. Released' = Released
          BY <2>1, <2>2, <4>1, <5>1
        <5>3. QED
          BY <2>1, <5>2
      <4>2. CASE owner # generation
        <5>1. tokens'[generation] = tokens[generation]
          BY <2>2, <4>2
        <5>2. QED
          BY <2>1, <2>2, <4>2, <5>1
      <4>3. QED
        BY <4>1, <4>2
    <3>4. QED
      BY <3>1, <3>2, <3>3
  <2>3. CASE interrupt[owner] /\ apc' = "idle" /\ result' = ErrState /\ UNCHANGED <<tokens, left>>
    <3>1. TypeInv' /\ OneStream'
      BY <2>1, <2>3
    <3>2. CallInv' /\ PeriodsKept'
      BY <2>1, <2>3
    <3>3. QED
      BY <3>1, <3>2
  <2>4. CASE left = 0 /\ apc' = "look" /\ UNCHANGED <<tokens, left, result>>
    <3>1. TypeInv' /\ OneStream'
      BY <2>1, <2>4
    <3>2. CallInv' /\ PeriodsKept'
      BY <2>1, <2>4
    <3>3. QED
      BY <3>1, <3>2
  <2>5. QED
    BY <1>2, <2>2, <2>3, <2>4 DEF Release
<1>3. CASE Look
  <2>1. /\ UNCHANGED <<stateVars, channelVars, threadVars, target, owner, left>>
        /\ apc = "look"
        /\ \/ apc' = "idle" /\ result' \in {ErrState, ErrStopped}
           \/ /\ apc' = "idle" /\ result' = Ok
              /\ generation = owner /\ completed >= target
           \/ apc' = "asleep" /\ UNCHANGED result
    BY <1>3, LookWrites
  <2>2. TypeInv' /\ OneStream'
    BY <2>1
  <2>3. PeriodsKept'
    BY <2>1
  <2>4. CallInv'
    <3>1. result' = Ok => result = Ok \/ (generation = owner /\ completed >= target)
      BY <2>1
    <3>2. CASE generation = owner /\ completed >= target
      <4>1. committed[generation] = completed /\ completed <= requested /\ target = requested
        BY <2>1, <3>2
      <4>2. UNCHANGED <<generation, completed, requested, committed, owner, target>>
        BY <2>1
      <4>3. apc' # "idle" => apc # "idle"
        BY <2>1
      <4>4. QED
        BY <3>2, <4>1, <4>2, <4>3
    <3>3. CASE ~(generation = owner /\ completed >= target)
      <4>1. UNCHANGED <<generation, completed, requested, committed, owner, target>>
        BY ONLY <2>1 DEF stateVars, threadVars
      <4>2. (apc' # "idle" => apc # "idle") /\ (result' = Ok => result = Ok)
        BY ONLY <2>1, <3>1, <3>3
      <4>3. QED
        BY ONLY <4>1, <4>2, CallInv DEF CallInv
    <3>4. QED
      BY <3>2, <3>3
  <2>5. QED
    BY <2>2, <2>3, <2>4
<1>4. CASE WakeChanged
  BY <1>4 DEF WakeChanged
<1>5. CASE WakeInterrupted
  BY <1>5 DEF WakeInterrupted
<1>6. QED
  BY <1>1, <1>2, <1>3, <1>4, <1>5 DEF AdvanceStep

\* The host and the Advance in progress agree at every step on what was released
\* to which stream.
THEOREM FakeInvariance == Spec => []FakeInv
<1>1. FakeInv /\ [Next]_vars => FakeInv'
  <2> SUFFICES ASSUME FakeInv, [Next]_vars PROVE FakeInv'
    OBVIOUS
  <2>1. CASE Next
    BY <2>1, StreamKept, AdvanceKept DEF Next
  <2>2. CASE UNCHANGED vars
    BY <2>2 DEF vars, FakeInv, TypeInv, OneStream, CallInv, PeriodsKept, Released
  <2>3. QED
    BY <2>1, <2>2
<1>2. QED
  BY <1>1, InitFake, PTL DEF Spec

\* Delivered: a released period is waiting, in hand or committed, and a nil from
\* Advance means committed, also when another stream was opened meanwhile.
THEOREM PeriodsDelivered == Spec => []Delivered
<1>1. FakeInv => Delivered
  BY DEF FakeInv, CallInv, Delivered, AdvanceCommits
<1>2. QED
  BY <1>1, FakeInvariance, PTL
=============================================================================
