---------------------------- MODULE CoreAudioProofs ---------------------------
(***************************************************************************)
(* For any period, rings and kinds of streams: a CoreAudio stream leaves   *)
(* nothing behind and uses nothing that is gone, whatever fails in Open    *)
(* and whoever interrupts during Close; its callbacks and its thread never *)
(* touch each other's frames; a clock is one packet's; and the stream      *)
(* answers the core as the driver's contract says.                         *)
(*                                                                         *)
(* The first part is about the units; the second about what the threads    *)
(* exchange, which needs of the units only where the callbacks are; the    *)
(* third about the order of the driver's calls.                            *)
(***************************************************************************)
EXTENDS CoreAudioStream, SequenceTheorems, TLAPS

SidesIn == IF mode = "duplex" THEN Sides ELSE {mode}
Workers == {"caller", "closer"}
Steps == {"swap", "check", "signal", "stop", "dispose", "seal", "destroy", "unmap"}
Parts == {"memory", "semaphore", "unit", "initialized"}
Tasks == Steps \X Sides
Builds == {"memory", "unit", "initialized"} \X Sides

\* What follows a step of Interrupt or Close on the same side.
Following == [swap |-> "check", check |-> "signal", signal |-> "stop", stop |-> "dispose",
              dispose |-> "seal", seal |-> "destroy", destroy |-> "unmap"]

\* Lists of work: each step is followed by its next, each side is gone
\* through once, the output first.  All of this holds of what is left of one.
CloseList(q) ==
    \A i \in 1 .. Len(q) :
        /\ q[i][1] # "unmap" => i < Len(q) /\ q[i + 1] = <<Following[q[i][1]], q[i][2]>>
        /\ q[i][1] = "unmap" /\ i < Len(q) => q[i + 1][1] = "swap"
        /\ \A j \in i + 1 .. Len(q) : q[j][1] = "swap" => q[i][2] = "output" /\ q[j][2] = "input"

CallList(q) ==
    \A i \in 1 .. Len(q) :
        /\ q[i][1] \in {"swap", "check", "signal"} /\ q[i][2] \in SidesIn
        /\ q[i][1] # "signal" => i < Len(q) /\ q[i + 1] = <<Following[q[i][1]], q[i][2]>>
        /\ q[i][1] = "signal" /\ i < Len(q) => q[i + 1][1] = "swap"

BuildList(q) ==
    \A i \in 1 .. Len(q) :
        /\ q[i][2] \in SidesIn
        /\ q[i][1] = "memory" => i < Len(q) /\ q[i + 1] = <<"unit", q[i][2]>>
        /\ q[i][1] = "unit" => i < Len(q) /\ q[i + 1] = <<"initialized", q[i][2]>>
        /\ q[i][1] = "initialized" /\ i < Len(q) => q[i + 1][1] = "memory"

In(task, q) == \E i \in 1 .. Len(q) : q[i] = task

-----------------------------------------------------------------------------
(* The lists.                                                              *)

\* A task is its step and its side.
LEMMA TaskIs ==
  ASSUME NEW t \in Tasks
  PROVE  t[1] \in Steps /\ t[2] \in Sides /\ t = <<t[1], t[2]>>
BY DEF Tasks

\* What is left of a list after its first k steps.
LEMMA Suffix ==
  ASSUME NEW S, NEW q \in Seq(S), NEW k \in Nat, k <= Len(q)
  PROVE  LET r == SubSeq(q, k + 1, Len(q))
         IN  /\ r \in Seq(S) /\ Len(r) \in Nat /\ Len(r) = Len(q) - k /\ Len(q) \in Nat
             /\ \A i \in 1 .. Len(r) : r[i] = q[k + i] /\ k + i \in 1 .. Len(q)
<1> DEFINE r == SubSeq(q, k + 1, Len(q))
<1>1. Len(q) \in Nat /\ \A i \in k + 1 .. Len(q) : q[i] \in S
  BY LenProperties, ElementOfSeq
<1>2. /\ r \in Seq(S) /\ Len(r) = (IF k + 1 <= Len(q) THEN Len(q) - (k + 1) + 1 ELSE 0)
      /\ \A i \in 1 .. Len(q) - (k + 1) + 1 : r[i] = q[k + 1 + i - 1]
  BY <1>1, SubSeqProperties
<1> HIDE DEF r
<1>3. Len(r) = Len(q) - k
  BY <1>1, <1>2
<1>4. ASSUME NEW i \in 1 .. Len(r)
      PROVE  r[i] = q[k + i] /\ k + i \in 1 .. Len(q)
  <2>1. i \in 1 .. Len(q) - (k + 1) + 1 /\ k + 1 + i - 1 = k + i /\ k + i \in 1 .. Len(q)
    BY <1>1, <1>3
  <2>2. QED
    BY <1>2, <2>1
<1>5. QED
  BY <1>1, <1>2, <1>3, <1>4 DEF r

\* The first of a list that is not empty, and what is left after it.
LEMMA Popped ==
  ASSUME NEW S, NEW q \in Seq(S), q # <<>>
  PROVE  /\ Len(q) \in Nat /\ Len(q) >= 1 /\ Head(q) = q[1] /\ q[1] \in S
         /\ Tail(q) = SubSeq(q, 2, Len(q)) /\ Tail(q) \in Seq(S)
         /\ \A t : In(t, q) <=> t = q[1] \/ In(t, Tail(q))
<1>1. Len(q) \in Nat /\ Len(q) >= 1 /\ Head(q) = q[1] /\ q[1] \in S
  BY LenProperties, EmptySeq, ElementOfSeq, HeadTailProperties
<1>2. Tail(q) \in Seq(S) /\ Len(Tail(q)) = Len(q) - 1 /\ \A i \in 1 .. Len(Tail(q)) : Tail(q)[i] = q[i + 1]
  BY HeadTailProperties
<1>3. Tail(q) = SubSeq(q, 2, Len(q))
  BY <1>1
<1>4. ASSUME NEW t
      PROVE  In(t, q) <=> t = q[1] \/ In(t, Tail(q))
  <2>1. ASSUME In(t, Tail(q))
        PROVE  In(t, q)
    <3>1. PICK i \in 1 .. Len(Tail(q)) : Tail(q)[i] = t
      BY <2>1 DEF In
    <3>2. i + 1 \in 1 .. Len(q) /\ q[i + 1] = t
      BY <1>1, <1>2, <3>1
    <3>3. QED
      BY <3>2 DEF In
  <2>2. ASSUME In(t, q), t # q[1]
        PROVE  In(t, Tail(q))
    <3>1. PICK i \in 1 .. Len(q) : q[i] = t
      BY <2>2 DEF In
    <3>2. i - 1 \in 1 .. Len(Tail(q)) /\ (i - 1) + 1 = i
      BY <1>1, <1>2, <2>2, <3>1
    <3>3. Tail(q)[i - 1] = t
      BY <1>2, <3>1, <3>2
    <3>4. QED
      BY <3>2, <3>3 DEF In
  <2>3. 1 \in 1 .. Len(q)
    BY <1>1
  <2>4. QED
    BY <2>1, <2>2, <2>3 DEF In
<1>5. QED
  BY <1>1, <1>2, <1>3, <1>4

\* What is left of a list of Close is one.
LEMMA CloseRest ==
  ASSUME NEW q \in Seq(Tasks), CloseList(q), NEW k \in Nat, k <= Len(q)
  PROVE  CloseList(SubSeq(q, k + 1, Len(q)))
<1> DEFINE r == SubSeq(q, k + 1, Len(q))
<1>1. /\ Len(r) \in Nat /\ Len(r) = Len(q) - k /\ Len(q) \in Nat
      /\ \A i \in 1 .. Len(r) : r[i] = q[k + i] /\ k + i \in 1 .. Len(q)
  BY Suffix
<1> HIDE DEF r
<1>2. ASSUME NEW i \in 1 .. Len(r)
      PROVE  /\ r[i][1] # "unmap" => i < Len(r) /\ r[i + 1] = <<Following[r[i][1]], r[i][2]>>
             /\ r[i][1] = "unmap" /\ i < Len(r) => r[i + 1][1] = "swap"
             /\ \A j \in i + 1 .. Len(r) : r[j][1] = "swap" => r[i][2] = "output" /\ r[j][2] = "input"
  <2>1. /\ r[i] = q[k + i] /\ k + i \in 1 .. Len(q) /\ (i < Len(r) <=> k + i < Len(q))
        /\ i < Len(r) => r[i + 1] = q[(k + i) + 1]
    <3>1. i < Len(r) => i + 1 \in 1 .. Len(r) /\ k + (i + 1) = (k + i) + 1
      BY <1>1
    <3>2. QED
      BY <1>1, <3>1
  <2>2. \A j \in i + 1 .. Len(r) : r[j] = q[k + j] /\ k + j \in (k + i) + 1 .. Len(q)
    <3>1. \A j \in i + 1 .. Len(r) : j \in 1 .. Len(r) /\ (k + j \in 1 .. Len(q) => k + j \in (k + i) + 1 .. Len(q))
      BY <1>1
    <3>2. QED
      BY <1>1, <3>1
  <2> DEFINE m == k + i
  <2>3. m \in 1 .. Len(q)
    BY <2>1
  <2>4. /\ q[m][1] # "unmap" => m < Len(q) /\ q[m + 1] = <<Following[q[m][1]], q[m][2]>>
        /\ q[m][1] = "unmap" /\ m < Len(q) => q[m + 1][1] = "swap"
        /\ \A j \in m + 1 .. Len(q) : q[j][1] = "swap" => q[m][2] = "output" /\ q[j][2] = "input"
    BY <2>3, Zenon DEF CloseList
  <2>5. QED
    BY <2>1, <2>2, <2>4, Zenon
<1>3. QED
  BY <1>2 DEF CloseList, r

\* What is left of a list of Interrupt is one.
LEMMA CallRest ==
  ASSUME NEW q \in Seq(Tasks), CallList(q), NEW k \in Nat, k <= Len(q)
  PROVE  CallList(SubSeq(q, k + 1, Len(q)))
<1> DEFINE r == SubSeq(q, k + 1, Len(q))
<1>1. /\ Len(r) \in Nat /\ Len(r) = Len(q) - k /\ Len(q) \in Nat
      /\ \A i \in 1 .. Len(r) : r[i] = q[k + i] /\ k + i \in 1 .. Len(q)
  BY Suffix
<1> HIDE DEF r
<1>2. ASSUME NEW i \in 1 .. Len(r)
      PROVE  /\ r[i][1] \in {"swap", "check", "signal"} /\ r[i][2] \in SidesIn
             /\ r[i][1] # "signal" => i < Len(r) /\ r[i + 1] = <<Following[r[i][1]], r[i][2]>>
             /\ r[i][1] = "signal" /\ i < Len(r) => r[i + 1][1] = "swap"
  <2>1. /\ r[i] = q[k + i] /\ k + i \in 1 .. Len(q) /\ (i < Len(r) <=> k + i < Len(q))
        /\ i < Len(r) => r[i + 1] = q[(k + i) + 1]
    <3>1. i < Len(r) => i + 1 \in 1 .. Len(r) /\ k + (i + 1) = (k + i) + 1
      BY <1>1
    <3>2. QED
      BY <1>1, <3>1
  <2> DEFINE m == k + i
  <2>2. /\ q[m][1] \in {"swap", "check", "signal"} /\ q[m][2] \in SidesIn
        /\ q[m][1] # "signal" => m < Len(q) /\ q[m + 1] = <<Following[q[m][1]], q[m][2]>>
        /\ q[m][1] = "signal" /\ m < Len(q) => q[m + 1][1] = "swap"
    BY <2>1, Zenon DEF CallList
  <2>3. QED
    BY <2>1, <2>2, Zenon
<1>3. QED
  BY <1>2 DEF CallList, r

\* What is left of a list of Open is one.
LEMMA BuildRest ==
  ASSUME NEW q \in Seq(Builds), BuildList(q), q # <<>>
  PROVE  BuildList(Tail(q))
<1> DEFINE r == Tail(q)
<1>1. /\ Len(r) = Len(q) - 1 /\ Len(q) \in Nat /\ \A i \in 1 .. Len(r) : r[i] = q[i + 1]
  BY HeadTailProperties, LenProperties
<1> HIDE DEF r
<1>2. ASSUME NEW i \in 1 .. Len(r)
      PROVE  /\ r[i][2] \in SidesIn
             /\ r[i][1] = "memory" => i < Len(r) /\ r[i + 1] = <<"unit", r[i][2]>>
             /\ r[i][1] = "unit" => i < Len(r) /\ r[i + 1] = <<"initialized", r[i][2]>>
             /\ r[i][1] = "initialized" /\ i < Len(r) => r[i + 1][1] = "memory"
  <2> DEFINE m == i + 1
  <2>1. /\ r[i] = q[m] /\ m \in 1 .. Len(q) /\ (i < Len(r) <=> m < Len(q))
        /\ i < Len(r) => r[i + 1] = q[m + 1]
    BY <1>1
  <2> HIDE DEF m
  <2>2. /\ q[m][2] \in SidesIn
        /\ q[m][1] = "memory" => m < Len(q) /\ q[m + 1] = <<"unit", q[m][2]>>
        /\ q[m][1] = "unit" => m < Len(q) /\ q[m + 1] = <<"initialized", q[m][2]>>
        /\ q[m][1] = "initialized" /\ m < Len(q) => q[m + 1][1] = "memory"
    BY <2>1, Zenon DEF BuildList
  <2>3. QED
    BY <2>1, <2>2, Zenon
<1>3. QED
  BY <1>2 DEF BuildList, r

-----------------------------------------------------------------------------
(* The lists a stream begins with.                                         *)

\* The eight steps of Close on one side.
LEMMA CloseOfOne ==
  ASSUME NEW d \in Sides
  PROVE  LET c == CloseOf(d)
         IN  /\ c \in Seq(Tasks) /\ Len(c) = 8
             /\ c[1] = <<"swap", d>> /\ c[2] = <<"check", d>> /\ c[3] = <<"signal", d>>
             /\ c[4] = <<"stop", d>> /\ c[5] = <<"dispose", d>> /\ c[6] = <<"seal", d>>
             /\ c[7] = <<"destroy", d>> /\ c[8] = <<"unmap", d>>
<1> DEFINE a == <<<<"swap", d>>, <<"check", d>>, <<"signal", d>>>>
           b == <<<<"stop", d>>, <<"dispose", d>>, <<"seal", d>>, <<"destroy", d>>, <<"unmap", d>>>>
<1>1. a \in Seq(Tasks) /\ b \in Seq(Tasks) /\ Len(a) = 3 /\ Len(b) = 5
  BY DEF Tasks, Steps
<1>2. /\ a[1] = <<"swap", d>> /\ a[2] = <<"check", d>> /\ a[3] = <<"signal", d>>
      /\ b[1] = <<"stop", d>> /\ b[2] = <<"dispose", d>> /\ b[3] = <<"seal", d>>
      /\ b[4] = <<"destroy", d>> /\ b[5] = <<"unmap", d>>
  OBVIOUS
<1>3. CloseOf(d) = a \o b
  BY DEF CloseOf, InterruptOf
<1> HIDE DEF a, b
<1> DEFINE c == a \o b
<1>4. /\ c \in Seq(Tasks) /\ Len(c) = Len(a) + Len(b)
      /\ \A i \in 1 .. Len(a) + Len(b) : c[i] = IF i <= Len(a) THEN a[i] ELSE b[i - Len(a)]
  BY <1>1, ConcatProperties
<1> HIDE DEF c
<1>5. Len(c) = 8 /\ \A i \in 1 .. 8 : c[i] = IF i <= 3 THEN a[i] ELSE b[i - 3]
  BY <1>1, <1>4
<1>6. /\ c[1] = a[1] /\ c[2] = a[2] /\ c[3] = a[3] /\ c[4] = b[1] /\ c[5] = b[2] /\ c[6] = b[3]
      /\ c[7] = b[4] /\ c[8] = b[5]
  BY <1>5
<1>7. QED
  BY <1>2, <1>3, <1>4, <1>5, <1>6 DEF c

\* The list of one side, by its places.
LEMMA CloseOfPlaces ==
  ASSUME NEW d \in Sides, NEW i \in 1 .. 8
  PROVE  LET c == CloseOf(d)
         IN  /\ c[i][2] = d /\ (c[i][1] = "swap" <=> i = 1) /\ (c[i][1] = "unmap" <=> i = 8)
             /\ i < 8 => c[i + 1] = <<Following[c[i][1]], d>>
<1> DEFINE c == CloseOf(d)
<1>1. /\ c[1] = <<"swap", d>> /\ c[2] = <<"check", d>> /\ c[3] = <<"signal", d>>
      /\ c[4] = <<"stop", d>> /\ c[5] = <<"dispose", d>> /\ c[6] = <<"seal", d>>
      /\ c[7] = <<"destroy", d>> /\ c[8] = <<"unmap", d>>
  BY CloseOfOne
<1> HIDE DEF c
<1>2. i = 1 \/ i = 2 \/ i = 3 \/ i = 4 \/ i = 5 \/ i = 6 \/ i = 7 \/ i = 8
  OBVIOUS
<1>3. /\ c[i][2] = d /\ (c[i][1] = "swap" <=> i = 1) /\ (c[i][1] = "unmap" <=> i = 8)
      /\ i < 8 => c[i + 1] = <<Following[c[i][1]], d>>
  <2>1. CASE i = 1
    BY <1>1, <2>1 DEF Following
  <2>2. CASE i = 2
    BY <1>1, <2>2 DEF Following
  <2>3. CASE i = 3
    BY <1>1, <2>3 DEF Following
  <2>4. CASE i = 4
    BY <1>1, <2>4 DEF Following
  <2>5. CASE i = 5
    BY <1>1, <2>5 DEF Following
  <2>6. CASE i = 6
    BY <1>1, <2>6 DEF Following
  <2>7. CASE i = 7
    BY <1>1, <2>7 DEF Following
  <2>8. CASE i = 8
    BY <1>1, <2>8 DEF Following
  <2>9. QED
    BY <1>2, <2>1, <2>2, <2>3, <2>4, <2>5, <2>6, <2>7, <2>8
<1>4. QED
  BY <1>3 DEF c

Choices == {<<"output">>, <<"input">>, <<"output", "input">>}

\* What Close goes through, whichever halves there are.
LEMMA CloseAllOk ==
  ASSUME NEW sides \in Choices
  PROVE  LET q == CloseAll(sides)
         IN  /\ q \in Seq(Tasks) /\ q # <<>> /\ q[1][1] = "swap" /\ CloseList(q)
             /\ \A d \in Sides : In(d, sides) =>
                  In(<<"dispose", d>>, q) /\ In(<<"unmap", d>>, q)
             /\ \A i \in 1 .. Len(q) : In(q[i][2], sides)
<1>1. ASSUME NEW d \in Sides, sides = <<d>>
      PROVE  LET q == CloseAll(sides)
             IN  /\ q \in Seq(Tasks) /\ q # <<>> /\ q[1][1] = "swap" /\ CloseList(q)
                 /\ In(<<"dispose", d>>, q) /\ In(<<"unmap", d>>, q)
                 /\ \A i \in 1 .. Len(q) : q[i][2] = d
  <2> DEFINE q == CloseOf(d)
  <2>1. CloseAll(sides) = q
    BY <1>1 DEF CloseAll, Each
  <2>2. /\ q \in Seq(Tasks) /\ Len(q) = 8 /\ q[1] = <<"swap", d>> /\ q[5] = <<"dispose", d>>
        /\ q[8] = <<"unmap", d>>
    BY CloseOfOne
  <2>3. \A i \in 1 .. 8 : /\ q[i][2] = d /\ (q[i][1] = "swap" <=> i = 1) /\ (q[i][1] = "unmap" <=> i = 8)
                          /\ i < 8 => q[i + 1] = <<Following[q[i][1]], d>>
    BY CloseOfPlaces
  <2> HIDE DEF q
  <2>4. CloseList(q)
    BY <2>2, <2>3 DEF CloseList
  <2>5. q # <<>>
    BY <2>2, EmptySeq
  <2>6. QED
    BY <2>1, <2>2, <2>3, <2>4, <2>5 DEF In
<1>2. ASSUME sides = <<"output", "input">>
      PROVE  LET q == CloseAll(sides)
             IN  /\ q \in Seq(Tasks) /\ q # <<>> /\ q[1][1] = "swap" /\ CloseList(q)
                 /\ \A d \in Sides : In(<<"dispose", d>>, q) /\ In(<<"unmap", d>>, q)
                 /\ \A i \in 1 .. Len(q) : q[i][2] \in Sides
  <2> DEFINE a == CloseOf("output")
             b == CloseOf("input")
             q == a \o b
  <2>1. CloseAll(sides) = q
    BY <1>2 DEF CloseAll, Each
  <2>2. /\ a \in Seq(Tasks) /\ Len(a) = 8 /\ a[1] = <<"swap", "output">> /\ a[5] = <<"dispose", "output">>
        /\ a[8] = <<"unmap", "output">>
        /\ b \in Seq(Tasks) /\ Len(b) = 8 /\ b[1] = <<"swap", "input">> /\ b[5] = <<"dispose", "input">>
        /\ b[8] = <<"unmap", "input">>
    BY CloseOfOne DEF Sides
  <2>3. \A i \in 1 .. 8 :
          /\ a[i][2] = "output" /\ (a[i][1] = "swap" <=> i = 1) /\ (a[i][1] = "unmap" <=> i = 8)
          /\ i < 8 => a[i + 1] = <<Following[a[i][1]], "output">>
    BY CloseOfPlaces DEF Sides
  <2>4. \A i \in 1 .. 8 :
          /\ b[i][2] = "input" /\ (b[i][1] = "swap" <=> i = 1) /\ (b[i][1] = "unmap" <=> i = 8)
          /\ i < 8 => b[i + 1] = <<Following[b[i][1]], "input">>
    BY CloseOfPlaces DEF Sides
  <2> HIDE DEF a, b
  <2>5. /\ q \in Seq(Tasks) /\ Len(q) = Len(a) + Len(b)
        /\ \A i \in 1 .. Len(a) + Len(b) : q[i] = IF i <= Len(a) THEN a[i] ELSE b[i - Len(a)]
    BY <2>2, ConcatProperties
  <2> HIDE DEF q
  <2>6. Len(q) = 16 /\ (\A i \in 1 .. 8 : q[i] = a[i]) /\ (\A i \in 9 .. 16 : q[i] = b[i - 8])
    BY <2>2, <2>5
  <2>7. ASSUME NEW i \in 1 .. 8
        PROVE  /\ q[i][1] # "unmap" => i < Len(q) /\ q[i + 1] = <<Following[q[i][1]], q[i][2]>>
               /\ q[i][1] = "unmap" /\ i < Len(q) => q[i + 1][1] = "swap"
               /\ q[i][2] = "output" /\ (q[i][1] = "swap" => i = 1)
    <3>1. q[i] = a[i] /\ (i < 8 => q[i + 1] = a[i + 1]) /\ (i = 8 => q[i + 1] = b[1])
      BY <2>6
    <3>2. QED
      BY <2>2, <2>3, <2>6, <3>1
  <2>8. ASSUME NEW i \in 9 .. 16
        PROVE  /\ q[i][1] # "unmap" => i < Len(q) /\ q[i + 1] = <<Following[q[i][1]], q[i][2]>>
               /\ q[i][1] = "unmap" => i = Len(q)
               /\ q[i][2] = "input" /\ (q[i][1] = "swap" => i = 9)
    <3> DEFINE m == i - 8
    <3>1. q[i] = b[m] /\ m \in 1 .. 8 /\ (m < 8 => i < 16 /\ q[i + 1] = b[m + 1]) /\ (m = 8 => i = 16)
          /\ (m = 1 => i = 9)
      BY <2>6
    <3> HIDE DEF m
    <3>2. QED
      BY <2>4, <2>6, <3>1
  <2>9. CloseList(q)
    <3> SUFFICES ASSUME NEW i \in 1 .. Len(q)
                 PROVE  /\ q[i][1] # "unmap" => i < Len(q) /\ q[i + 1] = <<Following[q[i][1]], q[i][2]>>
                        /\ q[i][1] = "unmap" /\ i < Len(q) => q[i + 1][1] = "swap"
                        /\ \A j \in i + 1 .. Len(q) : q[j][1] = "swap" => q[i][2] = "output" /\ q[j][2] = "input"
      BY DEF CloseList
    <3>1. i \in 1 .. 8 \/ i \in 9 .. 16
      BY <2>6
    <3>2. ASSUME NEW j \in i + 1 .. Len(q), q[j][1] = "swap"
          PROVE  q[i][2] = "output" /\ q[j][2] = "input"
      <4>1. (j \in 1 .. 8 /\ j # 1) \/ (j \in 9 .. 16 /\ (j = 9 => i \in 1 .. 8))
        BY <2>6
      <4>2. /\ \A k \in 1 .. 8 : q[k][2] = "output" /\ (q[k][1] = "swap" => k = 1)
            /\ \A k \in 9 .. 16 : q[k][2] = "input" /\ (q[k][1] = "swap" => k = 9)
        BY <2>7, <2>8, Zenon
      <4>3. QED
        BY <3>2, <4>1, <4>2, Zenon
    <3>3. CASE i \in 1 .. 8
      <4>1. /\ q[i][1] # "unmap" => i < Len(q) /\ q[i + 1] = <<Following[q[i][1]], q[i][2]>>
            /\ q[i][1] = "unmap" /\ i < Len(q) => q[i + 1][1] = "swap"
        BY <2>7, <3>3, Zenon
      <4>2. QED
        BY <3>2, <4>1, Zenon
    <3>4. CASE i \in 9 .. 16
      <4>1. /\ q[i][1] # "unmap" => i < Len(q) /\ q[i + 1] = <<Following[q[i][1]], q[i][2]>>
            /\ q[i][1] = "unmap" => i = Len(q)
        BY <2>8, <3>4, Zenon
      <4>2. i = Len(q) => ~(i < Len(q))
        BY <2>6
      <4>3. QED
        BY <3>2, <4>1, <4>2, Zenon
    <3>5. QED
      BY <3>1, <3>3, <3>4
  <2>10. q # <<>> /\ q[1][1] = "swap" /\ (\A i \in 1 .. Len(q) : q[i][2] \in Sides)
    <3>1. q # <<>>
      <4>1. Len(q) # Len(<<>>)
        BY <2>6
      <4>2. QED
        BY <4>1, Zenon
    <3>2. q[1][1] = "swap"
      BY <2>2, <2>6
    <3>3. \A i \in 1 .. Len(q) : q[i][2] \in Sides
      BY <2>6, <2>7, <2>8 DEF Sides
    <3>4. QED
      BY <3>1, <3>2, <3>3
  <2>11. /\ q[5] = <<"dispose", "output">> /\ q[8] = <<"unmap", "output">>
         /\ q[13] = <<"dispose", "input">> /\ q[16] = <<"unmap", "input">>
    BY <2>2, <2>6
  <2>12. \A d \in Sides : In(<<"dispose", d>>, q) /\ In(<<"unmap", d>>, q)
    BY <2>6, <2>11 DEF In, Sides
  <2>13. QED
    BY <2>1, <2>5, <2>9, <2>10, <2>12
<1>3. \A d \in Sides : sides = <<d>> => \A e : In(e, sides) <=> e = d
  BY DEF In
<1>4. sides = <<"output", "input">> => \A e : In(e, sides) <=> e \in Sides
  BY DEF In, Sides
<1>5. sides = <<"output">> \/ sides = <<"input">> \/ sides = <<"output", "input">>
  BY DEF Choices
<1>6. CASE sides = <<"output", "input">>
  BY <1>2, <1>4, <1>6, Zenon
<1>7. CASE sides = <<"output">> \/ sides = <<"input">>
  <2>1. PICK d \in Sides : sides = <<d>>
    BY <1>7 DEF Sides
  <2>2. QED
    BY <1>1, <1>3, <2>1, Zenon
<1>8. QED
  BY <1>5, <1>6, <1>7

\* The halves of a stream, as a list.
LEMMA HalvesOk ==
  ASSUME mode \in {"output", "input", "duplex"}
  PROVE  /\ HalvesOf(mode) \in Choices /\ \A d : In(d, HalvesOf(mode)) <=> d \in SidesIn
         /\ SidesIn \subseteq Sides
         /\ mode = "duplex" => HalvesOf(mode) = <<"output", "input">> /\ SidesIn = Sides
         /\ mode # "duplex" => HalvesOf(mode) = <<mode>> /\ SidesIn = {mode} /\ mode \in Sides
<1>1. CASE mode = "duplex"
  BY <1>1 DEF HalvesOf, SidesIn, Sides, Choices, In
<1>2. CASE mode \in {"output", "input"}
  BY <1>2 DEF HalvesOf, SidesIn, Sides, Choices, In
<1>3. QED
  BY <1>1, <1>2

\* Two lists of three, one after the other.
LEMMA TwoTriples ==
  ASSUME NEW S, NEW a \in Seq(S), NEW b \in Seq(S), Len(a) = 3, Len(b) = 3
  PROVE  LET q == a \o b
         IN  /\ q \in Seq(S) /\ Len(q) = 6
             /\ q[1] = a[1] /\ q[2] = a[2] /\ q[3] = a[3] /\ q[4] = b[1] /\ q[5] = b[2] /\ q[6] = b[3]
<1> DEFINE q == a \o b
<1>1. /\ q \in Seq(S) /\ Len(q) = Len(a) + Len(b)
      /\ \A i \in 1 .. Len(a) + Len(b) : q[i] = IF i <= Len(a) THEN a[i] ELSE b[i - Len(a)]
  BY ConcatProperties
<1> HIDE DEF q
<1>2. Len(q) = 6 /\ \A i \in 1 .. 6 : q[i] = IF i <= 3 THEN a[i] ELSE b[i - 3]
  BY <1>1
<1>3. q[1] = a[1] /\ q[2] = a[2] /\ q[3] = a[3] /\ q[4] = b[1] /\ q[5] = b[2] /\ q[6] = b[3]
  BY <1>2
<1>4. QED
  BY <1>1, <1>2, <1>3 DEF q

\* The list of the goroutine that stops the stream.
LEMMA InterruptOk ==
  ASSUME mode \in {"output", "input", "duplex"}
  PROVE  LET q == InterruptAll(InterruptedSides(mode))
         IN  q \in Seq(Tasks) /\ CallList(q) /\ q[1][1] = "swap"
<1> DEFINE one(d) == <<<<"swap", d>>, <<"check", d>>, <<"signal", d>>>>
<1>0. \A d \in Sides : /\ one(d) \in Seq(Tasks) /\ Len(one(d)) = 3 /\ one(d)[1] = <<"swap", d>>
                       /\ one(d)[2] = <<"check", d>> /\ one(d)[3] = <<"signal", d>>
  BY DEF Tasks, Steps
<1>1. CASE mode # "duplex"
  <2> DEFINE q == one(mode)
  <2>1. InterruptAll(InterruptedSides(mode)) = q /\ mode \in Sides /\ SidesIn = {mode}
    <3>1. HalvesOf(mode) = <<mode>> /\ mode \in Sides /\ SidesIn = {mode}
      BY <1>1, HalvesOk
    <3>2. InterruptAll(<<mode>>) = InterruptOf(mode)
      BY DEF InterruptAll, Each
    <3>3. QED
      BY <3>1, <3>2, Zenon DEF InterruptedSides, InterruptOf
  <2>2. q \in Seq(Tasks) /\ Len(q) = 3 /\ q[1] = <<"swap", mode>> /\ q[2] = <<"check", mode>> /\ q[3] = <<"signal", mode>>
    BY <1>0, <2>1
  <2> HIDE DEF q
  <2>3. \A i \in 1 .. 3 : i = 1 \/ i = 2 \/ i = 3
    OBVIOUS
  <2>4. CallList(q)
    BY <2>1, <2>2, <2>3 DEF CallList, Following
  <2>5. QED
    BY <2>1, <2>2, <2>4
<1>2. CASE mode = "duplex"
  <2> DEFINE a == one("output")
             b == one("input")
             q == a \o b
  <2>1. InterruptAll(InterruptedSides(mode)) = q /\ SidesIn = {"output", "input"}
    <3>1. HalvesOf(mode) = <<"output", "input">> /\ SidesIn = {"output", "input"}
      BY <1>2, HalvesOk DEF Sides
    <3>2. InterruptAll(<<"output", "input">>) = InterruptOf("output") \o InterruptOf("input")
      BY DEF InterruptAll, Each
    <3>3. QED
      BY <3>1, <3>2, Zenon DEF InterruptedSides, InterruptOf
  <2>2. /\ a \in Seq(Tasks) /\ Len(a) = 3 /\ a[1] = <<"swap", "output">> /\ a[2] = <<"check", "output">>
        /\ a[3] = <<"signal", "output">>
        /\ b \in Seq(Tasks) /\ Len(b) = 3 /\ b[1] = <<"swap", "input">> /\ b[2] = <<"check", "input">>
        /\ b[3] = <<"signal", "input">>
    BY <1>0 DEF Sides
  <2> HIDE DEF a, b
  <2>3. /\ q \in Seq(Tasks) /\ Len(q) = 6
        /\ q[1] = <<"swap", "output">> /\ q[2] = <<"check", "output">> /\ q[3] = <<"signal", "output">>
        /\ q[4] = <<"swap", "input">> /\ q[5] = <<"check", "input">> /\ q[6] = <<"signal", "input">>
    BY <2>2, TwoTriples
  <2> HIDE DEF q
  <2>4. \A i \in 1 .. 6 : i = 1 \/ i = 2 \/ i = 3 \/ i = 4 \/ i = 5 \/ i = 6
    OBVIOUS
  <2>5. CallList(q)
    BY <2>1, <2>3, <2>4 DEF CallList, Following
  <2>6. QED
    BY <2>1, <2>3, <2>5
<1>3. QED
  BY <1>1, <1>2

\* The list of Open.
LEMMA BuildOk ==
  ASSUME mode \in {"output", "input", "duplex"}
  PROVE  LET q == BuildAll(HalvesOf(mode))
         IN  /\ q \in Seq(Builds) /\ BuildList(q) /\ q # <<>> /\ q[1][1] = "memory"
             /\ \A d \in SidesIn, x \in {"memory", "unit", "initialized"} : In(<<x, d>>, q)
<1>0. \A d \in Sides : /\ BuildOf(d) \in Seq(Builds) /\ Len(BuildOf(d)) = 3 /\ BuildOf(d)[1] = <<"memory", d>>
                       /\ BuildOf(d)[2] = <<"unit", d>> /\ BuildOf(d)[3] = <<"initialized", d>>
  BY DEF Builds, BuildOf
<1>1. CASE mode # "duplex"
  <2> DEFINE q == BuildOf(mode)
  <2>1. BuildAll(HalvesOf(mode)) = q /\ mode \in Sides /\ SidesIn = {mode}
    <3>1. HalvesOf(mode) = <<mode>> /\ mode \in Sides /\ SidesIn = {mode}
      BY <1>1, HalvesOk
    <3>2. BuildAll(<<mode>>) = BuildOf(mode)
      BY DEF BuildAll, Each
    <3>3. QED
      BY <3>1, <3>2, Zenon
  <2>2. q \in Seq(Builds) /\ Len(q) = 3 /\ q[1] = <<"memory", mode>> /\ q[2] = <<"unit", mode>> /\ q[3] = <<"initialized", mode>>
    BY <1>0, <2>1
  <2> HIDE DEF q
  <2>3. \A i \in 1 .. 3 : i = 1 \/ i = 2 \/ i = 3
    OBVIOUS
  <2>4. BuildList(q)
    BY <2>1, <2>2, <2>3 DEF BuildList
  <2>5. q # <<>> /\ \A d \in SidesIn, x \in {"memory", "unit", "initialized"} : In(<<x, d>>, q)
    BY <2>1, <2>2 DEF In
  <2>6. QED
    BY <2>1, <2>2, <2>4, <2>5
<1>2. CASE mode = "duplex"
  <2> DEFINE a == BuildOf("output")
             b == BuildOf("input")
             q == a \o b
  <2>1. BuildAll(HalvesOf(mode)) = q /\ SidesIn = {"output", "input"}
    <3>1. HalvesOf(mode) = <<"output", "input">> /\ SidesIn = {"output", "input"}
      BY <1>2, HalvesOk DEF Sides
    <3>2. BuildAll(<<"output", "input">>) = BuildOf("output") \o BuildOf("input")
      BY DEF BuildAll, Each
    <3>3. QED
      BY <3>1, <3>2, Zenon
  <2>2. /\ a \in Seq(Builds) /\ Len(a) = 3 /\ a[1] = <<"memory", "output">> /\ a[2] = <<"unit", "output">>
        /\ a[3] = <<"initialized", "output">>
        /\ b \in Seq(Builds) /\ Len(b) = 3 /\ b[1] = <<"memory", "input">> /\ b[2] = <<"unit", "input">>
        /\ b[3] = <<"initialized", "input">>
    BY <1>0 DEF Sides
  <2> HIDE DEF a, b
  <2>3. /\ q \in Seq(Builds) /\ Len(q) = 6
        /\ q[1] = <<"memory", "output">> /\ q[2] = <<"unit", "output">> /\ q[3] = <<"initialized", "output">>
        /\ q[4] = <<"memory", "input">> /\ q[5] = <<"unit", "input">> /\ q[6] = <<"initialized", "input">>
    BY <2>2, TwoTriples
  <2> HIDE DEF q
  <2>4. \A i \in 1 .. 6 : i = 1 \/ i = 2 \/ i = 3 \/ i = 4 \/ i = 5 \/ i = 6
    OBVIOUS
  <2>5. BuildList(q)
    BY <2>1, <2>3, <2>4 DEF BuildList
  <2>6. \A d \in SidesIn, x \in {"memory", "unit", "initialized"} : In(<<x, d>>, q)
    BY <2>1, <2>3 DEF In
  <2>7. q # <<>>
    BY <2>3, EmptySeq
  <2>8. QED
    BY <2>1, <2>3, <2>5, <2>6, <2>7
<1>3. QED
  BY <1>1, <1>2

-----------------------------------------------------------------------------
(* The units.                                                              *)

W == work["closer"]
At(p) == Head(work[p])[1]
Disposed(d) == d \notin running /\ cb[d] = "idle"

UnitsType ==
    /\ mode \in {"output", "input", "duplex"}
    /\ phase \in {"open", "opened", "closing", "closed"}
    /\ build \in Seq(Builds) /\ has \in [Sides -> SUBSET Parts]
    /\ running \subseteq Sides /\ checked \subseteq Workers /\ work \in [Workers -> Seq(Tasks)]
    /\ wakeMu = [d \in Sides |-> wakeMu[d]] /\ cb = [d \in Sides |-> cb[d]]

ListInv ==
    /\ CallList(work["caller"]) /\ CloseList(W)
    /\ phase # "closing" => W = <<>>

\* Whoever is about to signal holds the half's lock, and found it open.
LockInv ==
    /\ \A p \in Workers : work[p] # <<>> /\ At(p) = "signal" => wakeMu[Of(p)] = p
    /\ \A p \in checked : /\ phase # "open" /\ work[p] # <<>> /\ At(p) = "signal"
                          /\ Of(p) \notin closed

\* What Open has made, and what it has still to make.
OpenInv ==
    /\ phase = "open" =>
         /\ BuildList(build) /\ build # <<>>
         /\ Head(build)[1] # "memory" => "memory" \in has[Head(build)[2]]
         /\ \A d \in SidesIn, x \in {"memory", "unit", "initialized"} : x \in has[d] \/ In(<<x, d>>, build)
    /\ phase \in {"open", "opened"} =>
         \A d \in Sides : has[d] # {} => {"memory", "semaphore"} \subseteq has[d] /\ d \in SidesIn
    /\ phase = "opened" => \A d \in SidesIn : {"memory", "semaphore", "unit"} \subseteq has[d]

\* A unit that may call back has all it needs, and is still to be disposed of.
RunsInv ==
    \A d \in Sides : ~Disposed(d) =>
        /\ {"memory", "semaphore", "unit"} \subseteq has[d]
        /\ phase \in {"opened", "closing"}
        /\ phase = "closing" => In(<<"dispose", d>>, W)

\* Who interrupts finds the semaphore, or the half closed.
CallerInv ==
    phase # "open" /\ work["caller"] # <<>> => \A d \in SidesIn : d \in closed \/ "semaphore" \in has[d]

\* What exists is still to be taken apart; what the closer has passed is gone.
CloseInv ==
    /\ phase = "closed" => \A d \in Sides : has[d] = {}
    /\ phase = "closing" =>
         /\ \A d \in Sides : has[d] # {} => In(<<"unmap", d>>, W)
         /\ \A d \in Sides : In(<<"swap", d>>, W) => "semaphore" \in has[d]
         /\ W # <<>> =>
              /\ At("closer") # "unmap" => "semaphore" \in has[Of("closer")]
              /\ At("closer") \in {"seal", "destroy", "unmap"} =>
                   Disposed(Of("closer")) /\ has[Of("closer")] \subseteq {"memory", "semaphore"}
              /\ At("closer") \in {"destroy", "unmap"} => Of("closer") \in closed
              /\ At("closer") = "unmap" => has[Of("closer")] \subseteq {"memory"}

UnitsInv == UnitsType /\ ListInv /\ LockInv /\ OpenInv /\ RunsInv /\ CallerInv /\ CloseInv

\* The invariant of the units holds before Open.
LEMMA UnitsStart == StreamInit => UnitsInv
<1> SUFFICES ASSUME StreamInit PROVE UnitsInv
  OBVIOUS
<1> USE DEF StreamInit, UnitsInit
<1>1. mode \in {"output", "input", "duplex"}
  BY UnitsAssumption
<1>2. /\ build \in Seq(Builds) /\ BuildList(build) /\ build # <<>> /\ Head(build)[1] = "memory"
      /\ \A d \in SidesIn, x \in {"memory", "unit", "initialized"} : In(<<x, d>>, build)
  BY <1>1, BuildOk, Popped
<1>3. /\ work["caller"] \in Seq(Tasks) /\ CallList(work["caller"]) /\ work["caller"][1][1] = "swap"
      /\ W = <<>> /\ work = [p \in Workers |-> work[p]]
  BY <1>1, InterruptOk DEF W, Workers
<1>4. <<>> \in Seq(Tasks) /\ CloseList(<<>>)
  BY DEF CloseList
<1>5. work \in [Workers -> Seq(Tasks)]
  BY <1>3, <1>4 DEF Workers, W
<1>6. UnitsType
  BY <1>1, <1>2, <1>5 DEF UnitsType
<1>7. ListInv
  BY <1>3, <1>4 DEF ListInv
<1>8. LockInv
  <2>1. \A p \in Workers : work[p] # <<>> => At(p) = "swap"
    BY <1>3, <1>5, Popped DEF Workers, W, At
  <2>2. QED
    BY <2>1 DEF LockInv
<1>9. OpenInv /\ RunsInv /\ CallerInv /\ CloseInv
  BY <1>2 DEF OpenInv, RunsInv, CallerInv, CloseInv, Disposed
<1>10. QED
  BY <1>6, <1>7, <1>8, <1>9 DEF UnitsInv

\* The thread and the callbacks: no side comes to run that is not the opened
\* stream's, and had not run.
LEMMA ThreadLeaves ==
  ASSUME UnitsInv, UNCHANGED <<mode, phase, build, has, closed, wakeMu, work, checked>>,
         running' \subseteq Sides, cb' = [d \in Sides |-> cb'[d]],
         \A d \in Sides : Disposed(d) => Disposed(d)' \/ (phase = "opened" /\ d \in SidesIn)
  PROVE  UnitsInv'
<1> USE DEF UnitsInv
<1>1. SidesIn' = SidesIn
  BY DEF SidesIn
<1>2. UnitsType' /\ ListInv' /\ LockInv' /\ OpenInv' /\ CallerInv'
  <2>1. UnitsType'
    BY DEF UnitsType
  <2>2. ListInv'
    BY <1>1 DEF ListInv, CallList, CloseList, W
  <2>3. LockInv'
    BY DEF LockInv, At, Of
  <2>4. OpenInv'
    <3>0. build' = build
      OBVIOUS
    <3>1. BuildList(build)' <=> BuildList(build)
      BY ONLY <1>1, <3>0 DEF BuildList
    <3>2. \A t : In(t, build)' <=> In(t, build)
      BY ONLY <3>0 DEF In
    <3>3. QED
      BY <1>1, <3>1, <3>2 DEF OpenInv
  <2>5. CallerInv'
    BY <1>1 DEF CallerInv
  <2>6. QED
    BY <2>1, <2>2, <2>3, <2>4, <2>5
<1>3. RunsInv'
  <2>1. \A d \in Sides : ~Disposed(d)' => ~Disposed(d) \/ (phase = "opened" /\ d \in SidesIn)
    OBVIOUS
  <2>2. QED
    BY <2>1 DEF RunsInv, OpenInv, W, In
<1>4. CloseInv'
  <2>1. phase = "closing" => \A d \in Sides : Disposed(d) => Disposed(d)'
    OBVIOUS
  <2>2. phase = "closing" /\ W # <<>> => Of("closer") \in Sides
    BY Popped DEF UnitsType, W, Of, Tasks, Workers
  <2>3. QED
    BY <2>1, <2>2 DEF CloseInv, W, At, Of, In
<1>5. QED
  BY <1>2, <1>3, <1>4

\* A step of Open makes what its list says, and takes it off the list.
LEMMA OpenStepKeeps ==
  ASSUME UnitsInv, OpenStep
  PROVE  UnitsInv'
<1> USE DEF UnitsInv
<1> DEFINE x == Head(build)[1]
           d == Head(build)[2]
           new == IF x = "memory" THEN {"memory", "semaphore"} ELSE {x}
<1>1. /\ phase = "open" /\ build # <<>> /\ build' = Tail(build) /\ has' = [has EXCEPT ![d] = @ \cup new]
      /\ phase' = IF Tail(build) = <<>> THEN "opened" ELSE phase
      /\ UNCHANGED <<mode, running, closed, wakeMu, work, checked, cb>>
  BY DEF OpenStep
<1>2. /\ Head(build) = build[1] /\ build[1] \in Builds /\ 1 \in 1 .. Len(build) /\ Len(build) \in Nat
      /\ Tail(build) \in Seq(Builds) /\ Tail(build) = SubSeq(build, 2, Len(build))
      /\ \A t : In(t, build) <=> t = build[1] \/ In(t, Tail(build))
  BY <1>1, Popped DEF UnitsType
<1>3. /\ x \in {"memory", "unit", "initialized"} /\ d \in Sides /\ build[1] = <<x, d>> /\ d \in SidesIn
      /\ x = "memory" => build[2] = <<"unit", d>> /\ Len(build) > 1
      /\ x = "unit" => build[2] = <<"initialized", d>> /\ Len(build) > 1
      /\ x = "initialized" /\ 1 < Len(build) => build[2][1] = "memory"
      /\ x # "memory" => "memory" \in has[d]
  <2>1. BuildList(build) /\ (x # "memory" => "memory" \in has[d])
    BY <1>1 DEF OpenInv
  <2>2. x \in {"memory", "unit", "initialized"} /\ d \in Sides /\ build[1] = <<x, d>>
    BY <1>2 DEF Builds
  <2>3. 1 + 1 = 2
    OBVIOUS
  <2>4. QED
    BY <1>2, <2>1, <2>2, <2>3 DEF BuildList
<1>4. new \subseteq Parts /\ x \in new
  BY <1>3 DEF Parts
<1>5. SidesIn' = SidesIn
  BY <1>1 DEF SidesIn
<1>6. /\ has' \in [Sides -> SUBSET Parts] /\ has'[d] = has[d] \cup new
      /\ \A e \in Sides : e # d => has'[e] = has[e]
  BY <1>1, <1>3, <1>4 DEF UnitsType
<1>7. {"memory", "semaphore"} \subseteq has'[d]
  BY <1>1, <1>3, <1>6 DEF OpenInv
<1> HIDE DEF x, d, new
<1>8. BuildList(build)'
  <2>1. BuildList(Tail(build))
    BY <1>1, BuildRest DEF UnitsType, OpenInv
  <2> DEFINE r == Tail(build)
             listed(q) ==
               \A i \in 1 .. Len(q) :
                 /\ q[i][2] \in SidesIn
                 /\ q[i][1] = "memory" => i < Len(q) /\ q[i + 1] = <<"unit", q[i][2]>>
                 /\ q[i][1] = "unit" => i < Len(q) /\ q[i + 1] = <<"initialized", q[i][2]>>
                 /\ q[i][1] = "initialized" /\ i < Len(q) => q[i + 1][1] = "memory"
  <2>2. listed(r)
    BY <2>1 DEF BuildList
  <2>3. r = build'
    BY <1>1
  <2> HIDE DEF r
  <2>4. listed(build')
    BY <2>2, <2>3
  <2>5. QED
    BY <1>5, <2>4 DEF BuildList
<1>9. UnitsType'
  BY <1>1, <1>2, <1>6 DEF UnitsType
<1>10. ListInv'
  BY <1>1, <1>5 DEF ListInv, CallList, CloseList, W
<1>11. LockInv'
  BY <1>1 DEF LockInv, At, Of
<1>12. \A e \in SidesIn, y \in {"memory", "unit", "initialized"} : y \in has'[e] \/ In(<<y, e>>, Tail(build))
  <2>1. \A e \in SidesIn, y \in {"memory", "unit", "initialized"} : y \in has[e] \/ In(<<y, e>>, build)
    BY <1>1 DEF OpenInv
  <2>2. SidesIn \subseteq Sides
    BY HalvesOk DEF UnitsType
  <2>3. \A e \in SidesIn, y \in {"memory", "unit", "initialized"} :
          <<y, e>> = build[1] => y = x /\ e = d
    BY <1>3
  <2>4. QED
    BY <1>2, <1>4, <1>6, <2>1, <2>2, <2>3
<1>13. \A e \in Sides : has'[e] # {} => {"memory", "semaphore"} \subseteq has'[e] /\ e \in SidesIn
  BY <1>1, <1>3, <1>6, <1>7 DEF OpenInv
<1>14. Tail(build) # <<>> => (Head(Tail(build))[1] # "memory" => "memory" \in has'[Head(Tail(build))[2]])
  <2>1. ASSUME Tail(build) # <<>>
        PROVE  Head(Tail(build)) = build[2] /\ 1 < Len(build)
    <3>1. Head(Tail(build)) = Tail(build)[1] /\ Len(Tail(build)) >= 1
      BY <1>2, <2>1, Popped
    <3>2. Len(Tail(build)) = Len(build) - 1 /\ \A i \in 1 .. Len(Tail(build)) : Tail(build)[i] = build[i + 1]
      BY <1>1, HeadTailProperties DEF UnitsType
    <3>3. 1 \in 1 .. Len(Tail(build)) /\ 1 + 1 = 2
      BY <1>2, <3>1, <3>2
    <3>4. QED
      BY <1>2, <3>1, <3>2, <3>3
  <2>2. QED
    BY <1>3, <1>7, <2>1
<1>15. Tail(build) = <<>> => \A e \in SidesIn : {"memory", "semaphore", "unit"} \subseteq has'[e]
  <2>1. Tail(build) = <<>> => \A t : ~In(t, Tail(build))
    <3>1. \A t : ~In(t, <<>>)
      BY DEF In
    <3>2. QED
      BY <3>1, Zenon
  <2>2. SidesIn \subseteq Sides
    BY HalvesOk DEF UnitsType
  <2>3. QED
    BY <1>12, <1>13, <2>1, <2>2
<1>16. OpenInv'
  <2>1. ASSUME phase' = "open"
        PROVE  /\ BuildList(build)' /\ build' # <<>>
               /\ Head(build')[1] # "memory" => "memory" \in has'[Head(build')[2]]
               /\ \A e \in SidesIn', y \in {"memory", "unit", "initialized"} : y \in has'[e] \/ In(<<y, e>>, build')
    <3>1. Tail(build) # <<>>
      BY <1>1, <2>1
    <3> DEFINE r == Tail(build)
    <3>2. /\ \A e \in SidesIn, y \in {"memory", "unit", "initialized"} : y \in has'[e] \/ In(<<y, e>>, r)
          /\ Head(r)[1] # "memory" => "memory" \in has'[Head(r)[2]]
      BY <1>12, <1>14, <3>1
    <3>3. r = build'
      BY <1>1
    <3> HIDE DEF r
    <3>4. build' # <<>>
      BY <1>1, <3>1
    <3>5. QED
      BY <1>5, <1>8, <3>2, <3>3, <3>4, Zenon
  <2>2. phase' = "opened" => \A e \in SidesIn' : {"memory", "semaphore", "unit"} \subseteq has'[e]
    BY <1>1, <1>5, <1>15
  <2>3. \A e \in Sides : has'[e] # {} => {"memory", "semaphore"} \subseteq has'[e] /\ e \in SidesIn'
    BY <1>5, <1>13
  <2>4. QED
    BY <2>1, <2>2, <2>3, Zenon DEF OpenInv, In
<1>17. RunsInv'
  BY <1>1 DEF RunsInv, Disposed
<1>18. CallerInv' /\ CloseInv'
  BY <1>1, <1>5, <1>15 DEF CallerInv, CloseInv
<1>19. QED
  BY <1>9, <1>10, <1>11, <1>16, <1>17, <1>18

\* Close, and an Open that fails, list every half there is.
LEMMA CloseBegins ==
  ASSUME UnitsInv, NEW sides \in Choices, \A d \in Sides : has[d] # {} <=> In(d, sides),
         phase \in {"open", "opened"}, phase' = "closing",
         UNCHANGED <<mode, has, running, closed, wakeMu, checked, cb>>, build' \in Seq(Builds),
         work' \in [Workers -> Seq(Tasks)], W' = CloseAll(sides),
         \/ UNCHANGED work["caller"] /\ phase = "opened"
         \/ work'["caller"] = <<>> /\ phase = "open"
  PROVE  UnitsInv'
<1> USE DEF UnitsInv
<1>1. /\ W' \in Seq(Tasks) /\ W' # <<>> /\ W'[1][1] = "swap" /\ CloseList(W')
      /\ \A d \in Sides : In(d, sides) => In(<<"dispose", d>>, W') /\ In(<<"unmap", d>>, W')
      /\ \A i \in 1 .. Len(W') : In(W'[i][2], sides)
  BY CloseAllOk
<1>2. Head(W') = W'[1] /\ W'[1] \in Tasks /\ 1 \in 1 .. Len(W')
  BY <1>1, Popped
<1>3. SidesIn' = SidesIn
  BY DEF SidesIn
<1>4. \A d \in Sides : In(d, sides) => "semaphore" \in has[d]
  BY DEF OpenInv
<1>5. UnitsType'
  BY DEF UnitsType
<1>6. ListInv'
  <2>1. CallList(<<>>)
    BY DEF CallList
  <2>2. CallList(work'["caller"])
    BY <2>1 DEF ListInv
  <2>3. CallList(work["caller"])'
    BY <1>3, <2>2 DEF CallList
  <2>4. QED
    BY <1>1, <2>3 DEF ListInv
<1>7. LockInv'
  <2>1. At("closer")' = "swap" /\ "closer" \notin checked
    BY <1>1, <1>2 DEF At, W, LockInv, ListInv
  <2>2. phase = "open" => checked = {}
    BY DEF LockInv
  <2>3. QED
    BY <2>1, <2>2 DEF LockInv, Workers, UnitsType, At, Of
<1>8. OpenInv' /\ CallerInv'
  BY <1>3 DEF OpenInv, CallerInv
<1>9. RunsInv'
  BY <1>1 DEF RunsInv, Disposed
<1>10. CloseInv'
  <2>1. \A d \in Sides : In(<<"swap", d>>, W') => "semaphore" \in has[d]
    <3>1. ASSUME NEW d \in Sides, In(<<"swap", d>>, W')
          PROVE  In(d, sides)
      <4>1. PICK i \in 1 .. Len(W') : W'[i] = <<"swap", d>>
        BY <3>1 DEF In
      <4>2. W'[i][2] = d
        BY <4>1
      <4>3. QED
        BY <1>1, <4>2
    <3>2. QED
      BY <1>4, <3>1
  <2>2. Head(W')[1] = "swap" /\ "semaphore" \in has[Head(W')[2]]
    <3>1. In(W'[1][2], sides) /\ W'[1][2] \in Sides
      BY <1>1, <1>2 DEF Tasks
    <3>2. QED
      BY <1>1, <1>2, <1>4, <3>1
  <2>3. QED
    BY <1>1, <2>1, <2>2 DEF CloseInv, W, At, Of
<1>11. QED
  BY <1>5, <1>6, <1>7, <1>8, <1>9, <1>10

\* A step of Open that fails leaves exactly what was made to Close.
LEMMA OpenFailsKeeps ==
  ASSUME UnitsInv, OpenFails
  PROVE  UnitsInv'
<1> USE DEF UnitsInv
<1>1. /\ phase = "open" /\ phase' = "closing" /\ build' = <<>>
      /\ work' = [p \in {"caller", "closer"} |->
                    IF p = "closer" /\ \E d \in Sides : has[d] # {} THEN CloseAll(Made) ELSE <<>>]
      /\ UNCHANGED <<mode, has, running, closed, wakeMu, checked, cb>>
  BY DEF OpenFails
<1>2. <<>> \in Seq(Builds) /\ <<>> \in Seq(Tasks) /\ CloseList(<<>>)
  BY DEF CloseList
<1>3. CASE \E d \in Sides : has[d] # {}
  <2>1. Made \in Choices /\ \A d \in Sides : has[d] # {} <=> In(d, Made)
    <3>1. /\ \A d : In(d, <<"output", "input">>) <=> d \in Sides
          /\ \A d : In(d, <<"output">>) <=> d = "output"
          /\ \A d : In(d, <<"input">>) <=> d = "input"
      BY DEF In, Sides
    <3>2. HalvesOf("duplex") = <<"output", "input">>
      BY DEF HalvesOf
    <3>3. CASE has["output"] # {} /\ has["input"] # {}
      BY <3>1, <3>2, <3>3 DEF Made, Sides, Choices
    <3>4. CASE has["output"] # {} /\ has["input"] = {}
      BY <3>1, <3>4 DEF Made, Sides, Choices
    <3>5. CASE has["output"] = {} /\ has["input"] # {}
      BY <3>1, <3>5 DEF Made, Sides, Choices
    <3>6. QED
      BY <1>3, <3>3, <3>4, <3>5 DEF Sides
  <2>2. W' = CloseAll(Made) /\ work'["caller"] = <<>> /\ work' = [p \in Workers |-> work'[p]]
    BY <1>1, <1>3 DEF W, Workers
  <2>3. CloseAll(Made) \in Seq(Tasks)
    BY <2>1, CloseAllOk
  <2>4. work' \in [Workers -> Seq(Tasks)]
    BY <1>2, <2>2, <2>3 DEF Workers, W
  <2>5. QED
    BY <1>1, <1>2, <2>1, <2>2, <2>4, CloseBegins
<1>4. CASE \A d \in Sides : has[d] = {}
  <2>1. W' = <<>> /\ work'["caller"] = <<>> /\ work' = [p \in Workers |-> <<>>]
    BY <1>1, <1>4 DEF W, Workers
  <2>2. UnitsType'
    BY <1>1, <1>2, <2>1 DEF UnitsType
  <2>3. ListInv'
    <3>1. CallList(work["caller"])'
      BY <2>1 DEF CallList
    <3>2. QED
      BY <1>1, <1>2, <2>1, <3>1 DEF ListInv
  <2>4. LockInv'
    BY <1>1, <2>1 DEF LockInv, Workers, UnitsType
  <2>5. OpenInv' /\ CallerInv'
    BY <1>1, <2>1 DEF OpenInv, CallerInv
  <2>6. RunsInv'
    BY <1>1, <1>4 DEF RunsInv, Disposed
  <2>7. CloseInv'
    <3>1. \A t : ~In(t, <<>>)
      BY DEF In
    <3>2. QED
      BY <1>1, <1>4, <2>1, <3>1 DEF CloseInv
  <2>8. QED
    BY <2>2, <2>3, <2>4, <2>5, <2>6, <2>7
<1>5. QED
  BY <1>3, <1>4

\* A Close lists the halves of its mode, all of which exist.
LEMMA BeginCloseKeeps ==
  ASSUME UnitsInv, BeginClose
  PROVE  UnitsInv'
<1> USE DEF UnitsInv
<1>1. /\ phase = "opened" /\ phase' = "closing"
      /\ work' = [work EXCEPT !["closer"] = CloseAll(HalvesOf(mode))]
      /\ UNCHANGED <<mode, build, has, running, closed, wakeMu, checked, cb>>
  BY DEF BeginClose
<1>2. HalvesOf(mode) \in Choices /\ \A d : In(d, HalvesOf(mode)) <=> d \in SidesIn
  BY HalvesOk DEF UnitsType
<1>3. CloseAll(HalvesOf(mode)) \in Seq(Tasks)
  BY <1>2, CloseAllOk
<1>4. W' = CloseAll(HalvesOf(mode)) /\ UNCHANGED work["caller"] /\ work' \in [Workers -> Seq(Tasks)]
  BY <1>1, <1>3 DEF UnitsType, W, Workers
<1>5. \A d \in Sides : has[d] # {} <=> In(d, HalvesOf(mode))
  BY <1>1, <1>2 DEF OpenInv
<1>6. QED
  BY <1>1, <1>2, <1>4, <1>5, CloseBegins DEF UnitsType

\* What is left of Close's list after a step x of side d, or after the whole
\* Interrupt of that side.
Left(q, k, r, x, d) ==
    /\ r \in Seq(Tasks) /\ CloseList(r) /\ x \in Steps /\ d \in Sides /\ Head(q) = <<x, d>>
    /\ x # "unmap" => r # <<>> /\ r[1][2] = d
                      /\ (r[1][1] = Following[x] \/ (x = "swap" /\ r[1][1] = "stop"))
    /\ x = "unmap" /\ r # <<>> => r[1][1] = "swap"
    /\ r # <<>> => Head(r) = r[1] /\ r[1] \in Tasks /\ In(r[1], r)
    /\ \A e : In(<<"swap", e>>, r) => In(<<"swap", e>>, q) /\ e # d
    /\ \A e : In(<<"dispose", e>>, q) => In(<<"dispose", e>>, r) \/ (x = "dispose" /\ e = d)
    /\ \A e : In(<<"unmap", e>>, q) => In(<<"unmap", e>>, r) \/ (x = "unmap" /\ e = d)
    /\ k = 1 => (x # "unmap" => r[1][1] = Following[x])
    /\ k = 3 => r[1][1] = "stop"

\* What the next step of Close is.
LEMMA CloseNext ==
  ASSUME NEW q \in Seq(Tasks), q # <<>>, CloseList(q), NEW k \in {1, 3}, k = 3 => q[1][1] = "swap"
  PROVE  Left(q, k, SubSeq(q, k + 1, Len(q)), q[1][1], q[1][2])
<1> DEFINE r == SubSeq(q, k + 1, Len(q))
           x == q[1][1]
           d == q[1][2]
<1>1. Len(q) \in Nat /\ Len(q) >= 1 /\ Head(q) = q[1] /\ q[1] \in Tasks
  BY Popped
<1>2. x \in Steps /\ d \in Sides /\ q[1] = <<x, d>>
  BY <1>1 DEF Tasks
<1>3. \A i \in 1 .. Len(q) :
        /\ q[i][1] # "unmap" => i < Len(q) /\ q[i + 1] = <<Following[q[i][1]], q[i][2]>>
        /\ q[i][1] = "unmap" /\ i < Len(q) => q[i + 1][1] = "swap"
        /\ \A j \in i + 1 .. Len(q) : q[j][1] = "swap" => q[i][2] = "output" /\ q[j][2] = "input"
  BY Zenon DEF CloseList
<1>4. /\ x # "unmap" => 1 < Len(q) /\ q[2] = <<Following[x], d>>
      /\ x = "unmap" /\ 1 < Len(q) => q[2][1] = "swap"
      /\ \A j \in 2 .. Len(q) : q[j][1] = "swap" => d = "output" /\ q[j][2] = "input"
  <2>1. 1 \in 1 .. Len(q) /\ 1 + 1 = 2
    BY <1>1
  <2>2. QED
    BY <1>3, <2>1, Zenon
<1>5. k = 3 => 3 < Len(q) /\ q[2] = <<"check", d>> /\ q[3] = <<"signal", d>> /\ q[4] = <<"stop", d>>
  <2>1. SUFFICES ASSUME k = 3
                 PROVE  3 < Len(q) /\ q[2] = <<"check", d>> /\ q[3] = <<"signal", d>> /\ q[4] = <<"stop", d>>
    OBVIOUS
  <2>2. x = "swap" /\ 2 \in 1 .. Len(q) /\ q[2] = <<"check", d>>
    BY <1>1, <1>4, <2>1 DEF Following
  <2>3. 2 < Len(q) /\ q[2 + 1] = <<Following["check"], d>>
    BY <1>3, <2>2
  <2>4. 3 \in 1 .. Len(q) /\ 2 + 1 = 3 /\ q[3] = <<"signal", d>>
    BY <1>1, <2>3 DEF Following
  <2>5. 3 < Len(q) /\ q[3 + 1] = <<Following["signal"], d>>
    BY <1>3, <2>4
  <2>6. QED
    BY <2>2, <2>4, <2>5 DEF Following
<1>6. k \in Nat /\ k <= Len(q)
  BY <1>1, <1>5
<1>7. /\ r \in Seq(Tasks) /\ Len(r) \in Nat /\ Len(r) = Len(q) - k
      /\ \A i \in 1 .. Len(r) : r[i] = q[k + i] /\ k + i \in 1 .. Len(q)
  BY <1>6, Suffix
<1>8. CloseList(r)
  BY <1>6, CloseRest
<1> HIDE DEF r, x, d
<1>9. Len(r) >= 1 => r[1] = q[k + 1] /\ 1 \in 1 .. Len(r)
  BY <1>7
<1>10. r # <<>> => Len(r) >= 1 /\ Head(r) = r[1] /\ r[1] \in Tasks /\ In(r[1], r)
  <2>1. r # <<>> => Len(r) >= 1 /\ Head(r) = r[1] /\ r[1] \in Tasks
    BY <1>7, Popped
  <2>2. QED
    BY <1>9, <2>1 DEF In
<1>11. Len(r) >= 1 => r # <<>>
  BY EmptySeq
<1>12. x # "unmap" => r # <<>> /\ r[1][2] = d /\ (r[1][1] = Following[x] \/ (x = "swap" /\ r[1][1] = "stop"))
  <2>1. CASE k = 1
    BY <1>1, <1>4, <1>7, <1>9, <1>11, <2>1
  <2>2. CASE k = 3
    <3>1. Len(r) >= 1 /\ q[k + 1] = <<"stop", d>> /\ x = "swap"
      BY <1>1, <1>5, <1>7, <2>2 DEF x
    <3>2. QED
      BY <1>9, <1>11, <3>1
  <2>3. QED
    BY <2>1, <2>2
<1>13. x = "unmap" /\ r # <<>> => r[1][1] = "swap"
  <2>1. x = "unmap" => k = 1
    BY DEF x
  <2>2. QED
    BY <1>1, <1>4, <1>7, <1>9, <1>10, <2>1
<1>14. (k = 1 => (x # "unmap" => r[1][1] = Following[x])) /\ (k = 3 => r[1][1] = "stop")
  <2>1. ASSUME k = 1, x # "unmap"
        PROVE  r[1][1] = Following[x]
    BY <1>1, <1>4, <1>7, <1>9, <2>1
  <2>2. ASSUME k = 3
        PROVE  r[1][1] = "stop"
    <3>1. Len(r) >= 1 /\ q[k + 1] = <<"stop", d>>
      BY <1>1, <1>5, <1>7, <2>2
    <3>2. QED
      BY <1>9, <3>1
  <2>3. QED
    BY <2>1, <2>2
<1>15. ASSUME NEW e, In(<<"swap", e>>, r)
       PROVE  In(<<"swap", e>>, q) /\ e # d
  <2>1. PICK i \in 1 .. Len(r) : r[i] = <<"swap", e>>
    BY <1>15 DEF In
  <2> DEFINE j == k + i
  <2>2. q[j] = <<"swap", e>> /\ j \in 1 .. Len(q) /\ j \in 2 .. Len(q)
    BY <1>6, <1>7, <2>1
  <2> HIDE DEF j
  <2>3. q[j][1] = "swap" /\ q[j][2] = e
    BY <2>2
  <2>4. d = "output" /\ e = "input"
    BY <1>4, <2>2, <2>3
  <2>5. QED
    BY <2>2, <2>4 DEF In
<1>16. ASSUME NEW s \in {"dispose", "unmap"}, NEW e, In(<<s, e>>, q)
       PROVE  In(<<s, e>>, r) \/ (x = s /\ e = d)
  <2>1. PICK j \in 1 .. Len(q) : q[j] = <<s, e>>
    BY <1>16 DEF In
  <2>2. CASE j > k
    <3> DEFINE i == j - k
    <3>1. i \in 1 .. Len(r) /\ k + i = j
      BY <1>1, <1>6, <1>7, <2>2
    <3>2. r[i] = <<s, e>>
      BY <1>7, <2>1, <3>1
    <3>3. QED
      BY <3>1, <3>2 DEF In
  <2>3. CASE j = 1
    BY <1>2, <2>1, <2>3
  <2>4. CASE j <= k /\ j # 1
    <3>1. k = 3 /\ (j = 2 \/ j = 3)
      BY <2>4
    <3>2. QED
      BY <1>5, <2>1, <3>1
  <2>5. QED
    BY <1>1, <1>6, <2>2, <2>3, <2>4
<1>17. QED
  BY <1>1, <1>2, <1>7, <1>8, <1>10, <1>12, <1>13, <1>14, <1>15, <1>16, Zenon DEF Left, r, x, d

\* What is left of Interrupt's list after a step, or after all of one side.
LEMMA CallNext ==
  ASSUME NEW q \in Seq(Tasks), q # <<>>, CallList(q), NEW k \in {1, 3}, k = 3 => q[1][1] = "swap"
  PROVE  LET r == SubSeq(q, k + 1, Len(q))
             x == q[1][1]
             d == q[1][2]
         IN  /\ r \in Seq(Tasks) /\ CallList(r) /\ d \in SidesIn /\ Head(q) = <<x, d>>
             /\ r # <<>> => Head(r) = r[1]
             /\ k = 1 => IF x = "signal" THEN r # <<>> => r[1][1] = "swap"
                         ELSE r # <<>> /\ r[1] = <<Following[x], d>>
             /\ k = 3 => (r # <<>> => r[1][1] = "swap")
<1> DEFINE r == SubSeq(q, k + 1, Len(q))
           x == q[1][1]
           d == q[1][2]
<1>1. Len(q) \in Nat /\ Len(q) >= 1 /\ Head(q) = q[1] /\ q[1] = <<x, d>>
  BY Popped DEF Tasks
<1>2. \A i \in 1 .. Len(q) :
        /\ q[i][2] \in SidesIn
        /\ q[i][1] # "signal" => i < Len(q) /\ q[i + 1] = <<Following[q[i][1]], q[i][2]>>
        /\ q[i][1] = "signal" /\ i < Len(q) => q[i + 1][1] = "swap"
  BY Zenon DEF CallList
<1>3. /\ d \in SidesIn
      /\ x # "signal" => 1 < Len(q) /\ q[2] = <<Following[x], d>>
      /\ x = "signal" /\ 1 < Len(q) => q[2][1] = "swap"
  <2>1. 1 \in 1 .. Len(q) /\ 1 + 1 = 2
    BY <1>1
  <2>2. QED
    BY <1>2, <2>1, Zenon
<1>4. k = 3 => 3 <= Len(q) /\ (3 < Len(q) => q[4][1] = "swap")
  <2>1. SUFFICES ASSUME k = 3
                 PROVE  3 <= Len(q) /\ (3 < Len(q) => q[4][1] = "swap")
    OBVIOUS
  <2>2. 2 \in 1 .. Len(q) /\ q[2] = <<"check", d>>
    BY <1>1, <1>3, <2>1 DEF Following
  <2>3. 2 < Len(q) /\ q[2 + 1] = <<Following["check"], d>>
    BY <1>2, <2>2
  <2>4. 3 \in 1 .. Len(q) /\ q[3][1] = "signal" /\ 3 + 1 = 4
    BY <1>1, <2>3 DEF Following
  <2>5. QED
    BY <1>1, <1>2, <2>4
<1>5. k \in Nat /\ k <= Len(q)
  BY <1>1, <1>4
<1>6. /\ r \in Seq(Tasks) /\ Len(r) \in Nat /\ Len(r) = Len(q) - k
      /\ \A i \in 1 .. Len(r) : r[i] = q[k + i] /\ k + i \in 1 .. Len(q)
  BY <1>5, Suffix
<1>7. CallList(r)
  BY <1>5, CallRest
<1> HIDE DEF r, x, d
<1>8. Len(r) >= 1 => r[1] = q[k + 1] /\ r # <<>>
  BY <1>6, EmptySeq
<1>9. r # <<>> => Len(r) >= 1 /\ Head(r) = r[1]
  BY <1>6, Popped
<1>10. k = 1 => IF x = "signal" THEN r # <<>> => r[1][1] = "swap"
                ELSE r # <<>> /\ r[1] = <<Following[x], d>>
  BY <1>1, <1>3, <1>6, <1>8, <1>9
<1>11. k = 3 => (r # <<>> => r[1][1] = "swap")
  BY <1>1, <1>4, <1>6, <1>8, <1>9
<1>12. QED
  BY <1>1, <1>3, <1>6, <1>7, <1>9, <1>10, <1>11, Zenon DEF r, x, d

\* A goroutine that interrupts moves on in its own list only.
LEMMA WorkerMoves ==
  ASSUME UnitsInv, NEW p \in Workers, work[p] # <<>>, NEW k \in {1, 3}, k = 3 => At(p) = "swap",
         At(p) \in {"swap", "check", "signal"}, Done(p, k)
  PROVE  /\ work' \in [Workers -> Seq(Tasks)] /\ work'[p] = SubSeq(work[p], k + 1, Len(work[p]))
         /\ \A o \in Workers : o # p => work'[o] = work[o]
         /\ work[p] \in Seq(Tasks) /\ At(p) = work[p][1][1] /\ Of(p) = work[p][1][2] /\ Of(p) \in Sides
         /\ At(p) = "check" => work'[p] # <<>> /\ Head(work'[p]) = <<"signal", Of(p)>>
         /\ At(p) # "check" /\ work'[p] # <<>> => Head(work'[p])[1] # "signal"
<1> USE DEF UnitsInv
<1> DEFINE q == work[p]
           r == SubSeq(q, k + 1, Len(q))
<1>1. q \in Seq(Tasks) /\ work' = [work EXCEPT ![p] = r] /\ p \in {"caller", "closer"}
  BY DEF UnitsType, Done, Workers
<1>2. At(p) = q[1][1] /\ Of(p) = q[1][2] /\ Of(p) \in Sides /\ Head(q) = q[1]
  <2>1. Head(q) = q[1] /\ q[1] \in Tasks
    BY <1>1, Popped
  <2>2. QED
    BY <2>1 DEF At, Of, Tasks
<1>3. /\ r \in Seq(Tasks)
      /\ q[1][1] = "check" => r # <<>> /\ Head(r) = <<"signal", Of(p)>>
      /\ q[1][1] # "check" /\ r # <<>> => Head(r)[1] # "signal"
  <2>1. CASE p = "caller"
    <3>1. CallList(q)
      BY <2>1 DEF ListInv
    <3>2. /\ r \in Seq(Tasks) /\ (r # <<>> => Head(r) = r[1])
          /\ k = 1 => IF q[1][1] = "signal" THEN r # <<>> => r[1][1] = "swap"
                      ELSE r # <<>> /\ r[1] = <<Following[q[1][1]], q[1][2]>>
          /\ k = 3 => (r # <<>> => r[1][1] = "swap")
      <4>1. q \in Seq(Tasks) /\ q # <<>> /\ k \in {1, 3} /\ (k = 3 => q[1][1] = "swap")
        BY <1>1, <1>2
      <4>2. QED
        BY ONLY <4>1, <3>1, CallNext
    <3>3. QED
      BY <1>2, <3>2 DEF Following
  <2>2. CASE p = "closer"
    <3>1. CloseList(q)
      BY <2>2 DEF ListInv, W
    <3>2. /\ r \in Seq(Tasks) /\ (r # <<>> => Head(r) = r[1] /\ r[1] \in Tasks)
          /\ q[1][1] # "unmap" => r # <<>> /\ r[1][2] = q[1][2]
          /\ k = 1 => (q[1][1] # "unmap" => r[1][1] = Following[q[1][1]])
          /\ k = 3 => r[1][1] = "stop"
      <4>1. Left(q, k, r, q[1][1], q[1][2])
        BY <1>1, <1>2, <3>1, CloseNext
      <4>2. QED
        BY <4>1, Zenon DEF Left
    <3>3. CASE k = 1
      <4>1. q[1][1] = "check" => r # <<>> /\ Head(r) = <<"signal", Of(p)>>
        <5> SUFFICES ASSUME q[1][1] = "check" PROVE r # <<>> /\ Head(r) = <<"signal", Of(p)>>
          OBVIOUS
        <5>1. r # <<>> /\ Head(r) = r[1] /\ r[1] \in Tasks /\ r[1][2] = q[1][2]
              /\ r[1][1] = Following["check"]
          BY <3>2, <3>3
        <5>2. Following["check"] = "signal"
          BY DEF Following
        <5>3. QED
          BY <1>2, <5>1, <5>2, TaskIs
      <4>2. q[1][1] # "check" /\ r # <<>> => Head(r)[1] # "signal"
        BY <1>2, <3>2, <3>3 DEF Following
      <4>3. QED
        BY <3>2, <4>1, <4>2
    <3>4. CASE k = 3
      BY <1>2, <3>2, <3>4
    <3>5. QED
      BY <3>3, <3>4
  <2>3. QED
    BY <1>1, <2>1, <2>2
<1>4. work' \in [Workers -> Seq(Tasks)] /\ work'[p] = r /\ \A o \in Workers : o # p => work'[o] = work[o]
  BY <1>1, <1>3 DEF UnitsType
<1>5. QED
  BY <1>1, <1>2, <1>3, <1>4

\* The goroutine that stops the stream takes a step.
LEMMA CallerKeeps ==
  ASSUME UnitsInv, phase # "open", work["caller"] # <<>>, NEW k \in {1, 3}, k = 3 => At("caller") = "swap",
         At("caller") \in {"swap", "check", "signal"}, Done("caller", k),
         UNCHANGED <<mode, phase, build, has, running, closed, cb>>,
         checked' \subseteq Workers, wakeMu' = [d \in Sides |-> wakeMu'[d]], LockInv'
  PROVE  UnitsInv'
<1> USE DEF UnitsInv
<1>1. /\ work' \in [Workers -> Seq(Tasks)] /\ W' = W
      /\ work'["caller"] = SubSeq(work["caller"], k + 1, Len(work["caller"]))
      /\ work["caller"] \in Seq(Tasks) /\ At("caller") = work["caller"][1][1]
  BY WorkerMoves DEF Workers, W
<1>2. SidesIn' = SidesIn
  BY DEF SidesIn
<1>3. UnitsType'
  BY <1>1 DEF UnitsType
<1>4. ListInv'
  <2>1. CallList(work'["caller"])
    BY <1>1, CallNext DEF ListInv
  <2>2. CallList(work["caller"])'
    BY <1>2, <2>1 DEF CallList
  <2>3. QED
    BY <1>1, <2>2 DEF ListInv
<1>5. OpenInv'
  BY <1>2 DEF OpenInv
<1>6. RunsInv'
  BY <1>1 DEF RunsInv, Disposed
<1>7. CallerInv'
  BY <1>2 DEF CallerInv
<1>8. CloseInv'
  <2>1. At("closer")' = At("closer") /\ Of("closer")' = Of("closer")
    BY <1>1 DEF At, Of, W
  <2>2. QED
    BY <1>1, <2>1 DEF CloseInv, Disposed
<1>9. QED
  BY <1>3, <1>4, <1>5, <1>6, <1>7, <1>8

\* Close takes a step, as Interrupt or on its own, and only on the side it is at.
LEMMA CloserKeeps ==
  ASSUME UnitsInv, phase = "closing", W # <<>>, NEW k \in {1, 3}, k = 3 => At("closer") = "swap",
         Done("closer", k), UNCHANGED <<mode, phase, build, cb>>,
         checked' \subseteq Workers, wakeMu' = [e \in Sides |-> wakeMu'[e]], LockInv',
         NEW x, x = At("closer"), NEW d, d = Of("closer"),
         has' \in [Sides -> SUBSET Parts], has'[d] \subseteq has[d],
         \A e \in Sides : e # d => has'[e] = has[e],
         closed \subseteq closed', running' \subseteq running,
         d \in closed' \/ "semaphore" \in has'[d],
         x \notin {"destroy", "unmap"} => "semaphore" \in has'[d],
         x \in {"dispose", "seal", "destroy"} => Disposed(d)' /\ has'[d] \subseteq {"memory", "semaphore"},
         x \in {"seal", "destroy"} => d \in closed',
         x = "destroy" => has'[d] \subseteq {"memory"},
         x = "unmap" => has'[d] = {},
         Disposed(d)' \/ (has'[d] = has[d] /\ x # "dispose")
  PROVE  UnitsInv'
<1> USE DEF UnitsInv
<1>1. /\ W \in Seq(Tasks) /\ CloseList(W) /\ "closer" \in Workers /\ "caller" \in Workers
      /\ Head(W) = W[1] /\ x = W[1][1] /\ d = W[1][2]
  <2>1. W \in Seq(Tasks) /\ CloseList(W) /\ "closer" \in Workers /\ "caller" \in Workers
    BY DEF UnitsType, ListInv, W, Workers
  <2>2. Head(W) = W[1]
    BY <2>1, Popped
  <2>3. QED
    BY <2>1, <2>2 DEF At, Of, W
<1> DEFINE r == SubSeq(W, k + 1, Len(W))
<1>2. /\ r \in Seq(Tasks) /\ CloseList(r) /\ x \in Steps /\ d \in Sides /\ Head(W) = <<x, d>>
      /\ x # "unmap" => r # <<>> /\ r[1][2] = d
                        /\ (r[1][1] = Following[x] \/ (x = "swap" /\ r[1][1] = "stop"))
      /\ x = "unmap" /\ r # <<>> => r[1][1] = "swap"
      /\ r # <<>> => Head(r) = r[1] /\ r[1] \in Tasks /\ In(r[1], r)
      /\ \A e : In(<<"swap", e>>, r) => In(<<"swap", e>>, W) /\ e # d
      /\ \A e : In(<<"dispose", e>>, W) => In(<<"dispose", e>>, r) \/ (x = "dispose" /\ e = d)
      /\ \A e : In(<<"unmap", e>>, W) => In(<<"unmap", e>>, r) \/ (x = "unmap" /\ e = d)
  <2>1. Left(W, k, r, W[1][1], W[1][2])
    BY <1>1, CloseNext
  <2>2. W[1][1] = x /\ W[1][2] = d
    BY <1>1
  <2>3. QED
    BY <2>1, <2>2, Zenon DEF Left
<1> HIDE DEF r
<1>3. W' = r /\ work' \in [Workers -> Seq(Tasks)] /\ work'["caller"] = work["caller"]
  <2>1. work' = [work EXCEPT !["closer"] = r]
    BY DEF Done, W, r
  <2>2. QED
    BY <1>1, <1>2, <2>1 DEF UnitsType, W
<1>4. SidesIn' = SidesIn /\ SidesIn \subseteq Sides
  BY HalvesOk DEF SidesIn, UnitsType
<1>5. UnitsType'
  BY <1>3 DEF UnitsType
<1>6. ListInv'
  <2>1. CallList(work["caller"])'
    BY <1>3, <1>4 DEF ListInv, CallList
  <2>2. QED
    BY <1>2, <1>3, <2>1 DEF ListInv
<1>7. OpenInv'
  BY DEF OpenInv
<1>8. RunsInv'
  <2>1. \A e \in Sides : ~Disposed(e)' => ~Disposed(e)
    BY DEF Disposed
  <2>2. \A e \in Sides : ~Disposed(e)' => has'[e] = has[e] /\ (e = d => x # "dispose")
    OBVIOUS
  <2>3. QED
    BY <1>2, <1>3, <2>1, <2>2 DEF RunsInv
<1>9. CallerInv'
  <2>1. \A e \in SidesIn : e \in closed' \/ "semaphore" \in has'[e]
        \/ ~(e \in closed \/ "semaphore" \in has[e])
    BY <1>4
  <2>2. QED
    BY <1>3, <1>4, <2>1 DEF CallerInv
<1>10. CloseInv'
  <2>1. \A e \in Sides : has'[e] # {} => In(<<"unmap", e>>, r)
    <3>1. \A e \in Sides : has'[e] # {} => has[e] # {}
      OBVIOUS
    <3>2. QED
      BY <1>2, <3>1 DEF CloseInv
  <2>2. \A e \in Sides : In(<<"swap", e>>, r) => "semaphore" \in has'[e]
    BY <1>2 DEF CloseInv
  <2>3. CASE x = "unmap"
    <3>1. r # <<>> => Head(r)[1] = "swap" /\ Head(r)[2] \in Sides /\ In(<<"swap", Head(r)[2]>>, r)
      <4> SUFFICES ASSUME r # <<>> PROVE Head(r)[1] = "swap" /\ Head(r)[2] \in Sides
                                          /\ In(<<"swap", Head(r)[2]>>, r)
        OBVIOUS
      <4>1. Head(r) = r[1] /\ r[1] \in Tasks /\ In(r[1], r) /\ r[1][1] = "swap"
        BY <1>2, <2>3, Zenon
      <4>2. r[1] = <<"swap", r[1][2]>> /\ r[1][2] \in Sides
        BY <4>1, TaskIs
      <4>3. QED
        BY <4>1, <4>2, Zenon
    <3>2. QED
      BY <1>3, <2>1, <2>2, <3>1 DEF CloseInv, W, At, Of
  <2>4. CASE x # "unmap"
    <3> DEFINE y == Head(r)[1]
    <3>1. /\ r # <<>> /\ Head(r)[2] = d /\ (y = Following[x] \/ (x = "swap" /\ y = "stop"))
      BY <1>2, <2>4
    <3>2. /\ At("closer")' = y /\ Of("closer")' = d /\ phase' = "closing"
      BY <1>3, <3>1 DEF W, At, Of
    <3>3. /\ y # "unmap" => x \notin {"destroy", "unmap"}
          /\ y \in {"seal", "destroy", "unmap"} => x \in {"dispose", "seal", "destroy"}
          /\ y \in {"destroy", "unmap"} => x \in {"seal", "destroy"}
          /\ y = "unmap" => x = "destroy"
      BY <1>2, <2>4, <3>1 DEF Following, Steps
    <3> HIDE DEF y
    <3>4. /\ y # "unmap" => "semaphore" \in has'[d]
          /\ y \in {"seal", "destroy", "unmap"} => Disposed(d)' /\ has'[d] \subseteq {"memory", "semaphore"}
          /\ y \in {"destroy", "unmap"} => d \in closed'
          /\ y = "unmap" => has'[d] \subseteq {"memory"}
      BY <3>3, Zenon
    <3>5. Disposed(Of("closer"))' <=> Disposed(d)'
      BY <3>2 DEF Disposed
    <3>6. QED
      BY <1>3, <2>1, <2>2, <3>2, <3>4, <3>5 DEF CloseInv
  <2>5. QED
    BY <2>3, <2>4
<1>11. QED
  BY <1>5, <1>6, <1>7, <1>8, <1>9, <1>10

\* A step of Interrupt keeps who holds a lock and who has looked.
LEMMA LockKept ==
  ASSUME UnitsInv, NEW p \in Workers,
         SwapInterrupted(p) \/ CheckOpen(p) \/ SignalAndUnlock(p)
  PROVE  /\ LockInv' /\ checked' \subseteq Workers /\ wakeMu' = [d \in Sides |-> wakeMu'[d]]
         /\ work[p] # <<>> /\ (p = "caller" => phase # "open") /\ (p = "closer" => phase = "closing")
         /\ At(p) \in {"swap", "check", "signal"}
         /\ \E k \in {1, 3} : (k = 3 => At(p) = "swap") /\ Done(p, k)
<1> USE DEF UnitsInv
<1>1. /\ work[p] # <<>> /\ (p = "caller" => phase # "open") /\ At(p) \in {"swap", "check", "signal"}
      /\ phase' = phase /\ UNCHANGED closed
  BY DEF SwapInterrupted, CheckOpen, SignalAndUnlock, Runs, At
<1>2. p = "closer" => phase = "closing"
  BY <1>1 DEF ListInv, W
<1>3. \E k \in {1, 3} : (k = 3 => At(p) = "swap") /\ Done(p, k)
  <2>1. CASE SwapInterrupted(p)
    <3>1. Done(p, IF Of(p) \in interrupted THEN 3 ELSE 1) /\ At(p) = "swap"
      BY <2>1 DEF SwapInterrupted, Runs, At
    <3>2. QED
      BY <3>1
  <2>2. CASE CheckOpen(p) \/ SignalAndUnlock(p)
    BY <2>2 DEF CheckOpen, SignalAndUnlock
  <2>3. QED
    BY <2>1, <2>2
<1>4. /\ \A o \in Workers : o # p => work'[o] = work[o]
      /\ Of(p) \in Sides
      /\ At(p) = "check" => work'[p] # <<>> /\ Head(work'[p]) = <<"signal", Of(p)>>
      /\ At(p) # "check" /\ work'[p] # <<>> => Head(work'[p])[1] # "signal"
  BY <1>1, <1>3, WorkerMoves
<1>5. \A o \in Workers : o # p => At(o)' = At(o) /\ Of(o)' = Of(o)
  BY <1>4 DEF At, Of
<1>6. CASE SwapInterrupted(p)
  <2>1. At(p) = "swap" /\ UNCHANGED <<wakeMu, checked>>
    BY <1>6 DEF SwapInterrupted, Runs, At
  <2>2. p \notin checked
    BY <2>1 DEF LockInv
  <2>3. work'[p] # <<>> => At(p)' # "signal"
    BY <1>4, <2>1 DEF At
  <2>4. LockInv'
    BY <1>1, <1>4, <1>5, <2>1, <2>2, <2>3 DEF LockInv, UnitsType
  <2>5. QED
    BY <1>1, <1>2, <1>3, <2>1, <2>4 DEF UnitsType
<1>7. CASE CheckOpen(p)
  <2>1. /\ At(p) = "check" /\ wakeMu[Of(p)] = "free" /\ wakeMu' = [wakeMu EXCEPT ![Of(p)] = p]
        /\ checked' = IF Of(p) \in closed THEN checked ELSE checked \cup {p}
    BY <1>7 DEF CheckOpen, LockWake, Runs, At
  <2>2. /\ p \notin checked
        /\ wakeMu'[Of(p)] = p /\ \A d \in Sides : d # Of(p) => wakeMu'[d] = wakeMu[d]
    BY <1>4, <2>1 DEF LockInv, UnitsType
  <2>3. work'[p] # <<>> /\ At(p)' = "signal" /\ Of(p)' = Of(p)
    BY <1>4, <2>1 DEF At, Of
  <2>4. ASSUME NEW o \in Workers, o # p, work'[o] # <<>>, At(o)' = "signal"
        PROVE  wakeMu'[Of(o)'] = o
    <3>1. work[o] # <<>> /\ At(o) = "signal" /\ Of(o)' = Of(o)
      BY <1>4, <1>5, <2>4
    <3>2. wakeMu[Of(o)] = o /\ Of(o) \in Sides
      <4>1. wakeMu[Of(o)] = o
        BY <3>1 DEF LockInv
      <4>2. Head(work[o]) \in Tasks
        BY <3>1, Popped DEF UnitsType
      <4>3. QED
        BY <4>1, <4>2 DEF Of, Tasks
    <3>3. Of(o) # Of(p)
      BY <2>1, <3>2 DEF Workers
    <3>4. QED
      BY <2>2, <3>1, <3>2, <3>3
  <2>5. \A o \in Workers : work'[o] # <<>> /\ At(o)' = "signal" => wakeMu'[Of(o)'] = o
    BY <2>2, <2>3, <2>4
  <2>6. \A o \in checked' : phase # "open" /\ work'[o] # <<>> /\ At(o)' = "signal" /\ Of(o)' \notin closed
    <3>1. \A o \in checked : o # p /\ o \in Workers
      BY <2>2 DEF UnitsType
    <3>2. \A o \in checked : phase # "open" /\ work'[o] # <<>> /\ At(o)' = "signal" /\ Of(o)' \notin closed
      BY <1>4, <1>5, <3>1 DEF LockInv
    <3>3. p \in checked' => Of(p) \notin closed /\ phase # "open"
      BY <1>1, <1>2, <2>1, <2>2 DEF Workers
    <3>4. QED
      BY <2>1, <2>3, <3>2, <3>3
  <2>7. LockInv'
    BY <1>1, <2>5, <2>6 DEF LockInv
  <2>8. checked' \subseteq Workers /\ wakeMu' = [d \in Sides |-> wakeMu'[d]]
    BY <2>1 DEF UnitsType
  <2>9. QED
    BY <1>1, <1>2, <1>3, <2>7, <2>8
<1>8. CASE SignalAndUnlock(p)
  <2>1. /\ At(p) = "signal" /\ wakeMu' = [wakeMu EXCEPT ![Of(p)] = "free"] /\ checked' = checked \ {p}
    BY <1>8 DEF SignalAndUnlock, Runs, At
  <2>2. wakeMu[Of(p)] = p /\ \A d \in Sides : d # Of(p) => wakeMu'[d] = wakeMu[d]
    BY <1>1, <1>4, <2>1 DEF LockInv, UnitsType
  <2>3. work'[p] # <<>> => At(p)' # "signal"
    BY <1>4, <2>1 DEF At
  <2>4. ASSUME NEW o \in Workers, o # p, work'[o] # <<>>, At(o)' = "signal"
        PROVE  wakeMu'[Of(o)'] = o
    <3>1. work[o] # <<>> /\ At(o) = "signal" /\ Of(o)' = Of(o)
      BY <1>4, <1>5, <2>4
    <3>2. wakeMu[Of(o)] = o /\ Of(o) \in Sides
      <4>1. wakeMu[Of(o)] = o
        BY <3>1 DEF LockInv
      <4>2. Head(work[o]) \in Tasks
        BY <3>1, Popped DEF UnitsType
      <4>3. QED
        BY <4>1, <4>2 DEF Of, Tasks
    <3>3. Of(o) # Of(p)
      BY <2>2, <2>4, <3>2
    <3>4. QED
      BY <2>2, <3>1, <3>2, <3>3
  <2>5. \A o \in Workers : work'[o] # <<>> /\ At(o)' = "signal" => wakeMu'[Of(o)'] = o
    BY <2>3, <2>4
  <2>6. \A o \in checked' : phase # "open" /\ work'[o] # <<>> /\ At(o)' = "signal" /\ Of(o)' \notin closed
    <3>1. \A o \in checked' : o # p /\ o \in Workers /\ o \in checked
      BY <2>1 DEF UnitsType
    <3>2. QED
      BY <1>4, <1>5, <3>1 DEF LockInv
  <2>7. LockInv'
    BY <1>1, <2>5, <2>6 DEF LockInv
  <2>8. checked' \subseteq Workers /\ wakeMu' = [d \in Sides |-> wakeMu'[d]]
    BY <2>1 DEF UnitsType
  <2>9. QED
    BY <1>1, <1>2, <1>3, <2>7, <2>8
<1>9. QED
  BY <1>6, <1>7, <1>8

\* Interrupt, by either goroutine, keeps the invariant of the units.
LEMMA InterruptingKeeps ==
  ASSUME UnitsInv, NEW p \in Workers, Interrupting(p)
  PROVE  UnitsInv'
<1> USE DEF UnitsInv
<1>1. SwapInterrupted(p) \/ CheckOpen(p) \/ SignalAndUnlock(p)
  BY DEF Interrupting
<1>2. UNCHANGED <<mode, phase, build, has, running, closed, cb>>
  BY <1>1 DEF SwapInterrupted, CheckOpen, SignalAndUnlock
<1>3. /\ LockInv' /\ checked' \subseteq Workers /\ wakeMu' = [d \in Sides |-> wakeMu'[d]]
      /\ work[p] # <<>> /\ (p = "caller" => phase # "open") /\ (p = "closer" => phase = "closing")
      /\ At(p) \in {"swap", "check", "signal"}
  BY <1>1, LockKept
<1>4. PICK k \in {1, 3} : (k = 3 => At(p) = "swap") /\ Done(p, k)
  BY <1>1, LockKept
<1>5. CASE p = "caller"
  BY <1>2, <1>3, <1>4, <1>5, CallerKeeps
<1>6. CASE p = "closer"
  <2> DEFINE x == At("closer")
             d == Of("closer")
  <2>1. x \in {"swap", "check", "signal"} /\ d \in Sides
    BY <1>3, <1>4, <1>6, WorkerMoves
  <2>2. "semaphore" \in has[d]
    BY <1>3, <1>6, <2>1 DEF CloseInv, W
  <2>3. has \in [Sides -> SUBSET Parts] /\ W # <<>>
    BY <1>3, <1>6 DEF UnitsType, W
  <2>4. x \notin {"dispose", "seal", "destroy", "unmap"}
    BY <2>1
  <2> HIDE DEF x, d
  <2>5. x = At("closer") /\ d = Of("closer")
    BY DEF x, d
  <2>6. QED
    BY <1>2, <1>3, <1>4, <1>6, <2>2, <2>3, <2>4, <2>5, CloserKeeps
<1>7. QED
  BY <1>5, <1>6 DEF Workers

\* The steps of Close of its own, before which and after which nobody of the
\* other goroutine's loses its lock.
LEMMA ClosingStep ==
  ASSUME UnitsInv, NEW x \in {"stop", "dispose", "seal", "destroy", "unmap"}, Runs("closer", x), Done("closer", 1),
         UNCHANGED <<phase, wakeMu, checked>>
  PROVE  /\ phase = "closing" /\ W # <<>> /\ At("closer") = x /\ Of("closer") \in Sides
         /\ "closer" \notin checked /\ work'["caller"] = work["caller"]
         /\ ~(work'["closer"] # <<>> /\ At("closer")' = "signal")
         /\ has \in [Sides -> SUBSET Parts] /\ checked' \subseteq Workers
         /\ wakeMu' = [d \in Sides |-> wakeMu'[d]]
         /\ At("caller")' = At("caller") /\ Of("caller")' = Of("caller")
         /\ closed' = closed => LockInv'
<1> USE DEF UnitsInv
<1>1. W # <<>> /\ At("closer") = x
  BY DEF Runs, W, At
<1>2. phase = "closing"
  BY <1>1 DEF ListInv
<1>3. W \in Seq(Tasks) /\ CloseList(W)
  BY DEF UnitsType, ListInv, W, Workers
<1>4. Head(W) = W[1] /\ W[1] \in Tasks
  BY <1>1, <1>3, Popped
<1>5. Of("closer") \in Sides /\ W[1][1] = x
  BY <1>1, <1>4 DEF Of, At, W, Tasks
<1> DEFINE r == SubSeq(W, 1 + 1, Len(W))
<1>6. Left(W, 1, r, W[1][1], W[1][2])
  BY <1>1, <1>3, CloseNext
<1> HIDE DEF r
<1>7. /\ x # "unmap" => r # <<>> /\ Head(r)[1] = Following[x]
      /\ x = "unmap" /\ r # <<>> => Head(r)[1] = "swap"
  BY <1>5, <1>6 DEF Left
<1>8. r # <<>> => Head(r)[1] # "signal"
  BY <1>7 DEF Following
<1>9. work' = [work EXCEPT !["closer"] = r]
  BY DEF Done, W, r
<1>10. work'["closer"] = r /\ work'["caller"] = work["caller"]
  BY <1>9 DEF UnitsType, Workers
<1>11. "closer" \notin checked
  BY <1>1 DEF LockInv
<1>12. ~(work'["closer"] # <<>> /\ At("closer")' = "signal")
  BY <1>8, <1>10 DEF At
<1>13. At("caller")' = At("caller") /\ Of("caller")' = Of("caller")
  BY <1>10 DEF At, Of
<1>14. has \in [Sides -> SUBSET Parts] /\ checked' \subseteq Workers /\ wakeMu' = [d \in Sides |-> wakeMu'[d]]
  BY DEF UnitsType
<1>15. closed' = closed => LockInv'
  <2>1. Workers = {"caller", "closer"} /\ checked \subseteq {"caller"}
    BY <1>11 DEF Workers, UnitsType
  <2>2. QED
    BY <1>2, <1>10, <1>12, <1>13, <2>1 DEF LockInv
<1>16. QED
  BY <1>1, <1>2, <1>5, <1>10, <1>11, <1>12, <1>13, <1>14, <1>15, Zenon

\* Every step of Close keeps the invariant of the units.
LEMMA ClosingKeeps ==
  ASSUME UnitsInv, Closing
  PROVE  UnitsInv'
<1> USE DEF UnitsInv
<1> SUFFICES ASSUME NEW d, d = Of("closer")
             PROVE  UnitsInv'
  OBVIOUS
<1>1. CASE CloseReturns
  <2>1. /\ phase = "closing" /\ W = <<>> /\ phase' = "closed"
        /\ UNCHANGED <<mode, build, has, running, closed, wakeMu, work, checked, cb>>
    BY <1>1 DEF CloseReturns, W
  <2>2. \A t : ~In(t, <<>>)
    BY DEF In
  <2>3. SidesIn' = SidesIn
    BY <2>1 DEF SidesIn
  <2>4. UnitsType' /\ OpenInv' /\ CallerInv'
    BY <2>1, <2>3 DEF UnitsType, OpenInv, CallerInv
  <2>5. ListInv'
    BY <2>1, <2>3 DEF ListInv, CallList, CloseList, W
  <2>6. LockInv'
    BY <2>1 DEF LockInv, At, Of
  <2>7. RunsInv'
    BY <2>1, <2>2 DEF RunsInv, Disposed
  <2>8. CloseInv'
    BY <2>1, <2>2 DEF CloseInv
  <2>9. QED
    BY <2>4, <2>5, <2>6, <2>7, <2>8
<1>2. CASE CloseStop
  <2>1. /\ Runs("closer", "stop") /\ Done("closer", 1) /\ running' \subseteq running
        /\ UNCHANGED <<mode, phase, build, has, closed, wakeMu, checked, cb>>
    BY <1>2 DEF CloseStop, StopUnit
  <2>2. /\ phase = "closing" /\ W # <<>> /\ At("closer") = "stop" /\ "closer" \notin checked
        /\ work'["caller"] = work["caller"] /\ ~(work'["closer"] # <<>> /\ At("closer")' = "signal")
        /\ has \in [Sides -> SUBSET Parts] /\ checked' \subseteq Workers
        /\ wakeMu' = [e \in Sides |-> wakeMu'[e]]
        /\ At("caller")' = At("caller") /\ Of("caller")' = Of("caller")
    BY <2>1, ClosingStep
  <2>3. LockInv'
    BY <2>1, ClosingStep
  <2>4. "semaphore" \in has[d]
    BY <2>2 DEF CloseInv
  <2>5. 1 # 3 /\ d = Of("closer") /\ "stop" \notin {"dispose", "seal", "destroy", "unmap"}
    OBVIOUS
  <2>6. QED
    BY <2>1, <2>2, <2>3, <2>4, <2>5, CloserKeeps
<1>3. CASE Dispose
  <2>1. /\ Runs("closer", "dispose") /\ Done("closer", 1) /\ cb[d] = "idle"
        /\ running' = running \ {d} /\ has' = [has EXCEPT ![d] = @ \ {"unit", "initialized"}]
        /\ UNCHANGED <<mode, phase, build, closed, wakeMu, checked, cb>>
    BY <1>3 DEF Dispose
  <2>2. /\ phase = "closing" /\ W # <<>> /\ At("closer") = "dispose" /\ "closer" \notin checked /\ d \in Sides
        /\ work'["caller"] = work["caller"] /\ ~(work'["closer"] # <<>> /\ At("closer")' = "signal")
        /\ has \in [Sides -> SUBSET Parts] /\ checked' \subseteq Workers
        /\ wakeMu' = [e \in Sides |-> wakeMu'[e]]
        /\ At("caller")' = At("caller") /\ Of("caller")' = Of("caller")
    BY <2>1, ClosingStep
  <2>3. LockInv'
    BY <2>1, ClosingStep
  <2>4. "semaphore" \in has[d]
    BY <2>2 DEF CloseInv
  <2>5. /\ has' \in [Sides -> SUBSET Parts] /\ has'[d] = has[d] \ {"unit", "initialized"}
        /\ \A e \in Sides : e # d => has'[e] = has[e]
    BY <2>1, <2>2
  <2>6. has'[d] \subseteq {"memory", "semaphore"} /\ "semaphore" \in has'[d]
    BY <2>2, <2>4, <2>5 DEF Parts
  <2> DEFINE x == "dispose"
  <2>7. /\ 1 # 3 /\ d = Of("closer") /\ x \notin {"seal", "destroy", "unmap"} /\ x = At("closer")
        /\ Done("closer", 1)
    BY <2>1, <2>2
  <2> HIDE DEF x
  <2>8. Disposed(d)'
    BY <2>1 DEF Disposed
  <2>9. QED
    BY <2>1, <2>2, <2>3, <2>5, <2>6, <2>7, <2>8, CloserKeeps
<1>4. CASE Seal
  <2>1. /\ Runs("closer", "seal") /\ Done("closer", 1) /\ wakeMu[d] = "free"
        /\ closed' = closed \cup {d}
        /\ UNCHANGED <<mode, phase, build, has, running, wakeMu, checked, cb>>
    BY <1>4 DEF Seal
  <2>2. /\ phase = "closing" /\ W # <<>> /\ At("closer") = "seal" /\ "closer" \notin checked /\ d \in Sides
        /\ work'["caller"] = work["caller"] /\ ~(work'["closer"] # <<>> /\ At("closer")' = "signal")
        /\ has \in [Sides -> SUBSET Parts] /\ checked' \subseteq Workers
        /\ wakeMu' = [e \in Sides |-> wakeMu'[e]]
        /\ At("caller")' = At("caller") /\ Of("caller")' = Of("caller")
    BY <2>1, ClosingStep
  <2>3. "caller" \in checked => Of("caller") # d
    BY <2>1, <2>2 DEF LockInv, Workers
  <2>4. LockInv'
    BY <2>1, <2>2, <2>3 DEF LockInv, Workers, UnitsType
  <2>5. "semaphore" \in has[d] /\ Disposed(d) /\ has[d] \subseteq {"memory", "semaphore"}
    BY <2>2 DEF CloseInv
  <2> DEFINE x == "seal"
  <2>6. /\ 1 # 3 /\ d = Of("closer") /\ x \notin {"dispose", "destroy", "unmap"} /\ x = At("closer")
        /\ d \in closed'
    BY <2>1, <2>2
  <2> HIDE DEF x
  <2>7. Disposed(d)'
    BY <2>1, <2>5 DEF Disposed
  <2>8. QED
    BY <2>1, <2>2, <2>4, <2>5, <2>6, <2>7, CloserKeeps
<1>5. CASE Destroy
  <2>1. /\ Runs("closer", "destroy") /\ Done("closer", 1)
        /\ has' = [has EXCEPT ![d] = @ \ {"semaphore"}]
        /\ UNCHANGED <<mode, phase, build, running, closed, wakeMu, checked, cb>>
    BY <1>5 DEF Destroy
  <2>2. /\ phase = "closing" /\ W # <<>> /\ At("closer") = "destroy" /\ "closer" \notin checked /\ d \in Sides
        /\ work'["caller"] = work["caller"] /\ ~(work'["closer"] # <<>> /\ At("closer")' = "signal")
        /\ has \in [Sides -> SUBSET Parts] /\ checked' \subseteq Workers
        /\ wakeMu' = [e \in Sides |-> wakeMu'[e]]
        /\ At("caller")' = At("caller") /\ Of("caller")' = Of("caller")
    BY <2>1, ClosingStep
  <2>3. LockInv'
    BY <2>1, ClosingStep
  <2>4. d \in closed /\ Disposed(d) /\ has[d] \subseteq {"memory", "semaphore"}
    BY <2>2 DEF CloseInv
  <2>5. /\ has' \in [Sides -> SUBSET Parts] /\ has'[d] = has[d] \ {"semaphore"}
        /\ \A e \in Sides : e # d => has'[e] = has[e]
    BY <2>1, <2>2
  <2>6. has'[d] \subseteq {"memory"} /\ has'[d] \subseteq {"memory", "semaphore"} /\ has'[d] \subseteq has[d]
    BY <2>4, <2>5
  <2> DEFINE x == "destroy"
  <2>7. /\ 1 # 3 /\ d = Of("closer") /\ x \notin {"unmap", "dispose"} /\ x \in {"destroy", "unmap"}
        /\ x = At("closer") /\ d \in closed'
    BY <2>1, <2>2, <2>4
  <2> HIDE DEF x
  <2>8. Disposed(d)'
    BY <2>1, <2>4 DEF Disposed
  <2>9. QED
    BY <2>1, <2>2, <2>3, <2>5, <2>6, <2>7, <2>8, CloserKeeps
<1>6. CASE Unmap
  <2>1. /\ Runs("closer", "unmap") /\ Done("closer", 1)
        /\ has' = [has EXCEPT ![d] = @ \ {"memory"}]
        /\ UNCHANGED <<mode, phase, build, running, closed, wakeMu, checked, cb>>
    BY <1>6 DEF Unmap
  <2>2. /\ phase = "closing" /\ W # <<>> /\ At("closer") = "unmap" /\ "closer" \notin checked /\ d \in Sides
        /\ work'["caller"] = work["caller"] /\ ~(work'["closer"] # <<>> /\ At("closer")' = "signal")
        /\ has \in [Sides -> SUBSET Parts] /\ checked' \subseteq Workers
        /\ wakeMu' = [e \in Sides |-> wakeMu'[e]]
        /\ At("caller")' = At("caller") /\ Of("caller")' = Of("caller")
    BY <2>1, ClosingStep
  <2>3. LockInv'
    BY <2>1, ClosingStep
  <2>4. d \in closed /\ Disposed(d) /\ has[d] \subseteq {"memory"}
    BY <2>2 DEF CloseInv
  <2>5. /\ has' \in [Sides -> SUBSET Parts] /\ has'[d] = has[d] \ {"memory"}
        /\ \A e \in Sides : e # d => has'[e] = has[e]
    BY <2>1, <2>2
  <2>6. has'[d] = {} /\ has'[d] \subseteq has[d]
    BY <2>4, <2>5
  <2> DEFINE x == "unmap"
  <2>7. /\ 1 # 3 /\ d = Of("closer") /\ x \notin {"dispose", "seal", "destroy"} /\ x \in {"destroy", "unmap"}
        /\ x = At("closer") /\ d \in closed'
    BY <2>1, <2>2, <2>4
  <2> HIDE DEF x
  <2>8. Disposed(d)'
    BY <2>1, <2>4 DEF Disposed
  <2>9. QED
    BY <2>1, <2>2, <2>3, <2>5, <2>6, <2>7, <2>8, CloserKeeps
<1>7. QED
  BY <1>1, <1>2, <1>3, <1>4, <1>5, <1>6 DEF Closing

\* The output is started by a stream that has one.
StartInv == pc = "startOutput" => HasOutput

\* No step makes a stream without an output start it.
LEMMA StartKept ==
  ASSUME StartInv, Next
  PROVE  StartInv'
<1>1. CASE (OpenStep \/ OpenFails \/ BeginClose) /\ UNCHANGED stream
  BY <1>1 DEF OpenStep, OpenFails, BeginClose, StartInv, HasOutput
<1>2. CASE Goroutines
  BY <1>2 DEF Goroutines, Interrupting, SwapInterrupted, CheckOpen, SignalAndUnlock, Closing, CloseStop,
     Dispose, Seal, Destroy, Unmap, CloseReturns, StartInv, HasOutput
<1>3. CASE RenderLoad \/ CaptureLoad \/ RenderGoesOn \/ CaptureGoesOn
  <2>1. UNCHANGED <<mode, pc>>
    BY <1>3 DEF RenderLoad, CaptureLoad, RenderGoesOn, CaptureGoesOn, RenderPublish, CallbackSignal,
       CaptureStamp, CapturePublish, Callback, NoUnit, Kept
  <2>2. QED
    BY <2>1 DEF StartInv, HasOutput
<1>4. CASE Thread \/ Aborted \/ DeviceGone
  <2> USE DEF NoUnit, Kept, Goes, End, HasOutput, StartInv
  <2>1. CASE StartInput
    BY <2>1 DEF StartInput
  <2>2. CASE StartOutput
    BY <2>2 DEF StartOutput
  <2>3. CASE PrimeReader
    BY <2>3 DEF PrimeReader
  <2>4. CASE Unprime
    BY <2>4 DEF Unprime
  <2>5. CASE Wait
    BY <2>5 DEF Wait
  <2>6. CASE OutputLook
    BY <2>6 DEF OutputLook
  <2>7. CASE Drops
    BY <2>7 DEF Drops
  <2>8. CASE InputLook
    BY <2>8 DEF InputLook
  <2>9. CASE Woken
    BY <2>9 DEF Woken
  <2>10. CASE TimedOut
    BY <2>10 DEF TimedOut
  <2>11. CASE LoadHead
    BY <2>11 DEF LoadHead
  <2>12. CASE ReadClock
    BY <2>12 DEF ReadClock
  <2>13. CASE Read
    BY <2>13 DEF Read
  <2>14. CASE Commit
    BY <2>14 DEF Commit
  <2>15. CASE Recover
    BY <2>15 DEF Recover
  <2>16. CASE Stop
    BY <2>16 DEF Stop
  <2>17. CASE Aborted \/ DeviceGone
    BY <2>17 DEF Aborted, DeviceGone
  <2>18. QED
    BY <1>4, <2>1, <2>2, <2>3, <2>4, <2>5, <2>6, <2>7, <2>8, <2>9, <2>10, <2>11, <2>12, <2>13, <2>14,
       <2>15, <2>16, <2>17 DEF Thread
<1>5. QED
  BY <1>1, <1>2, <1>3, <1>4 DEF Next

\* The stream thread starts and stops only units of the opened stream.
LEMMA ThreadKeeps ==
  ASSUME UnitsInv, StartInv, Thread \/ Aborted \/ DeviceGone
  PROVE  UnitsInv'
<1> USE DEF UnitsInv
<1>1. /\ UNCHANGED <<mode, phase, build, has, closed, wakeMu, work, checked, cb>>
      /\ \/ running' \subseteq running
         \/ phase = "opened" /\ \E d \in SidesIn : running' = running \cup {d}
  <2>1. mode \in {"output", "input", "duplex"}
    BY DEF UnitsType
  <2>2. /\ HasInput => "input" \in SidesIn
        /\ HasOutput => "output" \in SidesIn
        /\ ~HasInput => HasOutput
    BY <2>1 DEF HasInput, HasOutput, SidesIn, Sides
  <2> USE DEF Kept, Goes
  <2>3. CASE StartInput
    BY <2>2, <2>3 DEF StartInput, StartUnit, Awake
  <2>4. CASE StartOutput
    <3>1. HasOutput
      BY <2>2, <2>4 DEF StartOutput, StartInv
    <3>2. QED
      BY <2>2, <2>4, <3>1 DEF StartOutput, StartUnit, Awake
  <2>5. CASE Unprime \/ Stop
    BY <2>5 DEF Unprime, Stop, StopUnit
  <2> USE DEF NoUnit, End
  <2>6. CASE PrimeReader \/ Wait \/ OutputLook \/ Drops
    BY <2>6 DEF PrimeReader, Wait, OutputLook, Drops
  <2>7. CASE InputLook
    BY <2>7 DEF InputLook
  <2>8. CASE Woken \/ TimedOut \/ Aborted \/ DeviceGone
    BY <2>8 DEF Woken, TimedOut, Aborted, DeviceGone
  <2>9. CASE LoadHead \/ Read \/ Commit \/ Recover
    BY <2>9 DEF LoadHead, Read, Commit, Recover
  <2>10. CASE ReadClock
    BY <2>10 DEF ReadClock
  <2>11. QED
    BY <2>3, <2>4, <2>5, <2>6, <2>7, <2>8, <2>9, <2>10 DEF Thread
<1>2. SidesIn \subseteq Sides
  BY HalvesOk DEF UnitsType
<1>3. running' \subseteq Sides /\ cb' = [d \in Sides |-> cb'[d]]
  BY <1>1, <1>2 DEF UnitsType
<1>4. \A d \in Sides : Disposed(d) => Disposed(d)' \/ (phase = "opened" /\ d \in SidesIn)
  BY <1>1 DEF Disposed
<1>5. QED
  BY <1>1, <1>3, <1>4, ThreadLeaves

\* A callback moves on only while its unit may run.
LEMMA CallbackKeeps ==
  ASSUME UnitsInv, RenderLoad \/ CaptureLoad \/ RenderGoesOn \/ CaptureGoesOn
  PROVE  UnitsInv'
<1> USE DEF UnitsInv
<1>1. \E d \in Sides : ~Disposed(d) /\ \E to : Callback(d, to)
  <2> USE DEF Sides, Disposed
  <2>1. CASE RenderLoad
    BY <2>1 DEF RenderLoad, Calls
  <2>2. CASE CaptureLoad
    BY <2>2 DEF CaptureLoad, Calls
  <2>3. CASE RenderGoesOn
    <3>1. CASE RenderPublish
      BY <3>1 DEF RenderPublish
    <3>2. CASE CallbackSignal("output")
      BY <3>2 DEF CallbackSignal
    <3>3. QED
      BY <2>3, <3>1, <3>2 DEF RenderGoesOn
  <2>4. CASE CaptureGoesOn
    <3>1. CASE CaptureStamp
      BY <3>1 DEF CaptureStamp
    <3>2. CASE CapturePublish
      BY <3>2 DEF CapturePublish
    <3>3. CASE CallbackSignal("input")
      BY <3>3 DEF CallbackSignal
    <3>4. QED
      BY <2>4, <3>1, <3>2, <3>3 DEF CaptureGoesOn
  <2>5. QED
    BY <2>1, <2>2, <2>3, <2>4
<1>2. PICK d \in Sides : ~Disposed(d) /\ \E to : Callback(d, to)
  BY <1>1
<1>. PICK to : Callback(d, to)
  BY <1>2
<1>3. /\ UNCHANGED <<mode, phase, build, has, closed, wakeMu, work, checked, running>>
      /\ cb' = [cb EXCEPT ![d] = to]
  BY <1>2 DEF Callback, NoUnit, Kept
<1>4. /\ cb' = [e \in Sides |-> cb'[e]] /\ running' \subseteq Sides
      /\ \A e \in Sides : e # d => cb'[e] = cb[e]
  BY <1>2, <1>3 DEF UnitsType
<1>5. \A e \in Sides : Disposed(e) => Disposed(e)'
  BY <1>2, <1>3, <1>4 DEF Disposed
<1>6. QED
  BY <1>3, <1>4, <1>5, ThreadLeaves

\* Every step keeps the invariant of the units.
LEMMA UnitsKept ==
  ASSUME UnitsInv /\ StartInv, [Next]_vars
  PROVE  UnitsInv' /\ StartInv'
<1>1. CASE Next
  <2>1. StartInv'
    BY <1>1, StartKept
  <2>2. CASE (OpenStep \/ OpenFails \/ BeginClose) /\ UNCHANGED stream
    BY <2>2, <2>1, OpenStepKeeps, OpenFailsKeeps, BeginCloseKeeps
  <2>3. CASE Goroutines
    BY <2>3, <2>1, InterruptingKeeps, ClosingKeeps DEF Goroutines, Workers
  <2>4. CASE Thread \/ Aborted \/ DeviceGone
    BY <2>4, <2>1, ThreadKeeps
  <2>5. CASE RenderLoad \/ CaptureLoad \/ RenderGoesOn \/ CaptureGoesOn
    BY <2>5, <2>1, CallbackKeeps
  <2>6. UnitsInv'
    BY <1>1, <2>2, <2>3, <2>4, <2>5 DEF Next
  <2>7. QED
    BY <2>1, <2>6
<1>2. CASE UNCHANGED vars
  <2>1. UNCHANGED <<mode, phase, build, has, closed, wakeMu, work, checked, running, cb, pc>>
    BY <1>2 DEF vars, units
  <2>2. /\ running' \subseteq Sides /\ cb' = [d \in Sides |-> cb'[d]]
        /\ \A d \in Sides : Disposed(d) => Disposed(d)'
    BY <2>1 DEF UnitsInv, UnitsType, Disposed
  <2>3. UnitsInv'
    BY <2>1, <2>2, ThreadLeaves
  <2>4. QED
    BY <2>1, <2>3 DEF StartInv, HasOutput
<1>3. QED
  BY <1>1, <1>2

\* The inductive invariant of the units: the lists, the locks, what exists and
\* what may run, at every step of Open, Interrupt and Close.
THEOREM UnitsInvariance == Spec => []UnitsInv
<1>1. StreamInit => UnitsInv /\ StartInv
  BY UnitsStart DEF StreamInit, UnitsInit, StartInv
<1>2. UnitsInv /\ StartInv /\ [Next]_vars => (UnitsInv /\ StartInv)'
  BY UnitsKept
<1>3. QED
  BY <1>1, <1>2, PTL DEF Spec

\* When Close, or an Open that failed, has returned, nothing is left of the
\* memory, the semaphores or the units, whatever step of Open failed and
\* whoever was interrupting.
THEOREM AllReleased == Spec => []NothingLeft
<1>1. UnitsInv => NothingLeft
  BY DEF UnitsInv, CloseInv, NothingLeft
<1>2. QED
  BY <1>1, UnitsInvariance, PTL

\* No semaphore is signalled after it was destroyed, and no callback runs
\* after its unit or its memory is gone, however Close and Interrupt meet.
THEOREM NothingUsedAfter == Spec => []NoUseAfterClose
<1>1. ASSUME UnitsInv
      PROVE  NoUseAfterClose
  <2> USE <1>1 DEF UnitsInv
  <2>1. ASSUME NEW p \in checked
        PROVE  "semaphore" \in has[Of(p)]
    <3>1. p \in Workers /\ phase # "open" /\ work[p] # <<>> /\ At(p) = "signal" /\ Of(p) \notin closed
      BY DEF LockInv, UnitsType
    <3>2. CASE p = "caller"
      <4>1. work[p] \in Seq(Tasks) /\ CallList(work[p])
        BY <3>1, <3>2 DEF UnitsType, ListInv
      <4>2. Head(work[p]) = work[p][1] /\ 1 \in 1 .. Len(work[p])
        BY <3>1, <4>1, Popped
      <4>3. Of(p) \in SidesIn
        BY <4>1, <4>2 DEF CallList, Of
      <4>4. QED
        BY <3>1, <3>2, <4>3 DEF CallerInv
    <3>3. CASE p = "closer"
      <4>1. phase = "closing" /\ W # <<>>
        BY <3>1, <3>3 DEF ListInv, W
      <4>2. QED
        BY <3>1, <3>3, <4>1 DEF CloseInv
    <3>4. QED
      BY <3>1, <3>2, <3>3 DEF Workers
  <2>2. \A d \in Sides : cb[d] # "idle" => {"memory", "semaphore", "unit"} \subseteq has[d]
    BY DEF RunsInv, Disposed
  <2>3. QED
    BY <2>1, <2>2 DEF NoUseAfterClose
<1>2. QED
  BY <1>1, UnitsInvariance, PTL

\* Both of what Open and Close owe the units.
THEOREM UnitsReleased == Spec => []UnitsSafe
<1>1. QED
  BY AllReleased, NothingUsedAfter, PTL DEF UnitsSafe

-----------------------------------------------------------------------------
(* What the threads exchange.                                              *)

\* What newStream makes of its sizes, conjunct by conjunct.
LEMMA Sizes ==
  /\ Period \in Nat \ {0} /\ Fill \in Nat \ {0} /\ Half \in Nat \ {0} /\ Target \in Nat \ {0}
  /\ MaxQueue \in Nat \ {0} /\ Capacity \in Nat \ {0} /\ MaxPacket \in Nat \ {0} /\ Spare \in Nat \ {0}
  /\ MaxRequest \in Nat \ {0} /\ Target >= Period + Half /\ MaxQueue >= Target
  /\ Target <= Capacity => Target + Half + MaxPacket + Spare <= Capacity + Period
  /\ Need = Period + Half
BY StreamAssumption DEF Need

RingType ==
    /\ n \in [Sides -> Nat] /\ cb = [d \in Sides |-> cb[d]] /\ begun \in BOOLEAN
    /\ queued \in Nat /\ used \in Nat /\ lag \in Nat /\ total \in Nat /\ spare \in Nat

\* Before the output is started nothing was waited for; once a period was
\* waited for there is room for it, until it is committed.
OutputInv ==
    /\ queued <= Fill /\ n["output"] <= queued
    /\ outReady => queued + Period <= Fill
    /\ HasOutput /\ (pc \in {"drops", "input", "load", "callback"} \/ Reading) => outReady
    /\ pc \in {"out", "prime", "primed", "startOutput", "unprime"} => ~outReady

\* Where the input half's turn is; and Start has waited until the ring held
\* Target frames, which it does not if there is no room for so many.
PrimedInv ==
    /\ pc \in {"prime", "primed", "drops", "xrun", "input", "load"} \/ Reading => HasInput
    /\ HasInput /\ pc \notin {"out", "prime"} /\ ~Leaving => Target <= total
    /\ queueReset /\ ~Leaving => pc = "xrun" /\ Target <= used

\* The tail stays Half frames before the reader's phase once it has begun, or
\* at the first frame of all; before that, the ring has room for all that may
\* come while it reads.
InputInv ==
    /\ n["input"] <= MaxPacket /\ used + n["input"] <= Capacity /\ total <= Capacity
    /\ cb["input"] \in {"idle", "signal"} => n["input"] = 0
    /\ begun => used = Least(total, lag + Half) /\ lag <= total
    /\ pc \in {"out", "prime"} => lag <= used /\ used <= total
    /\ Reading /\ ~begun => /\ lag + n["input"] + spare <= Target + Spare + MaxPacket
                            /\ lag <= total \/ total = Capacity
    /\ pc = "load" \/ Reading => lag >= Need
    /\ pc \in {"out", "prime", "primed", "startOutput", "unprime"} => ~begun

RingInv == RingType /\ OutputInv /\ PrimedInv /\ InputInv

\* The invariant of the rings holds of empty rings.
LEMMA RingStart == StreamInit => RingInv
<1> SUFFICES ASSUME StreamInit PROVE RingInv
  OBVIOUS
<1>1. /\ n = [d \in Sides |-> 0] /\ cb = [d \in Sides |-> "idle"] /\ queued = 0 /\ outReady = FALSE
      /\ used = 0 /\ lag = 0 /\ total = 0 /\ begun = FALSE /\ spare = Spare /\ pc = "out"
      /\ queueReset = FALSE
  BY DEF StreamInit, UnitsInit
<1>2. n["input"] = 0 /\ n["output"] = 0 /\ n \in [Sides -> Nat] /\ cb = [d \in Sides |-> cb[d]]
  BY <1>1 DEF Sides
<1>3. RingType
  BY <1>1, <1>2, Sizes DEF RingType
<1>4. OutputInv
  BY <1>1, <1>2, Sizes DEF OutputInv, Reading
<1>5. PrimedInv
  BY <1>1 DEF PrimedInv, Reading
<1>6. InputInv
  BY <1>1, <1>2, Sizes DEF InputInv, Reading
<1>7. QED
  BY <1>3, <1>4, <1>5, <1>6 DEF RingInv

\* A step that leaves the rings alone, and goes where nothing more is asked of
\* them.
LEMMA RingLeft ==
  ASSUME RingInv,
         UNCHANGED <<mode, n, cb, queued, outReady, used, lag, total, begun, queueReset, spare>>,
         \/ UNCHANGED pc
         \/ pc = "out" /\ pc' = "over"
         \/ pc = "out" /\ pc' = "prime" /\ HasInput
         \/ pc = "prime" /\ pc' = "primed" /\ lag >= Target
         \/ pc = "wait" /\ pc' = "output"
         \/ pc = "wait" /\ pc' = "drops" /\ HasInput /\ (HasOutput => outReady)
         \/ pc = "drops" /\ pc' \in {"xrun", "input"}
         \/ pc = "input" /\ pc' = "load" /\ lag >= Need
         \/ Reading /\ Reading'
  PROVE  RingInv'
<1> USE DEF RingInv
<1>1. RingType'
  BY DEF RingType
<1>2. OutputInv'
  BY DEF OutputInv, HasOutput, Reading
<1>3. PrimedInv'
  BY Sizes DEF PrimedInv, InputInv, RingType, HasInput, Reading, Leaving
<1>4. InputInv'
  BY DEF InputInv, Reading
<1>5. QED
  BY <1>1, <1>2, <1>3, <1>4

\* A step that forgets the rings, on the stream thread's way out.
LEMMA RingForgotten ==
  ASSUME RingInv, Forgotten, UNCHANGED <<mode, cb, outReady, queueReset, spare>>,
         \/ pc' \in {"stop", "stopInput", "over"}
         \/ pc \in {"prime", "startOutput"} /\ pc' = "unprime"
  PROVE  RingInv'
<1> USE DEF RingInv
<1>1. /\ n' = [d \in Sides |-> 0] /\ queued' = 0 /\ used' = 0 /\ lag' = 0 /\ total' = 0
      /\ begun' = FALSE
  BY DEF Forgotten
<1>2. n' \in [Sides -> Nat] /\ n'["input"] = 0 /\ n'["output"] = 0
  BY <1>1 DEF Sides
<1>3. RingType'
  BY <1>1, <1>2 DEF RingType
<1>4. outReady => Period <= Fill
  BY Sizes DEF OutputInv, RingType
<1>5. OutputInv'
  BY <1>1, <1>2, <1>4, Sizes DEF OutputInv, Reading
<1>6. PrimedInv'
  BY <1>1 DEF PrimedInv, Reading, Leaving, HasInput
<1>7. InputInv'
  BY <1>1, <1>2, Sizes DEF InputInv, Reading
<1>8. QED
  BY <1>3, <1>5, <1>6, <1>7

\* The render and the capture callback keep it.
LEMMA CallbackRings ==
  ASSUME RingInv, RenderLoad \/ CaptureLoad \/ RenderGoesOn \/ CaptureGoesOn
  PROVE  RingInv'
<1> USE DEF RingInv
<1>0. /\ n \in [Sides -> Nat] /\ n["input"] \in Nat /\ n["output"] \in Nat
      /\ "input" \in Sides /\ "output" \in Sides
  BY DEF RingType, Sides
<1>1. CASE RenderLoad
  <2>1. PICK req \in 1 .. MaxRequest : n' = [n EXCEPT !["output"] = Least(req, queued)]
    BY <1>1 DEF RenderLoad
  <2>2. /\ n' \in [Sides -> Nat] /\ n'["input"] = n["input"] /\ n'["output"] <= queued
    BY <1>0, <2>1, Sizes DEF RingType, Least
  <2>3. /\ cb' = [cb EXCEPT !["output"] = "copy"] /\ cb'["input"] = cb["input"]
        /\ cb' = [d \in Sides |-> cb'[d]]
        /\ UNCHANGED <<mode, pc, queued, outReady, used, lag, total, begun, queueReset, spare>>
    BY <1>1 DEF RenderLoad, Callback, NoUnit, Kept, RingType, Sides
  <2>4. RingType'
    BY <2>2, <2>3 DEF RingType
  <2>5. OutputInv'
    BY <2>2, <2>3 DEF OutputInv, HasOutput, Reading
  <2>6. InputInv'
    BY <2>2, <2>3 DEF InputInv, Reading
  <2>7. PrimedInv'
    BY <2>3 DEF PrimedInv, HasInput, Reading, Leaving
  <2>8. QED
    BY <2>4, <2>5, <2>6, <2>7
<1>2. CASE RenderPublish
  <2>1. /\ queued' = queued - n["output"] /\ n' = [n EXCEPT !["output"] = 0]
        /\ cb' = [cb EXCEPT !["output"] = "signal"] /\ cb'["input"] = cb["input"]
        /\ cb' = [d \in Sides |-> cb'[d]]
        /\ UNCHANGED <<mode, pc, outReady, used, lag, total, begun, queueReset, spare>>
    BY <1>2 DEF RenderPublish, Callback, NoUnit, Kept, RingType, Sides
  <2>2. /\ n' \in [Sides -> Nat] /\ n'["input"] = n["input"] /\ n'["output"] = 0
    BY <1>0, <2>1
  <2>3. queued' \in Nat /\ queued' <= queued
    BY <1>0, <2>1 DEF RingType, OutputInv
  <2>4. RingType'
    BY <2>1, <2>2, <2>3 DEF RingType
  <2>5. OutputInv'
    BY <2>1, <2>2, <2>3, Sizes DEF OutputInv, HasOutput, Reading, RingType
  <2>6. InputInv'
    BY <2>1, <2>2 DEF InputInv, Reading
  <2>7. PrimedInv'
    BY <2>1 DEF PrimedInv, HasInput, Reading, Leaving
  <2>8. QED
    BY <2>4, <2>5, <2>6, <2>7
<1>3. CASE CallbackSignal("output") \/ CallbackSignal("input")
  <2>1. PICK d \in Sides : CallbackSignal(d)
    BY <1>0, <1>3
  <2>2. /\ cb[d] = "signal" /\ cb' = [cb EXCEPT ![d] = "idle"]
        /\ UNCHANGED <<mode, n, pc, queued, outReady, used, lag, total, begun, queueReset, spare>>
    BY <2>1 DEF CallbackSignal, Callback, NoUnit, Kept, stream
  <2>3. /\ cb' = [e \in Sides |-> cb'[e]]
        /\ cb'["input"] = IF d = "input" THEN "idle" ELSE cb["input"]
    BY <1>0, <2>1, <2>2 DEF RingType
  <2>4. RingType' /\ OutputInv'
    BY <2>2, <2>3 DEF RingType, OutputInv, HasOutput, Reading
  <2>5. InputInv'
    BY <2>2, <2>3 DEF InputInv, Reading
  <2>6. PrimedInv'
    BY <2>2 DEF PrimedInv, HasInput, Reading, Leaving
  <2>7. QED
    BY <2>4, <2>5, <2>6
<1>4. CASE CaptureLoad
  <2>1. PICK k \in 1 .. MaxPacket, failed \in BOOLEAN :
          /\ ~begun /\ Reading => k <= spare
          /\ IF failed \/ ~Room(k) \/ Leaving
             THEN Callback("input", "signal") /\ UNCHANGED <<n, spare>>
             ELSE /\ n' = [n EXCEPT !["input"] = k] /\ Callback("input", "stamp")
                  /\ spare' = IF ~begun /\ Reading THEN spare - k ELSE spare
    BY <1>4 DEF CaptureLoad
  <2>2. UNCHANGED <<mode, pc, queued, outReady, used, lag, total, begun, queueReset>> /\ n["input"] = 0
    <3>1. cb["input"] = "idle"
      BY <1>4 DEF CaptureLoad, Calls
    <3>2. QED
      BY <1>4, <2>1, <3>1 DEF CaptureLoad, Callback, NoUnit, Kept, InputInv
  <2>3. /\ cb' = [d \in Sides |-> cb'[d]]
        /\ n' \in [Sides -> Nat] /\ spare' \in Nat /\ n'["output"] = n["output"]
        /\ n'["input"] <= MaxPacket /\ used + n'["input"] <= Capacity
        /\ cb'["input"] = "signal" => n'["input"] = 0
        /\ cb'["input"] # "idle"
        /\ Reading /\ ~begun => n'["input"] + spare' = n["input"] + spare
    <3>1. CASE failed \/ ~Room(k) \/ Leaving
      <4>1. cb' = [cb EXCEPT !["input"] = "signal"] /\ UNCHANGED <<n, spare>>
        BY <2>1, <3>1 DEF Callback
      <4>2. cb' = [d \in Sides |-> cb'[d]] /\ cb'["input"] = "signal"
        BY <1>0, <4>1 DEF RingType
      <4>3. QED
        BY <1>0, <2>2, <4>1, <4>2 DEF RingType, InputInv
    <3>2. CASE ~(failed \/ ~Room(k) \/ Leaving)
      <4>1. /\ cb' = [cb EXCEPT !["input"] = "stamp"] /\ n' = [n EXCEPT !["input"] = k]
            /\ spare' = (IF ~begun /\ Reading THEN spare - k ELSE spare) /\ k <= Capacity - used
        BY <2>1, <3>2 DEF Callback, Room
      <4>2. cb' = [d \in Sides |-> cb'[d]] /\ cb'["input"] = "stamp"
        BY <1>0, <4>1 DEF RingType
      <4>3. k \in Nat /\ k <= MaxPacket
        BY Sizes
      <4>4. n' \in [Sides -> Nat] /\ n'["output"] = n["output"] /\ n'["input"] = k
        BY <1>0, <4>1, <4>3
      <4>5. spare' \in Nat /\ (Reading /\ ~begun => k + spare' = 0 + spare)
        BY <2>1, <4>1, <4>3 DEF RingType
      <4>6. used + k <= Capacity
        BY <4>1, <4>3, Sizes DEF RingType
      <4>7. QED
        BY <2>2, <4>2, <4>3, <4>4, <4>5, <4>6
    <3>3. QED
      BY <3>1, <3>2
  <2>4. RingType'
    BY <2>2, <2>3 DEF RingType
  <2>5. OutputInv'
    BY <2>2, <2>3 DEF OutputInv, HasOutput, Reading
  <2>6. InputInv'
    <3>1. Reading' = Reading
      BY <2>2 DEF Reading
    <3>2. /\ n'["input"] \in Nat /\ lag \in Nat /\ spare \in Nat /\ spare' \in Nat
      BY <1>0, <2>3 DEF RingType
    <3>3. Reading /\ ~begun => lag + n'["input"] + spare' <= Target + Spare + MaxPacket
      BY <1>0, <2>3, <3>2, Sizes DEF InputInv
    <3>4. QED
      BY <2>2, <2>3, <3>1, <3>3 DEF InputInv
  <2>7. PrimedInv'
    BY <2>2 DEF PrimedInv, HasInput, Reading, Leaving
  <2>8. QED
    BY <2>4, <2>5, <2>6, <2>7
<1>5. CASE CaptureStamp
  <2>1. /\ cb["input"] \notin {"idle", "signal"} => cb'["input"] \notin {"idle", "signal"}
        /\ cb["input"] \in {"stamp", "ticks", "even"} /\ cb' = [d \in Sides |-> cb'[d]]
        /\ UNCHANGED <<mode, n, pc, queued, outReady, used, lag, total, begun, queueReset, spare>>
    BY <1>0, <1>5 DEF CaptureStamp, Callback, NoUnit, Kept, RingType
  <2>2. RingType' /\ OutputInv'
    BY <2>1 DEF RingType, OutputInv, HasOutput, Reading
  <2>3. InputInv'
    BY <2>1 DEF InputInv, Reading
  <2>4. PrimedInv'
    BY <2>1 DEF PrimedInv, HasInput, Reading, Leaving
  <2>5. QED
    BY <2>2, <2>3, <2>4
<1>6. CASE CapturePublish
  <2>1. /\ used' = used + n["input"] /\ lag' = lag + n["input"] /\ n' = [n EXCEPT !["input"] = 0]
        /\ total' = Least(total + n["input"], Capacity)
        /\ cb' = [cb EXCEPT !["input"] = "signal"]
        /\ UNCHANGED <<mode, pc, queued, outReady, begun, queueReset, spare>>
    BY <1>6 DEF CapturePublish, Callback, NoUnit, Kept
  <2>2. /\ n' \in [Sides -> Nat] /\ n'["input"] = 0 /\ n'["output"] = n["output"]
        /\ cb' = [d \in Sides |-> cb'[d]] /\ cb'["input"] = "signal"
    BY <1>0, <2>1 DEF RingType
  <2>3. total' \in Nat /\ total <= total' /\ total' <= Capacity
        /\ (total' = total + n["input"] \/ total' = Capacity)
    BY <1>0, <2>1, Sizes DEF Least, RingType, InputInv
  <2>4. RingType'
    BY <1>0, <2>1, <2>2, <2>3 DEF RingType
  <2>5. OutputInv'
    BY <2>1, <2>2 DEF OutputInv, HasOutput, Reading
  <2>6. PrimedInv'
    <3>1. used <= used' /\ used' \in Nat
      BY <1>0, <2>1 DEF RingType
    <3>2. QED
      BY <2>1, <2>3, <3>1, Sizes DEF PrimedInv, HasInput, Reading, Leaving, RingType
  <2>7. InputInv'
    <3>1. begun => used' = Least(total', lag' + Half) /\ lag' <= total'
      BY <1>0, <2>1, <2>3, Sizes DEF InputInv, RingType, Least
    <3>2. pc \in {"out", "prime"} => lag' <= used' /\ used' <= total'
      BY <1>0, <2>1, <2>3, Sizes DEF InputInv, RingType
    <3>3. Reading /\ ~begun => /\ lag' + spare <= Target + Spare + MaxPacket
                               /\ lag' <= total' \/ total' = Capacity
      BY <1>0, <2>1, <2>3, Sizes DEF InputInv, RingType
    <3>4. pc = "load" \/ Reading => lag' >= Need
      BY <1>0, <2>1, Sizes DEF InputInv, RingType
    <3>5. used' <= Capacity
      BY <2>1 DEF InputInv
    <3>6. lag' + 0 + spare = lag' + spare /\ used' + 0 = used'
      BY <1>0, <2>1 DEF RingType
    <3>7. QED
      BY <2>1, <2>2, <2>3, <3>1, <3>2, <3>3, <3>4, <3>5, <3>6, Sizes DEF InputInv, Reading
  <2>8. QED
    BY <2>4, <2>5, <2>6, <2>7
<1>7. QED
  BY <1>1, <1>2, <1>3, <1>4, <1>5, <1>6 DEF RenderGoesOn, CaptureGoesOn

\* The stream thread keeps it.
LEMMA ThreadRings ==
  ASSUME RingInv, Thread \/ Aborted \/ DeviceGone
  PROVE  RingInv'
<1> USE DEF RingInv
<1>0. n["input"] \in Nat /\ n["output"] \in Nat
  BY DEF RingType, Sides
<1> USE DEF NoUnit, Kept, Goes, Counts, Rings
<1>1. CASE StartInput
  <2>1. UNCHANGED <<mode, n, cb, queued, outReady, used, lag, total, begun, queueReset, spare>>
    BY <1>1 DEF StartInput
  <2>2. pc = "out" /\ HasInput /\ (pc' = "prime" \/ pc' = "over")
    BY <1>1 DEF StartInput
  <2>3. QED
    BY <2>1, <2>2, RingLeft
<1>2. CASE StartOutput
  <2>1. /\ queued' = Fill /\ pc \in {"startOutput", "out"} /\ pc' \in {"wait", "unprime", "over"}
        /\ (HasInput => pc = "startOutput")
        /\ UNCHANGED <<mode, n, cb, outReady, used, lag, total, begun, queueReset, spare>>
    BY <1>2 DEF StartOutput
  <2>2. RingType'
    BY <2>1, Sizes DEF RingType
  <2>3. OutputInv'
    BY <1>0, <2>1, Sizes DEF OutputInv, Reading, RingType
  <2>4. PrimedInv'
    BY <2>1 DEF PrimedInv, HasInput, Reading, Leaving
  <2>5. InputInv'
    BY <2>1 DEF InputInv, Reading
  <2>6. QED
    BY <2>2, <2>3, <2>4, <2>5
<1>3. CASE PrimeReader
  <2>1. /\ lag' = Target /\ pc = "primed" /\ pc' \in {"startOutput", "wait"}
        /\ UNCHANGED <<mode, n, cb, queued, outReady, used, total, begun, queueReset, spare>>
    BY <1>3 DEF PrimeReader
  <2>2. ~begun
    BY <2>1 DEF InputInv
  <2>3. RingType' /\ OutputInv'
    BY <2>1, Sizes DEF RingType, OutputInv, Reading
  <2>4. PrimedInv'
    BY <2>1 DEF PrimedInv, HasInput, Reading, Leaving
  <2>5. InputInv'
    BY <2>1, <2>2 DEF InputInv, Reading
  <2>6. QED
    BY <2>3, <2>4, <2>5
<1>4. CASE Unprime \/ Stop
  <2>1. /\ Forgotten /\ UNCHANGED <<mode, cb, outReady, queueReset, spare>>
        /\ pc \in {"unprime", "stop", "stopInput"} /\ pc' \in {"over", "stopInput"}
    BY <1>4 DEF Unprime, Stop
  <2>2. QED
    BY <2>1, RingForgotten
<1>5. CASE Wait
  <2>1. UNCHANGED <<mode, outReady, queueReset, spare>> /\ pc = "wait"
    BY <1>5 DEF Wait
  <2>2. \/ Forgotten /\ UNCHANGED cb /\ pc' = "stop"
        \/ /\ UNCHANGED <<n, cb, queued, used, lag, total, begun>>
           /\ pc' = "output" \/ (pc' = "drops" /\ HasInput /\ (HasOutput => outReady))
    BY <1>5 DEF Wait, End, HasInput, HasOutput
  <2>3. QED
    BY <2>1, <2>2, RingLeft, RingForgotten
<1>6. CASE OutputLook
  <2>1. UNCHANGED <<mode, cb, queueReset, spare>> /\ pc = "output"
    BY <1>6 DEF OutputLook, End
  <2>2. CASE Forgotten /\ UNCHANGED outReady /\ pc' = "stop"
    BY <2>1, <2>2, RingForgotten
  <2>3. CASE UNCHANGED <<n, queued, used, lag, total, begun, outReady, pc>>
    BY <2>1, <2>3, RingLeft
  <2>4. CASE /\ outReady' = TRUE /\ RoomForPeriod /\ pc' = (IF HasInput THEN "drops" ELSE "callback")
             /\ UNCHANGED <<n, queued, used, lag, total, begun>>
    <3>1. queued + Period <= Fill
      BY <2>4, Sizes DEF RoomForPeriod, RingType
    <3>2. RingType' /\ InputInv'
      BY <2>1, <2>4 DEF RingType, InputInv, Reading
    <3>3. OutputInv'
      BY <2>1, <2>4, <3>1 DEF OutputInv, Reading
    <3>4. PrimedInv'
      BY <2>1, <2>4 DEF PrimedInv, HasInput, Reading, Leaving
    <3>5. QED
      BY <3>2, <3>3, <3>4
  <2>5. QED
    BY <1>6, <2>2, <2>3, <2>4 DEF OutputLook, End
<1>7. CASE Drops
  <2>1. UNCHANGED <<mode, n, cb, queued, outReady, used, lag, total, begun, queueReset, spare>>
    BY <1>7 DEF Drops
  <2>2. pc = "drops" /\ (pc' = "xrun" \/ pc' = "input")
    BY <1>7 DEF Drops
  <2>3. QED
    BY <2>1, <2>2, RingLeft
<1>8. CASE InputLook
  <2>1. UNCHANGED <<mode, cb, outReady, queueReset, spare>> /\ pc \in {"prime", "input"}
    BY <1>8 DEF InputLook, End
  <2>2. \/ Forgotten /\ (pc' = "stop" \/ (pc = "prime" /\ pc' = "unprime"))
        \/ /\ UNCHANGED <<n, queued, used, lag, total, begun>>
           /\ \/ UNCHANGED pc
              \/ pc = "prime" /\ pc' = "primed" /\ lag >= Target
              \/ pc = "input" /\ pc' = "load" /\ lag >= Need
    BY <1>8 DEF InputLook, End, Required
  <2>3. QED
    BY <2>1, <2>2, RingLeft, RingForgotten
<1>9. CASE Woken \/ Aborted
  <2>1. UNCHANGED <<mode, n, cb, queued, outReady, used, lag, total, begun, queueReset, spare, pc>>
    BY <1>9 DEF Woken, Aborted
  <2>2. QED
    BY <2>1, RingLeft
<1>10. CASE TimedOut \/ DeviceGone
  <2>1. UNCHANGED <<mode, cb, outReady, queueReset, spare>>
    BY <1>10 DEF TimedOut, DeviceGone, End
  <2>2. \/ UNCHANGED <<n, queued, used, lag, total, begun, pc>>
        \/ /\ Forgotten
           /\ pc' = "stop" \/ (pc \in {"prime", "startOutput"} /\ pc' = "unprime")
    BY <1>10 DEF TimedOut, DeviceGone, End
  <2>3. QED
    BY <2>1, <2>2, RingLeft, RingForgotten
<1>11. CASE LoadHead
  <2>1. UNCHANGED <<mode, n, cb, queued, outReady, used, total, begun>> /\ pc = "load"
    BY <1>11 DEF LoadHead
  <2>2. HasInput /\ Target <= total /\ lag >= Need /\ ~queueReset
    BY <2>1 DEF PrimedInv, InputInv, Leaving
  <2>3. CASE FellBehind /\ UNCHANGED <<lag, spare>> /\ queueReset' = TRUE /\ pc' = "xrun"
    <3>1. begun /\ lag > MaxQueue
      BY <2>3 DEF FellBehind
    <3>2. Target <= used
      BY <2>2, <3>1, Sizes DEF InputInv, RingType, Least
    <3>3. RingType' /\ OutputInv' /\ InputInv'
      BY <2>1, <2>3 DEF RingType, OutputInv, InputInv, Reading, HasOutput
    <3>4. PrimedInv'
      BY <2>1, <2>2, <2>3, <3>2 DEF PrimedInv, HasInput, Leaving
    <3>5. QED
      BY <3>3, <3>4
  <2>4. CASE /\ lag' = (IF begun THEN lag ELSE Target) /\ spare' = Spare /\ pc' = "clock"
             /\ UNCHANGED queueReset
    <3>1. RingType'
      BY <2>1, <2>4, Sizes DEF RingType
    <3>2. OutputInv'
      BY <2>1, <2>4 DEF OutputInv, HasOutput, Reading
    <3>3. PrimedInv'
      BY <2>1, <2>2, <2>4 DEF PrimedInv, HasInput, Leaving
    <3>4. lag' \in Nat /\ lag' >= Need /\ (begun => lag' = lag) /\ (~begun => lag' = Target)
      BY <2>1, <2>2, <2>4, Sizes DEF RingType
    <3>5. InputInv'
      <4>1. Target + n["input"] + Spare <= Target + Spare + MaxPacket
        BY <1>0, Sizes DEF InputInv
      <4>2. QED
        BY <2>1, <2>2, <2>4, <3>4, <4>1 DEF InputInv, Reading
    <3>6. QED
      BY <3>1, <3>2, <3>3, <3>5
  <2>5. QED
    BY <1>11, <2>3, <2>4 DEF LoadHead
<1>12. CASE ReadClock
  <2>1. UNCHANGED <<mode, n, cb, queued, outReady, used, lag, total, begun, queueReset, spare>>
    BY <1>12 DEF ReadClock
  <2>2. Reading /\ Reading'
    BY <1>12 DEF ReadClock, Reading
  <2>3. QED
    BY <2>1, <2>2, RingLeft
<1>13. CASE Read
  <2>1. /\ lag' = lag - Period /\ used' = Least(total, lag' + Half) /\ begun' = TRUE /\ spare' = Spare
        /\ pc = "reading" /\ pc' = "callback"
        /\ UNCHANGED <<mode, n, cb, queued, outReady, total, queueReset>>
    BY <1>13 DEF Read, TailOf
  <2>2. Reading /\ lag >= Need /\ HasInput /\ Target <= total /\ ~queueReset
    BY <2>1 DEF InputInv, PrimedInv, Reading, Leaving
  <2>3. lag' \in Nat /\ lag' <= lag /\ used' \in Nat /\ used' <= lag' + Half
    BY <2>1, <2>2, Sizes DEF RingType, Least
  <2>4. used' + n["input"] <= Capacity /\ lag' <= total
    <3>1. CASE begun
      BY <1>0, <2>1, <2>3, <3>1, Sizes DEF RingType, InputInv, Least
    <3>2. CASE ~begun
      <4>1. /\ lag + n["input"] + spare <= Target + Spare + MaxPacket
            /\ lag <= total \/ total = Capacity
        BY <2>2, <3>2 DEF InputInv
      <4>2. Target + Half + MaxPacket + Spare <= Capacity + Period
        BY <2>2, Sizes DEF InputInv, RingType
      <4>3. lag' + Half + n["input"] <= Capacity
        BY <1>0, <2>1, <4>1, <4>2, Sizes DEF RingType
      <4>4. used' + n["input"] <= Capacity
        BY <1>0, <2>3, <4>3, Sizes DEF RingType
      <4>5. lag' <= total
        BY <1>0, <2>3, <4>1, <4>3, Sizes DEF RingType
      <4>6. QED
        BY <4>4, <4>5
    <3>3. QED
      BY <3>1, <3>2
  <2>5. RingType'
    BY <2>1, <2>3, Sizes DEF RingType
  <2>6. OutputInv'
    BY <2>1 DEF OutputInv, HasOutput, Reading
  <2>7. PrimedInv'
    BY <2>1, <2>2 DEF PrimedInv, Reading, HasInput, Leaving
  <2>8. InputInv'
    BY <2>1, <2>4 DEF InputInv, Reading
  <2>9. QED
    BY <2>5, <2>6, <2>7, <2>8
<1>14. CASE Commit
  <2>1. pc = "callback" /\ UNCHANGED <<mode, cb, queueReset, spare>>
    BY <1>14 DEF Commit, End
  <2>2. CASE Forgotten /\ UNCHANGED outReady /\ pc' = "stop"
    BY <2>1, <2>2, RingForgotten
  <2>3. CASE /\ queued' = (IF HasOutput THEN queued + Period ELSE queued) /\ outReady' = FALSE
             /\ pc' = "wait" /\ (HasOutput => outReady) /\ UNCHANGED <<n, used, lag, total, begun>>
    <3>1. queued' \in Nat /\ queued <= queued' /\ queued' <= Fill
      BY <2>3, Sizes DEF RingType, OutputInv
    <3>2. RingType'
      BY <2>1, <2>3, <3>1 DEF RingType
    <3>3. OutputInv'
      BY <1>0, <2>1, <2>3, <3>1, Sizes DEF OutputInv, Reading, RingType
    <3>4. PrimedInv'
      BY <2>1, <2>3 DEF PrimedInv, Reading, HasInput, Leaving
    <3>5. InputInv'
      BY <2>1, <2>3 DEF InputInv, Reading
    <3>6. QED
      BY <3>2, <3>3, <3>4, <3>5
  <2>4. QED
    BY <1>14, <2>2, <2>3 DEF Commit, End, PeriodGone
<1>15. CASE Recover
  <2>1. /\ lag' = (IF queueReset THEN Target ELSE 0) /\ used' = lag' /\ begun' = FALSE
        /\ queueReset' = FALSE /\ pc = "xrun" /\ pc' = "wait"
        /\ UNCHANGED <<mode, n, cb, queued, outReady, total, spare>>
    BY <1>15 DEF Recover
  <2>2. used' \in Nat /\ used' <= used
    BY <2>1, Sizes DEF PrimedInv, RingType, Leaving
  <2>3. used' + n["input"] <= Capacity
    BY <1>0, <2>2, Sizes DEF InputInv, RingType
  <2>4. RingType'
    BY <2>1, <2>2 DEF RingType
  <2>5. OutputInv'
    BY <2>1 DEF OutputInv, Reading
  <2>6. PrimedInv'
    BY <2>1 DEF PrimedInv, Reading, HasInput, Leaving
  <2>7. InputInv'
    BY <2>1, <2>3 DEF InputInv, Reading
  <2>8. QED
    BY <2>4, <2>5, <2>6, <2>7
<1>16. QED
  BY <1>1, <1>2, <1>3, <1>4, <1>5, <1>6, <1>7, <1>8, <1>9, <1>10, <1>11, <1>12, <1>13, <1>14, <1>15
  DEF Thread

\* Every step keeps it.
LEMMA RingKept ==
  ASSUME RingInv, [Next]_vars
  PROVE  RingInv'
<1>1. CASE Thread \/ Aborted \/ DeviceGone
  BY <1>1, ThreadRings
<1>2. CASE RenderLoad \/ CaptureLoad \/ RenderGoesOn \/ CaptureGoesOn
  BY <1>2, CallbackRings
<1>3. CASE (OpenStep \/ OpenFails \/ BeginClose) /\ UNCHANGED stream
  BY <1>3, RingLeft DEF OpenStep, OpenFails, BeginClose, stream
<1>4. CASE Goroutines
  BY <1>4, RingLeft DEF Goroutines, Interrupting, SwapInterrupted, CheckOpen, SignalAndUnlock, Closing,
     CloseStop, Dispose, Seal, Destroy, Unmap, CloseReturns, stream
<1>5. CASE UNCHANGED vars
  BY <1>5, RingLeft DEF vars, units, stream
<1>6. QED
  BY <1>1, <1>2, <1>3, <1>4, <1>5 DEF Next

\* The inductive invariant of the two rings.
THEOREM RingInvariance == Spec => []RingInv
<1>1. QED
  BY RingStart, RingKept, PTL DEF Spec

\* Neither a callback nor the stream thread touches frames that are the
\* other's, in either buffer: for periods, packets and requests of any number
\* of frames, and a ring as Open makes it.
THEOREM FramesHeld == Spec => []BuffersHeld
<1>1. ASSUME RingInv
      PROVE  BuffersHeld
  <2> USE <1>1 DEF RingInv
  <2>1. n["input"] \in Nat
    BY DEF RingType, Sides
  <2>2. OutputHeld
    BY DEF OutputInv, OutputHeld
  <2>3. Reading => lag >= Need
    BY DEF InputInv
  <2>4. ASSUME pc = "reading"
        PROVE  Touched + n["input"] <= Capacity
    BY <2>1, Sizes DEF Touched, Least, InputInv, RingType
  <2>5. ASSUME pc = "reading", Target + MaxPacket + Spare <= Capacity
        PROVE  lag + n["input"] <= Capacity
    <3>1. CASE begun
      BY <2>1, <3>1, Sizes DEF InputInv, RingType, Least
    <3>2. CASE ~begun
      <4>1. lag + n["input"] + spare <= Target + Spare + MaxPacket
        BY <2>5, <3>2 DEF InputInv, Reading
      <4>2. QED
        BY <2>1, <2>5, <4>1, Sizes DEF RingType
    <3>3. QED
      BY <3>1, <3>2
  <2>6. QED
    BY <2>2, <2>3, <2>4, <2>5 DEF BuffersHeld, InputHeld
<1>2. QED
  BY <1>1, RingInvariance, PTL

\* The stamp is what the capture callback's progress says; a look at it that no
\* callback has disturbed is at a whole one.
StampInv ==
    /\ cb = [d \in Sides |-> cb[d]]
    /\ cb["input"] = "ticks" => stamp = [odd |-> TRUE, head |-> "new", ticks |-> "old"]
    /\ cb["input"] = "even" => stamp = [odd |-> TRUE, head |-> "new", ticks |-> "new"]
    /\ cb["input"] \notin {"ticks", "even"} => stamp = Stamped

LookInv ==
    /\ look \in [moved : BOOLEAN, head : {"old", "new"}, ticks : {"old", "new"}]
    /\ pc \in {"clockHead", "clockTicks", "clockAgain"} /\ ~look.moved =>
         /\ stamp = Stamped
         /\ pc # "clockHead" => look.head = "old"
         /\ pc = "clockAgain" => look.ticks = "old"

ClockInv == StampInv /\ LookInv

\* Every load and every store of a stamp keeps its invariant.
LEMMA ClockKept ==
  ASSUME ClockInv, [Next]_vars
  PROVE  ClockInv'
<1> USE DEF ClockInv
<1>0. "input" \in Sides /\ "output" \in Sides
  BY DEF Sides
<1>1. /\ UNCHANGED <<cb, stamp, look>>
      /\ pc' = pc \/ pc' \notin {"clockHead", "clockTicks", "clockAgain"}
      => ClockInv'
  BY DEF StampInv, LookInv
<1>2. CASE (OpenStep \/ OpenFails \/ BeginClose) /\ UNCHANGED stream
  BY <1>1, <1>2 DEF OpenStep, OpenFails, BeginClose, stream
<1>3. CASE Goroutines
  BY <1>1, <1>3 DEF Goroutines, Interrupting, SwapInterrupted, CheckOpen, SignalAndUnlock, Closing,
     CloseStop, Dispose, Seal, Destroy, Unmap, CloseReturns, stream
<1>4. CASE UNCHANGED vars
  BY <1>1, <1>4 DEF vars, units, stream
<1>5. CASE RenderLoad \/ CaptureLoad \/ RenderGoesOn \/ CapturePublish \/ CallbackSignal("input")
  <2>1. /\ UNCHANGED <<stamp, look, pc>> /\ cb' = [d \in Sides |-> cb'[d]]
        /\ \/ cb'["input"] = cb["input"]
           \/ cb["input"] \in {"idle", "publish", "signal"} /\ cb'["input"] \in {"stamp", "signal", "idle"}
    <3> USE DEF Callback, StampInv, stream
    <3>1. CASE RenderLoad
      BY <1>0, <3>1 DEF RenderLoad
    <3>2. CASE CaptureLoad
      <4>1. cb["input"] = "idle" /\ UNCHANGED <<stamp, look>>
            /\ (Callback("input", "signal") \/ Callback("input", "stamp"))
        BY <3>2 DEF CaptureLoad, Calls
      <4>2. QED
        BY <1>0, <4>1
    <3>3. CASE RenderPublish
      BY <1>0, <3>3 DEF RenderPublish
    <3>4. CASE CallbackSignal("output")
      BY <1>0, <3>4 DEF CallbackSignal
    <3>5. CASE CapturePublish
      BY <1>0, <3>5 DEF CapturePublish
    <3>6. CASE CallbackSignal("input")
      BY <1>0, <3>6 DEF CallbackSignal
    <3>7. QED
      BY <1>5, <3>1, <3>2, <3>3, <3>4, <3>5, <3>6 DEF RenderGoesOn
  <2>2. QED
    BY <2>1 DEF StampInv, LookInv
<1>6. CASE CaptureStamp
  <2> DEFINE looking == pc \in {"clockHead", "clockTicks", "clockAgain"}
  <2>1. UNCHANGED pc
    BY <1>6 DEF CaptureStamp, Callback
  <2> HIDE DEF looking
  <2>2. CASE cb["input"] = "stamp" /\ Callback("input", "ticks") /\ StampOdd
    <3>1. stamp = Stamped /\ stamp' = [stamp EXCEPT !.odd = TRUE, !.head = "new"]
          /\ look' = [look EXCEPT !.moved = looking]
      BY <2>2 DEF StampInv, StampOdd, Moved, looking
    <3>2. stamp' = [odd |-> TRUE, head |-> "new", ticks |-> "old"]
      BY <3>1 DEF Stamped
    <3>3. cb' = [d \in Sides |-> cb'[d]] /\ cb'["input"] = "ticks"
      BY <1>0, <2>2 DEF Callback, StampInv
    <3>4. StampInv'
      BY <3>2, <3>3 DEF StampInv
    <3>5. LookInv'
      <4>1. CASE looking
        <5>1. look' = [look EXCEPT !.moved = TRUE]
          <6>1. looking = TRUE
            BY <4>1 DEF looking
          <6>2. QED
            BY <3>1, <6>1
        <5>2. QED
          BY <2>1, <5>1 DEF LookInv
      <4>2. CASE ~looking
        <5>1. look' = [look EXCEPT !.moved = FALSE]
          <6>1. looking = FALSE
            BY <4>2 DEF looking
          <6>2. QED
            BY <3>1, <6>1
        <5>2. QED
          BY <2>1, <4>2, <5>1 DEF LookInv, looking
      <4>3. QED
        BY <4>1, <4>2
    <3>6. QED
      BY <3>4, <3>5
  <2>3. CASE cb["input"] = "ticks" /\ Callback("input", "even") /\ stamp' = [stamp EXCEPT !.ticks = "new"] /\ UNCHANGED look
    <3>1. stamp = [odd |-> TRUE, head |-> "new", ticks |-> "old"]
      BY <2>3 DEF StampInv
    <3>2. stamp' = [odd |-> TRUE, head |-> "new", ticks |-> "new"]
      BY <2>3, <3>1
    <3>3. cb' = [d \in Sides |-> cb'[d]] /\ cb'["input"] = "even"
      BY <1>0, <2>3 DEF Callback, StampInv
    <3>4. StampInv'
      BY <3>2, <3>3 DEF StampInv
    <3>5. stamp # Stamped
      BY <3>1 DEF Stamped
    <3>6. LookInv'
      BY <2>1, <2>3, <3>5 DEF LookInv
    <3>7. QED
      BY <3>4, <3>6
  <2>4. CASE cb["input"] = "even" /\ Callback("input", "publish") /\ stamp' = Stamped /\ look' = Moved
    <3>1. stamp' = Stamped' /\ look' = [look EXCEPT !.moved = looking]
      BY <2>4 DEF Moved, Stamped, looking
    <3>2. cb' = [d \in Sides |-> cb'[d]] /\ cb'["input"] = "publish"
      BY <1>0, <2>4 DEF Callback, StampInv
    <3>3. StampInv'
      BY <3>1, <3>2 DEF StampInv
    <3>4. LookInv'
      <4>1. CASE looking
        <5>1. look' = [look EXCEPT !.moved = TRUE]
          <6>1. looking = TRUE
            BY <4>1 DEF looking
          <6>2. QED
            BY <3>1, <6>1
        <5>2. QED
          BY <2>1, <5>1 DEF LookInv
      <4>2. CASE ~looking
        <5>1. look' = [look EXCEPT !.moved = FALSE]
          <6>1. looking = FALSE
            BY <4>2 DEF looking
          <6>2. QED
            BY <3>1, <6>1
        <5>2. QED
          BY <2>1, <4>2, <5>1 DEF LookInv, looking
      <4>3. QED
        BY <4>1, <4>2
    <3>5. QED
      BY <3>3, <3>4
  <2>5. QED
    BY <1>6, <2>2, <2>3, <2>4 DEF CaptureStamp
<1>7. CASE ReadClock
  <2>1. UNCHANGED <<cb, stamp>>
    BY <1>7 DEF ReadClock, Goes, Counts
  <2>2. StampInv'
    BY <2>1 DEF StampInv
  <2>3. Unread \in [moved : BOOLEAN, head : {"old", "new"}, ticks : {"old", "new"}]
    BY DEF Unread
  <2>4. /\ stamp.head \in {"old", "new"} /\ stamp.ticks \in {"old", "new"}
        /\ stamp.odd = TRUE \/ stamp = Stamped
    <3>1. CASE cb["input"] = "ticks"
      <4>1. stamp = [odd |-> TRUE, head |-> "new", ticks |-> "old"]
        BY <3>1 DEF StampInv
      <4>2. QED
        BY <4>1
    <3>2. CASE cb["input"] = "even"
      <4>1. stamp = [odd |-> TRUE, head |-> "new", ticks |-> "new"]
        BY <3>2 DEF StampInv
      <4>2. QED
        BY <4>1
    <3>3. CASE cb["input"] \notin {"ticks", "even"}
      <4>1. stamp = Stamped
        BY <3>3 DEF StampInv
      <4>2. Stamped.head = "old" /\ Stamped.ticks = "old"
        BY DEF Stamped
      <4>3. QED
        BY <4>1, <4>2
    <3>4. QED
      BY <3>1, <3>2, <3>3
  <2>5. CASE pc = "clock"
    <3>1. look' = Unread /\ (pc' \in {"clock", "reading"} \/ (pc' = "clockHead" /\ ~stamp.odd))
      BY <1>7, <2>5 DEF ReadClock, Goes
    <3>2. LookInv'
      BY <2>1, <2>3, <2>4, <3>1 DEF LookInv, Stamped
    <3>3. QED
      BY <2>2, <3>2
  <2>6. CASE pc = "clockHead"
    <3>1. look' = [look EXCEPT !.head = stamp.head] /\ pc' = "clockTicks"
      BY <1>7, <2>6 DEF ReadClock, Goes
    <3>2. LookInv'
      BY <2>1, <2>4, <2>6, <3>1 DEF LookInv, Stamped
    <3>3. QED
      BY <2>2, <3>2
  <2>7. CASE pc = "clockTicks"
    <3>1. look' = [look EXCEPT !.ticks = stamp.ticks] /\ pc' = "clockAgain"
      BY <1>7, <2>7 DEF ReadClock, Goes
    <3>2. LookInv'
      BY <2>1, <2>4, <2>7, <3>1 DEF LookInv, Stamped
    <3>3. QED
      BY <2>2, <3>2
  <2>8. CASE pc = "clockAgain"
    <3>1. look' = Unread /\ pc' \in {"clock", "reading"}
      BY <1>7, <2>8 DEF ReadClock, Goes
    <3>2. LookInv'
      BY <2>3, <3>1 DEF LookInv
    <3>3. QED
      BY <2>2, <3>2
  <2>9. QED
    BY <1>7, <2>5, <2>6, <2>7, <2>8 DEF ReadClock
<1>8. CASE LoadHead
  <2>1. UNCHANGED <<cb, stamp>> /\ pc' \in {"xrun", "clock"} /\ (look' = look \/ look' = Unread)
    BY <1>8 DEF LoadHead, Goes
  <2>2. Unread \in [moved : BOOLEAN, head : {"old", "new"}, ticks : {"old", "new"}]
    BY DEF Unread
  <2>3. StampInv'
    BY <2>1 DEF StampInv
  <2>4. LookInv'
    BY <2>1, <2>2 DEF LookInv
  <2>5. QED
    BY <2>3, <2>4
<1>9. CASE Thread \/ Aborted \/ DeviceGone
  <2> USE DEF Goes, Counts
  <2>1. CASE StartInput \/ StartOutput \/ PrimeReader \/ Unprime \/ Stop
    BY <1>1, <2>1 DEF StartInput, StartOutput, PrimeReader, Unprime, Stop
  <2>2. CASE Wait \/ OutputLook \/ Drops
    BY <1>1, <2>2 DEF Wait, OutputLook, Drops, End
  <2>3. CASE InputLook
    BY <1>1, <2>3 DEF InputLook, End
  <2>4. CASE Woken \/ Aborted \/ TimedOut \/ DeviceGone
    BY <1>1, <2>4 DEF Woken, Aborted, TimedOut, DeviceGone, End
  <2>5. CASE Read \/ Commit \/ Recover
    BY <1>1, <2>5 DEF Read, Commit, Recover, End
  <2>6. QED
    BY <1>7, <1>8, <1>9, <2>1, <2>2, <2>3, <2>4, <2>5 DEF Thread
<1>10. QED
  BY <1>2, <1>3, <1>4, <1>5, <1>6, <1>9 DEF Next, CaptureGoesOn

\* A clock that is returned was written for one packet, at whatever point of
\* its loads the capture callback writes the next one.
THEOREM ClockWhole == Spec => []ClockOfOnePacket
<1>1. StreamInit => ClockInv
  <2> SUFFICES ASSUME StreamInit PROVE ClockInv
    OBVIOUS
  <2>1. cb = [d \in Sides |-> "idle"] /\ stamp = Stamped /\ look = Unread /\ pc = "out"
    BY DEF StreamInit, UnitsInit
  <2>2. cb = [d \in Sides |-> cb[d]] /\ cb["input"] = "idle"
    BY <2>1 DEF Sides
  <2>3. QED
    BY <2>1, <2>2 DEF ClockInv, StampInv, LookInv, Unread
<1>2. ClockInv /\ [Next]_vars => ClockInv'
  BY ClockKept
<1>3. ClockInv => ClockOfOnePacket
  BY DEF ClockInv, LookInv, ClockOfOnePacket
<1>4. QED
  BY <1>1, <1>2, <1>3, PTL DEF Spec

-----------------------------------------------------------------------------
(* The order of the driver's calls.                                        *)

Starting == {"out", "prime", "primed", "startOutput"}
InputTurn == {"drops", "input", "load", "clock", "clockHead", "clockTicks", "clockAgain", "reading"}
Waiting == {"wait", "output"} \cup InputTurn
Ending == {"unprime", "stop", "stopInput"}

\* The thread moves only in an opened stream and sleeps only in its waits.
PlaceInv ==
    /\ phase \in {"open", "opened", "closing", "closed"}
    /\ pc \in Starting \cup Waiting \cup Ending \cup {"callback", "xrun", "over"}
    /\ phase = "open" => pc = "out"
    /\ phase \in {"closing", "closed"} => pc \in {"out", "over"}
    /\ \/ asleep = "none"
       \/ phase = "opened" /\ asleep = "output" /\ pc = "output"
       \/ phase = "opened" /\ asleep = "input" /\ pc \in {"prime", "input"}

\* An input has its period up while the callback has it and at no other time;
\* the output half of a duplex stream may have its own up longer, through an
\* xrun of the input; no call was refused.
TurnInv ==
    /\ mode \in {"output", "input", "duplex"}
    /\ pc \in InputTurn => HasInput
    /\ ready = (pc = "callback" /\ HasInput)
    /\ ~HasInput /\ outReady => pc = "callback"
    /\ result # "refused"

\* The stream thread keeps both.
LEMMA ThreadTurns ==
  ASSUME PlaceInv, TurnInv, OutputInv, Thread \/ Aborted \/ DeviceGone
  PROVE  PlaceInv' /\ TurnInv' /\ phase = "opened" /\ UNCHANGED <<phase, mode, interrupted>>
<1>1. phase = "opened" /\ UNCHANGED <<phase, mode, interrupted>>
  <2>1. Thread => Awake \/ asleep # "none"
    BY DEF Thread, StartInput, StartOutput, PrimeReader, Unprime, Wait, OutputLook, Drops, InputLook,
       Woken, TimedOut, LoadHead, ReadClock, Read, Commit, Recover, Stop
  <2>2. phase = "opened"
    BY <2>1 DEF Awake, Aborted, DeviceGone, PlaceInv
  <2>3. Kept
    BY DEF Thread, StartInput, StartOutput, PrimeReader, Unprime, Wait, OutputLook, Drops, InputLook,
       Woken, TimedOut, LoadHead, ReadClock, Read, Commit, Recover, Stop, Aborted, DeviceGone, NoUnit
  <2>4. QED
    BY <2>2, <2>3 DEF Kept
<1>2. HasInput' = HasInput /\ HasOutput' = HasOutput
  BY <1>1 DEF HasInput, HasOutput
<1>3. ~HasInput => HasOutput
  BY DEF HasInput, HasOutput
<1> USE <1>1, <1>2 DEF PlaceInv, TurnInv, Goes, Awake, Starting, Waiting, Ending, InputTurn
<1>4. CASE StartInput
  BY <1>4 DEF StartInput
<1>5. CASE StartOutput
  BY <1>5 DEF StartOutput
<1>6. CASE PrimeReader
  BY <1>6 DEF PrimeReader
<1>7. CASE Unprime
  BY <1>7 DEF Unprime
<1>8. CASE Wait
  BY <1>3, <1>8 DEF Wait
<1>9. CASE OutputLook
  BY <1>9 DEF OutputLook, End
<1>10. CASE Drops
  BY <1>10 DEF Drops
<1>11. CASE InputLook
  BY <1>11 DEF InputLook, End
<1>12. CASE Woken \/ Aborted
  BY <1>12 DEF Woken, Aborted
<1>13. CASE TimedOut \/ DeviceGone
  BY <1>13 DEF TimedOut, DeviceGone, End
<1>14. CASE LoadHead
  BY <1>14 DEF LoadHead
<1>15. CASE ReadClock
  BY <1>15 DEF ReadClock
<1>16. CASE Read
  BY <1>16 DEF Read
<1>17. CASE Commit
  BY <1>17 DEF Commit, PeriodGone, OutputInv
<1>18. CASE Recover
  BY <1>18 DEF Recover
<1>19. CASE Stop
  BY <1>19 DEF Stop
<1>20. QED
  BY <1>4, <1>5, <1>6, <1>7, <1>8, <1>9, <1>10, <1>11, <1>12, <1>13, <1>14, <1>15, <1>16, <1>17, <1>18,
     <1>19 DEF Thread

\* So does everything else, and it leaves the thread where it is.
LEMMA OthersTurn ==
  ASSUME PlaceInv, TurnInv, [Next]_vars, ~(Thread \/ Aborted \/ DeviceGone)
  PROVE  /\ PlaceInv' /\ TurnInv' /\ UNCHANGED <<pc, result>>
         /\ \/ UNCHANGED <<phase, interrupted>>
            \/ UNCHANGED interrupted /\ phase = "open" /\ phase' \in {"open", "opened", "closing"}
            \/ UNCHANGED interrupted /\ phase = "opened" /\ pc \in {"out", "over"} /\ phase' = "closing"
            \/ UNCHANGED interrupted /\ phase = "closing" /\ phase' = "closed"
            \/ UNCHANGED phase /\ interrupted' # {}
<1>1. UNCHANGED <<mode, pc, result, asleep, ready, outReady>>
  <2>1. CASE (OpenStep \/ OpenFails \/ BeginClose) /\ UNCHANGED stream
    BY <2>1 DEF OpenStep, OpenFails, BeginClose, stream
  <2>2. CASE Goroutines
    BY <2>2 DEF Goroutines, Interrupting, SwapInterrupted, CheckOpen, SignalAndUnlock, Closing, CloseStop,
       Dispose, Seal, Destroy, Unmap, CloseReturns, stream
  <2>3. CASE RenderLoad \/ CaptureLoad \/ RenderGoesOn \/ CaptureGoesOn
    BY <2>3 DEF RenderLoad, CaptureLoad, RenderGoesOn, CaptureGoesOn, RenderPublish, CallbackSignal,
       CaptureStamp, CapturePublish, Callback, NoUnit, Kept, stream
  <2>4. CASE UNCHANGED vars
    BY <2>4 DEF vars, units, stream
  <2>5. QED
    BY <2>1, <2>2, <2>3, <2>4 DEF Next
<1>2. \/ UNCHANGED <<phase, interrupted>>
      \/ UNCHANGED interrupted /\ phase = "open" /\ phase' \in {"open", "opened", "closing"}
      \/ UNCHANGED interrupted /\ phase = "opened" /\ pc \in {"out", "over"} /\ phase' = "closing"
      \/ UNCHANGED interrupted /\ phase = "closing" /\ phase' = "closed"
      \/ UNCHANGED phase /\ interrupted' # {}
  <2>1. CASE (OpenStep \/ OpenFails \/ BeginClose) /\ UNCHANGED stream
    BY <2>1 DEF OpenStep, OpenFails, BeginClose
  <2>2. CASE Goroutines
    BY <2>2 DEF Goroutines, Interrupting, SwapInterrupted, CheckOpen, SignalAndUnlock, Closing, CloseStop,
       Dispose, Seal, Destroy, Unmap, CloseReturns
  <2>3. CASE RenderLoad \/ CaptureLoad \/ RenderGoesOn \/ CaptureGoesOn
    BY <2>3 DEF RenderLoad, CaptureLoad, RenderGoesOn, CaptureGoesOn, RenderPublish, CallbackSignal,
       CaptureStamp, CapturePublish, Callback, NoUnit, Kept
  <2>4. CASE UNCHANGED vars
    BY <2>4 DEF vars, units
  <2>5. QED
    BY <2>1, <2>2, <2>3, <2>4 DEF Next
<1>3. PlaceInv'
  BY <1>1, <1>2 DEF PlaceInv
<1>4. TurnInv'
  BY <1>1 DEF TurnInv, HasInput
<1>5. QED
  BY <1>1, <1>2, <1>3, <1>4

\* Each half has its period up when it is committed, and a Wait finds none of a
\* stream of one kind still up, however callbacks, drops, interrupts and the
\* loss of a device fall between.
THEOREM TurnInvariance == Spec => [](PlaceInv /\ TurnInv)
<1>1. StreamInit => PlaceInv /\ TurnInv
  BY UnitsAssumption DEF StreamInit, UnitsInit, PlaceInv, TurnInv, Starting, InputTurn
<1>2. PlaceInv /\ TurnInv /\ RingInv /\ [Next]_vars => (PlaceInv /\ TurnInv)'
  BY ThreadTurns, OthersTurn DEF RingInv
<1>3. QED
  BY <1>1, <1>2, RingInvariance, PTL DEF Spec

\* What the driver's interface sees of the thread's points.
StreamSeen ==
    /\ phase = "open" => StreamAt = "new"
    /\ phase \in {"closing", "closed"} => StreamAt = "closed"
    /\ phase = "opened" =>
         /\ pc \in Starting => StreamAt = "new"
         /\ pc \in Waiting => StreamAt = "ready"
         /\ pc = "callback" => StreamAt = "period"
         /\ pc = "xrun" => StreamAt = "xrun"
         /\ pc \in Ending => StreamAt = (IF result = "interrupted" THEN "interrupted" ELSE "over")
         /\ pc = "over" => StreamAt = "stopped"

LEMMA TurnSeen == PlaceInv /\ TurnInv => StreamSeen
<1> SUFFICES ASSUME PlaceInv, TurnInv PROVE StreamSeen
  OBVIOUS
<1> USE DEF StreamAt, StreamSeen, Starting, Waiting, InputTurn, Ending
<1>1. CASE phase = "open"
  BY <1>1 DEF PlaceInv
<1>2. CASE phase \in {"closing", "closed"}
  BY <1>2
<1>3. CASE phase = "opened" /\ pc \in Starting
  BY <1>3
<1>4. CASE phase = "opened" /\ pc \in Waiting
  BY <1>4
<1>5. CASE phase = "opened" /\ pc \in {"callback", "xrun", "over"}
  BY <1>5
<1>6. CASE phase = "opened" /\ pc \in Ending
  BY <1>6 DEF TurnInv
<1>7. QED
  BY <1>1, <1>2, <1>3, <1>4, <1>5, <1>6 DEF PlaceInv

\* Every step of the thread is one of the driver's answers, or not seen.
LEMMA ThreadAnswers ==
  ASSUME PlaceInv, TurnInv, OutputInv, StreamSeen, StreamSeen', Thread \/ Aborted \/ DeviceGone
  PROVE  \/ Driver!Start \/ Driver!Wait \/ Driver!Commit \/ Driver!Recover \/ Driver!Stop
         \/ UNCHANGED Driver!vars
<1>1. phase = "opened" /\ UNCHANGED <<phase, mode, interrupted>>
  BY ThreadTurns
<1>2. /\ pc \in Starting => StreamAt = "new"
      /\ pc \in Waiting => StreamAt = "ready"
      /\ pc = "callback" => StreamAt = "period"
      /\ pc = "xrun" => StreamAt = "xrun"
      /\ pc \in Ending => StreamAt = (IF result = "interrupted" THEN "interrupted" ELSE "over")
  BY <1>1 DEF StreamSeen
<1>3. /\ pc' \in Starting => StreamAt' = "new"
      /\ pc' \in Waiting => StreamAt' = "ready"
      /\ pc' = "callback" => StreamAt' = "period"
      /\ pc' = "xrun" => StreamAt' = "xrun"
      /\ pc' \in Ending => StreamAt' = (IF result' = "interrupted" THEN "interrupted" ELSE "over")
      /\ pc' = "over" => StreamAt' = "stopped"
  BY <1>1 DEF StreamSeen
<1>4. (interrupted # {})' = (interrupted # {})
  BY <1>1
<1> USE DEF Goes, Starting, Waiting, InputTurn, Ending
<1>5. CASE pc \in Starting
  <2>1. \/ pc' \in Starting \cup {"wait", "over"}
        \/ pc' = "unprime" /\ (result' = "interrupted" => interrupted # {})
    <3>1. CASE StartInput \/ StartOutput \/ PrimeReader
      BY <3>1 DEF StartInput, StartOutput, PrimeReader
    <3>2. CASE InputLook
      BY <1>5, <3>2 DEF InputLook, End
    <3>3. CASE Woken \/ Aborted
      BY <1>5, <3>3 DEF Woken, Aborted
    <3>4. CASE TimedOut \/ DeviceGone
      BY <1>5, <3>4 DEF TimedOut, DeviceGone, End, PlaceInv
    <3>5. QED
      BY <1>5, <3>1, <3>2, <3>3, <3>4 DEF Thread, Unprime, Wait, OutputLook, Drops, LoadHead, ReadClock,
         Read, Commit, Recover, Stop
  <2>2. StreamAt' = "new" \/ StreamAt' \in {"ready", "over", "stopped"}
          \/ (StreamAt' = "interrupted" /\ interrupted # {})
    BY <1>3, <2>1
  <2>3. QED
    BY <1>2, <1>4, <1>5, <2>2 DEF Driver!Start, Driver!Interruption, Driver!vars
<1>6. CASE pc \in Waiting
  <2>1. \/ pc' \in Waiting \cup {"callback", "xrun"}
        \/ pc' = "stop" /\ (result' = "interrupted" => interrupted # {})
    <3>1. CASE Wait
      BY <3>1 DEF Wait, End
    <3>2. CASE OutputLook
      BY <3>2 DEF OutputLook, End
    <3>3. CASE Drops \/ LoadHead \/ Read
      BY <3>3 DEF Drops, LoadHead, Read
    <3>4. CASE InputLook
      BY <1>6, <3>4 DEF InputLook, End
    <3>5. CASE Woken \/ Aborted
      BY <1>6, <3>5 DEF Woken, Aborted
    <3>6. CASE TimedOut \/ DeviceGone
      BY <1>6, <3>6 DEF TimedOut, DeviceGone, End
    <3>7. CASE ReadClock
      BY <3>7 DEF ReadClock
    <3>8. QED
      BY <1>6, <3>1, <3>2, <3>3, <3>4, <3>5, <3>6, <3>7 DEF Thread, StartInput, StartOutput, PrimeReader,
         Unprime, Commit, Recover, Stop
  <2>2. StreamAt' \in {"ready", "period", "xrun", "over"} \/ (StreamAt' = "interrupted" /\ interrupted # {})
    BY <1>3, <2>1
  <2>3. QED
    BY <1>2, <1>4, <1>6, <2>2 DEF Driver!Wait, Driver!Interruption, Driver!vars
<1>7. CASE pc = "callback"
  <2>1. Commit
    BY <1>7 DEF Thread, StartInput, StartOutput, PrimeReader, Unprime, Wait, OutputLook, Drops, InputLook,
       Woken, TimedOut, LoadHead, ReadClock, Read, Recover, Stop, Aborted, DeviceGone, PlaceInv
  <2>2. pc' = "wait"
    BY <1>7, <2>1 DEF Commit, TurnInv, OutputInv
  <2>3. QED
    BY <1>2, <1>3, <1>4, <1>7, <2>2 DEF Driver!Commit
<1>8. CASE pc = "xrun"
  <2>1. Recover
    BY <1>8 DEF Thread, StartInput, StartOutput, PrimeReader, Unprime, Wait, OutputLook, Drops, InputLook,
       Woken, TimedOut, LoadHead, ReadClock, Read, Commit, Stop, Aborted, DeviceGone, PlaceInv
  <2>2. pc' = "wait"
    BY <2>1 DEF Recover
  <2>3. QED
    BY <1>2, <1>3, <1>4, <1>8, <2>2 DEF Driver!Recover
<1>9. CASE pc \in Ending
  <2>1. Unprime \/ Stop
    BY <1>9 DEF Thread, StartInput, StartOutput, PrimeReader, Wait, OutputLook, Drops, InputLook,
       Woken, TimedOut, LoadHead, ReadClock, Read, Commit, Recover, Aborted, DeviceGone, PlaceInv
  <2>2. pc' = "over" \/ (pc' = "stopInput" /\ UNCHANGED result)
    BY <2>1 DEF Unprime, Stop
  <2>3. StreamAt \in {"over", "interrupted"} /\ (StreamAt' = "stopped" \/ StreamAt' = StreamAt)
    BY <1>2, <1>3, <1>9, <2>2
  <2>4. QED
    BY <1>4, <2>3 DEF Driver!Stop, Driver!vars
<1>10. pc # "over"
  BY DEF Thread, StartInput, StartOutput, PrimeReader, Unprime, Wait, OutputLook, Drops, InputLook,
     Woken, TimedOut, LoadHead, ReadClock, Read, Commit, Recover, Stop, Aborted, DeviceGone, PlaceInv
<1>11. QED
  BY <1>5, <1>6, <1>7, <1>8, <1>9, <1>10 DEF PlaceInv

\* The stream answers as the driver's interface says, whatever its kind and
\* sizes and whatever its callbacks, its devices and its interrupts do between:
\* no call the core makes in its turn is refused, and only a stream that was
\* interrupted says so.
THEOREM StreamAnswers == Spec => DriverSpec
<1>1. StreamInit => Driver!Init
  BY DEF StreamInit, UnitsInit, Driver!Init, StreamAt
<1>2. PlaceInv /\ TurnInv /\ RingInv /\ StreamSeen /\ StreamSeen' /\ [Next]_vars
        => [Driver!Next]_(Driver!vars)
  <2> SUFFICES ASSUME PlaceInv, TurnInv, RingInv, StreamSeen, StreamSeen', [Next]_vars
               PROVE  [Driver!Next]_(Driver!vars)
    OBVIOUS
  <2>1. CASE Thread \/ Aborted \/ DeviceGone
    BY <2>1, ThreadAnswers DEF RingInv, Driver!Next
  <2>2. CASE ~(Thread \/ Aborted \/ DeviceGone)
    <3>1. UNCHANGED <<pc, result>>
      BY <2>2, OthersTurn
    <3>2. CASE UNCHANGED phase /\ (UNCHANGED interrupted \/ interrupted' # {})
      <4>1. StreamAt' = StreamAt
        BY <3>1, <3>2 DEF StreamAt
      <4>2. QED
        BY <3>2, <4>1 DEF Driver!Next, Driver!Interrupt, Driver!vars
    <3>3. CASE UNCHANGED interrupted /\ phase = "open" /\ phase' \in {"open", "opened", "closing"}
      <4>1. StreamAt = "new" /\ StreamAt' \in {"new", "closed"}
        BY <3>1, <3>3 DEF StreamSeen, PlaceInv, Starting
      <4>2. QED
        BY <3>3, <4>1 DEF Driver!Next, Driver!Close, Driver!vars
    <3>4. CASE UNCHANGED interrupted /\ phase = "opened" /\ pc \in {"out", "over"} /\ phase' = "closing"
      <4>1. StreamAt \in {"new", "stopped"} /\ StreamAt' = "closed"
        BY <3>4 DEF StreamSeen, Starting
      <4>2. QED
        BY <3>4, <4>1 DEF Driver!Next, Driver!Close
    <3>5. CASE UNCHANGED interrupted /\ phase = "closing" /\ phase' = "closed"
      <4>1. StreamAt' = StreamAt
        BY <3>5 DEF StreamSeen
      <4>2. QED
        BY <3>5, <4>1 DEF Driver!vars
    <3>6. QED
      BY <2>2, <3>2, <3>3, <3>4, <3>5, OthersTurn
  <2>3. QED
    BY <2>1, <2>2
<1>3. QED
  BY <1>1, <1>2, TurnSeen, TurnInvariance, RingInvariance, PTL DEF Spec, DriverSpec, Driver!Spec
=============================================================================
