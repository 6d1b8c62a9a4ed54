--------------------------- MODULE FrameRingProofs --------------------------
(***************************************************************************)
(* Proofs about FrameRing for any number of slots and any modulus that is  *)
(* a multiple of it: the counters keep their distance across every wrap,   *)
(* and producer and consumer never meet in a slot.                         *)
(***************************************************************************)
EXTENDS FrameRingLen, SequenceTheorems, TLAPS

-----------------------------------------------------------------------------
(* Remainders: the facts about counters that wrap which the provers do not *)
(* know.                                                                   *)

\* A remainder is below its modulus.
LEMMA ModRange ==
  ASSUME NEW m \in Nat \ {0}, NEW a \in Int
  PROVE  a % m \in 0 .. m - 1
BY SMTT(20)

\* Every integer is a multiple of the modulus and its remainder.
LEMMA ModQuotient ==
  ASSUME NEW m \in Nat \ {0}, NEW a \in Int
  PROVE  \E q \in Int : a = m * q + (a % m)
<1>1. m \in Nat /\ m > 0
  OBVIOUS
<1>2. QED
  BY <1>1, SMTT(20)

\* The remainder is the only one.
LEMMA ModUnique ==
  ASSUME NEW m \in Nat \ {0}, NEW q \in Int, NEW r \in 0 .. m - 1
  PROVE  (m * q + r) % m = r
BY SMTT(20)

\* A multiple of the modulus does not matter.
LEMMA ModShift ==
  ASSUME NEW m \in Nat \ {0}, NEW k \in Int, NEW a \in Int
  PROVE  (a + m * k) % m = a % m
<1>1. PICK q \in Int : a = m * q + (a % m)
  BY ModQuotient, Zenon
<1>2. a % m \in 0 .. m - 1
  BY ModRange
<1> DEFINE r == a % m
<1> HIDE DEF r
<1>3. a + m * k = m * (q + k) + r
  BY <1>1, <1>2, SMTT(20) DEF r
<1>4. (m * (q + k) + r) % m = r
  BY <1>2, ModUnique DEF r
<1>5. QED
  BY <1>3, <1>4 DEF r

\* Two numbers less than the modulus apart do not have the same remainder.
LEMMA ModApart ==
  ASSUME NEW m \in Nat \ {0}, NEW a \in Int, NEW b \in Int,
         a % m = b % m, a - b < m, a - b > 0
  PROVE  FALSE
<1> DEFINE r == a % m
<1> HIDE DEF r
<1>1. r \in Int
  BY ModRange DEF r
<1>2. PICK p \in Int : a = m * p + r
  BY ModQuotient, Zenon DEF r
<1>3. PICK q \in Int : b = m * q + r
  BY ModQuotient, Zenon DEF r
<1>4. a - b = m * (p - q)
  BY <1>1, <1>2, <1>3, SMTT(20)
<1>5. p - q >= 1
  BY ONLY <1>4, m \in Nat, a - b > 0, p \in Int, q \in Int, SMTT(20)
<1>6. m * (p - q) >= m
  BY ONLY <1>5, m \in Nat, p \in Int, q \in Int, SMTT(20)
<1>7. QED
  BY <1>4, <1>6

-----------------------------------------------------------------------------
(* The counters.                                                           *)

Counter == 0 .. Modulus - 1

\* The sizes, without the one fact that needs remainders.
LEMMA Sizes == Slots \in Nat \ {0} /\ Modulus \in Nat \ {0} /\ Slots < Modulus
BY SlotsAssumption

\* That fact: the modulus is a multiple of the number of slots.
LEMMA Multiple == \E k \in Int : Modulus = Slots * k
<1>1. PICK q \in Int : Modulus = Slots * q + (Modulus % Slots)
  <2>1. Modulus \in Int
    BY Sizes
  <2>2. QED
    BY <2>1, Sizes, ModQuotient, Zenon
<1>2. Modulus % Slots = 0
  BY SlotsAssumption
<1>3. Slots * q \in Int
  BY Sizes
<1>4. Modulus = Slots * q
  BY <1>1, <1>2, <1>3
<1>5. QED
  BY <1>4

\* The free-running counter is incremented or wraps.
LEMMA Plus1Value ==
  ASSUME NEW n \in Counter
  PROVE  /\ Plus1(n) = IF n = Modulus - 1 THEN 0 ELSE n + 1
         /\ Plus1(n) \in Counter
<1>1. CASE n = Modulus - 1
  <2>1. (Modulus * 1 + 0) % Modulus = 0
    BY Sizes, ModUnique
  <2>2. Modulus * 1 + 0 = n + 1
    BY Sizes, <1>1
  <2>3. QED
    BY Sizes, <1>1, <2>1, <2>2 DEF Plus1, Counter
<1>2. CASE n # Modulus - 1
  <2>1. n + 1 \in 0 .. Modulus - 1
    BY Sizes, <1>2 DEF Counter
  <2>2. (n + 1) % Modulus = n + 1
    BY Sizes, <2>1, SMTT(20)
  <2>3. QED
    BY Sizes, <1>2, <2>1, <2>2 DEF Plus1, Counter
<1>3. QED
  BY <1>1, <1>2

\* The unsigned difference of two counters.
LEMMA UsedValue ==
  ASSUME NEW h \in Counter, NEW t \in Counter
  PROVE  /\ Used(h, t) = IF h >= t THEN h - t ELSE h - t + Modulus
         /\ Used(h, t) \in Counter
<1>1. (h - t) % Modulus = IF h >= t THEN h - t ELSE h - t + Modulus
  BY Sizes, SMTT(20) DEF Counter
<1>2. QED
  BY Sizes, <1>1 DEF Used, Counter

\* A write brings the counters one further apart, unless they are as far
\* apart as they can be.
LEMMA UsedAfterWrite ==
  ASSUME NEW h \in Counter, NEW t \in Counter, Used(h, t) < Slots
  PROVE  Used(Plus1(h), t) = Used(h, t) + 1
<1>1. /\ Plus1(h) = IF h = Modulus - 1 THEN 0 ELSE h + 1
      /\ Plus1(h) \in Counter
  BY Plus1Value
<1>2. Used(h, t) = IF h >= t THEN h - t ELSE h - t + Modulus
  BY UsedValue
<1>3. Used(Plus1(h), t) =
        IF Plus1(h) >= t THEN Plus1(h) - t ELSE Plus1(h) - t + Modulus
  BY <1>1, UsedValue
<1>4. QED
  BY Sizes, <1>1, <1>2, <1>3 DEF Counter

\* A read brings them one closer, unless they are together.
LEMMA UsedAfterRead ==
  ASSUME NEW h \in Counter, NEW t \in Counter, Used(h, t) > 0
  PROVE  Used(h, Plus1(t)) = Used(h, t) - 1
<1>1. /\ Plus1(t) = IF t = Modulus - 1 THEN 0 ELSE t + 1
      /\ Plus1(t) \in Counter
  BY Plus1Value
<1>2. Used(h, t) = IF h >= t THEN h - t ELSE h - t + Modulus
  BY UsedValue
<1>3. Used(h, Plus1(t)) =
        IF h >= Plus1(t) THEN h - Plus1(t) ELSE h - Plus1(t) + Modulus
  BY <1>1, UsedValue
<1>4. QED
  BY Sizes, <1>1, <1>2, <1>3 DEF Counter

\* The slot of a number is a slot.
LEMMA IndexRange ==
  ASSUME NEW n \in Nat
  PROVE  Index(n) \in 0 .. Slots - 1
BY Sizes, ModRange DEF Index

\* The slot does not change when the counter wraps.
LEMMA IndexWraps ==
  ASSUME NEW n \in Nat, NEW c \in {0, 1}
  PROVE  Index(n + Modulus * c) = Index(n)
<1>1. PICK k \in Int : Modulus = Slots * k
  BY Multiple
<1>2. Slots * (k * c) = Modulus * c
  BY <1>1, Sizes, SMTT(20)
<1>3. (n + Slots * (k * c)) % Slots = n % Slots
  <2>1. k * c \in Int /\ n \in Int
    BY <1>1
  <2>2. QED
    BY <2>1, Sizes, ModShift, Zenon
<1>4. QED
  BY <1>2, <1>3 DEF Index

\* The frame the producer writes comes after those that are in the ring.
LEMMA IndexHead ==
  ASSUME NEW h \in Counter, NEW t \in Counter
  PROVE  Index(t + Used(h, t)) = Index(h)
<1>1. Used(h, t) = IF h >= t THEN h - t ELSE h - t + Modulus
  BY UsedValue
<1>2. PICK c \in {0, 1} : t + Used(h, t) = h + Modulus * c
  <2>1. \/ t + Used(h, t) = h + Modulus * 0
        \/ t + Used(h, t) = h + Modulus * 1
    BY <1>1, Sizes DEF Counter
  <2>2. QED
    BY <2>1
<1>3. Index(h + Modulus * c) = Index(h)
  BY Sizes, IndexWraps DEF Counter
<1>4. QED
  BY <1>2, <1>3

\* After a read the frames are one nearer.
LEMMA IndexNext ==
  ASSUME NEW t \in Counter, NEW i \in Nat
  PROVE  Index(Plus1(t) + i) = Index(t + (i + 1))
<1>1. Plus1(t) = IF t = Modulus - 1 THEN 0 ELSE t + 1
  BY Plus1Value
<1>2. CASE t = Modulus - 1
  <2>1. Index(i + Modulus * 1) = Index(i)
    BY IndexWraps
  <2>2. i + Modulus * 1 = t + (i + 1) /\ Plus1(t) + i = i
    BY <1>1, <1>2, Sizes
  <2>3. QED
    BY <2>1, <2>2
<1>3. CASE t # Modulus - 1
  <2>1. Plus1(t) + i = t + (i + 1)
    BY <1>1, <1>3, Sizes DEF Counter
  <2>2. QED
    BY <2>1
<1>4. QED
  BY <1>2, <1>3

\* As many numbers in a row as there are slots have slots of their own.
LEMMA IndexApart ==
  ASSUME NEW t \in Counter, NEW i \in Nat, NEW j \in Nat, i < j, j < Slots
  PROVE  Index(t + i) # Index(t + j)
<1>1. t + i \in Int /\ t + j \in Int
  BY Sizes DEF Counter
<1>2. (t + j) - (t + i) > 0 /\ (t + j) - (t + i) < Slots
  BY Sizes DEF Counter
<1>3. SUFFICES ASSUME (t + j) % Slots = (t + i) % Slots PROVE FALSE
  BY DEF Index
<1>4. QED
  BY <1>1, <1>2, <1>3, Sizes, ModApart, Zenon

-----------------------------------------------------------------------------
(* The invariant.                                                          *)

\* The empty ring satisfies it.
LEMMA InitHolds == Init => IInv
<1> SUFFICES ASSUME Init PROVE IInv
  OBVIOUS
<1>1. Used(0, 0) = 0
  BY Sizes, UsedValue DEF Counter
<1>2. QED
  BY <1>1, Sizes DEF Init, IInv, TypeOK, Distance, DataInv

\* What IInv says of the counters, in the form the lemmas want it.
LEMMA Counters ==
  ASSUME IInv
  PROVE  /\ head \in Counter /\ tail \in Counter
         /\ Used(head, tail) \in Nat
         /\ Used(head, tail) <= Slots
         /\ Index(head) \in 0 .. Slots - 1
<1>1. head \in Counter /\ tail \in Counter
  BY DEF IInv, TypeOK, Counter
<1>2. Used(head, tail) \in Counter
  BY <1>1, UsedValue
<1>3. Index(head) \in 0 .. Slots - 1
  BY <1>1, Sizes, IndexRange DEF Counter
<1>4. QED
  BY <1>1, <1>2, <1>3, Sizes DEF IInv, Distance, Counter

\* A producer that has found room touches no slot that holds a frame.
LEMMA OverwriteKeeps ==
  ASSUME IInv, Used(head, tail) < Slots,
         NEW f, data' = [data EXCEPT ![Index(head)] = f]
  PROVE  \A i \in 0 .. Used(head, tail) - 1 :
            data'[Index(tail + i)] = data[Index(tail + i)]
<1> SUFFICES ASSUME NEW i \in 0 .. Used(head, tail) - 1
             PROVE  data'[Index(tail + i)] = data[Index(tail + i)]
  OBVIOUS
<1>1. i \in Nat /\ i < Used(head, tail)
  BY Counters
<1>2. Index(tail + i) # Index(tail + Used(head, tail))
  BY <1>1, Counters, IndexApart
<1>3. Index(tail + i) # Index(head)
  BY <1>2, Counters, IndexHead
<1>4. Index(tail + i) \in 0 .. Slots - 1
  BY <1>1, Counters, Sizes, IndexRange DEF Counter
<1>5. QED
  BY <1>3, <1>4 DEF IInv, TypeOK

\* The oldest frame is in the slot of tail.
LEMMA Oldest ==
  ASSUME IInv, Used(head, tail) > 0
  PROVE  /\ Index(tail + 0) = Index(tail)
         /\ 0 \in 0 .. Used(head, tail) - 1
         /\ data[Index(tail)] \in Frames
<1>1. Index(tail + 0) = Index(tail)
  BY Counters, Sizes DEF Counter
<1>2. 0 \in 0 .. Used(head, tail) - 1
  BY Counters
<1>3. QED
  BY <1>1, <1>2 DEF IInv, DataInv

\* The calls begin.
LEMMA BeginStep ==
  ASSUME IInv, BeginWrite \/ BeginRead
  PROVE  IInv'
BY DEF IInv, TypeOK, Distance, DataInv, BeginWrite, BeginRead, ringVars,
   writerVars, readerVars

\* The producer finds no room, or starts to copy into a free slot.
LEMMA WriteLoadStep ==
  ASSUME IInv, WriteLoad
  PROVE  IInv'
<1> USE DEF IInv, WriteLoad, readerVars
<1>1. CASE Full(head, tail)
  BY <1>1 DEF TypeOK, Distance, DataInv
<1>2. CASE ~Full(head, tail)
  <2>1. Used(head, tail) < Slots
    BY <1>2, Counters, Sizes DEF Full
  <2>2. data' = [data EXCEPT ![Index(head)] = Torn] /\ wpc' = "copy"
    BY <1>2
  <2>3. TypeOK'
    BY <2>2, Counters DEF TypeOK
  <2>4. Distance'
    BY <2>1, <2>2 DEF Distance
  <2>5. DataInv'
    BY <2>1, <2>2, OverwriteKeeps, Oldest DEF DataInv, Distance
  <2>6. QED
    BY <2>3, <2>4, <2>5
<1>3. QED
  BY <1>1, <1>2

\* The producer's copy is complete.
LEMMA WriteCopyStep ==
  ASSUME IInv, WriteCopy
  PROVE  IInv'
<1> USE DEF IInv, WriteCopy, readerVars
<1>1. Used(head, tail) < Slots
  BY DEF Distance
<1>2. TypeOK'
  BY Counters DEF TypeOK
<1>3. Distance'
  BY DEF Distance
<1>4. data'[Index(head)] = src
  BY Counters DEF TypeOK
<1>5. DataInv'
  BY <1>1, <1>4, OverwriteKeeps, Oldest DEF DataInv, Distance
<1>6. QED
  BY <1>2, <1>3, <1>5

\* The frame is published.
LEMMA WriteStoreStep ==
  ASSUME IInv, WriteStore
  PROVE  IInv'
<1> USE DEF IInv, WriteStore, readerVars
<1>1. /\ head' \in Counter
      /\ Used(head', tail) = Used(head, tail) + 1
  BY Counters, UsedAfterWrite, Plus1Value DEF Distance
<1>2. TypeOK'
  BY <1>1 DEF TypeOK, Counter
<1>3. Distance'
  BY <1>1, Counters, Sizes DEF Distance
<1>4. ASSUME NEW i \in 0 .. Used(head, tail)' - 1
      PROVE  data[Index(tail + i)] \in Frames
  <2>1. CASE i = Used(head, tail)
    BY <2>1, Counters, IndexHead DEF DataInv
  <2>2. CASE i # Used(head, tail)
    BY <1>1, <2>2, Counters DEF DataInv
  <2>3. QED
    BY <2>1, <2>2
<1>5. DataInv'
  BY <1>4 DEF DataInv
<1>6. QED
  BY <1>2, <1>3, <1>5

\* The consumer finds nothing, or starts to copy out of the oldest slot.
LEMMA ReadLoadStep ==
  ASSUME IInv, ReadLoad
  PROVE  IInv'
<1> USE DEF IInv, ReadLoad, ringVars, writerVars
<1>1. ~Empty(head, tail) => Used(head, tail) > 0
  <2>1. Used(head, tail) = IF head >= tail THEN head - tail ELSE head - tail + Modulus
    BY Counters, UsedValue
  <2>2. QED
    BY <2>1, Counters, Sizes DEF Empty, Counter
<1>2. QED
  BY <1>1 DEF TypeOK, Distance, DataInv

\* The consumer's copy is complete: the slot held a whole frame.
LEMMA ReadCopyStep ==
  ASSUME IInv, ReadCopy
  PROVE  IInv'
<1> USE DEF IInv, ReadCopy, ringVars, writerVars
<1>1. dst' \in Frames
  BY Oldest DEF Distance
<1>2. QED
  BY <1>1 DEF TypeOK, Distance, DataInv

\* The slot is given back.
LEMMA ReadStoreStep ==
  ASSUME IInv, ReadStore
  PROVE  IInv'
<1> USE DEF IInv, ReadStore, writerVars
<1>1. /\ tail' \in Counter
      /\ Used(head, tail') = Used(head, tail) - 1
  BY Counters, UsedAfterRead, Plus1Value DEF Distance
<1>2. TypeOK'
  BY <1>1 DEF TypeOK, Counter
<1>3. Distance'
  BY <1>1, Counters, Sizes DEF Distance
<1>4. ASSUME NEW i \in 0 .. Used(head, tail)' - 1
      PROVE  data[Index(tail' + i)] \in Frames
  <2>1. i \in Nat /\ i + 1 \in 0 .. Used(head, tail) - 1
    BY <1>1, Counters
  <2>2. Index(tail' + i) = Index(tail + (i + 1))
    BY <2>1, Counters, IndexNext
  <2>3. QED
    BY <2>1, <2>2 DEF DataInv
<1>5. DataInv'
  BY <1>4 DEF DataInv
<1>6. QED
  BY <1>2, <1>3, <1>5

\* So does every step.
LEMMA NextKeeps ==
  ASSUME IInv, [Next]_vars
  PROVE  IInv'
<1>1. CASE Next
  BY <1>1, BeginStep, WriteLoadStep, WriteCopyStep, WriteStoreStep, ReadLoadStep,
     ReadCopyStep, ReadStoreStep DEF Next, Producer, Consumer
<1>2. CASE UNCHANGED vars
  BY <1>2 DEF vars, ringVars, writerVars, readerVars, IInv, TypeOK, Distance, DataInv
<1>3. QED
  BY <1>1, <1>2

\* IInv is an invariant of the ring, whatever its size.
THEOREM RingInvariance == Spec => []IInv
<1>1. IInv /\ [Next]_vars => IInv'
  BY NextKeeps
<1>2. QED
  BY InitHolds, <1>1, PTL DEF Spec

\* The fullness and emptiness tests are right across every wrap.
THEOREM CountersKeepDistance == Spec => []Distance
<1>1. IInv => Distance
  BY DEF IInv
<1>2. QED
  BY RingInvariance, <1>1, PTL

\* Producer and consumer are never inside the same slot.
THEOREM SlotsNotShared == Spec => []NoSlotRace
<1>1. IInv => NoSlotRace
  <2> SUFFICES ASSUME IInv, wpc = "copy", rpc = "copy"
               PROVE  Index(head) # Index(tail)
    BY DEF NoSlotRace
  <2>1. Used(head, tail) > 0 /\ Used(head, tail) < Slots
    BY DEF IInv, Distance
  <2>2. Index(tail + 0) # Index(tail + Used(head, tail))
    BY <2>1, Counters, IndexApart
  <2>3. QED
    BY <2>1, <2>2, Counters, IndexHead, Oldest
<1>2. QED
  BY RingInvariance, <1>1, PTL

-----------------------------------------------------------------------------
(* The ring is a queue.                                                    *)

\* The queue is as long as the counters are apart.
QueueIs ==
    /\ Queue \in Seq(Frames)
    /\ Len(Queue) = Used(head, tail)
    /\ \A i \in 1 .. Used(head, tail) : Queue[i] = data[Index(tail + (i - 1))]

\* Queue is what lies between the counters.
LEMMA QueueLength == IInv => QueueIs
<1> SUFFICES ASSUME IInv PROVE QueueIs
  OBVIOUS
<1> DEFINE n == Used(head, tail)
<1>1. n \in Nat /\ tail \in Int
  BY Counters, Sizes DEF Counter
<1> HIDE DEF n
<1>2. \A i \in 1 .. n : tail + i - 1 = tail + (i - 1)
  BY <1>1
<1>3. \A i \in 1 .. n : data[Index(tail + (i - 1))] \in Frames
  <2> SUFFICES ASSUME NEW i \in 1 .. n PROVE data[Index(tail + (i - 1))] \in Frames
    OBVIOUS
  <2>1. i - 1 \in 0 .. n - 1
    BY <1>1
  <2>2. QED
    BY <2>1 DEF IInv, DataInv, n
<1>4. Queue = [i \in 1 .. n |-> data[Index(tail + (i - 1))]]
  BY <1>2 DEF Queue, n
<1>5. Queue \in [1 .. n -> Frames]
  BY <1>3, <1>4
<1>6. Queue \in Seq(Frames) /\ Len(Queue) = n
  BY <1>1, <1>5
<1>7. QED
  BY <1>4, <1>6 DEF n, QueueIs

\* The same after a step.
LEMMA QueueLengthNext == IInv' => QueueIs'
BY QueueLength, PTL

\* A queue with a frame is not empty, and its head is in the slot of tail.
LEMMA QueueHead ==
  ASSUME IInv, Used(head, tail) > 0
  PROVE  Queue # << >> /\ Head(Queue) = data[Index(tail)]
<1>1. Len(Queue) > 0 /\ 1 \in 1 .. Used(head, tail)
  BY QueueLength, Counters DEF QueueIs
<1>2. Queue[1] = data[Index(tail + 0)]
  BY <1>1, QueueLength DEF QueueIs
<1>3. QED
  BY <1>1, <1>2, QueueLength, Oldest DEF QueueIs

\* Steps that leave the counters and the frames between them alone leave the
\* queue alone.
LEMMA QueueKept ==
  ASSUME IInv, IInv', UNCHANGED <<head, tail>>,
         \A i \in 0 .. Used(head, tail) - 1 :
            data'[Index(tail + i)] = data[Index(tail + i)]
  PROVE  Queue' = Queue
<1>1. Queue' \in Seq(Frames) /\ Len(Queue') = Used(head, tail)
  BY QueueLengthNext DEF QueueIs
<1>2. \A i \in 1 .. Used(head, tail) : Queue'[i] = Queue[i]
  <2> SUFFICES ASSUME NEW i \in 1 .. Used(head, tail) PROVE Queue'[i] = Queue[i]
    OBVIOUS
  <2>1. Queue'[i] = data'[Index(tail + (i - 1))]
    BY QueueLengthNext DEF QueueIs
  <2>2. Queue[i] = data[Index(tail + (i - 1))]
    BY QueueLength DEF QueueIs
  <2>3. i - 1 \in 0 .. Used(head, tail) - 1
    BY Counters
  <2>4. QED
    BY <2>1, <2>2, <2>3
<1>3. QED
  BY <1>1, <1>2, QueueLength, SeqEqual DEF QueueIs

\* The store of head appends.
LEMMA QueueAppended ==
  ASSUME IInv, IInv', WriteStore
  PROVE  Queue' = Append(Queue, src)
<1> DEFINE n == Used(head, tail)
<1>1. n \in Nat /\ Used(head', tail') = n + 1
  BY Counters, UsedAfterWrite DEF IInv, Distance, WriteStore
<1>2. Queue' \in Seq(Frames) /\ Len(Queue') = n + 1
  BY <1>1, QueueLengthNext DEF QueueIs
<1>3. src \in Frames /\ Queue \in Seq(Frames) /\ Len(Queue) = n
  BY QueueLength DEF QueueIs, IInv, DataInv, WriteStore
<1>4. /\ Append(Queue, src) \in Seq(Frames)
      /\ Len(Append(Queue, src)) = n + 1
      /\ \A i \in 1 .. n : Append(Queue, src)[i] = Queue[i]
      /\ Append(Queue, src)[n + 1] = src
  BY <1>1, <1>3, AppendProperties
<1>5. ASSUME NEW i \in 1 .. n + 1
      PROVE  Queue'[i] = Append(Queue, src)[i]
  <2>1. Queue'[i] = data[Index(tail + (i - 1))]
    BY <1>1, QueueLengthNext DEF QueueIs, WriteStore
  <2>2. CASE i = n + 1
    <3>1. i - 1 = n
      BY <1>1, <2>2
    <3>2. data[Index(tail + n)] = src
      BY Counters, IndexHead DEF IInv, DataInv, WriteStore
    <3>3. QED
      BY <1>4, <2>1, <2>2, <3>1, <3>2
  <2>3. CASE i # n + 1
    <3>1. i \in 1 .. n
      BY <1>1, <2>3
    <3>2. Queue[i] = data[Index(tail + (i - 1))]
      BY <3>1, QueueLength DEF QueueIs
    <3>3. QED
      BY <1>4, <2>1, <3>1, <3>2
  <2>4. QED
    BY <2>2, <2>3
<1> HIDE DEF n
<1>6. QED
  BY <1>2, <1>4, <1>5, SeqEqual

\* The store of tail removes the head.
LEMMA QueueShifted ==
  ASSUME IInv, IInv', ReadStore
  PROVE  Queue' = Tail(Queue)
<1> DEFINE n == Used(head, tail)
<1>1. n \in Nat /\ n > 0 /\ Used(head', tail') = n - 1
  BY Counters, UsedAfterRead DEF IInv, Distance, ReadStore
<1>2. Queue' \in Seq(Frames) /\ Len(Queue') = n - 1
  BY <1>1, QueueLengthNext DEF QueueIs
<1>3. Queue \in Seq(Frames) /\ Len(Queue) = n /\ Queue # << >>
  BY <1>1, QueueLength, QueueHead DEF QueueIs
<1>4. /\ Tail(Queue) \in Seq(Frames)
      /\ Len(Tail(Queue)) = n - 1
      /\ \A i \in 1 .. n - 1 : Tail(Queue)[i] = Queue[i + 1]
  BY <1>3, HeadTailProperties
<1>5. ASSUME NEW i \in 1 .. n - 1
      PROVE  Queue'[i] = Tail(Queue)[i]
  <2>1. Queue'[i] = data[Index(tail' + (i - 1))]
    BY <1>1, QueueLengthNext DEF QueueIs, ReadStore
  <2>2. Index(tail' + (i - 1)) = Index(tail + ((i - 1) + 1))
    <3>1. i - 1 \in Nat
      BY <1>1
    <3>2. QED
      BY <3>1, Counters, IndexNext DEF ReadStore
  <2>3. Queue[i + 1] = data[Index(tail + ((i + 1) - 1))]
    <3>1. i + 1 \in 1 .. n
      BY <1>1
    <3>2. QED
      BY <3>1, QueueLength DEF QueueIs
  <2>4. (i - 1) + 1 = (i + 1) - 1
    BY <1>1
  <2>5. QED
    BY <1>4, <2>1, <2>2, <2>3, <2>4
<1> HIDE DEF n
<1>6. QED
  BY <1>2, <1>4, <1>5, SeqEqual

\* An empty ring is an empty queue.
LEMMA InitMaps == Init => FIFO!Init
<1> SUFFICES ASSUME Init PROVE FIFO!Init
  OBVIOUS
<1>1. Used(0, 0) = 0
  BY Sizes, UsedValue DEF Counter
<1>2. Len(Queue) = 0 /\ Queue \in Seq(Frames)
  BY <1>1, InitHolds, QueueLength DEF QueueIs, Init
<1>3. Queue = << >>
  BY <1>2, EmptySeq, SeqEqual
<1>4. QED
  BY <1>3 DEF Init, FIFO!Init, Status, NoFrame

\* A step of the producer: the call begins, is refused, is accepted, or goes on.
LEMMA ProducerMaps ==
  ASSUME IInv, IInv', Producer
  PROVE  [FIFO!Next]_(FIFO!vars)
<1> USE DEF Status, FIFO!Next, FIFO!vars, readerVars
<1>1. CASE BeginWrite
  <2>1. Queue' = Queue
    BY <1>1 DEF BeginWrite, ringVars, Queue
  <2>2. QED
    BY <1>1, <2>1 DEF BeginWrite, FIFO!BeginPut
<1>2. CASE WriteLoad /\ Full(head, tail)
  <2>1. Queue' = Queue
    BY <1>2 DEF WriteLoad, Queue
  <2>2. Len(Queue) = Slots
    BY <1>2, QueueLength, Counters, Sizes DEF QueueIs, Full
  <2>3. QED
    BY <1>2, <2>1, <2>2 DEF WriteLoad, FIFO!RefusePut
<1>3. CASE WriteLoad /\ ~Full(head, tail)
  <2>1. Used(head, tail) < Slots
    BY <1>3, Counters, Sizes DEF Full
  <2>2. Queue' = Queue
    BY <1>3, <2>1, OverwriteKeeps, QueueKept DEF WriteLoad
  <2>3. QED
    BY <1>3, <2>2 DEF WriteLoad
<1>4. CASE WriteCopy
  <2>1. Queue' = Queue
    BY <1>4, OverwriteKeeps, QueueKept DEF WriteCopy, IInv, Distance
  <2>2. QED
    BY <1>4, <2>1 DEF WriteCopy
<1>5. CASE WriteStore
  <2>1. Queue' = Append(Queue, src)
    BY <1>5, QueueAppended
  <2>2. Len(Queue) < Slots
    BY <1>5, QueueLength DEF QueueIs, WriteStore, IInv, Distance
  <2>3. QED
    BY <1>5, <2>1, <2>2 DEF WriteStore, FIFO!Put
<1>6. QED
  BY <1>1, <1>2, <1>3, <1>4, <1>5 DEF Producer

\* A step of the consumer likewise.
LEMMA ConsumerMaps ==
  ASSUME IInv, IInv', Consumer
  PROVE  [FIFO!Next]_(FIFO!vars)
<1> USE DEF Status, FIFO!Next, FIFO!vars, writerVars
<1>1. CASE BeginRead
  <2>1. Queue' = Queue
    BY <1>1 DEF BeginRead, ringVars, Queue
  <2>2. QED
    BY <1>1, <2>1 DEF BeginRead, FIFO!BeginGet, NoFrame
<1>2. CASE ReadLoad /\ Empty(head, tail)
  <2>1. Queue' = Queue
    BY <1>2 DEF ReadLoad, ringVars, Queue
  <2>2. Used(head, tail) = 0
    <3>1. Used(head, tail) = IF head >= tail THEN head - tail ELSE head - tail + Modulus
      BY Counters, UsedValue
    <3>2. QED
      BY <1>2, <3>1, Counters, Sizes DEF Empty, Counter
  <2>3. Queue = << >>
    BY <2>2, QueueLength, EmptySeq, SeqEqual DEF QueueIs
  <2>4. QED
    BY <1>2, <2>1, <2>3 DEF ReadLoad, FIFO!RefuseGet, NoFrame
<1>3. CASE ReadLoad /\ ~Empty(head, tail)
  <2>1. Queue' = Queue
    BY <1>3 DEF ReadLoad, ringVars, Queue
  <2>2. QED
    BY <1>3, <2>1 DEF ReadLoad
<1>4. CASE ReadCopy
  <2>1. Queue' = Queue
    BY <1>4 DEF ReadCopy, ringVars, Queue
  <2>2. QED
    BY <1>4, <2>1 DEF ReadCopy
<1>5. CASE ReadStore
  <2>1. Queue' = Tail(Queue)
    BY <1>5, QueueShifted
  <2>2. Queue # << >> /\ dst = Head(Queue)
    BY <1>5, QueueHead DEF ReadStore, IInv, Distance, DataInv
  <2>3. QED
    BY <1>5, <2>1, <2>2 DEF ReadStore, FIFO!Get
<1>6. QED
  BY <1>1, <1>2, <1>3, <1>4, <1>5 DEF Consumer

\* The ring implements the bounded queue, whatever its size: frames are read
\* whole, once and in the order they were written; a write is refused only by
\* a full ring, a read only by an empty one.
THEOREM RingIsQueue == Spec => FIFOSpec
<1>1. IInv /\ IInv' /\ [Next]_vars => [FIFO!Next]_(FIFO!vars)
  <2> SUFFICES ASSUME IInv, IInv', [Next]_vars PROVE [FIFO!Next]_(FIFO!vars)
    OBVIOUS
  <2>1. CASE Next
    BY <2>1, ProducerMaps, ConsumerMaps DEF Next
  <2>2. CASE UNCHANGED vars
    BY <2>2 DEF vars, ringVars, writerVars, readerVars, FIFO!vars, Queue
  <2>3. QED
    BY <2>1, <2>2
<1>2. QED
  BY RingInvariance, InitMaps, <1>1, PTL DEF Spec, FIFOSpec, FIFO!Spec

-----------------------------------------------------------------------------
(* Len, called by the goroutine of one side.                               *)

\* What the counters are apart by the head that was loaded is a length the ring
\* has had since; the producer's own head has not moved.
LenInv ==
    /\ caller \in Observers \cup {"none"} /\ oHead \in Counter
    /\ caller = "none" => len \in lens
    /\ caller # "none" => Used(oHead, tail) \in lens /\ Used(oHead, tail) <= Slots
    /\ caller = "producer" => oHead = head

\* A step of the ring does not disturb a Len of the other side.
LEMMA RingStepKeeps ==
  ASSUME Observers \subseteq {"producer", "consumer"}, IInv, IInv', LenInv, RingStep
  PROVE  LenInv'
<1>1. UNCHANGED <<caller, oHead, len>>
  BY DEF RingStep
<1>2. CASE caller = "none"
  BY <1>1, <1>2 DEF LenInv, RingStep
<1>3. CASE caller = "producer"
  <2>1. Consumer /\ UNCHANGED head
    BY <1>3 DEF RingStep, Consumer, BeginRead, ReadLoad, ReadCopy, ReadStore, ringVars, writerVars
  <2>2. Used(head', tail') \in lens'
    BY <1>3 DEF RingStep
  <2>3. Used(head', tail') <= Slots
    BY DEF IInv, Distance
  <2>4. QED
    BY <1>1, <1>3, <2>1, <2>2, <2>3 DEF LenInv
<1>4. CASE caller = "consumer"
  <2>1. Producer /\ UNCHANGED tail
    BY <1>4 DEF RingStep, Producer, BeginWrite, WriteLoad, WriteCopy, WriteStore, ringVars, readerVars
  <2>2. lens \subseteq lens'
    BY <1>4 DEF RingStep
  <2>3. QED
    BY <1>1, <1>4, <2>1, <2>2 DEF LenInv
<1>5. QED
  BY <1>2, <1>3, <1>4 DEF LenInv

\* Neither does Len itself disturb the ring, or answer what was never so.
LEMMA LenKeeps ==
  ASSUME Observers \subseteq {"producer", "consumer"}, IInv, LenInv, LenLoadHead \/ LenLoadTail
  PROVE  LenInv'
<1>1. Used(head, tail) <= Slots /\ UNCHANGED <<head, tail>>
  BY DEF IInv, Distance, LenLoadHead, LenLoadTail, vars, ringVars
<1>2. CASE LenLoadHead
  <2>1. caller' \in Observers /\ caller' # "none"
    BY <1>2 DEF LenLoadHead
  <2>2. QED
    BY <1>1, <1>2, <2>1, Counters DEF LenLoadHead, LenInv
<1>3. CASE LenLoadTail
  <2>1. Clamp(Used(oHead, tail)) = Used(oHead, tail)
    <3>1. Used(oHead, tail) <= Slots
      BY <1>3 DEF LenInv, LenLoadTail
    <3>2. Used(oHead, tail) \in Int
      BY Counters, Sizes, UsedValue DEF LenInv, Counter
    <3>3. QED
      BY <3>1, <3>2, Sizes DEF Clamp
  <2>2. QED
    BY <1>3, <2>1 DEF LenLoadTail, LenInv
<1>4. QED
  BY <1>2, <1>3

\* Len called by the goroutine of one side, between its own calls, answers a
\* length the ring had while it ran, whatever the other side did meanwhile.
THEOREM LenIsHeld ==
  ASSUME Observers \subseteq {"producer", "consumer"}
  PROVE  LenSpec => []LenWasHeld
<1>1. LenInit => IInv /\ LenInv
  BY InitHolds, Sizes DEF LenInit, LenInv, Counter
<1>2. IInv /\ LenInv /\ [LenNext]_<<vars, lenVars>> => IInv' /\ LenInv'
  <2> SUFFICES ASSUME IInv, LenInv, [LenNext]_<<vars, lenVars>>
               PROVE  IInv' /\ LenInv'
    OBVIOUS
  <2>1. [Next]_vars
    BY DEF LenNext, LenLoadHead, LenLoadTail, RingStep, Next
  <2>2. IInv'
    BY <2>1, NextKeeps
  <2>3. CASE LenNext
    BY <2>2, <2>3, RingStepKeeps, LenKeeps DEF LenNext
  <2>4. CASE UNCHANGED <<vars, lenVars>>
    <3>1. UNCHANGED <<head, tail, caller, oHead, len, lens>>
      BY <2>4 DEF vars, ringVars, lenVars
    <3>2. QED
      BY <2>2, <3>1 DEF LenInv
  <2>5. QED
    BY <2>2, <2>3, <2>4
<1>3. LenInv => LenWasHeld
  BY DEF LenInv, LenWasHeld
<1>4. QED
  BY <1>1, <1>2, <1>3, PTL DEF LenSpec
=============================================================================
