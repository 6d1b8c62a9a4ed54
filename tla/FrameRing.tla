------------------------------ MODULE FrameRing -----------------------------
(***************************************************************************)
(* The single-producer single-consumer ring of internal/ring/frame.go: two *)
(* free-running counters that wrap at the word size and a power-of-two     *)
(* number of slots.  Each atomic load and store is a step, and a copy into *)
(* or out of a slot lasts: it starts in one step and ends in another, so   *)
(* that the two sides can be inside slots at the same time.                *)
(***************************************************************************)
EXTENDS Integers, Sequences

CONSTANTS
    Frames,    \* the contents a frame can have
    Slots,     \* control.slots
    Modulus    \* 2^64 in the code: head and tail wrap there

ASSUME SlotsAssumption ==
    /\ Slots \in Nat \ {0}
    /\ Modulus \in Nat
    /\ Modulus % Slots = 0   \* both are powers of two
    /\ Modulus > Slots

VARIABLES
    head, tail,     \* frames ever written and ever read, modulo Modulus
    data,           \* the slots
    wpc, src,       \* producer: control point, the frame it writes
    rpc, dst        \* consumer: control point, the frame it has read

ringVars == <<head, tail, data>>
writerVars == <<wpc, src>>
readerVars == <<rpc, dst>>
vars == <<ringVars, writerVars, readerVars>>

NoFrame == << >>
\* What a slot holds while a copy into it is under way.
Torn == <<"torn">>

\* uint64 arithmetic, and the slot of a counter (n & (slots - 1)).
Plus1(n) == (n + 1) % Modulus
Used(h, t) == (h - t) % Modulus
Index(n) == n % Slots

Init ==
    /\ head = 0 /\ tail = 0
    /\ data = [i \in 0 .. Slots - 1 |-> NoFrame]
    /\ wpc = "idle" /\ src = NoFrame
    /\ rpc = "idle" /\ dst = NoFrame

-----------------------------------------------------------------------------
(* Write, by the producer.  The load of head has no step: only Write moves *)
(* it.                                                                     *)

BeginWrite ==
    /\ wpc \in {"idle", "done", "full"}
    /\ src' \in Frames
    /\ wpc' = "load"
    /\ UNCHANGED <<ringVars, readerVars>>

Full_OneMore(h, t) == Used(h, t) > Slots
Full(h, t) == Used(h, t) >= Slots

\* The load of tail, and the copy starts unless the ring is full.
WriteLoad ==
    /\ wpc = "load"
    /\ \/ Full(head, tail) /\ wpc' = "full" /\ UNCHANGED data
       \/ /\ ~Full(head, tail)
          /\ wpc' = "copy"
          /\ data' = [data EXCEPT ![Index(head)] = Torn]
    /\ UNCHANGED <<head, tail, src, readerVars>>

WriteCopy ==
    /\ wpc = "copy"
    /\ data' = [data EXCEPT ![Index(head)] = src]
    /\ wpc' = "store"
    /\ UNCHANGED <<head, tail, src, readerVars>>

\* The store of head publishes the frame.
WriteStore ==
    /\ wpc = "store"
    /\ head' = Plus1(head)
    /\ wpc' = "done"
    /\ UNCHANGED <<tail, data, src, readerVars>>

-----------------------------------------------------------------------------
(* Read, by the consumer.                                                  *)

BeginRead ==
    /\ rpc \in {"idle", "done", "empty"}
    /\ dst' = NoFrame
    /\ rpc' = "load"
    /\ UNCHANGED <<ringVars, writerVars>>

Empty_Ordered(h, t) == t >= h
Empty(h, t) == t = h

\* The load of head, and the copy starts unless the ring is empty.
ReadLoad ==
    /\ rpc = "load"
    /\ rpc' = IF Empty(head, tail) THEN "empty" ELSE "copy"
    /\ UNCHANGED <<ringVars, dst, writerVars>>

\* The copy is complete: it holds what the slot holds now.
ReadCopy ==
    /\ rpc = "copy"
    /\ dst' = data[Index(tail)]
    /\ rpc' = "store"
    /\ UNCHANGED <<ringVars, writerVars>>

\* The store of tail gives the slot back to the producer.
ReadStore ==
    /\ rpc = "store"
    /\ tail' = Plus1(tail)
    /\ rpc' = "done"
    /\ UNCHANGED <<head, data, dst, writerVars>>

-----------------------------------------------------------------------------
Producer == BeginWrite \/ WriteLoad \/ WriteCopy \/ WriteStore
Consumer == BeginRead \/ ReadLoad \/ ReadCopy \/ ReadStore

Next == Producer \/ Consumer

Spec == Init /\ [][Next]_vars

-----------------------------------------------------------------------------
(* Properties.                                                             *)

TypeOK ==
    /\ head \in 0 .. Modulus - 1
    /\ tail \in 0 .. Modulus - 1
    /\ data \in [0 .. Slots - 1 -> Frames \cup {NoFrame, Torn}]
    /\ wpc \in {"idle", "load", "copy", "store", "done", "full"}
    /\ src \in Frames \cup {NoFrame}
    /\ rpc \in {"idle", "load", "copy", "store", "done", "empty"}
    /\ dst \in Frames \cup {NoFrame}

\* The counters never drift further apart than the slots there are, across
\* any number of wraps of either; a producer past its check has room and a
\* consumer past its check has a frame, whatever the other did since.
Distance ==
    /\ Used(head, tail) <= Slots
    /\ wpc \in {"copy", "store"} => Used(head, tail) < Slots
    /\ rpc \in {"copy", "store"} => Used(head, tail) > 0

\* The producer and the consumer are never inside the same slot.
NoSlotRace == wpc = "copy" /\ rpc = "copy" => Index(head) # Index(tail)

\* The frames the consumer has yet to read, oldest first.
Queue == [i \in 1 .. Used(head, tail) |-> data[Index(tail + i - 1)]]

\* A call is busy until the step that decides its result.
Status(point) == IF point \in {"load", "copy", "store"} THEN "busy" ELSE point

FIFO == INSTANCE FrameQueue WITH
    Capacity <- Slots, queue <- Queue,
    put <- <<Status(wpc), src>>,
    got <- <<Status(rpc), IF rpc = "done" THEN dst ELSE NoFrame>>

\* The ring is a bounded FIFO queue: Read returns the frames in the order
\* Write accepted them, whole and once each; Write answers false only when
\* the ring is full and Read only when it is empty.
FIFOSpec == FIFO!Spec

-----------------------------------------------------------------------------
(* The inductive invariant.                                                *)

\* Between the counters every slot holds a whole frame; what a side has
\* copied is still what the slot holds when it moves its counter.
DataInv ==
    /\ \A i \in 0 .. Used(head, tail) - 1 : data[Index(tail + i)] \in Frames
    /\ wpc # "idle" => src \in Frames
    /\ wpc = "store" => data[Index(head)] = src
    /\ rpc = "store" => dst = data[Index(tail)]

\* IInv is inductive; the properties above follow from it.
IInv == TypeOK /\ Distance /\ DataInv
=============================================================================
