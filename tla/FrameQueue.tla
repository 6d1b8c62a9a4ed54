----------------------------- MODULE FrameQueue -----------------------------
(***************************************************************************)
(* What a ring of fixed-size frames promises its one producer and its one  *)
(* consumer: a bounded first-in first-out queue whose operations happen at *)
(* one instant between call and return.                                    *)
(***************************************************************************)
EXTENDS Naturals, Sequences

CONSTANTS
    Frames,   \* the contents a frame can have
    Capacity  \* how many frames fit

VARIABLES
    queue,    \* committed frames, oldest first
    put,      \* the producer's call: <<status, frame>>
    got       \* the consumer's call: <<status, frame>>, no frame: << >>

vars == <<queue, put, got>>

Init == queue = << >> /\ put = <<"idle", << >> >> /\ got = <<"idle", << >> >>

BeginPut ==
    /\ put[1] # "busy"
    /\ \E f \in Frames : put' = <<"busy", f>>
    /\ UNCHANGED <<queue, got>>

Put ==
    /\ put[1] = "busy" /\ Len(queue) < Capacity
    /\ queue' = Append(queue, put[2])
    /\ put' = <<"done", put[2]>>
    /\ UNCHANGED got

RefusePut ==
    /\ put[1] = "busy" /\ Len(queue) = Capacity
    /\ put' = <<"full", put[2]>>
    /\ UNCHANGED <<queue, got>>

BeginGet ==
    /\ got[1] # "busy"
    /\ got' = <<"busy", << >> >>
    /\ UNCHANGED <<queue, put>>

Get ==
    /\ got[1] = "busy" /\ queue # << >>
    /\ got' = <<"done", Head(queue)>>
    /\ queue' = Tail(queue)
    /\ UNCHANGED put

RefuseGet ==
    /\ got[1] = "busy" /\ queue = << >>
    /\ got' = <<"empty", << >> >>
    /\ UNCHANGED <<queue, put>>

Next == BeginPut \/ Put \/ RefusePut \/ BeginGet \/ Get \/ RefuseGet

Spec == Init /\ [][Next]_vars
=============================================================================
