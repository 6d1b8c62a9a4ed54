----------------------------- MODULE FrameRingLen ---------------------------
(***************************************************************************)
(* FrameRing.Len, which loads head and then tail, called while the ring is *)
(* in use: by the goroutine of one side, between its own calls.  For a     *)
(* goroutine that is neither, LenWasHeld does not hold.                    *)
(***************************************************************************)
EXTENDS FrameRing

CONSTANT Observers  \* which goroutines call Len

ASSUME ObserversAssumption == Observers \subseteq {"producer", "consumer", "other"}

VARIABLES
    caller,         \* the goroutine inside Len, or "none"
    oHead,          \* the head it has loaded
    len,            \* what its last Len returned
    lens            \* history: the lengths the ring has had during this Len

lenVars == <<caller, oHead, len, lens>>

LenInit == Init /\ caller = "none" /\ oHead = 0 /\ len = 0 /\ lens = {0}

\* A side calls Len between its own calls.
LenLoadHead ==
    /\ caller = "none"
    /\ caller' \in Observers
    /\ caller' = "producer" => Status(wpc) # "busy"
    /\ caller' = "consumer" => Status(rpc) # "busy"
    /\ oHead' = head
    /\ lens' = {Used(head, tail)}
    /\ UNCHANGED <<vars, len>>

\* The load of tail, and the clamp to the number of slots.
Clamp_Below(used) == IF used >= Slots THEN Slots - 1 ELSE used
Clamp(used) == IF used > Slots THEN Slots ELSE used

LenLoadTail ==
    /\ caller # "none"
    /\ len' = Clamp(Used(oHead, tail))
    /\ caller' = "none"
    /\ UNCHANGED <<vars, oHead, lens>>

\* A step of the ring, by a side that is not inside Len.
RingStep ==
    /\ \/ Producer /\ caller # "producer"
       \/ Consumer /\ caller # "consumer"
    /\ lens' = IF caller = "none" THEN lens ELSE lens \cup {Used(head', tail')}
    /\ UNCHANGED <<caller, oHead, len>>

LenNext == LenLoadHead \/ LenLoadTail \/ RingStep

LenSpec == LenInit /\ [][LenNext]_<<vars, lenVars>>

\* "Len returns the number of committed frames currently in the ring"
\* (ring/frame.go:136): the number is one the ring held at some moment of the
\* call.
LenWasHeld == caller = "none" => len \in lens
=============================================================================
