---------------------------- MODULE CaptureStager ----------------------------
(***************************************************************************)
(* The stager that turns WASAPI capture packets into fixed periods         *)
(* (internal/wasapi/capture_windows.go): the endpoint hands out packets of *)
(* one frame to a whole buffer, the callback takes periods.  Data is       *)
(* abstracted to where it comes from: a frame is its device position,      *)
(* counted modulo Positions.  The QPC timestamp of a packet is valid       *)
(* exactly when its device position is and moves with it; it is left out.  *)
(*                                                                         *)
(* The operators are pure: a stager is a record, an operation maps it to   *)
(* the next one.                                                           *)
(***************************************************************************)
EXTENDS Naturals, Sequences

CONSTANTS
    Period,         \* frames of a callback period
    BufferFrames,   \* frames of the endpoint buffer, and of the largest packet
    Positions       \* device positions are counted modulo this bound

ASSUME StagerAssumption ==
    /\ Period \in Nat \ {0}
    /\ BufferFrames \in Nat \ {0}
    /\ Positions \in Nat /\ Positions > 2

Capacity == BufferFrames + Period

(* A position nobody knows: the field is there, its validity flag is not.  *)
Unknown == Positions

Position == 0 .. Positions - 1
Advance(position, n) ==
    IF position = Unknown THEN Unknown ELSE (position + n) % Positions

Packet(first, frames, flagged, stamped) ==
    [content |-> [i \in 1 .. frames |-> Advance(first, i - 1)],
     flagged |-> flagged,
     position |-> IF stamped THEN first ELSE Unknown]

NewStager ==
    [stage |-> <<>>, at |-> Unknown,              \* staged frames, position of the first
     ready |-> FALSE, active |-> Unknown,         \* a period is up, its position
     expected |-> Unknown, havePacket |-> FALSE,  \* what the next packet should start with
     dropouts |-> 0]                              \* counted modulo 2: only its changes matter

Frames == Seq(Position)
Places == Position \cup {Unknown}
Stager == [stage : Frames, at : Places, ready : BOOLEAN, active : Places,
           expected : Places, havePacket : BOOLEAN, dropouts : 0 .. 1]

ResetStage(s) ==
    [s EXCEPT !.stage = <<>>, !.at = Unknown, !.ready = FALSE, !.active = Unknown]

(* Recover: the stage and every expectation go, the count stays.           *)
Reset(s) == [ResetStage(s) EXCEPT !.expected = Unknown, !.havePacket = FALSE]

CountDropout(s) == [ResetStage(s) EXCEPT !.dropouts = (@ + 1) % 2, !.expected = Unknown]

(* The first packet after Start or Recover may carry the discontinuity     *)
(* flag without having lost anything.                                      *)
Discontinuity(s, p) ==
    \/ s.havePacket /\ p.flagged
    \/ p.position # Unknown /\ s.expected # Unknown /\ p.position # s.expected

Overflows(s, p) == Len(s.stage) + Len(p.content) > Capacity

Stage(s, p) ==
    [s EXCEPT !.stage = @ \o p.content,
              !.at = IF s.stage = <<>> THEN p.position ELSE @,
              !.expected = Advance(p.position, Len(p.content)),
              !.havePacket = TRUE]

(* appendPacket.  No packet is larger than the endpoint buffer, so the     *)
(* refusal of one larger than the whole stage is left out.                 *)
AppendPacket(s, p) ==
    LET aligned == IF Discontinuity(s, p) THEN CountDropout(s) ELSE s
        fitting == IF Overflows(aligned, p) THEN CountDropout(aligned) ELSE aligned
    IN  Stage(fitting, p)

(* preparePeriod: a period is shown when the stage holds one; a period     *)
(* already shown stays.                                                    *)
PreparePeriod(s) ==
    IF s.ready \/ Len(s.stage) < Period THEN s
    ELSE [s EXCEPT !.ready = TRUE, !.active = s.at]

X_CommitForgetsPosition(s) ==
    LET rest == SubSeq(s.stage, Period + 1, Len(s.stage))
    IN  [s EXCEPT !.stage = rest, !.ready = FALSE, !.active = Unknown]

CommitPeriod(s) ==
    LET rest == SubSeq(s.stage, Period + 1, Len(s.stage))
    IN  [s EXCEPT !.stage = rest,
                  !.at = IF rest = <<>> THEN Unknown ELSE Advance(@, Period),
                  !.ready = FALSE, !.active = Unknown]

(* The period the callback is given while the stager is ready.             *)
Input(s) == SubSeq(s.stage, 1, Period)
=============================================================================
