---------------------------- MODULE BuoyTracker ----------------------------
(***************************************************************************)
(* The single buoy track of the controller: which box of a message is      *)
(* taken, when a track counts as recent or confirmed, and how a new box    *)
(* updates or replaces it.                                                 *)
(*                                                                         *)
(* A box is its area class, its confidence class and the image cell of its *)
(* centre (one axis stands for both: the code treats them alike).  The     *)
(* track adds the number of hits, capped at the number that confirms, and  *)
(* the time since the last one, capped just past the detection timeout.    *)
(***************************************************************************)
EXTENDS Integers

CONSTANTS
  Detections,            \* the boxes a message may carry
  LargestArea,           \* the area class of a box as large as the image
  DetectionTimeout,      \* detection_timeout_sec
  TargetConfirmHits,     \* target_confirm_hits
  SimilarConfidence,     \* buoy_confidence_similar_delta
  SameTargetCells        \* buoy_same_target_center_ratio

Detection == [area : Nat, conf : Nat, cell : Nat]

ASSUME TrackerAssumption ==
  /\ Detections \subseteq Detection
  /\ LargestArea \in Nat /\ \A d \in Detections : d.area <= LargestArea
  /\ DetectionTimeout \in Nat
  /\ TargetConfirmHits \in Nat \ {0}
  /\ SimilarConfidence \in Nat /\ SameTargetCells \in Nat

Track == [area : Nat, conf : Nat, cell : Nat,
          hits : 0 .. TargetConfirmHits, age : 0 .. DetectionTimeout + 1]

(* The empty optional: never recent. *)
NoBuoy == [area |-> 0, conf |-> 0, cell |-> 0,
           hits |-> 0, age |-> DetectionTimeout + 1]

Recent(b) == b.age <= DetectionTimeout
Confirmed(b) == Recent(b) /\ b.hits >= TargetConfirmHits

Abs(n) == IF n < 0 THEN -n ELSE n
SameBuoyTarget(a, b) == Abs(a.cell - b.cell) <= SameTargetCells

(* Area first, then a clear lead in confidence, then the one further       *)
(* right.  The variant looks at the confidence first.                      *)
IsBetterByConfidence(a, b) ==
  \/ a.conf > b.conf + SimilarConfidence
  \/ Abs(a.conf - b.conf) <= SimilarConfidence /\ a.area > b.area

IsBetterBuoy(a, b) ==
  \/ a.area > b.area
  \/ /\ a.area = b.area
     /\ IF Abs(a.conf - b.conf) > SimilarConfidence THEN a.conf > b.conf
                                                    ELSE a.cell > b.cell

(* The low-pass filter ends anywhere from the old value to the sample. *)
LowPass(previous, sample) == (previous .. sample) \cup (sample .. previous)

(* Width and height are filtered apart: a narrow box and a flat one may    *)
(* make a larger one, but no two a smaller.                                *)
FilteredArea(previous, sample) ==
  (IF previous <= sample THEN previous ELSE sample) .. LargestArea

FreshTrack(d) ==
  [area |-> d.area, conf |-> d.conf, cell |-> d.cell, hits |-> 1, age |-> 0]

Updated(b, d) ==
  {[area |-> a, conf |-> d.conf, cell |-> c,
    hits |-> IF b.hits < TargetConfirmHits THEN b.hits + 1 ELSE b.hits,
    age |-> 0] : a \in FilteredArea(b.area, d.area), c \in LowPass(b.cell, d.cell)}

(* accept_buoy_detection: an expired track gives way to any box, a box of  *)
(* the tracked target updates it, and while the controller is selecting a  *)
(* better box takes its place.                                             *)
Replaces(b, d, selecting) ==
  \/ ~Recent(b)
  \/ ~SameBuoyTarget(d, b) /\ selecting /\ IsBetterBuoy(d, b)

AcceptedTracks(b, d, selecting) ==
  IF Replaces(b, d, selecting) THEN {FreshTrack(d)}
  ELSE IF SameBuoyTarget(d, b) THEN Updated(b, d)
  ELSE {b}
============================================================================
