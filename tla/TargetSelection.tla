---------------------------- MODULE TargetSelection ----------------------------
(***************************************************************************)
(* What the detector makes of the boxes that the model finds in a frame:   *)
(* the one it selects, the best of each class, the messages it publishes   *)
(* and the boxes it highlights for browsers.                               *)
(*                                                                         *)
(* The order of two boxes has tolerances, so it is no order: of three      *)
(* boxes each may be better than the next.  What is selected then depends  *)
(* on the order in which the model lists them.                             *)
(***************************************************************************)
EXTENDS Integers, Sequences, FiniteSetsExt, SequencesExt

CONSTANTS
  Boxes,            \* the boxes a model may find: class, area, confidence, x
  BoxLimit,         \* bound: boxes in a frame
  TargetClassId,    \* target_class_id, -1 for any
  TargetClassName,  \* target_class_name, "" for any
  ClassNames,       \* the name of each class
  AreaSimilar,      \* area_similar_ratio, in hundredths
  ConfidenceSimilar \* confidence_similar_delta

Classes == {b.class : b \in Boxes}
NoBox == [class |-> -1, area |-> 0, conf |-> 0, x |-> 0]

ASSUME SelectionAssumption ==
  /\ Boxes \subseteq [class : Nat, area : Nat, conf : Nat, x : Nat]
  /\ BoxLimit \in Nat /\ TargetClassId \in Nat \cup {-1}
  /\ AreaSimilar \in Nat /\ ConfidenceSimilar \in Nat

VARIABLES
  publishPerClass,  \* the parameter publish_per_class
  point,            \* where _process_decoded_frame is
  boxes,            \* all_detections
  index,            \* of the box that is next
  best,             \* of _detect_targets
  bestByClass,      \* of _best_detection_per_class
  messages,         \* what is published for the frame
  highlighted       \* the boxes that browsers are told are selected

vars == <<publishPerClass, point, boxes, index, best, bestByClass, messages, highlighted>>

NoBoxes == [c \in Classes |-> NoBox]

Init ==
  /\ publishPerClass \in BOOLEAN
  /\ point = "idle" /\ boxes = <<>> /\ index = 1
  /\ best = NoBox /\ bestByClass = NoBoxes
  /\ messages = <<>> /\ highlighted = {}

----------------------------------------------------------------------------
ClassMatches(class) ==
  IF TargetClassId >= 0 THEN class = TargetClassId
  ELSE TargetClassName = "" \/ ClassNames[class] = TargetClassName

Apart(a, b, tolerance) == a - b > tolerance \/ b - a > tolerance

(* Areas that differ by no more than AreaSimilar hundredths of the larger  *)
(* are alike; so are confidences, and then the box on the right is better. *)
(* The variant takes a smaller area for a similar one.                     *)
Larger(a, b) == IF a > b THEN a ELSE b
AreaTolerance(a, b) == AreaSimilar * Larger(Larger(a, b), 1)

IsBetterSigned(candidate, current) ==
  IF 100 * (candidate.area - current.area) > AreaTolerance(candidate.area, current.area)
  THEN TRUE
  ELSE IF Apart(candidate.conf, current.conf, ConfidenceSimilar)
       THEN candidate.conf > current.conf ELSE candidate.x > current.x
IsBetterDetection(candidate, current) ==
  IF Apart(100 * candidate.area, 100 * current.area,
           AreaTolerance(candidate.area, current.area))
  THEN candidate.area > current.area
  ELSE IF Apart(candidate.conf, current.conf, ConfidenceSimilar)
       THEN candidate.conf > current.conf ELSE candidate.x > current.x

(* The variant turns the question round. *)
ReplacesWorse(box, current) ==
  ClassMatches(box.class) /\ (current = NoBox \/ IsBetterDetection(current, box))
Replaces(box, current) ==
  ClassMatches(box.class) /\ (current = NoBox \/ IsBetterDetection(box, current))

----------------------------------------------------------------------------
(* _detect_targets: the model's boxes, none if it has no result; then the  *)
(* loop over them.                                                         *)
Predict ==
  /\ point = "idle"
  /\ boxes' \in BoundedSeq(Boxes, BoxLimit)
  /\ point' = "detect"
  /\ UNCHANGED <<publishPerClass, index, best, bestByClass, messages, highlighted>>

SelectBox ==
  /\ point = "detect" /\ index <= Len(boxes)
  /\ best' = IF Replaces(boxes[index], best) THEN boxes[index] ELSE best
  /\ index' = index + 1
  /\ UNCHANGED <<publishPerClass, point, boxes, bestByClass, messages, highlighted>>

EndSelection ==
  /\ point = "detect" /\ index > Len(boxes)
  /\ point' = IF publishPerClass THEN "classes" ELSE "publish"
  /\ index' = 1
  /\ UNCHANGED <<publishPerClass, boxes, best, bestByClass, messages, highlighted>>

(* _best_detection_per_class. *)
SelectOfClass ==
  /\ point = "classes" /\ index <= Len(boxes)
  /\ LET box == boxes[index]
     IN  bestByClass' = [bestByClass EXCEPT ![box.class] = IF Replaces(box, @) THEN box ELSE @]
  /\ index' = index + 1
  /\ UNCHANGED <<publishPerClass, point, boxes, best, messages, highlighted>>

EndClasses ==
  /\ point = "classes" /\ index > Len(boxes)
  /\ point' = "publish"
  /\ UNCHANGED <<publishPerClass, boxes, index, best, bestByClass, messages, highlighted>>

(* One message for each class, in the order of their numbers, or the one   *)
(* selected; one that says so if there is none.                            *)
Found == {c \in Classes : bestByClass[c] # NoBox}
Place(c) == Cardinality({d \in Found : d <= c})
Detections ==
  IF publishPerClass
  THEN [k \in 1 .. Cardinality(Found) |->
          bestByClass[CHOOSE c \in Found : Place(c) = k]]
  ELSE IF best = NoBox THEN <<>> ELSE <<best>>
PublishDetections == messages' = IF Detections = <<>> THEN <<NoBox>> ELSE Detections

(* _display_detections compares the boxes by what the messages tell.       *)
Publish ==
  /\ point = "publish" /\ point' = "published"
  /\ PublishDetections
  /\ highlighted' = {i \in DOMAIN boxes : boxes[i] = best}
  /\ UNCHANGED <<publishPerClass, boxes, index, best, bestByClass>>

(* Nothing is left of a frame for the next. *)
Return ==
  /\ point = "published" /\ point' = "idle"
  /\ boxes' = <<>> /\ index' = 1
  /\ best' = NoBox /\ bestByClass' = NoBoxes
  /\ messages' = <<>> /\ highlighted' = {}
  /\ UNCHANGED publishPerClass

Next == Predict \/ SelectBox \/ EndSelection \/ SelectOfClass \/ EndClasses \/ Publish
        \/ Return

Spec == Init /\ [][Next]_vars

----------------------------------------------------------------------------
(* Properties. *)

(* Every variable holds a value of its kind. *)
TypeOK ==
  /\ publishPerClass \in BOOLEAN
  /\ point \in {"idle", "detect", "classes", "publish", "published"}
  /\ boxes \in Seq(Boxes) /\ index \in 1 .. Len(boxes) + 1
  /\ best \in Boxes \cup {NoBox} /\ bestByClass \in [Classes -> Boxes \cup {NoBox}]
  /\ messages \in Seq(Boxes \cup {NoBox}) /\ highlighted \subseteq DOMAIN boxes

Matching(i) == ClassMatches(boxes[i].class)
ClearWinner(i) ==
  /\ Matching(i)
  /\ \A j \in DOMAIN boxes \ {i} :
       Matching(j) => IsBetterDetection(boxes[i], boxes[j])

(* A box of a target class that is better than every other such box of the *)
(* frame is the one selected, wherever the model lists it                  *)
(* (_detect_targets, _is_better_detection).                                *)
ClearWinnerSelected ==
  \A i \in DOMAIN boxes : ClearWinner(i) =>
    /\ point = "detect" /\ index > i => best = boxes[i]
    /\ point \in {"classes", "publish"} => best = boxes[i]
    /\ point = "published" =>
         /\ i \in highlighted
         /\ \E k \in DOMAIN messages : messages[k] = boxes[i]

Seen == IF point = "detect" THEN 1 .. index - 1 ELSE DOMAIN boxes

(* The box selected is not beaten by one that the model lists after it:    *)
(* of boxes that beat each other in a circle, the last that won stays      *)
(* (_detect_targets).                                                      *)
NotBeatenLater ==
  \/ best = NoBox /\ \A i \in Seen : ~Matching(i)
  \/ \E i \in Seen :
       /\ best = boxes[i] /\ Matching(i)
       /\ \A j \in Seen : j > i /\ Matching(j) => ~IsBetterDetection(boxes[j], best)
=============================================================================
