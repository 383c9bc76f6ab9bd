------------------------- MODULE TargetSelectionProofs -------------------------
(***************************************************************************)
(* What the two loops over the boxes select and what is published of it,   *)
(* for every model, frame and tolerance.  The comparison is no order: the  *)
(* argument uses only that two boxes never beat each other.                *)
(***************************************************************************)
EXTENDS TargetSelection, FiniteSetTheorems, TLAPS

(* Two boxes do not beat each other (_is_better_detection). *)
LEMMA BetterIsAsymmetric ==
  ASSUME NEW a \in Boxes, NEW b \in Boxes, IsBetterDetection(a, b)
  PROVE  ~IsBetterDetection(b, a)
  <1>1. /\ a.area \in Nat /\ a.conf \in Nat /\ a.x \in Nat
        /\ b.area \in Nat /\ b.conf \in Nat /\ b.x \in Nat
    BY SelectionAssumption
  <1>2. AreaTolerance(a.area, b.area) = AreaTolerance(b.area, a.area)
    BY <1>1 DEF AreaTolerance, Larger
  <1>3. Apart(100 * a.area, 100 * b.area, AreaTolerance(a.area, b.area))
          <=> Apart(100 * b.area, 100 * a.area, AreaTolerance(b.area, a.area))
    BY <1>2 DEF Apart
  <1>4. Apart(a.conf, b.conf, ConfidenceSimilar) <=> Apart(b.conf, a.conf, ConfidenceSimilar)
    BY DEF Apart
  <1> QED BY <1>1, <1>3, <1>4 DEF IsBetterDetection

(* A frame is a sequence of boxes. *)
LEMMA FramesAreSequences == BoundedSeq(Boxes, BoxLimit) \subseteq Seq(Boxes)
  BY SelectionAssumption DEF BoundedSeq, SeqOf

(* Where the loop is, and the best of what it has seen. *)
Selected(i) == ClearWinner(i) /\ i \in Seen => best = boxes[i]

LoopInv ==
  /\ boxes \in Seq(Boxes) /\ index \in Nat \ {0}
  /\ point \in {"idle", "detect", "classes", "publish", "published"}
  /\ best \in Boxes \cup {NoBox}
  /\ point = "idle" => boxes = <<>> /\ best = NoBox /\ index = 1
  /\ point = "detect" => index <= Len(boxes) + 1
  /\ NotBeatenLater
  /\ \A i \in DOMAIN boxes : Selected(i)

(* Initially nothing has been seen. *)
LEMMA LoopInit == Init => LoopInv
  BY DEF Init, LoopInv, NotBeatenLater, Seen, Selected

(* One more box is seen: it replaces the best or it does not beat it       *)
(* (_detect_targets).                                                      *)
LEMMA SelectBoxStep ==
  ASSUME LoopInv, SelectBox
  PROVE  LoopInv'
  <1>1. /\ point = "detect" /\ index <= Len(boxes) /\ point' = point /\ boxes' = boxes
        /\ best' = IF Replaces(boxes[index], best) THEN boxes[index] ELSE best
        /\ index' = index + 1
    BY DEF SelectBox
  <1>2. /\ boxes \in Seq(Boxes) /\ Len(boxes) \in Nat /\ DOMAIN boxes = 1 .. Len(boxes)
        /\ index \in DOMAIN boxes /\ \A i \in DOMAIN boxes : boxes[i] \in Boxes
    BY <1>1 DEF LoopInv
  <1>3. Seen = 1 .. index - 1 /\ Seen' = 1 .. index /\ Seen \subseteq DOMAIN boxes
    BY <1>1, <1>2 DEF Seen
  <1>4. Replaces(boxes[index], best)
          <=> Matching(index) /\ (best = NoBox \/ IsBetterDetection(boxes[index], best))
    BY DEF Replaces, Matching
  <1>5. \A i : Matching(i)' <=> Matching(i)
    BY <1>1 DEF Matching
  <1>6. NotBeatenLater'
    <2>1. CASE Replaces(boxes[index], best)
      <3>1. PICK k \in Seen' : k = index
        BY <1>2, <1>3
      <3>2. best' = boxes'[k]
        BY <1>1, <2>1, <3>1
      <3>3. Matching(k)'
        BY <1>4, <1>5, <2>1, <3>1
      <3>4. \A j \in Seen' : ~(j > k)
        BY <1>2, <1>3, <3>1
      <3> QED BY <3>2, <3>3, <3>4 DEF NotBeatenLater
    <2>2. CASE ~Replaces(boxes[index], best)
      <3>1. best' = best
        BY <1>1, <2>2
      <3>2. CASE best = NoBox /\ \A i \in Seen : ~Matching(i)
        <4>1. \A i \in Seen' : ~Matching(i)'
          BY <1>2, <1>3, <1>4, <1>5, <2>2, <3>2
        <4> QED BY <3>1, <3>2, <4>1 DEF NotBeatenLater
      <3>3. ASSUME NEW i \in Seen, best = boxes[i], Matching(i),
                   \A j \in Seen : j > i /\ Matching(j) => ~IsBetterDetection(boxes[j], best)
            PROVE  NotBeatenLater'
        <4>1. i \in Seen' /\ best' = boxes'[i] /\ Matching(i)'
          BY <1>1, <1>2, <1>3, <1>5, <3>1, <3>3
        <4>2. \A j \in Seen' : j > i /\ Matching(j)' => ~IsBetterDetection(boxes'[j], best')
          BY <1>1, <1>2, <1>3, <1>4, <1>5, <2>2, <3>1, <3>3
        <4> QED BY <4>1, <4>2 DEF NotBeatenLater
      <3> QED BY <3>2, <3>3 DEF LoopInv, NotBeatenLater
    <2> QED BY <2>1, <2>2
  <1>7. ASSUME NEW i \in DOMAIN boxes, ClearWinner(i), i \in Seen'
        PROVE  best' = boxes[i]
    <2>1. CASE i = index
      <3>1. Matching(index)
        BY <1>7, <2>1 DEF ClearWinner
      <3>2. best # NoBox => IsBetterDetection(boxes[index], best)
        <4> SUFFICES ASSUME best # NoBox PROVE IsBetterDetection(boxes[index], best)
          OBVIOUS
        <4>1. PICK k \in Seen : best = boxes[k] /\ Matching(k)
          BY DEF LoopInv, NotBeatenLater
        <4>2. k \in DOMAIN boxes \ {index}
          BY <1>2, <1>3
        <4> QED BY <1>7, <2>1, <4>1, <4>2 DEF ClearWinner
      <3> QED BY <1>1, <1>4, <2>1, <3>1, <3>2
    <2>2. CASE i # index
      <3>1. best = boxes[i]
        BY <1>2, <1>3, <1>7, <2>2 DEF LoopInv, Selected
      <3>2. Matching(index) => IsBetterDetection(boxes[i], boxes[index])
        BY <1>2, <1>7, <2>2 DEF ClearWinner
      <3>3. ~(Matching(index) /\ IsBetterDetection(boxes[index], best))
        BY <1>2, <1>7, <3>1, <3>2, BetterIsAsymmetric
      <3>4. best # NoBox
        BY <1>2, <1>7, <3>1, SelectionAssumption DEF NoBox
      <3> QED BY <1>1, <1>4, <3>1, <3>3, <3>4
    <2> QED BY <2>1, <2>2
  <1>8. \A i \in DOMAIN boxes' : Selected(i)'
    <2>1. \A i : ClearWinner(i)' <=> ClearWinner(i)
      BY <1>1, <1>5 DEF ClearWinner
    <2> QED BY <1>1, <1>7, <2>1 DEF Selected
  <1> QED BY <1>1, <1>2, <1>6, <1>8 DEF LoopInv

(* After the loop nothing touches the frame or the best until it is over. *)
LEMMA LoopKept ==
  ASSUME LoopInv, UNCHANGED <<boxes, best>>, index' \in Nat \ {0},
         point' \in {"classes", "publish", "published"},
         point = "detect" => index > Len(boxes), point # "idle"
  PROVE  LoopInv'
  <1>1. Seen' = Seen
    BY DEF Seen, LoopInv
  <1>2. \A i : (Matching(i)' <=> Matching(i)) /\ (ClearWinner(i)' <=> ClearWinner(i))
    BY DEF Matching, ClearWinner
  <1>3. NotBeatenLater'
    BY <1>1, <1>2 DEF LoopInv, NotBeatenLater
  <1>4. \A i \in DOMAIN boxes' : Selected(i)'
    BY <1>1, <1>2 DEF LoopInv, Selected
  <1> QED BY <1>3, <1>4 DEF LoopInv

(* Every step. *)
LEMMA LoopStep == LoopInv /\ [Next]_vars => LoopInv'
  <1> SUFFICES ASSUME LoopInv, [Next]_vars PROVE LoopInv'
    OBVIOUS
  <1>1. CASE Predict
    <2>1. /\ boxes' \in Seq(Boxes) /\ point' = "detect" /\ index' = 1 /\ best' = NoBox
      BY <1>1, FramesAreSequences DEF Predict, LoopInv
    <2>2. Seen' = {}
      BY <2>1 DEF Seen
    <2> QED BY <2>1, <2>2 DEF LoopInv, NotBeatenLater, Selected
  <1>2. CASE SelectBox
    BY <1>2, SelectBoxStep
  <1>3. CASE EndSelection
    BY <1>3, LoopKept DEF EndSelection
  <1>4. CASE SelectOfClass
    BY <1>4, LoopKept DEF SelectOfClass, LoopInv
  <1>5. CASE EndClasses \/ Publish
    BY <1>5, LoopKept DEF EndClasses, Publish, LoopInv
  <1>6. CASE Return
    <2>1. /\ boxes' = <<>> /\ point' = "idle" /\ index' = 1 /\ best' = NoBox
      BY <1>6 DEF Return
    <2>2. Seen' = {} /\ <<>> \in Seq(Boxes)
      BY <2>1 DEF Seen
    <2> QED BY <2>1, <2>2 DEF LoopInv, NotBeatenLater, Selected
  <1>7. CASE UNCHANGED vars
    <2>1. Seen' = Seen /\ \A i : (Matching(i)' <=> Matching(i))
                                 /\ (ClearWinner(i)' <=> ClearWinner(i))
      BY <1>7 DEF vars, Seen, Matching, ClearWinner
    <2> QED BY <1>7, <2>1 DEF vars, LoopInv, NotBeatenLater, Selected
  <1> QED BY <1>1, <1>2, <1>3, <1>4, <1>5, <1>6, <1>7 DEF Next

(* The box selected is not beaten by a later one, whatever the model and   *)
(* the tolerances (_detect_targets).                                       *)
THEOREM NotBeatenLaterHolds == Spec => []NotBeatenLater
  <1>1. LoopInv => NotBeatenLater
    BY DEF LoopInv
  <1> QED BY <1>1, LoopInit, LoopStep, PTL DEF Spec

----------------------------------------------------------------------------
(* The second loop, over the classes, and what is published. *)

(* Of a finite set of numbers each has a place, and no two share it.       *)
LEMMA PlacesDiffer ==
  ASSUME NEW S \in SUBSET Nat, IsFiniteSet(S), NEW c \in S
  PROVE  /\ Cardinality({n \in S : n <= c}) \in 1 .. Cardinality(S)
         /\ \A d \in S : Cardinality({n \in S : n <= d}) = Cardinality({n \in S : n <= c})
                        => d = c
  <1> DEFINE upto(m) == {n \in S : n <= m}
  <1>1. \A m : /\ upto(m) \in SUBSET S /\ IsFiniteSet(upto(m))
              /\ Cardinality(upto(m)) \in Nat
              /\ Cardinality(upto(m)) <= Cardinality(S)
    <2> TAKE m
    <2>1. upto(m) \in SUBSET S
      OBVIOUS
    <2> HIDE DEF upto
    <2> QED BY <2>1, FS_Subset, FS_CardinalityType
  <1>2. Cardinality(S) \in Nat
    BY FS_CardinalityType
  <1>3. c \in upto(c) /\ Cardinality(upto(c)) # 0
    <2>1. c \in upto(c)
      OBVIOUS
    <2> HIDE DEF upto
    <2> QED BY <1>1, <2>1, FS_EmptySet
  <1>4. ASSUME NEW a \in S, NEW b \in S, a < b
        PROVE  Cardinality(upto(a)) # Cardinality(upto(b))
    <2>1. a \in Nat /\ b \in Nat /\ \A n \in S : n \in Nat /\ (n <= a => n <= b)
      BY <1>4
    <2>2. upto(a) \in SUBSET upto(b)
      BY <2>1
    <2>3. b \in upto(b) /\ b \notin upto(a)
      BY <1>4, <2>1
    <2> HIDE DEF upto
    <2> QED BY <1>1, <2>2, <2>3, FS_Subset
  <1>5. ASSUME NEW d \in S, Cardinality(upto(d)) = Cardinality(upto(c))
        PROVE  d = c
    <2>1. ~(d < c) /\ ~(c < d)
      BY <1>4, <1>5
    <2> QED BY <2>1
  <1> HIDE DEF upto
  <1>6. Cardinality(upto(c)) \in 1 .. Cardinality(S)
    BY <1>1, <1>2, <1>3
  <1> QED BY <1>5, <1>6 DEF upto

(* What the loop over the classes has seen, and what the best of a class   *)
(* is of it: a box that was seen, of a target class; the clear winner, if  *)
(* that was seen.                                                          *)
ClassSeen ==
  IF point = "classes" THEN 1 .. index - 1
  ELSE IF publishPerClass /\ point \in {"publish", "published"} THEN DOMAIN boxes ELSE {}

FromClass(c) ==
  bestByClass[c] # NoBox =>
    \E k \in ClassSeen : bestByClass[c] = boxes[k] /\ boxes[k].class = c /\ Matching(k)

BestOfClass(i) == ClearWinner(i) /\ i \in ClassSeen => bestByClass[boxes[i].class] = boxes[i]

ClassInv ==
  /\ publishPerClass \in BOOLEAN
  /\ bestByClass \in [Classes -> Boxes \cup {NoBox}]
  /\ point = "classes" => publishPerClass /\ index <= Len(boxes) + 1
  /\ \A c \in Classes : FromClass(c)
  /\ \A i \in DOMAIN boxes : BestOfClass(i)
  /\ point = "published" => /\ highlighted = {i \in DOMAIN boxes : boxes[i] = best}
                           /\ messages = IF Detections = <<>> THEN <<NoBox>> ELSE Detections

(* Initially no class has a best box. *)
LEMMA ClassInit == Init => ClassInv
  <1>1. NoBoxes \in [Classes -> Boxes \cup {NoBox}]
    BY DEF NoBoxes
  <1>2. \A c \in Classes : NoBoxes[c] = NoBox
    BY DEF NoBoxes
  <1> QED BY <1>1, <1>2 DEF Init, ClassInv, FromClass, BestOfClass, ClassSeen

(* A box is seen by the loop over the classes: it replaces the best of its *)
(* class or it does not beat it (_best_detection_per_class).               *)
LEMMA SelectOfClassStep ==
  ASSUME LoopInv, ClassInv, SelectOfClass
  PROVE  ClassInv'
  <1> DEFINE box == boxes[index]
  <1>1. /\ point = "classes" /\ index <= Len(boxes) /\ point' = point /\ boxes' = boxes
        /\ bestByClass' = [bestByClass EXCEPT ![box.class] =
                             IF Replaces(box, bestByClass[box.class])
                             THEN box ELSE bestByClass[box.class]]
        /\ index' = index + 1 /\ publishPerClass' = publishPerClass
    BY DEF SelectOfClass
  <1>2. /\ boxes \in Seq(Boxes) /\ Len(boxes) \in Nat /\ DOMAIN boxes = 1 .. Len(boxes)
        /\ index \in DOMAIN boxes /\ \A i \in DOMAIN boxes : boxes[i] \in Boxes
    BY <1>1 DEF LoopInv
  <1>3. ClassSeen = 1 .. index - 1 /\ ClassSeen' = 1 .. index /\ ClassSeen \subseteq DOMAIN boxes
    BY <1>1, <1>2 DEF ClassSeen
  <1>4. \A i \in DOMAIN boxes : boxes[i].class \in Classes
    BY <1>2 DEF Classes
  <1>5. \A i : (Matching(i)' <=> Matching(i)) /\ (ClearWinner(i)' <=> ClearWinner(i))
    BY <1>1 DEF Matching, ClearWinner
  <1>6. /\ bestByClass \in [Classes -> Boxes \cup {NoBox}] /\ box \in Boxes
        /\ box.class \in Classes
    BY <1>2, <1>4 DEF ClassInv
  <1>7. /\ bestByClass' \in [Classes -> Boxes \cup {NoBox}]
        /\ \A c \in Classes \ {box.class} : bestByClass'[c] = bestByClass[c]
        /\ bestByClass'[box.class] = IF Replaces(box, bestByClass[box.class])
                                    THEN box ELSE bestByClass[box.class]
    BY <1>1, <1>6
  <1>8. ASSUME NEW c \in Classes
        PROVE  FromClass(c)'
    <2>1. CASE c = box.class /\ Replaces(box, bestByClass[c])
      <3>1. Matching(index)
        BY <2>1 DEF Replaces, Matching
      <3>2. PICK k \in ClassSeen' : k = index
        BY <1>2, <1>3
      <3>3. bestByClass'[c] = boxes'[k] /\ boxes'[k].class = c /\ Matching(k)'
        BY <1>1, <1>5, <1>7, <2>1, <3>1, <3>2
      <3> QED BY <3>3 DEF FromClass
    <2>2. CASE ~(c = box.class /\ Replaces(box, bestByClass[c]))
      <3>1. bestByClass'[c] = bestByClass[c]
        BY <1>7, <2>2
      <3>2. FromClass(c) /\ ClassSeen \subseteq ClassSeen'
        BY <1>2, <1>3 DEF ClassInv
      <3>3. ASSUME NEW k \in ClassSeen, bestByClass[c] = boxes[k], boxes[k].class = c,
                   Matching(k)
            PROVE  FromClass(c)'
        <4>1. k \in ClassSeen' /\ bestByClass'[c] = boxes'[k] /\ boxes'[k].class = c
              /\ Matching(k)'
          BY <1>1, <1>5, <3>1, <3>2, <3>3
        <4> QED BY <4>1 DEF FromClass
      <3>4. CASE bestByClass[c] = NoBox
        BY <3>1, <3>4 DEF FromClass
      <3> QED BY <3>2, <3>3, <3>4 DEF FromClass
    <2> QED BY <2>1, <2>2
  <1>9. ASSUME NEW i \in DOMAIN boxes, ClearWinner(i), i \in ClassSeen'
        PROVE  bestByClass'[boxes[i].class] = boxes[i]
    <2> DEFINE c == boxes[i].class
               current == bestByClass[c]
    <2>1. c \in Classes
      BY <1>4
    <2>2. CASE i = index
      <3>1. Matching(index)
        BY <1>9, <2>2 DEF ClearWinner
      <3>2. current # NoBox => IsBetterDetection(box, current)
        <4> SUFFICES ASSUME current # NoBox PROVE IsBetterDetection(box, current)
          OBVIOUS
        <4>1. PICK k \in ClassSeen : current = boxes[k] /\ Matching(k)
          BY <2>1 DEF ClassInv, FromClass
        <4>2. k \in DOMAIN boxes \ {index}
          BY <1>2, <1>3
        <4> QED BY <1>9, <2>2, <4>1, <4>2 DEF ClearWinner
      <3>3. Replaces(box, current)
        BY <2>2, <3>1, <3>2 DEF Replaces, Matching
      <3> QED BY <1>7, <2>2, <3>3
    <2>3. CASE i # index
      <3>1. current = boxes[i]
        BY <1>2, <1>3, <1>9, <2>3 DEF ClassInv, BestOfClass
      <3>2. Matching(index) => IsBetterDetection(boxes[i], box)
        BY <1>2, <1>9, <2>3 DEF ClearWinner
      <3>3. current # NoBox
        BY <1>2, <1>9, <3>1, SelectionAssumption DEF NoBox
      <3>4. ~Replaces(box, current)
        BY <1>2, <1>9, <3>1, <3>2, <3>3, BetterIsAsymmetric DEF Replaces, Matching
      <3> QED BY <1>7, <2>1, <3>1, <3>4
    <2> QED BY <2>2, <2>3
  <1>10. \A i \in DOMAIN boxes' : BestOfClass(i)'
    BY <1>1, <1>5, <1>9 DEF BestOfClass
  <1> QED BY <1>1, <1>2, <1>7, <1>8, <1>10 DEF ClassInv

(* A step that leaves the classes' bests and what was seen of the frame    *)
(* alone.                                                                  *)
LEMMA ClassesKept ==
  ASSUME ClassInv, UNCHANGED <<publishPerClass, boxes, bestByClass>>,
         ClassSeen' = ClassSeen,
         point' = "classes" => publishPerClass /\ index' <= Len(boxes) + 1,
         point' = "published" => /\ highlighted' = {i \in DOMAIN boxes : boxes[i] = best'}
                                 /\ messages' = (IF Detections = <<>> THEN <<NoBox>> ELSE Detections)'
  PROVE  ClassInv'
  <1>1. \A i : (Matching(i)' <=> Matching(i)) /\ (ClearWinner(i)' <=> ClearWinner(i))
    BY DEF Matching, ClearWinner
  <1>2. \A c \in Classes : FromClass(c)'
    BY <1>1 DEF ClassInv, FromClass
  <1>3. \A i \in DOMAIN boxes' : BestOfClass(i)'
    BY <1>1 DEF ClassInv, BestOfClass
  <1> QED BY <1>2, <1>3 DEF ClassInv

(* A step that begins or ends a frame: nothing was seen of it.             *)
LEMMA ClassesNew ==
  ASSUME publishPerClass' \in BOOLEAN, bestByClass' = NoBoxes,
         point' \in {"idle", "detect"}
  PROVE  ClassInv'
  <1>1. NoBoxes \in [Classes -> Boxes \cup {NoBox}] /\ \A c \in Classes : NoBoxes[c] = NoBox
    BY DEF NoBoxes
  <1>2. ClassSeen' = {}
    BY DEF ClassSeen
  <1> QED BY <1>1, <1>2 DEF ClassInv, FromClass, BestOfClass

(* Every step.                                                             *)
LEMMA ClassStep == LoopInv /\ ClassInv /\ [Next]_vars => ClassInv'
  <1> SUFFICES ASSUME LoopInv, ClassInv, [Next]_vars PROVE ClassInv'
    OBVIOUS
  <1>1. CASE Predict \/ SelectBox
    <2>1. point \in {"idle", "detect"} /\ point' = "detect"
          /\ publishPerClass' = publishPerClass /\ bestByClass' = bestByClass
      BY <1>1 DEF Predict, SelectBox
    <2>2. ClassSeen = {}
      BY <2>1 DEF ClassSeen
    <2>3. bestByClass = NoBoxes
      BY <2>2 DEF ClassInv, FromClass, NoBoxes
    <2> QED BY <2>1, <2>3, ClassesNew DEF ClassInv
  <1>2. CASE EndSelection
    <2>1. /\ point = "detect" /\ index' = 1 /\ UNCHANGED <<publishPerClass, boxes, bestByClass>>
          /\ point' = IF publishPerClass THEN "classes" ELSE "publish"
      BY <1>2 DEF EndSelection
    <2>2. ClassSeen = {} /\ ClassSeen' = {}
      BY <2>1 DEF ClassSeen
    <2>3. Len(boxes) \in Nat /\ publishPerClass \in BOOLEAN
      BY DEF LoopInv, ClassInv
    <2> QED BY <2>1, <2>2, <2>3, ClassesKept
  <1>3. CASE SelectOfClass
    BY <1>3, SelectOfClassStep
  <1>4. CASE EndClasses
    <2>1. /\ point = "classes" /\ point' = "publish" /\ index > Len(boxes)
          /\ UNCHANGED <<publishPerClass, boxes, bestByClass, index>>
      BY <1>4 DEF EndClasses
    <2>2. /\ index \in Nat /\ Len(boxes) \in Nat /\ DOMAIN boxes = 1 .. Len(boxes)
          /\ index <= Len(boxes) + 1 /\ publishPerClass
      BY <2>1 DEF LoopInv, ClassInv
    <2>3. ClassSeen' = ClassSeen
      BY <2>1, <2>2 DEF ClassSeen
    <2> QED BY <2>1, <2>3, ClassesKept
  <1>5. CASE Publish
    <2>1. /\ point = "publish" /\ point' = "published" /\ PublishDetections
          /\ highlighted' = {i \in DOMAIN boxes : boxes[i] = best}
          /\ UNCHANGED <<publishPerClass, boxes, index, best, bestByClass>>
      BY <1>5 DEF Publish
    <2>2. ClassSeen' = ClassSeen
      BY <2>1 DEF ClassSeen
    <2>3. Detections' = Detections
      BY <2>1 DEF Detections, Found, Place
    <2> QED BY <2>1, <2>2, <2>3, ClassesKept DEF PublishDetections
  <1>6. CASE Return
    BY <1>6, ClassesNew DEF Return, ClassInv
  <1>7. CASE UNCHANGED vars
    <2>1. /\ UNCHANGED <<publishPerClass, point, boxes, index, best, bestByClass>>
          /\ UNCHANGED <<messages, highlighted>>
      BY <1>7 DEF vars
    <2>2. ClassSeen' = ClassSeen
      BY <2>1 DEF ClassSeen
    <2>3. Detections' = Detections
      BY <2>1 DEF Detections, Found, Place
    <2> QED BY <2>1, <2>2, <2>3, ClassesKept DEF ClassInv
  <1> QED BY <1>1, <1>2, <1>3, <1>4, <1>5, <1>6, <1>7 DEF Next

(* The classes found are those of boxes of the frame, so they are finite   *)
(* in number (_best_detection_per_class).                                  *)
LEMMA FoundFinite ==
  ASSUME LoopInv, ClassInv
  PROVE  IsFiniteSet(Found) /\ Found \in SUBSET Nat
  <1> DEFINE classOf == [i \in 1 .. Len(boxes) |-> boxes[i].class]
             ofFrame == {boxes[i].class : i \in 1 .. Len(boxes)}
  <1>1. IsFiniteSet(1 .. Len(boxes))
    BY FS_Interval DEF LoopInv
  <1>2. IsFiniteSet(ofFrame)
    <2>1. classOf \in Surjection(1 .. Len(boxes), ofFrame)
      BY DEF Surjection
    <2> HIDE DEF ofFrame
    <2> QED BY <1>1, <2>1, FS_Surjection
  <1>3. ClassSeen \subseteq 1 .. Len(boxes)
    BY DEF ClassSeen, LoopInv, ClassInv
  <1>4. Found \in SUBSET ofFrame
    <2> SUFFICES ASSUME NEW c \in Found PROVE c \in ofFrame
      OBVIOUS
    <2>1. c \in Classes /\ bestByClass[c] # NoBox
      BY DEF Found
    <2>2. PICK k \in ClassSeen : boxes[k].class = c
      BY <2>1 DEF ClassInv, FromClass
    <2> QED BY <1>3, <2>2
  <1>5. Classes \subseteq Nat
    BY SelectionAssumption DEF Classes
  <1> HIDE DEF ofFrame
  <1> QED BY <1>2, <1>4, <1>5, FS_Subset DEF Found

(* A box of a target class that beats every other such box is the best     *)
(* while the frame is looked at, and is published and highlighted          *)
(* (_detect_targets, _best_detection_per_class, _display_detections).      *)
LEMMA ClearWinnerPublished ==
  ASSUME LoopInv, ClassInv
  PROVE  ClearWinnerSelected
  <1> SUFFICES ASSUME NEW i \in DOMAIN boxes, ClearWinner(i)
               PROVE  /\ point = "detect" /\ index > i => best = boxes[i]
                      /\ point \in {"classes", "publish"} => best = boxes[i]
                      /\ point = "published" =>
                           /\ i \in highlighted
                           /\ \E k \in DOMAIN messages : messages[k] = boxes[i]
    BY DEF ClearWinnerSelected
  <1>1. /\ boxes \in Seq(Boxes) /\ Len(boxes) \in Nat /\ DOMAIN boxes = 1 .. Len(boxes)
        /\ i \in Nat /\ index \in Nat /\ boxes[i] \in Boxes /\ Selected(i) /\ BestOfClass(i)
    BY DEF LoopInv, ClassInv
  <1>2. boxes[i] # NoBox
    BY <1>1, SelectionAssumption DEF NoBox
  <1>3. point = "detect" /\ index > i => best = boxes[i]
    BY <1>1 DEF Selected, Seen
  <1>4. point \in {"classes", "publish", "published"} => best = boxes[i]
    BY <1>1 DEF Selected, Seen
  <1>5. ASSUME point = "published"
        PROVE  i \in highlighted /\ \E k \in DOMAIN messages : messages[k] = boxes[i]
    <2>1. /\ highlighted = {j \in DOMAIN boxes : boxes[j] = best}
          /\ messages = IF Detections = <<>> THEN <<NoBox>> ELSE Detections
          /\ publishPerClass \in BOOLEAN
      BY <1>5 DEF ClassInv
    <2>2. i \in highlighted
      BY <1>4, <1>5, <2>1
    <2>3. CASE publishPerClass
      <3> DEFINE c == boxes[i].class
                 k == Place(c)
      <3>1. bestByClass[c] = boxes[i]
        BY <1>1, <1>5, <2>3 DEF BestOfClass, ClassSeen
      <3>2. c \in Found
        BY <1>1, <1>2, <3>1 DEF Found, Classes
      <3>3. k \in 1 .. Cardinality(Found) /\ \A d \in Found : Place(d) = k => d = c
        BY <3>2, FoundFinite, PlacesDiffer DEF Place
      <3>4. (CHOOSE d \in Found : Place(d) = k) = c
        BY <3>2, <3>3
      <3>5. k \in DOMAIN Detections /\ Detections[k] = boxes[i] /\ Detections # <<>>
        <4>1. Detections = [j \in 1 .. Cardinality(Found) |->
                              bestByClass[CHOOSE d \in Found : Place(d) = j]]
          BY <2>3 DEF Detections
        <4>2. k \in DOMAIN Detections /\ Detections[k] = boxes[i]
          BY <3>1, <3>3, <3>4, <4>1
        <4> QED BY <4>2
      <3> QED BY <2>1, <2>2, <3>5
    <2>4. CASE ~publishPerClass
      <3>1. Detections = <<boxes[i]>>
        BY <1>2, <1>4, <1>5, <2>4 DEF Detections
      <3>2. messages = <<boxes[i]>>
        BY <2>1, <3>1
      <3> QED BY <2>2, <3>2
    <2> QED BY <2>1, <2>3, <2>4
  <1> QED BY <1>3, <1>4, <1>5

(* A clear winner is selected, published and highlighted, whatever the     *)
(* model, the frame, the tolerances and the number of classes              *)
(* (_process_decoded_frame).                                               *)
THEOREM ClearWinnerSelectedHolds == Spec => []ClearWinnerSelected
  <1>1. Init => LoopInv /\ ClassInv
    BY LoopInit, ClassInit
  <1>2. LoopInv /\ ClassInv /\ [Next]_vars => (LoopInv /\ ClassInv)'
    BY LoopStep, ClassStep
  <1>3. LoopInv /\ ClassInv => ClearWinnerSelected
    BY ClearWinnerPublished
  <1> QED BY <1>1, <1>2, <1>3, PTL DEF Spec
=============================================================================
