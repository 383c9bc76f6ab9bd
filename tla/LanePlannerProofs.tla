-------------------------- MODULE LanePlannerProofs --------------------------
(* Facts about the planner for every arena the constructor accepts. *)
EXTENDS LanePlanner, WellFoundedInduction, TLAPS

(* The arena has an extent in both directions, so there is a lane. *)
LEMMA ArenaFacts ==
  /\ XMin \in Int /\ XMax \in Int /\ YMin \in Int /\ YMax \in Int
  /\ LaneLength \in Nat \ {0}
  /\ UsableWidth \in Nat \ {0}
  BY ArenaAssumption DEF XMin, XMax, YMin, YMax, LaneLength, UsableWidth

(* A quotient of a dividend no smaller than the divisor is positive. *)
LEMMA DivPositive ==
  ASSUME NEW a \in Nat, NEW b \in Nat \ {0}, a >= b
  PROVE  a \div b \in Nat \ {0}
  OBVIOUS

(* There is at least one lane (lane_count). *)
LEMMA LaneCountType == LaneCount \in Nat \ {0}
  <1>1. 2 * SearchOffset \in Nat \ {0}
    BY ArenaAssumption
  <1>2. /\ UsableWidth + 2 * SearchOffset - 1 \in Nat
        /\ UsableWidth + 2 * SearchOffset - 1 >= 2 * SearchOffset
    BY ArenaFacts, <1>1
  <1> QED BY <1>1, <1>2, DivPositive DEF LaneCount

(* A lane's centre lies on the grid. *)
LEMMA LaneYType == ASSUME NEW i \in Int PROVE LaneY(i) \in Int
  <1>1. LaneSpacing \in Int /\ LaneSpacing \div 2 \in Int
    BY ArenaFacts, LaneCountType DEF LaneSpacing
  <1>2. i * LaneSpacing \in Int
    BY <1>1
  <1> QED BY <1>1, <1>2, ArenaFacts DEF LaneY

(* A nonempty set of naturals has a least element. *)
LEMMA LeastNat ==
  ASSUME NEW T \in SUBSET Nat, T # {}
  PROVE  \E least \in T : \A n \in T : least <= n
  <1>1. PICK least \in T : \A n \in T : ~(<<n, least>> \in OpToRel(<, Nat))
    BY NatLessThanWellFounded, WFMin
  <1>2. \A n \in T : ~(n < least)
    BY <1>1 DEF OpToRel
  <1> QED BY <1>2

(* A squared distance is a natural. *)
LEMMA DistSqType ==
  ASSUME NEW p \in Point, NEW q \in Point
  PROVE  DistSq(p, q) \in Nat
  <1>1. p.x - q.x \in Int /\ p.y - q.y \in Int
    BY DEF Point
  <1>2. \A n \in Int : n * n \in Nat
    OBVIOUS
  <1> QED BY <1>1, <1>2 DEF DistSq, Sq

(* The ends of a lane are points. *)
LEMMA EndpointType ==
  ASSUME NEW i \in Int
  PROVE  EndpointA(i) \in Point /\ EndpointB(i) \in Point
  BY ArenaFacts, LaneYType DEF EndpointA, EndpointB, Point

(* The squared distance to a lane's nearer end is a natural. *)
LEMMA EndDistSqType ==
  ASSUME NEW p \in Point, NEW i \in Int
  PROVE  EndDistSq(p, i) \in Nat
  BY EndpointType, DistSqType DEF EndDistSq, Lesser

(* As long as a lane is left the planner chooses one of those left, and no *)
(* other lane left has a nearer end (closest_uncompleted_endpoint).        *)
THEOREM ClosestLaneIsNearest ==
  ASSUME NEW p \in Point, NEW completed, Lanes \ completed # {}
  PROVE  /\ ClosestLane(p, completed) \in Lanes \ completed
         /\ \A j \in Lanes \ completed : Preferred(p, ClosestLane(p, completed), j)
  <1> DEFINE left == Lanes \ completed
             distances == {EndDistSq(p, i) : i \in left}
  <1>1. left \subseteq Nat
    BY LaneCountType DEF Lanes
  <1>2. distances \in SUBSET Nat /\ distances # {}
    BY <1>1, EndDistSqType
  <1>3. PICK d \in distances : \A e \in distances : d <= e
    BY <1>2, LeastNat
  <1> DEFINE nearest == {i \in left : EndDistSq(p, i) = d}
  <1>4. nearest \in SUBSET Nat /\ nearest # {}
    BY <1>1, <1>3
  <1>5. PICK i \in nearest : \A j \in nearest : i <= j
    BY <1>4, LeastNat
  <1>6. ASSUME NEW j \in left
        PROVE  Preferred(p, i, j)
    <2>1. d \in Nat /\ EndDistSq(p, j) \in Nat /\ d <= EndDistSq(p, j)
      BY <1>1, <1>2, <1>3, EndDistSqType
    <2>2. CASE EndDistSq(p, j) = d
      BY <2>2, <1>5 DEF Preferred
    <2>3. CASE EndDistSq(p, j) # d
      BY <2>1, <2>3 DEF Preferred
    <2> QED BY <2>2, <2>3
  <1>7. \E k \in left : \A j \in left : Preferred(p, k, j)
    BY <1>6
  <1> QED BY <1>7 DEF ClosestLane
----------------------------------------------------------------------------
(* The lanes cover the arena. *)

(* A quotient and what is left. *)
LEMMA Quotient ==
  ASSUME NEW a \in Nat, NEW b \in Nat \ {0}
  PROVE  /\ a \div b \in Nat
         /\ (a \div b) * b <= a /\ a < (a \div b) * b + b
         /\ a % b = 0 => (a \div b) * b = a
  OBVIOUS

(* Multiplication is monotonic. *)
LEMMA Products ==
  ASSUME NEW a \in Nat, NEW b \in Nat, NEW c \in Nat
  PROVE  /\ a <= b => a * c <= b * c
         /\ a < b => a * c + c <= b * c
  <1>1. ASSUME NEW d \in Nat, b = a + d PROVE a * c <= b * c
    <2>1. b * c = a * c + d * c /\ d * c \in Nat /\ a * c \in Nat
      BY <1>1
    <2> QED BY <2>1
  <1>2. ASSUME NEW d \in Nat, b = a + 1 + d PROVE a * c + c <= b * c
    <2>1. b * c = a * c + c + d * c /\ d * c \in Nat /\ a * c \in Nat
      BY <1>2
    <2> QED BY <2>1
  <1>3. a <= b => b - a \in Nat /\ b = a + (b - a)
    OBVIOUS
  <1>4. a < b => b - a - 1 \in Nat /\ b = a + 1 + (b - a - 1)
    OBVIOUS
  <1> QED BY <1>1, <1>2, <1>3, <1>4

(* A number between -e and e has no larger square than e. *)
LEMMA SquaresGrow ==
  ASSUME NEW d \in Int, NEW e \in Int,
         -e <= d, d <= e
  PROVE  Sq(d) <= Sq(e)
  <1>1. CASE d >= 0
    <2>1. d \in Nat /\ e \in Nat
      BY <1>1
    <2>2. d * d <= e * d /\ d * e <= e * e /\ e * d = d * e
      BY <2>1, Products
    <2> QED BY <2>1, <2>2 DEF Sq
  <1>2. CASE d < 0
    <2> DEFINE m == -d
    <2>1. m \in Nat /\ e \in Nat /\ m <= e /\ m * m = d * d
      BY <1>2
    <2> HIDE DEF m
    <2>2. m * m <= e * m /\ m * e <= e * e /\ e * m = m * e
      BY <2>1, Products
    <2>3. d * d <= e * e
      BY <2>1, <2>2
    <2> QED BY <2>3 DEF Sq
  <1> QED BY <1>1, <1>2

(* The lanes fill the width, each no wider than its coverage               *)
(* (the constructor).                                                      *)
LEMMA LanesFill ==
  /\ LaneSpacing \in Nat \ {0} /\ LaneCount * LaneSpacing = UsableWidth
  /\ LaneSpacing \div 2 \in Nat /\ 2 * (LaneSpacing \div 2) = LaneSpacing
  /\ LaneSpacing <= 2 * SearchOffset
  <1> DEFINE n == LaneCount
             w == UsableWidth
             c == 2 * SearchOffset
             h == w \div (2 * n)
  <1>1. n \in Nat \ {0} /\ w \in Nat \ {0} /\ c \in Nat \ {0}
    BY LaneCountType, ArenaFacts, ArenaAssumption
  <1>2. n = (w + c - 1) \div c
    BY DEF LaneCount
  <1>3. LaneSpacing = w \div n
    BY DEF LaneSpacing
  <1>4. w % (2 * n) = 0
    BY ScaleAssumption
  <1> HIDE DEF n, w, c
  <1>5. 2 * n \in Nat \ {0}
    BY <1>1
  <1>6. h \in Nat /\ h * (2 * n) = w
    BY <1>1, <1>4, <1>5, Quotient
  <1> HIDE DEF h
  <1>7. (2 * h) * n = w /\ 2 * h \in Nat
    BY <1>1, <1>6
  <1>8. w \div n = 2 * h
    <2> DEFINE q == w \div n
    <2>1. q \in Nat /\ q * n <= w /\ w < q * n + n
      BY <1>1, Quotient
    <2> HIDE DEF q
    <2>2. ~(q < 2 * h)
      BY <1>1, <1>7, <2>1, Products
    <2>3. ~(2 * h < q)
      <3>1. 2 * h < q => (2 * h) * n + n <= q * n
        BY <1>1, <1>7, <2>1, Products
      <3>2. q * n \in Nat
        BY <1>1, <2>1
      <3> QED BY <1>1, <1>7, <2>1, <3>1, <3>2
    <2> QED BY <1>7, <2>1, <2>2, <2>3 DEF q
  <1>9. 2 * h <= c
    <2>1. w + c - 1 \in Nat
      BY <1>1
    <2>2. w + c - 1 < n * c + c
      BY <1>1, <1>2, <2>1, Quotient
    <2>3. n * c \in Nat /\ w <= n * c
      BY <1>1, <2>2
    <2>4. c < 2 * h => c * n + n <= (2 * h) * n
      BY <1>1, <1>7, Products
    <2>5. c * n = n * c
      BY <1>1
    <2> QED BY <1>1, <1>7, <2>3, <2>4, <2>5
  <1>10. h # 0
    BY <1>1, <1>6
  <1>11. LaneSpacing = 2 * h /\ LaneSpacing \div 2 = h
    BY <1>3, <1>6, <1>8
  <1>12. n * LaneSpacing = w
    BY <1>1, <1>7, <1>11
  <1> QED BY <1>6, <1>9, <1>10, <1>11, <1>12 DEF n, w, c

(* A lane lies inside the bounds, half a spacing from its neighbours or    *)
(* more.                                                                   *)
LEMMA LaneInside ==
  ASSUME NEW i \in Lanes
  PROVE  /\ LaneY(i) \in Int /\ YMin <= LaneY(i) /\ LaneY(i) <= YMax
  <1> DEFINE h == LaneSpacing \div 2
  <1>1. /\ i \in Nat /\ i < LaneCount /\ LaneCount \in Nat
        /\ LaneSpacing \in Nat /\ h \in Nat /\ 2 * h = LaneSpacing
        /\ LaneCount * LaneSpacing = UsableWidth
    BY LanesFill, LaneCountType DEF Lanes
  <1>2. i * LaneSpacing + LaneSpacing <= UsableWidth /\ i * LaneSpacing \in Nat
    BY <1>1, Products
  <1>3. LaneY(i) = IF StartCorner = "bottom_left" THEN YMax - (i * LaneSpacing + h)
                                                ELSE YMin + (i * LaneSpacing + h)
    BY DEF LaneY
  <1>4. YMax = YMin + UsableWidth /\ YMin \in Int /\ UsableWidth \in Nat
    BY ArenaFacts DEF UsableWidth
  <1> HIDE DEF h
  <1> QED BY <1>1, <1>2, <1>3, <1>4

(* Every point inside the safe bounds is within the search offset of a     *)
(* lane, whatever the size of the arena: the lane count is rounded the     *)
(* right way and the spacing never exceeds the coverage of a lane          *)
(* (the constructor).                                                      *)
THEOREM LanesCover ==
  ASSUME NEW p \in Point, InsideSafeBounds(p)
  PROVE  \E i \in Lanes : CrossTrackSq(p, i) <= Sq(SearchOffset)
  <1> DEFINE h == LaneSpacing \div 2
             s == LaneSpacing
             n == LaneCount
             u == IF StartCorner = "bottom_left" THEN YMax - p.y ELSE p.y - YMin
  <1>1. /\ s \in Nat \ {0} /\ h \in Nat /\ 2 * h = s /\ n \in Nat \ {0}
        /\ n * s = UsableWidth /\ s <= 2 * SearchOffset /\ SearchOffset \in Nat
    BY LanesFill, LaneCountType, ArenaAssumption
  <1>2. /\ p.x \in Int /\ p.y \in Int /\ XMin <= p.x /\ p.x <= XMax
        /\ YMin <= p.y /\ p.y <= YMax
        /\ XMin \in Int /\ XMax \in Int /\ YMin \in Int /\ YMax \in Int
        /\ YMax = YMin + UsableWidth /\ UsableWidth \in Nat
    BY ArenaFacts DEF Point, InsideSafeBounds, UsableWidth
  <1>3. u \in Nat /\ u <= n * s
    BY <1>1, <1>2
  <1>4. \A i \in Lanes : /\ LaneY(i) \in Int
                         /\ \/ p.y - LaneY(i) = u - (i * s + h)
                            \/ p.y - LaneY(i) = -(u - (i * s + h))
    <2> TAKE i \in Lanes
    <2>1. LaneY(i) = IF StartCorner = "bottom_left" THEN YMax - (i * s + h)
                                                  ELSE YMin + (i * s + h)
      BY DEF LaneY
    <2>2. i \in Nat
      BY <1>1 DEF Lanes
    <2>3. i * s \in Nat
      BY <1>1, <2>2
    <2> QED BY <1>1, <1>2, <2>1, <2>3
  <1> HIDE DEF h, s, n, u
  <1>5. PICK i \in Lanes : i * s \in Nat /\ i * s <= u /\ u <= i * s + s
    <2>1. CASE u < n * s
      <3> DEFINE q == u \div s
      <3>1. q \in Nat /\ q * s <= u /\ u < q * s + s
        BY <1>1, <1>3, Quotient
      <3> HIDE DEF q
      <3>2. q < n
        <4>1. n <= q => n * s <= q * s
          BY <1>1, <3>1, Products
        <4>2. q * s \in Nat /\ n * s \in Nat
          BY <1>1, <3>1
        <4> QED BY <1>1, <1>3, <2>1, <3>1, <4>1, <4>2
      <3>3. q \in Lanes
        BY <1>1, <3>1, <3>2 DEF Lanes, n
      <3>4. q * s \in Nat
        BY <1>1, <3>1
      <3> QED BY <1>1, <1>3, <3>1, <3>3, <3>4
    <2>2. CASE u = n * s
      <3>1. n - 1 \in Lanes
        BY <1>1 DEF Lanes, n
      <3>2. (n - 1) * s + s = n * s /\ (n - 1) * s \in Nat
        BY <1>1
      <3> QED BY <1>1, <1>3, <2>2, <3>1, <3>2
    <2>3. n * s \in Nat
      BY <1>1
    <2> QED BY <1>3, <2>1, <2>2, <2>3
  <1>6. -SearchOffset <= p.y - LaneY(i) /\ p.y - LaneY(i) <= SearchOffset
    BY <1>1, <1>3, <1>4, <1>5
  <1>7. CrossTrackSq(p, i) = Sq(p.y - LaneY(i))
    <2>1. Clamp(p.x, XMin, XMax) = p.x
      BY <1>2 DEF Clamp
    <2>2. p.x - p.x = 0 /\ Sq(0) = 0
      BY <1>2 DEF Sq
    <2>3. Sq(p.y - LaneY(i)) \in Int
      BY <1>2, <1>4 DEF Sq
    <2> QED BY <2>1, <2>2, <2>3 DEF CrossTrackSq, ProjectToLane, DistSq
  <1>8. p.y - LaneY(i) \in Int
    BY <1>2, <1>4
  <1>9. Sq(p.y - LaneY(i)) <= Sq(SearchOffset)
    BY <1>1, <1>6, <1>8, SquaresGrow
  <1> QED BY <1>7, <1>9

(* The projection is a point of the lane, inside the bounds, and none of   *)
(* the lane is nearer; the progress from one end and from the other add up *)
(* to the lane, wherever the vehicle is (project_to_lane,                  *)
(* progress_from_start).                                                   *)
THEOREM ProjectionNearest ==
  ASSUME NEW p \in Point, NEW i \in Lanes
  PROVE  /\ InsideSafeBounds(ProjectToLane(p, i))
         /\ \A x \in XMin .. XMax :
              CrossTrackSq(p, i) <= DistSq(p, [x |-> x, y |-> LaneY(i)])
         /\ ProgressFromStart(p, TRUE) + ProgressFromStart(p, FALSE) = LaneLength
  <1> DEFINE c == Clamp(p.x, XMin, XMax)
  <1>1. /\ p.x \in Int /\ p.y \in Int /\ XMin \in Int /\ XMax \in Int /\ XMin < XMax
        /\ LaneLength = XMax - XMin
    BY ArenaFacts DEF Point, LaneLength
  <1>2. LaneY(i) \in Int /\ YMin <= LaneY(i) /\ LaneY(i) <= YMax
    BY LaneInside
  <1>3. c \in Int /\ XMin <= c /\ c <= XMax
    BY <1>1 DEF Clamp
  <1>4. InsideSafeBounds(ProjectToLane(p, i))
    BY <1>2, <1>3 DEF InsideSafeBounds, ProjectToLane
  <1>5. ASSUME NEW x \in XMin .. XMax
        PROVE  CrossTrackSq(p, i) <= DistSq(p, [x |-> x, y |-> LaneY(i)])
    <2>1. \/ p.x - c >= 0 /\ p.x - c <= p.x - x
          \/ p.x - c <= 0 /\ p.x - x <= p.x - c
      BY <1>1, <1>5 DEF Clamp
    <2> HIDE DEF c
    <2>2. Sq(p.x - c) <= Sq(p.x - x)
      <3>1. CASE p.x - c >= 0 /\ p.x - c <= p.x - x
        BY <1>1, <1>3, <1>5, <3>1, SquaresGrow
      <3>2. CASE p.x - c <= 0 /\ p.x - x <= p.x - c
        <4>1. Sq(x - p.x) = Sq(p.x - x)
          BY <1>1 DEF Sq
        <4>2. -(x - p.x) <= p.x - c /\ p.x - c <= x - p.x
          BY <1>1, <1>3, <1>5, <3>2
        <4>3. x - p.x \in Int /\ p.x - c \in Int
          BY <1>1, <1>3, <1>5
        <4>4. Sq(p.x - c) <= Sq(x - p.x)
          BY <4>2, <4>3, SquaresGrow
        <4> QED BY <4>1, <4>4
      <3> QED BY <2>1, <3>1, <3>2
    <2>3. /\ CrossTrackSq(p, i) = Sq(p.x - c) + Sq(p.y - LaneY(i))
          /\ DistSq(p, [x |-> x, y |-> LaneY(i)]) = Sq(p.x - x) + Sq(p.y - LaneY(i))
      BY DEF CrossTrackSq, ProjectToLane, DistSq, c
    <2>4. Sq(p.x - c) \in Int /\ Sq(p.x - x) \in Int /\ Sq(p.y - LaneY(i)) \in Int
      BY <1>1, <1>2, <1>3, <1>5 DEF Sq
    <2> QED BY <2>2, <2>3, <2>4
  <1>6. ProgressFromStart(p, TRUE) + ProgressFromStart(p, FALSE) = LaneLength
    BY <1>1 DEF ProgressFromStart, Clamp
  <1> QED BY <1>4, <1>5, <1>6
============================================================================
