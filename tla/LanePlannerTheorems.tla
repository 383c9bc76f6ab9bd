-------------------------- MODULE LanePlannerTheorems --------------------------
(***************************************************************************)
(* The planner's answers in every run of its queries, for every arena: the *)
(* loop of closest_uncompleted_endpoint ends with the lane that the        *)
(* planner's definition chooses, and the lanes cover the arena.            *)
(***************************************************************************)
EXTENDS MCLanePlanner, LanePlannerProofs

(* The vehicle is somewhere, and only lanes are completed. *)
QueryInv == position \in Point /\ completed \subseteq Lanes

(* Positions stay on the grid, and only lanes are completed. *)
LEMMA QueryInvariant == Spec => []QueryInv
  <1>1. Init => QueryInv
    <2>1. Grid \subseteq Point
      BY ArenaFacts DEF Grid, Point
    <2> QED BY <2>1 DEF Init, QueryInv
  <1>2. QueryInv /\ [Next]_<<position, completed>> => QueryInv'
    BY DEF QueryInv, Next, CompleteLane
  <1> QED BY <1>1, <1>2, PTL DEF Spec

(* The best of the first n lanes: none if all of them are completed, or    *)
(* one that is preferred to every other that is not.                       *)
Left(n) == (0 .. n - 1) \ completed
IsBest(best, n) ==
  \/ best = -1 /\ Left(n) = {}
  \/ best \in Left(n) /\ \A j \in Left(n) : Preferred(position, best, j)

(* Two lanes that are preferred to each other are one. *)
LEMMA PreferredOnce ==
  ASSUME QueryInv, NEW i \in Nat, NEW j \in Nat,
         Preferred(position, i, j), Preferred(position, j, i)
  PROVE  i = j
  <1>1. EndDistSq(position, i) \in Nat /\ EndDistSq(position, j) \in Nat
    BY EndDistSqType DEF QueryInv
  <1> QED BY <1>1 DEF Preferred

(* There is no more than one best. *)
LEMMA BestOnce ==
  ASSUME QueryInv, NEW n \in Nat, NEW a, NEW b, IsBest(a, n), IsBest(b, n)
  PROVE  a = b
  <1>1. Left(n) \subseteq Nat
    BY DEF Left
  <1> QED BY <1>1, PreferredOnce DEF IsBest

(* A pass of the loop keeps the best of the lanes that it has seen: it is  *)
(* replaced only by one that is nearer (closest_uncompleted_endpoint).     *)
LEMMA PassKeepsBest ==
  ASSUME QueryInv, NEW n \in Nat, NEW best, IsBest(best, n)
  PROVE  IsBest(LoopStep(best, n), n + 1)
  <1>1. \A j \in Nat : EndDistSq(position, j) \in Nat
    BY EndDistSqType DEF QueryInv
  <1>2. /\ \A j : j \in Left(n + 1) <=> j \in Left(n) \/ (j = n /\ n \notin completed)
        /\ Left(n) \subseteq 0 .. n - 1
    BY DEF Left
  <1>3. CASE n \in completed
    <2>1. Left(n + 1) = Left(n)
      BY <1>2, <1>3
    <2> QED BY <1>3, <2>1 DEF LoopStep, IsBest
  <1>4. CASE n \notin completed /\ best = -1
    <2>1. Left(n) = {} /\ Left(n + 1) = {n}
      BY <1>2, <1>4 DEF IsBest
    <2>2. LoopStep(best, n) = n /\ Preferred(position, n, n)
      BY <1>1, <1>4 DEF LoopStep, Preferred
    <2> QED BY <2>1, <2>2 DEF IsBest
  <1>5. CASE n \notin completed /\ best # -1
    <2>1. /\ best \in Left(n) /\ best \in Nat /\ best < n
          /\ \A j \in Left(n) : j \in Nat /\ j < n /\ Preferred(position, best, j)
      BY <1>2, <1>5 DEF IsBest
    <2>2. CASE EndDistSq(position, n) < EndDistSq(position, best)
      <3>1. LoopStep(best, n) = n /\ n \in Left(n + 1)
        BY <1>2, <1>5, <2>2 DEF LoopStep
      <3>2. ASSUME NEW j \in Left(n + 1) PROVE Preferred(position, n, j)
        <4>1. CASE j = n
          BY <1>1, <4>1 DEF Preferred
        <4>2. CASE j # n
          <5>1. j \in Nat /\ Preferred(position, best, j)
            BY <1>2, <2>1, <4>2
          <5> QED BY <1>1, <2>1, <2>2, <5>1 DEF Preferred
        <4> QED BY <4>1, <4>2
      <3> QED BY <3>1, <3>2 DEF IsBest
    <2>3. CASE ~(EndDistSq(position, n) < EndDistSq(position, best))
      <3>1. LoopStep(best, n) = best /\ best \in Left(n + 1)
        BY <1>2, <1>5, <2>1, <2>3 DEF LoopStep
      <3>2. Preferred(position, best, n)
        BY <1>1, <2>1, <2>3 DEF Preferred
      <3>3. \A j \in Left(n + 1) : Preferred(position, best, j)
        BY <1>2, <2>1, <3>2
      <3> QED BY <3>1, <3>3 DEF IsBest
    <2> QED BY <2>2, <2>3
  <1> QED BY <1>3, <1>4, <1>5

(* A set of naturals that has zero, and with a number the next, has all.   *)
LEMMA FromZero ==
  ASSUME NEW Holds, 0 \in Holds, \A n \in Nat : n \in Holds => n + 1 \in Holds
  PROVE  \A n \in Nat : n \in Holds
  <1> DEFINE T == {n \in Nat : n \notin Holds}
  <1> SUFFICES ASSUME T # {} PROVE FALSE
    OBVIOUS
  <1>1. PICK least \in T : \A n \in T : least <= n
    BY LeastNat
  <1>2. least # 0 /\ least - 1 \in Nat
    BY <1>1
  <1>3. least - 1 \in Holds
    BY <1>1, <1>2
  <1> QED BY <1>1, <1>2, <1>3

(* The loop is well defined, and ends with the best lane                   *)
(* (closest_uncompleted_endpoint).                                         *)
LEMMA LoopFindsBest ==
  ASSUME QueryInv
  PROVE  IsBest(LoopChoice, LaneCount)
  <1> DEFINE Exists == {n \in Nat : \E b : IsBest(b, n)}
             g == [n \in 0 .. LaneCount |-> CHOOSE b : IsBest(b, n)]
             f == LoopBest
  <1>1. LaneCount \in Nat
    BY LaneCountType
  <1>2. IsBest(-1, 0)
    BY DEF IsBest, Left
  <1>3. \A n \in Nat : n \in Exists
    <2>1. 0 \in Exists
      BY <1>2
    <2>2. ASSUME NEW n \in Nat, n \in Exists PROVE n + 1 \in Exists
      BY <2>2, PassKeepsBest
    <2> HIDE DEF Exists
    <2> QED BY <2>1, <2>2, FromZero
  <1>4. ASSUME NEW n \in 0 .. LaneCount PROVE IsBest(g[n], n)
    BY <1>1, <1>3
  <1>5. g[0] = -1
    <2>1. 0 \in 0 .. LaneCount
      BY <1>1
    <2> HIDE DEF g
    <2> QED BY <1>2, <1>4, <2>1, BestOnce
  <1>6. ASSUME NEW n \in 1 .. LaneCount PROVE g[n] = LoopStep(g[n - 1], n - 1)
    <2>1. n - 1 \in 0 .. LaneCount /\ n \in 0 .. LaneCount /\ n - 1 + 1 = n
      BY <1>1
    <2> HIDE DEF g
    <2>2. IsBest(LoopStep(g[n - 1], n - 1), n)
      BY <1>1, <1>4, <2>1, PassKeepsBest
    <2> QED BY <1>1, <1>4, <2>1, <2>2, BestOnce
  <1>7. g = [n \in 0 .. LaneCount |-> IF n = 0 THEN -1 ELSE LoopStep(g[n - 1], n - 1)]
    <2>1. g = [n \in 0 .. LaneCount |-> g[n]]
      OBVIOUS
    <2>2. \A n \in 0 .. LaneCount :
            g[n] = IF n = 0 THEN -1 ELSE LoopStep(g[n - 1], n - 1)
      <3> HIDE DEF g
      <3> QED BY <1>1, <1>5, <1>6
    <2> HIDE DEF g
    <2> QED BY <2>1, <2>2
  <1>8. f = [n \in 0 .. LaneCount |-> IF n = 0 THEN -1 ELSE LoopStep(f[n - 1], n - 1)]
    <2> HIDE DEF g
    <2> QED BY <1>7 DEF LoopBest
  <1> HIDE DEF f, g
  <1> DEFINE Good == {n \in Nat : n <= LaneCount => IsBest(f[n], n)}
  <1>9. \A n \in Nat : n \in Good
    <2>1. 0 \in Good
      BY <1>1, <1>2, <1>8
    <2>2. ASSUME NEW n \in Nat, n \in Good PROVE n + 1 \in Good
      <3> SUFFICES ASSUME n + 1 <= LaneCount PROVE IsBest(f[n + 1], n + 1)
        OBVIOUS
      <3>1. IsBest(f[n], n)
        BY <1>1, <2>2
      <3>2. f[n + 1] = LoopStep(f[n], n)
        BY <1>1, <1>8
      <3> QED BY <3>1, <3>2, PassKeepsBest
    <2> HIDE DEF Good
    <2> QED BY <2>1, <2>2, FromZero
  <1> QED BY <1>1, <1>9 DEF LoopChoice, f

(* The lane chosen is the one the loop ends with, and no lane left has a   *)
(* nearer end than the one it is entered at, wherever the vehicle is,      *)
(* whatever is completed, in every arena (closest_uncompleted_endpoint).   *)
THEOREM ChoiceIsNearestHolds == Spec => []ChoiceIsNearest
  <1>1. QueryInv => ChoiceIsNearest
    <2> SUFFICES ASSUME QueryInv, completed # Lanes PROVE ChoiceIsNearest
      BY DEF ChoiceIsNearest
    <2> DEFINE i == ClosestLane(position, completed)
               start == LaneStart(i, StartAtA(position, i))
    <2>1. position \in Point /\ Lanes \ completed # {} /\ Lanes \subseteq Nat
          /\ LaneCount \in Nat /\ Left(LaneCount) = Lanes \ completed
      <3>1. position \in Point /\ Lanes \ completed # {}
        BY DEF QueryInv
      <3>2. LaneCount \in Nat /\ Lanes \subseteq Nat
        BY LaneCountType DEF Lanes
      <3>3. Left(LaneCount) = Lanes \ completed
        BY DEF Left, Lanes
      <3> QED BY <3>1, <3>2, <3>3
    <2>2. /\ i \in Lanes \ completed
          /\ \A j \in Lanes \ completed : Preferred(position, i, j)
      BY <2>1, ClosestLaneIsNearest
    <2> HIDE DEF i
    <2>3. i = LoopChoice
      BY <2>1, <2>2, LoopFindsBest, BestOnce DEF IsBest
    <2>4. ASSUME NEW j \in Lanes \ completed, NEW atA \in BOOLEAN
          PROVE  DistSq(position, start) <= DistSq(position, LaneStart(j, atA))
      <3>1. \A k \in Nat : /\ DistSq(position, EndpointA(k)) \in Nat
                           /\ DistSq(position, EndpointB(k)) \in Nat
        <4> TAKE k \in Nat
        <4>1. EndpointA(k) \in Point /\ EndpointB(k) \in Point
          BY EndpointType
        <4> QED BY <2>1, <4>1, DistSqType
      <3>2. DistSq(position, start) = EndDistSq(position, i)
        BY <2>1, <2>2, <3>1 DEF LaneStart, StartAtA, EndDistSq, Lesser
      <3>3. EndDistSq(position, j) <= DistSq(position, LaneStart(j, atA))
        BY <2>1, <3>1 DEF LaneStart, EndDistSq, Lesser
      <3>4. EndDistSq(position, i) <= EndDistSq(position, j)
        BY <2>1, <2>2, EndDistSqType DEF Preferred
      <3>5. /\ DistSq(position, LaneStart(j, atA)) \in Nat /\ EndDistSq(position, i) \in Nat
            /\ EndDistSq(position, j) \in Nat
        BY <2>1, <2>2, <3>1, EndDistSqType DEF LaneStart
      <3> QED BY <3>2, <3>3, <3>4, <3>5
    <2> QED BY <2>3, <2>4 DEF ChoiceIsNearest, i
  <1> QED BY <1>1, QueryInvariant, PTL

(* From every safe position some lane is within the search offset, in      *)
(* every arena (the constructor).                                          *)
THEOREM LanesCoverArenaHolds == Spec => []LanesCoverArena
  <1>1. QueryInv => LanesCoverArena
    BY LanesCover DEF QueryInv, LanesCoverArena
  <1> QED BY <1>1, QueryInvariant, PTL
=============================================================================
