----------------------------- MODULE StreamProofs -----------------------------
(***************************************************************************)
(* What holds of the frames on their way to browsers, whatever their       *)
(* stamps and however many they are.                                       *)
(*                                                                         *)
(* First the pacer by itself.  That presentation times are unique rests on *)
(* none being above the last one given; that the rate is bounded, on the   *)
(* next place being as many intervals after a frame as frames came since.  *)
(* Then the detector, whose steps are steps of the pacer.                  *)
(***************************************************************************)
EXTENDS SourceSwitch, SequenceTheorems, TLAPS

USE PacerAssumption DEF None

(* A stamp lies in its interval. *)
LEMMA DivisionBounds ==
  ASSUME NEW a \in Nat
  PROVE  /\ a \div Interval \in Nat
         /\ (a \div Interval) * Interval <= a
         /\ a < (a \div Interval + 1) * Interval
  OBVIOUS

(* The next place comes after the stamp, by an interval at most, and an    *)
(* interval or more after the place that was due (push_frame).             *)
LEMMA NextPlaceBounds ==
  ASSUME nextStamp \in Nat \cup {None}, NEW stamp \in Nat, ~Refused(stamp)
  PROVE  /\ NextPlace(stamp) \in Nat
         /\ stamp < NextPlace(stamp) /\ NextPlace(stamp) <= stamp + Interval
         /\ Due(stamp) # None => NextPlace(stamp) >= Due(stamp) + Interval
  <1>1. CASE Due(stamp) = None
    BY <1>1 DEF NextPlace
  <1>2. CASE Due(stamp) # None
    <2> DEFINE k == (stamp - Due(stamp)) \div Interval
    <2>1. Due(stamp) \in Nat /\ stamp - Due(stamp) \in Nat
      BY <1>2 DEF Due, Refused
    <2>2. /\ k \in Nat /\ k * Interval <= stamp - Due(stamp)
          /\ stamp - Due(stamp) < (k + 1) * Interval
      BY <2>1, DivisionBounds
    <2>3. NextPlace(stamp) = Due(stamp) + (k + 1) * Interval
      BY <1>2 DEF NextPlace
    <2> HIDE DEF k
    <2>4. (k + 1) * Interval = k * Interval + Interval /\ k * Interval \in Nat
      BY <2>2
    <2> QED BY <2>1, <2>2, <2>3, <2>4
  <1> QED BY <1>1, <1>2

(* The deque keeps the latest stamps, the new one last. *)
LEMMA LatestKeeps ==
  ASSUME NEW s \in Seq(Nat), Len(s) <= Window, NEW x \in Nat
  PROVE  /\ Latest(Append(s, x)) \in Seq(Nat)
         /\ Len(Latest(Append(s, x))) = IF Len(s) < Window THEN Len(s) + 1 ELSE Window
         /\ \A i \in 1 .. Len(Latest(Append(s, x))) :
              Latest(Append(s, x))[i] =
                IF i = Len(Latest(Append(s, x))) THEN x
                ELSE s[i + (Len(s) + 1 - Len(Latest(Append(s, x))))]
  <1> DEFINE a == Append(s, x)
  <1>1. /\ a \in Seq(Nat) /\ Len(a) = Len(s) + 1 /\ Len(s) \in Nat
        /\ \A i \in 1 .. Len(s) : a[i] = s[i]
        /\ a[Len(s) + 1] = x /\ a # <<>>
    BY AppendProperties, LenProperties
  <1>2. CASE Len(s) < Window
    <2>1. Latest(a) = a
      BY <1>1, <1>2 DEF Latest
    <2> HIDE DEF a
    <2>2. Latest(a) \in Seq(Nat) /\ Len(Latest(a)) = Len(s) + 1
      BY <1>1, <2>1
    <2>3. ASSUME NEW i \in 1 .. Len(Latest(a))
          PROVE  Latest(a)[i] = IF i = Len(Latest(a)) THEN x
                                ELSE s[i + (Len(s) + 1 - Len(Latest(a)))]
      <3>1. i \in 1 .. Len(s) + 1 /\ Len(s) + 1 - Len(Latest(a)) = 0
        BY <1>1, <2>2
      <3>2. CASE i = Len(s) + 1
        BY <1>1, <2>1, <2>2, <3>2
      <3>3. CASE i # Len(s) + 1
        <4>1. i \in 1 .. Len(s) /\ i + 0 = i
          BY <1>1, <3>1, <3>3
        <4> QED BY <1>1, <2>1, <2>2, <3>1, <3>3, <4>1
      <3> QED BY <3>2, <3>3
    <2> QED BY <1>2, <2>2, <2>3 DEF a
  <1>3. CASE Len(s) = Window
    <2>1. Latest(a) = Tail(a)
      BY <1>1, <1>3 DEF Latest
    <2> HIDE DEF a
    <2>2. /\ Tail(a) \in Seq(Nat) /\ Len(Tail(a)) = Len(a) - 1
          /\ \A i \in 1 .. Len(Tail(a)) : Tail(a)[i] = a[i + 1]
      BY <1>1, HeadTailProperties
    <2>3. /\ Latest(a) \in Seq(Nat) /\ Len(Latest(a)) = Window
          /\ \A i \in 1 .. Len(Latest(a)) :
               Latest(a)[i] = IF i = Len(Latest(a)) THEN x
                              ELSE s[i + (Len(s) + 1 - Len(Latest(a)))]
      BY <1>1, <1>3, <2>1, <2>2
    <2> QED BY <1>3, <2>3 DEF a
  <1> QED BY <1>1, <1>2, <1>3

----------------------------------------------------------------------------
(* The pacer's invariant. *)

(* No frame is presented after the last one given a time. *)
Given ==
  /\ pushed <= lastPts
  /\ \A t \in Threads : hand[t] # NoFrame => hand[t].pts <= lastPts

(* The time that d intervals take. *)
Gap(d) == d * Interval

(* No interval takes no time. *)
LEMMA NoGap == Gap(0) = 0
  BY DEF Gap

(* One more takes one interval more. *)
LEMMA GapGrows ==
  ASSUME NEW d \in Nat
  PROVE  Gap(d) \in Nat /\ Gap(d + 1) = Gap(d) + Interval
  BY DEF Gap

(* The next place is an interval and more after each frame that came since *)
(* the last one, and so on back to the last irregularity.                  *)
Rated ==
  /\ steady <= Len(accepted)
  /\ steady > 0 => nextStamp # None
  /\ \A i \in Len(accepted) - steady + 1 .. Len(accepted) :
       nextStamp > accepted[i] + Gap(Len(accepted) - i)

Spaced ==
  LET n == Len(accepted)
  IN  \A i, j \in n - steady + 1 .. n : i < j => accepted[j] - accepted[i] > Gap(j - i - 1)

PacerInv == PacerTypeOK /\ PtsUnique /\ NoStall /\ Spaced /\ Given /\ Rated

(* Initially it holds. *)
LEMMA PacerInitInv == PacerInit => PacerInv
  <1> SUFFICES ASSUME PacerInit PROVE PacerInv
    OBVIOUS
  <1>1. PacerTypeOK
    BY DEF PacerInit, PacerTypeOK, Frame, NoFrame
  <1>2. PtsUnique /\ NoStall /\ Given /\ Spaced /\ Rated
    BY DEF PacerInit, PtsUnique, NoStall, Given, Spaced, Rated
  <1> QED BY <1>1, <1>2 DEF PacerInv

(* A presentation time is later than all before it (push_frame). *)
LEMMA PtsGrows ==
  ASSUME NEW now \in Nat, lastPts \in Nat \cup {None}
  PROVE  Pts(now) \in Nat /\ Pts(now) > lastPts
  BY DEF Pts

(* A stamp that is taken leaves a place that is due, and the rate of what  *)
(* was accepted before it.                                                 *)
LEMMA PlaceTaken ==
  ASSUME PacerInv, NEW stamp \in Nat, TakePlace(stamp)
  PROVE  /\ nextStamp' \in Nat /\ lastInput' \in Nat /\ slot' \in Nat /\ NoStall'
         /\ nextStamp' > stamp /\ Steady(stamp) \in Nat /\ Steady(stamp) <= Len(accepted)
         /\ \A i \in Len(accepted) - Steady(stamp) + 1 .. Len(accepted) :
              /\ nextStamp' > accepted[i] + Gap(Len(accepted) - i + 1)
              /\ stamp - accepted[i] > Gap(Len(accepted) - i)
  <1>1. /\ nextStamp \in Nat \cup {None} /\ accepted \in Seq(Nat) /\ Len(accepted) \in Nat
        /\ steady \in Nat
    BY LenProperties DEF PacerInv, PacerTypeOK
  <1>2. /\ nextStamp' = NextPlace(stamp) /\ slot' = stamp /\ lastInput' = stamp
        /\ ~Refused(stamp)
    BY DEF TakePlace
  <1>3. /\ NextPlace(stamp) \in Nat
        /\ stamp < NextPlace(stamp) /\ NextPlace(stamp) <= stamp + Interval
        /\ Due(stamp) # None => NextPlace(stamp) >= Due(stamp) + Interval
    BY <1>1, <1>2, NextPlaceBounds
  <1>4. NoStall'
    BY <1>2, <1>3 DEF NoStall
  <1>5. Steady(stamp) \in Nat /\ Steady(stamp) <= Len(accepted)
    BY <1>1 DEF Steady, PacerInv, Rated
  <1>6. ASSUME NEW i \in Len(accepted) - Steady(stamp) + 1 .. Len(accepted)
        PROVE  /\ nextStamp' > accepted[i] + Gap(Len(accepted) - i + 1)
               /\ stamp - accepted[i] > Gap(Len(accepted) - i)
    <2>1. Steady(stamp) = steady /\ steady > 0 /\ ~SteppedBack(stamp)
      BY <1>1, <1>5, <1>6 DEF Steady
    <2>2. /\ Due(stamp) = nextStamp /\ nextStamp \in Nat
          /\ nextStamp > accepted[i] + Gap(Len(accepted) - i)
      BY <1>1, <1>6, <2>1 DEF Due, PacerInv, Rated
    <2>3. stamp >= nextStamp
      BY <1>2, <2>2 DEF Refused
    <2>4. i \in 1 .. Len(accepted) /\ accepted[i] \in Nat
      BY <1>1, <1>5, <1>6
    <2> DEFINE d == Len(accepted) - i
    <2>5. d \in Nat
      BY <1>1, <2>4
    <2> HIDE DEF d
    <2>6. Gap(d) \in Nat /\ Gap(d + 1) = Gap(d) + Interval
      BY <2>5, GapGrows
    <2>7. nextStamp > accepted[i] + Gap(d)
      BY <2>2 DEF d
    <2>8. /\ NextPlace(stamp) > accepted[i] + Gap(d + 1)
          /\ stamp - accepted[i] > Gap(d)
      BY <1>3, <2>2, <2>3, <2>4, <2>6, <2>7
    <2> QED BY <1>2, <2>8 DEF d
  <1> QED BY <1>2, <1>3, <1>4, <1>5, <1>6

(* A frame is refused, and nothing but the last input changes. *)
LEMMA RefuseStep ==
  ASSUME PacerInv, NEW t \in Threads, NEW stamp \in Nat, Refuse(t, stamp)
  PROVE  PacerInv'
  <1>1. PacerTypeOK'
    BY DEF PacerInv, PacerTypeOK, Refuse
  <1>2. PtsUnique' /\ Given' /\ Spaced' /\ Rated'
    BY DEF PacerInv, PtsUnique, Given, Spaced, Rated, Refuse
  <1>3. NoStall'
    BY DEF PacerInv, PacerTypeOK, NoStall, Refuse, Refused, Due, SteppedBack
  <1> QED BY <1>1, <1>2, <1>3 DEF PacerInv

(* A frame is lost, and its place is taken. *)
LEMMA LoseStep ==
  ASSUME PacerInv, NEW t \in Threads, NEW stamp \in Nat, LoseFrame(t, stamp)
  PROVE  PacerInv'
  <1>1. TakePlace(stamp) /\ steady' = Steady(stamp)
        /\ UNCHANGED <<lastPts, frameSequence, accepted, clock, hand, pushed>>
    BY DEF LoseFrame
  <1>2. /\ nextStamp' \in Nat /\ lastInput' \in Nat /\ slot' \in Nat /\ NoStall'
        /\ Steady(stamp) \in Nat /\ Steady(stamp) <= Len(accepted)
        /\ \A i \in Len(accepted) - Steady(stamp) + 1 .. Len(accepted) :
             nextStamp' > accepted[i] + Gap(Len(accepted) - i + 1)
    BY <1>1, PlaceTaken
  <1>3. PacerTypeOK'
    BY <1>1, <1>2 DEF PacerInv, PacerTypeOK
  <1>4. PtsUnique' /\ Given'
    BY <1>1 DEF PacerInv, PtsUnique, Given
  <1>5. accepted \in Seq(Nat) /\ Len(accepted) \in Nat /\ steady \in Nat
    BY LenProperties DEF PacerInv, PacerTypeOK
  <1>6. Spaced'
    BY <1>1, <1>5 DEF PacerInv, Spaced, Steady
  <1>7. Rated'
    <2>1. ASSUME NEW i \in Len(accepted) - Steady(stamp) + 1 .. Len(accepted)
          PROVE  nextStamp' > accepted[i] + Gap(Len(accepted) - i)
      <3> DEFINE d == Len(accepted) - i
      <3>1. i \in 1 .. Len(accepted) /\ accepted[i] \in Nat
        BY <1>2, <1>5, <2>1
      <3>2. d \in Nat
        BY <1>5, <3>1
      <3> HIDE DEF d
      <3>3. Gap(d) \in Nat /\ Gap(d + 1) = Gap(d) + Interval
        BY <3>2, GapGrows
      <3>4. nextStamp' > accepted[i] + Gap(d + 1)
        BY <1>2, <2>1 DEF d
      <3>5. nextStamp' > accepted[i] + Gap(d)
        BY <1>2, <3>1, <3>3, <3>4
      <3> QED BY <3>5 DEF d
    <2> QED BY <1>1, <1>2, <2>1 DEF Rated
  <1> QED BY <1>2, <1>3, <1>4, <1>6, <1>7 DEF PacerInv

(* A stamp more keeps the stamps apart, whether the deque grows or forgets *)
(* its oldest.                                                             *)
LEMMA RateExtends ==
  ASSUME NEW s \in Seq(Nat), Len(s) <= Window, NEW k \in Nat, k <= Len(s),
         NEW x \in Nat, NEW next \in Nat, next > x,
         \A i \in Len(s) - k + 1 .. Len(s) :
           next > s[i] + Gap(Len(s) - i + 1) /\ x - s[i] > Gap(Len(s) - i),
         \A i, j \in Len(s) - k + 1 .. Len(s) : i < j => s[j] - s[i] > Gap(j - i - 1),
         NEW r, r = Latest(Append(s, x)),
         NEW m, m = IF k < Window THEN k + 1 ELSE Window
  PROVE  /\ m \in 1 .. Len(r)
         /\ \A i \in Len(r) - m + 1 .. Len(r) : next > r[i] + Gap(Len(r) - i)
         /\ \A i, j \in Len(r) - m + 1 .. Len(r) : i < j => r[j] - r[i] > Gap(j - i - 1)
  <1> DEFINE l == Len(s)
             n == Len(r)
             shift == l + 1 - n
  <1>1. /\ l \in Nat /\ l <= Window /\ n = IF l < Window THEN l + 1 ELSE Window
        /\ \A i \in 1 .. n : r[i] = IF i = n THEN x ELSE s[i + shift]
    BY LenProperties, LatestKeeps
  <1>2. \A i \in l - k + 1 .. l : /\ next > s[i] + Gap(l - i + 1)
                                  /\ x - s[i] > Gap(l - i)
    OBVIOUS
  <1>3. \A i, j \in l - k + 1 .. l : i < j => s[j] - s[i] > Gap(j - i - 1)
    OBVIOUS
  <1>4. k <= l /\ \A i \in 1 .. l : s[i] \in Nat
    OBVIOUS
  <1> HIDE DEF l, n
  <1>5. n \in Nat \ {0} /\ shift \in {0, 1} /\ m \in 1 .. n /\ n - m + shift >= l - k
    BY <1>1, <1>4
  <1>6. \A i \in n - m + 1 .. n - 1 :
          /\ i + shift \in l - k + 1 .. l /\ i + shift \in 1 .. l /\ r[i] = s[i + shift]
          /\ n - i = l - (i + shift) + 1 /\ n - i - 1 = l - (i + shift)
    BY <1>1, <1>4, <1>5
  <1>7. r[n] = x
    BY <1>1, <1>5
  <1>8. ASSUME NEW i \in n - m + 1 .. n
        PROVE  next > r[i] + Gap(n - i)
    <2>1. CASE i = n
      <3>1. n - i = 0
        BY <1>5, <2>1
      <3>2. r[i] = x /\ Gap(n - i) = 0
        BY <1>7, <2>1, <3>1, NoGap
      <3> QED BY <3>2
    <2>2. CASE i # n
      <3>1. i \in n - m + 1 .. n - 1
        BY <1>5, <2>2
      <3>2. next > s[i + shift] + Gap(l - (i + shift) + 1)
        BY <1>2, <1>6, <3>1
      <3> QED BY <1>6, <3>1, <3>2
    <2> QED BY <2>1, <2>2
  <1>9. ASSUME NEW i \in n - m + 1 .. n, NEW j \in n - m + 1 .. n, i < j
        PROVE  r[j] - r[i] > Gap(j - i - 1)
    <2>1. i \in n - m + 1 .. n - 1
      BY <1>5, <1>9
    <2>2. CASE j = n
      <3>1. x - s[i + shift] > Gap(l - (i + shift))
        BY <1>2, <1>6, <2>1
      <3> QED BY <1>6, <1>7, <2>1, <2>2, <3>1
    <2>3. CASE j # n
      <3>1. j \in n - m + 1 .. n - 1
        BY <1>5, <2>3
      <3>2. i + shift < j + shift /\ (j + shift) - (i + shift) - 1 = j - i - 1
        BY <1>5, <1>9
      <3>3. s[j + shift] - s[i + shift] > Gap((j + shift) - (i + shift) - 1)
        BY <1>3, <1>6, <2>1, <3>1, <3>2
      <3> QED BY <1>6, <2>1, <3>1, <3>2, <3>3
    <2> QED BY <2>2, <2>3
  <1> QED BY <1>5, <1>8, <1>9 DEF n

(* A frame is accepted: its presentation time is new, and the frames that  *)
(* came steadily before it are as many intervals old as they are far.      *)
LEMMA AcceptStep ==
  ASSUME PacerInv, NEW t \in Threads, NEW stamp \in Nat, hand[t] = NoFrame,
         Accept(t, stamp)
  PROVE  PacerInv'
  <1>1. /\ TakePlace(stamp) /\ clock' \in {clock + d : d \in Advances} /\ lastPts' = Pts(clock')
        /\ frameSequence' = frameSequence + 1
        /\ accepted' = Latest(Append(accepted, stamp))
        /\ steady' = IF Steady(stamp) < Window THEN Steady(stamp) + 1 ELSE Window
        /\ hand' = [hand EXCEPT ![t] = [stamp |-> stamp, pts |-> lastPts']]
        /\ pushed' = pushed
    BY DEF Accept
  <1>2. /\ nextStamp' \in Nat /\ lastInput' \in Nat /\ slot' \in Nat /\ NoStall'
        /\ nextStamp' > stamp /\ Steady(stamp) \in Nat /\ Steady(stamp) <= Len(accepted)
        /\ \A i \in Len(accepted) - Steady(stamp) + 1 .. Len(accepted) :
             /\ nextStamp' > accepted[i] + Gap(Len(accepted) - i + 1)
             /\ stamp - accepted[i] > Gap(Len(accepted) - i)
    BY <1>1, PlaceTaken
  <1>3. /\ accepted \in Seq(Nat) /\ Len(accepted) \in Nat /\ steady \in Nat
        /\ Len(accepted) <= Window
    BY LenProperties DEF PacerInv, PacerTypeOK
  <1>4. /\ accepted' \in Seq(Nat)
        /\ Len(accepted') = IF Len(accepted) < Window THEN Len(accepted) + 1 ELSE Window
        /\ \A i \in 1 .. Len(accepted') :
             accepted'[i] = IF i = Len(accepted') THEN stamp
                            ELSE accepted[i + (Len(accepted) + 1 - Len(accepted'))]
    BY <1>1, <1>3, LatestKeeps
  <1>5. clock' \in Nat /\ lastPts' \in Nat /\ lastPts' > lastPts
    <2>1. clock' \in Nat /\ lastPts \in Nat \cup {None}
      BY <1>1, PacerAssumption DEF PacerInv, PacerTypeOK
    <2>2. Pts(clock') \in Nat /\ Pts(clock') > lastPts
      BY <2>1, PtsGrows
    <2> QED BY <1>1, <2>1, <2>2
  <1>6. PacerTypeOK'
    <2>1. hand' \in [Threads -> Frame]
      BY <1>1, <1>5 DEF PacerInv, PacerTypeOK, Frame
    <2>2. frameSequence \in Nat /\ Steady(stamp) + 1 \in Nat /\ Window \in Nat
          /\ pushed \in Nat \cup {None}
      BY <1>2, PacerAssumption DEF PacerInv, PacerTypeOK
    <2>3. frameSequence' \in Nat /\ steady' \in Nat /\ pushed' \in Nat \cup {None}
      BY <1>1, <2>2
    <2> QED BY <1>2, <1>3, <1>4, <1>5, <2>1, <2>3 DEF PacerTypeOK
  <1>7. /\ hand'[t].pts = lastPts' /\ \A u \in Threads \ {t} : hand'[u] = hand[u]
        /\ \A u \in Threads : hand[u].pts \in Nat \cup {None}
    BY <1>1 DEF PacerInv, PacerTypeOK, Frame
  <1>8. PtsUnique' /\ Given'
    <2>1. /\ pushed <= lastPts /\ pushed \in Nat \cup {None} /\ lastPts \in Nat \cup {None}
          /\ \A u \in Threads : hand[u] # NoFrame =>
               /\ hand[u].pts <= lastPts /\ hand[u].pts # pushed
               /\ \A v \in Threads \ {u} : hand[v] # NoFrame => hand[v].pts # hand[u].pts
      BY DEF PacerInv, PacerTypeOK, PtsUnique, Given
    <2>2. \A u \in Threads : hand'[u] # NoFrame =>
            /\ hand'[u].pts <= lastPts' /\ hand'[u].pts # pushed
            /\ \A v \in Threads \ {u} : hand'[v] # NoFrame => hand'[v].pts # hand'[u].pts
      BY <1>5, <1>7, <2>1
    <2> QED BY <1>1, <1>5, <2>1, <2>2 DEF PtsUnique, Given
  <1>9. \A i, j \in Len(accepted) - Steady(stamp) + 1 .. Len(accepted) :
          i < j => accepted[j] - accepted[i] > Gap(j - i - 1)
    BY <1>3 DEF PacerInv, Spaced, Steady
  <1>10. /\ steady' \in 1 .. Len(accepted')
         /\ \A i \in Len(accepted') - steady' + 1 .. Len(accepted') :
              nextStamp' > accepted'[i] + Gap(Len(accepted') - i)
         /\ \A i, j \in Len(accepted') - steady' + 1 .. Len(accepted') :
              i < j => accepted'[j] - accepted'[i] > Gap(j - i - 1)
    BY <1>1, <1>2, <1>3, <1>9, RateExtends
  <1>11. Spaced'
    BY <1>10 DEF Spaced
  <1>12. Rated'
    <2>1. Len(accepted') \in Nat
      BY <1>4, LenProperties
    <2> QED BY <1>2, <1>10, <2>1 DEF Rated
  <1> QED BY <1>2, <1>6, <1>8, <1>11, <1>12 DEF PacerInv

(* A buffer leaves the hand of its thread. *)
LEMMA PushStep ==
  ASSUME PacerInv, NEW t \in Threads, PushBuffer(t)
  PROVE  PacerInv'
  <1>1. /\ hand[t] # NoFrame /\ hand' = [hand EXCEPT ![t] = NoFrame]
        /\ pushed' = hand[t].pts
        /\ UNCHANGED <<nextStamp, lastInput, lastPts, frameSequence, accepted, clock, slot,
                       steady>>
    BY DEF PushBuffer
  <1>2. PacerTypeOK'
    BY <1>1 DEF PacerInv, PacerTypeOK, Frame, NoFrame
  <1>3. hand'[t] = NoFrame /\ \A u \in Threads \ {t} : hand'[u] = hand[u]
    BY <1>1 DEF PacerInv, PacerTypeOK
  <1>4. PtsUnique' /\ Given'
    BY <1>1, <1>3 DEF PacerInv, PtsUnique, Given
  <1>5. NoStall' /\ Spaced' /\ Rated'
    BY <1>1 DEF PacerInv, NoStall, Spaced, Rated
  <1> QED BY <1>2, <1>4, <1>5 DEF PacerInv

(* The timing of a source starts afresh. *)
LEMMA ResetStep == ASSUME PacerInv, ResetSourceTiming PROVE PacerInv'
  <1>1. /\ nextStamp' = None /\ lastInput' = None /\ accepted' = <<>> /\ steady' = 0
        /\ UNCHANGED <<lastPts, frameSequence, clock, hand, pushed, slot>>
    BY DEF ResetSourceTiming
  <1>2. <<>> \in Seq(Nat) /\ Len(<<>>) = 0
    OBVIOUS
  <1>3. PacerTypeOK'
    BY <1>1, <1>2 DEF PacerInv, PacerTypeOK
  <1>4. PtsUnique' /\ Given' /\ NoStall'
    BY <1>1 DEF PacerInv, PtsUnique, Given, NoStall
  <1>5. Spaced' /\ Rated'
    BY <1>1, <1>2 DEF Spaced, Rated
  <1> QED BY <1>3, <1>4, <1>5 DEF PacerInv

(* Together: every step of the pacer. *)
LEMMA PacerStep == PacerInv /\ [PacerNext]_pacerVars => PacerInv'
  <1> SUFFICES ASSUME PacerInv, [PacerNext]_pacerVars PROVE PacerInv'
    OBVIOUS
  <1>1. ASSUME NEW t \in Threads, NEW stamp \in Stamps, PlaceFrame(t, stamp)
        PROVE  PacerInv'
    <2>1. stamp \in Nat
      BY DEF Stamps
    <2> QED BY <1>1, <2>1, RefuseStep, LoseStep, AcceptStep DEF PlaceFrame
  <1>2. ASSUME NEW t \in Threads, PushBuffer(t)
        PROVE  PacerInv'
    BY <1>2, PushStep
  <1>3. CASE ResetSourceTiming
    BY <1>3, ResetStep
  <1>4. CASE UNCHANGED pacerVars
    BY <1>4 DEF pacerVars, PacerInv, PacerTypeOK, PtsUnique, NoStall, Spaced, Given,
       Rated
  <1> QED BY <1>1, <1>2, <1>3, <1>4 DEF PacerNext

(* The pacer's invariant always holds. *)
LEMMA PacerInvariant == PacerSpec => []PacerInv
  BY PacerInitInv, PacerStep, PTL DEF PacerSpec

(* Every variable keeps its type, and the deque its length (push_frame). *)
THEOREM PacerTypeCorrect == PacerSpec => []PacerTypeOK
  <1>1. PacerInv => PacerTypeOK
    BY DEF PacerInv
  <1> QED BY <1>1, PacerInvariant, PTL

(* No two frames on their way share a presentation time, for any number of *)
(* threads (push_frame).                                                   *)
THEOREM PtsUniqueHolds == PacerSpec => []PtsUnique
  <1>1. PacerInv => PtsUnique
    BY DEF PacerInv
  <1> QED BY <1>1, PacerInvariant, PTL

(* A source waits an interval at most, whatever its stamps (push_frame). *)
THEOREM NoStallHolds == PacerSpec => []NoStall
  <1>1. PacerInv => NoStall
    BY DEF PacerInv
  <1> QED BY <1>1, PacerInvariant, PTL

(* Frames are accepted at the rate asked for, for every interval, deque    *)
(* and jitter (push_frame).                                                *)
THEOREM RateBoundedHolds == PacerSpec => []RateBounded
  <1>1. PacerInv => RateBounded
    BY DEF PacerInv, Spaced, RateBounded, Gap
  <1> QED BY <1>1, PacerInvariant, PTL

----------------------------------------------------------------------------
(* The detector: it paces its frames. *)

USE SourceAssumption

(* Every step of the detector is a step of the pacer or leaves it alone. *)
LEMMA NextPaces == [Next]_vars => [PacerNext]_pacerVars
  <1> SUFFICES ASSUME [Next]_vars PROVE [PacerNext]_pacerVars
    OBVIOUS
  <1>1. CASE \E t \in Topics : Request(t)
    BY <1>1 DEF Request
  <1>2. CASE RefreshStep
    BY <1>2 DEF RefreshStep, Refresh, Subscribe, SetTopic, ResetTiming, PublishStatus,
       PublishResult, BroadcastStatus, PacerNext
  <1>3. CASE CheckInferredFrame
    BY <1>3 DEF CheckInferredFrame
  <1>4. CASE \E stamp \in Stamps : OnWebrtcCameraImage(stamp) \/ PushInferredFrame(stamp)
    BY <1>4 DEF OnWebrtcCameraImage, PushInferredFrame, PacerNext
  <1>5. CASE \E t \in Threads : PushFrameBuffer(t)
    BY <1>5 DEF PushFrameBuffer, PacerNext
  <1>6. CASE UNCHANGED vars
    BY <1>6 DEF vars
  <1> QED BY <1>1, <1>2, <1>3, <1>4, <1>5, <1>6 DEF Next

(* What is proved of the pacer holds of the detector: its frames have      *)
(* unique presentation times and no source waits for long.                 *)
LEMMA DetectorPaces == Spec => PacerSpec
  <1>1. Init => PacerInit
    BY DEF Init
  <1> QED BY <1>1, NextPaces, PTL DEF Spec, PacerSpec

----------------------------------------------------------------------------
(* The switch of the source.                                               *)

RefreshPoints == {"idle", "subscribe", "topic", "reset", "status", "broadcast"}
Refreshes == [point : RefreshPoints, requested : Topics \cup {""}, error : Errors]

SwitchTypes ==
  /\ topic \in Topics /\ pending \in Topics \cup {""} /\ error \in Errors
  /\ available \in BOOLEAN /\ subscription \in BOOLEAN /\ subscriptions \in Nat
  /\ signature \in {NoSignature} \cup (Topics \X Errors \X BOOLEAN)
  /\ refresh \in Refreshes
  /\ checked \in BOOLEAN /\ crossed \in BOOLEAN /\ stale \in Nat
  /\ told \in [selected : Topics \cup {""}, error : Errors]

Switching ==
  /\ refresh.point \in {"subscribe", "topic"} =>
       refresh.requested \in Topics /\ refresh.requested # topic
  /\ subscription = (topic = "camera")
  /\ subscriptions = (IF topic = "camera" THEN 1 ELSE 0)
                     + IF refresh.point = "topic" /\ refresh.requested = "camera"
                       THEN 1 ELSE 0

(* Camera frames are handled between refreshes only; an inferred frame is  *)
(* either about to be pushed or on its way, and none follows it to the     *)
(* camera's video.                                                         *)
Frames ==
  /\ hand["stream"] # NoFrame => topic = "camera" /\ refresh.point = "idle"
  /\ ~(checked /\ hand["inference"] # NoFrame)
  /\ topic = "yolo" => stale = 0
  /\ topic = "camera" =>
       IF checked \/ hand["inference"] # NoFrame THEN stale = 0 /\ crossed ELSE stale <= 1

(* Until a frame crosses a switch one frame is on its way at most, and it  *)
(* is later than the last.                                                 *)
Ordered ==
  ~crossed => \A t \in Threads : hand[t] # NoFrame => pushed < hand[t].pts

(* Browsers know what the signature says, and between refreshes that is    *)
(* the selected topic.                                                     *)
Signed ==
  told # Nothing =>
    /\ refresh.point # "broadcast" => told.selected = signature[1]
    /\ refresh.point \in {"idle", "subscribe", "topic"} => signature[1] = topic

SwitchInv == PacerInv /\ SwitchTypes /\ Switching /\ Frames /\ Ordered
             /\ Signed /\ (refresh.point = "broadcast" => signature[1] = topic)

(* Initially it holds. *)
LEMMA SwitchInitInv == Init => SwitchInv
  <1> SUFFICES ASSUME Init PROVE SwitchInv
    OBVIOUS
  <1>1. PacerInv
    BY PacerInitInv DEF Init
  <1>2. SwitchTypes
    <2>1. /\ Idle \in Refreshes
          /\ Nothing \in [selected : Topics \cup {""}, error : Errors]
      BY DEF Idle, Nothing, Refreshes, RefreshPoints, Errors
    <2> QED BY <2>1 DEF Init, SwitchTypes, Topics, Errors
  <1>3. Switching
    <2>1. /\ topic = "yolo" /\ subscriptions = 0 /\ refresh.point = "idle"
          /\ subscription = FALSE
      BY DEF Init, Idle
    <2>2. subscription = (topic = "camera")
      BY <2>1
    <2> QED BY <2>1, <2>2 DEF Switching
  <1>4. Frames /\ Ordered /\ Signed /\ (refresh.point = "broadcast" => signature[1] = topic)
    BY DEF Init, PacerInit, Frames, Ordered, Signed, Idle
  <1> QED BY <1>1, <1>2, <1>3, <1>4 DEF SwitchInv

(* The callback goes on. *)
LEMMA GoTo ==
  ASSUME refresh \in Refreshes, NEW point \in RefreshPoints, Go(point)
  PROVE  /\ refresh' \in Refreshes /\ refresh'.point = point
         /\ refresh'.requested = refresh.requested /\ refresh'.error = refresh.error
  BY DEF Go, Refreshes

(* A request changes nothing that is switched. *)
LEMMA RequestKeeps ==
  ASSUME SwitchInv, PacerInv', NEW t \in Topics, Request(t)
  PROVE  SwitchInv'
  <1>1. SwitchTypes'
    BY DEF SwitchInv, SwitchTypes, Request, Errors
  <1>2. Switching' /\ Signed' /\ (refresh'.point = "broadcast" => signature'[1] = topic')
    BY DEF SwitchInv, Switching, Signed, Request
  <1>3. Frames' /\ Ordered'
    BY DEF SwitchInv, Frames, Ordered, Request, pacerVars
  <1> QED BY <1>1, <1>2, <1>3 DEF SwitchInv

(* What a refresh does not touch of the frames stays in order. *)
LEMMA FramesKept ==
  ASSUME SwitchInv, UNCHANGED <<hand, pushed, topic, checked, stale, crossed>>,
         refresh.point # "idle" \/ hand["stream"] = NoFrame
  PROVE  Frames' /\ Ordered'
  BY DEF SwitchInv, Frames, Ordered

(* Each step of the timer's callback. *)
LEMMA RefreshKeeps ==
  ASSUME SwitchInv, PacerInv', Refresh
  PROVE  SwitchInv'
  <1>1. /\ refresh.point = "idle" /\ hand["stream"] = NoFrame /\ pending' = ""
        /\ available' \in BOOLEAN
        /\ UNCHANGED <<hand, pushed, topic, error, subscription, subscriptions, signature,
                       checked, told, stale, crossed>>
    BY DEF Refresh, At, pacerVars
  <1>2. /\ refresh' \in Refreshes /\ refresh'.point \in {"subscribe", "status"}
        /\ refresh'.requested \in Topics
        /\ refresh'.point = "subscribe" => refresh'.requested # topic
    <2>1. PICK camera \in BOOLEAN :
            LET wanted == IF pending # "" THEN pending ELSE topic
                requested == IF camera THEN wanted ELSE "yolo"
            IN  refresh' = [point |-> IF requested # topic THEN "subscribe" ELSE "status",
                            requested |-> requested,
                            error |-> IF camera THEN "" ELSE Unavailable(wanted)]
      BY DEF Refresh
    <2>2. topic \in Topics /\ pending \in Topics \cup {""}
      BY DEF SwitchInv, SwitchTypes
    <2> QED BY <2>1, <2>2 DEF Refreshes, RefreshPoints, Unavailable, Errors, Topics
  <1>3. SwitchTypes'
    BY <1>1, <1>2 DEF SwitchInv, SwitchTypes
  <1>4. Switching'
    BY <1>1, <1>2 DEF SwitchInv, Switching
  <1>5. Frames' /\ Ordered'
    BY <1>1, FramesKept
  <1>6. Signed' /\ (refresh'.point = "broadcast" => signature'[1] = topic')
    BY <1>1, <1>2 DEF SwitchInv, Signed
  <1> QED BY <1>3, <1>4, <1>5, <1>6 DEF SwitchInv

(* A subscription is created or fails (_switch_webrtc_source). *)
LEMMA SubscribeKeeps ==
  ASSUME SwitchInv, PacerInv', Subscribe
  PROVE  SwitchInv'
  <1>1. /\ refresh.point = "subscribe"
        /\ UNCHANGED <<hand, pushed, topic, pending, error, available, subscription,
                       signature, checked, told, stale, crossed>>
    BY DEF Subscribe, At, pacerVars
  <1>2. refresh.requested \in Topics /\ refresh.requested # topic /\ refresh \in Refreshes
    BY <1>1 DEF SwitchInv, Switching, SwitchTypes
  <1>3. /\ refresh' \in Refreshes
        /\ \/ /\ refresh'.point = "topic" /\ refresh'.requested = refresh.requested
              /\ subscriptions' = IF refresh.requested = "camera" THEN subscriptions + 1
                                                                  ELSE subscriptions
           \/ refresh'.point = "status" /\ subscriptions' = subscriptions
    <2>1. CASE Go("topic")
      BY <1>2, <2>1, GoTo DEF Subscribe, GiveUp, RefreshPoints, Refreshes
    <2>2. CASE refresh' = [refresh EXCEPT !.point = "status", !.error = "failed to switch"]
      <3>1. refresh' \in Refreshes /\ refresh'.point = "status"
        BY <1>2, <2>2 DEF Refreshes, RefreshPoints, Errors
      <3> QED BY <3>1, GoTo, <1>2 DEF Subscribe, RefreshPoints
    <2> QED BY <2>1, <2>2 DEF Subscribe, GiveUp
  <1>4. subscriptions' \in Nat
    <2>1. subscriptions \in Nat
      BY DEF SwitchInv, SwitchTypes
    <2>2. subscriptions' \in {subscriptions, subscriptions + 1}
      BY <1>3
    <2> QED BY <2>1, <2>2
  <1>5. SwitchTypes'
    BY <1>1, <1>3, <1>4 DEF SwitchInv, SwitchTypes
  <1>6. Switching'
    <2>1. subscriptions = IF topic = "camera" THEN 1 ELSE 0
      BY <1>1 DEF SwitchInv, Switching
    <2>2. subscription = (topic = "camera")
      BY DEF SwitchInv, Switching
    <2> QED BY <1>1, <1>2, <1>3, <2>1, <2>2 DEF Switching
  <1>7. Frames' /\ Ordered'
    BY <1>1, FramesKept
  <1>8. Signed' /\ (refresh'.point = "broadcast" => signature'[1] = topic')
    BY <1>1, <1>3 DEF SwitchInv, Signed
  <1> QED BY <1>5, <1>6, <1>7, <1>8 DEF SwitchInv

(* The topic is set and the old subscription goes (_switch_webrtc_source). *)
LEMMA SetTopicKeeps ==
  ASSUME SwitchInv, PacerInv', SetTopic
  PROVE  SwitchInv'
  <1>1. /\ refresh.point = "topic" /\ topic' = refresh.requested
        /\ subscription' = (refresh.requested = "camera")
        /\ subscriptions' = IF subscription THEN subscriptions - 1 ELSE subscriptions
        /\ stale' = 0 /\ crossed' = (checked \/ hand["inference"] # NoFrame)
        /\ UNCHANGED <<hand, pushed, pending, error, available, signature, checked, told>>
    BY DEF SetTopic, At, DestroyOld, pacerVars
  <1>2. /\ refresh.requested \in Topics /\ refresh.requested # topic /\ refresh \in Refreshes
        /\ topic \in Topics
    BY <1>1 DEF SwitchInv, Switching, SwitchTypes
  <1>3. refresh' \in Refreshes /\ refresh'.point = "reset"
    BY <1>2, GoTo DEF SetTopic, RefreshPoints
  <1>4. subscriptions' = IF topic' = "camera" THEN 1 ELSE 0
    <2>1. CASE topic = "camera"
      <3>1. refresh.requested = "yolo" /\ subscriptions = 1
        BY <1>1, <1>2, <2>1 DEF SwitchInv, Switching, Topics
      <3>2. subscription
        BY <2>1 DEF SwitchInv, Switching
      <3> QED BY <1>1, <3>1, <3>2
    <2>2. CASE topic = "yolo"
      <3>1. refresh.requested = "camera" /\ subscriptions = 1
        BY <1>1, <1>2, <2>2 DEF SwitchInv, Switching, Topics
      <3>2. ~subscription
        BY <2>2 DEF SwitchInv, Switching
      <3> QED BY <1>1, <3>1, <3>2
    <2> QED BY <1>2, <2>1, <2>2 DEF Topics
  <1>5. SwitchTypes'
    <2>1. subscription' \in BOOLEAN /\ crossed' \in BOOLEAN
      BY <1>1
    <2>2. subscriptions' \in Nat /\ stale' \in Nat
      BY <1>1, <1>4
    <2>3. /\ pending' \in Topics \cup {""} /\ error' \in Errors /\ available' \in BOOLEAN
          /\ signature' \in {NoSignature} \cup (Topics \X Errors \X BOOLEAN)
          /\ checked' \in BOOLEAN /\ told' \in [selected : Topics \cup {""}, error : Errors]
      BY <1>1 DEF SwitchInv, SwitchTypes
    <2> QED BY <1>1, <1>2, <1>3, <2>1, <2>2, <2>3 DEF SwitchTypes
  <1>6. Switching'
    <2>1. subscription' = (topic' = "camera")
      BY <1>1
    <2> QED BY <1>3, <1>4, <2>1 DEF Switching
  <1>7. Frames'
    <2>1. /\ hand["stream"] = NoFrame /\ ~(checked /\ hand["inference"] # NoFrame)
      BY <1>1 DEF SwitchInv, Frames
    <2>2. checked \/ hand["inference"] # NoFrame => crossed'
      BY <1>1
    <2>3. hand' = hand /\ checked' = checked /\ stale' = 0
      BY <1>1
    <2> QED BY <2>1, <2>2, <2>3 DEF Frames
  <1>8. Ordered'
    <2>1. ~crossed' => hand["inference"] = NoFrame /\ hand["stream"] = NoFrame
      BY <1>1 DEF SwitchInv, Frames
    <2> QED BY <1>1, <2>1 DEF Ordered
  <1>9. Signed' /\ (refresh'.point = "broadcast" => signature'[1] = topic')
    BY <1>1, <1>3 DEF SwitchInv, Signed
  <1> QED BY <1>5, <1>6, <1>7, <1>8, <1>9 DEF SwitchInv

(* The timing is reset (reset_source_timing). *)
LEMMA ResetKeeps ==
  ASSUME SwitchInv, PacerInv', ResetTiming
  PROVE  SwitchInv'
  <1>1. /\ refresh.point = "reset"
        /\ UNCHANGED <<hand, pushed, topic, pending, error, available, subscription,
                       subscriptions, signature, checked, told, stale, crossed>>
    BY DEF ResetTiming, ResetSourceTiming, At
  <1>2. refresh' \in Refreshes /\ refresh'.point = "status"
    BY GoTo DEF ResetTiming, RefreshPoints, SwitchInv, SwitchTypes
  <1>3. SwitchTypes'
    BY <1>1, <1>2 DEF SwitchInv, SwitchTypes
  <1>4. Switching'
    BY <1>1, <1>2 DEF SwitchInv, Switching
  <1>5. Frames' /\ Ordered'
    BY <1>1, FramesKept
  <1>6. Signed' /\ (refresh'.point = "broadcast" => signature'[1] = topic')
    BY <1>1, <1>2 DEF SwitchInv, Signed
  <1> QED BY <1>3, <1>4, <1>5, <1>6 DEF SwitchInv

(* The result is recorded (_refresh_webrtc_sources). *)
LEMMA PublishKeeps ==
  ASSUME SwitchInv, PacerInv', PublishStatus
  PROVE  SwitchInv'
  <1>1. /\ refresh.point = "status" /\ signature' = <<topic, refresh.error, available>>
        /\ error' = refresh.error
        /\ IF SignatureNow # signature THEN Go("broadcast") ELSE refresh' = Idle
        /\ UNCHANGED <<hand, pushed, topic, pending, available, subscription, subscriptions,
                       checked, told, stale, crossed>>
    BY DEF PublishStatus, PublishResult, At, SignatureNow, pacerVars
  <1>2. /\ refresh \in Refreshes /\ refresh.error \in Errors /\ Idle \in Refreshes
        /\ Idle.point = "idle"
    BY DEF SwitchInv, SwitchTypes, Refreshes, Idle, RefreshPoints, Errors
  <1>3. /\ refresh' \in Refreshes
        /\ \/ refresh'.point = "broadcast"
           \/ refresh'.point = "idle" /\ signature' = signature
    <2>1. CASE SignatureNow # signature
      BY <1>1, <1>2, <2>1, GoTo DEF RefreshPoints
    <2>2. CASE SignatureNow = signature
      BY <1>1, <1>2, <2>2 DEF SignatureNow
    <2> QED BY <2>1, <2>2
  <1>4. signature'[1] = topic'
    BY <1>1
  <1>5. SwitchTypes'
    <2>1. signature' \in Topics \X Errors \X BOOLEAN
      BY <1>1, <1>2 DEF SwitchInv, SwitchTypes
    <2> QED BY <1>1, <1>2, <1>3, <2>1 DEF SwitchInv, SwitchTypes
  <1>6. Switching'
    BY <1>1, <1>3 DEF SwitchInv, Switching
  <1>7. Frames' /\ Ordered'
    BY <1>1, FramesKept
  <1>8. Signed'
    BY <1>1, <1>3, <1>4 DEF SwitchInv, Signed
  <1> QED BY <1>4, <1>5, <1>6, <1>7, <1>8 DEF SwitchInv

(* Browsers are told (_webrtc_source_status). *)
LEMMA BroadcastKeeps ==
  ASSUME SwitchInv, PacerInv', BroadcastStatus
  PROVE  SwitchInv'
  <1>1. /\ refresh.point = "broadcast" /\ refresh' = Idle
        /\ told' = [selected |-> topic, error |-> error]
        /\ UNCHANGED <<hand, pushed, topic, pending, error, available, subscription,
                       subscriptions, signature, checked, stale, crossed>>
    BY DEF BroadcastStatus, At, pacerVars
  <1>2. Idle \in Refreshes /\ Idle.point = "idle"
    BY DEF Idle, Refreshes, RefreshPoints, Errors
  <1>3. SwitchTypes'
    BY <1>1, <1>2 DEF SwitchInv, SwitchTypes
  <1>4. Switching'
    BY <1>1, <1>2 DEF SwitchInv, Switching
  <1>5. Frames' /\ Ordered'
    BY <1>1, FramesKept
  <1>6. Signed' /\ (refresh'.point = "broadcast" => signature'[1] = topic')
    BY <1>1, <1>2 DEF SwitchInv, Signed
  <1> QED BY <1>3, <1>4, <1>5, <1>6 DEF SwitchInv

(* A frame that is placed is later than the last one pushed. *)
LEMMA PlacedIsLater ==
  ASSUME PacerInv, NEW t \in Threads, NEW stamp \in Nat, PlaceFrame(t, stamp)
  PROVE  /\ pushed' = pushed /\ hand[t] = NoFrame
         /\ \A u \in Threads \ {t} : hand'[u] = hand[u]
         /\ hand'[t] # NoFrame => pushed < hand'[t].pts
  <1>1. CASE hand' = hand
    BY <1>1 DEF PlaceFrame, Refuse, LoseFrame, Accept
  <1>2. CASE Accept(t, stamp)
    <2>1. /\ clock' \in {clock + d : d \in Advances} /\ lastPts' = Pts(clock')
          /\ hand' = [hand EXCEPT ![t] = [stamp |-> stamp, pts |-> lastPts']]
          /\ pushed' = pushed /\ hand[t] = NoFrame
      BY <1>2 DEF Accept, PlaceFrame
    <2>2. /\ clock \in Nat /\ lastPts \in Nat \cup {None} /\ hand \in [Threads -> Frame]
          /\ pushed <= lastPts /\ pushed \in Nat \cup {None}
      BY DEF PacerInv, PacerTypeOK, Given
    <2>3. clock' \in Nat
      BY <2>1, <2>2, PacerAssumption
    <2>4. Pts(clock') \in Nat /\ Pts(clock') > lastPts
      BY <2>2, <2>3, PtsGrows
    <2>5. hand'[t].pts = lastPts' /\ \A u \in Threads \ {t} : hand'[u] = hand[u]
      BY <2>1, <2>2
    <2> QED BY <2>1, <2>2, <2>4, <2>5
  <1> QED BY <1>1, <1>2 DEF PlaceFrame, Refuse, LoseFrame

(* The camera's callback places its frame between refreshes. *)
LEMMA CameraKeeps ==
  ASSUME SwitchInv, PacerInv', NEW stamp \in Stamps, OnWebrtcCameraImage(stamp)
  PROVE  SwitchInv'
  <1>1. /\ refresh.point = "idle" /\ topic = "camera" /\ UNCHANGED sourceVars
        /\ PlaceFrame("stream", stamp) /\ stamp \in Nat
    BY DEF OnWebrtcCameraImage, At, Stamps
  <1>2. /\ pushed' = pushed /\ hand'["inference"] = hand["inference"]
        /\ hand'["stream"] # NoFrame => pushed < hand'["stream"].pts
    BY <1>1, PlacedIsLater DEF SwitchInv
  <1>3. /\ SwitchTypes' /\ Switching' /\ Signed'
        /\ refresh'.point = "broadcast" => signature'[1] = topic'
    BY <1>1 DEF sourceVars, SwitchInv, SwitchTypes, Switching, Signed
  <1>4. Frames'
    BY <1>1, <1>2 DEF sourceVars, SwitchInv, Frames
  <1>5. Ordered'
    BY <1>1, <1>2 DEF sourceVars, SwitchInv, Ordered
  <1> QED BY <1>3, <1>4, <1>5 DEF SwitchInv

(* Where the switch stands, a frame changes nothing. *)
LEMMA SwitchKept ==
  ASSUME SwitchInv, checked' \in BOOLEAN, crossed' \in BOOLEAN, stale' \in Nat,
         UNCHANGED <<topic, pending, error, available, subscription, subscriptions,
                     signature, refresh, told>>
  PROVE  /\ SwitchTypes' /\ Switching' /\ Signed'
         /\ refresh'.point = "broadcast" => signature'[1] = topic'
  BY DEF SwitchInv, SwitchTypes, Switching, Signed

(* The inference thread looks at the source: nothing of it is on its way.  *)
LEMMA CheckKeeps ==
  ASSUME SwitchInv, PacerInv', CheckInferredFrame
  PROVE  SwitchInv'
  <1>1. /\ ~checked /\ hand["inference"] = NoFrame /\ checked' = (topic = "yolo")
        /\ crossed' = (crossed /\ (checked' \/ \E t \in Threads : hand'[t] # NoFrame))
        /\ UNCHANGED <<hand, pushed, topic, pending, error, available, subscription,
                       subscriptions, signature, refresh, told, stale>>
    BY DEF CheckInferredFrame, CheckSource, Crossing, pacerVars
  <1>2. checked' \in BOOLEAN /\ crossed' \in BOOLEAN /\ stale' \in Nat
    BY <1>1 DEF SwitchInv, SwitchTypes
  <1>3. /\ SwitchTypes' /\ Switching' /\ Signed'
        /\ refresh'.point = "broadcast" => signature'[1] = topic'
    BY <1>1, <1>2, SwitchKept
  <1>4. Frames'
    <2>1. CASE topic = "yolo"
      BY <1>1, <2>1 DEF SwitchInv, Frames
    <2>2. CASE topic # "yolo"
      <3>1. checked' = FALSE
        BY <1>1, <2>2
      <3> QED BY <1>1, <2>2, <3>1 DEF SwitchInv, Frames
    <2> QED BY <2>1, <2>2
  <1>5. Ordered'
    <2>1. CASE crossed
      <3>1. ~crossed' => \A t \in Threads : hand[t] = NoFrame
        BY <1>1, <2>1
      <3> QED BY <1>1, <3>1 DEF Ordered
    <2>2. CASE ~crossed
      BY <1>1, <2>2 DEF SwitchInv, Ordered
    <2> QED BY <2>1, <2>2
  <1> QED BY <1>3, <1>4, <1>5 DEF SwitchInv

(* The inferred frame is placed, whatever the source is by then. *)
LEMMA InferredKeeps ==
  ASSUME SwitchInv, PacerInv', NEW stamp \in Stamps, PushInferredFrame(stamp)
  PROVE  SwitchInv'
  <1>1. /\ checked /\ checked' = FALSE /\ PlaceFrame("inference", stamp) /\ stamp \in Nat
        /\ crossed' = (crossed /\ (checked' \/ \E t \in Threads : hand'[t] # NoFrame))
        /\ UNCHANGED <<topic, pending, error, available, subscription,
                       subscriptions, signature, refresh, told, stale>>
    BY DEF PushInferredFrame, Crossing, Stamps
  <1>2. /\ pushed' = pushed /\ hand'["stream"] = hand["stream"]
        /\ hand["inference"] = NoFrame
        /\ hand'["inference"] # NoFrame => pushed < hand'["inference"].pts
    BY <1>1, PlacedIsLater DEF SwitchInv
  <1>3. checked' \in BOOLEAN /\ crossed' \in BOOLEAN /\ stale' \in Nat
    BY <1>1 DEF SwitchInv, SwitchTypes
  <1>4. /\ SwitchTypes' /\ Switching' /\ Signed'
        /\ refresh'.point = "broadcast" => signature'[1] = topic'
    BY <1>1, <1>3, SwitchKept
  <1>5. Frames'
    <2>1. hand'["inference"] # NoFrame /\ crossed => crossed'
      BY <1>1
    <2>2. /\ hand'["stream"] # NoFrame => topic = "camera" /\ refresh.point = "idle"
          /\ topic = "yolo" => stale = 0
          /\ topic = "camera" => stale = 0 /\ crossed
      BY <1>1, <1>2 DEF SwitchInv, Frames
    <2> QED BY <1>1, <2>1, <2>2 DEF Frames
  <1>6. Ordered'
    <2>1. CASE crossed
      <3>1. ~crossed' => \A t \in Threads : hand'[t] = NoFrame
        BY <1>1, <2>1
      <3> QED BY <3>1 DEF Ordered
    <2>2. CASE ~crossed
      BY <1>2, <2>2 DEF SwitchInv, Ordered
    <2> QED BY <2>1, <2>2
  <1> QED BY <1>4, <1>5, <1>6 DEF SwitchInv

(* A buffer is pushed: of two on their way, one has crossed a switch. *)
LEMMA PushKeeps ==
  ASSUME SwitchInv, PacerInv', NEW t \in Threads, PushFrameBuffer(t)
  PROVE  SwitchInv' /\ (pushed' < pushed => crossed)
  <1>1. /\ hand[t] # NoFrame /\ hand' = [hand EXCEPT ![t] = NoFrame]
        /\ pushed' = hand[t].pts /\ checked' = checked
        /\ stale' = IF t = "inference" /\ topic = "camera" THEN stale + 1 ELSE stale
        /\ crossed' = (crossed /\ (checked' \/ \E u \in Threads : hand'[u] # NoFrame))
        /\ UNCHANGED <<topic, pending, error, available, subscription,
                       subscriptions, signature, refresh, told>>
    BY DEF PushFrameBuffer, PushBuffer, Crossing
  <1>2. /\ hand'[t] = NoFrame /\ \A u \in Threads \ {t} : hand'[u] = hand[u]
        /\ \A u \in Threads : hand[u].pts \in Int
        /\ pushed \in Int
    BY <1>1 DEF SwitchInv, PacerInv, PacerTypeOK, Frame
  <1>3. ~crossed => pushed < hand[t].pts
    BY <1>1 DEF SwitchInv, Ordered
  <1>4. checked' \in BOOLEAN /\ crossed' \in BOOLEAN /\ stale' \in Nat
    <2>1. checked \in BOOLEAN /\ stale \in Nat
      BY DEF SwitchInv, SwitchTypes
    <2>2. stale' \in {stale, stale + 1}
      BY <1>1
    <2>3. crossed' \in BOOLEAN
      BY <1>1
    <2> QED BY <1>1, <2>1, <2>2, <2>3
  <1>5. /\ SwitchTypes' /\ Switching' /\ Signed'
        /\ refresh'.point = "broadcast" => signature'[1] = topic'
    BY <1>1, <1>4, SwitchKept
  <1>6. Frames'
    <2>1. CASE t = "stream"
      <3>1. /\ topic = "camera" /\ stale' = stale
            /\ hand'["inference"] = hand["inference"] /\ hand'["stream"] = NoFrame
        BY <1>1, <1>2, <2>1 DEF SwitchInv, Frames
      <3>2. crossed /\ (checked \/ hand["inference"] # NoFrame) => crossed'
        BY <1>1, <3>1
      <3> QED BY <1>1, <3>1, <3>2 DEF SwitchInv, Frames
    <2>2. CASE t = "inference"
      <3>1. /\ hand'["inference"] = NoFrame /\ hand'["stream"] = hand["stream"] /\ ~checked
            /\ topic = "camera" => stale' = 1
            /\ topic = "yolo" => stale' = 0
        BY <1>1, <1>2, <2>2 DEF SwitchInv, Frames
      <3> QED BY <1>1, <3>1 DEF SwitchInv, Frames
    <2> QED BY <2>1, <2>2
  <1>7. Ordered'
    <2>1. CASE crossed
      <3>1. ~crossed' => \A u \in Threads : hand'[u] = NoFrame
        BY <1>1, <2>1
      <3> QED BY <3>1 DEF Ordered
    <2>2. CASE ~crossed
      <3>1. \A u \in Threads \ {t} : hand[u] = NoFrame
        BY <1>1, <2>2 DEF SwitchInv, Frames, SwitchTypes, Topics
      <3> QED BY <1>2, <3>1 DEF Ordered
    <2> QED BY <2>1, <2>2
  <1> QED BY <1>1, <1>2, <1>3, <1>5, <1>6, <1>7 DEF SwitchInv

(* Together: every step of the detector. *)
LEMMA SwitchStep ==
  ASSUME SwitchInv, [Next]_vars
  PROVE  SwitchInv' /\ (pushed' < pushed => crossed)
  <1>1. PacerInv'
    BY NextPaces, PacerStep DEF SwitchInv
  <1>2. pushed \in Int
    BY DEF SwitchInv, PacerInv, PacerTypeOK
  <1>3. CASE \E t \in Topics : Request(t)
    <2>1. pushed' = pushed
      BY <1>3 DEF Request, pacerVars
    <2> QED BY <1>1, <1>2, <1>3, <2>1, RequestKeeps
  <1>4. CASE RefreshStep
    <2>1. pushed' = pushed
      BY <1>4 DEF RefreshStep, Refresh, Subscribe, SetTopic, ResetTiming, ResetSourceTiming,
         PublishStatus, PublishResult, BroadcastStatus, pacerVars
    <2> QED BY <1>1, <1>2, <1>4, <2>1, RefreshKeeps, SubscribeKeeps, SetTopicKeeps,
               ResetKeeps, PublishKeeps, BroadcastKeeps DEF RefreshStep
  <1>5. CASE CheckInferredFrame
    BY <1>1, <1>2, <1>5, CheckKeeps DEF CheckInferredFrame, pacerVars
  <1>6. ASSUME NEW stamp \in Stamps, OnWebrtcCameraImage(stamp)
        PROVE  SwitchInv' /\ pushed' = pushed
    <2>1. PlaceFrame("stream", stamp) /\ stamp \in Nat
      BY <1>6 DEF OnWebrtcCameraImage, Stamps
    <2> QED BY <1>1, <1>6, <2>1, CameraKeeps, PlacedIsLater DEF SwitchInv
  <1>7. ASSUME NEW stamp \in Stamps, PushInferredFrame(stamp)
        PROVE  SwitchInv' /\ pushed' = pushed
    <2>1. PlaceFrame("inference", stamp) /\ stamp \in Nat
      BY <1>7 DEF PushInferredFrame, Stamps
    <2> QED BY <1>1, <1>7, <2>1, InferredKeeps, PlacedIsLater DEF SwitchInv
  <1>8. CASE \E t \in Threads : PushFrameBuffer(t)
    BY <1>1, <1>8, PushKeeps
  <1>9. CASE UNCHANGED vars
    <2>1. UNCHANGED <<pushed, hand, sourceVars>>
      BY <1>9 DEF vars, pacerVars
    <2>2. SwitchTypes' /\ Switching' /\ Signed'
          /\ (refresh'.point = "broadcast" => signature'[1] = topic')
      BY <2>1 DEF sourceVars, SwitchInv, SwitchTypes, Switching, Signed
    <2>3. Frames' /\ Ordered'
      BY <2>1 DEF sourceVars, SwitchInv, Frames, Ordered
    <2> QED BY <1>1, <1>2, <2>1, <2>2, <2>3 DEF SwitchInv
  <1> QED BY <1>2, <1>3, <1>4, <1>5, <1>6, <1>7, <1>8, <1>9 DEF Next

(* The switch's invariant always holds. *)
LEMMA SwitchInvariant == Spec => []SwitchInv
  <1>1. SwitchInv /\ [Next]_vars => SwitchInv'
    BY SwitchStep
  <1> QED BY <1>1, SwitchInitInv, PTL DEF Spec

(* Every variable keeps its type. *)
THEOREM SwitchTypeCorrect == Spec => []TypeOK
  <1>1. SwitchInv => TypeOK
    <2> SUFFICES ASSUME SwitchInv PROVE TypeOK
      OBVIOUS
    <2>1. subscriptions \in 0 .. 2
      BY DEF SwitchInv, Switching
    <2> QED BY <2>1 DEF SwitchInv, PacerInv, SwitchTypes, TypeOK, Refreshes, RefreshPoints
  <1> QED BY <1>1, SwitchInvariant, PTL

(* The camera is subscribed once if it is selected, and not otherwise      *)
(* (_switch_webrtc_source).                                                *)
THEOREM NoSubscriptionLeakHolds == Spec => []NoSubscriptionLeak
  <1>1. SwitchInv => NoSubscriptionLeak
    BY DEF SwitchInv, Switching, NoSubscriptionLeak, At
  <1> QED BY <1>1, SwitchInvariant, PTL

(* One inferred frame at most follows a switch to the camera, and no       *)
(* camera frame a switch from it.                                          *)
THEOREM OneStaleFrameHolds == Spec => []OneStaleFrame
  <1>1. SwitchInv => OneStaleFrame
    <2> SUFFICES ASSUME SwitchInv PROVE OneStaleFrame
      OBVIOUS
    <2>1. topic \in Topics /\ Frames
      BY DEF SwitchInv, SwitchTypes
    <2>2. stale <= 1
      BY <2>1 DEF Topics, Frames
    <2> QED BY <2>1, <2>2 DEF Frames, OneStaleFrame
  <1> QED BY <1>1, SwitchInvariant, PTL

(* Between refreshes browsers know the selected source. *)
THEOREM SelectionToldHolds == Spec => []SelectionTold
  <1>1. SwitchInv => SelectionTold
    BY DEF SwitchInv, Signed, SelectionTold, At
  <1> QED BY <1>1, SwitchInvariant, PTL

(* Frames are pushed out of order only when one has crossed a switch. *)
THEOREM OutOfOrderHolds == Spec => OutOfOrderOnlyAcrossSwitch
  <1>1. SwitchInv /\ [Next]_vars => [pushed' < pushed => crossed]_vars
    BY SwitchStep
  <1> QED BY <1>1, SwitchInvariant, PTL DEF Spec, OutOfOrderOnlyAcrossSwitch
----------------------------------------------------------------------------
(* Requests. *)

(* Once the topic was to be set, the refresh has an error or the selected  *)
(* source is the one it was for.                                           *)
Served ==
  refresh.point \in {"reset", "status"} => refresh.error # "" \/ topic = refresh.requested

(* The refresh keeps to the source that it is for. *)
LEMMA ServedStep ==
  ASSUME SwitchInv, Served, [Next]_vars
  PROVE  Served' /\ RequestTaken /\ ResultTrue
  <1>a. refresh \in Refreshes /\ topic \in Topics /\ pending \in Topics \cup {""}
    BY DEF SwitchInv, SwitchTypes
  <1>b. "" \notin Topics
    BY DEF Topics
  <1>1. ASSUME UNCHANGED <<topic, refresh>>, UNCHANGED pending \/ pending' \in Topics
        PROVE  Served' /\ RequestTaken /\ ResultTrue
    BY <1>1 DEF Served, RequestTaken, ResultTrue
  <1>2. CASE \E t \in Topics : Request(t)
    BY <1>1, <1>2 DEF Request
  <1>3. CASE Refresh
    <2>1. PICK camera \in BOOLEAN :
            LET wanted == IF pending # "" THEN pending ELSE topic
                requested == IF camera THEN wanted ELSE "yolo"
            IN  refresh' = [point |-> IF requested # topic THEN "subscribe" ELSE "status",
                            requested |-> requested,
                            error |-> IF camera THEN "" ELSE Unavailable(wanted)]
      BY <1>3 DEF Refresh
    <2>2. topic' = topic /\ refresh.point = "idle"
      BY <1>3 DEF Refresh, At
    <2>3. /\ refresh'.point \in {"subscribe", "status"}
          /\ refresh'.point = "status" => topic = refresh'.requested
      BY <2>1
    <2>4. \A t \in Topics : pending = t => refresh'.requested = t \/ refresh'.error # ""
      BY <1>a, <1>b, <2>1 DEF Unavailable
    <2> QED BY <2>2, <2>3, <2>4 DEF Served, RequestTaken, ResultTrue
  <1>4. CASE Subscribe
    <2>1. /\ refresh.point = "subscribe" /\ UNCHANGED <<topic, pending>>
          /\ \/ Go("topic")
             \/ refresh' = [refresh EXCEPT !.point = "status", !.error = "failed to switch"]
      BY <1>4 DEF Subscribe, GiveUp, At
    <2>2. refresh'.point = "topic" \/ (refresh'.point = "status" /\ refresh'.error # "")
      BY <1>a, <2>1 DEF Go, Refreshes
    <2> QED BY <1>b, <2>1, <2>2 DEF Served, RequestTaken, ResultTrue
  <1>5. CASE SetTopic
    <2>1. /\ refresh.point = "topic" /\ topic' = refresh.requested /\ pending' = pending
          /\ Go("reset")
      BY <1>5 DEF SetTopic, At
    <2>2. refresh'.requested = refresh.requested
      BY <1>a, <2>1, GoTo DEF RefreshPoints
    <2> QED BY <1>b, <2>1, <2>2 DEF Served, RequestTaken, ResultTrue
  <1>6. CASE ResetTiming
    <2>1. refresh.point = "reset" /\ UNCHANGED <<topic, pending>> /\ Go("status")
      BY <1>6 DEF ResetTiming, At
    <2>2. refresh'.requested = refresh.requested /\ refresh'.error = refresh.error
      BY <1>a, <2>1, GoTo DEF RefreshPoints
    <2> QED BY <1>b, <2>1, <2>2 DEF Served, RequestTaken, ResultTrue
  <1>7. CASE PublishStatus
    <2>1. /\ refresh.point = "status" /\ UNCHANGED <<topic, pending>> /\ error' = refresh.error
          /\ Go("broadcast") \/ refresh' = Idle
      BY <1>7 DEF PublishStatus, PublishResult, At
    <2>2. Go("broadcast") => refresh'.point = "broadcast"
      BY <1>a, GoTo DEF RefreshPoints
    <2>3. Idle.point = "idle"
      BY DEF Idle
    <2> QED BY <2>1, <2>2, <2>3 DEF Served, RequestTaken, ResultTrue
  <1>8. CASE BroadcastStatus
    <2>1. refresh.point = "broadcast" /\ UNCHANGED <<topic, pending>> /\ refresh'.point = "idle"
      BY <1>8 DEF BroadcastStatus, At, Idle
    <2> QED BY <2>1 DEF Served, RequestTaken, ResultTrue
  <1>9. CASE CheckInferredFrame
    BY <1>1, <1>9 DEF CheckInferredFrame
  <1>10. CASE \E stamp \in Stamps : OnWebrtcCameraImage(stamp) \/ PushInferredFrame(stamp)
    BY <1>1, <1>10 DEF OnWebrtcCameraImage, PushInferredFrame, sourceVars
  <1>11. CASE \E t \in Threads : PushFrameBuffer(t)
    BY <1>1, <1>11 DEF PushFrameBuffer
  <1>12. CASE UNCHANGED vars
    BY <1>1, <1>12 DEF vars, sourceVars
  <1> QED BY <1>2, <1>3, <1>4, <1>5, <1>6, <1>7, <1>8, <1>9, <1>10, <1>11, <1>12
          DEF Next, RefreshStep

(* No request is forgotten, though it comes in the middle of a refresh,    *)
(* and a refresh that reports no error has selected what was asked for     *)
(* (_request_webrtc_source, _refresh_webrtc_sources,                       *)
(* _switch_webrtc_source).                                                 *)
THEOREM NoRequestForgotten == Spec => RequestsAnswered
  <1>1. ASSUME Init PROVE Served
    <2>1. refresh.point = "idle"
      BY <1>1 DEF Init, Idle
    <2> QED BY <2>1 DEF Served
  <1>2. SwitchInv /\ Served /\ [Next]_vars => Served' /\ [RequestTaken /\ ResultTrue]_vars
    BY ServedStep
  <1> QED BY <1>1, <1>2, SwitchInvariant, PTL DEF Spec, RequestsAnswered
=============================================================================
