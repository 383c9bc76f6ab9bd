---------------------------- MODULE StreamerProofs ----------------------------
(***************************************************************************)
(* The header reader for every sequence of bytes, and the streamer for     *)
(* every camera.                                                           *)
(*                                                                         *)
(* The reader's recursion goes forward through the data.  What holds at    *)
(* every offset is shown of an offset from which it holds further on: the  *)
(* distances to the end at which it failed would have a least one.         *)
(***************************************************************************)
EXTENDS ImageStreamer, WellFoundedInduction, TLAPS

(* A nonempty set of naturals has a least element. *)
LEMMA LeastNat ==
  ASSUME NEW T \in SUBSET Nat, T # {}
  PROVE  \E least \in T : \A n \in T : least <= n
  <1>1. PICK least \in T : \A n \in T : ~(<<n, least>> \in OpToRel(<, Nat))
    BY NatLessThanWellFounded, WFMin
  <1>2. \A n \in T : ~(n < least)
    BY <1>1 DEF OpToRel
  <1> QED BY <1>2

(* A set of offsets that contains every offset after which it contains all *)
(* contains them all. *)
LEMMA FromTheEnd ==
  ASSUME NEW n \in Nat, NEW Holds,
         \A o \in 0 .. n : (\A p \in o + 1 .. n : p \in Holds) => o \in Holds
  PROVE  \A o \in 0 .. n : o \in Holds
  <1> DEFINE T == {d \in 0 .. n : n - d \notin Holds}
  <1> SUFFICES ASSUME NEW o \in 0 .. n, o \notin Holds
               PROVE  FALSE
    OBVIOUS
  <1>1. T \in SUBSET Nat /\ n - o \in T
    OBVIOUS
  <1>2. PICK d \in T : \A e \in T : d <= e
    BY <1>1, LeastNat
  <1>3. n - d \in 0 .. n /\ n - d \notin Holds
    OBVIOUS
  <1>4. \A p \in n - d + 1 .. n : p \in Holds
    <2> SUFFICES ASSUME NEW p \in n - d + 1 .. n, p \notin Holds
                 PROVE  FALSE
      OBVIOUS
    <2>1. n - p \in 0 .. n /\ n - (n - p) = p /\ n - p < d
      BY <1>3
    <2>2. n - p \in T
      BY <2>1
    <2> QED BY <1>2, <2>1, <2>2
  <1> QED BY <1>3, <1>4

Bytes == 0 .. 255
Sizes == Nat \X Nat

(* A byte at an offset inside the data, and a number of two. *)
LEMMA ByteType ==
  ASSUME NEW data \in Seq(Bytes), NEW o \in Nat
  PROVE  /\ Len(data) \in Nat
         /\ o < Len(data) => At(data, o) \in Nat
         /\ o + 1 < Len(data) => Big(data, o) \in Nat
  <1>1. Len(data) \in Nat /\ \A i \in 1 .. Len(data) : data[i] \in Bytes
    OBVIOUS
  <1>2. Bytes \subseteq Nat
    BY DEF Bytes
  <1>3. ASSUME NEW i \in Nat, i < Len(data) PROVE At(data, i) \in Nat
    <2>1. i + 1 \in 1 .. Len(data)
      BY <1>1, <1>3
    <2> QED BY <1>1, <1>2, <2>1 DEF At
  <1> QED BY <1>1, <1>3 DEF Big

(* Past the fill bytes there is a place, the first that is not fill. *)
LEMMA MarkerFound ==
  ASSUME NEW data \in Seq(Bytes), NEW o \in 0 .. Len(data)
  PROVE  /\ MarkerFrom(data, o) \in o .. Len(data)
         /\ MarkerFrom(data, o) < Len(data) => At(data, MarkerFrom(data, o)) # Mark
         /\ \A p \in o .. MarkerFrom(data, o) - 1 : At(data, p) = Mark
  <1> DEFINE n == Len(data)
             T == {p \in o .. n : p = n \/ At(data, p) # Mark}
             m == MarkerFrom(data, o)
  <1>1. n \in Nat /\ T \in SUBSET Nat /\ n \in T
    OBVIOUS
  <1>2. \E least \in T : \A p \in T : least <= p
    BY <1>1, LeastNat
  <1>3. m \in T /\ \A p \in T : m <= p
    <2>1. m = Min(T)
      BY DEF MarkerFrom
    <2> HIDE DEF T, m
    <2> QED BY <1>2, <2>1 DEF Min
  <1>4. m \in o .. n /\ (m < n => At(data, m) # Mark)
    BY <1>1, <1>3
  <1>5. ASSUME NEW p \in o .. m - 1, At(data, p) # Mark
        PROVE  FALSE
    <2>1. p \in T /\ p < m
      BY <1>1, <1>4, <1>5
    <2> HIDE DEF T, m
    <2> QED BY <1>1, <1>3, <1>5, <2>1
  <1> QED BY <1>4, <1>5

(* A step of the loop looks only at what is found further on. *)
LEMMA StepLooksAhead ==
  ASSUME NEW data \in Seq(Bytes), NEW o \in 0 .. Len(data), NEW f, NEW g,
         \A p \in o + 1 .. Len(data) : f[p] = g[p]
  PROVE  ScanStep(data, f, o) = ScanStep(data, g, o)
  <1> DEFINE n == Len(data)
             m == MarkerFrom(data, o)
             length == Big(data, m + 1)
  <1>1. n \in Nat /\ o \in Nat /\ m \in o .. n
    BY MarkerFound
  <1>2. o + 3 < n => o + 1 \in o + 1 .. n
    BY <1>1
  <1>3. m < n => m + 1 \in o + 1 .. n
    BY <1>1
  <1>4. ~(m + 1 + 2 > n \/ length < 2 \/ m + 1 + length > n)
          => m + 1 + length \in o + 1 .. n
    <2> HIDE DEF m
    <2>1. m + 3 <= n => length \in Nat
      BY <1>1, ByteType
    <2> QED BY <1>1, <2>1
  <1> HIDE DEF m, length
  <1> QED BY <1>1, <1>2, <1>3, <1>4 DEF ScanStep, m, length

(* A step of the loop finds a size if those further on are. *)
LEMMA StepFindsSize ==
  ASSUME NEW data \in Seq(Bytes), NEW o \in 0 .. Len(data), NEW f,
         \A p \in o + 1 .. Len(data) : f[p] \in Sizes
  PROVE  ScanStep(data, f, o) \in Sizes
  <1> DEFINE n == Len(data)
             m == MarkerFrom(data, o)
             length == Big(data, m + 1)
  <1>1. n \in Nat /\ o \in Nat /\ m \in o .. n /\ NoSize \in Sizes
    BY MarkerFound DEF NoSize, Sizes
  <1>2. o + 3 < n => f[o + 1] \in Sizes
    BY <1>1
  <1>3. m < n => f[m + 1] \in Sizes
    BY <1>1
  <1>4. ~(m + 1 + 2 > n \/ length < 2 \/ m + 1 + length > n)
          => /\ f[m + 1 + length] \in Sizes
             /\ length >= 7 => <<Big(data, m + 1 + 5), Big(data, m + 1 + 3)>> \in Sizes
    <2> HIDE DEF m
    <2>1. m + 3 <= n => length \in Nat
      BY <1>1, ByteType
    <2> HIDE DEF length
    <2>2. m + 1 + 7 <= n => Big(data, m + 1 + 5) \in Nat /\ Big(data, m + 1 + 3) \in Nat
      BY <1>1, ByteType
    <2> QED BY <1>1, <2>1, <2>2 DEF Sizes
  <1> HIDE DEF m, length
  <1> QED BY <1>1, <1>2, <1>3, <1>4 DEF ScanStep, m, length

(* The recursion of the reader is well defined: at every offset it finds   *)
(* what a step of the loop finds there (_jpeg_dimensions).                 *)
LEMMA ScanUnfolds ==
  ASSUME NEW data \in Seq(Bytes)
  PROVE  /\ ScanFrom(data) = [o \in 0 .. Len(data) |-> ScanStep(data, ScanFrom(data), o)]
         /\ \A o \in 0 .. Len(data) : ScanFrom(data)[o] \in Sizes
  <1> DEFINE n == Len(data)
             Suffix(o) == {f \in [o .. n -> Sizes] :
                           \A p \in o .. n : f[p] = ScanStep(data, f, p)}
             Holds == {o \in 0 .. n : Suffix(o) # {}}
  <1>1. n \in Nat
    OBVIOUS
  <1>2. ASSUME NEW o \in 0 .. n, \A p \in o + 1 .. n : p \in Holds
        PROVE  o \in Holds
    <2>1. PICK h : /\ \A p \in o + 1 .. n : h[p] \in Sizes
                   /\ \A p \in o + 1 .. n : h[p] = ScanStep(data, h, p)
      <3>1. CASE o = n
        BY <1>1, <3>1
      <3>2. CASE o < n
        <4>1. o + 1 \in Holds
          BY <1>1, <1>2, <3>2
        <4>2. PICK h : h \in Suffix(o + 1)
          BY <4>1
        <4> QED BY <4>2
      <3> QED BY <1>1, <3>1, <3>2
    <2> DEFINE g == [p \in o .. n |-> IF p = o THEN ScanStep(data, h, o) ELSE h[p]]
    <2>2. \A p \in o + 1 .. n : g[p] = h[p]
      BY <1>1
    <2>3. g[o] = ScanStep(data, h, o) /\ ScanStep(data, h, o) \in Sizes
      BY <1>1, <2>1, StepFindsSize
    <2>4. g \in [o .. n -> Sizes]
      BY <1>1, <2>1, <2>3
    <2>5. ASSUME NEW p \in o .. n
          PROVE  g[p] = ScanStep(data, g, p)
      <3> HIDE DEF g
      <3>1. p \in 0 .. n /\ \A q \in p + 1 .. n : g[q] = h[q]
        BY <1>1, <2>2
      <3>2. ScanStep(data, g, p) = ScanStep(data, h, p)
        BY <3>1, StepLooksAhead
      <3>3. CASE p = o
        BY <2>3, <3>2, <3>3
      <3>4. CASE p # o
        BY <1>1, <2>1, <2>2, <3>2, <3>4
      <3> QED BY <3>3, <3>4
    <2> HIDE DEF g
    <2> QED BY <2>4, <2>5
  <1>3. \A o \in 0 .. n : o \in Holds
    <2> HIDE DEF Holds
    <2> QED BY <1>1, <1>2, FromTheEnd
  <1>4. PICK f : f \in Suffix(0)
    BY <1>1, <1>3
  <1>5. f = [o \in 0 .. n |-> ScanStep(data, f, o)]
    BY <1>1, <1>4
  <1>6. ScanFrom(data) = CHOOSE h : h = [o \in 0 .. n |-> ScanStep(data, h, o)]
    BY DEF ScanFrom
  <1>7. ScanFrom(data) = [o \in 0 .. n |-> ScanStep(data, ScanFrom(data), o)]
    BY <1>5, <1>6
  <1> DEFINE Sized == {o \in 0 .. n : ScanFrom(data)[o] \in Sizes}
  <1>8. ASSUME NEW o \in 0 .. n, \A p \in o + 1 .. n : p \in Sized
        PROVE  o \in Sized
    <2>1. \A p \in o + 1 .. n : ScanFrom(data)[p] \in Sizes
      BY <1>8
    <2>2. ScanFrom(data)[o] = ScanStep(data, ScanFrom(data), o)
      BY <1>7
    <2> QED BY <2>1, <2>2, StepFindsSize
  <1>9. \A o \in 0 .. n : o \in Sized
    <2> HIDE DEF Sized
    <2> QED BY <1>1, <1>8, FromTheEnd
  <1> QED BY <1>7, <1>9

----------------------------------------------------------------------------
(* A JPEG that was cut off. *)

(* What is left of the data has its bytes. *)
LEMMA PrefixBytes ==
  ASSUME NEW data \in Seq(Bytes), NEW n \in 0 .. Len(data)
  PROVE  /\ SubSeq(data, 1, n) \in Seq(Bytes) /\ Len(SubSeq(data, 1, n)) = n
         /\ \A o \in 0 .. n - 1 : At(SubSeq(data, 1, n), o) = At(data, o)
         /\ \A o \in 0 .. n - 2 : Big(SubSeq(data, 1, n), o) = Big(data, o)
  <1> DEFINE cut == SubSeq(data, 1, n)
  <1>1. Len(data) \in Nat /\ n \in Nat /\ cut \in Seq(Bytes) /\ Len(cut) = n
    OBVIOUS
  <1>2. \A i \in 1 .. n : cut[i] = data[i]
    BY <1>1
  <1> HIDE DEF cut
  <1>3. ASSUME NEW o \in 0 .. n - 1 PROVE At(cut, o) = At(data, o)
    <2>1. o + 1 \in 1 .. n
      BY <1>1
    <2> QED BY <1>2, <2>1 DEF At
  <1>4. ASSUME NEW o \in 0 .. n - 2 PROVE Big(cut, o) = Big(data, o)
    <2>1. o \in 0 .. n - 1 /\ o + 1 \in 0 .. n - 1
      BY <1>1
    <2> QED BY <1>3, <2>1 DEF Big
  <1> QED BY <1>1, <1>3, <1>4 DEF cut

(* The place past the fill bytes is the same if it is in what is left. *)
LEMMA MarkerOfPrefix ==
  ASSUME NEW data \in Seq(Bytes), NEW n \in 0 .. Len(data), NEW o \in 0 .. n,
         MarkerFrom(SubSeq(data, 1, n), o) < n
  PROVE  MarkerFrom(data, o) = MarkerFrom(SubSeq(data, 1, n), o)
  <1> DEFINE cut == SubSeq(data, 1, n)
             m == MarkerFrom(cut, o)
             w == MarkerFrom(data, o)
  <1>1. /\ Len(data) \in Nat /\ n \in Nat /\ cut \in Seq(Bytes) /\ Len(cut) = n
        /\ \A p \in 0 .. n - 1 : At(cut, p) = At(data, p)
    BY PrefixBytes
  <1>2. o \in 0 .. Len(cut) /\ o \in 0 .. Len(data) /\ m < n
    BY <1>1
  <1> HIDE DEF cut
  <1>3. /\ m \in o .. n /\ At(cut, m) # Mark
        /\ \A p \in o .. m - 1 : At(cut, p) = Mark
    BY <1>1, <1>2, MarkerFound
  <1>4. /\ w \in o .. Len(data) /\ (w < Len(data) => At(data, w) # Mark)
        /\ \A p \in o .. w - 1 : At(data, p) = Mark
    BY <1>1, <1>2, MarkerFound
  <1> HIDE DEF m, w
  <1>5. ~(m < w)
    <2> SUFFICES ASSUME m < w PROVE FALSE
      OBVIOUS
    <2>1. m \in o .. w - 1 /\ m \in 0 .. n - 1
      BY <1>1, <1>2, <1>3, <1>4
    <2>2. At(data, m) = Mark /\ At(cut, m) = At(data, m)
      BY <1>1, <1>4, <2>1
    <2> QED BY <1>3, <2>2
  <1>6. ~(w < m)
    <2> SUFFICES ASSUME w < m PROVE FALSE
      OBVIOUS
    <2>1. w \in o .. m - 1 /\ w \in 0 .. n - 1 /\ w < Len(data)
      BY <1>1, <1>2, <1>3, <1>4
    <2>2. At(cut, w) = Mark /\ At(cut, w) = At(data, w)
      BY <1>1, <1>3, <2>1
    <2> QED BY <1>4, <2>1, <2>2
  <1>7. m \in Int /\ w \in Int
    BY <1>1, <1>2, <1>3, <1>4
  <1> QED BY <1>5, <1>6, <1>7 DEF m, w, cut

(* A step of the loop finds in what is left no size, or what it finds in   *)
(* the whole, if that is so further on. *)
LEMMA StepOfPrefix ==
  ASSUME NEW data \in Seq(Bytes), NEW n \in 0 .. Len(data), NEW o \in 0 .. n,
         NEW f, NEW g,
         \A p \in o + 1 .. n : f[p] \in {NoSize, g[p]}
  PROVE  ScanStep(SubSeq(data, 1, n), f, o) \in {NoSize, ScanStep(data, g, o)}
  <1> DEFINE cut == SubSeq(data, 1, n)
             m == MarkerFrom(cut, o)
             w == MarkerFrom(data, o)
             length == Big(cut, m + 1)
  <1>1. /\ Len(data) \in Nat /\ n \in Nat /\ o \in Nat /\ cut \in Seq(Bytes) /\ Len(cut) = n
        /\ n <= Len(data) /\ \A p \in 0 .. n - 1 : At(cut, p) = At(data, p)
        /\ \A p \in 0 .. n - 2 : Big(cut, p) = Big(data, p)
    BY PrefixBytes
  <1>2. m < n => w = m
    BY MarkerOfPrefix
  <1> HIDE DEF cut
  <1>3. m \in o .. n
    BY <1>1, MarkerFound
  <1> HIDE DEF m, w
  <1>4. CASE o + 3 >= n
    BY <1>1, <1>4 DEF ScanStep
  <1>5. CASE o + 3 < n /\ At(cut, o) # Mark
    <2>1. At(data, o) # Mark /\ o + 3 < Len(data) /\ o + 1 \in o + 1 .. n
      BY <1>1, <1>5
    <2>2. ScanStep(cut, f, o) = f[o + 1] /\ ScanStep(data, g, o) = g[o + 1]
      BY <1>1, <1>5, <2>1 DEF ScanStep
    <2> QED BY <2>1, <2>2 DEF cut
  <1>6. CASE o + 3 < n /\ At(cut, o) = Mark /\ m >= n
    <2>1. ScanStep(cut, f, o) = NoSize
      BY <1>1, <1>6 DEF ScanStep, m
    <2> QED BY <2>1 DEF cut
  <1>7. CASE o + 3 < n /\ At(cut, o) = Mark /\ m < n /\ At(cut, m) \in Standalone
    <2>1. /\ At(data, o) = Mark /\ o + 3 < Len(data) /\ m < Len(data)
          /\ At(data, m) \in Standalone /\ m + 1 \in o + 1 .. n
      BY <1>1, <1>3, <1>7
    <2>2. ScanStep(cut, f, o) = f[m + 1]
      BY <1>1, <1>3, <1>7 DEF ScanStep, m
    <2>3. ScanStep(data, g, o) = g[m + 1]
      <3>1. w = m
        BY <1>2, <1>7
      <3> QED BY <1>1, <1>3, <2>1, <3>1 DEF ScanStep, w
    <2> QED BY <2>1, <2>2, <2>3 DEF cut
  <1>8. CASE /\ o + 3 < n /\ At(cut, o) = Mark /\ m < n /\ At(cut, m) \notin Standalone
             /\ m + 1 + 2 > n \/ length < 2 \/ m + 1 + length > n
    <2>1. ScanStep(cut, f, o) = NoSize
      BY <1>1, <1>3, <1>8 DEF ScanStep, m
    <2> QED BY <2>1 DEF cut
  <1>9. CASE /\ o + 3 < n /\ At(cut, o) = Mark /\ m < n /\ At(cut, m) \notin Standalone
             /\ ~(m + 1 + 2 > n \/ length < 2 \/ m + 1 + length > n)
    <2>1. m + 3 <= n /\ length \in Nat /\ length >= 2 /\ m + 1 + length <= n
      <3>1. m + 3 <= n
        BY <1>1, <1>3, <1>9
      <3>2. length \in Nat
        BY <1>1, <1>3, <3>1, ByteType
      <3> QED BY <1>1, <1>3, <1>9, <3>1, <3>2
    <2>2. /\ At(data, o) = Mark /\ o + 3 < Len(data) /\ m < Len(data)
          /\ At(data, m) = At(cut, m) /\ Big(data, m + 1) = length
          /\ m + 1 + 2 <= Len(data) /\ m + 1 + length <= Len(data)
          /\ m + 1 + length \in o + 1 .. n
      BY <1>1, <1>3, <1>9, <2>1
    <2>3. w = m
      BY <1>2, <1>9
    <2> HIDE DEF length
    <2>4. CASE At(cut, m) \in SofMarkers /\ length >= 7
      <3>1. /\ Big(data, m + 1 + 5) = Big(cut, m + 1 + 5)
            /\ Big(data, m + 1 + 3) = Big(cut, m + 1 + 3)
        BY <1>1, <1>3, <2>1, <2>4
      <3>2. ScanStep(cut, f, o) = <<Big(cut, m + 1 + 5), Big(cut, m + 1 + 3)>>
        BY <1>1, <1>3, <1>9, <2>1, <2>4 DEF ScanStep, m, length
      <3>3. ScanStep(data, g, o) = <<Big(data, m + 1 + 5), Big(data, m + 1 + 3)>>
        BY <1>1, <1>3, <1>9, <2>1, <2>2, <2>3, <2>4 DEF ScanStep, w
      <3> QED BY <3>1, <3>2, <3>3 DEF cut
    <2>5. CASE ~(At(cut, m) \in SofMarkers /\ length >= 7)
      <3>1. ScanStep(cut, f, o) = f[m + 1 + length]
        BY <1>1, <1>3, <1>9, <2>1, <2>5 DEF ScanStep, m, length
      <3>2. ScanStep(data, g, o) = g[m + 1 + length]
        BY <1>1, <1>3, <1>9, <2>1, <2>2, <2>3, <2>5 DEF ScanStep, w
      <3> QED BY <2>2, <3>1, <3>2 DEF cut
    <2> QED BY <2>4, <2>5
  <1>10. o + 3 >= n \/ (o + 3 < n /\ (m >= n \/ m < n))
    BY <1>1, <1>3
  <1> QED BY <1>4, <1>5, <1>6, <1>7, <1>8, <1>9, <1>10

(* A JPEG that was cut off is given no size or its own, wherever it was    *)
(* cut: of any bytes, the header reader finds in what comes first either   *)
(* nothing or what it finds in all of them (_jpeg_dimensions).             *)
THEOREM CutOffKeepsSize ==
  ASSUME NEW data \in Seq(Bytes), NEW n \in 0 .. Len(data)
  PROVE  JpegDimensions(SubSeq(data, 1, n)) \in {NoSize, JpegDimensions(data)}
  <1> DEFINE cut == SubSeq(data, 1, n)
             Same == {o \in 0 .. n : ScanFrom(cut)[o] \in {NoSize, ScanFrom(data)[o]}}
  <1>1. /\ Len(data) \in Nat /\ n \in Nat /\ n <= Len(data)
        /\ cut \in Seq(Bytes) /\ Len(cut) = n
        /\ \A o \in 0 .. n - 1 : At(cut, o) = At(data, o)
    BY PrefixBytes
  <1>2. ASSUME NEW o \in 0 .. n, \A p \in o + 1 .. n : p \in Same
        PROVE  o \in Same
    <2>1. \A p \in o + 1 .. n : ScanFrom(cut)[p] \in {NoSize, ScanFrom(data)[p]}
      BY <1>2
    <2>2. ScanStep(cut, ScanFrom(cut), o) \in {NoSize, ScanStep(data, ScanFrom(data), o)}
      BY <2>1, StepOfPrefix
    <2>3. o \in 0 .. Len(data)
      BY <1>1
    <2> HIDE DEF cut
    <2>4. /\ ScanFrom(cut)[o] = ScanStep(cut, ScanFrom(cut), o)
          /\ ScanFrom(data)[o] = ScanStep(data, ScanFrom(data), o)
      BY <1>1, <2>3, ScanUnfolds
    <2> QED BY <2>2, <2>4
  <1> HIDE DEF cut
  <1>3. \A o \in 0 .. n : o \in Same
    <2> HIDE DEF Same
    <2> QED BY <1>1, <1>2, FromTheEnd
  <1>4. n >= 4 => 2 \in Same /\ At(cut, 0) = At(data, 0) /\ At(cut, 1) = At(data, 1)
    BY <1>1, <1>3
  <1> QED BY <1>1, <1>4 DEF JpegDimensions, cut

----------------------------------------------------------------------------
(* A JPEG that came whole. *)

(* The loop is where a part of the data begins: past its fill bytes it is  *)
(* at the part's marker.                                                   *)
LEMMA MarkerIsThere ==
  ASSUME NEW data \in Seq(Bytes), NEW o \in 0 .. Len(data), NEW m \in Nat,
         MarkerAt(data, o, m)
  PROVE  MarkerFrom(data, o) = m /\ At(data, o) = Mark
  <1> DEFINE w == MarkerFrom(data, o)
  <1>1. /\ o < m /\ m < Len(data) /\ At(data, m) # Mark
        /\ \A p \in o .. m - 1 : At(data, p) = Mark
    BY DEF MarkerAt
  <1>2. /\ w \in o .. Len(data) /\ (w < Len(data) => At(data, w) # Mark)
        /\ \A p \in o .. w - 1 : At(data, p) = Mark
    BY MarkerFound
  <1>3. Len(data) \in Nat /\ o \in Nat
    OBVIOUS
  <1> HIDE DEF w
  <1>4. ~(m < w)
    <2>1. m < w => m \in o .. w - 1
      BY <1>1, <1>2, <1>3
    <2> QED BY <1>1, <1>2, <2>1
  <1>5. ~(w < m)
    <2>1. w < m => w \in o .. m - 1 /\ w < Len(data)
      BY <1>1, <1>2, <1>3
    <2> QED BY <1>1, <1>2, <2>1
  <1>6. o \in o .. m - 1
    BY <1>1, <1>3
  <1>7. w = m
    BY <1>2, <1>3, <1>4, <1>5
  <1> QED BY <1>1, <1>6, <1>7 DEF w

(* A part that is no frame header is passed: the loop goes on where the    *)
(* next part begins.                                                       *)
LEMMA PartIsPassed ==
  ASSUME NEW data \in Seq(Bytes), NEW o \in 0 .. Len(data), NEW next \in 0 .. Len(data),
         StrayByte(data, o, next) \/ MarkerAlone(data, o, next) \/ OtherSegment(data, o, next)
  PROVE  o < next /\ (o + 3 < Len(data) => ScanFrom(data)[o] = ScanFrom(data)[next])
  <1> DEFINE n == Len(data)
             f == ScanFrom(data)
  <1>1. n \in Nat /\ o \in Nat /\ next \in Nat /\ f[o] = ScanStep(data, f, o)
    BY ScanUnfolds
  <1> HIDE DEF f
  <1>2. CASE StrayByte(data, o, next)
    BY <1>1, <1>2 DEF StrayByte, ScanStep, f
  <1>3. CASE MarkerAlone(data, o, next)
    <2>1. PICK m \in o + 1 .. n :
            MarkerAt(data, o, m) /\ At(data, m) \in Standalone /\ next = m + 1
      BY <1>3 DEF MarkerAlone
    <2>2. m \in Nat /\ m < n /\ MarkerFrom(data, o) = m /\ At(data, o) = Mark
      BY <1>1, <2>1, MarkerIsThere DEF MarkerAt
    <2>3. o + 3 < n => f[o] = f[m + 1]
      BY <1>1, <2>1, <2>2 DEF ScanStep
    <2> QED BY <1>1, <2>1, <2>3 DEF f
  <1>4. CASE OtherSegment(data, o, next)
    <2>1. PICK m \in o + 1 .. n :
            /\ SegmentAt(data, o, m, next)
            /\ At(data, m) \notin Standalone \cup StartOfFrame
      BY <1>4 DEF OtherSegment
    <2>2. /\ m \in Nat /\ m < n /\ MarkerFrom(data, o) = m /\ At(data, o) = Mark
          /\ m + 3 <= n /\ next = m + 1 + Big(data, m + 1) /\ m + 3 <= next /\ next <= n
      BY <1>1, <2>1, MarkerIsThere DEF MarkerAt, SegmentAt
    <2>3. Big(data, m + 1) \in Nat
      BY <1>1, <2>2, ByteType
    <2>4. At(data, m) \notin SofMarkers
      <3>1. At(data, m) \in Nat
        BY <1>1, <2>2, ByteType
      <3> QED BY <2>1, <3>1 DEF SofMarkers, StartOfFrame
    <2>5. o + 3 < n => f[o] = f[m + 1 + Big(data, m + 1)]
      BY <1>1, <2>1, <2>2, <2>3, <2>4 DEF ScanStep
    <2> QED BY <1>1, <2>1, <2>2, <2>5 DEF f
  <1> QED BY <1>2, <1>3, <1>4

(* The reader takes the markers of frames for such, and no other. *)
LEMMA FrameMarkers ==
  /\ \A x \in StartOfFrame : x \in SofMarkers /\ x \notin Standalone
  /\ \A x \in Nat \ StartOfFrame : x \notin SofMarkers
  BY DEF SofMarkers, StartOfFrame, Standalone

(* At the frame header the loop reads the size. *)
LEMMA HeaderIsRead ==
  ASSUME NEW data \in Seq(Bytes), NEW o \in 0 .. Len(data), NEW size,
         FrameHeader(data, o, size)
  PROVE  o + 3 < Len(data) /\ ScanFrom(data)[o] = size
  <1> DEFINE n == Len(data)
             f == ScanFrom(data)
  <1>1. n \in Nat /\ o \in Nat /\ f[o] = ScanStep(data, f, o)
    BY ScanUnfolds
  <1> HIDE DEF f
  <1>2. PICK m \in o + 1 .. n :
          /\ \E next \in m + 8 .. n : SegmentAt(data, o, m, next)
          /\ At(data, m) \in StartOfFrame
          /\ size = <<Big(data, m + 6), Big(data, m + 4)>>
    BY DEF FrameHeader
  <1>3. PICK next \in m + 8 .. n : SegmentAt(data, o, m, next)
    BY <1>2
  <1>4. /\ m \in Nat /\ m < n /\ MarkerFrom(data, o) = m /\ At(data, o) = Mark
        /\ m + 8 <= n /\ next = m + 1 + Big(data, m + 1) /\ m + 8 <= next /\ next <= n
    BY <1>1, <1>2, <1>3, MarkerIsThere DEF MarkerAt, SegmentAt
  <1>5. Big(data, m + 1) \in Nat
    BY <1>1, <1>4, ByteType
  <1>6. At(data, m) \in SofMarkers /\ At(data, m) \notin Standalone
    BY <1>2, FrameMarkers
  <1>7. f[o] = <<Big(data, m + 1 + 5), Big(data, m + 1 + 3)>>
    BY <1>1, <1>4, <1>5, <1>6 DEF ScanStep
  <1>8. m + 1 + 5 = m + 6 /\ m + 1 + 3 = m + 4 /\ o + 3 < n
    BY <1>1, <1>2, <1>4
  <1> QED BY <1>2, <1>7, <1>8 DEF f

(* Of a JPEG that came whole the size is read that its frame header has,   *)
(* whatever comes before it: stray and fill bytes, markers that stand      *)
(* alone, tables, segments with the header of another image in them        *)
(* (_jpeg_dimensions).                                                     *)
THEOREM WholeIsRead ==
  ASSUME NEW data, NEW parts, NEW size, IsJpeg(data, parts, size)
  PROVE  JpegDimensions(data) = size
  <1> DEFINE n == Len(data)
             last == Len(parts)
             f == ScanFrom(data)
             Leads == {k \in 0 .. last - 1 :
                         parts[k + 1] + 3 < n /\ f[parts[k + 1]] = size}
  <1>1. /\ data \in Seq(Bytes) /\ parts \in Seq(0 .. n) /\ last \in Nat /\ last > 0 /\ n \in Nat
        /\ n >= 4 /\ At(data, 0) = Mark /\ At(data, 1) = StartOfImage /\ parts[1] = 2
        /\ \A k \in 1 .. last - 1 :
             \/ StrayByte(data, parts[k], parts[k + 1])
             \/ MarkerAlone(data, parts[k], parts[k + 1])
             \/ OtherSegment(data, parts[k], parts[k + 1])
        /\ FrameHeader(data, parts[last], size)
    BY DEF IsJpeg, Bytes
  <1>2. last - 1 \in Nat /\ \A k \in 1 .. last : parts[k] \in 0 .. n
    BY <1>1
  <1> HIDE DEF last
  <1>3. ASSUME NEW k \in 0 .. last - 1, \A j \in k + 1 .. last - 1 : j \in Leads
        PROVE  k \in Leads
    <2>1. CASE k = last - 1
      <3>1. parts[k + 1] \in 0 .. n /\ FrameHeader(data, parts[k + 1], size)
        BY <1>1, <1>2, <2>1
      <3> HIDE DEF f
      <3> QED BY <1>1, <3>1, HeaderIsRead DEF f
    <2>2. CASE k < last - 1
      <3>1. k + 1 \in Leads
        BY <1>2, <1>3, <2>2
      <3>2. parts[k + 2] + 3 < n /\ f[parts[k + 2]] = size
        BY <1>1, <3>1
      <3>3. /\ parts[k + 1] \in 0 .. n /\ parts[k + 2] \in 0 .. n
            /\ \/ StrayByte(data, parts[k + 1], parts[k + 2])
               \/ MarkerAlone(data, parts[k + 1], parts[k + 2])
               \/ OtherSegment(data, parts[k + 1], parts[k + 2])
        BY <1>1, <1>2, <2>2
      <3>4. /\ parts[k + 1] < parts[k + 2]
            /\ parts[k + 1] + 3 < n => f[parts[k + 1]] = f[parts[k + 2]]
        <4> HIDE DEF f
        <4> QED BY <1>1, <3>3, PartIsPassed DEF f
      <3>5. parts[k + 1] + 3 < n
        BY <1>1, <3>2, <3>3, <3>4
      <3> QED BY <3>2, <3>4, <3>5
    <2> QED BY <1>2, <2>1, <2>2
  <1>4. \A k \in 0 .. last - 1 : k \in Leads
    <2> HIDE DEF Leads
    <2> QED BY <1>2, <1>3, FromTheEnd
  <1>5. 0 \in Leads
    BY <1>2, <1>4
  <1> QED BY <1>1, <1>5 DEF JpegDimensions

----------------------------------------------------------------------------
(* The streamer. *)

(* A JPEG of the camera is given no size or its own; one that came whole   *)
(* is given its own (_on_image).                                           *)
LEMMA ReadingIsTrue ==
  /\ \A reading \in Legible : reading.said = reading.is
  /\ Illegible = {}
  <1>1. ASSUME NEW whole \in Whole
        PROVE  whole.data \in Seq(Bytes) /\ JpegDimensions(whole.data) = whole.size
    <2>1. IsJpeg(whole.data, whole.parts, whole.size)
      BY StreamerAssumption
    <2> QED BY <2>1, WholeIsRead DEF IsJpeg, Bytes
  <1>2. ASSUME NEW reading \in Legible
        PROVE  reading.said = reading.is
    <2>1. PICK image \in Images : image.format = "jpeg" /\ reading = Reading(image)
      BY DEF Legible, Readings
    <2>2. reading.said = JpegDimensions(image.data) /\ reading.is = image.size
          /\ reading.said # NoSize
      BY <2>1 DEF Legible, Reading, HasArea, NoSize
    <2>3. PICK whole \in Whole : \E n \in 0 .. Len(whole.data) :
            image.data = SubSeq(whole.data, 1, n) /\ image.size = whole.size
      BY <2>1, StreamerAssumption
    <2>4. JpegDimensions(image.data) \in {NoSize, JpegDimensions(whole.data)}
      BY <1>1, <2>3, CutOffKeepsSize
    <2> QED BY <1>1, <2>2, <2>3, <2>4
  <1>3. Illegible = {}
    <2> SUFFICES ASSUME NEW whole \in Whole, HasArea(whole.size)
                 PROVE  Reading(whole) \in Legible
      BY DEF Illegible
    <2>1. whole \in Images /\ whole.format = "jpeg"
      BY DEF Whole
    <2>2. Reading(whole) \in Readings /\ Reading(whole).said = whole.size
      BY <1>1, <2>1 DEF Reading, Readings
    <2> QED BY <2>2 DEF Legible
  <1> QED BY <1>2, <1>3

(* No frame is announced with a size that it does not have, and no whole   *)
(* JPEG is passed over for being illegible, whatever the camera sends and  *)
(* wherever it is cut off (_on_image, _jpeg_dimensions).                   *)
THEOREM SizeIsReadHolds == Spec => []SizeIsRead
  <1>1. Init => SizeIsRead
    BY ReadingIsTrue DEF Init, SizeIsRead
  <1>2. SizeIsRead /\ [Next]_vars => SizeIsRead'
    <2> SUFFICES ASSUME SizeIsRead, [Next]_vars PROVE SizeIsRead'
      OBVIOUS
    <2>1. CASE OnImage
      <3>1. PICK reading \in Legible :
              announced' = IF hand'["spin"] # NoFrame THEN reading ELSE announced
        BY <2>1 DEF OnImage
      <3> QED BY <3>1, ReadingIsTrue DEF SizeIsRead
    <2>2. CASE UNCHANGED announced
      BY <2>2, ReadingIsTrue DEF SizeIsRead
    <2> QED BY <2>1, <2>2 DEF Next, Construct, DestroyNode, PushImage, Tick, SetBack, vars,
                                streamerVars
  <1> QED BY <1>1, <1>2, PTL DEF Spec

(* The clocks run within their bound. *)
ClockInv == times \in Times

(* An image gets a stamp of the camera or the node's time. *)
LEMMA StampInTime ==
  ASSUME ClockInv, NEW c \in InUse
  PROVE  StampOrNow(StampOf(c)) \in 1 .. StampLimit
  <1>1. c \in Clocks /\ times \in [InUse -> 1 .. StampLimit]
    BY DEF ClockInv, Times, InUse
  <1>2. CASE c = "camera"
    BY <1>1, <1>2, PacerAssumption DEF StampOf, StampOrNow
  <1>3. CASE c = "node"
    BY <1>1, <1>3 DEF StampOf, StampOrNow
  <1> QED BY <1>1, <1>2, <1>3 DEF Clocks

(* The streamer drives its transport as the pacer's specification allows:  *)
(* what is proved of the pacer is proved of the streamer (_on_image,       *)
(* push_frame).                                                            *)
THEOREM StreamerPaces == Spec => PacerSpec
  <1>1. Init => ClockInv /\ PacerInit
    BY DEF Init, ClockInv
  <1>2. ClockInv /\ [Next]_vars => ClockInv' /\ [PacerNext]_pacerVars
    <2> SUFFICES ASSUME ClockInv, [Next]_vars PROVE ClockInv' /\ [PacerNext]_pacerVars
      OBVIOUS
    <2>1. CASE OnImage
      <3>1. PICK c \in InUse : PlaceFrame("spin", StampOrNow(StampOf(c)))
        BY <2>1 DEF OnImage
      <3>2. StampOrNow(StampOf(c)) \in Stamps /\ "spin" \in Threads /\ times' = times
        BY <2>1, StampInTime, StreamerAssumption, PacerAssumption DEF OnImage, Stamps
      <3> QED BY <3>1, <3>2 DEF PacerNext, ClockInv
    <2>2. CASE PushImage
      BY <2>2, StreamerAssumption DEF PushImage, PacerNext, ClockInv, streamerVars
    <2>3. CASE Construct \/ DestroyNode
      BY <2>3 DEF Construct, DestroyNode, ClockInv
    <2>4. ASSUME NEW c \in InUse, Tick(c) \/ SetBack(c)
          PROVE  ClockInv' /\ UNCHANGED pacerVars
      <3>1. PICK used \in (SUBSET Clocks) \ {{}} : times \in [used -> 1 .. StampLimit]
        BY DEF ClockInv, Times
      <3>2. c \in used /\ times[c] \in 1 .. StampLimit
        BY <3>1 DEF InUse
      <3>3. \E t \in 1 .. StampLimit : times' = [times EXCEPT ![c] = t]
        BY <2>4, <3>2, PacerAssumption DEF Tick, SetBack
      <3>4. times' \in [used -> 1 .. StampLimit]
        BY <3>1, <3>3
      <3>5. times' \in Times
        BY <3>4 DEF Times
      <3> QED BY <2>4, <3>5 DEF Tick, SetBack, ClockInv
    <2>5. CASE UNCHANGED vars
      BY <2>5 DEF vars, streamerVars, ClockInv
    <2> QED BY <2>1, <2>2, <2>3, <2>4, <2>5 DEF Next
  <1> QED BY <1>1, <1>2, PTL DEF Spec, PacerSpec
=============================================================================
