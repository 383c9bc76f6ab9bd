------------------------------ MODULE JpegFormat ------------------------------
(***************************************************************************)
(* What a JPEG file is up to its frame header, stated without the loop     *)
(* that reads it: bytes laid out in parts, each of which begins where the  *)
(* one before it ends.  The size is in the frame header, the last part.    *)
(***************************************************************************)
EXTENDS JpegHeader

(* Where a marker is that fill bytes begin at an offset. *)
MarkerAt(data, offset, m) ==
  /\ offset < m /\ m < Len(data) /\ At(data, m) # Mark
  /\ \A o \in offset .. m - 1 : At(data, o) = Mark

(* A marker and the length of its segment, which counts its own two bytes. *)
SegmentAt(data, offset, m, next) ==
  /\ MarkerAt(data, offset, m)
  /\ m + 3 <= Len(data) /\ next = m + 1 + Big(data, m + 1)
  /\ m + 3 <= next /\ next <= Len(data)

(* Start of frame: baseline, extended, progressive or lossless, Huffman or *)
(* arithmetic, differential or not.                                        *)
StartOfFrame == {192, 193, 194, 195, 197, 198, 199, 201, 202, 203, 205, 206, 207}

StrayByte(data, offset, next) == At(data, offset) # Mark /\ next = offset + 1
MarkerAlone(data, offset, next) ==
  \E m \in offset + 1 .. Len(data) :
    MarkerAt(data, offset, m) /\ At(data, m) \in Standalone /\ next = m + 1
OtherSegment(data, offset, next) ==
  \E m \in offset + 1 .. Len(data) :
    SegmentAt(data, offset, m, next) /\ At(data, m) \notin Standalone \cup StartOfFrame

(* Precision, height and width follow the length. *)
FrameHeader(data, offset, size) ==
  \E m \in offset + 1 .. Len(data) :
    /\ \E next \in m + 8 .. Len(data) : SegmentAt(data, offset, m, next)
    /\ At(data, m) \in StartOfFrame
    /\ size = <<Big(data, m + 6), Big(data, m + 4)>>

(* Parts are the offsets at which the parts of the data begin. *)
IsJpeg(data, parts, size) ==
  LET last == Len(parts)
  IN  /\ data \in Seq(0 .. 255) /\ parts \in Seq(0 .. Len(data)) /\ last > 0
      /\ Len(data) >= 4 /\ At(data, 0) = Mark /\ At(data, 1) = StartOfImage
      /\ parts[1] = 2
      /\ \A k \in 1 .. last - 1 :
           \/ StrayByte(data, parts[k], parts[k + 1])
           \/ MarkerAlone(data, parts[k], parts[k + 1])
           \/ OtherSegment(data, parts[k], parts[k + 1])
      /\ FrameHeader(data, parts[last], size)
=============================================================================
