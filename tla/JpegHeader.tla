------------------------------ MODULE JpegHeader ------------------------------
(***************************************************************************)
(* _jpeg_dimensions, which the detector and the image streamer each have a *)
(* copy of: the size of a JPEG, from the first frame header among its      *)
(* segments, without decoding it.  Data is a sequence of bytes; an offset  *)
(* into it counts from 0.                                                  *)
(***************************************************************************)
EXTENDS Integers, Sequences, FiniteSetsExt

Mark == 255         \* 0xFF, which begins a marker, and may be repeated
StartOfImage == 216 \* 0xD8
Standalone == {1, 216, 217}
NoSize == <<0, 0>>

(* 0xC0 to 0xCF but the tables 0xC4, 0xC8 and 0xCC; the variant has all.   *)
AnyCMarker == 192 .. 207
SofMarkers == 192 .. 207 \ {196, 200, 204}

At(data, offset) == data[offset + 1]
Big(data, offset) == 256 * At(data, offset) + At(data, offset + 1)

(* Past the fill bytes: the marker, or the end of the data. *)
MarkerFrom(data, offset) ==
  Min({o \in offset .. Len(data) : o = Len(data) \/ At(data, o) # Mark})

(* What the loop finds at an offset, given what it finds at later ones. *)
ScanStep(data, size, offset) ==
  LET n == Len(data)
      m == MarkerFrom(data, offset)
      begin == m + 1
      length == Big(data, begin)
  IN  IF offset + 3 >= n THEN NoSize
      ELSE IF At(data, offset) # Mark THEN size[offset + 1]
      ELSE IF m >= n THEN NoSize
      ELSE IF At(data, m) \in Standalone THEN size[begin]
      ELSE IF begin + 2 > n \/ length < 2 \/ begin + length > n THEN NoSize
      ELSE IF At(data, m) \in SofMarkers /\ length >= 7
           THEN <<Big(data, begin + 5), Big(data, begin + 3)>>
      ELSE size[begin + length]
ScanFrom(data) ==
  LET size[offset \in 0 .. Len(data)] == ScanStep(data, size, offset) IN size

JpegDimensions(data) ==
  IF Len(data) < 4 \/ At(data, 0) # Mark \/ At(data, 1) # StartOfImage
  THEN NoSize ELSE ScanFrom(data)[2]
=============================================================================
