------------------------------ MODULE MCStreamer ------------------------------
(* Images for the streamer: JPEGs made of segments, whole and cut off.     *)
EXTENDS ImageStreamer, SequencesExt

Segment(marker, payload) ==
  <<Mark, marker, (Len(payload) + 2) \div 256, (Len(payload) + 2) % 256>> \o payload

(* A frame header, of a size in 16 bits each, width and height.  A height  *)
(* of zero is legal: it is told after the first scan.                      *)
Size == <<640, 480>>
HeightUnknown == <<640, 0>>
HeaderOf(marker, size) ==
  Segment(marker, <<8, size[2] \div 256, size[2] % 256, size[1] \div 256, size[1] % 256>>)

(* What may come before it: an application segment with a thumbnail's      *)
(* header in it, a table, a comment without text, stray bytes, a marker    *)
(* alone; and the bytes that may fill the space before a marker.           *)
Thumbnail == Segment(225, Segment(192, <<8, 0, 9, 0, 9>>))
Table == Segment(196, <<16, 0, 7, 0, 7, 0>>)
Parts == {<<>>, <<Thumbnail>>, <<Table>>, <<Segment(254, <<>>)>>, <<<<0>>, <<1>>>>,
          <<<<Mark, 1>>>>}
Fill == <<Mark, Mark>>

Layouts == {first \o second \o <<fill \o HeaderOf(marker, Size)>> :
              first, second \in Parts, fill \in {<<>>, Fill}, marker \in {192, 194}}

(* An image of parts, and what is left of it when it is cut off. *)
Jpeg(layout, size) ==
  [format |-> "jpeg", size |-> size, complete |-> TRUE,
   data |-> <<Mark, StartOfImage>> \o FlattenSeq(layout),
   parts |-> [k \in DOMAIN layout |-> 2 + Len(FlattenSeq(SubSeq(layout, 1, k - 1)))]]
CutOff(image, n) == [image EXCEPT !.complete = FALSE, !.data = SubSeq(@, 1, n)]

ManyImages ==
  LET whole == {Jpeg(layout, Size) : layout \in Layouts}
               \cup {Jpeg(<<Table, HeaderOf(192, HeightUnknown)>>, HeightUnknown)}
  IN  whole
      \cup UNION {{CutOff(image, n) : n \in 0 .. Len(image.data) - 1} : image \in whole}
      \cup {[format |-> "png", data |-> <<>>, size |-> Size, complete |-> TRUE,
              parts |-> <<>>]}
=============================================================================
