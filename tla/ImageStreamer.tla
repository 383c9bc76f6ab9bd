----------------------------- MODULE ImageStreamer -----------------------------
(***************************************************************************)
(* The node that streams one image topic: it starts the transport, or does *)
(* not come up; every JPEG whose size it can read is pushed, by the one    *)
(* thread that spins, with the node's clock for a stamp if it has none.    *)
(* The images of a topic may come with stamps of a clock of the camera's,  *)
(* without stamps, or now with one and now without.                        *)
(***************************************************************************)
EXTENDS FramePacer, JpegFormat

CONSTANTS
  Images,        \* what the camera may send: format, data, true size, complete,
                 \* where its parts begin
  JumpLimit      \* bound: how often a clock is set back

Whole == {image \in Images : image.format = "jpeg" /\ image.complete}

(* A JPEG is whole, or is cut off from one that is. *)
ASSUME StreamerAssumption ==
  /\ Threads = {"spin"} /\ JumpLimit \in Nat /\ StampLimit > 0
  /\ \A image \in Images : image.complete \in BOOLEAN
  /\ \A whole \in Whole : IsJpeg(whole.data, whole.parts, whole.size)
  /\ \A image \in Images : image.format = "jpeg" =>
       \E whole \in Whole : \E n \in 0 .. Len(whole.data) :
         image.data = SubSeq(whole.data, 1, n) /\ image.size = whole.size

VARIABLES
  node,      \* the node: new, up, failed or down
  times,     \* the time of each clock that gives an image of the topic its stamp
  jumps,     \* how often a clock was set back
  announced  \* the size told of the frame pushed last, and the size it has

streamerVars == <<node, times, jumps, announced>>
vars == <<pacerVars, streamerVars>>

(* The camera stamps all its images, none, or some. *)
Clocks == {"camera", "node"}
InUse == DOMAIN times
Times == UNION {[used -> 1 .. StampLimit] : used \in (SUBSET Clocks) \ {{}}}

Init ==
  /\ PacerInit
  /\ node = "new" /\ times \in Times /\ jumps = 0
  /\ announced = [said |-> NoSize, is |-> NoSize]

Construct ==
  /\ node = "new" /\ node' \in {"up", "failed"}
  /\ UNCHANGED <<pacerVars, times, jumps, announced>>

DestroyNode ==
  /\ node = "up" /\ hand["spin"] = NoFrame /\ node' = "down"
  /\ UNCHANGED <<pacerVars, times, jumps, announced>>

(* An image has no stamp, zero, or the camera's.  The variant pushes it    *)
(* with the stamp that it has.                                             *)
StampOf(c) == IF c = "camera" THEN times["camera"] ELSE 0
StampAsIs(stamp) == stamp
StampOrNow(stamp) == IF stamp = 0 THEN times["node"] ELSE stamp

(* The images that are pushed, by the size they are read to have. *)
Reading(image) == [said |-> JpegDimensions(image.data), is |-> image.size]
Readings == {Reading(image) : image \in {i \in Images : i.format = "jpeg"}}
HasArea(size) == size[1] > 0 /\ size[2] > 0
Legible == {reading \in Readings : HasArea(reading.said)}

OnImage ==
  /\ node = "up"
  /\ \E c \in InUse : PlaceFrame("spin", StampOrNow(StampOf(c)))
  /\ \E reading \in Legible :
       announced' = IF hand'["spin"] # NoFrame THEN reading ELSE announced
  /\ UNCHANGED <<node, times, jumps>>

PushImage ==
  /\ PushBuffer("spin")
  /\ UNCHANGED streamerVars

(* While the node is up time passes, on each clock as it may; a clock may  *)
(* be set back.                                                            *)
Tick(c) ==
  /\ node = "up" /\ times[c] < StampLimit
  /\ times' = [times EXCEPT ![c] = @ + 1]
  /\ UNCHANGED <<pacerVars, node, jumps, announced>>
SetBack(c) ==
  /\ node = "up" /\ jumps < JumpLimit /\ jumps' = jumps + 1
  /\ \E t \in 1 .. times[c] - 1 : times' = [times EXCEPT ![c] = t]
  /\ UNCHANGED <<pacerVars, node, announced>>

Next ==
  \/ Construct \/ DestroyNode \/ OnImage \/ PushImage
  \/ \E c \in InUse : Tick(c) \/ SetBack(c)

Spec == Init /\ [][Next]_vars

(* The camera keeps sending images, and the node handles them. *)
FairSpec ==
  /\ Spec
  /\ WF_vars(OnImage) /\ WF_vars(PushImage)

----------------------------------------------------------------------------
(* Properties. *)

(* Every variable holds a value of its kind. *)
TypeOK ==
  /\ PacerTypeOK
  /\ node \in {"new", "up", "failed", "down"} /\ times \in Times
  /\ jumps \in 0 .. JumpLimit
  /\ announced \in [said : Nat \X Nat, is : Nat \X Nat]

Illegible == {whole \in Whole : HasArea(whole.size) /\ Reading(whole) \notin Legible}

(* A JPEG that came whole is legible, and one that was cut off, or has     *)
(* bytes that look like a header in another segment, is never given a      *)
(* size that is not its own (_jpeg_dimensions).                            *)
SizeIsRead ==
  announced.said = announced.is /\ Illegible = {}

(* Every clock in use shows a time before the last frame that took a       *)
(* place, or an interval and more after it.                                *)
Apart == slot # None /\ \A c \in InUse : times[c] < slot \/ times[c] >= slot + Interval

(* When an interval has passed since the last frame, or a clock was set    *)
(* back, the video goes on, whether or not the camera stamps its images,   *)
(* and if it stamps some of them with a clock that is not the node's: a    *)
(* frame takes its place, or a clock moves (_on_image, push_frame).        *)
VideoGoesOn ==
  node = "up" /\ Apart ~> node # "up" \/ ~Apart \/ frameSequence = FrameLimit
=============================================================================
