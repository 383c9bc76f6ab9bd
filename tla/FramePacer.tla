------------------------------ MODULE FramePacer ------------------------------
(***************************************************************************)
(* push_frame of the WebRTC transport: which of the frames that a node has *)
(* are encoded, and when they are presented.  Under the frame lock a       *)
(* thread asks for a place: frames are accepted one to an interval of      *)
(* their own stamps, and given a presentation time (PTS) of the pipeline's *)
(* clock.  The buffer is handed to appsrc after the lock is released.      *)
(*                                                                         *)
(* Stamps and the clock are whole numbers of a common unit.  A push with   *)
(* no peer, or after an error, returns before it touches anything.         *)
(***************************************************************************)
EXTENDS Integers, Sequences

CONSTANTS
  Threads,        \* the threads that push frames
  Interval,       \* min_interval_ns
  Window,         \* how many stamps encoded_fps looks back on, 120
  ClockMayFail,   \* the pipeline may be without a clock
  Advances,       \* bound: how far its clock may get between two frames
  FrameLimit,     \* bound: frames accepted
  StampLimit      \* bound: the largest stamp

ASSUME PacerAssumption ==
  /\ Interval \in Nat \ {0} /\ Window \in Nat \ {0}
  /\ ClockMayFail \in BOOLEAN /\ Advances \subseteq Nat
  /\ FrameLimit \in Nat /\ StampLimit \in Nat

VARIABLES
  nextStamp,      \* _next_stamp_ns
  lastInput,      \* _last_input_stamp_ns
  lastPts,        \* _last_pts_ns
  frameSequence,  \* _frame_sequence
  accepted,       \* _accepted_frame_stamps_ns
  clock,          \* the running time of the pipeline
  hand,           \* of each thread: the frame between the lock and appsrc
  pushed,         \* the PTS of the buffer handed to appsrc last
  slot,           \* history: the stamp of the frame that set nextStamp
  steady          \* history: the stamps of accepted that came in order, since
                  \* the timing was reset or a stamp went back

pacerVars == <<nextStamp, lastInput, lastPts, frameSequence, accepted, clock, hand,
               pushed, slot, steady>>

None == -1
NoFrame == [stamp |-> None, pts |-> None]
Stamps == 0 .. StampLimit

PacerInit ==
  /\ nextStamp = None /\ lastInput = None /\ lastPts = None
  /\ frameSequence = 0 /\ accepted = <<>> /\ clock = 0
  /\ hand = [t \in Threads |-> NoFrame]
  /\ pushed = None
  /\ slot = None /\ steady = 0

----------------------------------------------------------------------------
(* The place of a frame.  A stamp that goes back starts afresh.            *)

SteppedBack(stamp) == lastInput # None /\ stamp < lastInput
DueAnyway(stamp) == nextStamp                                        \* variant
Due(stamp) == IF SteppedBack(stamp) THEN None ELSE nextStamp
Refused(stamp) == Due(stamp) # None /\ stamp < Due(stamp)

(* The places that were missed are skipped; the variant skips one less.    *)
PlaceAtStamp(stamp) ==
  IF Due(stamp) = None THEN stamp + Interval
  ELSE Due(stamp) + ((stamp - Due(stamp)) \div Interval) * Interval
NextPlace(stamp) ==
  IF Due(stamp) = None THEN stamp + Interval
  ELSE Due(stamp) + ((stamp - Due(stamp)) \div Interval + 1) * Interval

(* The clock may stand where it stood at the last frame, or be behind the  *)
(* presentation time that frame was given.                                 *)
ClockPts(now) == now
Pts(now) == IF now <= lastPts THEN lastPts + 1 ELSE now

(* The deque forgets its oldest stamp.                                     *)
Latest(s) == IF Len(s) > Window THEN Tail(s) ELSE s

----------------------------------------------------------------------------
(* push_frame, under the lock. *)

Refuse(t, stamp) ==
  /\ Refused(stamp)
  /\ lastInput' = stamp
  /\ UNCHANGED <<nextStamp, lastPts, frameSequence, accepted, clock, hand, pushed, slot,
                 steady>>

TakePlace(stamp) ==
  /\ ~Refused(stamp)
  /\ lastInput' = stamp
  /\ nextStamp' = NextPlace(stamp)
  /\ slot' = stamp

Steady(stamp) == IF SteppedBack(stamp) THEN 0 ELSE steady

(* Without a clock the place is taken and the frame is not accepted. *)
LoseFrame(t, stamp) ==
  /\ ClockMayFail
  /\ TakePlace(stamp)
  /\ steady' = Steady(stamp)
  /\ UNCHANGED <<lastPts, frameSequence, accepted, clock, hand, pushed>>

Accept(t, stamp) ==
  /\ TakePlace(stamp)
  /\ frameSequence < FrameLimit
  /\ clock' \in {clock + d : d \in Advances}
  /\ lastPts' = Pts(clock')
  /\ frameSequence' = frameSequence + 1
  /\ accepted' = Latest(Append(accepted, stamp))
  /\ steady' = IF Steady(stamp) < Window THEN Steady(stamp) + 1 ELSE Window
  /\ hand' = [hand EXCEPT ![t] = [stamp |-> stamp, pts |-> lastPts']]
  /\ UNCHANGED pushed

PlaceFrame(t, stamp) ==
  /\ hand[t] = NoFrame
  /\ Refuse(t, stamp) \/ LoseFrame(t, stamp) \/ Accept(t, stamp)

(* After it: the buffer, which appsrc may refuse, and the message about    *)
(* it, which names its PTS.                                                *)
PushBuffer(t) ==
  /\ hand[t] # NoFrame
  /\ hand' = [hand EXCEPT ![t] = NoFrame]
  /\ pushed' = hand[t].pts
  /\ UNCHANGED <<nextStamp, lastInput, lastPts, frameSequence, accepted, clock, slot,
                 steady>>

(* The variant starts the presentation times afresh too. *)
ResetAll ==
  /\ nextStamp' = None /\ lastInput' = None /\ accepted' = <<>> /\ steady' = 0
  /\ lastPts' = None
  /\ UNCHANGED <<frameSequence, clock, hand, pushed, slot>>
ResetSourceTiming ==
  /\ nextStamp' = None /\ lastInput' = None /\ accepted' = <<>> /\ steady' = 0
  /\ UNCHANGED <<lastPts, frameSequence, clock, hand, pushed, slot>>

PacerNext ==
  \/ \E t \in Threads : PushBuffer(t) \/ \E stamp \in Stamps : PlaceFrame(t, stamp)
  \/ ResetSourceTiming

PacerSpec == PacerInit /\ [][PacerNext]_pacerVars

----------------------------------------------------------------------------
(* Properties. *)

Frame == [stamp : Nat \cup {None}, pts : Nat \cup {None}]

(* Every variable holds a value of its kind, and the deque its length. *)
PacerTypeOK ==
  /\ nextStamp \in Nat \cup {None} /\ lastInput \in Nat \cup {None}
  /\ lastPts \in Nat \cup {None} /\ frameSequence \in Nat /\ clock \in Nat
  /\ accepted \in Seq(Nat) /\ Len(accepted) <= Window
  /\ hand \in [Threads -> Frame] /\ pushed \in Nat \cup {None}
  /\ slot \in Nat \cup {None} /\ steady \in Nat

(* No two frames share a presentation time, whatever the threads, across   *)
(* resets and a clock that stands still: no frame waiting for appsrc has   *)
(* the PTS of another or of the frame pushed last (push_frame).            *)
PtsUnique ==
  \A t \in Threads : hand[t] # NoFrame =>
    /\ hand[t].pts <= lastPts /\ hand[t].pts # pushed
    /\ \A u \in Threads \ {t} : hand[u] # NoFrame => hand[u].pts # hand[t].pts

(* A frame is refused only for one that took its place less than an        *)
(* interval before: stamps that jump ahead or back, and resets, never      *)
(* leave a source waiting (push_frame).                                    *)
NoStall ==
  nextStamp # None =>
    slot <= lastInput /\ slot < nextStamp /\ nextStamp <= slot + Interval

(* While stamps do not go back, n + 1 frames after a frame are accepted in *)
(* no less than n intervals, whatever the jitter (push_frame).             *)
RateBounded ==
  LET n == Len(accepted)
  IN  \A i, j \in n - steady + 1 .. n :
        i < j => accepted[j] - accepted[i] > (j - i - 1) * Interval
=============================================================================
