------------------------ MODULE LaneVisionController ------------------------
(***************************************************************************)
(* The mission node: its callbacks, its periodic control tick and the time *)
(* that passes between them.  The node spins on one thread, so a callback  *)
(* or a tick is one atomic step, and they come in any order.               *)
(*                                                                         *)
(* A stored timestamp is modelled by the time since it was taken (an age), *)
(* capped where every later value compares alike; Elapse lets one unit of  *)
(* time pass.  The vehicle and its sensors are the environment: odometry   *)
(* may report any position, heading and speed.                             *)
(***************************************************************************)
EXTENDS LanePlanner, BuoyTracker

CONSTANTS
  Positions, Yaws,          \* what odometry may report
  Turn,                     \* yaw units in a full turn
  StallingInputs,           \* the inputs that may fall silent
  UsePoseDepth,             \* depth_pose_topic is not empty
  OdometryTimeout, DepthTimeout,
  TargetConfirmTime,        \* target_confirm_sec
  InitialReacquireTimeout,  \* initial_target_reacquire_timeout_sec
  ReacquireTimeout,
  CloseArea,                \* approach_area_ratio
  CloseHoldTime,            \* approach_close_hold_sec
  StrongForwardTime, StrongBackoffTime,
  SettleHoldTime,           \* waypoint_settle_hold_sec
  HeadingHoldTime,          \* lane_transfer_heading_hold_sec
  InitialSearchRadius, SkipDistance,
  Lookahead, EndTransition, ReachTolerance, RejoinCrossTrack,
  RejoinHeading, TransferHeading,         \* heading tolerances
  AlignHeading, ReleaseHeading,           \* waypoint_heading_*_rad
  StopHeading,                            \* lane_forward_stop_heading_rad
  ScanStep, ScanTolerance,  \* largest yaw step counted, missing yaw accepted
  DynamicRejoin             \* lane_transfer_dynamic_rejoin

(* What validate_parameters accepts of these, and the units.  All times    *)
(* and lengths are naturals: whole units of the coarsest common grain.     *)
(* The code does not look at the sign of SkipDistance, ReachTolerance,     *)
(* ScanTolerance and InitialReacquireTimeout; they are taken to be lengths *)
(* and times.                                                              *)
ASSUME ValidParameters ==
  /\ Positions \subseteq Point
  /\ Turn \in Nat \ {0} /\ Turn % 8 = 0
  /\ Yaws \subseteq 0 .. Turn - 1
  /\ StallingInputs \subseteq {"odometry", "depth"}
  /\ UsePoseDepth \in BOOLEAN /\ DynamicRejoin \in BOOLEAN
  /\ {OdometryTimeout, DepthTimeout, TargetConfirmTime, InitialReacquireTimeout,
      ReacquireTimeout, CloseArea, CloseHoldTime, StrongForwardTime,
      StrongBackoffTime, SettleHoldTime, HeadingHoldTime, InitialSearchRadius,
      SkipDistance, Lookahead, EndTransition, ReachTolerance, RejoinCrossTrack,
      RejoinHeading, TransferHeading, AlignHeading, ReleaseHeading, StopHeading,
      ScanStep, ScanTolerance} \subseteq Nat
  /\ CloseArea > 0 /\ InitialSearchRadius > 0 /\ Lookahead > 0
  /\ RejoinCrossTrack <= SearchOffset
  /\ EndTransition < LaneLength
  /\ AlignHeading <= ReleaseHeading

VARIABLES
  state, stateAge,   \* state_, time since state_entered_at_
  hasControl,        \* vision_has_control_
  startFrame,        \* arena_transform_.initialized()
  odom,              \* have_odometry_, its age, position, yaw, moving
  depth,             \* pose_depth_, scalar_depth_
  holdDepth,         \* mission_hold_depth_m_ is set
  buoy,              \* buoy_
  since,             \* the *_started_at_ timers
  target,            \* target_context_, handoff_position_, departure progress
  scan,              \* scan_candidate_, accumulated and previous yaw, goal
  mission,           \* lane_completed_, active_lane_index_, ..._start_at_a_
  transfer,          \* lane_transfer_enabled_, ..._phase_, ..._start_
  ignoreUntil,       \* ignore_detections_until_progress_m_
  aligned,           \* waypoint_heading_aligned_
  confirmedTopic,    \* last message on target_confirmed_topic
  override           \* the forward RC override in force at the autopilot

vars == <<state, stateAge, hasControl, startFrame, odom, depth, holdDepth, buoy,
          since, target, scan, mission, transfer, ignoreUntil, aligned,
          confirmedTopic, override>>

sensors == <<startFrame, odom, depth>>
grantVars == <<hasControl, holdDepth, confirmedTopic>>
laneVars == <<mission, transfer, ignoreUntil>>

----------------------------------------------------------------------------
(* States, timers, records. *)

Standby == {"IDLE", "TARGET_CONFIRM", "WAIT_CONTROL_GRANT"}
Terminal == {"COMPLETE", "FAILSAFE"}
Pursuit == {"TARGET_HOLD", "REACQUIRE_BUOY", "APPROACH_BUOY",
            "STRONG_FORWARD", "STRONG_BACKOFF"}
Search == {"INITIAL_SCAN_360", "TURN_TO_INITIAL_TARGET"}
LaneStates == {"MOVE_TO_LANE_START", "LANE_FOLLOWING_WITH_SEARCH",
               "RETURN_TO_ACTIVE_LANE"}
State == Standby \cup Terminal \cup Pursuit \cup Search \cup LaneStates

Unset == -1
NoLane == -1
Origin == [x |-> 0, y |-> 0]

TimerNames == {"confirm", "hold", "close", "detect", "settle", "heading"}

(* No comparison tells apart longer ages than these. *)
TimerCap(t) ==
  CASE t \in {"confirm", "hold", "detect"} -> TargetConfirmTime
    [] t = "close" -> CloseHoldTime
    [] t = "settle" -> SettleHoldTime
    [] t = "heading" -> HeadingHoldTime

StateAgeCap(s) ==
  CASE s = "TURN_TO_INITIAL_TARGET" -> InitialReacquireTimeout
    [] s = "REACQUIRE_BUOY" -> ReacquireTimeout
    [] s = "STRONG_FORWARD" -> StrongForwardTime
    [] s = "STRONG_BACKOFF" -> StrongBackoffTime
    [] OTHER -> 0

DepthSample == [age : 0 .. DepthTimeout + 1, deep : BOOLEAN]
NoDepth == [age |-> DepthTimeout + 1, deep |-> FALSE]
NoCandidate == [area |-> -1, conf |-> 0, cell |-> 0]

Init ==
  /\ state = "IDLE" /\ stateAge = 0
  /\ hasControl = FALSE /\ holdDepth = FALSE /\ startFrame = FALSE
  /\ odom = [have |-> FALSE, age |-> OdometryTimeout + 1,
             pos |-> Origin, yaw |-> 0, moving |-> FALSE]
  /\ depth = [pose |-> NoDepth, scalar |-> NoDepth]
  /\ buoy = NoBuoy
  /\ since = [t \in TimerNames |-> Unset]
  /\ target = [context |-> "INITIAL", handoff |-> Origin, departure |-> 0]
  /\ scan = [candidate |-> NoCandidate, yaw |-> 0, accumulated |-> 0,
             previous |-> 0, goal |-> 0]
  /\ mission = [completed |-> {}, active |-> NoLane, startAtA |-> TRUE]
  /\ transfer = [enabled |-> FALSE, phase |-> "ALIGN_TRANSFER", start |-> Origin]
  /\ ignoreUntil = Unset
  /\ aligned = FALSE
  /\ confirmedTopic = FALSE
  /\ override = "none"

----------------------------------------------------------------------------
(* Queries of the current inputs. *)

Fresh(sample) == sample.age <= DepthTimeout
RecentOdometry == odom.have /\ odom.age <= OdometryTimeout
HaveDepth == Fresh(depth.pose) \/ Fresh(depth.scalar)

(* on_timer reads the depth once to see whether there is one and again to  *)
(* compare it with max_depth_m_.  A sample at the very edge of its timeout *)
(* may expire between the two: the second read then falls back to the      *)
(* other sample or dereferences an empty optional, which yields any value. *)
SecondDepthReads ==
  LET lasting(d) == d.age < DepthTimeout
      fallback == IF lasting(depth.scalar) THEN {depth.scalar.deep} ELSE BOOLEAN
  IN  IF lasting(depth.pose) THEN {depth.pose.deep}
      ELSE IF Fresh(depth.pose) THEN {depth.pose.deep} \cup fallback
      ELSE fallback

ActiveLane == mission.active
HasActiveLane == mission.active # NoLane
ActiveFinish == LaneFinish(ActiveLane, mission.startAtA)
ActiveStart == LaneStart(ActiveLane, mission.startAtA)
ActiveProgress == ProgressFromStart(odom.pos, mission.startAtA)
ActiveCrossTrackSq == CrossTrackSq(odom.pos, ActiveLane)

TargetExcursionLimitReached ==
  \/ ~InsideSafeBounds(odom.pos)
  \/ /\ target.context = "INITIAL"
     /\ DistSq(odom.pos, target.handoff) >= Sq(InitialSearchRadius)
  \/ /\ target.context = "LANE"
     /\ ~HasActiveLane \/ ActiveCrossTrackSq >= Sq(SearchOffset)

----------------------------------------------------------------------------
(* Headings.  atan2 is rounded to the octant of the vector. *)

TurnBetween(a, b) == Lesser((a - b) % Turn, (b - a) % Turn)

HeadingTo(p, q) ==
  LET dx == q.x - p.x
      dy == q.y - p.y
      octant == CASE dx > 0 /\ dy > 0 -> 1
                  [] dx = 0 /\ dy > 0 -> 2
                  [] dx < 0 /\ dy > 0 -> 3
                  [] dx < 0 /\ dy = 0 -> 4
                  [] dx < 0 /\ dy < 0 -> 5
                  [] dx = 0 /\ dy < 0 -> 6
                  [] dx > 0 /\ dy < 0 -> 7
                  [] OTHER -> 0
  IN  octant * (Turn \div 8)

LaneHeading == IF mission.startAtA THEN 0 ELSE Turn \div 2

LookaheadTarget ==
  LET along == Lesser(LaneLength, ActiveProgress + Lookahead)
  IN  [x |-> IF mission.startAtA THEN XMin + along ELSE XMax - along,
       y |-> LaneY(ActiveLane)]

(* apply_active_lane_los: forward unless the line of sight is too far off. *)
LosCommand ==
  LET desired == IF LookaheadTarget = odom.pos THEN LaneHeading
                 ELSE HeadingTo(odom.pos, LookaheadTarget)
  IN  IF TurnBetween(desired, odom.yaw) >= StopHeading THEN "neutral" ELSE "forward"

OnActiveLane ==
  /\ ActiveCrossTrackSq <= Sq(RejoinCrossTrack)
  /\ TurnBetween(LaneHeading, odom.yaw) <= RejoinHeading

----------------------------------------------------------------------------
(* Timers, transitions and the RC command. *)

(* A stability timer runs while its condition holds and restarts with it. *)
Running(t, condition) ==
  IF ~condition THEN Unset ELSE IF since[t] = Unset THEN 0 ELSE since[t]
HeldFor(t, duration) == since[t] # Unset /\ since[t] >= duration

(* transition_to; tm holds the timers as the handler leaves them. *)
TransitionTo(next, tm) ==
  /\ state' = next
  /\ stateAge' = IF next = state THEN stateAge ELSE 0
  /\ since' = IF next = "APPROACH_BUOY" /\ next # state
              THEN [tm EXCEPT !.close = Unset] ELSE tm

StayWith(tm) == since' = tm /\ UNCHANGED <<state, stateAge>>

(* The tick's message: NOCHANGE leaves the override in force, and a state  *)
(* that ended in COMPLETE or FAILSAFE releases the channels instead.       *)
PublishWithoutRelease(command) ==      \* variant: no release on completion
  override' = IF command = "nochange" THEN override ELSE command

PublishForward(command) ==
  override' = IF state' \in Terminal THEN "none"
              ELSE IF command = "nochange" THEN override ELSE command

----------------------------------------------------------------------------
(* Shared parts of the handlers. *)

(* Variant: the pursuit keeps the context of the last one. *)
BeginTargetKeepingContext(context, handoff, tm) ==
  /\ target' = [target EXCEPT !.handoff = handoff]
  /\ TransitionTo("TARGET_HOLD", [tm EXCEPT !.hold = Unset, !.close = Unset])

BeginTarget(context, handoff, tm) ==
  LET cleared == [tm EXCEPT !.hold = Unset, !.close = Unset]
      departure == IF context = "LANE" /\ HasActiveLane THEN ActiveProgress
                                                        ELSE target.departure
  IN  /\ target' = [context |-> context, handoff |-> handoff, departure |-> departure]
      /\ TransitionTo(IF context = "LANE" /\ ~HasActiveLane THEN "FAILSAFE"
                                                            ELSE "TARGET_HOLD", cleared)

SelectNextLane(completed, tm, laneToLane) ==
  IF Lanes \ completed = {}
  THEN /\ mission' = [mission EXCEPT !.completed = completed, !.active = NoLane]
       /\ TransitionTo("COMPLETE", tm)
       /\ UNCHANGED <<transfer, ignoreUntil, aligned>>
  ELSE LET i == ClosestLane(odom.pos, completed)
       IN  /\ mission' = [completed |-> completed, active |-> i,
                          startAtA |-> StartAtA(odom.pos, i)]
           /\ transfer' = [enabled |-> laneToLane, phase |-> "ALIGN_TRANSFER",
                           start |-> odom.pos]
           /\ ignoreUntil' = Unset
           /\ aligned' = FALSE
           /\ TransitionTo("MOVE_TO_LANE_START",
                           [tm EXCEPT !.heading = Unset, !.settle = Unset])

SkipUntil == Lesser(LaneLength, target.departure + SkipDistance)

FinishTarget(skip) ==
  LET tm == [since EXCEPT !.detect = Unset]
  IN  /\ buoy' = NoBuoy
      /\ IF target.context = "INITIAL"
         THEN SelectNextLane(mission.completed, tm, FALSE)
         ELSE IF ~HasActiveLane
         THEN /\ TransitionTo("FAILSAFE", tm)
              /\ UNCHANGED <<mission, transfer, ignoreUntil, aligned>>
         ELSE /\ ignoreUntil' = IF skip THEN SkipUntil ELSE ignoreUntil
              /\ aligned' = FALSE
              /\ TransitionTo("RETURN_TO_ACTIVE_LANE", [tm EXCEPT !.settle = Unset])
              /\ UNCHANGED <<mission, transfer>>

(* Lane following begins: search afresh, with no leftover confirmation. *)
EnterLaneFollowing(tm) ==
  TransitionTo("LANE_FOLLOWING_WITH_SEARCH", [tm EXCEPT !.detect = Unset])

(* follow_waypoint: its result, its timer, its alignment and its command.  *)
WithinReach(p) == DistSq(odom.pos, p) <= Sq(ReachTolerance)
Settling(p) == WithinReach(p) /\ ~odom.moving
SettleTimer(p) == Running("settle", Settling(p))
WaypointReached(p) == Settling(p) /\ SettleTimer(p) >= SettleHoldTime
WaypointAligned(p) ==
  LET error == TurnBetween(HeadingTo(odom.pos, p), odom.yaw)
  IN  IF WithinReach(p) THEN aligned
      ELSE (aligned \/ error <= AlignHeading) /\ error < ReleaseHeading
WaypointCommand(p) ==
  IF ~WithinReach(p) /\ WaypointAligned(p) THEN "forward" ELSE "neutral"

----------------------------------------------------------------------------
(* Sensor callbacks. *)

missionVars == <<state, stateAge, target, scan, laneVars, aligned, override>>

OnStartFrame ==
  /\ ~startFrame
  /\ startFrame' = TRUE
  /\ UNCHANGED <<odom, depth, buoy, since, grantVars, missionVars>>

OnOdometry ==
  /\ startFrame
  /\ \E pos \in Positions, yaw \in Yaws, moving \in BOOLEAN :
       odom' = [have |-> TRUE, age |-> 0, pos |-> pos, yaw |-> yaw, moving |-> moving]
  /\ UNCHANGED <<startFrame, depth, buoy, since, grantVars, missionVars>>

OnDepth(source) ==
  /\ \E deep \in BOOLEAN : depth' = [depth EXCEPT ![source] = [age |-> 0, deep |-> deep]]
  /\ UNCHANGED <<startFrame, odom, buoy, since, grantVars, missionVars>>

Selecting == state \in {"IDLE", "TARGET_CONFIRM", "INITIAL_SCAN_360",
                        "LANE_FOLLOWING_WITH_SEARCH", "TARGET_HOLD", "REACQUIRE_BUOY"}

(* A new target starts every confirmation afresh; the variant keeps the    *)
(* time of the hold.                                                       *)
TimersKeepingHold == [since EXCEPT !.confirm = Unset, !.detect = Unset]
TimersOfNewTarget == [since EXCEPT !.confirm = Unset, !.hold = Unset, !.detect = Unset]

(* A message counts by its best valid box d; one without a valid box       *)
(* changes nothing.                                                        *)
OnBbox(d) ==
  /\ buoy' \in AcceptedTracks(buoy, d, Selecting)
  /\ since' = IF Replaces(buoy, d, Selecting) THEN TimersOfNewTarget ELSE since
  /\ scan' = IF /\ state = "INITIAL_SCAN_360" /\ odom.have
                /\ scan.candidate = NoCandidate \/ IsBetterBuoy(d, scan.candidate)
             THEN [scan EXCEPT !.candidate = d, !.yaw = odom.yaw]
             ELSE scan
  /\ UNCHANGED <<state, stateAge, sensors, grantVars, target, laneVars, aligned, override>>

----------------------------------------------------------------------------
(* Commands of the homing node and the operator; a false message does      *)
(* nothing.                                                                *)

ResetMission ==
  /\ buoy' = NoBuoy
  /\ scan' = [scan EXCEPT !.candidate = NoCandidate]
  /\ mission' = [mission EXCEPT !.completed = {}, !.active = NoLane]
  /\ ignoreUntil' = Unset
  /\ transfer' = [transfer EXCEPT !.enabled = FALSE]
  /\ holdDepth' = FALSE
  /\ hasControl' = FALSE
  /\ aligned' = FALSE

OnVisionSearchRequest ==
  /\ state = "IDLE"
  /\ ResetMission
  /\ confirmedTopic' = FALSE
  /\ TransitionTo("TARGET_CONFIRM", [t \in TimerNames |-> Unset])
  /\ UNCHANGED <<sensors, target, override>>

FixNoDepth == UNCHANGED holdDepth                 \* variant: nothing to hold
FixMissionDepth == holdDepth' = TRUE

BeginInitialScan ==
  /\ scan' = [scan EXCEPT !.candidate = NoCandidate, !.accumulated = 0,
                          !.previous = odom.yaw]
  /\ TransitionTo("INITIAL_SCAN_360", since)

OnVisionControlGranted ==
  /\ state \in Standby
  /\ hasControl' = TRUE
  /\ IF ~RecentOdometry \/ ~HaveDepth
     THEN TransitionTo("FAILSAFE", since) /\ UNCHANGED <<holdDepth, target, scan>>
     ELSE /\ FixMissionDepth
          /\ IF Confirmed(buoy)
             THEN BeginTarget("INITIAL", odom.pos, since) /\ UNCHANGED scan
             ELSE /\ target' = [target EXCEPT !.handoff = odom.pos]
                  /\ BeginInitialScan
  /\ UNCHANGED <<sensors, buoy, laneVars, aligned, confirmedTopic, override>>

OnEmergencyStop ==
  /\ TransitionTo("FAILSAFE", since)
  /\ UNCHANGED <<sensors, grantVars, buoy, target, scan, laneVars, aligned, override>>

----------------------------------------------------------------------------
(* The control tick, before and after the mission. *)

RunTargetConfirm ==
  /\ state = "TARGET_CONFIRM"
  /\ IF Confirmed(buoy) /\ HeldFor("confirm", TargetConfirmTime)
     THEN confirmedTopic' = TRUE /\ TransitionTo("WAIT_CONTROL_GRANT", since)
     ELSE /\ StayWith([since EXCEPT !.confirm = Running("confirm", Confirmed(buoy))])
          /\ UNCHANGED confirmedTopic
  /\ UNCHANGED <<sensors, hasControl, holdDepth, buoy, target, scan, laneVars,
                 aligned, override>>

ReleaseOnCompletion ==                 \* variant: a failsafe releases nothing
  /\ state = "COMPLETE" /\ hasControl
  /\ override' = "none"
  /\ UNCHANGED <<state, stateAge, sensors, grantVars, buoy, since, target, scan,
                 laneVars, aligned>>

ReleaseRc ==
  /\ state \in Terminal /\ hasControl
  /\ override' = "none"
  /\ UNCHANGED <<state, stateAge, sensors, grantVars, buoy, since, target, scan,
                 laneVars, aligned>>

(* The tick drives only while the inputs are recent and the depth allowed. *)
Underway == hasControl /\ state \notin Standby \cup Terminal
InputsMissing == ~RecentOdometry \/ ~HaveDepth \/ ~holdDepth

CheckDepthAlone ==                     \* variant: odometry is not checked
  /\ Underway
  /\ ~HaveDepth \/ ~holdDepth \/ TRUE \in SecondDepthReads
  /\ TransitionTo("FAILSAFE", since)
  /\ override' = "none"
  /\ UNCHANGED <<sensors, grantVars, buoy, target, scan, laneVars, aligned>>

CheckInputs ==
  /\ Underway
  /\ InputsMissing \/ TRUE \in SecondDepthReads
  /\ TransitionTo("FAILSAFE", since)
  /\ override' = "none"
  /\ UNCHANGED <<sensors, grantVars, buoy, target, scan, laneVars, aligned>>

ControlOnDepthAlone(s) ==              \* variant: odometry is not checked
  /\ hasControl /\ state = s
  /\ HaveDepth /\ holdDepth /\ FALSE \in SecondDepthReads
  /\ UNCHANGED <<sensors, grantVars>>

Control(s) ==
  /\ hasControl /\ state = s
  /\ ~InputsMissing /\ FALSE \in SecondDepthReads
  /\ UNCHANGED <<sensors, grantVars>>

(* A yaw jump of half a radian or more is not counted. *)
ScanProgress ==
  LET delta == TurnBetween(odom.yaw, scan.previous)
  IN  scan.accumulated + IF delta <= ScanStep THEN delta ELSE 0

RunInitialScan ==
  /\ Control("INITIAL_SCAN_360")
  /\ LET swept == [scan EXCEPT !.accumulated = ScanProgress, !.previous = odom.yaw]
     IN  IF ScanProgress < Turn - ScanTolerance
         THEN /\ scan' = swept
              /\ StayWith(since)
              /\ UNCHANGED <<buoy, laneVars, aligned>>
         ELSE IF scan.candidate = NoCandidate
         THEN /\ scan' = swept
              /\ SelectNextLane(mission.completed, since, FALSE)
              /\ UNCHANGED buoy
         ELSE /\ scan' = [swept EXCEPT !.goal = scan.yaw]
              /\ buoy' = NoBuoy
              /\ aligned' = FALSE
              /\ TransitionTo("TURN_TO_INITIAL_TARGET", [since EXCEPT !.settle = Unset])
              /\ UNCHANGED laneVars
  /\ PublishForward("neutral")
  /\ UNCHANGED target

RunTurnToInitialTarget ==
  /\ Control("TURN_TO_INITIAL_TARGET")
  /\ IF Recent(buoy)
     THEN BeginTarget("INITIAL", target.handoff, since) /\ UNCHANGED <<laneVars, aligned>>
     ELSE /\ IF stateAge >= InitialReacquireTimeout
             THEN SelectNextLane(mission.completed, since, FALSE)
             ELSE StayWith(since) /\ UNCHANGED <<laneVars, aligned>>
          /\ UNCHANGED target
  /\ PublishForward("neutral")
  /\ UNCHANGED <<buoy, scan>>

----------------------------------------------------------------------------
(* The control tick: the pursuit of one buoy. *)

RunTargetHold ==
  /\ Control("TARGET_HOLD")
  /\ IF ~Recent(buoy)
     THEN /\ buoy' = NoBuoy
          /\ TransitionTo("REACQUIRE_BUOY", [since EXCEPT !.hold = Unset])
     ELSE /\ IF Confirmed(buoy) /\ HeldFor("hold", TargetConfirmTime)
             THEN TransitionTo("APPROACH_BUOY", since)
             ELSE StayWith([since EXCEPT !.hold = Running("hold", Confirmed(buoy))])
          /\ UNCHANGED buoy
  /\ PublishForward("neutral")
  /\ UNCHANGED <<target, scan, laneVars, aligned>>

RunReacquireBuoy ==
  /\ Control("REACQUIRE_BUOY")
  /\ \/ /\ Recent(buoy)
        /\ TransitionTo("TARGET_HOLD", [since EXCEPT !.hold = Unset])
        /\ UNCHANGED <<buoy, laneVars, aligned>>
     \/ /\ ~Recent(buoy) /\ stateAge >= ReacquireTimeout
        /\ FinishTarget(TRUE)
     \/ /\ ~Recent(buoy) /\ stateAge < ReacquireTimeout
        /\ StayWith(since)
        /\ UNCHANGED <<buoy, laneVars, aligned>>
  /\ PublishForward("neutral")
  /\ UNCHANGED <<target, scan>>

CloseEnough == buoy.area >= CloseArea

TrackBuoy ==
  /\ IF CloseEnough /\ HeldFor("close", CloseHoldTime)
     THEN TransitionTo("STRONG_FORWARD", since)
     ELSE StayWith([since EXCEPT !.close = Running("close", CloseEnough)])
  /\ PublishForward(IF CloseEnough THEN "neutral" ELSE "forward")
  /\ UNCHANGED <<buoy, laneVars, aligned>>

(* Losing or giving up the buoy publishes no new command for one tick. *)
RunApproachBuoy ==
  /\ Control("APPROACH_BUOY")
  /\ \/ /\ ~Recent(buoy)
        /\ buoy' = NoBuoy
        /\ TransitionTo("REACQUIRE_BUOY", since)
        /\ PublishForward("nochange")
        /\ UNCHANGED <<laneVars, aligned>>
     \/ /\ Recent(buoy) /\ TargetExcursionLimitReached
        /\ FinishTarget(TRUE)
        /\ PublishForward("nochange")
     \/ /\ Recent(buoy) /\ ~TargetExcursionLimitReached
        /\ TrackBuoy
  /\ UNCHANGED <<target, scan>>

(* Variant: the pulse also waits to see the buoy. *)
RunStrongForwardWhileSeen ==
  /\ Control("STRONG_FORWARD")
  /\ IF stateAge >= StrongForwardTime /\ Recent(buoy)
     THEN TransitionTo("STRONG_BACKOFF", since) /\ PublishForward("backoff")
     ELSE StayWith(since) /\ PublishForward("strong")
  /\ UNCHANGED <<buoy, target, scan, laneVars, aligned>>

RunStrongForward ==
  /\ Control("STRONG_FORWARD")
  /\ IF stateAge >= StrongForwardTime
     THEN TransitionTo("STRONG_BACKOFF", since) /\ PublishForward("backoff")
     ELSE StayWith(since) /\ PublishForward("strong")
  /\ UNCHANGED <<buoy, target, scan, laneVars, aligned>>

RunStrongBackoff ==
  /\ Control("STRONG_BACKOFF")
  /\ IF stateAge < StrongBackoffTime
     THEN StayWith(since) /\ PublishForward("backoff") /\ UNCHANGED <<buoy, laneVars, aligned>>
     ELSE FinishTarget(FALSE) /\ PublishForward("neutral")
  /\ UNCHANGED <<target, scan>>

----------------------------------------------------------------------------
(* The control tick: moving between and along the lanes. *)

(* The new lane is reached without a transfer. *)
MoveToLaneStart ==
  /\ ~transfer.enabled
  /\ LET tm == [since EXCEPT !.settle = SettleTimer(ActiveStart)]
     IN  IF WaypointReached(ActiveStart)
         THEN /\ aligned' = FALSE
              /\ EnterLaneFollowing([tm EXCEPT !.settle = Unset])
         ELSE /\ aligned' = WaypointAligned(ActiveStart)
              /\ StayWith(tm)
  /\ PublishForward(WaypointCommand(ActiveStart))
  /\ UNCHANGED transfer

DynamicTransfer ==
  /\ transfer.enabled /\ DynamicRejoin
  /\ IF HasActiveLane /\ ~OnActiveLane
     THEN StayWith(since) /\ UNCHANGED <<transfer, aligned>>
     ELSE IF HasActiveLane
     THEN /\ transfer' = [transfer EXCEPT !.enabled = FALSE]
          /\ aligned' = FALSE
          /\ EnterLaneFollowing([since EXCEPT !.heading = Unset, !.settle = Unset])
     ELSE TransitionTo("FAILSAFE", since) /\ UNCHANGED <<transfer, aligned>>
  /\ PublishForward(IF HasActiveLane THEN LosCommand ELSE "none")

(* The three-phase transfer: turn to the connector, track it, turn to the  *)
(* new lane.  A connector of no length skips to the last phase.            *)
ConnectorHeading == IF transfer.start = ActiveStart THEN LaneHeading
                    ELSE HeadingTo(transfer.start, ActiveStart)
TransferPhase == IF transfer.start = ActiveStart THEN "ALIGN_NEW_LANE" ELSE transfer.phase

HeadingTimerUnbroken(h) ==             \* variant: an error does not reset it
  Running("heading", since.heading # Unset \/ TurnBetween(h, odom.yaw) <= TransferHeading)
HeadingTimer(h) ==
  Running("heading", TurnBetween(h, odom.yaw) <= TransferHeading)
HeadingStable(h) == HeadingTimer(h) # Unset /\ HeadingTimer(h) >= HeadingHoldTime

NextPhase(phase) ==
  /\ transfer' = [transfer EXCEPT !.phase = phase]
  /\ aligned' = FALSE
  /\ StayWith([since EXCEPT !.heading = Unset, !.settle = Unset])

AlignTransfer ==
  /\ TransferPhase = "ALIGN_TRANSFER"
  /\ IF HeadingStable(ConnectorHeading) THEN NextPhase("TRACK_TRANSFER")
     ELSE /\ StayWith([since EXCEPT !.heading = HeadingTimer(ConnectorHeading)])
          /\ UNCHANGED <<transfer, aligned>>
  /\ PublishForward("neutral")

(* The line of sight runs along the connector, from the vehicle's          *)
(* projection on it; only its heading matters here.                        *)
TrackTransfer ==
  /\ TransferPhase = "TRACK_TRANSFER"
  /\ LET settled == since.settle # Unset /\ WaypointReached(ActiveStart)
     IN  IF settled THEN NextPhase("ALIGN_NEW_LANE")
         ELSE /\ StayWith([since EXCEPT !.settle = SettleTimer(ActiveStart)])
              /\ UNCHANGED <<transfer, aligned>>
  /\ IF WithinReach(ActiveStart) THEN PublishForward("neutral")
     ELSE \E command \in {"neutral", "forward"} : PublishForward(command)

AlignNewLane ==
  /\ TransferPhase = "ALIGN_NEW_LANE"
  /\ IF HeadingStable(LaneHeading)
     THEN /\ transfer' = [transfer EXCEPT !.enabled = FALSE, !.phase = TransferPhase]
          /\ aligned' = FALSE
          /\ EnterLaneFollowing([since EXCEPT !.heading = Unset, !.settle = Unset])
     ELSE /\ transfer' = [transfer EXCEPT !.phase = TransferPhase]
          /\ StayWith([since EXCEPT !.heading = HeadingTimer(LaneHeading)])
          /\ UNCHANGED aligned
  /\ PublishForward("neutral")

RunMoveToLaneStart ==
  /\ Control("MOVE_TO_LANE_START")
  /\ \/ MoveToLaneStart
     \/ DynamicTransfer
     \/ /\ transfer.enabled /\ ~DynamicRejoin
        /\ AlignTransfer \/ TrackTransfer \/ AlignNewLane
  /\ UNCHANGED <<buoy, target, scan, mission, ignoreUntil>>

(* A lane is done near its end, or settled at its end. *)
EarlyTransitionAtStart ==              \* variant: the wrong end
  EndTransition > 0 /\ DistSq(odom.pos, ActiveStart) <= Sq(EndTransition)
EarlyTransition ==
  EndTransition > 0 /\ DistSq(odom.pos, ActiveFinish) <= Sq(EndTransition)
NearFinish == DistSq(odom.pos, ActiveFinish) <= Sq(Lookahead)
LaneFinished == EarlyTransition \/ (NearFinish /\ WaypointReached(ActiveFinish))

CompleteLane ==
  LET done == mission.completed \cup {ActiveLane}
      tm == IF EarlyTransition THEN since
            ELSE [since EXCEPT !.settle = SettleTimer(ActiveFinish)]
  IN  /\ SelectNextLane(done, tm, TRUE)
      /\ PublishForward(IF EarlyTransition THEN "nochange" ELSE "neutral")
      /\ UNCHANGED <<buoy, target>>

(* The skip window ends with a clean track. *)
SkipEnds == ignoreUntil # Unset /\ ActiveProgress + ReachTolerance >= ignoreUntil
SearchedTrack == IF SkipEnds THEN NoBuoy ELSE buoy
SearchingRegardless == TRUE                       \* variant: no skip window
Searching == ignoreUntil = Unset \/ SkipEnds

FollowAndSearch ==
  LET tm == IF NearFinish THEN [since EXCEPT !.settle = SettleTimer(ActiveFinish)]
                          ELSE since
      seen == Searching /\ Confirmed(SearchedTrack)
      found == seen /\ HeldFor("detect", TargetConfirmTime)
  IN  /\ buoy' = SearchedTrack
      /\ ignoreUntil' = IF SkipEnds THEN Unset ELSE ignoreUntil
      /\ aligned' = IF NearFinish THEN WaypointAligned(ActiveFinish) ELSE aligned
      /\ IF found THEN BeginTarget("LANE", target.handoff, tm)
         ELSE /\ StayWith([tm EXCEPT !.detect = Running("detect", seen)])
              /\ UNCHANGED target
      /\ PublishForward(IF found THEN "neutral"
                        ELSE IF NearFinish THEN WaypointCommand(ActiveFinish)
                        ELSE LosCommand)
      /\ UNCHANGED <<mission, transfer>>

LoseLane ==
  /\ TransitionTo("FAILSAFE", since)
  /\ PublishForward("none")
  /\ UNCHANGED <<buoy, target, laneVars, aligned>>

RunLaneFollowing ==
  /\ Control("LANE_FOLLOWING_WITH_SEARCH")
  /\ \/ ~HasActiveLane /\ LoseLane
     \/ HasActiveLane /\ LaneFinished /\ CompleteLane
     \/ HasActiveLane /\ ~LaneFinished /\ FollowAndSearch
  /\ UNCHANGED scan

RunReturnToActiveLane ==
  /\ Control("RETURN_TO_ACTIVE_LANE")
  /\ IF HasActiveLane /\ OnActiveLane
     THEN buoy' = NoBuoy /\ EnterLaneFollowing(since)
     ELSE /\ UNCHANGED buoy
          /\ IF HasActiveLane THEN StayWith(since) ELSE TransitionTo("FAILSAFE", since)
  /\ PublishForward(IF HasActiveLane THEN LosCommand ELSE "none")
  /\ UNCHANGED <<target, scan, laneVars, aligned>>

----------------------------------------------------------------------------
(* One unit of time passes.  An input that cannot stall is delivered more  *)
(* often than the unit, so its age stays what it is.                       *)

Aged(age, cap) == Lesser(age + 1, cap)
AgedSample(sample) ==
  [sample EXCEPT !.age = IF "depth" \in StallingInputs THEN Aged(@, DepthTimeout + 1) ELSE @]

Elapse ==
  /\ stateAge' = Aged(stateAge, StateAgeCap(state))
  /\ since' = [t \in TimerNames |->
                 IF since[t] = Unset THEN Unset ELSE Aged(since[t], TimerCap(t))]
  /\ buoy' = [buoy EXCEPT !.age = Aged(@, DetectionTimeout + 1)]
  /\ odom' = [odom EXCEPT !.age = IF "odometry" \in StallingInputs
                                  THEN Aged(@, OdometryTimeout + 1) ELSE @]
  /\ depth' = [pose |-> AgedSample(depth.pose), scalar |-> AgedSample(depth.scalar)]
  /\ UNCHANGED <<state, startFrame, grantVars, target, scan, laneVars, aligned, override>>

----------------------------------------------------------------------------
Sense ==
  \/ OnStartFrame
  \/ OnOdometry
  \/ OnDepth("scalar")
  \/ UsePoseDepth /\ OnDepth("pose")
  \/ \E d \in Detections : OnBbox(d)

Command ==
  \/ OnVisionSearchRequest
  \/ OnVisionControlGranted
  \/ OnEmergencyStop

Tick ==
  \/ RunTargetConfirm
  \/ ReleaseRc
  \/ CheckInputs
  \/ RunInitialScan
  \/ RunTurnToInitialTarget
  \/ RunTargetHold
  \/ RunReacquireBuoy
  \/ RunApproachBuoy
  \/ RunStrongForward
  \/ RunStrongBackoff
  \/ RunMoveToLaneStart
  \/ RunLaneFollowing
  \/ RunReturnToActiveLane

Next == Sense \/ Command \/ Tick \/ Elapse

Spec == Init /\ [][Next]_vars

(* The wall timer keeps firing and time keeps passing. *)
FairSpec == Spec /\ WF_vars(Tick) /\ WF_vars(Elapse)

----------------------------------------------------------------------------
(* Properties. *)

TransferPhases == {"ALIGN_TRANSFER", "TRACK_TRANSFER", "ALIGN_NEW_LANE"}

(* Every variable holds a value of its kind; ages stay within their caps. *)
TypeOK ==
  /\ state \in State /\ stateAge \in 0 .. StateAgeCap(state)
  /\ hasControl \in BOOLEAN /\ startFrame \in BOOLEAN /\ holdDepth \in BOOLEAN
  /\ odom \in [have : BOOLEAN, age : 0 .. OdometryTimeout + 1,
               pos : Positions \cup {Origin}, yaw : Yaws \cup {0}, moving : BOOLEAN]
  /\ depth \in [pose : DepthSample, scalar : DepthSample]
  /\ buoy \in Track
  /\ since \in [TimerNames -> Nat \cup {Unset}]
  /\ target \in [context : {"INITIAL", "LANE"},
                 handoff : Positions \cup {Origin}, departure : 0 .. LaneLength]
  /\ scan \in [candidate : Detections \cup {NoCandidate}, yaw : Yaws \cup {0},
               accumulated : Nat, previous : Yaws \cup {0}, goal : Yaws \cup {0}]
  /\ mission \in [completed : SUBSET Lanes, active : Lanes \cup {NoLane},
                  startAtA : BOOLEAN]
  /\ transfer \in [enabled : BOOLEAN, phase : TransferPhases,
                   start : Positions \cup {Origin}]
  /\ ignoreUntil \in 0 .. LaneLength \cup {Unset}
  /\ aligned \in BOOLEAN /\ confirmedTopic \in BOOLEAN
  /\ override \in {"none", "neutral", "forward", "strong", "backoff"}

(* The RC channels are silent until control is granted, the grant is not   *)
(* lost without the mission ending, and every mission state has the depth  *)
(* it holds (on_vision_control_granted, on_timer).                         *)
ControlDiscipline ==
  /\ ~hasControl => override = "none" /\ state \in Standby \cup {"FAILSAFE"}
  /\ hasControl => state \notin Standby
  /\ hasControl /\ state # "FAILSAFE" => holdDepth

(* The lane states and a pursuit begun on a lane have their lane, which is *)
(* not completed; before the first lane no lane is taken or completed; the *)
(* mission completes only with every lane.  The code's "without an active  *)
(* lane" failsafes are therefore never taken.                              *)
LaneOwnership ==
  /\ HasActiveLane => ActiveLane \notin mission.completed
  /\ state \in LaneStates => HasActiveLane
  /\ state \in Pursuit => (HasActiveLane <=> target.context = "LANE")
  /\ state \in Search \cup Standby => ~HasActiveLane /\ mission.completed = {}
  /\ state \in Pursuit /\ target.context = "INITIAL" => mission.completed = {}
  /\ state = "COMPLETE" => mission.completed = Lanes

(* Detections are skipped only on the lane where a target was given up,    *)
(* and the window stays where that target was left (finish_target,         *)
(* run_lane_following).                                                    *)
SkipWindow ==
  ignoreUntil # Unset =>
    /\ state \in {"RETURN_TO_ACTIVE_LANE", "LANE_FOLLOWING_WITH_SEARCH"} \cup Terminal
    /\ target.context = "LANE"
    /\ ignoreUntil = SkipUntil

(* A confirmation in progress belongs to the target now tracked: a box of  *)
(* another target cannot inherit the time (accept_buoy_detection).         *)
ConfirmationIsOfTarget ==
  Recent(buoy) =>
    /\ state = "TARGET_CONFIRM" /\ since.confirm # Unset => Confirmed(buoy)
    /\ state = "TARGET_HOLD" /\ since.hold # Unset => Confirmed(buoy)
    /\ state = "LANE_FOLLOWING_WITH_SEARCH" /\ since.detect # Unset => Confirmed(buoy)

(* No command outlives its phase: the pulses are in force only in their    *)
(* states, and while the vehicle holds, scans or turns nothing drives it   *)
(* (a NOCHANGE tick keeps the previous command in force).                  *)
CommandContained ==
  /\ override = "strong" => state \in {"STRONG_FORWARD", "FAILSAFE"}
  /\ override = "backoff" => state \in {"STRONG_BACKOFF", "FAILSAFE"}
  /\ override = "forward" => state \in LaneStates \cup {"APPROACH_BUOY", "REACQUIRE_BUOY",
                                                        "FAILSAFE"}
  /\ state = "COMPLETE" => override = "none"

(* The mission never leaves a terminal state, nor commands anything there. *)
TerminalIsFinal ==
  [][(state \in Terminal) =>
       /\ state' \in Terminal
       /\ state = "FAILSAFE" => state' = "FAILSAFE"
       /\ (override' = override \/ override' = "none")]_vars

(* With odometry or depth missing, a tick can only release the channels. *)
NoBlindThrust ==
  [][hasControl /\ InputsMissing /\ override' # override => override' = "none"]_vars

(* Once control is granted a lane, once completed, stays completed, and is *)
(* completed at its finishing end only, one at a time.                     *)
LanesDoneAtTheirEnd ==
  [][hasControl /\ mission'.completed # mission.completed =>
       /\ mission'.completed = mission.completed \cup {ActiveLane}
       /\ \/ DistSq(odom.pos, ActiveFinish) <= Sq(EndTransition)
          \/ WithinReach(ActiveFinish)]_vars

(* A three-phase transfer earns each phase: it tracks the connector once   *)
(* it heads along it, turns to the lane once at its start, and follows it  *)
(* once it heads along it (run_lane_transfer).                             *)
TransferPhasesEarned ==
  [][state = "MOVE_TO_LANE_START" /\ transfer.enabled /\ ~DynamicRejoin =>
       /\ transfer'.phase = "TRACK_TRANSFER" /\ transfer.phase = "ALIGN_TRANSFER"
            => TurnBetween(ConnectorHeading, odom.yaw) <= TransferHeading
       /\ transfer'.phase = "ALIGN_NEW_LANE" /\ transfer.phase # "ALIGN_NEW_LANE"
            => WithinReach(ActiveStart) \/ transfer.start = ActiveStart
       /\ state' = "LANE_FOLLOWING_WITH_SEARCH"
            => TurnBetween(LaneHeading, odom.yaw) <= TransferHeading]_vars

(* A scan starts without a candidate and never gives one up for a smaller  *)
(* box (begin_initial_scan, consider_scan_candidate).                      *)
ScanKeepsLargest ==
  [][state' = "INITIAL_SCAN_360" =>
       IF state = "INITIAL_SCAN_360" THEN scan'.candidate.area >= scan.candidate.area
                                     ELSE scan'.candidate = NoCandidate]_vars

(* The emergency stop and every failsafe end in released channels. *)
FailsafeReleases == state = "FAILSAFE" ~> override = "none"

(* Inputs that stay missing stop the vehicle. *)
MissingInputsStop == Underway /\ InputsMissing ~> ~InputsMissing \/ override = "none"

(* Both pulses, and the search for a lost target, end by themselves. *)
PulsesEnd ==
  /\ state \in {"STRONG_FORWARD", "STRONG_BACKOFF"} ~> state \notin {"STRONG_FORWARD", "STRONG_BACKOFF"}
  /\ state = "REACQUIRE_BUOY" ~> state # "REACQUIRE_BUOY"
  /\ state = "TURN_TO_INITIAL_TARGET" ~> state # "TURN_TO_INITIAL_TARGET"

----------------------------------------------------------------------------
(* What the README and the comments say and the code does not do. *)

(* README: once approaching, only boxes of the same target update the      *)
(* track, so the target does not change during the approach.               *)
ApproachKeepsTarget ==
  [][state = "APPROACH_BUOY" /\ state' = "APPROACH_BUOY" /\ buoy' # buoy /\ Recent(buoy')
       => SameBuoyTarget(buoy', buoy)]_vars
============================================================================
