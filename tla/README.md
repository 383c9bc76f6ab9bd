# Verification of the vision lane mission

TLA+ specifications, TLC configurations and TLAPS proofs for the buoy mission
in `src/`: a C++ ROS 2 node that searches an arena lane by lane, pursues the
buoys a camera reports and commands an ArduSub autopilot through RC overrides;
a Python node that runs YOLO on the camera's frames; and the WebRTC transport that
shows the video in browsers.

The modules are checked with `tlc -config X.cfg M` and proved with
`tlapm M.tla`.

## 1. The system

| part | source | state it keeps | operations |
|---|---|---|---|
| lane planner | `src/lane_planner.cpp`, `geometry.hpp` | arena bounds, lane centres (fixed by the constructor) | `closest_uncompleted_endpoint`, `project_to_lane`, `cross_track_distance`, `progress_from_start`, `inside_safe_bounds` |
| buoy tracker | `src/lane_vision_controller_node.cpp:538-678` | one optional track `buoy_` with hits and time of the last hit | `on_bbox`, `is_better_buoy`, `accept_buoy_detection`, `update_detection_slot`, `recent`, `confirmed_buoy` |
| mission state machine | `src/lane_vision_controller_node.cpp` | `state_` (15 states), grant, sensor samples, stability timers, target context, scan, lanes done and active, transfer phase, skip window | eight subscriptions, one wall timer, transitions |
| arena frame | `arena_frame_transform.hpp` | the start frame, once received | transform of positions and headings |
| detector pipeline | `scripts/yolo_buoy_detector.py:491-653, 1101-1138` | two depth-1 slots, a token, a stop event, two threads | `on_image`, `_decode_worker`, `_inference_worker`, `_stop_pipeline_workers` |
| detector box choice | `scripts/yolo_buoy_detector.py:594-757, 784-970` | the boxes of a frame and the best so far | `_detect_targets`, `_is_better_detection`, `_best_detection_per_class`, publishing and highlighting |
| WebRTC source switch | `scripts/yolo_buoy_detector.py:280-429, 617-629` | source topic, pending request, error, camera subscription, status signature | the request from a browser, the refresh timer with its switch, the camera's callback, the inference thread's frames |
| frame pacer | `scripts/yolo_webrtc_transport.py:149-307` | next place, last stamp, last presentation time, deque of stamps | `push_frame`, `reset_source_timing` |
| WebRTC transport | `scripts/yolo_webrtc_transport.py` | peers with websocket, queue, branch and webrtcbin; the loop and the shutdown event; start and error flags | `start`, `stop`, websocket handler and sender, `add_peer`, `remove_peer`, offer, answer, ICE, bus errors |
| ROS image streamer | `scripts/ros_image_webrtc_streamer.py` | its transport | `_on_image`, `_jpeg_dimensions`, construction, destruction |
| environment scripts, launch, config | `scripts/*env*`, `launch/`, `config/` | none | parameters |

How they interact. Cameras feed the detector (a topic, or WebRTC); the detector
publishes at most one box per processed image; the controller folds boxes into
its track. The homing node (another repository) asks for a search, sees
`target_confirmed`, and grants control; from then on the controller's 20 Hz
timer commands the forward, lateral, yaw and heave channels. The controller
spins on a single thread, so its callbacks and its timer are atomic with
respect to each other; the detector has an executor thread, a decode thread and
an inference thread that share memory. Inside the detector, and inside the
streamer, lives a transport: frames are pushed into it by the node's threads,
browsers reach it through a signaling thread, and peers are added to and removed
from its pipeline on a GStreamer thread.

What is hard in it:

* the order in which callbacks, ticks and the passing of time interleave: every
  decision reads samples that may have expired since the last tick;
* a track that changes hands while a confirmation of it is being timed;
* state that one mission state sets and another clears: the skip window, the
  shared stability timers, the target context, the active lane;
* an RC override that stays in force at the autopilot when a tick publishes
  `NOCHANGE` or when no tick comes;
* in the detector, lost wake-ups, a lost or duplicated token, frames that are
  overtaken, and a shutdown that must reach a thread wherever it waits;
* a source that is switched while frames of both sources are on their way;
* presentation times for the frames of two threads, from stamps that jitter,
  jump or go back;
* in the transport, calls left with a thread that answers late or never, a queue
  of bounded size, a negotiation that a closed websocket interrupts anywhere, and
  a start and a stop that time out;
* an order of boxes with tolerances, which is not transitive.

What makes each part correct:

* planner: the chosen lane is left to do and none has a nearer end; the lanes
  cover the arena; projection and progress stay on the lane;
* tracker: a confirmation is of the target tracked; the largest box wins while
  selecting;
* controller: nothing is commanded before the grant, after the end or blind; the
  active lane, the completed lanes and the state agree; lanes are completed one
  at a time, at their end; a command does not outlive its phase; pulses and
  searches end;
* pipeline: no decoded frame is overwritten, results come in order and once, no
  frame is stranded, and a stop ends both threads before the node goes;
* box choice: a clear winner is selected wherever it is listed, and the one
  selected is not beaten by a later one;
* source switch: a request is honoured, a failed switch leaks nothing, and one old
  frame at most follows a switch;
* pacer: presentation times are unique, the rate is bounded, no source waits;
* transport: a branch has an owner and a handler an end, candidates arrive once,
  an offer follows, and a stop reaches the server;
* streamer: a size that is announced is the image's, and the video goes on.

## 2. The modules

| module | models | notes |
|---|---|---|
| `LanePlanner` | `lane_planner.cpp` | pure operators on an integer grid |
| `BuoyTracker` | the track and its update | pure operators |
| `LaneVisionController` | the controller: every callback and every state of the tick | extends the two above |
| `VisionMission` | what a mission promises: a first target, every lane once, the release | abstract specification |
| `MissionRefinement` | the controller as an implementation of it | the refinement mapping |
| `DetectionPipeline` | the detector's three threads and its shutdown | checked directly |
| `TargetSelection` | what the detector makes of the boxes of a frame | |
| `FramePacer` | `push_frame` and `reset_source_timing`, for any set of threads | a specification of its own, and part of the next two |
| `SourceSwitch` | the detector's source switch and the frames of its two threads | extends `FramePacer` |
| `JpegHeader` | `_jpeg_dimensions` | pure operators, a recursive function |
| `JpegFormat` | what a JPEG is up to its frame header, without a loop | what the code's reader is written for |
| `ImageStreamer` | the image streamer | extends `FramePacer`, `JpegHeader` and `JpegFormat` |
| `WebRtcTransport` | start, stop, signaling, peers and their negotiation | checked directly |
| `MCLaneVisionController`, `MCSelection`, `MCStreamer` | small arenas, boxes and images for TLC | values of the constants only |
| `MCLanePlanner` | the planner's queries on a grid of positions | with reference definitions |
| `LanePlannerProofs` | planner lemmas and theorems | |
| `LanePlannerTheorems` | the properties of the run `planner`, the code's loop included | |
| `MissionProofs` | the controller: its operators' types, the inductive invariant with one lemma per action, the properties of the runs and the refinement | |
| `DetectionPipelineProofs`, `StreamProofs`, `StreamerProofs`, `TargetSelectionProofs`, `TransportProofs` | the invariants and properties of these modules | |

### The controller

A variable of the model is one member, or a record of members that belong
together; the comment beside each variable names them. Two things have no
member: `override`, the forward override in force at the autopilot, which is
what the last published message left there, and `confirmedTopic`, the last value
published on the confirmation topic.

*Time.* The code stores timestamps and compares `now - timestamp` with a
duration. The model stores the ages instead, capped where every later value
compares alike (`TimerCap`, `StateAgeCap`, one more than a timeout for a
sample), and `Elapse` lets one unit pass. A handler takes no time. An input that
is not in `StallingInputs` is delivered more often than the unit, so its age
does not grow. `on_timer` reads the depth twice; the second read may find a
sample at the very edge of its timeout expired (`SecondDepthReads`) and then
dereferences an empty optional, which is a choice of either comparison.

*Actions.* One per callback: `OnStartFrame`, `OnOdometry`, `OnDepth`, `OnBbox`,
`OnVisionSearchRequest`, `OnVisionControlGranted`, `OnEmergencyStop`. One per
path of `on_timer`: `RunTargetConfirm`, `ReleaseRc`, `CheckInputs` and one `Run…`
per mission state, all under the guard `Control`, which is the sequence of
checks at the head of the tick. `PublishForward` is the end of the tick: a state
that has ended in COMPLETE or FAILSAFE releases, `NOCHANGE` keeps the override,
anything else replaces it. `IDLE` and `WAIT_CONTROL_GRANT` ticks change nothing
and have no action.

*Abstractions.* Positions are points of an integer grid, chosen so that lane
centres fall on it; distances that the code compares after a square root are
compared squared. Headings are multiples of `1/Turn` of a circle and `atan2` is
rounded to the octant. Speed is moving or not, depth is too deep or not. A box is its area
class, its confidence class and a cell for its centre (one axis for both). The
low-pass filter leaves the centre anywhere between the old one and the sample's.
Width and height are filtered apart, so the area ends anywhere from the smaller of
the two areas up to that of the image (`FilteredArea`). Of the RC
message only the forward channel is kept, as neutral, forward, strong, backoff
or released. Odometry may jump: a vehicle that may be anywhere at any time
includes every real motion, so safety properties carry over, and liveness
properties are stated only where the code needs no motion.

### The pipeline

Frames are numbered as they arrive. A thread has a program counter with one
point per place where another thread can interfere; a block under a `Condition`
is one step. A thread asleep on a `Condition` moves only when notified, so a
lost wake-up shows. `prefetchAvailable` is the Event used as a token.
`Outcomes` says what decoding and inference may come to: an image, nothing, an
exception in either thread.

### The box choice

`Predict` is the model's answer, any sequence of at most `BoxLimit` boxes;
`SelectBox` is one turn of the loop of `_detect_targets`, `SelectOfClass` one turn of
`_best_detection_per_class`; `Publish` sends the messages and marks the boxes that
browsers see highlighted, which the code does by comparing what the messages
tell. A box is its class, area, confidence and horizontal centre, in whole
units; the tolerance of areas is kept as the ratio it is.

### The source switch and the pacer

The pacer's state is the members that `push_frame` changes under the frame lock.
`PlaceFrame` is the block under the lock: the frame is refused, loses its place
because the pipeline has no clock, or is accepted and held by its thread;
`PushBuffer` hands it to appsrc afterwards, which is where two threads overtake
each other. Stamps and the pipeline's clock are whole numbers of one unit;
between two accepted frames the pipeline's clock gets on by any of `Advances`.
`slot` and `steady` record what the properties are about.

The switch has one step for each block under the source lock: `Refresh` takes
the request, `Subscribe`, `SetTopic` (with `DestroyOld`) and `ResetTiming` are
`_switch_webrtc_source`, `PublishStatus` and `BroadcastStatus` the end of the
refresh. The refresh timer and the camera's callback share a callback group, so
one thread, `stream`, stands for both. The inference thread looks at the
source (`CheckInferredFrame`) before it pushes (`PushInferredFrame`). The
available sources are both or the detector's alone.

### The streamer

`OnImage` is the callback up to the end of the locked block, `PushImage` the rest.
`times` holds the clocks in use, chosen at the start: the node's, where images come
without a stamp, the camera's, where they come with one, or both, where some do and
some do not. Each advances by itself with `Tick` and is set back by itself with
`SetBack`, so two of them may be any distance apart. `JpegHeader` works on real byte
sequences. `Images` is what the camera may send: a JPEG that is whole is laid out
as `JpegFormat` says, and one that is not is the beginning of one that is; other
formats are passed over unread. `MCStreamer` builds them from segments, fill bytes
and stray ones, and cuts each at every length.

### The transport

A peer is a websocket that may connect. Its record `socket` holds where its
handler is, its queue (only the length: nothing depends on which messages
wait), its sender and the call its worker waits for; `branch`, `webrtc`, `offer`
and `ice` hold its part of the pipeline. `gst.idle` is the queue of idle callbacks,
run in order; `_gst_call_sync` appends one and waits, and `MayReturn` says when the
wait may end without it. `add_peer` is two steps, because the webrtcbin may ask
for an offer in between (`SignalsRace`). The operations of a webrtcbin are a queue
too, and each ends with the callback of its promise. A broadcast copies the registered
peers under the peer lock (`CopyPeers`) and tells them one by one afterwards
(`TellPeer`); `telling` is what each thread still has to tell, and a peer may leave
in between. GStreamer itself is not
part of `src/`: what it does is what the callbacks are written for. Everything
that the code handles as a failure is in `Failures`: a start that fails or is
slow, a port in use, a branch that cannot be built, a slow GStreamer thread, an
offer or a description that is refused, a bus error, a message that raises.

## 3. The runs

A `violation` run shows a disagreement between the code and its documents
(section 6). Every run ends within three minutes with two workers.

| run | instance | checks |
|---|---|---|
| `planner` | all positions up to 2 outside the bounds, all sets of completed lanes | `ChoiceIsNearest` (the choice is the one the code's loop ends with, and the nearest), `LanesCoverArena` |
| `mission` | two lanes, one box, dynamic transfers, holds of length 0 | `LaneOwnership`, `LanesDoneAtTheirEnd`, `ImplementsMission` (the refinement) |
| `transfer` | two lanes, four headings, three-phase transfer, holds of length 1, no boxes | `TransferPhasesEarned` |
| `pursuit` | one lane, two rival targets near or far, two hits to confirm, holds of length 1 | `SkipWindow`, `ConfirmationIsOfTarget`, `CommandContained`, `ScanKeepsLargest` |
| `inputs` | odometry and depth may stall, pulses of length 2 and 1, fair | `ControlDiscipline`, `NoBlindThrust`, `FailsafeReleases`, `MissingInputsStop`, `PulsesEnd` |
| `pipeline` | four frames, every outcome, preview on, fair | `NoDecodedDrop`, `PublishedInOrder`, `FramesFlow`, `NoPublishAfterDestroy`, `StopEnds` |
| `selection` | every frame of up to three of 21 boxes | `ClearWinnerSelected`, `NotBeatenLater` |
| `stream` | requests, refreshes, switches that fail, three frames of two threads, fair | `PtsUnique`, `NoStall`, `OneStaleFrame`, `NoSubscriptionLeak`, `OutOfOrderOnlyAcrossSwitch`, `RequestHonoured`, `RequestsAnswered` |
| `streamer` | 145 JPEGs and every beginning of them, stamps of one clock, of none or of two, a clock set back once, fair | `RateBounded`, `SizeIsRead`, `VideoGoesOn` |
| `transport` | one browser, a queue of one message, broadcasts of two threads, every failure, fair | `RegisteredAreLinked`, `LinkedHaveOwner`, `CandidatesOnce`, `HalfNegotiatedKept`, `StopReachesServer`, `HandlersEnd`, `ServerEnds`, `OfferFollows` |
| `target_switch` | a small controller | what the README says of the approach |
| `pipeline_quit` | three frames, preview on, fair | that q quits |

### Bounds, and why they are enough

* *Lanes and positions.* Two lanes are the least with a next lane; the rule
  for choosing among more is checked by `planner` and proved. A position is an
  end of a lane, on the lane, off it at the search offset, or out of bounds:
  the handlers compare positions with nothing else.
* *Durations* are 0 or 1 (2 for one pulse). 0 lets a hold end on the first tick
  after it begins; 1 puts a tick in between. Both lengths of every hold are in
  some run. Sample timeouts are 0 or 1; `DepthTimeout` is 1 in every instance,
  because a depth at the edge of its timeout would otherwise end every mission in
  `CheckInputs`.
* *Boxes.* Two targets, each with two sizes, the smaller one with the higher
  confidence: the least that tells the area rule from the confidence rule and a
  rival from an update. One box, where the properties ask only whether there is one.
* *The scan.* `ScanTolerance = Turn` ends the scan on its first tick, for runs
  about what follows it. Where `Yaws` is a single heading and the tolerance is
  smaller the scan never ends: those runs enter the mission by a confirmed box,
  and leave the way through the scan to the others.
* *Frames.* Four: one being inferred, one waiting for the inference or in the
  decoder, one waiting for the decoder and one to replace it.
* *Boxes of a frame.* Three, the least that can beat each other in a circle: areas
  80, 90 and 100 with a tolerance of 15 % are alike one by one, and the
  first and the last are not. There are two classes that match, one that does
  not, and a box without area.
* *Stamps.* An interval of 2 has a place that is due and one that is not; a deque
  of 2 or 3 forgets stamps within 3 or 4 frames; stamps up to 2 or 7 let a
  source go back, skip places and come again, and two clocks be more than an interval
  apart. The pipeline's clock stands still or jumps over a frame's duration in `stream`
  and moves by a unit in `streamer`, whose property does not look at it. Three frames are the least that two
  threads bring out of order and then push on.
* *Peers.* One, with a queue of one message, one candidate and one answer: it
  already reaches every branch of the handlers, a full queue included. Peers
  share the queue of idle callbacks, the set of registered peers and the
  server; with two of them the liveness properties are beyond TLC, and what is
  proved of the transport holds for any number, and for any number of threads that
  broadcast.
* *Counters.* `FrameLimit`, `StampLimit`, `Advances`, `JumpLimit`, `AnswerLimit` and
  `BoxLimit` bound what would grow for ever or be enumerated. `accumulated` (the scan's angle) grows only while
  the scan lasts and is therefore below `2 * Turn`.

`CHECK_DEADLOCK FALSE` is where the system does stop: a mission ends in COMPLETE or
FAILSAFE and, with inputs that do not stall, no step changes anything any more;
a destroyed detector or streamer has no step left, nor has a transport that was
stopped; the sources end with their frames; the planner's run ends with every
lane completed. The box choice goes on for ever, and `selection` checks that it
never deadlocks.

### Fairness

`LaneVisionController!FairSpec`: weak fairness of `Tick`, because the wall timer
fires every 50 ms and its callback runs on the one spinning thread, and of
`Elapse`, because time passes. Sensors, boxes, grants and the emergency stop are
not fair: the liveness properties hold whether or not they come.

`DetectionPipeline!FairSpec`: weak fairness of each thread's steps, because the
interpreter schedules every runnable thread. Images, the interrupt and the q key
are not fair.

`SourceSwitch!FairSpec`: weak fairness of the refresh, because its timer fires every
second, and of each thread that holds a frame. Requests and images are not fair.

`ImageStreamer!FairSpec`: weak fairness of the callback and of the push that ends
it. Here images are fair, because the property is about a camera that goes on
sending.

`WebRtcTransport!FairSpec`: weak fairness of every thread that can run: `start` and
`stop`, the server, each handler, and the GStreamer thread with its broadcasts; each
webrtcbin while the GStreamer thread runs. A stop sets the pipeline to NULL just
before it ends that thread; a webrtcbin may or may not answer after that. The
sender is fair because the websocket library pings, and closes a connection that
does not answer. Browsers, bus errors and failures are not fair.

## 4. What is proved

For every arena, set of boxes and parameter that `ArenaAssumption`,
`ScaleAssumption`, `TrackerAssumption` and `ValidParameters` allow. They state
what the constructors and `validate_parameters` accept, that the grid is
fine enough for the lane centres, and that the skip distance, the tolerances of
position and scan and the initial reacquire timeout are not negative, which is what
they mean and which `validate_parameters` leaves unchecked. TLC evaluates them on every run.

**Planner** (`LanePlannerProofs`, `LanePlannerTheorems`). The model's choice is the
operator `ClosestLane`, a CHOOSE of a lane that no other beats. That such a lane
exists is the whole point: it follows from the well-foundedness of `<` on the
distances, then on the indices among the equally near. `ClosestLaneIsNearest`
concludes that the choice is a lane left to do and no other has a nearer end.
`ChoiceIsNearestHolds` adds that it is the one the code's loop over the lanes ends
with (a recursive function over the lanes seen so far): the first lane at which
they differed would be a least one, and there is none. `LanesCoverArenaHolds`:
the lane a point is in is its offset divided by the spacing, and rounding the lane
count up keeps half the spacing within the search offset. `ProjectionNearest`
says that the projection onto a lane is its nearest point and that progress is
measured along it.

**Controller** (`MissionProofs`). None of the invariants is inductive alone:

* lane ownership needs the types (the planner is asked with a point and a set of
  lanes, otherwise its choice is not a lane) and its own clauses on the states
  *before* the first lane (no lane is active or completed while searching), which
  no run would need;
* the skip window closes with its lane because a target on a lane has one;
* a pulse is not in force when a grant comes because nothing is in force before
  the grant, which is the control discipline.

`IInv` is their conjunction: `TypeOK`, `ControlDiscipline`, `LaneOwnership`,
`SkipWindow`, `CommandContained`. The first part says what the shared parts of
the handlers (`TransitionTo`, `BeginTarget`, `SelectNextLane`, `FinishTarget`,
`EnterLaneFollowing`, `PublishForward`) do to the types and the state; then there
is one lemma per action, joined in `MissionInvariant`. From it follows each
invariant and, with the step itself, the action properties `TerminalIsFinal`, `NoBlindThrust`,
`LanesDoneAtTheirEnd`, `TransferPhasesEarned` and `ScanKeepsLargest`.
`ConfirmationIsOfTarget` is inductive with the types alone and has its own
induction. `MissionRefines` shows that the controller implements `VisionMission`:
the outcome of each handler (it stays with its lane, takes a lane, completes
one, fails, ends) is a lemma, and each outcome is a step of the mission or leaves it
alone. A consequence worth naming: the failsafes that the code takes
"without an active lane" are unreachable.

**Pipeline** (`DetectionPipelineProofs`). That the second drop counter stays
zero is not inductive. It needs `Places`: a decoder on its way to hand over an
image finds the slot empty, and the token is raised by a stop only after the
event that keeps the decoder from taking it. The order of publication needs
`Aging`: along the pipeline frames are older and older. `NoLostWakeupHolds` is what
`FramesFlow` and `StopEnds` rest on: a waiting frame has its decoder awake or at
work, or held back by an image that an awake inference thread is still to take, and
once `main` joins the workers neither of them sleeps. The proofs are
for any number of frames; `NoPublishAfterDestroyHolds` assumes that no join times
out.

**Stream** (`StreamProofs`). For the pacer alone, any threads, interval and
deque: `PtsUnique` needs that no time held or pushed is above the last one given;
`RateBounded` is not inductive, and follows from the next place being at least
n intervals after the stamp of the n-th frame from the end of the deque. The
detector drives its transport as `PacerSpec` allows (a lemma, `DetectorPaces`), and the
switch has an invariant of its own that says at each point of the refresh how many
subscriptions live and what browsers have been told. `NoRequestForgotten` proves
`RequestsAnswered`, the safety part of `RequestHonoured`: a request ends by another or
by the refresh that takes it up, and a refresh that reports no error has selected its
source.

**Streamer** (`StreamerProofs`). The header reader is a recursive function, and
the prover has no induction over data that it could use; an offset at which a
claim failed would have one with the least distance to the end, and the claim
holds there because it holds further on (`FromTheEnd`). In this way: of *any*
bytes, the reader finds in a beginning of them either nothing or what it finds
in all of them (`CutOffKeepsSize`), which is false of a reader that takes less than
the whole segment for enough; and of every JPEG it reads the size that the frame
header has, past thumbnails, tables, fill and stray bytes (`WholeIsRead`, against
the definition in `JpegFormat`, which knows neither the loop nor its order).
`SizeIsReadHolds` follows for every camera that `StreamerAssumption` allows; an image
without an area is refused, as the code does.
`StreamerPaces` says that the streamer drives its transport as `PacerSpec` allows,
whatever the clocks of the stamps do: presentation times are unique, no image waits,
and the rate is bounded as long as stamps do not go back.

**Box choice** (`TargetSelectionProofs`). For every frame and tolerance, from one
fact about the comparison: two boxes never beat each other. Transitivity, which
does not hold, is not used. `ClearWinnerSelectedHolds` covers both ways of
publishing: with a message for each class, what the loop keeps for a class
is a box of that class it has seen, and the clear winner once it has seen that
(`ClassInv`); the messages are in the order of the classes, each once, because the place of a
class is the number of classes up to it.

**Transport** (`TransportProofs`), for any number of peers, candidates and answers,
any size of a queue and any failures. `PeerInv` says for each point of a handler
which of its calls may still be left with the GStreamer thread, once each, and
what that makes of the branch: a call may outlive the wait for it, which is why
`RegisteredAreLinked` is not inductive. Its second half is about broadcasts: a peer
that is told after it left has only just gone, and its handler is still removing it or
has done so. It has an induction of its own (`TellingInv`), since a peer is copied while
it is registered and never comes back. `OfferInv` follows the one offer of a peer
through the operations of its webrtcbin, `CandidateInv` counts the places where a
candidate may be, and `LifeInv` follows start and stop.

Three of the theorems say why nothing waits for ever, which is what the liveness
properties need besides fairness. `NoCallLost`: a worker that waits has its call in
the queue of idle callbacks or in the hands of the GStreamer thread.
`ClosedGoesOnHolds`: a handler whose websocket is closed has ended, can go on, waits
for such a call or is `Stuck`; `SocketsInv` ties websockets, senders and handlers to
the server for this, and shows as well that an open websocket has its sender
(`OpenHaveSender`) and that no handler outlives the server. `OfferIsComingHolds`: a
registered peer that was told nothing has its offer in the making, which needs
`OwedInv`: a webrtcbin that was never asked is being added, and one that was asked has
told its browser or has an operation of the offer left, though its operations,
`remove_peer` and a second caller interfere.

The type invariants, `TerminalIsFinal`, `TokenDiscipline`, `NewestWaits` and
`SelectionTold` are proved and therefore in no run.

### What is only model-checked

The liveness properties (`FailsafeReleases`, `MissingInputsStop`, `PulsesEnd`,
`FramesFlow`, `StopEnds`, `RequestHonoured`, `VideoGoesOn`, `HandlersEnd`, `ServerEnds`,
`OfferFollows`): proofs about fairness and ENABLED are out of the prover's reach.
For those of the pipeline, the switch and the transport the safety part, that what is waited for has not been lost and
something can still bring it, is proved as described above: `NoLostWakeupHolds`,
`NoRequestForgotten`, `NoCallLost`, `ClosedGoesOnHolds`, `OfferIsComingHolds`. The last
step, from there to "eventually", is TLC's.

Every invariant and every other action property that a passing run checks has a
theorem.

## 5. What is not modelled

* The PID loops and PWM numbers, lateral, yaw and heave channels, logging and
  visualisation topics.
* `publish_release_once` at shutdown: it runs after `spin` has returned and its
  message may never leave the process.
* Restarts of the controller, which keeps nothing, and the homing node's side of
  the handshake, which is in another repository: requests, grants and stops come
  at any moment instead.
* The arena transform's arithmetic: positions are taken in arena coordinates.
* Boxes with an invalid image size; the rounding of a float division in
  `lane_count`.
* In the detector: drawing the preview, the performance profile, the reported
  frame rate. In the transport: how the pipeline is put together, the logging of
  peer states, the HTTP answers for other paths, messages as such.
* The check of the environment runs once by hand; launch files and configuration
  are declarative, and their values are the constants of the modules. None has
  behaviour of its own.

## 6. Disagreements with the documents

1. `target_switch`: a track that expires between a tick and the next message is
   replaced by any box, in `APPROACH_BUOY` too. The README (`src/README.md:211`)
   says the target does not change during the approach.
2. `pipeline_quit`: q in the preview raises `KeyboardInterrupt` on the inference
   thread, where nothing handles it; the node goes on without detections.

Readings of the documents that the code does not share, without a run:

* the strong forward pulse does not look at the safe bounds, which
  `src/README.md:124` gives as a limit of the approach;
* the distance over which boxes are ignored is measured from where the pursuit
  began, not from where the vehicle rejoins its lane (`src/README.md:131`);
* the scan adds absolute yaw changes, so a heading that swings back and forth
  completes "360 degrees" (`src/README.md:66`).

Weaknesses that the properties name as exceptions: a handler that waits to queue
its first message hangs when the queue is full and its sender has died (`Stuck`); a
start that times out before its loop exists leaves a server behind
(`StopReachesServer`); two threads may both get past the check of `offer_started`
(`HalfNegotiatedKept`); a message that finds a full queue is dropped, an offer too
(`OfferFollows`). Others are in the models and in no property: a branch that cannot
be built stays in the pipeline, half built (`stray`); an addition given up stays in
it, complete; a close box that is not refreshed keeps counting for the close
hold until it expires; `target_confirmed` stays true while the grant is awaited,
even when the buoy is lost.

Smaller ones, not checked: the launch file's default `approach_area_ratio` is
0.005 and the node's 0.03; the end transition is 1.5 m in the YAML and 3.0 m in
the node; `target_confirm_hits` counts hits within the detection timeout, not
consecutive frames; the detector treats areas within 15 % as equal where the
README says the larger always wins, and for three boxes that are alike one by one
the one selected depends on the order in which the model lists them
(`yolo_buoy_detector.py:110, 704`).

## 7. Plan

Done: every part with behaviour of its own, with the theorems above. What is left:

1. `HomingHandshake`: the homing node's side of request, confirmation and grant with
   latched topics, once its source is at hand, composed with restarts of the
   controller in the middle of a mission.
2. The controller's other channels (lateral, yaw, heave) as far as a state
   neutralises or keeps them, and `publish_release_once` at shutdown.
3. Liveness of a whole mission under stated assumptions on the vehicle, and the buoy
   that survives its pulse and is pursued again.
4. Two peers with liveness, by a reduction of the transport's state; composition of
   `DetectionPipeline`, `SourceSwitch` and `WebRtcTransport` through the shutdown.
