----------------------------- MODULE SourceSwitch -----------------------------
(***************************************************************************)
(* The detector's video source: the frames that were inferred, with their  *)
(* boxes, or the camera's frames as they come.  A browser asks for a       *)
(* source on the signaling thread; a timer looks at the request every      *)
(* second and switches.                                                    *)
(*                                                                         *)
(* The timer and the camera's callback are in one callback group, so they  *)
(* take turns on one thread, "stream"; the other thread is the one that    *)
(* infers.  Each block under the source lock is one step.                  *)
(***************************************************************************)
EXTENDS FramePacer

CONSTANTS
  SubscribingMayFail   \* create_subscription may raise

ASSUME SourceAssumption ==
  Threads = {"stream", "inference"} /\ SubscribingMayFail \in BOOLEAN

VARIABLES
  topic,          \* _webrtc_source_topic
  pending,        \* _webrtc_source_pending
  error,          \* _webrtc_source_error
  available,      \* whether _webrtc_sources are available, both or none
  subscription,   \* _webrtc_camera_subscription is not None
  subscriptions,  \* the camera subscriptions that live
  signature,      \* _webrtc_source_signature
  refresh,        \* the timer's callback: where it is, what it found
  checked,        \* the inference thread found its source selected
  told,           \* the source and the error browsers were told last
  stale,          \* history: inferred frames pushed since the switch to the
                  \* camera
  crossed         \* history: an inferred frame was on its way at a switch, and
                  \* since then there was always some frame on its way

sourceVars == <<topic, pending, error, available, subscription, subscriptions,
                signature, refresh, checked, told, stale, crossed>>
vars == <<pacerVars, sourceVars>>

Topics == {"yolo", "camera"}
Errors == {"", "yolo unavailable", "camera unavailable", "failed to switch"}
Unavailable(t) == IF t = "yolo" THEN "yolo unavailable" ELSE "camera unavailable"
NoSignature == <<>>
Nothing == [selected |-> "", error |-> ""]
Idle == [point |-> "idle", requested |-> "", error |-> ""]

Init ==
  /\ PacerInit
  /\ topic = "yolo" /\ pending = "" /\ error = "" /\ available = TRUE
  /\ subscription = FALSE /\ subscriptions = 0
  /\ signature = NoSignature
  /\ refresh = Idle /\ checked = FALSE
  /\ told = Nothing /\ stale = 0 /\ crossed = FALSE

----------------------------------------------------------------------------
(* _request_webrtc_source, on the signaling thread.  A topic that is not   *)
(* available is refused.                                                   *)
Request(t) ==
  /\ available
  /\ pending' = t /\ error' = ""
  /\ UNCHANGED <<pacerVars, topic, available, subscription, subscriptions, signature,
                 refresh, checked, told, stale, crossed>>

----------------------------------------------------------------------------
(* _refresh_webrtc_sources and _switch_webrtc_source. *)

At(point) == refresh.point = point
Go(point) == refresh' = [refresh EXCEPT !.point = point]

Refresh ==
  /\ At("idle") /\ hand["stream"] = NoFrame
  /\ \E camera \in BOOLEAN :
       LET wanted == IF pending # "" THEN pending ELSE topic
           requested == IF camera THEN wanted ELSE "yolo"
       IN  /\ available' = camera
           /\ refresh' = [point |-> IF requested # topic THEN "subscribe" ELSE "status",
                          requested |-> requested,
                          error |-> IF camera THEN "" ELSE Unavailable(wanted)]
  /\ pending' = ""
  /\ UNCHANGED <<pacerVars, topic, error, subscription, subscriptions, signature,
                 checked, told, stale, crossed>>

(* A subscription that fails leaves the source as it is, with an error.    *)
(* The variant only logs it.                                               *)
GiveUpQuietly == Go("status")
GiveUp == refresh' = [refresh EXCEPT !.point = "status", !.error = "failed to switch"]

Subscribe ==
  /\ At("subscribe")
  /\ \/ /\ refresh.requested = "camera"
        /\ subscriptions' = subscriptions + 1
        /\ Go("topic")
     \/ /\ refresh.requested = "camera" /\ SubscribingMayFail
        /\ GiveUp
        /\ UNCHANGED subscriptions
     \/ /\ refresh.requested = "yolo"
        /\ Go("topic")
        /\ UNCHANGED subscriptions
  /\ UNCHANGED <<pacerVars, topic, pending, error, available, subscription, signature,
                 checked, told, stale, crossed>>

(* The new subscription replaces the old one, which is destroyed once the  *)
(* topic is set.  The variant destroys what it has just created.           *)
DestroyCurrent ==
  subscriptions' = IF refresh.requested = "camera" THEN subscriptions - 1 ELSE subscriptions
DestroyOld == subscriptions' = IF subscription THEN subscriptions - 1 ELSE subscriptions

SetTopic ==
  /\ At("topic")
  /\ topic' = refresh.requested
  /\ subscription' = (refresh.requested = "camera")
  /\ DestroyOld
  /\ stale' = 0 /\ crossed' = (checked \/ hand["inference"] # NoFrame)
  /\ Go("reset")
  /\ UNCHANGED <<pacerVars, pending, error, available, signature, checked, told>>

ResetTiming ==
  /\ At("reset") /\ Go("status")
  /\ ResetSourceTiming
  /\ UNCHANGED <<topic, pending, error, available, subscription, subscriptions, signature,
                 checked, told, stale, crossed>>

SignatureNow == <<topic, refresh.error, available>>

(* The variant clears a request that came meanwhile. *)
PublishResult ==
  /\ At("status")
  /\ error' = refresh.error
  /\ signature' = SignatureNow
  /\ IF SignatureNow # signature THEN Go("broadcast") ELSE refresh' = Idle
  /\ UNCHANGED <<pacerVars, topic, available, subscription, subscriptions, checked,
                 told, stale, crossed>>
PublishAndForget == PublishResult /\ pending' = ""
PublishStatus == PublishResult /\ UNCHANGED pending

(* broadcast_source_status asks for the status anew. *)
BroadcastStatus ==
  /\ At("broadcast") /\ refresh' = Idle
  /\ told' = [selected |-> topic, error |-> error]
  /\ UNCHANGED <<pacerVars, topic, pending, error, available, subscription, subscriptions,
                 signature, checked, stale, crossed>>

RefreshStep == Refresh \/ Subscribe \/ SetTopic \/ ResetTiming \/ PublishStatus
               \/ BroadcastStatus

----------------------------------------------------------------------------
(* The frames.  The camera's callback looks at the topic and pushes, with  *)
(* no refresh in between; its frame is a JPEG with legible dimensions.     *)

OnWebrtcCameraImage(stamp) ==
  /\ At("idle") /\ subscriptions > 0 /\ topic = "camera"
  /\ PlaceFrame("stream", stamp)
  /\ UNCHANGED sourceVars

Crossing == crossed' = (crossed /\ (checked' \/ \E t \in Threads : hand'[t] # NoFrame))

(* _process_decoded_frame looks under the lock and pushes after it.  The   *)
(* variant does not look.                                                  *)
CheckNothing == checked' = TRUE
CheckSource == checked' = (topic = "yolo")

CheckInferredFrame ==
  /\ ~checked /\ hand["inference"] = NoFrame
  /\ CheckSource
  /\ UNCHANGED <<pacerVars, topic, pending, error, available, subscription, subscriptions,
                 signature, refresh, told, stale>>
  /\ Crossing

PushInferredFrame(stamp) ==
  /\ checked /\ checked' = FALSE
  /\ PlaceFrame("inference", stamp)
  /\ Crossing
  /\ UNCHANGED <<topic, pending, error, available, subscription, subscriptions,
                 signature, refresh, told, stale>>

PushFrameBuffer(t) ==
  /\ PushBuffer(t)
  /\ stale' = IF t = "inference" /\ topic = "camera" THEN stale + 1 ELSE stale
  /\ checked' = checked /\ Crossing
  /\ UNCHANGED <<topic, pending, error, available, subscription, subscriptions,
                 signature, refresh, told>>

----------------------------------------------------------------------------
Next ==
  \/ \E t \in Topics : Request(t)
  \/ RefreshStep
  \/ CheckInferredFrame
  \/ \E stamp \in Stamps : OnWebrtcCameraImage(stamp) \/ PushInferredFrame(stamp)
  \/ \E t \in Threads : PushFrameBuffer(t)

Spec == Init /\ [][Next]_vars

(* The timer goes on firing, and a thread with a frame goes on.  Images    *)
(* and requests come as they please.                                       *)
FairSpec ==
  /\ Spec
  /\ WF_vars(RefreshStep)
  /\ \A t \in {"stream", "inference"} : WF_vars(PushFrameBuffer(t))

----------------------------------------------------------------------------
(* Properties. *)

(* Every variable holds a value of its kind. *)
TypeOK ==
  /\ PacerTypeOK
  /\ topic \in Topics /\ pending \in Topics \cup {""} /\ error \in Errors
  /\ available \in BOOLEAN /\ subscription \in BOOLEAN /\ subscriptions \in 0 .. 2
  /\ signature \in {NoSignature} \cup (Topics \X Errors \X BOOLEAN)
  /\ refresh \in [point : {"idle", "subscribe", "topic", "reset", "status", "broadcast"},
                  requested : Topics \cup {""}, error : Errors]
  /\ checked \in BOOLEAN
  /\ told \in [selected : Topics \cup {""}, error : Errors] /\ stale \in Nat
  /\ crossed \in BOOLEAN

(* Frames reach appsrc in the order of their presentation times, unless    *)
(* one that was inferred is on its way while the source is switched        *)
(* (_process_decoded_frame, push_frame).                                   *)
OutOfOrderOnlyAcrossSwitch == [][pushed' < pushed => crossed]_vars

(* The frames of a source end with the switch: no camera frame is on its   *)
(* way once another source is selected, and a single inferred one is       *)
(* (_switch_webrtc_source, _on_webrtc_camera_image).                       *)
OneStaleFrame ==
  /\ stale <= 1
  /\ hand["stream"] # NoFrame => topic = "camera"

(* Between refreshes the camera is subscribed once if it is selected and   *)
(* not at all otherwise, though a switch may fail (_switch_webrtc_source). *)
NoSubscriptionLeak ==
  At("idle") => subscriptions = IF topic = "camera" THEN 1 ELSE 0

(* Between refreshes browsers know the selected source: a switch is told   *)
(* even if nothing else changed (_refresh_webrtc_sources).                 *)
SelectionTold == At("idle") /\ told # Nothing => told.selected = topic

(* A request that was accepted is granted, or ends in an error, or gives   *)
(* way to another, even if it came in the middle of a refresh              *)
(* (_request_webrtc_source, _refresh_webrtc_sources).                      *)
RequestHonoured ==
  \A t \in Topics :
    pending = t ~> topic = t \/ error # "" \/ pending \notin {"", t}

RequestTaken ==
  \A t \in Topics :
    pending = t /\ pending' # t =>
      \/ pending' \in Topics
      \/ refresh'.point # "idle" /\ (refresh'.requested = t \/ refresh'.error # "")
ResultTrue ==
  refresh.point = "status" /\ refresh'.point # "status" =>
    error' = refresh.error /\ (error' # "" \/ topic' = refresh.requested)

(* A request ends by another, or by the refresh that takes it up: one that *)
(* comes in the middle of a refresh is neither lost nor taken for done.  A *)
(* refresh says what came of it, and says that all went well only if the   *)
(* source it was for is selected (_request_webrtc_source,                  *)
(* _refresh_webrtc_sources).                                               *)
RequestsAnswered == [][RequestTaken /\ ResultTrue]_vars
=============================================================================
