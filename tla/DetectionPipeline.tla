-------------------------- MODULE DetectionPipeline --------------------------
(***************************************************************************)
(* The detector's threads: the image callback leaves the newest frame in a *)
(* slot, the decode thread turns it into an image, the inference thread    *)
(* detects and publishes.  A token (an Event) keeps the decoder at most    *)
(* one frame ahead of the inference.                                       *)
(*                                                                         *)
(* Frames are numbered in the order they arrive.  A block that runs under  *)
(* a Condition is one step: the flags that other threads set without its   *)
(* lock are only ever raised by them, so it can be taken to happen at the  *)
(* moment it last reads them.  A thread asleep on a Condition wakes only   *)
(* when it is notified.                                                    *)
(***************************************************************************)
EXTENDS Integers

CONSTANTS
  FrameLimit,      \* bound: frames that arrive
  Outcomes,        \* what decoding and inference may come to
  ShowPreview,     \* show_preview: pressing q raises KeyboardInterrupt
  JoinMayTimeOut   \* a worker may outlive the 3 s it is waited for

ASSUME PipelineAssumption ==
  /\ FrameLimit \in Nat
  /\ Outcomes \subseteq {"image", "none", "decode_raises", "inference_raises"}
  /\ ShowPreview \in BOOLEAN /\ JoinMayTimeOut \in BOOLEAN

VARIABLES
  stopEvent,          \* _pipeline_stop_event
  prefetchAvailable,  \* _inference_prefetch_available, the token
  decodePending, inferencePending,   \* the two depth-1 slots
  decoder, decoding,      \* where the decode thread is, and its frame
  inferrer, inferring,    \* where the inference thread is, and its frame
  main,                   \* where main is: spinning, or a stage of stopping
  received,               \* _pipeline_received
  inputDropped, decodedDropped,      \* the two drop counters
  published,              \* the frame published last
  quitRequested           \* the user closed the preview

vars == <<stopEvent, prefetchAvailable, decodePending, inferencePending, decoder,
          decoding, inferrer, inferring, main, received, inputDropped,
          decodedDropped, published, quitRequested>>

NoFrame == 0
Frames == 1 .. FrameLimit

DecoderPoints == {"token", "prefetch", "slot", "asleep", "decode", "put", "ended", "dead"}
InferrerPoints == {"slot", "asleep", "detect", "publish", "preview", "ended", "dead"}
MainPoints == {"spin", "stop", "token", "wake_decoder", "wake_inferrer", "join", "destroyed"}

Init ==
  /\ stopEvent = FALSE /\ prefetchAvailable = TRUE
  /\ decodePending = NoFrame /\ inferencePending = NoFrame
  /\ decoder = "token" /\ decoding = NoFrame
  /\ inferrer = "slot" /\ inferring = NoFrame
  /\ main = "spin"
  /\ received = 0 /\ inputDropped = 0 /\ decodedDropped = 0
  /\ published = NoFrame
  /\ quitRequested = FALSE

Notify(thread) == IF thread = "asleep" THEN "slot" ELSE thread
CountIf(slot) == IF slot # NoFrame THEN 1 ELSE 0

----------------------------------------------------------------------------
(* on_image, on an executor thread: callbacks end when main has shut the   *)
(* executor down.  The variant does not wake the decoder.                  *)

StoreFrame ==
  /\ received < FrameLimit
  /\ main # "destroyed"
  /\ received' = received + 1
  /\ inputDropped' = inputDropped + CountIf(decodePending)
  /\ decodePending' = received + 1
  /\ UNCHANGED <<stopEvent, prefetchAvailable, inferencePending, decoding, inferrer,
                 inferring, main, decodedDropped, published, quitRequested>>

OnImageUnnotified == StoreFrame /\ UNCHANGED decoder
OnImage == StoreFrame /\ decoder' = Notify(decoder)

----------------------------------------------------------------------------
(* _decode_worker. *)

decodeRest == <<stopEvent, inferrer, inferring, main, received, inputDropped,
                published, quitRequested>>

(* The loop head: wait for the token in rounds of 0.1 s. *)
AwaitToken ==
  /\ decoder = "token"
  /\ \/ stopEvent /\ decoder' = "ended"
     \/ ~stopEvent /\ prefetchAvailable /\ decoder' = "prefetch"
  /\ UNCHANGED <<decodeRest, prefetchAvailable, decodePending, inferencePending,
                 decoding, decodedDropped>>

(* Some of the prefetch delay may be left: waiting it out notices a stop.  *)
AwaitPrefetch ==
  /\ decoder = "prefetch"
  /\ \/ stopEvent /\ decoder' = "ended"
     \/ decoder' = "slot"
  /\ UNCHANGED <<decodeRest, prefetchAvailable, decodePending, inferencePending,
                 decoding, decodedDropped>>

(* Under the decode condition: sleep, end, or take the newest frame and    *)
(* the token.  The variants leave the token, or the frame, in place.       *)
ClaimKeepingToken ==
  /\ decoding' = decodePending /\ decodePending' = NoFrame
  /\ UNCHANGED prefetchAvailable
ClaimKeepingFrame ==
  /\ decoding' = decodePending /\ prefetchAvailable' = FALSE
  /\ UNCHANGED decodePending
ClaimFrame ==
  /\ decoding' = decodePending /\ decodePending' = NoFrame
  /\ prefetchAvailable' = FALSE

TakeFrame ==
  /\ decoder = "slot"
  /\ IF ~stopEvent /\ decodePending # NoFrame /\ prefetchAvailable
     THEN ClaimFrame /\ decoder' = "decode"
     ELSE /\ decoder' = IF stopEvent THEN "ended"
                        ELSE IF decodePending = NoFrame THEN "asleep" ELSE "token"
          /\ UNCHANGED <<prefetchAvailable, decodePending, decoding>>
  /\ UNCHANGED <<decodeRest, inferencePending, decodedDropped>>

(* Decoding yields an image, or fails and gives the token back, or raises, *)
(* which nothing catches.                                                  *)
FailDecoding == decoder' = "token" /\ prefetchAvailable' = TRUE

DecodeImage ==
  /\ decoder = "decode"
  /\ "image" \in Outcomes
  /\ decoder' = "put"
  /\ UNCHANGED <<decodeRest, prefetchAvailable, decodePending, decoding,
                 inferencePending, decodedDropped>>

DecodeNothing ==
  /\ decoder = "decode"
  /\ "none" \in Outcomes
  /\ FailDecoding
  /\ decoding' = NoFrame
  /\ UNCHANGED <<decodeRest, decodePending, inferencePending, decodedDropped>>

DecodeRaises ==
  /\ decoder = "decode"
  /\ "decode_raises" \in Outcomes
  /\ decoder' = "dead" /\ decoding' = NoFrame
  /\ UNCHANGED <<decodeRest, prefetchAvailable, decodePending, inferencePending,
                 decodedDropped>>

PutImage ==
  /\ decoder = "put"
  /\ decodedDropped' = decodedDropped + CountIf(inferencePending)
  /\ inferencePending' = decoding
  /\ inferrer' = Notify(inferrer)
  /\ decoder' = "token" /\ decoding' = NoFrame
  /\ UNCHANGED <<stopEvent, prefetchAvailable, decodePending, inferring, main,
                 received, inputDropped, published, quitRequested>>

----------------------------------------------------------------------------
(* _inference_worker and _process_decoded_frame. *)

inferenceRest == <<stopEvent, decodePending, decoder, decoding, main, received,
                   inputDropped, decodedDropped>>

(* Under the inference condition: sleep, end, or take the image and let    *)
(* the decoder prefetch the next.                                          *)
TakeImage ==
  /\ inferrer = "slot"
  /\ IF ~stopEvent /\ inferencePending # NoFrame
     THEN /\ inferrer' = "detect"
          /\ inferring' = inferencePending
          /\ inferencePending' = NoFrame
          /\ prefetchAvailable' = TRUE
     ELSE /\ inferrer' = IF stopEvent THEN "ended" ELSE "asleep"
          /\ UNCHANGED <<prefetchAvailable, inferencePending, inferring>>
  /\ UNCHANGED <<inferenceRest, published, quitRequested>>

(* A result is published unless the node is stopping: the event is set, or *)
(* the interrupt that main handles has already shut the context down.      *)
Detect ==
  /\ inferrer = "detect"
  /\ ~stopEvent
  /\ inferrer' = "publish"
  /\ UNCHANGED <<inferenceRest, prefetchAvailable, inferencePending, inferring,
                 published, quitRequested>>

(* Inference raised, which the loop logs, or its result is given up. *)
GiveUpResult ==
  /\ inferrer = "detect"
  /\ main # "spin" \/ "inference_raises" \in Outcomes
  /\ inferrer' = "slot" /\ inferring' = NoFrame
  /\ UNCHANGED <<inferenceRest, prefetchAvailable, inferencePending, published,
                 quitRequested>>

Publish ==
  /\ inferrer = "publish"
  /\ published' = inferring
  /\ inferring' = NoFrame
  /\ inferrer' = IF ShowPreview THEN "preview" ELSE "slot"
  /\ UNCHANGED <<inferenceRest, prefetchAvailable, inferencePending, quitRequested>>

(* The preview may see q: KeyboardInterrupt is no Exception, so it ends    *)
(* this thread.                                                            *)
Preview ==
  /\ inferrer = "preview"
  /\ \/ inferrer' = "slot" /\ UNCHANGED quitRequested
     \/ inferrer' = "dead" /\ quitRequested' = TRUE
  /\ UNCHANGED <<inferenceRest, prefetchAvailable, inferencePending, inferring, published>>

----------------------------------------------------------------------------
(* main and _stop_pipeline_workers. *)

mainRest == <<decodePending, inferencePending, decoding, inferring, received,
              inputDropped, decodedDropped, published, quitRequested>>

Interrupt ==
  /\ main = "spin" /\ main' = "stop"
  /\ UNCHANGED <<stopEvent, prefetchAvailable, decoder, inferrer, mainRest>>

SetStop ==
  /\ main = "stop" /\ main' = "token"
  /\ stopEvent' = TRUE
  /\ UNCHANGED <<prefetchAvailable, decoder, inferrer, mainRest>>

SetToken ==
  /\ main = "token" /\ main' = "wake_decoder"
  /\ prefetchAvailable' = TRUE
  /\ UNCHANGED <<stopEvent, decoder, inferrer, mainRest>>

WakeDecoder ==
  /\ main = "wake_decoder" /\ main' = "wake_inferrer"
  /\ decoder' = Notify(decoder)
  /\ UNCHANGED <<stopEvent, prefetchAvailable, inferrer, mainRest>>

WakeNobody ==                          \* variant: the notify_all is missing
  /\ main = "wake_inferrer" /\ main' = "join"
  /\ UNCHANGED <<stopEvent, prefetchAvailable, decoder, inferrer, mainRest>>

WakeInferrer ==
  /\ main = "wake_inferrer" /\ main' = "join"
  /\ inferrer' = Notify(inferrer)
  /\ UNCHANGED <<stopEvent, prefetchAvailable, decoder, mainRest>>

WorkersDone == decoder \in {"ended", "dead"} /\ inferrer \in {"ended", "dead"}

Destroy ==                             \* variant: the workers are not joined
  /\ main = "join" /\ main' = "destroyed"
  /\ UNCHANGED <<stopEvent, prefetchAvailable, decoder, inferrer, mainRest>>

JoinAndDestroy ==
  /\ WorkersDone \/ JoinMayTimeOut
  /\ Destroy

----------------------------------------------------------------------------
DecodeStep == AwaitToken \/ AwaitPrefetch \/ TakeFrame \/ DecodeImage
              \/ DecodeNothing \/ DecodeRaises \/ PutImage
InferenceStep == TakeImage \/ Detect \/ GiveUpResult \/ Publish \/ Preview
StopStep == SetStop \/ SetToken \/ WakeDecoder \/ WakeInferrer \/ JoinAndDestroy

Next == OnImage \/ DecodeStep \/ InferenceStep \/ Interrupt \/ StopStep

Spec == Init /\ [][Next]_vars

(* Every thread that can run is scheduled; images and the interrupt come   *)
(* when they come.                                                         *)
FairSpec == Spec /\ WF_vars(DecodeStep) /\ WF_vars(InferenceStep) /\ WF_vars(StopStep)

----------------------------------------------------------------------------
(* Properties. *)

(* Every variable holds a value of its kind. *)
TypeOK ==
  /\ stopEvent \in BOOLEAN /\ prefetchAvailable \in BOOLEAN
  /\ decodePending \in Frames \cup {NoFrame} /\ inferencePending \in Frames \cup {NoFrame}
  /\ decoder \in DecoderPoints /\ decoding \in Frames \cup {NoFrame}
  /\ inferrer \in InferrerPoints /\ inferring \in Frames \cup {NoFrame}
  /\ main \in MainPoints
  /\ received \in 0 .. FrameLimit
  /\ inputDropped \in Nat /\ decodedDropped \in Nat
  /\ published \in Frames \cup {NoFrame}
  /\ quitRequested \in BOOLEAN

(* The token is away exactly while a decoded or half-decoded frame has not *)
(* reached the inference: it is neither lost nor duplicated, as long as no *)
(* stop raises it and no exception takes it along.                         *)
TokenDiscipline ==
  ~stopEvent /\ decoder # "dead" =>
    (prefetchAvailable <=> decoding = NoFrame /\ inferencePending = NoFrame)

(* So no decoded frame is ever overwritten: the second drop counter stays  *)
(* zero (_decode_worker).                                                  *)
NoDecodedDrop == decodedDropped = 0

(* Frames are published in the order they arrived, none of them twice      *)
(* (_decode_worker, _inference_worker).                                    *)
PublishedInOrder == [][Publish => published' > published]_vars

(* The frame that waits for the decoder is the newest that arrived, and    *)
(* newer than any frame further along: the detector never falls behind by  *)
(* more than what it is working on (on_image, _decode_worker).             *)
NewestWaits ==
  /\ decodePending \in {NoFrame, received}
  /\ \A f \in {decoding, inferencePending, inferring, published} :
       decodePending # NoFrame => f < decodePending

(* Nothing is published for a node that is gone, as long as a frame takes  *)
(* less than the 3 s a worker is waited for (_stop_pipeline_workers).      *)
NoPublishAfterDestroy == [][published' # published => main # "destroyed"]_vars

(* A frame that waits is taken, or replaced, unless the node stops or a    *)
(* worker dies: no wakeup and no token is lost (on_image, _decode_worker,  *)
(* _inference_worker).                                                     *)
FramesFlow ==
  /\ \A f \in Frames :
       decodePending = f ~>
         decodePending # f \/ stopEvent \/ decoder = "dead" \/ inferrer = "dead"
  /\ inferencePending # NoFrame ~>
       inferencePending = NoFrame \/ stopEvent \/ inferrer = "dead"

(* Stopping ends both workers, wherever they wait, and then the node       *)
(* (_stop_pipeline_workers, main).                                         *)
StopEnds == main # "spin" ~> WorkersDone /\ main = "destroyed"

(* The log says that q in the window quits. *)
QuitStopsNode == quitRequested ~> main # "spin"
============================================================================
