----------------------- MODULE DetectionPipelineProofs -----------------------
(***************************************************************************)
(* What holds of the detector's threads however many frames arrive.        *)
(*                                                                         *)
(* That the second drop counter stays zero is not inductive: it needs that *)
(* a decoder on its way to hand over an image finds the slot empty, which  *)
(* follows from the token it took, as long as a stop raises the token only *)
(* after the event that keeps the decoder from taking it.                  *)
(***************************************************************************)
EXTENDS DetectionPipeline, TLAPS

(* Where a thread is tells which frame it holds, and the stages of         *)
(* stopping follow the event.                                              *)
Places ==
  /\ decoder \in {"decode", "put"} <=> decoding # NoFrame
  /\ inferrer \in {"detect", "publish"} <=> inferring # NoFrame
  /\ stopEvent <=> main \notin {"spin", "stop"}
  /\ decoder \in {"decode", "put"} => inferencePending = NoFrame

(* Along the pipeline the frames are older and older. *)
Aging ==
  /\ decodePending # NoFrame =>
       /\ decoding < decodePending /\ inferencePending < decodePending
       /\ inferring < decodePending /\ published < decodePending
  /\ decoding # NoFrame => inferring < decoding /\ published < decoding
  /\ inferencePending # NoFrame =>
       inferring < inferencePending /\ published < inferencePending
  /\ inferring # NoFrame => published < inferring
  /\ decodePending \in {NoFrame, received} /\ decoding <= received
  /\ inferencePending <= received /\ inferring <= received /\ published <= received

PInv == TypeOK /\ TokenDiscipline /\ NoDecodedDrop /\ Places /\ Aging

(* Frames are naturals above NoFrame. *)
LEMMA FrameFacts ==
  FrameLimit \in Nat /\ NoFrame = 0 /\ Frames = 1 .. FrameLimit
  BY PipelineAssumption DEF NoFrame, Frames

USE FrameFacts DEF DecoderPoints, InferrerPoints, MainPoints

(* Initially nothing is under way. *)
LEMMA InitPInv == Init => PInv
  <1> SUFFICES ASSUME Init PROVE PInv
    OBVIOUS
  <1>1. TypeOK
    <2>1. stopEvent \in BOOLEAN /\ prefetchAvailable \in BOOLEAN /\ quitRequested \in BOOLEAN
      BY DEF Init
    <2>2. 0 \in Frames \cup {NoFrame} /\ 0 \in 0 .. FrameLimit
      OBVIOUS
    <2> QED BY <2>1, <2>2 DEF Init, TypeOK
  <1>2. TokenDiscipline /\ NoDecodedDrop /\ Places /\ Aging
    BY DEF Init, TokenDiscipline, NoDecodedDrop, Places, Aging
  <1> QED BY <1>1, <1>2 DEF PInv

(* The callback stores a frame newer than any other (on_image). *)
LEMMA ImageStep == ASSUME PInv, OnImage PROVE PInv'
  <1> USE DEF PInv, OnImage, StoreFrame, Notify, CountIf
  <1>1. TypeOK'
    BY DEF TypeOK
  <1>2. Aging'
    BY DEF TypeOK, Aging
  <1>3. TokenDiscipline' /\ NoDecodedDrop' /\ Places'
    BY DEF TypeOK, TokenDiscipline, NoDecodedDrop, Places
  <1> QED BY <1>1, <1>2, <1>3

(* The decoder's steps (_decode_worker). *)
LEMMA DecoderStep == ASSUME PInv, DecodeStep PROVE PInv'
  <1>1. CASE AwaitToken \/ AwaitPrefetch
    BY <1>1 DEF PInv, AwaitToken, AwaitPrefetch, decodeRest, TypeOK, TokenDiscipline,
       NoDecodedDrop, Places, Aging
  <1>2. CASE TakeFrame
    <2>1. CASE ~stopEvent /\ decodePending # NoFrame /\ prefetchAvailable
      <3>1. inferencePending = NoFrame /\ decoding = NoFrame
        BY <1>2, <2>1 DEF PInv, TakeFrame, TokenDiscipline
      <3>2. /\ decoding' = decodePending /\ decodePending' = NoFrame
            /\ prefetchAvailable' = FALSE /\ decoder' = "decode"
            /\ UNCHANGED <<decodeRest, inferencePending, decodedDropped>>
        BY <1>2, <2>1 DEF TakeFrame, ClaimFrame
      <3>3. TypeOK'
        BY <3>2 DEF PInv, TypeOK, decodeRest
      <3>4. Aging'
        BY <2>1, <3>1, <3>2 DEF PInv, TypeOK, Aging, decodeRest
      <3>5. TokenDiscipline' /\ NoDecodedDrop' /\ Places'
        BY <2>1, <3>1, <3>2 DEF PInv, TypeOK, TokenDiscipline, NoDecodedDrop, Places, decodeRest
      <3> QED BY <3>3, <3>4, <3>5 DEF PInv
    <2>2. CASE ~(~stopEvent /\ decodePending # NoFrame /\ prefetchAvailable)
      BY <1>2, <2>2 DEF PInv, TakeFrame, decodeRest, TypeOK, TokenDiscipline,
         NoDecodedDrop, Places, Aging
    <2> QED BY <2>1, <2>2
  <1>3. CASE DecodeImage
    BY <1>3 DEF PInv, DecodeImage, decodeRest, TypeOK, TokenDiscipline, NoDecodedDrop,
       Places, Aging
  <1>4. CASE DecodeNothing
    BY <1>4 DEF PInv, DecodeNothing, FailDecoding, decodeRest, TypeOK, TokenDiscipline,
       NoDecodedDrop, Places, Aging
  <1>5. CASE DecodeRaises
    BY <1>5 DEF PInv, DecodeRaises, decodeRest, TypeOK, TokenDiscipline, NoDecodedDrop,
       Places, Aging
  <1>6. CASE PutImage
    <2>1. inferencePending = NoFrame
      BY <1>6 DEF PInv, PutImage, Places
    <2> QED BY <1>6, <2>1 DEF PInv, PutImage, CountIf, Notify, TypeOK, TokenDiscipline,
           NoDecodedDrop, Places, Aging
  <1> QED BY <1>1, <1>2, <1>3, <1>4, <1>5, <1>6 DEF DecodeStep

(* The inference's steps (_inference_worker, _process_decoded_frame). *)
LEMMA InferrerStep == ASSUME PInv, InferenceStep PROVE PInv'
  <1> USE DEF PInv, inferenceRest
  <1>1. TypeOK'
    <2>1. CASE TakeImage
      BY <2>1 DEF TakeImage, TypeOK
    <2>2. CASE Detect \/ GiveUpResult
      BY <2>2 DEF Detect, GiveUpResult, TypeOK
    <2>3. CASE Publish
      <3>1. inferrer' \in InferrerPoints
        BY <2>3 DEF Publish
      <3> QED BY <2>3, <3>1 DEF Publish, TypeOK
    <2>4. CASE Preview
      <3>1. inferrer' \in InferrerPoints /\ quitRequested' \in BOOLEAN
        BY <2>4 DEF Preview, TypeOK
      <3> QED BY <2>4, <3>1 DEF Preview, TypeOK
    <2> QED BY <2>1, <2>2, <2>3, <2>4 DEF InferenceStep
  <1>2. Aging'
    <2> USE DEF TypeOK, Aging
    <2>1. CASE TakeImage
      BY <2>1 DEF TakeImage, Places
    <2>2. CASE Detect \/ GiveUpResult \/ Preview
      BY <2>2 DEF Detect, GiveUpResult, Preview
    <2>3. CASE Publish
      BY <2>3 DEF Publish, Places
    <2> QED BY <2>1, <2>2, <2>3 DEF InferenceStep
  <1>3. TokenDiscipline' /\ NoDecodedDrop' /\ Places'
    <2> USE DEF TypeOK, TokenDiscipline, NoDecodedDrop, Places
    <2>1. CASE TakeImage
      <3>1. CASE ~stopEvent /\ inferencePending # NoFrame
        BY <2>1, <3>1 DEF TakeImage
      <3>2. CASE ~(~stopEvent /\ inferencePending # NoFrame)
        BY <2>1, <3>2 DEF TakeImage
      <3> QED BY <3>1, <3>2
    <2>2. CASE Detect \/ GiveUpResult
      BY <2>2 DEF Detect, GiveUpResult
    <2>3. CASE Publish \/ Preview
      BY <2>3 DEF Publish, Preview
    <2> QED BY <2>1, <2>2, <2>3 DEF InferenceStep
  <1> QED BY <1>1, <1>2, <1>3

(* The stages of stopping (main, _stop_pipeline_workers). *)
LEMMA MainStep == ASSUME PInv, Interrupt \/ StopStep PROVE PInv'
  <1> USE DEF PInv, mainRest, Notify, TypeOK, TokenDiscipline, NoDecodedDrop, Places, Aging
  <1>1. CASE Interrupt \/ SetStop \/ SetToken
    <2>1. stopEvent' \in BOOLEAN /\ prefetchAvailable' \in BOOLEAN
      BY <1>1 DEF Interrupt, SetStop, SetToken
    <2>2. TypeOK'
      BY <1>1, <2>1 DEF Interrupt, SetStop, SetToken
    <2>3. Aging' /\ NoDecodedDrop'
      BY <1>1 DEF Interrupt, SetStop, SetToken
    <2>4. TokenDiscipline' /\ Places'
      BY <1>1 DEF Interrupt, SetStop, SetToken
    <2> QED BY <2>2, <2>3, <2>4
  <1>2. CASE WakeDecoder \/ WakeInferrer
    BY <1>2 DEF WakeDecoder, WakeInferrer
  <1>3. CASE JoinAndDestroy
    BY <1>3 DEF JoinAndDestroy, Destroy
  <1> QED BY <1>1, <1>2, <1>3 DEF StopStep

(* The invariant always holds. *)
THEOREM PipelineInvariant == Spec => []PInv
  <1>1. PInv /\ [Next]_vars => PInv'
    <2> SUFFICES ASSUME PInv, [Next]_vars PROVE PInv'
      OBVIOUS
    <2>1. CASE UNCHANGED vars
      BY <2>1 DEF vars, PInv, TypeOK, TokenDiscipline, NoDecodedDrop, Places, Aging
    <2> QED BY <2>1, ImageStep, DecoderStep, InferrerStep, MainStep DEF Next
  <1> QED BY InitPInv, <1>1, PTL DEF Spec

(* The token is neither lost nor duplicated. *)
THEOREM TokenDisciplineHolds == Spec => []TokenDiscipline
  <1>1. PInv => TokenDiscipline
    BY DEF PInv
  <1> QED BY <1>1, PipelineInvariant, PTL

(* No decoded frame is ever dropped, stopping or not. *)
THEOREM NoDecodedDropHolds == Spec => []NoDecodedDrop
  <1>1. PInv => NoDecodedDrop
    BY DEF PInv
  <1> QED BY <1>1, PipelineInvariant, PTL

(* The frame that waits is newer than any other. *)
THEOREM NewestWaitsHolds == Spec => []NewestWaits
  <1>1. PInv => NewestWaits
    BY DEF PInv, Aging, NewestWaits
  <1> QED BY <1>1, PipelineInvariant, PTL

(* Whatever is replaced, fails or is given up, what is published is        *)
(* published in the order it arrived.                                      *)
THEOREM PublishedInOrderHolds == Spec => PublishedInOrder
  <1>1. PInv /\ [Next]_vars => [Publish => published' > published]_vars
    BY DEF PInv, Places, Aging, TypeOK, Publish
  <1> QED BY <1>1, PipelineInvariant, PTL DEF Spec, PublishedInOrder

----------------------------------------------------------------------------
(* A node that is destroyed has outlived its workers, unless it gave up    *)
(* waiting for them.                                                       *)
Joined == main = "destroyed" => WorkersDone

(* When both workers end within the time they are waited for, nothing is   *)
(* published for a destroyed node.                                         *)
THEOREM NoPublishAfterDestroyHolds ==
  ASSUME JoinMayTimeOut = FALSE
  PROVE  Spec => NoPublishAfterDestroy
  <1>1. Init => Joined
    BY DEF Init, Joined
  <1>2. Joined /\ [Next]_vars => Joined'
    <2> SUFFICES ASSUME Joined, [Next]_vars PROVE Joined'
      OBVIOUS
    <2> USE DEF Joined, WorkersDone, Notify
    <2>1. CASE OnImage
      BY <2>1 DEF OnImage, StoreFrame
    <2>2. CASE DecodeStep
      BY <2>2 DEF DecodeStep, AwaitToken, AwaitPrefetch, TakeFrame, DecodeImage,
         DecodeNothing, DecodeRaises, PutImage, decodeRest
    <2>3. CASE InferenceStep
      BY <2>3 DEF InferenceStep, TakeImage, Detect, GiveUpResult, Publish, Preview,
         inferenceRest
    <2>4. CASE Interrupt \/ StopStep
      BY <2>4 DEF Interrupt, StopStep, SetStop, SetToken, WakeDecoder, WakeInferrer,
         JoinAndDestroy, Destroy
    <2>5. CASE UNCHANGED vars
      BY <2>5 DEF vars
    <2> QED BY <2>1, <2>2, <2>3, <2>4, <2>5 DEF Next
  <1>3. Joined /\ [Next]_vars => [published' # published => main # "destroyed"]_vars
    BY DEF Joined, WorkersDone, Next, OnImage, StoreFrame, DecodeStep, AwaitToken,
       AwaitPrefetch, TakeFrame, DecodeImage, DecodeNothing, DecodeRaises, PutImage,
       decodeRest, InferenceStep, TakeImage, Detect, GiveUpResult, Publish, Preview,
       Interrupt, StopStep, SetStop, SetToken, WakeDecoder, WakeInferrer, JoinAndDestroy,
       Destroy, mainRest, vars
  <1> QED BY <1>1, <1>2, <1>3, PTL DEF Spec, NoPublishAfterDestroy

----------------------------------------------------------------------------
(* No wakeup is lost: what FramesFlow and StopEnds need of every state.    *)

(* A worker sleeps only while its slot is empty and its wakeup at the stop *)
(* is still to come, and ends only when the event is set.                  *)
Sleepers ==
  /\ decoder = "asleep" =>
       decodePending = NoFrame /\ main \in {"spin", "stop", "token", "wake_decoder"}
  /\ inferrer = "asleep" =>
       /\ inferencePending = NoFrame
       /\ main \in {"spin", "stop", "token", "wake_decoder", "wake_inferrer"}
  /\ decoder = "ended" \/ inferrer = "ended" => stopEvent

(* A frame that waits has its decoder awake and free to take it, or at     *)
(* work, or held back by an image that the inference, awake too, is still  *)
(* to take.                                                                *)
FrameIsServed ==
  ~stopEvent /\ decoder # "dead" /\ decodePending # NoFrame =>
    \/ decoder \in {"decode", "put"}
    \/ decoder \in {"token", "prefetch", "slot"} /\ prefetchAvailable
    \/ inferencePending # NoFrame /\ inferrer # "asleep"

(* Once main waits for the workers neither sleeps, and the token is not    *)
(* what a worker waits for.                                                *)
StopIsHeard ==
  main \in {"join", "destroyed"} => stopEvent /\ decoder # "asleep" /\ inferrer # "asleep"

NoLostWakeup == Sleepers /\ FrameIsServed /\ StopIsHeard

(* Every step keeps the sleepers where they are woken from. *)
LEMMA SleepersStep == ASSUME PInv, Sleepers, [Next]_vars PROVE Sleepers'
  <1> USE DEF Sleepers, Notify
  <1>1. stopEvent <=> main \notin {"spin", "stop"}
    BY DEF PInv, Places
  <1>2. main \in MainPoints /\ decoder \in DecoderPoints /\ inferrer \in InferrerPoints
    BY DEF PInv, TypeOK
  <1>3. CASE OnImage
    BY <1>3 DEF OnImage, StoreFrame
  <1>4. CASE DecodeStep
    <2>1. CASE TakeFrame
      BY <1>1, <1>2, <2>1 DEF TakeFrame, ClaimFrame, decodeRest
    <2>2. CASE PutImage
      BY <2>2 DEF PutImage
    <2>3. CASE AwaitToken \/ AwaitPrefetch \/ DecodeImage \/ DecodeNothing \/ DecodeRaises
      BY <2>3 DEF AwaitToken, AwaitPrefetch, DecodeImage, DecodeNothing, FailDecoding,
         DecodeRaises, decodeRest
    <2> QED BY <1>4, <2>1, <2>2, <2>3 DEF DecodeStep
  <1>5. CASE InferenceStep
    <2>1. CASE TakeImage
      BY <1>1, <1>2, <2>1 DEF TakeImage, inferenceRest
    <2>2. CASE Detect \/ GiveUpResult \/ Publish \/ Preview
      BY <2>2 DEF Detect, GiveUpResult, Publish, Preview, inferenceRest
    <2> QED BY <1>5, <2>1, <2>2 DEF InferenceStep
  <1>6. CASE Interrupt \/ StopStep
    BY <1>6 DEF Interrupt, StopStep, SetStop, SetToken, WakeDecoder, WakeInferrer,
       JoinAndDestroy, Destroy, mainRest
  <1>7. CASE UNCHANGED vars
    BY <1>7 DEF vars
  <1> QED BY <1>3, <1>4, <1>5, <1>6, <1>7 DEF Next

(* However many frames arrive, whatever fails and whenever the node stops, *)
(* no frame waits for a thread that waits for another, and no worker that  *)
(* main waits for is asleep (on_image, _decode_worker, _inference_worker,  *)
(* _stop_pipeline_workers).                                                *)
THEOREM NoLostWakeupHolds == Spec => []NoLostWakeup
  <1>1. Init => Sleepers
    BY DEF Init, Sleepers
  <1>2. PInv /\ Sleepers => NoLostWakeup
    <2> SUFFICES ASSUME PInv, Sleepers PROVE FrameIsServed /\ StopIsHeard
      BY DEF NoLostWakeup
    <2>1. /\ stopEvent <=> main \notin {"spin", "stop"}
          /\ decoder \in {"decode", "put"} <=> decoding # NoFrame
      BY DEF PInv, Places
    <2>2. decoder \in DecoderPoints /\ prefetchAvailable \in BOOLEAN
      BY DEF PInv, TypeOK
    <2>3. ~stopEvent /\ decoder # "dead" =>
            (prefetchAvailable <=> decoding = NoFrame /\ inferencePending = NoFrame)
      BY DEF PInv, TokenDiscipline
    <2>4. FrameIsServed
      BY <2>1, <2>2, <2>3 DEF Sleepers, FrameIsServed
    <2>5. StopIsHeard
      BY <2>1 DEF Sleepers, StopIsHeard
    <2> QED BY <2>4, <2>5
  <1>3. PInv /\ Sleepers /\ [Next]_vars => Sleepers'
    BY SleepersStep
  <1> QED BY <1>1, <1>2, <1>3, PipelineInvariant, PTL DEF Spec
============================================================================
