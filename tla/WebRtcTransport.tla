--------------------------- MODULE WebRtcTransport ---------------------------
(***************************************************************************)
(* The WebRTC transport: a node starts and stops it, and in between        *)
(* browsers come and go.  The threads that share it:                       *)
(*                                                                         *)
(*   - the node's main thread, which calls start and stop;                 *)
(*   - the node's threads that push frames or tell of the sources;         *)
(*   - the signaling thread, an asyncio loop with a handler and a sender   *)
(*     task for each websocket;                                            *)
(*   - a worker of a handler, which leaves a call with the GStreamer       *)
(*     thread and waits for it at most 5 s;                                *)
(*   - the GStreamer thread, which runs idle callbacks in their order, and *)
(*     the bus watch;                                                      *)
(*   - the thread of each webrtcbin, which runs its operations in their    *)
(*     order, each followed by the callback of its promise.                *)
(*                                                                         *)
(* Messages to a browser wait in a queue of bounded size.  No behaviour    *)
(* depends on which they are, so the queue is its length.                  *)
(***************************************************************************)
EXTENDS Integers, Sequences, FiniteSets

CONSTANTS
  Peers, NoPeer,      \* the websockets that may connect
  NodeThreads,        \* the threads of the node that broadcast to browsers
  QueueSize,          \* the size of a peer's queue, 64
  Candidates,         \* the ICE candidates of a browser
  AnswerLimit,        \* bound: SDP answers of a browser
  Failures,           \* what may fail, or take too long
  SignalsRace         \* webrtcbin may ask for an offer while add_peer does

ASSUME TransportAssumption ==
  /\ NoPeer \notin Peers /\ "gst" \notin NodeThreads
  /\ QueueSize \in Nat \ {0} /\ AnswerLimit \in Nat
  /\ Failures \subseteq {"start", "listen", "slow_start", "add", "slow_gst", "offer",
                         "local", "remote", "bus", "message"}
  /\ SignalsRace \in BOOLEAN

VARIABLES
  main,           \* the main thread: new, in start, running, or a stage of stop
  stops,          \* the calls of stop so far
  started,        \* start returned True
  startupError,   \* _startup_error is not empty
  server,         \* the signaling thread
  shutdownEvent,  \* _shutdown_event is set
  telling,        \* of each thread in a broadcast: the peers still to be told
  gst,            \* the GStreamer thread: its loop runs, the idle callbacks
                  \* left, the peer that add_peer is in the middle of adding
  registered,     \* _peers
  socket,         \* of each peer: its handler, peer_added, websocket, sender, the
                  \* length of its queue, and the call its worker waits for
  branch,         \* of each peer: its elements in the pipeline
  webrtc,         \* of each peer: peer.webrtc is not None
  offer,          \* of each peer: threads about to ask for an offer, offers asked
                  \* for, operations of its webrtcbin, signaling state, and
                  \* whether the browser was told of the offer or an error
  ice             \* of each peer: remote_description_set, pending_ice, and what
                  \* came: answers, candidates, candidates given to webrtcbin

lifeVars == <<main, stops, started, startupError, server, shutdownEvent, telling>>
peerVars == <<registered, socket, branch, webrtc, offer, ice>>
vars == <<lifeVars, gst, peerVars>>

(* The bus watch broadcasts on the GStreamer thread. *)
Tellers == NodeThreads \cup {"gst"}

Init ==
  /\ main = "new" /\ stops = 0 /\ started = FALSE /\ startupError = FALSE
  /\ server = "none" /\ shutdownEvent = FALSE
  /\ telling = [t \in Tellers |-> {}]
  /\ gst = [running |-> FALSE, idle |-> <<>>, building |-> NoPeer]
  /\ registered = {}
  /\ socket = [p \in Peers |-> [handler |-> "none", added |-> FALSE, web |-> "none",
                                sender |-> FALSE, backlog |-> 0, call |-> "none"]]
  /\ branch = [p \in Peers |-> "none"]
  /\ webrtc = [p \in Peers |-> FALSE]
  /\ offer = [p \in Peers |-> [starting |-> {}, asked |-> 0, operations |-> <<>>,
                               signaling |-> "stable", told |-> "nothing"]]
  /\ ice = [p \in Peers |-> [remoteSet |-> FALSE, pending |-> <<>>, received |-> {},
                             added |-> [c \in Candidates |-> 0], answers |-> 0]]

----------------------------------------------------------------------------
(* A message to a browser.  One that finds no room is dropped, silently.   *)
(* It is queued by a callback of the loop, which is one step with leaving  *)
(* that callback: what it does depends on when it runs alone.              *)

LoopRunning == server \in {"loop", "serving", "closing"}
HasRoom(p) == LoopRunning /\ socket[p].backlog < QueueSize

Queued(s) ==
  IF LoopRunning /\ s.backlog < QueueSize THEN [s EXCEPT !.backlog = @ + 1] ELSE s
QueuePeer(p) == socket' = [socket EXCEPT ![p] = Queued(@)]

(* A broadcast copies _peers under its lock, and tells them after it.      *)
CopyPeers(t) ==
  telling[t] = {} /\ telling' = [telling EXCEPT ![t] = registered]

TellPeer(t, p) ==
  /\ p \in telling[t]
  /\ telling' = [telling EXCEPT ![t] = @ \ {p}]
  /\ QueuePeer(p)
  /\ UNCHANGED <<main, stops, started, startupError, server, shutdownEvent, gst,
                 registered, branch, webrtc, offer, ice>>

(* What a step of the negotiation tells the browser. *)
Verdict(p) == IF HasRoom(p) THEN "told" ELSE "dropped"

----------------------------------------------------------------------------
(* start and stop, and the signaling thread. *)

Start ==
  /\ main = "new"
  /\ gst' = [gst EXCEPT !.running = TRUE]
  /\ \/ main' = "starting" /\ server' = "thread" /\ UNCHANGED startupError
     \/ "start" \in Failures /\ main' = "stop" /\ startupError' = TRUE /\ UNCHANGED server
  /\ UNCHANGED <<stops, started, shutdownEvent, telling, peerVars>>

StartSucceeds == main' = "running" /\ started' = TRUE /\ UNCHANGED startupError
StartFails == main' = "stop" /\ startupError' = TRUE /\ UNCHANGED started

StartReturns ==
  /\ main = "starting"
  /\ IF server \in {"serving", "ended"}
     THEN IF startupError THEN StartFails ELSE StartSucceeds
     ELSE "slow_start" \in Failures /\ StartFails
  /\ UNCHANGED <<stops, server, shutdownEvent, gst, telling, peerVars>>

CreateLoop ==
  /\ server = "thread" /\ server' = "loop"
  /\ UNCHANGED <<main, stops, started, startupError, shutdownEvent, gst, telling, peerVars>>

Listen ==
  /\ server = "loop"
  /\ \/ server' = "serving" /\ UNCHANGED startupError
     \/ "listen" \in Failures /\ server' = "ended" /\ startupError' = TRUE
  /\ UNCHANGED <<main, stops, started, shutdownEvent, gst, telling, peerVars>>

(* Told to shut down, it closes every websocket and ends with the last     *)
(* handler.                                                                *)
CloseServer ==
  /\ server = "serving" /\ shutdownEvent
  /\ server' = "closing"
  /\ socket' = [p \in Peers |-> [socket[p] EXCEPT !.web = IF @ = "open" THEN "closed" ELSE @]]
  /\ UNCHANGED <<main, stops, started, startupError, shutdownEvent, telling, gst,
                 registered, branch, webrtc, offer, ice>>

EndServer ==
  /\ server = "closing" /\ \A p \in Peers : socket[p].handler \in {"none", "closed"}
  /\ server' = "ended"
  /\ UNCHANGED <<main, stops, started, startupError, shutdownEvent, gst, telling, peerVars>>

CallStop ==
  /\ main = "running" /\ main' = "stop"
  /\ UNCHANGED <<stops, started, startupError, server, shutdownEvent, gst, telling, peerVars>>

(* A start that fails has called stop, and its caller calls it again. *)
StopAgain ==
  /\ main = "stopped" /\ ~started /\ stops = 1
  /\ main' = "stop"
  /\ UNCHANGED <<stops, started, startupError, server, shutdownEvent, gst, telling, peerVars>>

(* stop signals the loop if there is one, waits for its thread at most     *)
(* 3 s, then ends the pipeline and the GStreamer loop, in one step.        *)
SignalNobody == UNCHANGED shutdownEvent                              \* variant
SignalLoop == shutdownEvent' = (shutdownEvent \/ LoopRunning)

SignalStop ==
  /\ main = "stop" /\ main' = "join"
  /\ stops' = stops + 1
  /\ SignalLoop
  /\ UNCHANGED <<started, startupError, server, gst, telling, peerVars>>

JoinServer ==
  /\ main = "join" /\ main' = "quit"
  /\ UNCHANGED <<stops, started, startupError, server, shutdownEvent, gst, telling, peerVars>>

QuitGst ==
  /\ main = "quit" /\ main' = "stopped"
  /\ gst' = [gst EXCEPT !.running = FALSE]
  /\ UNCHANGED <<stops, started, startupError, server, shutdownEvent, telling, peerVars>>

(* A bus error is told to every browser and ends the streaming of frames.  *)
OnBusError ==
  /\ "bus" \in Failures /\ gst.running /\ gst.building = NoPeer
  /\ startupError' = TRUE
  /\ CopyPeers("gst")
  /\ UNCHANGED <<main, stops, started, server, shutdownEvent, gst, peerVars>>

(* push_frame and broadcast_source_status, called by a node that has the   *)
(* transport: from a start that succeeded until stop returns.  The first   *)
(* looks for peers and errors, but well before its broadcast, the second   *)
(* does not.                                                               *)
Broadcast(t) ==
  /\ started /\ main # "stopped"
  /\ CopyPeers(t)
  /\ UNCHANGED <<main, stops, started, startupError, server, shutdownEvent, gst, peerVars>>

----------------------------------------------------------------------------
(* _handle_websocket and _peer_sender. *)

HandlerAt(p, point) == socket[p].handler = point
Ended(s) == [s EXCEPT !.handler = "closed", !.sender = FALSE,
                      !.web = IF @ = "open" THEN "closed" ELSE @]

(* _gst_call_sync: an idle callback, and the wait for it.  The variant     *)
(* waits for ever.                                                         *)
Scheduled(kind, p) == [gst EXCEPT !.idle = Append(@, [kind |-> kind, peer |-> p])]
ReturnsWhenDone(p) == socket[p].call # "pending"
MayReturn(p) == socket[p].call = "pending" => "slow_gst" \in Failures \/ ~gst.running

(* A websocket that connects to the path /control gets no video. *)
OnConnect(p) ==
  /\ server = "serving" /\ HandlerAt(p, "none")
  /\ LET new == [socket[p] EXCEPT !.web = "open", !.sender = TRUE]
     IN  \/ /\ socket' = [socket EXCEPT ![p] = [new EXCEPT !.handler = "ready"]]
            /\ UNCHANGED gst
         \/ /\ socket' = [socket EXCEPT ![p] = [new EXCEPT !.handler = "adding",
                                                           !.call = "pending"]]
            /\ gst' = Scheduled("add", p)
  /\ UNCHANGED <<lifeVars, registered, branch, webrtc, offer, ice>>

(* add_peer is done, or it failed or was given up: then the handler ends   *)
(* without removing the peer.                                              *)
AddReturns(p) ==
  LET s == socket[p]
  IN  socket' = [socket EXCEPT ![p] =
        IF s.call = "done" THEN [s EXCEPT !.handler = "ready", !.added = TRUE, !.call = "none"]
        ELSE [Ended(s) EXCEPT !.call = IF s.call = "failed" THEN "none" ELSE "given_up"]]

AwaitAdd(p) ==
  /\ HandlerAt(p, "adding")
  /\ MayReturn(p)
  /\ AddReturns(p)
  /\ UNCHANGED <<lifeVars, gst, registered, branch, webrtc, offer, ice>>

(* The message that the peer is ready waits for room in the queue. *)
PutReady(p) ==
  /\ HandlerAt(p, "ready") /\ socket[p].backlog < QueueSize
  /\ socket' = [socket EXCEPT ![p].backlog = @ + 1, ![p].handler = "serving"]
  /\ UNCHANGED <<lifeVars, gst, registered, branch, webrtc, offer, ice>>

(* The messages end with the websocket, or with one that raises.  A peer   *)
(* that was added leaves _peers, and then the pipeline.  The variants      *)
(* leave it in _peers, and in both.                                        *)
StayRegistered(p) == UNCHANGED registered
Unregister(p) == registered' = registered \ {p}

EndAtOnce(p) == socket' = [socket EXCEPT ![p] = Ended(@)] /\ UNCHANGED <<gst, registered>>
RemovePeer(p) ==
  /\ socket' = [socket EXCEPT ![p].handler = "removing", ![p].call = "pending"]
  /\ Unregister(p)
  /\ gst' = Scheduled("remove", p)

EndServing(p) ==
  /\ HandlerAt(p, "serving")
  /\ socket[p].web = "closed" \/ "message" \in Failures
  /\ IF socket[p].added THEN RemovePeer(p) ELSE EndAtOnce(p)
  /\ UNCHANGED <<lifeVars, branch, webrtc, offer, ice>>

AwaitRemove(p) ==
  /\ HandlerAt(p, "removing")
  /\ MayReturn(p)
  /\ socket' = [socket EXCEPT ![p] = [Ended(@) EXCEPT !.call = "none"]]
  /\ UNCHANGED <<lifeVars, gst, registered, branch, webrtc, offer, ice>>

(* The sender sends the oldest message, or dies of a closed websocket. *)
Send(p) ==
  /\ socket[p].sender /\ socket[p].backlog > 0
  /\ socket' = [socket EXCEPT ![p].backlog = @ - 1, ![p].sender = socket[p].web = "open"]
  /\ UNCHANGED <<lifeVars, gst, registered, branch, webrtc, offer, ice>>

HangUp(p) ==
  /\ socket[p].web = "open"
  /\ socket' = [socket EXCEPT ![p].web = "closed"]
  /\ UNCHANGED <<lifeVars, gst, registered, branch, webrtc, offer, ice>>

----------------------------------------------------------------------------
(* _handle_peer_message. *)

(* A message that came before its websocket closed is still handled.       *)
Heard(p) == HandlerAt(p, "serving")

(* A request for the sources, and an answer that is refused, have a reply. *)
OnRequest(p) ==
  /\ Heard(p)
  /\ QueuePeer(p)
  /\ UNCHANGED <<lifeVars, gst, registered, branch, webrtc, offer, ice>>

OnAnswer(p) ==
  /\ Heard(p) /\ webrtc[p] /\ ice[p].answers < AnswerLimit
  /\ ice' = [ice EXCEPT ![p].answers = @ + 1]
  /\ gst' = Scheduled("set_remote", p)
  /\ UNCHANGED <<lifeVars, registered, socket, branch, webrtc, offer>>

AddIce(p, c) == [kind |-> "add_ice", peer |-> p, candidate |-> c]

(* A candidate waits for the remote description or goes to the webrtcbin.  *)
(* The variant keeps it in both cases.                                     *)
ReceiveAndKeep(p, c) ==
  /\ ice' = [ice EXCEPT ![p].received = @ \cup {c}, ![p].pending = Append(@, c)]
  /\ gst' = [gst EXCEPT !.idle = IF ice[p].remoteSet THEN Append(@, AddIce(p, c)) ELSE @]
ReceiveCandidate(p, c) ==
  /\ ice' = [ice EXCEPT ![p].received = @ \cup {c},
                        ![p].pending = IF ice[p].remoteSet THEN @ ELSE Append(@, c)]
  /\ gst' = [gst EXCEPT !.idle = IF ice[p].remoteSet THEN Append(@, AddIce(p, c)) ELSE @]

OnIce(p, c) ==
  /\ Heard(p) /\ webrtc[p] /\ c \notin ice[p].received
  /\ ReceiveCandidate(p, c)
  /\ UNCHANGED <<lifeVars, registered, socket, branch, webrtc, offer>>

----------------------------------------------------------------------------
(* The GStreamer thread. *)

(* The next callback, when the thread is free. *)
NextIdle(kind, p) ==
  /\ gst.running /\ gst.building = NoPeer /\ telling["gst"] = {}
  /\ gst.idle # <<>> /\ Head(gst.idle).kind = kind /\ Head(gst.idle).peer = p
IdleDone == [gst EXCEPT !.idle = Tail(@)]

CallEnds(p, result) ==
  socket' = [socket EXCEPT ![p].call = IF @ = "pending" THEN result ELSE @]

(* add_peer builds the branch and registers the peer, then negotiates.  A  *)
(* failure leaves what was built in the pipeline.                          *)
BuildBranch(p) ==
  /\ NextIdle("add", p)
  /\ branch' = [branch EXCEPT ![p] = "linked"]
  /\ webrtc' = [webrtc EXCEPT ![p] = TRUE]
  /\ registered' = registered \cup {p}
  /\ gst' = [IdleDone EXCEPT !.building = p]
  /\ UNCHANGED <<lifeVars, socket, offer, ice>>

FailToBuild(p) ==
  /\ "add" \in Failures
  /\ NextIdle("add", p)
  /\ branch' = [branch EXCEPT ![p] = "stray"]
  /\ CallEnds(p, "failed")
  /\ gst' = IdleDone
  /\ UNCHANGED <<lifeVars, registered, webrtc, offer, ice>>

FinishAdd(p) ==
  /\ gst.building = p /\ offer[p].asked > 0 /\ "gst" \notin offer[p].starting
  /\ gst' = [gst EXCEPT !.building = NoPeer]
  /\ CallEnds(p, "done")
  /\ UNCHANGED <<lifeVars, registered, branch, webrtc, offer, ice>>

(* remove_peer keeps a branch without a remote description: to stop it     *)
(* could block the thread.  The variant stops every branch.                *)
StopAnyBranch(p) == branch' = [branch EXCEPT ![p] = "stopped"]
DetachBranch(p) ==
  branch' = [branch EXCEPT ![p] = IF ice[p].remoteSet THEN "stopped" ELSE "orphaned"]

RemoveBranch(p) ==
  /\ NextIdle("remove", p)
  /\ DetachBranch(p)
  /\ webrtc' = [webrtc EXCEPT ![p] = FALSE]
  /\ CallEnds(p, "done")
  /\ gst' = IdleDone
  /\ UNCHANGED <<lifeVars, registered, offer, ice>>

SetRemoteDescription(p) ==
  /\ NextIdle("set_remote", p)
  /\ offer' = [offer EXCEPT ![p].operations =
                 IF webrtc[p] THEN Append(@, "set_remote") ELSE @]
  /\ gst' = IdleDone
  /\ UNCHANGED <<lifeVars, registered, socket, branch, webrtc, ice>>

(* Without a webrtcbin the callback raises and the candidate is gone. *)
AddIceCandidate(p) ==
  /\ NextIdle("add_ice", p)
  /\ ice' = [ice EXCEPT ![p].added[Head(gst.idle).candidate] =
               IF webrtc[p] THEN @ + 1 ELSE @]
  /\ gst' = IdleDone
  /\ UNCHANGED <<lifeVars, registered, socket, branch, webrtc, offer>>

----------------------------------------------------------------------------
(* The negotiation.  _on_negotiation_needed is called by add_peer and by a *)
(* signal of the webrtcbin: each looks at offer_started, then sets it.     *)

OnNegotiationNeeded(caller, p) ==
  /\ IF caller = "gst" THEN gst.building = p ELSE SignalsRace /\ webrtc[p]
  /\ offer[p].asked = 0 /\ caller \notin offer[p].starting
  /\ offer' = [offer EXCEPT ![p].starting = @ \cup {caller}]
  /\ UNCHANGED <<lifeVars, gst, registered, socket, branch, webrtc, ice>>

CreateOffer(caller, p) ==
  /\ caller \in offer[p].starting
  /\ offer' = [offer EXCEPT ![p].starting = @ \ {caller}, ![p].asked = @ + 1,
                            ![p].operations = Append(@, "create_offer")]
  /\ UNCHANGED <<lifeVars, gst, registered, socket, branch, webrtc, ice>>

NextOperation(p, kind) ==
  offer[p].operations # <<>> /\ Head(offer[p].operations) = kind

(* The webrtcbin did what it was asked and called back. *)
Replied(p, more) == [offer[p] EXCEPT !.operations = Tail(@) \o more]
TellNobody(p, o) == offer' = [offer EXCEPT ![p] = o] /\ UNCHANGED socket   \* variant
TellBrowser(p, o) ==
  /\ offer' = [offer EXCEPT ![p] = [o EXCEPT !.told = Verdict(p)]]
  /\ QueuePeer(p)

OnOfferCreated(p) ==
  /\ NextOperation(p, "create_offer")
  /\ \/ /\ webrtc[p]
        /\ offer' = [offer EXCEPT ![p] = Replied(p, <<"set_local">>)]
        /\ UNCHANGED socket
     \/ /\ ~webrtc[p] \/ "offer" \in Failures
        /\ TellBrowser(p, Replied(p, <<>>))
  /\ UNCHANGED <<lifeVars, gst, registered, branch, webrtc, ice>>

(* With the peer gone the callback raises before it tells of the offer. *)
OnLocalDescriptionSet(p) ==
  /\ NextOperation(p, "set_local")
  /\ LET o == [Replied(p, <<>>) EXCEPT !.signaling = "have_local_offer"]
     IN  \/ webrtc[p] /\ TellBrowser(p, o)
         \/ ~webrtc[p] /\ offer' = [offer EXCEPT ![p] = o] /\ UNCHANGED socket
         \/ "local" \in Failures /\ TellBrowser(p, Replied(p, <<>>))
  /\ UNCHANGED <<lifeVars, gst, registered, branch, webrtc, ice>>

(* An accepted answer schedules the candidates that waited.                *)
SchedulePending(p) ==
  gst' = [gst EXCEPT !.idle =
            @ \o [i \in DOMAIN ice[p].pending |-> AddIce(p, ice[p].pending[i])]]
AcceptAnswer(p) ==
  ice' = [ice EXCEPT ![p].remoteSet = TRUE, ![p].pending = <<>>] /\ SchedulePending(p)

OnRemoteDescriptionSet(p) ==
  /\ NextOperation(p, "set_remote")
  /\ \/ /\ offer[p].signaling = "have_local_offer"
        /\ offer' = [offer EXCEPT ![p] = [Replied(p, <<>>) EXCEPT !.signaling = "stable"]]
        /\ IF webrtc[p] THEN AcceptAnswer(p) /\ UNCHANGED socket
                        ELSE QueuePeer(p) /\ UNCHANGED <<ice, gst>>
     \/ /\ offer[p].signaling = "stable" \/ "remote" \in Failures
        /\ offer' = [offer EXCEPT ![p] = Replied(p, <<>>)]
        /\ QueuePeer(p)
        /\ UNCHANGED <<ice, gst>>
  /\ UNCHANGED <<lifeVars, registered, branch, webrtc>>

(* The webrtcbin reports a candidate of its own. *)
OnIceCandidate(p) ==
  /\ webrtc[p] /\ offer[p].signaling = "have_local_offer"
  /\ QueuePeer(p)
  /\ UNCHANGED <<lifeVars, gst, registered, branch, webrtc, offer, ice>>

----------------------------------------------------------------------------
StopStep == StopAgain \/ SignalStop \/ JoinServer \/ QuitGst
ServerStep == CreateLoop \/ Listen \/ CloseServer \/ EndServer
BroadcastStep == (\E t \in NodeThreads : Broadcast(t))
                 \/ (\E t \in Tellers, p \in Peers : TellPeer(t, p))
HandlerStep(p) == AwaitAdd(p) \/ PutReady(p) \/ AwaitRemove(p) \/ EndServing(p)
GstStep(p) ==
  \/ BuildBranch(p) \/ FailToBuild(p) \/ FinishAdd(p) \/ RemoveBranch(p)
  \/ SetRemoteDescription(p) \/ AddIceCandidate(p)
  \/ OnNegotiationNeeded("gst", p) \/ CreateOffer("gst", p)
WebRtcStep(p) ==
  OnOfferCreated(p) \/ OnLocalDescriptionSet(p) \/ OnRemoteDescriptionSet(p)
SignalStep(p) == OnNegotiationNeeded("webrtcbin", p) \/ CreateOffer("webrtcbin", p)
                 \/ OnIceCandidate(p)
BrowserStep(p) == OnConnect(p) \/ HangUp(p) \/ OnRequest(p) \/ OnAnswer(p)
                  \/ (\E c \in Candidates : OnIce(p, c))

Next ==
  \/ Start \/ StartReturns \/ CallStop \/ StopStep \/ ServerStep
  \/ OnBusError \/ BroadcastStep
  \/ \E p \in Peers : HandlerStep(p) \/ Send(p) \/ GstStep(p) \/ WebRtcStep(p)
                      \/ SignalStep(p) \/ BrowserStep(p)

Spec == Init /\ [][Next]_vars

(* Every thread that can run is scheduled, webrtcbin answers what it is    *)
(* asked until stop ends the pipeline (after that it may or may not), and  *)
(* the sender is not held up for ever: the server pings, and closes a      *)
(* websocket that does not answer.  Browsers do as they please.            *)
FairSpec ==
  /\ Spec
  /\ WF_vars(StartReturns) /\ WF_vars(StopStep) /\ WF_vars(ServerStep)
  /\ WF_vars(\E p \in Peers : GstStep(p) \/ TellPeer("gst", p))
  /\ \A p \in Peers :
       /\ WF_vars(HandlerStep(p)) /\ WF_vars(Send(p))
       /\ WF_vars(gst.running /\ WebRtcStep(p))

----------------------------------------------------------------------------
(* Properties. *)

Callbacks == [kind : {"add", "remove", "set_remote"}, peer : Peers]
             \cup [kind : {"add_ice"}, peer : Peers, candidate : Candidates]

(* Every variable holds a value of its kind; a queue keeps to its size. *)
TypeOK ==
  /\ main \in {"new", "starting", "running", "stop", "join", "quit", "stopped"}
  /\ stops \in Nat /\ started \in BOOLEAN /\ startupError \in BOOLEAN
  /\ server \in {"none", "thread", "loop", "serving", "closing", "ended"}
  /\ shutdownEvent \in BOOLEAN /\ telling \in [Tellers -> SUBSET Peers]
  /\ gst \in [running : BOOLEAN, idle : Seq(Callbacks), building : Peers \cup {NoPeer}]
  /\ registered \subseteq Peers
  /\ socket \in [Peers -> [handler : {"none", "adding", "ready", "serving", "removing",
                                      "closed"},
                           added : BOOLEAN, web : {"none", "open", "closed"},
                           sender : BOOLEAN,
                           backlog : 0 .. QueueSize,
                           call : {"none", "pending", "done", "failed", "given_up"}]]
  /\ branch \in [Peers -> {"none", "linked", "stray", "orphaned", "stopped"}]
  /\ webrtc \in [Peers -> BOOLEAN]
  /\ offer \in [Peers -> [starting : SUBSET {"gst", "webrtcbin"}, asked : Nat,
                          operations : Seq({"create_offer", "set_local", "set_remote"}),
                          signaling : {"stable", "have_local_offer"},
                          told : {"nothing", "told", "dropped"}]]
  /\ ice \in [Peers -> [remoteSet : BOOLEAN, pending : Seq(Candidates),
                        received : SUBSET Candidates, added : [Candidates -> Nat],
                        answers : 0 .. AnswerLimit]]

(* A peer is in _peers only while its branch is linked: it enters after    *)
(* its branch, and leaves before it, on another thread.  A broadcast may   *)
(* still tell one that has left since _peers was copied, but none whose    *)
(* handler is not removing it, or has (_broadcast, _remove_peer_sync).     *)
RegisteredAreLinked ==
  /\ \A p \in registered : branch[p] = "linked" /\ webrtc[p]
  /\ \A t \in Tellers : \A p \in telling[t] \ registered :
       HandlerAt(p, "removing") \/ HandlerAt(p, "closed")

(* A branch in the pipeline has a handler that will remove it, or add_peer *)
(* ran after its handler had given it up, or stop ended the GStreamer      *)
(* thread first (_handle_websocket, _gst_call_sync).                       *)
LinkedHaveOwner ==
  \A p \in Peers :
    branch[p] = "linked" /\ HandlerAt(p, "closed") =>
      socket[p].call = "given_up" \/ ~gst.running
      \/ \E i \in DOMAIN gst.idle : gst.idle[i] = [kind |-> "remove", peer |-> p]

OnItsWay(p, c) == {i \in DOMAIN gst.idle : gst.idle[i] = AddIce(p, c)}

(* Every candidate that came for a peer is, exactly once, waiting for the  *)
(* remote description, on its way to the webrtcbin or added to it: none is *)
(* lost or doubled when the description is set meanwhile                   *)
(* (_handle_peer_message, _on_remote_description_set).                     *)
CandidatesOnce ==
  \A p \in Peers : webrtc[p] =>
    /\ ice[p].remoteSet => ice[p].pending = <<>>
    /\ \A c \in Candidates :
         Cardinality({i \in DOMAIN ice[p].pending : ice[p].pending[i] = c})
           + Cardinality(OnItsWay(p, c)) + ice[p].added[c]
         = IF c \in ice[p].received THEN 1 ELSE 0

(* remove_peer stops no webrtcbin that has a local offer and no answer,    *)
(* unless two threads got past the check of offer_started                  *)
(* (_remove_peer_sync).                                                    *)
HalfNegotiatedKept ==
  [][\A p \in Peers :
       branch'[p] = "stopped" /\ branch[p] # "stopped" =>
         offer[p].signaling = "stable" \/ offer[p].asked > 1]_vars

(* Once stop has returned, a server that goes on serving was told to shut  *)
(* down, unless start had failed: it may have timed out before there was a *)
(* loop to tell (start, stop).                                             *)
StopReachesServer ==
  main = "stopped" /\ LoopRunning => shutdownEvent \/ ~started

Stuck(p) == HandlerAt(p, "ready") /\ socket[p].backlog = QueueSize /\ ~socket[p].sender

(* A websocket that is closed, by either side, ends its handler, except    *)
(* one that waits to put its first message in a queue that is full and has *)
(* lost its sender (_handle_websocket).                                    *)
HandlersEnd ==
  \A p \in Peers : socket[p].web = "closed" ~> HandlerAt(p, "closed") \/ Stuck(p)

(* So a server that was told to shut down ends, with the same exception,   *)
(* whatever calls the GStreamer thread left behind (stop).                 *)
ServerEnds == shutdownEvent ~> server = "ended" \/ \E p \in Peers : Stuck(p)

(* Every peer that is added gets an offer or an error, unless it leaves,   *)
(* its queue is full at that moment, or the pipeline is stopped            *)
(* (_on_offer_created, _on_local_description_set).                         *)
OfferFollows ==
  \A p \in Peers :
    p \in registered ~> offer[p].told # "nothing" \/ p \notin registered \/ ~gst.running
============================================================================
