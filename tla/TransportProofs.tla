---------------------------- MODULE TransportProofs ----------------------------
(***************************************************************************)
(* What the transport keeps true of its peers, for any number of them, any *)
(* size of a queue and any failures.                                       *)
(*                                                                         *)
(* The argument follows a peer's life.  A worker leaves one call to add    *)
(* the peer, and one to remove it after the first has been done; a call    *)
(* may outlive the wait for it.  PeerInv says for each point of the        *)
(* handler which calls may still be left, and what that makes of the       *)
(* branch.  OfferInv follows the one offer of a peer through the           *)
(* operations of its webrtcbin, OwedInv says that it comes, CandidateInv   *)
(* follows each candidate through the places it may be in, LifeInv start   *)
(* and stop, and SocketsInv what these do to websockets and handlers.      *)
(***************************************************************************)
EXTENDS WebRtcTransport, FiniteSetTheorems, TLAPS

----------------------------------------------------------------------------
(* Calls left with the GStreamer thread. *)

Left(calls, kind, p) == \E i \in DOMAIN calls : calls[i].kind = kind /\ calls[i].peer = p
LeftOnce(calls, kind, p) ==
  \A i, j \in DOMAIN calls :
    /\ calls[i].kind = kind /\ calls[i].peer = p
    /\ calls[j].kind = kind /\ calls[j].peer = p
    => i = j

Adding(p) == Left(gst.idle, "add", p)
Removing(p) == Left(gst.idle, "remove", p)

(* Where the handler is, what its worker has left and what that means. *)
PeerInv(p) ==
  /\ LeftOnce(gst.idle, "add", p)
  /\ Adding(p) => branch[p] = "none" /\ gst.building # p
  /\ Removing(p) \/ branch[p] # "linked" => p \notin registered
  /\ p \in registered => webrtc[p]
  /\ branch[p] = "none" => ~webrtc[p]
  /\ gst.building = p => branch[p] = "linked" /\ webrtc[p]
  /\ HandlerAt(p, "none") =>
       /\ ~Adding(p) /\ ~Removing(p) /\ gst.building # p
       /\ branch[p] = "none" /\ ~socket[p].added /\ socket[p].call = "none"
  /\ HandlerAt(p, "adding") =>
       /\ ~Removing(p) /\ ~socket[p].added
       /\ socket[p].call \in {"pending", "done", "failed"}
       /\ IF socket[p].call = "pending" THEN Adding(p) \/ gst.building = p
                                       ELSE ~Adding(p) /\ gst.building # p
       /\ socket[p].call = "failed" => branch[p] = "stray"
  /\ HandlerAt(p, "ready") \/ HandlerAt(p, "serving") =>
       /\ ~Adding(p) /\ ~Removing(p) /\ gst.building # p
       /\ socket[p].call = "none"
       /\ ~socket[p].added => branch[p] = "none"
  /\ HandlerAt(p, "removing") =>
       /\ ~Adding(p) /\ gst.building # p
       /\ socket[p].call \in {"pending", "done"}
       /\ IF socket[p].call = "pending" THEN Removing(p) ELSE branch[p] # "linked"
  /\ HandlerAt(p, "closed") =>
       /\ socket[p].call \in {"none", "given_up"}
       /\ socket[p].call = "none" =>
            /\ ~Adding(p) /\ gst.building # p
            /\ branch[p] = "linked" => Removing(p)
       /\ socket[p].call = "given_up" => ~Removing(p)

PeersInv == \A p \in Peers : PeerInv(p)

(* What a websocket has to do with its handler, its sender and the server. *)
InUse == {"adding", "ready", "serving", "removing"}
SocketFits(s, state) ==
  /\ s.web = "none" <=> s.handler = "none"
  /\ s.web = "open" => state = "serving" /\ s.sender /\ s.handler \in InUse
  /\ s.handler \in InUse => state \in {"serving", "closing"}
  /\ s.handler = "closed" => state \in {"serving", "closing", "ended"}
  /\ s.sender => s.handler \in InUse
SocketsInv == \A p \in Peers : SocketFits(socket[p], server)

(* The one offer of a peer: asked for, made, set, answered. *)
Offering(operations) ==
  {i \in DOMAIN operations : operations[i] \in {"create_offer", "set_local"}}
AtMostOne(S) == \A i, j \in S : i = j
OfferOnce(o, remoteSet) ==
  /\ o.asked = 0 =>
       Offering(o.operations) = {} /\ o.signaling = "stable" /\ ~remoteSet
  /\ o.asked <= 1 =>
       /\ AtMostOne(Offering(o.operations))
       /\ Offering(o.operations) # {} => o.signaling = "stable" /\ ~remoteSet
       /\ o.signaling = "have_local_offer" => ~remoteSet
OfferInv == \A p \in Peers : OfferOnce(offer[p], ice[p].remoteSet)

LifeInv ==
  /\ main = "new" => server = "none" /\ ~started
  /\ main = "starting" => ~started
  /\ started => server \in {"serving", "closing", "ended"}
  /\ main \in {"join", "quit", "stopped"} /\ started => shutdownEvent \/ server = "ended"

----------------------------------------------------------------------------
(* Types. *)

Handlers == {"none", "adding", "ready", "serving", "removing", "closed"}
Calls == {"none", "pending", "done", "failed", "given_up"}
Operations == {"create_offer", "set_local", "set_remote"}
Sockets == [handler : Handlers, added : BOOLEAN, web : {"none", "open", "closed"},
            sender : BOOLEAN, backlog : 0 .. QueueSize, call : Calls]
Offers == [starting : SUBSET {"gst", "webrtcbin"}, asked : Nat, operations : Seq(Operations),
           signaling : {"stable", "have_local_offer"}, told : {"nothing", "told", "dropped"}]
Ices == [remoteSet : BOOLEAN, pending : Seq(Candidates), received : SUBSET Candidates,
         added : [Candidates -> Nat], answers : 0 .. AnswerLimit]

Gsts == [running : BOOLEAN, idle : Seq(Callbacks), building : Peers \cup {NoPeer}]
Branches == {"none", "linked", "stray", "orphaned", "stopped"}

(* The types hold at first. *)
LEMMA TypeInit == Init => TypeOK
  <1> SUFFICES ASSUME Init PROVE TypeOK
    OBVIOUS
  <1>1. socket \in [Peers -> Sockets]
    BY TransportAssumption DEF Init, Sockets, Handlers, Calls
  <1>2. offer \in [Peers -> Offers]
    BY DEF Init, Offers, Operations
  <1>3. ice \in [Peers -> Ices]
    BY TransportAssumption DEF Init, Ices
  <1>4. gst \in Gsts
    BY DEF Init, Gsts
  <1>5. branch \in [Peers -> Branches] /\ webrtc \in [Peers -> BOOLEAN]
    BY DEF Init, Branches
  <1> QED BY <1>1, <1>2, <1>3, <1>4, <1>5 DEF Init, TypeOK, Sockets, Handlers, Calls, Offers,
             Operations, Ices, Gsts, Branches

(* What a message does to the queue of a peer. *)
LEMMA QueuedType ==
  ASSUME NEW s \in Sockets
  PROVE  /\ Queued(s) \in Sockets
         /\ Queued(s).handler = s.handler /\ Queued(s).added = s.added
         /\ Queued(s).call = s.call
  BY TransportAssumption DEF Queued, Sockets

(* A handler that ends leaves a socket behind. *)
LEMMA EndedType ==
  ASSUME NEW s \in Sockets
  PROVE  /\ Ended(s) \in Sockets /\ Ended(s).handler = "closed"
         /\ Ended(s).added = s.added /\ Ended(s).call = s.call
  BY DEF Ended, Sockets, Handlers

(* Callbacks of each kind. *)
LEMMA CallbackTypes ==
  ASSUME NEW p \in Peers
  PROVE  /\ \A kind \in {"add", "remove", "set_remote"} : [kind |-> kind, peer |-> p] \in Callbacks
         /\ \A c \in Candidates : AddIce(p, c) \in Callbacks
  BY DEF Callbacks, AddIce

(* One more call, and one less, for a GStreamer thread of the right type. *)
LEMMA GstTypes ==
  ASSUME NEW g \in Gsts
  PROVE  /\ \A x \in Callbacks : [g EXCEPT !.idle = Append(@, x)] \in Gsts
         /\ g.idle # <<>> => [g EXCEPT !.idle = Tail(@)] \in Gsts
         /\ \A p \in Peers \cup {NoPeer} : [g EXCEPT !.building = p] \in Gsts
         /\ \A b \in BOOLEAN : [g EXCEPT !.running = b] \in Gsts
         /\ \A s \in Seq(Callbacks) : [g EXCEPT !.idle = @ \o s] \in Gsts
  <1>1. \A s \in Seq(Callbacks) : [g EXCEPT !.idle = s] \in Gsts
    BY DEF Gsts
  <1>2. g.idle \in Seq(Callbacks)
    BY DEF Gsts
  <1>3. \A x \in Callbacks : Append(g.idle, x) \in Seq(Callbacks)
    BY <1>2
  <1>4. g.idle # <<>> => Tail(g.idle) \in Seq(Callbacks)
    BY <1>2
  <1>5. \A s \in Seq(Callbacks) : g.idle \o s \in Seq(Callbacks)
    BY <1>2
  <1>6. /\ \A p \in Peers \cup {NoPeer} : [g EXCEPT !.building = p] \in Gsts
        /\ \A b \in BOOLEAN : [g EXCEPT !.running = b] \in Gsts
    BY DEF Gsts
  <1> QED BY <1>1, <1>3, <1>4, <1>5, <1>6

(* The same for an offer. *)
LEMMA OfferTypes ==
  ASSUME NEW o \in Offers
  PROVE  /\ \A s \in SUBSET {"gst", "webrtcbin"} :
              /\ [o EXCEPT !.starting = s] \in Offers
              /\ [o EXCEPT !.starting = s, !.asked = @ + 1,
                             !.operations = Append(@, "create_offer")] \in Offers
         /\ \A s \in Seq(Operations) : [o EXCEPT !.operations = s] \in Offers
         /\ \A s \in {"stable", "have_local_offer"} : [o EXCEPT !.signaling = s] \in Offers
         /\ \A t \in {"nothing", "told", "dropped"} : [o EXCEPT !.told = t] \in Offers
  <1>1. o.operations \in Seq(Operations) /\ o.asked + 1 \in Nat
    BY DEF Offers
  <1>2. Append(o.operations, "create_offer") \in Seq(Operations)
    BY <1>1 DEF Operations
  <1>3. \A s \in SUBSET {"gst", "webrtcbin"}, a \in Nat, ops \in Seq(Operations) :
          /\ [o EXCEPT !.starting = s] \in Offers
          /\ [o EXCEPT !.starting = s, !.asked = a, !.operations = ops] \in Offers
    BY DEF Offers
  <1>4. /\ \A s \in Seq(Operations) : [o EXCEPT !.operations = s] \in Offers
        /\ \A s \in {"stable", "have_local_offer"} : [o EXCEPT !.signaling = s] \in Offers
        /\ \A t \in {"nothing", "told", "dropped"} : [o EXCEPT !.told = t] \in Offers
    BY DEF Offers
  <1> QED BY <1>1, <1>2, <1>3, <1>4

(* And for candidates. *)
LEMMA IceTypes ==
  ASSUME NEW i \in Ices
  PROVE  /\ \A s \in Seq(Candidates), r \in SUBSET Candidates :
              /\ [i EXCEPT !.received = r, !.pending = s] \in Ices
              /\ [i EXCEPT !.remoteSet = TRUE, !.pending = s] \in Ices
         /\ \A n \in 0 .. AnswerLimit : [i EXCEPT !.answers = n] \in Ices
         /\ \A f \in [Candidates -> Nat] : [i EXCEPT !.added = f] \in Ices
  BY DEF Ices

(* The types, by the kinds of variables. *)
LifeTypeOK ==
  /\ main \in {"new", "starting", "running", "stop", "join", "quit", "stopped"}
  /\ stops \in Nat /\ started \in BOOLEAN /\ startupError \in BOOLEAN
  /\ server \in {"none", "thread", "loop", "serving", "closing", "ended"}
  /\ shutdownEvent \in BOOLEAN /\ telling \in [Tellers -> SUBSET Peers]
PeerTypeOK ==
  /\ registered \subseteq Peers /\ socket \in [Peers -> Sockets]
  /\ branch \in [Peers -> Branches] /\ webrtc \in [Peers -> BOOLEAN]
  /\ offer \in [Peers -> Offers] /\ ice \in [Peers -> Ices]
Types == LifeTypeOK /\ gst \in Gsts /\ PeerTypeOK

(* TypeOK, by the shapes of its records. *)
LEMMA TypesOK == TypeOK <=> Types
  BY DEF Types, LifeTypeOK, PeerTypeOK, TypeOK, Sockets, Handlers, Calls, Offers, Operations, Ices,
         Gsts, Branches

(* start, stop and the signaling thread. *)
LEMMA LifeTypes ==
  ASSUME Types, Start \/ StartReturns \/ CallStop \/ StopStep \/ ServerStep
                \/ OnBusError \/ BroadcastStep
  PROVE  Types'
  <1> USE DEF lifeVars, peerVars
  <1>a. LifeTypeOK /\ gst \in Gsts /\ PeerTypeOK
    BY DEF Types
  <1>1. CASE Start
    <2>1. gst' \in Gsts
      BY <1>a, <1>1, GstTypes DEF Start
    <2>2. LifeTypeOK'
      BY <1>a, <1>1 DEF Start, LifeTypeOK
    <2> QED BY <1>a, <1>1, <2>1, <2>2 DEF Start, PeerTypeOK, Types
  <1>2. CASE StartReturns \/ CallStop \/ StopAgain \/ JoinServer
    <2>1. LifeTypeOK'
      BY <1>a, <1>2 DEF StartReturns, StartSucceeds, StartFails, CallStop, StopAgain, JoinServer, LifeTypeOK
    <2> QED BY <1>a, <1>2, <2>1 DEF StartReturns, CallStop, StopAgain, JoinServer, PeerTypeOK, Types
  <1>3. CASE SignalStop
    <2>1. shutdownEvent' \in BOOLEAN
      BY <1>3 DEF SignalStop, SignalLoop
    <2> QED BY <1>a, <1>3, <2>1 DEF SignalStop, LifeTypeOK, PeerTypeOK, Types
  <1>4. CASE QuitGst
    <2>1. gst' \in Gsts
      BY <1>a, <1>4, GstTypes DEF QuitGst
    <2> QED BY <1>a, <1>4, <2>1 DEF QuitGst, LifeTypeOK, PeerTypeOK, Types
  <1>5. CASE CreateLoop \/ Listen \/ EndServer
    BY <1>a, <1>5 DEF CreateLoop, Listen, EndServer, LifeTypeOK, PeerTypeOK, Types
  <1>6. CASE CloseServer
    <2>1. socket' \in [Peers -> Sockets]
      BY <1>a, <1>6 DEF CloseServer, PeerTypeOK, Sockets
    <2> QED BY <1>a, <1>6, <2>1 DEF CloseServer, LifeTypeOK, PeerTypeOK, Types
  <1>7. ASSUME NEW t \in Tellers, CopyPeers(t)
        PROVE  telling' \in [Tellers -> SUBSET Peers]
    BY <1>a, <1>7 DEF CopyPeers, LifeTypeOK, PeerTypeOK
  <1>8. CASE OnBusError
    <2>1. telling' \in [Tellers -> SUBSET Peers]
      BY <1>7, <1>8 DEF OnBusError, Tellers
    <2> QED BY <1>a, <1>8, <2>1 DEF OnBusError, LifeTypeOK, PeerTypeOK, Types
  <1>9. ASSUME NEW t \in NodeThreads, Broadcast(t) PROVE Types'
    <2>1. telling' \in [Tellers -> SUBSET Peers]
      BY <1>7, <1>9 DEF Broadcast, Tellers
    <2> QED BY <1>a, <1>9, <2>1 DEF Broadcast, LifeTypeOK, PeerTypeOK, Types
  <1>10. ASSUME NEW t \in Tellers, NEW p \in Peers, TellPeer(t, p) PROVE Types'
    <2>1. telling' \in [Tellers -> SUBSET Peers]
      BY <1>a, <1>10 DEF TellPeer, LifeTypeOK
    <2>2. socket' \in [Peers -> Sockets]
      BY <1>a, <1>10, QueuedType DEF TellPeer, QueuePeer, PeerTypeOK
    <2> QED BY <1>a, <1>10, <2>1, <2>2 DEF TellPeer, LifeTypeOK, PeerTypeOK, Types
  <1> QED BY <1>1, <1>2, <1>3, <1>4, <1>5, <1>6, <1>8, <1>9, <1>10
          DEF StopStep, ServerStep, BroadcastStep

(* A handler, its worker and its sender, and what the browser sends. *)
LEMMA HandlerTypes ==
  ASSUME Types, NEW p \in Peers, HandlerStep(p) \/ Send(p) \/ BrowserStep(p)
  PROVE  Types'
  <1>a. LifeTypeOK /\ gst \in Gsts /\ PeerTypeOK
    BY DEF Types
  <1>b. socket \in [Peers -> Sockets] /\ socket[p] \in Sockets
    BY <1>a DEF PeerTypeOK
  <1>c. \A kind \in {"add", "remove", "set_remote"} : Scheduled(kind, p) \in Gsts
    BY <1>a, GstTypes, CallbackTypes DEF Scheduled
  <1>d. \A x \in Sockets : [socket EXCEPT ![p] = x] \in [Peers -> Sockets]
    BY <1>b
  <1>1. ASSUME socket' \in [Peers -> Sockets], gst' \in Gsts,
               UNCHANGED <<lifeVars, branch, webrtc, offer, ice>>,
               registered' \subseteq Peers
        PROVE  Types'
    BY <1>a, <1>1 DEF lifeVars, LifeTypeOK, PeerTypeOK, Types
  <1>2. CASE OnConnect(p)
    <2>1. /\ [socket[p] EXCEPT !.web = "open", !.sender = TRUE] \in Sockets
          /\ \A s \in Sockets : /\ [s EXCEPT !.handler = "ready"] \in Sockets
                                 /\ [s EXCEPT !.handler = "adding", !.call = "pending"] \in Sockets
      BY <1>b DEF Sockets, Handlers, Calls
    <2>3. socket' \in [Peers -> Sockets]
      BY <1>d, <1>2, <2>1 DEF OnConnect
    <2>2. gst' \in Gsts
      BY <1>a, <1>c, <1>2 DEF OnConnect
    <2> QED BY <1>a, <1>1, <1>2, <2>3, <2>2 DEF OnConnect, PeerTypeOK
  <1>3. CASE AwaitAdd(p)
    <2>1. socket' \in [Peers -> Sockets]
      <3>1. [socket[p] EXCEPT !.handler = "ready", !.added = TRUE, !.call = "none"] \in Sockets
        BY <1>b DEF Sockets, Handlers, Calls
      <3>2. \A c \in Calls : [Ended(socket[p]) EXCEPT !.call = c] \in Sockets
        BY <1>b, EndedType DEF Sockets
      <3> QED BY <1>d, <1>3, <3>1, <3>2 DEF AwaitAdd, AddReturns, Calls
    <2> QED BY <1>a, <1>1, <1>3, <2>1 DEF AwaitAdd, PeerTypeOK
  <1>4. CASE PutReady(p) \/ HangUp(p)
    <2>1. socket' \in [Peers -> Sockets]
      BY <1>b, <1>4, TransportAssumption DEF PutReady, HangUp, Sockets, Handlers
    <2> QED BY <1>a, <1>1, <1>4, <2>1 DEF PutReady, HangUp, PeerTypeOK
  <1>5. CASE EndServing(p)
    <2>1. CASE EndAtOnce(p)
      BY <1>a, <1>b, <1>d, <1>1, <1>5, <2>1, EndedType DEF EndServing, EndAtOnce, PeerTypeOK
    <2>2. CASE RemovePeer(p)
      <3>1. socket' \in [Peers -> Sockets]
        BY <1>b, <2>2 DEF RemovePeer, Sockets, Handlers, Calls
      <3> QED BY <1>a, <1>c, <1>1, <1>5, <2>2, <3>1 DEF EndServing, RemovePeer, Unregister, PeerTypeOK
    <2> QED BY <1>5, <2>1, <2>2 DEF EndServing
  <1>6. CASE AwaitRemove(p)
    <2>1. [Ended(socket[p]) EXCEPT !.call = "none"] \in Sockets
      BY <1>b, EndedType DEF Sockets, Calls
    <2> QED BY <1>a, <1>d, <1>1, <1>6, <2>1 DEF AwaitRemove, PeerTypeOK
  <1>7. CASE Send(p)
    <2>1. PICK b \in BOOLEAN : b = (socket[p].web = "open")
      OBVIOUS
    <2>2. socket' = [socket EXCEPT ![p].backlog = @ - 1, ![p].sender = b]
      BY <1>7, <2>1, Zenon DEF Send
    <2>6. socket[p].backlog - 1 \in 0 .. QueueSize
      BY <1>b, <1>7, TransportAssumption DEF Send, Sockets
    <2>7. \A n \in 0 .. QueueSize : [socket[p] EXCEPT !.backlog = n, !.sender = b] \in Sockets
      BY <1>b DEF Sockets
    <2>3. [socket[p] EXCEPT !.backlog = @ - 1, !.sender = b] \in Sockets
      BY <2>6, <2>7
    <2>4. socket' = [socket EXCEPT ![p] = [socket[p] EXCEPT !.backlog = @ - 1, !.sender = b]]
      BY <1>b, <2>2 DEF Sockets
    <2>5. socket' \in [Peers -> Sockets]
      BY <1>d, <2>3, <2>4
    <2> QED BY <1>a, <1>1, <1>7, <2>5 DEF Send, PeerTypeOK
  <1>8. CASE OnRequest(p)
    BY <1>a, <1>b, <1>d, <1>1, <1>8, QueuedType DEF OnRequest, QueuePeer, PeerTypeOK
  <1>9. ASSUME ice' \in [Peers -> Ices], gst' \in Gsts,
               UNCHANGED <<lifeVars, registered, socket, branch, webrtc, offer>>
        PROVE  Types'
    BY <1>a, <1>9 DEF lifeVars, LifeTypeOK, PeerTypeOK, Types
  <1>10. CASE OnAnswer(p)
    <2>1. ice[p].answers + 1 \in 0 .. AnswerLimit
      BY <1>a, <1>10, TransportAssumption DEF OnAnswer, PeerTypeOK, Ices
    <2>2. [ice[p] EXCEPT !.answers = @ + 1] \in Ices
      BY <1>a, <2>1, IceTypes DEF PeerTypeOK
    <2>3. ice' = [ice EXCEPT ![p] = [ice[p] EXCEPT !.answers = @ + 1]]
      BY <1>a, <1>10 DEF OnAnswer, PeerTypeOK
    <2>4. ice' \in [Peers -> Ices]
      BY <1>a, <2>2, <2>3 DEF PeerTypeOK
    <2> QED BY <1>c, <1>9, <1>10, <2>4 DEF OnAnswer
  <1>11. ASSUME NEW c \in Candidates, OnIce(p, c)
         PROVE  Types'
    <2> DEFINE pending == IF ice[p].remoteSet THEN ice[p].pending ELSE Append(ice[p].pending, c)
               new == [ice[p] EXCEPT !.received = @ \cup {c}, !.pending = pending]
    <2>1. ice[p] \in Ices /\ ice[p].pending \in Seq(Candidates) /\ ice[p].received \subseteq Candidates
      BY <1>a DEF PeerTypeOK, Ices
    <2>2. pending \in Seq(Candidates)
      BY <2>1
    <2>3. new \in Ices
      BY <2>1, <2>2, IceTypes
    <2>4. ice' = [ice EXCEPT ![p] = new]
      BY <1>a, <1>11 DEF OnIce, ReceiveCandidate, PeerTypeOK
    <2>5. ice' \in [Peers -> Ices]
      BY <1>a, <2>3, <2>4 DEF PeerTypeOK
    <2>6. gst' = IF ice[p].remoteSet THEN [gst EXCEPT !.idle = Append(@, AddIce(p, c))] ELSE gst
      BY <1>a, <1>11 DEF OnIce, ReceiveCandidate, Gsts
    <2>7. gst' \in Gsts
      BY <1>a, <2>6, CallbackTypes, GstTypes
    <2> QED BY <1>9, <1>11, <2>5, <2>7 DEF OnIce
  <1> QED BY <1>2, <1>3, <1>4, <1>5, <1>6, <1>7, <1>8, <1>10, <1>11 DEF HandlerStep, BrowserStep

(* The GStreamer thread. *)
LEMMA GstStepTypes ==
  ASSUME Types, NEW p \in Peers, GstStep(p) \/ SignalStep(p) \/ WebRtcStep(p)
  PROVE  Types'
  <1>a. LifeTypeOK /\ gst \in Gsts /\ PeerTypeOK
    BY DEF Types
  <1>b. /\ socket \in [Peers -> Sockets] /\ socket[p] \in Sockets
        /\ offer \in [Peers -> Offers] /\ offer[p] \in Offers
        /\ ice \in [Peers -> Ices] /\ ice[p] \in Ices
    BY <1>a DEF PeerTypeOK
  <1>c. \A result \in Calls : CallEnds(p, result) => socket' \in [Peers -> Sockets]
    BY <1>b DEF CallEnds, Sockets
  <1>d. QueuePeer(p) => socket' \in [Peers -> Sockets]
    BY <1>b, QueuedType DEF QueuePeer
  <1>e. \A kind : NextIdle(kind, p) => IdleDone \in Gsts
    BY <1>a, GstTypes DEF NextIdle, IdleDone
  <1>1. ASSUME gst' \in Gsts, socket' \in [Peers -> Sockets], branch' \in [Peers -> Branches],
               webrtc' \in [Peers -> BOOLEAN], registered' \subseteq Peers,
               offer' \in [Peers -> Offers], ice' \in [Peers -> Ices], UNCHANGED lifeVars
        PROVE  Types'
    BY <1>a, <1>1 DEF lifeVars, LifeTypeOK, PeerTypeOK, Types
  <1>2. CASE BuildBranch(p)
    <2>1. gst' \in Gsts
      BY <1>2, <1>e, GstTypes DEF BuildBranch
    <2>2. branch' \in [Peers -> Branches] /\ webrtc' \in [Peers -> BOOLEAN]
      BY <1>a, <1>2 DEF BuildBranch, PeerTypeOK, Branches
    <2> QED BY <1>a, <1>1, <1>2, <2>1, <2>2 DEF BuildBranch, PeerTypeOK
  <1>3. CASE FailToBuild(p)
    <2>1. branch' \in [Peers -> Branches]
      BY <1>a, <1>3 DEF FailToBuild, PeerTypeOK, Branches
    <2> QED BY <1>a, <1>c, <1>e, <1>1, <1>3, <2>1 DEF FailToBuild, PeerTypeOK, Calls
  <1>4. CASE FinishAdd(p)
    <2>1. gst' \in Gsts
      BY <1>a, <1>4, GstTypes DEF FinishAdd
    <2> QED BY <1>a, <1>c, <1>1, <1>4, <2>1 DEF FinishAdd, PeerTypeOK, Calls
  <1>5. CASE RemoveBranch(p)
    <2>1. branch' \in [Peers -> Branches] /\ webrtc' \in [Peers -> BOOLEAN]
      BY <1>a, <1>5 DEF RemoveBranch, DetachBranch, PeerTypeOK, Branches
    <2> QED BY <1>a, <1>c, <1>e, <1>1, <1>5, <2>1 DEF RemoveBranch, PeerTypeOK, Calls
  <1>6. CASE SetRemoteDescription(p)
    <2> DEFINE operations == IF webrtc[p] THEN Append(offer[p].operations, "set_remote")
                                          ELSE offer[p].operations
    <2>0. operations \in Seq(Operations)
      BY <1>b DEF Offers, Operations
    <2>2. offer' = [offer EXCEPT ![p] = [offer[p] EXCEPT !.operations = operations]]
      BY <1>b, <1>6 DEF SetRemoteDescription
    <2>1. offer' \in [Peers -> Offers]
      BY <1>b, <2>0, <2>2, OfferTypes
    <2> QED BY <1>a, <1>e, <1>1, <1>6, <2>1 DEF SetRemoteDescription, PeerTypeOK
  <1>7. CASE AddIceCandidate(p)
    <2> DEFINE c == Head(gst.idle).candidate
               added == [ice[p].added EXCEPT ![c] = IF webrtc[p] THEN @ + 1 ELSE @]
    <2>3. ice[p].added \in [Candidates -> Nat]
      BY <1>b DEF Ices
    <2>4. \A f \in [Candidates -> Nat] : \A d :
            /\ [f EXCEPT ![d] = f[d] + 1] \in [Candidates -> Nat]
            /\ [f EXCEPT ![d] = f[d]] \in [Candidates -> Nat]
      <3> SUFFICES ASSUME NEW f \in [Candidates -> Nat], NEW d
                   PROVE  /\ [f EXCEPT ![d] = f[d] + 1] \in [Candidates -> Nat]
                          /\ [f EXCEPT ![d] = f[d]] \in [Candidates -> Nat]
        OBVIOUS
      <3>1. \A x \in Candidates : f[x] \in Nat /\ f[x] + 1 \in Nat
        OBVIOUS
      <3> QED BY <3>1
    <2>0. added \in [Candidates -> Nat]
      <3>1. CASE webrtc[p]
        <4>1. added = [ice[p].added EXCEPT ![c] = ice[p].added[c] + 1]
          BY <3>1
        <4> QED BY <2>3, <2>4, <4>1
      <3>2. CASE ~webrtc[p]
        <4>1. added = [ice[p].added EXCEPT ![c] = ice[p].added[c]]
          BY <3>2
        <4> QED BY <2>3, <2>4, <4>1
      <3> QED BY <3>1, <3>2
    <2>2. ice' = [ice EXCEPT ![p] = [ice[p] EXCEPT !.added = added]]
      BY <1>b, <1>7 DEF AddIceCandidate
    <2>1. ice' \in [Peers -> Ices]
      BY <1>b, <2>0, <2>2, IceTypes
    <2> QED BY <1>a, <1>e, <1>1, <1>7, <2>1 DEF AddIceCandidate, PeerTypeOK
  <1>8. ASSUME NEW caller \in {"gst", "webrtcbin"},
               OnNegotiationNeeded(caller, p) \/ CreateOffer(caller, p)
        PROVE  Types'
    <2> DEFINE more == offer[p].starting \cup {caller}
               less == offer[p].starting \ {caller}
    <2>0. more \in SUBSET {"gst", "webrtcbin"} /\ less \in SUBSET {"gst", "webrtcbin"}
      BY <1>b DEF Offers
    <2>2. \/ offer' = [offer EXCEPT ![p] = [offer[p] EXCEPT !.starting = more]]
          \/ offer' = [offer EXCEPT ![p] =
                         [offer[p] EXCEPT !.starting = less, !.asked = @ + 1,
                                          !.operations = Append(@, "create_offer")]]
      BY <1>b, <1>8 DEF OnNegotiationNeeded, CreateOffer
    <2>1. offer' \in [Peers -> Offers]
      BY <1>b, <2>0, <2>2, OfferTypes
    <2> QED BY <1>a, <1>1, <1>8, <2>1 DEF OnNegotiationNeeded, CreateOffer, PeerTypeOK
  <1>9. CASE OnIceCandidate(p)
    BY <1>a, <1>d, <1>1, <1>9 DEF OnIceCandidate, PeerTypeOK
  <1>10. \A kind : NextOperation(p, kind) =>
           /\ Replied(p, <<>>) \in Offers
           /\ Replied(p, <<"set_local">>) \in Offers
    <2>1. offer[p].operations \in Seq(Operations)
      BY <1>b DEF Offers
    <2>2. \A kind : NextOperation(p, kind) => Tail(offer[p].operations) \in Seq(Operations)
      BY <2>1 DEF NextOperation
    <2>3. <<>> \in Seq(Operations) /\ <<"set_local">> \in Seq(Operations)
      BY DEF Operations
    <2>4. \A s, t \in Seq(Operations) : s \o t \in Seq(Operations)
      OBVIOUS
    <2> QED BY <1>b, <2>2, <2>3, <2>4, OfferTypes DEF Replied
  <1>11. \A o \in Offers : TellBrowser(p, o) =>
           offer' \in [Peers -> Offers] /\ socket' \in [Peers -> Sockets]
    BY <1>b, <1>d, OfferTypes DEF TellBrowser, Verdict
  <1>12. \A o \in Offers : [offer EXCEPT ![p] = o] \in [Peers -> Offers]
    BY <1>b
  <1>13. CASE OnOfferCreated(p)
    BY <1>a, <1>1, <1>10, <1>11, <1>12, <1>13 DEF OnOfferCreated, PeerTypeOK
  <1>14. CASE OnLocalDescriptionSet(p)
    <2>1. [Replied(p, <<>>) EXCEPT !.signaling = "have_local_offer"] \in Offers
      BY <1>10, <1>14, OfferTypes DEF OnLocalDescriptionSet
    <2> QED BY <1>a, <1>1, <1>10, <1>11, <1>12, <1>14, <2>1 DEF OnLocalDescriptionSet, PeerTypeOK
  <1>15. CASE OnRemoteDescriptionSet(p)
    <2>1. offer' \in [Peers -> Offers]
      <3>1. [Replied(p, <<>>) EXCEPT !.signaling = "stable"] \in Offers
        BY <1>10, <1>15, OfferTypes DEF OnRemoteDescriptionSet
      <3> QED BY <1>10, <1>12, <1>15, <3>1 DEF OnRemoteDescriptionSet
    <2>2. AcceptAnswer(p) => ice' \in [Peers -> Ices] /\ gst' \in Gsts
      <3>1. ASSUME AcceptAnswer(p) PROVE ice' \in [Peers -> Ices]
        <4>1. ice' = [ice EXCEPT ![p] = [ice[p] EXCEPT !.remoteSet = TRUE, !.pending = <<>>]]
          BY <1>b, <3>1 DEF AcceptAnswer
        <4>2. <<>> \in Seq(Candidates)
          OBVIOUS
        <4>3. [ice[p] EXCEPT !.remoteSet = TRUE, !.pending = <<>>] \in Ices
          BY <1>b, <4>2, IceTypes
        <4> QED BY <1>b, <4>1, <4>3
      <3>2. [i \in DOMAIN ice[p].pending |-> AddIce(p, ice[p].pending[i])] \in Seq(Callbacks)
        <4>1. ice[p].pending \in Seq(Candidates)
          BY <1>b DEF Ices
        <4>2. \A i \in DOMAIN ice[p].pending : ice[p].pending[i] \in Candidates
          BY <4>1
        <4>4. \A i \in DOMAIN ice[p].pending : AddIce(p, ice[p].pending[i]) \in Callbacks
          BY <4>2, CallbackTypes
        <4>3. Len(ice[p].pending) \in Nat /\ DOMAIN ice[p].pending = 1 .. Len(ice[p].pending)
          BY <4>1
        <4> QED BY <4>3, <4>4
      <3> QED BY <1>a, <3>1, <3>2, GstTypes DEF AcceptAnswer, SchedulePending
    <2> QED BY <1>a, <1>d, <1>1, <1>15, <2>1, <2>2 DEF OnRemoteDescriptionSet, PeerTypeOK
  <1> QED BY <1>2, <1>3, <1>4, <1>5, <1>6, <1>7, <1>8, <1>9, <1>13, <1>14, <1>15
          DEF GstStep, SignalStep, WebRtcStep

(* Every step keeps the types. *)
LEMMA TypeStep == Types /\ [Next]_vars => Types'
  <1> SUFFICES ASSUME Types, [Next]_vars PROVE Types'
    OBVIOUS
  <1>1. CASE Next
    BY <1>1, LifeTypes, HandlerTypes, GstStepTypes DEF Next
  <1>2. CASE UNCHANGED vars
    BY <1>2 DEF vars, lifeVars, peerVars, Types, LifeTypeOK, PeerTypeOK
  <1> QED BY <1>1, <1>2

(* Every variable keeps its type, and every queue its size, for any number *)
(* of peers and any failures (_queue_peer).                                *)
THEOREM TransportTypeCorrect == Spec => []TypeOK
  <1>1. Init => Types
    BY TypeInit, TypesOK
  <1> QED BY <1>1, TypeStep, TypesOK, PTL DEF Spec

----------------------------------------------------------------------------
(* start and stop. *)

(* Every step keeps what holds of start and stop. *)
LEMMA LifeStep == Types /\ LifeInv /\ [Next]_vars => LifeInv'
  <1> SUFFICES ASSUME Types, LifeInv, [Next]_vars PROVE LifeInv'
    OBVIOUS
  <1> USE DEF lifeVars, peerVars
  <1>a. started \in BOOLEAN /\ shutdownEvent \in BOOLEAN
    BY DEF Types, LifeTypeOK
  <1>1. CASE Start \/ CallStop \/ StopAgain \/ JoinServer \/ QuitGst
    BY <1>1 DEF Start, CallStop, StopAgain, JoinServer, QuitGst, LifeInv
  <1>2. CASE StartReturns
    BY <1>2 DEF StartReturns, StartSucceeds, StartFails, LifeInv
  <1>3. CASE SignalStop
    BY <1>a, <1>3 DEF SignalStop, SignalLoop, LoopRunning, LifeInv
  <1>4. CASE ServerStep
    BY <1>4 DEF ServerStep, CreateLoop, Listen, CloseServer, EndServer, LifeInv
  <1>5. CASE OnBusError \/ BroadcastStep
    BY <1>5 DEF OnBusError, BroadcastStep, Broadcast, TellPeer, LifeInv
  <1>6. ASSUME NEW p \in Peers, HandlerStep(p) \/ Send(p) \/ BrowserStep(p)
        PROVE  UNCHANGED lifeVars
    BY <1>6 DEF HandlerStep, AwaitAdd, PutReady, EndServing, AwaitRemove, Send, BrowserStep,
                OnConnect, HangUp, OnRequest, OnAnswer, OnIce
  <1>7. ASSUME NEW p \in Peers, GstStep(p) \/ SignalStep(p) \/ WebRtcStep(p)
        PROVE  UNCHANGED lifeVars
    BY <1>7 DEF GstStep, BuildBranch, FailToBuild, FinishAdd, RemoveBranch, SetRemoteDescription,
                AddIceCandidate, OnNegotiationNeeded, CreateOffer, SignalStep, OnIceCandidate,
                WebRtcStep, OnOfferCreated, OnLocalDescriptionSet, OnRemoteDescriptionSet
  <1>8. CASE UNCHANGED lifeVars
    BY <1>8 DEF LifeInv
  <1> QED BY <1>1, <1>2, <1>3, <1>4, <1>5, <1>6, <1>7, <1>8 DEF Next, StopStep, vars

(* A server that a stop does not reach had a start that failed (stop). *)
THEOREM StopReachesServerHolds == Spec => []StopReachesServer
  <1>1. Init => Types /\ LifeInv
    BY TypeInit, TypesOK DEF Init, LifeInv
  <1>2. Types /\ LifeInv => StopReachesServer
    BY DEF LifeInv, StopReachesServer, LoopRunning
  <1> QED BY <1>1, <1>2, TypeStep, LifeStep, PTL DEF Spec

----------------------------------------------------------------------------
(* What appending, taking and joining calls leaves. *)

(* A call that is appended is left; the others stay as they were. *)
LEMMA AppendLeft ==
  ASSUME NEW S, NEW s \in Seq(S), NEW e \in S, NEW kind, NEW p
  PROVE  /\ Left(Append(s, e), kind, p) <=> Left(s, kind, p) \/ (e.kind = kind /\ e.peer = p)
         /\ LeftOnce(s, kind, p) /\ ~(Left(s, kind, p) /\ e.kind = kind /\ e.peer = p)
              => LeftOnce(Append(s, e), kind, p)
  <1> DEFINE n == Len(s)
  <1>1. /\ n \in Nat /\ DOMAIN s = 1 .. n /\ DOMAIN Append(s, e) = 1 .. n + 1
        /\ \A i \in 1 .. n : Append(s, e)[i] = s[i]
        /\ Append(s, e)[n + 1] = e
    OBVIOUS
  <1>2. \A i \in 1 .. n + 1 : i \in 1 .. n \/ i = n + 1
    BY <1>1
  <1>3. n + 1 \in 1 .. n + 1 /\ \A i \in 1 .. n : i \in 1 .. n + 1
    BY <1>1
  <1> HIDE DEF n
  <1>4. Left(Append(s, e), kind, p) <=> Left(s, kind, p) \/ (e.kind = kind /\ e.peer = p)
    BY <1>1, <1>2, <1>3 DEF Left
  <1>5. ASSUME LeftOnce(s, kind, p), ~(Left(s, kind, p) /\ e.kind = kind /\ e.peer = p)
        PROVE  LeftOnce(Append(s, e), kind, p)
    BY <1>1, <1>2, <1>3, <1>5 DEF Left, LeftOnce
  <1> QED BY <1>4, <1>5

(* Taking the oldest call leaves the others. *)
LEMMA TailLeft ==
  ASSUME NEW S, NEW s \in Seq(S), s # <<>>, NEW kind, NEW p
  PROVE  /\ Left(Tail(s), kind, p) => Left(s, kind, p)
         /\ Left(s, kind, p) =>
              Left(Tail(s), kind, p) \/ (Head(s).kind = kind /\ Head(s).peer = p)
         /\ LeftOnce(s, kind, p) => LeftOnce(Tail(s), kind, p)
         /\ LeftOnce(s, kind, p) /\ Head(s).kind = kind /\ Head(s).peer = p
              => ~Left(Tail(s), kind, p)
         /\ Head(s).kind = kind /\ Head(s).peer = p => Left(s, kind, p)
  <1> DEFINE n == Len(s)
  <1>1. /\ n \in Nat \ {0} /\ DOMAIN s = 1 .. n /\ DOMAIN Tail(s) = 1 .. n - 1
        /\ Head(s) = s[1]
    OBVIOUS
  <1>2. \A i \in 1 .. n - 1 : Tail(s)[i] = s[i + 1]
    OBVIOUS
  <1>3. /\ \A i \in 1 .. n - 1 : i + 1 \in 1 .. n /\ i + 1 # 1
        /\ \A i, j \in 1 .. n - 1 : i + 1 = j + 1 => i = j
        /\ \A i \in 1 .. n : i = 1 \/ \E j \in 1 .. n - 1 : i = j + 1
        /\ 1 \in 1 .. n
    <2>1. \A i \in 1 .. n : i # 1 => i - 1 \in 1 .. n - 1 /\ i = (i - 1) + 1
      BY <1>1
    <2> QED BY <1>1, <2>1
  <1> HIDE DEF n
  <1>4. Left(Tail(s), kind, p) => Left(s, kind, p)
    BY <1>1, <1>2, <1>3 DEF Left
  <1>5. Left(s, kind, p) =>
          Left(Tail(s), kind, p) \/ (Head(s).kind = kind /\ Head(s).peer = p)
    <2> SUFFICES ASSUME NEW i \in 1 .. n, s[i].kind = kind, s[i].peer = p, i # 1
                 PROVE  Left(Tail(s), kind, p)
      BY <1>1 DEF Left
    <2>1. PICK j \in 1 .. n - 1 : i = j + 1
      BY <1>3
    <2>2. Tail(s)[j] = s[i]
      BY <1>2, <2>1
    <2> QED BY <1>1, <2>2 DEF Left
  <1>6. LeftOnce(s, kind, p) => LeftOnce(Tail(s), kind, p)
    BY <1>1, <1>2, <1>3 DEF LeftOnce
  <1>7. LeftOnce(s, kind, p) /\ Head(s).kind = kind /\ Head(s).peer = p
          => ~Left(Tail(s), kind, p)
    BY <1>1, <1>2, <1>3 DEF Left, LeftOnce
  <1>8. Head(s).kind = kind /\ Head(s).peer = p => Left(s, kind, p)
    BY <1>1, <1>3 DEF Left
  <1> QED BY <1>4, <1>5, <1>6, <1>7, <1>8

(* Calls of another kind do not change which of a kind are left. *)
LEMMA ConcatLeft ==
  ASSUME NEW S, NEW s \in Seq(S), NEW t \in Seq(S), NEW kind, NEW p,
         \A i \in DOMAIN t : t[i].kind # kind
  PROVE  /\ Left(s \o t, kind, p) <=> Left(s, kind, p)
         /\ LeftOnce(s, kind, p) => LeftOnce(s \o t, kind, p)
  <1> DEFINE n == Len(s)  m == Len(t)
  <1>1. /\ n \in Nat /\ m \in Nat /\ DOMAIN s = 1 .. n /\ DOMAIN t = 1 .. m
        /\ DOMAIN (s \o t) = 1 .. n + m
        /\ \A i \in 1 .. n : (s \o t)[i] = s[i]
    OBVIOUS
  <1>2. \A i \in 1 .. n + m : i \notin 1 .. n => (s \o t)[i] = t[i - n] /\ i - n \in 1 .. m
    OBVIOUS
  <1>3. \A i \in 1 .. n : i \in 1 .. n + m
    BY <1>1
  <1> HIDE DEF n, m
  <1>6. \A i \in 1 .. n + m : (s \o t)[i].kind = kind => i \in 1 .. n
    BY <1>1, <1>2
  <1>7. Left(s, kind, p) => Left(s \o t, kind, p)
    BY <1>1, <1>3 DEF Left
  <1>8. Left(s \o t, kind, p) => Left(s, kind, p)
    BY <1>1, <1>6 DEF Left
  <1>4. Left(s \o t, kind, p) <=> Left(s, kind, p)
    BY <1>7, <1>8
  <1>5. LeftOnce(s, kind, p) => LeftOnce(s \o t, kind, p)
    BY <1>1, <1>2, <1>3 DEF LeftOnce
  <1> QED BY <1>4, <1>5

----------------------------------------------------------------------------
(* The life of a peer. *)

(* A step that leaves these alone leaves the peer where it was. *)
LEMMA PeerKept ==
  ASSUME Types, NEW q \in Peers, PeerInv(q),
         socket'[q].handler = socket[q].handler, socket'[q].added = socket[q].added,
         socket'[q].call = socket[q].call,
         branch'[q] = branch[q], webrtc'[q] = webrtc[q], q \in registered' <=> q \in registered,
         gst'.building = q <=> gst.building = q,
         LeftOnce(gst.idle, "add", q) => LeftOnce(gst'.idle, "add", q),
         Left(gst'.idle, "add", q) <=> Left(gst.idle, "add", q),
         Left(gst'.idle, "remove", q) <=> Left(gst.idle, "remove", q)
  PROVE  PeerInv(q)'
  BY DEF PeerInv, HandlerAt, Adding, Removing

(* A new call, and the end of the oldest. *)
LEMMA ScheduledLeft ==
  ASSUME Types, NEW p \in Peers, NEW kind \in {"add", "remove", "set_remote"},
         gst' = Scheduled(kind, p), NEW q \in Peers
  PROVE  /\ gst'.building = gst.building
         /\ \A k : Left(gst'.idle, k, q) <=> Left(gst.idle, k, q) \/ (k = kind /\ q = p)
         /\ LeftOnce(gst.idle, "add", q) /\ (kind = "add" /\ q = p => ~Left(gst.idle, "add", q))
              => LeftOnce(gst'.idle, "add", q)
  <1> DEFINE e == [kind |-> kind, peer |-> p]
  <1>1. gst \in Gsts /\ gst.idle \in Seq(Callbacks) /\ e \in Callbacks
    BY CallbackTypes DEF Types, Gsts
  <1>2. gst'.idle = Append(gst.idle, e) /\ gst'.building = gst.building
    BY <1>1 DEF Scheduled, Gsts
  <1>3. e.kind = kind /\ e.peer = p
    OBVIOUS
  <1> HIDE DEF e
  <1> QED BY <1>1, <1>2, <1>3, AppendLeft

(* A call that was made is no longer left (_gst_call_sync). *)
LEMMA DoneLeft ==
  ASSUME Types, NEW p \in Peers, NEW kind, NextIdle(kind, p),
         gst'.idle = Tail(gst.idle), NEW q \in Peers
  PROVE  /\ Left(gst.idle, kind, p)
         /\ \A k : k # kind \/ q # p => (Left(gst'.idle, k, q) <=> Left(gst.idle, k, q))
         /\ LeftOnce(gst.idle, "add", q) => LeftOnce(gst'.idle, "add", q)
         /\ kind = "add" /\ LeftOnce(gst.idle, "add", p) => ~Left(gst'.idle, "add", p)
  <1>1. /\ gst.idle \in Seq(Callbacks) /\ gst.idle # <<>>
        /\ Head(gst.idle).kind = kind /\ Head(gst.idle).peer = p
    BY DEF Types, Gsts, NextIdle
  <1> QED BY <1>1, TailLeft

(* Only these change what PeerInv tells. *)
LEMMA OnConnectPeers ==
  ASSUME Types, PeersInv, NEW p \in Peers, OnConnect(p)
  PROVE  PeersInv'
  <1> USE DEF lifeVars
  <1>1. socket \in [Peers -> Sockets] /\ branch' = branch /\ webrtc' = webrtc
        /\ registered' = registered
    BY DEF Types, PeerTypeOK, OnConnect
  <1>2. \A q \in Peers \ {p} : socket'[q] = socket[q]
    BY <1>1 DEF OnConnect
  <1>3. \/ gst' = gst /\ socket'[p].handler = "ready" /\ socket'[p].call = socket[p].call
        \/ /\ gst' = Scheduled("add", p) /\ socket'[p].handler = "adding"
           /\ socket'[p].call = "pending"
    <2> DEFINE new == [socket[p] EXCEPT !.web = "open", !.sender = TRUE]
    <2>1. \/ gst' = gst /\ socket'[p] = [new EXCEPT !.handler = "ready"]
          \/ /\ gst' = Scheduled("add", p)
             /\ socket'[p] = [new EXCEPT !.handler = "adding", !.call = "pending"]
      BY <1>1 DEF OnConnect
    <2>2. /\ [new EXCEPT !.handler = "ready"].handler = "ready"
          /\ [new EXCEPT !.handler = "ready"].call = socket[p].call
          /\ [new EXCEPT !.handler = "adding", !.call = "pending"].handler = "adding"
          /\ [new EXCEPT !.handler = "adding", !.call = "pending"].call = "pending"
      BY <1>1 DEF Sockets
    <2> QED BY <2>1, <2>2
  <1>4. socket'[p].added = socket[p].added /\ socket[p].handler = "none"
    BY <1>1 DEF OnConnect, HandlerAt, Sockets
  <1>5. ASSUME NEW q \in Peers \ {p} PROVE PeerInv(q)'
    <2>1. PeerInv(q)
      BY DEF PeersInv
    <2> QED BY <1>1, <1>2, <1>3, <2>1, PeerKept, ScheduledLeft
  <1>6. PeerInv(p)'
    <2>1. PeerInv(p)
      BY DEF PeersInv
    <2>2. CASE gst' = gst /\ socket'[p].handler = "ready" /\ socket'[p].call = socket[p].call
      BY <1>1, <1>4, <2>1, <2>2 DEF PeerInv, HandlerAt, Adding, Removing
    <2>3. CASE gst' = Scheduled("add", p) /\ socket'[p].handler = "adding"
               /\ socket'[p].call = "pending"
      <3>1. /\ gst'.building = gst.building /\ Left(gst'.idle, "add", p)
            /\ Left(gst'.idle, "remove", p) <=> Left(gst.idle, "remove", p)
            /\ LeftOnce(gst'.idle, "add", p)
        BY <1>4, <2>1, <2>3, ScheduledLeft DEF PeerInv, HandlerAt, Adding
      <3> QED BY <1>1, <1>4, <2>1, <2>3, <3>1 DEF PeerInv, HandlerAt, Adding, Removing
    <2> QED BY <1>3, <2>2, <2>3
  <1> QED BY <1>5, <1>6 DEF PeersInv

(* The wait for a call ends (_handle_websocket). *)
LEMMA AwaitPeers ==
  ASSUME Types, PeersInv, NEW p \in Peers, AwaitAdd(p) \/ AwaitRemove(p)
  PROVE  PeersInv'
  <1> USE DEF lifeVars
  <1>1. /\ socket \in [Peers -> Sockets] /\ branch' = branch /\ webrtc' = webrtc
        /\ registered' = registered /\ gst' = gst
    BY DEF Types, PeerTypeOK, AwaitAdd, AwaitRemove
  <1>2. \A q \in Peers \ {p} : socket'[q] = socket[q]
    BY <1>1 DEF AwaitAdd, AddReturns, AwaitRemove
  <1>3. ASSUME NEW q \in Peers \ {p} PROVE PeerInv(q)'
    <2>1. PeerInv(q)
      BY DEF PeersInv
    <2> QED BY <1>1, <1>2, <2>1, PeerKept
  <1>4. PeerInv(p)
    BY DEF PeersInv
  <1>5. \A c \in Calls :
          /\ [Ended(socket[p]) EXCEPT !.call = c].handler = "closed"
          /\ [Ended(socket[p]) EXCEPT !.call = c].call = c
    BY <1>1, EndedType DEF Sockets
  <1>6. CASE AwaitAdd(p) /\ socket[p].call = "done"
    <2>1. socket[p].handler = "adding" /\ socket'[p].handler = "ready"
          /\ socket'[p].added /\ socket'[p].call = "none"
      BY <1>1, <1>6 DEF AwaitAdd, AddReturns, HandlerAt, Sockets
    <2> QED BY <1>1, <1>3, <1>4, <1>6, <2>1 DEF PeersInv, PeerInv, HandlerAt, Adding, Removing
  <1>7. CASE AwaitAdd(p) /\ socket[p].call # "done"
    <2>1. socket[p].handler = "adding" /\ socket'[p].handler = "closed"
          /\ socket'[p].call = IF socket[p].call = "failed" THEN "none" ELSE "given_up"
      BY <1>1, <1>5, <1>7 DEF AwaitAdd, AddReturns, HandlerAt, Calls
    <2> QED BY <1>1, <1>3, <1>4, <1>7, <2>1 DEF PeersInv, PeerInv, HandlerAt, Adding, Removing
  <1>8. CASE AwaitRemove(p)
    <2>1. socket[p].handler = "removing" /\ socket'[p].handler = "closed"
          /\ socket'[p].call = "none"
      BY <1>1, <1>5, <1>8 DEF AwaitRemove, HandlerAt, Calls
    <2> QED BY <1>1, <1>3, <1>4, <1>8, <2>1 DEF PeersInv, PeerInv, HandlerAt, Adding, Removing
  <1> QED BY <1>6, <1>7, <1>8

(* A handler ends, or asks for its peer's removal (_handle_websocket). *)
LEMMA EndServingPeers ==
  ASSUME Types, PeersInv, NEW p \in Peers, EndServing(p)
  PROVE  PeersInv'
  <1> USE DEF lifeVars
  <1>1. /\ socket \in [Peers -> Sockets] /\ branch' = branch /\ webrtc' = webrtc
        /\ socket[p].handler = "serving"
    BY DEF Types, PeerTypeOK, EndServing, HandlerAt
  <1>2. PeerInv(p)
    BY DEF PeersInv
  <1>3. CASE ~socket[p].added
    <2>1. EndAtOnce(p)
      BY <1>3 DEF EndServing
    <2>2. /\ gst' = gst /\ registered' = registered
          /\ \A q \in Peers \ {p} : socket'[q] = socket[q]
          /\ socket'[p].handler = "closed" /\ socket'[p].call = socket[p].call
      BY <1>1, <2>1, EndedType DEF EndAtOnce
    <2>3. ASSUME NEW q \in Peers \ {p} PROVE PeerInv(q)'
      <3>1. PeerInv(q)
        BY DEF PeersInv
      <3> QED BY <1>1, <2>2, <3>1, PeerKept
    <2>4. PeerInv(p)'
      BY <1>1, <1>2, <1>3, <2>2 DEF PeerInv, HandlerAt, Adding, Removing
    <2> QED BY <2>3, <2>4 DEF PeersInv
  <1>4. CASE socket[p].added
    <2>1. RemovePeer(p)
      BY <1>4 DEF EndServing
    <2>2. /\ gst' = Scheduled("remove", p) /\ registered' = registered \ {p}
          /\ \A q \in Peers \ {p} : socket'[q] = socket[q]
          /\ socket'[p].handler = "removing" /\ socket'[p].call = "pending"
      BY <1>1, <2>1 DEF RemovePeer, Unregister, Sockets
    <2>3. ASSUME NEW q \in Peers
          PROVE  /\ gst'.building = gst.building
                 /\ \A k : Left(gst'.idle, k, q)
                            <=> Left(gst.idle, k, q) \/ (k = "remove" /\ q = p)
                 /\ LeftOnce(gst.idle, "add", q) => LeftOnce(gst'.idle, "add", q)
      BY <2>2, ScheduledLeft
    <2>4. ASSUME NEW q \in Peers \ {p} PROVE PeerInv(q)'
      <3>1. PeerInv(q)
        BY DEF PeersInv
      <3> QED BY <1>1, <2>2, <2>3, <3>1, PeerKept
    <2>5. PeerInv(p)'
      BY <1>1, <1>2, <2>2, <2>3 DEF PeerInv, HandlerAt, Adding, Removing
    <2> QED BY <2>4, <2>5 DEF PeersInv
  <1> QED BY <1>3, <1>4

(* A branch is built, or cannot be (_add_peer_sync). *)
LEMMA BuildPeers ==
  ASSUME Types, PeersInv, NEW p \in Peers, BuildBranch(p) \/ FailToBuild(p)
  PROVE  PeersInv'
  <1> USE DEF lifeVars
  <1>1. /\ socket \in [Peers -> Sockets] /\ branch \in [Peers -> Branches]
        /\ webrtc \in [Peers -> BOOLEAN] /\ gst \in Gsts /\ p # NoPeer
    BY TransportAssumption DEF Types, PeerTypeOK
  <1>2. /\ NextIdle("add", p) /\ gst'.idle = Tail(gst.idle) /\ gst.building = NoPeer
        /\ gst'.building = IF BuildBranch(p) THEN p ELSE NoPeer
    BY <1>1 DEF BuildBranch, FailToBuild, IdleDone, NextIdle, Gsts
  <1>3. ASSUME NEW q \in Peers \ {p} PROVE PeerInv(q)'
    <2>1. PeerInv(q) /\ q # NoPeer
      BY TransportAssumption DEF PeersInv
    <2>2. socket'[q] = socket[q] /\ branch'[q] = branch[q] /\ webrtc'[q] = webrtc[q]
          /\ (q \in registered' <=> q \in registered)
      BY <1>1 DEF BuildBranch, FailToBuild, CallEnds
    <2>3. /\ \A k : Left(gst'.idle, k, q) <=> Left(gst.idle, k, q)
          /\ LeftOnce(gst.idle, "add", q) => LeftOnce(gst'.idle, "add", q)
      BY <1>2, DoneLeft
    <2> QED BY <1>2, <2>1, <2>2, <2>3, PeerKept
  <1>4. PeerInv(p) /\ Left(gst.idle, "add", p)
    BY <1>2, DoneLeft DEF PeersInv
  <1>5. /\ LeftOnce(gst'.idle, "add", p) /\ ~Left(gst'.idle, "add", p)
        /\ Left(gst'.idle, "remove", p) <=> Left(gst.idle, "remove", p)
    BY <1>2, <1>4, DoneLeft DEF PeerInv
  <1>6. socket[p].handler \in Handlers /\ socket[p].call \in Calls
    BY <1>1 DEF Sockets
  <1>7. /\ socket[p].handler \in {"adding", "closed"} /\ ~Removing(p) /\ branch[p] = "none"
        /\ p \notin registered
        /\ socket[p].handler = "adding" => socket[p].call = "pending" /\ ~socket[p].added
        /\ socket[p].handler = "closed" => socket[p].call = "given_up"
    BY <1>4, <1>6 DEF PeerInv, HandlerAt, Adding, Removing, Handlers
  <1>8. CASE BuildBranch(p)
    <2>1. socket' = socket /\ branch'[p] = "linked" /\ webrtc'[p] /\ gst'.building = p
      BY <1>1, <1>2, <1>8 DEF BuildBranch
    <2>2. PeerInv(p)'
      BY <1>5, <1>7, <2>1 DEF PeerInv, HandlerAt, Adding, Removing
    <2> QED BY <1>3, <2>2 DEF PeersInv
  <1>9. CASE FailToBuild(p)
    <2>1. branch'[p] = "stray" /\ webrtc' = webrtc /\ gst'.building = NoPeer
          /\ registered' = registered
      BY <1>1, <1>9 DEF FailToBuild, IdleDone, NextIdle, Gsts
    <2>2. /\ socket'[p].handler = socket[p].handler /\ socket'[p].added = socket[p].added
          /\ socket'[p].call = IF socket[p].call = "pending" THEN "failed" ELSE socket[p].call
      BY <1>1, <1>9 DEF FailToBuild, CallEnds, Sockets
    <2>3. PeerInv(p)'
      BY <1>1, <1>5, <1>7, <2>1, <2>2 DEF PeerInv, HandlerAt, Adding, Removing
    <2> QED BY <1>3, <2>3 DEF PeersInv
  <1> QED BY <1>8, <1>9

(* The call of add_peer ends (_add_peer_sync). *)
LEMMA FinishAddPeers ==
  ASSUME Types, PeersInv, NEW p \in Peers, FinishAdd(p)
  PROVE  PeersInv'
  <1> USE DEF lifeVars
  <1>1. /\ socket \in [Peers -> Sockets] /\ gst \in Gsts /\ p # NoPeer
        /\ branch' = branch /\ webrtc' = webrtc /\ registered' = registered
    BY TransportAssumption DEF Types, PeerTypeOK, FinishAdd
  <1>2. gst.building = p /\ gst'.building = NoPeer /\ gst'.idle = gst.idle
    BY <1>1 DEF FinishAdd, Gsts
  <1>3. ASSUME NEW q \in Peers \ {p} PROVE PeerInv(q)'
    <2>1. PeerInv(q) /\ q # NoPeer /\ socket'[q] = socket[q]
      BY <1>1, TransportAssumption DEF PeersInv, FinishAdd, CallEnds
    <2> QED BY <1>1, <1>2, <2>1, PeerKept
  <1>4. /\ socket'[p].handler = socket[p].handler /\ socket'[p].added = socket[p].added
        /\ socket'[p].call = IF socket[p].call = "pending" THEN "done" ELSE socket[p].call
    BY <1>1 DEF FinishAdd, CallEnds, Sockets
  <1>5. PeerInv(p) /\ socket[p].handler \in Handlers
    BY <1>1 DEF PeersInv, Sockets
  <1>6. PeerInv(p)'
    BY <1>1, <1>2, <1>4, <1>5 DEF PeerInv, HandlerAt, Adding, Removing, Handlers
  <1> QED BY <1>3, <1>6 DEF PeersInv

(* A branch leaves the pipeline (_remove_peer_sync). *)
LEMMA RemoveBranchPeers ==
  ASSUME Types, PeersInv, NEW p \in Peers, RemoveBranch(p)
  PROVE  PeersInv'
  <1> USE DEF lifeVars
  <1>1. /\ socket \in [Peers -> Sockets] /\ branch \in [Peers -> Branches] /\ gst \in Gsts
        /\ webrtc \in [Peers -> BOOLEAN] /\ registered' = registered
    BY DEF Types, PeerTypeOK, RemoveBranch
  <1>2. /\ NextIdle("remove", p) /\ gst'.idle = Tail(gst.idle) /\ gst'.building = gst.building
    BY <1>1 DEF RemoveBranch, IdleDone, Gsts
  <1>3. ASSUME NEW q \in Peers \ {p} PROVE PeerInv(q)'
    <2>1. PeerInv(q)
      BY DEF PeersInv
    <2>2. socket'[q] = socket[q] /\ branch'[q] = branch[q] /\ webrtc'[q] = webrtc[q]
      BY <1>1 DEF RemoveBranch, DetachBranch, CallEnds
    <2>3. /\ \A k : Left(gst'.idle, k, q) <=> Left(gst.idle, k, q)
          /\ LeftOnce(gst.idle, "add", q) => LeftOnce(gst'.idle, "add", q)
      BY <1>2, DoneLeft
    <2> QED BY <1>1, <1>2, <2>1, <2>2, <2>3, PeerKept
  <1>4. PeerInv(p) /\ Removing(p) /\ socket[p].handler \in Handlers
    BY <1>1, <1>2, DoneLeft DEF PeersInv, Removing, Sockets
  <1>5. /\ LeftOnce(gst'.idle, "add", p)
        /\ Left(gst'.idle, "add", p) <=> Left(gst.idle, "add", p)
    BY <1>2, <1>4, DoneLeft DEF PeerInv
  <1>6. /\ socket'[p].handler = socket[p].handler /\ socket'[p].added = socket[p].added
        /\ socket'[p].call = IF socket[p].call = "pending" THEN "done" ELSE socket[p].call
        /\ branch'[p] \in {"stopped", "orphaned"}
    BY <1>1 DEF RemoveBranch, DetachBranch, CallEnds, Sockets
  <1>7. /\ socket[p].handler \in {"removing", "closed"} /\ ~Adding(p) /\ gst.building # p
        /\ p \notin registered
        /\ socket[p].handler = "closed" => socket[p].call = "none"
        /\ socket[p].handler = "removing" => socket[p].call \in {"pending", "done"}
    BY <1>4 DEF PeerInv, HandlerAt, Handlers
  <1>8. PeerInv(p)'
    BY <1>1, <1>2, <1>5, <1>6, <1>7 DEF PeerInv, HandlerAt, Adding, Removing
  <1> QED BY <1>3, <1>8 DEF PeersInv

(* Every other step leaves the peers where they were, or one of them past  *)
(* its first message.                                                      *)
SocketKept(q) ==
  /\ socket'[q].added = socket[q].added /\ socket'[q].call = socket[q].call
  /\ socket'[q].handler = socket[q].handler

(* What moves no handler and no call to add or remove keeps PeerInv. *)
LEMMA CallsKept ==
  ASSUME Types, PeersInv, UNCHANGED <<registered, branch, webrtc>>,
         gst'.building = gst.building, \A q \in Peers : SocketKept(q),
         \A q \in Peers, k \in {"add", "remove"} :
           /\ Left(gst'.idle, k, q) <=> Left(gst.idle, k, q)
           /\ LeftOnce(gst.idle, k, q) => LeftOnce(gst'.idle, k, q)
  PROVE  PeersInv'
  <1> SUFFICES ASSUME NEW q \in Peers PROVE PeerInv(q)'
    BY DEF PeersInv
  <1>1. PeerInv(q) /\ SocketKept(q)
    BY DEF PeersInv
  <1> QED BY <1>1, PeerKept DEF SocketKept

(* So does what leaves the idle callbacks alone. *)
LEMMA SocketsKept ==
  ASSUME Types, PeersInv, UNCHANGED <<registered, branch, webrtc>>,
         gst'.building = gst.building, gst'.idle = gst.idle, \A q \in Peers : SocketKept(q)
  PROVE  PeersInv'
  BY CallsKept

(* And what leaves the sockets alone. *)
LEMMA SameSockets == UNCHANGED socket => \A q \in Peers : SocketKept(q)
  BY DEF SocketKept

(* start, stop and the server keep it. *)
LEMMA LifePeers ==
  ASSUME Types, PeersInv, Start \/ StartReturns \/ CallStop \/ StopStep \/ ServerStep
                          \/ OnBusError \/ BroadcastStep
  PROVE  PeersInv'
  <1> USE DEF lifeVars, peerVars
  <1>1. socket \in [Peers -> Sockets] /\ gst \in Gsts
    BY DEF Types, PeerTypeOK
  <1>2. CASE Start \/ StartReturns \/ CallStop \/ StopStep
    <2>1. gst'.building = gst.building /\ gst'.idle = gst.idle
      BY <1>1, <1>2 DEF Start, StartReturns, CallStop, StopStep, StopAgain, SignalStop, JoinServer,
                        QuitGst, Gsts
    <2>2. UNCHANGED <<registered, branch, webrtc, socket>>
      BY <1>2 DEF Start, StartReturns, CallStop, StopStep, StopAgain, SignalStop, JoinServer, QuitGst
    <2> QED BY <2>1, <2>2, SameSockets, SocketsKept
  <1>3. CASE CreateLoop \/ Listen \/ EndServer
    <2>1. UNCHANGED <<gst, registered, branch, webrtc, socket>>
      BY <1>3 DEF CreateLoop, Listen, EndServer
    <2> QED BY <2>1, SameSockets, SocketsKept
  <1>4. CASE CloseServer
    <2>1. \A q \in Peers : SocketKept(q)
      BY <1>1, <1>4 DEF CloseServer, SocketKept, Sockets
    <2> QED BY <1>4, <2>1, SocketsKept DEF CloseServer
  <1>5. CASE OnBusError \/ BroadcastStep
    <2>1. \A q \in Peers : SocketKept(q)
      BY <1>1, <1>5, QueuedType
         DEF OnBusError, BroadcastStep, Broadcast, TellPeer, QueuePeer, SocketKept
    <2> QED BY <1>5, <2>1, SocketsKept DEF OnBusError, BroadcastStep, Broadcast, TellPeer
  <1> QED BY <1>2, <1>3, <1>4, <1>5 DEF ServerStep

(* The handlers and browsers keep it. *)
LEMMA HandlerPeers ==
  ASSUME Types, PeersInv, NEW p \in Peers, HandlerStep(p) \/ Send(p) \/ BrowserStep(p)
  PROVE  PeersInv'
  <1> USE DEF lifeVars
  <1>1. socket \in [Peers -> Sockets] /\ gst \in Gsts
    BY DEF Types, PeerTypeOK
  <1>2. CASE PutReady(p)
    <2>1. /\ socket[p].handler = "ready" /\ socket'[p].handler = "serving"
          /\ socket'[p].added = socket[p].added /\ socket'[p].call = socket[p].call
      BY <1>1, <1>2 DEF PutReady, HandlerAt, Sockets
    <2>2. UNCHANGED <<gst, registered, branch, webrtc>>
      BY <1>2 DEF PutReady
    <2>3. ASSUME NEW q \in Peers \ {p} PROVE PeerInv(q)'
      <3>1. PeerInv(q) /\ socket'[q] = socket[q]
        BY <1>1, <1>2 DEF PutReady, PeersInv
      <3> QED BY <2>2, <3>1, PeerKept
    <2>4. PeerInv(p)
      BY DEF PeersInv
    <2>5. PeerInv(p)'
      BY <2>1, <2>2, <2>4 DEF PeerInv, HandlerAt, Adding, Removing
    <2> QED BY <2>3, <2>5 DEF PeersInv
  <1>3. CASE Send(p) \/ HangUp(p)
    <2>1. \A q \in Peers : SocketKept(q)
      BY <1>1, <1>3 DEF Send, HangUp, SocketKept, Sockets
    <2> QED BY <1>3, <2>1, SocketsKept DEF Send, HangUp
  <1>4. CASE OnRequest(p)
    <2>1. \A q \in Peers : SocketKept(q)
      BY <1>1, <1>4, QueuedType DEF OnRequest, QueuePeer, SocketKept
    <2> QED BY <1>4, <2>1, SocketsKept DEF OnRequest
  <1>5. CASE OnAnswer(p)
    <2>1. gst' = Scheduled("set_remote", p) /\ UNCHANGED <<registered, branch, webrtc, socket>>
      BY <1>5 DEF OnAnswer
    <2>2. ASSUME NEW q \in Peers PROVE PeerInv(q)'
      <3>1. PeerInv(q)
        BY DEF PeersInv
      <3> QED BY <2>1, <3>1, PeerKept, ScheduledLeft
    <2> QED BY <2>2 DEF PeersInv
  <1>6. ASSUME NEW c \in Candidates, OnIce(p, c)
        PROVE  PeersInv'
    <2>1. gst' = gst \/ gst' = [gst EXCEPT !.idle = Append(@, AddIce(p, c))]
      BY <1>1, <1>6 DEF OnIce, ReceiveCandidate, Gsts
    <2>2. /\ gst.idle \in Seq(Callbacks) /\ AddIce(p, c) \in Callbacks
          /\ AddIce(p, c).kind = "add_ice"
      BY <1>1, CallbackTypes DEF Gsts, AddIce
    <2>3. /\ gst'.building = gst.building
          /\ gst'.idle = gst.idle \/ gst'.idle = Append(gst.idle, AddIce(p, c))
      BY <1>1, <2>1 DEF Gsts
    <2>4. ASSUME NEW q \in Peers, NEW k \in {"add", "remove"}
          PROVE  /\ Left(gst'.idle, k, q) <=> Left(gst.idle, k, q)
                 /\ LeftOnce(gst.idle, k, q) => LeftOnce(gst'.idle, k, q)
      <3>1. AddIce(p, c).kind # k
        BY <2>2
      <3>2. CASE gst'.idle = gst.idle
        BY <3>2
      <3>3. CASE gst'.idle = Append(gst.idle, AddIce(p, c))
        BY <2>2, <3>1, <3>3, AppendLeft
      <3> QED BY <2>3, <3>2, <3>3
    <2>5. UNCHANGED <<registered, branch, webrtc, socket>>
      BY <1>6 DEF OnIce
    <2> QED BY <2>3, <2>4, <2>5, SameSockets, CallsKept
  <1> QED BY <1>2, <1>3, <1>4, <1>5, <1>6, AwaitPeers, EndServingPeers, OnConnectPeers
          DEF HandlerStep, BrowserStep

(* The GStreamer thread and the webrtcbins keep it. *)
LEMMA GstPeers ==
  ASSUME Types, PeersInv, NEW p \in Peers, GstStep(p) \/ SignalStep(p) \/ WebRtcStep(p)
  PROVE  PeersInv'
  <1> USE DEF lifeVars
  <1>1. socket \in [Peers -> Sockets] /\ gst \in Gsts
    BY DEF Types, PeerTypeOK
  <1>2. ASSUME NEW kind \in {"set_remote", "add_ice"}, NextIdle(kind, p), gst' = IdleDone,
               UNCHANGED <<registered, branch, webrtc, socket>>
        PROVE  PeersInv'
    <2>1. gst'.idle = Tail(gst.idle) /\ gst'.building = gst.building
      BY <1>1, <1>2 DEF IdleDone, Gsts
    <2>2. ASSUME NEW q \in Peers PROVE PeerInv(q)'
      <3>1. PeerInv(q)
        BY DEF PeersInv
      <3>2. /\ Left(gst'.idle, "add", q) <=> Left(gst.idle, "add", q)
            /\ Left(gst'.idle, "remove", q) <=> Left(gst.idle, "remove", q)
            /\ LeftOnce(gst.idle, "add", q) => LeftOnce(gst'.idle, "add", q)
        BY <1>2, <2>1, DoneLeft
      <3> QED BY <1>2, <2>1, <3>1, <3>2, PeerKept
    <2> QED BY <2>2 DEF PeersInv
  <1>3. CASE SetRemoteDescription(p) \/ AddIceCandidate(p)
    BY <1>2, <1>3 DEF SetRemoteDescription, AddIceCandidate
  <1>4. ASSUME NEW caller \in {"gst", "webrtcbin"},
               OnNegotiationNeeded(caller, p) \/ CreateOffer(caller, p)
        PROVE  PeersInv'
    BY <1>4, SameSockets, SocketsKept DEF OnNegotiationNeeded, CreateOffer
  <1>5. (UNCHANGED socket \/ QueuePeer(p)) => \A q \in Peers : SocketKept(q)
    BY <1>1, QueuedType DEF QueuePeer, SocketKept
  <1>6. CASE OnIceCandidate(p)
    BY <1>5, <1>6, SocketsKept DEF OnIceCandidate
  <1>7. CASE OnOfferCreated(p) \/ OnLocalDescriptionSet(p)
    <2>1. /\ UNCHANGED <<gst, registered, branch, webrtc>>
          /\ UNCHANGED socket \/ QueuePeer(p)
      BY <1>7 DEF OnOfferCreated, OnLocalDescriptionSet, TellBrowser
    <2> QED BY <1>5, <2>1, SocketsKept
  <1>8. CASE OnRemoteDescriptionSet(p)
    <2>1. /\ UNCHANGED <<registered, branch, webrtc>>
          /\ UNCHANGED socket \/ QueuePeer(p)
          /\ gst' = gst \/ SchedulePending(p)
      BY <1>8 DEF OnRemoteDescriptionSet, AcceptAnswer
    <2>4. \A q \in Peers : SocketKept(q)
      BY <1>5, <2>1
    <2>2. CASE gst' = gst
      BY <2>1, <2>2, <2>4, SocketsKept
    <2>3. CASE SchedulePending(p)
      <3> DEFINE more == [i \in DOMAIN ice[p].pending |-> AddIce(p, ice[p].pending[i])]
      <3>1. ice[p].pending \in Seq(Candidates)
        BY DEF Types, PeerTypeOK, Ices
      <3>2. Len(ice[p].pending) \in Nat /\ DOMAIN ice[p].pending = 1 .. Len(ice[p].pending)
        BY <3>1
      <3>3. \A i \in DOMAIN ice[p].pending : ice[p].pending[i] \in Candidates
        BY <3>1
      <3>4. \A i \in DOMAIN ice[p].pending : AddIce(p, ice[p].pending[i]) \in Callbacks
        BY <3>3, CallbackTypes
      <3>5. more \in Seq(Callbacks)
        BY <3>2, <3>4
      <3>6. \A k \in {"add", "remove"}, i \in DOMAIN more : more[i].kind # k
        BY DEF AddIce
      <3>7. gst.idle \in Seq(Callbacks) /\ gst'.building = gst.building
            /\ gst'.idle = gst.idle \o more
        BY <1>1, <2>3 DEF SchedulePending, Gsts
      <3> HIDE DEF more
      <3>8. ASSUME NEW q \in Peers, NEW k \in {"add", "remove"}
            PROVE  /\ Left(gst'.idle, k, q) <=> Left(gst.idle, k, q)
                   /\ LeftOnce(gst.idle, k, q) => LeftOnce(gst'.idle, k, q)
        BY <3>5, <3>6, <3>7, ConcatLeft
      <3> QED BY <2>1, <2>4, <3>7, <3>8, CallsKept
    <2> QED BY <2>1, <2>2, <2>3
  <1> QED BY <1>3, <1>4, <1>6, <1>7, <1>8, BuildPeers, FinishAddPeers, RemoveBranchPeers
          DEF GstStep, SignalStep, WebRtcStep

(* It holds at first. *)
LEMMA PeersInit == Init => PeersInv
  <1> SUFFICES ASSUME Init, NEW p \in Peers PROVE PeerInv(p)
    BY DEF PeersInv
  <1>1. /\ socket[p].handler = "none" /\ ~socket[p].added /\ socket[p].call = "none"
        /\ branch[p] = "none" /\ ~webrtc[p] /\ registered = {}
        /\ gst.building = NoPeer /\ gst.idle = <<>>
    BY DEF Init
  <1>2. ~Adding(p) /\ ~Removing(p) /\ LeftOnce(gst.idle, "add", p) /\ p # NoPeer
    BY <1>1, TransportAssumption DEF Adding, Removing, Left, LeftOnce
  <1> QED BY <1>1, <1>2 DEF PeerInv, HandlerAt

(* Every step keeps it. *)
LEMMA PeersStep == Types /\ PeersInv /\ [Next]_vars => PeersInv'
  <1> SUFFICES ASSUME Types, PeersInv, [Next]_vars PROVE PeersInv'
    OBVIOUS
  <1>1. CASE Next
    BY <1>1, LifePeers, HandlerPeers, GstPeers DEF Next
  <1>2. CASE UNCHANGED vars
    BY <1>2, SameSockets, SocketsKept DEF vars, peerVars
  <1> QED BY <1>1, <1>2

(* So it always holds. *)
LEMMA PeersInvariant == Spec => [](Types /\ PeersInv)
  <1>1. Init => Types
    BY TypeInit, TypesOK
  <1> QED BY <1>1, PeersInit, TypeStep, PeersStep, PTL DEF Spec

(* Who is still to be told in a broadcast is registered, or is leaving or  *)
(* has left.                                                               *)
Leaving(p) == HandlerAt(p, "removing") \/ HandlerAt(p, "closed")
TellingInv == \A t \in Tellers : \A p \in telling[t] \ registered : Leaving(p)

(* A step keeps that if it unregisters and tells nobody who is not leaving *)
(* and nobody who leaves comes back.                                       *)
LEMMA TellingKept ==
  ASSUME Types, TellingInv,
         \A t \in Tellers : telling'[t] \subseteq telling[t] \/ telling'[t] \subseteq registered',
         \A p \in Peers : /\ p \in registered /\ p \notin registered' => Leaving(p)'
                          /\ Leaving(p) => Leaving(p)'
  PROVE  TellingInv'
  <1> SUFFICES ASSUME NEW t \in Tellers, NEW p \in telling'[t], p \notin registered'
               PROVE  Leaving(p)'
    BY DEF TellingInv
  <1>1. p \in telling[t]
    OBVIOUS
  <1>2. p \in Peers
    BY <1>1 DEF Types, LifeTypeOK
  <1>3. CASE p \in registered
    BY <1>2, <1>3
  <1>4. CASE p \notin registered
    BY <1>1, <1>2, <1>4 DEF TellingInv
  <1> QED BY <1>3, <1>4

(* Every step does. *)
LEMMA TellingStep == Types /\ TellingInv /\ [Next]_vars => TellingInv'
  <1> SUFFICES ASSUME Types, TellingInv, [Next]_vars PROVE TellingInv'
    OBVIOUS
  <1> USE DEF lifeVars, peerVars
  <1>a. /\ socket \in [Peers -> Sockets] /\ registered \subseteq Peers
        /\ telling \in [Tellers -> SUBSET Peers]
    BY DEF Types, LifeTypeOK, PeerTypeOK
  <1>b. ASSUME UNCHANGED telling, registered \subseteq registered', \A q \in Peers : SocketKept(q)
        PROVE  TellingInv'
    BY <1>b, TellingKept DEF SocketKept, Leaving, HandlerAt
  <1>c. \A p \in Peers : QueuePeer(p) => \A q \in Peers : SocketKept(q)
    BY <1>a, QueuedType DEF QueuePeer, SocketKept
  <1>1. CASE Start \/ StartReturns \/ CallStop \/ StopStep \/ CreateLoop \/ Listen \/ EndServer
    <2>1. UNCHANGED <<telling, registered, socket>>
      BY <1>1 DEF Start, StartReturns, CallStop, StopStep, StopAgain, SignalStop, JoinServer, QuitGst,
                  CreateLoop, Listen, EndServer
    <2> QED BY <1>b, <2>1, SameSockets
  <1>2. CASE CloseServer
    <2>1. \A q \in Peers : SocketKept(q)
      BY <1>a, <1>2 DEF CloseServer, SocketKept, Sockets
    <2> QED BY <1>b, <1>2, <2>1 DEF CloseServer
  <1>3. ASSUME NEW t \in Tellers, CopyPeers(t), UNCHANGED <<registered, socket>>
        PROVE  TellingInv'
    <2>1. \A u \in Tellers : telling'[u] \subseteq telling[u] \/ telling'[u] \subseteq registered'
      BY <1>a, <1>3 DEF CopyPeers
    <2> QED BY <1>3, <2>1, TellingKept DEF Leaving, HandlerAt
  <1>4. CASE OnBusError
    BY <1>3, <1>4 DEF OnBusError, Tellers
  <1>5. CASE BroadcastStep
    <2>1. ASSUME NEW t \in NodeThreads, Broadcast(t) PROVE TellingInv'
      BY <1>3, <2>1 DEF Broadcast, Tellers
    <2>2. ASSUME NEW t \in Tellers, NEW p \in Peers, TellPeer(t, p) PROVE TellingInv'
      <3>1. \A u \in Tellers : telling'[u] \subseteq telling[u]
        BY <1>a, <2>2 DEF TellPeer
      <3>2. registered' = registered /\ \A q \in Peers : SocketKept(q)
        BY <1>c, <2>2 DEF TellPeer
      <3> QED BY <3>1, <3>2, TellingKept DEF SocketKept, Leaving, HandlerAt
    <2> QED BY <1>5, <2>1, <2>2 DEF BroadcastStep
  <1>6. ASSUME NEW p \in Peers, UNCHANGED telling, NEW s \in Sockets,
               socket' = [socket EXCEPT ![p] = s], s.handler \in {"removing", "closed"},
               \A q \in Peers \ {p} : q \in registered => q \in registered'
        PROVE  TellingInv'
    <2>1. socket'[p] = s /\ \A q \in Peers \ {p} : socket'[q] = socket[q]
      BY <1>a, <1>6
    <2> QED BY <1>6, <2>1, TellingKept DEF Leaving, HandlerAt
  <1>7. ASSUME NEW p \in Peers, UNCHANGED <<telling, registered>>, NEW s \in Sockets,
               socket' = [socket EXCEPT ![p] = s], ~Leaving(p)
        PROVE  TellingInv'
    <2>1. \A q \in Peers \ {p} : socket'[q] = socket[q]
      BY <1>a, <1>7
    <2> QED BY <1>7, <2>1, TellingKept DEF Leaving, HandlerAt
  <1>8. ASSUME NEW p \in Peers, HandlerStep(p) \/ Send(p) \/ BrowserStep(p) PROVE TellingInv'
    <2>a. socket[p] \in Sockets
      BY <1>a
    <2>b. socket' \in [Peers -> Sockets] /\ socket'[p] \in Sockets
      BY <1>8, HandlerTypes DEF Types, PeerTypeOK
    <2>1. CASE AwaitAdd(p) \/ PutReady(p) \/ OnConnect(p)
      <3>1. UNCHANGED <<telling, registered>> /\ ~Leaving(p)
        BY <2>1 DEF AwaitAdd, PutReady, OnConnect, HandlerAt, Leaving
      <3>2. socket' = [socket EXCEPT ![p] = socket'[p]]
        BY <1>a, <2>1 DEF AwaitAdd, AddReturns, PutReady, OnConnect
      <3> QED BY <1>7, <2>b, <3>1, <3>2
    <2>2. CASE AwaitRemove(p)
      <3>1. [Ended(socket[p]) EXCEPT !.call = "none"] \in Sockets
        BY <2>a, EndedType DEF Sockets, Calls
      <3>2. [Ended(socket[p]) EXCEPT !.call = "none"].handler = "closed"
        BY <2>a, EndedType DEF Sockets
      <3> QED BY <1>6, <2>2, <3>1, <3>2 DEF AwaitRemove
    <2>3. CASE EndServing(p)
      <3>1. CASE EndAtOnce(p)
        BY <1>6, <2>a, <2>3, <3>1, EndedType DEF EndServing, EndAtOnce
      <3>2. CASE RemovePeer(p)
        <4>1. [socket[p] EXCEPT !.handler = "removing", !.call = "pending"] \in Sockets
          BY <2>a DEF Sockets, Handlers, Calls
        <4>2. [socket[p] EXCEPT !.handler = "removing", !.call = "pending"].handler = "removing"
          BY <2>a DEF Sockets
        <4>3. socket' = [socket EXCEPT ![p] =
                           [socket[p] EXCEPT !.handler = "removing", !.call = "pending"]]
          BY <1>a, <3>2 DEF RemovePeer
        <4> QED BY <1>6, <2>3, <3>2, <4>1, <4>2, <4>3 DEF EndServing, RemovePeer, Unregister
      <3> QED BY <2>3, <3>1, <3>2 DEF EndServing
    <2>4. CASE Send(p) \/ HangUp(p)
      <3>1. \A q \in Peers : SocketKept(q)
        BY <1>a, <2>4 DEF Send, HangUp, SocketKept, Sockets
      <3> QED BY <1>b, <2>4, <3>1 DEF Send, HangUp
    <2>5. CASE OnRequest(p)
      BY <1>b, <1>c, <2>5 DEF OnRequest
    <2>6. CASE OnAnswer(p) \/ \E c \in Candidates : OnIce(p, c)
      BY <1>b, <2>6, SameSockets DEF OnAnswer, OnIce
    <2> QED BY <1>8, <2>1, <2>2, <2>3, <2>4, <2>5, <2>6 DEF HandlerStep, BrowserStep
  <1>9. ASSUME NEW p \in Peers, GstStep(p) \/ SignalStep(p) \/ WebRtcStep(p) PROVE TellingInv'
    <2>1. UNCHANGED telling /\ registered \subseteq registered'
      BY <1>9 DEF GstStep, BuildBranch, FailToBuild, FinishAdd, RemoveBranch, SetRemoteDescription,
             AddIceCandidate, OnNegotiationNeeded, CreateOffer, SignalStep, OnIceCandidate,
             WebRtcStep, OnOfferCreated, OnLocalDescriptionSet, OnRemoteDescriptionSet
    <2>2. UNCHANGED socket \/ QueuePeer(p) \/ \E result \in Calls : CallEnds(p, result)
      BY <1>9 DEF GstStep, BuildBranch, FailToBuild, FinishAdd, RemoveBranch, SetRemoteDescription,
             AddIceCandidate, OnNegotiationNeeded, CreateOffer, SignalStep, OnIceCandidate,
             WebRtcStep, OnOfferCreated, OnLocalDescriptionSet, OnRemoteDescriptionSet,
             TellBrowser, Calls
    <2>3. \A q \in Peers : socket'[q].handler = socket[q].handler
      BY <1>a, <1>c, <2>2 DEF CallEnds, SocketKept, Sockets
    <2> QED BY <2>1, <2>3, TellingKept DEF Leaving, HandlerAt
  <1>10. CASE UNCHANGED vars
    BY <1>b, <1>10, SameSockets DEF vars
  <1> QED BY <1>1, <1>2, <1>4, <1>5, <1>8, <1>9, <1>10 DEF Next, ServerStep

(* A peer in _peers has its branch linked, and a broadcast tells nobody    *)
(* else but who is leaving or has left, for any number of peers and of     *)
(* threads that broadcast, late calls and failures (_broadcast,            *)
(* _remove_peer_sync).                                                     *)
THEOREM RegisteredAreLinkedHolds == Spec => []RegisteredAreLinked
  <1>1. Types /\ PeersInv /\ TellingInv => RegisteredAreLinked
    BY DEF Types, PeerTypeOK, PeersInv, PeerInv, TellingInv, Leaving, RegisteredAreLinked
  <1>2. Init => TellingInv
    BY DEF Init, TellingInv
  <1> QED BY <1>1, <1>2, PeersInvariant, TellingStep, PTL DEF Spec

(* A branch whose handler has ended was given up, or its removal has been  *)
(* left with the GStreamer thread (_handle_websocket, _gst_call_sync).     *)
THEOREM LinkedHaveOwnerHolds == Spec => []LinkedHaveOwner
  <1>1. ASSUME Types, PeersInv PROVE LinkedHaveOwner
    <2> SUFFICES ASSUME NEW p \in Peers, branch[p] = "linked", HandlerAt(p, "closed"),
                        socket[p].call # "given_up"
                 PROVE  \E i \in DOMAIN gst.idle : gst.idle[i] = [kind |-> "remove", peer |-> p]
      BY DEF LinkedHaveOwner
    <2>1. Removing(p)
      BY <1>1 DEF PeersInv, PeerInv
    <2>2. PICK i \in DOMAIN gst.idle : gst.idle[i].kind = "remove" /\ gst.idle[i].peer = p
      BY <2>1 DEF Removing, Left
    <2>3. gst.idle \in Seq(Callbacks)
      BY <1>1 DEF Types, Gsts
    <2>4. gst.idle[i] \in Callbacks
      BY <2>3
    <2>5. gst.idle[i] \in [kind : {"add", "remove", "set_remote"}, peer : Peers]
      BY <2>2, <2>4 DEF Callbacks
    <2>6. gst.idle[i] = [kind |-> "remove", peer |-> p]
      BY <2>2, <2>5
    <2> QED BY <2>6
  <1> QED BY <1>1, PeersInvariant, PTL

----------------------------------------------------------------------------
(* Websockets, and what their handlers wait for. *)

(* A socket fits by its websocket, handler and sender alone. *)
LEMMA FitsAlike ==
  ASSUME NEW s, NEW t, NEW state, SocketFits(s, state),
         t.web = s.web, t.handler = s.handler, t.sender = s.sender
  PROVE  SocketFits(t, state)
  BY DEF SocketFits

(* Other peers keep their sockets, and so does a server that goes on.      *)
LEMMA FitsElsewhere ==
  ASSUME SocketsInv, UNCHANGED server, NEW p \in Peers,
         \A q \in Peers \ {p} : socket'[q] = socket[q],
         SocketFits(socket'[p], server)
  PROVE  SocketsInv'
  BY DEF SocketsInv

(* start, stop and the signaling thread. *)
LEMMA LifeSockets ==
  ASSUME Types, LifeInv, SocketsInv,
         Start \/ StartReturns \/ CallStop \/ StopStep \/ ServerStep \/ OnBusError \/ BroadcastStep
  PROVE  SocketsInv'
  <1> USE DEF lifeVars, peerVars
  <1>1. socket \in [Peers -> Sockets]
    BY DEF Types, PeerTypeOK
  <1>2. CASE StartReturns \/ CallStop \/ StopStep
    BY <1>2 DEF StartReturns, CallStop, StopStep, StopAgain, SignalStop, JoinServer, QuitGst,
                SocketsInv
  <1>3. CASE Start \/ CreateLoop \/ Listen
    <2>1. server \in {"none", "thread", "loop"} /\ socket' = socket
      BY <1>3 DEF Start, CreateLoop, Listen, LifeInv
    <2>2. ASSUME NEW p \in Peers PROVE SocketFits(socket[p], server')
      <3>1. socket[p].handler \in Handlers /\ SocketFits(socket[p], server)
        BY <1>1 DEF Sockets, SocketsInv
      <3> QED BY <2>1, <3>1 DEF SocketFits, InUse, Handlers
    <2> QED BY <2>1, <2>2 DEF SocketsInv
  <1>4. CASE CloseServer
    <2>1. ASSUME NEW p \in Peers PROVE SocketFits(socket'[p], server')
      <3>1. /\ socket'[p].web = IF socket[p].web = "open" THEN "closed" ELSE socket[p].web
            /\ socket'[p].handler = socket[p].handler /\ socket'[p].sender = socket[p].sender
            /\ server = "serving" /\ server' = "closing"
        BY <1>1, <1>4 DEF CloseServer, Sockets
      <3>2. SocketFits(socket[p], server)
        BY DEF SocketsInv
      <3> QED BY <3>1, <3>2 DEF SocketFits
    <2> QED BY <2>1 DEF SocketsInv
  <1>5. CASE EndServer
    <2>1. ASSUME NEW p \in Peers PROVE SocketFits(socket[p], server')
      <3>1. SocketFits(socket[p], server) /\ socket[p].handler \in {"none", "closed"}
            /\ server' = "ended"
        BY <1>5 DEF EndServer, SocketsInv
      <3> QED BY <3>1 DEF SocketFits, InUse
    <2> QED BY <1>5, <2>1 DEF EndServer, SocketsInv
  <1>6. CASE OnBusError \/ BroadcastStep
    <2>1. ASSUME NEW p \in Peers PROVE SocketFits(socket'[p], server)
      <3>1. socket'[p] = socket[p] \/ socket'[p] = Queued(socket[p])
        BY <1>1, <1>6 DEF OnBusError, BroadcastStep, Broadcast, TellPeer, QueuePeer
      <3>2. /\ Queued(socket[p]).web = socket[p].web /\ Queued(socket[p]).sender = socket[p].sender
            /\ Queued(socket[p]).handler = socket[p].handler
        BY <1>1 DEF Queued, Sockets
      <3> QED BY <3>1, <3>2, FitsAlike DEF SocketsInv
    <2> QED BY <1>6, <2>1 DEF OnBusError, BroadcastStep, Broadcast, TellPeer, SocketsInv
  <1> QED BY <1>2, <1>3, <1>4, <1>5, <1>6 DEF ServerStep

(* Handlers, senders and browsers. *)
LEMMA HandlerSockets ==
  ASSUME Types, SocketsInv, NEW p \in Peers, HandlerStep(p) \/ Send(p) \/ BrowserStep(p)
  PROVE  SocketsInv'
  <1> USE DEF lifeVars
  <1>1. socket \in [Peers -> Sockets] /\ socket[p] \in Sockets
    BY DEF Types, PeerTypeOK
  <1>2. SocketFits(socket[p], server)
    BY DEF SocketsInv
  <1>3. UNCHANGED server /\ \A q \in Peers \ {p} : socket'[q] = socket[q]
    BY <1>1 DEF HandlerStep, AwaitAdd, AddReturns, PutReady, EndServing, EndAtOnce, RemovePeer,
                AwaitRemove, Send, BrowserStep, OnConnect, HangUp, OnRequest, QueuePeer, OnAnswer,
                OnIce
  <1>4. ASSUME SocketFits(socket'[p], server) PROVE SocketsInv'
    BY <1>3, <1>4, FitsElsewhere
  <1>5. CASE OnConnect(p)
    <2> DEFINE new == [socket[p] EXCEPT !.web = "open", !.sender = TRUE]
    <2>1. /\ server = "serving"
          /\ \/ socket'[p] = [new EXCEPT !.handler = "ready"]
             \/ socket'[p] = [new EXCEPT !.handler = "adding", !.call = "pending"]
      BY <1>1, <1>5 DEF OnConnect
    <2>2. socket'[p].web = "open" /\ socket'[p].sender
          /\ socket'[p].handler \in {"ready", "adding"}
      BY <1>1, <2>1 DEF Sockets
    <2> QED BY <1>4, <2>1, <2>2 DEF SocketFits, InUse
  <1>6. ASSUME NEW c \in Calls, socket[p].handler \in InUse,
               socket'[p] = [Ended(socket[p]) EXCEPT !.call = c] \/ socket'[p] = Ended(socket[p])
        PROVE  SocketsInv'
    <2>1. /\ socket'[p].handler = "closed" /\ ~socket'[p].sender
          /\ socket'[p].web = IF socket[p].web = "open" THEN "closed" ELSE socket[p].web
      BY <1>1, <1>6 DEF Ended, Sockets
    <2> QED BY <1>2, <1>4, <1>6, <2>1 DEF SocketFits, InUse
  <1>7. ASSUME socket[p].handler \in InUse, socket'[p].handler \in InUse,
               socket'[p].web = socket[p].web, socket'[p].sender = socket[p].sender
        PROVE  SocketsInv'
    BY <1>2, <1>4, <1>7 DEF SocketFits, InUse
  <1>8. CASE AwaitAdd(p)
    <2>1. socket[p].handler = "adding"
      BY <1>8 DEF AwaitAdd, HandlerAt
    <2>2. CASE socket[p].call = "done"
      <3>1. socket'[p].handler = "ready" /\ socket'[p].web = socket[p].web
            /\ socket'[p].sender = socket[p].sender
        BY <1>1, <1>8, <2>2 DEF AwaitAdd, AddReturns, Sockets
      <3> QED BY <1>7, <2>1, <3>1 DEF InUse
    <2>3. CASE socket[p].call # "done"
      <3>1. PICK c \in Calls : socket'[p] = [Ended(socket[p]) EXCEPT !.call = c]
        BY <1>1, <1>8, <2>3 DEF AwaitAdd, AddReturns, Calls
      <3> QED BY <1>6, <2>1, <3>1 DEF InUse
    <2> QED BY <2>2, <2>3
  <1>9. CASE PutReady(p)
    <2>1. socket[p].handler = "ready" /\ socket'[p].handler = "serving"
          /\ socket'[p].web = socket[p].web /\ socket'[p].sender = socket[p].sender
      BY <1>1, <1>9 DEF PutReady, HandlerAt, Sockets
    <2> QED BY <1>7, <2>1 DEF InUse
  <1>10. CASE EndServing(p)
    <2>1. socket[p].handler = "serving"
      BY <1>10 DEF EndServing, HandlerAt
    <2>2. CASE EndAtOnce(p)
      <3>1. socket'[p] = Ended(socket[p])
        BY <1>1, <2>2 DEF EndAtOnce
      <3> QED BY <1>6, <2>1, <3>1 DEF InUse, Calls
    <2>3. CASE RemovePeer(p)
      <3>1. socket'[p].handler = "removing"
            /\ socket'[p].web = socket[p].web /\ socket'[p].sender = socket[p].sender
        BY <1>1, <2>3 DEF RemovePeer, Sockets
      <3> QED BY <1>7, <2>1, <3>1 DEF InUse
    <2> QED BY <1>10, <2>2, <2>3 DEF EndServing
  <1>11. CASE AwaitRemove(p)
    <2>1. socket[p].handler = "removing" /\ socket'[p] = [Ended(socket[p]) EXCEPT !.call = "none"]
      BY <1>1, <1>11 DEF AwaitRemove, HandlerAt
    <2> QED BY <1>6, <2>1 DEF InUse, Calls
  <1>12. CASE Send(p)
    <2>1. /\ socket[p].sender /\ socket'[p].sender = (socket[p].web = "open")
          /\ socket'[p].web = socket[p].web /\ socket'[p].handler = socket[p].handler
      BY <1>1, <1>12 DEF Send, Sockets
    <2> QED BY <1>2, <1>4, <2>1 DEF SocketFits
  <1>13. CASE HangUp(p)
    <2>1. /\ socket[p].web = "open" /\ socket'[p].web = "closed"
          /\ socket'[p].sender = socket[p].sender /\ socket'[p].handler = socket[p].handler
      BY <1>1, <1>13 DEF HangUp, Sockets
    <2> QED BY <1>2, <1>4, <2>1 DEF SocketFits, InUse
  <1>14. CASE OnRequest(p)
    <2>1. /\ socket'[p].web = socket[p].web
          /\ socket'[p].sender = socket[p].sender /\ socket'[p].handler = socket[p].handler
      BY <1>1, <1>14 DEF OnRequest, QueuePeer, Queued, Sockets
    <2> QED BY <1>2, <1>4, <2>1, FitsAlike
  <1>15. CASE OnAnswer(p) \/ \E c \in Candidates : OnIce(p, c)
    <2>1. socket' = socket
      BY <1>15 DEF OnAnswer, OnIce
    <2> QED BY <1>2, <1>4, <2>1
  <1> QED BY <1>5, <1>8, <1>9, <1>10, <1>11, <1>12, <1>13, <1>14, <1>15
          DEF HandlerStep, BrowserStep

(* The GStreamer thread and the webrtcbins. *)
LEMMA GstSockets ==
  ASSUME Types, SocketsInv, NEW p \in Peers, GstStep(p) \/ SignalStep(p) \/ WebRtcStep(p)
  PROVE  SocketsInv'
  <1> USE DEF lifeVars
  <1>1. socket \in [Peers -> Sockets] /\ socket[p] \in Sockets
    BY DEF Types, PeerTypeOK
  <1>2. SocketFits(socket[p], server)
    BY DEF SocketsInv
  <1>3. UNCHANGED server
    BY DEF GstStep, BuildBranch, FailToBuild, FinishAdd, RemoveBranch, SetRemoteDescription,
           AddIceCandidate, OnNegotiationNeeded, CreateOffer, SignalStep, OnIceCandidate,
           WebRtcStep, OnOfferCreated, OnLocalDescriptionSet, OnRemoteDescriptionSet
  <1>4. UNCHANGED socket \/ QueuePeer(p) \/ \E result \in Calls : CallEnds(p, result)
    BY DEF GstStep, BuildBranch, FailToBuild, FinishAdd, RemoveBranch, SetRemoteDescription,
           AddIceCandidate, OnNegotiationNeeded, CreateOffer, SignalStep, OnIceCandidate,
           WebRtcStep, OnOfferCreated, OnLocalDescriptionSet, OnRemoteDescriptionSet,
           TellBrowser, Calls
  <1>5. /\ \A q \in Peers \ {p} : socket'[q] = socket[q]
        /\ socket'[p].web = socket[p].web
        /\ socket'[p].handler = socket[p].handler /\ socket'[p].sender = socket[p].sender
    BY <1>1, <1>4 DEF QueuePeer, Queued, CallEnds, Sockets
  <1> QED BY <1>2, <1>3, <1>5, FitsAlike, FitsElsewhere

(* Every step keeps the sockets fitting. *)
LEMMA SocketsStep == Types /\ LifeInv /\ SocketsInv /\ [Next]_vars => SocketsInv'
  <1> SUFFICES ASSUME Types, LifeInv, SocketsInv, [Next]_vars PROVE SocketsInv'
    OBVIOUS
  <1>1. CASE Next
    BY <1>1, LifeSockets, HandlerSockets, GstSockets DEF Next
  <1>2. CASE UNCHANGED vars
    BY <1>2 DEF vars, lifeVars, peerVars, SocketsInv
  <1> QED BY <1>1, <1>2

(* And they fit at first, so they always do. *)
LEMMA SocketsInvariant == Spec => [](Types /\ PeersInv /\ SocketsInv)
  <1>1. Init => Types /\ LifeInv /\ SocketsInv
    BY TypeInit, TypesOK DEF Init, LifeInv, SocketsInv, SocketFits, InUse
  <1> QED BY <1>1, TypeStep, LifeStep, SocketsStep, PeersInvariant, PTL DEF Spec

(* A worker that waits for the GStreamer thread has its call left with it, *)
(* or the thread is in the middle of that call: no call is lost, and none  *)
(* is waited for that was made already (_gst_call_sync).                   *)
CallIsLeft(p) ==
  \/ HandlerAt(p, "adding") /\ (Adding(p) \/ gst.building = p)
  \/ HandlerAt(p, "removing") /\ Removing(p)
THEOREM NoCallLost ==
  Spec => [](\A p \in Peers : socket[p].call = "pending" => CallIsLeft(p))
  <1>1. ASSUME Types, PeersInv, NEW p \in Peers, socket[p].call = "pending"
        PROVE  CallIsLeft(p)
    <2>1. PeerInv(p) /\ socket[p].handler \in Handlers
      BY <1>1 DEF Types, PeerTypeOK, Sockets, PeersInv
    <2> QED BY <1>1, <2>1 DEF PeerInv, CallIsLeft, HandlerAt, Handlers
  <1>2. Types /\ PeersInv => \A p \in Peers : socket[p].call = "pending" => CallIsLeft(p)
    BY <1>1
  <1> QED BY <1>2, PeersInvariant, PTL

(* The next step of a handler whose websocket is closed, and of what the   *)
(* handler waits for.                                                      *)
MayGoOn(p) ==
  \/ HandlerAt(p, "ready") /\ (socket[p].backlog < QueueSize \/ socket[p].sender)
  \/ HandlerAt(p, "serving") /\ socket[p].web = "closed"
  \/ /\ HandlerAt(p, "adding") \/ HandlerAt(p, "removing")
     /\ MayReturn(p) \/ (gst.running /\ CallIsLeft(p))

(* A handler whose websocket is closed has ended, or it waits to put its   *)
(* first message in a full queue without a sender, or it can go on: there  *)
(* is no other place where it could wait for ever.  Once the server is     *)
(* told to close that is so of every handler, and none outlives the server *)
(* (_handle_websocket, _async_server_main).                                *)
ClosedGoesOn ==
  \A p \in Peers :
    /\ socket[p].web = "closed" => HandlerAt(p, "closed") \/ Stuck(p) \/ MayGoOn(p)
    /\ server = "closing" => HandlerAt(p, "none") \/ socket[p].web = "closed"
    /\ server = "ended" => socket[p].handler \in {"none", "closed"}
THEOREM ClosedGoesOnHolds == Spec => []ClosedGoesOn
  <1>1. ASSUME Types, PeersInv, SocketsInv PROVE ClosedGoesOn
    <2> SUFFICES ASSUME NEW p \in Peers
                 PROVE  /\ socket[p].web = "closed" =>
                             HandlerAt(p, "closed") \/ Stuck(p) \/ MayGoOn(p)
                        /\ server = "closing" => HandlerAt(p, "none") \/ socket[p].web = "closed"
                        /\ server = "ended" => socket[p].handler \in {"none", "closed"}
      BY DEF ClosedGoesOn
    <2>1. /\ socket[p].handler \in Handlers /\ socket[p].web \in {"none", "open", "closed"}
          /\ socket[p].backlog \in 0 .. QueueSize /\ gst.running \in BOOLEAN
      BY <1>1 DEF Types, PeerTypeOK, Sockets, Gsts
    <2>2. SocketFits(socket[p], server) /\ PeerInv(p)
      BY <1>1 DEF SocketsInv, PeersInv
    <2>3. socket[p].call = "pending" => CallIsLeft(p)
      BY <2>1, <2>2 DEF PeerInv, CallIsLeft, HandlerAt, Handlers
    <2>4. ASSUME socket[p].web = "closed"
          PROVE  HandlerAt(p, "closed") \/ Stuck(p) \/ MayGoOn(p)
      <3>1. socket[p].handler # "none"
        BY <2>2, <2>4 DEF SocketFits
      <3>2. socket[p].backlog < QueueSize \/ socket[p].backlog = QueueSize
        BY <2>1, TransportAssumption
      <3>3. MayReturn(p) \/ (gst.running /\ CallIsLeft(p))
        BY <2>3 DEF MayReturn
      <3> QED BY <2>1, <2>4, <3>1, <3>2, <3>3 DEF Handlers, HandlerAt, Stuck, MayGoOn
    <2>5. /\ server = "closing" => HandlerAt(p, "none") \/ socket[p].web = "closed"
          /\ server = "ended" => socket[p].handler \in {"none", "closed"}
      BY <2>1, <2>2 DEF SocketFits, InUse, Handlers, HandlerAt
    <2> QED BY <2>4, <2>5
  <1> QED BY <1>1, SocketsInvariant, PTL

(* Only a browser that has hung up, or a server that closes, leaves a      *)
(* handler stuck: an open websocket has its sender (_handle_websocket,     *)
(* _peer_sender).                                                          *)
THEOREM OpenHaveSender ==
  Spec => [](\A p \in Peers : socket[p].web = "open" => socket[p].sender /\ ~Stuck(p))
  <1>1. SocketsInv => \A p \in Peers : socket[p].web = "open" => socket[p].sender /\ ~Stuck(p)
    BY DEF SocketsInv, SocketFits, Stuck
  <1> QED BY <1>1, SocketsInvariant, PTL

----------------------------------------------------------------------------
(* The offer. *)

(* What the operations of a webrtcbin still have of the offer when one     *)
(* more is asked for, and when the oldest is done.                         *)
LEMMA OfferingAppend ==
  ASSUME NEW s \in Seq(Operations)
  PROVE  /\ Offering(Append(s, "set_remote")) = Offering(s)
         /\ \A kind \in Operations :
              Offering(s) = {} => AtMostOne(Offering(Append(s, kind)))
  <1>1. Len(s) \in Nat /\ DOMAIN s = 1 .. Len(s)
    OBVIOUS
  <1>2. ASSUME NEW kind \in Operations
        PROVE  /\ DOMAIN Append(s, kind) = 1 .. Len(s) + 1
               /\ \A i \in 1 .. Len(s) : Append(s, kind)[i] = s[i]
               /\ Append(s, kind)[Len(s) + 1] = kind
               /\ \A i \in 1 .. Len(s) + 1 : i \in 1 .. Len(s) \/ i = Len(s) + 1
               /\ \A i \in 1 .. Len(s) : i \in 1 .. Len(s) + 1
    BY <1>1
  <1>3. "set_remote" \in Operations
    BY DEF Operations
  <1>4. Offering(Append(s, "set_remote")) = Offering(s)
    BY <1>1, <1>2, <1>3 DEF Offering
  <1>5. ASSUME NEW kind \in Operations, Offering(s) = {}
        PROVE  \A i \in Offering(Append(s, kind)) : i = Len(s) + 1
    BY <1>1, <1>2, <1>5 DEF Offering
  <1> QED BY <1>4, <1>5 DEF AtMostOne

(* An operation that is done is no part of the offer any more. *)
LEMMA OfferingTail ==
  ASSUME NEW s \in Seq(Operations), s # <<>>
  PROVE  /\ \A i \in Offering(Tail(s)) : i + 1 \in Offering(s) /\ i \in Nat
         /\ Head(s) \in {"create_offer", "set_local"} => 1 \in Offering(s)
  <1>1. /\ Len(s) \in Nat \ {0} /\ DOMAIN s = 1 .. Len(s) /\ Head(s) = s[1]
        /\ DOMAIN Tail(s) = 1 .. Len(s) - 1
    OBVIOUS
  <1>2. \A i \in 1 .. Len(s) - 1 : Tail(s)[i] = s[i + 1]
    OBVIOUS
  <1>3. \A i \in 1 .. Len(s) - 1 : i + 1 \in 1 .. Len(s) /\ i \in Nat
    BY <1>1
  <1>4. \A i \in Offering(Tail(s)) : i + 1 \in Offering(s) /\ i \in Nat
    BY <1>1, <1>2, <1>3 DEF Offering
  <1>5. 1 \in 1 .. Len(s)
    BY <1>1
  <1> QED BY <1>1, <1>4, <1>5 DEF Offering

(* The operations left offer once at most. *)
LEMMA OfferingDone ==
  ASSUME NEW s \in Seq(Operations), s # <<>>, AtMostOne(Offering(s))
  PROVE  /\ AtMostOne(Offering(Tail(s)))
         /\ Offering(s) = {} => Offering(Tail(s)) = {}
         /\ Head(s) \in {"create_offer", "set_local"} => Offering(Tail(s)) = {}
  <1>1. \A i \in Offering(Tail(s)) : i + 1 \in Offering(s) /\ i \in Nat
    BY OfferingTail
  <1>2. ASSUME NEW i \in Offering(Tail(s)), NEW j \in Offering(Tail(s)) PROVE i = j
    BY <1>1 DEF AtMostOne
  <1>3. ASSUME Head(s) \in {"create_offer", "set_local"}, NEW i \in Offering(Tail(s)) PROVE FALSE
    <2>1. 1 \in Offering(s)
      BY <1>3, OfferingTail
    <2>2. i + 1 = 1 /\ i + 1 # 1
      <3>1. i \in Nat /\ i + 1 \in Offering(s) /\ i # 0
        BY <1>1, <2>1 DEF Offering
      <3> QED BY <2>1, <3>1 DEF AtMostOne
    <2> QED BY <2>2
  <1> QED BY <1>1, <1>2, <1>3 DEF AtMostOne

(* Steps of the negotiation, each from an offer that is made once. *)
LEMMA OfferMoves ==
  ASSUME NEW o \in Offers, NEW set \in BOOLEAN, OfferOnce(o, set)
  PROVE  /\ \A S : OfferOnce([o EXCEPT !.starting = S], set)
         /\ \A S : OfferOnce([o EXCEPT !.starting = S, !.asked = @ + 1,
                                       !.operations = Append(@, "create_offer")], set)
         /\ OfferOnce([o EXCEPT !.operations = Append(@, "set_remote")], set)
         /\ \A t : OfferOnce([o EXCEPT !.told = t], set)
  <1>1. o.operations \in Seq(Operations) /\ o.asked \in Nat
    BY DEF Offers
  <1>2. /\ Offering(Append(o.operations, "set_remote")) = Offering(o.operations)
        /\ Offering(o.operations) = {} =>
             AtMostOne(Offering(Append(o.operations, "create_offer")))
    BY <1>1, OfferingAppend DEF Operations
  <1>3. ASSUME NEW S PROVE OfferOnce([o EXCEPT !.starting = S], set)
    BY DEF OfferOnce, Offers
  <1>4. ASSUME NEW S
        PROVE  OfferOnce([o EXCEPT !.starting = S, !.asked = @ + 1,
                                   !.operations = Append(@, "create_offer")], set)
    <2> DEFINE n == [o EXCEPT !.starting = S, !.asked = @ + 1,
                              !.operations = Append(@, "create_offer")]
    <2>1. /\ n.asked = o.asked + 1 /\ n.signaling = o.signaling
          /\ n.operations = Append(o.operations, "create_offer")
      BY DEF Offers
    <2>2. n.asked # 0 /\ (n.asked <= 1 => o.asked = 0)
      BY <1>1, <2>1
    <2> HIDE DEF n
    <2> QED BY <1>2, <2>1, <2>2 DEF OfferOnce
  <1>5. OfferOnce([o EXCEPT !.operations = Append(@, "set_remote")], set)
    <2>1. /\ [o EXCEPT !.operations = Append(@, "set_remote")].asked = o.asked
          /\ [o EXCEPT !.operations = Append(@, "set_remote")].signaling = o.signaling
          /\ [o EXCEPT !.operations = Append(@, "set_remote")].operations
                = Append(o.operations, "set_remote")
      BY DEF Offers
    <2> QED BY <1>2, <2>1 DEF OfferOnce
  <1>6. ASSUME NEW t PROVE OfferOnce([o EXCEPT !.told = t], set)
    BY DEF OfferOnce, Offers
  <1> QED BY <1>3, <1>4, <1>5, <1>6

(* The reply to an operation keeps the one offer one. *)
LEMMA OfferReplies ==
  ASSUME NEW o \in Offers, NEW set \in BOOLEAN, OfferOnce(o, set), o.operations # <<>>,
         NEW n \in Offers, n.asked = o.asked, n.operations = Tail(o.operations)
  PROVE  /\ n.signaling = o.signaling => OfferOnce(n, set)
         /\ Head(o.operations) = "set_local" /\ n.signaling = "have_local_offer"
              => OfferOnce(n, set)
         /\ o.signaling = "have_local_offer" /\ n.signaling = "stable"
              => \A s \in BOOLEAN : OfferOnce(n, s)
  <1>1. o.operations \in Seq(Operations) /\ o.asked \in Nat
    BY DEF Offers
  <1>2. AtMostOne(Offering(o.operations)) =>
          /\ AtMostOne(Offering(Tail(o.operations)))
          /\ Offering(o.operations) = {} => Offering(Tail(o.operations)) = {}
          /\ Head(o.operations) = "set_local" => Offering(Tail(o.operations)) = {}
    BY <1>1, OfferingDone
  <1>3. Head(o.operations) = "set_local" => Offering(o.operations) # {}
    BY <1>1, OfferingTail
  <1>4. o.asked = 0 => AtMostOne(Offering(o.operations))
    BY DEF OfferOnce
  <1>5. n.signaling = o.signaling => OfferOnce(n, set)
    BY <1>2, <1>4 DEF OfferOnce
  <1>6. Head(o.operations) = "set_local" /\ n.signaling = "have_local_offer"
          => OfferOnce(n, set)
    BY <1>2, <1>3 DEF OfferOnce
  <1>7. ASSUME o.signaling = "have_local_offer", n.signaling = "stable", NEW s \in BOOLEAN
        PROVE  OfferOnce(n, s)
    <2>1. o.asked # 0 /\ (o.asked <= 1 => Offering(o.operations) = {})
      BY <1>7 DEF OfferOnce
    <2> QED BY <1>2, <1>7, <2>1 DEF OfferOnce
  <1> QED BY <1>5, <1>6, <1>7

(* An offer that is made, and then set next, is the same one offer. *)
LEMMA OfferGoesOn ==
  ASSUME NEW o \in Offers, NEW set \in BOOLEAN, OfferOnce(o, set), o.operations # <<>>,
         Head(o.operations) = "create_offer",
         NEW n \in Offers, n.asked = o.asked, n.signaling = o.signaling,
         n.operations = Tail(o.operations) \o <<"set_local">>
  PROVE  OfferOnce(n, set)
  <1>1. o.operations \in Seq(Operations) /\ Tail(o.operations) \in Seq(Operations)
    BY DEF Offers
  <1>2. 1 \in Offering(o.operations)
    BY <1>1, OfferingTail
  <1>3. n.operations = Append(Tail(o.operations), "set_local")
    BY <1>1 DEF Operations
  <1>4. AtMostOne(Offering(o.operations)) => Offering(Tail(o.operations)) = {}
    BY <1>1, OfferingDone
  <1>5. Offering(Tail(o.operations)) = {} => AtMostOne(Offering(n.operations))
    BY <1>1, <1>3, OfferingAppend DEF Operations
  <1> QED BY <1>2, <1>4, <1>5 DEF OfferOnce

(* At first there is no offer. *)
LEMMA OfferInit == Init => OfferInv
  BY DEF Init, OfferInv, OfferOnce, Offering, AtMostOne

(* What touches no offer and no description keeps OfferInv. *)
LEMMA OfferKept ==
  ASSUME OfferInv, UNCHANGED offer, \A q \in Peers : ice'[q].remoteSet = ice[q].remoteSet
  PROVE  OfferInv'
  BY DEF OfferInv

(* Every step keeps it. *)
LEMMA OfferStep == Types /\ OfferInv /\ [Next]_vars => OfferInv'
  <1> SUFFICES ASSUME Types, OfferInv, [Next]_vars PROVE OfferInv'
    OBVIOUS
  <1> USE DEF lifeVars, peerVars
  <1>a. /\ offer \in [Peers -> Offers] /\ ice \in [Peers -> Ices]
    BY DEF Types, PeerTypeOK
  <1>b. offer' \in [Peers -> Offers] /\ ice' \in [Peers -> Ices]
    BY TypeStep DEF Types, PeerTypeOK
  <1>1. CASE UNCHANGED <<offer, ice>>
    BY <1>1, OfferKept
  <1>2. CASE Start \/ StartReturns \/ CallStop \/ StopStep \/ ServerStep \/ OnBusError \/ BroadcastStep
    <2>1. UNCHANGED <<offer, ice>>
      BY <1>2 DEF Start, StartReturns, CallStop, StopStep, StopAgain, SignalStop, JoinServer,
                  QuitGst, ServerStep, CreateLoop, Listen, CloseServer, EndServer, OnBusError,
                  BroadcastStep, Broadcast, TellPeer
    <2> QED BY <1>1, <2>1
  <1>3. ASSUME NEW p \in Peers, HandlerStep(p) \/ Send(p) \/ BrowserStep(p)
        PROVE  OfferInv'
    <2>1. CASE HandlerStep(p) \/ Send(p) \/ OnConnect(p) \/ HangUp(p) \/ OnRequest(p)
      BY <1>1, <2>1 DEF HandlerStep, AwaitAdd, PutReady, EndServing, AwaitRemove, Send, OnConnect,
                        HangUp, OnRequest
    <2>2. CASE OnAnswer(p)
      BY <1>a, <2>2, OfferKept DEF OnAnswer, Ices
    <2>3. ASSUME NEW c \in Candidates, OnIce(p, c) PROVE OfferInv'
      BY <1>a, <2>3, OfferKept DEF OnIce, ReceiveCandidate, Ices
    <2> QED BY <1>3, <2>1, <2>2, <2>3 DEF BrowserStep
  <1>4. ASSUME NEW p \in Peers, GstStep(p) \/ SignalStep(p) \/ WebRtcStep(p)
        PROVE  OfferInv'
    <2>a. /\ offer[p] \in Offers /\ offer'[p] \in Offers /\ offer[p].operations \in Seq(Operations)
          /\ ice[p].remoteSet \in BOOLEAN /\ ice'[p].remoteSet \in BOOLEAN
          /\ OfferOnce(offer[p], ice[p].remoteSet)
      BY <1>a, <1>b DEF Offers, Ices, OfferInv
    <2>b. ASSUME \A q \in Peers \ {p} : offer'[q] = offer[q] /\ ice'[q] = ice[q],
                 OfferOnce(offer'[p], ice'[p].remoteSet)
          PROVE  OfferInv'
      BY <2>b DEF OfferInv
    <2>1. CASE BuildBranch(p) \/ FailToBuild(p) \/ FinishAdd(p) \/ RemoveBranch(p)
               \/ OnIceCandidate(p)
      BY <1>1, <2>1 DEF BuildBranch, FailToBuild, FinishAdd, RemoveBranch, OnIceCandidate
    <2>2. CASE AddIceCandidate(p)
      BY <1>a, <2>2, OfferKept DEF AddIceCandidate, Ices
    <2>3. CASE SetRemoteDescription(p)
      <3>1. offer'[p] = offer[p] \/ offer'[p] = [offer[p] EXCEPT !.operations = Append(@, "set_remote")]
        BY <1>a, <2>3 DEF SetRemoteDescription, Offers
      <3>2. OfferOnce(offer'[p], ice[p].remoteSet)
        BY <2>a, <3>1, OfferMoves
      <3> QED BY <1>a, <2>b, <2>3, <3>2 DEF SetRemoteDescription
    <2>4. ASSUME NEW caller \in {"gst", "webrtcbin"},
                 OnNegotiationNeeded(caller, p) \/ CreateOffer(caller, p)
          PROVE  OfferInv'
      <3> DEFINE more == offer[p].starting \cup {caller}
                 less == offer[p].starting \ {caller}
      <3>1. \/ offer'[p] = [offer[p] EXCEPT !.starting = more]
            \/ offer'[p] = [offer[p] EXCEPT !.starting = less, !.asked = @ + 1,
                                           !.operations = Append(@, "create_offer")]
        BY <1>a, <2>4 DEF OnNegotiationNeeded, CreateOffer
      <3> HIDE DEF more, less
      <3>2. OfferOnce(offer'[p], ice[p].remoteSet)
        <4>3. /\ OfferOnce([offer[p] EXCEPT !.starting = more], ice[p].remoteSet)
              /\ OfferOnce([offer[p] EXCEPT !.starting = less, !.asked = @ + 1,
                                             !.operations = Append(@, "create_offer")],
                           ice[p].remoteSet)
          BY <2>a, OfferMoves, Zenon
        <4>1. CASE offer'[p] = [offer[p] EXCEPT !.starting = more]
          BY <4>1, <4>3
        <4>2. CASE offer'[p] = [offer[p] EXCEPT !.starting = less, !.asked = @ + 1,
                                                !.operations = Append(@, "create_offer")]
          BY <4>2, <4>3
        <4> QED BY <3>1, <4>1, <4>2
      <3> QED BY <1>a, <2>b, <2>4, <3>2 DEF OnNegotiationNeeded, CreateOffer
    <2>5. \A more \in {<<>>, <<"set_local">>} :
            /\ Replied(p, more).asked = offer[p].asked
            /\ Replied(p, more).signaling = offer[p].signaling
            /\ Replied(p, more).operations = Tail(offer[p].operations) \o more
      BY <2>a DEF Replied, Offers
    <2>6. ASSUME offer[p].operations # <<>>
          PROVE  /\ Replied(p, <<>>).operations = Tail(offer[p].operations)
                 /\ Replied(p, <<>>) \in Offers /\ Replied(p, <<"set_local">>) \in Offers
      <3>1. Tail(offer[p].operations) \in Seq(Operations)
        BY <2>a, <2>6
      <3>2. Tail(offer[p].operations) \o <<>> = Tail(offer[p].operations)
        BY <3>1
      <3>3. Tail(offer[p].operations) \o <<"set_local">> \in Seq(Operations)
        BY <3>1 DEF Operations
      <3> QED BY <2>a, <2>5, <3>1, <3>2, <3>3, OfferTypes DEF Replied
    <2>7. ASSUME NEW o \in Offers, TellBrowser(p, o)
          PROVE  /\ \A q \in Peers \ {p} : offer'[q] = offer[q]
                 /\ \A s \in BOOLEAN : OfferOnce(o, s) => OfferOnce(offer'[p], s)
      BY <1>a, <2>7, OfferMoves DEF TellBrowser
    <2>8. CASE OnOfferCreated(p)
      <3>1. ice' = ice /\ offer[p].operations # <<>> /\ Head(offer[p].operations) = "create_offer"
        BY <2>8 DEF OnOfferCreated, NextOperation
      <3>2. CASE offer' = [offer EXCEPT ![p] = Replied(p, <<"set_local">>)]
        <4>1. OfferOnce(Replied(p, <<"set_local">>), ice[p].remoteSet)
          BY <2>a, <2>5, <2>6, <3>1, OfferGoesOn
        <4> QED BY <1>a, <2>b, <3>1, <3>2, <4>1
      <3>3. CASE TellBrowser(p, Replied(p, <<>>))
        <4>1. OfferOnce(Replied(p, <<>>), ice[p].remoteSet)
          BY <2>a, <2>5, <2>6, <3>1, OfferReplies
        <4> QED BY <2>a, <2>b, <2>6, <2>7, <3>1, <3>3, <4>1
      <3> QED BY <2>8, <3>2, <3>3 DEF OnOfferCreated
    <2>9. CASE OnLocalDescriptionSet(p)
      <3> DEFINE o == [Replied(p, <<>>) EXCEPT !.signaling = "have_local_offer"]
      <3>1. ice' = ice /\ offer[p].operations # <<>> /\ Head(offer[p].operations) = "set_local"
        BY <2>9 DEF OnLocalDescriptionSet, NextOperation
      <3>2. OfferOnce(Replied(p, <<>>), ice[p].remoteSet)
        BY <2>a, <2>5, <2>6, <3>1, OfferReplies
      <3>3. /\ o \in Offers /\ o.signaling = "have_local_offer" /\ o.asked = offer[p].asked
            /\ o.operations = Tail(offer[p].operations)
        BY <2>5, <2>6, <3>1, OfferTypes DEF Offers
      <3>4. OfferOnce(o, ice[p].remoteSet)
        BY <2>a, <3>1, <3>3, OfferReplies
      <3>5. \/ TellBrowser(p, o) \/ TellBrowser(p, Replied(p, <<>>))
            \/ offer' = [offer EXCEPT ![p] = o]
        BY <2>9 DEF OnLocalDescriptionSet
      <3> HIDE DEF o
      <3> QED BY <1>a, <2>a, <2>b, <2>6, <2>7, <3>1, <3>2, <3>3, <3>4, <3>5
    <2>10. CASE OnRemoteDescriptionSet(p)
      <3> DEFINE o == [Replied(p, <<>>) EXCEPT !.signaling = "stable"]
      <3>1. offer[p].operations # <<>>
        BY <2>10 DEF OnRemoteDescriptionSet, NextOperation
      <3>2. \A q \in Peers \ {p} : offer'[q] = offer[q] /\ ice'[q] = ice[q]
        BY <1>a, <2>10 DEF OnRemoteDescriptionSet, AcceptAnswer
      <3>3. CASE offer[p].signaling = "have_local_offer" /\ offer'[p] = o
        <4>1. /\ o \in Offers /\ o.signaling = "stable" /\ o.asked = offer[p].asked
              /\ o.operations = Tail(offer[p].operations)
          BY <2>5, <2>6, <3>1, OfferTypes DEF Offers
        <4>2. OfferOnce(offer'[p], ice'[p].remoteSet)
          BY <2>a, <3>1, <3>3, <4>1, OfferReplies
        <4> QED BY <2>b, <3>2, <4>2
      <3>4. CASE ice' = ice /\ offer'[p] = Replied(p, <<>>)
        <4>1. OfferOnce(Replied(p, <<>>), ice[p].remoteSet)
          BY <2>a, <2>5, <2>6, <3>1, OfferReplies
        <4> QED BY <2>b, <3>2, <3>4, <4>1
      <3> QED BY <1>a, <2>10, <3>3, <3>4 DEF OnRemoteDescriptionSet
    <2> QED BY <1>4, <2>1, <2>2, <2>3, <2>4, <2>8, <2>9, <2>10 DEF GstStep, SignalStep, WebRtcStep
  <1>5. CASE UNCHANGED vars
    BY <1>1, <1>5 DEF vars
  <1> QED BY <1>2, <1>3, <1>4, <1>5 DEF Next

(* A webrtcbin with a local offer and no answer is not stopped, unless it  *)
(* made two offers, for any number of peers and answers                    *)
(* (_remove_peer_sync).                                                    *)
THEOREM HalfNegotiatedKeptHolds == Spec => HalfNegotiatedKept
  <1>1. ASSUME Types, OfferInv, [Next]_vars, NEW p \in Peers,
               branch'[p] = "stopped", branch[p] # "stopped"
        PROVE  offer[p].signaling = "stable" \/ offer[p].asked > 1
    <2>1. branch \in [Peers -> Branches] /\ offer[p] \in Offers
      BY <1>1 DEF Types, PeerTypeOK
    <2>2. PICK q \in Peers : BuildBranch(q) \/ FailToBuild(q) \/ RemoveBranch(q)
      <3>1. branch' # branch
        BY <1>1
      <3> QED BY <1>1, <3>1
              DEF Next, Start, StartReturns, CallStop, StopStep, StopAgain, SignalStop,
                  JoinServer, QuitGst, ServerStep, CreateLoop, Listen, CloseServer, EndServer,
                  OnBusError, BroadcastStep, Broadcast, TellPeer, HandlerStep, AwaitAdd, PutReady, EndServing,
                  AwaitRemove, Send, BrowserStep, OnConnect, HangUp, OnRequest, OnAnswer, OnIce,
                  GstStep, FinishAdd, SetRemoteDescription, AddIceCandidate,
                  OnNegotiationNeeded, CreateOffer, SignalStep, OnIceCandidate, WebRtcStep,
                  OnOfferCreated, OnLocalDescriptionSet, OnRemoteDescriptionSet, vars, peerVars
    <2>3. RemoveBranch(p) /\ ice[p].remoteSet
      BY <1>1, <2>1, <2>2 DEF BuildBranch, FailToBuild, RemoveBranch, DetachBranch
    <2>4. OfferOnce(offer[p], ice[p].remoteSet)
      BY <1>1 DEF OfferInv
    <2> QED BY <2>1, <2>3, <2>4 DEF OfferOnce, Offers
  <1>2. Types /\ OfferInv /\ [Next]_vars
          => [\A p \in Peers :
                branch'[p] = "stopped" /\ branch[p] # "stopped" =>
                  offer[p].signaling = "stable" \/ offer[p].asked > 1]_vars
    BY <1>1
  <1>3. Init => Types
    BY TypeInit, TypesOK
  <1> QED BY <1>2, <1>3, TypeStep, OfferInit, OfferStep, PTL DEF Spec, HalfNegotiatedKept

----------------------------------------------------------------------------
(* The offer that a peer is owed. *)

(* A webrtcbin in the pipeline is being asked for its offer by add_peer,   *)
(* or it was asked, and the browser was told or an operation of the offer  *)
(* is left.  Nobody asks for a peer that was never in the pipeline.        *)
OfferOwed(o, adding) ==
  IF o.asked = 0 THEN adding ELSE o.told # "nothing" \/ Offering(o.operations) # {}
NotAsked(o) == o.asked = 0 /\ o.starting = {}
OwedInv ==
  \A p \in Peers :
    /\ branch[p] = "none" => NotAsked(offer[p])
    /\ webrtc[p] => OfferOwed(offer[p], gst.building = p)

(* What is left of an offer when an operation of it is appended, and when  *)
(* one of the answer is done.                                              *)
LEMMA OfferingLeft ==
  ASSUME NEW s \in Seq(Operations)
  PROVE  /\ \A kind \in {"create_offer", "set_local"} : Offering(Append(s, kind)) # {}
         /\ s # <<>> /\ Head(s) = "set_remote" /\ Offering(s) # {} => Offering(Tail(s)) # {}
  <1>1. ASSUME NEW kind \in {"create_offer", "set_local"} PROVE Offering(Append(s, kind)) # {}
    <2>1. Len(s) + 1 \in DOMAIN Append(s, kind) /\ Append(s, kind)[Len(s) + 1] = kind
      OBVIOUS
    <2> QED BY <2>1 DEF Offering
  <1>2. ASSUME s # <<>>, Head(s) = "set_remote", NEW i \in Offering(s)
        PROVE  i - 1 \in Offering(Tail(s))
    <2>1. i \in 1 .. Len(s) /\ Len(s) \in Nat /\ s[1] = "set_remote" /\ i # 1
      BY <1>2 DEF Offering
    <2>2. DOMAIN Tail(s) = 1 .. Len(s) - 1 /\ \A j \in 1 .. Len(s) - 1 : Tail(s)[j] = s[j + 1]
      BY <1>2
    <2>3. i - 1 \in 1 .. Len(s) - 1 /\ (i - 1) + 1 = i
      BY <2>1
    <2> QED BY <1>2, <2>2, <2>3 DEF Offering
  <1> QED BY <1>1, <1>2

(* A step that leaves an offer as far as it was keeps what is owed.        *)
LEMMA OwedKept ==
  ASSUME OwedInv, NEW p \in Peers, UNCHANGED <<branch, webrtc>>,
         gst'.building = gst.building, \A q \in Peers \ {p} : offer'[q] = offer[q],
         branch[p] = "none" => NotAsked(offer'[p]),
         webrtc[p] => OfferOwed(offer'[p], gst.building = p)
  PROVE  OwedInv'
  BY DEF OwedInv

(* Every step of the GStreamer thread and of a webrtcbin does.             *)
LEMMA GstOwed ==
  ASSUME Types, PeersInv, OwedInv, NEW p \in Peers, GstStep(p) \/ SignalStep(p) \/ WebRtcStep(p)
  PROVE  OwedInv'
  <1>a. /\ offer \in [Peers -> Offers] /\ offer[p] \in Offers /\ gst \in Gsts
        /\ branch \in [Peers -> Branches] /\ webrtc \in [Peers -> BOOLEAN]
        /\ offer[p].operations \in Seq(Operations) /\ offer[p].asked \in Nat /\ p # NoPeer
    BY TransportAssumption DEF Types, PeerTypeOK, Offers
  <1>b. /\ branch[p] = "none" => NotAsked(offer[p])
        /\ webrtc[p] => OfferOwed(offer[p], gst.building = p)
        /\ PeerInv(p)
    BY DEF OwedInv, PeersInv
  <1>1. CASE BuildBranch(p)
    <2>1. /\ branch' = [branch EXCEPT ![p] = "linked"] /\ webrtc' = [webrtc EXCEPT ![p] = TRUE]
          /\ offer' = offer /\ gst'.building = p /\ gst.building = NoPeer
      BY <1>a, <1>1 DEF BuildBranch, IdleDone, NextIdle, Gsts
    <2>2. Adding(p)
      BY <1>1, DoneLeft, TailLeft, <1>a DEF BuildBranch, NextIdle, Adding, Gsts
    <2>3. offer[p].asked = 0
      BY <1>b, <2>2 DEF PeerInv, NotAsked
    <2>4. ASSUME NEW q \in Peers
          PROVE  /\ branch'[q] = "none" => NotAsked(offer[q])
                 /\ webrtc'[q] => OfferOwed(offer[q], gst'.building = q)
      <3>1. CASE q = p
        BY <1>a, <2>1, <2>3, <3>1 DEF OfferOwed
      <3>2. CASE q # p
        <4>1. branch'[q] = branch[q] /\ webrtc'[q] = webrtc[q]
              /\ ~(gst.building = q) /\ ~(gst'.building = q)
          BY <1>a, <2>1, <3>2, TransportAssumption
        <4>2. /\ branch[q] = "none" => NotAsked(offer[q])
              /\ webrtc[q] => OfferOwed(offer[q], gst.building = q)
          BY DEF OwedInv
        <4> QED BY <4>1, <4>2 DEF OfferOwed
      <3> QED BY <3>1, <3>2
    <2> QED BY <2>1, <2>4 DEF OwedInv
  <1>2. CASE FailToBuild(p) \/ RemoveBranch(p)
    <2>1. /\ \A q \in Peers : branch'[q] = "none" => branch[q] = "none"
          /\ \A q \in Peers : webrtc'[q] => webrtc[q]
          /\ offer' = offer /\ gst'.building = gst.building
      BY <1>a, <1>2 DEF FailToBuild, RemoveBranch, DetachBranch, IdleDone, Gsts
    <2> QED BY <2>1 DEF OwedInv
  <1>3. CASE FinishAdd(p)
    <2>1. /\ UNCHANGED <<branch, webrtc, offer>> /\ gst'.building = NoPeer /\ gst.building = p
          /\ offer[p].asked # 0
      BY <1>a, <1>3 DEF FinishAdd, Gsts
    <2>2. ASSUME NEW q \in Peers, webrtc[q] PROVE OfferOwed(offer[q], gst'.building = q)
      <3>1. OfferOwed(offer[q], gst.building = q) /\ q # NoPeer
        BY <2>2, TransportAssumption DEF OwedInv
      <3> QED BY <2>1, <3>1 DEF OfferOwed
    <2> QED BY <2>1, <2>2 DEF OwedInv
  <1>4. CASE SetRemoteDescription(p)
    <2>1. /\ UNCHANGED <<branch, webrtc>> /\ gst'.building = gst.building
          /\ \A q \in Peers \ {p} : offer'[q] = offer[q]
          /\ offer'[p].asked = offer[p].asked /\ offer'[p].told = offer[p].told
          /\ offer'[p].starting = offer[p].starting
          /\ \/ offer'[p].operations = offer[p].operations
             \/ offer'[p].operations = Append(offer[p].operations, "set_remote")
      BY <1>a, <1>4 DEF SetRemoteDescription, IdleDone, Offers, Gsts
    <2>2. Offering(offer'[p].operations) = Offering(offer[p].operations)
      BY <1>a, <2>1, OfferingAppend
    <2> QED BY <1>b, <2>1, <2>2, OwedKept DEF NotAsked, OfferOwed
  <1>5. CASE AddIceCandidate(p) \/ OnIceCandidate(p)
    <2>1. UNCHANGED <<branch, webrtc, offer>> /\ gst'.building = gst.building
      BY <1>a, <1>5 DEF AddIceCandidate, OnIceCandidate, IdleDone, Gsts
    <2> QED BY <2>1 DEF OwedInv
  <1>6. ASSUME NEW caller \in {"gst", "webrtcbin"}, OnNegotiationNeeded(caller, p)
        PROVE  OwedInv'
    <2>1. /\ UNCHANGED <<branch, webrtc, gst>>
          /\ \A q \in Peers \ {p} : offer'[q] = offer[q]
          /\ offer'[p].asked = offer[p].asked /\ offer'[p].told = offer[p].told
          /\ offer'[p].operations = offer[p].operations
      BY <1>a, <1>6 DEF OnNegotiationNeeded, Offers
    <2>2. branch[p] # "none"
      BY <1>b, <1>6 DEF OnNegotiationNeeded, PeerInv
    <2> QED BY <1>b, <2>1, <2>2, OwedKept DEF OfferOwed
  <1>7. ASSUME NEW caller \in {"gst", "webrtcbin"}, CreateOffer(caller, p)
        PROVE  OwedInv'
    <2>1. /\ UNCHANGED <<branch, webrtc, gst>>
          /\ \A q \in Peers \ {p} : offer'[q] = offer[q]
          /\ offer'[p].asked = offer[p].asked + 1
          /\ offer'[p].operations = Append(offer[p].operations, "create_offer")
          /\ offer[p].starting # {}
      BY <1>a, <1>7 DEF CreateOffer, Offers
    <2>2. branch[p] # "none"
      BY <1>b, <2>1 DEF NotAsked
    <2>3. Offering(offer'[p].operations) # {} /\ offer'[p].asked # 0
      BY <1>a, <2>1, OfferingLeft
    <2> QED BY <2>1, <2>2, <2>3, OwedKept DEF OfferOwed
  <1>8. \A more \in {<<>>, <<"set_local">>} :
          /\ Replied(p, more).asked = offer[p].asked
          /\ Replied(p, more).starting = offer[p].starting
          /\ Replied(p, more).told = offer[p].told
          /\ Replied(p, more).operations = Tail(offer[p].operations) \o more
    BY <1>a DEF Replied, Offers
  <1>9. ASSUME NEW o, o.asked = offer[p].asked, o.starting = offer[p].starting,
               DOMAIN o = DOMAIN offer[p],
               TellBrowser(p, o), UNCHANGED <<branch, webrtc, gst>>
        PROVE  OwedInv'
    <2>1. /\ offer'[p].asked = offer[p].asked /\ offer'[p].starting = offer[p].starting
          /\ offer'[p].told # "nothing" /\ \A q \in Peers \ {p} : offer'[q] = offer[q]
      BY <1>a, <1>9 DEF TellBrowser, Verdict, Offers
    <2> QED BY <1>b, <1>9, <2>1, OwedKept DEF NotAsked, OfferOwed
  <1>10. \A more : /\ DOMAIN Replied(p, more) = DOMAIN offer[p]
                   /\ DOMAIN [Replied(p, more) EXCEPT !.signaling = "have_local_offer"]
                        = DOMAIN offer[p]
    BY DEF Replied
  <1>11. CASE OnOfferCreated(p)
    <2>1. UNCHANGED <<branch, webrtc, gst>> /\ offer[p].operations # <<>>
      BY <1>11 DEF OnOfferCreated, NextOperation
    <2>2. CASE TellBrowser(p, Replied(p, <<>>))
      BY <1>8, <1>9, <1>10, <2>1, <2>2
    <2>3. CASE offer' = [offer EXCEPT ![p] = Replied(p, <<"set_local">>)]
      <3>1. /\ offer'[p] = Replied(p, <<"set_local">>)
            /\ \A q \in Peers \ {p} : offer'[q] = offer[q]
        BY <1>a, <2>3
      <3>2. /\ Tail(offer[p].operations) \in Seq(Operations)
            /\ offer'[p].operations = Append(Tail(offer[p].operations), "set_local")
        <4>1. offer[p].operations \in Seq(Operations)
          BY <1>a DEF Offers
        <4>2. Tail(offer[p].operations) \in Seq(Operations)
          BY <2>1, <4>1
        <4>3. offer'[p].operations = Tail(offer[p].operations) \o <<"set_local">>
          BY <1>8, <3>1
        <4> QED BY <4>2, <4>3 DEF Operations
      <3>3. Offering(offer'[p].operations) # {}
        BY <3>2, OfferingLeft
      <3> QED BY <1>8, <1>b, <2>1, <3>1, <3>3, OwedKept DEF NotAsked, OfferOwed
    <2> QED BY <1>11, <2>2, <2>3 DEF OnOfferCreated
  <1>12. CASE OnLocalDescriptionSet(p)
    <2> DEFINE o == [Replied(p, <<>>) EXCEPT !.signaling = "have_local_offer"]
    <2>1. UNCHANGED <<branch, webrtc, gst>>
      BY <1>12 DEF OnLocalDescriptionSet
    <2>2. o.asked = offer[p].asked /\ o.starting = offer[p].starting
      BY <1>8, <1>a DEF Replied, Offers
    <2>3. CASE TellBrowser(p, o)
      BY <1>9, <1>10, <2>1, <2>2, <2>3
    <2>4. CASE TellBrowser(p, Replied(p, <<>>))
      BY <1>8, <1>9, <1>10, <2>1, <2>4
    <2>5. CASE ~webrtc[p] /\ offer' = [offer EXCEPT ![p] = o]
      <3>1. offer'[p] = o /\ \A q \in Peers \ {p} : offer'[q] = offer[q]
        BY <1>a, <2>5
      <3> HIDE DEF o
      <3> QED BY <1>b, <2>1, <2>2, <2>5, <3>1, OwedKept DEF NotAsked
    <2> QED BY <1>12, <2>3, <2>4, <2>5 DEF OnLocalDescriptionSet
  <1>13. CASE OnRemoteDescriptionSet(p)
    <2>1. /\ UNCHANGED <<branch, webrtc>> /\ gst'.building = gst.building
          /\ offer[p].operations # <<>> /\ Head(offer[p].operations) = "set_remote"
      BY <1>a, <1>13 DEF OnRemoteDescriptionSet, NextOperation, AcceptAnswer, SchedulePending, Gsts
    <2>2. /\ \A q \in Peers \ {p} : offer'[q] = offer[q]
          /\ \/ offer'[p] = Replied(p, <<>>)
             \/ offer'[p] = [Replied(p, <<>>) EXCEPT !.signaling = "stable"]
      BY <1>a, <1>13 DEF OnRemoteDescriptionSet
    <2>3. /\ offer'[p].asked = offer[p].asked /\ offer'[p].starting = offer[p].starting
          /\ offer'[p].told = offer[p].told
          /\ offer'[p].operations = Tail(offer[p].operations) \o <<>>
      BY <1>a, <1>8, <2>2 DEF Replied, Offers
    <2>4. Tail(offer[p].operations) \o <<>> = Tail(offer[p].operations)
      BY <1>a, <2>1
    <2>5. Offering(offer[p].operations) # {} => Offering(offer'[p].operations) # {}
      BY <1>a, <2>1, <2>3, <2>4, OfferingLeft
    <2> QED BY <1>b, <2>1, <2>2, <2>3, <2>5, OwedKept DEF NotAsked, OfferOwed
  <1> QED BY <1>1, <1>2, <1>3, <1>4, <1>5, <1>6, <1>7, <1>11, <1>12, <1>13
          DEF GstStep, SignalStep, WebRtcStep

(* So does every other step. *)
LEMMA OwedStep == Types /\ PeersInv /\ OwedInv /\ [Next]_vars => OwedInv'
  <1> SUFFICES ASSUME Types, PeersInv, OwedInv, [Next]_vars PROVE OwedInv'
    OBVIOUS
  <1> USE DEF lifeVars, peerVars
  <1>a. gst \in Gsts
    BY DEF Types
  <1>1. ASSUME UNCHANGED <<branch, webrtc, offer>>, gst'.building = gst.building PROVE OwedInv'
    BY <1>1 DEF OwedInv
  <1>2. CASE Start \/ StartReturns \/ CallStop \/ StopStep \/ ServerStep \/ OnBusError \/ BroadcastStep
    <2>1. UNCHANGED <<branch, webrtc, offer>> /\ gst'.building = gst.building
      BY <1>a, <1>2 DEF Start, StartReturns, CallStop, StopStep, StopAgain, SignalStop, JoinServer,
                        QuitGst, ServerStep, CreateLoop, Listen, CloseServer, EndServer,
                        OnBusError, BroadcastStep, Broadcast, TellPeer, Gsts
    <2> QED BY <1>1, <2>1
  <1>3. ASSUME NEW p \in Peers, HandlerStep(p) \/ Send(p) \/ BrowserStep(p)
        PROVE  OwedInv'
    <2>1. UNCHANGED <<branch, webrtc, offer>>
      BY <1>3 DEF HandlerStep, AwaitAdd, PutReady, EndServing, AwaitRemove, Send, BrowserStep,
                  OnConnect, HangUp, OnRequest, OnAnswer, OnIce
    <2>2. gst'.building = gst.building
      BY <1>a, <1>3 DEF HandlerStep, AwaitAdd, PutReady, EndServing, EndAtOnce, RemovePeer,
                        AwaitRemove, Send, BrowserStep, OnConnect, HangUp, OnRequest, OnAnswer,
                        OnIce, ReceiveCandidate, Scheduled, Gsts
    <2> QED BY <1>1, <2>1, <2>2
  <1>4. CASE UNCHANGED vars
    BY <1>1, <1>4 DEF vars
  <1> QED BY <1>2, <1>3, <1>4, GstOwed DEF Next

(* A peer that frames are announced to, and whose browser was told of no   *)
(* offer and no error, has one coming: add_peer goes on to ask for it, or  *)
(* an operation of it is left with the webrtcbin.  No failure, no second   *)
(* caller and no late call loses the offer (_on_negotiation_needed,        *)
(* _on_offer_created, _on_local_description_set).                          *)
OfferIsComing ==
  \A p \in registered :
    offer[p].told = "nothing" => IF offer[p].asked = 0 THEN gst.building = p
                                 ELSE Offering(offer[p].operations) # {}
THEOREM OfferIsComingHolds == Spec => []OfferIsComing
  <1>1. Init => OwedInv
    BY DEF Init, OwedInv, NotAsked
  <1>2. Types /\ PeersInv /\ OwedInv => OfferIsComing
    BY DEF Types, PeerTypeOK, PeersInv, PeerInv, OwedInv, OfferOwed, OfferIsComing
  <1> QED BY <1>1, <1>2, OwedStep, PeersInvariant, PTL DEF Spec

----------------------------------------------------------------------------
(* Candidates. *)

Places(s, x) == {i \in DOMAIN s : s[i] = x}

(* Where something is in a sequence to which an element is appended. *)
LEMMA PlacesAppend ==
  ASSUME NEW S, NEW s \in Seq(S), NEW e \in S, NEW x
  PROVE  /\ e # x => Places(Append(s, e), x) = Places(s, x)
         /\ e = x /\ Places(s, x) = {} =>
              AtMostOne(Places(Append(s, e), x)) /\ Places(Append(s, e), x) # {}
  <1> DEFINE n == Len(s)
  <1>1. /\ n \in Nat /\ DOMAIN s = 1 .. n /\ DOMAIN Append(s, e) = 1 .. n + 1
        /\ \A i \in 1 .. n : Append(s, e)[i] = s[i]
        /\ Append(s, e)[n + 1] = e
    OBVIOUS
  <1>2. \A i : i \in 1 .. n + 1 <=> i \in 1 .. n \/ i = n + 1
    BY <1>1
  <1> HIDE DEF n
  <1>3. e # x => Places(Append(s, e), x) = Places(s, x)
    BY <1>1, <1>2 DEF Places
  <1>4. ASSUME e = x, Places(s, x) = {}
        PROVE  n + 1 \in Places(Append(s, e), x) /\ \A i \in Places(Append(s, e), x) : i = n + 1
    BY <1>1, <1>2, <1>4 DEF Places
  <1> QED BY <1>3, <1>4 DEF AtMostOne

(* And in one that loses its first. *)
LEMMA PlacesTail ==
  ASSUME NEW S, NEW s \in Seq(S), s # <<>>, NEW x
  PROVE  /\ AtMostOne(Places(s, x)) => AtMostOne(Places(Tail(s), x))
         /\ Head(s) # x => (Places(Tail(s), x) = {} <=> Places(s, x) = {})
         /\ Head(s) = x => Places(s, x) # {}
         /\ Head(s) = x /\ AtMostOne(Places(s, x)) => Places(Tail(s), x) = {}
  <1> DEFINE n == Len(s)
  <1>1. /\ n \in Nat \ {0} /\ DOMAIN s = 1 .. n /\ DOMAIN Tail(s) = 1 .. n - 1
        /\ Head(s) = s[1]
    OBVIOUS
  <1>2. \A i \in 1 .. n - 1 : Tail(s)[i] = s[i + 1]
    OBVIOUS
  <1>3. /\ \A i \in 1 .. n - 1 : i + 1 \in 1 .. n /\ i + 1 # 1
        /\ \A i, j \in 1 .. n - 1 : i + 1 = j + 1 => i = j
        /\ 1 \in 1 .. n
    BY <1>1
  <1>4. \A i \in 1 .. n : i = 1 \/ (i - 1 \in 1 .. n - 1 /\ (i - 1) + 1 = i)
    BY <1>1
  <1> HIDE DEF n
  <1>5. \A i \in Places(Tail(s), x) : i \in 1 .. n - 1 /\ i + 1 \in Places(s, x)
    BY <1>1, <1>2, <1>3 DEF Places
  <1>6. \A i \in Places(s, x) : i = 1 \/ i - 1 \in Places(Tail(s), x)
    BY <1>1, <1>2, <1>4 DEF Places
  <1>7. 1 \in Places(s, x) <=> Head(s) = x
    BY <1>1, <1>3 DEF Places
  <1>8. AtMostOne(Places(s, x)) => AtMostOne(Places(Tail(s), x))
    BY <1>3, <1>5 DEF AtMostOne
  <1>9. Head(s) # x => (Places(Tail(s), x) = {} <=> Places(s, x) = {})
    BY <1>5, <1>6, <1>7
  <1>10. ASSUME Head(s) = x, AtMostOne(Places(s, x)), NEW i \in Places(Tail(s), x) PROVE FALSE
    BY <1>3, <1>5, <1>7, <1>10 DEF AtMostOne
  <1> QED BY <1>7, <1>8, <1>9, <1>10

(* And in two that are joined. *)
LEMMA PlacesConcat ==
  ASSUME NEW S, NEW s \in Seq(S), NEW t \in Seq(S), NEW x
  PROVE  /\ Places(s \o t, x) = {} <=> Places(s, x) = {} /\ Places(t, x) = {}
         /\ AtMostOne(Places(s, x)) /\ AtMostOne(Places(t, x))
              /\ (Places(s, x) = {} \/ Places(t, x) = {})
              => AtMostOne(Places(s \o t, x))
  <1> DEFINE n == Len(s)  m == Len(t)
  <1>1. /\ n \in Nat /\ m \in Nat /\ DOMAIN s = 1 .. n /\ DOMAIN t = 1 .. m
        /\ DOMAIN (s \o t) = 1 .. n + m
    OBVIOUS
  <1>2. \A i \in 1 .. n : (s \o t)[i] = s[i]
    OBVIOUS
  <1>3. \A i \in 1 .. m : (s \o t)[n + i] = t[i]
    OBVIOUS
  <1>4. \A i \in 1 .. n + m : i \in 1 .. n \/ (i - n \in 1 .. m /\ n + (i - n) = i)
    BY <1>1
  <1>5. /\ \A i \in 1 .. n : i \in 1 .. n + m
        /\ \A i \in 1 .. m : n + i \in 1 .. n + m
        /\ \A i, j \in 1 .. n + m : i - n = j - n => i = j
    BY <1>1
  <1> HIDE DEF n, m
  <1>6. \A i \in Places(s, x) : i \in Places(s \o t, x)
    BY <1>1, <1>2, <1>5 DEF Places
  <1>7. \A i \in Places(t, x) : n + i \in Places(s \o t, x)
    BY <1>1, <1>3, <1>5 DEF Places
  <1>8. ASSUME NEW i \in Places(s \o t, x)
        PROVE  i \in 1 .. n + m /\ (i \in Places(s, x) \/ i - n \in Places(t, x))
    <2>1. i \in 1 .. n + m /\ (s \o t)[i] = x
      BY <1>1 DEF Places
    <2>2. CASE i \in 1 .. n
      BY <1>1, <1>2, <2>1, <2>2 DEF Places
    <2>3. CASE i - n \in 1 .. m /\ n + (i - n) = i
      <3>1. t[i - n] = x
        BY <1>3, <2>1, <2>3
      <3> QED BY <1>1, <2>1, <2>3, <3>1 DEF Places
    <2> QED BY <1>4, <2>1, <2>2, <2>3
  <1>9. Places(s \o t, x) = {} <=> Places(s, x) = {} /\ Places(t, x) = {}
    BY <1>6, <1>7, <1>8
  <1>10. ASSUME AtMostOne(Places(s, x)), Places(t, x) = {} PROVE AtMostOne(Places(s \o t, x))
    BY <1>8, <1>10 DEF AtMostOne
  <1>11. ASSUME AtMostOne(Places(t, x)), Places(s, x) = {} PROVE AtMostOne(Places(s \o t, x))
    BY <1>5, <1>8, <1>11 DEF AtMostOne
  <1> QED BY <1>9, <1>10, <1>11

(* Which callbacks are of a candidate. *)
LEMMA AddIceIsOne ==
  ASSUME NEW p, NEW q, NEW c, NEW d
  PROVE  /\ AddIce(p, c) = AddIce(q, d) <=> p = q /\ c = d
         /\ AddIce(p, c).kind = "add_ice" /\ AddIce(p, c).peer = p
         /\ AddIce(p, c).candidate = c
         /\ \A kind \in {"add", "remove", "set_remote"} : [kind |-> kind, peer |-> q] # AddIce(p, c)
  <1>1. /\ AddIce(p, c).kind = "add_ice" /\ AddIce(p, c).peer = p
        /\ AddIce(p, c).candidate = c
        /\ AddIce(q, d).peer = q /\ AddIce(q, d).candidate = d
    BY DEF AddIce
  <1>2. \A kind \in {"add", "remove", "set_remote"} : [kind |-> kind, peer |-> q] # AddIce(p, c)
    <2> SUFFICES ASSUME NEW kind \in {"add", "remove", "set_remote"},
                        [kind |-> kind, peer |-> q] = AddIce(p, c)
                 PROVE  FALSE
      OBVIOUS
    <2>1. [kind |-> kind, peer |-> q].kind = kind
      OBVIOUS
    <2> QED BY <1>1, <2>1
  <1> QED BY <1>1, <1>2

(* Where a candidate is: kept, on its way, or added once; or it never      *)
(* came.                                                                   *)
IsOnce(kept, way, n, came) ==
  /\ AtMostOne(kept) /\ AtMostOne(way)
  /\ IF came THEN \/ kept # {} /\ way = {} /\ n = 0
                  \/ kept = {} /\ way # {} /\ n = 0
                  \/ kept = {} /\ way = {} /\ n = 1
     ELSE kept = {} /\ way = {} /\ n = 0
Way(p, c) == Places(gst.idle, AddIce(p, c))
CandidateInv(p) ==
  /\ webrtc[p] =>
       /\ branch[p] # "none"
       /\ ice[p].remoteSet => ice[p].pending = <<>>
       /\ \A c \in Candidates :
            IsOnce(Places(ice[p].pending, c), Way(p, c), ice[p].added[c], c \in ice[p].received)
  /\ branch[p] = "none" =>
       /\ ice[p].pending = <<>> /\ ice[p].received = {}
       /\ \A c \in Candidates : Way(p, c) = {} /\ ice[p].added[c] = 0
CandidatesInv == \A p \in Peers : CandidateInv(p)

(* At first no candidate is anywhere. *)
LEMMA CandidatesInit == Init => CandidatesInv
  <1> SUFFICES ASSUME Init, NEW p \in Peers PROVE CandidateInv(p)
    BY DEF CandidatesInv
  <1>1. gst.idle = <<>> /\ ~webrtc[p] /\ ice[p].pending = <<>> /\ ice[p].received = {}
    BY DEF Init
  <1>2. \A c \in Candidates : ice[p].added[c] = 0
    BY DEF Init
  <1> QED BY <1>1, <1>2 DEF CandidateInv, Way, Places

(* A step that moves none of the candidates of a peer. *)
WaysKept(q) ==
  \A c \in Candidates : /\ AtMostOne(Way(q, c)) => AtMostOne(Way(q, c)')
                        /\ Way(q, c)' = {} <=> Way(q, c) = {}
KeptOf(q) ==
  /\ ice'[q].pending = ice[q].pending /\ ice'[q].received = ice[q].received
  /\ ice'[q].added = ice[q].added /\ ice'[q].remoteSet = ice[q].remoteSet

(* Candidates stay on their way while no callback runs or comes, *)
LEMMA WaysKeptSame ==
  ASSUME gst'.idle = gst.idle
  PROVE  \A q \in Peers : WaysKept(q)
  BY DEF WaysKept, Way

(* while a callback of another kind comes, *)
LEMMA WaysKeptAppend ==
  ASSUME gst \in Gsts, NEW kind \in {"add", "remove", "set_remote"}, NEW p \in Peers,
         gst'.idle = Append(gst.idle, [kind |-> kind, peer |-> p])
  PROVE  \A q \in Peers : WaysKept(q)
  <1> DEFINE x == [kind |-> kind, peer |-> p]
  <1>1. gst.idle \in Seq(Callbacks) /\ x \in Callbacks
    BY CallbackTypes DEF Gsts
  <1>2. \A q \in Peers, c \in Candidates : x # AddIce(q, c)
    BY AddIceIsOne
  <1>3. gst'.idle = Append(gst.idle, x)
    OBVIOUS
  <1> HIDE DEF x
  <1>4. ASSUME NEW q \in Peers, NEW c \in Candidates
        PROVE  Places(gst'.idle, AddIce(q, c)) = Places(gst.idle, AddIce(q, c))
    BY <1>1, <1>2, <1>3, PlacesAppend
  <1> QED BY <1>4 DEF WaysKept, Way

(* and while one of another kind or peer runs. *)
LEMMA WaysKeptTail ==
  ASSUME gst \in Gsts, gst.idle # <<>>, gst'.idle = Tail(gst.idle), NEW q \in Peers,
         Head(gst.idle).kind # "add_ice" \/ Head(gst.idle).peer # q
  PROVE  WaysKept(q)
  <1>1. gst.idle \in Seq(Callbacks)
    BY DEF Gsts
  <1>2. \A c \in Candidates : Head(gst.idle) # AddIce(q, c)
    BY AddIceIsOne
  <1>3. ASSUME NEW c \in Candidates
        PROVE  /\ AtMostOne(Places(gst.idle, AddIce(q, c)))
                    => AtMostOne(Places(Tail(gst.idle), AddIce(q, c)))
               /\ Places(Tail(gst.idle), AddIce(q, c)) = {}
                    <=> Places(gst.idle, AddIce(q, c)) = {}
    BY <1>1, <1>2, PlacesTail
  <1> QED BY <1>3 DEF WaysKept, Way

(* A peer whose candidates stay where they are keeps CandidateInv. *)
LEMMA CandidateKept ==
  ASSUME NEW q \in Peers, CandidateInv(q), KeptOf(q), WaysKept(q),
         webrtc'[q] => webrtc[q] /\ branch'[q] # "none",
         branch'[q] = "none" => branch[q] = "none"
  PROVE  CandidateInv(q)'
  <1>1. ASSUME webrtc'[q], NEW c \in Candidates
        PROVE  IsOnce(Places(ice'[q].pending, c), Way(q, c)', ice'[q].added[c],
                      c \in ice'[q].received)
    <2>1. IsOnce(Places(ice[q].pending, c), Way(q, c), ice[q].added[c], c \in ice[q].received)
      BY <1>1 DEF CandidateInv
    <2>2. /\ AtMostOne(Way(q, c)) => AtMostOne(Way(q, c)')
          /\ Way(q, c)' = {} <=> Way(q, c) = {}
      BY DEF WaysKept
    <2> QED BY <2>1, <2>2 DEF KeptOf, IsOnce
  <1>2. ASSUME branch'[q] = "none", NEW c \in Candidates
        PROVE  Way(q, c)' = {} /\ ice'[q].added[c] = 0
    BY <1>2 DEF CandidateInv, KeptOf, WaysKept
  <1>3. webrtc'[q] => (ice'[q].remoteSet => ice'[q].pending = <<>>)
    BY DEF CandidateInv, KeptOf
  <1>4. branch'[q] = "none" => ice'[q].pending = <<>> /\ ice'[q].received = {}
    BY DEF CandidateInv, KeptOf
  <1> QED BY <1>1, <1>2, <1>3, <1>4 DEF CandidateInv

(* A candidate comes from the browser. *)
LEMMA CandidateComes ==
  ASSUME Types, CandidatesInv, NEW p \in Peers, NEW c \in Candidates, OnIce(p, c)
  PROVE  CandidatesInv'
  <1>a. /\ ice \in [Peers -> Ices] /\ gst \in Gsts /\ ice[p] \in Ices
        /\ gst.idle \in Seq(Callbacks) /\ ice[p].pending \in Seq(Candidates)
    BY DEF Types, PeerTypeOK, Ices, Gsts
  <1>b. /\ webrtc[p] /\ c \notin ice[p].received /\ webrtc' = webrtc /\ branch' = branch
        /\ AddIce(p, c) \in Callbacks
    BY CallbackTypes DEF OnIce
  <1>1. IsOnce(Places(ice[p].pending, c), Way(p, c), ice[p].added[c], FALSE)
    <2>1. IsOnce(Places(ice[p].pending, c), Way(p, c), ice[p].added[c], c \in ice[p].received)
      BY <1>b DEF CandidatesInv, CandidateInv
    <2> QED BY <1>b, <2>1 DEF IsOnce
  <1>2. /\ ice'[p].received = ice[p].received \cup {c}
        /\ ice'[p].added = ice[p].added /\ ice'[p].remoteSet = ice[p].remoteSet
        /\ ice'[p].pending = IF ice[p].remoteSet THEN ice[p].pending ELSE Append(ice[p].pending, c)
        /\ gst'.idle = IF ice[p].remoteSet THEN Append(gst.idle, AddIce(p, c)) ELSE gst.idle
        /\ \A q \in Peers \ {p} : ice'[q] = ice[q]
    BY <1>a DEF OnIce, ReceiveCandidate, Ices, Gsts
  <1>3. ASSUME NEW q \in Peers, NEW d \in Candidates, q # p \/ d # c
        PROVE  Way(q, d)' = Way(q, d)
    <2>1. AddIce(p, c) # AddIce(q, d)
      BY <1>3, AddIceIsOne
    <2>2. Places(Append(gst.idle, AddIce(p, c)), AddIce(q, d)) = Places(gst.idle, AddIce(q, d))
      BY <1>a, <1>b, <2>1, PlacesAppend
    <2> QED BY <1>2, <2>2 DEF Way
  <1>4. ASSUME NEW q \in Peers \ {p} PROVE CandidateInv(q)'
    <2>1. KeptOf(q)
      BY <1>2 DEF KeptOf
    <2>2. WaysKept(q)
      BY <1>3 DEF WaysKept
    <2>3. CandidateInv(q)
      BY DEF CandidatesInv
    <2>4. webrtc[q] => branch[q] # "none"
      BY <2>3 DEF CandidateInv
    <2> QED BY <1>b, <2>1, <2>2, <2>3, <2>4, CandidateKept
  <1>5. CandidateInv(p)'
    <2>1. branch'[p] # "none"
      BY <1>b DEF CandidatesInv, CandidateInv
    <2>2. ice'[p].remoteSet => ice'[p].pending = <<>>
      BY <1>b, <1>2 DEF CandidatesInv, CandidateInv
    <2>3. ASSUME NEW d \in Candidates \ {c}
          PROVE  IsOnce(Places(ice'[p].pending, d), Way(p, d)', ice'[p].added[d],
                        d \in ice'[p].received)
      <3>1. Places(Append(ice[p].pending, c), d) = Places(ice[p].pending, d)
        BY <1>a, PlacesAppend
      <3>2. IsOnce(Places(ice[p].pending, d), Way(p, d), ice[p].added[d], d \in ice[p].received)
        BY <1>b DEF CandidatesInv, CandidateInv
      <3>3. d \in ice'[p].received <=> d \in ice[p].received
        BY <1>2
      <3> QED BY <1>2, <1>3, <3>1, <3>2, <3>3 DEF IsOnce
    <2>4. IsOnce(Places(ice'[p].pending, c), Way(p, c)', ice'[p].added[c], TRUE)
      <3>1. CASE ice[p].remoteSet
        <4>1. /\ AtMostOne(Places(Append(gst.idle, AddIce(p, c)), AddIce(p, c)))
              /\ Places(Append(gst.idle, AddIce(p, c)), AddIce(p, c)) # {}
          BY <1>a, <1>b, <1>1, PlacesAppend DEF IsOnce, Way
        <4> QED BY <1>1, <1>2, <3>1, <4>1 DEF IsOnce, Way
      <3>2. CASE ~ice[p].remoteSet
        <4>1. /\ AtMostOne(Places(Append(ice[p].pending, c), c))
              /\ Places(Append(ice[p].pending, c), c) # {}
          BY <1>a, <1>1, PlacesAppend DEF IsOnce
        <4> QED BY <1>1, <1>2, <3>2, <4>1 DEF IsOnce, Way
      <3> QED BY <3>1, <3>2
    <2>5. c \in ice'[p].received
      BY <1>2
    <2>6. ASSUME NEW d \in Candidates
          PROVE  IsOnce(Places(ice'[p].pending, d), Way(p, d)', ice'[p].added[d],
                        d \in ice'[p].received)
      BY <2>3, <2>4, <2>5 DEF IsOnce
    <2> QED BY <2>1, <2>2, <2>6 DEF CandidateInv
  <1> QED BY <1>4, <1>5 DEF CandidatesInv

(* One on its way gets there. *)
LEMMA CandidateGetsThere ==
  ASSUME Types, CandidatesInv, NEW p \in Peers, AddIceCandidate(p)
  PROVE  CandidatesInv'
  <1>a. /\ ice \in [Peers -> Ices] /\ gst \in Gsts /\ ice[p] \in Ices
        /\ gst.idle \in Seq(Callbacks) /\ ice[p].added \in [Candidates -> Nat]
        /\ gst.idle # <<>> /\ gst'.idle = Tail(gst.idle)
        /\ webrtc' = webrtc /\ branch' = branch
        /\ Head(gst.idle).kind = "add_ice" /\ Head(gst.idle).peer = p
    BY DEF Types, PeerTypeOK, Ices, Gsts, AddIceCandidate, NextIdle, IdleDone
  <1>b. Head(gst.idle) \in Callbacks
    BY <1>a
  <1>c. PICK c \in Candidates : Head(gst.idle) = AddIce(p, c)
    BY <1>a, <1>b DEF Callbacks, AddIce
  <1>d. /\ ice'[p].received = ice[p].received /\ ice'[p].pending = ice[p].pending
        /\ ice'[p].remoteSet = ice[p].remoteSet
        /\ \A q \in Peers \ {p} : ice'[q] = ice[q]
        /\ ice'[p].added = [ice[p].added EXCEPT ![c] = IF webrtc[p] THEN @ + 1 ELSE @]
    <2>1. Head(gst.idle).candidate = c
      BY <1>c, AddIceIsOne
    <2>2. ice' = [ice EXCEPT ![p].added[c] = IF webrtc[p] THEN @ + 1 ELSE @]
      BY <2>1 DEF AddIceCandidate
    <2>3. ice'[p] = [ice[p] EXCEPT !.added[c] = IF webrtc[p] THEN @ + 1 ELSE @]
      BY <1>a, <2>2
    <2> QED BY <1>a, <2>2, <2>3 DEF Ices
  <1>1. ASSUME NEW q \in Peers \ {p} PROVE CandidateInv(q)'
    <2>1. KeptOf(q)
      BY <1>d DEF KeptOf
    <2>2. WaysKept(q)
      BY <1>a, WaysKeptTail
    <2>3. CandidateInv(q)
      BY DEF CandidatesInv
    <2>4. webrtc[q] => branch[q] # "none"
      BY <2>3 DEF CandidateInv
    <2> QED BY <1>a, <2>1, <2>2, <2>3, <2>4, CandidateKept
  <1>2. CandidateInv(p)'
    <2>1. Way(p, c) # {} /\ (AtMostOne(Way(p, c)) => Way(p, c)' = {})
      <3>1. /\ Places(gst.idle, AddIce(p, c)) # {}
            /\ AtMostOne(Places(gst.idle, AddIce(p, c)))
                 => Places(Tail(gst.idle), AddIce(p, c)) = {}
        BY <1>a, <1>c, PlacesTail
      <3> QED BY <1>a, <3>1 DEF Way
    <2>2. branch[p] # "none"
      BY <1>c, <2>1 DEF CandidatesInv, CandidateInv
    <2>3. ASSUME webrtc[p], NEW d \in Candidates
          PROVE  IsOnce(Places(ice'[p].pending, d), Way(p, d)', ice'[p].added[d],
                        d \in ice'[p].received)
      <3>1. IsOnce(Places(ice[p].pending, d), Way(p, d), ice[p].added[d], d \in ice[p].received)
        BY <2>3 DEF CandidatesInv, CandidateInv
      <3>2. CASE d = c
        <4>1. ice'[p].added[d] = ice[p].added[d] + 1
          BY <1>a, <1>c, <1>d, <2>3, <3>2
        <4>2. /\ c \in ice[p].received /\ Places(ice[p].pending, c) = {}
              /\ AtMostOne(Way(p, c)) /\ ice[p].added[c] = 0
          BY <2>1, <3>1, <3>2 DEF IsOnce
        <4>3. Way(p, c)' = {} /\ AtMostOne({})
          BY <2>1, <4>2 DEF AtMostOne
        <4> QED BY <1>d, <3>2, <4>1, <4>2, <4>3 DEF IsOnce
      <3>3. CASE d # c
        <4>1. ice'[p].added[d] = ice[p].added[d]
          BY <1>a, <1>c, <1>d, <3>3
        <4>2. AddIce(p, d) # Head(gst.idle)
          BY <1>c, <3>3, AddIceIsOne
        <4>3. /\ AtMostOne(Way(p, d)) => AtMostOne(Way(p, d)')
              /\ Way(p, d)' = {} <=> Way(p, d) = {}
          BY <1>a, <4>2, PlacesTail DEF Way
        <4> QED BY <1>d, <3>1, <4>1, <4>3 DEF IsOnce
      <3> QED BY <3>2, <3>3
    <2>4. webrtc[p] => (ice'[p].remoteSet => ice'[p].pending = <<>>)
      BY <1>d DEF CandidatesInv, CandidateInv
    <2> QED BY <1>a, <2>2, <2>3, <2>4 DEF CandidateInv
  <1> QED BY <1>1, <1>2 DEF CandidatesInv

(* An accepted answer sends those that waited on their way. *)
LEMMA WaitingScheduled ==
  ASSUME NEW p \in Peers, NEW waiting \in Seq(Candidates)
  PROVE  LET calls == [i \in DOMAIN waiting |-> AddIce(p, waiting[i])]
         IN  /\ calls \in Seq(Callbacks)
             /\ \A c \in Candidates : Places(calls, AddIce(p, c)) = Places(waiting, c)
             /\ \A q \in Peers \ {p}, c \in Candidates : Places(calls, AddIce(q, c)) = {}
  <1> DEFINE calls == [i \in DOMAIN waiting |-> AddIce(p, waiting[i])]
             n == Len(waiting)
  <1>1. n \in Nat /\ DOMAIN waiting = 1 .. n /\ \A i \in 1 .. n : waiting[i] \in Candidates
    OBVIOUS
  <1>2. DOMAIN calls = 1 .. n /\ \A i \in 1 .. n : calls[i] = AddIce(p, waiting[i])
    BY <1>1
  <1>3. calls = [i \in 1 .. n |-> AddIce(p, waiting[i])]
    BY <1>1
  <1> HIDE DEF n
  <1>4. \A i \in 1 .. n : AddIce(p, waiting[i]) \in Callbacks
    BY <1>1, CallbackTypes
  <1>5. calls \in Seq(Callbacks)
    <2>1. calls \in [1 .. n -> Callbacks]
      BY <1>3, <1>4
    <2> HIDE DEF calls
    <2> QED BY <1>1, <2>1
  <1> HIDE DEF calls
  <1>6. ASSUME NEW c \in Candidates PROVE Places(calls, AddIce(p, c)) = Places(waiting, c)
    <2>1. \A i \in 1 .. n : AddIce(p, waiting[i]) = AddIce(p, c) <=> waiting[i] = c
      BY AddIceIsOne
    <2> QED BY <1>1, <1>2, <2>1 DEF Places
  <1>7. ASSUME NEW q \in Peers \ {p}, NEW c \in Candidates
        PROVE  Places(calls, AddIce(q, c)) = {}
    <2>1. \A i \in 1 .. n : AddIce(p, waiting[i]) # AddIce(q, c)
      BY AddIceIsOne
    <2> QED BY <1>1, <1>2, <2>1 DEF Places
  <1> QED BY <1>5, <1>6, <1>7 DEF calls

(* The candidates that waited are scheduled (_on_remote_description_set). *)
LEMMA CandidatesScheduled ==
  ASSUME Types, CandidatesInv, NEW p \in Peers, webrtc[p], AcceptAnswer(p),
         UNCHANGED <<branch, webrtc>>
  PROVE  CandidatesInv'
  <1> DEFINE waiting == ice[p].pending
             calls == [i \in DOMAIN waiting |-> AddIce(p, waiting[i])]
  <1>a. /\ ice \in [Peers -> Ices] /\ gst \in Gsts /\ ice[p] \in Ices
        /\ gst.idle \in Seq(Callbacks) /\ waiting \in Seq(Candidates)
    BY DEF Types, PeerTypeOK, Ices, Gsts
  <1>b. /\ calls \in Seq(Callbacks)
        /\ \A c \in Candidates : Places(calls, AddIce(p, c)) = Places(waiting, c)
        /\ \A q \in Peers \ {p}, c \in Candidates : Places(calls, AddIce(q, c)) = {}
    BY <1>a, WaitingScheduled
  <1>c. gst'.idle = gst.idle \o calls
    BY <1>a DEF AcceptAnswer, SchedulePending, Gsts
  <1>d. /\ ice'[p].received = ice[p].received /\ ice'[p].added = ice[p].added
        /\ ice'[p].remoteSet /\ ice'[p].pending = <<>>
        /\ \A q \in Peers \ {p} : ice'[q] = ice[q]
    BY <1>a DEF AcceptAnswer, Ices
  <1>e. PICK s \in Seq(Callbacks) : s = calls
    BY <1>b
  <1>f. /\ gst'.idle = gst.idle \o s
        /\ \A c \in Candidates : Places(s, AddIce(p, c)) = Places(ice[p].pending, c)
        /\ \A q \in Peers \ {p}, c \in Candidates : Places(s, AddIce(q, c)) = {}
    BY <1>b, <1>c, <1>e
  <1> HIDE DEF calls, waiting
  <1>1. ASSUME NEW x
        PROVE  /\ Places(gst.idle \o s, x) = {} <=> Places(gst.idle, x) = {} /\ Places(s, x) = {}
               /\ AtMostOne(Places(gst.idle, x)) /\ AtMostOne(Places(s, x))
                    /\ (Places(gst.idle, x) = {} \/ Places(s, x) = {})
                    => AtMostOne(Places(gst.idle \o s, x))
    BY <1>a, PlacesConcat, Zenon
  <1>2. AtMostOne({})
    BY DEF AtMostOne
  <1>3. ASSUME NEW q \in Peers \ {p} PROVE CandidateInv(q)'
    <2>1. KeptOf(q)
      BY <1>d DEF KeptOf
    <2>2. WaysKept(q)
      <3>1. ASSUME NEW c \in Candidates
            PROVE  /\ AtMostOne(Places(gst.idle, AddIce(q, c)))
                        => AtMostOne(Places(gst.idle \o s, AddIce(q, c)))
                   /\ Places(gst.idle \o s, AddIce(q, c)) = {}
                        <=> Places(gst.idle, AddIce(q, c)) = {}
        BY <1>f, <1>1, <1>2
      <3> QED BY <1>f, <3>1 DEF WaysKept, Way
    <2>3. CandidateInv(q)
      BY DEF CandidatesInv
    <2>4. webrtc[q] => branch[q] # "none"
      BY <2>3 DEF CandidateInv
    <2> QED BY <2>1, <2>2, <2>3, <2>4, CandidateKept
  <1>4. CandidateInv(p)'
    <2>1. branch[p] # "none"
      BY DEF CandidatesInv, CandidateInv
    <2>2. ASSUME NEW c \in Candidates
          PROVE  IsOnce(Places(ice'[p].pending, c), Way(p, c)', ice'[p].added[c],
                        c \in ice'[p].received)
      <3>1. IsOnce(Places(ice[p].pending, c), Places(gst.idle, AddIce(p, c)), ice[p].added[c],
                   c \in ice[p].received)
        BY DEF CandidatesInv, CandidateInv, Way
      <3>2. Places(ice'[p].pending, c) = {}
        BY <1>d DEF Places
      <3>3. Places(s, AddIce(p, c)) = Places(ice[p].pending, c)
        BY <1>f
      <3>4. Way(p, c)' = Places(gst.idle \o s, AddIce(p, c))
        BY <1>f DEF Way
      <3>5. /\ Places(gst.idle \o s, AddIce(p, c)) = {}
                 <=> Places(gst.idle, AddIce(p, c)) = {} /\ Places(ice[p].pending, c) = {}
            /\ AtMostOne(Places(gst.idle \o s, AddIce(p, c)))
        BY <1>1, <3>1, <3>3 DEF IsOnce
      <3> QED BY <1>d, <1>2, <3>1, <3>2, <3>4, <3>5 DEF IsOnce
    <2> QED BY <1>d, <2>1, <2>2 DEF CandidateInv
  <1> QED BY <1>3, <1>4 DEF CandidatesInv

(* add_peer finds nothing of the peer. *)
LEMMA CandidatesBuild ==
  ASSUME Types, PeersInv, CandidatesInv, NEW p \in Peers, BuildBranch(p)
  PROVE  CandidatesInv'
  <1>1. /\ gst \in Gsts /\ gst.idle # <<>> /\ gst'.idle = Tail(gst.idle) /\ ice' = ice
        /\ Head(gst.idle).kind = "add" /\ Head(gst.idle).peer = p
    BY DEF Types, Gsts, BuildBranch, NextIdle, IdleDone
  <1>2. \A q \in Peers : WaysKept(q) /\ KeptOf(q) /\ CandidateInv(q)
    BY <1>1, WaysKeptTail DEF KeptOf, CandidatesInv
  <1>3. branch[p] = "none"
    <2>1. gst.idle \in Seq(Callbacks)
      BY <1>1 DEF Gsts
    <2>2. 1 \in DOMAIN gst.idle /\ Head(gst.idle) = gst.idle[1]
      BY <1>1, <2>1
    <2> QED BY <1>1, <2>2 DEF PeersInv, PeerInv, Adding, Left
  <1>4. /\ branch'[p] = "linked"
        /\ \A q \in Peers \ {p} : branch'[q] = branch[q] /\ webrtc'[q] = webrtc[q]
    BY DEF Types, PeerTypeOK, BuildBranch
  <1>5. ASSUME NEW q \in Peers \ {p} PROVE CandidateInv(q)'
    <2>1. webrtc[q] => branch[q] # "none"
      BY <1>2 DEF CandidateInv
    <2> QED BY <1>2, <1>4, <2>1, CandidateKept
  <1>6. CandidateInv(p)'
    <2>1. ice'[p].pending = <<>> /\ ice'[p].received = {}
      BY <1>1, <1>2, <1>3 DEF CandidateInv
    <2>2. ASSUME NEW c \in Candidates
          PROVE  IsOnce(Places(ice'[p].pending, c), Way(p, c)', ice'[p].added[c],
                        c \in ice'[p].received)
      <3>1. Way(p, c)' = {} /\ ice'[p].added[c] = 0
        BY <1>1, <1>2, <1>3 DEF CandidateInv, WaysKept
      <3>2. Places(ice'[p].pending, c) = {}
        BY <2>1 DEF Places
      <3> QED BY <2>1, <3>1, <3>2 DEF IsOnce, AtMostOne
    <2> QED BY <1>4, <2>1, <2>2 DEF CandidateInv
  <1> QED BY <1>5, <1>6 DEF CandidatesInv

(* The GStreamer thread keeps it. *)
LEMMA CandidatesGst ==
  ASSUME Types, PeersInv, CandidatesInv, NEW p \in Peers, GstStep(p)
  PROVE  CandidatesInv'
  <1>a. /\ branch \in [Peers -> Branches] /\ webrtc \in [Peers -> BOOLEAN]
        /\ ice \in [Peers -> Ices] /\ gst \in Gsts
        /\ \A q \in Peers : CandidateInv(q) /\ (webrtc[q] => branch[q] # "none")
    BY DEF Types, PeerTypeOK, CandidatesInv, CandidateInv
  <1>b. ASSUME \A q \in Peers : /\ WaysKept(q)
                                /\ webrtc'[q] => webrtc[q] /\ branch'[q] # "none"
                                /\ branch'[q] = "none" => branch[q] = "none",
               ice' = ice
        PROVE  CandidatesInv'
    <2>1. \A q \in Peers : KeptOf(q)
      BY <1>b DEF KeptOf
    <2> QED BY <1>a, <1>b, <2>1, CandidateKept DEF CandidatesInv
  <1>1. CASE BuildBranch(p)
    BY <1>1, CandidatesBuild
  <1>2. CASE AddIceCandidate(p)
    BY <1>2, CandidateGetsThere
  <1>3. CASE FailToBuild(p) \/ RemoveBranch(p) \/ SetRemoteDescription(p)
    <2>1. /\ gst.idle # <<>> /\ gst'.idle = Tail(gst.idle) /\ ice' = ice
          /\ Head(gst.idle).kind # "add_ice"
      BY <1>a, <1>3 DEF FailToBuild, RemoveBranch, SetRemoteDescription, NextIdle, IdleDone, Gsts
    <2>2. \A q \in Peers : WaysKept(q)
      BY <1>a, <2>1, WaysKeptTail
    <2>3. CASE FailToBuild(p)
      <3>1. \A q \in Peers : webrtc'[q] = webrtc[q] /\ (branch'[q] = branch[q] \/ branch'[q] = "stray")
        BY <1>a, <2>3 DEF FailToBuild
      <3> QED BY <1>a, <1>b, <2>1, <2>2, <3>1
    <2>4. CASE RemoveBranch(p)
      <3>1. \A q \in Peers : /\ webrtc'[q] => webrtc[q]
                             /\ branch'[q] = branch[q] \/ branch'[q] \in {"stopped", "orphaned"}
        BY <1>a, <2>4 DEF RemoveBranch, DetachBranch
      <3> QED BY <1>a, <1>b, <2>1, <2>2, <3>1
    <2>5. CASE SetRemoteDescription(p)
      BY <1>a, <1>b, <2>1, <2>2, <2>5 DEF SetRemoteDescription
    <2> QED BY <1>3, <2>3, <2>4, <2>5
  <1>4. CASE FinishAdd(p) \/ OnNegotiationNeeded("gst", p) \/ CreateOffer("gst", p)
    <2>1. gst'.idle = gst.idle /\ UNCHANGED <<branch, webrtc, ice>>
      BY <1>a, <1>4 DEF FinishAdd, OnNegotiationNeeded, CreateOffer, Gsts
    <2> QED BY <1>a, <1>b, <2>1, WaysKeptSame
  <1> QED BY <1>1, <1>2, <1>3, <1>4 DEF GstStep

(* Every step keeps it. *)
LEMMA CandidatesStep == Types /\ PeersInv /\ CandidatesInv /\ [Next]_vars => CandidatesInv'
  <1> SUFFICES ASSUME Types, PeersInv, CandidatesInv, [Next]_vars PROVE CandidatesInv'
    OBVIOUS
  <1>a. /\ ice \in [Peers -> Ices] /\ gst \in Gsts
        /\ \A q \in Peers : CandidateInv(q) /\ (webrtc[q] => branch[q] # "none")
    BY DEF Types, PeerTypeOK, CandidatesInv, CandidateInv
  <1>b. ASSUME \A q \in Peers : WaysKept(q) /\ KeptOf(q), UNCHANGED <<branch, webrtc>>
        PROVE  CandidatesInv'
    BY <1>a, <1>b, CandidateKept DEF CandidatesInv
  <1>c. ASSUME gst'.idle = gst.idle, UNCHANGED <<branch, webrtc, ice>>
        PROVE  CandidatesInv'
    <2>1. \A q \in Peers : KeptOf(q)
      BY <1>c DEF KeptOf
    <2> QED BY <1>b, <1>c, <2>1, WaysKeptSame
  <1>d. ASSUME NEW p \in Peers, NEW kind \in {"add", "remove", "set_remote"},
               gst' = Scheduled(kind, p), \A q \in Peers : KeptOf(q), UNCHANGED <<branch, webrtc>>
        PROVE  CandidatesInv'
    <2>1. gst'.idle = Append(gst.idle, [kind |-> kind, peer |-> p])
      BY <1>a, <1>d DEF Scheduled, Gsts
    <2> QED BY <1>a, <1>b, <1>d, <2>1, WaysKeptAppend
  <1>1. CASE Start \/ StartReturns \/ CallStop \/ StopStep \/ ServerStep \/ OnBusError
             \/ BroadcastStep \/ UNCHANGED vars
    <2>1. gst'.idle = gst.idle /\ UNCHANGED <<branch, webrtc, ice>>
      BY <1>a, <1>1
         DEF Start, StartReturns, CallStop, StopStep, StopAgain, SignalStop, JoinServer, QuitGst,
             ServerStep, CreateLoop, Listen, CloseServer, EndServer, OnBusError,
             BroadcastStep, Broadcast, TellPeer, peerVars, vars, Gsts
    <2> QED BY <1>c, <2>1
  <1>2. ASSUME NEW p \in Peers, HandlerStep(p) \/ Send(p) PROVE CandidatesInv'
    <2>1. CASE AwaitAdd(p) \/ PutReady(p) \/ AwaitRemove(p) \/ Send(p)
      BY <1>c, <2>1 DEF AwaitAdd, PutReady, AwaitRemove, Send
    <2>2. CASE EndServing(p)
      <3>1. UNCHANGED <<branch, webrtc, ice>> /\ (EndAtOnce(p) \/ RemovePeer(p))
        BY <2>2 DEF EndServing
      <3>2. CASE EndAtOnce(p)
        BY <1>c, <3>1, <3>2 DEF EndAtOnce
      <3>3. CASE RemovePeer(p)
        BY <1>d, <3>1, <3>3 DEF RemovePeer, KeptOf
      <3> QED BY <3>1, <3>2, <3>3
    <2> QED BY <1>2, <2>1, <2>2 DEF HandlerStep
  <1>3. ASSUME NEW p \in Peers, BrowserStep(p) PROVE CandidatesInv'
    <2>1. CASE HangUp(p) \/ OnRequest(p)
      BY <1>c, <2>1 DEF HangUp, OnRequest
    <2>2. CASE OnConnect(p)
      <3>1. UNCHANGED <<branch, webrtc, ice>> /\ (gst' = gst \/ gst' = Scheduled("add", p))
        BY <2>2 DEF OnConnect
      <3>2. \A q \in Peers : KeptOf(q)
        BY <3>1 DEF KeptOf
      <3> QED BY <1>c, <1>d, <3>1, <3>2
    <2>3. CASE OnAnswer(p)
      <3>1. \A q \in Peers : KeptOf(q)
        BY <1>a, <2>3 DEF OnAnswer, KeptOf, Ices
      <3> QED BY <1>d, <2>3, <3>1 DEF OnAnswer
    <2>4. ASSUME NEW c \in Candidates, OnIce(p, c) PROVE CandidatesInv'
      BY <2>4, CandidateComes
    <2> QED BY <1>3, <2>1, <2>2, <2>3, <2>4 DEF BrowserStep
  <1>4. ASSUME NEW p \in Peers, SignalStep(p) PROVE CandidatesInv'
    BY <1>c, <1>4 DEF SignalStep, OnNegotiationNeeded, CreateOffer, OnIceCandidate
  <1>5. ASSUME NEW p \in Peers, WebRtcStep(p) PROVE CandidatesInv'
    <2>1. CASE OnOfferCreated(p) \/ OnLocalDescriptionSet(p)
      BY <1>c, <2>1 DEF OnOfferCreated, OnLocalDescriptionSet
    <2>2. CASE OnRemoteDescriptionSet(p)
      <3>1. /\ UNCHANGED <<branch, webrtc>>
            /\ UNCHANGED <<ice, gst>> \/ (webrtc[p] /\ AcceptAnswer(p))
        BY <2>2 DEF OnRemoteDescriptionSet
      <3>2. CASE UNCHANGED <<ice, gst>>
        BY <1>c, <3>1, <3>2
      <3>3. CASE webrtc[p] /\ AcceptAnswer(p)
        BY <3>1, <3>3, CandidatesScheduled
      <3> QED BY <3>1, <3>2, <3>3
    <2> QED BY <1>5, <2>1, <2>2 DEF WebRtcStep
  <1>6. ASSUME NEW p \in Peers, GstStep(p) PROVE CandidatesInv'
    BY <1>6, CandidatesGst
  <1> QED BY <1>1, <1>2, <1>3, <1>4, <1>5, <1>6 DEF Next

(* A set of one element at most has its cardinality. *)
LEMMA OneAtMost ==
  ASSUME NEW S, AtMostOne(S)
  PROVE  Cardinality(S) = IF S = {} THEN 0 ELSE 1
  <1>1. CASE S = {}
    BY <1>1, FS_EmptySet
  <1>2. CASE S # {}
    <2>1. PICK x \in S : S = {x}
      BY <1>2 DEF AtMostOne
    <2> QED BY <1>2, <2>1, FS_Singleton
  <1> QED BY <1>1, <1>2

(* None of a peer's candidates is lost or doubled, for any number of peers *)
(* and candidates and however often a description is set                   *)
(* (_handle_peer_message, _on_remote_description_set).                     *)
THEOREM CandidatesOnceHolds == Spec => []CandidatesOnce
  <1>1. ASSUME CandidatesInv PROVE CandidatesOnce
    <2> SUFFICES ASSUME NEW p \in Peers, webrtc[p]
                 PROVE  /\ ice[p].remoteSet => ice[p].pending = <<>>
                        /\ \A c \in Candidates :
                             Cardinality(Places(ice[p].pending, c)) + Cardinality(Way(p, c))
                               + ice[p].added[c]
                             = IF c \in ice[p].received THEN 1 ELSE 0
      BY DEF CandidatesOnce, OnItsWay, Way, Places
    <2>1. CandidateInv(p)
      BY <1>1 DEF CandidatesInv
    <2>2. ASSUME NEW c \in Candidates
          PROVE  Cardinality(Places(ice[p].pending, c)) + Cardinality(Way(p, c)) + ice[p].added[c]
                 = IF c \in ice[p].received THEN 1 ELSE 0
      <3>1. IsOnce(Places(ice[p].pending, c), Way(p, c), ice[p].added[c], c \in ice[p].received)
        BY <2>1 DEF CandidateInv
      <3> QED BY <3>1, OneAtMost DEF IsOnce
    <2> QED BY <2>1, <2>2 DEF CandidateInv
  <1>2. Init => Types
    BY TypeInit, TypesOK
  <1> QED BY <1>1, <1>2, TypeStep, PeersInit, PeersStep, CandidatesInit, CandidatesStep, PTL DEF Spec
=============================================================================
