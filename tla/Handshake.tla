----------------------------- MODULE Handshake -----------------------------
(***************************************************************************)
(* Two peers, A and B, that run this library against one signal server:    *)
(* how a Connect() of either becomes a pair of sessions that talk to each  *)
(* other, and how the end of one session ends the other.  Control and      *)
(* PeerControl are those of PeerApi; here both ends are modelled, the      *)
(* server relays between them, and WebRTC connects a session only with the *)
(* one whose description it holds.                                         *)
(*                                                                         *)
(* A Control has the name of its peer, and a session <<r, g>> is the g-th  *)
(* PeerControl with remote_id_ r, owned by the other peer.  Both peers     *)
(* have been opened; the loss of a signal connection is PeerApi's subject. *)
(***************************************************************************)
EXTENDS Control

CONSTANTS A, B,
          MaxJoins,      \* per peer, bound on the application's Connect()s
          MaxTroubles    \* bound on what is undone or goes wrong, in all

ASSUME PeersAssumption == A # B /\ Controls = {A, B} /\ Remotes = Controls
ASSUME BoundsAssumption == MaxJoins \in [Controls -> Nat] /\ MaxTroubles \in Nat

Other(p) == IF p = A THEN B ELSE A
NoSession == <<NoControl, NoGen>>

VARIABLES
  far,       \* per session, the session whose description it has as remote
  ice,       \* per session, WebRTC has reported kIceConnectionConnected
  wire,      \* per peer, what the server has sent and is still on its way
  link,      \* per peer, the last event about the other: "up" or "down"
  joins,     \* per peer, the Connect() calls made
  troubles   \* closes, lost transports and refusals so far

netVars == <<far, ice, wire>>
history == <<joins, troubles>>
vars == <<session, controlVars, netVars, link, history>>

(* offersdp and answersdp, with the session that has made the description. *)
Sdps == [kind : {"offersdp", "answersdp"}, ids : {{A}, {B}}, ok : {TRUE},
         ref : BOOLEAN, from : Sessions]
Sdp(kind, p, s) == [kind |-> kind, ids |-> {p}, ok |-> TRUE, ref |-> TRUE, from |-> s]

TypeOK ==
  /\ SessionTypeOK
  /\ ctl \in [Controls -> {"ready", "destroyed"}]
  /\ peer_ \in [Controls -> BOOLEAN]
  /\ peers_ \in [Controls -> [Remotes -> Gens \cup {NoGen}]]
  /\ queue \in [Controls -> Seq(Messages \cup Sdps)]
  /\ wire \in [Controls -> Seq(Messages \cup Sdps)]
  /\ far \in [Sessions -> Sessions \cup {NoSession}]
  /\ ice \in [Sessions -> BOOLEAN]
  /\ link \in [Controls -> {"down", "up"}]
  /\ joins \in [Controls -> Nat] /\ troubles \in Nat

Init ==
  /\ SessionInit
  /\ ctl = [c \in Controls |-> "ready"] /\ peer_ = [c \in Controls |-> TRUE]
  /\ peers_ = [c \in Controls |-> NoPeers] /\ queue = [c \in Controls |-> <<>>]
  /\ far = [s \in Sessions |-> NoSession] /\ ice = [s \in Sessions |-> FALSE]
  /\ wire = [c \in Controls |-> <<>>] /\ link = [c \in Controls |-> "down"]
  /\ joins = [c \in Controls |-> 0] /\ troubles = 0

(* Something is undone or goes wrong.                                      *)
Trouble == troubles < MaxTroubles /\ troubles' = troubles + 1 /\ UNCHANGED joins

-----------------------------------------------------------------------------
(* The application of peer p.                                              *)

(* Peer::Connect.  The server answers; if the channel of the other peer is *)
(* there it lets that peer make an offer ("Server(remote) peer             *)
(* createoffer").                                                          *)
Connect(p) ==
  /\ peer_[p] /\ joins[p] < MaxJoins[p]
  /\ joins' = [joins EXCEPT ![p] = @ + 1]
  /\ LET q == Other(p)
         reply == Append(wire[p], Message("channeljoin", {q}, peer_[q]))
         offer == Append(wire[q], Message("createoffer", {p}, TRUE))
     IN wire' = IF peer_[q] THEN [wire EXCEPT ![p] = reply, ![q] = offer]
                            ELSE [wire EXCEPT ![p] = reply]
  /\ UNCHANGED <<session, controlVars, far, ice, link, troubles>>

(* Peer::Close(r) and Peer::Close().                                       *)
ClosePeer(p) ==
  /\ peer_[p] /\ HasRoom(p) /\ Trouble
  /\ queue' = [queue EXCEPT ![p] = Posted(p, Message("MSG_CLOSE_PEER", {Other(p)}, TRUE))]
  /\ UNCHANGED <<session, ctl, peer_, peers_, netVars, link>>

Close(p) ==
  /\ peer_[p] /\ HasRoom(p) /\ Trouble
  /\ queue' = [queue EXCEPT ![p] = Posted(p, Message("MSG_CLOSE", {}, TRUE))]
  /\ UNCHANGED <<session, ctl, peer_, peers_, netVars, link>>

-----------------------------------------------------------------------------
(* The server, and Control::OnMessage.                                     *)

(* A command reaches c's Control, unless c has closed its connection.      *)
Receive(c) ==
  /\ wire[c] # <<>> /\ HasRoom(c)
  /\ wire' = [wire EXCEPT ![c] = Tail(@)]
  /\ queue' = IF peer_[c] THEN [queue EXCEPT ![c] = Posted(c, Head(wire[c]))] ELSE queue
  /\ UNCHANGED <<session, ctl, peer_, peers_, far, ice, link, history>>

Dispatches(c, kinds) == /\ ctl[c] = "ready" /\ queue[c] # <<>>
                        /\ Head(queue[c]).kind \in kinds
Ids(c) == Head(queue[c]).ids

(* Peer::control_ is the Control for as long as it is registered.          *)
Handled(c, map, ss) ==
  /\ UNCHANGED peer_
  /\ EndMessage(c, IF peer_[c] THEN c ELSE NoControl, map, ss, <<>>)

Told(c) == IF peer_[c] THEN [link EXCEPT ![c] = "down"] ELSE link

(* Control::OnChannelJoin: a refusal is a close event.                     *)
HandleChannelJoin(c) ==
  /\ Dispatches(c, {"channeljoin"})
  /\ link' = IF Head(queue[c]).ok THEN link ELSE Told(c)
  /\ Handled(c, peers_[c], session)
  /\ UNCHANGED <<netVars, history>>

(* Control::CreateOffer and ReceiveOfferSdp: a new session, which becomes  *)
(* the one of peers_ if there is none; or Initialize() fails.              *)
HandleOffer(c) ==
  /\ Dispatches(c, {"createoffer", "offersdp"})
  /\ \/ \E r \in Ids(c) : \E g \in Fresh(r) :
          LET offered == Head(queue[c]).kind = "offersdp"
          IN /\ far' = IF offered THEN [far EXCEPT ![<<r, g>>] = Head(queue[c]).from]
                       ELSE far
             /\ Handled(c, Inserted(c, [x \in {r} |-> g]),
                        Started({<<r, g>>}, c, IF offered THEN "kAnswer" ELSE "kOffer"))
             /\ UNCHANGED <<link, history>>
     \/ /\ Trouble /\ link' = Told(c)
        /\ Handled(c, peers_[c], session)
        /\ UNCHANGED far
  /\ UNCHANGED <<ice, wire>>

(* Control::ReceiveAnswerSdp, for the session of peers_, whichever session *)
(* the answer is meant for; WebRTC refuses it unless it waits for one.     *)
HandleAnswerSdp(c) ==
  /\ Dispatches(c, {"answersdp"})
  /\ LET r == Other(c)
         s == SessionOf(c, r)
         answered == r \in Known(c) /\ session[s].sdp = {"local"}
     IN /\ far' = IF answered THEN [far EXCEPT ![s] = Head(queue[c]).from] ELSE far
        /\ Handled(c, peers_[c], IF r \in Known(c) THEN Answered(s) ELSE session)
  /\ UNCHANGED <<ice, wire, link, history>>

(* After leavechannel, or when its connection ends, the server may send    *)
(* peerclosed to the other peer.                                           *)
Leaves(c) ==
  \/ UNCHANGED wire
  \/ /\ peer_[Other(c)]
     /\ wire' = [wire EXCEPT ![Other(c)] = Append(@, Message("peerclosed", {c}, TRUE))]

(* Control::ClosePeer.                                                     *)
HandleClosePeer(c) ==
  /\ Dispatches(c, {"MSG_CLOSE_PEER", "peerclosed"})
  /\ IF Ids(c) \cap Known(c) = {}
     THEN Handled(c, peers_[c], session) /\ UNCHANGED <<wire, link>>
     ELSE /\ link' = Told(c) /\ Leaves(c)
          /\ Handled(c, Erased(c, Ids(c)), Closed(SessionsOf(c, Ids(c))))
  /\ UNCHANGED <<far, ice, history>>

(* Control::Close, then Peer::OnClose lets go of the Control.              *)
HandleClose(c) ==
  /\ Dispatches(c, {"MSG_CLOSE"})
  /\ link' = Told(c) /\ Leaves(c)
  /\ peer_' = [peer_ EXCEPT ![c] = FALSE]
  /\ EndMessage(c, NoControl, NoPeers, Closed(SessionsOf(c, Known(c))), <<>>)
  /\ UNCHANGED <<far, ice, history>>

-----------------------------------------------------------------------------
(* WebRTC and its callbacks into the sessions.                             *)

(* PeerControl::OnSuccess sends the description (that it may do so through *)
(* a destroyed Control is PeerApi's fault "dangling_control").             *)
OnSuccess(s) ==
  LET c == session[s].observer
      kind == IF session[s].desc = "kOffer" THEN "offersdp" ELSE "answersdp"
  IN /\ session[s].desc # "none"
     /\ SendsDescription(s) => ctl[c] = "ready"
     /\ wire' = IF SendsDescription(s) /\ peer_[c] /\ peer_[s[1]]
                THEN [wire EXCEPT ![s[1]] = Append(@, Sdp(kind, c, s))]
                ELSE wire
     /\ session' = Reaped(Described(s), Mapped(peers_))
     /\ UNCHANGED <<controlVars, far, ice, link, history>>

OnFailure(s) ==
  /\ session[s].desc # "none" /\ Trouble
  /\ session' = Reaped(Refused(s), Mapped(peers_))
  /\ UNCHANGED <<controlVars, netVars, link>>

(* s and the session it has the description of have each other's, and      *)
(* both are there.                                                         *)
Wired(s) == LET t == far[s]
            IN /\ Negotiated(s)
               /\ t # NoSession /\ far[t] = s
               /\ Negotiated(t)

IceConnected(s) ==
  /\ ~ice[s] /\ Wired(s)
  /\ ice' = [ice EXCEPT ![s] = TRUE]
  /\ UNCHANGED <<session, controlVars, far, wire, link, history>>

DataChannelArrives(s) ==
  /\ ice[s] /\ Wired(s) /\ OnDataChannel(s)
  /\ UNCHANGED <<controlVars, netVars, link, history>>

DataChannelOpens(s) ==
  /\ ice[s] /\ Wired(s) /\ OnStateChange(s)
  /\ LET c == session[s].observer
     IN link' = IF session'[s].state_ = "pOpen" /\ peer_[c]
                THEN [link EXCEPT ![c] = "up"] ELSE link
  /\ UNCHANGED <<controlVars, netVars, history>>

(* The other end has closed its session, or has lost the transport, which  *)
(* this end may come to see as well.                                       *)
Gone(s) == ~Wired(s) \/ session[far[s]].down

(* Mutant: only kIceConnectionClosed is handled, which does not come.      *)
OnPeerDisconnectedIgnored(s) ==
  /\ Negotiated(s) /\ ice[s] /\ HasRoom(session[s].observer)
  /\ \/ Gone(s) /\ ~session[s].down /\ UNCHANGED history
     \/ Trouble
  /\ session' = [session EXCEPT ![s] = [@ EXCEPT !.down = TRUE]]
  /\ UNCHANGED <<controlVars, netVars, link>>

(* PeerControl::OnPeerDisconnected: the other end is gone, or the          *)
(* transport is lost or its end is reported again.  A connection that has  *)
(* not come up only becomes kIceConnectionFailed, which is ignored.        *)
OnPeerDisconnected(s) ==
  LET c == session[s].observer
  IN /\ Negotiated(s) /\ ice[s] /\ HasRoom(c)
     /\ \/ Gone(s) /\ ~session[s].down /\ UNCHANGED history
        \/ Trouble
     /\ session' = [session EXCEPT ![s] = [@ EXCEPT !.down = TRUE]]
     /\ queue' = IF AsksToClose(session[s].state_)
                 THEN [queue EXCEPT ![c] = Posted(c, GoingAway({s[1]}))]
                 ELSE queue
     /\ UNCHANGED <<ctl, peer_, peers_, netVars, link>>

-----------------------------------------------------------------------------
Calls(p) == Connect(p) \/ ClosePeer(p) \/ Close(p)

Dispatch(c) == \/ HandleChannelJoin(c) \/ HandleOffer(c) \/ HandleAnswerSdp(c)
               \/ HandleClosePeer(c) \/ HandleClose(c)

Callbacks(s) == \/ OnSuccess(s) \/ OnFailure(s) \/ IceConnected(s)
                \/ DataChannelArrives(s) \/ DataChannelOpens(s)
                \/ OnPeerDisconnected(s)

Next == \/ \E c \in Controls : Calls(c) \/ Receive(c) \/ Dispatch(c)
        \/ \E s \in Sessions : Callbacks(s)

Spec == Init /\ [][Next]_vars

(* The network delivers, the webrtc threads serve their queues, and WebRTC *)
(* answers its requests, connects what can be connected and notices that   *)
(* the other end of a connection has closed it.  A transport that is lost  *)
(* is trouble, and never has to come.                                      *)
Fairness ==
  /\ \A c \in Controls : WF_vars(Receive(c)) /\ WF_vars(Dispatch(c))
  /\ \A s \in Sessions :
       /\ WF_vars(OnSuccess(s)) /\ WF_vars(IceConnected(s))
       /\ WF_vars(DataChannelArrives(s)) /\ WF_vars(DataChannelOpens(s))
       /\ WF_vars(~Wired(s) /\ OnPeerDisconnected(s) /\ UNCHANGED history)

FairSpec == Spec /\ Fairness

-----------------------------------------------------------------------------
(* Properties.                                                             *)

(* When both applications believe the link up, the two sessions that       *)
(* Send() would use are each other's counterpart, whatever duplicates were *)
(* made and whatever close notices are still queued (peers_.insert keeps   *)
(* the first session, and a duplicate dies with its request).              *)
Current(p) == SessionOf(p, Other(p))
SameConnection ==
  link[A] = "up" /\ link[B] = "up" =>
    far[Current(A)] = Current(B) /\ far[Current(B)] = Current(A)

(* A connection that is open on one side only becomes open on both or on   *)
(* neither: no peer keeps a session that the other has given up            *)
(* (OnPeerDisconnected and the queued ClosePeer).                          *)
Up(p) == Other(p) \in Known(p) /\ session[Current(p)].state_ = "pOpen"
HalfOpenEnds == Up(A) # Up(B) ~> (Up(A) <=> Up(B))

(* A Connect() by one side alone, with nothing undone or going wrong, ends *)
(* with a connect event on both (the four steps in Control::Connect).      *)
Alone(p) == joins[p] = 1 /\ joins[Other(p)] = 0 /\ troubles = 0
ConnectSucceeds ==
  \A p \in Controls :
    Alone(p) ~> (link[A] = "up" /\ link[B] = "up") \/ ~Alone(p)

(* The comment in Control::Connect lists "1. Join channel on signal        *)
(* server" to "4. Connect datachannel": with nothing undone or going       *)
(* wrong, what Connect() starts ends with an open data channel.            *)
EveryConnectSucceeds ==
  \A p \in Controls : joins[p] > 0 ~> link[p] = "up" \/ troubles > 0
=============================================================================
