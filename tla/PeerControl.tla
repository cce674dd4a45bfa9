---------------------------- MODULE PeerControl ----------------------------
(***************************************************************************)
(* Class PeerControl (peer.cc): the sessions with remote peers.  A session *)
(* is one PeerControl object, named by its remote_id_ and a generation, so *)
(* that two objects made for the same remote peer are told apart.          *)
(*                                                                         *)
(* All of PeerControl runs on the thread that opened the Peer (it is       *)
(* WebRTC's signaling thread too), one callback at a time; pClosing is     *)
(* therefore only seen by the callbacks that Close() itself provokes.      *)
(***************************************************************************)
EXTENDS Naturals

CONSTANTS Remotes,     \* ids of remote peers
          Gens,        \* generations: bounds the sessions made per remote
          Controls,    \* Control objects: bounds the successful or failed Open()s
          NoControl    \* the null std::shared_ptr<Control>

NoGen == 0             \* "no entry" in Control::peers_

ASSUME GensAssumption == Gens \subseteq Nat \ {NoGen}
ASSUME ControlsAssumption == NoControl \notin Controls

Sessions == Remotes \X Gens

VARIABLE session       \* the members of every PeerControl object

(***************************************************************************)
(*   state_    "unborn" before the constructor; "aborted": destroyed in a  *)
(*             state other than pClosed (the assertion at peer.cc:34)      *)
(*   observer  PeerControl::control_                                       *)
(*   desc      the CreateOffer or CreateAnswer WebRTC has yet to answer    *)
(*   sdp       the descriptions that are set                               *)
(*   local_data_channel_, remote_data_channel_                             *)
(*   down      WebRTC has reported the transport disconnected or closed    *)
(***************************************************************************)
States == {"unborn", "pConnecting", "pOpen", "pClosed", "aborted"}
Active == {"pConnecting", "pOpen"}
ChannelStates == {"absent", "connecting", "open"}

SessionRecords ==
  [state_ : States, observer : Controls \cup {NoControl},
   desc : {"none", "kOffer", "kAnswer"}, sdp : SUBSET {"local", "remote"},
   local_data_channel_ : ChannelStates, remote_data_channel_ : ChannelStates,
   down : BOOLEAN]

(* A session without a peer_connection_, in state st.                      *)
Bare(st, ds) ==
  [state_ |-> st, observer |-> NoControl, desc |-> ds, sdp |-> {},
   local_data_channel_ |-> "absent", remote_data_channel_ |-> "absent",
   down |-> FALSE]

SessionTypeOK == session \in [Sessions -> SessionRecords]

SessionInit == session = [s \in Sessions |-> Bare("unborn", "none")]

-----------------------------------------------------------------------------
(* The generation that the next constructor call for r makes.              *)
Fresh(r) == {g \in Gens : /\ session[<<r, g>>].state_ = "unborn"
                          /\ \A h \in Gens : h < g =>
                               session[<<r, h>>].state_ # "unborn"}

(* Constructor and Initialize() by Control c: the session has a            *)
(* peer_connection_ and its own data channel, and is still pClosed.        *)
Initialized(c) == [Bare("pClosed", "none") EXCEPT
                     !.observer = c, !.local_data_channel_ = "connecting"]

(* Then, for the sessions S, CreateOffer() (type kOffer) or                *)
(* ReceiveOfferSdp(), which sets the remote description and calls          *)
(* CreateAnswer() (type kAnswer).                                          *)
Started(S, c, type) ==
  [s \in Sessions |->
     IF s \in S
     THEN [Initialized(c) EXCEPT
             !.state_ = "pConnecting", !.desc = type,
             !.sdp = IF type = "kAnswer" THEN {"remote"} ELSE {}]
     ELSE session[s]]

(* Mutant: only an open session can be disconnected.                       *)
AsksToCloseWhenOpen(st) == st = "pOpen"

(* PeerControl::OnPeerDisconnected in state st: does it ask the Control    *)
(* to close the session?                                                   *)
AsksToClose(st) == st \notin {"pClosed", "pClosing"}

(* Mutant: Close() does not get past pClosing.                             *)
ClosedHalfway(S) ==
  [s \in Sessions |->
     IF s \in S /\ session[s].state_ \notin {"pClosing", "pClosed"}
     THEN Bare("pClosing", session[s].desc) ELSE session[s]]

(* PeerControl::Close of the sessions S: peer_connection_ is released and  *)
(* state_ becomes pClosed, unless it was closing or closed.  What WebRTC   *)
(* calls back meanwhile finds pClosing, and OnPeerDisconnected returns     *)
(* (AsksToClose).  A pending CreateOffer or CreateAnswer may still be      *)
(* answered.                                                               *)
Closed(S) ==
  [s \in Sessions |->
     IF s \in S /\ session[s].state_ \notin {"pClosing", "pClosed"}
     THEN Bare("pClosed", session[s].desc) ELSE session[s]]

(* ~PeerControl of the sessions in ss that nothing holds any more: neither *)
(* a peers_ map (mapped) nor a pending CreateOffer or CreateAnswer.        *)
Reaped(ss, mapped) ==
  [s \in Sessions |->
     IF ss[s].state_ \in Active /\ s \notin mapped /\ ss[s].desc = "none"
     THEN Bare("aborted", "none") ELSE ss[s]]

(* PeerControl::ReceiveAnswerSdp of session s.  SetRemoteDescription is    *)
(* refused by WebRTC, silently, unless the local offer has been set.       *)
Answered(s) ==
  IF "local" \in session[s].sdp
  THEN [session EXCEPT ![s] = [@ EXCEPT !.sdp = {"local", "remote"}]]
  ELSE session

(* PeerControl::OnSuccess: the answer of CreateOffer or CreateAnswer.  The *)
(* local description is set and sent, unless state_ is not pConnecting.    *)
SendsDescription(s) == session[s].state_ = "pConnecting"
Described(s) ==
  IF SendsDescription(s)
  THEN [session EXCEPT ![s] = [@ EXCEPT !.desc = "none",
                                        !.sdp = session[s].sdp \cup {"local"}]]
  ELSE [session EXCEPT ![s] = [@ EXCEPT !.desc = "none"]]

(* PeerControl::OnFailure does nothing but end the request.                *)
Refused(s) == [session EXCEPT ![s] = [@ EXCEPT !.desc = "none"]]

(* Both descriptions are set: WebRTC may open data channels and may report *)
(* a disconnection.                                                        *)
Negotiated(s) == /\ session[s].state_ \in Active
                 /\ session[s].sdp = {"local", "remote"}

(* PeerControl::OnDataChannel: the remote peer's channel is attached.  A   *)
(* disconnection may be transient: it does not keep channels from coming   *)
(* and opening before the session is closed for it.                        *)
OnDataChannel(s) ==
  /\ Negotiated(s)
  /\ session[s].remote_data_channel_ = "absent"
  /\ session' = [session EXCEPT ![s] =
                   [@ EXCEPT !.remote_data_channel_ = "connecting"]]

(* PeerDataChannelObserver::OnStateChange(kOpen) of one of the channels.   *)
(* PeerControl::OnPeerOpened, which it signals, opens the session when     *)
(* both channels are open.                                                 *)
BothOpen(x) == x.local_data_channel_ = "open" /\ x.remote_data_channel_ = "open"
Opened(x) == IF BothOpen(x) THEN [x EXCEPT !.state_ = "pOpen"] ELSE x

(* Mutant: only the session's own channel signals OnPeerOpened.            *)
OnStateChangeOwnSignal(s) ==
  /\ Negotiated(s)
  /\ \/ /\ session[s].local_data_channel_ = "connecting"
        /\ session' = [session EXCEPT ![s] =
                         Opened([@ EXCEPT !.local_data_channel_ = "open"])]
     \/ /\ session[s].remote_data_channel_ = "connecting"
        /\ session' = [session EXCEPT ![s] =
                         [@ EXCEPT !.remote_data_channel_ = "open"]]

OnStateChange(s) ==
  /\ Negotiated(s)
  /\ \/ /\ session[s].local_data_channel_ = "connecting"
        /\ session' = [session EXCEPT ![s] =
                         Opened([@ EXCEPT !.local_data_channel_ = "open"])]
     \/ /\ session[s].remote_data_channel_ = "connecting"
        /\ session' = [session EXCEPT ![s] =
                         Opened([@ EXCEPT !.remote_data_channel_ = "open"])]
=============================================================================
