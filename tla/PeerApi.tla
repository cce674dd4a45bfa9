------------------------------ MODULE PeerApi ------------------------------
(***************************************************************************)
(* Class Peer (peerapi.cc) over its Control objects, their sessions and    *)
(* the signal connection, driven by the application, the signal server and *)
(* WebRTC.  Three threads take part:                                       *)
(*   - the webrtc thread (it called Open() and Run()) serves the Controls' *)
(*     queues, runs WebRTC's callbacks and the application's handlers;     *)
(*   - the application's own thread, which may call Close, Connect...;     *)
(*   - the network thread of Signal, which raises the signal's events.     *)
(* A step of the webrtc thread is one message or callback.  It is not cut  *)
(* by the other threads, except where it blocks: in the join of SyncClose. *)
(***************************************************************************)
EXTENDS Control, SignalContract

CONSTANTS Inbound,     \* the remotes that may join this peer's channel
          Self         \* peer_id_, the name of the local peer

ASSUME InboundAssumption == Inbound \subseteq Remotes
ASSUME SelfAssumption == Self \notin Remotes

VARIABLES
  control_,    \* Peer::control_
  close_once_, \* Peer::close_once_
  local,       \* the last event of the local peer, "idle" before the first;
               \* "closed_again" is a close that follows a close
  link,        \* per remote, the last event: "up" (connect) or "down" (close)
  thread,      \* webrtc thread: "idle", blocked in SyncClose called from its
               \* top level ("join") or from the handler of the local close
               \* event ("join_close"), or back in that handler ("resume")
  app,         \* application thread: "idle", inside Close() between posting
               \* MSG_CLOSE and SyncClose() ("syncclose"), or in its "join"
  owed,        \* <<command, id>> that the signal server may still send
  channel,     \* the server has created this peer's channel
  fault        \* undefined behaviour the program has run into, or "none"

peerVars == <<control_, close_once_, local, link>>
threadVars == <<thread, app>>
serverVars == <<owed, channel>>
vars == <<session, controlVars, sigVars, peerVars, threadVars, serverVars, fault>>

Faults == {"none",
           "null_control",      \* Peer's control_-> with control_ null
           "null_observer",     \* Control's peer_-> with peer_ null
           "dangling_control",  \* PeerControl's control_-> of a destroyed Control
           "wild_thread",       \* webrtc_thread_-> never initialized
           "double_join"}       \* two threads join network_thread_

TypeOK ==
  /\ SessionTypeOK /\ ControlTypeOK /\ SigTypeOK
  /\ control_ \in Controls \cup {NoControl}
  /\ close_once_ \in BOOLEAN
  /\ local \in {"idle", "open", "closed", "closed_again"}
  /\ link \in [Remotes -> {"down", "up"}]
  /\ thread \in {"idle", "join", "join_close", "resume"}
  /\ app \in {"idle", "syncclose", "join"}
  /\ owed \subseteq Commands \X (Remotes \cup {Self})
  /\ channel \in BOOLEAN
  /\ fault \in Faults

Init ==
  /\ SessionInit /\ ControlInit /\ SigInit
  /\ control_ = NoControl /\ close_once_ = FALSE
  /\ local = "idle" /\ link = [r \in Remotes |-> "down"]
  /\ thread = "idle" /\ app = "idle"
  /\ owed = {} /\ channel = FALSE /\ fault = "none"

Fault(kind) == /\ fault' = kind
               /\ UNCHANGED <<session, controlVars, sigVars, peerVars,
                              threadVars, serverVars>>

(* Signal::SendCommand: dropped unless opened.  S is what the server will  *)
(* send because of the command.                                            *)
Send(S) == /\ owed' = IF sig = "opened" THEN owed \cup S ELSE owed
           /\ UNCHANGED channel

-----------------------------------------------------------------------------
(* The Peer's methods.                                                     *)

(* Peer::Open on the webrtc thread; it returns at once if control_ is set. *)
Open(c) ==
  /\ thread = "idle" /\ control_ = NoControl /\ ctl[c] = "unborn"
  /\ IF sig = "closing"
     THEN Fault("double_join")
     ELSE /\ ctl' = [ctl EXCEPT ![c] = "ready"]
          /\ peer_' = [peer_ EXCEPT ![c] = TRUE]
          /\ control_' = c
          /\ SigConnect
          /\ UNCHANGED <<session, peers_, queue, close_once_, local, link,
                         threadVars, serverVars, fault>>

(* Peer::Open when InitializeControl fails: control_ is reset, but the     *)
(* Control keeps itself alive through ref_ and stays connected.            *)
OpenFails(c) ==
  /\ thread = "idle" /\ control_ = NoControl /\ ctl[c] = "unborn"
  /\ ctl' = [ctl EXCEPT ![c] = "leaked"]
  /\ peer_' = [peer_ EXCEPT ![c] = TRUE]
  /\ UNCHANGED <<session, peers_, queue, sigVars, peerVars, threadVars,
                 serverVars, fault>>

CloseMessage == Message("MSG_CLOSE", {}, TRUE)

SomeThreadFree == thread = "idle" \/ app = "idle"

(* Close, Connect or Send after the local close event has reset control_:  *)
(* none of them tests the pointer.                                         *)
CallWithoutControl ==
  SomeThreadFree /\ control_ = NoControl /\ Fault("null_control")

(* Peer::Close() by the application thread: the message, then SyncClose.   *)
CloseByApp ==
  /\ app = "idle" /\ control_ # NoControl /\ HasRoom(control_)
  /\ queue' = [queue EXCEPT ![control_] = Posted(control_, CloseMessage)]
  /\ app' = "syncclose"
  /\ UNCHANGED <<session, ctl, peer_, peers_, sigVars, peerVars, thread,
                 serverVars, fault>>

SyncCloseByApp ==
  /\ app = "syncclose"
  /\ \/ SigSyncClose /\ app' = "join"
     \/ sig # "opened" /\ app' = "idle" /\ UNCHANGED sigVars
  /\ UNCHANGED <<session, controlVars, peerVars, thread, serverVars, fault>>

(* Peer::Close() from a handler, or between messages, on the webrtc thread *)
(* (the handler of the local close event is in OnCloseLocal below).        *)
CloseByHandler ==
  /\ thread = "idle" /\ control_ # NoControl /\ HasRoom(control_)
  /\ queue' = [queue EXCEPT ![control_] = Posted(control_, CloseMessage)]
  /\ \/ SigSyncClose /\ thread' = "join"
     \/ sig # "opened" /\ UNCHANGED <<thread, sigVars>>
  /\ UNCHANGED <<session, ctl, peer_, peers_, peerVars, app, serverVars, fault>>

(* Peer::Close(r).                                                         *)
ClosePeer(r) ==
  /\ SomeThreadFree /\ control_ # NoControl /\ HasRoom(control_)
  /\ queue' = [queue EXCEPT ![control_] =
                 Posted(control_, Message("MSG_CLOSE_PEER", {r}, TRUE))]
  /\ UNCHANGED <<session, ctl, peer_, peers_, sigVars, peerVars,
                 threadVars, serverVars, fault>>

(* Peer::Connect(r): Control::JoinChannel.                                 *)
Connect(r) ==
  /\ SomeThreadFree /\ control_ # NoControl
  /\ Send({<<"channeljoin", r>>})
  /\ UNCHANGED <<session, controlVars, sigVars, peerVars, threadVars, fault>>

-----------------------------------------------------------------------------
(* The signal connection and the server.  Events are raised on the network *)
(* thread to every Control still connected to the Signal's slots.          *)

(* Signal::OnOpen sends the open command.                                  *)
SignalOpened ==
  /\ SigOpened
  /\ owed' = {<<"open", Self>>} /\ channel' = FALSE
  /\ UNCHANGED <<session, controlVars, peerVars, threadVars, fault>>

(* A Control whose InitializeControl failed is connected too, and posts    *)
(* what is raised to a thread pointer that was never set.                  *)
Leaked == \E c \in Controls : ctl[c] = "leaked"
WildPost == Leaked /\ sig # "idle" /\ Fault("wild_thread")

Raises == ~Leaked /\ \A c \in Controls : ctl[c] = "ready" => HasRoom(c)
Raise(m) == /\ Broadcast(m)
            /\ UNCHANGED <<session, ctl, peer_, peers_, peerVars, fault>>

SignalLoss == Message("MSG_ON_SIGLAL_CONNECTION_CLOSE", {}, FALSE)

(* The connection or the attempt ends and SignalOnClosed_ is raised.       *)
SignalFailedOrLost ==
  /\ Raises
  /\ SigFailed \/ SigLost
  /\ owed' = {} /\ channel' = FALSE
  /\ Raise(SignalLoss)
  /\ UNCHANGED threadVars

(* The server closes the connection with the normal code, or an attempt    *)
(* ends in silence.                                                        *)
SignalDropped ==
  /\ SigDropped
  /\ owed' = {} /\ channel' = FALSE
  /\ UNCHANGED <<session, controlVars, peerVars, threadVars, fault>>

(* The connection that SyncClose closes is gone and its join returns.      *)
SignalClosed ==
  /\ \/ Raises /\ SigClosed(TRUE) /\ Raise(SignalLoss)
     \/ SigClosed(FALSE) /\ UNCHANGED <<session, controlVars, peerVars, fault>>
  /\ owed' = {} /\ channel' = FALSE
  /\ app' = IF app = "join" THEN "idle" ELSE app
  /\ thread' = CASE thread = "join" -> "idle"
                 [] thread = "join_close" -> "resume"
                 [] OTHER -> thread

(* What the server may send after sending command to the ids of R.         *)
Consequences(command, R, ok) ==
  CASE command = "channelcreate" /\ ok -> {"createoffer"} \X Inbound
    [] command = "channeljoin" /\ ok -> {"offersdp"} \X R
    [] command \in {"createoffer", "offersdp"} -> {"peerclosed"} \X R
    [] command = "peerclosed" /\ channel -> {"createoffer"} \X (R \cap Inbound)
    [] OTHER -> {}

(* A remote that has gone sends no more descriptions.                      *)
Retracted(command, R) ==
  IF command = "peerclosed" THEN {"offersdp", "answersdp"} \X R ELSE {}

(* The server sends a command it owes; createoffer may name several peers. *)
ServerSends(command, R, ok) ==
  /\ sig = "opened" /\ Raises
  /\ {command} \X R \subseteq owed
  /\ command = "createoffer" \/ \E id \in R : R = {id}
  /\ ok \/ command \in {"open", "channelcreate", "channeljoin"}
  /\ Raise(Message(command, R \cap Remotes, ok))
  /\ owed' = ((owed \ ({command} \X R)) \ Retracted(command, R))
               \cup Consequences(command, R, ok)
  /\ channel' = (channel \/ (command = "channelcreate" /\ ok))
  /\ UNCHANGED <<sigVars, threadVars>>

-----------------------------------------------------------------------------
(* Control::OnMessage: the first message of a Control's queue.             *)

Dispatches(c, kinds) == /\ thread = "idle" /\ ctl[c] = "ready" /\ queue[c] # <<>>
                        /\ Head(queue[c]).kind \in kinds
Ids(c) == Head(queue[c]).ids
Ok(c) == Head(queue[c]).ok

(* A message that changes neither the Peer nor who holds the Control.      *)
Handled(c, map, ss) ==
  /\ UNCHANGED <<control_, close_once_, local, peer_, sigVars, threadVars, fault>>
  /\ EndMessage(c, control_, map, ss, <<>>)

(* Control::OnOpen: create the local peer's channel.  A refusal is logged. *)
HandleOpen(c) ==
  /\ Dispatches(c, {"open"})
  /\ IF Ok(c) THEN Send({<<"channelcreate", Self>>}) ELSE UNCHANGED serverVars
  /\ Handled(c, peers_[c], session)
  /\ UNCHANGED link

(* Peer::OnClose(peer_id_): the first time since the last open event, the  *)
(* close event, then UnregisterObserver and control_.reset().  The event's *)
(* handler may call Close(), which finds control_ still set and posts to   *)
(* it; if the signal is open it blocks there, with the message that is     *)
(* being handled kept at the head of the queue.  The application takes the *)
(* close of the local peer for the end of every link.                      *)
OnCloseLocal(c, map, ss) ==
  /\ close_once_' = TRUE
  /\ local' = IF local = "closed" THEN "closed_again" ELSE "closed"
  /\ link' = [r \in Remotes |-> "down"]
  /\ \/ /\ control_' = NoControl
        /\ peer_' = [peer_ EXCEPT ![control_] = FALSE]
        /\ \/ EndMessage(c, NoControl, map, ss, <<>>)
           \/ /\ sig # "opened"
              /\ EndMessage(c, NoControl, map, ss, <<CloseMessage>>)
        /\ UNCHANGED <<sigVars, thread>>
     \/ /\ SigSyncClose /\ thread' = "join_close"
        /\ queue' = [queue EXCEPT ![c] = Posted(c, CloseMessage)]
        /\ peers_' = [peers_ EXCEPT ![c] = map]
        /\ session' = Reaped(ss, Mapped(peers_'))
        /\ UNCHANGED <<control_, peer_, ctl>>
  /\ UNCHANGED <<app, serverVars, fault>>

(* Mutant: control_ is reset but the observer is not unregistered.         *)
ResumeCloseRegistered ==
  /\ thread = "resume" /\ thread' = "idle"
  /\ control_' = NoControl
  /\ UNCHANGED peer_
  /\ EndMessage(control_, NoControl, peers_[control_], session, <<>>)
  /\ UNCHANGED <<close_once_, local, link, sigVars, app, serverVars, fault>>

(* The rest of that handler once the join has returned.                    *)
ResumeClose ==
  /\ thread = "resume" /\ thread' = "idle"
  /\ control_' = NoControl
  /\ peer_' = [peer_ EXCEPT ![control_] = FALSE]
  /\ EndMessage(control_, NoControl, peers_[control_], session, <<>>)
  /\ UNCHANGED <<close_once_, local, link, sigVars, app, serverVars, fault>>

(* Control::OnChannelCreate: peer_ is used without a test.                 *)
HandleChannelCreate(c) ==
  /\ Dispatches(c, {"channelcreate"})
  /\ \/ ~peer_[c] /\ Fault("null_observer")
     \/ /\ peer_[c] /\ Ok(c)
        /\ close_once_' = FALSE /\ local' = "open"
        /\ UNCHANGED <<control_, peer_, link, sigVars, threadVars, fault>>
        /\ EndMessage(c, control_, peers_[c], session, <<>>)
        /\ UNCHANGED serverVars
     \/ /\ peer_[c] /\ ~Ok(c) /\ ~close_once_
        /\ OnCloseLocal(c, peers_[c], session)
     \/ /\ peer_[c] /\ ~Ok(c) /\ close_once_
        /\ Handled(c, peers_[c], session)
        /\ UNCHANGED <<link, serverVars>>

(* Control::OnChannelJoin: only a refusal uses peer_, without a test.      *)
HandleChannelJoin(c) ==
  /\ Dispatches(c, {"channeljoin"})
  /\ \/ ~Ok(c) /\ ~peer_[c] /\ Fault("null_observer")
     \/ /\ Ok(c) \/ peer_[c]
        /\ link' = [r \in Remotes |-> IF r \in Ids(c) /\ ~Ok(c)
                                      THEN "down" ELSE link[r]]
        /\ Handled(c, peers_[c], session)
        /\ UNCHANGED serverVars

(* Mutant: the close of a session is not passed on.                        *)
Untold(c, R) == link

(* PeerControl::Close tells Control::OnPeerClose, which tells the Peer if  *)
(* it is still registered: the links after the close events of R.          *)
Told(c, R) == [r \in Remotes |-> IF peer_[c] /\ r \in R THEN "down" ELSE link[r]]

(* Control::ClosePeer: posted, or for the peerclosed command.  An id that  *)
(* is not in peers_ is ignored.  LeaveChannel sends leavechannel, whose    *)
(* reply is not used.                                                      *)
HandleClosePeer(c) ==
  /\ Dispatches(c, {"MSG_CLOSE_PEER", "peerclosed"})
  /\ LET R == Ids(c) \cap Known(c)
     IN /\ link' = Told(c, R)
        /\ Handled(c, Erased(c, R), Closed(SessionsOf(c, R)))
  /\ UNCHANGED serverVars

(* Mutant: Peer::OnClose without close_once_.                              *)
HandleCloseUnguarded(c) ==
  /\ Dispatches(c, {"MSG_CLOSE", "MSG_ON_SIGLAL_CONNECTION_CLOSE"})
  /\ LET ss == Closed(SessionsOf(c, Known(c)))
     IN \/ /\ ~peer_[c]
           /\ link' = Told(c, Known(c))
           /\ Handled(c, NoPeers, ss)
           /\ UNCHANGED serverVars
        \/ /\ peer_[c]
           /\ OnCloseLocal(c, NoPeers, ss)

(* Control::Close: every session, then the local peer.                     *)
HandleClose(c) ==
  /\ Dispatches(c, {"MSG_CLOSE", "MSG_ON_SIGLAL_CONNECTION_CLOSE"})
  /\ LET ss == Closed(SessionsOf(c, Known(c)))
     IN \/ /\ ~peer_[c] \/ close_once_
           /\ link' = Told(c, Known(c))
           /\ Handled(c, NoPeers, ss)
           /\ UNCHANGED serverVars
        \/ /\ peer_[c] /\ ~close_once_
           /\ OnCloseLocal(c, NoPeers, ss)

(* Control::CreateOffer and ReceiveOfferSdp: a new session for each id, or *)
(* for the ids before the one whose Initialize() fails; that one gets a    *)
(* close event with CLOSE_ABNORMAL and the others are forgotten.           *)
StartSessions(c, R, bad, type) ==
  \E new \in [R -> Gens] :
    LET S == {<<r, new[r]>> : r \in R}
    IN /\ \A r \in R : new[r] \in Fresh(r)
       /\ link' = Told(c, bad)
       /\ Handled(c, Inserted(c, new), Started(S, c, type))
       /\ UNCHANGED serverVars

HandleOffer(c) ==
  /\ Dispatches(c, {"createoffer", "offersdp"})
  /\ LET type == IF Head(queue[c]).kind = "createoffer" THEN "kOffer" ELSE "kAnswer"
     IN \/ StartSessions(c, Ids(c), {}, type)
        \/ \E bad \in Ids(c), R \in SUBSET Ids(c) :
             bad \notin R /\ StartSessions(c, R, {bad}, type)

(* Control::ReceiveAnswerSdp: for the session now under the id, if any.    *)
HandleAnswerSdp(c) ==
  /\ Dispatches(c, {"answersdp"})
  /\ \/ \E r \in Ids(c) \cap Known(c) :
          Handled(c, peers_[c], Answered(SessionOf(c, r)))
     \/ Ids(c) \cap Known(c) = {} /\ Handled(c, peers_[c], session)
  /\ UNCHANGED <<link, serverVars>>

-----------------------------------------------------------------------------
(* WebRTC's callbacks into the sessions, on the webrtc thread.             *)

(* PeerControl::OnSuccess sends the description through control_; then the *)
(* request's reference to the session is dropped.                          *)
OnSuccess(s) ==
  /\ thread = "idle" /\ session[s].desc # "none"
  /\ \/ /\ SendsDescription(s) /\ ctl[session[s].observer] = "destroyed"
        /\ Fault("dangling_control")
     \/ /\ SendsDescription(s) => ctl[session[s].observer] # "destroyed"
        /\ IF SendsDescription(s) /\ session[s].desc = "kOffer"
           THEN Send({<<"answersdp", s[1]>>}) ELSE UNCHANGED serverVars
        /\ session' = Reaped(Described(s), Mapped(peers_))
        /\ UNCHANGED <<controlVars, sigVars, peerVars, threadVars, fault>>

OnFailure(s) ==
  /\ thread = "idle" /\ session[s].desc # "none"
  /\ session' = Reaped(Refused(s), Mapped(peers_))
  /\ UNCHANGED <<controlVars, sigVars, peerVars, threadVars, serverVars, fault>>

DataChannelArrives(s) ==
  /\ thread = "idle" /\ OnDataChannel(s)
  /\ UNCHANGED <<controlVars, sigVars, peerVars, threadVars, serverVars, fault>>

(* A data channel opens.  With the second one the session is open and      *)
(* Control::OnPeerConnect raises the connect event, if peer_ is set.       *)
DataChannelOpens(s) ==
  /\ thread = "idle" /\ OnStateChange(s)
  /\ link' = IF session'[s].state_ = "pOpen" /\ peer_[session[s].observer]
             THEN [link EXCEPT ![s[1]] = "up"] ELSE link
  /\ UNCHANGED <<controlVars, sigVars, control_, close_once_, local, threadVars,
                 serverVars, fault>>

(* The ICE connection or a data channel is reported closed, once or more:  *)
(* PeerControl::OnPeerDisconnected asks for a close of the id, later.      *)
OnPeerDisconnected(s) ==
  LET c == session[s].observer
  IN /\ thread = "idle" /\ Negotiated(s) /\ HasRoom(c)
     /\ session' = [session EXCEPT ![s] = [@ EXCEPT !.down = TRUE]]
     /\ queue' = IF AsksToClose(session[s].state_)
                 THEN [queue EXCEPT ![c] = Posted(c, GoingAway({s[1]}))]
                 ELSE queue
     /\ UNCHANGED <<ctl, peer_, peers_, sigVars, peerVars, threadVars, serverVars, fault>>

-----------------------------------------------------------------------------
Calls == \/ \E c \in Controls : Open(c) \/ OpenFails(c)
         \/ CallWithoutControl \/ CloseByApp \/ CloseByHandler
         \/ \E r \in Remotes : ClosePeer(r) \/ Connect(r)

SignalEvents ==
  \/ SignalOpened \/ SignalFailedOrLost \/ SignalDropped \/ WildPost
  \/ \E command \in Commands, R \in (SUBSET Remotes) \cup {{Self}}, ok \in BOOLEAN :
       ServerSends(command, R, ok)

Dispatch(c) ==
  \/ HandleOpen(c) \/ HandleChannelCreate(c) \/ HandleChannelJoin(c)
  \/ HandleClosePeer(c) \/ HandleClose(c) \/ HandleOffer(c) \/ HandleAnswerSdp(c)

Callbacks == \E s \in Sessions :
  \/ OnSuccess(s) \/ OnFailure(s) \/ DataChannelArrives(s)
  \/ DataChannelOpens(s) \/ OnPeerDisconnected(s)

(* Nothing is said of the program after undefined behaviour.               *)
Next == /\ fault = "none"
        /\ \/ Calls \/ SyncCloseByApp \/ SignalEvents \/ SignalClosed
           \/ ResumeClose \/ Callbacks
           \/ \E c \in Controls : Dispatch(c)

Spec == Init /\ [][Next]_vars

(* The webrtc thread serves its queue (Peer::Run), and the websocket's     *)
(* close handshake ends, if need be by its timeout, so that join returns.  *)
Fairness == /\ \A c \in Controls : WF_vars(fault = "none" /\ Dispatch(c))
            /\ WF_vars(fault = "none" /\ SignalClosed)
            /\ WF_vars(fault = "none" /\ ResumeClose)

FairSpec == Spec /\ Fairness

-----------------------------------------------------------------------------
(* Properties.                                                             *)

(* The Control that reports to the Peer is the one the Peer holds, and it  *)
(* is alive: an event never comes from a Control the application has       *)
(* closed, and control_-> in the Peer's methods is never a zombie          *)
(* (RegisterObserver, UnregisterObserver and control_.reset in step).      *)
RegisteredIsCurrent ==
  \A c \in Controls : control_ = c <=> peer_[c] /\ ctl[c] = "ready"

(* Every entry of peers_ is a session that is connecting or open and whose *)
(* PeerControl::control_ is that very Control: commands that look up       *)
(* peers_ (answersdp, ice_candidate, Send) never reach a PeerControl       *)
(* whose peer_connection_ is gone, whatever the order of closes.           *)
MapSessionsLive ==
  \A c \in Controls : \A r \in Known(c) :
    LET x == session[SessionOf(c, r)]
    IN x.state_ \in Active /\ x.observer = c /\ ctl[c] = "ready"

(* A link the application believes up (its last event was "connect") is    *)
(* backed by an open session that Control::Send would find.                *)
AppViewSound ==
  \A r \in Remotes : link[r] = "up" =>
    /\ control_ # NoControl /\ r \in Known(control_)
    /\ session[SessionOf(control_, r)].state_ = "pOpen"

(* No Control outlives its last reference: one that is not destroyed is    *)
(* held by the Peer, by its own ref_ or by a queued message, and what is   *)
(* queued is always for a Control that is alive (~MessageHandler).         *)
NoLostControl ==
  \A c \in Controls :
    /\ ctl[c] = "ready" => \/ control_ = c \/ peer_[c]
                           \/ \E i \in 1..Len(queue[c]) : queue[c][i].ref
    /\ queue[c] # <<>> => ctl[c] = "ready"

(* The events the application sees obey EventContract.                     *)
Events == INSTANCE EventContract WITH Remotes <- Remotes, local <- local, link <- link
EventsInOrder == Events!EventSpec

(* A "connect" event is not raised for a remote that is connected already: *)
(* two sessions made for one remote never both report to the application   *)
(* (peers_.insert keeps the first, PeerControl::OnPeerOpened fires once).  *)
ConnectOnce ==
  [][\A s \in Sessions :
       DataChannelOpens(s) /\ session'[s].state_ = "pOpen" /\ peer_[session[s].observer]
         => link[s[1]] = "down"]_vars

(* A session whose transport is reported closed does not stay in peers_.   *)
DisconnectHandled ==
  \A s \in Sessions :
    (\E c \in Controls : peers_[c][s[1]] = s[2]) /\ session[s].down
      ~> (\A c \in Controls : peers_[c][s[1]] # s[2]) \/ fault # "none"

(* A Control that the Peer has let go of is destroyed in the end, however  *)
(* many commands the server keeps sending: what it posts to itself carries *)
(* no reference any more (ControlMessageData's copy of ref_).              *)
ZombieDies ==
  \A c \in Controls :
    ctl[c] = "ready" /\ ~peer_[c] ~> ctl[c] = "destroyed" \/ fault # "none"

-----------------------------------------------------------------------------
(* What the invariants above rest on: the inductive invariant of           *)
(* PeerApiProofs.                                                          *)

(* While the handler of the local close event is inside SyncClose, the     *)
(* Peer still holds its Control, the message being handled is at the head  *)
(* of the queue, and the application has been told that every link is down *)
BlockedInClose ==
  thread \in {"join_close", "resume"} =>
    /\ control_ # NoControl /\ queue[control_] # <<>>
    /\ \A r \in Remotes : link[r] = "down"

(* A session that WebRTC may call, other than to answer a request, is the  *)
(* one in peers_ of its Control: the duplicate that peers_.insert drops    *)
(* dies with its request.                                                  *)
HeldSessions ==
  \A s \in Sessions : session[s].state_ \in Active =>
    /\ session[s].observer \in Controls
    /\ session[s].desc = "none" => peers_[session[s].observer][s[1]] = s[2]

(* The local description is set when the request has been answered.        *)
DescribedLater == \A s \in Sessions : "local" \in session[s].sdp => session[s].desc = "none"

(* An open session has no data channel left to open.                       *)
OpenIsOpen == \A s \in Sessions : session[s].state_ = "pOpen" => BothOpen(session[s])

(* close_once_ says that the last event of the local peer was "close".     *)
CloseOnceMeansClosed == close_once_ <=> local = "closed"

Consistent ==
  /\ RegisteredIsCurrent /\ MapSessionsLive /\ AppViewSound /\ NoLostControl
  /\ BlockedInClose /\ HeldSessions /\ DescribedLater /\ OpenIsOpen
  /\ CloseOnceMeansClosed

IInv == TypeOK /\ Consistent

(* The comment in PeerControl::OnPeerDisconnected: a session closed with   *)
(* CLOSE_GOING_AWAY is one whose remote peer "has been disconnected        *)
(* abnormally".  The notice names a remote and not a session, which may    *)
(* have been replaced: the code does not meet it.                          *)
GoingAwayMeansDisconnected ==
  [][\A c \in Controls :
       HandleClosePeer(c) /\ Head(queue[c]).kind = "MSG_CLOSE_PEER" /\ ~Ok(c)
         => \A r \in Ids(c) \cap Known(c) : session[SessionOf(c, r)].down]_vars
=============================================================================
