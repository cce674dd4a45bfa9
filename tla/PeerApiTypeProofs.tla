------------------------- MODULE PeerApiTypeProofs -------------------------
(***************************************************************************)
(* Type correctness of PeerApi, step by step, for any sets of remotes,     *)
(* generations and Controls and any queue bound.                           *)
(***************************************************************************)
EXTENDS PeerApi, ControlProofs

-----------------------------------------------------------------------------
(* Typing of the operators that the actions are built from.                *)

(* What a Control posts and what its messages leave has the right type.    *)
LEMMA PostedType ==
  ASSUME ControlTypeOK, NEW c \in Controls, NEW m \in Messages
  PROVE  Posted(c, m) \in Seq(Messages)
<1>1. [m EXCEPT !.ref = peer_[c]] \in Messages
  BY DEF ControlTypeOK, Messages
<1>2. queue[c] \in Seq(Messages)
  BY DEF ControlTypeOK
<1> QED
  BY <1>1, <1>2 DEF Posted

LEMMA EndMessageType ==
  ASSUME ControlTypeOK, NEW c \in Controls, NEW holder, queue[c] # <<>>,
         NEW map \in [Remotes -> Gens \cup {NoGen}],
         NEW ss \in [Sessions -> SessionRecords],
         NEW more \in Seq(Messages),
         EndMessage(c, holder, map, ss, more)
  PROVE  /\ ctl' \in [Controls -> {"unborn", "ready", "leaked", "destroyed"}]
         /\ peers_' \in [Controls -> [Remotes -> Gens \cup {NoGen}]]
         /\ queue' \in [Controls -> Seq(Messages)]
         /\ session' \in [Sessions -> SessionRecords]
<1>1. session' \in [Sessions -> SessionRecords]
  BY ReapedType DEF EndMessage
<1>2. Tail(queue[c]) \o more \in Seq(Messages)
  BY DEF ControlTypeOK
<1>3. NoPeers \in [Remotes -> Gens \cup {NoGen}]
  BY DEF NoPeers
<1> DEFINE dead == Unreferenced(holder = c, peer_'[c], Tail(queue[c]) \o more)
<1>4. ctl' \in [Controls -> {"unborn", "ready", "leaked", "destroyed"}]
  <2>1. ctl' = [ctl EXCEPT ![c] = IF dead THEN "destroyed" ELSE ctl[c]]
    BY DEF EndMessage
  <2> QED
    BY <2>1 DEF ControlTypeOK
<1>5. peers_' \in [Controls -> [Remotes -> Gens \cup {NoGen}]]
  <2>1. peers_' = [peers_ EXCEPT ![c] = IF dead THEN NoPeers ELSE map]
    BY DEF EndMessage
  <2> QED
    BY <1>3, <2>1 DEF ControlTypeOK
<1>6. queue' \in [Controls -> Seq(Messages)]
  <2>1. queue' = [queue EXCEPT ![c] = IF dead THEN <<>> ELSE Tail(queue[c]) \o more]
    BY DEF EndMessage
  <2>2. <<>> \in Seq(Messages)
    OBVIOUS
  <2> HIDE DEF dead
  <2> QED
    BY <1>2, <2>1, <2>2 DEF ControlTypeOK
<1> QED
  BY <1>1, <1>4, <1>5, <1>6

(* The maps that handlers leave.                                           *)
LEMMA ControlMapType ==
  ASSUME ControlTypeOK, NEW c \in Controls
  PROVE  /\ peers_[c] \in [Remotes -> Gens \cup {NoGen}]
         /\ NoPeers \in [Remotes -> Gens \cup {NoGen}]
         /\ \A R : Erased(c, R) \in [Remotes -> Gens \cup {NoGen}]
         /\ \A R \in SUBSET Remotes : \A new \in [R -> Gens] :
              Inserted(c, new) \in [Remotes -> Gens \cup {NoGen}]
BY DEF ControlTypeOK, NoPeers, Erased, Inserted

(* A message that leaves the Peer alone keeps the type of everything but   *)
(* link, owed and channel.                                                 *)
LEMMA HandledType ==
  ASSUME TypeOK, NEW c \in Controls, queue[c] # <<>>,
         NEW map \in [Remotes -> Gens \cup {NoGen}],
         NEW ss \in [Sessions -> SessionRecords],
         Handled(c, map, ss),
         link' \in [Remotes -> {"down", "up"}],
         owed' \subseteq Commands \X (Remotes \cup {Self}), channel' \in BOOLEAN
  PROVE  TypeOK'
<1>1. <<>> \in Seq(Messages)
  OBVIOUS
<1>2. /\ ctl' \in [Controls -> {"unborn", "ready", "leaked", "destroyed"}]
      /\ peers_' \in [Controls -> [Remotes -> Gens \cup {NoGen}]]
      /\ queue' \in [Controls -> Seq(Messages)]
      /\ session' \in [Sessions -> SessionRecords]
  BY <1>1, EndMessageType DEF Handled, TypeOK
<1> QED
  BY <1>2 DEF Handled, TypeOK, SessionTypeOK, ControlTypeOK, SigTypeOK, sigVars, threadVars

(* The local close event.                                                  *)
LEMMA OnCloseLocalType ==
  ASSUME TypeOK, NEW c \in Controls, queue[c] # <<>>,
         NEW map \in [Remotes -> Gens \cup {NoGen}],
         NEW ss \in [Sessions -> SessionRecords],
         OnCloseLocal(c, map, ss)
  PROVE  TypeOK'
<1>1. <<>> \in Seq(Messages) /\ CloseMessage \in Messages /\ <<CloseMessage>> \in Seq(Messages)
  <2>1. CloseMessage \in Messages
    BY MessageType DEF CloseMessage, Kinds
  <2> QED
    BY <2>1
<1>2. /\ ctl' \in [Controls -> {"unborn", "ready", "leaked", "destroyed"}]
      /\ peers_' \in [Controls -> [Remotes -> Gens \cup {NoGen}]]
      /\ queue' \in [Controls -> Seq(Messages)]
      /\ session' \in [Sessions -> SessionRecords]
      /\ peer_' \in [Controls -> BOOLEAN]
      /\ control_' \in Controls \cup {NoControl}
      /\ SigTypeOK'
      /\ thread' \in {"idle", "join", "join_close", "resume"}
  <2>1. CASE /\ control_' = NoControl
             /\ peer_' = [peer_ EXCEPT ![control_] = FALSE]
             /\ \/ EndMessage(c, NoControl, map, ss, <<>>)
                \/ EndMessage(c, NoControl, map, ss, <<CloseMessage>>)
             /\ UNCHANGED <<sigVars, thread>>
    <3>1. /\ ctl' \in [Controls -> {"unborn", "ready", "leaked", "destroyed"}]
          /\ peers_' \in [Controls -> [Remotes -> Gens \cup {NoGen}]]
          /\ queue' \in [Controls -> Seq(Messages)]
          /\ session' \in [Sessions -> SessionRecords]
      BY <1>1, <2>1, EndMessageType DEF TypeOK
    <3> QED
      BY <2>1, <3>1 DEF TypeOK, ControlTypeOK, SigTypeOK, sigVars
  <2>2. CASE /\ SigSyncClose /\ thread' = "join_close"
             /\ queue' = [queue EXCEPT ![c] = Posted(c, CloseMessage)]
             /\ peers_' = [peers_ EXCEPT ![c] = map]
             /\ session' = Reaped(ss, Mapped(peers_'))
             /\ UNCHANGED <<control_, peer_, ctl>>
    <3>1. queue' \in [Controls -> Seq(Messages)]
      BY <1>1, <2>2, PostedType DEF TypeOK, ControlTypeOK
    <3>2. session' \in [Sessions -> SessionRecords]
      BY <2>2, ReapedType
    <3> QED
      BY <2>2, <3>1, <3>2 DEF TypeOK, ControlTypeOK, SigTypeOK, SigSyncClose
  <2> QED
    BY <2>1, <2>2 DEF OnCloseLocal
<1> QED
  BY <1>2 DEF OnCloseLocal, TypeOK, SessionTypeOK, ControlTypeOK, serverVars

(* Commands sent and received keep the type of owed.                       *)
LEMMA SendType ==
  ASSUME TypeOK, NEW S \in SUBSET (Commands \X (Remotes \cup {Self})), Send(S)
  PROVE  owed' \subseteq Commands \X (Remotes \cup {Self}) /\ channel' \in BOOLEAN
BY DEF Send, TypeOK

LEMMA RaiseType ==
  ASSUME TypeOK, NEW m \in Messages, Raise(m), SigTypeOK',
         thread' \in {"idle", "join", "join_close", "resume"},
         app' \in {"idle", "syncclose", "join"},
         owed' \subseteq Commands \X (Remotes \cup {Self}), channel' \in BOOLEAN
  PROVE  TypeOK'
<1>1. \A c \in Controls : Posted(c, m) \in Seq(Messages) /\ queue[c] \in Seq(Messages)
  BY PostedType DEF TypeOK, ControlTypeOK
<1>2. queue' \in [Controls -> Seq(Messages)]
  BY <1>1 DEF Raise, Broadcast
<1> QED
  BY <1>2 DEF Raise, TypeOK, SessionTypeOK, ControlTypeOK, peerVars

LEMMA FaultType ==
  ASSUME TypeOK, NEW kind \in Faults, Fault(kind)
  PROVE  TypeOK'
BY DEF Fault, TypeOK, SessionTypeOK, ControlTypeOK, SigTypeOK, controlVars, sigVars,
       peerVars, threadVars, serverVars

-----------------------------------------------------------------------------
(* Type correctness, one lemma per group of actions.                       *)

LEMMA CallsType ==
  ASSUME TypeOK, Calls \/ SyncCloseByApp
  PROVE  TypeOK'
<1> USE DEF TypeOK, SessionTypeOK, ControlTypeOK, SigTypeOK, controlVars, sigVars,
            peerVars, threadVars, serverVars
<1>1. ASSUME NEW c \in Controls, Open(c) PROVE TypeOK'
  <2>1. CASE sig = "closing"
    BY <1>1, <2>1, FaultType DEF Open, Faults
  <2>2. CASE sig # "closing"
    BY <1>1, <2>2 DEF Open, SigConnect
  <2> QED
    BY <2>1, <2>2
<1>2. ASSUME NEW c \in Controls, OpenFails(c) PROVE TypeOK'
  BY <1>2 DEF OpenFails
<1>3. CASE CallWithoutControl
  BY <1>3, FaultType DEF CallWithoutControl, Faults
<1>4. CloseMessage \in Messages
  BY MessageType DEF CloseMessage, Kinds
<1>5. CASE CloseByApp
  <2>1. control_ \in Controls /\ Posted(control_, CloseMessage) \in Seq(Messages)
    BY <1>4, <1>5, PostedType DEF CloseByApp
  <2> QED
    BY <1>5, <2>1 DEF CloseByApp
<1>6. CASE CloseByHandler
  <2>1. control_ \in Controls /\ Posted(control_, CloseMessage) \in Seq(Messages)
    BY <1>4, <1>6, PostedType DEF CloseByHandler
  <2> QED
    BY <1>6, <2>1 DEF CloseByHandler, SigSyncClose
<1>7. ASSUME NEW r \in Remotes, ClosePeer(r) PROVE TypeOK'
  <2>1. Message("MSG_CLOSE_PEER", {r}, TRUE) \in Messages
    BY MessageType DEF Kinds
  <2>2. control_ \in Controls
    BY <1>7 DEF ClosePeer
  <2>3. Posted(control_, Message("MSG_CLOSE_PEER", {r}, TRUE)) \in Seq(Messages)
    BY <2>1, <2>2, PostedType
  <2>4. queue' \in [Controls -> Seq(Messages)]
    BY <1>7, <2>3 DEF ClosePeer
  <2>5. UNCHANGED <<session, ctl, peer_, peers_, sigVars, peerVars, threadVars,
                    serverVars, fault>>
    BY <1>7 DEF ClosePeer
  <2> QED
    BY <2>4, <2>5
<1>8. ASSUME NEW r \in Remotes, Connect(r) PROVE TypeOK'
  <2>1. owed' \subseteq Commands \X (Remotes \cup {Self}) /\ channel' \in BOOLEAN
    BY <1>8, SendType DEF Connect, Commands
  <2> QED
    BY <1>8, <2>1 DEF Connect
<1>9. CASE SyncCloseByApp
  BY <1>9 DEF SyncCloseByApp, SigSyncClose
<1> QED
  BY <1>1, <1>2, <1>3, <1>5, <1>6, <1>7, <1>8, <1>9 DEF Calls

LEMMA SignalType ==
  ASSUME TypeOK, SignalEvents \/ SignalClosed
  PROVE  TypeOK'
<1>1. SignalLoss \in Messages
  BY MessageType DEF SignalLoss, Kinds
<1>2. CASE SignalOpened
  <2>1. /\ SigTypeOK' /\ channel' = FALSE
        /\ owed' \subseteq Commands \X (Remotes \cup {Self})
    BY <1>2 DEF SignalOpened, SigOpened, TypeOK, SigTypeOK, Commands
  <2> QED
    BY <1>2, <2>1 DEF SignalOpened, TypeOK, SessionTypeOK, ControlTypeOK,
                      controlVars, peerVars, threadVars
<1>3. CASE SignalFailedOrLost
  <2>1. /\ SigTypeOK' /\ Raise(SignalLoss) /\ owed' = {} /\ channel' = FALSE
        /\ thread' = thread /\ app' = app
    BY <1>3 DEF SignalFailedOrLost, SigFailed, SigLost, SigTypeOK, threadVars
  <2> QED
    BY <1>1, <2>1, RaiseType DEF TypeOK
<1>4. CASE SignalDropped
  BY <1>4 DEF SignalDropped, SigDropped, TypeOK, SessionTypeOK, ControlTypeOK, SigTypeOK,
              controlVars, peerVars, threadVars
<1>5. CASE WildPost
  BY <1>5, FaultType DEF WildPost, Faults
<1>6. CASE SignalClosed
  <2>1. /\ SigTypeOK' /\ owed' = {} /\ channel' = FALSE
        /\ thread' \in {"idle", "join", "join_close", "resume"}
        /\ app' \in {"idle", "syncclose", "join"}
    BY <1>6 DEF SignalClosed, SigClosed, SigTypeOK, TypeOK
  <2>2. CASE Raise(SignalLoss)
    BY <1>1, <2>1, <2>2, RaiseType
  <2>3. CASE UNCHANGED <<session, controlVars, peerVars, fault>>
    BY <2>1, <2>3 DEF TypeOK, SessionTypeOK, ControlTypeOK, controlVars, peerVars
  <2> QED
    BY <1>6, <2>2, <2>3 DEF SignalClosed
<1>7. ASSUME NEW command \in Commands, NEW R \in (SUBSET Remotes) \cup {{Self}},
             NEW ok \in BOOLEAN, ServerSends(command, R, ok)
      PROVE  TypeOK'
  <2>1. Message(command, R \cap Remotes, ok) \in Messages
    BY MessageType DEF Kinds
  <2>2. Consequences(command, R, ok) \subseteq Commands \X (Remotes \cup {Self})
    BY <1>7, InboundAssumption DEF Consequences, Commands
  <2>3. /\ owed' \subseteq Commands \X (Remotes \cup {Self}) /\ channel' \in BOOLEAN
        /\ SigTypeOK' /\ thread' = thread /\ app' = app
    BY <1>7, <2>2 DEF ServerSends, TypeOK, SigTypeOK, sigVars, threadVars
  <2> QED
    BY <1>7, <2>1, <2>3, RaiseType DEF ServerSends, TypeOK
<1> QED
  BY <1>2, <1>3, <1>4, <1>5, <1>6, <1>7 DEF SignalEvents

LEMMA DispatchType ==
  ASSUME TypeOK, NEW c \in Controls, Dispatch(c)
  PROVE  TypeOK'
<1>1. /\ queue[c] # <<>> /\ Head(queue[c]) \in Messages
      /\ Ids(c) \in SUBSET Remotes
  <2>1. queue[c] # <<>> /\ queue[c] \in Seq(Messages)
    BY DEF Dispatch, Dispatches, HandleOpen, HandleChannelCreate, HandleChannelJoin,
           HandleClosePeer, HandleClose, HandleOffer, HandleAnswerSdp, TypeOK, ControlTypeOK
  <2>2. Head(queue[c]) \in Messages
    BY <2>1
  <2> QED
    BY <2>1, <2>2 DEF Ids, Messages
<1>2. /\ SessionTypeOK /\ ControlTypeOK
      /\ session \in [Sessions -> SessionRecords]
      /\ link \in [Remotes -> {"down", "up"}]
      /\ owed \subseteq Commands \X (Remotes \cup {Self}) /\ channel \in BOOLEAN
  BY DEF TypeOK, SessionTypeOK
<1>3. CASE HandleOpen(c)
  <2>1. /\ owed' \subseteq Commands \X (Remotes \cup {Self})
        /\ channel' \in BOOLEAN
    BY <1>2, <1>3, SendType DEF HandleOpen, Commands, serverVars
  <2> QED
    BY <1>1, <1>2, <1>3, <2>1, HandledType, ControlMapType DEF HandleOpen
<1>4. CASE HandleChannelCreate(c)
  <2>1. CASE Fault("null_observer")
    BY <2>1, FaultType DEF Faults
  <2>2. CASE OnCloseLocal(c, peers_[c], session)
    BY <1>1, <1>2, <2>2, OnCloseLocalType, ControlMapType
  <2>3. CASE Handled(c, peers_[c], session) /\ UNCHANGED <<link, serverVars>>
    BY <1>1, <1>2, <2>3, HandledType, ControlMapType DEF serverVars
  <2>4. CASE /\ close_once_' = FALSE /\ local' = "open"
             /\ UNCHANGED <<control_, peer_, link, sigVars, threadVars, fault>>
             /\ EndMessage(c, control_, peers_[c], session, <<>>)
             /\ UNCHANGED serverVars
    <3>1. <<>> \in Seq(Messages)
      OBVIOUS
    <3>2. /\ ctl' \in [Controls -> {"unborn", "ready", "leaked", "destroyed"}]
          /\ peers_' \in [Controls -> [Remotes -> Gens \cup {NoGen}]]
          /\ queue' \in [Controls -> Seq(Messages)]
          /\ session' \in [Sessions -> SessionRecords]
      BY <1>1, <1>2, <2>4, <3>1, EndMessageType, ControlMapType
    <3> QED
      BY <2>4, <3>2 DEF TypeOK, SessionTypeOK, ControlTypeOK, SigTypeOK, sigVars,
                        threadVars, serverVars
  <2> QED
    BY <1>4, <2>1, <2>2, <2>3, <2>4 DEF HandleChannelCreate
<1>5. CASE HandleChannelJoin(c)
  <2>1. CASE Fault("null_observer")
    BY <2>1, FaultType DEF Faults
  <2>2. CASE /\ link' = [r \in Remotes |-> IF r \in Ids(c) /\ ~Ok(c) THEN "down" ELSE link[r]]
             /\ Handled(c, peers_[c], session)
             /\ UNCHANGED serverVars
    <3>1. link' \in [Remotes -> {"down", "up"}]
      BY <1>2, <2>2
    <3> QED
      BY <1>1, <1>2, <2>2, <3>1, HandledType, ControlMapType DEF serverVars
  <2> QED
    BY <1>5, <2>1, <2>2 DEF HandleChannelJoin
<1>6. \A R : Told(c, R) \in [Remotes -> {"down", "up"}]
  BY <1>2 DEF Told
<1>7. CASE HandleClosePeer(c)
  <2> DEFINE R == Ids(c) \cap Known(c)
  <2>1. Closed(SessionsOf(c, R)) \in [Sessions -> SessionRecords]
    BY <1>2, ClosedType
  <2>2. Erased(c, R) \in [Remotes -> Gens \cup {NoGen}]
    BY <1>2, ControlMapType
  <2>3. /\ link' \in [Remotes -> {"down", "up"}]
        /\ Handled(c, Erased(c, R), Closed(SessionsOf(c, R)))
        /\ owed' = owed /\ channel' = channel
    BY <1>6, <1>7 DEF HandleClosePeer, serverVars
  <2> HIDE DEF R
  <2> QED
    BY <1>1, <1>2, <2>1, <2>2, <2>3, HandledType
<1>8. CASE HandleClose(c)
  <2>1. Closed(SessionsOf(c, Known(c))) \in [Sessions -> SessionRecords]
    BY <1>2, ClosedType
  <2>2. CASE /\ link' = Told(c, Known(c))
             /\ Handled(c, NoPeers, Closed(SessionsOf(c, Known(c))))
             /\ UNCHANGED serverVars
    BY <1>1, <1>2, <1>6, <2>1, <2>2, HandledType, ControlMapType DEF serverVars
  <2>3. CASE OnCloseLocal(c, NoPeers, Closed(SessionsOf(c, Known(c))))
    BY <1>1, <1>2, <2>1, <2>3, OnCloseLocalType, ControlMapType
  <2> QED
    BY <1>8, <2>2, <2>3 DEF HandleClose
<1>9. CASE HandleOffer(c)
  <2>1. ASSUME NEW R \in SUBSET Remotes, NEW bad, NEW type \in {"kOffer", "kAnswer"},
               StartSessions(c, R, bad, type)
        PROVE  TypeOK'
    <3>1. PICK new \in [R -> Gens] :
             /\ link' = Told(c, bad)
             /\ Handled(c, Inserted(c, new), Started({<<r, new[r]>> : r \in R}, c, type))
             /\ UNCHANGED serverVars
      BY <2>1 DEF StartSessions
    <3>2. Started({<<r, new[r]>> : r \in R}, c, type) \in [Sessions -> SessionRecords]
      BY <1>2, StartedType
    <3>3. Inserted(c, new) \in [Remotes -> Gens \cup {NoGen}]
      BY <1>2, ControlMapType
    <3>4. link' \in [Remotes -> {"down", "up"}]
      BY <1>6, <3>1
    <3> QED
      BY <1>1, <1>2, <3>1, <3>2, <3>3, <3>4, HandledType DEF serverVars
  <2>2. PICK type \in {"kOffer", "kAnswer"} :
           \/ StartSessions(c, Ids(c), {}, type)
           \/ \E bad \in Ids(c), R \in SUBSET Ids(c) :
                bad \notin R /\ StartSessions(c, R, {bad}, type)
    BY <1>9 DEF HandleOffer
  <2> QED
    BY <1>1, <2>1, <2>2
<1>10. CASE HandleAnswerSdp(c)
  <2>1. CASE \E r \in Ids(c) \cap Known(c) :
               Handled(c, peers_[c], Answered(SessionOf(c, r)))
    <3>1. PICK r \in Ids(c) \cap Known(c) :
               Handled(c, peers_[c], Answered(SessionOf(c, r)))
      BY <2>1
    <3>2. SessionOf(c, r) \in Sessions
      BY <1>1, <1>2, <3>1 DEF SessionOf, Known, Sessions, ControlTypeOK
    <3>3. Answered(SessionOf(c, r)) \in [Sessions -> SessionRecords]
      BY <1>2, <3>2, UpdatedType
    <3> QED
      BY <1>1, <1>2, <1>10, <3>1, <3>3, HandledType, ControlMapType
         DEF HandleAnswerSdp, serverVars
  <2>2. CASE Handled(c, peers_[c], session)
    BY <1>1, <1>2, <1>10, <2>2, HandledType, ControlMapType DEF HandleAnswerSdp, serverVars
  <2> QED
    BY <1>10, <2>1, <2>2 DEF HandleAnswerSdp
<1> QED
  BY <1>3, <1>4, <1>5, <1>7, <1>8, <1>9, <1>10 DEF Dispatch

LEMMA CallbacksType ==
  ASSUME TypeOK, Callbacks
  PROVE  TypeOK'
<1> PICK s \in Sessions : \/ OnSuccess(s) \/ OnFailure(s) \/ DataChannelArrives(s)
                         \/ DataChannelOpens(s) \/ OnPeerDisconnected(s)
  BY DEF Callbacks
<1>1. /\ SessionTypeOK /\ ControlTypeOK /\ session[s] \in SessionRecords
      /\ s[1] \in Remotes
  BY DEF TypeOK, SessionTypeOK, Sessions
<1>2. CASE OnSuccess(s)
  <2>1. CASE Fault("dangling_control")
    BY <2>1, FaultType DEF Faults
  <2>2. CASE /\ IF SendsDescription(s) /\ session[s].desc = "kOffer"
                THEN Send({<<"answersdp", s[1]>>}) ELSE UNCHANGED serverVars
             /\ session' = Reaped(Described(s), Mapped(peers_))
             /\ UNCHANGED <<controlVars, sigVars, peerVars, threadVars, fault>>
    <3>1. session' \in [Sessions -> SessionRecords]
      BY <1>1, <2>2, ReapedType, UpdatedType
    <3>2. /\ owed' \subseteq Commands \X (Remotes \cup {Self})
          /\ channel' \in BOOLEAN
      <4>1. {<<"answersdp", s[1]>>} \in SUBSET (Commands \X (Remotes \cup {Self}))
        BY <1>1 DEF Commands
      <4> QED
        BY <2>2, <4>1, SendType DEF serverVars, TypeOK
    <3> QED
      BY <2>2, <3>1, <3>2 DEF TypeOK, SessionTypeOK, ControlTypeOK, SigTypeOK,
                              controlVars, sigVars, peerVars, threadVars
  <2> QED
    BY <1>2, <2>1, <2>2 DEF OnSuccess
<1>3. CASE OnFailure(s)
  <2>1. session' \in [Sessions -> SessionRecords]
    BY <1>1, <1>3, ReapedType, UpdatedType DEF OnFailure
  <2> QED
    BY <1>3, <2>1 DEF OnFailure, TypeOK, SessionTypeOK, ControlTypeOK, SigTypeOK,
                      controlVars, sigVars, peerVars, threadVars, serverVars
<1>4. CASE DataChannelArrives(s)
  <2>1. [session[s] EXCEPT !.remote_data_channel_ = "connecting"] \in SessionRecords
    BY <1>1 DEF SessionRecords, ChannelStates
  <2>2. session' \in [Sessions -> SessionRecords]
    BY <1>1, <1>4, <2>1 DEF DataChannelArrives, OnDataChannel, SessionTypeOK
  <2> QED
    BY <1>4, <2>2 DEF DataChannelArrives, TypeOK, SessionTypeOK, ControlTypeOK, SigTypeOK,
                      controlVars, sigVars, peerVars, threadVars, serverVars
<1>5. CASE DataChannelOpens(s)
  <2>1. /\ Opened([session[s] EXCEPT !.local_data_channel_ = "open"]) \in SessionRecords
        /\ Opened([session[s] EXCEPT !.remote_data_channel_ = "open"]) \in SessionRecords
    BY <1>1 DEF Opened, SessionRecords, ChannelStates, States
  <2>2. session' \in [Sessions -> SessionRecords]
    BY <1>1, <1>5, <2>1 DEF DataChannelOpens, OnStateChange, SessionTypeOK
  <2>3. link' \in [Remotes -> {"down", "up"}]
    BY <1>1, <1>5 DEF DataChannelOpens, TypeOK
  <2> QED
    BY <1>5, <2>2, <2>3 DEF DataChannelOpens, TypeOK, SessionTypeOK, ControlTypeOK,
                            SigTypeOK, controlVars, sigVars, threadVars, serverVars
<1>6. CASE OnPeerDisconnected(s)
  <2>1. [session[s] EXCEPT !.down = TRUE] \in SessionRecords
    BY <1>1 DEF SessionRecords
  <2>2. session' \in [Sessions -> SessionRecords]
    BY <1>1, <1>6, <2>1 DEF OnPeerDisconnected, SessionTypeOK
  <2>3. queue' \in [Controls -> Seq(Messages)]
    <3> DEFINE c == session[s].observer
               q == Posted(c, GoingAway({s[1]}))
    <3>1. GoingAway({s[1]}) \in Messages
      BY <1>1, MessageType DEF GoingAway, Kinds
    <3>2. c \in Controls => q \in Seq(Messages)
      BY <1>1, <3>1, PostedType
    <3>3. queue' = queue \/ queue' = [queue EXCEPT ![c] = q]
      BY <1>6 DEF OnPeerDisconnected
    <3> HIDE DEF c, q
    <3> QED
      BY <1>1, <3>2, <3>3 DEF ControlTypeOK
  <2> QED
    BY <1>6, <2>2, <2>3 DEF OnPeerDisconnected, TypeOK, SessionTypeOK, ControlTypeOK,
                            SigTypeOK, sigVars, peerVars, threadVars, serverVars
<1> QED
  BY <1>2, <1>3, <1>4, <1>5, <1>6

(* The handler that was blocked finds the message it serves still queued.  *)
LEMMA ResumeType ==
  ASSUME TypeOK, BlockedInClose, ResumeClose
  PROVE  TypeOK'
<1>1. control_ \in Controls /\ queue[control_] # <<>>
  BY DEF ResumeClose, BlockedInClose, TypeOK
<1>2. <<>> \in Seq(Messages)
  OBVIOUS
<1>3. /\ ctl' \in [Controls -> {"unborn", "ready", "leaked", "destroyed"}]
      /\ peers_' \in [Controls -> [Remotes -> Gens \cup {NoGen}]]
      /\ queue' \in [Controls -> Seq(Messages)]
      /\ session' \in [Sessions -> SessionRecords]
  BY <1>1, <1>2, EndMessageType, ControlMapType DEF ResumeClose, TypeOK, SessionTypeOK
<1> QED
  BY <1>3 DEF ResumeClose, TypeOK, SessionTypeOK, ControlTypeOK, SigTypeOK, sigVars,
              serverVars

LEMMA NextType ==
  ASSUME TypeOK, BlockedInClose, [Next]_vars
  PROVE  TypeOK'
<1>1. CASE Next
  BY <1>1, CallsType, SignalType, DispatchType, CallbacksType, ResumeType DEF Next
<1>2. CASE UNCHANGED vars
  BY <1>2 DEF vars, TypeOK, SessionTypeOK, ControlTypeOK, SigTypeOK, controlVars, sigVars,
              peerVars, threadVars, serverVars
<1> QED
  BY <1>1, <1>2
=============================================================================
