------------------------------ MODULE Control ------------------------------
(***************************************************************************)
(* Class Control (control.cc): a table of sessions by remote id, a message *)
(* queue that the webrtc thread serves, and the reference counting that    *)
(* decides when a Control is destroyed.                                    *)
(*                                                                         *)
(* A Control holds a std::shared_ptr to itself (ref_) from                 *)
(* RegisterObserver to UnregisterObserver, always together with the        *)
(* observer peer_, and every posted message carries a copy of ref_.  A     *)
(* Control whose observer is gone thus lives on, still connected to the    *)
(* Signal's slots, until the last message with a reference is deleted.     *)
(***************************************************************************)
EXTENDS PeerControl, Sequences

CONSTANT MaxQueue      \* bound on the messages waiting for one Control

ASSUME MaxQueueAssumption == MaxQueue \in Nat

VARIABLES
  ctl,       \* "unborn", "ready", "leaked" (InitializeControl failed and
             \* webrtc_thread_ was never set) or "destroyed"
  peer_,     \* Control::peer_ is set, and with it ref_
  peers_,    \* per Control, remote id -> generation of the session, or NoGen
  queue      \* messages posted to the Control, oldest first

controlVars == <<ctl, peer_, peers_, queue>>

Commands == {"open", "channelcreate", "channeljoin", "peerclosed",
             "createoffer", "offersdp", "answersdp"}
Kinds == {"MSG_CLOSE", "MSG_CLOSE_PEER", "MSG_ON_SIGLAL_CONNECTION_CLOSE"}
           \cup Commands

(* ControlMessageData: ids are the remote peers the message names, ok the  *)
(* "result" of a reply or whether a close code is CLOSE_NORMAL, ref        *)
(* whether the copy of ref_ is not null.  For MSG_COMMAND_RECEIVED the     *)
(* kind is the command itself.                                             *)
Messages == [kind : Kinds, ids : SUBSET Remotes, ok : BOOLEAN, ref : BOOLEAN]
Message(kind, ids, ok) == [kind |-> kind, ids |-> ids, ok |-> ok, ref |-> TRUE]

NoPeers == [r \in Remotes |-> NoGen]

ControlTypeOK ==
  /\ ctl \in [Controls -> {"unborn", "ready", "leaked", "destroyed"}]
  /\ peer_ \in [Controls -> BOOLEAN]
  /\ peers_ \in [Controls -> [Remotes -> Gens \cup {NoGen}]]
  /\ queue \in [Controls -> Seq(Messages)]

ControlInit ==
  /\ ctl = [c \in Controls |-> "unborn"]
  /\ peer_ = [c \in Controls |-> FALSE]
  /\ peers_ = [c \in Controls |-> NoPeers]
  /\ queue = [c \in Controls |-> <<>>]

-----------------------------------------------------------------------------
HasRoom(c) == Len(queue[c]) < MaxQueue

(* Mutant: a message holds the Control even after UnregisterObserver.      *)
PostedHeld(c, m) == Append(queue[c], [m EXCEPT !.ref = TRUE])

(* Post() with a copy of ref_, from any thread.                            *)
Posted(c, m) == Append(queue[c], [m EXCEPT !.ref = peer_[c]])

(* OnSignalCommandReceived and OnSignalConnectionClosed: sigslot calls     *)
(* every Control that is connected, and each posts to its own thread.      *)
Broadcast(m) == queue' = [c \in Controls |-> IF ctl[c] = "ready"
                                             THEN Posted(c, m) ELSE queue[c]]

(* The entries of peers_ and the sessions they hold.                       *)
Known(c) == {r \in Remotes : peers_[c][r] # NoGen}
SessionOf(c, r) == <<r, peers_[c][r]>>
SessionsOf(c, R) == {SessionOf(c, r) : r \in R \cap Known(c)}
Mapped(maps) == {s \in Sessions : \E c \in Controls : maps[c][s[1]] = s[2]}

(* Mutants: ClosePeer without the erase; peers_[r] = peer for the insert.  *)
Unerased(c, R) == peers_[c]
Overwritten(c, new) == [r \in Remotes |-> IF r \in DOMAIN new
                                          THEN new[r] ELSE peers_[c][r]]

(* peers_.erase for the ids of R, and std::map::insert of the sessions     *)
(* <<r, new[r]>>, which leaves an entry that exists already as it is.      *)
Erased(c, R) == [r \in Remotes |-> IF r \in R THEN NoGen ELSE peers_[c][r]]
Inserted(c, new) == [r \in Remotes |-> IF r \in DOMAIN new /\ peers_[c][r] = NoGen
                                       THEN new[r] ELSE peers_[c][r]]

(* The message that PeerControl::OnPeerDisconnected posts.                 *)
GoingAway(R) == Message("MSG_CLOSE_PEER", R, FALSE)

(* Mutant: ref_ is never reset, so that a Control always holds itself.     *)
NeverUnreferenced(held, registered, q) == FALSE

(* Nothing holds Control c any more: not Peer::control_ (held), not its    *)
(* own ref_ (registered), not a message still queued (q).                  *)
Unreferenced(held, registered, q) ==
  ~held /\ ~registered /\ \A i \in 1..Len(q) : ~q[i].ref

(* The end of Control::OnMessage for the first message of c.  The handler  *)
(* leaves Peer::control_ as holder, the entries as map and the sessions as *)
(* ss, and has posted more.  Deleting param drops the message's reference; *)
(* if it was the last one, ~Control clears peers_ and disconnects from the *)
(* signal, and ~MessageHandler removes what is still queued for c.         *)
EndMessage(c, holder, map, ss, more) ==
  LET q == Tail(queue[c]) \o more
      dead == Unreferenced(holder = c, peer_'[c], q)
  IN /\ ctl' = [ctl EXCEPT ![c] = IF dead THEN "destroyed" ELSE @]
     /\ queue' = [queue EXCEPT ![c] = IF dead THEN <<>> ELSE q]
     /\ peers_' = [peers_ EXCEPT ![c] = IF dead THEN NoPeers ELSE map]
     /\ session' = Reaped(ss, Mapped(peers_'))
=============================================================================
