--------------------------- MODULE ControlProofs ---------------------------
(***************************************************************************)
(* Lemmas about the operators of PeerControl and Control, which the proofs *)
(* about PeerApi and about Handshake share.                                *)
(***************************************************************************)
EXTENDS Control, TLAPS

(* A session record without a connection is a session record.              *)
LEMMA BareType ==
  ASSUME NEW st \in States, NEW ds \in {"none", "kOffer", "kAnswer"}
  PROVE  Bare(st, ds) \in SessionRecords
BY DEF Bare, SessionRecords, States, ChannelStates

(* Closing, destroying, starting and answering sessions keeps the type.    *)
LEMMA ClosedType ==
  ASSUME SessionTypeOK, NEW S
  PROVE  Closed(S) \in [Sessions -> SessionRecords]
<1>1. \A s \in Sessions : session[s] \in SessionRecords /\ session[s].desc \in {"none", "kOffer", "kAnswer"}
  BY DEF SessionTypeOK, SessionRecords
<1>2. \A s \in Sessions : Bare("pClosed", session[s].desc) \in SessionRecords
  BY <1>1, BareType DEF States
<1> QED
  BY <1>1, <1>2 DEF Closed

LEMMA ReapedType ==
  ASSUME NEW ss \in [Sessions -> SessionRecords], NEW M
  PROVE  Reaped(ss, M) \in [Sessions -> SessionRecords]
<1>1. Bare("aborted", "none") \in SessionRecords
  BY BareType DEF States
<1> QED
  BY <1>1 DEF Reaped

LEMMA StartedType ==
  ASSUME SessionTypeOK, NEW S, NEW c \in Controls, NEW type \in {"kOffer", "kAnswer"}
  PROVE  Started(S, c, type) \in [Sessions -> SessionRecords]
BY DEF Started, Initialized, SessionTypeOK, SessionRecords, Bare, States, ChannelStates

LEMMA UpdatedType ==
  ASSUME SessionTypeOK, NEW s \in Sessions
  PROVE  /\ Answered(s) \in [Sessions -> SessionRecords]
         /\ Described(s) \in [Sessions -> SessionRecords]
         /\ Refused(s) \in [Sessions -> SessionRecords]
<1>1. /\ [session[s] EXCEPT !.desc = "none"] \in SessionRecords
      /\ [session[s] EXCEPT !.desc = "none", !.sdp = session[s].sdp \cup {"local"}] \in SessionRecords
      /\ [session[s] EXCEPT !.sdp = {"local", "remote"}] \in SessionRecords
  BY DEF SessionTypeOK, SessionRecords
<1>2. Answered(s) \in [Sessions -> SessionRecords]
  BY <1>1 DEF Answered, SessionTypeOK
<1>3. Described(s) \in [Sessions -> SessionRecords]
  BY <1>1 DEF Described, SessionTypeOK
<1>4. Refused(s) \in [Sessions -> SessionRecords]
  BY <1>1 DEF Refused, SessionTypeOK
<1> QED
  BY <1>2, <1>3, <1>4

(* Messages have the type of messages.                                     *)
LEMMA MessageType ==
  ASSUME NEW kind \in Kinds, NEW ids \in SUBSET Remotes, NEW ok \in BOOLEAN
  PROVE  Message(kind, ids, ok) \in Messages
BY DEF Message, Messages
=============================================================================
