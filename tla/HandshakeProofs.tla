-------------------------- MODULE HandshakeProofs --------------------------
(***************************************************************************)
(* What Handshake promises, for any number of sessions, calls and          *)
(* troubles: when both applications believe the link up, they speak to     *)
(* each other.                                                             *)
(*                                                                         *)
(* The argument: a description is set once and is never replaced (far),    *)
(* and a session that has both is the one of peers_, because a duplicate   *)
(* is held only by its request (Held).  So the session that WebRTC finds   *)
(* at the other end of one that opens is the one the other peer uses.      *)
(***************************************************************************)
EXTENDS Handshake, ControlProofs

(* What the server relays to c is about the other peer, and a description  *)
(* was made by a session with c.                                           *)
Mail(c) ==
  {m \in Messages \cup Sdps :
     /\ m.kind \in {"createoffer", "offersdp"} => m.ids = {Other(c)}
     /\ m.kind \in {"offersdp", "answersdp"} => m \in Sdps /\ m.from[1] = c}

Addressed ==
  \A c \in Controls : wire[c] \in Seq(Mail(c)) /\ queue[c] \in Seq(Mail(c))

(* The members x of session s, and f, the session it has heard from.       *)
Consistent(s, x, f) ==
  /\ x.state_ \in Active => x.observer = Other(s[1])
  /\ x.state_ \in Active /\ x.desc # "none" => "local" \notin x.sdp
  /\ x.state_ \notin Active => x.sdp = {}
  /\ f # NoSession => /\ f \in Sessions /\ f[1] = Other(s[1])
                      /\ x.state_ # "unborn"
                      /\ x.state_ \in Active => "remote" \in x.sdp

OwnSessions == \A s \in Sessions : Consistent(s, session[s], far[s])

OwnEntries == \A c \in Controls : Known(c) \subseteq {Other(c)}

(* A session is in peers_ or waits for WebRTC to answer its request.       *)
Held == \A s \in Sessions :
  session[s].state_ \in Active => s \in Mapped(peers_) \/ session[s].desc # "none"

Backed == \A p \in Controls :
  link[p] = "up" => /\ peer_[p] /\ Other(p) \in Known(p)
                    /\ session[Current(p)].state_ = "pOpen"

IInv == /\ TypeOK /\ Addressed /\ OwnSessions /\ OwnEntries /\ Held /\ Backed
        /\ SameConnection

-----------------------------------------------------------------------------
(* Each of the two peers is the other of the other.                        *)
LEMMA TwoPeers ==
  /\ \A p \in Controls : /\ Other(p) \in Controls /\ Other(p) # p /\ Other(Other(p)) = p
                         /\ Controls = {p, Other(p)}
  /\ A \in Controls /\ B \in Controls /\ Other(A) = B /\ Other(B) = A
  /\ Remotes = Controls
BY PeersAssumption DEF Other

LEMMA SessionParts ==
  ASSUME NEW s \in Sessions
  PROVE  /\ s = <<s[1], s[2]>> /\ s[1] \in Controls /\ s[2] \in Gens /\ s[2] # NoGen
         /\ s # NoSession
<1>1. s = <<s[1], s[2]>> /\ s[1] \in Controls /\ s[2] \in Gens
  BY TwoPeers DEF Sessions
<1>2. s[2] # NoGen /\ s[1] # NoControl
  BY <1>1, GensAssumption, ControlsAssumption
<1> QED
  BY <1>1, <1>2 DEF NoSession

(* The session of an entry.                                                *)
LEMMA CurrentSession ==
  ASSUME peers_ \in [Controls -> [Remotes -> Gens \cup {NoGen}]],
         NEW p \in Controls, Other(p) \in Known(p)
  PROVE  Current(p) \in Sessions /\ Current(p)[1] = Other(p)
         /\ Current(p)[2] = peers_[p][Other(p)]
BY TwoPeers DEF Current, SessionOf, Known, Sessions

(* A session with both descriptions is the one its peer uses.              *)
LEMMA NegotiatedIsCurrent ==
  ASSUME IInv, NEW s \in Sessions, Negotiated(s)
  PROVE  /\ session[s].observer = Other(s[1]) /\ Other(s[1]) \in Controls
         /\ s[1] \in Known(Other(s[1])) /\ s = Current(Other(s[1]))
<1>1. session[s].observer = Other(s[1]) /\ session[s].desc = "none"
  BY DEF IInv, OwnSessions, Consistent, Negotiated
<1>2. s \in Mapped(peers_)
  BY <1>1 DEF IInv, Held, Negotiated
<1>3. PICK c \in Controls : peers_[c][s[1]] = s[2]
  BY <1>2 DEF Mapped
<1>4. s[1] \in Known(c)
  BY <1>3, SessionParts, TwoPeers DEF Known
<1>5. s[1] = Other(c)
  BY <1>4 DEF IInv, OwnEntries
<1>6. c = Other(s[1])
  BY <1>5, TwoPeers
<1> QED
  BY <1>1, <1>3, <1>4, <1>5, <1>6, SessionParts, TwoPeers DEF Current, SessionOf

-----------------------------------------------------------------------------
(* Mail.                                                                   *)

(* What is posted is what was received, with or without a reference.       *)
LEMMA MailPosted ==
  ASSUME NEW c \in Controls, NEW m \in Mail(c), peer_ \in [Controls -> BOOLEAN],
         queue[c] \in Seq(Mail(c))
  PROVE  Posted(c, m) \in Seq(Mail(c))
<1>1. [m EXCEPT !.ref = peer_[c]] \in Mail(c)
  BY DEF Mail, Messages, Sdps
<1> QED
  BY <1>1 DEF Posted

(* The messages that are sent.                                             *)
LEMMA MailMessage ==
  ASSUME NEW c \in Controls, NEW ok \in BOOLEAN
  PROVE  /\ \A kind \in Kinds \ {"createoffer", "offersdp", "answersdp"} :
              \A ids \in SUBSET Remotes : Message(kind, ids, ok) \in Mail(c)
         /\ Message("createoffer", {Other(c)}, ok) \in Mail(c)
<1>1. {Other(c)} \in SUBSET Remotes /\ "createoffer" \in Kinds
  BY TwoPeers DEF Kinds, Commands
<1>2. \A kind \in Kinds, ids \in SUBSET Remotes : Message(kind, ids, ok) \in Messages
  BY MessageType
<1>3. \A kind \in Kinds, ids \in SUBSET Remotes :
        Message(kind, ids, ok).kind = kind /\ Message(kind, ids, ok).ids = ids
  BY DEF Message
<1> QED
  BY <1>1, <1>2, <1>3 DEF Mail

LEMMA MailSdp ==
  ASSUME NEW s \in Sessions, NEW kind \in {"offersdp", "answersdp"}
  PROVE  Sdp(kind, Other(s[1]), s) \in Mail(s[1])
<1>1. {Other(s[1])} \in {{A}, {B}}
  BY SessionParts, TwoPeers, PeersAssumption
<1>2. Sdp(kind, Other(s[1]), s) \in Sdps
  BY <1>1 DEF Sdp, Sdps
<1> QED
  BY <1>2 DEF Mail, Sdp

(* The message that is handled.                                            *)
LEMMA MailHead ==
  ASSUME NEW c \in Controls, queue[c] \in Seq(Mail(c)), queue[c] # <<>>
  PROVE  Head(queue[c]) \in Mail(c) /\ Tail(queue[c]) \in Seq(Mail(c))
OBVIOUS

-----------------------------------------------------------------------------
(* The sessions.                                                           *)

(* Destroying a session that nothing holds keeps the others as they were.  *)
LEMMA ReapedConsistent ==
  ASSUME NEW ss, NEW fs, NEW M, \A s \in Sessions : Consistent(s, ss[s], fs[s])
  PROVE  \A s \in Sessions : Consistent(s, Reaped(ss, M)[s], fs[s])
BY DEF Reaped, Consistent, Bare, Active

LEMMA ReapedHeld ==
  ASSUME NEW ss, NEW M, NEW s \in Sessions
  PROVE  /\ Reaped(ss, M)[s].state_ \in Active => s \in M \/ Reaped(ss, M)[s].desc # "none"
         /\ s \in M => Reaped(ss, M)[s] = ss[s]
BY DEF Reaped, Bare, Active

(* Closing sessions and starting a fresh one.                              *)
LEMMA ClosedConsistent ==
  ASSUME SessionTypeOK, OwnSessions, NEW S
  PROVE  \A s \in Sessions : Consistent(s, Closed(S)[s], far[s])
BY DEF Closed, OwnSessions, Consistent, Bare, Active

LEMMA StartedConsistent ==
  ASSUME OwnSessions, NEW c \in Controls, NEW t \in Sessions, t[1] = Other(c),
         NEW type \in {"kOffer", "kAnswer"}, NEW f,
         type = "kAnswer" => f \in Sessions /\ f[1] = c,
         type = "kOffer" => f = NoSession
  PROVE  \A s \in Sessions : Consistent(s, Started({t}, c, type)[s],
                                        IF s = t THEN f ELSE far[s])
<1> TAKE s \in Sessions
<1>1. CASE s # t
  BY <1>1 DEF Started, OwnSessions
<1>2. CASE s = t
  <2>1. Other(s[1]) = c
    BY <1>2, TwoPeers
  <2> QED
    BY <1>2, <2>1 DEF Started, Initialized, Consistent, Bare, Active
<1> QED
  BY <1>1, <1>2

-----------------------------------------------------------------------------
(* The steps of a Control.  A handler of c's first message leaves the      *)
(* entries as map and the sessions as ss.  It fits: no session of the      *)
(* other peer is touched, and no description is replaced.                  *)
Fits(c, map, ss) ==
  /\ map \in [Remotes -> Gens \cup {NoGen}]
  /\ \A r \in Remotes : map[r] # NoGen => r = Other(c)
  /\ ss \in [Sessions -> SessionRecords]
  /\ far' \in [Sessions -> Sessions \cup {NoSession}]
  /\ \A s \in Sessions : /\ Consistent(s, ss[s], far'[s])
                         /\ far[s] # NoSession => far'[s] = far[s]
                         /\ s[1] # Other(c) => ss[s] = session[s]

(* It tells its own application the truth.                                 *)
Truthful(c, map, ss) ==
  /\ peer_' \in [Controls -> BOOLEAN] /\ link' \in [Controls -> {"down", "up"}]
  /\ \A p \in Controls \ {c} : peer_'[p] = peer_[p] /\ link'[p] = link[p]
  /\ link'[c] = "up" => /\ link[c] = "up" /\ peer_'[c]
                        /\ map[Other(c)] = peers_[c][Other(c)]
                        /\ ss[Current(c)].state_ = "pOpen"

(* What is sent is addressed rightly.                                      *)
Relayed == /\ wire' \in [Controls -> Seq(Messages \cup Sdps)]
           /\ \A p \in Controls : wire'[p] \in Seq(Mail(p))
           /\ joins' \in [Controls -> Nat] /\ troubles' \in Nat /\ UNCHANGED ice

LEMMA HandlerStep ==
  ASSUME IInv, NEW c \in Controls, queue[c] # <<>>, NEW holder, NEW map, NEW ss,
         EndMessage(c, holder, map, ss, <<>>),
         Fits(c, map, ss), Truthful(c, map, ss), Relayed
  PROVE  IInv'
<1> USE DEF Fits, Truthful, Relayed
<1> DEFINE q == Tail(queue[c]) \o <<>>
           dead == Unreferenced(holder = c, peer_'[c], q)
<1>1. /\ ctl' = [ctl EXCEPT ![c] = IF dead THEN "destroyed" ELSE ctl[c]]
      /\ queue' = [queue EXCEPT ![c] = IF dead THEN <<>> ELSE q]
      /\ peers_' = [peers_ EXCEPT ![c] = IF dead THEN NoPeers ELSE map]
      /\ session' = Reaped(ss, Mapped(peers_'))
  BY DEF EndMessage
<1>2. dead => ~peer_'[c]
  BY DEF Unreferenced
<1>3. q \in Seq(Mail(c)) /\ <<>> \in Seq(Mail(c))
  <2>1. Tail(queue[c]) \in Seq(Mail(c)) /\ <<>> \in Seq(Mail(c))
    BY MailHead DEF IInv, Addressed
  <2> QED
    BY <2>1
<1> HIDE DEF q, dead
<1>4. queue' \in [Controls -> Seq(Messages \cup Sdps)] /\ \A p \in Controls : queue'[p] \in Seq(Mail(p))
  <2>1. queue \in [Controls -> Seq(Messages \cup Sdps)] /\ \A p \in Controls : queue[p] \in Seq(Mail(p))
    BY DEF IInv, TypeOK, Addressed
  <2>2. Mail(c) \subseteq Messages \cup Sdps
    BY DEF Mail
  <2>3. q \in Seq(Messages \cup Sdps) /\ <<>> \in Seq(Messages \cup Sdps)
    BY <1>3, <2>2
  <2> QED
    BY <1>1, <1>3, <2>1, <2>3
<1>5. /\ peers_' \in [Controls -> [Remotes -> Gens \cup {NoGen}]]
      /\ \A p \in Controls, r \in Remotes : peers_'[p][r] # NoGen => r = Other(p)
      /\ \A p \in Controls : p # c => peers_'[p] = peers_[p]
      /\ peer_'[c] => peers_'[c] = map
  <2>1. peers_ \in [Controls -> [Remotes -> Gens \cup {NoGen}]]
        /\ \A p \in Controls, r \in Remotes : peers_[p][r] # NoGen => r = Other(p)
    BY DEF IInv, TypeOK, OwnEntries, Known
  <2>2. NoPeers \in [Remotes -> Gens \cup {NoGen}] /\ \A r \in Remotes : NoPeers[r] = NoGen
    BY DEF NoPeers
  <2> QED
    BY <1>1, <1>2, <2>1, <2>2
<1>6. TypeOK'
  <2>1. ctl' \in [Controls -> {"ready", "destroyed"}]
    BY <1>1 DEF IInv, TypeOK
  <2>2. SessionTypeOK'
    BY <1>1, ReapedType DEF SessionTypeOK
  <2>3. ice' \in [Sessions -> BOOLEAN]
    BY DEF IInv, TypeOK
  <2> QED
    BY <1>4, <1>5, <2>1, <2>2, <2>3 DEF TypeOK
<1>7. Addressed' /\ OwnEntries'
  BY <1>4, <1>5 DEF Addressed, OwnEntries, Known
<1>8. OwnSessions'
  BY <1>1, ReapedConsistent DEF OwnSessions
<1>9. Held'
  BY <1>1, ReapedHeld DEF Held
<1>10. ASSUME NEW p \in Controls, link'[p] = "up"
       PROVE  /\ link[p] = "up" /\ peer_'[p] /\ Current(p)' = Current(p)
              /\ Other(p) \in Known(p) /\ Other(p) \in Known(p)'
              /\ session'[Current(p)].state_ = "pOpen"
  <2>1. /\ link[p] = "up" /\ peer_[p] /\ Other(p) \in Known(p)
        /\ session[Current(p)].state_ = "pOpen"
    BY <1>10 DEF IInv, Backed
  <2>2. /\ Current(p) \in Sessions /\ Current(p)[1] = Other(p)
        /\ Current(p)[2] = peers_[p][Other(p)]
    BY <2>1, CurrentSession DEF IInv, TypeOK
  <2>3. peer_'[p] /\ peers_'[p][Other(p)] = peers_[p][Other(p)]
    BY <1>5, <1>10, <2>1
  <2>4. Current(p)' = Current(p) /\ Other(p) \in Known(p)'
    BY <2>1, <2>3 DEF Current, SessionOf, Known
  <2>5. ss[Current(p)].state_ = "pOpen"
    <3>1. CASE p = c
      BY <1>10, <3>1
    <3>2. CASE p # c
      <4>1. Current(p)[1] # Other(c)
        BY <2>2, <3>2, TwoPeers
      <4> QED
        BY <2>1, <2>2, <4>1
    <3> QED
      BY <3>1, <3>2
  <2>6. Current(p) \in Mapped(peers_')
    BY <2>2, <2>3 DEF Mapped
  <2>7. session'[Current(p)] = ss[Current(p)]
    BY <1>1, <2>2, <2>6, ReapedHeld
  <2> QED
    BY <2>1, <2>3, <2>4, <2>5, <2>7
<1>11. Backed'
  BY <1>10 DEF Backed
<1>12. SameConnection'
  <2> SUFFICES ASSUME link'[A] = "up", link'[B] = "up"
               PROVE  far'[Current(A)'] = Current(B)' /\ far'[Current(B)'] = Current(A)'
    BY DEF SameConnection
  <2>1. /\ link[A] = "up" /\ link[B] = "up"
        /\ Current(A)' = Current(A) /\ Current(B)' = Current(B)
        /\ Other(A) \in Known(A) /\ Other(B) \in Known(B)
    BY <1>10, TwoPeers
  <2>2. Current(A) \in Sessions /\ Current(B) \in Sessions
    BY <2>1, CurrentSession, TwoPeers DEF IInv, TypeOK
  <2>3. far[Current(A)] = Current(B) /\ far[Current(B)] = Current(A)
    BY <2>1 DEF IInv, SameConnection
  <2> QED
    BY <2>1, <2>2, <2>3, SessionParts
<1> QED
  BY <1>6, <1>7, <1>8, <1>9, <1>11, <1>12 DEF IInv

(* What the steps that do not touch it leave of the rest.                  *)
LEMMA Unhandled ==
  ASSUME IInv, NEW c \in Controls
  PROVE  /\ peers_[c] \in [Remotes -> Gens \cup {NoGen}] /\ NoPeers \in [Remotes -> Gens \cup {NoGen}]
         /\ session \in [Sessions -> SessionRecords]
         /\ \A r \in Remotes : (peers_[c][r] # NoGen => r = Other(c)) /\ NoPeers[r] = NoGen
         /\ \A s \in Sessions : Consistent(s, session[s], far[s])
         /\ link[c] = "up" => peer_[c] /\ session[Current(c)].state_ = "pOpen"
         /\ \A p \in Controls : wire[p] \in Seq(Mail(p))
BY DEF IInv, TypeOK, SessionTypeOK, OwnEntries, Known, OwnSessions, Backed, Addressed, NoPeers

(* A handler that leaves the entries and the sessions alone.               *)
LEMMA SameSessions ==
  ASSUME IInv, NEW c \in Controls, UNCHANGED far
  PROVE  /\ Fits(c, peers_[c], session)
         /\ UNCHANGED <<peer_, link>> => Truthful(c, peers_[c], session)
BY Unhandled DEF Fits, Truthful, IInv, TypeOK

(* The application is told that the link is down.                          *)
LEMMA ToldTruthful ==
  ASSUME IInv, NEW c \in Controls, link' = Told(c), NEW map, NEW ss,
         peer_' \in [Controls -> BOOLEAN], \A p \in Controls \ {c} : peer_'[p] = peer_[p]
  PROVE  Truthful(c, map, ss)
<1>1. link \in [Controls -> {"down", "up"}]
  BY DEF IInv, TypeOK
<1>2. Told(c) \in [Controls -> {"down", "up"}] /\ Told(c)[c] = "down"
      /\ \A p \in Controls : p # c => Told(c)[p] = link[p]
  BY <1>1, Unhandled DEF Told
<1> QED
  BY <1>2 DEF Truthful

LEMMA HistoryType ==
  ASSUME IInv, UNCHANGED history \/ Trouble
  PROVE  joins' \in [Controls -> Nat] /\ troubles' \in Nat
BY DEF IInv, TypeOK, history, Trouble

LEMMA NothingSent ==
  ASSUME IInv, UNCHANGED <<wire, ice>>, UNCHANGED history \/ Trouble
  PROVE  Relayed
BY HistoryType DEF Relayed, IInv, TypeOK, Addressed

LEMMA LeavesRelayed ==
  ASSUME IInv, NEW c \in Controls, Leaves(c), UNCHANGED ice, UNCHANGED history
  PROVE  Relayed
<1>1. wire \in [Controls -> Seq(Messages \cup Sdps)] /\ \A p \in Controls : wire[p] \in Seq(Mail(p))
  BY DEF IInv, TypeOK, Addressed
<1> DEFINE m == Message("peerclosed", {c}, TRUE)
<1>2. m \in Mail(Other(c))
  BY MailMessage, TwoPeers DEF Kinds, Commands
<1>3. m \in Messages \cup Sdps
  BY <1>2 DEF Mail
<1> HIDE DEF m
<1>4. /\ Append(wire[Other(c)], m) \in Seq(Mail(Other(c)))
      /\ Append(wire[Other(c)], m) \in Seq(Messages \cup Sdps)
  BY <1>1, <1>2, <1>3, TwoPeers
<1>5. /\ wire' \in [Controls -> Seq(Messages \cup Sdps)]
      /\ \A p \in Controls : wire'[p] \in Seq(Mail(p))
  BY <1>1, <1>4, TwoPeers DEF Leaves, m
<1> QED
  BY <1>5, HistoryType DEF Relayed

(* Control::OnMessage keeps the invariant, one step per handler.           *)
LEMMA DispatchStep ==
  ASSUME IInv, NEW c \in Controls, Dispatch(c)
  PROVE  IInv'
<1>1. /\ queue[c] # <<>> /\ queue[c] \in Seq(Mail(c)) /\ Head(queue[c]) \in Mail(c)
  <2>1. queue[c] # <<>> /\ queue[c] \in Seq(Mail(c))
    BY DEF Dispatch, Dispatches, HandleChannelJoin, HandleOffer, HandleAnswerSdp,
           HandleClosePeer, HandleClose, IInv, Addressed
  <2> QED
    BY <2>1, MailHead
<1>2. peer_ \in [Controls -> BOOLEAN] /\ link \in [Controls -> {"down", "up"}]
      /\ far \in [Sessions -> Sessions \cup {NoSession}]
  BY DEF IInv, TypeOK
<1>3. UNCHANGED peer_ => peer_' \in [Controls -> BOOLEAN] /\ \A p \in Controls \ {c} : peer_'[p] = peer_[p]
  BY <1>2
<1>5. CASE HandleChannelJoin(c)
  <2>1. UNCHANGED <<far, ice, wire, history, peer_>> /\ (link' = link \/ link' = Told(c))
    BY <1>5 DEF HandleChannelJoin, Handled, netVars
  <2>2. PICK holder : EndMessage(c, holder, peers_[c], session, <<>>)
    BY <1>5 DEF HandleChannelJoin, Handled
  <2>3. Fits(c, peers_[c], session)
    BY <2>1, SameSessions
  <2>4. Truthful(c, peers_[c], session)
    BY <1>3, <2>1, SameSessions, ToldTruthful
  <2>5. Relayed
    BY <2>1, NothingSent
  <2> QED
    BY <1>1, <2>2, <2>3, <2>4, <2>5, HandlerStep
<1>6. CASE HandleOffer(c)
  <2>1. Ids(c) = {Other(c)} /\ (Head(queue[c]).kind = "offersdp" =>
          Head(queue[c]).from \in Sessions /\ Head(queue[c]).from[1] = c)
    BY <1>1, <1>6 DEF HandleOffer, Dispatches, Ids, Mail, Sdps
  <2>2. ASSUME NEW r \in Ids(c), NEW g \in Fresh(r),
               LET offered == Head(queue[c]).kind = "offersdp"
               IN /\ far' = IF offered THEN [far EXCEPT ![<<r, g>>] = Head(queue[c]).from]
                            ELSE far
                  /\ Handled(c, Inserted(c, [x \in {r} |-> g]),
                             Started({<<r, g>>}, c, IF offered THEN "kAnswer" ELSE "kOffer"))
                  /\ UNCHANGED <<link, history>>
        PROVE  IInv'
    <3> DEFINE t == <<r, g>>
               type == IF Head(queue[c]).kind = "offersdp" THEN "kAnswer" ELSE "kOffer"
               f == IF Head(queue[c]).kind = "offersdp" THEN Head(queue[c]).from ELSE NoSession
               ss == Started({t}, c, type)
               map == Inserted(c, [x \in {r} |-> g])
    <3>1. t \in Sessions /\ t[1] = Other(c) /\ session[t].state_ = "unborn" /\ g \in Gens
      BY <2>1, TwoPeers DEF Fresh, Sessions
    <3>2. far[t] = NoSession
      BY <3>1 DEF IInv, OwnSessions, Consistent
    <3>3. /\ type \in {"kOffer", "kAnswer"}
          /\ type = "kAnswer" => f \in Sessions /\ f[1] = c
          /\ type = "kOffer" => f = NoSession
      BY <2>1
    <3>4. PICK holder : EndMessage(c, holder, map, ss, <<>>)
      BY <2>2 DEF Handled
    <3>5. UNCHANGED <<peer_, link, joins, troubles>>
      BY <2>2 DEF Handled, history
    <3>6. /\ far' \in [Sessions -> Sessions \cup {NoSession}]
          /\ \A s \in Sessions : far'[s] = IF s = t THEN f ELSE far[s]
      BY <1>2, <2>1, <2>2, <3>1, <3>2
    <3>7. UNCHANGED <<ice, wire>>
      BY <1>6 DEF HandleOffer
    <3>8. ss \in [Sessions -> SessionRecords]
      BY <3>3, StartedType DEF IInv, TypeOK
    <3>9. \A s \in Sessions : Consistent(s, ss[s], IF s = t THEN f ELSE far[s])
      <4> HIDE DEF t, f, type
      <4> QED
        BY <3>1, <3>3, StartedConsistent DEF IInv
    <3>10. \A s \in Sessions : s # t => ss[s] = session[s]
      BY DEF Started
    <3>11. /\ map \in [Remotes -> Gens \cup {NoGen}]
           /\ \A x \in Remotes : map[x] # NoGen => x = Other(c)
           /\ peers_[c][Other(c)] # NoGen => map[Other(c)] = peers_[c][Other(c)]
      BY <2>1, <3>1, Unhandled, TwoPeers DEF Inserted
    <3>12. link[c] = "up" => /\ peer_[c] /\ peers_[c][Other(c)] # NoGen
                             /\ Current(c) \in Sessions /\ Current(c) # t
                             /\ session[Current(c)].state_ = "pOpen"
      BY <3>1, CurrentSession DEF IInv, TypeOK, Backed, Known
    <3> HIDE DEF t, f, type, ss, map
    <3>13. ASSUME NEW s \in Sessions
           PROVE  /\ Consistent(s, ss[s], far'[s])
                  /\ far[s] # NoSession => far'[s] = far[s]
                  /\ s[1] # Other(c) => ss[s] = session[s]
      <4>1. CASE s = t
        BY <3>1, <3>2, <3>6, <3>9, <4>1
      <4>2. CASE s # t
        BY <3>6, <3>9, <3>10, <4>2
      <4> QED
        BY <4>1, <4>2
    <3>14. Fits(c, map, ss)
      BY <3>6, <3>8, <3>11, <3>13 DEF Fits
    <3>15. Truthful(c, map, ss)
      BY <1>2, <3>5, <3>10, <3>11, <3>12 DEF Truthful
    <3>16. Relayed
      BY <3>5, <3>7, NothingSent DEF history
    <3> QED
      BY <1>1, <3>4, <3>14, <3>15, <3>16, HandlerStep
  <2>3. CASE /\ Trouble /\ link' = Told(c) /\ Handled(c, peers_[c], session)
             /\ UNCHANGED <<far, ice, wire>>
    <3>1. PICK holder : EndMessage(c, holder, peers_[c], session, <<>>)
      BY <2>3 DEF Handled
    <3>2. UNCHANGED peer_
      BY <2>3 DEF Handled
    <3>3. Fits(c, peers_[c], session) /\ Relayed
      BY <2>3, SameSessions, NothingSent
    <3>4. Truthful(c, peers_[c], session)
      BY <1>3, <2>3, <3>2, ToldTruthful
    <3> QED
      BY <1>1, <3>1, <3>3, <3>4, HandlerStep
  <2> QED
    BY <1>6, <2>2, <2>3 DEF HandleOffer
<1>7. CASE HandleAnswerSdp(c)
  <2> DEFINE r == Other(c)
             s == SessionOf(c, r)
             answered == r \in Known(c) /\ session[s].sdp = {"local"}
             ss == IF r \in Known(c) THEN Answered(s) ELSE session
             from == Head(queue[c]).from
  <2>1. from \in Sessions /\ from[1] = c
    BY <1>1, <1>7 DEF HandleAnswerSdp, Dispatches, Mail, Sdps
  <2>2. r \in Known(c) => s \in Sessions /\ s[1] = Other(c) /\ s = Current(c)
    BY CurrentSession DEF IInv, TypeOK, Current
  <2>3. far' = IF answered THEN [far EXCEPT ![s] = from] ELSE far
    BY <1>7 DEF HandleAnswerSdp
  <2>4. UNCHANGED <<ice, wire, link, joins, troubles, peer_>>
    BY <1>7 DEF HandleAnswerSdp, Handled, history
  <2>5. PICK holder : EndMessage(c, holder, peers_[c], ss, <<>>)
    BY <1>7 DEF HandleAnswerSdp, Handled
  <2>6. ss \in [Sessions -> SessionRecords]
    BY <2>2, UpdatedType, Unhandled DEF IInv, TypeOK
  <2>7. /\ far' \in [Sessions -> Sessions \cup {NoSession}]
        /\ \A x \in Sessions : far'[x] = IF answered /\ x = s THEN from ELSE far[x]
    BY <1>2, <2>1, <2>2, <2>3
  <2>8. /\ \A x \in Sessions : x # s \/ r \notin Known(c) => ss[x] = session[x]
        /\ \A x \in Sessions : ss[x].state_ = session[x].state_
    BY <2>2, Unhandled DEF Answered, SessionRecords
  <2>9. ASSUME NEW x \in Sessions
        PROVE  Consistent(x, ss[x], far'[x]) /\ (far[x] # NoSession => far'[x] = far[x])
    <3>1. Consistent(x, session[x], far[x]) /\ session[x].sdp \in SUBSET {"local", "remote"}
      BY Unhandled DEF SessionRecords
    <3>2. CASE r \notin Known(c) \/ x # s
      BY <2>7, <2>8, <2>9, <3>1, <3>2
    <3>3. CASE r \in Known(c) /\ x = s /\ "local" \notin session[x].sdp
      BY <2>7, <3>1, <3>3 DEF Answered
    <3>4. CASE r \in Known(c) /\ x = s /\ "local" \in session[x].sdp
      <4>1. ss[x] = [session[x] EXCEPT !.sdp = {"local", "remote"}]
        BY <2>9, <3>4, Unhandled DEF Answered
      <4>2. /\ ss[x].state_ = session[x].state_ /\ ss[x].observer = session[x].observer
            /\ ss[x].desc = session[x].desc /\ ss[x].sdp = {"local", "remote"}
        BY <4>1, Unhandled DEF SessionRecords
      <4>3. session[x].state_ \in Active /\ session[x].desc = "none"
        BY <3>1, <3>4 DEF Consistent
      <4>4. session[x].sdp = {"local"} \/ session[x].sdp = {"local", "remote"}
        BY <3>1, <3>4
      <4>5. session[x].sdp = {"local"} => far[x] = NoSession
        BY <3>1, <4>3 DEF Consistent
      <4>6. Other(x[1]) = c /\ "unborn" \notin Active
        BY <2>2, <3>4, TwoPeers DEF Active
      <4>7. far'[x] = from \/ far'[x] = far[x]
        BY <2>7
      <4>8. Consistent(x, ss[x], far'[x])
        BY <2>1, <3>1, <4>2, <4>3, <4>6, <4>7 DEF Consistent
      <4> QED
        BY <2>7, <3>4, <4>4, <4>5, <4>8
    <3> QED
      BY <3>2, <3>3, <3>4
  <2>10. \A x \in Sessions : x[1] # Other(c) => ss[x] = session[x]
    BY <2>2, <2>8
  <2>11. link[c] = "up" => Current(c) \in Sessions
    BY CurrentSession DEF IInv, TypeOK, Backed
  <2> HIDE DEF r, s, answered, ss, from
  <2>12. Fits(c, peers_[c], ss)
    BY <2>6, <2>7, <2>9, <2>10, Unhandled DEF Fits
  <2>13. Truthful(c, peers_[c], ss)
    BY <1>2, <2>4, <2>8, <2>11, Unhandled DEF Truthful
  <2>14. Relayed
    BY <2>4, NothingSent DEF history
  <2> QED
    BY <1>1, <2>5, <2>12, <2>13, <2>14, HandlerStep
<1>8. CASE HandleClosePeer(c)
  <2>1. CASE Ids(c) \cap Known(c) = {}
    <3>1. PICK holder : EndMessage(c, holder, peers_[c], session, <<>>)
      BY <1>8, <2>1 DEF HandleClosePeer, Handled
    <3>2. UNCHANGED <<far, ice, wire, link, joins, troubles, peer_>>
      BY <1>8, <2>1 DEF HandleClosePeer, Handled, history
    <3>3. Fits(c, peers_[c], session) /\ Truthful(c, peers_[c], session) /\ Relayed
      BY <3>2, SameSessions, NothingSent DEF history
    <3> QED
      BY <1>1, <3>1, <3>3, HandlerStep
  <2>2. CASE Ids(c) \cap Known(c) # {}
    <3> DEFINE S == SessionsOf(c, Ids(c))
               map == Erased(c, Ids(c))
    <3>1. PICK holder : EndMessage(c, holder, map, Closed(S), <<>>)
      BY <1>8, <2>2 DEF HandleClosePeer, Handled
    <3>2. UNCHANGED <<far, ice, joins, troubles, peer_>> /\ link' = Told(c) /\ Leaves(c)
      BY <1>8, <2>2 DEF HandleClosePeer, Handled, history
    <3>3. map \in [Remotes -> Gens \cup {NoGen}] /\ \A x \in Remotes : map[x] # NoGen => x = Other(c)
      BY Unhandled DEF Erased
    <3>4. Closed(S) \in [Sessions -> SessionRecords]
      BY ClosedType DEF IInv, TypeOK
    <3>5. \A s \in Sessions : Consistent(s, Closed(S)[s], far[s])
      BY ClosedConsistent DEF IInv, TypeOK
    <3>6. \A s \in Sessions : s[1] # Other(c) => Closed(S)[s] = session[s]
      BY DEF Closed, SessionsOf, SessionOf, IInv, OwnEntries
    <3> HIDE DEF S, map
    <3>7. Fits(c, map, Closed(S))
      BY <1>2, <3>2, <3>3, <3>4, <3>5, <3>6 DEF Fits
    <3>8. Truthful(c, map, Closed(S))
      BY <1>3, <3>2, ToldTruthful
    <3>9. Relayed
      BY <3>2, LeavesRelayed DEF history
    <3> QED
      BY <1>1, <3>1, <3>7, <3>8, <3>9, HandlerStep
  <2> QED
    BY <2>1, <2>2
<1>9. CASE HandleClose(c)
  <2> DEFINE S == SessionsOf(c, Known(c))
  <2>1. EndMessage(c, NoControl, NoPeers, Closed(S), <<>>)
    BY <1>9 DEF HandleClose
  <2>2. /\ UNCHANGED <<far, ice, joins, troubles>> /\ link' = Told(c) /\ Leaves(c)
        /\ peer_' = [peer_ EXCEPT ![c] = FALSE]
    BY <1>9 DEF HandleClose, history
  <2>3. Closed(S) \in [Sessions -> SessionRecords]
    BY ClosedType DEF IInv, TypeOK
  <2>4. \A s \in Sessions : Consistent(s, Closed(S)[s], far[s])
    BY ClosedConsistent DEF IInv, TypeOK
  <2>5. \A s \in Sessions : s[1] # Other(c) => Closed(S)[s] = session[s]
    BY DEF Closed, SessionsOf, SessionOf, IInv, OwnEntries
  <2>6. peer_' \in [Controls -> BOOLEAN] /\ \A p \in Controls : p # c => peer_'[p] = peer_[p]
    BY <1>2, <2>2
  <2> HIDE DEF S
  <2>7. Fits(c, NoPeers, Closed(S))
    BY <1>2, <2>2, <2>3, <2>4, <2>5, Unhandled DEF Fits
  <2>8. Truthful(c, NoPeers, Closed(S))
    BY <2>2, <2>6, ToldTruthful
  <2>9. Relayed
    BY <2>2, LeavesRelayed DEF history
  <2> QED
    BY <1>1, <2>1, <2>7, <2>8, <2>9, HandlerStep
<1> QED
  BY <1>5, <1>6, <1>7, <1>8, <1>9 DEF Dispatch

-----------------------------------------------------------------------------
(* The other steps leave the entries alone.  They close no session that is *)
(* open and in peers_, ...                                                 *)
SessionsStay ==
  /\ session' \in [Sessions -> SessionRecords]
  /\ \A s \in Sessions :
       /\ Consistent(s, session'[s], far[s])
       /\ session'[s].state_ \in Active => s \in Mapped(peers_) \/ session'[s].desc # "none"
       /\ s \in Mapped(peers_) /\ session[s].state_ = "pOpen" => session'[s].state_ = "pOpen"

(* ... and raise a connect event only for a session whose counterpart is   *)
(* the one that the other peer uses.                                       *)
Raises(p) == /\ peer_[p] /\ Other(p) \in Known(p) /\ session'[Current(p)].state_ = "pOpen"
             /\ far[Current(p)] = Current(Other(p)) /\ far[Current(Other(p))] = Current(p)

Delivered == /\ queue' \in [Controls -> Seq(Messages \cup Sdps)]
             /\ \A p \in Controls : queue'[p] \in Seq(Mail(p))
             /\ wire' \in [Controls -> Seq(Messages \cup Sdps)]
             /\ \A p \in Controls : wire'[p] \in Seq(Mail(p))
             /\ joins' \in [Controls -> Nat] /\ troubles' \in Nat

LEMMA QuietStep ==
  ASSUME IInv, UNCHANGED <<ctl, peer_, peers_, far>>, SessionsStay, Delivered,
         link' \in [Controls -> {"down", "up"}], ice' \in [Sessions -> BOOLEAN],
         \A p \in Controls : link'[p] = link[p] \/ Raises(p)
  PROVE  IInv'
<1>1. TypeOK'
  BY DEF IInv, TypeOK, SessionsStay, SessionTypeOK, Delivered
<1>2. Addressed' /\ OwnSessions' /\ OwnEntries' /\ Held'
  BY DEF IInv, SessionsStay, Delivered, Addressed, OwnSessions, OwnEntries, Known, Held, Mapped
<1>3. \A p \in Controls : Current(p)' = Current(p) /\ Known(p)' = Known(p)
  BY DEF Current, SessionOf, Known
<1>4. ASSUME NEW p \in Controls, link'[p] = "up"
      PROVE  peer_[p] /\ Other(p) \in Known(p) /\ session'[Current(p)].state_ = "pOpen"
  <2>1. CASE Raises(p)
    BY <2>1 DEF Raises
  <2>2. CASE link'[p] = link[p]
    <3>1. peer_[p] /\ Other(p) \in Known(p) /\ session[Current(p)].state_ = "pOpen"
      BY <1>4, <2>2 DEF IInv, Backed
    <3>2. Current(p) \in Sessions /\ Current(p) \in Mapped(peers_)
      BY <3>1, CurrentSession DEF IInv, TypeOK, Mapped
    <3> QED
      BY <3>1, <3>2 DEF SessionsStay
  <2> QED
    BY <2>1, <2>2
<1>5. Backed'
  BY <1>3, <1>4 DEF Backed
<1>6. SameConnection'
  <2> SUFFICES ASSUME link'[A] = "up", link'[B] = "up"
               PROVE  far[Current(A)] = Current(B) /\ far[Current(B)] = Current(A)
    BY <1>3, TwoPeers DEF SameConnection
  <2>1. CASE Raises(A) \/ Raises(B)
    BY <2>1, TwoPeers DEF Raises
  <2>2. CASE link'[A] = link[A] /\ link'[B] = link[B]
    BY <2>2 DEF IInv, SameConnection
  <2> QED
    BY <2>1, <2>2, TwoPeers
<1> QED
  BY <1>1, <1>2, <1>5, <1>6 DEF IInv

(* Steps that leave the sessions, or the mail, as they are.                *)
LEMMA SessionsUnchanged ==
  ASSUME IInv, UNCHANGED session
  PROVE  SessionsStay
BY DEF IInv, TypeOK, SessionTypeOK, OwnSessions, Held, SessionsStay

LEMMA NothingDelivered ==
  ASSUME IInv, UNCHANGED <<queue, wire>>, UNCHANGED history \/ Trouble
  PROVE  Delivered
BY HistoryType DEF IInv, TypeOK, Addressed, Delivered

LEMMA PostDelivered ==
  ASSUME IInv, NEW c \in Controls, NEW m \in Mail(c), UNCHANGED history \/ Trouble,
         queue' = [queue EXCEPT ![c] = Posted(c, m)] \/ queue' = queue, UNCHANGED wire
  PROVE  Delivered
<1>1. Posted(c, m) \in Seq(Mail(c))
  BY MailPosted DEF IInv, TypeOK, Addressed
<1>2. Mail(c) \subseteq Messages \cup Sdps
  BY DEF Mail
<1>3. Posted(c, m) \in Seq(Messages \cup Sdps)
  BY <1>1, <1>2
<1> QED
  BY <1>1, <1>3, HistoryType DEF IInv, TypeOK, Addressed, Delivered

LEMMA SendDelivered ==
  ASSUME IInv, NEW c \in Controls, NEW m \in Mail(c),
         joins' \in [Controls -> Nat], troubles' \in Nat, UNCHANGED queue,
         wire' = [wire EXCEPT ![c] = Append(wire[c], m)] \/ wire' = wire
  PROVE  Delivered
<1>1. m \in Messages \cup Sdps
  BY DEF Mail
<1>2. wire \in [Controls -> Seq(Messages \cup Sdps)] /\ \A p \in Controls : wire[p] \in Seq(Mail(p))
  BY DEF IInv, TypeOK, Addressed
<1>3. Append(wire[c], m) \in Seq(Mail(c)) /\ Append(wire[c], m) \in Seq(Messages \cup Sdps)
  BY <1>1, <1>2
<1> QED
  BY <1>2, <1>3 DEF IInv, TypeOK, Addressed, Delivered

(* The application's calls, and the arrival of a command.                  *)
LEMMA CallStep ==
  ASSUME IInv, NEW c \in Controls, Calls(c) \/ Receive(c)
  PROVE  IInv'
<1>1. /\ UNCHANGED <<session, ctl, peer_, peers_, far, ice, link>>
  BY DEF Calls, Connect, ClosePeer, Close, Receive, controlVars, netVars
<1>2. link \in [Controls -> {"down", "up"}] /\ ice \in [Sessions -> BOOLEAN]
  BY DEF IInv, TypeOK
<1>3. Delivered
  <2>1. CASE Connect(c)
    <3> DEFINE q == Other(c)
               m == Message("channeljoin", {q}, peer_[q])
               n == Message("createoffer", {c}, TRUE)
    <3>1. m \in Mail(c) /\ n \in Mail(q) /\ q \in Controls /\ q # c
      BY MailMessage, TwoPeers DEF IInv, TypeOK, Kinds, Commands
    <3>2. m \in Messages \cup Sdps /\ n \in Messages \cup Sdps
      BY <3>1 DEF Mail
    <3>3. wire \in [Controls -> Seq(Messages \cup Sdps)] /\ \A p \in Controls : wire[p] \in Seq(Mail(p))
      BY DEF IInv, TypeOK, Addressed
    <3>4. \/ wire' = [wire EXCEPT ![c] = Append(wire[c], m), ![q] = Append(wire[q], n)]
          \/ wire' = [wire EXCEPT ![c] = Append(wire[c], m)]
      BY <2>1 DEF Connect
    <3> HIDE DEF m, n, q
    <3>5. /\ Append(wire[c], m) \in Seq(Mail(c)) /\ Append(wire[q], n) \in Seq(Mail(q))
          /\ Append(wire[c], m) \in Seq(Messages \cup Sdps)
          /\ Append(wire[q], n) \in Seq(Messages \cup Sdps)
      BY <3>1, <3>2, <3>3
    <3>6. /\ wire' \in [Controls -> Seq(Messages \cup Sdps)]
          /\ \A p \in Controls : wire'[p] \in Seq(Mail(p))
      BY <3>1, <3>3, <3>4, <3>5
    <3>7. joins' \in [Controls -> Nat] /\ troubles' \in Nat /\ UNCHANGED queue
      BY <2>1 DEF Connect, IInv, TypeOK, controlVars
    <3> QED
      BY <3>6, <3>7 DEF IInv, TypeOK, Addressed, Delivered
  <2>2. CASE ClosePeer(c)
    <3>1. Message("MSG_CLOSE_PEER", {Other(c)}, TRUE) \in Mail(c)
      BY MailMessage, TwoPeers DEF Kinds
    <3> QED
      BY <2>2, <3>1, PostDelivered DEF ClosePeer, netVars
  <2>3. CASE Close(c)
    <3>1. Message("MSG_CLOSE", {}, TRUE) \in Mail(c)
      BY MailMessage DEF Kinds
    <3> QED
      BY <2>3, <3>1, PostDelivered DEF Close, netVars
  <2>4. CASE Receive(c)
    <3>1. wire \in [Controls -> Seq(Messages \cup Sdps)] /\ wire[c] \in Seq(Mail(c)) /\ wire[c] # <<>>
          /\ queue[c] \in Seq(Mail(c))
      BY <2>4 DEF IInv, TypeOK, Addressed, Receive
    <3>2. Head(wire[c]) \in Mail(c) /\ Tail(wire[c]) \in Seq(Mail(c))
          /\ Tail(wire[c]) \in Seq(Messages \cup Sdps)
      BY <3>1
    <3>3. Posted(c, Head(wire[c])) \in Seq(Mail(c))
      BY <3>1, <3>2, MailPosted DEF IInv, TypeOK
    <3>4. Mail(c) \subseteq Messages \cup Sdps
      BY DEF Mail
    <3>5. Posted(c, Head(wire[c])) \in Seq(Messages \cup Sdps)
      BY <3>3, <3>4
    <3> QED
      BY <2>4, <3>1, <3>2, <3>3, <3>5, HistoryType DEF Receive, IInv, TypeOK, Addressed, Delivered
  <2> QED
    BY <2>1, <2>2, <2>3, <2>4 DEF Calls
<1> QED
  BY <1>1, <1>2, <1>3, SessionsUnchanged, QuietStep

(* WebRTC answers a request.                                               *)
LEMMA AnswerStep ==
  ASSUME IInv, NEW s \in Sessions, OnSuccess(s) \/ OnFailure(s)
  PROVE  IInv'
<1>1. UNCHANGED <<ctl, peer_, peers_, queue, far, ice, link>>
  BY DEF OnSuccess, OnFailure, controlVars, netVars
<1>2. link \in [Controls -> {"down", "up"}] /\ ice \in [Sessions -> BOOLEAN]
      /\ session \in [Sessions -> SessionRecords]
  BY DEF IInv, TypeOK, SessionTypeOK
<1>3. PICK ss \in {Described(s), Refused(s)} : session' = Reaped(ss, Mapped(peers_))
  BY DEF OnSuccess, OnFailure
<1>4. ss \in [Sessions -> SessionRecords]
  BY UpdatedType DEF IInv, TypeOK
<1>5. /\ \A t \in Sessions : t # s => ss[t] = session[t]
      /\ ss[s].state_ = session[s].state_ /\ ss[s].observer = session[s].observer
      /\ ss[s].desc = "none"
      /\ \/ ss[s].sdp = session[s].sdp
         \/ session[s].state_ = "pConnecting" /\ ss[s].sdp = session[s].sdp \cup {"local"}
  <2>1. /\ DOMAIN session = Sessions
        /\ session[s] \in SessionRecords
    BY <1>2
  <2>2. CASE session[s].state_ = "pConnecting" /\ ss = Described(s)
    <3>1. ss = [session EXCEPT ![s] = [session[s] EXCEPT !.desc = "none", !.sdp = session[s].sdp \cup {"local"}]]
      BY <2>2 DEF Described, SendsDescription
    <3> QED
      BY <2>1, <2>2, <3>1 DEF SessionRecords
  <2>3. CASE ~ (session[s].state_ = "pConnecting" /\ ss = Described(s))
    <3>1. ss = [session EXCEPT ![s] = [session[s] EXCEPT !.desc = "none"]]
      BY <1>3, <2>3 DEF Described, Refused, SendsDescription
    <3> QED
      BY <2>1, <3>1 DEF SessionRecords
  <2> QED
    BY <2>2, <2>3
<1>6. \A t \in Sessions : Consistent(t, ss[t], far[t])
  <2> TAKE t \in Sessions
  <2>1. Consistent(t, session[t], far[t])
    BY DEF IInv, OwnSessions
  <2>2. CASE t = s
    BY <1>5, <2>1, <2>2 DEF Consistent, Active
  <2> QED
    BY <1>5, <2>1, <2>2
<1>7. SessionsStay
  BY <1>3, <1>4, <1>5, <1>6, ReapedType, ReapedConsistent, ReapedHeld DEF SessionsStay
<1>8. Delivered
  <2>1. CASE OnFailure(s)
    BY <2>1, NothingDelivered DEF OnFailure, controlVars, netVars
  <2>2. CASE OnSuccess(s)
    <3> DEFINE kind == IF session[s].desc = "kOffer" THEN "offersdp" ELSE "answersdp"
               c == session[s].observer
    <3>1. \/ wire' = wire
          \/ SendsDescription(s) /\ wire' = [wire EXCEPT ![s[1]] = Append(wire[s[1]], Sdp(kind, c, s))]
      BY <2>2 DEF OnSuccess
    <3>2. SendsDescription(s) => c = Other(s[1])
      BY DEF IInv, OwnSessions, Consistent, SendsDescription, Active
    <3>3. s[1] \in Controls
      BY SessionParts
    <3>4. Sdp(kind, Other(s[1]), s) \in Mail(s[1])
      BY MailSdp
    <3>5. joins' \in [Controls -> Nat] /\ troubles' \in Nat
      BY <2>2, HistoryType DEF OnSuccess
    <3> HIDE DEF kind
    <3> QED
      BY <1>1, <3>1, <3>2, <3>3, <3>4, <3>5, SendDelivered
  <2> QED
    BY <2>1, <2>2
<1> QED
  BY <1>1, <1>2, <1>7, <1>8, QuietStep

(* WebRTC connects a session or reports its end.                           *)
LEMMA ConnectionStep ==
  ASSUME IInv, NEW s \in Sessions,
         IceConnected(s) \/ DataChannelArrives(s) \/ DataChannelOpens(s) \/ OnPeerDisconnected(s)
  PROVE  IInv'
<1>1. UNCHANGED <<ctl, peer_, peers_, far, wire>> /\ Negotiated(s)
  BY DEF IceConnected, DataChannelArrives, DataChannelOpens, OnPeerDisconnected, Wired,
         controlVars, netVars
<1>2. link \in [Controls -> {"down", "up"}] /\ ice \in [Sessions -> BOOLEAN]
      /\ session \in [Sessions -> SessionRecords]
  BY DEF IInv, TypeOK, SessionTypeOK
<1>3. /\ session[s].observer = Other(s[1]) /\ Other(s[1]) \in Controls
      /\ s[1] \in Known(Other(s[1])) /\ s = Current(Other(s[1]))
  BY <1>1, NegotiatedIsCurrent
<1>4. ASSUME session' = [session EXCEPT ![s] = session'[s]], session'[s] \in SessionRecords,
             session'[s].observer = session[s].observer, session'[s].desc = session[s].desc,
             session'[s].sdp = session[s].sdp,
             session'[s].state_ \in {session[s].state_, "pOpen"}
      PROVE  SessionsStay
  <2>1. session' \in [Sessions -> SessionRecords] /\ \A t \in Sessions : t # s => session'[t] = session[t]
    BY <1>2, <1>4
  <2>2. session'[s].state_ \in Active /\ session[s].state_ \in Active
    BY <1>1, <1>4 DEF Negotiated, Active
  <2>3. ASSUME NEW t \in Sessions
        PROVE  /\ Consistent(t, session'[t], far[t])
               /\ session'[t].state_ \in Active => t \in Mapped(peers_) \/ session'[t].desc # "none"
               /\ session[t].state_ = "pOpen" => session'[t].state_ = "pOpen"
    <3>1. /\ Consistent(t, session[t], far[t])
          /\ session[t].state_ \in Active => t \in Mapped(peers_) \/ session[t].desc # "none"
      BY DEF IInv, OwnSessions, Held
    <3>2. CASE t = s
      BY <1>4, <2>2, <3>1, <3>2 DEF Consistent, Active
    <3> QED
      BY <2>1, <3>1, <3>2
  <2> QED
    BY <2>1, <2>3 DEF SessionsStay
<1>5. CASE IceConnected(s)
  <2>1. ice' \in [Sessions -> BOOLEAN] /\ UNCHANGED <<session, queue, link, history>>
    BY <1>2, <1>5 DEF IceConnected, controlVars
  <2> QED
    BY <1>1, <1>2, <2>1, SessionsUnchanged, NothingDelivered, QuietStep
<1>6. CASE DataChannelArrives(s)
  <2>1. UNCHANGED <<queue, ice, link, history>>
        /\ session' = [session EXCEPT ![s] = [session[s] EXCEPT !.remote_data_channel_ = "connecting"]]
    BY <1>6 DEF DataChannelArrives, OnDataChannel, controlVars, netVars
  <2>2. SessionsStay
    BY <1>2, <1>4, <2>1 DEF SessionRecords, ChannelStates
  <2> QED
    BY <1>1, <1>2, <2>1, <2>2, NothingDelivered, QuietStep
<1>7. CASE DataChannelOpens(s)
  <2>1. UNCHANGED <<queue, ice, history>>
    BY <1>7 DEF DataChannelOpens, controlVars, netVars
  <2>2. PICK x \in {[session[s] EXCEPT !.local_data_channel_ = "open"],
                    [session[s] EXCEPT !.remote_data_channel_ = "open"]} :
          session' = [session EXCEPT ![s] = Opened(x)]
    BY <1>7 DEF DataChannelOpens, OnStateChange
  <2>3. /\ x \in SessionRecords /\ x.state_ = session[s].state_ /\ x.sdp = session[s].sdp
        /\ x.observer = session[s].observer /\ x.desc = session[s].desc
    BY <1>2 DEF SessionRecords, ChannelStates
  <2>4. /\ Opened(x) \in SessionRecords /\ Opened(x).state_ \in {session[s].state_, "pOpen"}
        /\ Opened(x).sdp = session[s].sdp
        /\ Opened(x).observer = session[s].observer /\ Opened(x).desc = session[s].desc
    BY <2>3 DEF Opened, SessionRecords, States
  <2>5. session'[s] = Opened(x)
    BY <1>2, <2>2
  <2>6. SessionsStay
    BY <1>4, <2>2, <2>4, <2>5
  <2> DEFINE c == session[s].observer
             t == far[s]
  <2>7. \/ link' = link
        \/ session'[s].state_ = "pOpen" /\ peer_[c] /\ link' = [link EXCEPT ![c] = "up"]
    BY <1>7 DEF DataChannelOpens
  <2>8. t \in Sessions /\ t[1] = Other(s[1]) /\ far[t] = s /\ Negotiated(t)
    BY <1>7 DEF DataChannelOpens, Wired, IInv, OwnSessions, Consistent
  <2>9. t = Current(Other(t[1]))
    BY <2>8, NegotiatedIsCurrent
  <2>10. s = Current(c) /\ t = Current(Other(c)) /\ s[1] = Other(c) /\ c \in Controls
    BY <1>3, <2>8, <2>9, TwoPeers, SessionParts
  <2>11. link' # link => Raises(c)
    BY <1>3, <2>7, <2>8, <2>10 DEF Raises
  <2>12. link' \in [Controls -> {"down", "up"}] /\ \A p \in Controls : link'[p] = link[p] \/ Raises(p)
    BY <1>2, <2>7, <2>10, <2>11
  <2>13. Delivered
    BY <1>1, <2>1, NothingDelivered
  <2> QED
    BY <1>1, <1>2, <2>1, <2>6, <2>12, <2>13, QuietStep
<1>8. CASE OnPeerDisconnected(s)
  <2>1. UNCHANGED <<ice, link>> /\ (UNCHANGED history \/ Trouble)
        /\ session' = [session EXCEPT ![s] = [session[s] EXCEPT !.down = TRUE]]
    BY <1>8 DEF OnPeerDisconnected, netVars
  <2>2. SessionsStay
    BY <1>2, <1>4, <2>1 DEF SessionRecords
  <2> DEFINE c == session[s].observer
  <2>3. c \in Controls /\ {s[1]} \in SUBSET Remotes
    BY <1>3, SessionParts, TwoPeers
  <2>4. GoingAway({s[1]}) \in Mail(c)
    BY <2>3, MailMessage DEF GoingAway, Kinds
  <2>5. queue' = [queue EXCEPT ![c] = Posted(c, GoingAway({s[1]}))] \/ queue' = queue
    BY <1>8 DEF OnPeerDisconnected
  <2>6. Delivered
    BY <1>1, <2>1, <2>3, <2>4, <2>5, PostDelivered
  <2> QED
    BY <1>1, <1>2, <2>1, <2>2, <2>6, QuietStep
<1> QED
  BY <1>5, <1>6, <1>7, <1>8

-----------------------------------------------------------------------------
(* The invariant of the two peers.                                         *)
THEOREM Invariance == Spec => []IInv
<1>1. Init => IInv
  <2> SUFFICES ASSUME Init PROVE IInv
    OBVIOUS
  <2>1. SessionTypeOK /\ \A s \in Sessions : session[s] = Bare("unborn", "none")
    BY BareType DEF Init, SessionInit, SessionTypeOK, States
  <2>2. peers_ \in [Controls -> [Remotes -> Gens \cup {NoGen}]] /\ OwnEntries
    BY DEF Init, NoPeers, OwnEntries, Known
  <2>3. TypeOK
    <3>1. ctl \in [Controls -> {"ready", "destroyed"}] /\ peer_ \in [Controls -> BOOLEAN]
      BY DEF Init
    <3>2. queue \in [Controls -> Seq(Messages \cup Sdps)] /\ wire \in [Controls -> Seq(Messages \cup Sdps)]
      BY DEF Init
    <3>3. far \in [Sessions -> Sessions \cup {NoSession}] /\ ice \in [Sessions -> BOOLEAN]
      BY DEF Init
    <3>4. link \in [Controls -> {"down", "up"}] /\ joins \in [Controls -> Nat] /\ troubles \in Nat
      BY DEF Init
    <3> QED
      BY <2>1, <2>2, <3>1, <3>2, <3>3, <3>4 DEF TypeOK
  <2>4. Addressed
    BY DEF Init, Addressed
  <2>5. OwnSessions /\ Held
    BY <2>1 DEF Init, OwnSessions, Consistent, Held, Bare, Active
  <2>6. Backed /\ SameConnection
    BY TwoPeers DEF Init, Backed, SameConnection
  <2> QED
    BY <2>2, <2>3, <2>4, <2>5, <2>6 DEF IInv
<1>2. IInv /\ [Next]_vars => IInv'
  <2> SUFFICES ASSUME IInv, [Next]_vars PROVE IInv'
    OBVIOUS
  <2>1. CASE UNCHANGED vars
    <3>1. UNCHANGED <<session, ctl, peer_, peers_, queue, far, ice, wire, link, history>>
      BY <2>1 DEF vars, controlVars, netVars
    <3>2. link \in [Controls -> {"down", "up"}] /\ ice \in [Sessions -> BOOLEAN]
      BY DEF IInv, TypeOK
    <3> QED
      BY <3>1, <3>2, SessionsUnchanged, NothingDelivered, QuietStep
  <2> QED
    BY <2>1, CallStep, DispatchStep, AnswerStep, ConnectionStep DEF Next, Callbacks
<1> QED
  BY <1>1, <1>2, PTL DEF Spec

(* The members of both Controls, the sessions, and what is on the wire     *)
(* keep their types: every handler finds the message it expects.           *)
THEOREM TypeCorrect == Spec => []TypeOK
<1>1. IInv => TypeOK
  BY DEF IInv
<1> QED
  BY <1>1, Invariance, PTL

(* Two applications that both believe the link up use each other's         *)
(* session, whatever duplicates peers_.insert has rejected.                *)
THEOREM Counterparts == Spec => []SameConnection
<1>1. IInv => SameConnection
  BY DEF IInv
<1> QED
  BY <1>1, Invariance, PTL
=============================================================================
