--------------------------- MODULE PeerApiProofs ---------------------------
(***************************************************************************)
(* The inductive invariant of PeerApi and what follows from it, for any    *)
(* sets of remotes, generations and Controls and any queue bound.          *)
(*                                                                         *)
(* Every message ends in EndMessage, so the argument is made once for it:  *)
(* a handler that leaves sessions ss and entries maps which fit (Fits) and *)
(* an application view that they back (Backs) leaves a consistent state,   *)
(* whether or not the Control dies.  Each handler then only has to be      *)
(* shown to leave such ss, maps and link.                                  *)
(***************************************************************************)
EXTENDS PeerApiTypeProofs

Live(ss, maps) ==
  \A c \in Controls : \A r \in Remotes : maps[c][r] # NoGen =>
    ss[<<r, maps[c][r]>>].state_ \in Active /\ ss[<<r, maps[c][r]>>].observer = c

Sound(ss) ==
  \A s \in Sessions :
    /\ ss[s].state_ \in Active => ss[s].observer \in Controls
    /\ "local" \in ss[s].sdp => ss[s].desc = "none"
    /\ ss[s].state_ = "pOpen" => BothOpen(ss[s])

Fits(ss, maps) == Live(ss, maps) /\ Sound(ss)

Backs(lk, holder, ss, maps) ==
  \A r \in Remotes : lk[r] = "up" =>
    /\ holder # NoControl /\ maps[holder][r] # NoGen
    /\ ss[<<r, maps[holder][r]>>].state_ = "pOpen"

(* The map of Control c after a handler.                                   *)
MapsWith(c, map) == [peers_ EXCEPT ![c] = map]

-----------------------------------------------------------------------------
(* Destroying the sessions that nothing holds keeps those in the maps, and *)
(* leaves no other session alive without a request under way.              *)
LEMMA ReapedFits ==
  ASSUME NEW ss \in [Sessions -> SessionRecords],
         NEW maps \in [Controls -> [Remotes -> Gens \cup {NoGen}]],
         Fits(ss, maps), NEW after, after = Reaped(ss, Mapped(maps))
  PROVE  /\ Live(after, maps) /\ Sound(after)
         /\ \A c \in Controls, r \in Remotes : maps[c][r] # NoGen =>
              after[<<r, maps[c][r]>>] = ss[<<r, maps[c][r]>>]
         /\ \A s \in Sessions : after[s].state_ \in Active /\ after[s].desc = "none"
              => maps[after[s].observer][s[1]] = s[2]
<1>1. \A s \in Sessions : after[s] = IF /\ ss[s].state_ \in Active /\ s \notin Mapped(maps)
                                        /\ ss[s].desc = "none"
                                     THEN Bare("aborted", "none") ELSE ss[s]
  BY DEF Reaped
<1>2. /\ Bare("aborted", "none").state_ \notin Active
      /\ Bare("aborted", "none").state_ # "pOpen"
      /\ Bare("aborted", "none").sdp = {}
  BY DEF Bare, Active
<1>3. ASSUME NEW c \in Controls, NEW r \in Remotes, maps[c][r] # NoGen
      PROVE  /\ <<r, maps[c][r]>> \in Sessions
             /\ after[<<r, maps[c][r]>>] = ss[<<r, maps[c][r]>>]
  <2>1. <<r, maps[c][r]>> \in Sessions
    BY <1>3 DEF Sessions
  <2>2. <<r, maps[c][r]>> \in Mapped(maps)
    BY <2>1 DEF Mapped
  <2> QED
    BY <1>1, <2>1, <2>2
<1>4. Live(after, maps)
  BY <1>3 DEF Fits, Live
<1>5. Sound(after)
  BY <1>1, <1>2 DEF Fits, Sound
<1>6. ASSUME NEW s \in Sessions, after[s].state_ \in Active, after[s].desc = "none"
      PROVE  maps[after[s].observer][s[1]] = s[2]
  <2>1. s \in Mapped(maps) /\ after[s] = ss[s]
    BY <1>1, <1>2, <1>6
  <2>2. PICK c \in Controls : maps[c][s[1]] = s[2]
    BY <2>1 DEF Mapped
  <2>3. s[1] \in Remotes /\ s[2] \in Gens /\ s = <<s[1], s[2]>>
    BY DEF Sessions
  <2>4. s[2] # NoGen
    BY <2>3, GensAssumption
  <2>5. ss[s].observer = c
    BY <2>2, <2>3, <2>4 DEF Fits, Live
  <2> QED
    BY <2>1, <2>2, <2>5
<1> QED
  BY <1>3, <1>4, <1>5, <1>6

(* The invariant, in the form that the handlers' results are stated in.    *)
LEMMA ConsistentFits ==
  ASSUME TypeOK, Consistent
  PROVE  Fits(session, peers_) /\ Backs(link, control_, session, peers_)
BY DEF TypeOK, ControlTypeOK, Consistent, MapSessionsLive, HeldSessions, DescribedLater,
       OpenIsOpen, AppViewSound, Known, SessionOf, Fits, Live, Sound, Backs

(* A step that leaves sessions and maps which fit, a view they back and    *)
(* only live sessions that are held, leaves the parts of Consistent that   *)
(* speak of sessions; entries must be of Controls that are ready.          *)
LEMMA FitsConsistent ==
  ASSUME TypeOK', Fits(session, peers_)', Backs(link, control_, session, peers_)',
         \A c \in Controls, r \in Remotes : peers_'[c][r] # NoGen => ctl'[c] = "ready",
         \A s \in Sessions : session'[s].state_ \in Active /\ session'[s].desc = "none"
           => peers_'[session'[s].observer][s[1]] = s[2]
  PROVE  MapSessionsLive' /\ AppViewSound' /\ HeldSessions' /\ DescribedLater' /\ OpenIsOpen'
<1>1. MapSessionsLive'
  BY DEF MapSessionsLive, Fits, Live, Known, SessionOf
<1>2. AppViewSound'
  BY DEF AppViewSound, Backs, Known, SessionOf, TypeOK
<1>3. HeldSessions' /\ DescribedLater' /\ OpenIsOpen'
  BY DEF HeldSessions, DescribedLater, OpenIsOpen, Fits, Sound
<1> QED
  BY <1>1, <1>2, <1>3

(* The end of a message, in the two ways that the Peer may be left: as it  *)
(* was, or without the Control after a local close event.                  *)
LEMMA EndMessageConsistent ==
  ASSUME TypeOK, Consistent, TypeOK',
         NEW c \in Controls, ctl[c] = "ready", queue[c] # <<>>,
         NEW map \in [Remotes -> Gens \cup {NoGen}],
         NEW ss \in [Sessions -> SessionRecords],
         NEW more \in Seq(Messages), NEW holder, holder = control_',
         EndMessage(c, holder, map, ss, more),
         Fits(ss, MapsWith(c, map)),
         \/ /\ control_' = control_ /\ peer_' = peer_
            /\ Backs(link', control_, ss, MapsWith(c, map))
         \/ /\ control_ = c /\ control_' = NoControl
            /\ peer_' = [peer_ EXCEPT ![c] = FALSE]
            /\ \A r \in Remotes : link'[r] = "down",
         thread' \notin {"join_close", "resume"},
         close_once_' <=> local' = "closed"
  PROVE  Consistent'
<1> DEFINE q == Tail(queue[c]) \o more
           dead == Unreferenced(holder = c, peer_'[c], q)
<1>1. /\ ctl' = [ctl EXCEPT ![c] = IF dead THEN "destroyed" ELSE ctl[c]]
      /\ queue' = [queue EXCEPT ![c] = IF dead THEN <<>> ELSE q]
      /\ peers_' = [peers_ EXCEPT ![c] = IF dead THEN NoPeers ELSE map]
      /\ session' = Reaped(ss, Mapped(peers_'))
  BY DEF EndMessage
<1>2. dead => control_' # c /\ ~peer_'[c]
  BY DEF Unreferenced
<1>3. ~dead => control_' = c \/ peer_'[c] \/ \E i \in 1..Len(q) : q[i].ref
  BY DEF Unreferenced
<1> HIDE DEF dead, q
<1>4. /\ ctl \in [Controls -> {"unborn", "ready", "leaked", "destroyed"}]
      /\ peers_ \in [Controls -> [Remotes -> Gens \cup {NoGen}]]
      /\ peers_' \in [Controls -> [Remotes -> Gens \cup {NoGen}]]
      /\ queue \in [Controls -> Seq(Messages)]
      /\ peer_ \in [Controls -> BOOLEAN]
      /\ control_ \in Controls \cup {NoControl} /\ NoControl \notin Controls
  BY ControlsAssumption DEF TypeOK, ControlTypeOK
<1>5. RegisteredIsCurrent'
  <2>1. \A d \in Controls : control_ = d <=> peer_[d] /\ ctl[d] = "ready"
    BY DEF Consistent, RegisteredIsCurrent
  <2>2. ASSUME NEW d \in Controls PROVE control_' = d <=> peer_'[d] /\ ctl'[d] = "ready"
    <3>1. CASE d = c
      BY <1>1, <1>2, <1>4, <2>1, <3>1
    <3>2. CASE d # c
      BY <1>1, <1>4, <2>1, <3>2
    <3> QED
      BY <3>1, <3>2
  <2> QED
    BY <2>2 DEF RegisteredIsCurrent
<1>6. NoLostControl'
  <2>1. ASSUME NEW d \in Controls
        PROVE  /\ ctl'[d] = "ready" => \/ control_' = d \/ peer_'[d]
                                       \/ \E i \in 1..Len(queue'[d]) : queue'[d][i].ref
               /\ queue'[d] # <<>> => ctl'[d] = "ready"
    <3>1. CASE d = c
      BY <1>1, <1>3, <1>4, <3>1
    <3>2. CASE d # c
      <4>1. ctl'[d] = ctl[d] /\ queue'[d] = queue[d] /\ peer_'[d] = peer_[d]
        BY <1>1, <1>4, <3>2
      <4>2. control_ = d => control_' = d
        BY <3>2
      <4> QED
        BY <4>1, <4>2 DEF Consistent, NoLostControl
    <3> QED
      BY <3>1, <3>2
  <2> QED
    BY <2>1 DEF NoLostControl
<1>7. ASSUME NEW d \in Controls, NEW r \in Remotes, peers_'[d][r] # NoGen
      PROVE  ctl'[d] = "ready" /\ peers_'[d][r] = MapsWith(c, map)[d][r]
  <2>1. CASE d = c
    <3>1. ~dead
      BY <1>1, <1>4, <1>7, <2>1 DEF NoPeers
    <3> QED
      BY <1>1, <1>4, <2>1, <3>1 DEF MapsWith
  <2>2. CASE d # c
    BY <1>1, <1>4, <1>7, <2>2 DEF Consistent, MapSessionsLive, Known, MapsWith
  <2> QED
    BY <2>1, <2>2
<1>8. Fits(ss, peers_')
  BY <1>7 DEF Fits, Live
<1>9. /\ Live(session', peers_') /\ Sound(session')
      /\ \A d \in Controls, r \in Remotes : peers_'[d][r] # NoGen =>
           session'[<<r, peers_'[d][r]>>] = ss[<<r, peers_'[d][r]>>]
      /\ \A s \in Sessions : session'[s].state_ \in Active /\ session'[s].desc = "none"
           => peers_'[session'[s].observer][s[1]] = s[2]
  <2> DEFINE after == session'
             maps == peers_'
  <2>1. /\ after = Reaped(ss, Mapped(maps)) /\ Fits(ss, maps)
        /\ maps \in [Controls -> [Remotes -> Gens \cup {NoGen}]]
    BY <1>1, <1>4, <1>8
  <2> HIDE DEF after, maps
  <2>2. /\ Live(after, maps) /\ Sound(after)
        /\ \A d \in Controls, r \in Remotes : maps[d][r] # NoGen =>
             after[<<r, maps[d][r]>>] = ss[<<r, maps[d][r]>>]
        /\ \A s \in Sessions : after[s].state_ \in Active /\ after[s].desc = "none"
             => maps[after[s].observer][s[1]] = s[2]
    BY <2>1, ReapedFits
  <2> QED
    BY <2>2 DEF after, maps
<1>10. Backs(link', control_', session', peers_')
  <2>1. SUFFICES ASSUME NEW r \in Remotes, link'[r] = "up"
                 PROVE  /\ control_' # NoControl /\ peers_'[control_'][r] # NoGen
                        /\ session'[<<r, peers_'[control_'][r]>>].state_ = "pOpen"
    BY DEF Backs
  <2>2. /\ control_' = control_ /\ control_ # NoControl
        /\ MapsWith(c, map)[control_][r] # NoGen
        /\ ss[<<r, MapsWith(c, map)[control_][r]>>].state_ = "pOpen"
    BY <2>1 DEF Backs
  <2>3. control_ \in Controls
    BY <1>4, <2>2
  <2>4. peers_'[control_] = MapsWith(c, map)[control_]
    BY <1>1, <1>2, <1>4, <2>2, <2>3 DEF MapsWith
  <2> QED
    BY <1>9, <2>2, <2>3, <2>4
<1>11. MapSessionsLive' /\ AppViewSound' /\ HeldSessions' /\ DescribedLater' /\ OpenIsOpen'
  BY <1>7, <1>9, <1>10, FitsConsistent DEF Fits
<1>12. BlockedInClose' /\ CloseOnceMeansClosed'
  BY DEF BlockedInClose, CloseOnceMeansClosed
<1> QED
  BY <1>5, <1>6, <1>11, <1>12 DEF Consistent

(* Messages that are posted, to Controls that are alive, change nothing.   *)
LEMMA PostedConsistent ==
  ASSUME TypeOK, Consistent,
         UNCHANGED <<session, ctl, peer_, peers_, control_, close_once_, local, link>>,
         \A c \in Controls : \/ queue'[c] = queue[c]
                             \/ /\ ctl[c] = "ready"
                                /\ \E m \in Messages : queue'[c] = Append(queue[c], m),
         thread' \in {"join_close", "resume"} => thread \in {"join_close", "resume"}
  PROVE  Consistent'
<1>1. NoLostControl'
  <2>1. ASSUME NEW c \in Controls
        PROVE  /\ ctl[c] = "ready" => \/ control_ = c \/ peer_[c]
                                      \/ \E i \in 1..Len(queue'[c]) : queue'[c][i].ref
               /\ queue'[c] # <<>> => ctl[c] = "ready"
    <3>1. queue[c] \in Seq(Messages)
      BY DEF TypeOK, ControlTypeOK
    <3>2. /\ ctl[c] = "ready" => \/ control_ = c \/ peer_[c]
                                 \/ \E i \in 1..Len(queue[c]) : queue[c][i].ref
          /\ queue[c] # <<>> => ctl[c] = "ready"
      BY DEF Consistent, NoLostControl
    <3>3. CASE queue'[c] = queue[c]
      BY <3>2, <3>3
    <3>4. CASE ctl[c] = "ready" /\ \E m \in Messages : queue'[c] = Append(queue[c], m)
      <4>1. PICK m \in Messages : queue'[c] = Append(queue[c], m)
        BY <3>4
      <4>2. \A i \in 1..Len(queue[c]) : i \in 1..Len(queue'[c]) /\ queue'[c][i] = queue[c][i]
        BY <3>1, <4>1
      <4> QED
        BY <3>2, <3>4, <4>2
    <3> QED
      BY <3>3, <3>4
  <2> QED
    BY <2>1 DEF NoLostControl
<1>2. BlockedInClose'
  <2>1. ASSUME control_ \in Controls, queue[control_] # <<>>
        PROVE  queue'[control_] # <<>>
    <3>1. queue[control_] \in Seq(Messages)
      BY <2>1 DEF TypeOK, ControlTypeOK
    <3> QED
      BY <2>1, <3>1
  <2> QED
    BY <2>1 DEF Consistent, BlockedInClose, TypeOK
<1>3. /\ RegisteredIsCurrent' /\ MapSessionsLive' /\ AppViewSound' /\ HeldSessions'
      /\ DescribedLater' /\ OpenIsOpen' /\ CloseOnceMeansClosed'
  BY DEF Consistent, RegisteredIsCurrent, MapSessionsLive, AppViewSound, HeldSessions,
         DescribedLater, OpenIsOpen, CloseOnceMeansClosed, Known, SessionOf
<1> QED
  BY <1>1, <1>2, <1>3 DEF Consistent

-----------------------------------------------------------------------------
(* What the handlers leave.                                                *)

(* An entry names a session, and entries of two Controls are different.    *)
LEMMA EntrySession ==
  ASSUME TypeOK, Consistent, NEW c \in Controls, NEW r \in Known(c)
  PROVE  /\ r \in Remotes /\ SessionOf(c, r) \in Sessions
         /\ SessionOf(c, r) = <<r, peers_[c][r]>>
         /\ session[SessionOf(c, r)].state_ \in Active
         /\ session[SessionOf(c, r)].observer = c
<1>1. r \in Remotes /\ peers_[c][r] \in Gens
  BY DEF Known, TypeOK, ControlTypeOK
<1> QED
  BY <1>1 DEF SessionOf, Sessions, Consistent, MapSessionsLive

(* The entries left alone.                                                 *)
LEMMA UntouchedFits ==
  ASSUME TypeOK, Consistent, NEW c \in Controls
  PROVE  /\ MapsWith(c, peers_[c]) = peers_
         /\ Fits(session, MapsWith(c, peers_[c]))
         /\ Backs(link, control_, session, MapsWith(c, peers_[c]))
<1>1. MapsWith(c, peers_[c]) = peers_
  BY DEF MapsWith, TypeOK, ControlTypeOK
<1> QED
  BY <1>1, ConsistentFits

(* Sessions closed and erased: every link that ends is told of if the      *)
(* Control is the Peer's.                                                  *)
LEMMA ClosedFits ==
  ASSUME TypeOK, Consistent, NEW c \in Controls, ctl[c] = "ready", NEW R \in SUBSET Known(c)
  PROVE  /\ Fits(Closed(SessionsOf(c, R)), MapsWith(c, Erased(c, R)))
         /\ Backs(Told(c, R), control_, Closed(SessionsOf(c, R)), MapsWith(c, Erased(c, R)))
<1> DEFINE ss == Closed(SessionsOf(c, R))
           maps == MapsWith(c, Erased(c, R))
<1>1. /\ peers_ \in [Controls -> [Remotes -> Gens \cup {NoGen}]]
      /\ control_ \in Controls \cup {NoControl}
      /\ session \in [Sessions -> SessionRecords]
  BY DEF TypeOK, ControlTypeOK, SessionTypeOK
<1>2. Fits(session, peers_) /\ Backs(link, control_, session, peers_)
  BY ConsistentFits
<1>3. \A s \in Sessions : \/ ss[s] = session[s]
                          \/ s \in SessionsOf(c, R) /\ ss[s] = Bare("pClosed", session[s].desc)
  BY DEF Closed
<1>4. ASSUME NEW d \in Controls, NEW r \in Remotes, maps[d][r] # NoGen
      PROVE  /\ maps[d][r] = peers_[d][r]
             /\ ss[<<r, maps[d][r]>>] = session[<<r, peers_[d][r]>>]
  <2>1. maps[d][r] = peers_[d][r] /\ (d = c => r \notin R)
    BY <1>1, <1>4 DEF MapsWith, Erased
  <2>2. r \in Known(d)
    BY <1>4, <2>1 DEF Known
  <2>3. SessionOf(d, r) \notin SessionsOf(c, R)
    <3> SUFFICES ASSUME NEW x \in R, SessionOf(d, r) = SessionOf(c, x) PROVE FALSE
      BY DEF SessionsOf
    <3>1. x \in Known(c)
      OBVIOUS
    <3>2. d = c
      BY <2>2, <3>1, EntrySession
    <3>3. r = x
      BY DEF SessionOf
    <3> QED
      BY <2>1, <3>2, <3>3
  <2>4. SessionOf(d, r) = <<r, peers_[d][r]>> /\ SessionOf(d, r) \in Sessions
    BY <2>2, EntrySession
  <2> HIDE DEF maps, ss
  <2> QED
    BY <1>3, <2>1, <2>3, <2>4
<1>5. Live(ss, maps)
  <2> HIDE DEF ss, maps
  <2> SUFFICES ASSUME NEW d \in Controls, NEW r \in Remotes, maps[d][r] # NoGen
               PROVE  /\ ss[<<r, maps[d][r]>>].state_ \in Active
                      /\ ss[<<r, maps[d][r]>>].observer = d
    BY DEF Live
  <2>1. /\ maps[d][r] = peers_[d][r]
        /\ ss[<<r, maps[d][r]>>] = session[<<r, peers_[d][r]>>]
    BY <1>4
  <2>2. /\ session[<<r, peers_[d][r]>>].state_ \in Active
        /\ session[<<r, peers_[d][r]>>].observer = d
    BY <1>2, <2>1 DEF Fits, Live
  <2> QED
    BY <2>1, <2>2
<1>6. Sound(ss)
  <2>1. \A ds : LET x == Bare("pClosed", ds)
                IN x.state_ \notin Active /\ x.state_ # "pOpen" /\ x.sdp = {}
    BY DEF Bare, Active
  <2> HIDE DEF ss
  <2> QED
    BY <1>2, <1>3, <2>1 DEF Fits, Sound
<1>7. Backs(Told(c, R), control_, ss, maps)
  <2> SUFFICES ASSUME NEW r \in Remotes, Told(c, R)[r] = "up"
               PROVE  /\ control_ # NoControl /\ maps[control_][r] # NoGen
                      /\ ss[<<r, maps[control_][r]>>].state_ = "pOpen"
    BY DEF Backs
  <2>1. link[r] = "up" /\ ~(peer_[c] /\ r \in R)
    BY DEF Told
  <2>2. /\ control_ # NoControl /\ peers_[control_][r] # NoGen
        /\ session[<<r, peers_[control_][r]>>].state_ = "pOpen"
    BY <1>2, <2>1 DEF Backs
  <2>3. control_ \in Controls /\ (control_ = c => peer_[c])
    BY <1>1, <2>2 DEF Consistent, RegisteredIsCurrent
  <2>4. maps[control_][r] = peers_[control_][r]
    BY <1>1, <2>1, <2>3 DEF MapsWith, Erased
  <2> HIDE DEF ss, maps
  <2> QED
    BY <1>4, <2>2, <2>3, <2>4
<1> QED
  BY <1>5, <1>6, <1>7 DEF Fits

(* New sessions are new objects: they disturb no entry.                    *)
LEMMA StartedFits ==
  ASSUME TypeOK, Consistent, NEW c \in Controls, NEW R \in SUBSET Remotes, NEW bad,
         NEW new \in [R -> Gens], \A r \in R : new[r] \in Fresh(r),
         NEW type \in {"kOffer", "kAnswer"}
  PROVE  LET ss == Started({<<r, new[r]>> : r \in R}, c, type)
             maps == MapsWith(c, Inserted(c, new))
         IN Fits(ss, maps) /\ Backs(Told(c, bad), control_, ss, maps)
<1> DEFINE S == {<<r, new[r]>> : r \in R}
           x == [Initialized(c) EXCEPT
                   !.state_ = "pConnecting", !.desc = type,
                   !.sdp = IF type = "kAnswer" THEN {"remote"} ELSE {}]
           ss == Started(S, c, type)
           maps == MapsWith(c, Inserted(c, new))
<1>1. /\ peers_ \in [Controls -> [Remotes -> Gens \cup {NoGen}]]
      /\ control_ \in Controls \cup {NoControl}
  BY DEF TypeOK, ControlTypeOK
<1>2. Fits(session, peers_) /\ Backs(link, control_, session, peers_)
  BY ConsistentFits
<1>3. \A s \in Sessions : ss[s] = IF s \in S THEN x ELSE session[s]
  BY DEF Started
<1>4. /\ x.state_ \in Active /\ x.state_ # "pOpen" /\ x.observer = c
      /\ "local" \notin x.sdp
  BY DEF Initialized, Bare, Active
<1>5. \A s \in S : s \in Sessions /\ session[s].state_ \notin Active
  BY DEF Fresh, Active, Sessions
<1>6. \A r \in R : <<r, new[r]>> \in S
  OBVIOUS
<1>7. ASSUME NEW d \in Controls, NEW r \in Remotes, peers_[d][r] # NoGen
      PROVE  /\ maps[d][r] = peers_[d][r]
             /\ ss[<<r, maps[d][r]>>] = session[<<r, peers_[d][r]>>]
  <2>1. maps[d][r] = peers_[d][r]
    BY <1>1, <1>7 DEF MapsWith, Inserted
  <2>2. /\ <<r, peers_[d][r]>> \in Sessions
        /\ session[<<r, peers_[d][r]>>].state_ \in Active
    BY <1>7, EntrySession DEF Known
  <2> HIDE DEF S, x, ss, maps
  <2> QED
    BY <1>3, <1>5, <2>1, <2>2
<1>8. ASSUME NEW d \in Controls, NEW r \in Remotes, peers_[d][r] = NoGen, maps[d][r] # NoGen
      PROVE  d = c /\ <<r, maps[d][r]>> \in S
  <2>1. d = c /\ r \in R /\ maps[d][r] = new[r]
    BY <1>1, <1>8 DEF MapsWith, Inserted
  <2> QED
    BY <1>6, <2>1
<1> HIDE DEF S, x, ss, maps
<1>9. Live(ss, maps)
  <2> SUFFICES ASSUME NEW d \in Controls, NEW r \in Remotes, maps[d][r] # NoGen
               PROVE  /\ ss[<<r, maps[d][r]>>].state_ \in Active
                      /\ ss[<<r, maps[d][r]>>].observer = d
    BY DEF Live
  <2>1. CASE peers_[d][r] # NoGen
    <3>1. /\ session[<<r, peers_[d][r]>>].state_ \in Active
          /\ session[<<r, peers_[d][r]>>].observer = d
      BY <1>2, <2>1 DEF Fits, Live
    <3>2. ss[<<r, maps[d][r]>>] = session[<<r, peers_[d][r]>>]
      BY <1>7, <2>1
    <3> QED
      BY <3>1, <3>2
  <2>2. CASE peers_[d][r] = NoGen
    <3>1. d = c /\ <<r, maps[d][r]>> \in S
      BY <1>8, <2>2
    <3>2. ss[<<r, maps[d][r]>>] = x
      BY <1>3, <1>5, <3>1
    <3> QED
      BY <1>4, <3>1, <3>2
  <2> QED
    BY <2>1, <2>2
<1>10. Sound(ss)
  BY <1>2, <1>3, <1>4 DEF Fits, Sound
<1>11. Backs(Told(c, bad), control_, ss, maps)
  <2>1. \A r \in Remotes : Told(c, bad)[r] = "up" => link[r] = "up"
    BY DEF Told
  <2> QED
    BY <1>1, <1>2, <1>7, <2>1 DEF Backs
<1> QED
  BY <1>9, <1>10, <1>11 DEF Fits, S, ss, maps

(* A description that is set changes no state.                             *)
LEMMA AnsweredFits ==
  ASSUME TypeOK, Consistent, NEW c \in Controls, NEW s \in Sessions
  PROVE  /\ Fits(Answered(s), MapsWith(c, peers_[c]))
         /\ Backs(link, control_, Answered(s), MapsWith(c, peers_[c]))
<1>1. /\ MapsWith(c, peers_[c]) = peers_ /\ Fits(session, peers_)
      /\ Backs(link, control_, session, peers_)
  BY UntouchedFits
<1>2. \A z \in Sessions :
        /\ Answered(s)[z].state_ = session[z].state_
        /\ Answered(s)[z].observer = session[z].observer
        /\ Answered(s)[z].desc = session[z].desc
        /\ Answered(s)[z].local_data_channel_ = session[z].local_data_channel_
        /\ Answered(s)[z].remote_data_channel_ = session[z].remote_data_channel_
        /\ "local" \in Answered(s)[z].sdp => "local" \in session[z].sdp
  BY DEF Answered, TypeOK, SessionTypeOK, SessionRecords
<1>3. /\ \A d \in Controls, r \in Remotes : peers_[d][r] # NoGen => <<r, peers_[d][r]>> \in Sessions
      /\ control_ \in Controls \cup {NoControl}
  BY DEF TypeOK, ControlTypeOK, Sessions
<1>4. Live(Answered(s), peers_)
  BY <1>1, <1>2, <1>3 DEF Fits, Live
<1>5. Sound(Answered(s))
  BY <1>1, <1>2 DEF Fits, Sound, BothOpen
<1>6. Backs(link, control_, Answered(s), peers_)
  BY <1>1, <1>2, <1>3 DEF Backs
<1> QED
  BY <1>1, <1>4, <1>5, <1>6 DEF Fits

-----------------------------------------------------------------------------
(* The steps, one lemma per group of actions.                              *)

LEMMA FaultConsistent ==
  ASSUME Consistent, NEW kind, Fault(kind)
  PROVE  Consistent'
BY DEF Fault, Consistent, RegisteredIsCurrent, MapSessionsLive, AppViewSound, NoLostControl,
       BlockedInClose, HeldSessions, DescribedLater, OpenIsOpen, CloseOnceMeansClosed,
       Known, SessionOf, controlVars, peerVars, threadVars

(* The methods of the Peer only post, but for Open.                        *)
LEMMA PostConsistent ==
  ASSUME TypeOK, Consistent, control_ \in Controls, NEW m \in Messages,
         queue' = [queue EXCEPT ![control_] = Posted(control_, m)],
         UNCHANGED <<session, ctl, peer_, peers_, peerVars>>,
         thread' \notin {"join_close", "resume"} \/ thread' = thread
  PROVE  Consistent'
<1>1. ctl[control_] = "ready"
  BY DEF Consistent, RegisteredIsCurrent
<1>2. [m EXCEPT !.ref = peer_[control_]] \in Messages
  BY DEF TypeOK, ControlTypeOK, Messages
<1>3. queue'[control_] = Append(queue[control_], [m EXCEPT !.ref = peer_[control_]])
  BY DEF Posted, TypeOK, ControlTypeOK
<1>4. \A c \in Controls : c # control_ => queue'[c] = queue[c]
  BY DEF TypeOK, ControlTypeOK
<1> QED
  BY <1>1, <1>2, <1>3, <1>4, PostedConsistent DEF peerVars

LEMMA CallsConsistent ==
  ASSUME TypeOK, Consistent, TypeOK', Calls \/ SyncCloseByApp
  PROVE  Consistent'
<1>1. /\ ctl \in [Controls -> {"unborn", "ready", "leaked", "destroyed"}]
      /\ peers_ \in [Controls -> [Remotes -> Gens \cup {NoGen}]]
      /\ queue \in [Controls -> Seq(Messages)] /\ peer_ \in [Controls -> BOOLEAN]
      /\ control_ \in Controls \cup {NoControl} /\ NoControl \notin Controls
  BY ControlsAssumption DEF TypeOK, ControlTypeOK
<1>2. /\ \A c \in Controls : queue[c] # <<>> => ctl[c] = "ready"
      /\ \A c \in Controls, r \in Remotes : peers_[c][r] # NoGen => ctl[c] = "ready"
  BY DEF Consistent, NoLostControl, MapSessionsLive, Known
<1>3. ASSUME NEW c \in Controls, Open(c) PROVE Consistent'
  <2>1. CASE sig = "closing"
    BY <1>3, <2>1, FaultConsistent DEF Open
  <2>2. CASE sig # "closing"
    <3>1. /\ control_ = NoControl /\ ctl[c] = "unborn" /\ control_' = c
          /\ ctl' = [ctl EXCEPT ![c] = "ready"] /\ peer_' = [peer_ EXCEPT ![c] = TRUE]
          /\ UNCHANGED <<session, peers_, queue, close_once_, local, link>>
          /\ thread = "idle" /\ thread' = thread
      BY <1>3, <2>2 DEF Open, threadVars
    <3>2. RegisteredIsCurrent' /\ NoLostControl'
      BY <1>1, <1>2, <3>1 DEF Consistent, RegisteredIsCurrent, NoLostControl
    <3>3. \A r \in Remotes : link[r] # "up"
      BY <3>1 DEF Consistent, AppViewSound
    <3>4. MapSessionsLive' /\ AppViewSound'
      BY <1>1, <1>2, <3>1, <3>3
         DEF Consistent, MapSessionsLive, AppViewSound, Known, SessionOf
    <3>5. /\ HeldSessions' /\ DescribedLater' /\ OpenIsOpen' /\ CloseOnceMeansClosed'
          /\ BlockedInClose'
      BY <3>1 DEF Consistent, HeldSessions, DescribedLater, OpenIsOpen,
                  CloseOnceMeansClosed, BlockedInClose
    <3> QED
      BY <3>2, <3>4, <3>5 DEF Consistent
  <2> QED
    BY <2>1, <2>2
<1>4. ASSUME NEW c \in Controls, OpenFails(c) PROVE Consistent'
  <2>1. /\ control_ = NoControl /\ ctl[c] = "unborn"
        /\ ctl' = [ctl EXCEPT ![c] = "leaked"] /\ peer_' = [peer_ EXCEPT ![c] = TRUE]
        /\ UNCHANGED <<session, peers_, queue, control_, close_once_, local, link>>
        /\ thread = "idle" /\ thread' = thread
    BY <1>4 DEF OpenFails, threadVars, peerVars
  <2>2. RegisteredIsCurrent' /\ NoLostControl'
    BY <1>1, <1>2, <2>1 DEF Consistent, RegisteredIsCurrent, NoLostControl
  <2>3. MapSessionsLive' /\ AppViewSound'
    BY <1>1, <1>2, <2>1
       DEF Consistent, MapSessionsLive, AppViewSound, Known, SessionOf
  <2>4. /\ HeldSessions' /\ DescribedLater' /\ OpenIsOpen' /\ CloseOnceMeansClosed'
        /\ BlockedInClose'
    BY <2>1 DEF Consistent, HeldSessions, DescribedLater, OpenIsOpen,
                CloseOnceMeansClosed, BlockedInClose
  <2> QED
    BY <2>2, <2>3, <2>4 DEF Consistent
<1>5. CASE CallWithoutControl
  BY <1>5, FaultConsistent DEF CallWithoutControl
<1>6. CloseMessage \in Messages
  BY MessageType DEF CloseMessage, Kinds
<1>7. CASE CloseByApp
  BY <1>1, <1>6, <1>7, PostConsistent DEF CloseByApp
<1>8. CASE CloseByHandler
  <2>1. thread' \notin {"join_close", "resume"}
    BY <1>8 DEF CloseByHandler
  <2> QED
    BY <1>1, <1>6, <1>8, <2>1, PostConsistent DEF CloseByHandler
<1>9. ASSUME NEW r \in Remotes, ClosePeer(r) PROVE Consistent'
  <2>1. Message("MSG_CLOSE_PEER", {r}, TRUE) \in Messages
    BY MessageType DEF Kinds
  <2> QED
    BY <1>1, <1>9, <2>1, PostConsistent DEF ClosePeer, threadVars
<1>10. ASSUME UNCHANGED <<session, controlVars, peerVars, thread>> PROVE Consistent'
  BY <1>10, PostedConsistent DEF controlVars, peerVars
<1>11. ASSUME NEW r \in Remotes, Connect(r) PROVE Consistent'
  BY <1>10, <1>11 DEF Connect, threadVars
<1>12. CASE SyncCloseByApp
  BY <1>10, <1>12 DEF SyncCloseByApp
<1> QED
  BY <1>3, <1>4, <1>5, <1>7, <1>8, <1>9, <1>11, <1>12 DEF Calls

LEMMA SignalConsistent ==
  ASSUME TypeOK, Consistent, SignalEvents \/ SignalClosed
  PROVE  Consistent'
<1>1. ASSUME NEW m \in Messages, Raise(m),
             thread' \in {"join_close", "resume"} => thread \in {"join_close", "resume"}
      PROVE  Consistent'
  <2>1. \A c \in Controls : [m EXCEPT !.ref = peer_[c]] \in Messages
    BY DEF TypeOK, ControlTypeOK, Messages
  <2>2. \A c \in Controls : \/ queue'[c] = queue[c]
                            \/ /\ ctl[c] = "ready"
                               /\ \E n \in Messages : queue'[c] = Append(queue[c], n)
    BY <1>1, <2>1 DEF Raise, Broadcast, Posted
  <2> QED
    BY <1>1, <2>2, PostedConsistent DEF Raise, peerVars
<1>2. ASSUME UNCHANGED <<session, controlVars, peerVars>>,
             thread' \in {"join_close", "resume"} => thread \in {"join_close", "resume"}
      PROVE  Consistent'
  BY <1>2, PostedConsistent DEF controlVars, peerVars
<1>3. SignalLoss \in Messages
  BY MessageType DEF SignalLoss, Kinds
<1>4. CASE SignalOpened
  BY <1>2, <1>4 DEF SignalOpened, threadVars
<1>5. CASE SignalFailedOrLost
  BY <1>1, <1>3, <1>5 DEF SignalFailedOrLost, threadVars
<1>6. CASE SignalDropped
  BY <1>2, <1>6 DEF SignalDropped, threadVars
<1>7. CASE WildPost
  BY <1>7, FaultConsistent DEF WildPost
<1>8. CASE SignalClosed
  <2>1. thread' \in {"join_close", "resume"} => thread \in {"join_close", "resume"}
    BY <1>8 DEF SignalClosed, TypeOK
  <2> QED
    BY <1>1, <1>2, <1>3, <1>8, <2>1 DEF SignalClosed
<1>9. ASSUME NEW command \in Commands, NEW R \in (SUBSET Remotes) \cup {{Self}},
             NEW ok \in BOOLEAN, ServerSends(command, R, ok)
      PROVE  Consistent'
  <2>1. Message(command, R \cap Remotes, ok) \in Messages
    BY MessageType DEF Kinds
  <2> QED
    BY <1>1, <1>9, <2>1 DEF ServerSends, threadVars
<1> QED
  BY <1>4, <1>5, <1>6, <1>7, <1>8, <1>9 DEF SignalEvents

(* A message that leaves the Peer and the holder of the Control alone.     *)
LEMMA HandledConsistent ==
  ASSUME TypeOK, Consistent, TypeOK', NEW c \in Controls,
         thread = "idle", ctl[c] = "ready", queue[c] # <<>>,
         NEW map \in [Remotes -> Gens \cup {NoGen}],
         NEW ss \in [Sessions -> SessionRecords],
         Handled(c, map, ss), Fits(ss, MapsWith(c, map)),
         Backs(link', control_, ss, MapsWith(c, map))
  PROVE  Consistent'
<1>1. <<>> \in Seq(Messages)
  OBVIOUS
<1>2. /\ control_' = control_ /\ peer_' = peer_ /\ thread' = "idle"
      /\ close_once_' = close_once_ /\ local' = local
      /\ EndMessage(c, control_, map, ss, <<>>)
  BY DEF Handled, threadVars
<1>3. close_once_' <=> local' = "closed"
  BY <1>2 DEF Consistent, CloseOnceMeansClosed
<1> QED
  BY <1>1, <1>2, <1>3, EndMessageConsistent

(* The local close event, raised by the Control of the Peer.  Its handler  *)
(* either returns, and the Control is let go of, or blocks in SyncClose.   *)
LEMMA OnCloseLocalConsistent ==
  ASSUME TypeOK, Consistent, TypeOK', NEW c \in Controls,
         thread = "idle", ctl[c] = "ready", queue[c] # <<>>, peer_[c], ~close_once_,
         NEW map \in [Remotes -> Gens \cup {NoGen}],
         NEW ss \in [Sessions -> SessionRecords],
         OnCloseLocal(c, map, ss), Fits(ss, MapsWith(c, map))
  PROVE  Consistent'
<1>1. control_ = c
  BY DEF Consistent, RegisteredIsCurrent
<1>2. /\ close_once_' <=> local' = "closed"
      /\ \A r \in Remotes : link'[r] = "down"
  BY DEF OnCloseLocal, Consistent, CloseOnceMeansClosed
<1>3. <<>> \in Seq(Messages) /\ <<CloseMessage>> \in Seq(Messages)
  <2>1. CloseMessage \in Messages
    BY MessageType DEF CloseMessage, Kinds
  <2> QED
    BY <2>1
<1>4. CASE /\ control_' = NoControl
           /\ peer_' = [peer_ EXCEPT ![control_] = FALSE]
           /\ thread' = thread
           /\ \/ EndMessage(c, NoControl, map, ss, <<>>)
              \/ EndMessage(c, NoControl, map, ss, <<CloseMessage>>)
  BY <1>1, <1>2, <1>3, <1>4, EndMessageConsistent
<1>5. CASE /\ thread' = "join_close"
           /\ queue' = [queue EXCEPT ![c] = Posted(c, CloseMessage)]
           /\ peers_' = [peers_ EXCEPT ![c] = map]
           /\ session' = Reaped(ss, Mapped(peers_'))
           /\ UNCHANGED <<control_, peer_, ctl>>
  <2>1. /\ ctl \in [Controls -> {"unborn", "ready", "leaked", "destroyed"}]
        /\ peers_ \in [Controls -> [Remotes -> Gens \cup {NoGen}]]
        /\ peers_' \in [Controls -> [Remotes -> Gens \cup {NoGen}]]
        /\ queue \in [Controls -> Seq(Messages)]
    BY DEF TypeOK, ControlTypeOK
  <2>2. RegisteredIsCurrent' /\ CloseOnceMeansClosed'
    BY <1>2, <1>5 DEF Consistent, RegisteredIsCurrent, CloseOnceMeansClosed
  <2>3. queue'[c] # <<>> /\ \A d \in Controls : d # c => queue'[d] = queue[d]
    BY <1>5, <2>1 DEF Posted
  <2>4. NoLostControl'
    <3>1. ASSUME NEW d \in Controls, d # c
          PROVE  /\ ctl'[d] = "ready" => \/ control_' = d \/ peer_'[d]
                                         \/ \E i \in 1..Len(queue'[d]) : queue'[d][i].ref
                 /\ queue'[d] # <<>> => ctl'[d] = "ready"
      BY <1>5, <2>3, <3>1 DEF Consistent, NoLostControl
    <3> QED
      BY <1>1, <1>5, <3>1 DEF NoLostControl
  <2>5. BlockedInClose'
    BY <1>1, <1>2, <1>5, <2>3, ControlsAssumption DEF BlockedInClose
  <2> DEFINE after == session'
             maps == peers_'
  <2>6. /\ after = Reaped(ss, Mapped(maps)) /\ Fits(ss, maps)
        /\ maps \in [Controls -> [Remotes -> Gens \cup {NoGen}]]
    BY <1>5, <2>1 DEF MapsWith
  <2> HIDE DEF after, maps
  <2>7. /\ Live(after, maps) /\ Sound(after)
        /\ \A s \in Sessions : after[s].state_ \in Active /\ after[s].desc = "none"
             => maps[after[s].observer][s[1]] = s[2]
    BY <2>6, ReapedFits
  <2>8. \A d \in Controls, r \in Remotes : peers_'[d][r] # NoGen => ctl'[d] = "ready"
    BY <1>5, <2>1 DEF Consistent, MapSessionsLive, Known
  <2>9. Backs(link', control_', session', peers_')
    BY <1>2 DEF Backs
  <2>10. MapSessionsLive' /\ AppViewSound' /\ HeldSessions' /\ DescribedLater' /\ OpenIsOpen'
    BY <2>7, <2>8, <2>9, FitsConsistent DEF Fits, after, maps
  <2> QED
    BY <2>2, <2>4, <2>5, <2>10 DEF Consistent
<1> QED
  BY <1>4, <1>5 DEF OnCloseLocal

LEMMA DispatchConsistent ==
  ASSUME TypeOK, Consistent, TypeOK', NEW c \in Controls, Dispatch(c)
  PROVE  Consistent'
<1>1. /\ thread = "idle" /\ ctl[c] = "ready" /\ queue[c] # <<>>
      /\ Ids(c) \in SUBSET Remotes
  <2>1. thread = "idle" /\ ctl[c] = "ready" /\ queue[c] # <<>> /\ queue[c] \in Seq(Messages)
    BY DEF Dispatch, Dispatches, HandleOpen, HandleChannelCreate, HandleChannelJoin,
           HandleClosePeer, HandleClose, HandleOffer, HandleAnswerSdp, TypeOK, ControlTypeOK
  <2>2. Head(queue[c]) \in Messages
    BY <2>1
  <2> QED
    BY <2>1, <2>2 DEF Ids, Messages
<1>2. /\ SessionTypeOK /\ ControlTypeOK /\ session \in [Sessions -> SessionRecords]
      /\ peers_[c] \in [Remotes -> Gens \cup {NoGen}]
  BY DEF TypeOK, SessionTypeOK, ControlTypeOK
<1>3. /\ Fits(session, MapsWith(c, peers_[c]))
      /\ Backs(link, control_, session, MapsWith(c, peers_[c]))
  BY UntouchedFits
<1>4. ASSUME Handled(c, peers_[c], session), \A r \in Remotes : link'[r] = "up" => link[r] = "up"
      PROVE  Consistent'
  <2>1. Backs(link', control_, session, MapsWith(c, peers_[c]))
    BY <1>3, <1>4 DEF Backs
  <2> QED
    BY <1>1, <1>2, <1>3, <1>4, <2>1, HandledConsistent
<1>5. CASE HandleOpen(c)
  BY <1>4, <1>5 DEF HandleOpen
<1>6. CASE HandleChannelCreate(c)
  <2>1. CASE Fault("null_observer")
    BY <2>1, FaultConsistent
  <2>2. CASE peer_[c] /\ ~close_once_ /\ OnCloseLocal(c, peers_[c], session)
    BY <1>1, <1>2, <1>3, <2>2, OnCloseLocalConsistent
  <2>3. CASE Handled(c, peers_[c], session) /\ UNCHANGED <<link, serverVars>>
    BY <1>4, <2>3
  <2>4. CASE /\ close_once_' = FALSE /\ local' = "open"
             /\ UNCHANGED <<control_, peer_, link, sigVars, threadVars, fault>>
             /\ EndMessage(c, control_, peers_[c], session, <<>>)
    <3>1. <<>> \in Seq(Messages)
      OBVIOUS
    <3>2. /\ control_' = control_ /\ peer_' = peer_ /\ link' = link /\ thread' = "idle"
          /\ close_once_' <=> local' = "closed"
      BY <1>1, <2>4 DEF threadVars
    <3> QED
      BY <1>1, <1>2, <1>3, <2>4, <3>1, <3>2, EndMessageConsistent
  <2> QED
    BY <1>6, <2>1, <2>2, <2>3, <2>4 DEF HandleChannelCreate
<1>7. CASE HandleChannelJoin(c)
  <2>1. CASE Fault("null_observer")
    BY <2>1, FaultConsistent
  <2>2. CASE /\ link' = [r \in Remotes |-> IF r \in Ids(c) /\ ~Ok(c) THEN "down" ELSE link[r]]
             /\ Handled(c, peers_[c], session)
    BY <1>4, <2>2
  <2> QED
    BY <1>7, <2>1, <2>2 DEF HandleChannelJoin
<1>8. CASE HandleClosePeer(c)
  <2> DEFINE R == Ids(c) \cap Known(c)
             ss == Closed(SessionsOf(c, R))
             map == Erased(c, R)
  <2>1. /\ ss \in [Sessions -> SessionRecords] /\ map \in [Remotes -> Gens \cup {NoGen}]
        /\ Fits(ss, MapsWith(c, map)) /\ Backs(Told(c, R), control_, ss, MapsWith(c, map))
    <3>1. R \in SUBSET Known(c)
      OBVIOUS
    <3> HIDE DEF R
    <3> QED
      BY <1>1, <1>2, <3>1, ClosedType, ControlMapType, ClosedFits
  <2>2. Handled(c, map, ss) /\ link' = Told(c, R)
    BY <1>8 DEF HandleClosePeer
  <2> HIDE DEF R, ss, map
  <2> QED
    BY <1>1, <2>1, <2>2, HandledConsistent
<1>9. CASE HandleClose(c)
  <2> DEFINE ss == Closed(SessionsOf(c, Known(c)))
  <2>1. NoPeers = Erased(c, Known(c))
    BY <1>2 DEF NoPeers, Erased, Known
  <2>2. /\ ss \in [Sessions -> SessionRecords] /\ NoPeers \in [Remotes -> Gens \cup {NoGen}]
        /\ Fits(ss, MapsWith(c, NoPeers))
        /\ Backs(Told(c, Known(c)), control_, ss, MapsWith(c, NoPeers))
    BY <1>1, <1>2, <2>1, ClosedType, ControlMapType, ClosedFits
  <2>3. CASE Handled(c, NoPeers, ss) /\ link' = Told(c, Known(c))
    <3> HIDE DEF ss
    <3> QED
      BY <1>1, <2>2, <2>3, HandledConsistent
  <2>4. CASE peer_[c] /\ ~close_once_ /\ OnCloseLocal(c, NoPeers, ss)
    <3> HIDE DEF ss
    <3> QED
      BY <1>1, <2>2, <2>4, OnCloseLocalConsistent
  <2> QED
    BY <1>9, <2>3, <2>4 DEF HandleClose
<1>10. CASE HandleOffer(c)
  <2>1. ASSUME NEW R \in SUBSET Remotes, NEW bad, NEW type \in {"kOffer", "kAnswer"},
               StartSessions(c, R, bad, type)
        PROVE  Consistent'
    <3>1. PICK new \in [R -> Gens] :
             /\ \A r \in R : new[r] \in Fresh(r)
             /\ link' = Told(c, bad)
             /\ Handled(c, Inserted(c, new), Started({<<r, new[r]>> : r \in R}, c, type))
      BY <2>1 DEF StartSessions
    <3> DEFINE ss == Started({<<r, new[r]>> : r \in R}, c, type)
               map == Inserted(c, new)
    <3>2. ss \in [Sessions -> SessionRecords] /\ map \in [Remotes -> Gens \cup {NoGen}]
      BY <1>2, StartedType, ControlMapType
    <3>3. Fits(ss, MapsWith(c, map)) /\ Backs(link', control_, ss, MapsWith(c, map))
      BY <3>1, StartedFits
    <3>4. Handled(c, map, ss)
      BY <3>1
    <3> HIDE DEF ss, map
    <3> QED
      BY <1>1, <3>2, <3>3, <3>4, HandledConsistent
  <2>2. PICK type \in {"kOffer", "kAnswer"} :
           \/ StartSessions(c, Ids(c), {}, type)
           \/ \E bad \in Ids(c), R \in SUBSET Ids(c) :
                bad \notin R /\ StartSessions(c, R, {bad}, type)
    BY <1>10 DEF HandleOffer
  <2> QED
    BY <1>1, <2>1, <2>2
<1>11. CASE HandleAnswerSdp(c)
  <2>1. ASSUME NEW r \in Ids(c) \cap Known(c), Handled(c, peers_[c], Answered(SessionOf(c, r)))
        PROVE  Consistent'
    <3>1. SessionOf(c, r) \in Sessions
      BY <2>1, EntrySession
    <3>2. /\ Answered(SessionOf(c, r)) \in [Sessions -> SessionRecords]
          /\ Fits(Answered(SessionOf(c, r)), MapsWith(c, peers_[c]))
          /\ Backs(link, control_, Answered(SessionOf(c, r)), MapsWith(c, peers_[c]))
      BY <1>2, <3>1, UpdatedType, AnsweredFits
    <3>3. link' = link
      BY <1>11 DEF HandleAnswerSdp
    <3> QED
      BY <1>1, <1>2, <2>1, <3>2, <3>3, HandledConsistent
  <2>2. CASE Handled(c, peers_[c], session)
    BY <1>4, <1>11, <2>2 DEF HandleAnswerSdp
  <2> QED
    BY <1>11, <2>1, <2>2 DEF HandleAnswerSdp
<1> QED
  BY <1>5, <1>6, <1>7, <1>8, <1>9, <1>10, <1>11 DEF Dispatch

LEMMA ResumeConsistent ==
  ASSUME TypeOK, Consistent, TypeOK', ResumeClose
  PROVE  Consistent'
<1>1. /\ control_ \in Controls /\ queue[control_] # <<>>
      /\ \A r \in Remotes : link[r] = "down"
  BY DEF ResumeClose, Consistent, BlockedInClose, TypeOK
<1>2. ctl[control_] = "ready"
  BY <1>1 DEF Consistent, RegisteredIsCurrent
<1>3. <<>> \in Seq(Messages)
  OBVIOUS
<1>4. /\ session \in [Sessions -> SessionRecords]
      /\ peers_[control_] \in [Remotes -> Gens \cup {NoGen}]
      /\ Fits(session, MapsWith(control_, peers_[control_]))
  BY <1>1, UntouchedFits DEF TypeOK, SessionTypeOK, ControlTypeOK
<1>5. /\ control_' = NoControl /\ peer_' = [peer_ EXCEPT ![control_] = FALSE]
      /\ thread' = "idle" /\ link' = link
      /\ EndMessage(control_, NoControl, peers_[control_], session, <<>>)
      /\ close_once_' <=> local' = "closed"
  BY DEF ResumeClose, Consistent, CloseOnceMeansClosed
<1> QED
  BY <1>1, <1>2, <1>3, <1>4, <1>5, EndMessageConsistent

(* A session that WebRTC opens or disconnects is the entry of a Control    *)
(* that is ready.                                                          *)
LEMMA NegotiatedHeld ==
  ASSUME TypeOK, Consistent, NEW s \in Sessions, Negotiated(s)
  PROVE  /\ session[s].observer \in Controls /\ s[1] \in Known(session[s].observer)
         /\ s = SessionOf(session[s].observer, s[1])
         /\ ctl[session[s].observer] = "ready"
<1>1. s[1] \in Remotes /\ s[2] \in Gens /\ s = <<s[1], s[2]>> /\ s[2] # NoGen
  <2>1. s[1] \in Remotes /\ s[2] \in Gens /\ s = <<s[1], s[2]>>
    BY DEF Sessions
  <2> QED
    BY <2>1, GensAssumption
<1>2. session[s].desc = "none" /\ session[s].state_ \in Active
  BY DEF Negotiated, Consistent, DescribedLater
<1>3. session[s].observer \in Controls /\ peers_[session[s].observer][s[1]] = s[2]
  BY <1>2 DEF Consistent, HeldSessions
<1>4. s[1] \in Known(session[s].observer)
  BY <1>1, <1>3 DEF Known
<1> QED
  BY <1>1, <1>3, <1>4 DEF SessionOf, Consistent, MapSessionsLive

(* A callback that only updates session s, and keeps it active.            *)
LEMMA UpdatedConsistent ==
  ASSUME TypeOK, Consistent, TypeOK', NEW s \in Sessions, NEW x,
         session' = [session EXCEPT ![s] = x],
         x.state_ \in Active, x.observer = session[s].observer,
         x.desc = session[s].desc, x.sdp = session[s].sdp,
         x.state_ = "pOpen" => BothOpen(x),
         session[s].state_ = "pOpen" => x.state_ = "pOpen",
         session[s].state_ \in Active,
         UNCHANGED <<ctl, peers_, control_>>,
         \A r \in Remotes : link'[r] = "up" =>
           \/ link[r] = "up"
           \/ /\ control_ # NoControl /\ peers_[control_][r] # NoGen
              /\ s = <<r, peers_[control_][r]>> /\ x.state_ = "pOpen"
  PROVE  MapSessionsLive' /\ AppViewSound' /\ HeldSessions' /\ DescribedLater' /\ OpenIsOpen'
<1>1. \A z \in Sessions : session'[z] = IF z = s THEN x ELSE session[z]
  BY DEF TypeOK, SessionTypeOK
<1>2. Fits(session, peers_) /\ Backs(link, control_, session, peers_)
  BY ConsistentFits
<1>3. /\ \A d \in Controls, r \in Remotes : peers_[d][r] # NoGen => <<r, peers_[d][r]>> \in Sessions
      /\ control_ \in Controls \cup {NoControl}
  BY DEF TypeOK, ControlTypeOK, Sessions
<1>4. Live(session', peers_')
  BY <1>1, <1>2, <1>3 DEF Fits, Live
<1>5. Sound(session')
  BY <1>1, <1>2 DEF Fits, Sound
<1>6. Backs(link', control_', session', peers_')
  <2> SUFFICES ASSUME NEW r \in Remotes, link'[r] = "up"
               PROVE  /\ control_ # NoControl /\ peers_[control_][r] # NoGen
                      /\ session'[<<r, peers_[control_][r]>>].state_ = "pOpen"
    BY DEF Backs
  <2>1. CASE link[r] = "up"
    <3>1. /\ control_ # NoControl /\ peers_[control_][r] # NoGen
          /\ session[<<r, peers_[control_][r]>>].state_ = "pOpen"
      BY <1>2, <2>1 DEF Backs
    <3> QED
      BY <1>1, <1>3, <3>1
  <2>2. CASE link[r] # "up"
    BY <1>1, <2>2
  <2> QED
    BY <2>1, <2>2
<1>7. /\ \A c \in Controls, r \in Remotes : peers_[c][r] # NoGen => ctl[c] = "ready"
      /\ \A z \in Sessions : session'[z].state_ \in Active /\ session'[z].desc = "none"
           => peers_[session'[z].observer][z[1]] = z[2]
  BY <1>1 DEF Consistent, MapSessionsLive, Known, HeldSessions
<1> QED
  BY <1>4, <1>5, <1>6, <1>7, FitsConsistent DEF Fits

(* A callback that ends a request of session s and may destroy it.         *)
LEMMA RequestConsistent ==
  ASSUME TypeOK, Consistent, TypeOK', NEW s \in Sessions,
         NEW ss \in [Sessions -> SessionRecords],
         \A z \in Sessions :
           /\ ss[z].state_ = session[z].state_ /\ ss[z].observer = session[z].observer
           /\ ss[z].local_data_channel_ = session[z].local_data_channel_
           /\ ss[z].remote_data_channel_ = session[z].remote_data_channel_
           /\ "local" \in ss[z].sdp => ss[z].desc = "none",
         session' = Reaped(ss, Mapped(peers_)),
         UNCHANGED <<controlVars, peerVars, thread>>
  PROVE  Consistent'
<1>1. /\ Fits(session, peers_) /\ Backs(link, control_, session, peers_)
      /\ peers_ \in [Controls -> [Remotes -> Gens \cup {NoGen}]]
      /\ control_ \in Controls \cup {NoControl}
  BY ConsistentFits DEF TypeOK, ControlTypeOK
<1>2. \A d \in Controls, r \in Remotes : peers_[d][r] # NoGen => <<r, peers_[d][r]>> \in Sessions
  BY <1>1 DEF Sessions
<1>3. Live(ss, peers_)
  BY <1>1, <1>2 DEF Fits, Live
<1>4. Sound(ss)
  BY <1>1 DEF Fits, Sound, BothOpen
<1> DEFINE after == session'
<1>5. after = Reaped(ss, Mapped(peers_))
  OBVIOUS
<1> HIDE DEF after
<1>6. /\ Live(after, peers_) /\ Sound(after)
      /\ \A c \in Controls, r \in Remotes : peers_[c][r] # NoGen =>
           after[<<r, peers_[c][r]>>] = ss[<<r, peers_[c][r]>>]
      /\ \A z \in Sessions : after[z].state_ \in Active /\ after[z].desc = "none"
           => peers_[after[z].observer][z[1]] = z[2]
  BY <1>1, <1>3, <1>4, <1>5, ReapedFits DEF Fits
<1>7. Backs(link, control_, after, peers_)
  BY <1>1, <1>2, <1>6 DEF Backs
<1>8. \A c \in Controls, r \in Remotes : peers_[c][r] # NoGen => ctl[c] = "ready"
  BY DEF Consistent, MapSessionsLive, Known
<1>9. MapSessionsLive' /\ AppViewSound' /\ HeldSessions' /\ DescribedLater' /\ OpenIsOpen'
  BY <1>6, <1>7, <1>8, FitsConsistent DEF Fits, after, controlVars, peerVars
<1>10. RegisteredIsCurrent' /\ NoLostControl' /\ BlockedInClose' /\ CloseOnceMeansClosed'
  BY DEF Consistent, RegisteredIsCurrent, NoLostControl, BlockedInClose,
         CloseOnceMeansClosed, controlVars, peerVars
<1> QED
  BY <1>9, <1>10 DEF Consistent

LEMMA CallbacksConsistent ==
  ASSUME TypeOK, Consistent, TypeOK', Callbacks
  PROVE  Consistent'
<1> PICK s \in Sessions : \/ OnSuccess(s) \/ OnFailure(s) \/ DataChannelArrives(s)
                         \/ DataChannelOpens(s) \/ OnPeerDisconnected(s)
  BY DEF Callbacks
<1>1. /\ SessionTypeOK /\ session[s] \in SessionRecords
      /\ s[1] \in Remotes /\ s = <<s[1], s[2]>>
      /\ link \in [Remotes -> {"down", "up"}]
  BY DEF TypeOK, SessionTypeOK, Sessions
<1>2. CASE OnSuccess(s)
  <2>1. CASE Fault("dangling_control")
    BY <2>1, FaultConsistent
  <2>2. CASE /\ session' = Reaped(Described(s), Mapped(peers_))
             /\ UNCHANGED <<controlVars, peerVars, thread>>
    <3>1. \A z \in Sessions :
            /\ Described(s)[z].state_ = session[z].state_
            /\ Described(s)[z].observer = session[z].observer
            /\ Described(s)[z].local_data_channel_ = session[z].local_data_channel_
            /\ Described(s)[z].remote_data_channel_ = session[z].remote_data_channel_
            /\ "local" \in Described(s)[z].sdp => Described(s)[z].desc = "none"
      BY DEF Described, TypeOK, SessionTypeOK, SessionRecords, Consistent, DescribedLater
    <3> QED
      BY <1>1, <2>2, <3>1, UpdatedType, RequestConsistent
  <2> QED
    BY <1>2, <2>1, <2>2 DEF OnSuccess, threadVars
<1>3. CASE OnFailure(s)
  <2>1. \A z \in Sessions :
          /\ Refused(s)[z].state_ = session[z].state_
          /\ Refused(s)[z].observer = session[z].observer
          /\ Refused(s)[z].local_data_channel_ = session[z].local_data_channel_
          /\ Refused(s)[z].remote_data_channel_ = session[z].remote_data_channel_
          /\ "local" \in Refused(s)[z].sdp => Refused(s)[z].desc = "none"
    BY DEF Refused, TypeOK, SessionTypeOK, SessionRecords, Consistent, DescribedLater
  <2> QED
    BY <1>1, <1>3, <2>1, UpdatedType, RequestConsistent DEF OnFailure, threadVars
<1>4. ASSUME Negotiated(s)
      PROVE  /\ session[s].observer \in Controls /\ ctl[session[s].observer] = "ready"
             /\ session[s].state_ \in Active
             /\ peers_[session[s].observer][s[1]] # NoGen
             /\ s = <<s[1], peers_[session[s].observer][s[1]]>>
  BY <1>4, NegotiatedHeld DEF Known, SessionOf, Negotiated
<1>5. session[s].state_ = "pOpen" => BothOpen(session[s])
  BY DEF Consistent, OpenIsOpen
<1>6. ASSUME UNCHANGED <<controlVars, control_, close_once_, local, thread>>,
             thread = "idle"
      PROVE  RegisteredIsCurrent' /\ NoLostControl' /\ BlockedInClose' /\ CloseOnceMeansClosed'
  BY <1>6 DEF Consistent, RegisteredIsCurrent, NoLostControl, BlockedInClose,
              CloseOnceMeansClosed, controlVars
<1>7. CASE DataChannelArrives(s)
  <2> DEFINE x == [session[s] EXCEPT !.remote_data_channel_ = "connecting"]
  <2>1. /\ Negotiated(s) /\ session[s].remote_data_channel_ = "absent" /\ thread = "idle"
        /\ session' = [session EXCEPT ![s] = x]
        /\ UNCHANGED <<controlVars, peerVars, threadVars>>
    BY <1>7 DEF DataChannelArrives, OnDataChannel
  <2>2. session[s].state_ # "pOpen"
    BY <1>5, <2>1 DEF BothOpen
  <2>3. /\ x.state_ = session[s].state_ /\ x.observer = session[s].observer
        /\ x.desc = session[s].desc /\ x.sdp = session[s].sdp
    BY <1>1 DEF SessionRecords
  <2> HIDE DEF x
  <2>4. MapSessionsLive' /\ AppViewSound' /\ HeldSessions' /\ DescribedLater' /\ OpenIsOpen'
    BY <1>4, <2>1, <2>2, <2>3, UpdatedConsistent DEF controlVars, peerVars
  <2> QED
    BY <1>6, <2>1, <2>4 DEF Consistent, peerVars, threadVars
<1>8. CASE DataChannelOpens(s)
  <2>1. /\ Negotiated(s) /\ thread = "idle"
        /\ UNCHANGED <<controlVars, control_, close_once_, local, threadVars>>
    BY <1>8 DEF DataChannelOpens, OnStateChange
  <2>2. PICK y \in {[session[s] EXCEPT !.local_data_channel_ = "open"],
                    [session[s] EXCEPT !.remote_data_channel_ = "open"]} :
           session' = [session EXCEPT ![s] = Opened(y)]
    BY <1>8 DEF DataChannelOpens, OnStateChange
  <2> DEFINE x == Opened(y)
  <2>3. /\ y.state_ = session[s].state_ /\ y.observer = session[s].observer
        /\ y.desc = session[s].desc /\ y.sdp = session[s].sdp
        /\ session[s].state_ = "pOpen" => BothOpen(y)
    BY <1>1, <1>5 DEF SessionRecords, BothOpen
  <2>4. /\ x.observer = y.observer /\ x.desc = y.desc /\ x.sdp = y.sdp
        /\ x.state_ = y.state_ \/ x.state_ = "pOpen"
        /\ x.state_ = "pOpen" => BothOpen(x)
    BY <1>1, <2>3 DEF Opened, BothOpen, SessionRecords
  <2>5. session'[s] = x
    BY <1>1, <2>2 DEF SessionTypeOK
  <2> HIDE DEF x
  <2>6. ASSUME NEW r \in Remotes, link'[r] = "up", link[r] # "up"
        PROVE  /\ control_ # NoControl /\ peers_[control_][r] # NoGen
               /\ s = <<r, peers_[control_][r]>> /\ x.state_ = "pOpen"
    <3>1. r = s[1] /\ x.state_ = "pOpen" /\ peer_[session[s].observer]
      BY <1>1, <1>8, <2>5, <2>6 DEF DataChannelOpens
    <3>2. control_ = session[s].observer
      BY <1>4, <2>1, <3>1 DEF Consistent, RegisteredIsCurrent
    <3> QED
      BY <1>4, <2>1, <3>1, <3>2, ControlsAssumption
  <2>7. session' = [session EXCEPT ![s] = x]
    BY <2>2 DEF x
  <2>8. x.state_ \in Active /\ (session[s].state_ = "pOpen" => x.state_ = "pOpen")
    BY <1>4, <2>1, <2>3, <2>4 DEF Active
  <2>9. MapSessionsLive' /\ AppViewSound' /\ HeldSessions' /\ DescribedLater' /\ OpenIsOpen'
    <3>1. \A r \in Remotes : link'[r] = "up" =>
            \/ link[r] = "up"
            \/ /\ control_ # NoControl /\ peers_[control_][r] # NoGen
               /\ s = <<r, peers_[control_][r]>> /\ x.state_ = "pOpen"
      BY <2>6
    <3>2. /\ x.observer = session[s].observer /\ x.desc = session[s].desc
          /\ x.sdp = session[s].sdp /\ session[s].state_ \in Active
          /\ x.state_ = "pOpen" => BothOpen(x)
      BY <1>4, <2>1, <2>3, <2>4
    <3>3. UNCHANGED <<ctl, peers_, control_>>
      BY <2>1 DEF controlVars
    <3> QED
      BY <2>7, <2>8, <3>1, <3>2, <3>3, UpdatedConsistent
  <2> QED
    BY <1>6, <2>1, <2>9 DEF Consistent, threadVars
<1>9. CASE OnPeerDisconnected(s)
  <2> DEFINE x == [session[s] EXCEPT !.down = TRUE]
             c == session[s].observer
  <2>1. /\ Negotiated(s) /\ thread = "idle" /\ session' = [session EXCEPT ![s] = x]
        /\ UNCHANGED <<ctl, peer_, peers_, peerVars, threadVars>>
        /\ \/ queue' = queue
           \/ queue' = [queue EXCEPT ![c] = Posted(c, GoingAway({s[1]}))]
    BY <1>9 DEF OnPeerDisconnected
  <2>2. /\ x.state_ = session[s].state_ /\ x.observer = session[s].observer
        /\ x.desc = session[s].desc /\ x.sdp = session[s].sdp
        /\ x.state_ = "pOpen" => BothOpen(x)
    BY <1>1, <1>5 DEF SessionRecords, BothOpen
  <2>3. c \in Controls /\ ctl[c] = "ready"
    BY <1>4, <2>1
  <2> HIDE DEF x
  <2>4. MapSessionsLive' /\ AppViewSound' /\ HeldSessions' /\ DescribedLater' /\ OpenIsOpen'
    BY <1>4, <2>1, <2>2, UpdatedConsistent DEF peerVars
  <2>5. NoLostControl'
    <3>1. ASSUME NEW d \in Controls
          PROVE  /\ ctl[d] = "ready" => \/ control_ = d \/ peer_[d]
                                        \/ \E i \in 1..Len(queue'[d]) : queue'[d][i].ref
                 /\ queue'[d] # <<>> => ctl[d] = "ready"
      <4>1. /\ ctl[d] = "ready" => \/ control_ = d \/ peer_[d]
                                   \/ \E i \in 1..Len(queue[d]) : queue[d][i].ref
            /\ queue[d] # <<>> => ctl[d] = "ready"
        BY DEF Consistent, NoLostControl
      <4>2. CASE queue'[d] = queue[d]
        BY <4>1, <4>2
      <4>3. CASE d = c /\ queue'[c] = Posted(c, GoingAway({s[1]}))
        <5>1. queue[c] \in Seq(Messages)
          BY <2>3 DEF TypeOK, ControlTypeOK
        <5>2. \A i \in 1..Len(queue[c]) : i \in 1..Len(queue'[c]) /\ queue'[c][i] = queue[c][i]
          BY <4>3, <5>1 DEF Posted
        <5> QED
          BY <2>3, <4>1, <4>3, <5>2
      <4> QED
        BY <2>1, <2>3, <4>2, <4>3 DEF TypeOK, ControlTypeOK
    <3> QED
      BY <2>1, <3>1 DEF NoLostControl, peerVars
  <2>6. RegisteredIsCurrent' /\ BlockedInClose' /\ CloseOnceMeansClosed'
    BY <2>1 DEF Consistent, RegisteredIsCurrent, BlockedInClose, CloseOnceMeansClosed,
                peerVars, threadVars
  <2> QED
    BY <2>4, <2>5, <2>6 DEF Consistent
<1> QED
  BY <1>2, <1>3, <1>7, <1>8, <1>9

-----------------------------------------------------------------------------
(* Theorems.                                                               *)

LEMMA InitIInv == Init => IInv
<1> SUFFICES ASSUME Init PROVE IInv
  OBVIOUS
<1>1. TypeOK
  <2>1. SessionTypeOK
    BY BareType DEF Init, SessionInit, SessionTypeOK, States
  <2>2. ControlTypeOK
    BY DEF Init, ControlInit, ControlTypeOK, NoPeers
  <2> QED
    BY <2>1, <2>2 DEF Init, SigInit, TypeOK, SigTypeOK, Faults
<1>2. /\ \A s \in Sessions : session[s].state_ = "unborn" /\ session[s].sdp = {}
      /\ \A c \in Controls : ctl[c] = "unborn" /\ queue[c] = <<>> /\ Known(c) = {}
      /\ control_ \notin Controls
  BY ControlsAssumption DEF Init, SessionInit, ControlInit, Bare, Known, NoPeers
<1>3. Consistent
  BY <1>2 DEF Init, Consistent, RegisteredIsCurrent, MapSessionsLive, AppViewSound,
              NoLostControl, BlockedInClose, HeldSessions, DescribedLater, OpenIsOpen,
              CloseOnceMeansClosed, Active
<1> QED
  BY <1>1, <1>3 DEF IInv

LEMMA NextIInv == IInv /\ [Next]_vars => IInv'
<1> SUFFICES ASSUME TypeOK, Consistent, [Next]_vars PROVE TypeOK' /\ Consistent'
  BY DEF IInv
<1>1. TypeOK'
  BY NextType DEF Consistent
<1>2. CASE Next
  BY <1>1, <1>2, CallsConsistent, SignalConsistent, DispatchConsistent, ResumeConsistent,
     CallbacksConsistent DEF Next
<1>3. CASE UNCHANGED vars
  <2>1. /\ UNCHANGED <<session, ctl, peer_, peers_, control_, close_once_, local, link>>
        /\ queue' = queue /\ thread' = thread
    BY <1>3 DEF vars, controlVars, peerVars, threadVars
  <2> QED
    BY <1>1, <2>1, PostedConsistent
<1> QED
  BY <1>1, <1>2, <1>3

(* What every state satisfies.                                             *)
THEOREM Invariance == Spec => []IInv
<1>1. Init => IInv
  BY InitIInv
<1>2. IInv /\ [Next]_vars => IInv'
  BY NextIInv
<1> QED
  BY <1>1, <1>2, PTL DEF Spec

(* The variables of the Peer, its Controls and their sessions keep their   *)
(* types.                                                                  *)
THEOREM TypeCorrect == Spec => []TypeOK
<1>1. IInv => TypeOK
  BY DEF IInv
<1> QED
  BY <1>1, Invariance, PTL

(* The Control that reports to the Peer is the one the Peer holds, also    *)
(* while a handler of the close event is blocked in SyncClose.             *)
THEOREM Registration == Spec => []RegisteredIsCurrent
<1>1. IInv => RegisteredIsCurrent
  BY DEF IInv, Consistent
<1> QED
  BY <1>1, Invariance, PTL

(* Every entry of peers_ is a session that is connecting or open.          *)
THEOREM MapsAreLive == Spec => []MapSessionsLive
<1>1. IInv => MapSessionsLive
  BY DEF IInv, Consistent
<1> QED
  BY <1>1, Invariance, PTL

(* What the application believes up is an open session of its Control.     *)
THEOREM ViewIsSound == Spec => []AppViewSound
<1>1. IInv => AppViewSound
  BY DEF IInv, Consistent
<1> QED
  BY <1>1, Invariance, PTL

(* No Control outlives its references, and none is used after it is gone.  *)
THEOREM ControlsAreHeld == Spec => []NoLostControl
<1>1. IInv => NoLostControl
  BY DEF IInv, Consistent
<1> QED
  BY <1>1, Invariance, PTL

(* A connect event is never raised for a remote that is connected already. *)
THEOREM ConnectedOnce == Spec => ConnectOnce
<1>1. IInv /\ [Next]_vars =>
        [\A s \in Sessions :
           DataChannelOpens(s) /\ session'[s].state_ = "pOpen" /\ peer_[session[s].observer]
             => link[s[1]] = "down"]_vars
  <2> SUFFICES ASSUME TypeOK, Consistent, NEW s \in Sessions, DataChannelOpens(s),
                      peer_[session[s].observer]
               PROVE  link[s[1]] = "down"
    BY DEF IInv
  <2>1. /\ Negotiated(s) /\ s[1] \in Remotes
        /\ \/ session[s].local_data_channel_ = "connecting"
           \/ session[s].remote_data_channel_ = "connecting"
    BY DEF DataChannelOpens, OnStateChange, Sessions
  <2>2. control_ = session[s].observer /\ s = SessionOf(control_, s[1])
    BY <2>1, NegotiatedHeld DEF Consistent, RegisteredIsCurrent
  <2>3. session[s].state_ # "pOpen"
    BY <2>1 DEF Consistent, OpenIsOpen, BothOpen
  <2>4. link[s[1]] # "up"
    BY <2>1, <2>2, <2>3 DEF Consistent, AppViewSound
  <2> QED
    BY <2>1, <2>4 DEF TypeOK
<1> QED
  BY <1>1, Invariance, PTL DEF Spec, ConnectOnce

-----------------------------------------------------------------------------
(* The events raised by a step are events of EventContract.                *)

LEMMA CloseEventsStep ==
  ASSUME TypeOK, NEW R, local' = local,
         link' = [r \in Remotes |-> IF r \in R THEN "down" ELSE link[r]]
  PROVE  Events!EventNext
<1>1. R \cap Remotes \in SUBSET Remotes
  OBVIOUS
<1>2. link' = [r \in Remotes |-> IF r \in R \cap Remotes THEN "down" ELSE link[r]]
  OBVIOUS
<1>3. Events!CloseEvents(R \cap Remotes)
  BY <1>2 DEF Events!CloseEvents
<1> QED
  BY <1>1, <1>3 DEF Events!EventNext

LEMMA ToldStep ==
  ASSUME TypeOK, NEW c \in Controls, NEW R, local' = local, link' = Told(c, R)
  PROVE  Events!EventNext
<1>1. CASE peer_[c]
  BY <1>1, CloseEventsStep DEF Told
<1>2. CASE ~peer_[c]
  <2>1. link' = [r \in Remotes |-> IF r \in {} THEN "down" ELSE link[r]]
    BY <1>2 DEF Told
  <2>2. Events!CloseEvents({}) /\ {} \in SUBSET Remotes
    BY <2>1 DEF Events!CloseEvents
  <2> QED
    BY <2>2 DEF Events!EventNext
<1> QED
  BY <1>1, <1>2

LEMMA LocalCloseStep ==
  ASSUME TypeOK, Consistent, NEW c, NEW map, NEW ss, ~close_once_, OnCloseLocal(c, map, ss)
  PROVE  Events!EventNext
<1>1. local # "closed"
  BY DEF Consistent, CloseOnceMeansClosed
<1>2. Events!LocalCloseEvent
  BY <1>1 DEF OnCloseLocal, Events!LocalCloseEvent
<1> QED
  BY <1>2 DEF Events!EventNext

LEMMA DispatchEvents ==
  ASSUME TypeOK, Consistent, NEW c \in Controls, Dispatch(c)
  PROVE  [Events!EventNext]_(Events!events)
<1> USE DEF Events!events
<1>1. CASE HandleOpen(c)
  BY <1>1 DEF HandleOpen, Handled
<1>2. CASE HandleChannelCreate(c)
  <2>1. CASE local' = "open" /\ link' = link
    BY <2>1 DEF Events!EventNext, Events!OpenEvent
  <2>2. CASE ~close_once_ /\ OnCloseLocal(c, peers_[c], session)
    BY <2>2, LocalCloseStep
  <2>3. CASE local' = local /\ link' = link
    BY <2>3
  <2> QED
    BY <1>2, <2>1, <2>2, <2>3 DEF HandleChannelCreate, Handled, Fault, peerVars
<1>3. CASE HandleChannelJoin(c)
  <2> DEFINE R == IF Ok(c) THEN {} ELSE Ids(c)
  <2>1. CASE /\ link' = [r \in Remotes |-> IF r \in Ids(c) /\ ~Ok(c) THEN "down" ELSE link[r]]
             /\ Handled(c, peers_[c], session)
    <3>1. link' = [r \in Remotes |-> IF r \in R THEN "down" ELSE link[r]] /\ local' = local
      BY <2>1 DEF Handled
    <3> HIDE DEF R
    <3> QED
      BY <3>1, CloseEventsStep
  <2>2. CASE Fault("null_observer")
    BY <2>2 DEF Fault, peerVars
  <2> QED
    BY <1>3, <2>1, <2>2 DEF HandleChannelJoin
<1>4. CASE HandleClosePeer(c)
  BY <1>4, ToldStep DEF HandleClosePeer, Handled
<1>5. CASE HandleClose(c)
  BY <1>5, ToldStep, LocalCloseStep DEF HandleClose, Handled
<1>6. CASE HandleOffer(c)
  <2>1. \E bad : link' = Told(c, bad) /\ local' = local
    BY <1>6 DEF HandleOffer, StartSessions, Handled
  <2> QED
    BY <2>1, ToldStep
<1>7. CASE HandleAnswerSdp(c)
  BY <1>7 DEF HandleAnswerSdp, Handled
<1> QED
  BY <1>1, <1>2, <1>3, <1>4, <1>5, <1>6, <1>7 DEF Dispatch

LEMMA CallbackEvents ==
  ASSUME TypeOK, Callbacks
  PROVE  [Events!EventNext]_(Events!events)
<1> USE DEF Events!events
<1> PICK s \in Sessions : \/ OnSuccess(s) \/ OnFailure(s) \/ DataChannelArrives(s)
                         \/ DataChannelOpens(s) \/ OnPeerDisconnected(s)
  BY DEF Callbacks
<1>1. CASE DataChannelOpens(s)
  <2>1. s[1] \in Remotes /\ link \in [Remotes -> {"down", "up"}] /\ local' = local
    BY <1>1 DEF DataChannelOpens, Sessions, TypeOK
  <2>2. CASE link' = link
    BY <2>1, <2>2
  <2>3. CASE link' = [link EXCEPT ![s[1]] = "up"] /\ link[s[1]] = "down"
    BY <2>1, <2>3 DEF Events!EventNext, Events!ConnectEvent
  <2>4. CASE link' = [link EXCEPT ![s[1]] = "up"] /\ link[s[1]] = "up"
    BY <2>1, <2>4
  <2> QED
    BY <1>1, <2>1, <2>2, <2>3, <2>4 DEF DataChannelOpens
<1>2. CASE ~DataChannelOpens(s)
  BY <1>2 DEF OnSuccess, OnFailure, DataChannelArrives, OnPeerDisconnected, Fault, peerVars
<1> QED
  BY <1>1, <1>2

LEMMA OtherEvents ==
  ASSUME Calls \/ SyncCloseByApp \/ SignalEvents \/ SignalClosed \/ ResumeClose
  PROVE  local' = local /\ link' = link
<1> USE DEF peerVars
<1>1. CASE Calls \/ SyncCloseByApp
  BY <1>1 DEF Calls, Open, OpenFails, CallWithoutControl, CloseByApp, CloseByHandler,
              ClosePeer, Connect, SyncCloseByApp, Fault
<1>2. CASE SignalEvents \/ SignalClosed
  BY <1>2 DEF SignalEvents, SignalOpened, SignalFailedOrLost, SignalDropped, WildPost,
              ServerSends, SignalClosed, Raise, Fault
<1>3. CASE ResumeClose
  BY <1>3 DEF ResumeClose
<1> QED
  BY <1>1, <1>2, <1>3

(* The events that the application sees are those of EventContract: the    *)
(* local peer is closed at most once after each open, and each remote's    *)
(* events follow the contract whatever the interleaving.                   *)
THEOREM EventsImplementContract == Spec => EventsInOrder
<1>1. Init => Events!EventInit
  BY DEF Init, Events!EventInit
<1>2. IInv /\ [Next]_vars => [Events!EventNext]_(Events!events)
  <2> SUFFICES ASSUME TypeOK, Consistent, [Next]_vars
               PROVE  [Events!EventNext]_(Events!events)
    BY DEF IInv
  <2>1. CASE Next
    BY <2>1, DispatchEvents, CallbackEvents, OtherEvents DEF Next, Events!events
  <2>2. CASE UNCHANGED vars
    BY <2>2 DEF vars, peerVars, Events!events
  <2> QED
    BY <2>1, <2>2
<1> QED
  BY <1>1, <1>2, Invariance, PTL DEF Spec, EventsInOrder, Events!EventSpec
=============================================================================
