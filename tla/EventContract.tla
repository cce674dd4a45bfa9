--------------------------- MODULE EventContract ---------------------------
(***************************************************************************)
(* What an application may rely on about the events it receives from a     *)
(* Peer, whatever the threads, the server and WebRTC do, as changes of     *)
(* what the application knows:                                             *)
(*   - the local peer is closed, by a "close" event, at most once after    *)
(*     each "open"; a close may come first (the first Open() failed);      *)
(*   - a remote peer is up from a "connect" to a "close" of that remote or *)
(*     of the local peer; a "close" may come without "connect" (a refused  *)
(*     or failed attempt);                                                 *)
(*   - the local peer's "close" ends every link.                           *)
(***************************************************************************)
CONSTANT Remotes
VARIABLES local,   \* "idle", "open" or "closed"
          link     \* per remote, "up" or "down"

events == <<local, link>>

EventInit == local = "idle" /\ link = [r \in Remotes |-> "down"]

OpenEvent == local' = "open" /\ UNCHANGED link

LocalCloseEvent == /\ local # "closed" /\ local' = "closed"
                   /\ link' = [r \in Remotes |-> "down"]

ConnectEvent(r) == /\ link[r] = "down"
                   /\ link' = [link EXCEPT ![r] = "up"]
                   /\ UNCHANGED local

(* Close events of remote peers; Control::Close raises several in a row.   *)
CloseEvents(R) == /\ link' = [r \in Remotes |-> IF r \in R THEN "down" ELSE link[r]]
                  /\ UNCHANGED local

EventNext == \/ OpenEvent \/ LocalCloseEvent
             \/ \E r \in Remotes : ConnectEvent(r)
             \/ \E R \in SUBSET Remotes : CloseEvents(R)

EventSpec == EventInit /\ [][EventNext]_events
=============================================================================
