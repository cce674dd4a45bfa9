------------------------------- MODULE Signal -------------------------------
(***************************************************************************)
(* Class Signal (signalconnection.cc): the websocket connection to the     *)
(* signal server.  Its methods run on the threads of its users, its        *)
(* handlers on the network thread that Connect() starts and that ends when *)
(* the io_service has nothing left to do.  The members are not protected   *)
(* by a lock: a method is cut where it reads a member and then acts on it, *)
(* and the other threads may step in between.                              *)
(*                                                                         *)
(* SignalContract is what the rest of the library sees of this.            *)
(***************************************************************************)
EXTENDS Naturals, Sequences

CONSTANTS Users,              \* threads that call SyncClose()
          Openers,            \* those that also call Open()
          reconn_attempts_    \* 3 in the constructor

ASSUME OpenersAssumption == Openers \subseteq Users
ASSUME AttemptsAssumption == reconn_attempts_ \in Nat

VARIABLES
  con_state_,      \* con_opening, con_opened, con_closing or con_closed
  network_thread_, \* "null", "running", or "ended": RunLoop has returned
  tasks,           \* functions dispatched to the io_service, oldest first
  conn,            \* the websocket: "none", "connecting", "open" or "closing";
                   \* con_hdl_ is set from OnOpen to OnClose
  reconn_timer_,   \* "null", "armed", "expired" (its handler will run without
                   \* an error) or "cancelled" by Connect()
  reconn_made_,    \* reconnections since the last Connect() or OnOpen
  pc,              \* per user, where it is in Connect() or SyncClose()
  notified,        \* history: SignalOnClosed_ was raised for the last attempt
  fault            \* two threads join network_thread_: undefined behaviour

vars == <<con_state_, network_thread_, tasks, conn, reconn_timer_, reconn_made_,
          pc, notified, fault>>

Joining == {"connect_join", "close_join"}

TypeOK ==
  /\ con_state_ \in {"con_opening", "con_opened", "con_closing", "con_closed"}
  /\ network_thread_ \in {"null", "running", "ended"}
  /\ tasks \in Seq({"ConnectInternal", "CloseInternal"})
  /\ conn \in {"none", "connecting", "open", "closing"}
  /\ reconn_timer_ \in {"null", "armed", "expired", "cancelled"}
  /\ reconn_made_ \in 0..reconn_attempts_
  /\ pc \in [Users -> {"idle", "connect", "close"} \cup Joining]
  /\ notified \in BOOLEAN
  /\ fault \in {"none", "double_join"}

Init ==
  /\ con_state_ = "con_closed" /\ network_thread_ = "null" /\ tasks = <<>>
  /\ conn = "none" /\ reconn_timer_ = "null" /\ reconn_made_ = 0
  /\ pc = [u \in Users |-> "idle"] /\ notified = FALSE /\ fault = "none"

(* The refinement mapping to SignalContract.                               *)
Attempting == conn = "connecting" \/ \E i \in 1..Len(tasks) : tasks[i] = "ConnectInternal"
sig ==
  CASE con_state_ = "con_opened" -> "opened"
    [] con_state_ = "con_closing" /\ conn \in {"open", "closing"} -> "closing"
    [] con_state_ # "con_closed" /\ Attempting -> "trying"
    [] con_state_ = "con_closed" /\ reconn_timer_ # "null" -> "trying"
    [] OTHER -> "idle"

-----------------------------------------------------------------------------
(* The methods.                                                            *)

(* Connect(): cancels the timer.  A handler that is due cannot be undone.  *)
Connect(u) ==
  /\ u \in Openers /\ pc[u] = "idle"
  /\ pc' = [pc EXCEPT ![u] = "connect"]
  /\ reconn_timer_' = IF reconn_timer_ = "armed" THEN "cancelled" ELSE reconn_timer_
  /\ UNCHANGED <<con_state_, network_thread_, tasks, conn, reconn_made_, notified, fault>>

(* network_thread_->join().                                                *)
Join(u, where) ==
  /\ pc' = [pc EXCEPT ![u] = where]
  /\ fault' = IF \E v \in Users : pc[v] \in Joining THEN "double_join" ELSE fault

(* ... then, if there is a thread, joins it or leaves a connection alone.  *)
ConnectOverThread(u) ==
  /\ pc[u] = "connect" /\ network_thread_ # "null"
  /\ \/ /\ con_state_ \in {"con_closing", "con_closed"}
        /\ Join(u, "connect_join")
     \/ /\ con_state_ \in {"con_opening", "con_opened"}
        /\ pc' = [pc EXCEPT ![u] = "idle"]
        /\ UNCHANGED fault
  /\ UNCHANGED <<con_state_, network_thread_, tasks, conn, reconn_timer_,
                 reconn_made_, notified>>

(* Mutant: the old thread is not joined.                                   *)
StartThreadUnjoined(u) ==
  /\ pc[u] \in {"connect", "connect_join"}
  /\ con_state_' = "con_opening" /\ reconn_made_' = 0
  /\ reconn_timer_' = "null"
  /\ tasks' = Append(tasks, "ConnectInternal")
  /\ network_thread_' = "running"
  /\ pc' = [pc EXCEPT ![u] = "idle"]
  /\ notified' = IF sig = "idle" THEN FALSE ELSE notified
  /\ UNCHANGED <<conn, fault>>

(* ... and starts a new thread, once the old one is joined.                *)
StartThread(u) ==
  /\ \/ pc[u] = "connect" /\ network_thread_ = "null"
     \/ pc[u] = "connect_join" /\ network_thread_ = "ended"
  /\ con_state_' = "con_opening" /\ reconn_made_' = 0
  /\ reconn_timer_' = "null"
  /\ tasks' = Append(tasks, "ConnectInternal")
  /\ network_thread_' = "running"
  /\ pc' = [pc EXCEPT ![u] = "idle"]
  /\ notified' = IF sig = "idle" THEN FALSE ELSE notified
  /\ UNCHANGED <<conn, fault>>

(* SyncClose() finds the connection opened.                                *)
SyncClose(u) ==
  /\ pc[u] = "idle" /\ con_state_ = "con_opened"
  /\ pc' = [pc EXCEPT ![u] = "close"]
  /\ UNCHANGED <<con_state_, network_thread_, tasks, conn, reconn_timer_,
                 reconn_made_, notified, fault>>

(* ... dispatches CloseInternal and joins the network thread.              *)
DispatchClose(u) ==
  /\ pc[u] = "close"
  /\ con_state_' = "con_closing"
  /\ tasks' = Append(tasks, "CloseInternal")
  /\ IF network_thread_ # "null" THEN Join(u, "close_join")
     ELSE pc' = [pc EXCEPT ![u] = "idle"] /\ UNCHANGED fault
  /\ UNCHANGED <<network_thread_, conn, reconn_timer_, reconn_made_, notified>>

(* ... which ends, and network_thread_ is reset.                           *)
Joined(u) ==
  /\ pc[u] = "close_join" /\ network_thread_ = "ended"
  /\ network_thread_' = "null"
  /\ pc' = [pc EXCEPT ![u] = "idle"]
  /\ UNCHANGED <<con_state_, tasks, conn, reconn_timer_, reconn_made_, notified, fault>>

-----------------------------------------------------------------------------
(* The network thread.                                                     *)

Running == network_thread_ = "running"
users == <<pc, fault>>

(* ConnectInternal(); it gives up in silence if the url is refused.        *)
ConnectInternal ==
  /\ Running /\ tasks # <<>> /\ Head(tasks) = "ConnectInternal"
  /\ tasks' = Tail(tasks)
  /\ conn' \in {"connecting", "none"}
  /\ UNCHANGED <<con_state_, network_thread_, reconn_timer_, reconn_made_, notified, users>>

(* Mutant: the websocket is not closed.                                    *)
CloseInternalForgets ==
  /\ Running /\ tasks # <<>> /\ Head(tasks) = "CloseInternal"
  /\ tasks' = Tail(tasks)
  /\ UNCHANGED <<con_state_, network_thread_, conn, reconn_timer_, reconn_made_, notified, users>>

(* CloseInternal(); without a con_hdl_ it only cancels the timer.          *)
CloseInternal ==
  /\ Running /\ tasks # <<>> /\ Head(tasks) = "CloseInternal"
  /\ tasks' = Tail(tasks)
  /\ reconn_timer_' = IF reconn_timer_ = "armed" THEN "null" ELSE reconn_timer_
  /\ conn' = IF conn = "open" THEN "closing" ELSE conn
  /\ UNCHANGED <<con_state_, network_thread_, reconn_made_, notified, users>>

OnOpen ==
  /\ Running /\ conn = "connecting"
  /\ conn' = "open" /\ con_state_' = "con_opened" /\ reconn_made_' = 0
  /\ UNCHANGED <<network_thread_, tasks, reconn_timer_, notified, users>>

(* Mutant: the reconnection that is commented out in OnClose.              *)
OnCloseReconnects ==
  /\ Running /\ conn \in {"open", "closing"}
  /\ conn' = "none" /\ con_state_' = "con_closed"
  /\ reconn_timer_' = "armed"
  /\ UNCHANGED <<network_thread_, tasks, reconn_made_, notified, users>>

(* SignalOnClosed_ is raised unless the close code is the normal one.      *)
OnClose ==
  /\ Running /\ conn \in {"open", "closing"}
  /\ conn' = "none" /\ con_state_' = "con_closed"
  /\ notified' \in {notified, TRUE}
  /\ UNCHANGED <<network_thread_, tasks, reconn_timer_, reconn_made_, users>>

(* Mutant: one attempt too many.                                           *)
RetriesOnceMore == reconn_made_ <= reconn_attempts_
Retries == reconn_made_ < reconn_attempts_

(* Mutant: OnFail without SignalOnClosed_ when the attempts are used up.   *)
OnFailSilently ==
  /\ Running /\ conn = "connecting"
  /\ conn' = "none" /\ con_state_' = "con_closed"
  /\ reconn_timer_' = IF Retries THEN "armed" ELSE reconn_timer_
  /\ UNCHANGED <<network_thread_, tasks, reconn_made_, notified, users>>

(* OnFail comes for a websocket that is connecting (ConnectionContract,    *)
(* whose exception, a botched connection, is left to WebSocket).           *)
OnFail ==
  /\ Running /\ conn = "connecting"
  /\ conn' = "none" /\ con_state_' = "con_closed"
  /\ IF Retries
     THEN reconn_timer_' = "armed" /\ UNCHANGED notified
     ELSE notified' = TRUE /\ UNCHANGED reconn_timer_
  /\ UNCHANGED <<network_thread_, tasks, reconn_made_, users>>

(* The timer expires; then TimeoutReconnect, with ConnectInternal at once. *)
Expires ==
  /\ Running /\ reconn_timer_ = "armed"
  /\ reconn_timer_' = "expired"
  /\ UNCHANGED <<con_state_, network_thread_, tasks, conn, reconn_made_, notified, users>>

TimeoutReconnect ==
  /\ Running /\ reconn_timer_ = "expired"
  /\ reconn_timer_' = "null"
  /\ IF con_state_ = "con_closed"
     THEN /\ con_state_' = "con_opening" /\ reconn_made_' = reconn_made_ + 1
          /\ conn' \in {"connecting", "none"}
     ELSE UNCHANGED <<con_state_, reconn_made_, conn>>
  /\ UNCHANGED <<network_thread_, tasks, notified, users>>

(* RunLoop() returns when the io_service has run out of work.              *)
RunLoopEnds ==
  /\ Running /\ tasks = <<>> /\ conn = "none"
  /\ reconn_timer_ \notin {"armed", "expired"}
  /\ network_thread_' = "ended"
  /\ UNCHANGED <<con_state_, tasks, conn, reconn_timer_, reconn_made_, notified, users>>

-----------------------------------------------------------------------------
NetworkThread == \/ ConnectInternal \/ CloseInternal \/ OnOpen \/ OnClose \/ OnFail
                 \/ Expires \/ TimeoutReconnect \/ RunLoopEnds

Methods(u) == \/ ConnectOverThread(u) \/ StartThread(u) \/ DispatchClose(u) \/ Joined(u)

Next == /\ fault = "none"
        /\ \/ NetworkThread
           \/ \E u \in Users : Connect(u) \/ SyncClose(u) \/ Methods(u)

Spec == Init /\ [][Next]_vars

(* A thread inside a method goes on, the io_service runs what is ready,    *)
(* and websocketpp bounds the opening and the closing handshake in time.   *)
(* An open connection may last for ever.                                   *)
Fairness ==
  /\ \A u \in Users : WF_vars(fault = "none" /\ Methods(u))
  /\ WF_vars(fault = "none" /\ (ConnectInternal \/ CloseInternal))
  /\ WF_vars(fault = "none" /\ (OnOpen \/ OnFail))
  /\ WF_vars(fault = "none" /\ conn = "closing" /\ OnClose)
  /\ WF_vars(fault = "none" /\ (Expires \/ TimeoutReconnect))
  /\ WF_vars(fault = "none" /\ RunLoopEnds)

FairSpec == Spec /\ Fairness

-----------------------------------------------------------------------------
(* Properties.                                                             *)

(* At most one attempt or connection exists at a time: the websocket, a    *)
(* ConnectInternal that is queued and a reconnection that is due exclude   *)
(* each other, so that con_state_ and con_hdl_ speak of one connection     *)
(* (the join in Connect, the con_closed test in TimeoutReconnect).         *)
Pending(task) == {i \in 1..Len(tasks) : tasks[i] = task}
OneConnection ==
  /\ \A i, j \in Pending("ConnectInternal") : i = j
  /\ conn = "none" \/ Pending("ConnectInternal") = {}
  /\ reconn_timer_ \in {"armed", "expired"} =>
       conn = "none" /\ Pending("ConnectInternal") = {}

(* Whatever the threads interleave, the connection goes through the states *)
(* that SignalContract allows and SignalOnClosed_ is raised only then.     *)
Contract == INSTANCE SignalContract WITH sig <- sig, notified <- notified
ImplementsContract == Contract!SigSpec

(* SyncClose() returns: the join ends, by the close handshake or by its    *)
(* timeout, unless the thread it joins is that of another attempt, which   *)
(* has opened (CloseInternal came too early for it and closed nothing).    *)
CloseReturns ==
  \A u \in Users : pc[u] = "close_join"
    ~> pc[u] = "idle" \/ con_state_ = "con_opened" \/ fault # "none"

(* An attempt ends: it opens, or SignalOnClosed_ is raised after the last  *)
(* retry, unless ConnectInternal refused the url or a user steps in with   *)
(* Connect() or SyncClose(), which cancels a retry in silence even if it   *)
(* was meant for the connection before (OnFail, NextDelay,                 *)
(* TimeoutReconnect and reconn_made_).                                     *)
Refused == con_state_ = "con_opening" /\ sig = "idle"
AttemptReported ==
  sig = "trying" ~> \/ sig = "opened" \/ notified \/ Refused
                    \/ \E u \in Users : pc[u] # "idle"
=============================================================================
