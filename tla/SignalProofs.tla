---------------------------- MODULE SignalProofs ----------------------------
(***************************************************************************)
(* What Signal promises, for any number of threads and reconnections: it   *)
(* keeps one connection or attempt at a time, and the rest of the library  *)
(* sees of it what SignalContract says.                                    *)
(*                                                                         *)
(* Owned relates con_state_ to the websocket, Ended says that nothing      *)
(* outlives the network thread (why a Connect() that has joined it starts  *)
(* afresh), Due what a retry that is planned excludes.                     *)
(***************************************************************************)
EXTENDS Signal, TLAPS

Queued == \E i \in 1..Len(tasks) : tasks[i] = "ConnectInternal"
Unique == \A i, j \in 1..Len(tasks) :
            tasks[i] = "ConnectInternal" /\ tasks[j] = "ConnectInternal" => i = j

Owned ==
  /\ con_state_ = "con_closed" => conn = "none" /\ ~Queued
  /\ con_state_ = "con_opening" => conn \in {"none", "connecting"}
  /\ con_state_ = "con_opened" => conn \in {"open", "closing"}
  /\ Queued => conn = "none"

Ended ==
  ~Running => conn = "none" /\ ~Queued /\ reconn_timer_ \notin {"armed", "expired"}

Due ==
  /\ reconn_timer_ # "null" => conn = "none" /\ ~Queued
  /\ reconn_timer_ \in {"armed", "expired"} => Retries

IInv == TypeOK /\ Unique /\ Owned /\ Ended /\ Due

Tasks == {"ConnectInternal", "CloseInternal"}

-----------------------------------------------------------------------------
(* The queue of tasks.                                                     *)

(* A ConnectInternal dispatched to a queue without one is the only one.    *)
LEMMA DispatchConnectInternal ==
  ASSUME tasks \in Seq(Tasks), ~Queued, tasks' = Append(tasks, "ConnectInternal")
  PROVE  tasks' \in Seq(Tasks) /\ Unique' /\ Queued'
<1>1. Len(tasks') = Len(tasks) + 1 /\ tasks'[Len(tasks) + 1] = "ConnectInternal"
  BY DEF Tasks
<1>2. \A i \in 1..Len(tasks) : tasks'[i] = tasks[i] /\ tasks[i] # "ConnectInternal"
  BY DEF Tasks, Queued
<1>3. tasks' \in Seq(Tasks)
  BY DEF Tasks
<1> QED
  BY <1>1, <1>2, <1>3 DEF Unique, Queued

(* A CloseInternal changes nothing for the attempts in the queue.          *)
LEMMA DispatchCloseInternal ==
  ASSUME tasks \in Seq(Tasks), Unique, tasks' = Append(tasks, "CloseInternal")
  PROVE  tasks' \in Seq(Tasks) /\ Unique' /\ (Queued' <=> Queued)
<1>1. Len(tasks') = Len(tasks) + 1 /\ tasks'[Len(tasks) + 1] = "CloseInternal"
  BY DEF Tasks
<1>2. \A i \in 1..Len(tasks) : tasks'[i] = tasks[i]
  BY DEF Tasks
<1>3. tasks' \in Seq(Tasks)
  BY DEF Tasks
<1> QED
  BY <1>1, <1>2, <1>3 DEF Unique, Queued

(* Running the oldest task takes its attempt out of the queue and no       *)
(* other.                                                                  *)
LEMMA RunTask ==
  ASSUME tasks \in Seq(Tasks), Unique, tasks # <<>>, tasks' = Tail(tasks)
  PROVE  /\ tasks' \in Seq(Tasks) /\ Unique'
         /\ Head(tasks) = "ConnectInternal" => Queued /\ ~Queued'
         /\ Head(tasks) = "CloseInternal" => (Queued' <=> Queued)
<1>1. Len(tasks) \in Nat /\ Len(tasks) > 0 /\ Len(tasks') = Len(tasks) - 1
      /\ Head(tasks) = tasks[1]
  OBVIOUS
<1>2. \A i \in 1..Len(tasks') : tasks'[i] = tasks[i + 1]
  OBVIOUS
<1>3. tasks' \in Seq(Tasks)
  OBVIOUS
<1>4. \A i \in 2..Len(tasks) : i - 1 \in 1..Len(tasks') /\ tasks'[i - 1] = tasks[i]
  BY <1>1, <1>2
<1>5. Unique'
  BY <1>1, <1>2 DEF Unique
<1>6. ASSUME Head(tasks) = "ConnectInternal" PROVE Queued /\ ~Queued'
  BY <1>1, <1>2, <1>6 DEF Unique, Queued
<1>7. ASSUME Head(tasks) = "CloseInternal" PROVE Queued' <=> Queued
  <2>1. Queued => Queued'
    BY <1>1, <1>4, <1>7 DEF Queued
  <2>2. Queued' => Queued
    BY <1>1, <1>2 DEF Queued
  <2> QED
    BY <2>1, <2>2
<1> QED
  BY <1>3, <1>5, <1>6, <1>7

(* A step that leaves the queue alone.                                     *)
LEMMA SameTasks ==
  ASSUME UNCHANGED tasks
  PROVE  (Queued' <=> Queued) /\ (Unique' <=> Unique)
BY DEF Queued, Unique

-----------------------------------------------------------------------------
(* The steps.                                                              *)

(* The methods keep the invariant.                                         *)
LEMMA MethodStep ==
  ASSUME IInv, NEW u \in Users, Connect(u) \/ SyncClose(u) \/ Methods(u)
  PROVE  IInv'
<1> USE AttemptsAssumption DEF IInv
<1>1. CASE Connect(u) \/ SyncClose(u) \/ ConnectOverThread(u) \/ Joined(u)
  <2>1. TypeOK'
    BY <1>1 DEF Connect, SyncClose, ConnectOverThread, Joined, Join, Joining, TypeOK
  <2>2. UNCHANGED tasks /\ UNCHANGED <<con_state_, conn, reconn_made_>>
        /\ (Running' <=> Running) /\ (reconn_timer_' = reconn_timer_ \/
              (reconn_timer_ = "armed" /\ reconn_timer_' = "cancelled"))
    BY <1>1 DEF Connect, SyncClose, ConnectOverThread, Joined, Join, Running
  <2> QED
    BY <2>1, <2>2, SameTasks DEF Owned, Ended, Due, Retries
<1>2. CASE StartThread(u)
  <2>1. ~Running /\ tasks' = Append(tasks, "ConnectInternal") /\ tasks \in Seq(Tasks)
    BY <1>2 DEF StartThread, Running, TypeOK, Tasks
  <2>2. conn = "none" /\ ~Queued
    BY <2>1 DEF Ended
  <2>3. tasks' \in Seq(Tasks) /\ Unique' /\ Queued'
    BY <2>1, <2>2, DispatchConnectInternal
  <2>4. notified' \in BOOLEAN
    BY <1>2 DEF StartThread, TypeOK
  <2>5. pc' \in [Users -> {"idle", "connect", "close"} \cup Joining]
    BY <1>2 DEF StartThread, TypeOK
  <2>6. reconn_made_' \in 0..reconn_attempts_
    BY <1>2 DEF StartThread
  <2>7. TypeOK'
    BY <1>2, <2>3, <2>4, <2>5, <2>6 DEF StartThread, TypeOK, Tasks
  <2> QED
    BY <1>2, <2>2, <2>3, <2>7 DEF StartThread, Owned, Ended, Due, Running
<1>3. CASE DispatchClose(u)
  <2>1. tasks' = Append(tasks, "CloseInternal") /\ tasks \in Seq(Tasks)
    BY <1>3 DEF DispatchClose, TypeOK, Tasks
  <2>2. tasks' \in Seq(Tasks) /\ Unique' /\ (Queued' <=> Queued)
    BY <2>1, DispatchCloseInternal
  <2>3. pc' \in [Users -> {"idle", "connect", "close"} \cup Joining]
        /\ fault' \in {"none", "double_join"}
    BY <1>3 DEF DispatchClose, Join, Joining, TypeOK
  <2>4. TypeOK'
    BY <1>3, <2>2, <2>3 DEF DispatchClose, TypeOK, Tasks
  <2> QED
    BY <1>3, <2>2, <2>4 DEF DispatchClose, Owned, Ended, Due, Running, Retries
<1> QED
  BY <1>1, <1>2, <1>3 DEF Methods

(* The network thread keeps the invariant.                                 *)
LEMMA NetworkStep ==
  ASSUME IInv, NetworkThread
  PROVE  IInv'
<1> USE AttemptsAssumption DEF IInv
<1>1. CASE ConnectInternal \/ CloseInternal
  <2>1. tasks \in Seq(Tasks) /\ tasks # <<>> /\ tasks' = Tail(tasks)
    BY <1>1 DEF ConnectInternal, CloseInternal, TypeOK, Tasks
  <2>2. /\ tasks' \in Seq(Tasks) /\ Unique'
        /\ Head(tasks) = "ConnectInternal" => Queued /\ ~Queued'
        /\ Head(tasks) = "CloseInternal" => (Queued' <=> Queued)
    BY <2>1, RunTask
  <2>3. TypeOK'
    BY <1>1, <2>2 DEF ConnectInternal, CloseInternal, TypeOK, Tasks, users
  <2>4. CASE ConnectInternal
    BY <2>2, <2>3, <2>4 DEF ConnectInternal, Owned, Ended, Due, Running, TypeOK, Retries
  <2>5. CASE CloseInternal
    BY <2>2, <2>3, <2>5 DEF CloseInternal, Owned, Ended, Due, Running, Retries
  <2> QED
    BY <1>1, <2>4, <2>5
<1>2. CASE OnOpen \/ OnClose \/ OnFail
  <2>1. TypeOK'
    <3>1. notified' \in BOOLEAN
      BY <1>2 DEF OnOpen, OnClose, OnFail, TypeOK
    <3>2. reconn_made_' = 0 \/ reconn_made_' = reconn_made_
      BY <1>2 DEF OnOpen, OnClose, OnFail
    <3>3. reconn_made_' \in 0..reconn_attempts_
      BY <3>2 DEF TypeOK
    <3> QED
      BY <1>2, <3>1, <3>3 DEF OnOpen, OnClose, OnFail, TypeOK, users
  <2>2. UNCHANGED tasks
    BY <1>2 DEF OnOpen, OnClose, OnFail
  <2> QED
    BY <1>2, <2>1, <2>2, SameTasks
    DEF OnOpen, OnClose, OnFail, Owned, Ended, Due, Running, Retries
<1>3. CASE Expires \/ TimeoutReconnect
  <2>1. TypeOK'
    BY <1>3 DEF Expires, TimeoutReconnect, TypeOK, Due, Retries, users
  <2>2. UNCHANGED tasks
    BY <1>3 DEF Expires, TimeoutReconnect
  <2> QED
    BY <1>3, <2>1, <2>2, SameTasks
    DEF Expires, TimeoutReconnect, Owned, Ended, Due, Running, Retries
<1>4. CASE RunLoopEnds
  <2>1. TypeOK' /\ UNCHANGED tasks
    BY <1>4 DEF RunLoopEnds, TypeOK, users
  <2>2. ~Queued
    BY <1>4 DEF RunLoopEnds, Queued
  <2> QED
    BY <1>4, <2>1, <2>2, SameTasks DEF RunLoopEnds, Owned, Ended, Due, Running, Retries
<1> QED
  BY <1>1, <1>2, <1>3, <1>4 DEF NetworkThread

(* The invariant of the signal connection.                                 *)
THEOREM Invariance == Spec => []IInv
<1>1. Init => IInv
  <2> SUFFICES ASSUME Init PROVE IInv
    OBVIOUS
  <2>1. reconn_made_ \in 0..reconn_attempts_
    BY AttemptsAssumption DEF Init
  <2>2. TypeOK
    <3>1. notified \in BOOLEAN
      BY DEF Init
    <3>2. tasks \in Seq({"ConnectInternal", "CloseInternal"})
      BY DEF Init
    <3> QED
      BY <2>1, <3>1, <3>2 DEF Init, TypeOK
  <2>3. Unique /\ ~Queued
    BY DEF Init, Unique, Queued
  <2> QED
    BY <2>2, <2>3 DEF Init, IInv, Owned, Ended, Due
<1>2. IInv /\ [Next]_vars => IInv'
  <2> SUFFICES ASSUME IInv, [Next]_vars PROVE IInv'
    OBVIOUS
  <2>1. CASE UNCHANGED vars
    BY <2>1, SameTasks DEF vars, IInv, TypeOK, Owned, Ended, Due, Running, Retries
  <2> QED
    BY <2>1, MethodStep, NetworkStep DEF Next
<1> QED
  BY <1>1, <1>2, PTL DEF Spec

(* The members of Signal keep their types; reconn_made_ never passes       *)
(* reconn_attempts_.                                                       *)
THEOREM TypeCorrect == Spec => []TypeOK
BY Invariance, PTL DEF IInv

(* At most one attempt or connection exists at a time: Connect() joins the *)
(* thread of the one before, and TimeoutReconnect tests con_state_.        *)
THEOREM SingleConnection == Spec => []OneConnection
<1>1. IInv => OneConnection
  BY DEF IInv, Unique, Owned, Due, OneConnection, Pending, Queued
<1> QED
  BY <1>1, Invariance, PTL

-----------------------------------------------------------------------------
(* The refinement.                                                         *)

(* sig, in the states that the invariant allows.                           *)
SigShows ==
  /\ con_state_ = "con_opened" => sig = "opened"
  /\ con_state_ = "con_closing" /\ conn \in {"open", "closing"} => sig = "closing"
  /\ con_state_ \in {"con_opening", "con_closing"} /\ (Queued \/ conn = "connecting")
       => sig = "trying"
  /\ con_state_ \in {"con_opening", "con_closing"} /\ ~Queued /\ conn = "none"
       => sig = "idle"
  /\ con_state_ = "con_closed" => sig = IF reconn_timer_ # "null" THEN "trying" ELSE "idle"

LEMMA SigValue ==
  ASSUME IInv
  PROVE  SigShows
BY DEF IInv, SigShows, sig, Attempting, Queued, Owned, TypeOK

(* Every step of Signal is a step of SignalContract or changes nothing of  *)
(* what it shows.                                                          *)
LEMMA SigStep ==
  ASSUME IInv, IInv', [Next]_vars
  PROVE  [Contract!SigNext]_(Contract!sigVars)
<1> USE DEF Contract!SigNext, Contract!sigVars, Contract!SigConnect, Contract!SigOpened,
            Contract!SigFailed, Contract!SigLost, Contract!SigDropped,
            Contract!SigSyncClose, Contract!SigClosed
<1>a. SigShows /\ SigShows'
  BY SigValue DEF IInv, SigShows, sig, Attempting, Queued, Owned, TypeOK
<1>b. TypeOK /\ Unique /\ Owned /\ Ended /\ Due
  BY DEF IInv
<1>c. tasks \in Seq(Tasks)
  BY <1>b DEF TypeOK, Tasks
<1>1. ASSUME NEW u \in Users, Connect(u) \/ SyncClose(u) \/ ConnectOverThread(u) \/ Joined(u)
      PROVE  UNCHANGED <<sig, notified>>
  BY <1>1 DEF Connect, SyncClose, ConnectOverThread, Joined, Join, sig, Attempting
<1>2. ASSUME NEW u \in Users, StartThread(u) PROVE Contract!SigConnect
  <2>1. ~Running
    BY <1>2 DEF StartThread, Running
  <2>2. conn = "none" /\ ~Queued
    BY <2>1, <1>b DEF Ended
  <2>3. Queued'
    BY <1>2, <1>c, <2>2, DispatchConnectInternal DEF StartThread
  <2>4. sig' = "trying"
    BY <1>2, <1>a, <2>3 DEF StartThread, SigShows
  <2>5. sig \in {"idle", "trying"}
    BY <1>a, <1>b, <2>2 DEF SigShows, Owned, TypeOK
  <2> QED
    BY <1>2, <2>4, <2>5 DEF StartThread
<1>3. ASSUME NEW u \in Users, DispatchClose(u)
      PROVE  Contract!SigSyncClose \/ Contract!SigDropped \/ UNCHANGED <<sig, notified>>
  <2>1. Queued' <=> Queued
    BY <1>3, <1>b, <1>c, DispatchCloseInternal DEF DispatchClose
  <2>2. con_state_' = "con_closing" /\ UNCHANGED <<conn, notified>>
    BY <1>3 DEF DispatchClose
  <2> QED
    BY <1>a, <1>b, <2>1, <2>2 DEF SigShows, Owned, TypeOK
<1>4. ASSUME ConnectInternal \/ CloseInternal
      PROVE  Contract!SigDropped \/ UNCHANGED <<sig, notified>>
  <2>1. /\ Head(tasks) = "ConnectInternal" => Queued /\ ~Queued'
        /\ Head(tasks) = "CloseInternal" => (Queued' <=> Queued)
    BY <1>4, <1>b, <1>c, RunTask DEF ConnectInternal, CloseInternal
  <2>2. CASE ConnectInternal
    BY <1>a, <1>b, <2>1, <2>2 DEF SigShows, ConnectInternal, Owned, TypeOK
  <2>3. CASE CloseInternal
    BY <1>a, <1>b, <2>1, <2>3 DEF SigShows, CloseInternal, Owned, TypeOK
  <2> QED
    BY <1>4, <2>2, <2>3
<1>5. CASE OnOpen
  BY <1>5, <1>a, <1>b DEF SigShows, OnOpen, Owned, TypeOK
<1>6. CASE OnFail
  BY <1>6, <1>a, <1>b DEF SigShows, OnFail, Owned, Due, TypeOK
<1>7. CASE OnClose
  <2>1. con_state_ \in {"con_opened", "con_closing"} /\ reconn_timer_ = "null"
        /\ sig \in {"opened", "closing"} /\ sig' = "idle"
    BY <1>7, <1>a, <1>b DEF SigShows, OnClose, Owned, Due, TypeOK
  <2>2. CASE notified' = notified
    <3>1. notified' = (notified \/ FALSE)
      BY <2>2, <1>b DEF TypeOK
    <3> QED
      BY <2>1, <2>2, <3>1
  <2>3. CASE notified' = TRUE
    <3>1. notified' = (notified \/ TRUE)
      BY <2>3
    <3> QED
      BY <2>1, <2>3, <3>1
  <2> QED
    BY <1>7, <2>2, <2>3 DEF OnClose
<1>8. CASE Expires \/ TimeoutReconnect
  <2>1. Queued' <=> Queued
    BY <1>8, SameTasks DEF Expires, TimeoutReconnect
  <2> QED
    BY <1>8, <1>a, <1>b, <2>1 DEF SigShows, Expires, TimeoutReconnect, Owned, Due, TypeOK, Retries
<1>9. CASE RunLoopEnds \/ UNCHANGED vars
  BY <1>9 DEF RunLoopEnds, vars, sig, Attempting
<1> QED
  BY <1>1, <1>2, <1>3, <1>4, <1>5, <1>6, <1>7, <1>8, <1>9 DEF Next, NetworkThread, Methods

(* Signal implements SignalContract, on which PeerApi rests: however its   *)
(* threads interleave, the connection goes through the states that the     *)
(* contract allows and SignalOnClosed_ is raised only then.                *)
THEOREM SignalImplementsContract == Spec => ImplementsContract
<1>1. Init => Contract!SigInit
  BY DEF Init, Contract!SigInit, sig, Attempting
<1>2. IInv /\ IInv' /\ [Next]_vars => [Contract!SigNext]_(Contract!sigVars)
  BY SigStep
<1> QED
  BY <1>1, <1>2, Invariance, PTL DEF Spec, ImplementsContract, Contract!SigSpec
=============================================================================
