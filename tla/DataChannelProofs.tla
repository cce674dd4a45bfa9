------------------------- MODULE DataChannelProofs -------------------------
(***************************************************************************)
(* SyncSend loses no wakeup, for any number of threads and any limits.     *)
(* notify_all is called under send_lock_, so that no thread is between its *)
(* test of the buffer and its wait (LockHeld): each one that found the     *)
(* buffer in use is waiting and is woken.                                  *)
(***************************************************************************)
EXTENDS DataChannel, TLAPS

(* WebRTC's buffer stays within its capacity.                              *)
LEMMA ChannelSendType ==
  ASSUME TypeOK, ChannelSend
  PROVE  /\ channel' \in {"open", "closed"} /\ buffered' \in 0..Capacity
         /\ channel' = "open" => channel = "open"
         /\ buffered' = 0 => buffered = 0
BY CapacityAssumption DEF TypeOK, ChannelSend, Taken

(* A thread's step keeps the types.                                        *)
LEMMA StepType ==
  ASSUME TypeOK, NEW t \in Threads,
         \/ Send(t) \/ SyncSend(t) \/ Invoked(t) \/ Local(t) \/ Timeout(t)
  PROVE  TypeOK'
<1> USE DEF Goes, Inside
<1>1. CASE Send(t) \/ SyncSend(t) \/ Local(t) \/ Timeout(t)
  BY <1>1 DEF TypeOK, Send, SyncSend, Local, Lock, Wait, Wake, Timeout
<1>2. CASE TestSize(t) \/ Test(t)
  BY <1>2 DEF TypeOK, TestSize, Test
<1>3. CASE Post(t)
  BY <1>3, ChannelSendType DEF TypeOK, Post
<1>4. CASE SendLocked(t)
  BY <1>4, ChannelSendType DEF TypeOK, SendLocked
<1> QED
  BY <1>1, <1>2, <1>3, <1>4 DEF Invoked

(* A thread takes the lock when it is free and gives it back.              *)
LEMMA StepLock ==
  ASSUME TypeOK, LockHeld, NEW t \in Threads,
         \/ Send(t) \/ SyncSend(t) \/ Invoked(t) \/ Local(t) \/ Timeout(t)
  PROVE  LockHeld'
<1> USE ThreadAssumption DEF Goes, TypeOK, LockHeld, Threads
<1>1. CASE Send(t) \/ SyncSend(t) \/ Timeout(t)
  BY <1>1 DEF Send, SyncSend, Timeout
<1>2. CASE TestSize(t) \/ Post(t)
  BY <1>2 DEF TestSize, Post
<1>3. CASE SendLocked(t)
  BY <1>3 DEF SendLocked
<1>4. CASE Test(t)
  BY <1>4 DEF Test
<1>5. CASE Lock(t)
  BY <1>5 DEF Lock
<1>6. CASE Wait(t) \/ Wake(t)
  BY <1>6 DEF Wait, Wake
<1> QED
  BY <1>1, <1>2, <1>3, <1>4, <1>5, <1>6 DEF Invoked, Local

(* A thread that goes to wait has just found the buffer in use, and        *)
(* nothing a thread does empties the buffer or ends the webrtc thread's    *)
(* callback.                                                               *)
LEMMA StepWakeup ==
  ASSUME TypeOK, NoLostWakeup, NEW t \in Senders,
         \/ Send(t) \/ SyncSend(t) \/ Invoked(t) \/ Local(t) \/ Timeout(t)
  PROVE  NoLostWakeup'
<1> USE DEF Goes, TypeOK, NoLostWakeup, Threads
<1>1. CASE Send(t) \/ SyncSend(t) \/ Timeout(t)
  BY <1>1 DEF Send, SyncSend, Timeout
<1>2. CASE TestSize(t)
  BY <1>2 DEF TestSize
<1>3. CASE Post(t)
  BY <1>3, ChannelSendType DEF Post
<1>4. CASE SendLocked(t)
  BY <1>4, ChannelSendType DEF SendLocked
<1>5. CASE Test(t)
  BY <1>5 DEF Test
<1>6. CASE Lock(t)
  BY <1>6 DEF Lock
<1>7. CASE Wait(t) \/ Wake(t)
  BY <1>7 DEF Wait, Wake
<1> QED
  BY <1>1, <1>2, <1>3, <1>4, <1>5, <1>6, <1>7 DEF Invoked, Local

(* The steps of the webrtc thread keep the invariant.                      *)
LEMMA WebrtcStep ==
  ASSUME IInv, Drain \/ Callback \/ ChannelCloses \/ ClosePeer
  PROVE  IInv'
<1> USE CapacityAssumption, ThreadAssumption
    DEF IInv, Goes, TypeOK, LockHeld, NoLostWakeup, Threads
<1>1. CASE Drain
  <2>1. buffered' \in 0..Capacity
    BY <1>1 DEF Drain
  <2> QED
    BY <1>1, <2>1 DEF Drain
<1>2. CASE OnBufferedAmountChange
  <2>1. /\ channel' \in {"open", "closed"} /\ buffered' \in 0..Capacity
        /\ channel' = "open" => channel = "open"
    BY <1>2, ChannelSendType DEF OnBufferedAmountChange
  <2> QED
    BY <1>2, <2>1 DEF OnBufferedAmountChange
<1>3. CASE Notify
  <2>1. \A t \in Threads : pc[t] # "wait"
    BY <1>3 DEF Notify
  <2> QED
    BY <1>3, <2>1 DEF Notify
<1>4. CASE ChannelCloses
  BY <1>4 DEF ChannelCloses
<1>5. CASE ClosePeer
  BY <1>5 DEF ClosePeer
<1> QED
  BY <1>1, <1>2, <1>3, <1>4, <1>5 DEF Callback

(* The invariant of the send path: types, who holds send_lock_ and who     *)
(* waits on send_cv_.                                                      *)
THEOREM SendInvariance == Spec => []IInv
<1>1. Init => IInv
  BY CapacityAssumption, ThreadAssumption
  DEF Init, IInv, TypeOK, LockHeld, NoLostWakeup, Inside, Threads
<1>2. IInv /\ [Next]_vars => IInv'
  <2> SUFFICES ASSUME IInv, [Next]_vars PROVE IInv'
    OBVIOUS
  <2>1. ASSUME NEW t \in Senders,
               Send(t) \/ SyncSend(t) \/ Invoked(t) \/ Local(t) \/ Timeout(t)
        PROVE  IInv'
    BY <2>1, StepType, StepLock, StepWakeup DEF IInv, Threads
  <2>2. CASE UNCHANGED vars
    BY <2>2 DEF IInv, vars, TypeOK, LockHeld, NoLostWakeup
  <2> QED
    BY <2>1, <2>2, WebrtcStep DEF Next
<1> QED
  BY <1>1, <1>2, PTL DEF Spec

(* The variables keep their types: what Send and SyncSend leave in the     *)
(* channel's buffer never passes WebRTC's limit.                           *)
THEOREM TypeCorrect == Spec => []TypeOK
<1>1. IInv => TypeOK
  BY DEF IInv
<1> QED
  BY <1>1, SendInvariance, PTL

(* No wakeup of a thread waiting in SyncSend is lost: notify_all under     *)
(* send_lock_ in OnBufferedAmountChange reaches every thread that found    *)
(* the buffer in use.                                                      *)
THEOREM WakeupsReach == Spec => []NoLostWakeup
<1>1. IInv => NoLostWakeup
  BY DEF IInv
<1> QED
  BY <1>1, SendInvariance, PTL
=============================================================================
