---------------------------- MODULE DataChannel ----------------------------
(***************************************************************************)
(* Sending over an open session: Peer::Send down to class                  *)
(* PeerDataChannelObserver (peer.cc), for the local_data_channel_ of one   *)
(* PeerControl.  The application's threads, and the webrtc thread in a     *)
(* handler, call Send (wait = SYNC_OFF) and SyncSend (SYNC_ON), which      *)
(* holds send_lock_ around the send and waits on send_cv_ until WebRTC's   *)
(* buffer is empty; the webrtc thread signals it.                          *)
(*                                                                         *)
(* WebRTC runs a call on channel_ on its signaling thread, which is the    *)
(* webrtc thread: another thread's call waits until that thread is free.   *)
(***************************************************************************)
EXTENDS Naturals

CONSTANTS Senders,           \* threads that call Send or SyncSend
          W,                 \* the webrtc thread
          NoThread,
          max_buffer_size_,  \* the limit that Send tests, in messages
          Capacity           \* WebRTC's own limit, beyond which it closes

ASSUME ThreadAssumption == NoThread \notin Senders \cup {W}
ASSUME CapacityAssumption == /\ max_buffer_size_ \in Nat /\ Capacity \in Nat
                             /\ 0 < max_buffer_size_ /\ max_buffer_size_ <= Capacity

Threads == Senders \cup {W}

VARIABLES
  session,     \* "pOpen", or "gone": out of peers_, data channels released
  channel,     \* channel_->state(): "open" or "closed"
  buffered,    \* channel_->buffered_amount(), in messages
  send_lock_,  \* the thread that holds it, or NoThread
  pc,          \* per thread, what it does next
  woken,       \* per thread, send_cv_ was notified since it began to wait
  timedout,    \* per thread, its wait_for has timed out
  fault        \* the observer was destroyed while a thread was inside it

vars == <<session, channel, buffered, send_lock_, pc, woken, timedout, fault>>

(* Where a thread may be.  Send: "size" before the test of the buffer,     *)
(* "post" before the send.  SyncSend: "lock", "send", "test" (of the       *)
(* predicate), "wait" (about to), "waiting", "relock".  The webrtc thread  *)
(* in OnBufferedAmountChange: "changed", then "notify".                    *)
Inside == {"size", "post", "lock", "send", "test", "wait", "waiting", "relock"}

TypeOK ==
  /\ session \in {"pOpen", "gone"} /\ channel \in {"open", "closed"}
  /\ buffered \in 0..Capacity
  /\ send_lock_ \in Threads \cup {NoThread}
  /\ pc \in [Threads -> Inside \cup {"idle", "changed", "notify"}]
  /\ woken \in [Threads -> BOOLEAN] /\ timedout \in [Threads -> BOOLEAN]
  /\ fault \in {"none", "destroyed_in_use"}

Init ==
  /\ session = "pOpen" /\ channel = "open" /\ buffered = 0
  /\ send_lock_ = NoThread
  /\ pc = [t \in Threads |-> "idle"]
  /\ woken = [t \in Threads |-> FALSE] /\ timedout = [t \in Threads |-> FALSE]
  /\ fault = "none"

Goes(t, where) == pc' = [pc EXCEPT ![t] = where]

(* A call on channel_ by thread t can be carried out.                      *)
Invokes(t) == t = W \/ pc[W] = "idle"

(* channel_->Send: sent at once, or queued behind what the transport could *)
(* not take; a full queue closes the channel.                              *)
Taken == channel = "open" /\ buffered < Capacity
ChannelSend ==
  \/ /\ Taken /\ buffered' = buffered + 1 /\ UNCHANGED channel
  \/ /\ Taken /\ buffered = 0 /\ UNCHANGED <<channel, buffered>>
  \/ /\ ~Taken /\ channel' = "closed" /\ UNCHANGED buffered

-----------------------------------------------------------------------------
(* PeerControl::Send and SyncSend only send over an open session.          *)
Sendable == session = "pOpen"

(* Peer::Send without and with waiting.  An id that is not in peers_ is    *)
(* ignored, or false.                                                      *)
Send(t) ==
  /\ pc[t] = "idle" /\ Sendable
  /\ Goes(t, "size")
  /\ UNCHANGED <<session, channel, buffered, send_lock_, woken, timedout, fault>>

SyncSend(t) ==
  /\ pc[t] = "idle" /\ Sendable
  /\ Goes(t, "lock")
  /\ timedout' = [timedout EXCEPT ![t] = FALSE]
  /\ UNCHANGED <<session, channel, buffered, send_lock_, woken, fault>>

(* PeerDataChannelObserver::Send: a full buffer drops the data.            *)
TestSize(t) ==
  /\ pc[t] = "size" /\ Invokes(t)
  /\ Goes(t, IF buffered >= max_buffer_size_ THEN "idle" ELSE "post")
  /\ UNCHANGED <<session, channel, buffered, send_lock_, woken, timedout, fault>>

(* Mutant: the send goes on although the channel is full.                  *)
PostUnbounded(t) ==
  /\ pc[t] = "post" /\ Invokes(t)
  /\ buffered' = buffered + 1
  /\ Goes(t, "idle")
  /\ UNCHANGED <<session, channel, send_lock_, woken, timedout, fault>>

Post(t) ==
  /\ pc[t] = "post" /\ Invokes(t)
  /\ ChannelSend
  /\ Goes(t, "idle")
  /\ UNCHANGED <<session, send_lock_, woken, timedout, fault>>

(* PeerDataChannelObserver::SyncSend: the lock, at first and after a wait. *)
Lock(t) ==
  /\ send_lock_ = NoThread
  /\ \/ pc[t] = "lock" /\ Goes(t, "send")
     \/ pc[t] = "relock" /\ Goes(t, "test")
  /\ send_lock_' = t
  /\ UNCHANGED <<session, channel, buffered, woken, timedout, fault>>

(* ... channel_->Send; a refusal ends the call.                            *)
SendLocked(t) ==
  /\ pc[t] = "send" /\ Invokes(t)
  /\ ChannelSend
  /\ IF Taken THEN Goes(t, "test") /\ UNCHANGED send_lock_
     ELSE Goes(t, "idle") /\ send_lock_' = NoThread
  /\ UNCHANGED <<session, woken, timedout, fault>>

(* ... the predicate of wait_for: the buffer is empty.                     *)
Test(t) ==
  /\ pc[t] = "test" /\ Invokes(t)
  /\ IF buffered = 0 \/ timedout[t]
     THEN Goes(t, "idle") /\ send_lock_' = NoThread
     ELSE Goes(t, "wait") /\ UNCHANGED send_lock_
  /\ UNCHANGED <<session, channel, buffered, woken, timedout, fault>>

(* ... the wait, which releases the lock.                                  *)
Wait(t) ==
  /\ pc[t] = "wait"
  /\ Goes(t, "waiting") /\ send_lock_' = NoThread
  /\ woken' = [woken EXCEPT ![t] = FALSE]
  /\ UNCHANGED <<session, channel, buffered, timedout, fault>>

Wake(t) ==
  /\ pc[t] = "waiting" /\ woken[t]
  /\ Goes(t, "relock")
  /\ UNCHANGED <<session, channel, buffered, send_lock_, woken, timedout, fault>>

(* ... 60 seconds have passed.                                             *)
Timeout(t) ==
  /\ pc[t] = "waiting"
  /\ Goes(t, "relock")
  /\ timedout' = [timedout EXCEPT ![t] = TRUE]
  /\ UNCHANGED <<session, channel, buffered, send_lock_, woken, fault>>

-----------------------------------------------------------------------------
(* The webrtc thread.                                                      *)

(* The transport takes queued messages and OnBufferedAmountChange begins.  *)
Drain ==
  /\ pc[W] = "idle" /\ channel = "open" /\ buffered > 0
  /\ buffered' \in 0..(buffered - 1)
  /\ Goes(W, "changed")
  /\ UNCHANGED <<session, channel, send_lock_, woken, timedout, fault>>

IsWritable == channel = "open" /\ buffered = 0

(* The writable event, if IsWritable(), in whose handler the application   *)
(* may send without waiting; then the test for an empty buffer.            *)
OnBufferedAmountChange ==
  /\ pc[W] = "changed"
  /\ \/ UNCHANGED <<channel, buffered>>
     \/ IsWritable /\ ChannelSend
  /\ Goes(W, IF buffered' = 0 THEN "notify" ELSE "idle")
  /\ UNCHANGED <<session, send_lock_, woken, timedout, fault>>

(* Mutants: notify_all without the lock; no notify_all.                    *)
NotifyUnlocked ==
  /\ pc[W] = "notify"
  /\ woken' = [t \in Threads |-> woken[t] \/ pc[t] = "waiting"]
  /\ Goes(W, "idle")
  /\ UNCHANGED <<session, channel, buffered, send_lock_, timedout, fault>>
NotifyNobody ==
  /\ pc[W] = "notify" /\ send_lock_ = NoThread
  /\ Goes(W, "idle")
  /\ UNCHANGED <<session, channel, buffered, send_lock_, woken, timedout, fault>>

(* lock_guard and notify_all.                                              *)
Notify ==
  /\ pc[W] = "notify" /\ send_lock_ = NoThread
  /\ woken' = [t \in Threads |-> woken[t] \/ pc[t] = "waiting"]
  /\ Goes(W, "idle")
  /\ UNCHANGED <<session, channel, buffered, send_lock_, timedout, fault>>

(* The remote peer closes the channel; what is queued may be discarded.    *)
ChannelCloses ==
  /\ pc[W] = "idle" /\ channel = "open"
  /\ channel' = "closed" /\ buffered' \in {buffered, 0}
  /\ UNCHANGED <<session, send_lock_, pc, woken, timedout, fault>>

(* Control::ClosePeer, after a disconnect or at the application's request: *)
(* the entry is erased and the observer destroyed, whoever is inside it.   *)
ClosePeer ==
  /\ pc[W] = "idle" /\ session = "pOpen"
  /\ session' = "gone" /\ channel' = "closed"
  /\ fault' = IF \E t \in Threads : pc[t] \in Inside THEN "destroyed_in_use" ELSE fault
  /\ UNCHANGED <<buffered, send_lock_, pc, woken, timedout>>

-----------------------------------------------------------------------------
Invoked(t) == TestSize(t) \/ Post(t) \/ SendLocked(t) \/ Test(t)
Local(t) == Lock(t) \/ Wait(t) \/ Wake(t)
Callback == OnBufferedAmountChange \/ Notify

Next == /\ fault = "none"
        /\ \/ Drain \/ Callback \/ ChannelCloses \/ ClosePeer
           \/ \E t \in Senders : Send(t) \/ SyncSend(t) \/ Invoked(t) \/ Local(t) \/ Timeout(t)

Spec == Init /\ [][Next]_vars

(* Threads go on, and the webrtc thread serves the calls that wait for it  *)
(* in the order they came: it cannot pass over one for ever.               *)
Fairness ==
  /\ \A t \in Senders : /\ SF_vars(fault = "none" /\ Invoked(t))
                        /\ WF_vars(fault = "none" /\ Local(t))
  /\ WF_vars(fault = "none" /\ Callback)

FairSpec == Spec /\ Fairness
TimedSpec == FairSpec /\ \A t \in Senders : WF_vars(fault = "none" /\ Timeout(t))

-----------------------------------------------------------------------------
(* Properties.                                                             *)

(* No wakeup is lost: a thread that waits for an empty buffer and has not  *)
(* been notified finds the buffer full, or the webrtc thread on its way to *)
(* notify it (the lock around notify_all in OnBufferedAmountChange).       *)
NoLostWakeup ==
  \A t \in Senders :
    (pc[t] = "wait" \/ (pc[t] = "waiting" /\ ~woken[t])) /\ channel = "open" /\ buffered = 0
      => pc[W] \in {"changed", "notify"}

(* The webrtc thread waits for send_lock_, and its holder for a call on    *)
(* channel_, which the webrtc thread would have to carry out.              *)
Stuck == /\ pc[W] \in {"notify", "lock", "relock"} /\ send_lock_ \in Senders \ {W}
         /\ pc[send_lock_] \in {"send", "test"}

(* A thread that waits is woken once the buffer is empty, by the notice    *)
(* and not only by the timeout, unless the buffer fills again, the channel *)
(* closes or the threads are stuck.                                        *)
DrainWakes ==
  \A t \in Senders :
    pc[t] = "waiting" /\ buffered = 0
      ~> \/ pc[t] # "waiting" \/ buffered # 0 \/ channel = "closed"
         \/ Stuck \/ fault # "none"

(* The comment in Peer::Send: "Synchronous send returns true or false and  *)
(* a timeout is 60*1000 ms by default."  It does not return if stuck.      *)
SyncSendReturns ==
  \A t \in Senders : pc[t] = "lock" ~> pc[t] = "idle" \/ fault # "none"

-----------------------------------------------------------------------------
(* What NoLostWakeup rests on: send_lock_ is held by the thread that is    *)
(* between its acquisition and its release, and by no other.               *)
LockHeld ==
  \A t \in Threads : pc[t] \in {"send", "test", "wait"} <=> send_lock_ = t

IInv == TypeOK /\ LockHeld /\ NoLostWakeup
=============================================================================
