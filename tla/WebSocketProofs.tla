-------------------------- MODULE WebSocketProofs --------------------------
(***************************************************************************)
(* What WebSocket promises, for any number of senders and any queue: the   *)
(* handlers of a connection come as ConnectionContract says, nothing waits *)
(* for the network alone, no frame is stranded and no connection is deaf.  *)
(*                                                                         *)
(* Phased says that of the opening only the present phase has anything     *)
(* outstanding, and that what is outstanding has its timer; Calls relates  *)
(* the shutdown that is under way to the handlers called so far.           *)
(***************************************************************************)
EXTENDS WebSocket, TLAPS

OpStates == {"idle", "pending", "ok", "error", "aborted", "done"}
TimerStates == {"off", "armed", "due"}
Outstanding == {"pending", "ok", "error"}

Phased ==
  /\ m_state # "closed" =>
       \A p \in Inits \cup PostInits :
         p = m_internal_state \/ (timer[p] = "off" /\ op[p] \in {"idle", "done"})
  /\ m_state = "connecting" => m_internal_state # "process"
  /\ m_state \in {"open", "closing"} => m_internal_state = "process"
  /\ m_state = "connecting" /\ m_internal_state \in Inits => Running(m_internal_state)
  /\ m_state = "connecting" /\ m_internal_state \in {"write_request", "read_response"} =>
       Running("open_handshake")
  /\ m_state = "closing" => \E t \in Handshakes : Running(t)
  /\ \A p \in Phases : op[p] \in Outstanding => Running(p)

Calls ==
  /\ m_state = "connecting" => told = <<>> /\ op["failed"] = "idle"
  /\ m_state \in {"open", "closing"} => Heard("open") /\ ~Heard("close")
  /\ Running("failed") => /\ op["failed"] # "idle" /\ ~Heard("fail")
                          /\ told = <<>> \/ Heard("open")
  /\ Running("closed") => m_state = "closed" /\ Heard("open") /\ ~Heard("close")

IInv == TypeOK /\ Phased /\ Calls /\ NoStrandedFrame /\ NeverDeaf

USE DEF Inits, PostInits, Shutdowns, Phases, Handshakes, Timers, Running, OpStates, TimerStates,
        Outstanding

(* What has been heard after one more call.                                *)
LEMMA HeardMore ==
  ASSUME TypeOK, NEW handler \in {"open", "fail", "close"}, told' = Append(told, handler),
         NEW h
  PROVE  /\ Heard(h)' <=> Heard(h) \/ h = handler
         /\ told' # <<>>
<1>1. PICK n \in Nat : n = Len(told)
  BY DEF TypeOK
<1>2. /\ Len(told') = n + 1 /\ told'[n + 1] = handler
      /\ \A i \in 1..n : told'[i] = told[i]
  BY <1>1 DEF TypeOK
<1>3. 1..(n + 1) = (1..n) \cup {n + 1}
  OBVIOUS
<1>4. Heard(h)' <=> Heard(h) \/ h = handler
  BY <1>1, <1>2, <1>3 DEF Heard
<1>5. told' # <<>>
  BY <1>1, <1>2
<1> QED
  BY <1>4, <1>5

LEMMA HeardSame ==
  ASSUME UNCHANGED told, NEW h
  PROVE  Heard(h)' <=> Heard(h)
BY DEF Heard

LEMMA NothingHeard ==
  ASSUME told = <<>>, NEW h
  PROVE  ~Heard(h)
BY DEF Heard

(* terminate(): the connection is closed, and a shutdown under way belongs *)
(* to what has been called.                                                *)
LEMMA TerminateStep ==
  ASSUME TypeOK, Phased, Calls,
         NEW ops \in [Phases -> OpStates], NEW tms \in [Timers -> TimerStates],
         \A p \in Phases : ops[p] \in Outstanding => tms[p] # "off",
         \A p \in Shutdowns : tms[p] = timer[p] /\ ops[p] = op[p],
         Terminate(ops, tms), UNCHANGED told
  PROVE  /\ m_state' = "closed" /\ m_handshake_timer' = "null"
         /\ op' \in [Phases -> OpStates] /\ timer' \in [Timers -> TimerStates]
         /\ Phased' /\ Calls'
<1> DEFINE cms == Cancelled(tms)
<1>1. /\ cms \in [Timers -> TimerStates]
      /\ \A p \in Phases : cms[p] = tms[p]
  BY DEF Cancelled, TypeOK
<1>2. m_state' = "closed" /\ m_handshake_timer' = "null"
  BY DEF Terminate
<1> HIDE DEF cms
<1>3. CASE m_state = "closed"
  <2>1. op' = ops /\ timer' = cms
    BY <1>3 DEF Terminate, cms
  <2> QED
    BY <1>1, <1>2, <1>3, <2>1, HeardSame DEF Phased, Calls
<1>4. CASE m_state # "closed"
  <2>1. PICK tstat \in Shutdowns :
           /\ tstat = IF m_state = "connecting" THEN "failed" ELSE "closed"
           /\ op' = [ops EXCEPT ![tstat] = "pending"]
           /\ timer' = [cms EXCEPT ![tstat] = "armed"]
    BY <1>4 DEF Terminate, cms, Starts, Armed
  <2>2. m_state \in {"connecting", "open", "closing"}
    BY <1>4 DEF TypeOK
  <2> QED
    BY <1>1, <1>2, <1>4, <2>1, <2>2, HeardSame, NothingHeard DEF Phased, Calls
<1> QED
  BY <1>3, <1>4

(* The result of a phase is called back.                                   *)
LEMMA CallBackStep ==
  ASSUME TypeOK, Phased, Calls, NEW p \in Phases, NEW ok \in BOOLEAN,
         NEW x \in {"done", "aborted"}, ok => x = "done", Running(p),
         CallBack(p, ok, [op EXCEPT ![p] = x], [timer EXCEPT ![p] = "off"]),
         UNCHANGED <<reading, writer>>
  PROVE  TypeOK' /\ Phased' /\ Calls'
<1> DEFINE ops == [op EXCEPT ![p] = x]
           tms == [timer EXCEPT ![p] = "off"]
<1>1. /\ ops \in [Phases -> OpStates] /\ tms \in [Timers -> TimerStates]
      /\ \A q \in Phases : ops[q] \in Outstanding => tms[q] # "off"
      /\ ops[p] = x /\ tms[p] = "off"
      /\ \A q \in Phases \ {p} : ops[q] = op[q]
      /\ \A t \in Timers \ {p} : tms[t] = timer[t]
  BY DEF TypeOK, Phased
<1>2. CallBack(p, ok, ops, tms)
  OBVIOUS
<1> HIDE DEF ops, tms
<1>3. CASE p \in Shutdowns
  <2>1. HandleTerminate(p, ops, tms)
    BY <1>2, <1>3 DEF CallBack
  <2>2. PICK h \in {"fail", "close"} :
           /\ h = IF p = "failed" THEN "fail" ELSE "close"
           /\ told' = Append(told, h)
    BY <2>1 DEF HandleTerminate
  <2>3. /\ UNCHANGED <<stage, m_handshake_timer, writing>> /\ op' = ops /\ timer' = tms
    BY <2>1 DEF HandleTerminate
  <2>4. TypeOK' /\ Phased'
    BY <1>1, <1>3, <2>2, <2>3 DEF stage, writer, TypeOK, Phased
  <2>5. /\ Heard("open")' <=> Heard("open")
        /\ Heard("fail")' <=> Heard("fail") \/ p = "failed"
        /\ Heard("close")' <=> Heard("close") \/ p = "closed"
    BY <1>3, <2>2, HeardMore
  <2>6. Calls'
    BY <1>1, <1>3, <2>3, <2>5, NothingHeard DEF Calls, stage
  <2> QED
    BY <2>4, <2>6
<1>4. CASE p \notin Shutdowns /\ ~Proceeds(p, ok)
  <2>1. Terminate(ops, tms) /\ UNCHANGED <<m_internal_state, told, writing>>
    BY <1>2, <1>4 DEF CallBack
  <2>2. \A q \in Shutdowns : tms[q] = timer[q] /\ ops[q] = op[q]
    BY <1>1, <1>4
  <2> QED
    BY <1>1, <2>1, <2>2, TerminateStep DEF TypeOK, writer
<1>5. m_state # "closed" /\ p \notin Shutdowns =>
         m_state = "connecting" /\ m_internal_state = p
  BY DEF Phased, TypeOK
<1>6. ASSUME NEW q \in Inits, Begin(q, ops, tms), UNCHANGED told, p \in Inits, q # p, ok
      PROVE  TypeOK' /\ Phased' /\ Calls'
  BY <1>1, <1>5, <1>6, HeardSame DEF Begin, Starts, Armed, TypeOK, Phased, Calls, writer
<1>7. ASSUME NEW ops2, NEW tms2, Terminate(ops2, tms2), m_internal_state' = "post_init",
             ops2 = Starts(Starts(ops, "post_init"), "post_init_again"),
             tms2 = Armed(Armed(tms, "post_init"), "post_init_again"),
             UNCHANGED <<told, writing>>, p = "connect"
      PROVE  TypeOK' /\ Phased' /\ Calls'
  <2>1. /\ ops2 \in [Phases -> OpStates] /\ tms2 \in [Timers -> TimerStates]
        /\ \A q \in Phases : ops2[q] \in Outstanding => tms2[q] # "off"
        /\ \A q \in Shutdowns : tms2[q] = timer[q] /\ ops2[q] = op[q]
    BY <1>1, <1>7 DEF Starts, Armed
  <2> QED
    BY <1>7, <2>1, TerminateStep DEF TypeOK, writer
<1>8. CASE p = "resolve" /\ Proceeds(p, ok)
  BY <1>2, <1>6, <1>8 DEF CallBack, Proceeds
<1>9. CASE p = "connect" /\ Proceeds(p, ok)
  BY <1>2, <1>6, <1>7, <1>9 DEF CallBack, Start, Proceeds
<1>10. CASE p \in PostInits /\ Proceeds(p, ok)
  <2>1. SendHttpRequest(ops, tms) /\ UNCHANGED told
    BY <1>2, <1>10 DEF CallBack
  <2>2. /\ m_internal_state' = "write_request" /\ m_handshake_timer' = "open_handshake"
        /\ op' = ops /\ timer' = [tms EXCEPT !["open_handshake"] = "armed"]
        /\ writing' = "pending" /\ UNCHANGED <<m_state, told>>
    BY <2>1 DEF SendHttpRequest, Armed
  <2>3. TypeOK'
    BY <1>1, <2>2 DEF TypeOK, writer
  <2>4. Phased'
    <3>1. \A q \in Phases : timer'[q] = tms[q] /\ op'[q] = ops[q]
      BY <1>1, <2>2
    <3>2. timer'["open_handshake"] = "armed"
      BY <1>1, <2>2
    <3>3. CASE m_state = "closed"
      BY <1>1, <2>2, <3>1, <3>3 DEF Phased
    <3>4. CASE m_state # "closed"
      BY <1>1, <1>5, <1>10, <2>2, <3>1, <3>2, <3>4 DEF Phased, Proceeds
    <3> QED
      BY <3>3, <3>4
  <2>5. Calls'
    BY <1>1, <1>10, <2>2, HeardSame DEF Calls
  <2> QED
    BY <2>3, <2>4, <2>5
<1> QED
  BY <1>3, <1>4, <1>8, <1>9, <1>10

(* The handlers of the operations and of their timers.                     *)
LEMMA PhaseStep ==
  ASSUME TypeOK, Phased, Calls, NEW p \in Phases, Handle(p) \/ HandleTimeout(p)
  PROVE  TypeOK' /\ Phased' /\ Calls'
<1>1. CASE Handle(p) /\ (op[p] = "aborted" \/ timer[p] = "due")
  BY <1>1, HeardSame DEF Handle, TypeOK, Phased, Calls, stage, writer
<1>2. CASE Handle(p) /\ ~(op[p] = "aborted" \/ timer[p] = "due")
  <2>1. /\ CallBack(p, op[p] = "ok", [op EXCEPT ![p] = "done"], [timer EXCEPT ![p] = "off"])
        /\ UNCHANGED <<reading, writer>> /\ op[p] \in Outstanding
    BY <1>2 DEF Handle
  <2>2. Running(p) /\ (op[p] = "ok") \in BOOLEAN
    BY <2>1 DEF Phased
  <2> QED
    BY <2>1, <2>2, CallBackStep
<1>3. CASE HandleTimeout(p)
  <2> DEFINE x == IF op[p] = "done" THEN "done" ELSE "aborted"
  <2>1. /\ CallBack(p, FALSE, [op EXCEPT ![p] = x], [timer EXCEPT ![p] = "off"])
        /\ UNCHANGED <<reading, writer>> /\ Running(p) /\ x \in {"done", "aborted"}
    BY <1>3 DEF HandleTimeout, TypeOK
  <2> HIDE DEF x
  <2> QED
    BY <2>1, CallBackStep
<1> QED
  BY <1>1, <1>2, <1>3

(* send_close_frame: the answer is waited for with a timer.                *)
LEMMA SendCloseFrameStep ==
  ASSUME TypeOK, Phased, Calls, NEW frame \in {"frame", "fatal"},
         m_state \in {"open", "closing"}, SendCloseFrame(frame),
         UNCHANGED <<m_internal_state, told>>
  PROVE  /\ m_state' = "closing" /\ m_handshake_timer' \in Handshakes
         /\ op' \in [Phases -> OpStates] /\ timer' \in [Timers -> TimerStates]
         /\ m_send_queue' \in Seq({"frame", "fatal"}) /\ posted' \in Nat
         /\ Phased' /\ Calls'
<1> DEFINE t == IF timer["close_handshake"] = "off" THEN "close_handshake" ELSE "close_again"
<1>1. /\ t \in Handshakes /\ t \notin Phases
      /\ m_state' = "closing" /\ m_handshake_timer' = t
      /\ timer' = [timer EXCEPT ![t] = "armed"] /\ op' = op
      /\ m_send_queue' \in Seq({"frame", "fatal"}) /\ posted' \in Nat
  BY DEF SendCloseFrame, Armed, Push, TypeOK
<1> HIDE DEF t
<1> QED
  BY <1>1, HeardSame DEF TypeOK, Phased, Calls

(* The answer of the server to the request, and the timeouts of the        *)
(* handshakes.                                                             *)
LEMMA HandshakeStep ==
  ASSUME TypeOK, Phased, Calls,
         \/ \E t \in Handshakes : HandshakeTimeout(t)
         \/ HandleSendHttpRequest \/ RefuseResponse \/ ReadMore \/ Accept
  PROVE  TypeOK' /\ Phased' /\ Calls'
<1>1. ASSUME NEW tms \in [Timers -> TimerStates], \A p \in Phases : tms[p] = timer[p],
             Terminate(op, tms), UNCHANGED <<m_internal_state, told>>
      PROVE  /\ m_state' = "closed" /\ m_handshake_timer' = "null"
             /\ op' \in [Phases -> OpStates] /\ timer' \in [Timers -> TimerStates]
             /\ Phased' /\ Calls'
  <2>1. /\ op \in [Phases -> OpStates]
        /\ \A p \in Phases : op[p] \in Outstanding => tms[p] # "off"
        /\ \A p \in Shutdowns : tms[p] = timer[p] /\ op[p] = op[p]
    BY <1>1 DEF TypeOK, Phased
  <2> QED
    BY <1>1, <2>1, TerminateStep
<1>2. timer \in [Timers -> TimerStates]
  BY DEF TypeOK
<1>3. ASSUME NEW t \in Handshakes, HandshakeTimeout(t)
      PROVE  TypeOK' /\ Phased' /\ Calls'
  <2>1. /\ [timer EXCEPT ![t] = "off"] \in [Timers -> TimerStates]
        /\ \A p \in Phases : [timer EXCEPT ![t] = "off"][p] = timer[p]
    BY <1>2
  <2> QED
    BY <1>1, <1>3, <2>1 DEF HandshakeTimeout, TypeOK, writer
<1>4. CASE HandleSendHttpRequest
  <2>1. CASE Terminate(op, timer) /\ UNCHANGED <<m_internal_state, reading>>
    BY <1>1, <1>2, <1>4, <2>1 DEF HandleSendHttpRequest, TypeOK, writer
  <2>2. CASE /\ m_state = "connecting" /\ m_internal_state' = "read_response"
             /\ reading' = "pending" /\ UNCHANGED <<m_state, transport>>
    BY <1>4, <2>2, HeardSame DEF HandleSendHttpRequest, TypeOK, Phased, Calls, writer, transport
  <2>3. CASE UNCHANGED <<stage, transport, reading>>
    BY <1>4, <2>3, HeardSame DEF HandleSendHttpRequest, TypeOK, Phased, Calls, writer, transport, stage
  <2> QED
    BY <1>4, <2>1, <2>2, <2>3 DEF HandleSendHttpRequest
<1>5. CASE RefuseResponse
  <2>1. CASE Terminate(op, timer)
    BY <1>1, <1>2, <1>5, <2>1 DEF RefuseResponse, TypeOK, writer
  <2>2. CASE UNCHANGED <<m_state, transport>>
    BY <1>5, <2>2, HeardSame DEF RefuseResponse, TypeOK, Phased, Calls, writer, transport
  <2> QED
    BY <1>5, <2>1, <2>2 DEF RefuseResponse
<1>6. CASE ReadMore
  BY <1>6, HeardSame DEF ReadMore, TypeOK, Phased, Calls, stage, transport, writer
<1>7. CASE Accept
  <2> DEFINE cms == Cancelled(timer)
  <2>1. cms \in [Timers -> TimerStates] /\ \A p \in Phases : cms[p] = timer[p]
    BY DEF Cancelled, TypeOK
  <2>2. \/ op' = op /\ timer' = cms
        \/ op' = [op EXCEPT !["failed"] = "pending"] /\ timer' = [cms EXCEPT !["failed"] = "armed"]
    BY <1>7 DEF Accept, Starts, Armed
  <2>3. /\ m_state = "connecting" /\ m_state' = "open" /\ m_internal_state' = "process"
        /\ told' = Append(told, "open") /\ m_internal_state = "read_response"
    BY <1>7 DEF Accept, ReadsResponse
  <2> HIDE DEF cms
  <2>4. TypeOK'
    <3>1. op' \in [Phases -> OpStates] /\ timer' \in [Timers -> TimerStates]
      BY <2>1, <2>2 DEF TypeOK
    <3>2. m_send_queue' \in Seq({"frame", "fatal"}) /\ posted' \in Nat
      BY <1>7 DEF Accept, Push, TypeOK
    <3>3. told' \in Seq({"open", "fail", "close"})
      BY <2>3 DEF TypeOK
    <3> QED
      BY <1>7, <3>1, <3>2, <3>3 DEF Accept, TypeOK
  <2>5. Phased'
    BY <2>1, <2>2, <2>3 DEF Phased, TypeOK
  <2>6. told = <<>> /\ op["failed"] = "idle" /\ ~Running("failed") /\ ~Running("closed")
    BY <2>3 DEF Calls
  <2>7. Heard("open")' /\ ~Heard("fail")' /\ ~Heard("close")'
    BY <2>3, <2>6, HeardMore, NothingHeard
  <2>8. Calls'
    BY <2>1, <2>2, <2>3, <2>6, <2>7 DEF Calls, TypeOK
  <2> QED
    BY <2>4, <2>5, <2>8
<1> QED
  BY <1>3, <1>4, <1>5, <1>6, <1>7

(* Frames that come, and Close.                                            *)
LEMMA ReadStep ==
  ASSUME TypeOK, Phased, Calls,
         ReadFrame \/ ReadPing \/ ReadClose \/ ReadGarbage \/ ReadEnd \/ Close
  PROVE  TypeOK' /\ Phased' /\ Calls'
<1>1. ASSUME Terminate(op, timer), UNCHANGED <<m_internal_state, told, writing, writer>>,
             reading' = "none"
      PROVE  TypeOK' /\ Phased' /\ Calls'
  <2>1. /\ op \in [Phases -> OpStates] /\ timer \in [Timers -> TimerStates]
        /\ \A p \in Phases : op[p] \in Outstanding => timer[p] # "off"
    BY DEF TypeOK, Phased
  <2> QED
    BY <1>1, <2>1, TerminateStep DEF TypeOK, writer
<1>2. ASSUME NEW frame \in {"frame", "fatal"}, m_state \in {"open", "closing"},
             SendCloseFrame(frame), UNCHANGED <<m_internal_state, writing, told>>,
             reading' \in {"none", "pending", reading}
      PROVE  TypeOK' /\ Phased' /\ Calls'
  BY <1>2, SendCloseFrameStep DEF SendCloseFrame, TypeOK
<1>3. CASE ReadFrame
  BY <1>3, HeardSame DEF ReadFrame, TypeOK, Phased, Calls, stage, transport, writer
<1>4. CASE ReadPing
  BY <1>4, HeardSame DEF ReadPing, Push, TypeOK, Phased, Calls, stage, transport
<1>5. CASE ReadClose
  BY <1>2, <1>5 DEF ReadClose
<1>6. CASE ReadGarbage
  BY <1>1, <1>2, <1>6 DEF ReadGarbage
<1>7. CASE ReadEnd
  <2>1. CASE Terminate(op, timer)
    BY <1>1, <1>7, <2>1 DEF ReadEnd
  <2>2. CASE UNCHANGED <<m_state, transport>>
    BY <1>7, <2>2, HeardSame DEF ReadEnd, TypeOK, Phased, Calls, transport, writer
  <2> QED
    BY <1>7, <2>1, <2>2 DEF ReadEnd
<1>8. CASE Close
  BY <1>2, <1>8 DEF Close
<1> QED
  BY <1>3, <1>4, <1>5, <1>6, <1>7, <1>8

(* Frames that are sent.                                                   *)
LEMMA WriteStep ==
  ASSUME TypeOK, Phased, Calls,
         WriteFrame \/ HandleWriteFrame \/ \E s \in Senders : Sends(s)
  PROVE  TypeOK' /\ Phased' /\ Calls'
<1>1. ASSUME UNCHANGED <<stage, transport, told>>
      PROVE  Phased' /\ Calls'
  BY <1>1, HeardSame DEF Phased, Calls, stage, transport
<1>2. CASE WriteFrame
  <2>1. m_send_queue' \in Seq({"frame", "fatal"})
    <3>1. ASSUME NEW i \in Fatals
          PROVE  SubSeq(m_send_queue, i + 1, Len(m_send_queue)) \in Seq({"frame", "fatal"})
      BY DEF TypeOK, Fatals
    <3>2. \/ m_send_queue' = m_send_queue \/ m_send_queue' = <<>>
          \/ \E i \in Fatals : m_send_queue' = SubSeq(m_send_queue, i + 1, Len(m_send_queue))
      <4>1. CASE m_write_flag \/ m_send_queue = <<>>
        BY <1>2, <4>1 DEF WriteFrame
      <4>2. CASE ~(m_write_flag \/ m_send_queue = <<>>) /\ Fatals = {}
        BY <1>2, <4>2 DEF WriteFrame
      <4>3. CASE ~(m_write_flag \/ m_send_queue = <<>>) /\ Fatals # {}
        BY <1>2, <4>3 DEF WriteFrame
      <4> QED
        BY <4>1, <4>2, <4>3
    <3>3. m_send_queue \in Seq({"frame", "fatal"}) /\ <<>> \in Seq({"frame", "fatal"})
      BY DEF TypeOK
    <3> QED
      BY <3>1, <3>2, <3>3
  <2>2. posted' \in Nat
    BY <1>2 DEF WriteFrame, TypeOK
  <2>3. terminal' \in BOOLEAN /\ m_write_flag' \in BOOLEAN
    BY <1>2 DEF WriteFrame, TypeOK
  <2>4. writing' \in {"none", "pending", "ok", "error"}
    BY <1>2 DEF WriteFrame, TypeOK
  <2>5. UNCHANGED <<stage, transport, reading, pc, told>>
    BY <1>2 DEF WriteFrame
  <2>6. TypeOK'
    BY <2>1, <2>2, <2>3, <2>4, <2>5 DEF TypeOK, stage, transport
  <2> QED
    BY <1>1, <2>5, <2>6
<1>3. CASE HandleWriteFrame
  <2>1. /\ writing' = "none" /\ UNCHANGED <<reading, m_send_queue, terminal, pc, told>>
        /\ \/ /\ m_write_flag' = FALSE
              /\ posted' = IF m_send_queue = <<>> THEN posted ELSE posted + 1
              /\ UNCHANGED <<stage, transport>>
           \/ Terminate(op, timer) /\ UNCHANGED <<m_internal_state, m_write_flag, posted>>
    BY <1>3 DEF HandleWriteFrame
  <2>2. CASE Terminate(op, timer) /\ UNCHANGED <<m_internal_state, m_write_flag, posted>>
    <3>1. /\ op \in [Phases -> OpStates] /\ timer \in [Timers -> TimerStates]
          /\ \A p \in Phases : op[p] \in Outstanding => timer[p] # "off"
      BY DEF TypeOK, Phased
    <3> QED
      BY <2>1, <2>2, <3>1, TerminateStep DEF TypeOK
  <2>3. CASE /\ m_write_flag' = FALSE
             /\ posted' = IF m_send_queue = <<>> THEN posted ELSE posted + 1
             /\ UNCHANGED <<stage, transport>>
    <3>1. m_write_flag' \in BOOLEAN
      BY <2>3
    <3>2. posted \in Nat /\ posted' = IF m_send_queue = <<>> THEN posted ELSE posted + 1
      BY <2>3 DEF TypeOK
    <3>3. posted' \in Nat
      BY <3>2
    <3>4. TypeOK'
      BY <2>1, <2>3, <3>1, <3>3 DEF TypeOK, stage, transport
    <3>5. UNCHANGED <<stage, transport, told>>
      BY <2>1, <2>3 DEF stage, transport
    <3> QED
      BY <1>1, <3>4, <3>5
  <2> QED
    BY <2>1, <2>2, <2>3
<1>4. ASSUME NEW s \in Senders, Sends(s)
      PROVE  TypeOK' /\ Phased' /\ Calls'
  <2>1. CASE Send(s)
    BY <1>1, <2>1 DEF Send, TypeOK, stage, transport
  <2>2. CASE SendPush(s)
    <3>1. m_send_queue' \in Seq({"frame", "fatal"})
      BY <2>2 DEF SendPush, TypeOK
    <3>2. pc' \in [Senders -> {"idle", "push", "dispatch"}]
      BY <2>2 DEF SendPush, TypeOK
    <3> QED
      BY <1>1, <2>2, <3>1, <3>2 DEF SendPush, TypeOK, stage, transport
  <2>3. CASE SendDispatch(s)
    BY <1>1, <2>3 DEF SendDispatch, TypeOK, stage, transport
  <2> QED
    BY <1>4, <2>1, <2>2, <2>3 DEF Sends
<1> QED
  BY <1>2, <1>3, <1>4

(* The network and the clock.                                              *)
LEMMA EnvironmentStep ==
  ASSUME TypeOK, Phased, Calls, Environment
  PROVE  TypeOK' /\ Phased' /\ Calls'
<1>1. ASSUME NEW p \in Phases, Complete(p)
      PROVE  TypeOK' /\ Phased' /\ Calls'
  BY <1>1, HeardSame DEF Complete, TypeOK, Phased, Calls, stage, writer
<1>2. ASSUME NEW t \in Timers, Tick(t)
      PROVE  TypeOK' /\ Phased' /\ Calls'
  BY <1>2, HeardSame DEF Tick, TypeOK, Phased, Calls, stage, writer
<1>3. CASE Arrive
  BY <1>3, HeardSame DEF Arrive, TypeOK, Phased, Calls, stage, transport, writer
<1>4. CASE Written
  BY <1>4, HeardSame DEF Written, TypeOK, Phased, Calls, stage, transport, writer
<1>5. CASE End
  BY <1>5, HeardSame DEF End, Ended, TypeOK, Phased, Calls, stage, transport, writer
<1> QED
  BY <1>1, <1>2, <1>3, <1>4, <1>5 DEF Environment

-----------------------------------------------------------------------------
(* Frames that are queued.                                                 *)

(* terminate() and send_close_frame, as far as the reader and the writer   *)
(* see them.                                                               *)
LEMMA TerminateCloses ==
  ASSUME NEW ops, NEW tms, Terminate(ops, tms)
  PROVE  m_state' = "closed"
BY DEF Terminate

LEMMA CallBackQuiet ==
  ASSUME NEW p \in Phases, NEW ok \in BOOLEAN, NEW ops, NEW tms, CallBack(p, ok, ops, tms)
  PROVE  m_state' \in {m_state, "closed"}
<1>1. CASE p \in Shutdowns
  BY <1>1 DEF CallBack, HandleTerminate, stage
<1>2. CASE p \notin Shutdowns /\ ~Proceeds(p, ok)
  BY <1>2, TerminateCloses DEF CallBack
<1>3. CASE p \notin Shutdowns /\ Proceeds(p, ok)
  BY <1>3, TerminateCloses DEF CallBack, Begin, Start, SendHttpRequest
<1> QED
  BY <1>1, <1>2, <1>3

(* A read is outstanding after the step if one was before.                 *)
Listens == UNCHANGED reading \/ reading' # "none"

(* The actions that leave the writer alone.                                *)
LEMMA QuietStep ==
  ASSUME TypeOK,
         \/ \E p \in Phases : Handle(p) \/ HandleTimeout(p)
         \/ \E t \in Handshakes : HandshakeTimeout(t)
         \/ HandleSendHttpRequest \/ RefuseResponse \/ ReadMore
         \/ ReadFrame \/ ReadEnd \/ Environment
  PROVE  /\ UNCHANGED writer
         /\ m_state' = "closed" \/ (UNCHANGED m_state /\ Listens)
<1> USE TerminateCloses DEF Listens
<1>1. ASSUME NEW p \in Phases, Handle(p)
      PROVE  UNCHANGED <<reading, writer>> /\ m_state' \in {m_state, "closed"}
  <2>1. CASE op[p] = "aborted" \/ timer[p] = "due"
    BY <1>1, <2>1 DEF Handle, stage
  <2>2. CASE ~(op[p] = "aborted" \/ timer[p] = "due")
    BY <1>1, <2>2, CallBackQuiet DEF Handle
  <2> QED
    BY <2>1, <2>2
<1>2. ASSUME NEW p \in Phases, HandleTimeout(p)
      PROVE  UNCHANGED <<reading, writer>> /\ m_state' \in {m_state, "closed"}
  BY <1>2, CallBackQuiet DEF HandleTimeout
<1>3. ASSUME NEW t \in Handshakes, HandshakeTimeout(t)
      PROVE  UNCHANGED writer /\ m_state' = "closed"
  BY <1>3 DEF HandshakeTimeout
<1>4. CASE HandleSendHttpRequest
  BY <1>4 DEF HandleSendHttpRequest, stage
<1>5. CASE RefuseResponse
  BY <1>5 DEF RefuseResponse, IgnoredWhenClosed
<1>6. CASE ReadMore \/ ReadFrame
  BY <1>6 DEF ReadMore, ReadFrame, stage
<1>7. CASE ReadEnd
  BY <1>7 DEF ReadEnd
<1>8. CASE Environment
  BY <1>8 DEF Environment, Complete, Tick, Arrive, Written, End, Ended, Responses, Frames, Ends, stage
<1> QED
  BY <1>1, <1>2, <1>3, <1>4, <1>5, <1>6, <1>7, <1>8

(* A frame is queued behind those that are.                                *)
LEMMA FatalsGrow ==
  ASSUME TypeOK, NEW frame \in {"frame", "fatal"}, m_send_queue' = Append(m_send_queue, frame)
  PROVE  /\ m_send_queue' # <<>>
         /\ Fatals # {} => Fatals' # {}
         /\ frame = "fatal" => Fatals' # {}
<1>1. m_send_queue \in Seq({"frame", "fatal"})
  BY DEF TypeOK
<1> QED
  BY <1>1 DEF Fatals

LEMMA PushStep ==
  ASSUME TypeOK, NoStrandedFrame, NeverDeaf,
         Accept \/ ReadPing \/ ReadClose \/ ReadGarbage \/ Close
  PROVE  NoStrandedFrame' /\ NeverDeaf'
<1> USE DEF SendCloseFrame
<1>1. ASSUME NEW frame \in {"frame", "fatal"}, Push(frame), UNCHANGED <<m_write_flag, terminal, pc>>,
             \/ reading' # "none" \/ frame = "fatal" \/ (UNCHANGED reading /\ m_state = "open")
      PROVE  NoStrandedFrame' /\ NeverDeaf'
  <2>1. m_send_queue' = Append(m_send_queue, frame)
    BY <1>1 DEF Push
  <2>2. ~m_write_flag => posted' = posted + 1
    BY <1>1 DEF Push
  <2>3. posted \in Nat
    BY DEF TypeOK
  <2>4. NoStrandedFrame'
    <3>1. CASE m_write_flag
      BY <1>1, <3>1 DEF NoStrandedFrame
    <3>2. CASE ~m_write_flag
      <4>1. posted' > 0
        BY <2>2, <2>3, <3>2
      <4> QED
        BY <4>1 DEF NoStrandedFrame
    <3> QED
      BY <3>1, <3>2
  <2>5. NeverDeaf'
    BY <1>1, <2>1, FatalsGrow DEF NeverDeaf
  <2> QED
    BY <2>4, <2>5
<1>2. CASE Accept \/ ReadPing
  BY <1>1, <1>2 DEF Accept, ReadPing
<1>3. CASE ReadClose
  BY <1>1, <1>3 DEF ReadClose
<1>4. CASE ReadGarbage
  <2>1. CASE m_state = "open"
    BY <1>1, <1>4, <2>1 DEF ReadGarbage
  <2>2. CASE m_state # "open"
    <3>1. UNCHANGED writer /\ m_state' = "closed"
      BY <1>4, <2>2, TerminateCloses DEF ReadGarbage
    <3> QED
      BY <3>1 DEF writer, NoStrandedFrame, NeverDeaf
  <2> QED
    BY <2>1, <2>2
<1>5. CASE Close
  BY <1>1, <1>5 DEF Close
<1> QED
  BY <1>2, <1>3, <1>4, <1>5

(* The writer: write_frame takes all up to a terminal frame, and the       *)
(* handler of the write starts the next one.                               *)
LEMMA WriterStep ==
  ASSUME TypeOK, NoStrandedFrame, NeverDeaf,
         WriteFrame \/ HandleWriteFrame \/ \E s \in Senders : Sends(s)
  PROVE  NoStrandedFrame' /\ NeverDeaf'
<1>1. CASE WriteFrame
  <2>1. CASE m_write_flag
    BY <1>1, <2>1 DEF WriteFrame, NoStrandedFrame, NeverDeaf, Fatals, stage
  <2>2. CASE ~m_write_flag /\ m_send_queue = <<>>
    BY <1>1, <2>2 DEF WriteFrame, NoStrandedFrame, NeverDeaf, Fatals, stage
  <2>3. CASE ~m_write_flag /\ m_send_queue # <<>>
    <3>1. m_write_flag' /\ (Fatals # {} => terminal') /\ UNCHANGED <<m_state, reading>>
      BY <1>1, <2>3 DEF WriteFrame, stage
    <3> QED
      BY <2>3, <3>1 DEF NoStrandedFrame, NeverDeaf
  <2> QED
    BY <2>1, <2>2, <2>3
<1>2. CASE HandleWriteFrame
  <2>1. CASE Terminate(op, timer) /\ UNCHANGED <<m_internal_state, m_write_flag, posted>>
    BY <1>2, <2>1, TerminateCloses DEF HandleWriteFrame, NoStrandedFrame, NeverDeaf
  <2>2. CASE /\ writing = "ok" /\ ~terminal
             /\ m_write_flag' = FALSE
             /\ posted' = IF m_send_queue = <<>> THEN posted ELSE posted + 1
             /\ UNCHANGED <<stage, transport>>
    <3>1. UNCHANGED <<m_state, reading, m_send_queue, pc>>
      BY <1>2, <2>2 DEF HandleWriteFrame, stage
    <3>2. posted \in Nat
      BY DEF TypeOK
    <3>3. m_send_queue # <<>> => posted' > 0
      BY <2>2, <3>2
    <3> QED
      BY <2>2, <3>1, <3>3 DEF NoStrandedFrame, NeverDeaf, Fatals
  <2> QED
    BY <1>2, <2>1, <2>2 DEF HandleWriteFrame
<1>3. ASSUME NEW s \in Senders, Sends(s)
      PROVE  NoStrandedFrame' /\ NeverDeaf'
  <2>1. CASE Send(s)
    BY <1>3, <2>1 DEF Send, NoStrandedFrame, NeverDeaf, Fatals, stage, TypeOK
  <2>2. CASE SendPush(s)
    <3>1. /\ m_send_queue' = Append(m_send_queue, "frame")
          /\ UNCHANGED <<m_state, reading, m_write_flag, terminal>>
      BY <2>2 DEF SendPush, stage
    <3>2. ~m_write_flag => pc'[s] = "dispatch"
      BY <2>2 DEF SendPush, TypeOK
    <3> QED
      BY <3>1, <3>2, FatalsGrow DEF NoStrandedFrame, NeverDeaf
  <2>3. CASE SendDispatch(s)
    <3>1. posted' > 0
      BY <2>3 DEF SendDispatch, TypeOK
    <3>2. UNCHANGED <<m_state, reading, m_send_queue, m_write_flag, terminal>>
      BY <2>3 DEF SendDispatch, stage
    <3> QED
      BY <3>1, <3>2 DEF NoStrandedFrame, NeverDeaf, Fatals
  <2> QED
    BY <1>3, <2>1, <2>2, <2>3 DEF Sends
<1> QED
  BY <1>1, <1>2, <1>3

-----------------------------------------------------------------------------
(* The invariant.                                                          *)

LEMMA NextActions ==
  ASSUME Next
  PROVE  \/ \E p \in Phases : Handle(p) \/ HandleTimeout(p)
         \/ \E t \in Handshakes : HandshakeTimeout(t)
         \/ HandleSendHttpRequest \/ RefuseResponse \/ ReadMore \/ Accept
         \/ ReadFrame \/ ReadPing \/ ReadClose \/ ReadGarbage \/ ReadEnd \/ Close
         \/ WriteFrame \/ HandleWriteFrame \/ \E s \in Senders : Sends(s)
         \/ Environment
BY DEF Next, Handlers, HandleResolve, HandleConnect, HandlePostInit, HandleAsyncShutdown,
       HandleResolveTimeout, HandleConnectTimeout, HandlePostInitTimeout,
       HandleAsyncShutdownTimeout

LEMMA QuietKeeps ==
  ASSUME NoStrandedFrame, NeverDeaf, UNCHANGED writer,
         m_state' = "closed" \/ (UNCHANGED m_state /\ Listens)
  PROVE  NoStrandedFrame' /\ NeverDeaf'
BY DEF NoStrandedFrame, NeverDeaf, Fatals, Listens, writer

(* The five parts of the invariant hold in every state.                    *)
THEOREM Invariance == Spec => []IInv
<1>1. Init => IInv
  <2> SUFFICES ASSUME Init PROVE IInv
    OBVIOUS
  <2>1. TypeOK
    <3>1. m_write_flag \in BOOLEAN /\ terminal \in BOOLEAN
      BY DEF Init
    <3>2. m_send_queue \in Seq({"frame", "fatal"}) /\ told \in Seq({"open", "fail", "close"})
      BY DEF Init
    <3>3. pc \in [Senders -> {"idle", "push", "dispatch"}] /\ posted \in Nat
      BY DEF Init
    <3>4. op \in [Phases -> OpStates] /\ timer \in [Timers -> TimerStates]
      BY DEF Init
    <3> QED
      BY <3>1, <3>2, <3>3, <3>4 DEF Init, TypeOK
  <2>2. Phased /\ Calls /\ NoStrandedFrame /\ NeverDeaf
    BY DEF Init, Phased, Calls, NoStrandedFrame, NeverDeaf
  <2> QED
    BY <2>1, <2>2 DEF IInv
<1>2. IInv /\ [Next]_vars => IInv'
  <2> SUFFICES ASSUME TypeOK, Phased, Calls, NoStrandedFrame, NeverDeaf, [Next]_vars
               PROVE  IInv'
    BY DEF IInv
  <2>1. CASE Next
    <3>1. TypeOK' /\ Phased' /\ Calls'
      BY <2>1, NextActions, PhaseStep, HandshakeStep, ReadStep, WriteStep, EnvironmentStep
    <3>2. NoStrandedFrame' /\ NeverDeaf'
      BY <2>1, NextActions, QuietStep, QuietKeeps, PushStep, WriterStep
    <3> QED
      BY <3>1, <3>2 DEF IInv
  <2>2. CASE UNCHANGED vars
    <3>1. TypeOK' /\ Phased' /\ NoStrandedFrame' /\ NeverDeaf'
      BY <2>2 DEF vars, stage, transport, writer, TypeOK, Phased, NoStrandedFrame, NeverDeaf, Fatals
    <3>2. Calls'
      BY <2>2, HeardSame DEF vars, stage, transport, Calls
    <3> QED
      BY <3>1, <3>2 DEF IInv
  <2> QED
    BY <2>1, <2>2
<1> QED
  BY <1>1, <1>2, PTL DEF Spec

(* The connection's members keep their types.                              *)
THEOREM TypeCorrect == Spec => []TypeOK
BY Invariance, PTL DEF IInv

(* Nothing waits for the network alone: what is outstanding, an attempt    *)
(* and a closing handshake have a timer that will call back.               *)
THEOREM AlwaysGuarded == Spec => []Guarded
<1>1. IInv => Guarded
  BY DEF IInv, TypeOK, Phased, Guarded
<1> QED
  BY <1>1, Invariance, PTL

(* No queued frame is left to the next sender: send() and                  *)
(* handle_write_frame do not both leave write_frame to the other.          *)
THEOREM FramesAreWritten == Spec => []NoStrandedFrame
BY Invariance, PTL DEF IInv

(* A connection that is open or closing listens or is about to terminate.  *)
THEOREM AlwaysListening == Spec => []NeverDeaf
BY Invariance, PTL DEF IInv

(* OnOpen, OnFail and OnClose are called as ConnectionContract allows:     *)
(* one report of the attempt and at most one close after an open, whatever *)
(* timers race whatever operations; and OnFail after OnOpen, once, only of *)
(* a connection that terminate() had been called for when it was opened.   *)
THEOREM HandlersImplementContract == Spec => ImplementsContract
<1> DEFINE failed == op["failed"] # "idle"
           botched == Heard("open") /\ failed
<1>1. Init => Contract!Init
  BY NothingHeard DEF Init, Contract!Init
<1>2. IInv /\ [Next]_vars => [Contract!Next]_<<told, botched>>
  <2> SUFFICES ASSUME TypeOK, Phased, Calls, [Next]_vars
               PROVE  [Contract!Next]_<<told, botched>>
    BY DEF IInv
  <2>1. ASSUME UNCHANGED told, \/ failed' = failed \/ told = <<>>
        PROVE  [Contract!Next]_<<told, botched>>
    BY <2>1, HeardSame, NothingHeard
  <2>2. ASSUME NEW ops, NEW tms, Terminate(ops, tms), UNCHANGED told,
               ops \in [Phases -> OpStates], (ops["failed"] # "idle") = failed
        PROVE  [Contract!Next]_<<told, botched>>
    <3>1. CASE m_state = "connecting"
      BY <2>1, <2>2, <3>1 DEF Calls
    <3>2. CASE m_state # "connecting"
      BY <2>1, <2>2, <3>2 DEF Terminate, Starts
    <3> QED
      BY <3>1, <3>2
  <2>3. ASSUME NEW p \in Phases, NEW ok \in BOOLEAN, NEW ops \in [Phases -> OpStates], NEW tms,
               Running(p), (ops["failed"] # "idle") = failed, CallBack(p, ok, ops, tms)
        PROVE  [Contract!Next]_<<told, botched>>
    <3>1. CASE p = "failed"
      <4>1. told' = Append(told, "fail") /\ op' = ops
        BY <2>3, <3>1 DEF CallBack, HandleTerminate
      <4>2. /\ failed /\ failed' /\ ~Heard("fail") /\ (told = <<>> \/ Heard("open"))
        BY <2>3, <3>1, <4>1 DEF Calls
      <4>3. Heard("open")' <=> Heard("open")
        BY <4>1, HeardMore
      <4>4. Contract!Fails
        BY <4>1, <4>2, <4>3 DEF Contract!Fails, Contract!Heard, Heard
      <4> QED
        BY <4>4 DEF Contract!Next
    <3>2. CASE p = "closed"
      <4>1. told' = Append(told, "close") /\ op' = ops
        BY <2>3, <3>2 DEF CallBack, HandleTerminate
      <4>2. Heard("open") /\ ~Heard("close")
        BY <2>3, <3>2 DEF Calls
      <4>3. Heard("open")'
        BY <4>1, <4>2, HeardMore
      <4>4. Contract!Closes
        BY <2>3, <4>1, <4>2, <4>3 DEF Contract!Closes, Contract!Heard, Heard
      <4> QED
        BY <4>4 DEF Contract!Next
    <3>3. CASE p \notin Shutdowns
      <4>1. CASE Terminate(ops, tms) /\ UNCHANGED told
        BY <2>2, <2>3, <4>1
      <4>2. CASE \E q \in Inits : Begin(q, ops, tms) /\ UNCHANGED told
        BY <2>1, <2>3, <4>2 DEF Begin, Starts
      <4>3. CASE SendHttpRequest(ops, tms) /\ UNCHANGED told
        BY <2>1, <2>3, <4>3 DEF SendHttpRequest
      <4>4. CASE /\ Terminate(Starts(Starts(ops, "post_init"), "post_init_again"),
                             Armed(Armed(tms, "post_init"), "post_init_again"))
                 /\ UNCHANGED told
        <5> DEFINE ops2 == Starts(Starts(ops, "post_init"), "post_init_again")
        <5>1. ops2 \in [Phases -> OpStates] /\ ops2["failed"] = ops["failed"]
          BY <2>3 DEF Starts
        <5> HIDE DEF ops2
        <5> QED
          BY <2>2, <2>3, <4>4, <5>1 DEF ops2
      <4> QED
        BY <2>3, <3>3, <4>1, <4>2, <4>3, <4>4 DEF CallBack, Start
    <3> QED
      BY <3>1, <3>2, <3>3
  <2>4. ASSUME NEW p \in Phases, Handle(p) PROVE [Contract!Next]_<<told, botched>>
    <3> DEFINE ops == [op EXCEPT ![p] = "done"]
    <3>1. ops \in [Phases -> OpStates] /\ (ops["failed"] # "idle") = failed
      BY <2>4 DEF Handle, TypeOK
    <3>2. CASE op[p] = "aborted" \/ timer[p] = "due"
      BY <2>1, <2>4, <3>1, <3>2 DEF Handle
    <3>3. CASE ~(op[p] = "aborted" \/ timer[p] = "due")
      <4>1. Running(p) /\ (op[p] = "ok") \in BOOLEAN
        BY <2>4, <3>3 DEF Handle, Phased
      <4>2. CallBack(p, op[p] = "ok", ops, [timer EXCEPT ![p] = "off"])
        BY <2>4, <3>3 DEF Handle
      <4> HIDE DEF ops
      <4> QED
        BY <2>3, <3>1, <4>1, <4>2
    <3> QED
      BY <3>2, <3>3
  <2>5. ASSUME NEW p \in Phases, HandleTimeout(p) PROVE [Contract!Next]_<<told, botched>>
    <3> DEFINE ops == [op EXCEPT ![p] = IF @ = "done" THEN "done" ELSE "aborted"]
    <3>1. Running(p) /\ CallBack(p, FALSE, ops, [timer EXCEPT ![p] = "off"])
      BY <2>5 DEF HandleTimeout
    <3>2. ops \in [Phases -> OpStates] /\ (ops["failed"] # "idle") = failed
      BY <3>1 DEF TypeOK, Calls
    <3> HIDE DEF ops
    <3> QED
      BY <2>3, <3>1, <3>2
  <2>6. CASE Accept
    <3>1. told' = <<"open">> /\ told = <<>>
      BY <2>6 DEF Accept, Calls
    <3> QED
      BY <3>1 DEF Contract!Next, Contract!Opens
  <2>7. op \in [Phases -> OpStates]
    BY DEF TypeOK
  <2>8. CASE \/ \E t \in Handshakes : HandshakeTimeout(t)
             \/ HandleSendHttpRequest \/ RefuseResponse \/ ReadMore
             \/ ReadFrame \/ ReadPing \/ ReadClose \/ ReadGarbage \/ ReadEnd \/ Close
    <3>1. UNCHANGED told /\ (UNCHANGED op \/ \E tms : Terminate(op, tms))
      BY <2>8 DEF HandshakeTimeout, HandleSendHttpRequest, RefuseResponse, ReadMore, SendCloseFrame,
                  ReadFrame, ReadPing, ReadClose, ReadGarbage, ReadEnd, Close, transport
    <3> QED
      BY <2>1, <2>2, <2>7, <3>1
  <2>9. CASE WriteFrame \/ HandleWriteFrame \/ (\E s \in Senders : Sends(s))
    <3>1. UNCHANGED told /\ (UNCHANGED op \/ Terminate(op, timer))
      BY <2>9 DEF WriteFrame, HandleWriteFrame, Sends, Send, SendPush, SendDispatch, transport
    <3> QED
      BY <2>1, <2>2, <2>7, <3>1
  <2>10. CASE Environment
    <3>1. UNCHANGED told
      BY <2>10 DEF Environment, Complete, Tick, Arrive, Written, End
    <3>2. failed' = failed
      <4>1. ASSUME NEW p \in Phases, Complete(p) PROVE failed' = failed
        BY <2>7, <4>1 DEF Complete
      <4> QED
        BY <2>10, <4>1 DEF Environment, Tick, Arrive, Written, End, transport
    <3> QED
      BY <2>1, <3>1, <3>2
  <2>11. CASE UNCHANGED vars
    BY <2>1, <2>11 DEF vars, transport
  <2> QED
    BY <2>4, <2>5, <2>6, <2>8, <2>9, <2>10, <2>11, NextActions
<1> QED
  BY <1>1, <1>2, Invariance, PTL DEF Spec, ImplementsContract, Contract!Spec
=============================================================================
