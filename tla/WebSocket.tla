----------------------------- MODULE WebSocket -----------------------------
(***************************************************************************)
(* One websocketpp client connection as class Signal uses it (the vendored *)
(* impl/connection_impl.hpp over transport/asio): from client_.connect()   *)
(* to the last handler that belongs to it.  It grounds what Signal.tla     *)
(* takes from the library: that an attempt and a close end, if need be by  *)
(* a timeout; that OnOpen, OnFail and OnClose are called as                *)
(* ConnectionContract says; and that the io_service then runs out of work. *)
(*                                                                         *)
(* The network thread runs the handlers of completed operations and of     *)
(* timers, one at a time; Signal's users call send() on their own threads. *)
(* Four phases, and the shutdown of the socket, are an operation that      *)
(* races a timer.  The operation's handler returns without a word if the   *)
(* operation was aborted or the timer has expired; the timer's handler     *)
(* cancels the operation.  A timer cannot be cancelled any more once the   *)
(* reactor has queued its handler.  Close codes are left out: Signal.tla   *)
(* allows OnClose to find any.                                             *)
(***************************************************************************)
EXTENDS Naturals, Sequences

CONSTANTS Senders,     \* threads that call Signal::SendCommand
          MaxQueue     \* bound on m_send_queue and on the calls dispatched

ASSUME QueueAssumption == MaxQueue \in Nat \ {0}

Inits == {"resolve", "connect", "post_init"}
PostInits == {"post_init", "post_init_again"}    \* TLS; for the second see Start
Shutdowns == {"failed", "closed"}    \* async_shutdown, by its terminate_status
Phases == Inits \cup PostInits \cup Shutdowns
Handshakes == {"open_handshake", "close_handshake", "close_again"}
Timers == Phases \cup Handshakes

VARIABLES
  m_state,            \* connecting, open, closing or closed
  m_internal_state,   \* the phase of the opening, then "process"
  op,                 \* per phase: "idle", "pending", its outcome "ok",
                      \* "error" or "aborted", "done" once it is handled
  timer,              \* per timer: "off", "armed", or "due": expired, and its
                      \* handler will run
  m_handshake_timer,  \* the handshake timer that can be cancelled, or "null"
  reading,            \* the outstanding read: "none", "pending" or what came
  writing,            \* the outstanding write: "none", "pending", "ok", "error"
  m_send_queue,       \* "frame"s, and "fatal", a close frame marked terminal
  m_write_flag,       \* a write of frames is outstanding
  terminal,           \* and its last frame is terminal
  posted,             \* calls of write_frame dispatched to the io_service
  pc,                 \* per sender: "idle", "push" or "dispatch", in send()
  told                \* see ConnectionContract

transport == <<op, timer, m_handshake_timer>>
writer == <<m_send_queue, m_write_flag, terminal, posted, pc>>
stage == <<m_state, m_internal_state>>
vars == <<stage, transport, reading, writing, writer, told>>

(* What a read may bring: part of the response, all of it, one that is     *)
(* refused or whose extensions cannot be negotiated; then frames; or no    *)
(* data.                                                                   *)
Responses == {"partial", "accepted", "refused", "unnegotiable"}
Frames == {"data", "ping", "close", "bad_close", "garbage"}
Ends == {"eof", "error"}

TypeOK ==
  /\ m_state \in {"connecting", "open", "closing", "closed"}
  /\ m_internal_state \in Inits \cup {"write_request", "read_response", "process"}
  /\ op \in [Phases -> {"idle", "pending", "ok", "error", "aborted", "done"}]
  /\ timer \in [Timers -> {"off", "armed", "due"}]
  /\ m_handshake_timer \in Handshakes \cup {"null"}
  /\ reading \in {"none", "pending"} \cup Responses \cup Frames \cup Ends
  /\ writing \in {"none", "pending", "ok", "error"}
  /\ m_send_queue \in Seq({"frame", "fatal"})
  /\ m_write_flag \in BOOLEAN /\ terminal \in BOOLEAN
  /\ posted \in Nat
  /\ pc \in [Senders -> {"idle", "push", "dispatch"}]
  /\ told \in Seq({"open", "fail", "close"})

(* endpoint::async_connect.                                                *)
Init ==
  /\ m_state = "connecting" /\ m_internal_state = "resolve"
  /\ op = [p \in Phases |-> IF p = "resolve" THEN "pending" ELSE "idle"]
  /\ timer = [t \in Timers |-> IF t = "resolve" THEN "armed" ELSE "off"]
  /\ m_handshake_timer = "null"
  /\ reading = "none" /\ writing = "none"
  /\ m_send_queue = <<>> /\ m_write_flag = FALSE /\ terminal = FALSE
  /\ posted = 0 /\ pc = [s \in Senders |-> "idle"]
  /\ told = <<>>

-----------------------------------------------------------------------------
(* Helpers: the values of op and timer after a call.                       *)

Running(t) == timer[t] # "off"

(* m_handshake_timer->cancel().                                            *)
Cancelled(tms) ==
  [t \in Timers |-> IF t = m_handshake_timer /\ tms[t] = "armed"
                    THEN "off" ELSE tms[t]]

Starts(ops, p) == [ops EXCEPT ![p] = "pending"]
Armed(tms, t) == [tms EXCEPT ![t] = "armed"]

(* Mutant: the terminate_status is taken for the state.                    *)
TerminateConfused(ops, tms) ==
  LET tstat == IF m_state = "connecting" THEN "failed" ELSE "closed"
  IN /\ m_handshake_timer' = "null"
     /\ m_state' = tstat
     /\ IF m_state = "closed"
        THEN op' = ops /\ timer' = Cancelled(tms)
        ELSE op' = Starts(ops, tstat) /\ timer' = Armed(Cancelled(tms), tstat)

(* connection::terminate; an error only changes the close code.            *)
Terminate(ops, tms) ==
  LET tstat == IF m_state = "connecting" THEN "failed" ELSE "closed"
  IN /\ m_handshake_timer' = "null"
     /\ m_state' = "closed"
     /\ IF m_state = "closed"
        THEN op' = ops /\ timer' = Cancelled(tms)
        ELSE op' = Starts(ops, tstat) /\ timer' = Armed(Cancelled(tms), tstat)

(* write_push, then write_frame is dispatched if no write is outstanding.  *)
Push(frame) ==
  /\ m_send_queue' = Append(m_send_queue, frame)
  /\ posted' = IF m_write_flag THEN posted ELSE posted + 1

HasRoom == Len(m_send_queue) < MaxQueue /\ posted < MaxQueue

(* Mutant: no timer is set for the answer.                                 *)
SendCloseFrameUntimed(frame) ==
  /\ m_state' = "closing"
  /\ Push(frame)
  /\ UNCHANGED <<transport, m_write_flag, terminal, pc>>

(* connection::send_close_frame: m_handshake_timer is overwritten.         *)
SendCloseFrame(frame) ==
  LET t == IF timer["close_handshake"] = "off" THEN "close_handshake" ELSE "close_again"
  IN /\ m_state' = "closing"
     /\ m_handshake_timer' = t /\ timer' = Armed(timer, t)
     /\ Push(frame)
     /\ UNCHANGED <<op, m_write_flag, terminal, pc>>

-----------------------------------------------------------------------------
(* The opening: resolve, connect, TLS, and the shutdown at the end.        *)

(* The next phase, p, with its timer.                                      *)
Begin(p, ops, tms) ==
  /\ m_internal_state' = p
  /\ op' = Starts(ops, p) /\ timer' = Armed(tms, p)
  /\ UNCHANGED <<m_state, m_handshake_timer, writing>>

(* client_endpoint::handle_connect, start(), init and post_init: TLS.      *)
(* When the server's name cannot be set, pre_init reports the error and    *)
(* then success, and handle_pre_init goes on after an error as well: the   *)
(* connection is terminated, and post_init begun twice.                    *)
Start(ops, tms) ==
  \/ Begin("post_init", ops, tms)
  \/ /\ Terminate(Starts(Starts(ops, "post_init"), "post_init_again"),
                  Armed(Armed(tms, "post_init"), "post_init_again"))
     /\ m_internal_state' = "post_init"
     /\ UNCHANGED writing

(* send_http_request.                                                      *)
SendHttpRequest(ops, tms) ==
  /\ m_internal_state' = "write_request"
  /\ op' = ops /\ timer' = Armed(tms, "open_handshake")
  /\ m_handshake_timer' = "open_handshake"
  /\ writing' = "pending"
  /\ UNCHANGED m_state

(* handle_terminate: Signal::OnFail or OnClose.                            *)
HandleTerminate(tstat, ops, tms) ==
  /\ told' = Append(told, IF tstat = "failed" THEN "fail" ELSE "close")
  /\ op' = ops /\ timer' = tms
  /\ UNCHANGED <<stage, m_handshake_timer, writing>>

(* What is called back with the result of phase p: handle_terminate,       *)
(* handle_transport_init, which wants the state to be TRANSPORT_INIT, or   *)
(* the endpoint's handlers.                                                *)
Proceeds(p, ok) == ok /\ (p \in PostInits => m_internal_state = "post_init")
CallBack(p, ok, ops, tms) ==
  \/ p \in Shutdowns /\ HandleTerminate(p, ops, tms)
  \/ /\ p \notin Shutdowns /\ ~Proceeds(p, ok)
     /\ Terminate(ops, tms) /\ UNCHANGED <<m_internal_state, told, writing>>
  \/ /\ Proceeds(p, ok) /\ UNCHANGED told
     /\ \/ p = "resolve" /\ Begin("connect", ops, tms)
        \/ p = "connect" /\ Start(ops, tms)
        \/ p \in PostInits /\ SendHttpRequest(ops, tms)

(* Mutant: the expiry of the timer is not tested.                          *)
HandleUntested(p) ==
  /\ op[p] \in {"ok", "error", "aborted"}
  /\ LET ops == [op EXCEPT ![p] = "done"]
     IN IF op[p] = "aborted"
        THEN /\ op' = ops
             /\ UNCHANGED <<stage, timer, m_handshake_timer, writing, told>>
        ELSE CallBack(p, op[p] = "ok", ops,
                      [timer EXCEPT ![p] = IF @ = "due" THEN "due" ELSE "off"])
  /\ UNCHANGED <<reading, writer>>

(* What the handlers of the operations have in common.                     *)
Handle(p) ==
  /\ op[p] \in {"ok", "error", "aborted"}
  /\ LET ops == [op EXCEPT ![p] = "done"]
     IN IF op[p] = "aborted" \/ timer[p] = "due"
        THEN /\ op' = ops
             /\ UNCHANGED <<stage, timer, m_handshake_timer, writing, told>>
        ELSE CallBack(p, op[p] = "ok", ops, [timer EXCEPT ![p] = "off"])
  /\ UNCHANGED <<reading, writer>>

HandleResolve == Handle("resolve")
HandleConnect == Handle("connect")
(* TLS turns an abort of its handshake into an error, but only the timer   *)
(* aborts it.                                                              *)
HandlePostInit(p) == Handle(p)
HandleAsyncShutdown(tstat) == Handle(tstat)

(* Mutant: the operation is cancelled, and its handler left to report.     *)
HandleTimeoutSilently(p) ==
  /\ timer[p] = "due"
  /\ op' = [op EXCEPT ![p] = IF @ = "done" THEN "done" ELSE "aborted"]
  /\ timer' = [timer EXCEPT ![p] = "off"]
  /\ UNCHANGED <<stage, m_handshake_timer, writing, told, reading, writer>>

(* What their timeouts have in common: the operation is cancelled, or has  *)
(* completed and its handler will find the timer expired; the result is an *)
(* error.                                                                  *)
HandleTimeout(p) ==
  /\ timer[p] = "due"
  /\ CallBack(p, FALSE, [op EXCEPT ![p] = IF @ = "done" THEN "done" ELSE "aborted"],
              [timer EXCEPT ![p] = "off"])
  /\ UNCHANGED <<reading, writer>>

HandleResolveTimeout == HandleTimeout("resolve")
HandleConnectTimeout == HandleTimeout("connect")
HandlePostInitTimeout(p) == HandleTimeout(p)
(* For the reads and writes that this one cancels as well, see End.        *)
HandleAsyncShutdownTimeout(tstat) == HandleTimeout(tstat)

(* Mutant: the expiry is only logged.                                      *)
HandshakeTimeoutLogged(t) ==
  /\ timer[t] = "due"
  /\ timer' = [timer EXCEPT ![t] = "off"]
  /\ UNCHANGED <<stage, op, m_handshake_timer, reading, writing, writer, told>>

(* handle_open_handshake_timeout, handle_close_handshake_timeout.          *)
HandshakeTimeout(t) ==
  /\ timer[t] = "due"
  /\ Terminate(op, [timer EXCEPT ![t] = "off"])
  /\ UNCHANGED <<m_internal_state, reading, writing, writer, told>>

(* handle_send_http_request.  In state closed it does nothing more.        *)
HandleSendHttpRequest ==
  /\ m_internal_state = "write_request" /\ writing \in {"ok", "error"}
  /\ writing' = "none"
  /\ \/ /\ writing = "ok" /\ m_state = "connecting"
        /\ m_internal_state' = "read_response" /\ reading' = "pending"
        /\ UNCHANGED <<m_state, transport>>
     \/ /\ writing = "ok" /\ m_state = "closed"
        /\ UNCHANGED <<stage, transport, reading>>
     \/ /\ writing = "error" /\ Terminate(op, timer)
        /\ UNCHANGED <<m_internal_state, reading>>
  /\ UNCHANGED <<writer, told>>

(* handle_read_http_response.                                              *)
IgnoredWhenClosed == m_state = "closed" /\ reading # "error"
ReadsResponse == m_internal_state = "read_response" /\ reading \in Responses \cup Ends

(* ... of a connection that is closed, or with nothing usable.             *)
RefuseResponse ==
  /\ ReadsResponse
  /\ \/ /\ IgnoredWhenClosed
        /\ UNCHANGED <<m_state, transport>>
     \/ /\ ~IgnoredWhenClosed /\ reading \in {"refused"} \cup Ends
        /\ Terminate(op, timer)
  /\ reading' = "none"
  /\ UNCHANGED <<m_internal_state, writing, writer, told>>

ReadMore ==
  /\ ReadsResponse /\ m_state = "connecting" /\ reading = "partial"
  /\ reading' = "pending"
  /\ UNCHANGED <<stage, transport, writing, writer, told>>

(* ... the connection is open: Signal::OnOpen, which sends a command, and  *)
(* the first read of frames.  When the extensions cannot be negotiated,    *)
(* terminate() is called first, which starts a shutdown; that it has set   *)
(* m_state to closed is lost.                                              *)
Accept ==
  /\ ReadsResponse /\ m_state = "connecting"
  /\ \/ /\ reading = "accepted"
        /\ op' = op /\ timer' = Cancelled(timer)
     \/ /\ reading = "unnegotiable"
        /\ op' = Starts(op, "failed") /\ timer' = Armed(Cancelled(timer), "failed")
  /\ m_state' = "open" /\ m_internal_state' = "process" /\ m_handshake_timer' = "null"
  /\ told' = Append(told, "open") /\ Push("frame") /\ reading' = "pending"
  /\ UNCHANGED <<writing, m_write_flag, terminal, pc>>

-----------------------------------------------------------------------------
(* An open connection: frames that come.                                   *)

Reads(x) == m_internal_state = "process" /\ reading \in x

(* handle_read_frame with a frame that needs nothing: data, a control      *)
(* frame in a state in which it is ignored, or the server's answer to our  *)
(* close frame.  The next read is issued.                                  *)
ReadFrame ==
  /\ \/ Reads({"data"})
     \/ Reads({"ping"}) /\ m_state # "open"
     \/ Reads({"close"}) /\ m_state # "open"
     \/ Reads({"bad_close"}) /\ m_state = "closed"
  /\ reading' = "pending"
  /\ UNCHANGED <<stage, transport, writing, writer, told>>

(* process_control_frame: a ping is answered with a pong.                  *)
ReadPing ==
  /\ Reads({"ping"}) /\ m_state = "open" /\ HasRoom
  /\ Push("frame") /\ reading' = "pending"
  /\ UNCHANGED <<stage, transport, writing, m_write_flag, terminal, pc, told>>

(* ... a close frame is acknowledged, with its own code; one whose code or *)
(* reason is invalid even while closing.                                   *)
ReadClose ==
  /\ HasRoom
  /\ \/ /\ Reads({"close"}) /\ m_state = "open"
        /\ SendCloseFrame("frame")
     \/ /\ Reads({"bad_close"}) /\ m_state \in {"open", "closing"}
        /\ SendCloseFrame("frame")
  /\ reading' = "pending"
  /\ UNCHANGED <<m_internal_state, writing, told>>

(* Mutant: the close frame for a protocol error is not marked terminal.    *)
ReadGarbageAndWait ==
  /\ Reads({"garbage"}) /\ m_state = "open" /\ HasRoom
  /\ SendCloseFrame("frame")
  /\ reading' = "none"
  /\ UNCHANGED <<m_internal_state, writing, told>>

(* ... consume() fails: the connection is closed by a terminal close frame *)
(* or, if it is not open, terminated.  No more is read.                    *)
ReadGarbage ==
  /\ Reads({"garbage"})
  /\ \/ m_state = "open" /\ HasRoom /\ SendCloseFrame("fatal")
     \/ m_state # "open" /\ Terminate(op, timer) /\ UNCHANGED writer
  /\ reading' = "none"
  /\ UNCHANGED <<m_internal_state, writing, told>>

(* ... the stream ends.  The end of the stream is what a client that is    *)
(* closing waits for.                                                      *)
ReadEnd ==
  /\ Reads(Ends)
  /\ IF reading = "eof" /\ m_state = "closed"
     THEN UNCHANGED <<m_state, transport>>
     ELSE Terminate(op, timer)
  /\ reading' = "none"
  /\ UNCHANGED <<m_internal_state, writing, writer, told>>

(* connection::close by Signal::CloseInternal, on the network thread.      *)
Close ==
  /\ m_state = "open" /\ HasRoom
  /\ SendCloseFrame("frame")
  /\ UNCHANGED <<m_internal_state, reading, writing, told>>

-----------------------------------------------------------------------------
(* Frames that are sent.                                                   *)

(* connection::send, by Signal::SendCommand: the state is tested, ...      *)
Send(s) ==
  /\ pc[s] = "idle" /\ m_state = "open"
  /\ pc' = [pc EXCEPT ![s] = "push"]
  /\ UNCHANGED <<stage, transport, reading, writing, m_send_queue, m_write_flag,
                 terminal, posted, told>>

(* ... then, under m_write_lock, the frame is queued, ...                  *)
SendPush(s) ==
  /\ pc[s] = "push" /\ HasRoom
  /\ m_send_queue' = Append(m_send_queue, "frame")
  /\ pc' = [pc EXCEPT ![s] = IF m_write_flag THEN "idle" ELSE "dispatch"]
  /\ UNCHANGED <<stage, transport, reading, writing, m_write_flag, terminal,
                 posted, told>>

(* ... and write_frame is dispatched.                                      *)
SendDispatch(s) ==
  /\ pc[s] = "dispatch"
  /\ posted' = posted + 1 /\ pc' = [pc EXCEPT ![s] = "idle"]
  /\ UNCHANGED <<stage, transport, reading, writing, m_send_queue, m_write_flag,
                 terminal, told>>

(* write_frame: all that is queued, up to a terminal frame.                *)
Fatals == {i \in 1..Len(m_send_queue) : m_send_queue[i] = "fatal"}
WriteFrame ==
  /\ posted > 0 /\ posted' = posted - 1
  /\ IF m_write_flag \/ m_send_queue = <<>>
     THEN UNCHANGED <<m_send_queue, m_write_flag, terminal, writing>>
     ELSE /\ m_write_flag' = TRUE /\ writing' = "pending"
          /\ terminal' = (Fatals # {})
          /\ IF Fatals = {} THEN m_send_queue' = <<>>
             ELSE \E i \in Fatals :
                    /\ \A j \in Fatals : i <= j
                    /\ m_send_queue' = SubSeq(m_send_queue, i + 1, Len(m_send_queue))
  /\ UNCHANGED <<stage, transport, reading, pc, told>>

(* Mutant: what was queued during the write is left to the next sender.    *)
HandleWriteFrameStops ==
  /\ m_internal_state = "process" /\ writing \in {"ok", "error"}
  /\ writing' = "none"
  /\ \/ /\ writing = "ok" /\ ~terminal
        /\ m_write_flag' = FALSE
        /\ UNCHANGED <<stage, transport, posted>>
     \/ /\ writing = "error" \/ terminal
        /\ Terminate(op, timer)
        /\ UNCHANGED <<m_internal_state, m_write_flag, posted>>
  /\ UNCHANGED <<reading, m_send_queue, terminal, pc, told>>

(* handle_write_frame.  After an error or a terminal frame m_write_flag    *)
(* stays set and nothing more is written.                                  *)
HandleWriteFrame ==
  /\ m_internal_state = "process" /\ writing \in {"ok", "error"}
  /\ writing' = "none"
  /\ \/ /\ writing = "ok" /\ ~terminal
        /\ m_write_flag' = FALSE
        /\ posted' = IF m_send_queue = <<>> THEN posted ELSE posted + 1
        /\ UNCHANGED <<stage, transport>>
     \/ /\ writing = "error" \/ terminal
        /\ Terminate(op, timer)
        /\ UNCHANGED <<m_internal_state, m_write_flag, posted>>
  /\ UNCHANGED <<reading, m_send_queue, terminal, pc, told>>

-----------------------------------------------------------------------------
(* The network and the clock (external).                                   *)

(* How a shutdown completes makes no difference.                           *)
Complete(p) ==
  /\ op[p] = "pending"
  /\ \E outcome \in IF p \in Shutdowns THEN {"ok"} ELSE {"ok", "error"} :
       op' = [op EXCEPT ![p] = outcome]
  /\ UNCHANGED <<stage, timer, m_handshake_timer, reading, writing, writer, told>>

Arrive ==
  /\ reading = "pending"
  /\ reading' \in Ends \cup (IF m_internal_state = "process" THEN Frames ELSE Responses)
  /\ UNCHANGED <<stage, transport, writing, writer, told>>

Written ==
  /\ writing = "pending" /\ writing' \in {"ok", "error"}
  /\ UNCHANGED <<stage, transport, reading, writer, told>>

Tick(t) ==
  /\ timer[t] = "armed" /\ timer' = [timer EXCEPT ![t] = "due"]
  /\ UNCHANGED <<stage, op, m_handshake_timer, reading, writing, writer, told>>

(* The socket is shut down, or what was outstanding on it was cancelled:   *)
(* nothing that is outstanding can stay so.                                *)
Finished == \E p \in Shutdowns : op[p] \in {"ok", "aborted", "done"}
Ended == \/ /\ Finished /\ reading = "pending" /\ reading' \in Ends /\ UNCHANGED writing
         \/ /\ Finished /\ writing = "pending" /\ writing' = "error" /\ UNCHANGED reading
End == Ended /\ UNCHANGED <<stage, transport, writer, told>>

-----------------------------------------------------------------------------
Handlers ==
  \/ HandleResolve \/ HandleConnect
  \/ HandleResolveTimeout \/ HandleConnectTimeout
  \/ \E p \in PostInits : HandlePostInit(p) \/ HandlePostInitTimeout(p)
  \/ \E tstat \in Shutdowns : HandleAsyncShutdown(tstat) \/ HandleAsyncShutdownTimeout(tstat)
  \/ \E t \in Handshakes : HandshakeTimeout(t)
  \/ HandleSendHttpRequest \/ RefuseResponse \/ ReadMore \/ Accept
  \/ ReadFrame \/ ReadPing \/ ReadClose \/ ReadGarbage \/ ReadEnd
  \/ WriteFrame \/ HandleWriteFrame

Sends(s) == Send(s) \/ SendPush(s) \/ SendDispatch(s)

Environment == \/ \E p \in Phases : Complete(p)
               \/ \E t \in Timers : Tick(t)
               \/ Arrive \/ Written \/ End

Next == Handlers \/ Close \/ (\E s \in Senders : Sends(s)) \/ Environment

Spec == Init /\ [][Next]_vars

(* The network thread runs what is queued, and time passes.  Nothing is    *)
(* assumed of the network: an operation may never complete, but a socket   *)
(* that is shut down or cancelled completes what is outstanding on it.     *)
Fairness ==
  /\ \A p \in Phases : WF_vars(Handle(p)) /\ WF_vars(HandleTimeout(p))
  /\ \A t \in Handshakes : WF_vars(HandshakeTimeout(t))
  /\ WF_vars(HandleSendHttpRequest) /\ WF_vars(RefuseResponse)
  /\ WF_vars(ReadEnd) /\ WF_vars(ReadGarbage) /\ WF_vars(ReadFrame)
  /\ WF_vars(WriteFrame) /\ WF_vars(HandleWriteFrame)
  /\ \A t \in Timers : WF_vars(Tick(t))
  /\ SF_vars(End)

FairSpec == Spec /\ Fairness

-----------------------------------------------------------------------------
(* Properties.                                                             *)

Heard(handler) == \E i \in 1..Len(told) : told[i] = handler

(* The handlers are called as ConnectionContract says, whatever timer      *)
(* races whatever operation: a timeout and the operation it guards never   *)
(* both call back, and terminate() shuts the socket down once; only a      *)
(* connection that was terminated and opened all the same hears OnFail     *)
(* after OnOpen.                                                           *)
Contract == INSTANCE ConnectionContract
              WITH told <- told, botched <- Heard("open") /\ op["failed"] # "idle"
ImplementsContract == Contract!Spec

(* A connection that fails extension negotiation is killed, as the comment *)
(* in handle_read_http_response says: what is reported as failed was never *)
(* reported as open.                                                       *)
KilledNotOpened == Heard("fail") => ~Heard("open")

(* Nothing waits for the network alone: an attempt, a closing handshake    *)
(* and a shutdown that has not called back have a timer that is still to   *)
(* run, so that cancelling one timer never leaves the next step unguarded. *)
Guarded ==
  /\ m_state = "connecting" => \E t \in Inits \cup {"open_handshake"} : Running(t)
  /\ m_state = "closing" => \E t \in Handshakes : Running(t)
  /\ \A p \in Shutdowns : op[p] = "pending" => Running(p)

(* No frame is stranded: whenever frames are queued and no write is        *)
(* outstanding, write_frame has been dispatched or a sender is about to    *)
(* (m_write_flag is tested by the sender and by handle_write_frame).       *)
NoStrandedFrame ==
  m_send_queue # <<>> /\ ~m_write_flag =>
    posted > 0 \/ \E s \in Senders : pc[s] = "dispatch"

(* A connection that is open or closing listens, or is about to end by a   *)
(* terminal frame: the paths that stop reading all terminate.              *)
NeverDeaf ==
  m_state \in {"open", "closing"} =>
    reading # "none" \/ Fatals # {} \/ (m_write_flag /\ terminal)

(* Every attempt is reported, without help from the network.               *)
AttemptEnds == told = <<>> ~> told # <<>>

(* A close ends with OnClose, and then the io_service has nothing left to  *)
(* do for the connection, so that the network thread's run() returns and   *)
(* with it SyncClose's join.                                               *)
Quiet == /\ \A p \in Phases : op[p] \in {"idle", "done"}
         /\ \A t \in Timers : ~Running(t)
         /\ reading = "none" /\ writing = "none" /\ posted = 0
CloseEnds == m_state = "closing" ~> Heard("close") /\ Quiet
=============================================================================
