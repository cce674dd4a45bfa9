# A TLA+ verification of PeerApi

PeerApi is a C++ library that connects peers by WebRTC data channels. A program
makes a `Peer`, calls `Open()`, `Connect(id)`, `Send(id, data)` and `Close()`,
and receives the events open, connect, close, message and writable. This
directory models the library's control: who holds what, which thread does what
in which order, and what the application is told.

## 1. Inventory

| component | state | operations | correct when |
|---|---|---|---|
| `Peer` (`peerapi.cc`) | `control_`, `signal_`, `close_once_`, event handlers | `Open`, `Close`, `Close(id)`, `Connect`, `Send`, `Run`; `OnOpen`, `OnClose`, `OnConnect` from the Control | events come in a sensible order, at most one local close per open, no connect of a connected remote |
| `Control` (`control.cc`) | `peers_` (id -> session), `peer_`, `ref_`, message queue | `Open`, `Close`, `ClosePeer`; the commands open, channelcreate, channeljoin, createoffer, offersdp, answersdp, ice_candidate, peerclosed; `OnSignalConnectionClosed` | `peers_` holds exactly usable sessions; it dies when, and only when, nobody holds it |
| `PeerControl` (`peer.cc`) | `state_`, `peer_connection_`, the two data channels, `control_` | `Initialize`, `CreateOffer`, `ReceiveOfferSdp`, `ReceiveAnswerSdp`, `Close`; WebRTC's callbacks | a disconnect ends in a close; it is destroyed closed |
| `Signal` (`signalconnection.cc`) | `con_state_`, `con_hdl_`, `network_thread_`, `reconn_timer_`, `reconn_made_` | `Open`/`Connect`, `SyncClose`, `SendCommand`; websocket handlers | one connection at a time; joins return; an attempt ends visibly |
| `PeerDataChannelObserver` (`peer.cc`) | a data channel, `send_lock_`, `send_cv_` | `Send`, `SyncSend`, `OnBufferedAmountChange` | a blocked send is woken or times out |
| websocketpp `connection` (`libs/websocketpp`, over `transport/asio`) | `m_state`, `m_internal_state`, `m_handshake_timer`, `m_send_queue`, `m_write_flag`, outstanding operations and timers | resolve, connect, TLS, upgrade, `send`, `close`, frames, `terminate`, and a timeout for each phase | `OnOpen`, `OnFail`, `OnClose` come once and in order, unless a connection is opened that was terminated; nothing waits for the network alone; no frame is left queued |
| websocketpp `hybi13` | `m_state`, `m_bytes_needed`, headers, the data and the control message | `consume`, `get_message` | messages do not depend on how the bytes are cut into reads |
| `FakeAudioCaptureModule`, `Logging` | copies of WebRTC code | | |

**Interaction.** Three threads take part. The *webrtc thread* called `Open()`
and `Run()`; it serves the Controls' messages, runs WebRTC's callbacks (it is the
signaling thread) and the application's handlers. The *application's own thread*
may call the Peer's methods; `Close` and `ClosePeer` are posted to the webrtc
thread, `Connect` and `Send` run where they are called. The *network thread*
of Signal runs the websocket handlers and raises `SignalOnCommandReceived_` and
`SignalOnClosed_` to every Control connected; each posts to the webrtc thread.

**What is hard.**
- Messages are addressed by remote id or by Control, and the object they meant
  may have been replaced when they are handled.
- A Control keeps itself alive through `ref_` and through copies of `ref_` in
  queued messages; after `UnregisterObserver` it lives on as a zombie that is
  still connected to the signal.
- `SyncClose` blocks its caller, which may be the webrtc thread in the middle of
  `Peer::OnClose`.
- Signal's members are read and written by three threads without a lock, its
  timer may expire while it is being cancelled, and its retries are counted.
- Two peers run the same code against each other: both may offer, both may close,
  and an answer is applied to whatever session is in the map.
- In websocketpp every phase races a timer whose handler may be queued when it is
  cancelled, and senders share `m_write_flag` with the handler of the last write.
- A read of the socket may end anywhere in a frame.
- A step of several may fail: one `Initialize()` of a `createoffer`,
  `InitializeControl()` after registration.

PROJECT.json lists each of these hazards at its line, with the properties that
cover it.

## 2. Modules

| module | models |
|---|---|
| `PeerControl` | sessions: records of what a PeerControl object holds, operators for its methods |
| `Control` | `peers_`, queues, references; `EndMessage` is the end of `Control::OnMessage` |
| `SignalContract` | abstract Signal: idle, trying, opened, closing |
| `PeerApi` | the whole: Peer + Controls + sessions + SignalContract, driven by the application, the server and WebRTC; one action per method, message handler or callback |
| `EventContract` | what an application may rely on about its events |
| `Signal` | the detailed Signal: threads, io_service tasks, timer, websocket |
| `DataChannel` | sending: `Peer::Send` down to `PeerDataChannelObserver`, with its threads, `send_lock_`, `send_cv_` and timeout |
| `Handshake` | two peers, A and B, and the server between them: both Controls, their sessions, what is on the wire and which session is connected with which |
| `WebSocket` | one websocketpp client connection from `connect()` to the last handler that belongs to it |
| `ConnectionContract` | which handlers of a connection are called, in which order |
| `Hybi13` | `consume()`: bytes to messages, with a reference decoder over whole frames |
| `MCHandshake`, `MCHybi13` | instances for TLC: who may connect how often, which frames come |
| `PeerApiTypeProofs`, `PeerApiProofs`, `HandshakeProofs`, `DataChannelProofs`, `SignalProofs`, `WebSocketProofs`, `Hybi13Proofs` | theorems |
| `ControlProofs` | lemmas about the operators of `PeerControl` and `Control`, for PeerApiTypeProofs and HandshakeProofs |

`PeerApi` EXTENDS `Control` (which EXTENDS `PeerControl`) and `SignalContract`;
`Handshake` EXTENDS the same `Control`, with one Control per peer. The
refinements are instances with a mapping: `Signal` implements `SignalContract` by
its state function `sig`, `PeerApi` implements `EventContract` by `local` and
`link`, `WebSocket` implements `ConnectionContract` by `told` and by whether the
connection that was opened had been terminated (`botched`).

The layers rest on each other. `PeerApi` uses `SignalContract`, which `Signal`
implements; `Signal` takes from websocketpp that an attempt and a close end and
that its handlers come in order, which `WebSocket` shows (`AttemptEnds`,
`CloseEnds`, `ImplementsContract`), with one exception: Signal.tla lets `OnFail` come
only of a websocket that is connecting, and a connection whose extension
negotiation fails does not keep to that (claim_negotiation). `WebSocket` takes from the frame
processor that a read brings frames or an error, which `Hybi13` shows.
`DataChannel` stands alone: it refines one session of PeerApi while it is open,
with the threads that PeerApi abstracts from.

### How state and actions correspond to the code

- A *session* is `<<remote id, generation>>`: one PeerControl object. `desc` is
  the CreateOffer or CreateAnswer that WebRTC has not answered, which holds a
  reference to the object. `Reaped` is `~PeerControl` of those nobody holds;
  destroyed in another state than `pClosed` they become `aborted`.
- A *Control* has its own FIFO queue. The code has one queue per thread for all
  Controls; separate queues allow every order of it and more.
- A *message* is its kind, the ids it names, `ok` (a reply's `result`, or
  whether the close code is `CLOSE_NORMAL`) and `ref` (whether its copy of
  `ref_` is set). `ice_candidate` and the reply of leavechannel change no
  state and are not queued. Malformed commands take the path of a refusal or of
  a message that is ignored.
- A step of the webrtc thread is one message or one callback; nothing
  interrupts it but the join in `SyncClose`, which is cut: `thread` and `app`
  say who is blocked where. Calls that a handler makes are steps that follow it,
  except in the handler of the local close event, where `Close()` meets a
  Peer half way through `OnClose` (`OnCloseLocal`, `ResumeClose`).
- The application is taken to treat the local close event as the end of every
  link (`link`), as the examples do.
- `fault` records undefined behaviour: a null `control_` or `peer_`, a dangling
  `PeerControl::control_`, an uninitialized `webrtc_thread_`, a second join.
  Nothing is said of the program afterwards, and `Next` is disabled.
- External, modelled from how the code uses them: the signal server (`owed` is
  what it may still send, `Consequences` what a command leads to, `Retracted`
  what it drops with a remote), WebRTC (`Negotiated`: callbacks come only after
  both descriptions are set) and the steady timer (`Expires`).
- In PeerApi, `Open()` does not block in Connect's join of an ended network
  thread; while another thread is in `SyncClose` it is `double_join`. Signal
  models that join in full.
- In `Signal` a method is cut wherever it tests a member and then acts on it.
  `Signal::Close` and `Teardown`, which the library never calls, are left out.
- In `DataChannel` each thread has a program counter `pc`. WebRTC carries out a
  call on `channel_` on its signaling thread, which is the webrtc thread, so
  another thread's call waits for it (`Invokes`); `ChannelSend` is WebRTC's
  queue and its limit, both external. `Drain` is the transport taking data, after which
  `OnBufferedAmountChange` raises the writable event (whose handler may send
  without waiting) and then notifies. Data is counted in messages. A closing channel
  may discard what is queued. `ClosePeer` with a thread inside the observer is
  the fault `destroyed_in_use`. Spurious wakeups, which lead back to the same test,
  and a `SyncSend` from within the writable handler are left out.

- In `Handshake` a session `<<r, g>>` belongs to the peer that is not `r`. An
  offersdp or answersdp carries the session that made it (`from`), and `far` is
  the session whose description one holds: the code keeps it inside the SDP.
  WebRTC connects two sessions that are there and have each other's description
  (`Wired`); `ice` is set once it has. A disconnection may be transient, so that
  the channels of a session that has noticed one may still open before the close it
  queued is served. It is noticed of a counterpart that is gone or has noticed one
  itself (`Gone`), or as a trouble. The server sends createoffer to the other peer when
  one joins, in the order of the joins, and may send peerclosed after a leave.
  Both peers are open when it starts, and the loss of a signal connection, being
  PeerApi's subject, is left out. That `OnSuccess` may use a destroyed Control is
  the fault `dangling_control` of PeerApi; here that step is not taken.
- In `WebSocket` an operation is `pending`, then has an outcome, then is `done`;
  a timer is `off`, `armed` or `due`. What the handlers of the operations have
  in common is `Handle`, what their timeouts have in common `HandleTimeout`.
  Two error paths of the code go on without a return, and so do they here: when the
  server's name cannot be set for TLS, the socket's `pre_init` reports the error and
  then success, and `handle_pre_init` begins post_init after either, so that it runs
  twice on a terminated connection (`post_init_again`); when `negotiate_extensions` fails,
  `handle_read_http_response` terminates the connection and opens it all the same.
  Errors differ only in the close code, and Signal.tla lets `OnClose` find any
  code. `told` is the history of the handlers called. `End` (external) completes
  what is outstanding on a socket that is shut down or cancelled.
- In `Hybi13` an action is one turn of the loop in `consume()`. `Read` makes any
  number of bytes available. Headers are two entries (the opcode with FIN, and
  the length) and a length is one byte or two; `Basic` stands for 125. `Decoded` is
  the reference: it works on whole frames and knows nothing of reads, headers or
  states. Its field `cut` says that a text has been dispatched that ends within a
  character, which the code lets pass when the text has several frames.

## 3. Runs

Passing runs (`tlc -config X.cfg M`):

| run | instance | checks | states |
|---|---|---|---|
| session | 1 remote, 2 generations, 1 Control, queue 2, fair | `TypeOK`, `MapSessionsLive`, `AppViewSound`, `ConnectOnce`, `DisconnectHandled`, `ZombieDies` | 273,559 |
| reopen | 1 remote, 1 generation, 2 Controls, queue 2 | `RegisteredIsCurrent`, `NoLostControl`, `EventsInOrder` | 963,622 |
| signal | 2 users, 3 reconnections, fair | `TypeOK`, `OneConnection`, `ImplementsContract`, `CloseReturns`, `AttemptReported` | 609 |
| send | 3 threads (one the webrtc thread), limits 1 and 2, fair | `TypeOK`, `NoLostWakeup`, `DrainWakes` | 36,144 |
| handshake | 2 peers, 2 generations each, queue 3, one Connect() each, one trouble, fair | `TypeOK`, `SameConnection`, `HalfOpenEnds`, `ConnectSucceeds` | 60,582 |
| websocket | 1 sender, queue 1, fair | `TypeOK`, `Guarded`, `NoStrandedFrame`, `NeverDeaf`, `ImplementsContract`, `AttemptEnds`, `CloseEnds` | 142,154 |
| frames | 16 frames, 3 in a row, lengths up to 2, fair | `TypeOK`, `Prompt`, `NoFalseAlarm`, `ConsumeReturns` | 214,344 |

**What the runs of the further layers show.**
- *handshake*: with both sides up, the sessions that `Send()` uses on either side
  are each other's counterpart, although duplicates are made and answers reach
  the wrong session. A connection that is open on one side only does not last.
  A Connect() by one side alone always ends with two connect events; two at once
  do not (claim_glare).
- *websocket*: a timeout and its operation never both call back, and `terminate()`
  from several causes at once calls `OnFail` or `OnClose` once; `OnFail` follows
  `OnOpen` only where extension negotiation failed. Without any fairness of the
  network, an attempt is reported and a close is followed by
  `OnClose` and then by silence, so that `run()` returns and `SyncClose` joins.
- *frames*: three frames out of sixteen, in every order and cut anywhere, give
  what the reference says, as soon as they are complete.

**Bounds.** `Gens` bounds the PeerControl objects made per remote: two are what a
duplicate, a replaced session or a stale notice needs. `Controls` bounds the
calls of `Open()`: two let a zombie live beside its successor. `MaxQueue` bounds
the messages waiting for a Control: two let one overtake the state that another
was posted in; the stale disconnect notice needs three (a close, the
replacement's command, the notice). `reconn_attempts_` has its real value 3, and
Signal needs no other bound. In Handshake `MaxJoins` is one Connect() per peer, which
is what glare needs, and `MaxTroubles` one close, lost transport, refusal or
failed `Initialize()` at any moment. In WebSocket `MaxQueue` 1 lets a frame be
queued while another, or the close frame, is being written; the safety properties also
hold with 2 (722,154 states) and with two senders (2,528,698 states), and are proved for
every queue, but the liveness properties take TLC too long there. In Hybi13 `MaxFrames` 3 is a
fragment, what comes between, and the end; `Basic` 1 and `MaxMessage` 2 make both
forms of the length, a length in the wrong form and a message that is too big
possible. Deadlock is not checked: the
application may stop calling, a fault stops the behaviour, and a connection or a
stream comes to its end.

**Fairness.** PeerApi: the webrtc thread serves its messages (`Peer::Run` loops
for ever), the closing handshake ends (websocketpp has a timeout for it), and a
thread whose join has returned goes on. Nothing is assumed of the application,
the server or WebRTC. Signal: a thread inside a method goes on, the io_service
runs what is ready, opening and closing handshakes end (websocketpp's timeouts,
see WebSocket) and the timer expires; an open connection may last for ever.
`CloseReturns` excepts a connection that is open: with two users, the joined thread
may be the one of a later `Connect()`. DataChannel: threads go on and callbacks
run to their end (weak fairness); calls that other threads make on `channel_`
get strong fairness, because the webrtc thread serves them from a FIFO queue and
cannot pass over one for ever. The 60 second timeout is fair only in `TimedSpec`,
which the claim about `SyncSend` uses; `DrainWakes` is checked without it, so it
is the notice that wakes the sender. Handshake: the wire delivers (TCP), the
webrtc threads serve their queues, and WebRTC answers its requests, connects
what can be connected and reports a counterpart that has closed its session. That
a working transport is lost, or a transient disconnection spreads, may happen and is
never forced, so `ConnectSucceeds` is not excused by it. Nothing is assumed of the
applications. WebSocket: the network thread runs its handlers and time passes
(`Tick`). Of the network only that operations on a socket that is shut down or
cancelled complete (`End`, strongly fair because a read that brings data
interrupts it); data need not arrive, and no operation need complete. Hybi13: the
network thread goes on with what it has read.

**Violation runs.** Five statements of the repository that the code does not
meet, each violated in its run and quoted in PROJECT.json's findings:

| run | statement | what happens |
|---|---|---|
| claim_going_away | comment in `OnPeerDisconnected` | a stale notice closes the next session of that id |
| claim_sync_send | comment in `Peer::Send`: a synchronous send "returns true or false" after at most a timeout | `SyncSend` holds `send_lock_` while WebRTC runs its call on the webrtc thread, which waits for `send_lock_` in `OnBufferedAmountChange` |
| claim_glare | comment in `Control::Connect`: steps 1 to 4 lead to a data channel | both connect at once: each keeps its own offerer in `peers_`, the answers come from duplicates that die, and no connect event follows |
| claim_negotiation | comment in `handle_read_http_response`: connections that fail extension negotiation are killed | `terminate()` is called without a return: `OnOpen` follows, and then `OnFail` of the same connection |
| claim_text | comment in `finalize_message`: text messages end on a valid UTF8 code point | the opcode tested is the last frame's, which is continuation in a fragmented text |

More statements fail and have no run of their own, the first three because one
caller reaches them by a short sequence of calls:
- API.md says that `Close` closes a "connection attempt"; `ClosePeer` ignores an id
  without a session, and the connect event follows.
- API.md says that close is emitted "when connection is closed"; `Open()` does not
  reset `close_once_`, so that an attempt that fails after an earlier close is not
  reported.
- `Signal::Connect` says "if we are connected, do nothing", but a refused url
  leaves `con_opening`, and later calls do nothing without a connection.
- `~PeerControl` asserts that the session is closed; the duplicate that
  `peers_.insert` rejects is destroyed while connecting.
- The answer to the duplicate's offer reaches the session in `peers_`, which may
  be open (the assertion in `ReceiveAnswerSdp`).
- `Signal::Connect` says of a closed client that "join will return immediately",
  which does not hold if the reconnection timer has expired but its handler has
  not run: the joined thread reconnects.
- API.md says that `Close` of a closed connection does nothing; the second
  `Close()` uses a null `control_` (the fault `null_control`).
- The comment in `Peer::Send` says that a failed asynchronous send is followed by
  a close event; `PeerDataChannelObserver::Send` drops the data and reports
  nothing.

## 4. Proofs

`PeerApiProofs` proves, for every `Remotes`, `Gens`, `Controls`, `Inbound` and
`MaxQueue` that satisfy the named assumptions (`GensAssumption`: generations are
positive; `ControlsAssumption`, `SelfAssumption`: null and the own name are no
members; `InboundAssumption`; `MaxQueueAssumption`):

| theorem | states |
|---|---|
| `TypeCorrect` | `Spec => []TypeOK` |
| `Registration` | `Spec => []RegisteredIsCurrent` |
| `MapsAreLive` | `Spec => []MapSessionsLive` |
| `ViewIsSound` | `Spec => []AppViewSound` |
| `ControlsAreHeld` | `Spec => []NoLostControl` |
| `ConnectedOnce` | `Spec => ConnectOnce` |
| `EventsImplementContract` | `Spec => EventsInOrder` (PeerApi implements EventContract) |

All follow from `Invariance`, `Spec => []IInv`. None of the invariants is
inductive alone. `TypeOK` needs `BlockedInClose`: `ResumeClose` uses `control_`
after a join during which the other threads ran. `AppViewSound` needs
`RegisteredIsCurrent` (a zombie must not report) and `HeldSessions` (a session
that WebRTC calls is the one in `peers_`, not the duplicate), which needs
`DescribedLater` (a session with both descriptions has no request under way).
`ConnectOnce` needs `OpenIsOpen`, and the event contract `CloseOnceMeansClosed`.

Every handler ends in `EndMessage`, so the argument about destruction is made
once: if the sessions and maps a handler leaves `Fits`, and the application's
view is backed by them (`Backs`), the state after the message is consistent
whether the Control dies or not. Each handler has then one lemma showing that it
leaves such a state; `PeerApiTypeProofs` does the same for types.

`DataChannelProofs` proves, for any set of threads and any limits
(`ThreadAssumption`: `NoThread` is no thread; `CapacityAssumption`:
0 < `max_buffer_size_` <= `Capacity`), `TypeCorrect` and `WakeupsReach`,
`Spec => []NoLostWakeup`.
The invariant, checked by `SendInvariance`, adds `LockHeld`: exactly the thread
between acquisition and release holds `send_lock_`. Hence when `Notify` runs with the lock,
no thread is between its test of the buffer and its wait, and each one that found
the buffer in use is waiting and is woken.

`SignalProofs` proves, for any threads and any `reconn_attempts_`
(`OpenersAssumption`, `AttemptsAssumption`), `TypeCorrect`, `SingleConnection`
(`[]OneConnection`) and `SignalImplementsContract`. None is inductive alone:
the invariant adds `Owned` (what `con_state_` says of the websocket), `Ended`
(nothing outlives the network thread, so that a `Connect()` that has joined it
starts afresh) and `Due` (a planned retry excludes a connection, and has an attempt
left). With them `sig` has a known value before and after every step (`SigShows`).

`WebSocketProofs` proves, for any senders and any queue, `TypeCorrect`,
`AlwaysGuarded` (`[]Guarded`), `FramesAreWritten` (`[]NoStrandedFrame`),
`AlwaysListening` (`[]NeverDeaf`) and `HandlersImplementContract`. `Phased` says
that of the opening only the present phase has anything outstanding, and that what
is outstanding has its timer. `Calls` relates the shutdown under way to the
handlers called: its timer runs until its handler was called, and each of the two
shutdowns (of a failed attempt, of an open connection) starts once, since
`terminate()` acts only on a connection that is not closed. Both run only for a
botched connection, whose state is set back to open after the first.

The chain of contracts is therefore proved where PeerApi rests on it: PeerApi
uses SignalContract, and Signal implements it for every value of its constants.

`HandshakeProofs` proves, for any `Gens`, `MaxQueue`, `MaxJoins` and `MaxTroubles`
(`PeersAssumption`: there are two peers; `BoundsAssumption`: the bounds are
numbers), `TypeCorrect` and `Counterparts`, `Spec => []SameConnection`. What has to
be excluded is that the two ends use different sessions of one remote, after calls
that cross or a link that failed and was made anew. The invariant follows the
descriptions: one is set once and never replaced (`far` keeps who made it, and
`OwnSessions` says that it was a session of the other peer), what is on the wire
is about the other peer (`Addressed`), and a duplicate session, which `peers_` has
not, is held only by its request for a description (`Held`) and so has no local
description. A session that opens has both, hence is the one of `peers_`, at either
end. `Backed` ties what the applications believe to these sessions.

`Hybi13Proofs` proves, for any `Inputs`, `MaxFrames`, `Basic` and `MaxMessage`
(`FramesAssumption`: the bounds are numbers, and a 7-bit length is at most
`Basic`) and any cut of the bytes into reads, `TypeCorrect`, `PromptDelivery`
(`[]Prompt`) and `FailsRightly` (`[]NoFalseAlarm`). The invariant says that there
are a number k of complete frames and a number d of bytes of the next one that
account for everything (`At`): for `pos`, for `delivered`, which is what the
reference makes of the first k frames, and for the header bytes, the bytes needed
and the two messages that consume() holds. Each turn of the loop adds to d or
ends a frame. The steps rest on three groups of lemmas: a field read in pieces is
the field (`SliceGrows`, `UpcomingIs`); the validator may be fed in pieces, and
what it rejects stays rejected, so that an early error is an error of the whole
frame (`ValidatedConcat`, `RejectStays`); and consume() and the reference find the
same things wrong with a frame (`CombinedBad`, `CombinedGood`).

The stream of bytes, the validator and the reference are recursive functions, and
the library's induction theorems, which have an operator as parameter, cannot be
used. The module therefore derives induction for sets of numbers (`Least`, `Induct`)
from the well-foundedness of `<`, and from it that such functions exist
(`Recursion`).

Every invariant, action property and refinement that a passing run checks is thus
stated by a theorem. Only model-checked: the liveness properties
(`DisconnectHandled`, `ZombieDies`, `CloseReturns`, `AttemptReported`, `DrainWakes`,
`HalfOpenEnds`, `ConnectSucceeds`, `AttemptEnds`, `CloseEnds`, `ConsumeReturns`),
since TLAPS does not reason about `ENABLED` and fairness.

## 5. Not modelled

- ICE candidates and the contents of messages.
- FakeAudioCaptureModule (a data-channel-only peer never starts it), Logging
  (output only), option parsing, handler registration.
- JSON framing; what TLS does to the bytes.
- In websocketpp: the server role, proxies, user pings, pausing, outgoing frames'
  encoding, HTTP parsing, other protocol versions.
- asio. It is nine tenths of the C++ under `src/`, generic, vendored, and used
  here through a handful of guarantees that the modules state where they use
  them; a model of its sockets and buffers would say nothing of this program.
- Data races as such: PeerApi takes `peers_` lookups by `Send` on other threads
  to be no part of the model (DataChannel models what such a Send does once it
  has the session); in Signal members are read and written atomically.

## 6. Plan

Order of work, most important first:
1. *(done)* PeerControl, Control, SignalContract, PeerApi, EventContract and
   their runs; the inductive invariant and the refinement to EventContract.
2. *(done)* Signal and its refinement of SignalContract.
3. *(done)* DataChannel and the theorem that it loses no wakeup.
4. *(done)* Handshake: two peers and the server.
5. *(done)* WebSocket with its contract, and Hybi13: what Signal relies on.
6. *(done)* Theorems about Signal and WebSocket, with both refinements.
7. *(done)* Theorems about Handshake (`TypeOK`, `SameConnection`) and Hybi13
   (`TypeOK`, `Prompt`, `NoFalseAlarm`).
8. Lemmas towards the liveness properties: what makes each step of their
   arguments progress, as action properties.
