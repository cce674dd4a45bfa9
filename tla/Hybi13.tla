------------------------------- MODULE Hybi13 -------------------------------
(***************************************************************************)
(* How a websocketpp client connection turns the bytes it reads into the   *)
(* messages it dispatches (processors/hybi13.hpp, and the loop of          *)
(* connection::handle_read_frame): the server's commands to class Signal   *)
(* come this way.  A read may end anywhere, in the middle of a header or   *)
(* after the header of a frame that has no payload, and control frames may *)
(* come between the fragments of a message.                                *)
(*                                                                         *)
(* Each action is one turn of the loop in consume(), on the network        *)
(* thread.  A frame has the 7-bit or the 16-bit form of the length (the    *)
(* 64-bit form differs from that in its width only); a payload byte is "a" *)
(* character of its own, or the "lead" or "tail" of one of two bytes.      *)
(* client_config implements no extension that changes a frame.             *)
(***************************************************************************)
EXTENDS Naturals, Sequences

CONSTANTS Basic,        \* payload_size_basic: the longest 7-bit length
          MaxMessage,   \* m_max_message_size
          Inputs,       \* frames the server may send
          MaxFrames     \* how many it sends

Ops == {"text", "binary", "continuation", "ping", "reserved"}
Frames == [op : Ops, fin : BOOLEAN, long : BOOLEAN, payload : Seq({"a", "lead", "tail"})]
ASSUME FramesAssumption ==
  /\ Basic \in Nat /\ MaxMessage \in Nat /\ MaxFrames \in Nat
  /\ Inputs \subseteq Frames
  /\ \A f \in Inputs : ~f.long => Len(f.payload) <= Basic

Code16 == Basic + 1     \* payload_size_code_16bit

VARIABLES
  frames,            \* what the server sends
  pos,               \* bytes of it that consume() has processed
  unread,            \* bytes of the current read that are still to process
  m_state,           \* HEADER_BASIC, HEADER_EXTENDED, APPLICATION or READY
  m_bytes_needed,    \* to complete the present field
  m_basic_header,    \* the bytes read of the two
  m_extended_header, \* the bytes read (m_cursor of them)
  msg,               \* m_data_msg and m_control_msg, or NoMsg
  m_current_msg,     \* which of them is being read
  delivered,         \* messages dispatched
  failed             \* consume() has returned an error

parser == <<m_state, m_bytes_needed, m_basic_header, m_extended_header, msg, m_current_msg>>
vars == <<frames, pos, unread, parser, delivered, failed>>

IsControl(op) == op = "ping"
Min(x, y) == IF x < y THEN x ELSE y

NoMsg == [op |-> "none", payload |-> <<>>, utf8 |-> "accept"]

TypeOK ==
  /\ frames \in [1..MaxFrames -> Inputs]
  /\ pos \in Nat /\ unread \in Nat
  /\ m_state \in {"HEADER_BASIC", "HEADER_EXTENDED", "APPLICATION", "READY"}
  /\ m_bytes_needed \in Nat
  /\ Len(m_basic_header) <= 2 /\ Len(m_extended_header) <= 2
  /\ m_state = "HEADER_BASIC" => Len(m_basic_header) + m_bytes_needed = 2
  /\ m_current_msg \in {"data", "control"}
  /\ \A m \in {"data", "control"} :
       /\ msg[m].op \in Ops \cup {"none"}
       /\ msg[m].utf8 \in {"accept", "more", "reject"}
  /\ delivered \in Seq([op : Ops, payload : Seq({"a", "lead", "tail"})])
  /\ failed \in BOOLEAN

-----------------------------------------------------------------------------
(* The bytes of a frame and of the first n frames.                         *)
Bytes(f) ==
  <<[op |-> f.op, fin |-> f.fin], IF f.long THEN Code16 ELSE Len(f.payload)>>
    \o (IF f.long THEN <<0, Len(f.payload)>> ELSE <<>>) \o f.payload

StreamOf(fs) ==
  LET stream[n \in 0..MaxFrames] ==
        IF n = 0 THEN <<>> ELSE stream[n - 1] \o Bytes(fs[n])
  IN stream

Stream == StreamOf(frames)[MaxFrames]
Upcoming(n) == SubSeq(Stream, pos + 1, pos + n)

Init ==
  /\ frames \in [1..MaxFrames -> Inputs]
  /\ pos = 0 /\ unread = 0
  /\ m_state = "HEADER_BASIC" /\ m_bytes_needed = 2
  /\ m_basic_header = <<>> /\ m_extended_header = <<>>
  /\ msg = [data |-> NoMsg, control |-> NoMsg] /\ m_current_msg = "data"
  /\ delivered = <<>> /\ failed = FALSE

-----------------------------------------------------------------------------
(* Mutant: the loop ends when the bytes do.                                *)
LoopsOnBytes == unread > 0

(* The condition of the loop in consume().                                 *)
Loops == unread > 0 \/ m_bytes_needed = 0

(* connection::read_frame, when all is processed: some bytes arrive.       *)
Waits == ~failed /\ m_state # "READY" /\ ~Loops

Read ==
  /\ Waits
  /\ unread' \in 1..(Len(Stream) - pos)
  /\ UNCHANGED <<frames, pos, parser, delivered, failed>>

Turn(state) == ~failed /\ m_state = state /\ Loops /\ UNCHANGED frames

Processed(n) ==
  /\ pos' = pos + n /\ unread' = unread - n

Fails == failed' = TRUE /\ UNCHANGED <<m_state, msg, m_current_msg>>

(* Mutant: nothing but a continuation may follow a fragment.               *)
RefusedHeaderOfControl(h, size, new_msg) ==
  \/ h.op = "reserved"
  \/ IsControl(h.op) /\ (size > Basic \/ ~h.fin)
  \/ (h.op = "continuation") = new_msg

(* validate_incoming_basic_header.                                         *)
RefusedHeader(h, size, new_msg) ==
  \/ IsControl(h.op) /\ size > Basic
  \/ h.op = "reserved"
  \/ IsControl(h.op) /\ ~h.fin
  \/ new_msg /\ h.op = "continuation"
  \/ ~new_msg /\ ~IsControl(h.op) /\ h.op # "continuation"

HeaderBasic ==
  /\ Turn("HEADER_BASIC")
  /\ LET n == Min(m_bytes_needed, unread)
         header == m_basic_header \o Upcoming(n)
     IN /\ Processed(n) /\ m_basic_header' = header
        /\ CASE n < m_bytes_needed ->
                   /\ m_bytes_needed' = m_bytes_needed - n
                   /\ UNCHANGED <<m_state, m_extended_header, msg, m_current_msg, failed>>
             [] n = m_bytes_needed /\ RefusedHeader(header[1], header[2], msg.data = NoMsg) ->
                   Fails /\ m_bytes_needed' = 0 /\ UNCHANGED m_extended_header
             [] OTHER ->
                   /\ m_state' = "HEADER_EXTENDED" /\ m_extended_header' = <<>>
                   /\ m_bytes_needed' = IF header[2] = Code16 THEN 2 ELSE 0
                   /\ UNCHANGED <<msg, m_current_msg, failed>>
  /\ UNCHANGED delivered

(* validate_incoming_extended_header, then a message is begun or continued *)
(* unless it would become too big.                                         *)
HeaderExtended ==
  /\ Turn("HEADER_EXTENDED")
  /\ LET n == Min(m_bytes_needed, unread)
         ext == m_extended_header \o Upcoming(n)
         op == m_basic_header[1].op
         long == m_basic_header[2] = Code16
         size == IF long THEN ext[2] ELSE m_basic_header[2]
         slot == IF IsControl(op) THEN "control" ELSE "data"
         begun == ~IsControl(op) /\ msg.data # NoMsg
         tooBig == ~IsControl(op) /\ Len(msg.data.payload) + size > MaxMessage
     IN /\ Processed(n) /\ m_extended_header' = ext
        /\ CASE n < m_bytes_needed ->
                   /\ m_bytes_needed' = m_bytes_needed - n
                   /\ UNCHANGED <<m_state, msg, m_current_msg, failed>>
             [] n = m_bytes_needed /\ ((long /\ size <= Basic) \/ tooBig) ->
                   Fails /\ m_bytes_needed' = size
             [] OTHER ->
                   /\ m_state' = "APPLICATION" /\ m_bytes_needed' = size
                   /\ m_current_msg' = slot
                   /\ msg' = IF begun THEN msg ELSE [msg EXCEPT ![slot] = [NoMsg EXCEPT !.op = op]]
                   /\ UNCHANGED failed
  /\ UNCHANGED <<m_basic_header, delivered>>

(* utf8_validator::decode.                                                 *)
Validated(utf8, bytes) ==
  LET state[n \in 0..Len(bytes)] ==
        IF n = 0 THEN utf8
        ELSE CASE state[n - 1] = "accept" /\ bytes[n] = "a"    -> "accept"
               [] state[n - 1] = "accept" /\ bytes[n] = "lead" -> "more"
               [] state[n - 1] = "more" /\ bytes[n] = "tail"   -> "accept"
               [] OTHER -> "reject"
  IN state[Len(bytes)]

(* Mutant: the basic header is kept.                                       *)
ResetHeadersHalf ==
  /\ m_state' = "HEADER_BASIC" /\ m_bytes_needed' = 2
  /\ m_extended_header' = <<>> /\ UNCHANGED m_basic_header

(* reset_headers.                                                          *)
ResetHeaders ==
  /\ m_state' = "HEADER_BASIC" /\ m_bytes_needed' = 2
  /\ m_basic_header' = <<>> /\ m_extended_header' = <<>>

(* Mutant: the headers are not reset after a fragment.                     *)
ApplicationUnreset ==
  /\ Turn("APPLICATION")
  /\ LET n == Min(m_bytes_needed, unread)
         m == msg[m_current_msg]
         utf8 == IF m.op = "text" THEN Validated(m.utf8, Upcoming(n)) ELSE m.utf8
         h == m_basic_header[1]
     IN /\ Processed(n)
        /\ IF utf8 = "reject" \/ (n = m_bytes_needed /\ h.fin /\ h.op = "text" /\ utf8 # "accept")
           THEN Fails /\ UNCHANGED <<m_bytes_needed, m_basic_header, m_extended_header>>
           ELSE /\ msg' = [msg EXCEPT ![m_current_msg] =
                             [m EXCEPT !.payload = @ \o Upcoming(n), !.utf8 = utf8]]
                /\ CASE n < m_bytes_needed ->
                           /\ m_bytes_needed' = m_bytes_needed - n
                           /\ UNCHANGED <<m_state, m_basic_header, m_extended_header>>
                     [] n = m_bytes_needed /\ h.fin ->
                           /\ m_state' = "READY" /\ m_bytes_needed' = 0
                           /\ UNCHANGED <<m_basic_header, m_extended_header>>
                     [] OTHER ->
                           /\ m_bytes_needed' = 0
                           /\ UNCHANGED <<m_state, m_basic_header, m_extended_header>>
                /\ UNCHANGED <<m_current_msg, failed>>
  /\ UNCHANGED delivered

(* process_payload_bytes, and finalize_message after the last frame, which *)
(* looks at the opcode of that frame.                                      *)
Application ==
  /\ Turn("APPLICATION")
  /\ LET n == Min(m_bytes_needed, unread)
         m == msg[m_current_msg]
         utf8 == IF m.op = "text" THEN Validated(m.utf8, Upcoming(n)) ELSE m.utf8
         h == m_basic_header[1]
     IN /\ Processed(n)
        /\ IF utf8 = "reject" \/ (n = m_bytes_needed /\ h.fin /\ h.op = "text" /\ utf8 # "accept")
           THEN Fails /\ UNCHANGED <<m_bytes_needed, m_basic_header, m_extended_header>>
           ELSE /\ msg' = [msg EXCEPT ![m_current_msg] =
                             [m EXCEPT !.payload = @ \o Upcoming(n), !.utf8 = utf8]]
                /\ CASE n < m_bytes_needed ->
                           /\ m_bytes_needed' = m_bytes_needed - n
                           /\ UNCHANGED <<m_state, m_basic_header, m_extended_header>>
                     [] n = m_bytes_needed /\ h.fin ->
                           /\ m_state' = "READY" /\ m_bytes_needed' = 0
                           /\ UNCHANGED <<m_basic_header, m_extended_header>>
                     [] OTHER -> ResetHeaders
                /\ UNCHANGED <<m_current_msg, failed>>
  /\ UNCHANGED delivered

(* get_message, and the message is dispatched.                             *)
GetMessage ==
  /\ m_state = "READY"
  /\ LET m == msg[m_current_msg]
     IN delivered' = Append(delivered, [op |-> m.op, payload |-> m.payload])
  /\ msg' = [msg EXCEPT ![m_current_msg] = NoMsg]
  /\ ResetHeaders
  /\ UNCHANGED <<frames, pos, unread, m_current_msg, failed>>

-----------------------------------------------------------------------------
Process == HeaderBasic \/ HeaderExtended \/ Application \/ GetMessage
Next == Read \/ Process
Spec == Init /\ [][Next]_vars

(* The network thread goes on with what it has read.                       *)
FairSpec == Spec /\ WF_vars(Process)

-----------------------------------------------------------------------------
(* The reference: what the first n frames say, however they are cut.       *)
(* out: the messages; part: the message begun; bad: they are in error;     *)
(* cut: a text has ended within a character.  That is an error too, but in *)
(* a message of several frames one that finalize_message overlooks, since  *)
(* it looks for the opcode of a text in the last frame; the reference      *)
(* takes note of it and reads on.                                          *)
Combined(acc, f) ==
  LET part == IF acc.part = NoMsg THEN [NoMsg EXCEPT !.op = f.op] ELSE acc.part
      whole == part.payload \o f.payload
      unended == part.op = "text" /\ f.fin /\ Validated("accept", whole) # "accept"
      ill == \/ part.op = "text" /\ Validated("accept", whole) = "reject"
             \/ unended /\ f.op = "text"
      done == [op |-> part.op, payload |-> whole]
  IN CASE acc.bad -> acc
       [] ~acc.bad /\ f.op = "ping" ->
            IF f.fin /\ ~f.long
            THEN [acc EXCEPT !.out = Append(@, [op |-> "ping", payload |-> f.payload])]
            ELSE [acc EXCEPT !.bad = TRUE]
       [] OTHER -> IF \/ f.op = "reserved" \/ (f.long /\ Len(f.payload) <= Basic)
                      \/ (f.op = "continuation") # (acc.part # NoMsg)
                      \/ Len(whole) > MaxMessage \/ ill
                   THEN [acc EXCEPT !.bad = TRUE]
                   ELSE IF f.fin THEN [acc EXCEPT !.out = Append(@, done), !.part = NoMsg,
                                                  !.cut = @ \/ unended]
                        ELSE [acc EXCEPT !.part = [part EXCEPT !.payload = whole]]

Decoded ==
  LET decoded[n \in 0..MaxFrames] ==
        IF n = 0 THEN [out |-> <<>>, part |-> NoMsg, bad |-> FALSE, cut |-> FALSE]
        ELSE Combined(decoded[n - 1], frames[n])
  IN decoded

BytesIn(n) == Len(StreamOf(frames)[n])

(* Properties.                                                             *)

(* However the bytes are cut into reads, whenever the connection waits for *)
(* more it has dispatched what the frames that have come say, in order,    *)
(* and no frame that has come is in error: nothing is held back until the  *)
(* next read, lost, or mixed up with a control frame in between.  A text   *)
(* of several frames that ends within a character is dispatched as well:   *)
(* of that, see TextsEnd.                                                  *)
Prompt ==
  Waits => \A n \in 0..MaxFrames :
             BytesIn(n) <= pos /\ (n < MaxFrames => pos < BytesIn(n + 1)) =>
               delivered = Decoded[n].out /\ ~Decoded[n].bad

(* The comment in finalize_message, "ensure that text messages end on a    *)
(* valid UTF8 code point": what has come and been dispatched has no text   *)
(* that does not.                                                          *)
TextsEnd ==
  Waits => \A n \in 0..MaxFrames :
             BytesIn(n) <= pos /\ (n < MaxFrames => pos < BytesIn(n + 1)) =>
               ~Decoded[n].cut

(* consume() fails only on a frame that is in error after those before it, *)
(* and not before what those say has been dispatched.                      *)
NoFalseAlarm ==
  failed => \A n \in 1..MaxFrames :
              BytesIn(n - 1) < pos /\ pos <= BytesIn(n) =>
                Decoded[n].bad /\ delivered = Decoded[n - 1].out

(* consume() returns: its loop, which goes on without bytes while none are *)
(* needed, always gets to where some are.                                  *)
ConsumeReturns == unread > 0 ~> Waits \/ failed
=============================================================================
