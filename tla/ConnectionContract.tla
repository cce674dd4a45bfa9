------------------------- MODULE ConnectionContract -------------------------
(***************************************************************************)
(* What class Signal is told about one websocketpp connection: which of    *)
(* its handlers (OnOpen, OnFail, OnClose) are called, and in which order.  *)
(* An attempt is reported once, as opened or as failed; one that is opened *)
(* is closed at most once; and nothing comes after that.  The exception is *)
(* a botched connection, which is terminated and opened all the same: its  *)
(* OnOpen is followed by OnFail too, once, before or after OnClose.        *)
(***************************************************************************)
EXTENDS Naturals, Sequences

VARIABLES told,      \* the handlers called so far, in order
          botched    \* the connection that was opened had been terminated

Heard(handler) == \E i \in 1..Len(told) : told[i] = handler

Init == told = <<>> /\ botched = FALSE

Opens == told = <<>> /\ told' = <<"open">> /\ botched' \in BOOLEAN

Fails ==
  /\ (told = <<>> \/ botched) /\ ~Heard("fail")
  /\ told' = Append(told, "fail") /\ UNCHANGED botched

Closes ==
  /\ Heard("open") /\ ~Heard("close")
  /\ told' = Append(told, "close") /\ UNCHANGED botched

Next == Opens \/ Fails \/ Closes

Spec == Init /\ [][Next]_<<told, botched>>
=============================================================================
