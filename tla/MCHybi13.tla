------------------------------ MODULE MCHybi13 ------------------------------
(* The frames a server may send, for TLC: messages in one frame and in     *)
(* fragments, cut in the middle of a character too; control frames; every  *)
(* kind of error.                                                          *)
EXTENDS Hybi13

Short(op, fin, payload) == [op |-> op, fin |-> fin, long |-> FALSE, payload |-> payload]
Long(op, fin, payload) == [op |-> op, fin |-> fin, long |-> TRUE, payload |-> payload]

SomeFrames ==
  { Short("text", TRUE, <<>>), Short("text", TRUE, <<"lead">>),
    Long("text", TRUE, <<"lead", "tail">>), Long("text", TRUE, <<"a">>),
    Short("text", FALSE, <<"a">>), Short("text", FALSE, <<"lead">>),
    Short("binary", FALSE, <<"tail">>),
    Short("continuation", FALSE, <<"a">>), Short("continuation", TRUE, <<"tail">>),
    Short("continuation", TRUE, <<>>), Long("continuation", TRUE, <<"a", "a">>),
    Short("ping", TRUE, <<>>), Short("ping", TRUE, <<"a">>),
    Short("ping", FALSE, <<>>), Long("ping", TRUE, <<"a", "a">>),
    Short("reserved", TRUE, <<>>) }
=============================================================================
