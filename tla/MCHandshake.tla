---------------------------- MODULE MCHandshake ----------------------------
(* Instances of Handshake for TLC: who may call Connect(), and how often.  *)
EXTENDS Handshake

OnceEach == [p \in Controls |-> 1]
=============================================================================
