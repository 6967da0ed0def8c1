-------------------------- MODULE MCControlServer ---------------------------
(* A client that sends a command and `events` in one go, and a second one  *)
(* that subscribes or whose line throws, with two descriptor numbers to    *)
(* pass on.                                                                *)
EXTENDS ControlServer

CONSTANTS c1, c2

MCScript ==
  [c \in Clients |->
     IF c = c1 THEN <<{"command"}, {"events"}>> ELSE <<{"events", "misshapen"}>>]
=============================================================================
