------------------------------ MODULE MCBridge ------------------------------
(* A page and a user that share an IO loop; the queue is cut above one line. *)
EXTENDS Bridge
=============================================================================
