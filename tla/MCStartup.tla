----------------------------- MODULE MCStartup -----------------------------
(* Two processes after one that crashed; a mouse with two event nodes, one  *)
(* of them a pad, and a block for each.                                     *)
EXTENDS Startup, TLC

CONSTANTS p0, p1, p2

MCNodes ==
  <<[path |-> "event10", vendor_product |-> "mouse", words |-> {"wheel"}],
    [path |-> "event2", vendor_product |-> "mouse", words |-> {"pad", "wheel"}]>>

MCBlocks ==
  <<[path |-> "", vendor_product |-> "mouse", name |-> "wheel", grab |-> TRUE],
    [path |-> "", vendor_product |-> "", name |-> "pad", grab |-> FALSE]>>

MCSymmetry == Permutations({p1, p2})
=============================================================================
