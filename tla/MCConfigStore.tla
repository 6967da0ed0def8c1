--------------------------- MODULE MCConfigStore ---------------------------
(* Two requests at a time on two device ids, one of them in two versions.  *)
EXTENDS ConfigStore, TLC

CONSTANTS r1, r2, i1, i2, i3

MCBlocks ==
  {[id |-> "mouse", version |-> 1], [id |-> "mouse", version |-> 2],
   [id |-> "pad", version |-> 1]}

\* A plain document and one with an id twice.
MCDocuments ==
  {{[id |-> "mouse", version |-> 1]},
   {[id |-> "mouse", version |-> 1], [id |-> "mouse", version |-> 2]}}

MCSymmetry == Permutations({i1, i2, i3}) \cup Permutations({r1, r2})
=============================================================================
