------------------------------ MODULE MCReload ------------------------------
(* Small instances of Reload: three configs that differ in the number of   *)
(* blocks, one of which binds the same key of the same device twice.       *)
EXTENDS Reload

CONSTANTS d1, k1, a, b

Block(d, c) == [id |-> d, binds |-> [k \in Keys |-> c]]

BadFiles == { Unreadable, NoDevices, IllTyped }

MCFiles ==
  BadFiles \cup
  { << Block(d1, a) >>,
    << Block(d1, a), Block(d1, b) >>,
    << Block(Wildcard, b), Block(d1, EmptyCommand) >> }

MCRebinds == { <<d1, k1, b>>, <<Wildcard, k1, a>> }
=============================================================================
