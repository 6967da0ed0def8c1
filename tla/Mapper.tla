------------------------------- MODULE Mapper -------------------------------
(***************************************************************************)
(* The binding table of the daemon: which command a key of a device runs.  *)
(* Translates src/src/mapper.cpp and the part of src/src/config.cpp that    *)
(* fixes what one block of the "devices" array contributes.                *)
(*                                                                         *)
(* table_ is a map of maps, id -> key code -> command.  Here it is total:   *)
(* Unbound stands for an id or a key that has no entry, so that an id with *)
(* an empty inner map and an id with none are the same table, as they are  *)
(* for lookup.  A command is a value of Commands; EmptyCommand is the      *)
(* empty string, which the table may hold and which is never executed.     *)
(***************************************************************************)
EXTENDS Naturals, Sequences

CONSTANTS
  Devices,       \* ids of the devices the daemon has opened
  Keys,          \* the key codes that name_to_code knows
  Commands,      \* the non-empty shell commands
  Wildcard,      \* the id "*"
  EmptyCommand,  \* the empty string as a command
  Unbound        \* no entry in the table

ASSUME MapperAssumption ==
  /\ Wildcard \notin Devices
  /\ EmptyCommand \notin Commands
  /\ Unbound \notin Commands
  /\ Unbound # EmptyCommand

Ids == Devices \cup {Wildcard}

Decisions == Commands \cup {EmptyCommand}

Cells == Decisions \cup {Unbound}

Tables == [Ids -> [Keys -> Cells]]

\* A DeviceConfig: the id of a block of the config file and its bindings.
\* Keys the block does not name, or names wrongly, are Unbound.
Blocks == [id : Ids, binds : [Keys -> Cells]]

EmptyTable == [d \in Ids |-> [k \in Keys |-> Unbound]]

-----------------------------------------------------------------------------
(* Lookups *)

\* The exact entry of the device, else the wildcard's entry, else none.
Lookup(tbl, d, k) ==
  IF tbl[d][k] # Unbound THEN tbl[d][k] ELSE tbl[Wildcard][k]

\* What the multiplexer makes of it: no entry counts as the empty command.
Resolve(tbl, d, k) ==
  IF Lookup(tbl, d, k) = Unbound THEN EmptyCommand ELSE Lookup(tbl, d, k)

-----------------------------------------------------------------------------
(* Updates *)

AddBinding(tbl, d, k, c) == [tbl EXCEPT ![d][k] = c]

RemoveBinding(tbl, d, k) == [tbl EXCEPT ![d][k] = Unbound]

\* One iteration of init(): the entries of a block overwrite those of the
\* blocks before it, the others stay.
MergeDevice(tbl, block) ==
  [tbl EXCEPT ![block.id] =
     [k \in Keys |-> IF block.binds[k] # Unbound THEN block.binds[k] ELSE @[k]]]

-----------------------------------------------------------------------------
(* What the table of a config is, stated without the loop that builds it:  *)
(* of the first n blocks, the last one that binds the key decides.         *)

Binders(blocks, n, d, k) ==
  {i \in 1..n : blocks[i].id = d /\ blocks[i].binds[k] # Unbound}

LastOf(S) == CHOOSE i \in S : \A j \in S : j <= i

TableUpTo(blocks, n) ==
  [d \in Ids |-> [k \in Keys |->
     IF Binders(blocks, n, d, k) = {}
     THEN Unbound
     ELSE blocks[LastOf(Binders(blocks, n, d, k))].binds[k]]]

TableOf(blocks) == TableUpTo(blocks, Len(blocks))
=============================================================================
