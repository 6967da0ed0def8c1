----------------------------- MODULE HotReload ------------------------------
(***************************************************************************)
(* What a hot reload promises whoever looks a key up: the bindings change  *)
(* all at once, to those of a file that was read whole, or by a bind or an *)
(* unbind; only reloads that overlap may leave something else, until the   *)
(* next one that runs alone.                                               *)
(***************************************************************************)
EXTENDS Mapper

CONSTANTS Loaders, Files, Unreadable, NoDevices, Rebinds

VARIABLES
  file,       \* what the config file holds
  pending,    \* the reloads that have read the file and changed nothing yet
  read,       \* what each of them has read
  raced,      \* those of them that were pending together with another one
  bindings,   \* what a key does
  disturbed   \* the bindings are what overlapping reloads left

vars == <<file, pending, read, raced, bindings, disturbed>>

Init ==
  /\ file \in Files \cap Seq(Blocks)
  /\ pending = {}
  /\ read \in [Loaders -> {<<>>}]
  /\ raced = {}
  /\ bindings = TableOf(file)
  /\ disturbed = FALSE

Change ==
  /\ file' \in Files
  /\ UNCHANGED <<pending, read, raced, bindings, disturbed>>

Read(t) ==
  /\ file # Unreadable
  /\ pending' = pending \cup {t}
  /\ read' = [read EXCEPT ![t] = file]
  /\ raced' = IF pending \ {t} = {} THEN raced ELSE raced \cup pending'
  /\ UNCHANGED <<file, bindings, disturbed>>

\* A reload ends.
Done(t) ==
  /\ t \in pending
  /\ pending' = pending \ {t}
  /\ read' = [read EXCEPT ![t] = <<>>]
  /\ raced' = raced \ {t}
  /\ UNCHANGED file

\* A file without devices changes nothing.
Fail(t) ==
  /\ read[t] = NoDevices
  /\ Done(t)
  /\ UNCHANGED <<bindings, disturbed>>

\* A reload that ran alone installs what it has read, all of it at once.
Install(t) ==
  /\ t \notin raced
  /\ read[t] \in Seq(Blocks)
  /\ bindings' = TableOf(read[t])
  /\ disturbed' = FALSE
  /\ Done(t)

\* One that did not leaves anything.
Muddle(t) ==
  /\ t \in raced
  /\ bindings' \in Tables
  /\ disturbed' = TRUE
  /\ Done(t)

Rebind ==
  /\ \E b \in Rebinds :
       \/ bindings' = AddBinding(bindings, b[1], b[2], b[3])
       \/ bindings' = RemoveBinding(bindings, b[1], b[2])
  /\ UNCHANGED <<file, pending, read, raced, disturbed>>

\* The bindings that overlapping reloads left may give way to any others.
Decay ==
  /\ disturbed
  /\ bindings' \in Tables
  /\ UNCHANGED <<file, pending, read, raced, disturbed>>

Next ==
  \/ Change
  \/ \E t \in Loaders : Read(t) \/ Fail(t) \/ Install(t) \/ Muddle(t)
  \/ Rebind
  \/ Decay

Spec == Init /\ [][Next]_vars
=============================================================================
