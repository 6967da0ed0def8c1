----------------------------- MODULE KeyDispatch -----------------------------
(***************************************************************************)
(* What the daemon promises of key reports, without threads, queue or      *)
(* table: the reports of a device are decided one by one in the order the  *)
(* device made them, none is skipped or decided twice, and a command is    *)
(* launched at most once for a key press, before anything else is decided. *)
(***************************************************************************)
EXTENDS Mapper

VARIABLES
  reported,  \* per device, the key reports read from it
  handled,   \* per device, how many of them have been decided
  owed,      \* the command decided and not yet launched or given up
  launches   \* how many commands have been launched

Reports == [key : Keys, press : BOOLEAN]

Init ==
  /\ reported = [d \in Devices |-> <<>>]
  /\ handled = [d \in Devices |-> 0]
  /\ owed = EmptyCommand
  /\ launches = 0

Report(d) ==
  /\ \E r \in Reports : reported' = [reported EXCEPT ![d] = Append(@, r)]
  /\ UNCHANGED <<handled, owed, launches>>

\* Only a press may owe a command; a release or a repeat owes nothing.
Decide(d) ==
  /\ owed = EmptyCommand
  /\ handled[d] < Len(reported[d])
  /\ handled' = [handled EXCEPT ![d] = @ + 1]
  /\ owed' \in IF reported[d][handled[d] + 1].press
               THEN Decisions ELSE {EmptyCommand}
  /\ UNCHANGED <<reported, launches>>

Launch ==
  /\ owed # EmptyCommand
  /\ owed' = EmptyCommand
  /\ launches' = launches + 1
  /\ UNCHANGED <<reported, handled>>

\* fork() failed: the press is lost.
GiveUp ==
  /\ owed # EmptyCommand
  /\ owed' = EmptyCommand
  /\ UNCHANGED <<reported, handled, launches>>

Next ==
  \/ \E d \in Devices : Report(d) \/ Decide(d)
  \/ Launch
  \/ GiveUp

Spec == Init /\ [][Next]_<<reported, handled, owed, launches>>
=============================================================================
