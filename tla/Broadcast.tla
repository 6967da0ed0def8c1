----------------------------- MODULE Broadcast ------------------------------
(***************************************************************************)
(* What the event stream promises a subscriber (pfctl events, the bridge's *)
(* streamEvents): from the first press it is told of, it is told of every  *)
(* press once and in order, until its feed ends for good.                  *)
(***************************************************************************)
EXTENDS Naturals, Sequences

CONSTANTS Clients

VARIABLES
  published,  \* how many presses there were
  feed        \* for each client the presses it was told of

Init ==
  /\ published = 0
  /\ feed = [c \in Clients |-> <<>>]

Publish ==
  /\ published' = published + 1
  /\ UNCHANGED feed

\* The press is the first of the feed or the one after its last.
Tell(c) ==
  /\ \/ feed[c] = <<>>
     \/ feed[c][Len(feed[c])] + 1 = published
  /\ feed' = [feed EXCEPT ![c] = Append(@, published)]
  /\ UNCHANGED published

Next == Publish \/ \E c \in Clients : Tell(c)

Spec == Init /\ [][Next]_<<published, feed>>
=============================================================================
