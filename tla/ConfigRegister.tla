-------------------------- MODULE ConfigRegister --------------------------
(***************************************************************************)
(* What the config file promises whoever opens it: a document that changes *)
(* by one whole edit at a time, made of the document that is there.        *)
(***************************************************************************)
EXTENDS ConfigDocument

VARIABLES
  document,    \* what the file under its name holds
  disturbed    \* writers overlap, or a write was cut short unnoticed

vars == <<document, disturbed>>

Init ==
  /\ document \in Documents
  /\ disturbed = FALSE

\* One request is carried out: it fits the document and leaves a valid one.  Only
\* a PUT does without a whole document.
Commit(q) ==
  /\ ~disturbed
  /\ q.op # "get"
  /\ document = Cut => q.op = "put"
  /\ Fits(q, document)
  /\ Valid(Edited(q, document))
  /\ document' = Edited(q, document)
  /\ UNCHANGED disturbed

\* Requests are in each other's way, or were until this step.  They may lose an
\* edit or cut the document, and still bring no id in twice.
Disturb ==
  /\ disturbed \/ disturbed'
  /\ disturbed' \in BOOLEAN
  /\ document' \in Texts
  /\ document = Cut \/ Valid(document) => document' = Cut \/ Valid(document')

Next == (\E q \in Queries : Commit(q)) \/ Disturb

Spec == Init /\ [][Next]_vars
=============================================================================
