-------------------------- MODULE ConfigDocument --------------------------
(***************************************************************************)
(* The config file as a document, the set of its device blocks, and what   *)
(* the requests of the web bridge make of it: the checks of ConfigStore.cc *)
(* and the edits of the routes in frontend/main.cpp.                       *)
(***************************************************************************)
EXTENDS Naturals

CONSTANTS
  Blocks,       \* device blocks, records with an id
  Documents,    \* what the file holds at first and what PUT /api/config sends
  Cut           \* the content of a file that is not whole

ASSUME DocumentAssumption ==
  /\ Documents \subseteq SUBSET Blocks
  /\ Cut \notin SUBSET Blocks

\* What a file may hold.
Texts == (SUBSET Blocks) \cup {Cut}

\* What a request may ask for.  One whose block validateDevice refuses is answered
\* at once and is not shown.
Edits == {"post", "update", "delete"}
NoQuery == [op |-> "get"]
Queries ==
  [op : {"put"}, doc : Documents] \cup [op : Edits, block : Blocks] \cup {NoQuery}

\* validate: no id twice.
Unique(d) == \A b, e \in d : b.id = e.id => b = e

\* Deviation: ids may repeat.
ValidWhatever(d) == TRUE
Valid(d) == Unique(d)

HasId(d, id) == \E b \in d : b.id = id

\* Of two blocks with an id that is asked for, one comes first in the file.
First(q, d) == CHOOSE b \in d : b.id = q.block.id

\* An addition needs a new id, an update and a removal one that is there.  An update
\* that makes the first a copy of the second is refused like any that leaves two with
\* an id, which a set would not show.
Fits(q, d) ==
  \/ q.op = "put"
  \/ q.op = "post" /\ ~HasId(d, q.block.id)
  \/ q.op = "update" /\ HasId(d, q.block.id) /\ q.block \notin d \ {First(q, d)}
  \/ q.op = "delete" /\ HasId(d, q.block.id)

\* What a request makes of document d.
Edited(q, d) ==
  CASE q.op = "put" -> q.doc
    [] q.op = "post" -> d \cup {q.block}
    [] q.op = "update" -> (d \ {First(q, d)}) \cup {q.block}
    [] q.op = "delete" -> {b \in d : b.id # q.block.id}
=============================================================================
