---------------------------- MODULE MapperProofs ----------------------------
(***************************************************************************)
(* Lemmas about the binding table: its updates yield tables, and merging   *)
(* the blocks of a config one after the other yields the table in which    *)
(* the last block that binds a key decides.                                *)
(***************************************************************************)
EXTENDS Mapper, WellFoundedInduction, TLAPS

\* Every non-empty set of positions has a last one.
LEMMA LastOfIsLast ==
  ASSUME NEW n \in Nat, NEW S \in SUBSET (1..n), S # {}
  PROVE  LastOf(S) \in S /\ \A j \in S : j <= LastOf(S)
<1> DEFINE T == {n - i : i \in S}
           R == OpToRel(<, Nat)
<1>1. T \subseteq Nat /\ T # {}
  <2>1. \A i \in S : i \in 1..n /\ n - i \in Nat
    OBVIOUS
  <2>2. T \subseteq Nat
    BY <2>1
  <2>3. PICK i \in S : TRUE
    OBVIOUS
  <2>4. n - i \in T
    BY <2>3
  <2> QED BY <2>2, <2>4
<1>2. PICK x \in T : \A y \in T : <<y, x>> \notin R
  <2> HIDE DEF T
  <2> QED BY <1>1, WFMin, NatLessThanWellFounded
<1>3. \A y \in T : ~ (y < x)
  BY <1>1, <1>2 DEF OpToRel
<1>4. PICK i \in S : x = n - i
  BY <1>2
<1>5. \A j \in S : j <= i
  BY <1>1, <1>3, <1>4
<1> QED
  BY <1>4, <1>5 DEF LastOf

\* The table of the first n blocks is a table.
LEMMA TableUpToType ==
  ASSUME NEW blocks \in Seq(Blocks), NEW n \in 0..Len(blocks)
  PROVE  TableUpTo(blocks, n) \in Tables
<1> SUFFICES ASSUME NEW d \in Ids, NEW k \in Keys, Binders(blocks, n, d, k) # {}
             PROVE  blocks[LastOf(Binders(blocks, n, d, k))].binds[k] \in Cells
  BY DEF TableUpTo, Tables, Cells
<1>1. LastOf(Binders(blocks, n, d, k)) \in 1..n
  <2> DEFINE S == Binders(blocks, n, d, k)
  <2>1. S \in SUBSET (1..n) /\ S # {} /\ n \in Nat
    BY DEF Binders
  <2> HIDE DEF S
  <2>2. LastOf(S) \in S
    BY <2>1, LastOfIsLast
  <2> QED BY <2>1, <2>2 DEF S
<1>2. blocks[LastOf(Binders(blocks, n, d, k))] \in Blocks
  BY <1>1
<1> QED
  BY <1>2 DEF Blocks

LEMMA TableOfType ==
  ASSUME NEW blocks \in Seq(Blocks)
  PROVE  TableOf(blocks) \in Tables
BY TableUpToType DEF TableOf

\* The updates of the table yield tables.
LEMMA UpdateTypes ==
  ASSUME NEW tbl \in Tables
  PROVE  /\ EmptyTable \in Tables
         /\ \A d \in Ids, k \in Keys, c \in Decisions : AddBinding(tbl, d, k, c) \in Tables
         /\ \A d \in Ids, k \in Keys : RemoveBinding(tbl, d, k) \in Tables
         /\ \A b \in Blocks : MergeDevice(tbl, b) \in Tables
<1>1. EmptyTable \in Tables
  BY DEF EmptyTable, Tables, Cells
<1>2. ASSUME NEW d \in Ids, NEW k \in Keys, NEW c \in Cells
      PROVE  [tbl EXCEPT ![d][k] = c] \in Tables
  BY DEF Tables
<1>3. ASSUME NEW b \in Blocks
      PROVE  MergeDevice(tbl, b) \in Tables
  BY DEF Tables, Blocks, MergeDevice
<1> QED
  BY <1>1, <1>2, <1>3 DEF AddBinding, RemoveBinding, Cells

\* No block: nothing is bound.
LEMMA TableUpToNone ==
  ASSUME NEW blocks \in Seq(Blocks)
  PROVE  TableUpTo(blocks, 0) = EmptyTable
BY DEF TableUpTo, EmptyTable, Binders

\* One turn of the loop of init adds exactly one block.
LEMMA MergeIsNext ==
  ASSUME NEW blocks \in Seq(Blocks), NEW n \in Nat, n < Len(blocks)
  PROVE  MergeDevice(TableUpTo(blocks, n), blocks[n + 1]) = TableUpTo(blocks, n + 1)
<1> DEFINE b == blocks[n + 1]
           Old(d, k) == Binders(blocks, n, d, k)
           New(d, k) == Binders(blocks, n + 1, d, k)
<1>1. b \in Blocks
  OBVIOUS
<1>2. ASSUME NEW d \in Ids, NEW k \in Keys
      PROVE  MergeDevice(TableUpTo(blocks, n), b)[d][k] = TableUpTo(blocks, n + 1)[d][k]
  <2>1. CASE d = b.id /\ b.binds[k] # Unbound
    <3>1. n + 1 \in New(d, k) /\ \A j \in New(d, k) : j <= n + 1
      BY <2>1 DEF Binders
    <3>2. LastOf(New(d, k)) = n + 1
      BY <3>1 DEF LastOf, Binders
    <3>3. TableUpTo(blocks, n + 1)[d][k] = b.binds[k]
      BY <3>1, <3>2 DEF TableUpTo
    <3>4. MergeDevice(TableUpTo(blocks, n), b)[d][k] = b.binds[k]
      BY <2>1 DEF MergeDevice, TableUpTo
    <3> QED BY <3>3, <3>4
  <2>2. CASE ~ (d = b.id /\ b.binds[k] # Unbound)
    <3>1. New(d, k) = Old(d, k)
      BY <2>2 DEF Binders
    <3>2. TableUpTo(blocks, n + 1)[d][k] = TableUpTo(blocks, n)[d][k]
      BY <3>1 DEF TableUpTo
    <3>3. MergeDevice(TableUpTo(blocks, n), b)[d][k] = TableUpTo(blocks, n)[d][k]
      BY <2>2 DEF MergeDevice, TableUpTo
    <3> QED BY <3>2, <3>3
  <2> QED BY <2>1, <2>2
<1>3. MergeDevice(TableUpTo(blocks, n), b) \in Tables /\ TableUpTo(blocks, n + 1) \in Tables
  BY <1>1, TableUpToType, UpdateTypes
<1> QED
  BY <1>2, <1>3 DEF Tables

-----------------------------------------------------------------------------
(* What a press of a key runs after a bind or an unbind                    *)

\* A bind decides for its own id and key, and a bind of the wildcard for the devices
\* that have no entry of their own; an empty command is an entry, which keeps the
\* wildcard's from them.  Nothing else changes (Mapper::bind and lookup, value_or
\* in EventMultiplexer::run).
THEOREM BindTakesEffect ==
  ASSUME NEW tbl \in Tables, NEW d \in Ids, NEW k \in Keys, NEW c \in Decisions
  PROVE  LET new == AddBinding(tbl, d, k, c)
         IN /\ Resolve(new, d, k) = c
            /\ \A e \in Devices \ {d} :
                 Resolve(new, e, k) =
                   IF d = Wildcard /\ tbl[e][k] = Unbound THEN c ELSE Resolve(tbl, e, k)
            /\ \A e \in Ids, j \in Keys \ {k} : Resolve(new, e, j) = Resolve(tbl, e, j)
<1> DEFINE new == AddBinding(tbl, d, k, c)
<1>1. \A e \in Ids, j \in Keys : new[e][j] = IF e = d /\ j = k THEN c ELSE tbl[e][j]
  BY DEF AddBinding, Tables
<1>2. c # Unbound /\ Wildcard \in Ids /\ Devices \subseteq Ids /\ Wildcard \notin Devices
  BY MapperAssumption DEF Decisions, Ids
<1> HIDE DEF new
<1>3. Resolve(new, d, k) = c
  BY <1>1, <1>2 DEF Resolve, Lookup
<1>4. ASSUME NEW e \in Devices \ {d}
      PROVE  Resolve(new, e, k) =
               IF d = Wildcard /\ tbl[e][k] = Unbound THEN c ELSE Resolve(tbl, e, k)
  BY <1>1, <1>2 DEF Resolve, Lookup
<1>5. ASSUME NEW e \in Ids, NEW j \in Keys \ {k}
      PROVE  Resolve(new, e, j) = Resolve(tbl, e, j)
  BY <1>1, <1>2 DEF Resolve, Lookup
<1> QED
  BY <1>3, <1>4, <1>5 DEF new

\* An unbind of a device's key gives the key back to the wildcard, one of the
\* wildcard's leaves it to the devices with entries of their own; nothing else
\* changes (Mapper::unbind and lookup).
THEOREM UnbindTakesEffect ==
  ASSUME NEW tbl \in Tables, NEW d \in Ids, NEW k \in Keys
  PROVE  LET new == RemoveBinding(tbl, d, k)
         IN /\ d # Wildcard => Resolve(new, d, k) = Resolve(tbl, Wildcard, k)
            /\ \A e \in Devices \ {d} :
                 Resolve(new, e, k) =
                   IF d = Wildcard /\ tbl[e][k] = Unbound THEN EmptyCommand
                   ELSE Resolve(tbl, e, k)
            /\ \A e \in Ids, j \in Keys \ {k} : Resolve(new, e, j) = Resolve(tbl, e, j)
<1> DEFINE new == RemoveBinding(tbl, d, k)
<1>1. \A e \in Ids, j \in Keys : new[e][j] = IF e = d /\ j = k THEN Unbound ELSE tbl[e][j]
  BY DEF RemoveBinding, Tables
<1>2. Wildcard \in Ids /\ Devices \subseteq Ids /\ Wildcard \notin Devices
  BY MapperAssumption DEF Ids
<1> HIDE DEF new
<1>3. d # Wildcard => Resolve(new, d, k) = Resolve(tbl, Wildcard, k)
  BY <1>1, <1>2 DEF Resolve, Lookup
<1>4. ASSUME NEW e \in Devices \ {d}
      PROVE  Resolve(new, e, k) =
               IF d = Wildcard /\ tbl[e][k] = Unbound THEN EmptyCommand
               ELSE Resolve(tbl, e, k)
  BY <1>1, <1>2 DEF Resolve, Lookup
<1>5. ASSUME NEW e \in Ids, NEW j \in Keys \ {k}
      PROVE  Resolve(new, e, j) = Resolve(tbl, e, j)
  BY <1>1, <1>2 DEF Resolve, Lookup
<1> QED
  BY <1>3, <1>4, <1>5 DEF new
=============================================================================
