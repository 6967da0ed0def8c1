-------------------------- MODULE DeviceScanProofs --------------------------
(***************************************************************************)
(* Lemmas about the scan, for any nodes and blocks: each candidate keeps   *)
(* the assignment settled, and an assignment that is settled is the only   *)
(* one.                                                                    *)
(***************************************************************************)
EXTENDS DeviceScan, WellFoundedInduction, TLAPS

\* Blocks and nodes before anything was looked at (open_all's start).
LEMMA NothingSettled == Settled(NoEntries, 1, {})
BY ScanAssumption DEF Settled, NoEntries, BlockIds

\* The first free block that matches gets the node.
LEMMA SettledTaken ==
  ASSUME NEW e \in [BlockIds -> {0} \cup NodeIds], NEW n \in NodeIds,
         NEW f \in SUBSET (1..(n - 1)), Settled(e, n, f), NEW b \in BlockFor(e, n)
  PROVE  Settled([e EXCEPT ![b] = n], n + 1, f)
<1> DEFINE g == [e EXCEPT ![b] = n]
<1>1. /\ n \in Nat /\ n > 0 /\ n \notin f
      /\ b \in BlockIds /\ e[b] = 0 /\ sysfs_matches(n, b)
  BY ScanAssumption DEF NodeIds, BlockFor, Candidates
<1>2. g[b] = n /\ \A c \in BlockIds \ {b} : g[c] = e[c]
  BY <1>1
<1>3. \A c \in BlockIds : e[c] \in Nat /\ (e[c] # 0 => e[c] < n)
  BY ScanAssumption DEF NodeIds, Settled
<1>4. BlockIds \subseteq Nat
  BY ScanAssumption DEF BlockIds
<1> HIDE DEF g
<1>5. ASSUME NEW c \in BlockIds, g[c] # 0
      PROVE  g[c] < n + 1 /\ g[c] \notin f /\ sysfs_matches(g[c], c)
  BY <1>1, <1>2, <1>3, <1>5 DEF Settled
<1>6. ASSUME NEW c \in BlockIds, NEW d \in BlockIds, g[c] # 0, g[c] = g[d]
      PROVE  c = d
  BY <1>1, <1>2, <1>3, <1>6 DEF Settled
<1>7. ASSUME NEW m \in 1..n, NEW c \in BlockIds, m \notin f, sysfs_matches(m, c)
      PROVE  (g[c] # 0 /\ g[c] <= m) \/ \E d \in 1..(c - 1) : g[d] = m
  <2>1. CASE m = n /\ e[c] # 0
    BY <1>1, <1>2, <1>3, <2>1
  <2>2. CASE m = n /\ e[c] = 0
    <3>1. c \in Candidates(e, n)
      BY <1>7, <2>2 DEF Candidates
    <3>2. b <= c
      BY <3>1 DEF BlockFor
    <3>3. CASE b = c
      BY <1>1, <1>2, <2>2, <3>3
    <3>4. CASE b # c
      <4>1. b \in 1..(c - 1)
        BY <1>1, <1>4, <3>2, <3>4 DEF BlockIds
      <4> QED BY <1>2, <2>2, <4>1
    <3> QED BY <3>3, <3>4
  <2>3. CASE m # n /\ e[c] # 0 /\ e[c] <= m
    BY <1>1, <1>2, <2>3
  <2>4. CASE m # n /\ ~(e[c] # 0 /\ e[c] <= m)
    <3>1. m \in 1..(n - 1)
      BY <1>1, <2>4
    <3>2. PICK d \in 1..(c - 1) : e[d] = m
      BY <1>7, <2>4, <3>1 DEF Settled
    <3>3. d \in BlockIds /\ d # b
      BY <1>1, <1>4, <3>1, <3>2 DEF BlockIds
    <3> QED BY <1>2, <3>2, <3>3
  <2> QED BY <2>1, <2>2, <2>3, <2>4
<1>8. (n + 1) - 1 = n
  BY <1>1
<1> QED
  BY <1>5, <1>6, <1>7, <1>8 DEF Settled, g

\* A node that does not open is passed over.
LEMMA SettledFailed ==
  ASSUME NEW e \in [BlockIds -> {0} \cup NodeIds], NEW n \in NodeIds,
         NEW f \in SUBSET (1..(n - 1)), Settled(e, n, f)
  PROVE  Settled(e, n + 1, f \cup {n})
<1>1. n \in Nat /\ \A c \in BlockIds : e[c] \in Nat
  BY ScanAssumption DEF NodeIds
<1>2. \A m \in 1..((n + 1) - 1) : m \notin f \cup {n} => m \in 1..(n - 1)
  BY <1>1
<1>3. \A c \in BlockIds : e[c] # 0 => e[c] < n + 1 /\ e[c] \notin f \cup {n}
  BY <1>1 DEF Settled
<1> QED
  BY <1>2, <1>3 DEF Settled

\* A node that no free block matches is passed over.
LEMMA SettledNone ==
  ASSUME NEW e \in [BlockIds -> {0} \cup NodeIds], NEW n \in NodeIds,
         NEW f \in SUBSET (1..(n - 1)), Settled(e, n, f), Candidates(e, n) = {}
  PROVE  Settled(e, n + 1, f)
<1>1. n \in Nat /\ \A c \in BlockIds : e[c] \in Nat
  BY ScanAssumption DEF NodeIds
<1>2. \A m \in 1..((n + 1) - 1) : m = n \/ m \in 1..(n - 1)
  BY <1>1
<1>3. \A c \in BlockIds : e[c] # 0 => e[c] < n + 1 /\ e[c] <= n
  BY <1>1 DEF Settled
<1>4. \A c \in BlockIds : sysfs_matches(n, c) => e[c] # 0
  BY DEF Candidates
<1> QED
  BY <1>2, <1>3, <1>4 DEF Settled

\* Every non-empty set of numbers has a least one.
LEMMA LeastNumber ==
  ASSUME NEW S \in SUBSET Nat, S # {}
  PROVE  \E m \in S : \A k \in S : ~(k < m)
<1>1. PICK m \in S : \A k \in S : <<k, m>> \notin OpToRel(<, Nat)
  BY NatLessThanWellFounded, WFMin
<1>2. \A k \in S : ~(k < m)
  BY <1>1 DEF OpToRel
<1> QED
  BY <1>2

\* Of two settled assignments that agree on all nodes before n neither gives n to
\* a block where the other does not.
LEMMA LeastAgrees ==
  ASSUME NEW e \in [BlockIds -> {0} \cup NodeIds], NEW g \in [BlockIds -> {0} \cup NodeIds],
         NEW next, NEW f, Settled(e, next, f), Settled(g, next, f),
         NEW n \in NodeIds, NEW b \in BlockIds, e[b] = n, next \in Nat,
         \A m \in 1..(n - 1) : \A c \in BlockIds : e[c] = m <=> g[c] = m
  PROVE  g[b] = n
<1> SUFFICES ASSUME g[b] # n PROVE FALSE
  OBVIOUS
<1>1. /\ n \in Nat /\ n > 0 /\ BlockIds = 1..Len(Blocks) /\ Len(Blocks) \in Nat
      /\ \A c \in BlockIds : e[c] \in Nat /\ g[c] \in Nat
  BY ScanAssumption DEF NodeIds, BlockIds
<1>2. n \in 1..(next - 1) /\ n \notin f /\ sysfs_matches(n, b)
  BY <1>1 DEF Settled
<1>3. \A c, d \in BlockIds : (e[c] = n /\ e[d] = n => c = d) /\ (g[c] = n /\ g[d] = n => c = d)
  BY <1>1 DEF Settled
<1>4. ~(g[b] # 0 /\ g[b] <= n)
  <2> SUFFICES ASSUME g[b] # 0, g[b] <= n PROVE FALSE
    OBVIOUS
  <2>1. g[b] \in 1..(n - 1)
    BY <1>1
  <2>2. e[b] = g[b]
    BY <2>1
  <2> QED BY <2>2
<1>5. PICK c \in 1..(b - 1) : g[c] = n
  BY <1>2, <1>4 DEF Settled
<1>6. c \in BlockIds /\ c < b
  BY <1>1, <1>5
<1>7. sysfs_matches(n, c)
  BY <1>1, <1>5, <1>6 DEF Settled
<1>8. ~(e[c] # 0 /\ e[c] <= n)
  <2> SUFFICES ASSUME e[c] # 0, e[c] <= n PROVE FALSE
    OBVIOUS
  <2>1. e[c] # n
    BY <1>1, <1>3, <1>6
  <2>2. e[c] \in 1..(n - 1)
    BY <1>1, <1>6, <2>1
  <2>3. g[c] = e[c]
    BY <1>6, <2>2
  <2> QED BY <1>5, <2>1, <2>3
<1>9. PICK d \in 1..(c - 1) : e[d] = n
  BY <1>2, <1>6, <1>7, <1>8 DEF Settled
<1>10. d \in BlockIds /\ d < c
  BY <1>1, <1>6, <1>9
<1>11. d = b
  BY <1>3, <1>9, <1>10
<1> QED
  BY <1>1, <1>6, <1>10, <1>11

\* There is only one settled assignment: whoever scans the same nodes, of which
\* the same do not open, gives every block the same node
\* (devicemanager.cpp:133-174).
THEOREM SettledUnique ==
  ASSUME NEW e \in [BlockIds -> {0} \cup NodeIds], NEW g \in [BlockIds -> {0} \cup NodeIds],
         NEW next \in Nat, NEW f, Settled(e, next, f), Settled(g, next, f)
  PROVE  e = g
<1> DEFINE Differ(n) == \E b \in BlockIds : ~(e[b] = n <=> g[b] = n)
           S == {n \in NodeIds : Differ(n)}
<1>1. NodeIds \subseteq Nat /\ 0 \notin NodeIds
  BY ScanAssumption DEF NodeIds
<1>2. S = {}
  <2> SUFFICES ASSUME S # {} PROVE FALSE
    OBVIOUS
  <2>1. PICK n \in S : \A k \in S : ~(k < n)
    <3>1. S \in SUBSET Nat
      BY <1>1
    <3> HIDE DEF S
    <3> QED BY <3>1, LeastNumber
  <2>2. n \in NodeIds /\ n \in Nat /\ Differ(n)
    BY <1>1
  <2>3. \A m \in 1..(n - 1) : m \in NodeIds /\ m < n
    BY <2>2, ScanAssumption DEF NodeIds
  <2>4. \A m \in 1..(n - 1) : \A c \in BlockIds : e[c] = m <=> g[c] = m
    BY <2>1, <2>3
  <2> HIDE DEF S
  <2>5. PICK b \in BlockIds : ~(e[b] = n <=> g[b] = n)
    BY <2>2
  <2>6. CASE e[b] = n
    <3>1. g[b] = n
      BY <2>2, <2>4, <2>6, LeastAgrees
    <3> QED BY <2>5, <2>6, <3>1
  <2>7. CASE g[b] = n
    <3>1. \A m \in 1..(n - 1) : \A c \in BlockIds : g[c] = m <=> e[c] = m
      BY <2>4
    <3>2. e[b] = n
      BY <2>2, <2>7, <3>1, LeastAgrees
    <3> QED BY <2>5, <2>7, <3>2
  <2> QED BY <2>5, <2>6, <2>7
<1>3. \A b \in BlockIds : e[b] = g[b]
  <2> SUFFICES ASSUME NEW b \in BlockIds, e[b] # g[b] PROVE FALSE
    OBVIOUS
  <2>1. e[b] \in NodeIds \/ g[b] \in NodeIds
    OBVIOUS
  <2>2. Differ(e[b]) /\ Differ(g[b])
    OBVIOUS
  <2> QED BY <1>2, <2>1, <2>2
<1> QED
  BY <1>3
=============================================================================
