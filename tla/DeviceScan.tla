---------------------------- MODULE DeviceScan -----------------------------
(***************************************************************************)
(* How DeviceManager::open_all gives event nodes to device blocks: nodes in*)
(* the order of their path names, each to the first block that matches it  *)
(* and has no node yet.                                                    *)
(***************************************************************************)
EXTENDS Naturals, Sequences

CONSTANTS
  Nodes,   \* the event nodes by path: records with path, vendor_product, words
  Blocks,  \* the device blocks of the configuration, in the order of the file
  Unset    \* an empty string

ASSUME ScanAssumption == Len(Nodes) \in Nat /\ Len(Blocks) \in Nat

NodeIds == 1..Len(Nodes)
BlockIds == 1..Len(Blocks)

\* entries_ as a function: the node each block has, 0 for none.
NoEntries == [b \in BlockIds |-> 0]

\* A path in the block decides alone.  words holds what a node's name contains.
sysfs_matches(n, b) ==
  LET node == Nodes[n]
      match == Blocks[b]
  IN IF match.path # Unset
     THEN node.path = match.path
     ELSE \/ match.vendor_product # Unset /\ node.vendor_product = match.vendor_product
          \/ match.name # Unset /\ match.name \in node.words

Candidates(entries, n) == {b \in BlockIds : entries[b] = 0 /\ sysfs_matches(n, b)}

\* Deviation: the last block that matches takes the node.
LastBlockFor(entries, n) ==
  {b \in Candidates(entries, n) : \A c \in Candidates(entries, n) : c <= b}

\* The blocks node n may be given to: the first that matches, or none.
BlockFor(entries, n) ==
  {b \in Candidates(entries, n) : \A c \in Candidates(entries, n) : b <= c}

\* What the nodes before `next`, except those that did not open, should have got:
\* no block and node that match would both do better with one another.
Settled(entries, next, failed) ==
  /\ \A b \in BlockIds : entries[b] # 0 =>
       /\ entries[b] < next /\ entries[b] \notin failed
       /\ sysfs_matches(entries[b], b)
  /\ \A b, c \in BlockIds : entries[b] # 0 /\ entries[b] = entries[c] => b = c
  /\ \A n \in 1..(next - 1), b \in BlockIds :
       n \notin failed /\ sysfs_matches(n, b) =>
         \/ entries[b] # 0 /\ entries[b] <= n
         \/ \E c \in 1..(b - 1) : entries[c] = n
=============================================================================
