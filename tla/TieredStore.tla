---- MODULE TieredStore ----
(***************************************************************************)
(* What the tiered KV cache promises its callers, with no page table, no   *)
(* linked list and no file:                                                *)
(*   - a store of (layer, position) cells that reads back what was last    *)
(*     written, whichever pages have gone to disk meanwhile;               *)
(*   - at most RamPageLimit pages in memory, and the page that leaves is   *)
(*     the one used the longest time ago.                                  *)
(* PagedKVCache implements it.                                             *)
(***************************************************************************)
EXTENDS Naturals, Sequences

CONSTANTS Layers, Tokens, BlockSize, MaxPages, RamPageLimit, Zero

VARIABLES
  store,     \* what each (layer, position) holds: its K row and its V row
  recency    \* the pages in memory, the most recently used first

Pages     == 0 .. MaxPages - 1
Positions == 0 .. MaxPages * BlockSize - 1

Init ==
  /\ store = [c \in Layers \X Positions |-> [k |-> Zero, v |-> Zero]]
  /\ recency = <<>>

InMemory(p) == \E i \in DOMAIN recency : recency[i] = p

\* A cell is written only while its page is the most recently used one.
Write(l, pos, t) ==
  /\ recency # <<>>
  /\ Head(recency) = pos \div BlockSize
  /\ store' = [store EXCEPT ![<<l, pos>>] = [k |-> <<"k", t>>, v |-> <<"v", t>>]]
  /\ UNCHANGED recency

\* A page enters memory at the front, if there is room for it.
Bring(p) ==
  /\ ~InMemory(p)
  /\ Len(recency) < RamPageLimit
  /\ recency' = <<p>> \o recency
  /\ UNCHANGED store

\* A use moves a page from wherever it is to the front.
Use(p) ==
  /\ \E i \in DOMAIN recency :
       /\ recency[i] = p
       /\ recency' = <<p>> \o SubSeq(recency, 1, i - 1) \o SubSeq(recency, i + 1, Len(recency))
  /\ UNCHANGED store

\* Room is made only when memory is full, by the least recently used page.
EvictLeastRecent ==
  /\ recency # <<>>
  /\ Len(recency) >= RamPageLimit
  /\ recency' = SubSeq(recency, 1, Len(recency) - 1)
  /\ UNCHANGED store

Next ==
  \/ \E l \in Layers, pos \in Positions, t \in Tokens : Write(l, pos, t)
  \/ \E p \in Pages : Bring(p) \/ Use(p)
  \/ EvictLeastRecent

Spec == Init /\ [][Next]_<<store, recency>>
====
