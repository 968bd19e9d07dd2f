----------------------------- MODULE PriceLevel -----------------------------
(***************************************************************************)
(* The FIFO queue of the orders at one price (src/price_level.rs): a       *)
(* doubly linked list threaded through the next and prev fields of arena   *)
(* nodes, with a cached count and a cached total quantity.  A level is a   *)
(* record head, tail, total_qty, count.  Operations that touch both the    *)
(* level and the nodes return a record of the two.                         *)
(*                                                                         *)
(* total_qty is a u64 and count a u32 in the code.  They are exact         *)
(* integers here: that they never leave their width is part of the         *)
(* invariants, not of the operators.                                       *)
(***************************************************************************)
EXTENDS Arena, Functions

Level == [head : Link, tail : Link, total_qty : Int, count : Int]

NewLevel ==
  [head |-> NULL_INDEX, tail |-> NULL_INDEX, total_qty |-> 0, count |-> 0]

IsEmpty(l) == l.count = 0

PushBack(l, nodes, i) ==
  [level |-> [head |-> IF l.tail = NULL_INDEX THEN i ELSE l.head,
              tail |-> i,
              total_qty |-> l.total_qty + nodes[i].qty,
              count |-> l.count + 1],
   nodes |-> [j \in DOMAIN nodes |->
                IF j = i
                THEN [nodes[i] EXCEPT !.prev = l.tail, !.next = NULL_INDEX]
                ELSE IF j = l.tail
                     THEN [nodes[j] EXCEPT !.next = i]
                     ELSE nodes[j]]]

\* Unlinking node i from neighbours p and n, either of which may be missing.
Unlink(nodes, i, p, n) ==
  [j \in DOMAIN nodes |->
     IF j = i THEN [nodes[i] EXCEPT !.prev = NULL_INDEX, !.next = NULL_INDEX]
     ELSE [nodes[j] EXCEPT !.next = IF j = p THEN n ELSE @,
                           !.prev = IF j = n THEN p ELSE @]]

\* pop_front of a level that is not empty; the popped node is l.head.
PopFront(l, nodes) ==
  LET i == l.head
      n == nodes[i].next
  IN  [level |-> [head |-> n,
                  tail |-> IF n = NULL_INDEX THEN NULL_INDEX ELSE l.tail,
                  total_qty |-> l.total_qty - nodes[i].qty,
                  count |-> l.count - 1],
       nodes |-> Unlink(nodes, i, NULL_INDEX, n)]

\* Mutant of Remove: the tail is not moved when the last order leaves.
RemoveKeepsTail(l, nodes, i) ==
  LET p == nodes[i].prev
      n == nodes[i].next
  IN  [level |-> [head |-> IF p = NULL_INDEX THEN n ELSE l.head,
                  tail |-> l.tail,
                  total_qty |-> l.total_qty - nodes[i].qty,
                  count |-> l.count - 1],
       nodes |-> Unlink(nodes, i, p, n)]

\* remove of any node of the level.  Its four cases (only node, head, tail,
\* middle) differ in which of head, tail and the neighbours' links they set.
Remove(l, nodes, i) ==
  LET p == nodes[i].prev
      n == nodes[i].next
  IN  [level |-> [head |-> IF p = NULL_INDEX THEN n ELSE l.head,
                  tail |-> IF n = NULL_INDEX THEN p ELSE l.tail,
                  total_qty |-> l.total_qty - nodes[i].qty,
                  count |-> l.count - 1],
       nodes |-> Unlink(nodes, i, p, n)]

\* Mutant of SubtractQty: partial fills are left to pop_front and remove.
SubtractLater(l, qty) == l

SubtractQty(l, qty) == [l EXCEPT !.total_qty = @ - qty]

-----------------------------------------------------------------------------
(* What it means for a level to be in order.                               *)

\* The nodes of a level in queue order, found by following next from head.
QueueOf(l, nodes) ==
  LET at[k \in 1 .. l.count] ==
        IF k = 1 THEN l.head
        ELSE IF at[k - 1] \in Index THEN nodes[at[k - 1]].next ELSE NULL_INDEX
  IN  at

\* The quantity of all the nodes of a set.
TotalQty(nodes, S) == SumFunctionOnSet([i \in Index |-> nodes[i].qty], S)

\* The level is a doubly linked list of distinct nodes from head to tail, it
\* is not empty, and its cached count and total are those of the list.
LevelSound(l, nodes) ==
  LET q == QueueOf(l, nodes)
  IN  /\ l.count > 0
      /\ \A k \in DOMAIN q : q[k] \in Index
      /\ \A j, k \in DOMAIN q : q[j] = q[k] => j = k
      /\ l.tail = q[l.count]
      /\ nodes[l.tail].next = NULL_INDEX
      /\ \A k \in DOMAIN q :
           nodes[q[k]].prev = IF k = 1 THEN NULL_INDEX ELSE q[k - 1]
      /\ l.total_qty = TotalQty(nodes, Range(q))
=============================================================================
