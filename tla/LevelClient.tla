---------------------------- MODULE LevelClient ----------------------------
(***************************************************************************)
(* One price level (src/price_level.rs) under any client that keeps to its *)
(* contract: it pushes nodes that are in no queue, removes nodes of this   *)
(* one, tells the level when it reduces the quantity of a node, and may    *)
(* throw the level away, as clear of src/order_book.rs does with all.      *)
(*                                                                         *)
(* queue is a history variable, the queue that the level stands for.  It   *)
(* changes the way a queue should, and is never looked at by the code.     *)
(***************************************************************************)
EXTENDS PriceLevel, Sequences

Seqs == INSTANCE SequencesExt

CONSTANT Qtys   \* quantities of orders

ASSUME LevelAssumption == Qtys \subseteq U32

VARIABLES
  level,
  nodes,    \* of the arena
  queue     \* indices, oldest first

vars == <<level, nodes, queue>>

\* The nodes may hold links of a queue they were in before.
Init ==
  /\ level = NewLevel
  /\ \E n, p \in Link :
       nodes = [i \in Index |-> [EmptyNode EXCEPT !.next = n, !.prev = p]]
  /\ queue = <<>>

Queued == {queue[k] : k \in DOMAIN queue}

\* The client writes the quantity, then calls push_back.
Push(i, qty) ==
  LET pushed == PushBack(level, [nodes EXCEPT ![i].qty = qty], i)
  IN  /\ i \notin Queued
      /\ level' = pushed.level
      /\ nodes' = pushed.nodes
      /\ queue' = Append(queue, i)

\* pop_front returns None when there is no head.
Pop ==
  LET popped == PopFront(level, nodes)
  IN  /\ level.head # NULL_INDEX
      /\ level' = popped.level
      /\ nodes' = popped.nodes
      /\ queue' = Tail(queue)

RemoveAny(k) ==
  LET removed == Remove(level, nodes, queue[k])
  IN  /\ level' = removed.level
      /\ nodes' = removed.nodes
      /\ queue' = Seqs!RemoveAt(queue, k)

\* A partial fill, of any node.
Reduce(k, qty) ==
  /\ qty < nodes[queue[k]].qty
  /\ nodes' = [nodes EXCEPT ![queue[k]].qty = @ - qty]
  /\ level' = SubtractQty(level, qty)
  /\ UNCHANGED queue

\* clear drops the level with its orders still linked; the next order at the
\* price makes a new one.
Clear ==
  /\ level' = NewLevel
  /\ queue' = <<>>
  /\ UNCHANGED nodes

Next ==
  \/ \E i \in Index, qty \in Qtys : Push(i, qty)
  \/ Pop
  \/ \E k \in DOMAIN queue : RemoveAny(k)
  \/ \E k \in DOMAIN queue, qty \in Qtys : Reduce(k, qty)
  \/ Clear

Spec == Init /\ [][Next]_vars

-----------------------------------------------------------------------------

\* The links are those of the queue, in both directions, from head to tail:
\* whichever of its cases remove takes (price_level.rs:131), the order that is
\* matched next is the oldest, and no order is skipped or matched twice.
LinksSound ==
  LET n == Len(queue)
  IN  /\ level.count = n
      /\ level.head = IF n = 0 THEN NULL_INDEX ELSE queue[1]
      /\ level.tail = IF n = 0 THEN NULL_INDEX ELSE queue[n]
      /\ \A j, k \in 1 .. n : queue[j] = queue[k] => j = k
      /\ \A k \in 1 .. n :
           /\ nodes[queue[k]].prev = IF k = 1 THEN NULL_INDEX ELSE queue[k - 1]
           /\ nodes[queue[k]].next = IF k = n THEN NULL_INDEX ELSE queue[k + 1]

\* The cached total is that of the nodes in the queue, partial fills included.
TotalExact ==
  level.total_qty = TotalQty(nodes, Queued)
=============================================================================
