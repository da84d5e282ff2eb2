------------------------------- MODULE PQueue -------------------------------
(***************************************************************************)
(* The priority queue of src/priority_queue.c: a binary heap of node ids,  *)
(* a heap index in every node, and a stack of the ids not in use.  The     *)
(* timeout queue of a conn_worker and the queue of a storage_worker whose  *)
(* commands wait for a sync are such queues.                               *)
(***************************************************************************)
EXTENDS Naturals, FiniteSets

CONSTANTS capacity, Keys

Ids == 0 .. capacity - 1

VARIABLE queue

vars == queue

pqueue_alloc == [heap    |-> [i \in Ids |-> 0],
                 heap_id |-> [n \in Ids |-> 0], \* nodes[n].heap_id
                 key     |-> [n \in Ids |-> 0], \* nodes[n].key
                 stack   |-> [i \in Ids |-> i],
                 size    |-> 0]

Init == queue = pqueue_alloc
-----------------------------------------------------------------------------
swap_node(q, n0, n1) ==
  LET i0 == q.heap_id[n0]
      i1 == q.heap_id[n1]
  IN [q EXCEPT !.heap = [@ EXCEPT ![i0] = q.heap[i1], ![i1] = q.heap[i0]],
               !.heap_id = [@ EXCEPT ![n0] = i1, ![n1] = i0]]

\* get_parent_node and get_child_node, as the set of at most one node.
Parent(q, n) == IF q.heap_id[n] = 0 THEN {}
                ELSE {q.heap[(q.heap_id[n] - 1) \div 2]}

Child(q, n) ==
  LET c1 == 2 * q.heap_id[n] + 1
      c2 == 2 * q.heap_id[n] + 2
  IN CASE c1 >= q.size -> {}
       [] c1 < q.size /\ c2 >= q.size -> {q.heap[c1]}
       [] OTHER -> {IF q.key[q.heap[c1]] < q.key[q.heap[c2]]
                    THEN q.heap[c1] ELSE q.heap[c2]}

RECURSIVE up(_, _)
up(q, n) ==
  LET above == {p \in Parent(q, n) : q.key[p] > q.key[n]}
  IN IF above = {} THEN q
     ELSE up(swap_node(q, CHOOSE p \in above : TRUE, n), n)

RECURSIVE down(_, _)
down(q, n) ==
  LET below == {c \in Child(q, n) : q.key[c] < q.key[n]}
  IN IF below = {} THEN q
     ELSE down(swap_node(q, CHOOSE c \in below : TRUE, n), n)

\* The last entry of the heap takes the place of node n, whose id goes back
\* to the stack.
Unplugged(q, n) ==
  LET i == q.heap_id[n]
      moved == q.heap[q.size - 1]
  IN [q EXCEPT !.size = @ - 1,
               !.heap = [@ EXCEPT ![i] = moved],
               !.heap_id = [@ EXCEPT ![moved] = i],
               !.stack = [@ EXCEPT ![capacity - q.size] = n]]

\* The entry that took the place of n finds its own.
RestoreDown(q, i) == down(q, q.heap[i]) \* mutant: the entry only goes down
Restore(q, i) == LET n == q.heap[i] IN down(up(q, n), n)
-----------------------------------------------------------------------------
NextFree(q) == q.stack[capacity - q.size - 1]

pqueue_insert(k) ==
  LET n == NextFree(queue)
      placed == [queue EXCEPT !.key = [@ EXCEPT ![n] = k],
                              !.heap_id = [@ EXCEPT ![n] = queue.size],
                              !.heap = [@ EXCEPT ![queue.size] = n],
                              !.size = @ + 1]
  IN
  /\ queue.size < capacity
  /\ queue' = up(placed, n)

InQueue == {queue.heap[i] : i \in 0 .. queue.size - 1}

pqueue_remove(n) ==
  /\ n \in InQueue
  /\ queue' = Restore(Unplugged(queue, n), queue.heap_id[n])

pqueue_top == queue.heap[0]

pqueue_pop ==
  /\ queue.size > 0
  /\ LET q == Unplugged(queue, pqueue_top)
     IN queue' = down(q, q.heap[0])

Next == \/ \E k \in Keys : pqueue_insert(k)
        \/ \E n \in Ids : pqueue_remove(n)
        \/ pqueue_pop

Spec == Init /\ [][Next]_vars
-----------------------------------------------------------------------------
(* Every operation is the one on the collection of nodes, and the top has
   the smallest key after each. *)
NoNode == capacity
Collection == INSTANCE AbsPQueue
                WITH Nodes <- Ids, LessEq <- LAMBDA a, b : a <= b,
                     content <- [n \in InQueue |-> queue.key[n]],
                     top <- IF queue.size = 0 THEN NoNode ELSE pqueue_top
ImplementsCollection == Collection!Spec
=============================================================================
