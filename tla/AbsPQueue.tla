----------------------------- MODULE AbsPQueue -----------------------------
(***************************************************************************)
(* What priority_queue.h promises: a collection of nodes with keys, to     *)
(* which a node that is not in it can be added, from which any node or the *)
(* top can be removed, and whose top is a node with the smallest key.      *)
(***************************************************************************)
EXTENDS FiniteSets

CONSTANTS Nodes, Keys, NoNode, LessEq(_, _)

VARIABLES content, \* the key of each node in the queue
          top      \* pqueue_top()

vars == <<content, top>>

Least(c) == {n \in DOMAIN c : \A m \in DOMAIN c : LessEq(c[n], c[m])}
IsTop(n, c) == IF DOMAIN c = {} THEN n = NoNode ELSE n \in Least(c)

Init == DOMAIN content = {} /\ top = NoNode

Without(n) == [m \in DOMAIN content \ {n} |-> content[m]]

Insert(n, k) == /\ n \notin DOMAIN content
                /\ content' = [m \in DOMAIN content \cup {n} |->
                                 IF m = n THEN k ELSE content[m]]
                /\ IsTop(top', content')

Remove(n) == /\ n \in DOMAIN content
             /\ content' = Without(n)
             /\ IsTop(top', content')

Next == \E n \in Nodes : Remove(n) \/ \E k \in Keys : Insert(n, k)

Spec == Init /\ [][Next]_vars
=============================================================================
