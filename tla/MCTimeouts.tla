----------------------------- MODULE MCTimeouts -----------------------------
(* The timeouts of a worker over the collection of AbsPQueue, or the heap that
   implements this collection on its own. *)
EXTENDS Timeouts

CONSTANTS capacity, Keys

VARIABLES part, \* what a behaviour is about
          queue \* the heap

Heap == INSTANCE PQueue

ASSUME HeapConstants == capacity \in Nat \ {0} /\ Keys \subseteq Nat

MCInit == Init /\ Heap!Init /\ part \in {"timeouts", "heap"}
MCNext == \/ part = "timeouts" /\ Next /\ UNCHANGED <<part, queue>>
          \/ part = "heap" /\ Heap!Next /\ UNCHANGED <<part, vars>>
MCFairness == /\ WF_vars(part = "timeouts" /\ Tick)
              /\ WF_vars(part = "timeouts" /\ (HandleExpired \/ HandleMissing))
              /\ WF_vars(part = "timeouts" /\ \E micros \in Durations : Retry(micros))
MCSpec == MCInit /\ [][MCNext]_<<part, queue, vars>> /\ MCFairness

\* What is beyond the ends of the heap and of the stack, and the fields of a
\* free node, are written before they are read.
InUse == <<part, vars, queue.size,
           [i \in 0 .. queue.size - 1 |->
              <<queue.heap[i], queue.key[queue.heap[i]],
                queue.heap_id[queue.heap[i]]>>],
           [i \in 0 .. capacity - queue.size - 1 |-> queue.stack[i]]>>

\* The property of PQueue.
ImplementsCollection == Heap!ImplementsCollection

\* Six entries are needed for a removal whose replacement has to go up; three
\* keys give it a smaller key than its parent, and ties.
MCKeys == 1 .. 3
=============================================================================
