----------------------------- MODULE AbsStorage -----------------------------
(***************************************************************************)
(* What a conn_worker relies on in the storage threads, and what module    *)
(* NodeForward assumes of them: a command that was handed over and is      *)
(* waited for is acknowledged at most once, to the worker that handed it   *)
(* over, a STORE only once it is on the disk.  Acknowledgements are        *)
(* counted, so that a second one is a step of its own and not allowed.     *)
(***************************************************************************)
EXTENDS Naturals

CONSTANTS Workers, Cmds,
          Waited, \* the commands somebody waits for
          Stores, \* the commands that are STOREs
          Owner   \* the worker of each command

VARIABLES storage, \* handed over and not acknowledged
          acks,    \* acknowledgements each worker has had of each command
          durable  \* on the disk

vars == <<storage, acks, durable>>

Init == /\ storage = {}
        /\ acks = [x \in Workers \X Cmds |-> 0]
        /\ durable = {}

Hand(c) == /\ c \notin storage
           /\ acks[Owner[c], c] = 0
           /\ storage' = storage \cup {c}
           /\ UNCHANGED <<acks, durable>>

Sync(D) == durable' = durable \cup D /\ UNCHANGED <<storage, acks>>

Ack(c) == /\ c \in storage
          /\ c \in Stores => c \in durable
          /\ storage' = storage \ {c}
          /\ acks' = [acks EXCEPT ![<<Owner[c], c>>] = @ + 1]
          /\ UNCHANGED durable

Next == \/ \E c \in Waited : Hand(c) \/ Ack(c)
        \/ \E D \in SUBSET Stores : Sync(D)

Spec == Init /\ [][Next]_vars
=============================================================================
