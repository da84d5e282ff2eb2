------------------------------ MODULE AbsPoll ------------------------------
(***************************************************************************)
(* What the workers of dw_node may rely on in dw_poll, whatever the back   *)
(* end: the interest in a file descriptor is what the last dw_poll_add or  *)
(* dw_poll_mod asked for, until the next such call.  An event may end the  *)
(* interest in itself, of one descriptor, if that call had DW_POLLONESHOT. *)
(***************************************************************************)
CONSTANTS Fds, Events

VARIABLES interest, \* the events each descriptor is polled for
          once,     \* descriptors whose last call had DW_POLLONESHOT
          call      \* the last call: <<fd, events>>, or <<>> for an event

vars == <<interest, once, call>>

Init == interest \in [Fds -> SUBSET Events] /\ once = {} /\ call = <<>>

Ask(f, E) == /\ call' = <<f, E>>
             /\ interest' = [interest EXCEPT ![f] = E]
             /\ once' \in {once \ {f}, once \cup {f}}

Deliver(f, E) == /\ call' = <<>>
                 /\ interest' \in {interest} \cup
                       {[interest EXCEPT ![g] = @ \ E] : g \in {f} \cap once}
                 /\ UNCHANGED once

Next == \E f \in Fds, E \in SUBSET Events : Ask(f, E) \/ Deliver(f, E)

Spec == Init /\ [][Next]_vars
=============================================================================
