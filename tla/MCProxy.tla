------------------------------ MODULE MCProxy ------------------------------
(* Orderly peers, one more than there is room for; or two flows of peers that
   come and go, which is enough for one to be given the descriptors of the
   other.  Requests are read together or not.  A behaviour ends where the
   proxy does. *)
EXTENDS Proxy

MCLoads == {[orderly |-> TRUE, requests |-> <<2, 1, 0>>],
            [orderly |-> FALSE, requests |-> <<1, 0>>]}

MCNext == ~exited /\ Next
MCSpec == Init /\ [][MCNext]_vars /\ WF_vars(Threads)
=============================================================================
