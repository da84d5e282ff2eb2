----------------------------- MODULE AbsEngine -----------------------------
(***************************************************************************)
(* What the clients of dw_node may rely on, whatever peers, timers and     *)
(* storage threads do.  Each request gets a number of its own and stays    *)
(* with the connection it came from.  It ends once: with its one REPLY,    *)
(* without one, or together with its connection.  The end of a connection  *)
(* ends its own requests, all of them, and those of no other.              *)
(***************************************************************************)
EXTENDS Naturals

CONSTANTS Clients, Ids

VARIABLES next,    \* the number of the next request
          open,    \* the requests being served: <<number, client>>
          replied, \* how many REPLYs each request got
          conn     \* the connection of each client

vars == <<next, open, replied, conn>>

Init == /\ next = 0
        /\ open = {}
        /\ replied = [i \in Ids |-> 0]
        /\ conn = [c \in Clients |-> "new"]

Connect(c) == /\ conn[c] = "new"
              /\ conn' = [conn EXCEPT ![c] = "open"]
              /\ UNCHANGED <<next, open, replied>>

Receive(c) == /\ conn[c] = "open"
              /\ next' = next + 1
              /\ open' = open \cup {<<next, c>>}
              /\ UNCHANGED <<replied, conn>>

Reply(r) == /\ replied[r[1]] = 0
            /\ replied' = [replied EXCEPT ![r[1]] = 1]
            /\ open' = open \ {r}
            /\ UNCHANGED <<next, conn>>

Abandon(r) == /\ open' = open \ {r}
              /\ UNCHANGED <<next, replied, conn>>

\* A connection may also end because a request on it is refused, which
\* uses up a number.
Disconnect(c) == /\ conn[c] = "open"
                 /\ conn' = [conn EXCEPT ![c] = "closed"]
                 /\ open' = {r \in open : r[2] # c}
                 /\ next' \in {next, next + 1}
                 /\ UNCHANGED replied

Next == \/ \E c \in Clients : Connect(c) \/ Receive(c) \/ Disconnect(c)
        \/ \E r \in open : Reply(r) \/ Abandon(r)

Spec == Init /\ [][Next]_vars
=============================================================================
