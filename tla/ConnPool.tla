------------------------------ MODULE ConnPool ------------------------------
(***************************************************************************)
(* The table conns[] of src/connection.c, shared without a lock by the     *)
(* conn_worker threads of dw_node: conn_alloc() takes a slot with an       *)
(* atomic exchange on its busy flag, conn_free() gives it back,            *)
(* close_and_forget() only invalidates it, and conn_find_existing() looks  *)
(* for a slot to forward on.  A step is what a thread does between two     *)
(* accesses to the table or to the descriptor table of the process.        *)
(***************************************************************************)
EXTENDS Integers

CONSTANTS Threads,
          MAX_CONNS,
          Socks,   \* file descriptors
          Kinds    \* "tcp", "tls": accepted; "fwdtcp", "fwdtls", "fwdudp": made
                   \* by single_start_forward, to one target

ASSUME PoolConstants ==
  /\ MAX_CONNS \in Nat
  /\ Socks \subseteq Nat
  /\ Kinds \subseteq {"tcp", "tls", "fwdtcp", "fwdtls", "fwdudp"}

Slots == 0 .. MAX_CONNS - 1

VARIABLES busy, sock, kind, server, \* fields of conns[]; server is ssl_is_server
          parent,    \* parent_thread
          fds,       \* descriptors the process has open
          at,        \* where each thread is
          id, fd, op, \* its conn_id, its socket, the kind of its connection
          mine,      \* slots each thread got from conn_alloc() and has not given up
          found      \* slots each thread got from conn_find_existing()

table == <<busy, sock, kind, server, parent>>
poolVars == <<table, fds, at, id, fd, op, mine, found>>

NoThread == "none"

PoolInit ==
  /\ busy = [i \in Slots |-> 0]
  /\ sock = [i \in Slots |-> -1]
  /\ kind = [i \in Slots |-> "none"]
  /\ server = [i \in Slots |-> FALSE]
  /\ parent = [i \in Slots |-> NoThread]
  /\ fds = {}
  /\ at = [t \in Threads |-> "idle"]
  /\ id = [t \in Threads |-> 0]
  /\ fd = [t \in Threads |-> -1]
  /\ op = [t \in Threads |-> "none"]
  /\ mine = [t \in Threads |-> {}]
  /\ found = [t \in Threads |-> {}]

Goto(t, label) == at' = [at EXCEPT ![t] = label]
-----------------------------------------------------------------------------
\* The kernel gives out a descriptor that is not open.
NewSocket(t, k, s) ==
  /\ s \in Socks \ fds
  /\ fds' = fds \cup {s}
  /\ fd' = [fd EXCEPT ![t] = s]
  /\ op' = [op EXCEPT ![t] = k]
  /\ id' = [id EXCEPT ![t] = 0]
  /\ Goto(t, "alloc")
  /\ UNCHANGED <<table, mine, found>>

\* conn_find_existing(): a TCP connection to the target, or whatever this
\* thread has allocated when the FORWARD is over UDP; never for TLS.
Existing(t, k, i) ==
  /\ sock[i] # -1
  /\ \/ k = "fwdudp" /\ parent[i] = t
     \/ k = "fwdtcp" /\ kind[i] = "fwdtcp"

FindExisting(t, k) ==
  LET hits == {i \in Slots : Existing(t, k, i)} IN
  /\ at[t] = "idle"
  /\ k \in Kinds \cap {"fwdtcp", "fwdtls", "fwdudp"}
  /\ \/ /\ \E i \in hits : /\ \A j \in hits : i <= j
                           /\ found' = [found EXCEPT ![t] = @ \cup {<<i, k>>}]
        /\ UNCHANGED <<table, fds, at, id, fd, op, mine>>
     \/ /\ hits = {}
        /\ \E s \in Socks : NewSocket(t, k, s)

\* The LISTEN event.
Accept(t, k) == /\ at[t] = "idle"
                /\ k \in Kinds \cap {"tcp", "tls"}
                /\ \E s \in Socks : NewSocket(t, k, s)
-----------------------------------------------------------------------------
\* conn_alloc(): the exchange, for one slot after the other.
TestOnly(t) == [busy EXCEPT ![id[t]] = @] \* mutant: test, then set
Exchange(t) == [busy EXCEPT ![id[t]] = 1]

TakeSlot(t) ==
  /\ at[t] = "alloc" /\ id[t] < MAX_CONNS
  /\ busy' = Exchange(t)
  /\ IF busy[id[t]] = 0
       THEN /\ mine' = [mine EXCEPT ![t] = @ \cup {id[t]}]
            /\ Goto(t, "fill")
            /\ UNCHANGED id
       ELSE /\ id' = [id EXCEPT ![t] = @ + 1]
            /\ UNCHANGED <<at, mine>>
  /\ UNCHANGED <<sock, kind, server, parent, fds, fd, op, found>>

\* conn_alloc() returns -1: no slot left.  An accepted socket goes through
\* close_and_forget(), the socket of a FORWARD is only closed.
AllocFailed(t) == Goto(t, IF op[t] \in {"tcp", "tls"} THEN "forget" ELSE "close")

NoSlot(t) ==
  /\ at[t] = "alloc" /\ id[t] = MAX_CONNS
  /\ AllocFailed(t)
  /\ UNCHANGED <<table, fds, id, fd, op, mine, found>>

\* calloc() fails: conn_alloc() returns -1 and busy stays set.
NoMemory(t) ==
  /\ at[t] = "fill"
  /\ AllocFailed(t)
  /\ mine' = [mine EXCEPT ![t] = @ \ {id[t]}]
  /\ UNCHANGED <<table, fds, id, fd, op, found>>

Fill(t) ==
  /\ at[t] = "fill"
  /\ sock' = [sock EXCEPT ![id[t]] = fd[t]]
  /\ kind' = [kind EXCEPT ![id[t]] = op[t]]
  /\ server' = [server EXCEPT ![id[t]] = FALSE]
  /\ parent' = [parent EXCEPT ![id[t]] = t]
  /\ Goto(t, IF op[t] \in {"tls", "fwdtls"} THEN "ssl" ELSE "idle")
  /\ UNCHANGED <<busy, fds, id, fd, op, mine, found>>

\* conn_enable_ssl(), or its failure in SSL_new() or SSL_set_fd().  The slot
\* is then forgotten, closed and freed; that of a FORWARD closed and freed.
EnableSsl(t) ==
  /\ at[t] = "ssl"
  /\ \/ /\ server' = [server EXCEPT ![id[t]] = (op[t] = "tls")]
        /\ Goto(t, "idle")
     \/ /\ Goto(t, IF op[t] = "tls" THEN "forget_free" ELSE "close_free")
        /\ UNCHANGED server
  /\ UNCHANGED <<busy, sock, kind, parent, fds, id, fd, op, mine, found>>
-----------------------------------------------------------------------------
\* The err path of exec_request for a connection of this thread; the socket
\* of a UDP FORWARD is never polled.
StartClose(t, i) ==
  /\ at[t] = "idle"
  /\ i \in mine[t] /\ sock[i] # -1 /\ kind[i] # "fwdudp"
  /\ fd' = [fd EXCEPT ![t] = sock[i]]
  /\ id' = [id EXCEPT ![t] = i]
  /\ Goto(t, "forget")
  /\ UNCHANGED <<table, fds, op, mine, found>>

\* conn_find_sock(): the first slot with this socket.
FoundSock(t) == {i \in Slots : sock[i] = fd[t] /\ \A j \in Slots : sock[j] = fd[t] => i <= j}

\* close_and_forget(): conn_del_sock(), then close().
NotForgotten(t) == sock \* mutant: the socket is closed, the slot keeps it
ConnDelSock(t) == [i \in Slots |-> IF i \in FoundSock(t) THEN -1 ELSE sock[i]]

Forget(t) ==
  /\ at[t] \in {"forget", "forget_free"}
  /\ sock' = ConnDelSock(t)
  /\ Goto(t, IF at[t] = "forget" THEN "close" ELSE "close_free")
  /\ mine' = [mine EXCEPT ![t] = IF at[t] = "forget" THEN @ \ FoundSock(t) ELSE @]
  /\ found' = [u \in Threads |-> {x \in found[u] : x[1] \notin FoundSock(t)}]
  /\ UNCHANGED <<busy, kind, server, parent, fds, id, fd, op>>

Close(t) ==
  /\ at[t] \in {"close", "close_free"}
  /\ fds' = fds \ {fd[t]}
  /\ Goto(t, IF at[t] = "close" THEN "idle" ELSE "free")
  /\ UNCHANGED <<table, id, fd, op, mine, found>>

\* conn_free() up to the store to busy.
Free(t) ==
  /\ at[t] = "free"
  /\ sock' = [sock EXCEPT ![id[t]] = -1]
  /\ busy' = [busy EXCEPT ![id[t]] = 0]
  /\ mine' = [mine EXCEPT ![t] = @ \ {id[t]}]
  /\ found' = [u \in Threads |-> {x \in found[u] : x[1] # id[t]}]
  /\ Goto(t, "freed")
  /\ UNCHANGED <<kind, server, parent, fds, id, fd, op>>

\* The two stores of conn_free() that come after it.
ResetFlags(t) ==
  /\ at[t] = "freed"
  /\ server' = [server EXCEPT ![id[t]] = FALSE]
  /\ Goto(t, "idle")
  /\ UNCHANGED <<busy, sock, kind, parent, fds, id, fd, op, mine, found>>

PoolNext ==
  \E t \in Threads :
    \/ \E k \in Kinds : Accept(t, k) \/ FindExisting(t, k)
    \/ TakeSlot(t) \/ NoSlot(t) \/ NoMemory(t) \/ Fill(t) \/ EnableSsl(t)
    \/ \E i \in Slots : StartClose(t, i)
    \/ Forget(t) \/ Close(t) \/ Free(t) \/ ResetFlags(t)

PoolSpec == PoolInit /\ [][PoolNext]_poolVars
-----------------------------------------------------------------------------
PoolTypeOK ==
  /\ busy \in [Slots -> {0, 1}]
  /\ sock \in [Slots -> Socks \cup {-1}]
  /\ kind \in [Slots -> Kinds \cup {"none"}]
  /\ server \in [Slots -> BOOLEAN]
  /\ parent \in [Slots -> Threads \cup {NoThread}]
  /\ fds \in SUBSET Socks
  /\ at \in [Threads -> {"idle", "alloc", "fill", "ssl", "forget", "forget_free",
                         "close", "close_free", "free", "freed"}]
  /\ id \in [Threads -> Nat]
  /\ fd \in [Threads -> Socks \cup {-1}]
  /\ op \in [Threads -> Kinds \cup {"none"}]
  /\ mine \in [Threads -> SUBSET Slots]
  /\ found \in [Threads -> SUBSET (Slots \X Kinds)]

(* No two threads ever get the same slot from conn_alloc(), whatever the
   order of their exchanges and of the stores of conn_free(). *)
SlotExclusive ==
  \A t, u \in Threads : t # u => mine[t] \cap mine[u] = {}

(* A descriptor is in at most one slot, and open as long as it is in one:
   the lookups by descriptor, conn_find_sock() and conn_del_sock(), concern
   the connection of the caller even though the kernel reuses numbers. *)
SockInOneSlot ==
  /\ \A i \in Slots : sock[i] # -1 => sock[i] \in fds
  /\ \A i, j \in Slots : sock[i] = sock[j] /\ sock[i] # -1 => i = j

(* connection.h: sock is -1 for an unused conn_info_t, and busy is 1 for an
   allocated one and 0 otherwise: the slot of a closed connection is not busy
   and can be allocated again. *)
ClosedIsNotBusy ==
  (\A t \in Threads : at[t] = "idle") =>
    \A i \in Slots : kind[i] # "none" /\ sock[i] = -1 => busy[i] = 0

(* connection.c: after the exchange in conn_alloc() the slot is thread-safe.
   What the owner of an accepted TLS connection stored in ssl_is_server is
   still there when its handshake reads it. *)
ServerFlagKept ==
  \A t \in Threads : \A i \in mine[t] :
    at[t] = "idle" /\ kind[i] = "tls" => server[i]

(* connection.c: after the exchange the slot is thread-safe.  Only the thread
   that allocated a connection uses its buffers. *)
OneUser == \A t \in Threads : \A x \in found[t] : parent[x[1]] = t

(* connection.c: conn_find_existing() returns a connection associated to the
   address it was asked for, hence one of its protocol. *)
FoundIsOfKind == \A t \in Threads : \A x \in found[t] : kind[x[1]] = x[2]
=============================================================================
