------------------------------- MODULE Proxy -------------------------------
(***************************************************************************)
(* dw_proxy of src/dw_proxy.c: main() accepts connections, and for each    *)
(* flow a sender and a receiver thread relay the two streams and end each  *)
(* other.  Both threads close both descriptors.  A file stays open while   *)
(* its descriptor is open or a read() of it is under way, and the kernel   *)
(* gives out the lowest free descriptor.  Delays are steps that come late. *)
(* Streams are sequences of chunks; a read() takes some, a write() one.    *)
(***************************************************************************)
EXTENDS Sequences, FiniteSets, Integers

CONSTANTS NConns,    \* connections of clients
          MAX_FLOWS,
          Loads      \* what peers do, see load

Conns == 1 .. NConns

ASSUME ProxyConstants ==
  /\ {NConns, MAX_FLOWS} \subseteq Nat
  /\ \A l \in Loads : /\ l.orderly \in BOOLEAN
                      /\ l.requests \in Seq(Nat) /\ Len(l.requests) <= NConns

Roles == {"sender", "receiver"}
Ends == {"client", "server"}
Files == Conns \X Ends     \* the two sockets of each flow
NoFile == <<0, "none">>
Fds == 1 .. 2 * NConns     \* the listening socket is not among them

VARIABLES load,     \* requests: how many chunks each client sends; orderly:
                    \* clients close after the last reply, and servers after
                    \* the proxy, else they come and go as they like
          n_flows,
          flows,    \* fd_client and fd_server of each slot
          slot,     \* p_flow of the threads of each connection
          fds,      \* what each descriptor refers to
          thread,   \* where the threads are, the file that a read() holds,
                    \* and what is left to write
          input,    \* per file: chunks that the peer sent and nobody read
          answered, \* per connection: chunks that the server has sent
          left,     \* per file: has the peer closed its end?
          out,      \* history: chunks written to each file
          exited,   \* has the proxy ended?
          hurried   \* history: was a descriptor given out while one thread of
                    \* a flow had closed its descriptors and the other had not?

env == <<load, input, answered, left>>
vars == <<env, n_flows, flows, slot, fds, thread, out, exited, hurried>>

\* The n-th chunk that the peer of a file sends.
Chunk(f, n) == <<f, n>>

\* Chunks that the client of a connection sends.
Requests(k) == IF k \in DOMAIN load.requests THEN load.requests[k] ELSE 0

Idle(pc) == [pc |-> pc, file |-> NoFile, buf |-> <<>>]

Init == /\ load \in Loads
        /\ n_flows = 0
        /\ flows = [s \in 1 .. MAX_FLOWS |-> [client |-> 0, server |-> 0]]
        /\ slot = [k \in Conns |-> 0]
        /\ fds = [d \in Fds |-> NoFile]
        /\ thread = [k \in Conns |-> [r \in Roles |-> Idle("none")]]
        /\ input = [f \in Files |->
                      IF f[2] = "client" THEN [n \in 1 .. Requests(f[1]) |-> Chunk(f, n)]
                      ELSE <<>>]
        /\ answered = [k \in Conns |-> 0]
        /\ left = [f \in Files |-> FALSE]
        /\ out = [f \in Files |-> <<>>]
        /\ exited = FALSE
        /\ hurried = FALSE
-----------------------------------------------------------------------------
Flow(k) == flows[slot[k]]

\* The end that a thread reads, and the one it writes.
Source(r) == IF r = "sender" THEN "client" ELSE "server"
Target(r) == IF r = "sender" THEN "server" ELSE "client"

\* The file behind a descriptor of the flow; NoFile gives EBADF.
FileOf(k, end) == IF Flow(k)[end] = 0 THEN NoFile ELSE fds[Flow(k)[end]]

\* Is a file open, or being read?
IsOpen(f) == \/ \E d \in Fds : fds[d] = f
             \/ \E k \in Conns, r \in Roles : thread[k][r].file = f

\* A thread that may still use the descriptors of its flow.
Active(k, r) == thread[k][r].pc \in {"read", "reading", "write", "close_server",
                                     "close_client"}

\* A flow of which one thread closed a descriptor that the other may use.
HalfClosed(k) == \E r \in Roles, end \in Ends :
                   Active(k, r) /\ FileOf(k, end) = NoFile

LowestFree == CHOOSE d \in Fds : fds[d] = NoFile
                                 /\ \A e \in 1 .. d - 1 : fds[e] # NoFile

Hurry == hurried' = (hurried \/ \E k \in Conns : HalfClosed(k))

\* The index that main() uses for a new flow.
NewSlot(n) == n + 1

\* A client connects and main() accepts, in the order of Conns.
Accept(k) ==
  /\ ~exited
  /\ k \in DOMAIN load.requests
  /\ k = Cardinality({j \in Conns : slot[j] # 0}) + 1
  /\ IF n_flows < MAX_FLOWS
       THEN /\ slot' = [slot EXCEPT ![k] = NewSlot(n_flows)]
            /\ n_flows' = n_flows + 1
            /\ fds' = [fds EXCEPT ![LowestFree] = <<k, "client">>]
            /\ flows' = [flows EXCEPT ![NewSlot(n_flows)].client = LowestFree]
            /\ thread' = [thread EXCEPT ![k]["sender"] = Idle("connect")]
            /\ Hurry
            /\ UNCHANGED exited
       ELSE /\ exited' = TRUE
            /\ UNCHANGED <<slot, n_flows, fds, flows, thread, hurried>>
  /\ UNCHANGED <<env, out>>

\* do_connect() in sender(), and the creation of the receiver.  When the
\* server refuses, the sender returns.
Connect(k) ==
  /\ ~exited /\ thread[k]["sender"].pc = "connect"
  /\ flows' = [flows EXCEPT ![slot[k]].server = LowestFree]
  /\ fds' = [fds EXCEPT ![LowestFree] = <<k, "server">>]
  /\ \/ thread' = [thread EXCEPT ![k] = [r \in Roles |-> Idle("read")]]
     \/ ~load.orderly /\ thread' = [thread EXCEPT ![k]["sender"] = Idle("done")]
  /\ Hurry
  /\ UNCHANGED <<env, n_flows, slot, out, exited>>
-----------------------------------------------------------------------------
Goto(k, r, pc) == thread' = [thread EXCEPT ![k][r] = Idle(pc)]

\* read(): finds the file, and waits for input or for the end of it.
ReadStart(k, r) ==
  /\ ~exited /\ thread[k][r].pc = "read"
  /\ LET f == FileOf(k, Source(r)) IN
     IF f = NoFile
       THEN Goto(k, r, "close_server")
       ELSE thread' = [thread EXCEPT ![k][r] = [Idle("reading") EXCEPT !.file = f]]
  /\ UNCHANGED <<env, n_flows, flows, slot, fds, out, exited, hurried>>

ReadData(k, r, n) ==
  LET f == thread[k][r].file IN
  /\ ~exited /\ thread[k][r].pc = "reading"
  /\ n \in 1 .. Len(input[f])
  /\ thread' = [thread EXCEPT ![k][r] =
                  [Idle("write") EXCEPT !.buf = SubSeq(input[f], 1, n)]]
  /\ input' = [input EXCEPT ![f] = SubSeq(@, n + 1, Len(@))]
  /\ UNCHANGED <<load, answered, left, n_flows, flows, slot, fds, out, exited, hurried>>

ReadEnd(k, r) ==
  LET f == thread[k][r].file IN
  /\ ~exited /\ thread[k][r].pc = "reading"
  /\ input[f] = <<>> /\ left[f]
  /\ Goto(k, r, "close_server")
  /\ UNCHANGED <<env, n_flows, flows, slot, fds, out, exited, hurried>>

\* What is left of a buffer of which a chunk was written.
FromTheStart(buf) == SubSeq(buf, 1, Len(buf) - 1) \* mutant: each write() takes the buffer's start
Rest(buf) == Tail(buf)

\* A round of the loop of write().  A closed descriptor fails check(); a peer
\* that is gone takes nothing, or SIGPIPE ends the proxy.
Write(k, r) ==
  LET f == FileOf(k, Target(r))
      rest == Rest(thread[k][r].buf)
  IN
  /\ ~exited /\ thread[k][r].pc = "write"
  /\ \/ /\ f # NoFile
        /\ out' = [out EXCEPT ![f] = IF left[f] THEN @
                                     ELSE Append(@, Head(thread[k][r].buf))]
        /\ IF rest = <<>> THEN Goto(k, r, "read")
           ELSE thread' = [thread EXCEPT ![k][r].buf = rest]
        /\ UNCHANGED exited
     \/ /\ f # NoFile => left[f]
        /\ exited' = TRUE
        /\ UNCHANGED <<out, thread>>
  /\ UNCHANGED <<env, n_flows, flows, slot, fds, hurried>>
-----------------------------------------------------------------------------
\* The steps of a thread after its loop: both close both descriptors, and the
\* sender ends the receiver.
NoSignal(r, pc) == \* mutant: the sender waits for the receiver at once
  CASE pc = "close_server" -> "close_client"
    [] pc = "close_client" -> IF r = "sender" THEN "join" ELSE "done"
NoClientClose(r, pc) == \* mutant: a thread leaves the socket of the client open
  CASE pc = "close_server" -> IF r = "sender" THEN "kill" ELSE "done"
    [] pc = "kill" -> "join"
After(r, pc) == CASE pc = "close_server" -> "close_client"
                  [] pc = "close_client" -> IF r = "sender" THEN "kill" ELSE "done"
                  [] pc = "kill" -> "join"

Closing == [server |-> "close_server", client |-> "close_client"]

Close(k, r, end) ==
  /\ ~exited /\ thread[k][r].pc = Closing[end]
  /\ fds' = [d \in Fds |-> IF d = Flow(k)[end] THEN NoFile ELSE fds[d]]
  /\ Goto(k, r, After(r, Closing[end]))
  /\ UNCHANGED <<env, n_flows, flows, slot, out, exited, hurried>>

\* pthread_kill(): the read() that SIGUSR1 interrupts is started again.
Kill(k) ==
  /\ ~exited /\ thread[k]["sender"].pc = "kill"
  /\ thread' = [thread EXCEPT ![k] =
       [sender |-> Idle(After("sender", "kill")),
        receiver |-> IF @["receiver"].pc = "reading" THEN Idle("read") ELSE @["receiver"]]]
  /\ UNCHANGED <<env, n_flows, flows, slot, fds, out, exited, hurried>>

Join(k) ==
  /\ ~exited /\ thread[k]["sender"].pc = "join"
  /\ thread[k]["receiver"].pc = "done"
  /\ Goto(k, "sender", "done")
  /\ UNCHANGED <<env, n_flows, flows, slot, fds, out, exited, hurried>>
-----------------------------------------------------------------------------
\* The server answers what comes to it.  A client has sent its requests when
\* it is accepted.
ServerAnswers(k) ==
  LET f == <<k, "server">> IN
  /\ ~left[f] /\ answered[k] < Len(out[f])
  /\ answered' = [answered EXCEPT ![k] = @ + 1]
  /\ input' = [input EXCEPT ![f] = Append(@, Chunk(f, answered[k] + 1))]
  /\ UNCHANGED <<load, left, n_flows, flows, slot, fds, thread, out, exited, hurried>>

\* A peer closes its end: an orderly client after the last reply, an orderly
\* server when the proxy has closed.
PeerCloses(k, end) ==
  /\ slot[k] # 0 /\ ~left[<<k, end>>]
  /\ load.orderly => IF end = "client"
                  THEN Len(out[<<k, "client">>]) = Requests(k)
                  ELSE ~IsOpen(<<k, "server">>) /\ Flow(k).server # 0
  /\ left' = [left EXCEPT ![<<k, end>>] = TRUE]
  /\ UNCHANGED <<load, input, answered, n_flows, flows, slot, fds, thread, out, exited, hurried>>

Step(k, r) == \/ ReadStart(k, r) \/ ReadEnd(k, r) \/ Write(k, r)
              \/ \E n \in 1 .. Requests(k) : ReadData(k, r, n)
              \/ \E end \in Ends : Close(k, r, end)
              \/ r = "sender" /\ (Connect(k) \/ Kill(k) \/ Join(k))

Threads == \E k \in Conns, r \in Roles : Step(k, r)

Next == \/ Threads
        \/ \E k \in Conns : \/ Accept(k) \/ ServerAnswers(k)
                            \/ \E end \in Ends : PeerCloses(k, end)

\* Threads run while any can; peers need do nothing.
Spec == Init /\ [][Next]_vars /\ WF_vars(Threads)
-----------------------------------------------------------------------------
(* Each end of a flow is given what the other end of the same flow sent, in
   order, however it is fragmented; as long as main() or a sender was given no
   descriptor between the closes of the two threads of a flow, for the late
   one then reads, writes or closes a socket of another flow. *)
RelaysInOrder ==
  ~hurried => \A k \in Conns, r \in Roles :
    LET got == out[<<k, Target(r)>>] IN
    \A n \in DOMAIN got : got[n] = Chunk(<<k, Source(r)>>, n)

(* Once a thread of a connected flow is through with its closes, no descriptor
   refers to the sockets of the flow any more, in whatever order the two
   threads close them and however often; also when the kernel has given one
   of the numbers that they close to another flow in between. *)
Closed(k, r, end) == thread[k][r].pc \in {"kill", "join", "done"}
                       => \A d \in Fds : fds[d] # <<k, end>>
SocketsClosed ==
  \A k \in Conns, r \in Roles, end \in Ends :
    thread[k]["receiver"].pc # "none" => Closed(k, r, end)

(* test_proxy_threads.sh: the threads of a flow are gone once its client is.
   The receiver waits in a read() of a file that its own read() keeps open;
   the signal is what makes it look again.  The proxy stays up meanwhile if
   the peers are orderly and not too many. *)
ThreadsEnd ==
  \A k \in Conns : left[<<k, "client">>] ~>
    \/ hurried
    \/ exited /\ (~load.orderly \/ n_flows = MAX_FLOWS)
    \/ \A r \in Roles : thread[k][r].pc \in {"none", "done"}
=============================================================================
