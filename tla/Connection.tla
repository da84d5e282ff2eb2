----------------------------- MODULE Connection -----------------------------
(***************************************************************************)
(* A TCP connection of dw_node: the buffers of RecvBuf and SendBuf, served *)
(* by one worker in exec_request() of src/dw_node.c.  dw_poll_mod()        *)
(* replaces the interest in a socket, so a connection that waits for       *)
(* POLLOUT is not read.  The client has a limited number of requests under *)
(* way: it sends the next one when a reply has come.                       *)
(***************************************************************************)
EXTENDS Functions, FiniteSets, Sequences, Integers

CONSTANTS Msgs,       \* the messages the client sends: a sequence
          SizeOf,     \* cells of each
          ReplySize,  \* cells of the reply to each
          AnswerSets, \* which of them may be answers to FORWARDs
          BUF_SIZE,
          Defrag,     \* values of enable_defrag; FALSE for --no-defrag
          Loads       \* what clients and sockets may do, see SendBuf

ASSUME ConnConstants ==
  /\ Msgs \in Seq(Range(Msgs)) /\ IsInjective(Msgs)
  /\ Range(Msgs) \cap {"body", "stray"} = {} \* cells of SendBuf that are no header
  /\ SizeOf \in [Range(Msgs) -> Nat \ {0}]
  /\ ReplySize \in [Range(Msgs) -> Nat \ {0}]
  /\ AnswerSets \subseteq SUBSET Range(Msgs)
  /\ BUF_SIZE \in Nat
  /\ Defrag \subseteq BOOLEAN
  /\ Loads \subseteq [window : Nat, partial : BOOLEAN, errors : BOOLEAN,
                  sendfile : SUBSET Range(Msgs), select : BOOLEAN]

VARIABLES enable_defrag, answers, stream, recv_buf, recv, space, proc, req_list, pc,
          taken,                                         \* those of RecvBuf
          load, conn, open, pollout, pollin, todo, queued, wire  \* those of SendBuf

In == INSTANCE RecvBuf
Out == INSTANCE SendBuf WITH Msgs <- Range(Msgs), SizeOf <- ReplySize

recvVars == <<enable_defrag, answers, stream, recv_buf, recv, space, proc, req_list,
              pc, taken>>
sendVars == <<load, conn, open, pollout, pollin, todo, queued, wire>>
vars == <<recvVars, sendVars>>

Init == In!Init /\ Out!Init
-----------------------------------------------------------------------------
\* The client has sent the message of the n-th cell that is not received yet.
HasSent(n) ==
  \E i \in DOMAIN Msgs :
    /\ Msgs[i] = stream[n][1]
    /\ Cardinality({Msgs[j] : j \in 1 .. i} \ answers)
         <= Cardinality(Out!Sent) + load.window

\* A POLLIN event.
Receive(n) ==
  /\ Out!Listening
  /\ In!conn_recv(n) /\ HasSent(n)
  /\ Out!Heard
  /\ UNCHANGED <<load, conn, open, pollout, todo, queued, wire>>

\* conn_recv() returns 0: the err path of exec_request().
ReceiveFails ==
  /\ Out!Listening
  /\ In!RecvNoSpace /\ HasSent(1)
  /\ open' = FALSE
  /\ Out!Heard
  /\ UNCHANGED <<load, conn, pollout, todo, queued, wire>>

\* obtain_messages().
Obtain ==
  /\ open
  /\ In!Obtain \/ In!ObtainDone
  /\ UNCHANGED sendVars

\* A request comes to its REPLY: reply() starts the answer, then removes the
\* request and the message.
ReplyTo(r) ==
  /\ In!Finish(r)
  /\ Out!Reply(req_list[r].msg)

ReplyAborts(r) ==
  /\ In!AtReply(r)
  /\ Out!ReplyAborts(req_list[r].msg)
  /\ UNCHANGED recvVars

\* A POLLOUT event, and the obtain_messages() that ends exec_request().
Flush ==
  /\ pc = "poll"
  /\ Out!Flush
  /\ pc' = "obtain"
  /\ UNCHANGED <<enable_defrag, answers, stream, recv_buf, recv, space, proc, req_list, taken>>

PeerGone ==
  /\ pc = "poll"
  /\ Out!PeerGone
  /\ UNCHANGED recvVars

Next == \/ \E n \in 1 .. BUF_SIZE : Receive(n)
        \/ ReceiveFails \/ Obtain
        \/ \E r \in 1 .. Len(Msgs) : ReplyTo(r) \/ ReplyAborts(r)
        \/ Flush \/ PeerGone

\* The worker serves its events, of which a hang-up is one that stays, and
\* every request comes to its REPLY.  A socket becomes writable again and
\* again, and a send does not block forever on a connection that stays open.
Spec == /\ Init /\ [][Next]_vars
        /\ WF_vars((\E n \in 1 .. BUF_SIZE : Receive(n)) \/ ReceiveFails)
        /\ WF_vars(Obtain)
        /\ WF_vars(\E r \in 1 .. Len(Msgs) : ReplyTo(r) \/ ReplyAborts(r))
        /\ SF_vars(PeerGone)
        /\ SF_vars(Flush /\ (wire' # wire \/ ~open'))
-----------------------------------------------------------------------------
(* Neither the requests in progress nor the framing of the stream is lost
   while conn_req_remove moves what both point to and replies delay the
   reading: RequestsIntact and FramingKept of RecvBuf. *)
ReceivedIntact == In!RequestsIntact /\ In!FramingKept

\* More properties of RecvBuf and SendBuf.
EmptyBufferReceives == In!EmptyBufferReceives
StreamInOrder == Out!StreamInOrder

(* A client that waits for each reply before the next request never meets
   the assertion of reply() on the room left in the send buffer, whatever
   sendto() leaves behind or fails to send: each reply that is sent gives all
   its room back.  A stray cell, see StreamInOrder, is excepted. *)
RoomForReply ==
  open /\ load.window = 1 /\ ~Out!Slipped =>
    \A r \in DOMAIN req_list : Out!Room(conn) >= ReplySize[req_list[r].msg]

\* POLLOUT is asked for and nothing is left to send: conn_send() returns 0, for
\* which exec_request() asks for POLLOUT again, and never for POLLIN.
Stalled == pollout /\ conn.mode = "NORMAL" /\ conn.size = 0

(* Every request the client sends is received, however often the connection
   is not read because it waits for POLLOUT, and is answered to the last byte,
   unless the connection is closed.  Four things the code does are excepted,
   all in README.md: sendto() takes a part of what it is given (partial), or
   fails in a way conn_send() does not expect, after which nobody sends the
   reply (errors); the ONESHOT of exec_request() is the last the connection is
   heard of (select); and with several requests under way the connection stalls
   when a second reply sends what was left of the first. *)
EveryRequestAnswered ==
  ~load.partial /\ ~load.errors /\ ~load.select =>
    <>(\/ ~open
       \/ todo = answers /\ Len(wire) = Len(queued)
       \/ load.window > 1 /\ Stalled)
=============================================================================
