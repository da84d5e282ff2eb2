------------------------------ MODULE RecvBuf ------------------------------
(***************************************************************************)
(* The receive buffer of a connection of dw_node: conn_recv(),             *)
(* conn_prepare_recv_message(), the loop of obtain_messages(), and         *)
(* conn_req_add() and conn_req_remove() with its defragmentation.  Sizes   *)
(* are in cells; the first cell of a message is its header, which holds    *)
(* req_size.  Requests stay in the buffer until their REPLY is made;       *)
(* answers to FORWARDs are dealt with at once.                             *)
(***************************************************************************)
EXTENDS Sequences, Integers

CONSTANTS Msgs,      \* the messages the peer sends: a sequence
          SizeOf,    \* cells of each
          AnswerSets, \* which of them may be answers to FORWARDs
          BUF_SIZE,
          Defrag     \* values of enable_defrag; FALSE for --no-defrag

VARIABLES enable_defrag,
          answers,  \* the answers to FORWARDs among the messages
          stream,   \* cells the peer has sent and the node has not received
          recv_buf, \* the buffer
          recv,     \* curr_recv_buf - recv_buf
          space,    \* curr_recv_size
          proc,     \* curr_proc_buf - recv_buf
          req_list, \* the requests, newest first, with message_ptr - recv_buf
          pc,       \* "poll", "obtain" or "closed"
          taken     \* history: the messages obtained

vars == <<enable_defrag, answers, stream, recv_buf, recv, space, proc, req_list, pc, taken>>

Empty == <<"none", 0>>
Cells(m) == [k \in 1 .. SizeOf[m] |-> <<m, k>>]

\* What the peer sends up to the end of the i-th message.
UpTo[i \in 0 .. Len(Msgs)] == IF i = 0 THEN <<>> ELSE UpTo[i - 1] \o Cells(Msgs[i])

Init == /\ enable_defrag \in Defrag
        /\ answers \in AnswerSets
        /\ stream = UpTo[Len(Msgs)]
        /\ recv_buf = [k \in 0 .. BUF_SIZE - 1 |-> Empty]
        /\ recv = 0 /\ space = BUF_SIZE /\ proc = 0
        /\ req_list = <<>>
        /\ pc = "poll"
        /\ taken = <<>>
-----------------------------------------------------------------------------
\* A POLLIN event and conn_recv(): recvfrom() takes some of what is there.
conn_recv(n) ==
  /\ pc = "poll"
  /\ n \in 1 .. Len(stream) /\ n <= space
  /\ recv_buf' = [k \in DOMAIN recv_buf |->
                    IF k \in recv .. recv + n - 1 THEN stream[k - recv + 1] ELSE recv_buf[k]]
  /\ recv' = recv + n
  /\ space' = space - n
  /\ stream' = SubSeq(stream, n + 1, Len(stream))
  /\ pc' = "obtain"
  /\ UNCHANGED <<enable_defrag, answers, proc, req_list, taken>>

\* With no space left recvfrom() returns 0, as for a closed connection.
RecvNoSpace ==
  /\ pc = "poll"
  /\ stream # <<>> /\ space = 0
  /\ pc' = "closed"
  /\ UNCHANGED <<enable_defrag, answers, stream, recv_buf, recv, space, proc, req_list, taken>>
-----------------------------------------------------------------------------
\* Is the room of request r given back?  (Mutant: only that of the newest.)
ReclaimsNewest(r) == enable_defrag /\ r = 1
Reclaims(r) == enable_defrag

\* The requests that came after request r, with their pointers.
MovePrev(r) == [j \in 1 .. r - 1 |-> [req_list[j] EXCEPT !.ptr = @ - SizeOf[req_list[r].msg]]]
MoveNone(r) == SubSeq(req_list, 1, r - 1) \* mutant: pointers are not updated
Newer(r) == IF Reclaims(r) THEN MovePrev(r) ELSE SubSeq(req_list, 1, r - 1)

\* memmove() of what lies behind the message at p, s cells long, up to end.
Moved(p, s, end) ==
  [k \in DOMAIN recv_buf |-> IF k \in p .. end - s - 1 THEN recv_buf[k + s] ELSE recv_buf[k]]

\* conn_req_remove() of the request at position r of the list.
conn_req_remove(r) ==
  LET s == SizeOf[req_list[r].msg] IN
  /\ req_list' = Newer(r) \o SubSeq(req_list, r + 1, Len(req_list))
  /\ IF Reclaims(r)
       THEN /\ recv_buf' = Moved(req_list[r].ptr, s, recv)
            /\ recv' = recv - s
            /\ proc' = proc - s
            /\ space' = space + s
       ELSE UNCHANGED <<recv_buf, recv, proc, space>>

\* conn_prepare_recv_message(): is there a whole message at curr_proc_buf?
Complete == /\ proc < recv
            /\ proc + SizeOf[recv_buf[proc][1]] <= recv

\* One round of obtain_messages().  An answer is dealt with, a request is
\* added to the list; processing may come to its REPLY at once, see Finish.
Obtain ==
  LET m == recv_buf[proc][1] IN
  /\ pc = "obtain" /\ Complete
  /\ proc' = proc + SizeOf[m]
  /\ taken' = Append(taken, m)
  /\ req_list' = IF m \in answers THEN req_list
                 ELSE <<[msg |-> m, ptr |-> proc]>> \o req_list
  /\ UNCHANGED <<enable_defrag, answers, stream, recv_buf, recv, space, pc>>

ObtainDone ==
  /\ pc = "obtain" /\ ~Complete
  /\ pc' = "poll"
  /\ UNCHANGED <<enable_defrag, answers, stream, recv_buf, recv, space, proc, req_list, taken>>

\* A request comes to its REPLY: the newest one while it is obtained, any one
\* when an answer, a storage acknowledgement or a timeout resumes it.
AtReply(r) ==
  /\ r \in DOMAIN req_list
  /\ pc = "obtain" => r = 1 \/ taken[Len(taken)] \in answers
  /\ pc # "closed"

Finish(r) ==
  /\ AtReply(r)
  /\ conn_req_remove(r)
  /\ UNCHANGED <<enable_defrag, answers, stream, pc, taken>>
-----------------------------------------------------------------------------
(* The cells of a request stay where its message_ptr points until its REPLY,
   whatever requests before or after it are removed and moved meanwhile. *)
RequestsIntact ==
  \A r \in DOMAIN req_list :
    LET q == req_list[r] IN
    \A k \in 1 .. SizeOf[q.msg] : recv_buf[q.ptr + k - 1] = <<q.msg, k>>

(* curr_proc_buf is always at the header of the next message, however the
   stream is cut into segments: the messages are obtained in the order they
   were sent, none twice and none skipped. *)
FramingKept ==
  /\ Len(taken) <= Len(Msgs) /\ taken = SubSeq(Msgs, 1, Len(taken))
  /\ proc < recv => recv_buf[proc] = <<Msgs[Len(taken) + 1], 1>>
  /\ proc <= recv /\ recv + space = BUF_SIZE

(* dw_node.c: connection buffers are defragmented for incoming messages
   unless --no-defrag is given.  A connection that only requests come in on
   is then not closed for lack of space when none is left in its buffer; see
   README.md for the answers to FORWARDs. *)
EmptyBufferReceives ==
  enable_defrag /\ answers = {} /\ pc = "closed" => req_list # <<>>
=============================================================================
