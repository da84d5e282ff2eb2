------------------------------ MODULE SendBuf ------------------------------
(***************************************************************************)
(* The send buffer of a TCP connection of dw_node: conn_prepare_send_-     *)
(* message(), conn_start_send(), conn_start_sendfile(), conn_send(),       *)
(* conn_send_v2() and conn_flush() of src/connection.c, with reply() and   *)
(* the REPLY case of process_single_message, and the POLLOUT part of       *)
(* exec_request.  Sizes are in cells: a header takes one, the body of a    *)
(* message the others.  Only headers are written into the buffer, a body   *)
(* is whatever is there; the body of a SENDFILE reply comes from a file.   *)
(***************************************************************************)
EXTENDS Sequences, Integers

CONSTANTS Msgs,       \* the replies, each sent once
          SizeOf,     \* cells of each, its header included
          BUF_SIZE,
          Loads       \* what clients and sockets may do, see load

VARIABLES load,    \* window: requests a client has under way at once, see
                   \* Connection; partial: may sendto() take less than it is given?
                   \* errors: may it fail in a way the code does not expect?
                   \* sendfile: the replies in SENDFILE mode; select: is the
                   \* back end select()?
          conn,    \* the fields of conn_info_t: buf is send_buf, cur is
                   \* curr_send_buf - send_buf, size curr_send_size, file
                   \* file_remaining, mode reply_mode
          open,    \* has the connection not been forgotten?
          pollout, \* is the socket registered for POLLOUT?
          pollin,  \* the interest in POLLIN when it is not: "kept", "once" or "lost"
          todo,    \* replies not made yet
          queued,  \* history: the cells of the replies made so far
          wire     \* history: the cells given to the kernel

vars == <<load, conn, open, pollout, pollin, todo, queued, wire>>

Body == "body"
Stray == "stray" \* a cell that is no part of a reply
Cells(m) == [k \in 1 .. SizeOf[m] |-> IF k = 1 THEN m ELSE Body]
Bodies(n) == [k \in 1 .. n |-> Body]

ModeOf(m) == IF m \in load.sendfile THEN "SENDFILE" ELSE "NORMAL"

Init == /\ load \in Loads
        /\ conn = [buf |-> [k \in 0 .. BUF_SIZE - 1 |-> Body], cur |-> 0, size |-> 0,
                   file |-> 0, mode |-> "NORMAL", status |-> "READY"]
        /\ open = TRUE
        /\ pollout = FALSE /\ pollin = "kept"
        /\ todo = Msgs
        /\ queued = <<>>
        /\ wire = <<>>
-----------------------------------------------------------------------------
\* The first n cells at curr_send_buf.
Pending(c, n) == [k \in 1 .. n |-> c.buf[c.cur + k - 1]]

\* An outcome of a send: the connection after it, the cells that left, and
\* the return value.
Outcome(c, cells, ret) == [conn |-> c, cells |-> cells, ret |-> ret]

Advance(c, n) == [c EXCEPT !.cur = @ + n, !.size = @ - n]
StayBehind(c) == \* mutant: curr_send_buf is not put back
  [c EXCEPT !.status = IF @ = "SENDING" THEN "READY" ELSE @]
EmptyBuffer(c) == [c EXCEPT !.cur = 0, !.status = IF @ = "SENDING" THEN "READY" ELSE @]

\* How many cells sendto() may take; none once the peer is gone.
Takes(c) == IF c.status = "CLOSING" THEN {}
            ELSE IF load.partial THEN 1 .. c.size ELSE {c.size} \ {0}

\* What happens if a send may fail in a way the code does not expect.
Unexpected(S) == IF load.errors THEN S ELSE {}

\* conn_send(): sendto() takes n cells, would block, finds that the peer is
\* gone, or fails otherwise; with nothing to send it returns 0.
conn_send(c) ==
  {Outcome(IF n = c.size THEN EmptyBuffer(Advance(c, n)) ELSE Advance(c, n),
           Pending(c, n), n) :
     n \in Takes(c)}
  \cup {Outcome([c EXCEPT !.status = "SENDING"], <<>>, 0) : n \in Takes(c)}
  \cup {Outcome([c EXCEPT !.status = "CLOSING"], <<>>, 0)}
  \cup {Outcome(c, <<>>, 0) : n \in {c.size} \cap {0}}
  \cup Unexpected({Outcome(c, <<>>, -1)})

\* conn_send_v2() once the header is out: unless the body is empty, sendfile()
\* takes n cells, would block, finds that the peer is gone, or fails otherwise.
SendBody(c) ==
  LET header == Pending(c, c.size)
      h == Advance(c, c.size)
  IN
  {Outcome([h EXCEPT !.file = @ - n, !.status = "SENDING"], header \o Bodies(n), 0) :
     n \in 0 .. c.file - 1}
  \cup {Outcome([h EXCEPT !.file = 0, !.cur = 0, !.status = "READY"],
                header \o Bodies(c.file), 1)}
  \cup {Outcome([h EXCEPT !.status = "CLOSING"], header, -1) : n \in {c.file} \ {0}}
  \cup Unexpected({Outcome(h, header, -1) : n \in {c.file} \ {0}})

\* The header loop takes the -1 of an unexpected error for a length: the cell
\* before the header is sent too.  At most once for each header.
Slip(o) == [o EXCEPT !.cells = <<Stray>> \o @]

\* conn_send_v2(): spins until the header is out, or finds that the peer is gone.
conn_send_v2(c) ==
  (IF c.status = "CLOSING" THEN {}
   ELSE SendBody(c) \cup Unexpected({Slip(o) : o \in IF c.size = 0 THEN {} ELSE SendBody(c)}))
  \cup {Outcome([c EXCEPT !.status = "CLOSING"], <<>>, -1) : n \in {c.size + c.file} \ {0}}

conn_flush(c) == IF c.mode = "NORMAL" THEN conn_send(c) ELSE conn_send_v2(c)
-----------------------------------------------------------------------------
\* conn_prepare_send_message() and reply(): the header goes to send_buf +
\* curr_send_size.
Room(c) == BUF_SIZE - (c.cur + c.size)
AtStart(c) == 0 \* mutant: the header overwrites what is waiting
HeaderPos(c) == c.size
Prepared(c, m) == [c EXCEPT !.buf[HeaderPos(c)] = m, !.mode = ModeOf(m)]

\* conn_start_send().
conn_start_send(c, m) ==
  conn_send([c EXCEPT !.cur = IF c.size = 0 THEN 0 ELSE @, !.size = @ + SizeOf[m]])

\* conn_start_sendfile(): takes the message at the start of send_buf.
conn_start_sendfile(c, m) ==
  conn_send_v2([c EXCEPT !.cur = IF c.size = 0 THEN 0 ELSE @, !.size = 1,
                         !.file = SizeOf[m] - 1])

StartReply(c, m) == IF ModeOf(m) = "SENDFILE" THEN conn_start_sendfile(c, m)
                                              ELSE conn_start_send(c, m)

\* Replies that have been sent to their last cell.
Sent == {m \in Msgs \ todo : \E k \in DOMAIN queued : queued[k] = m
                                /\ k + SizeOf[m] - 1 <= Len(wire)}

\* A request comes to its REPLY.  POLLOUT is asked for when the socket would
\* block, and the connection is closed when the reply failed.
NotAsked(c) == pollout \* mutant: POLLOUT is not asked for after a REPLY
AskPollout(c) == pollout \/ c.status = "SENDING"

Reply(m) ==
  /\ open /\ m \in todo
  /\ Room(conn) >= SizeOf[m]
  /\ todo' = todo \ {m}
  /\ queued' = queued \o Cells(m)
  /\ \E o \in StartReply(Prepared(conn, m), m) :
       /\ conn' = o.conn
       /\ wire' = wire \o o.cells
       /\ pollout' = AskPollout(o.conn)
       /\ open' = (o.ret # 0 \/ o.conn.status = "SENDING")
  /\ UNCHANGED <<load, pollin>>

\* The assertion of reply() on the room in the buffer ends the process.
ReplyAborts(m) ==
  /\ open /\ m \in todo
  /\ Room(conn) < SizeOf[m]
  /\ open' = FALSE
  /\ UNCHANGED <<load, conn, pollout, pollin, todo, queued, wire>>

\* A POLLOUT event, which is ONESHOT: pending or failed, or finished.  Then
\* POLLIN is asked for ONESHOT too, which only select takes at its word: poll has
\* an entry, of which dw_poll_mod() drops the flag, and epoll is not given it.
Flush ==
  /\ open /\ pollout
  /\ \E o \in conn_flush(conn) :
       /\ conn' = o.conn
       /\ wire' = wire \o o.cells
       /\ pollout' = (o.ret = 0)
       /\ pollin' = IF load.select /\ o.ret > 0 THEN "once" ELSE pollin
       /\ open' = (o.ret >= 0)
  /\ UNCHANGED <<load, todo, queued>>

\* A POLLIN event.
Heard == pollin' = IF pollin = "once" THEN "lost" ELSE pollin
Listening == open /\ ~pollout /\ pollin # "lost"

\* The socket reports an error or a hang-up: the err path of exec_request.
\* With select it is an event like the others, and conn_recv() fails.
PeerGone ==
  /\ open /\ conn.status = "CLOSING"
  /\ load.select => Listening
  /\ open' = FALSE
  /\ UNCHANGED <<load, conn, pollout, pollin, todo, queued, wire>>
-----------------------------------------------------------------------------
\* A send of a header failed in a way the code does not expect.
Slipped == \E k \in DOMAIN wire : wire[k] = Stray

(* connection.h: curr_send_buf and curr_send_size are the leftover data to
   send.  What leaves the socket is the replies, each a header and its body,
   one after the other: every header is where the client will look for it.
   Other errors of conn_send_v2() on a header, which send a stray cell, are
   excepted; see README.md. *)
StreamInOrder ==
  ~Slipped =>
    /\ Len(wire) <= Len(queued)
    /\ \A k \in DOMAIN wire : queued[k] # Body => wire[k] = queued[k]
=============================================================================
