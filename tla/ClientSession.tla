--------------------------- MODULE ClientSession ---------------------------
(***************************************************************************)
(* A client thread of src/dw_client.c: thread_receiver, which opens a      *)
(* connection per session, starts a thread_sender for it, counts replies   *)
(* and ends the session, and the senders it has started.  The two share    *)
(* usecs_send[] and usecs_elapsed[] without a lock.                        *)
(***************************************************************************)
EXTENDS Integers, FiniteSets

CONSTANTS num_pkts, pkts_per_session,
          Settings, \* options and surroundings of the client, see opt
          MaxConns  \* bound on the connections made

ASSUME ClientConstants ==
  /\ pkts_per_session \in Nat \ {0}
  /\ num_pkts \in Nat /\ num_pkts % pkts_per_session = 0
  /\ Settings \subseteq [per_session_output : BOOLEAN, nonblock : BOOLEAN,
                         tls : BOOLEAN, fits : BOOLEAN, batch : Nat \ {0},
                         partial : BOOLEAN, room : Nat \ {0}]
  /\ \A o \in Settings : o.tls => o.nonblock
  /\ MaxConns \in Nat

Pkts == 0 .. num_pkts - 1
None == -1
\* Connections, numbered in the order they are made.
Conns == 0 .. MaxConns - 1

VARIABLES opt, \* options use_per_session_output, conn_nonblock and TLS;
               \* fits: does every packet fit in the buffer, with its commands?
               \* batch: replies that may come with one conn_recv();
               \* partial: may conn_recv() end inside the header of a reply?
               \* room: replies that fit in the receive buffer of a connection
          pc,         \* of thread_receiver
          ok, failed, \* num_success, num_error + num_timedout
          pkt_i, i_incr,
          conn_id,    \* the connection of the session, or None
          used,       \* connections made so far
          up,         \* connections the node has not closed
          recvd,      \* replies in the receive buffer of conn_id
          sender,     \* thread_sender of each connection
          asked,      \* requests the node has got on each connection
          usecs_send, usecs_elapsed, \* the packet last stamped, or timed, or None
          output      \* results given to output_result()

counts == <<ok, failed>>
arrays == <<usecs_send, usecs_elapsed>>
vars == <<opt, pc, counts, pkt_i, i_incr, conn_id, used, up, recvd, sender, asked,
          arrays, output>>

idx(p) == IF opt.per_session_output THEN p % pkts_per_session ELSE p
Cells == {idx(p) : p \in Pkts}
NoSender == [st |-> "none", first |-> 0, i |-> 0]

Init == /\ opt \in Settings
        /\ pc = "head"
        /\ ok = 0 /\ failed = 0
        /\ pkt_i = 0 /\ i_incr = 0
        /\ conn_id = None /\ used = 0 /\ up = {} /\ recvd = 0
        /\ sender = [c \in Conns |-> NoSender]
        /\ asked = [c \in Conns |-> {}]
        /\ usecs_send = [k \in Cells |-> None]
        /\ usecs_elapsed = [k \in Cells |-> None]
        /\ output = {}
-----------------------------------------------------------------------------
\* The packet thread_sender is at.  Mutant: it is numbered from 0 in each session.
PktInSession(c) == sender[c].i
Pkt(c) == sender[c].first + sender[c].i

\* thread_sender stamps the packet ...
Stamp(c) ==
  /\ sender[c].st = "run"
  /\ usecs_send' = [usecs_send EXCEPT ![idx(Pkt(c))] = Pkt(c)]
  /\ usecs_elapsed' = [usecs_elapsed EXCEPT ![idx(Pkt(c))] = None]
  /\ sender' = [sender EXCEPT ![c].st = "stamped"]
  /\ UNCHANGED <<opt, pc, counts, pkt_i, i_incr, conn_id, used, up, recvd, asked, output>>

\* ... sends it, and goes on to the next.  On a connection that the node has
\* closed the send may still succeed, and a result of -1 passes for success.
NextPktShort(c) == \* mutant: the last packet of the session is not sent
  [sender EXCEPT ![c].i = @ + 1,
     ![c].st = IF sender[c].i + 1 >= pkts_per_session - 1 THEN "done" ELSE "run"]
NextPkt(c) ==
  [sender EXCEPT ![c].i = @ + 1,
     ![c].st = IF sender[c].i + 1 = pkts_per_session THEN "done" ELSE "run"]

Send(c) ==
  /\ sender[c].st = "stamped"
  /\ asked' = IF c \in up THEN [asked EXCEPT ![c] = @ \cup {Pkt(c)}] ELSE asked
  /\ sender' = NextPkt(c)
  /\ UNCHANGED <<opt, pc, counts, pkt_i, i_incr, conn_id, used, up, recvd, arrays, output>>

\* conn_start_send() returns 0, on EPIPE or EAGAIN: the sender terminates.
SendFails(c) ==
  /\ sender[c].st = "stamped"
  /\ c \notin up \/ opt.nonblock
  /\ sender' = [sender EXCEPT ![c].st = "done"]
  /\ UNCHANGED <<opt, pc, counts, pkt_i, i_incr, conn_id, used, up, recvd, asked, arrays,
                 output>>

\* The packet is too large, or ccmd_dump() fails: it is not sent.
Drop(c) ==
  /\ sender[c].st = "stamped"
  /\ ~opt.fits
  /\ sender' = NextPkt(c)
  /\ UNCHANGED <<opt, pc, counts, pkt_i, i_incr, conn_id, used, up, recvd, asked, arrays,
                 output>>

\* The node goes away.
NodeCloses(c) ==
  /\ c \in up
  /\ up' = up \ {c}
  /\ UNCHANGED <<opt, pc, counts, pkt_i, i_incr, conn_id, used, recvd, sender, asked, arrays,
                 output>>
-----------------------------------------------------------------------------
\* The packets left in the session are counted as errors.
\* Mutant: those already counted are counted again.
SkipAll == pkts_per_session
SkipPkts == pkts_per_session - (pkt_i % pkts_per_session)

\* The head of the loop of thread_receiver.
LoopHead ==
  LET n == ok + failed IN
  /\ pc = "head"
  /\ pkt_i' = n
  /\ pc' = IF n >= num_pkts THEN "end"
           ELSE IF n % pkts_per_session = 0 THEN "connect" ELSE "recv"
  /\ UNCHANGED <<opt, counts, i_incr, conn_id, used, up, recvd, sender, asked, arrays,
                 output>>

\* try_connect() and its retries, conn_alloc(), pthread_create().
Connect ==
  /\ pc = "connect"
  /\ used \in Conns
  /\ conn_id' = used
  /\ used' = used + 1
  /\ up' = up \cup {used}
  /\ recvd' = 0
  /\ sender' = [sender EXCEPT ![used] = [st |-> "run", first |-> pkt_i, i |-> 0]]
  /\ pc' = "recv"
  /\ UNCHANGED <<opt, counts, pkt_i, i_incr, asked, arrays, output>>

ConnectFails ==
  /\ pc = "connect"
  /\ conn_id' = None
  /\ i_incr' = SkipPkts
  /\ failed' = failed + SkipPkts
  /\ pc' = "skip"
  /\ UNCHANGED <<opt, ok, pkt_i, used, up, recvd, sender, asked, arrays, output>>

\* The TLS handshake fails: close(), conn_free(), and the thread returns.
HandshakeFails ==
  /\ opt.tls
  /\ pc = "connect"
  /\ conn_id' = None
  /\ pc' = "aborted"
  /\ UNCHANGED <<opt, counts, pkt_i, i_incr, used, up, recvd, sender, asked, arrays, output>>

\* conn_recv() gets the replies R, process_reply() for each: those in E carry
\* an error or a timeout.  A reply stays in the receive buffer until the
\* connection is freed: the client takes no request off it, as the node does.
Elapsed(R) == [k \in Cells |-> IF \E p \in R : idx(p) = k
                                 THEN CHOOSE p \in R : idx(p) = k
                                 ELSE usecs_elapsed[k]]

Recv(R, E) ==
  /\ pc = "recv" /\ conn_id # None
  /\ R # {} /\ R \subseteq asked[conn_id] /\ Cardinality(R) <= opt.batch
  /\ E \subseteq R
  /\ recvd + Cardinality(R) <= opt.room
  /\ recvd' = recvd + Cardinality(R)
  /\ asked' = [asked EXCEPT ![conn_id] = @ \ R]
  /\ usecs_elapsed' = Elapsed(R \ E)
  /\ ok' = ok + Cardinality(R \ E)
  /\ failed' = failed + Cardinality(E)
  /\ i_incr' = 1
  /\ pc' = "skip"
  /\ UNCHANGED <<opt, pkt_i, conn_id, used, up, sender, usecs_send, output>>

\* It gets less than the header of one.
RecvPartial ==
  /\ opt.partial
  /\ pc = "recv" /\ conn_id # None
  /\ asked[conn_id] # {}
  /\ recvd < opt.room
  /\ pc' = "skip"
  /\ UNCHANGED <<opt, counts, pkt_i, i_incr, conn_id, used, up, recvd, sender, asked, arrays,
                 output>>

\* It finds the connection closed, or it has no room left and asks for 0 bytes,
\* which looks the same.
RecvBufFull == recvd >= opt.room
RecvClosed ==
  /\ pc = "recv" /\ conn_id # None
  /\ conn_id \notin up \/ RecvBufFull
  /\ i_incr' = SkipPkts
  /\ failed' = failed + SkipPkts
  /\ pc' = "skip"
  /\ UNCHANGED <<opt, ok, pkt_i, conn_id, used, up, recvd, sender, asked, arrays, output>>

\* It is called on conns[-1]; what follows is undefined and not modelled.
RecvFreed ==
  /\ pc = "recv" /\ conn_id = None
  /\ pc' = "undefined"
  /\ UNCHANGED <<opt, counts, pkt_i, i_incr, conn_id, used, up, recvd, sender, asked, arrays,
                 output>>
-----------------------------------------------------------------------------
\* The end of the loop: is the session over?
OverAtEnd == (pkt_i + i_incr) % num_pkts = 0 \* mutant: only after the last packet
OverEarly == (pkt_i + i_incr + 1) % pkts_per_session = 0 \* mutant: one packet early
SessionOver == (pkt_i + i_incr) % pkts_per_session = 0

\* The result for the packet p, when it has been sent.
Result(p) == [req_id |-> p, sent |-> usecs_send[idx(p)], elapsed |-> usecs_elapsed[idx(p)]]
SessionResults ==
  LET first == pkt_i + i_incr - (pkts_per_session - 1) IN
  {Result(p) : p \in {q \in first .. first + pkts_per_session - 1 : usecs_send[idx(q)] # None}}

Skip ==
  /\ pc = "skip"
  /\ IF SessionOver /\ opt.per_session_output
       THEN /\ output' = output \cup SessionResults
            /\ usecs_send' = [k \in Cells |-> None]
            /\ usecs_elapsed' = [k \in Cells |-> None]
       ELSE UNCHANGED <<arrays, output>>
  /\ pc' = IF SessionOver /\ conn_id # None THEN "join" ELSE "head"
  /\ UNCHANGED <<opt, counts, pkt_i, i_incr, conn_id, used, up, recvd, sender, asked>>

\* pthread_join(), close(), conn_free().
Join ==
  /\ pc = "join"
  /\ sender[conn_id].st = "done"
  /\ sender' = [sender EXCEPT ![conn_id] = NoSender]
  /\ asked' = [asked EXCEPT ![conn_id] = {}]
  /\ up' = up \ {conn_id}
  /\ conn_id' = None
  /\ pc' = "head"
  /\ UNCHANGED <<opt, counts, pkt_i, i_incr, used, recvd, arrays, output>>

\* After the loop.
Finish ==
  /\ pc = "end"
  /\ output' = IF opt.per_session_output THEN output ELSE {Result(p) : p \in Pkts}
  /\ pc' = "finished"
  /\ UNCHANGED <<opt, counts, pkt_i, i_incr, conn_id, used, up, recvd, sender, asked, arrays>>

Receiver == \/ LoopHead \/ Connect \/ ConnectFails \/ HandshakeFails
            \/ \E R \in SUBSET Pkts : \E E \in SUBSET R : Recv(R, E)
            \/ RecvPartial \/ RecvClosed \/ RecvFreed
            \/ Skip \/ Join \/ Finish
Sender(c) == Stamp(c) \/ Send(c) \/ SendFails(c) \/ Drop(c)

Next == Receiver \/ \E c \in Conns : Sender(c) \/ NodeCloses(c)

Spec == Init /\ [][Next]_vars

\* Both threads keep running, and the node answers every request it gets or
\* closes the connection.
FairSpec == Spec /\ WF_vars(Receiver) /\ \A c \in Conns : WF_vars(Sender(c))
-----------------------------------------------------------------------------
\* Every conn_recv() brings one reply; see README.md for the other cases.
OneByOne == opt.batch = 1 /\ ~opt.partial

(* README.md: at the end of each session a client thread closes the
   connection and establishes a new one.  At most one session of the thread
   has a connection and a sender that have not been closed and joined. *)
OneSession == OneByOne => Cardinality({c \in Conns : sender[c].st # "none"}) <= 1

(* A session that the node has not closed is ended only when the replies to
   all its packets are in, those the sender has yet to send included, or the
   receive buffer is full: the receiver does not close a connection over
   outstanding requests. *)
SessionEndsWithReplies ==
  OneByOne /\ pc = "join" /\ conn_id \in up /\ ~RecvBufFull => recvd = pkts_per_session

(* Each packet is counted once, as a success, an error or a timeout, whatever
   connections are refused, closed or reopened and however replies are cut or
   joined: the packets a failed session skips are those not counted before. *)
CountedOnce ==
  /\ ok + failed <= num_pkts
  /\ pc = "finished" => ok + failed = num_pkts

(* The results printed at the end have a response time for exactly as many
   packets as num_success counts: no sender resets usecs_elapsed of a packet
   whose reply is in, when conn_recv() brings whole replies. *)
ResultsAddUp ==
  pc = "finished" /\ ~opt.per_session_output /\ ~opt.partial =>
    ok = Cardinality({r \in output : r.elapsed # None})

(* The client terminates, whatever connections are refused or closed, when
   its packets are sent and their replies come one by one.  Not so on a
   non-blocking socket, where EAGAIN ends the sender of a connection that
   stays open and the receiver waits for what was never sent; nor when a
   session outgrows the receive buffer, whose sender is joined while nobody
   reads the replies.  See README.md. *)
Terminates ==
  OneByOne /\ opt.fits /\ ~opt.nonblock /\ opt.room >= pkts_per_session =>
    <>(pc \in {"finished", "aborted"})
-----------------------------------------------------------------------------
(* man/dw_client.1: with --per-session-output the client outputs the response
   times obtained for each session.  A result carries the number of the packet
   whose times it gives.  The numbers are one too high; see README.md. *)
ResultsAreLabelled == \A r \in output : r.sent # None => r.sent = r.req_id

(* dw_client.c: the send timestamps are reset to zeros for the next session,
   so those of packets it never sends stay at 0.  A sender that has not been
   joined may stamp one after the reset; see README.md. *)
StampsAreReset ==
  pc = "connect" /\ opt.per_session_output => \A k \in Cells : usecs_send[k] = None
=============================================================================
