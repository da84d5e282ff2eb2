----------------------------- MODULE SendProofs -----------------------------
(***************************************************************************)
(* The send buffer of a connection (Connection, over SendBuf), for any     *)
(* messages, sizes of replies and clients: what is sent is the replies, in *)
(* their order, for a client that waits for each of them, and a reply that *)
(* fits the buffer has room in it.                                         *)
(*                                                                         *)
(* The order needs three invariants: the cells to send are in send_buf     *)
(* (SendType), the requests not answered yet are no more than the client's *)
(* window (WindowInv), and what waits in send_buf and in the file is what  *)
(* the wire lacks of the replies (OrderInv).                               *)
(***************************************************************************)
EXTENDS ReceiveProofs, FiniteSetTheorems

ReplyCell == Range(Msgs) \cup {Out!Body, Out!Stray}

BufType == [0 .. BUF_SIZE - 1 -> ReplyCell]

ConnType == [buf : BufType, cur : Nat, size : Nat, file : Nat,
             mode : {"NORMAL", "SENDFILE"}, status : {"READY", "SENDING", "CLOSING"}]

SendType ==
  /\ load \in Loads
  /\ conn \in ConnType /\ conn.cur + conn.size <= BUF_SIZE
  /\ open \in BOOLEAN /\ pollout \in BOOLEAN
  /\ todo \subseteq Range(Msgs)
  /\ queued \in Seq(ReplyCell)
  /\ wire \in Seq(ReplyCell)

\* The replies made are headers, each once, and bodies; the last ends where
\* queued does.
Headers ==
  /\ \A k \in DOMAIN queued : queued[k] # Out!Body => queued[k] \in Range(Msgs) \ todo
  /\ \A k, l \in DOMAIN queued : queued[k] = queued[l] /\ queued[k] # Out!Body => k = l
  /\ queued # <<>> => \E k \in DOMAIN queued :
                        /\ queued[k] # Out!Body
                        /\ k + ReplySize[queued[k]] - 1 = Len(queued)

\* A request in the list has been obtained and not answered.
Pending ==
  /\ \A i \in DOMAIN req_list : req_list[i].msg \in (Range(taken) \cap todo) \ answers
  /\ \A i, j \in DOMAIN req_list : req_list[i].msg = req_list[j].msg => i = j
  /\ Range(Msgs) \ todo \subseteq Range(taken) \ answers

\* The messages with a cell among the first p, and those the node has received a
\* cell of.
Begun(p) == {Msgs[i] : i \in {j \in 1 .. Len(Msgs) : End(j - 1) < p}}
Received == Begun(Len(Full) - Len(stream))

\* The client never has more requests under way than its window.
InWindow ==
  Cardinality(Received \ answers) <= Cardinality(Out!Sent) + load.window

WindowInv == Headers /\ Pending /\ InWindow

\* What conn has left to send, at curr_send_buf and in the file, is what is
\* missing on the wire w of the replies q.
Linked(c, q, w) ==
  /\ Len(q) = Len(w) + c.size + c.file
  /\ \A k \in 1 .. c.size :
       q[Len(w) + k] # Out!Body => c.buf[c.cur + k - 1] = q[Len(w) + k]
  /\ \A k \in c.size + 1 .. c.size + c.file : q[Len(w) + k] = Out!Body
  /\ \A k \in 1 .. Len(w) : q[k] # Out!Body => w[k] = q[k]
  /\ c.mode = "NORMAL" => c.file = 0
  /\ c.size = 0 /\ c.file = 0 => c.cur = 0

\* One request under way at a time, or replies that go out whole.
OneAtATime == load.window = 1
WholeReplies == ~load.partial /\ load.sendfile = {}

OrderInv ==
  /\ (OneAtATime \/ WholeReplies) /\ ~Out!Slipped => Linked(conn, queued, wire)
  /\ WholeReplies => conn.cur = 0 /\ conn.mode = "NORMAL"

\* o is a send on connection c that n cells of the buffer and f of the file left
\* with.
SentBy(c, o, n, f) ==
  /\ o.conn \in ConnType /\ o.conn.cur + o.conn.size <= BUF_SIZE
  /\ o.conn.buf = c.buf /\ o.conn.mode = c.mode
  /\ o.conn.size = c.size - n /\ o.conn.file = c.file - f
  /\ o.conn.cur = c.cur + n \/ (o.conn.cur = 0 /\ o.conn.size = 0)
  /\ o.conn.size = 0 /\ o.conn.file = 0 =>
       o.conn.cur = 0 \/ (n = 0 /\ f = 0 /\ o.conn.cur = c.cur)
  /\ o.cells \in Seq(ReplyCell) /\ Len(o.cells) = n + f
  /\ \A k \in 1 .. n : o.cells[k] = c.buf[c.cur + k - 1]
  /\ f > 0 => n = c.size
  /\ o.ret \in Int

\* The cells of o are on the wire, perhaps behind a stray one.
OnWire(o) == wire' \in {wire \o o.cells, wire \o (<<Out!Stray>> \o o.cells)}

\* A connection whose waiting cells are in the buffer.
Sound(c) == c \in ConnType /\ c.cur + c.size <= BUF_SIZE

\* The connection when conn_start_send() or conn_start_sendfile() sends reply m.
Started(c, m) ==
  LET p == Out!Prepared(c, m) IN
  IF Out!ModeOf(m) = "SENDFILE"
    THEN [p EXCEPT !.cur = IF p.size = 0 THEN 0 ELSE @, !.size = 1,
                   !.file = ReplySize[m] - 1]
    ELSE [p EXCEPT !.cur = IF p.size = 0 THEN 0 ELSE @, !.size = @ + ReplySize[m]]

\* Nothing is sent or made ready to send.
Quiet == /\ UNCHANGED <<load, conn, pollout, todo, queued, wire>>
         /\ open' \in {open, FALSE}
-----------------------------------------------------------------------------
\* curr_send_buf moves on over n cells.
LEMMA AdvanceFields ==
  ASSUME NEW c \in ConnType, NEW n \in 0 .. c.size
  PROVE  LET d == Out!Advance(c, n) IN
         /\ d \in ConnType /\ d.cur = c.cur + n /\ d.size = c.size - n /\ d.file = c.file
         /\ d.buf = c.buf /\ d.mode = c.mode /\ d.status = c.status
<1> DEFINE a == c.cur + n
           s == c.size - n
<1>1. c.cur \in Nat /\ c.size \in Nat
  BY DEF ConnType
<1>2. a \in Nat /\ s \in Nat
  BY <1>1
<1>3. Out!Advance(c, n) = [c EXCEPT !.cur = a, !.size = s]
  BY DEF Out!Advance
<1> HIDE DEF a, s
<1>4. LET d == [c EXCEPT !.cur = a, !.size = s] IN
      /\ d \in ConnType /\ d.cur = a /\ d.size = s /\ d.file = c.file
      /\ d.buf = c.buf /\ d.mode = c.mode /\ d.status = c.status
  BY Zenon, <1>2 DEF ConnType
<1> QED
  BY Zenon, <1>3, <1>4 DEF a, s

\* The buffer is empty: curr_send_buf is put back.
LEMMA EmptyBufferFields ==
  ASSUME NEW c \in ConnType
  PROVE  LET d == Out!EmptyBuffer(c) IN
         /\ d \in ConnType /\ d.cur = 0 /\ d.size = c.size /\ d.file = c.file
         /\ d.buf = c.buf /\ d.mode = c.mode
<1> DEFINE t == IF c.status = "SENDING" THEN "READY" ELSE c.status
<1>1. t \in {"READY", "SENDING", "CLOSING"}
  BY DEF ConnType
<1>2. Out!EmptyBuffer(c) = [c EXCEPT !.cur = 0, !.status = t]
  BY DEF Out!EmptyBuffer
<1> HIDE DEF t
<1>3. LET d == [c EXCEPT !.cur = 0, !.status = t] IN
      /\ d \in ConnType /\ d.cur = 0 /\ d.size = c.size /\ d.file = c.file
      /\ d.buf = c.buf /\ d.mode = c.mode
  BY Zenon, <1>1 DEF ConnType
<1> QED
  BY Zenon, <1>2, <1>3

-----------------------------------------------------------------------------
\* The cells at curr_send_buf.
LEMMA PendingCells ==
  ASSUME NEW c, Sound(c), NEW n \in 0 .. c.size
  PROVE  /\ Out!Pending(c, n) \in Seq(ReplyCell)
         /\ Len(Out!Pending(c, n)) = n
         /\ \A k \in 1 .. n : Out!Pending(c, n)[k] = c.buf[c.cur + k - 1]
<1> DEFINE e(k) == c.buf[c.cur + k - 1]
<1>1. /\ c.size \in Nat /\ c.cur \in Nat /\ c.cur + c.size <= BUF_SIZE
      /\ c.buf \in [0 .. BUF_SIZE - 1 -> ReplyCell] /\ BUF_SIZE \in Nat
  BY ConnConstants DEF Sound, ConnType, BufType
<1>2. n \in Nat
  BY <1>1
<1>3. \A k \in 1 .. n : c.cur + k - 1 \in 0 .. BUF_SIZE - 1
  BY <1>1, <1>2
<1>4. \A k \in 1 .. n : e(k) \in ReplyCell
  BY <1>1, <1>3
<1>5. Out!Pending(c, n) = [k \in 1 .. n |-> e(k)]
  BY DEF Out!Pending
<1> HIDE DEF e
<1>6. /\ [k \in 1 .. n |-> e(k)] \in Seq(ReplyCell)
      /\ Len([k \in 1 .. n |-> e(k)]) = n
      /\ \A l \in 1 .. n : [k \in 1 .. n |-> e(k)][l] = e(l)
  BY ZenonT(30), <1>2, <1>4, MadeSeq
<1> QED
  BY Zenon, <1>5, <1>6 DEF e

\* Every outcome of conn_send() takes cells from the buffer, in order.
LEMMA SendOutcome ==
  ASSUME NEW c, Sound(c), NEW o \in Out!conn_send(c)
  PROVE  /\ \E n \in 0 .. c.size : SentBy(c, o, n, 0)
         /\ ~load.partial => o.conn.cur \in {c.cur, 0}
<1>1. /\ c \in ConnType /\ c.size \in Nat /\ c.cur \in Nat /\ c.cur + c.size <= BUF_SIZE
      /\ c.file \in Nat /\ BUF_SIZE \in Nat
  BY ConnConstants DEF Sound, ConnType
<1>2. ASSUME NEW n \in Out!Takes(c),
             o = Out!Outcome(IF n = c.size THEN Out!EmptyBuffer(Out!Advance(c, n))
                                           ELSE Out!Advance(c, n), Out!Pending(c, n), n)
      PROVE  /\ \E i \in 0 .. c.size : SentBy(c, o, i, 0)
             /\ ~load.partial => o.conn.cur \in {c.cur, 0}
  <2>1. n \in 1 .. c.size /\ (~load.partial => n = c.size)
    BY <1>1 DEF Out!Takes
  <2>2. n \in 0 .. c.size
    BY <1>1, <2>1
  <2>3. /\ o.cells = Out!Pending(c, n) /\ o.ret \in Int
        /\ o.conn = IF n = c.size THEN Out!EmptyBuffer(Out!Advance(c, n)) ELSE Out!Advance(c, n)
    BY <1>1, <1>2, <2>2 DEF Out!Outcome
  <2>4. /\ o.cells \in Seq(ReplyCell) /\ Len(o.cells) = n
        /\ \A k \in 1 .. n : o.cells[k] = c.buf[c.cur + k - 1]
    BY Zenon, <2>2, <2>3, PendingCells
  <2>5. CASE n = c.size
    <3>1. o.conn = Out!EmptyBuffer(Out!Advance(c, n))
      BY <2>3, <2>5
    <3>2. /\ o.conn \in ConnType /\ o.conn.cur = 0 /\ o.conn.size = c.size - n
          /\ o.conn.buf = c.buf /\ o.conn.mode = c.mode /\ o.conn.file = c.file
      <4> DEFINE d == Out!Advance(c, n)
      <4>1. /\ d \in ConnType /\ d.size = c.size - n /\ d.file = c.file
            /\ d.buf = c.buf /\ d.mode = c.mode
        BY Zenon, <1>1, <2>2, AdvanceFields
      <4> HIDE DEF d
      <4>2. LET b == Out!EmptyBuffer(d) IN
            /\ b \in ConnType /\ b.cur = 0 /\ b.size = d.size /\ b.file = d.file
            /\ b.buf = d.buf /\ b.mode = d.mode
        BY Zenon, <4>1, EmptyBufferFields
      <4>3. o.conn = Out!EmptyBuffer(d)
        BY Zenon, <3>1 DEF d
      <4> QED BY Zenon, <4>1, <4>2, <4>3
    <3>3. SentBy(c, o, n, 0)
      BY <1>1, <2>2, <2>3, <2>4, <2>5, <3>2 DEF SentBy
    <3> QED BY Zenon, <2>2, <3>2, <3>3
  <2>6. CASE n # c.size
    <3>1. o.conn = Out!Advance(c, n)
      BY <2>3, <2>6
    <3>2. /\ o.conn \in ConnType /\ o.conn.cur = c.cur + n /\ o.conn.size = c.size - n
          /\ o.conn.buf = c.buf /\ o.conn.mode = c.mode /\ o.conn.file = c.file
      BY Zenon, <1>1, <2>2, <3>1, AdvanceFields
    <3>3. SentBy(c, o, n, 0)
      BY <1>1, <2>2, <2>3, <2>4, <2>6, <3>2 DEF SentBy
    <3> QED BY ZenonT(30), <2>1, <2>2, <2>6, <3>3
  <2> QED BY <2>5, <2>6
<1>3. ASSUME o.cells = <<>>, o.ret \in {0, -1},
             \/ o.conn = [c EXCEPT !.status = "SENDING"]
             \/ o.conn = [c EXCEPT !.status = "CLOSING"]
             \/ o.conn = c
      PROVE  /\ \E i \in 0 .. c.size : SentBy(c, o, i, 0)
             /\ ~load.partial => o.conn.cur \in {c.cur, 0}
  <2>1. /\ o.conn \in ConnType /\ o.conn.cur = c.cur /\ o.conn.size = c.size
        /\ o.conn.buf = c.buf /\ o.conn.mode = c.mode /\ o.conn.file = c.file
    BY <1>1, <1>3 DEF ConnType
  <2>2. o.cells \in Seq(ReplyCell) /\ Len(o.cells) = 0 /\ o.ret \in Int
    BY <1>3
  <2>3. SentBy(c, o, 0, 0)
    BY <1>1, <2>1, <2>2 DEF SentBy
  <2>4. 0 \in 0 .. c.size
    BY <1>1
  <2> QED BY Zenon, <2>1, <2>3, <2>4
<1>4. \/ \E n \in Out!Takes(c) :
           o = Out!Outcome(IF n = c.size THEN Out!EmptyBuffer(Out!Advance(c, n))
                                         ELSE Out!Advance(c, n), Out!Pending(c, n), n)
      \/ o = Out!Outcome([c EXCEPT !.status = "SENDING"], <<>>, 0)
      \/ o = Out!Outcome([c EXCEPT !.status = "CLOSING"], <<>>, 0)
      \/ o = Out!Outcome(c, <<>>, 0)
      \/ o = Out!Outcome(c, <<>>, -1)
  BY Zenon DEF Out!conn_send, Out!Unexpected
<1> QED
  BY <1>2, <1>3, <1>4 DEF Out!Outcome

\* Every outcome of conn_send_v2() takes the rest of the header, or nothing,
\* and then cells of the file; a stray cell aside.
LEMMA BodyOutcome ==
  ASSUME NEW c, Sound(c), NEW o,
         \/ o \in Out!SendBody(c)
         \/ o = Out!Outcome([c EXCEPT !.status = "CLOSING"], <<>>, -1)
  PROVE  \E n \in 0 .. c.size, f \in 0 .. c.file : SentBy(c, o, n, f)
<1> DEFINE header == Out!Pending(c, c.size)
           h == Out!Advance(c, c.size)
<1>1. /\ c \in ConnType /\ c.size \in Nat /\ c.cur \in Nat /\ c.cur + c.size <= BUF_SIZE
      /\ c.file \in Nat /\ BUF_SIZE \in Nat
  BY ConnConstants DEF Sound, ConnType
<1>2. /\ h \in ConnType /\ h.cur = c.cur + c.size /\ h.size = 0
      /\ h.buf = c.buf /\ h.mode = c.mode /\ h.file = c.file
  <2>1. c.size \in 0 .. c.size /\ c.size - c.size = 0
    BY <1>1
  <2> QED BY Zenon, <1>1, <2>1, AdvanceFields
<1>3. c.size \in 0 .. c.size
  BY <1>1
<1>4. /\ header \in Seq(ReplyCell) /\ Len(header) = c.size
      /\ \A k \in 1 .. c.size : header[k] = c.buf[c.cur + k - 1]
  BY Zenon, <1>3, PendingCells
<1> HIDE DEF header, h
\* The header with f cells of the file behind it.
<1>5. ASSUME NEW f \in Nat
      PROVE  /\ header \o Out!Bodies(f) \in Seq(ReplyCell)
             /\ Len(header \o Out!Bodies(f)) = c.size + f
             /\ \A k \in 1 .. c.size : (header \o Out!Bodies(f))[k] = c.buf[c.cur + k - 1]
  <2> DEFINE b == Out!Bodies(f)
  <2>1. b \in Seq(ReplyCell) /\ Len(b) = f
    BY MadeSeq DEF Out!Bodies, ReplyCell
  <2> HIDE DEF b
  <2>2. /\ header \o b \in Seq(ReplyCell)
        /\ Len(header \o b) = Len(header) + Len(b)
        /\ \A k \in 1 .. Len(header) : (header \o b)[k] = header[k]
    <3>1. header \in Seq(ReplyCell) /\ b \in Seq(ReplyCell)
      BY Zenon, <1>4, <2>1
    <3> QED BY <3>1
  <2> QED BY Zenon, <1>4, <2>1, <2>2 DEF b
<1>6. ASSUME NEW f \in 0 .. c.file - 1,
             o = Out!Outcome([h EXCEPT !.file = @ - f, !.status = "SENDING"],
                             header \o Out!Bodies(f), 0)
      PROVE  \E i \in 0 .. c.size, j \in 0 .. c.file : SentBy(c, o, i, j)
  <2>0. f \in Nat /\ f \in 0 .. c.file /\ c.file - f # 0 /\ c.size - c.size = 0
    BY <1>1
  <2>1. /\ o.conn = [h EXCEPT !.file = @ - f, !.status = "SENDING"]
        /\ o.cells = header \o Out!Bodies(f) /\ o.ret \in Int
    BY <1>6 DEF Out!Outcome
  <2>2. /\ o.conn \in ConnType /\ o.conn.cur = c.cur + c.size /\ o.conn.size = 0
        /\ o.conn.buf = c.buf /\ o.conn.mode = c.mode /\ o.conn.file = c.file - f
    <3> DEFINE g == c.file - f
    <3>1. g \in Nat /\ "SENDING" \in {"READY", "SENDING", "CLOSING"}
      BY <1>1, <2>0
    <3>2. o.conn = [h EXCEPT !.file = g, !.status = "SENDING"]
      BY Zenon, <1>2, <2>1
    <3> HIDE DEF g
    <3>3. LET d == [h EXCEPT !.file = g, !.status = "SENDING"] IN
          /\ d \in ConnType /\ d.cur = h.cur /\ d.size = h.size /\ d.file = g
          /\ d.buf = h.buf /\ d.mode = h.mode
      BY Zenon, <1>2, <3>1 DEF ConnType
    <3> QED BY Zenon, <1>2, <3>2, <3>3 DEF g
  <2>3. /\ o.cells \in Seq(ReplyCell) /\ Len(o.cells) = c.size + f
        /\ \A k \in 1 .. c.size : o.cells[k] = c.buf[c.cur + k - 1]
    <3>1. /\ header \o Out!Bodies(f) \in Seq(ReplyCell)
          /\ Len(header \o Out!Bodies(f)) = c.size + f
          /\ \A k \in 1 .. c.size : (header \o Out!Bodies(f))[k] = c.buf[c.cur + k - 1]
      BY Zenon, <1>5, <2>0
    <3>2. o.cells = header \o Out!Bodies(f)
      BY Zenon, <2>1
    <3> QED BY Zenon, <3>1, <3>2
  <2>4. SentBy(c, o, c.size, f)
    <3>1. o.ret \in Int
      BY Zenon, <2>1
    <3> QED BY <1>1, <2>0, <2>2, <2>3, <3>1 DEF SentBy
  <2> QED BY <1>3, <2>0, <2>4
<1>7. ASSUME o = Out!Outcome([h EXCEPT !.file = 0, !.cur = 0, !.status = "READY"],
                             header \o Out!Bodies(c.file), 1)
      PROVE  \E i \in 0 .. c.size, j \in 0 .. c.file : SentBy(c, o, i, j)
  <2>0. c.file \in 0 .. c.file /\ c.file - c.file = 0 /\ c.size - c.size = 0
    BY <1>1
  <2>1. /\ o.conn = [h EXCEPT !.file = 0, !.cur = 0, !.status = "READY"]
        /\ o.cells = header \o Out!Bodies(c.file) /\ o.ret \in Int
    BY <1>7 DEF Out!Outcome
  <2>2. /\ o.conn \in ConnType /\ o.conn.cur = 0 /\ o.conn.size = 0
        /\ o.conn.buf = c.buf /\ o.conn.mode = c.mode /\ o.conn.file = 0
    <3>1. LET d == [h EXCEPT !.file = 0, !.cur = 0, !.status = "READY"] IN
          /\ d \in ConnType /\ d.cur = 0 /\ d.size = h.size /\ d.file = 0
          /\ d.buf = h.buf /\ d.mode = h.mode
      BY Zenon, <1>2 DEF ConnType
    <3> QED BY Zenon, <1>2, <2>1, <3>1
  <2>3. /\ o.cells \in Seq(ReplyCell) /\ Len(o.cells) = c.size + c.file
        /\ \A k \in 1 .. c.size : o.cells[k] = c.buf[c.cur + k - 1]
    <3>1. /\ header \o Out!Bodies(c.file) \in Seq(ReplyCell)
          /\ Len(header \o Out!Bodies(c.file)) = c.size + c.file
          /\ \A k \in 1 .. c.size : (header \o Out!Bodies(c.file))[k] = c.buf[c.cur + k - 1]
      BY Zenon, <1>1, <1>5
    <3>2. o.cells = header \o Out!Bodies(c.file)
      BY Zenon, <2>1
    <3> QED BY Zenon, <3>1, <3>2
  <2>4. SentBy(c, o, c.size, c.file)
    <3>1. o.ret \in Int
      BY Zenon, <2>1
    <3> QED BY <1>1, <2>0, <2>2, <2>3, <3>1 DEF SentBy
  <2> QED BY Zenon, <1>3, <2>0, <2>4
<1>8. ASSUME h.file > 0, NEW s \in {"CLOSING", h.status},
             o = Out!Outcome([h EXCEPT !.status = s], header, -1)
      PROVE  \E i \in 0 .. c.size, j \in 0 .. c.file : SentBy(c, o, i, j)
  <2>0. 0 \in 0 .. c.file /\ c.file - 0 = c.file /\ c.size - c.size = 0 /\ c.size + 0 = c.size
    BY <1>1
  <2>1. o.conn = [h EXCEPT !.status = s] /\ o.cells = header /\ o.ret \in Int
    BY <1>8 DEF Out!Outcome
  <2>2. /\ o.conn \in ConnType /\ o.conn.cur = c.cur + c.size /\ o.conn.size = 0
        /\ o.conn.buf = c.buf /\ o.conn.mode = c.mode /\ o.conn.file = c.file /\ c.file > 0
    <3>1. LET d == [h EXCEPT !.status = s] IN
          /\ d \in ConnType /\ d.cur = h.cur /\ d.size = h.size /\ d.file = h.file
          /\ d.buf = h.buf /\ d.mode = h.mode
      BY <1>2 DEF ConnType
    <3> QED BY Zenon, <1>2, <1>8, <2>1, <3>1
  <2>3. /\ o.cells \in Seq(ReplyCell) /\ Len(o.cells) = c.size + 0
        /\ \A k \in 1 .. c.size : o.cells[k] = c.buf[c.cur + k - 1]
    BY Zenon, <1>4, <2>0, <2>1
  <2>4. SentBy(c, o, c.size, 0)
    <3>1. ~(0 > 0) /\ c.file # 0 /\ (c.cur + c.size) + 0 <= BUF_SIZE
      BY <1>1, <2>2
    <3> QED BY Zenon, <2>0, <2>1, <2>2, <2>3, <3>1 DEF SentBy
  <2> QED BY Zenon, <1>3, <2>0, <2>4
<1>9. ASSUME o = Out!Outcome([c EXCEPT !.status = "CLOSING"], <<>>, -1)
      PROVE  \E i \in 0 .. c.size, j \in 0 .. c.file : SentBy(c, o, i, j)
  <2>1. o.conn = [c EXCEPT !.status = "CLOSING"] /\ o.cells = <<>> /\ o.ret \in Int
    BY <1>9 DEF Out!Outcome
  <2>2. /\ o.conn \in ConnType /\ o.conn.cur = c.cur /\ o.conn.size = c.size
        /\ o.conn.buf = c.buf /\ o.conn.mode = c.mode /\ o.conn.file = c.file
    BY <1>1, <2>1 DEF ConnType
  <2>3. o.cells \in Seq(ReplyCell) /\ Len(o.cells) = 0
    BY <2>1
  <2>4. SentBy(c, o, 0, 0)
    <3>1. o.ret \in Int
      BY Zenon, <2>1
    <3> QED BY <1>1, <2>2, <2>3, <3>1 DEF SentBy
  <2> QED BY <1>1, <2>4
<1>10. \/ \E f \in 0 .. c.file - 1 :
            o = Out!Outcome([h EXCEPT !.file = @ - f, !.status = "SENDING"],
                            header \o Out!Bodies(f), 0)
       \/ o = Out!Outcome([h EXCEPT !.file = 0, !.cur = 0, !.status = "READY"],
                          header \o Out!Bodies(c.file), 1)
       \/ h.file > 0 /\ o = Out!Outcome([h EXCEPT !.status = "CLOSING"], header, -1)
       \/ h.file > 0 /\ o = Out!Outcome(h, header, -1)
       \/ o = Out!Outcome([c EXCEPT !.status = "CLOSING"], <<>>, -1)
  <2>1. c.file \notin {0} => c.file > 0
    BY <1>1
  <2> QED BY Zenon, <1>2, <2>1 DEF Out!SendBody, Out!Unexpected, h, header
<1>11. h = [h EXCEPT !.status = h.status]
  BY Zenon, <1>2 DEF ConnType
<1> QED
  BY Zenon, <1>6, <1>7, <1>8, <1>9, <1>10, <1>11

\* What conn_send_v2() does is what BodyOutcome says, a stray cell aside.
LEMMA SendfileOutcome ==
  ASSUME NEW c, Sound(c), NEW o \in Out!conn_send_v2(c)
  PROVE  \E p : /\ \E n \in 0 .. c.size, f \in 0 .. c.file : SentBy(c, p, n, f)
               /\ o.conn = p.conn /\ o.ret = p.ret
               /\ o.cells \in {p.cells, <<Out!Stray>> \o p.cells}
<1>1. \/ o \in Out!SendBody(c)
      \/ o = Out!Outcome([c EXCEPT !.status = "CLOSING"], <<>>, -1)
      \/ \E p \in Out!SendBody(c) : o = Out!Slip(p)
  BY Zenon DEF Out!conn_send_v2, Out!Unexpected
<1>2. CASE \/ o \in Out!SendBody(c)
           \/ o = Out!Outcome([c EXCEPT !.status = "CLOSING"], <<>>, -1)
  BY Zenon, <1>2, BodyOutcome
<1>3. ASSUME NEW p \in Out!SendBody(c), o = Out!Slip(p)
      PROVE  /\ \E n \in 0 .. c.size, f \in 0 .. c.file : SentBy(c, p, n, f)
             /\ o.conn = p.conn /\ o.ret = p.ret
             /\ o.cells \in {p.cells, <<Out!Stray>> \o p.cells}
  <2>1. \E n \in 0 .. c.size, f \in 0 .. c.file : SentBy(c, p, n, f)
    BY Zenon, <1>3, BodyOutcome
  <2>2. \E x, y, z : p = [conn |-> x, cells |-> y, ret |-> z]
    BY Zenon, <1>3 DEF Out!SendBody, Out!Unexpected, Out!Outcome
  <2>3. PICK x, y, z : p = [conn |-> x, cells |-> y, ret |-> z]
    BY Zenon, <2>2
  <2> DEFINE w == <<Out!Stray>> \o p.cells
  <2>4. o = [p EXCEPT !.cells = w]
    BY Zenon, <1>3 DEF Out!Slip
  <2> HIDE DEF w
  <2>5. o.conn = p.conn /\ o.ret = p.ret /\ o.cells = w
    BY Zenon, <2>3, <2>4
  <2> QED BY Zenon, <2>1, <2>5 DEF w
<1> QED
  BY Zenon, <1>1, <1>2, <1>3

\* Cells that are sent are on the wire behind those before them; until there is a
\* stray one, they are all there is.
LEMMA WireGrows ==
  ASSUME wire \in Seq(ReplyCell), NEW o, o.cells \in Seq(ReplyCell), OnWire(o)
  PROVE  /\ wire' \in Seq(ReplyCell)
         /\ Len(wire) \in Nat /\ Len(wire') \in Nat /\ Len(wire) <= Len(wire')
         /\ ~Out!Slipped' => ~Out!Slipped /\ wire' = wire \o o.cells
<1> DEFINE x == o.cells
           y == <<Out!Stray>> \o x
           e == Out!Stray
<1>1. x \in Seq(ReplyCell) /\ y \in Seq(ReplyCell) /\ Len(y) \in Nat /\ Len(y) > 0 /\ y[1] = e
  <2>1. e \in ReplyCell
    BY DEF ReplyCell
  <2> HIDE DEF e
  <2> QED BY <2>1 DEF y, e
<1>2. wire' = wire \o x \/ wire' = wire \o y
  BY Zenon DEF OnWire
<1>3. (Out!Slipped)' <=> \E k \in DOMAIN wire' : wire'[k] = e
  BY Zenon DEF Out!Slipped, Out!Stray
<1>4. Out!Slipped <=> \E k \in DOMAIN wire : wire[k] = e
  BY Zenon DEF Out!Slipped
<1> HIDE DEF x, y, e
<1>5. ASSUME NEW z \in Seq(ReplyCell), wire' = wire \o z
      PROVE  /\ wire' \in Seq(ReplyCell)
             /\ Len(wire) \in Nat /\ Len(z) \in Nat /\ Len(wire') = Len(wire) + Len(z)
             /\ DOMAIN wire = 1 .. Len(wire) /\ DOMAIN wire' = 1 .. Len(wire')
             /\ \A k \in 1 .. Len(wire) : wire'[k] = wire[k]
             /\ \A k \in 1 .. Len(z) : wire'[Len(wire) + k] = z[k]
  <2> DEFINE v == wire \o z
  <2>1. /\ v \in Seq(ReplyCell) /\ Len(wire) \in Nat /\ Len(z) \in Nat
        /\ Len(v) = Len(wire) + Len(z)
        /\ DOMAIN wire = 1 .. Len(wire) /\ DOMAIN v = 1 .. Len(v)
        /\ \A k \in 1 .. Len(wire) : v[k] = wire[k]
        /\ \A k \in 1 .. Len(z) : v[Len(wire) + k] = z[k]
    OBVIOUS
  <2> HIDE DEF v
  <2> QED BY Zenon, <1>5, <2>1 DEF v
<1>6. CASE wire' = wire \o x
  <2>1. /\ wire' \in Seq(ReplyCell) /\ Len(wire) \in Nat /\ Len(x) \in Nat
        /\ Len(wire') = Len(wire) + Len(x)
        /\ DOMAIN wire = 1 .. Len(wire) /\ DOMAIN wire' = 1 .. Len(wire')
        /\ \A k \in 1 .. Len(wire) : wire'[k] = wire[k]
    BY Zenon, <1>1, <1>5, <1>6
  <2>2. /\ Len(wire') \in Nat /\ Len(wire) <= Len(wire')
        /\ \A k \in 1 .. Len(wire) : k \in 1 .. Len(wire')
    BY <2>1
  <2>3. Out!Slipped => Out!Slipped'
    BY Zenon, <1>3, <1>4, <2>1, <2>2
  <2> QED BY Zenon, <1>6, <2>1, <2>2, <2>3 DEF x
<1>7. CASE wire' = wire \o y
  <2>1. /\ wire' \in Seq(ReplyCell) /\ Len(wire) \in Nat /\ Len(y) \in Nat
        /\ Len(wire') = Len(wire) + Len(y)
        /\ DOMAIN wire' = 1 .. Len(wire')
        /\ \A k \in 1 .. Len(y) : wire'[Len(wire) + k] = y[k]
    BY Zenon, <1>1, <1>5, <1>7
  <2>2. /\ Len(wire') \in Nat /\ Len(wire) <= Len(wire')
        /\ 1 \in 1 .. Len(y) /\ Len(wire) + 1 \in 1 .. Len(wire')
    BY <1>1, <2>1
  <2>3. Out!Slipped'
    BY Zenon, <1>1, <1>3, <2>1, <2>2
  <2> QED BY Zenon, <2>1, <2>2, <2>3
<1> QED
  BY Zenon, <1>2, <1>6, <1>7

\* A send takes the next cells that are missing on the wire.
LEMMA LinkedSend ==
  ASSUME NEW c, Sound(c), NEW q \in Seq(ReplyCell), NEW w \in Seq(ReplyCell), Linked(c, q, w),
         NEW o, NEW n \in 0 .. c.size, NEW f \in 0 .. c.file, SentBy(c, o, n, f)
  PROVE  Linked(o.conn, q, w \o o.cells)
<1> DEFINE v == w \o o.cells
<1>1. /\ c.size \in Nat /\ c.cur \in Nat /\ c.file \in Nat /\ n \in Nat /\ f \in Nat
      /\ n <= c.size /\ f <= c.file
  BY DEF Sound, ConnType
<1>2. /\ o.conn.size = c.size - n /\ o.conn.file = c.file - f /\ o.conn.buf = c.buf
      /\ o.conn.mode = c.mode
      /\ o.conn.cur = c.cur + n \/ (o.conn.cur = 0 /\ o.conn.size = 0)
      /\ o.conn.size = 0 /\ o.conn.file = 0 =>
           o.conn.cur = 0 \/ (n = 0 /\ f = 0 /\ o.conn.cur = c.cur)
      /\ o.cells \in Seq(ReplyCell) /\ Len(o.cells) = n + f
      /\ \A k \in 1 .. n : o.cells[k] = c.buf[c.cur + k - 1]
      /\ f > 0 => n = c.size
  BY Zenon DEF SentBy
<1>3. /\ Len(q) = Len(w) + c.size + c.file
      /\ \A k \in 1 .. c.size :
           q[Len(w) + k] # Out!Body => c.buf[c.cur + k - 1] = q[Len(w) + k]
      /\ \A k \in c.size + 1 .. c.size + c.file : q[Len(w) + k] = Out!Body
      /\ \A k \in 1 .. Len(w) : q[k] # Out!Body => w[k] = q[k]
      /\ c.mode = "NORMAL" => c.file = 0
      /\ c.size = 0 /\ c.file = 0 => c.cur = 0
  BY Zenon DEF Linked
<1>4. /\ Len(w) \in Nat /\ Len(w \o o.cells) = Len(w) + Len(o.cells)
      /\ \A k \in 1 .. Len(w) : (w \o o.cells)[k] = w[k]
      /\ \A k \in 1 .. Len(o.cells) : (w \o o.cells)[Len(w) + k] = o.cells[k]
  <2> DEFINE x == o.cells
  <2>1. x \in Seq(ReplyCell)
    BY <1>2
  <2> HIDE DEF x
  <2>2. /\ Len(w) \in Nat /\ Len(w \o x) = Len(w) + Len(x)
        /\ \A k \in 1 .. Len(w) : (w \o x)[k] = w[k]
        /\ \A k \in 1 .. Len(x) : (w \o x)[Len(w) + k] = x[k]
    BY <2>1
  <2> QED BY Zenon, <2>2 DEF x
<1>5. Len(v) = Len(w) + (n + f) /\ Len(w) \in Nat
  BY Zenon, <1>2, <1>4
<1>6. /\ \A k \in 1 .. Len(w) : v[k] = w[k]
      /\ \A k \in 1 .. n + f : v[Len(w) + k] = o.cells[k]
  BY Zenon, <1>2, <1>4
<1> HIDE DEF v
<1>7. Len(q) = Len(v) + o.conn.size + o.conn.file
  <2>1. Len(w) + c.size + c.file = (Len(w) + (n + f)) + (c.size - n) + (c.file - f)
    BY <1>1, <1>4
  <2> QED BY Zenon, <1>2, <1>3, <1>5, <2>1
<1>8. ASSUME NEW k \in 1 .. c.size - n, q[Len(v) + k] # Out!Body
      PROVE  c.buf[o.conn.cur + k - 1] = q[Len(v) + k]
  <2>1. f = 0 /\ o.conn.cur = c.cur + n
    <3>1. c.size - n # 0 /\ n # c.size /\ (f = 0 \/ f > 0)
      BY <1>1
    <3> QED BY Zenon, <1>2, <3>1
  <2>2. n + k \in 1 .. c.size /\ Len(v) + k = Len(w) + (n + k)
        /\ (c.cur + n) + k - 1 = c.cur + (n + k) - 1
    BY SMTT(30), <1>1, <1>5, <2>1
  <2> QED BY Zenon, <1>3, <1>8, <2>1, <2>2
<1>9. ASSUME NEW k \in (c.size - n) + 1 .. (c.size - n) + (c.file - f)
      PROVE  q[Len(v) + k] = Out!Body
  <2>1. k \in Int /\ k >= (c.size - n) + 1 /\ k <= (c.size - n) + (c.file - f)
    BY <1>1
  <2>2. n + f + k \in c.size + 1 .. c.size + c.file
    <3>1. \A a, g, x, y, z \in Int : 0 <= y /\ z >= (a - x) + 1 /\ z <= (a - x) + (g - y) =>
            x + y + z \in a + 1 .. a + g
      OBVIOUS
    <3>2. c.size \in Int /\ c.file \in Int /\ n \in Int /\ f \in Int /\ 0 <= f
      BY <1>1
    <3> QED BY Zenon, <2>1, <3>1, <3>2
  <2>3. Len(v) + k = Len(w) + (n + f + k)
    BY <1>1, <1>5, <2>1
  <2> QED BY Zenon, <1>3, <2>2, <2>3
<1>10. ASSUME NEW k \in 1 .. Len(v), q[k] # Out!Body PROVE v[k] = q[k]
  <2>1. CASE k <= Len(w)
    <3>1. k \in 1 .. Len(w)
      BY <1>1, <1>5, <2>1
    <3> QED BY Zenon, <1>3, <1>6, <1>10, <3>1
  <2>2. CASE k > Len(w)
    <3> DEFINE j == k - Len(w)
    <3>1. j \in 1 .. n + f /\ k = Len(w) + j /\ j \in Nat
      BY <1>1, <1>5, <2>2
    <3> HIDE DEF j
    <3>2. CASE j <= n
      <4>1. j \in 1 .. n /\ j \in 1 .. c.size
        BY <1>1, <3>1, <3>2
      <4> QED BY Zenon, <1>2, <1>3, <1>6, <1>10, <3>1, <4>1
    <3>3. CASE j > n
      <4>1. j \in c.size + 1 .. c.size + c.file
        <5>1. f > 0
          BY <1>1, <3>1, <3>3
        <5>2. n = c.size
          BY Zenon, <1>2, <5>1
        <5> QED BY SMTT(30), <1>1, <3>1, <3>3, <5>2
      <4> QED BY Zenon, <1>3, <1>10, <3>1, <4>1
    <3> QED BY <1>1, <3>1, <3>2, <3>3
  <2> QED BY <1>1, <1>5, <2>1, <2>2
<1>11. o.conn.mode = "NORMAL" => o.conn.file = 0
  <2>1. /\ c.mode = "NORMAL" => c.file = 0
        /\ o.conn.mode = c.mode /\ o.conn.file = c.file - f
    BY Zenon, <1>2, <1>3
  <2> QED BY <1>1, <2>1
<1>12. o.conn.size = 0 /\ o.conn.file = 0 => o.conn.cur = 0
  <2>1. n = 0 /\ f = 0 => c.size - n = c.size /\ c.file - f = c.file
    BY <1>1
  <2> QED BY Zenon, <1>2, <1>3, <2>1
<1>13. \A k \in 1 .. o.conn.size :
         q[Len(v) + k] # Out!Body => o.conn.buf[o.conn.cur + k - 1] = q[Len(v) + k]
  BY Zenon, <1>2, <1>8
<1>14. \A k \in o.conn.size + 1 .. o.conn.size + o.conn.file : q[Len(v) + k] = Out!Body
  BY Zenon, <1>2, <1>9
<1>15. \A k \in 1 .. Len(v) : q[k] # Out!Body => v[k] = q[k]
  BY Zenon, <1>10
<1>16. Linked(o.conn, q, v)
  BY Zenon, <1>7, <1>11, <1>12, <1>13, <1>14, <1>15 DEF Linked
<1> QED
  BY Zenon, <1>16 DEF v

\* The header of a reply goes to send_buf + curr_send_size, and its cells wait.
LEMMA StartedFields ==
  ASSUME NEW c, Sound(c), NEW m \in Range(Msgs), Out!Room(c) >= ReplySize[m]
  PROVE  LET d == Started(c, m)
             sf == Out!ModeOf(m) = "SENDFILE"
         IN
         /\ Sound(d)
         /\ d.buf = [c.buf EXCEPT ![c.size] = m]
         /\ d.cur = IF c.size = 0 THEN 0 ELSE c.cur
         /\ d.size = IF sf THEN 1 ELSE c.size + ReplySize[m]
         /\ d.file = IF sf THEN ReplySize[m] - 1 ELSE c.file
         /\ d.mode = Out!ModeOf(m)
<1> DEFINE p == Out!Prepared(c, m)
           b == [c.buf EXCEPT ![c.size] = m]
           s == ReplySize[m]
           a == IF c.size = 0 THEN 0 ELSE c.cur
           t == Out!ModeOf(m)
           d == Started(c, m)
<1>1. /\ c \in ConnType /\ c.size \in Nat /\ c.cur \in Nat /\ c.cur + c.size <= BUF_SIZE
      /\ c.file \in Nat /\ BUF_SIZE \in Nat /\ c.buf \in BufType
  BY ConnConstants DEF Sound, ConnType
<1>2. s \in Nat \ {0} /\ c.cur + c.size + s <= BUF_SIZE
  <2>1. s \in Nat \ {0}
    BY ConnConstants
  <2>2. BUF_SIZE - (c.cur + c.size) >= s
    BY DEF Out!Room
  <2> HIDE DEF s
  <2> QED BY <1>1, <2>1, <2>2
<1>3. b \in BufType
  <2>1. m \in ReplyCell
    BY DEF ReplyCell
  <2> QED BY Zenon, <1>1, <2>1 DEF BufType
<1>4. t \in {"NORMAL", "SENDFILE"}
  BY DEF Out!ModeOf
<1>5. p = [c EXCEPT !.buf = b, !.mode = t]
  BY DEF Out!Prepared, Out!HeaderPos
<1> HIDE DEF b, t
<1>6. /\ p \in ConnType /\ p.buf = b /\ p.mode = t /\ p.cur = c.cur /\ p.size = c.size
      /\ p.file = c.file
  <2>1. LET x == [c EXCEPT !.buf = b, !.mode = t] IN
        /\ x \in ConnType /\ x.buf = b /\ x.mode = t /\ x.cur = c.cur /\ x.size = c.size
        /\ x.file = c.file
    BY Zenon, <1>1, <1>3, <1>4 DEF ConnType
  <2> QED BY Zenon, <1>5, <2>1
<1>7. a \in Nat /\ a <= c.cur
  BY <1>1
<1> HIDE DEF p, a, s
<1>8. CASE t = "SENDFILE"
  <2> DEFINE g == s - 1
  <2>1. g \in Nat /\ 1 \in Nat /\ a + 1 <= BUF_SIZE
    BY <1>1, <1>2, <1>7
  <2>2. d = [p EXCEPT !.cur = a, !.size = 1, !.file = g]
    BY Zenon, <1>6, <1>8 DEF Started, p, a, s, t
  <2> HIDE DEF g, d
  <2>3. LET x == [p EXCEPT !.cur = a, !.size = 1, !.file = g] IN
        /\ x \in ConnType /\ x.buf = p.buf /\ x.mode = p.mode /\ x.cur = a /\ x.size = 1
        /\ x.file = g
    BY Zenon, <1>6, <1>7, <2>1 DEF ConnType
  <2>4. /\ d \in ConnType /\ d.buf = b /\ d.mode = t /\ d.cur = a /\ d.size = 1
        /\ d.file = g
    BY Zenon, <1>6, <2>2, <2>3
  <2>5. Sound(d)
    BY Zenon, <2>1, <2>4 DEF Sound
  <2> QED BY Zenon, <1>8, <2>4, <2>5 DEF d, b, t, a, s, g
<1>9. CASE t # "SENDFILE"
  <2> DEFINE z == c.size + s
  <2>1. z \in Nat /\ a + z <= BUF_SIZE
    BY <1>1, <1>2, <1>7
  <2>2. d = [p EXCEPT !.cur = a, !.size = z]
    BY Zenon, <1>6, <1>9 DEF Started, p, a, s, t
  <2> HIDE DEF z, d
  <2>3. LET x == [p EXCEPT !.cur = a, !.size = z] IN
        /\ x \in ConnType /\ x.buf = p.buf /\ x.mode = p.mode /\ x.cur = a /\ x.size = z
        /\ x.file = p.file
    BY Zenon, <1>6, <1>7, <2>1 DEF ConnType
  <2>4. /\ d \in ConnType /\ d.buf = b /\ d.mode = t /\ d.cur = a /\ d.size = z
        /\ d.file = c.file
    BY Zenon, <1>6, <2>2, <2>3
  <2>5. Sound(d)
    BY Zenon, <2>1, <2>4 DEF Sound
  <2> QED BY Zenon, <1>9, <2>4, <2>5 DEF d, b, t, a, s, z
<1> QED
  BY Zenon, <1>8, <1>9

\* What reply() sends.
LEMMA ReplySends ==
  ASSUME SendType, NEW m \in Range(Msgs), Out!Reply(m)
  PROVE  LET d == Started(conn, m) IN
         \E o : \E n \in 0 .. d.size, f \in 0 .. d.file :
           /\ conn' = o.conn /\ OnWire(o)
           /\ SentBy(d, o, n, f)
           /\ ~load.partial /\ Out!ModeOf(m) # "SENDFILE" => o.conn.cur \in {d.cur, 0}
<1> DEFINE d == Started(conn, m)
<1>1. Sound(conn) /\ Out!Room(conn) >= ReplySize[m]
  BY Zenon DEF SendType, Sound, Out!Reply
<1>2. Sound(d) /\ d.file \in Nat
  <2>1. Sound(d)
    BY Zenon, <1>1, StartedFields
  <2> HIDE DEF d
  <2> QED BY <2>1 DEF Sound, ConnType
<1>3. PICK o \in Out!StartReply(Out!Prepared(conn, m), m) :
             conn' = o.conn /\ wire' = wire \o o.cells
  BY Zenon DEF Out!Reply
<1>4. CASE Out!ModeOf(m) = "SENDFILE"
  <2>1. o \in Out!conn_send_v2(d)
    BY Zenon, <1>3, <1>4 DEF Out!StartReply, Out!conn_start_sendfile, Started
  <2> HIDE DEF d
  <2>2. PICK p : /\ \E n \in 0 .. d.size, f \in 0 .. d.file : SentBy(d, p, n, f)
                 /\ o.conn = p.conn /\ o.cells \in {p.cells, <<Out!Stray>> \o p.cells}
    BY Zenon, <1>2, <2>1, SendfileOutcome
  <2>3. \E n \in 0 .. d.size, f \in 0 .. d.file :
           /\ conn' = p.conn /\ OnWire(p) /\ SentBy(d, p, n, f)
           /\ ~load.partial /\ Out!ModeOf(m) # "SENDFILE" => p.conn.cur \in {d.cur, 0}
    BY Zenon, <1>3, <1>4, <2>2 DEF OnWire
  <2> QED BY Zenon, <2>3 DEF d
<1>5. CASE Out!ModeOf(m) # "SENDFILE"
  <2>1. o \in Out!conn_send(d)
    BY Zenon, <1>3, <1>5 DEF Out!StartReply, Out!conn_start_send, Started
  <2> HIDE DEF d
  <2>2. /\ \E n \in 0 .. d.size : SentBy(d, o, n, 0)
        /\ ~load.partial => o.conn.cur \in {d.cur, 0}
    BY Zenon, <1>2, <2>1, SendOutcome
  <2>3. 0 \in 0 .. d.file
    BY <1>2
  <2>4. \E n \in 0 .. d.size, f \in 0 .. d.file :
           /\ conn' = o.conn /\ OnWire(o) /\ SentBy(d, o, n, f)
           /\ ~load.partial /\ Out!ModeOf(m) # "SENDFILE" => o.conn.cur \in {d.cur, 0}
    BY Zenon, <1>3, <2>2, <2>3 DEF OnWire
  <2> QED BY Zenon, <2>4 DEF d
<1> QED
  BY Zenon, <1>4, <1>5

\* What conn_flush() sends on a POLLOUT event.
LEMMA FlushSends ==
  ASSUME SendType, Out!Flush
  PROVE  \E o : \E n \in 0 .. conn.size, f \in 0 .. conn.file :
           /\ conn' = o.conn /\ OnWire(o)
           /\ pollout' = (o.ret = 0) /\ open' = (o.ret >= 0)
           /\ SentBy(conn, o, n, f)
           /\ ~load.partial /\ conn.mode = "NORMAL" => o.conn.cur \in {conn.cur, 0}
<1>1. Sound(conn) /\ conn.file \in Nat
  BY DEF SendType, Sound, ConnType
<1>2. PICK o \in Out!conn_flush(conn) : /\ conn' = o.conn /\ wire' = wire \o o.cells
                                        /\ pollout' = (o.ret = 0) /\ open' = (o.ret >= 0)
  BY Zenon DEF Out!Flush
<1>3. CASE conn.mode = "NORMAL"
  <2>1. o \in Out!conn_send(conn)
    BY Zenon, <1>2, <1>3 DEF Out!conn_flush
  <2>2. /\ \E n \in 0 .. conn.size : SentBy(conn, o, n, 0)
        /\ ~load.partial => o.conn.cur \in {conn.cur, 0}
    BY Zenon, <1>1, <2>1, SendOutcome
  <2>3. 0 \in 0 .. conn.file
    BY <1>1
  <2> QED BY Zenon, <1>2, <2>2, <2>3 DEF OnWire
<1>4. CASE conn.mode # "NORMAL"
  <2>1. o \in Out!conn_send_v2(conn)
    BY Zenon, <1>2, <1>4 DEF Out!conn_flush
  <2>2. PICK p : /\ \E n \in 0 .. conn.size, f \in 0 .. conn.file : SentBy(conn, p, n, f)
                 /\ o.conn = p.conn /\ o.ret = p.ret
                 /\ o.cells \in {p.cells, <<Out!Stray>> \o p.cells}
    BY Zenon, <1>1, <2>1, SendfileOutcome
  <2>3. /\ conn' = p.conn /\ OnWire(p)
        /\ pollout' = (p.ret = 0) /\ open' = (p.ret >= 0)
    BY Zenon, <1>2, <2>2 DEF OnWire
  <2> QED BY Zenon, <1>4, <2>2, <2>3
<1> QED
  BY Zenon, <1>3, <1>4

\* The cells of a reply.
LEMMA ReplyCells ==
  ASSUME NEW m \in Range(Msgs)
  PROVE  /\ Out!Cells(m) \in Seq(ReplyCell)
         /\ Len(Out!Cells(m)) = ReplySize[m]
         /\ ReplySize[m] \in Nat \ {0}
         /\ m # Out!Body
         /\ Out!Cells(m)[1] = m
         /\ \A k \in 1 .. ReplySize[m] : k # 1 => Out!Cells(m)[k] = Out!Body
<1>1. ReplySize[m] \in Nat \ {0}
  BY ConnConstants
<1>2. Out!Cells(m) = [k \in 1 .. ReplySize[m] |-> IF k = 1 THEN m ELSE Out!Body]
  BY DEF Out!Cells
<1>3. \A k \in 1 .. ReplySize[m] : (IF k = 1 THEN m ELSE Out!Body) \in ReplyCell
  BY DEF ReplyCell
<1>4. Out!Cells(m) \in Seq(ReplyCell) /\ Len(Out!Cells(m)) = ReplySize[m]
  BY <1>1, <1>2, <1>3, MadeSeq
<1>5. m # Out!Body
  BY ConnConstants DEF Out!Body
<1>6. \A k \in 1 .. ReplySize[m] : Out!Cells(m)[k] = IF k = 1 THEN m ELSE Out!Body
  BY <1>2
<1>7. 1 \in 1 .. ReplySize[m]
  BY <1>1
<1> QED
  BY Zenon, <1>1, <1>4, <1>5, <1>6, <1>7

\* A reply that is appended where the waiting cells end is behind them.
LEMMA LinkedReply ==
  ASSUME NEW c, Sound(c), NEW m \in Range(Msgs), Out!Room(c) >= ReplySize[m],
         NEW q \in Seq(ReplyCell), NEW w \in Seq(ReplyCell), Linked(c, q, w),
         c.cur = 0, c.file = 0, c.size = 0 \/ Out!ModeOf(m) # "SENDFILE"
  PROVE  Linked(Started(c, m), q \o Out!Cells(m), w)
<1> DEFINE d == Started(c, m)
           s == ReplySize[m]
           x == Out!Cells(m)
           v == q \o x
<1>1. /\ Sound(d)
      /\ d.buf = [c.buf EXCEPT ![c.size] = m]
      /\ d.cur = (IF c.size = 0 THEN 0 ELSE c.cur)
      /\ d.size = (IF Out!ModeOf(m) = "SENDFILE" THEN 1 ELSE c.size + s)
      /\ d.file = (IF Out!ModeOf(m) = "SENDFILE" THEN s - 1 ELSE c.file)
      /\ d.mode = Out!ModeOf(m)
  BY Zenon, StartedFields
<1>2. /\ x \in Seq(ReplyCell) /\ Len(x) = s /\ s \in Nat \ {0} /\ m # Out!Body /\ x[1] = m
      /\ \A k \in 1 .. s : k # 1 => x[k] = Out!Body
  BY Zenon, ReplyCells
<1>3. c.size \in Nat /\ BUF_SIZE \in Nat /\ c.buf \in BufType
  BY ZenonT(30), ConnConstants DEF Sound, ConnType
<1>4. c.size \in 0 .. BUF_SIZE - 1
  <2>1. BUF_SIZE - (0 + c.size) >= s
    BY DEF Out!Room
  <2>2. s \in Nat \ {0} /\ c.size \in Nat /\ BUF_SIZE \in Nat
    BY Zenon, <1>2, <1>3
  <2> HIDE DEF s
  <2> QED BY <2>1, <2>2
<1>5. /\ Len(q) = Len(w) + c.size + c.file
      /\ \A k \in 1 .. c.size :
           q[Len(w) + k] # Out!Body => c.buf[c.cur + k - 1] = q[Len(w) + k]
      /\ \A k \in 1 .. Len(w) : q[k] # Out!Body => w[k] = q[k]
  BY Zenon DEF Linked
<1> HIDE DEF x, s, d
<1>6. /\ Len(q) \in Nat /\ Len(w) \in Nat /\ Len(v) = Len(q) + s
      /\ \A k \in 1 .. Len(q) : v[k] = q[k]
      /\ \A k \in 1 .. s : v[Len(q) + k] = x[k]
  <2>1. x \in Seq(ReplyCell)
    BY <1>2
  <2>2. /\ Len(q) \in Nat /\ Len(w) \in Nat /\ Len(q \o x) = Len(q) + Len(x)
        /\ \A k \in 1 .. Len(q) : (q \o x)[k] = q[k]
        /\ \A k \in 1 .. Len(x) : (q \o x)[Len(q) + k] = x[k]
    BY <2>1
  <2> QED BY Zenon, <1>2, <2>2
<1>7. /\ d.buf[c.size] = m /\ \A k \in 0 .. BUF_SIZE - 1 : k # c.size => d.buf[k] = c.buf[k]
  BY Zenon, <1>1, <1>3, <1>4 DEF BufType
<1> HIDE DEF v
<1>8. d.cur = 0 /\ Len(q) = Len(w) + c.size
  <2>1. d.cur = (IF c.size = 0 THEN 0 ELSE c.cur) /\ Len(q) = Len(w) + c.size + c.file
    BY Zenon, <1>1, <1>5
  <2>2. Len(w) \in Nat /\ c.size \in Nat
    BY Zenon, <1>3, <1>6
  <2> QED BY <2>1, <2>2
<1>9. /\ d.size \in Nat /\ d.file \in Nat
      /\ d.size + d.file = c.size + s /\ d.size >= c.size + 1
      /\ d.mode = "NORMAL" => d.file = 0
  <2>1. /\ d.size = (IF Out!ModeOf(m) = "SENDFILE" THEN 1 ELSE c.size + s)
        /\ d.file = (IF Out!ModeOf(m) = "SENDFILE" THEN s - 1 ELSE c.file)
        /\ d.mode = Out!ModeOf(m)
    BY Zenon, <1>1
  <2>2. c.size \in Nat /\ s \in Nat \ {0}
    BY Zenon, <1>2, <1>3
  <2> QED BY <2>1, <2>2
<1>10. Len(v) = Len(w) + d.size + d.file
  <2>1. Len(v) = Len(w) + c.size + s
    BY Zenon, <1>6, <1>8
  <2>2. Len(w) \in Int /\ c.size \in Int /\ s \in Int /\ d.size \in Int /\ d.file \in Int
    BY <1>2, <1>3, <1>6, <1>9
  <2>3. /\ Len(w) + c.size + s = Len(w) + (c.size + s)
        /\ Len(w) + d.size + d.file = Len(w) + (d.size + d.file)
    <3>1. \A a, b, l \in Int : l + a + b = l + (a + b)
      OBVIOUS
    <3> QED BY ZenonT(30), <2>2, <3>1
  <2> QED BY Zenon, <1>9, <2>1, <2>3
\* A cell of the reply, by its place among the waiting ones.
<1>11. ASSUME NEW k \in Int, c.size < k, k <= c.size + s
       PROVE  v[Len(w) + k] = IF k = c.size + 1 THEN m ELSE Out!Body
  <2> DEFINE j == k - c.size
  <2>0. Len(w) \in Int /\ c.size \in Int /\ s \in Int
    <3>1. Len(w) \in Nat /\ c.size \in Nat /\ s \in Nat \ {0}
      BY Zenon, <1>2, <1>3, <1>6
    <3> QED BY <3>1
  <2>1. j \in 1 .. s /\ Len(w) + k = Len(q) + j /\ (j = 1 <=> k = c.size + 1)
    <3>1. k - c.size \in 1 .. s
      BY <1>11, <2>0
    <3>2. k - c.size = 1 <=> k = c.size + 1
      BY <2>0
    <3>3. \A a, y, l \in Int : l + y = (l + a) + (y - a)
      OBVIOUS
    <3>4. Len(w) + k = (Len(w) + c.size) + (k - c.size)
      BY Zenon, <2>0, <3>3
    <3> QED BY Zenon, <1>8, <3>1, <3>2, <3>4
  <2> HIDE DEF j
  <2>2. v[Len(w) + k] = x[j]
    BY Zenon, <1>6, <2>1
  <2> QED BY Zenon, <1>2, <2>1, <2>2
<1>12. ASSUME NEW k \in 1 .. d.size, v[Len(w) + k] # Out!Body
       PROVE  d.buf[d.cur + k - 1] = v[Len(w) + k]
  <2>0. Len(q) \in Nat /\ Len(w) \in Nat /\ k \in Int
    BY <1>6, <1>9
  <2>1. CASE k <= c.size
    <3>1. /\ k \in 1 .. c.size /\ Len(w) + k \in 1 .. Len(q) /\ k - 1 \in 0 .. BUF_SIZE - 1
          /\ k - 1 # c.size /\ 0 + k - 1 = k - 1
      BY <1>3, <1>4, <1>8, <2>0, <2>1
    <3>2. v[Len(w) + k] = q[Len(w) + k]
      BY Zenon, <1>6, <3>1
    <3>3. c.buf[0 + k - 1] = q[Len(w) + k]
      BY Zenon, <1>5, <1>12, <3>1, <3>2
    <3> QED BY Zenon, <1>7, <1>8, <3>1, <3>2, <3>3
  <2>2. CASE k > c.size
    <3>1. c.size < k /\ k <= c.size + s
      BY <1>2, <1>3, <1>9, <2>0, <2>2
    <3>2. v[Len(w) + k] = IF k = c.size + 1 THEN m ELSE Out!Body
      BY Zenon, <1>11, <2>0, <3>1
    <3>3. k = c.size + 1 /\ v[Len(w) + k] = m
      BY Zenon, <1>12, <3>2
    <3>4. 0 + k - 1 = c.size
      BY <1>3, <3>3
    <3> QED BY Zenon, <1>7, <1>8, <3>3, <3>4
  <2> QED BY <1>3, <2>0, <2>1, <2>2
<1>13. ASSUME NEW k \in d.size + 1 .. d.size + d.file PROVE v[Len(w) + k] = Out!Body
  <2>1. k \in Int /\ c.size < k /\ k <= c.size + s /\ k # c.size + 1
    BY SMTT(30), <1>2, <1>3, <1>9
  <2> QED BY Zenon, <1>11, <2>1
<1>14. ASSUME NEW k \in 1 .. Len(w), v[k] # Out!Body PROVE w[k] = v[k]
  <2>0. Len(q) \in Nat /\ Len(w) \in Nat
    BY Zenon, <1>6
  <2>1. k \in 1 .. Len(q)
    BY <1>3, <1>8, <2>0
  <2> QED BY Zenon, <1>5, <1>6, <1>14, <2>1
<1>15. d.size # 0
  BY <1>3, <1>9
<1>16. Linked(d, v, w)
  <2>1. \A k \in 1 .. d.size : v[Len(w) + k] # Out!Body => d.buf[d.cur + k - 1] = v[Len(w) + k]
    BY Zenon, <1>12
  <2>2. \A k \in d.size + 1 .. d.size + d.file : v[Len(w) + k] = Out!Body
    BY Zenon, <1>13
  <2>3. \A k \in 1 .. Len(w) : v[k] # Out!Body => w[k] = v[k]
    BY Zenon, <1>14
  <2> QED BY Zenon, <1>9, <1>10, <1>15, <2>1, <2>2, <2>3 DEF Linked
<1> QED
  BY Zenon, <1>16 DEF d, v, x

-----------------------------------------------------------------------------
\* A step sends nothing, or is a REPLY or a POLLOUT event.
LEMMA SendCases ==
  [Next]_vars => \/ Quiet
                 \/ \E r \in DOMAIN req_list : ReplyTo(r)
                 \/ Flush
<1> SUFFICES ASSUME [Next]_vars
             PROVE  \/ Quiet
                    \/ \E r \in DOMAIN req_list : ReplyTo(r)
                    \/ Flush
  OBVIOUS
<1>1. ASSUME UNCHANGED sendVars PROVE Quiet
  BY <1>1 DEF sendVars, Quiet
<1>2. ASSUME NEW n \in 1 .. BUF_SIZE, Receive(n) PROVE Quiet
  BY Zenon, <1>2 DEF Receive, Quiet
<1>3. CASE ReceiveFails
  BY Zenon, <1>3 DEF ReceiveFails, Quiet
<1>4. CASE Obtain
  BY Zenon, <1>1, <1>4 DEF Obtain
<1>5. ASSUME NEW r \in 1 .. Len(Msgs), ReplyTo(r) PROVE r \in DOMAIN req_list
  BY <1>5 DEF ReplyTo, In!Finish, In!AtReply
<1>6. ASSUME NEW r \in 1 .. Len(Msgs), ReplyAborts(r) PROVE Quiet
  BY Zenon, <1>6 DEF ReplyAborts, Out!ReplyAborts, Quiet
<1>7. CASE PeerGone
  BY Zenon, <1>7 DEF PeerGone, Out!PeerGone, Quiet
<1>8. CASE UNCHANGED vars
  BY Zenon, <1>1, <1>8 DEF vars
<1> QED
  BY Zenon, <1>2, <1>3, <1>4, <1>5, <1>6, <1>7, <1>8 DEF Next

\* A REPLY makes one reply and starts to send it.
LEMMA ReplyStep ==
  ASSUME RecvInv, SendType, NEW r \in DOMAIN req_list, ReplyTo(r)
  PROVE  LET m == req_list[r].msg IN
         /\ m \in Range(Msgs) /\ m \in todo /\ Out!Reply(m)
         /\ load' = load /\ todo' = todo \ {m} /\ queued' = queued \o Out!Cells(m)
         /\ Out!Room(conn) >= ReplySize[m]
         /\ open' \in BOOLEAN /\ pollout' \in BOOLEAN
<1> DEFINE m == req_list[r].msg
<1>1. m \in Range(Msgs)
  BY ReqType DEF RecvInv
<1>2. Out!Reply(m)
  BY Zenon DEF ReplyTo
<1> HIDE DEF m
<1>3. /\ m \in todo /\ load' = load /\ todo' = todo \ {m} /\ queued' = queued \o Out!Cells(m)
      /\ Out!Room(conn) >= ReplySize[m]
  BY Zenon, <1>2 DEF Out!Reply
<1>4. pollout \in BOOLEAN
  BY DEF SendType
<1>5. open' \in BOOLEAN /\ pollout' \in BOOLEAN
  BY Zenon, <1>2, <1>4 DEF Out!Reply, Out!AskPollout
<1> QED
  BY Zenon, <1>1, <1>2, <1>3, <1>5 DEF m

\* Every step keeps what waits to be sent within send_buf.
LEMMA SendTypeStep == RecvInv /\ SendType /\ [Next]_vars => SendType'
<1> SUFFICES ASSUME RecvInv, SendType, [Next]_vars PROVE SendType'
  OBVIOUS
<1>0. wire \in Seq(ReplyCell) /\ queued \in Seq(ReplyCell)
  BY DEF SendType
<1>1. CASE Quiet
  BY Zenon, <1>1 DEF SendType, Quiet
\* The connection and the wire after a send.
<1>2. ASSUME NEW c, NEW o, NEW n, NEW f, conn' = o.conn, OnWire(o),
             SentBy(c, o, n, f)
      PROVE  /\ conn' \in ConnType /\ conn'.cur + conn'.size <= BUF_SIZE
             /\ wire' \in Seq(ReplyCell)
  <2>1. /\ o.conn \in ConnType /\ o.conn.cur + o.conn.size <= BUF_SIZE
        /\ o.cells \in Seq(ReplyCell)
    BY Zenon, <1>2 DEF SentBy
  <2>2. wire' \in Seq(ReplyCell)
    BY Zenon, <1>0, <1>2, <2>1, WireGrows
  <2> QED BY Zenon, <1>2, <2>1, <2>2
<1>3. ASSUME NEW r \in DOMAIN req_list, ReplyTo(r) PROVE SendType'
  <2> DEFINE m == req_list[r].msg
  <2>1. /\ m \in Range(Msgs) /\ Out!Reply(m)
        /\ load' = load /\ todo' = todo \ {m} /\ queued' = queued \o Out!Cells(m)
        /\ open' \in BOOLEAN /\ pollout' \in BOOLEAN
    BY Zenon, <1>3, ReplyStep
  <2> HIDE DEF m
  <2>2. \E o, c : \E n, f :
          conn' = o.conn /\ OnWire(o) /\ SentBy(c, o, n, f)
    BY Zenon, <2>1, ReplySends
  <2>3. /\ conn' \in ConnType /\ conn'.cur + conn'.size <= BUF_SIZE
        /\ wire' \in Seq(ReplyCell)
    BY Zenon, <1>2, <2>2
  <2>4. queued' \in Seq(ReplyCell)
    BY Zenon, <1>0, <2>1, ReplyCells, Concat
  <2>5. load' \in Loads /\ todo' \subseteq Range(Msgs)
    BY <2>1 DEF SendType
  <2> QED BY Zenon, <2>1, <2>3, <2>4, <2>5 DEF SendType
<1>4. CASE Flush
  <2>1. Out!Flush
    BY <1>4 DEF Flush
  <2>2. \E o, c : \E n, f :
          conn' = o.conn /\ OnWire(o) /\ SentBy(c, o, n, f)
    BY Zenon, <2>1, FlushSends
  <2>3. /\ conn' \in ConnType /\ conn'.cur + conn'.size <= BUF_SIZE
        /\ wire' \in Seq(ReplyCell)
    BY Zenon, <1>2, <2>2
  <2>4. load' = load /\ todo' = todo /\ queued' = queued
    BY Zenon, <2>1 DEF Out!Flush
  <2>5. open' \in BOOLEAN /\ pollout' \in BOOLEAN
    <3>1. PICK o : o.ret \in Int /\ pollout' = (o.ret = 0) /\ open' = (o.ret >= 0)
      BY ZenonT(30), <2>1, FlushSends DEF SentBy
    <3> DEFINE ret == o.ret
    <3>2. (ret = 0) \in BOOLEAN /\ (ret >= 0) \in BOOLEAN
      BY <3>1
    <3> QED BY Zenon, <3>1, <3>2
  <2>6. load \in Loads /\ todo \subseteq Range(Msgs) /\ queued \in Seq(ReplyCell)
    BY DEF SendType
  <2> QED BY Zenon, <2>3, <2>4, <2>5, <2>6 DEF SendType
<1> QED
  BY Zenon, <1>1, <1>3, <1>4, SendCases

\* The replies made and the cells sent are never taken back.
LEMMA SendGrows ==
  ASSUME RecvInv, SendType, [Next]_vars
  PROVE  /\ load' = load /\ todo' \subseteq todo
         /\ Len(wire) \in Nat /\ Len(wire') \in Nat /\ Len(wire) <= Len(wire')
         /\ Len(queued) \in Nat /\ Len(queued') \in Nat /\ Len(queued) <= Len(queued')
         /\ \A k \in 1 .. Len(queued) : queued'[k] = queued[k]
<1>0. wire \in Seq(ReplyCell) /\ queued \in Seq(ReplyCell)
  BY DEF SendType
<1>1. Len(wire) \in Nat /\ Len(queued) \in Nat
  BY Zenon, <1>0, SeqElements
<1>2. ASSUME NEW c, NEW o, NEW n, NEW f, OnWire(o), SentBy(c, o, n, f)
      PROVE  Len(wire') \in Nat /\ Len(wire) <= Len(wire')
  <2>1. o.cells \in Seq(ReplyCell)
    BY Zenon, <1>2 DEF SentBy
  <2> QED BY Zenon, <1>0, <1>2, <2>1, WireGrows
<1>3. CASE Quiet
  BY <1>1, <1>3 DEF Quiet
<1>4. ASSUME NEW r \in DOMAIN req_list, ReplyTo(r)
      PROVE  /\ load' = load /\ todo' \subseteq todo
             /\ Len(wire') \in Nat /\ Len(wire) <= Len(wire')
             /\ Len(queued') \in Nat /\ Len(queued) <= Len(queued')
             /\ \A k \in 1 .. Len(queued) : queued'[k] = queued[k]
  <2> DEFINE m == req_list[r].msg
             x == Out!Cells(m)
  <2>1. /\ m \in Range(Msgs) /\ Out!Reply(m)
        /\ load' = load /\ todo' = todo \ {m} /\ queued' = queued \o Out!Cells(m)
    BY Zenon, <1>4, ReplyStep
  <2>2. \E o, c : \E n, f :
          OnWire(o) /\ SentBy(c, o, n, f)
    BY Zenon, <2>1, ReplySends
  <2>3. Len(wire') \in Nat /\ Len(wire) <= Len(wire')
    BY Zenon, <1>2, <2>2
  <2>4. x \in Seq(ReplyCell)
    BY Zenon, <2>1, ReplyCells
  <2> HIDE DEF x
  <2>5. /\ Len(queued \o x) = Len(queued) + Len(x) /\ Len(x) \in Nat
        /\ \A k \in 1 .. Len(queued) : (queued \o x)[k] = queued[k]
    BY <1>0, <2>4
  <2>6. /\ Len(queued') = Len(queued) + Len(x)
        /\ \A k \in 1 .. Len(queued) : queued'[k] = queued[k]
    BY Zenon, <2>1, <2>5 DEF x
  <2>7. Len(queued') \in Nat /\ Len(queued) <= Len(queued')
    BY <1>1, <2>5, <2>6
  <2>8. todo' \subseteq todo
    BY Zenon, <2>1
  <2> QED BY Zenon, <2>1, <2>3, <2>6, <2>7, <2>8
<1>5. CASE Flush
  <2>1. Out!Flush
    BY <1>5 DEF Flush
  <2>2. \E o, c : \E n, f :
          OnWire(o) /\ SentBy(c, o, n, f)
    BY Zenon, <2>1, FlushSends
  <2>3. Len(wire') \in Nat /\ Len(wire) <= Len(wire')
    BY Zenon, <1>2, <2>2
  <2>4. load' = load /\ todo' = todo /\ queued' = queued
    BY Zenon, <2>1 DEF Out!Flush
  <2> QED BY <1>1, <2>3, <2>4
<1> QED
  BY Zenon, <1>1, <1>3, <1>4, <1>5, SendCases

\* A reply that has been sent stays sent.
LEMMA SentGrows ==
  ASSUME RecvInv, SendType, [Next]_vars
  PROVE  Out!Sent \subseteq Out!Sent'
<1>1. /\ todo' \subseteq todo
      /\ Len(wire) \in Nat /\ Len(wire') \in Nat /\ Len(wire) <= Len(wire')
      /\ Len(queued) \in Nat /\ Len(queued') \in Nat /\ Len(queued) <= Len(queued')
      /\ \A k \in 1 .. Len(queued) : queued'[k] = queued[k]
  BY Zenon, SendGrows
<1>2. DOMAIN queued = 1 .. Len(queued) /\ DOMAIN queued' = 1 .. Len(queued')
  <2>1. queued \in Seq(ReplyCell) /\ queued' \in Seq(ReplyCell)
    BY SendTypeStep DEF SendType
  <2> QED BY Zenon, <2>1, SeqElements
<1> SUFFICES ASSUME NEW m \in Out!Sent PROVE m \in Out!Sent'
  BY Zenon
<1>3. m \in Range(Msgs) \ todo /\ ReplySize[m] \in Nat
  BY ConnConstants DEF Out!Sent
<1>4. PICK k \in DOMAIN queued : queued[k] = m /\ k + ReplySize[m] - 1 <= Len(wire)
  BY Zenon DEF Out!Sent
<1>5. k \in DOMAIN queued' /\ k + ReplySize[m] - 1 <= Len(wire')
  BY <1>1, <1>2, <1>3, <1>4
<1>6. queued'[k] = m
  BY Zenon, <1>1, <1>2, <1>4
<1>7. m \in Range(Msgs) \ todo'
  BY Zenon, <1>1, <1>3
<1> QED
  BY Zenon, <1>4, <1>5, <1>6, <1>7 DEF Out!Sent

-----------------------------------------------------------------------------
\* Every reply made has its header once in what is queued, and ends with it.
LEMMA HeadersStep ==
  ASSUME RecvInv, SendType, Headers, [Next]_vars
  PROVE  Headers'
<1>1. CASE UNCHANGED <<todo, queued>>
  BY <1>1 DEF Headers
<1>2. ASSUME NEW r \in DOMAIN req_list, ReplyTo(r) PROVE Headers'
  <2> DEFINE m == req_list[r].msg
             x == Out!Cells(m)
             L == Len(queued)
             s == ReplySize[m]
  <2>1. /\ m \in Range(Msgs) /\ m \in todo
        /\ todo' = todo \ {m} /\ queued' = queued \o x
    BY Zenon, <1>2, ReplyStep
  <2>2. /\ x \in Seq(ReplyCell) /\ Len(x) = s /\ s \in Nat \ {0} /\ m # Out!Body /\ x[1] = m
        /\ \A k \in 1 .. s : k # 1 => x[k] = Out!Body
    BY Zenon, <2>1, ReplyCells
  <2>3. queued \in Seq(ReplyCell)
    BY DEF SendType
  <2> HIDE DEF m, x, s
  <2>4. /\ L \in Nat /\ DOMAIN queued = 1 .. L /\ DOMAIN queued' = 1 .. L + s
        /\ Len(queued') = L + s
        /\ \A k \in 1 .. L : queued'[k] = queued[k]
        /\ \A k \in 1 .. s : queued'[L + k] = x[k]
    <3>1. x \in Seq(ReplyCell)
      BY <2>2
    <3>2. /\ L \in Nat /\ DOMAIN queued = 1 .. L /\ DOMAIN (queued \o x) = 1 .. L + Len(x)
          /\ Len(queued \o x) = L + Len(x)
          /\ \A k \in 1 .. L : (queued \o x)[k] = queued[k]
          /\ \A k \in 1 .. Len(x) : (queued \o x)[L + k] = x[k]
      BY <2>3, <3>1
    <3> QED BY Zenon, <2>1, <2>2, <3>2
  <2> HIDE DEF L
  <2>5. /\ \A k \in 1 .. L : queued[k] # Out!Body => queued[k] \in Range(Msgs) \ todo
        /\ \A k, l \in 1 .. L : queued[k] = queued[l] /\ queued[k] # Out!Body => k = l
    BY Zenon, <2>4 DEF Headers
  <2>6. s \in Nat \ {0} /\ L \in Nat
    BY Zenon, <2>2, <2>4
  \* A header is one of before, or that of the reply.
  <2>7. ASSUME NEW k \in 1 .. L + s, queued'[k] # Out!Body
        PROVE  \/ k \in 1 .. L /\ queued'[k] = queued[k] /\ queued[k] # Out!Body
               \/ k = L + 1 /\ queued'[k] = m
    <3>1. CASE k <= L
      <4>1. k \in 1 .. L
        BY <2>6, <3>1
      <4> QED BY Zenon, <2>4, <2>7, <4>1
    <3>2. CASE k > L
      <4> DEFINE j == k - L
      <4>1. j \in 1 .. s /\ k = L + j
        BY <2>6, <3>2
      <4> HIDE DEF j
      <4>2. queued'[k] = x[j]
        BY Zenon, <2>4, <4>1
      <4>3. j = 1
        BY Zenon, <2>2, <2>7, <4>1, <4>2
      <4> QED BY Zenon, <2>2, <4>1, <4>2, <4>3
    <3> QED BY <2>6, <3>1, <3>2
  <2>8. L + 1 \in 1 .. L + s /\ L + 1 \notin 1 .. L /\ (L + 1) + s - 1 = L + s /\ 1 \in 1 .. s
    BY <2>6
  <2>9. queued'[L + 1] = m
    BY Zenon, <2>2, <2>4, <2>8
  <2>10. \A k \in 1 .. L + s : queued'[k] # Out!Body => queued'[k] \in Range(Msgs) \ todo'
    BY Zenon, <2>1, <2>5, <2>7
  <2>11. \A k, l \in 1 .. L + s : queued'[k] = queued'[l] /\ queued'[k] # Out!Body => k = l
    <3> SUFFICES ASSUME NEW k \in 1 .. L + s, NEW l \in 1 .. L + s,
                        queued'[k] = queued'[l], queued'[k] # Out!Body
                 PROVE  k = l
      BY Zenon
    <3>1. \/ k \in 1 .. L /\ queued'[k] = queued[k] /\ queued[k] # Out!Body
          \/ k = L + 1 /\ queued'[k] = m
      BY Zenon, <2>7
    <3>2. \/ l \in 1 .. L /\ queued'[l] = queued[l] /\ queued[l] # Out!Body
          \/ l = L + 1 /\ queued'[l] = m
      BY Zenon, <2>7
    <3> QED BY Zenon, <2>1, <2>5, <3>1, <3>2
  <2>12. \E k \in 1 .. L + s : queued'[k] # Out!Body /\ k + ReplySize[queued'[k]] - 1 = L + s
    <3>1. queued'[L + 1] # Out!Body /\ (L + 1) + ReplySize[queued'[L + 1]] - 1 = L + s
      BY Zenon, <2>2, <2>8, <2>9 DEF s
    <3> QED BY Zenon, <2>8, <3>1
  <2> QED BY Zenon, <2>4, <2>10, <2>11, <2>12 DEF Headers
<1>3. Flush \/ Quiet => UNCHANGED <<todo, queued>>
  BY Zenon DEF Flush, Out!Flush, Quiet
<1> QED
  BY Zenon, <1>1, <1>2, <1>3, SendCases

\* The first n messages.
LEMMA FirstMessages ==
  ASSUME NEW n \in 0 .. Len(Msgs), NEW s, s = SubSeq(Msgs, 1, n)
  PROVE  Range(s) = {Msgs[j] : j \in 1 .. n}
<1>1. Msgs \in Seq(Range(Msgs)) /\ Len(Msgs) \in Nat
  BY Zenon, MsgType, ConnConstants
<1>2. \A i \in 1 .. n : Msgs[i] \in Range(Msgs)
  BY <1>1, MsgType
<1>3. /\ SubSeq(Msgs, 1, n) \in Seq(Range(Msgs)) /\ DOMAIN SubSeq(Msgs, 1, n) = 1 .. n
      /\ \A i \in 1 .. n : SubSeq(Msgs, 1, n)[i] = Msgs[i]
  <2> DEFINE R == Range(Msgs)
  <2>1. Msgs \in Seq(R) /\ \A i \in 1 .. n : Msgs[i] \in R
    BY Zenon, <1>1, <1>2
  <2> HIDE DEF R
  <2>2. /\ SubSeq(Msgs, 1, n) \in Seq(R) /\ DOMAIN SubSeq(Msgs, 1, n) = 1 .. n
        /\ \A i \in 1 .. n : SubSeq(Msgs, 1, n)[i] = Msgs[i]
    BY <1>1, <2>1
  <2> QED BY Zenon, <2>2 DEF R
<1>4. DOMAIN s = 1 .. n /\ \A i \in 1 .. n : s[i] = Msgs[i]
  BY Zenon, <1>3
<1> QED
  BY Zenon, <1>4 DEF Range

\* No message is sent twice.
LEMMA MsgsDiffer ==
  ASSUME NEW i \in 1 .. Len(Msgs), NEW j \in 1 .. Len(Msgs), Msgs[i] = Msgs[j]
  PROVE  i = j
<1>1. DOMAIN Msgs = 1 .. Len(Msgs)
  BY Zenon, ConnConstants, SeqElements
<1> QED
  BY Zenon, <1>1, ConnConstants DEF IsInjective

\* A message is obtained once, and is answered at most once.
LEMMA PendingStep ==
  ASSUME RecvInv, SendType, Pending, [Next]_vars
  PROVE  Pending'
<1>0. /\ Len(taken) \in 0 .. Len(Msgs) /\ Len(req_list) \in Nat
      /\ DOMAIN req_list = 1 .. Len(req_list)
  BY Zenon, DoneType
<1>1. /\ \A i \in DOMAIN req_list : req_list[i].msg \in (Range(taken) \cap todo) \ answers
      /\ \A i, j \in DOMAIN req_list : req_list[i].msg = req_list[j].msg => i = j
      /\ Range(Msgs) \ todo \subseteq Range(taken) \ answers
  BY Zenon DEF Pending
<1>2. CASE UNCHANGED <<req_list, taken, answers, todo>>
  BY Zenon, <1>2 DEF Pending
<1>3. CASE In!Obtain /\ UNCHANGED sendVars
  <2> DEFINE t == Len(taken)
             m == Msgs[t + 1]
             n == Len(req_list)
  <2>1. /\ RecvInv' /\ taken' = Append(taken, m) /\ t + 1 \in 1 .. Len(Msgs)
    BY Zenon, <1>3, ObtainStep
  <2>2. answers' = answers /\ todo' = todo
    BY <1>3 DEF In!Obtain, sendVars
  <2>3. m \in Range(Msgs)
    BY Zenon, <2>1, MsgType
  <2>4. /\ taken \in Seq(Range(Msgs)) /\ taken = SubSeq(Msgs, 1, t)
        /\ taken' = SubSeq(Msgs, 1, Len(taken'))
    BY Zenon, <2>1 DEF RecvInv, RecvType, Framed
  <2>5. Len(taken') = t + 1
    <3> HIDE DEF m
    <3> QED BY <2>1, <2>3, <2>4
  <2>6. Range(taken) = {Msgs[j] : j \in 1 .. t}
    BY Zenon, <1>0, <2>4, FirstMessages
  <2>7. Range(taken') = {Msgs[j] : j \in 1 .. t + 1}
    <3>1. t + 1 \in 0 .. Len(Msgs)
      BY <2>1, MsgType
    <3> QED BY Zenon, <2>4, <2>5, <3>1, FirstMessages
  <2>8. m \notin Range(taken)
    <3> SUFFICES ASSUME NEW j \in 1 .. t, m = Msgs[j] PROVE FALSE
      BY Zenon, <2>6
    <3>1. j \in 1 .. Len(Msgs) /\ j # t + 1
      BY <1>0, MsgType
    <3> QED BY Zenon, <2>1, <3>1, MsgsDiffer
  <2>9. Range(taken) \subseteq Range(taken') /\ m \in Range(taken')
    <3>1. \A j \in 1 .. t : j \in 1 .. t + 1
      BY <1>0
    <3>2. t + 1 \in 1 .. t + 1
      BY <1>0
    <3> QED BY Zenon, <2>6, <2>7, <3>1, <3>2
  <2>10. m \in todo
    BY Zenon, <1>1, <2>3, <2>8
  <2>11. Range(Msgs) \ todo' \subseteq Range(taken') \ answers'
    BY Zenon, <1>1, <2>2, <2>9
  <2>12. CASE m \in answers
    <3>1. req_list' = req_list
      <4>1. In!Complete
        BY <1>3 DEF In!Obtain
      <4>2. recv_buf[proc] = <<m, 1>>
        BY Zenon, <4>1, NextMessage DEF In!Complete
      <4>3. recv_buf[proc][1] = m
        BY <4>2
      <4> HIDE DEF m
      <4> QED BY Zenon, <1>3, <2>12, <4>3 DEF In!Obtain
    <3> QED BY Zenon, <1>1, <2>2, <2>9, <2>11, <3>1 DEF Pending
  <2>13. CASE m \notin answers
    <3>1. /\ DOMAIN req_list' = 1 .. n + 1
          /\ req_list'[1].msg = m
          /\ \A i \in 1 .. n : req_list'[i + 1] = req_list[i]
      <4>1. In!Complete
        BY <1>3 DEF In!Obtain
      <4>2. recv_buf[proc] = <<m, 1>>
        BY Zenon, <4>1, NextMessage DEF In!Complete
      <4>3. recv_buf[proc][1] = m
        BY <4>2
      <4> DEFINE q == [msg |-> m, ptr |-> proc]
      <4>4. req_list' = <<q>> \o req_list
        <5> HIDE DEF m
        <5> QED BY Zenon, <1>3, <2>13, <4>3 DEF In!Obtain
      <4>5. req_list \in Seq([msg : Range(Msgs), ptr : Nat]) /\ q \in [msg : Range(Msgs), ptr : Nat]
        BY <2>3 DEF RecvInv, RecvType
      <4>6. q.msg = m
        OBVIOUS
      <4> HIDE DEF q
      <4>7. /\ DOMAIN (<<q>> \o req_list) = 1 .. n + 1
            /\ (<<q>> \o req_list)[1] = q
            /\ \A i \in 1 .. n : (<<q>> \o req_list)[i + 1] = req_list[i]
        BY <4>5
      <4> QED BY Zenon, <4>4, <4>6, <4>7
    <3> HIDE DEF m, n, t
    <3>2. ASSUME NEW i \in 1 .. n + 1, i # 1
          PROVE  \E k \in 1 .. n : i = k + 1 /\ req_list'[i] = req_list[k]
      <4>1. i - 1 \in 1 .. n /\ i = (i - 1) + 1
        BY <1>0, <3>2 DEF n
      <4> QED BY Zenon, <3>1, <4>1
    <3>3. DOMAIN req_list = 1 .. n
      BY Zenon, <1>0 DEF n
    <3>4. \A i \in 1 .. n + 1 : req_list'[i].msg \in (Range(taken') \cap todo') \ answers'
      <4> TAKE i \in 1 .. n + 1
      <4>1. CASE i = 1
        BY Zenon, <2>2, <2>9, <2>10, <2>13, <3>1, <4>1
      <4>2. CASE i # 1
        BY Zenon, <1>1, <2>2, <2>9, <3>2, <3>3, <4>2
      <4> QED BY Zenon, <4>1, <4>2
    <3>5. \A i, j \in 1 .. n + 1 : req_list'[i].msg = req_list'[j].msg => i = j
      <4> SUFFICES ASSUME NEW i \in 1 .. n + 1, NEW j \in 1 .. n + 1,
                          req_list'[i].msg = req_list'[j].msg
                   PROVE  i = j
        BY Zenon
      <4>1. \A k \in 1 .. n : req_list[k].msg # m
        BY Zenon, <1>1, <2>8, <3>3
      <4>2. CASE i = 1
        BY Zenon, <3>1, <3>2, <4>1, <4>2
      <4>3. CASE j = 1
        BY Zenon, <3>1, <3>2, <4>1, <4>3
      <4>4. CASE i # 1 /\ j # 1
        <5>1. PICK k \in 1 .. n : i = k + 1 /\ req_list'[i] = req_list[k]
          BY Zenon, <3>2, <4>4
        <5>2. PICK l \in 1 .. n : j = l + 1 /\ req_list'[j] = req_list[l]
          BY Zenon, <3>2, <4>4
        <5>3. req_list[k].msg = req_list[l].msg
          BY Zenon, <5>1, <5>2
        <5>4. k = l
          BY Zenon, <1>1, <3>3, <5>3
        <5> QED BY Zenon, <5>1, <5>2, <5>4
      <4> QED BY Zenon, <4>2, <4>3, <4>4
    <3> QED BY Zenon, <2>11, <3>1, <3>4, <3>5 DEF Pending
  <2> QED BY <2>12, <2>13
<1>4. ASSUME NEW r \in DOMAIN req_list, ReplyTo(r) PROVE Pending'
  <2> DEFINE m == req_list[r].msg
             n == Len(req_list)
             d == IF enable_defrag THEN SizeOf[m] ELSE 0
  <2>1. todo' = todo \ {m}
    BY Zenon, <1>4, ReplyStep
  <2>2. In!conn_req_remove(r) /\ taken' = taken /\ answers' = answers
    BY <1>4 DEF ReplyTo, In!Finish
  <2>3. /\ Len(req_list') = n - 1 /\ req_list' \in Seq([msg : Range(Msgs), ptr : Nat])
        /\ \A i \in 1 .. r - 1 : req_list'[i].msg = req_list[i].msg
        /\ \A i \in r .. n - 1 : req_list'[i] = req_list[i + 1]
    BY Zenon, <2>2, RemovedList
  <2>4. DOMAIN req_list' = 1 .. n - 1 /\ DOMAIN req_list = 1 .. n /\ n \in Nat /\ r \in 1 .. n
    BY Zenon, <1>0, <2>3, SeqElements
  <2> HIDE DEF m, n
  \* The request at place i was at another place than r.
  <2>5. ASSUME NEW i \in 1 .. n - 1
        PROVE  \E o \in 1 .. n : /\ o # r /\ o = (IF i < r THEN i ELSE i + 1)
                                 /\ req_list'[i].msg = req_list[o].msg
    <3>1. CASE i < r
      <4>1. i \in 1 .. r - 1 /\ i \in 1 .. n /\ i # r
        BY <2>4, <3>1
      <4> QED BY Zenon, <2>3, <3>1, <4>1
    <3>2. CASE ~(i < r)
      <4>1. i \in r .. n - 1 /\ i + 1 \in 1 .. n /\ i + 1 # r
        BY <2>4, <3>2
      <4> QED BY Zenon, <2>3, <3>2, <4>1
    <3> QED BY Zenon, <3>1, <3>2
  <2>6. \A i \in 1 .. n - 1 : req_list'[i].msg \in (Range(taken') \cap todo') \ answers'
    BY ZenonT(30), <1>1, <2>1, <2>2, <2>4, <2>5 DEF m
  <2>7. \A i, j \in 1 .. n - 1 : req_list'[i].msg = req_list'[j].msg => i = j
    <3> SUFFICES ASSUME NEW i \in 1 .. n - 1, NEW j \in 1 .. n - 1,
                        req_list'[i].msg = req_list'[j].msg
                 PROVE  i = j
      BY Zenon
    <3>1. PICK o \in 1 .. n : /\ o = (IF i < r THEN i ELSE i + 1)
                              /\ req_list'[i].msg = req_list[o].msg
      BY Zenon, <2>5
    <3>2. PICK q \in 1 .. n : /\ q = (IF j < r THEN j ELSE j + 1)
                              /\ req_list'[j].msg = req_list[q].msg
      BY Zenon, <2>5
    <3>3. o = q
      BY Zenon, <1>1, <2>4, <3>1, <3>2
    <3> QED BY <2>4, <3>1, <3>2, <3>3
  <2>8. Range(Msgs) \ todo' \subseteq Range(taken') \ answers'
    BY ZenonT(30), <1>1, <2>1, <2>2 DEF m
  <2> QED BY Zenon, <2>4, <2>6, <2>7, <2>8 DEF Pending
<1>5. ASSUME ~(\E r \in DOMAIN req_list : ReplyTo(r)), ~(In!Obtain /\ UNCHANGED sendVars)
      PROVE  UNCHANGED <<req_list, taken, answers, todo>>
  <2>1. ASSUME NEW n, Receive(n) PROVE UNCHANGED <<req_list, taken, answers, todo>>
    BY <2>1 DEF Receive, In!conn_recv, sendVars
  <2>2. CASE ReceiveFails
    BY Zenon, <2>2 DEF ReceiveFails, In!RecvNoSpace
  <2>3. CASE Obtain
    <3>1. In!ObtainDone /\ UNCHANGED sendVars
      BY Zenon, <1>5, <2>3 DEF Obtain
    <3> QED BY <3>1 DEF In!ObtainDone, sendVars
  <2>4. ASSUME NEW r \in 1 .. Len(Msgs), ReplyTo(r) PROVE FALSE
    BY Zenon, <1>5, <2>4 DEF ReplyTo, In!Finish, In!AtReply
  <2>5. ASSUME NEW r, ReplyAborts(r) PROVE UNCHANGED <<req_list, taken, answers, todo>>
    BY Zenon, <2>5 DEF ReplyAborts, Out!ReplyAborts, recvVars
  <2>6. CASE Flush
    BY <2>6 DEF Flush, Out!Flush
  <2>7. CASE PeerGone
    BY <2>7 DEF PeerGone, Out!PeerGone, recvVars
  <2>8. CASE UNCHANGED vars
    BY <2>8 DEF vars, recvVars, sendVars
  <2> QED BY Zenon, <2>1, <2>2, <2>3, <2>4, <2>5, <2>6, <2>7, <2>8 DEF Next
<1> QED
  BY Zenon, <1>2, <1>3, <1>4, <1>5

-----------------------------------------------------------------------------
\* The client sends finitely many messages.
LEMMA MsgsFinite == IsFiniteSet(Range(Msgs))
<1>1. Msgs \in Seq(Range(Msgs)) /\ DOMAIN Msgs = 1 .. Len(Msgs)
  BY Zenon, ConnConstants, SeqElements
<1>2. \A m \in Range(Msgs) : \E i \in 1 .. Len(Msgs) : Msgs[i] = m
  BY Zenon, <1>1 DEF Range
<1> QED
  BY Zenon, <1>1, <1>2 DEF IsFiniteSet

\* Sets of messages have a size, and a larger set a larger one.
LEMMA MsgSets ==
  ASSUME NEW A, NEW B, A \subseteq B, B \subseteq Range(Msgs)
  PROVE  /\ IsFiniteSet(A) /\ IsFiniteSet(B)
         /\ Cardinality(A) \in Nat /\ Cardinality(B) \in Nat
         /\ Cardinality(A) <= Cardinality(B)
<1>1. B \in SUBSET Range(Msgs) /\ A \in SUBSET B
  BY Zenon
<1>2. IsFiniteSet(B)
  BY Zenon, <1>1, MsgsFinite, FS_Subset
<1>3. IsFiniteSet(A) /\ Cardinality(A) <= Cardinality(B)
  BY Zenon, <1>1, <1>2, FS_Subset
<1> QED
  BY Zenon, <1>2, <1>3, FS_CardinalityType

\* Every cell of the stream is one of a message.
LEMMA Located ==
  \A p \in 1 .. Len(Full) : \E i \in 1 .. Len(Msgs) : \E k \in 1 .. SizeOf[Msgs[i]] :
    p = End(i - 1) + k
<1> DEFINE Here(p, i) == \E k \in 1 .. SizeOf[Msgs[i]] : p = End(i - 1) + k
           S == {j \in Nat : \A p \in 1 .. End(j) : \E i \in 1 .. Len(Msgs) : Here(p, i)}
<1>0. Len(Msgs) \in Nat /\ Len(Full) = End(Len(Msgs))
  BY Zenon, MsgType, FullCells
<1>1. 0 \in S
  <2>1. End(0) = 0 /\ 1 .. 0 = {}
    BY EndDef
  <2> QED BY <2>1
<1>2. ASSUME NEW j \in 1 .. Len(Msgs), j - 1 \in S PROVE j \in S
  <2> SUFFICES ASSUME NEW p \in 1 .. End(j) PROVE \E i \in 1 .. Len(Msgs) : Here(p, i)
    BY <1>0
  <2>1. End(j) = End(j - 1) + SizeOf[Msgs[j]] /\ SizeOf[Msgs[j]] \in Nat \ {0}
    BY Zenon, EndDef, MsgType, ConnConstants
  <2>2. End(j - 1) \in Nat
    <3>1. j - 1 \in 0 .. Len(Msgs)
      BY <1>0
    <3> QED BY Zenon, <3>1, EndDef
  <2>3. CASE p <= End(j - 1)
    <3>1. p \in 1 .. End(j - 1)
      BY <2>1, <2>2, <2>3
    <3> HIDE DEF Here
    <3> QED BY Zenon, <1>2, <3>1
  <2>4. CASE p > End(j - 1)
    <3>1. p - End(j - 1) \in 1 .. SizeOf[Msgs[j]] /\ p = End(j - 1) + (p - End(j - 1))
      BY <2>1, <2>2, <2>4
    <3>2. Here(p, j)
      BY Zenon, <3>1
    <3> HIDE DEF Here
    <3> QED BY Zenon, <3>2
  <2> QED BY <2>1, <2>2, <2>3, <2>4
<1>3. Len(Msgs) \in S
  <2> HIDE DEF S
  <2>1. \A i \in 0 .. Len(Msgs) : i \in S
    BY Zenon, <1>1, <1>2, <1>0, IntervalInduction
  <2> QED BY <1>0, <2>1
<1> QED
  BY Zenon, <1>0, <1>3

\* The messages begun when a cell is received are those up to the cell's.
LEMMA BegunUpTo ==
  ASSUME NEW p \in 1 .. Len(Full), NEW i \in 1 .. Len(Msgs), Msgs[i] = Full[p][1]
  PROVE  Begun(p) \subseteq {Msgs[j] : j \in 1 .. i}
<1>0. Len(Msgs) \in Nat /\ Len(Full) \in Nat
  BY Zenon, MsgType, FullCells, SeqElements
<1>0a. PICK l \in 1 .. Len(Msgs) : \E k \in 1 .. SizeOf[Msgs[l]] : p = End(l - 1) + k
  BY Zenon, Located
<1>1. PICK k \in 1 .. SizeOf[Msgs[l]] : p = End(l - 1) + k
  BY Zenon, <1>0a
<1>2. Full[p] = <<Msgs[l], k>>
  BY Zenon, <1>1, FullCells
<1>3. Full[p][1] = Msgs[l]
  BY <1>2
<1>4. l = i
  BY Zenon, <1>3, MsgsDiffer
<1>5. p <= End(i)
  <2>1. End(i) = End(i - 1) + SizeOf[Msgs[i]] /\ SizeOf[Msgs[i]] \in Nat
    BY Zenon, EndDef, MsgType, ConnConstants
  <2>2. End(i - 1) \in Nat
    <3>1. i - 1 \in 0 .. Len(Msgs)
      BY <1>0
    <3> QED BY Zenon, <3>1, EndDef
  <2> QED BY <1>1, <1>4, <2>1, <2>2
<1>6. ASSUME NEW j \in 1 .. Len(Msgs), End(j - 1) < p PROVE j \in 1 .. i
  <2>1. i \in 0 .. Len(Msgs) /\ j - 1 \in 0 .. Len(Msgs)
    BY <1>0
  <2>2. End(i) \in Nat /\ End(j - 1) \in Nat
    BY Zenon, <2>1, EndDef
  <2>3. ~(i < j - 1) /\ i # j - 1
    <3>1. i < j - 1 => End(i) < End(j - 1)
      BY Zenon, <2>1, EndMonotonic
    <3>2. i = j - 1 => End(i) = End(j - 1)
      OBVIOUS
    <3> QED BY <1>0, <1>5, <1>6, <2>2, <3>1, <3>2
  <2> QED BY <1>0, <2>3
<1> QED
  BY Zenon, <1>6 DEF Begun

\* What is begun are messages.
LEMMA BegunMsgs == \A p : Begun(p) \subseteq Range(Msgs)
BY Zenon, MsgType DEF Begun

\* A message obtained has been received.
LEMMA TakenReceived ==
  ASSUME RecvInv
  PROVE  Range(taken) \subseteq Received
<1> DEFINE t == Len(taken)
           p == Len(Full) - Len(stream)
<1>0. /\ t \in 0 .. Len(Msgs) /\ End(t) \in Nat /\ recv \in Nat /\ proc \in Nat
      /\ Len(stream) \in Nat /\ Len(Full) \in Nat
  BY Zenon, DoneType
<1>1. Len(Msgs) \in Nat
  BY MsgType
<1>2. /\ taken = SubSeq(Msgs, 1, t) /\ proc <= recv
      /\ End(t) + (recv - proc) + Len(stream) = Len(Full)
  BY DEF RecvInv, Framed
<1>3. Range(taken) = {Msgs[j] : j \in 1 .. t}
  BY Zenon, <1>0, <1>2, FirstMessages
<1> HIDE DEF t
<1>4. End(t) <= p
  BY <1>0, <1>2
<1> HIDE DEF p
<1>5. ASSUME NEW j \in 1 .. t PROVE j \in 1 .. Len(Msgs) /\ End(j - 1) < p
  <2>1. j \in 1 .. Len(Msgs) /\ j - 1 \in 0 .. Len(Msgs) /\ j - 1 < t
    BY <1>0, <1>1
  <2>2. End(j - 1) < End(t) /\ End(j - 1) \in Nat
    BY Zenon, <1>0, <2>1, EndMonotonic, EndDef
  <2>3. p \in Int
    BY <1>0 DEF p
  <2> QED BY <1>0, <1>4, <2>1, <2>2, <2>3
<1>6. Range(taken) \subseteq Begun(p)
  BY Zenon, <1>3, <1>5 DEF Begun
<1> QED
  BY Zenon, <1>6 DEF Received, p

\* A request is received only when the client's window allows it, and replies
\* that have been sent stay sent.
LEMMA WindowStep ==
  ASSUME RecvInv, SendType, InWindow, [Next]_vars
  PROVE  InWindow'
<1> DEFINE w == load.window
<1>0. load' = load /\ Out!Sent \subseteq Out!Sent'
  BY Zenon, SendGrows, SentGrows
<1>1. Out!Sent' \subseteq Range(Msgs)
  BY DEF Out!Sent
<1>2. /\ Cardinality(Out!Sent) \in Nat /\ Cardinality(Out!Sent') \in Nat
      /\ Cardinality(Out!Sent) <= Cardinality(Out!Sent')
  BY Zenon, <1>0, <1>1, MsgSets
<1>3. w \in Nat
  BY ConnConstants DEF SendType
<1>4. Received \ answers \subseteq Range(Msgs)
  BY Zenon, BegunMsgs DEF Received
<1>5. Cardinality(Received \ answers) \in Nat
  BY Zenon, <1>4, MsgSets
<1>6. Cardinality(Received \ answers) <= Cardinality(Out!Sent) + w
  BY Zenon DEF InWindow
<1>7. CASE UNCHANGED <<stream, answers>>
  <2>1. Received' \ answers' = Received \ answers
    BY Zenon, <1>7 DEF Received, Begun, Full, End
  <2>2. Cardinality(Received \ answers) <= Cardinality(Out!Sent') + w
    <3> HIDE DEF w
    <3> QED BY <1>2, <1>3, <1>5, <1>6
  <2>3. Cardinality(Received' \ answers') <= Cardinality(Out!Sent') + load'.window
    BY Zenon, <1>0, <2>1, <2>2
  <2> QED BY Zenon, <2>3 DEF InWindow
<1>8. ASSUME NEW n \in 1 .. BUF_SIZE, Receive(n) PROVE InWindow'
  <2> DEFINE p == Len(Full) - Len(stream) + n
  <2>1. /\ n \in 1 .. Len(stream) /\ stream' = SubSeq(stream, n + 1, Len(stream))
        /\ answers' = answers
    BY <1>8 DEF Receive, In!conn_recv
  <2>2. HasSent(n)
    BY <1>8 DEF Receive
  <2>3. /\ End(Len(taken)) \in Nat /\ recv \in Nat /\ proc \in Nat
        /\ Len(stream) \in Nat /\ Len(Full) \in Nat
    BY Zenon, DoneType
  <2>4. /\ End(Len(taken)) + (recv - proc) + Len(stream) = Len(Full)
        /\ \A k \in 1 .. Len(stream) : stream[k] = Full[End(Len(taken)) + (recv - proc) + k]
        /\ proc <= recv
    BY DEF RecvInv, Framed
  <2>5. n \in Nat /\ n >= 1 /\ n <= Len(stream)
    BY <2>1, <2>3
  <2>6. Len(stream') = Len(stream) - n
    <3>1. stream \in Seq(Cell)
      BY DEF RecvInv, RecvType
    <3> QED BY Zenon, <2>1, <2>5, <3>1, Suffix
  <2>7. Len(Full) - Len(stream') = p
    <3>1. Len(Full) - (Len(stream) - n) = Len(Full) - Len(stream) + n
      BY <2>3, <2>5
    <3> QED BY Zenon, <2>6, <3>1
  <2>8. End(Len(taken)) + (recv - proc) + n = p
    BY SMTT(30), <2>3, <2>4, <2>5
  <2>9. stream[n] = Full[p]
    <3> HIDE DEF p
    <3> QED BY Zenon, <2>1, <2>4, <2>8
  <2>10. p \in 1 .. Len(Full)
    BY <2>3, <2>4, <2>5
  <2> HIDE DEF p
  <2>11. PICK i \in DOMAIN Msgs :
           /\ Msgs[i] = stream[n][1]
           /\ Cardinality({Msgs[j] : j \in 1 .. i} \ answers) <= Cardinality(Out!Sent) + w
    BY Zenon, <2>2 DEF HasSent
  <2>12. i \in 1 .. Len(Msgs)
    BY Zenon, ConnConstants, SeqElements
  <2>13. Begun(p) \subseteq {Msgs[j] : j \in 1 .. i}
    BY Zenon, <2>9, <2>10, <2>11, <2>12, BegunUpTo
  <2> DEFINE U == {Msgs[j] : j \in 1 .. i}
  <2>14. U \subseteq Range(Msgs)
    <3>1. \A j \in 1 .. i : j \in 1 .. Len(Msgs)
      BY <2>12, MsgType
    <3> QED BY Zenon, <3>1, MsgType
  <2>15. Received' = Begun(p)
    <3>1. Received' = Begun(Len(Full) - Len(stream'))
      BY DEF Received, Begun, Full, End
    <3> QED BY Zenon, <2>7, <3>1
  <2> HIDE DEF U
  <2>16. /\ Cardinality(Begun(p) \ answers) \in Nat /\ Cardinality(U \ answers) \in Nat
         /\ Cardinality(Begun(p) \ answers) <= Cardinality(U \ answers)
    <3>1. Begun(p) \ answers \subseteq U \ answers /\ U \ answers \subseteq Range(Msgs)
      BY Zenon, <2>13, <2>14 DEF U
    <3> QED BY Zenon, <3>1, MsgSets
  <2>17. Cardinality(U \ answers) <= Cardinality(Out!Sent) + w
    BY Zenon, <2>11 DEF U
  <2>18. Cardinality(Begun(p) \ answers) <= Cardinality(Out!Sent') + w
    <3> HIDE DEF w
    <3> QED BY <1>2, <1>3, <2>16, <2>17
  <2>19. Cardinality(Received' \ answers') <= Cardinality(Out!Sent') + load'.window
    BY Zenon, <1>0, <2>1, <2>15, <2>18
  <2> QED BY Zenon, <2>19 DEF InWindow
<1>9. ASSUME ~(\E n \in 1 .. BUF_SIZE : Receive(n)) PROVE UNCHANGED <<stream, answers>>
  <2>1. CASE ReceiveFails
    BY Zenon, <2>1 DEF ReceiveFails, In!RecvNoSpace
  <2>2. CASE Obtain
    BY Zenon, <2>2 DEF Obtain, In!Obtain, In!ObtainDone
  <2>3. ASSUME NEW r, ReplyTo(r) PROVE UNCHANGED <<stream, answers>>
    BY Zenon, <2>3 DEF ReplyTo, In!Finish
  <2>4. ASSUME NEW r, ReplyAborts(r) PROVE UNCHANGED <<stream, answers>>
    BY Zenon, <2>4 DEF ReplyAborts, recvVars
  <2>5. CASE Flush
    BY <2>5 DEF Flush
  <2>6. CASE PeerGone
    BY <2>6 DEF PeerGone, recvVars
  <2>7. CASE UNCHANGED vars
    BY Zenon, <2>7 DEF vars, recvVars
  <2> QED BY Zenon, <1>9, <2>1, <2>2, <2>3, <2>4, <2>5, <2>6, <2>7 DEF Next
<1> QED
  BY Zenon, <1>7, <1>8, <1>9

\* A client that waits for each reply: while a request is in the list, all that
\* was queued before is on the wire.
LEMMA AllSent ==
  ASSUME RecvInv, SendType, WindowInv, Linked(conn, queued, wire), OneAtATime,
         NEW r \in DOMAIN req_list
  PROVE  conn.size = 0 /\ conn.file = 0 /\ conn.cur = 0
<1> DEFINE m == req_list[r].msg
<1>1. /\ m \in Range(taken) /\ m \in todo /\ m \notin answers
      /\ Range(Msgs) \ todo \subseteq Range(taken) \ answers
  BY Zenon DEF WindowInv, Pending
<1>2. /\ conn.size \in Nat /\ conn.file \in Nat /\ queued \in Seq(ReplyCell)
      /\ wire \in Seq(ReplyCell)
  BY DEF SendType, ConnType
<1>3. Len(queued) \in Nat /\ Len(wire) \in Nat /\ DOMAIN queued = 1 .. Len(queued)
  BY Zenon, <1>2, SeqElements
<1>4. /\ Len(queued) = Len(wire) + conn.size + conn.file
      /\ conn.size = 0 /\ conn.file = 0 => conn.cur = 0
  BY Zenon DEF Linked
<1>5. Len(queued) <= Len(wire)
  <2>1. CASE queued = <<>>
    <3>1. Len(<<>>) = 0
      OBVIOUS
    <3>2. Len(queued) = 0
      BY Zenon, <2>1, <3>1
    <3> QED BY <1>3, <3>2
  <2>2. CASE queued # <<>>
    <3>1. PICK k \in DOMAIN queued : /\ queued[k] # Out!Body
                                     /\ k + ReplySize[queued[k]] - 1 = Len(queued)
      BY Zenon, <2>2 DEF WindowInv, Headers
    <3> DEFINE h == queued[k]
    <3>2. h \in Range(Msgs) \ todo
      BY Zenon, <3>1 DEF WindowInv, Headers
    <3> HIDE DEF h, m
    <3>3. h \in Out!Sent
      <4> SUFFICES ASSUME h \notin Out!Sent PROVE FALSE
        BY Zenon
      <4> DEFINE A == Out!Sent
                 B == A \cup {h}
                 D == B \cup {m}
                 R == Received \ answers
      <4>1. A \subseteq Range(Msgs) \ todo
        BY Zenon DEF Out!Sent
      <4>2. h \notin A /\ m \notin B
        BY Zenon, <1>1, <3>2, <4>1
      <4>3. Range(taken) \subseteq Received
        BY Zenon, TakenReceived
      <4>4. D \subseteq R
        BY Zenon, <1>1, <3>2, <4>1, <4>3
      <4>5. R \subseteq Range(Msgs)
        BY Zenon, BegunMsgs DEF Received
      <4>6. Cardinality(R) <= Cardinality(A) + 1
        BY Zenon DEF WindowInv, InWindow, OneAtATime
      <4> HIDE DEF A, B, D, R
      <4>7. IsFiniteSet(A) /\ Cardinality(A) \in Nat
        <5>1. A \subseteq A /\ A \subseteq Range(Msgs)
          BY Zenon, <4>1
        <5> QED BY Zenon, <5>1, MsgSets
      <4>8. Cardinality(D) <= Cardinality(R) /\ Cardinality(R) \in Nat
        BY Zenon, <4>4, <4>5, MsgSets
      <4>9. IsFiniteSet(B) /\ Cardinality(B) = Cardinality(A) + 1
        BY Zenon, <4>2, <4>7, FS_AddElement DEF B
      <4>10. Cardinality(D) = Cardinality(B) + 1
        BY Zenon, <4>2, <4>9, FS_AddElement DEF D
      <4> QED BY <4>6, <4>7, <4>8, <4>9, <4>10
    <3>4. PICK l \in DOMAIN queued : queued[l] = h /\ l + ReplySize[h] - 1 <= Len(wire)
      BY Zenon, <3>3 DEF Out!Sent
    <3>5. l = k
      BY Zenon, <3>1, <3>4 DEF WindowInv, Headers, h
    <3>6. k + ReplySize[h] - 1 = Len(queued)
      BY Zenon, <3>1 DEF h
    <3> QED BY Zenon, <3>4, <3>5, <3>6
  <2> QED BY Zenon, <2>1, <2>2
<1>6. conn.size = 0 /\ conn.file = 0
  BY <1>2, <1>3, <1>4, <1>5
<1> QED
  BY Zenon, <1>4, <1>6

-----------------------------------------------------------------------------
\* When a request comes to its REPLY the send buffer is as its start expects.
LEMMA ReadyForReply ==
  ASSUME RecvInv, SendType, WindowInv, OrderInv, OneAtATime \/ WholeReplies,
         ~Out!Slipped, NEW r \in DOMAIN req_list
  PROVE  /\ conn.cur = 0 /\ conn.file = 0
         /\ conn.size = 0 \/ Out!ModeOf(req_list[r].msg) # "SENDFILE"
<1>1. Linked(conn, queued, wire)
  BY Zenon DEF OrderInv
<1>2. CASE OneAtATime
  BY Zenon, <1>1, <1>2, AllSent
<1>3. CASE WholeReplies
  <2>1. conn.cur = 0 /\ conn.mode = "NORMAL" /\ conn.file = 0
    BY Zenon, <1>1, <1>3 DEF OrderInv, Linked
  <2>2. Out!ModeOf(req_list[r].msg) = "NORMAL"
    BY Zenon, <1>3 DEF WholeReplies, Out!ModeOf
  <2>3. "NORMAL" # "SENDFILE"
    OBVIOUS
  <2> QED BY Zenon, <2>1, <2>2, <2>3
<1> QED
  BY Zenon, <1>2, <1>3

\* Every send takes the cells that the wire lacks next, and a reply goes behind them.
LEMMA OrderStep ==
  ASSUME RecvInv, SendType, WindowInv, OrderInv, [Next]_vars
  PROVE  OrderInv'
<1>1. load' = load /\ (OneAtATime' <=> OneAtATime) /\ (WholeReplies' <=> WholeReplies)
  BY Zenon, SendGrows DEF OneAtATime, WholeReplies
<1>2. conn.file \in Nat /\ Sound(conn) /\ queued \in Seq(ReplyCell) /\ wire \in Seq(ReplyCell)
  BY DEF SendType, Sound, ConnType
<1>3. CASE Quiet
  <2>1. conn' = conn /\ queued' = queued /\ wire' = wire
    BY Zenon, <1>3 DEF Quiet
  <2>2. /\ Linked(conn, queued, wire) => Linked(conn', queued', wire')
        /\ Out!Slipped' <=> Out!Slipped
    BY Zenon, <2>1 DEF Out!Slipped, Out!Stray
  <2>3. Linked(conn, queued, wire)' <=> Linked(conn', queued', wire')
    BY Zenon DEF Linked, Out!Body
  <2> QED BY Zenon, <1>1, <2>1, <2>2, <2>3 DEF OrderInv
<1>4. CASE Flush
  <2>0. Out!Flush /\ queued' = queued
    BY Zenon, <1>4 DEF Flush, Out!Flush
  <2>1. PICK o : \E n \in 0 .. conn.size, f \in 0 .. conn.file :
           /\ conn' = o.conn /\ OnWire(o)
           /\ SentBy(conn, o, n, f)
           /\ ~load.partial /\ conn.mode = "NORMAL" => o.conn.cur \in {conn.cur, 0}
    BY Zenon, <2>0, FlushSends
  <2>2. PICK n \in 0 .. conn.size, f \in 0 .. conn.file :
           /\ conn' = o.conn /\ OnWire(o)
           /\ SentBy(conn, o, n, f)
           /\ ~load.partial /\ conn.mode = "NORMAL" => o.conn.cur \in {conn.cur, 0}
    BY Zenon, <2>1
  <2>3. ASSUME OneAtATime \/ WholeReplies, ~Out!Slipped'
        PROVE  Linked(conn', queued', wire')
    <3>0. ~Out!Slipped /\ wire' = wire \o o.cells
      <4>1. o.cells \in Seq(ReplyCell)
        BY Zenon, <2>2 DEF SentBy
      <4> QED BY Zenon, <1>2, <2>2, <2>3, <4>1, WireGrows
    <3>1. Linked(conn, queued, wire)
      BY Zenon, <2>3, <3>0 DEF OrderInv
    <3>2. Linked(o.conn, queued, wire \o o.cells)
      BY Zenon, <1>2, <2>2, <3>1, LinkedSend
    <3> QED BY Zenon, <2>0, <2>2, <3>0, <3>2
  <2>4. ASSUME WholeReplies PROVE conn'.cur = 0 /\ conn'.mode = "NORMAL"
    <3>1. conn.cur = 0 /\ conn.mode = "NORMAL" /\ ~load.partial
      BY Zenon, <2>4 DEF OrderInv, WholeReplies
    <3>2. o.conn.mode = conn.mode
      BY Zenon, <2>2 DEF SentBy
    <3> QED BY Zenon, <2>2, <3>1, <3>2
  <2>5. Linked(conn, queued, wire)' <=> Linked(conn', queued', wire')
    BY DEF Linked, Out!Body
  <2> QED BY Zenon, <1>1, <2>3, <2>4, <2>5 DEF OrderInv
<1>5. ASSUME NEW r \in DOMAIN req_list, ReplyTo(r) PROVE OrderInv'
  <2> DEFINE m == req_list[r].msg
             d == Started(conn, m)
             x == Out!Cells(m)
  <2>0. /\ m \in Range(Msgs) /\ Out!Reply(m) /\ queued' = queued \o x
        /\ Out!Room(conn) >= ReplySize[m]
    BY Zenon, <1>5, ReplyStep
  <2>1. PICK o : \E n \in 0 .. d.size, f \in 0 .. d.file :
           /\ conn' = o.conn /\ OnWire(o)
           /\ SentBy(d, o, n, f)
           /\ ~load.partial /\ Out!ModeOf(m) # "SENDFILE" => o.conn.cur \in {d.cur, 0}
    BY Zenon, <2>0, ReplySends
  <2>2. PICK n \in 0 .. d.size, f \in 0 .. d.file :
           /\ conn' = o.conn /\ OnWire(o)
           /\ SentBy(d, o, n, f)
           /\ ~load.partial /\ Out!ModeOf(m) # "SENDFILE" => o.conn.cur \in {d.cur, 0}
    BY Zenon, <2>1
  <2>3. Sound(d) /\ d.cur = (IF conn.size = 0 THEN 0 ELSE conn.cur) /\ d.mode = Out!ModeOf(m)
    BY Zenon, <1>2, <2>0, StartedFields
  <2>4. x \in Seq(ReplyCell)
    BY Zenon, <2>0, ReplyCells
  <2>5. queued \o x \in Seq(ReplyCell)
    <3> HIDE DEF x
    <3> QED BY <1>2, <2>4
  <2>6. ASSUME OneAtATime \/ WholeReplies, ~Out!Slipped'
        PROVE  Linked(conn', queued', wire')
    <3>0. ~Out!Slipped /\ wire' = wire \o o.cells
      <4>1. o.cells \in Seq(ReplyCell)
        BY Zenon, <2>2 DEF SentBy
      <4> QED BY Zenon, <1>2, <2>2, <2>6, <4>1, WireGrows
    <3>1. Linked(conn, queued, wire)
      BY Zenon, <2>6, <3>0 DEF OrderInv
    <3>2. /\ conn.cur = 0 /\ conn.file = 0
          /\ conn.size = 0 \/ Out!ModeOf(m) # "SENDFILE"
      BY Zenon, <2>6, <3>0, ReadyForReply
    <3> HIDE DEF m
    <3>3. Linked(d, queued \o x, wire)
      BY Zenon, <1>2, <2>0, <3>1, <3>2, LinkedReply
    <3> HIDE DEF d, x
    <3>4. Linked(o.conn, queued \o x, wire \o o.cells)
      BY Zenon, <1>2, <2>2, <2>3, <2>5, <3>3, LinkedSend
    <3> QED BY Zenon, <2>0, <2>2, <3>0, <3>4
  <2>7. ASSUME WholeReplies PROVE conn'.cur = 0 /\ conn'.mode = "NORMAL"
    <3>1. conn.cur = 0 /\ ~load.partial /\ Out!ModeOf(m) = "NORMAL"
      BY Zenon, <2>7 DEF OrderInv, WholeReplies, Out!ModeOf
    <3>2. o.conn.mode = d.mode
      BY Zenon, <2>2 DEF SentBy
    <3>3. "NORMAL" # "SENDFILE"
      BY Zenon
    <3>4. d.cur = 0
      BY Zenon, <2>3, <3>1
    <3> HIDE DEF d, m
    <3> QED BY Zenon, <2>2, <2>3, <3>1, <3>2, <3>3, <3>4
  <2>8. Linked(conn, queued, wire)' <=> Linked(conn', queued', wire')
    BY Zenon DEF Linked, Out!Body
  <2> QED BY Zenon, <1>1, <2>6, <2>7, <2>8 DEF OrderInv
<1> QED
  BY Zenon, <1>3, <1>4, <1>5, SendCases

\* Nothing is queued or sent at first.
LEMMA InitSend == Init => SendType /\ WindowInv /\ OrderInv
<1> SUFFICES ASSUME Init PROVE SendType /\ WindowInv /\ OrderInv
  BY Zenon
<1>1. /\ load \in Loads /\ open = TRUE /\ pollout = FALSE /\ todo = Range(Msgs)
      /\ queued = <<>> /\ wire = <<>>
      /\ conn = [buf |-> [k \in 0 .. BUF_SIZE - 1 |-> Out!Body], cur |-> 0, size |-> 0,
                 file |-> 0, mode |-> "NORMAL", status |-> "READY"]
  BY DEF Init, Out!Init
<1>2. req_list = <<>> /\ stream = Full /\ taken = <<>>
  BY DEF Init, In!Init, Full
<1>3. /\ Len(<<>>) = 0 /\ DOMAIN <<>> = {} /\ <<>> \in Seq(ReplyCell)
      /\ 1 .. 0 = {} /\ 0 + 1 .. 0 + 0 = {} /\ 0 = 0 + 0 + 0
  OBVIOUS
<1>4. /\ conn.cur = 0 /\ conn.size = 0 /\ conn.file = 0 /\ conn.mode = "NORMAL"
      /\ conn \in ConnType
  <2>1. [k \in 0 .. BUF_SIZE - 1 |-> Out!Body] \in BufType
    BY DEF BufType, ReplyCell
  <2> HIDE DEF BufType
  <2> QED BY Zenon, <1>1, <2>1 DEF ConnType
<1>5. SendType
  <2>1. 0 + 0 <= BUF_SIZE
    BY ConnConstants
  <2> QED BY Zenon, <1>1, <1>3, <1>4, <2>1 DEF SendType
<1>6. Headers
  BY Zenon, <1>1, <1>3 DEF Headers
<1>7. Pending
  BY Zenon, <1>1, <1>2, <1>3 DEF Pending
<1>8. InWindow
  <2>1. Received = {}
    <3>1. Len(Full) \in Nat
      BY Zenon, FullCells, SeqElements
    <3>2. Len(Full) - Len(stream) = 0
      BY <1>2, <3>1
    <3>3. \A j \in 1 .. Len(Msgs) : ~(End(j - 1) < 0)
      <4> TAKE j \in 1 .. Len(Msgs)
      <4>1. j - 1 \in 0 .. Len(Msgs)
        BY MsgType
      <4>2. End(j - 1) \in Nat
        BY Zenon, <4>1, EndDef
      <4> QED BY <4>2
    <3>4. Begun(0) = {}
      BY Zenon, <3>3 DEF Begun
    <3> QED BY Zenon, <3>2, <3>4 DEF Received
  <2>2. Received \ answers = {}
    BY Zenon, <2>1
  <2>3. Out!Sent = {}
    BY Zenon, <1>1 DEF Out!Sent
  <2>4. Cardinality({}) = 0
    BY Zenon, FS_EmptySet
  <2>5. load.window \in Nat
    BY Zenon, <1>1, ConnConstants
  <2>6. 0 <= 0 + load.window
    BY <2>5
  <2> QED BY Zenon, <2>2, <2>3, <2>4, <2>6 DEF InWindow
<1>9. OrderInv
  <2>1. Linked(conn, queued, wire)
    BY Zenon, <1>1, <1>3, <1>4 DEF Linked
  <2> QED BY Zenon, <1>4, <2>1 DEF OrderInv
<1> QED
  BY Zenon, <1>5, <1>6, <1>7, <1>8, <1>9 DEF WindowInv

\* The window is kept, step by step.
LEMMA WindowInvStep ==
  RecvInv /\ SendType /\ WindowInv /\ [Next]_vars => WindowInv'
BY Zenon, HeadersStep, PendingStep, WindowStep DEF WindowInv

\* The order is kept, step by step.
LEMMA OrderInvStep ==
  RecvInv /\ SendType /\ WindowInv /\ OrderInv /\ [Next]_vars => OrderInv'
BY Zenon, OrderStep

(* The cells conn_send() and conn_send_v2() take are always within send_buf:
   conn.cur + conn.size <= BUF_SIZE, with curr_send_size never negative, is
   part of SendType. *)
THEOREM SendBufferType == Spec => []SendType
BY RecvInvariant, InitSend, SendTypeStep, PTL DEF Spec

(* A request of the list is one that was obtained and is not answered, and the
   client has at most its window of requests without a whole reply. *)
THEOREM WindowInvariant == Spec => []WindowInv
BY RecvInvariant, SendBufferType, InitSend, WindowInvStep, PTL DEF Spec

(* What waits in send_buf and in the file is what the wire lacks of the
   replies, when a client waits for each reply or replies go out whole. *)
THEOREM OrderInvariant == Spec => []OrderInv
BY RecvInvariant, SendBufferType, WindowInvariant, InitSend, OrderInvStep, PTL DEF Spec

(* StreamInOrder, for any messages, reply sizes and buffer: a client that waits
   for each reply finds every header where it looks for it, however sendto()
   and sendfile() cut the replies; one with several requests under way does when
   sendto() takes all or nothing and no reply is a SENDFILE. *)
THEOREM StreamInOrderHolds ==
  ASSUME \A l \in Loads : l.window = 1 \/ (~l.partial /\ l.sendfile = {})
  PROVE  Spec => []StreamInOrder
<1>1. SendType /\ OrderInv => StreamInOrder
  <2> SUFFICES ASSUME SendType, OrderInv, ~Out!Slipped PROVE StreamInOrder
    BY Zenon DEF StreamInOrder, Out!StreamInOrder
  <2>1. OneAtATime \/ WholeReplies
    BY Zenon DEF SendType, OneAtATime, WholeReplies
  <2>2. Linked(conn, queued, wire)
    BY Zenon, <2>1 DEF OrderInv
  <2>3. wire \in Seq(ReplyCell) /\ queued \in Seq(ReplyCell) /\ conn \in ConnType
    BY Zenon DEF SendType
  <2>4. Len(wire) \in Nat /\ Len(queued) \in Nat /\ DOMAIN wire = 1 .. Len(wire)
    BY Zenon, <2>3, SeqElements
  <2>5. conn.size \in Nat /\ conn.file \in Nat
    BY Zenon, <2>3 DEF ConnType
  <2>6. Len(wire) <= Len(queued)
    <3>1. Len(queued) = Len(wire) + conn.size + conn.file
      BY Zenon, <2>2 DEF Linked
    <3> QED BY <2>4, <2>5, <3>1
  <2>7. \A k \in DOMAIN wire : queued[k] # Out!Body => wire[k] = queued[k]
    BY Zenon, <2>2, <2>4 DEF Linked
  <2> QED BY Zenon, <2>6, <2>7 DEF StreamInOrder, Out!StreamInOrder
<1> QED
  BY <1>1, SendBufferType, OrderInvariant, PTL

(* RoomForReply, for every client whose replies fit the buffer: the assertion of
   reply() on the room in send_buf holds for a client that waits for each
   reply, whatever sendto() left behind before. *)
THEOREM RoomForReplyHolds ==
  ASSUME \A m \in Range(Msgs) : ReplySize[m] <= BUF_SIZE
  PROVE  Spec => []RoomForReply
<1>1. RecvInv /\ SendType /\ WindowInv /\ OrderInv => RoomForReply
  <2> SUFFICES ASSUME RecvInv, SendType, WindowInv, OrderInv, OneAtATime, ~Out!Slipped,
                      NEW r \in DOMAIN req_list
               PROVE  Out!Room(conn) >= ReplySize[req_list[r].msg]
    BY Zenon DEF RoomForReply, OneAtATime
  <2>1. Linked(conn, queued, wire)
    BY Zenon DEF OrderInv
  <2>2. conn.size = 0 /\ conn.cur = 0
    BY Zenon, <2>1, AllSent
  <2>3. req_list[r].msg \in Range(Msgs)
    BY Zenon, ReqType DEF RecvInv
  <2>4. ReplySize[req_list[r].msg] \in Nat /\ ReplySize[req_list[r].msg] <= BUF_SIZE
    BY Zenon, <2>3, ConnConstants
  <2>5. BUF_SIZE - (0 + 0) >= ReplySize[req_list[r].msg]
    BY <2>4, ConnConstants
  <2> QED BY Zenon, <2>2, <2>5 DEF Out!Room
<1> QED
  BY <1>1, RecvInvariant, SendBufferType, WindowInvariant, OrderInvariant, PTL
=============================================================================
