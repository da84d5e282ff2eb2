------------------------ MODULE ClientSessionProofs ------------------------
(***************************************************************************)
(* What thread_receiver of dw_client counts and prints, for any number of  *)
(* packets, any length of sessions and any of the settings.                *)
(*                                                                         *)
(* CountedOnce and ResultsAddUp are not inductive: a reply is counted when *)
(* it comes, so the invariant must say that what was counted of a session, *)
(* together with what waits for a reply, is no more than what its sender   *)
(* has sent (Session), where the receiver is in its loop (Cursor), and     *)
(* that the response times that are set are those of the counted replies   *)
(* (Times).  Sessions start at multiples of pkts_per_session, which        *)
(* is where the lemmas on remainders come in.                              *)
(* SessionEndsWithReplies also needs that the replies received on an open  *)
(* connection are the packets counted of its session (Replied).            *)
(***************************************************************************)
EXTENDS ClientSession, FiniteSetTheorems, TLAPS

Counted == ok + failed
Running(c) == sender[c].st \in {"run", "stamped"}
\* First packet of the session of conn_id, the one after its last, and the
\* first one it has not sent.
First == sender[conn_id].first
Limit == First + pkts_per_session
At == First + sender[conn_id].i

Typed ==
  /\ opt \in Settings
  /\ pc \in {"head", "connect", "recv", "skip", "join", "end", "finished", "aborted",
             "undefined"}
  /\ ok \in Nat /\ failed \in Nat /\ pkt_i \in Nat /\ i_incr \in Nat
  /\ conn_id \in Conns \cup {None} /\ used \in Nat
  /\ sender \in [Conns -> [st : {"none", "run", "stamped", "done"}, first : Nat, i : Nat]]
  /\ asked \in [Conns -> SUBSET Pkts]

\* A sender has a session of pkts_per_session packets, and only what it has
\* sent can be answered.
SenderInv(c) ==
  /\ sender[c].st = "none" => asked[c] = {}
  /\ sender[c].st # "none" =>
       /\ c < used
       /\ sender[c].first % pkts_per_session = 0
       /\ sender[c].first + pkts_per_session <= num_pkts
       /\ sender[c].i <= pkts_per_session
       /\ Running(c) => sender[c].i < pkts_per_session
       /\ asked[c] \subseteq sender[c].first .. sender[c].first + sender[c].i - 1

\* Where the receiver is in its loop.
Cursor ==
  /\ Counted <= num_pkts
  /\ pc \in {"connect", "recv"} => pkt_i = Counted /\ Counted < num_pkts
  /\ pc = "connect" => Counted % pkts_per_session = 0
  /\ pc \in {"end", "finished"} => Counted = num_pkts
  /\ pc = "join" => conn_id # None
  /\ conn_id # None => sender[conn_id].st # "none"

\* The packets of the session that are counted: no more than are sent and
\* not waiting for a reply, or all of them.
Session ==
  conn_id # None /\ pc \in {"head", "recv", "skip", "join"} =>
    /\ First <= Counted /\ Counted <= Limit
    /\ pc = "recv" => Counted < Limit
    /\ \/ Cardinality(asked[conn_id]) + Counted <= At
       \/ pc \in {"skip", "join"} /\ SessionOver /\ Counted = Limit

\* When replies come one by one.
Single ==
  OneByOne =>
    /\ \A c \in Conns : sender[c].st # "none" => c = conn_id
    /\ pc = "skip" => Counted = pkt_i + i_incr
    /\ pc = "join" => Counted % pkts_per_session = 0
    /\ pc = "connect" => conn_id = None
    /\ pc = "head" /\ Counted % pkts_per_session = 0 => conn_id = None

\* When replies come whole, every session that is left is over.
Whole ==
  ~opt.partial /\ conn_id # None =>
    /\ pc \in {"skip", "head"} => First < Counted
    /\ pc = "skip" => /\ First <= pkt_i /\ pkt_i < Limit /\ pkt_i < Counted
                      /\ i_incr = 1 \/ Counted = Limit
    /\ pc = "join" => Counted = Limit
    /\ pc = "connect" => Counted = Limit /\ At = Limit

\* The packets from Front on have no response time.
Front == IF conn_id = None THEN Counted ELSE At
Timed == {p \in Pkts : usecs_elapsed[p] # None}
Times ==
  ~opt.per_session_output /\ ~opt.partial =>
    /\ usecs_elapsed \in [Pkts -> Pkts \cup {None}]
    /\ \A c \in Conns : Running(c) => c = conn_id
    /\ \A p \in Timed : p < Front
    /\ conn_id # None => asked[conn_id] \cap Timed = {}
    /\ ok = Cardinality(Timed)

IInv == /\ Typed /\ Cursor /\ Session /\ Single /\ Whole /\ Times /\ ResultsAddUp
        /\ \A c \in Conns : SenderInv(c)
-----------------------------------------------------------------------------
\* Division by the length of a session.
LEMMA Division ==
  ASSUME NEW p \in Nat \ {0}, NEW n \in Nat
  PROVE  n = p * (n \div p) + (n % p) /\ n \div p \in Nat /\ n % p \in 0 .. p - 1
<1>1. n % p \in 0 .. p - 1
  OBVIOUS
<1>2. n = p * (n \div p) + (n % p)
  OBVIOUS
<1>3. n \div p \in Nat
  OBVIOUS
<1> QED
  BY <1>1, <1>2, <1>3

\* Packets of a session have different remainders.
LEMMA Remainder ==
  ASSUME NEW p \in Nat \ {0}, NEW s \in Nat, NEW r \in 0 .. p - 1, s % p = 0
  PROVE  (s + r) % p = r
OBVIOUS

\* A number has one remainder.
LEMMA OneQuotient ==
  ASSUME NEW p \in Nat \ {0}, NEW q \in Nat, NEW k \in Nat,
         NEW r \in 0 .. p - 1, NEW t \in 0 .. p - 1, p * q + r = p * k + t
  PROVE  r = t
OBVIOUS

\* The session after one that starts at a multiple starts at a multiple.
LEMMA NextMultiple ==
  ASSUME NEW p \in Nat \ {0}, NEW s \in Nat, s % p = 0
  PROVE  (s + p) % p = 0
<1> DEFINE m == s + p
           q == s \div p
           k == m \div p
           r == m % p
<1>1. s = p * q /\ q \in Nat
  BY Division
<1>2. m = p * (q + 1) /\ m \in Nat
  BY <1>1
<1> HIDE DEF m, q
<1>3. m = p * k + r /\ k \in Nat /\ r \in 0 .. p - 1
  BY Zenon, <1>2, Division
<1> HIDE DEF k, r
<1>4. r = 0
  <2>1. q + 1 \in Nat /\ 0 \in 0 .. p - 1 /\ p * (q + 1) + 0 = p * k + r
    BY <1>1, <1>2, <1>3
  <2> QED
    BY ZenonT(30), <2>1, <1>3, OneQuotient
<1> QED
  BY <1>4 DEF r, m

\* Two sessions do not overlap.
LEMMA Multiples ==
  ASSUME NEW p \in Nat \ {0}, NEW a \in Nat, NEW b \in Nat, a % p = 0, b % p = 0, a < b
  PROVE  a + p <= b
<1> DEFINE q == a \div p
           k == b \div p
<1>1. a = p * q /\ q \in Nat /\ b = p * k /\ k \in Nat
  BY Division
<1> HIDE DEF q, k
<1>2. q < k
  BY <1>1
<1>3. p * (q + 1) <= p * k
  BY <1>1, <1>2
<1> QED
  BY <1>1, <1>3

\* The numbers of replies.
LEMMA Parts ==
  ASSUME NEW S, IsFiniteSet(S), NEW R \in SUBSET S
  PROVE  /\ IsFiniteSet(R) /\ IsFiniteSet(S \ R)
         /\ Cardinality(R) \in Nat /\ Cardinality(S \ R) \in Nat /\ Cardinality(S) \in Nat
         /\ Cardinality(S) = Cardinality(R) + Cardinality(S \ R)
<1>1. IsFiniteSet(R) /\ IsFiniteSet(S \ R)
  BY FS_Subset
<1>2. Cardinality(R) \in Nat /\ Cardinality(S \ R) \in Nat /\ Cardinality(S) \in Nat
  BY <1>1, FS_CardinalityType
<1>3. R \cup (S \ R) = S /\ R \cap (S \ R) = {}
  OBVIOUS
<1>4. Cardinality(R \cup (S \ R))
        = Cardinality(R) + Cardinality(S \ R) - Cardinality(R \cap (S \ R))
  BY <1>1, FS_Union
<1>5. Cardinality(S) = Cardinality(R) + Cardinality(S \ R) - 0
  BY <1>3, <1>4, FS_EmptySet
<1> DEFINE a == Cardinality(R)
           b == Cardinality(S \ R)
           n == Cardinality(S)
<1> HIDE DEF a, b, n
<1>6. n = a + b
  BY <1>2, <1>5 DEF a, b, n
<1> QED
  BY <1>1, <1>2, <1>6 DEF a, b, n

\* Sets of packets are finite.
LEMMA PktsFinite == \A S \in SUBSET Pkts : IsFiniteSet(S) /\ Cardinality(S) \in Nat
<1>1. IsFiniteSet(Pkts)
  BY ClientConstants, FS_Interval DEF Pkts
<1> QED
  BY <1>1, FS_Subset, FS_CardinalityType
-----------------------------------------------------------------------------
\* What a step of a sender, or of the node, may do.
LEMMA SenderMoves ==
  ASSUME IInv, NEW c \in Conns, Running(c),
         UNCHANGED <<opt, pc, ok, failed, pkt_i, i_incr, conn_id, used, output>>,
         NEW r \in [st : {"run", "stamped", "done"}, first : Nat, i : Nat],
         r.first = sender[c].first,
         r.i = sender[c].i \/ r.i = sender[c].i + 1,
         r.st # "done" => r.i < pkts_per_session,
         sender' = [sender EXCEPT ![c] = r],
         NEW A, A = asked[c] \/ (A = asked[c] \cup {Pkt(c)} /\ r.i = sender[c].i + 1),
         asked' = [asked EXCEPT ![c] = A],
         ~opt.per_session_output /\ ~opt.partial => usecs_elapsed' = usecs_elapsed
  PROVE  IInv'
<1> DEFINE f == sender[c].first
           i == sender[c].i
           p == pkts_per_session
<1>1. /\ f \in Nat /\ i \in Nat /\ p \in Nat \ {0} /\ num_pkts \in Nat
      /\ i < p /\ f % p = 0 /\ f + p <= num_pkts /\ c < used
      /\ asked[c] \subseteq f .. f + i - 1 /\ asked[c] \subseteq Pkts
      /\ conn_id \in Conns \cup {None} /\ Pkt(c) = f + i
      /\ ok \in Nat /\ failed \in Nat /\ pkt_i \in Nat /\ i_incr \in Nat
      /\ sender[c].st # "none"
  BY ClientConstants DEF IInv, Typed, SenderInv, Running, Pkt
<1>2. /\ sender'[c] = r /\ \A d \in Conns : d # c => sender'[d] = sender[d]
      /\ asked'[c] = A /\ \A d \in Conns : d # c => asked'[d] = asked[d]
  BY DEF IInv, Typed
<1> DEFINE q == Pkt(c)
<1>3. q \in Pkts /\ q \notin asked[c]
  BY <1>1 DEF Pkts
<1>4. A \subseteq Pkts /\ A \subseteq f .. f + r.i - 1
  BY <1>1, <1>3
<1>5. /\ Cardinality(A) \in Nat /\ Cardinality(asked[c]) \in Nat
      /\ Cardinality(A) + i <= Cardinality(asked[c]) + r.i
  <2>1. IsFiniteSet(asked[c]) /\ Cardinality(asked[c]) \in Nat
    BY <1>1, PktsFinite
  <2>2. CASE A = asked[c]
    BY <2>1, <2>2, <1>1
  <2>3. CASE A = asked[c] \cup {q} /\ r.i = i + 1
    <3>1. Cardinality(A) = Cardinality(asked[c]) + 1
      BY Zenon, <2>1, <2>3, <1>3, FS_AddElement
    <3> QED
      BY <2>1, <2>3, <3>1, <1>1
  <2> QED
    BY <2>2, <2>3
<1>6. Typed'
  <2>1. sender' \in [Conns -> [st : {"none", "run", "stamped", "done"}, first : Nat, i : Nat]]
    BY DEF IInv, Typed
  <2>2. asked' \in [Conns -> SUBSET Pkts]
    BY <1>4 DEF IInv, Typed
  <2> QED
    BY <2>1, <2>2 DEF IInv, Typed
<1>7. ASSUME NEW d \in Conns PROVE SenderInv(d)'
  <2>1. CASE d = c
    BY <1>1, <1>2, <1>4, <2>1 DEF SenderInv, Running
  <2>2. CASE d # c
    BY <1>2, <2>2 DEF SenderInv, Running, IInv
  <2> QED
    BY Zenon, <2>1, <2>2
<1>8. ASSUME conn_id # None
      PROVE  /\ First' = First /\ Limit' = Limit /\ sender'[conn_id].st # "none"
             /\ First \in Nat /\ Limit \in Nat /\ At \in Nat /\ At' \in Nat
             /\ At <= At' /\ (At = Limit => At' = At)
             /\ Cardinality(asked[conn_id]) \in Nat /\ Cardinality(asked'[conn_id]) \in Nat
             /\ Cardinality(asked'[conn_id]) + At <= Cardinality(asked[conn_id]) + At'
  <2>1. conn_id \in Conns /\ sender[conn_id].first \in Nat /\ sender[conn_id].i \in Nat
        /\ sender[conn_id].st # "none"
    BY Zenon, <1>1, <1>8 DEF IInv, Typed, Cursor
  <2>2. CASE conn_id = c
    BY <1>1, <1>2, <1>5, <2>1, <2>2 DEF First, Limit, At
  <2>3. CASE conn_id # c
    <3>1. sender'[conn_id] = sender[conn_id] /\ asked'[conn_id] = asked[conn_id]
      BY <1>2, <2>1, <2>3
    <3>2. Cardinality(asked[conn_id]) \in Nat
      BY <2>1, PktsFinite DEF IInv, Typed
    <3> QED
      BY <1>1, <2>1, <3>1, <3>2 DEF First, Limit, At
  <2> QED
    BY ZenonT(30), <2>2, <2>3
<1>9. Counted' = Counted /\ Counted \in Nat /\ (SessionOver' <=> SessionOver)
  BY <1>1 DEF Counted, SessionOver
<1>10. Cursor'
  BY <1>8, <1>9 DEF IInv, Cursor
<1>11. Session'
  <2> SUFFICES ASSUME conn_id # None, pc \in {"head", "recv", "skip", "join"}
               PROVE  /\ First' <= Counted /\ Counted <= Limit'
                      /\ pc = "recv" => Counted < Limit'
                      /\ \/ Cardinality(asked'[conn_id]) + Counted <= At'
                         \/ pc \in {"skip", "join"} /\ SessionOver /\ Counted = Limit'
    BY <1>9 DEF Session
  <2>1. /\ First <= Counted /\ Counted <= Limit
        /\ pc = "recv" => Counted < Limit
        /\ \/ Cardinality(asked[conn_id]) + Counted <= At
           \/ pc \in {"skip", "join"} /\ SessionOver /\ Counted = Limit
    BY DEF IInv, Session
  <2> QED
    BY <1>8, <1>9, <2>1
<1>12. Single'
  <2>1. \A d \in Conns : sender'[d].st # "none" => sender[d].st # "none"
    BY <1>1, <1>2
  <2> QED
    BY Zenon, <1>9, <2>1 DEF IInv, Single, OneByOne
<1>13. Whole'
  BY <1>8, <1>9 DEF IInv, Whole
<1>14. Times'
  <2> SUFFICES ASSUME ~opt.per_session_output, ~opt.partial
               PROVE  /\ usecs_elapsed' \in [Pkts -> Pkts \cup {None}]
                      /\ \A d \in Conns : Running(d)' => d = conn_id
                      /\ \A x \in Timed' : x < Front'
                      /\ conn_id # None => asked'[conn_id] \cap Timed' = {}
                      /\ ok = Cardinality(Timed')
    BY DEF Times
  <2>1. /\ usecs_elapsed \in [Pkts -> Pkts \cup {None}]
        /\ \A d \in Conns : Running(d) => d = conn_id
        /\ \A x \in Timed : x < Front
        /\ conn_id # None => asked[conn_id] \cap Timed = {}
        /\ ok = Cardinality(Timed)
    BY DEF IInv, Times
  <2>2. Timed' = Timed /\ usecs_elapsed' = usecs_elapsed
    BY DEF Timed
  <2>3. conn_id = c /\ conn_id # None
    BY <2>1, <1>1 DEF None, Conns
  <2>4. Front = q /\ Front' = At' /\ Front = At
    BY <2>3, <1>1 DEF Front, At, First
  <2>5. \A d \in Conns : Running(d)' => d = conn_id
    BY <1>2, <2>1, <2>3 DEF Running
  <2>6. \A x \in Timed' : x < Front'
    <3>1. At \in Nat /\ At' \in Nat /\ At <= At' /\ \A x \in Timed : x \in Nat
      BY <1>8, <2>3 DEF Timed, Pkts
    <3> QED
      BY <2>1, <2>2, <2>4, <3>1
  <2>7. asked'[conn_id] \cap Timed' = {}
    <3>1. q \notin Timed
      <4>1. q \in Nat
        BY <1>1
      <4>2. \A x \in Timed : x < q
        BY <2>1, <2>4
      <4> HIDE DEF q
      <4> QED
        BY <4>1, <4>2
    <3> QED
      BY <1>2, <2>1, <2>2, <2>3, <3>1
  <2> QED
    BY <2>1, <2>2, <2>5, <2>6, <2>7
<1>15. ResultsAddUp'
  BY DEF IInv, ResultsAddUp
<1> QED
  BY <1>6, <1>7, <1>10, <1>11, <1>12, <1>13, <1>14, <1>15 DEF IInv
-----------------------------------------------------------------------------
\* What the invariant says of the session of conn_id.
LEMMA Facts ==
  ASSUME IInv
  PROVE  /\ pkts_per_session \in Nat \ {0} /\ num_pkts \in Nat
         /\ num_pkts % pkts_per_session = 0
         /\ ok \in Nat /\ failed \in Nat /\ pkt_i \in Nat /\ i_incr \in Nat
         /\ Counted \in Nat /\ Counted <= num_pkts
         /\ conn_id # None => /\ conn_id \in Conns
                              /\ First \in Nat /\ Limit \in Nat /\ At \in Nat
                              /\ First % pkts_per_session = 0
                              /\ Limit = First + pkts_per_session
                              /\ Limit % pkts_per_session = 0
                              /\ Limit <= num_pkts /\ At <= Limit
                              /\ Running(conn_id) => At < Limit
                              /\ sender[conn_id].st # "none"
                              /\ Cardinality(asked[conn_id]) \in Nat
                              /\ IsFiniteSet(asked[conn_id])
                              /\ asked[conn_id] \subseteq Pkts
<1>1. /\ pkts_per_session \in Nat \ {0} /\ num_pkts \in Nat
      /\ num_pkts % pkts_per_session = 0
      /\ ok \in Nat /\ failed \in Nat /\ pkt_i \in Nat /\ i_incr \in Nat
      /\ Counted \in Nat /\ Counted <= num_pkts
  BY ClientConstants DEF IInv, Typed, Cursor, Counted
<1>2. ASSUME conn_id # None
      PROVE  /\ conn_id \in Conns
             /\ First \in Nat /\ Limit \in Nat /\ At \in Nat
             /\ First % pkts_per_session = 0
             /\ Limit = First + pkts_per_session
             /\ Limit % pkts_per_session = 0
             /\ Limit <= num_pkts /\ At <= Limit
             /\ Running(conn_id) => At < Limit
             /\ sender[conn_id].st # "none"
             /\ Cardinality(asked[conn_id]) \in Nat
             /\ IsFiniteSet(asked[conn_id])
             /\ asked[conn_id] \subseteq Pkts
  <2>1. conn_id \in Conns /\ sender[conn_id].st # "none" /\ SenderInv(conn_id)
    BY <1>2 DEF IInv, Typed, Cursor
  <2>2. sender[conn_id].first \in Nat /\ sender[conn_id].i \in Nat
        /\ asked[conn_id] \subseteq Pkts
    BY <2>1 DEF IInv, Typed
  <2>3. /\ First \in Nat /\ Limit \in Nat /\ At \in Nat
        /\ First % pkts_per_session = 0
        /\ Limit = First + pkts_per_session
        /\ Limit <= num_pkts /\ At <= Limit
        /\ Running(conn_id) => At < Limit
    BY <1>1, <2>1, <2>2 DEF First, Limit, At, SenderInv
  <2>4. Limit % pkts_per_session = 0
    BY Zenon, <1>1, <2>3, NextMultiple
  <2> QED
    BY <2>1, <2>2, <2>3, <2>4, PktsFinite
<1> QED
  BY <1>1, <1>2

\* A step of the receiver that leaves the session and the counts.
LEMMA Kept ==
  ASSUME IInv, UNCHANGED <<opt, sender, asked, used, conn_id, ok, failed>>,
         ~opt.per_session_output => usecs_elapsed' = usecs_elapsed
  PROVE  /\ \A c \in Conns : SenderInv(c)'
         /\ Times'
         /\ Counted' = Counted /\ First' = First /\ Limit' = Limit /\ At' = At
<1>1. \A c \in Conns : SenderInv(c)'
  BY DEF IInv, SenderInv, Running
<1>2. Counted' = Counted /\ First' = First /\ Limit' = Limit /\ At' = At
  BY DEF Counted, First, Limit, At
<1>3. Front' = Front
  BY <1>2 DEF Front
<1>4. ~opt.per_session_output => Timed' = Timed
  BY DEF Timed
<1>5. Times'
  BY <1>3, <1>4 DEF IInv, Times, Running
<1> QED
  BY ZenonT(30), <1>1, <1>2, <1>5

\* The head of the receiver's loop (dw_client.c:363).
LEMMA LoopHeadInv == ASSUME IInv, LoopHead PROVE IInv'
<1>1. /\ pc = "head" /\ pkt_i' = Counted
      /\ pc' = IF Counted >= num_pkts THEN "end"
               ELSE IF Counted % pkts_per_session = 0 THEN "connect" ELSE "recv"
      /\ UNCHANGED <<opt, sender, asked, used, conn_id, ok, failed, i_incr, usecs_elapsed>>
  BY DEF LoopHead, Counted, counts, arrays
<1>2. /\ \A c \in Conns : SenderInv(c)'
      /\ Times'
      /\ Counted' = Counted /\ First' = First /\ Limit' = Limit /\ At' = At
  BY <1>1, Kept
<1>3. Typed'
  BY Zenon, <1>1, Facts DEF IInv, Typed
<1>4. Cursor'
  BY <1>1, <1>2, Facts DEF IInv, Cursor
<1>5. conn_id # None => /\ First <= Counted /\ Counted <= Limit
                        /\ Cardinality(asked[conn_id]) + Counted <= At
  BY <1>1 DEF IInv, Session
<1>6. Session'
  <2>1. conn_id # None /\ pc' = "recv" => Counted < Limit
    BY <1>1, <1>5, Facts
  <2> QED
    BY <1>1, <1>2, <1>5, <2>1 DEF Session
<1>7. Single'
  BY <1>1, <1>2 DEF IInv, Single, OneByOne
<1>8. Whole'
  <2> SUFFICES ASSUME ~opt.partial, conn_id # None, pc' = "connect"
               PROVE  Counted = Limit /\ At = Limit
    BY <1>1, <1>2 DEF Whole
  <2>1. First < Counted /\ Counted % pkts_per_session = 0
    BY <1>1 DEF IInv, Whole
  <2>2. First + pkts_per_session <= Counted
    BY <2>1, Facts, Multiples
  <2>3. /\ Limit \in Nat /\ At \in Nat /\ Counted \in Nat
        /\ Cardinality(asked[conn_id]) \in Nat
        /\ Limit = First + pkts_per_session /\ At <= Limit
    BY Facts
  <2> QED
    BY <1>5, <2>2, <2>3
<1>9. ResultsAddUp'
  BY <1>1 DEF ResultsAddUp
<1> QED
  BY ZenonT(30), <1>2, <1>3, <1>4, <1>6, <1>7, <1>8, <1>9 DEF IInv

\* The label skip: the results of the session, and whether it is over.
LEMMA SkipInv == ASSUME IInv, Skip PROVE IInv'
<1>1. /\ pc = "skip"
      /\ pc' = IF SessionOver /\ conn_id # None THEN "join" ELSE "head"
      /\ UNCHANGED <<opt, sender, asked, used, conn_id, ok, failed, pkt_i, i_incr>>
      /\ ~opt.per_session_output => usecs_elapsed' = usecs_elapsed
  BY DEF Skip, counts, arrays
<1>2. /\ \A c \in Conns : SenderInv(c)'
      /\ Times'
      /\ Counted' = Counted /\ First' = First /\ Limit' = Limit /\ At' = At
  BY <1>1, Kept
<1>3. SessionOver' <=> SessionOver
  BY <1>1 DEF SessionOver
<1>4. Typed'
  BY <1>1 DEF IInv, Typed
<1>5. Cursor'
  BY <1>1, <1>2 DEF IInv, Cursor
<1>6. Session'
  BY <1>1, <1>2, <1>3 DEF IInv, Session
<1>7. Single'
  <2> SUFFICES ASSUME OneByOne
               PROVE  /\ \A c \in Conns : sender[c].st # "none" => c = conn_id
                      /\ pc' = "join" => Counted % pkts_per_session = 0
                      /\ pc' = "head" /\ Counted % pkts_per_session = 0 => conn_id = None
    BY <1>1, <1>2 DEF Single, OneByOne
  <2>1. Counted = pkt_i + i_incr /\ \A c \in Conns : sender[c].st # "none" => c = conn_id
    BY <1>1 DEF IInv, Single
  <2>2. SessionOver <=> Counted % pkts_per_session = 0
    BY <2>1 DEF SessionOver
  <2> QED
    BY <1>1, <2>1, <2>2
<1>8. Whole'
  <2> SUFFICES ASSUME ~opt.partial, conn_id # None
               PROVE  First < Counted /\ (pc' = "join" => Counted = Limit)
    BY <1>1, <1>2 DEF Whole
  <2>1. /\ First < Counted /\ First <= pkt_i /\ pkt_i < Limit /\ pkt_i < Counted
        /\ i_incr = 1 \/ Counted = Limit
    BY <1>1 DEF IInv, Whole
  <2>2. Counted <= Limit
    BY <1>1 DEF IInv, Session
  <2>3. CASE pc' = "join" /\ i_incr = 1
    <3>1. (pkt_i + 1) % pkts_per_session = 0
      BY <1>1, <2>3 DEF SessionOver
    <3>2. pkt_i + 1 \in Nat /\ First < pkt_i + 1
      BY <2>1, Facts
    <3> DEFINE n == pkt_i + 1
    <3> HIDE DEF n
    <3>3. First + pkts_per_session <= n
      BY <3>1, <3>2, Facts, Multiples DEF n
    <3>4. /\ Limit \in Nat /\ Counted \in Nat /\ pkt_i \in Nat
          /\ Limit = First + pkts_per_session
      BY Facts
    <3> QED
      BY <3>3, <3>4, <2>1, <2>2 DEF n
  <2> QED
    BY <2>1, <2>3
<1>9. ResultsAddUp'
  BY <1>1 DEF ResultsAddUp
<1> QED
  BY <1>2, <1>4, <1>5, <1>6, <1>7, <1>8, <1>9 DEF IInv

\* A part of a header, and a call on a connection that is gone.
LEMMA RecvNothingInv == ASSUME IInv, RecvPartial \/ RecvFreed PROVE IInv'
<1>1. /\ pc = "recv"
      /\ \/ pc' = "skip" /\ opt.partial /\ conn_id # None
         \/ pc' = "undefined"
      /\ UNCHANGED <<opt, sender, asked, used, conn_id, ok, failed, pkt_i, i_incr, usecs_elapsed>>
  BY DEF RecvPartial, RecvFreed, counts, arrays
<1>2. /\ \A c \in Conns : SenderInv(c)'
      /\ Times'
      /\ Counted' = Counted /\ First' = First /\ Limit' = Limit /\ At' = At
  BY <1>1, Kept
<1>3. Typed'
  BY <1>1 DEF IInv, Typed
<1>4. Cursor'
  BY <1>1, <1>2 DEF IInv, Cursor
<1>5. Session'
  BY <1>1, <1>2 DEF IInv, Session
<1>6. Single'
  BY <1>1, <1>2 DEF IInv, Single, OneByOne
<1>7. Whole'
  BY <1>1, <1>2 DEF IInv, Whole
<1>8. ResultsAddUp'
  BY <1>1 DEF ResultsAddUp
<1> QED
  BY ZenonT(30), <1>2, <1>3, <1>4, <1>5, <1>6, <1>7, <1>8 DEF IInv

\* The results printed at the end.
LEMMA FinishInv == ASSUME IInv, Finish PROVE IInv'
<1>1. /\ pc = "end" /\ pc' = "finished"
      /\ output' = IF opt.per_session_output THEN output ELSE {Result(p) : p \in Pkts}
      /\ UNCHANGED <<opt, sender, asked, used, conn_id, ok, failed, pkt_i, i_incr, usecs_elapsed>>
  BY DEF Finish, counts, arrays
<1>2. /\ \A c \in Conns : SenderInv(c)'
      /\ Times'
      /\ Counted' = Counted /\ First' = First /\ Limit' = Limit /\ At' = At
  BY <1>1, Kept
<1>3. Typed'
  BY ZenonT(30), <1>1 DEF IInv, Typed
<1>4. Cursor' /\ Session' /\ Single' /\ Whole'
  BY <1>1, <1>2 DEF IInv, Cursor, Session, Single, Whole, OneByOne
<1>5. ResultsAddUp'
  <2> SUFFICES ASSUME ~opt.per_session_output, ~opt.partial
               PROVE  ok = Cardinality({r \in output' : r.elapsed # None})
    BY ZenonT(30), <1>1 DEF ResultsAddUp
  <2> DEFINE T == {r \in output' : r.elapsed # None}
             f == [p \in Timed |-> Result(p)]
  <2>1. ok = Cardinality(Timed) /\ output' = {Result(p) : p \in Pkts}
    BY <1>1 DEF IInv, Times
  <2>2. \A p \in Pkts : Result(p).req_id = p /\ Result(p).elapsed = usecs_elapsed[p]
    BY DEF Result, idx
  <2>3. IsFiniteSet(Timed)
    BY PktsFinite DEF Timed
  <2>4. f \in Bijection(Timed, T)
    <3>1. f \in [Timed -> T]
      BY <2>1, <2>2 DEF Timed
    <3>2. \A a, b \in Timed : f[a] = f[b] => a = b
      BY <2>2 DEF Timed
    <3>3. \A t \in T : \E a \in Timed : f[a] = t
      BY <2>1, <2>2 DEF Timed
    <3> HIDE DEF T, f
    <3> QED
      BY <3>1, <3>2, <3>3 DEF Bijection, Injection, Surjection, IsInjective
  <2> HIDE DEF T, f
  <2>5. ExistsBijection(Timed, T)
    BY <2>4 DEF ExistsBijection
  <2>6. Cardinality(T) = Cardinality(Timed)
    BY <2>3, <2>5, FS_Bijection
  <2> QED
    BY <2>1, <2>6 DEF T
<1> QED
  BY <1>2, <1>3, <1>4, <1>5 DEF IInv
-----------------------------------------------------------------------------
\* With whole replies no sender of a session that is left is running.
LEMMA LeftIsDone ==
  ASSUME IInv, pc = "connect", ~opt.partial
  PROVE  /\ Front = Counted
         /\ ~opt.per_session_output => \A c \in Conns : ~Running(c)
<1>1. conn_id # None => Counted = Limit /\ At = Limit
  BY DEF IInv, Whole
<1>2. Front = Counted
  BY <1>1 DEF Front
<1>3. conn_id # None => ~Running(conn_id)
  <2>1. conn_id # None /\ Running(conn_id) => At < Limit /\ Limit \in Nat
    BY Facts
  <2> QED
    BY <1>1, <2>1
<1>4. None \notin Conns
  BY ClientConstants DEF None, Conns
<1> QED
  BY <1>2, <1>3, <1>4 DEF IInv, Times

\* A new connection and its sender.
LEMMA ConnectInv == ASSUME IInv, Connect PROVE IInv'
<1> DEFINE r == [st |-> "run", first |-> pkt_i, i |-> 0]
           p == pkts_per_session
<1>1. /\ pc = "connect" /\ pc' = "recv" /\ used \in Conns /\ conn_id' = used
      /\ used' = used + 1 /\ sender' = [sender EXCEPT ![used] = r]
      /\ UNCHANGED <<opt, ok, failed, pkt_i, i_incr, asked, usecs_elapsed, output>>
  BY Zenon DEF Connect, counts, arrays
<1>2. /\ pkt_i = Counted /\ Counted < num_pkts /\ Counted % p = 0
      /\ p \in Nat \ {0} /\ num_pkts \in Nat /\ Counted \in Nat /\ used \in Nat
      /\ num_pkts % p = 0 /\ used # None
  BY SMTT(30), <1>1, Facts, ClientConstants DEF IInv, Cursor, Typed, Conns, None
<1>3. Counted + p <= num_pkts
  BY Zenon, <1>2, Multiples
<1>4. /\ r \in [st : {"none", "run", "stamped", "done"}, first : Nat, i : Nat]
      /\ r.st = "run" /\ r.first = Counted /\ r.i = 0
  BY <1>2
<1> HIDE DEF r
<1>5. sender'[used] = r /\ \A d \in Conns : d # used => sender'[d] = sender[d]
  BY <1>1 DEF IInv, Typed
<1>6. sender[used].st = "none" /\ asked[used] = {}
  BY <1>1, <1>2 DEF IInv, SenderInv
<1>7. Counted' = Counted /\ First' = Counted /\ Limit' = Counted + p /\ At' = Counted
  BY <1>1, <1>2, <1>4, <1>5 DEF Counted, First, Limit, At
<1>8. Typed'
  <2>1. sender' \in [Conns -> [st : {"none", "run", "stamped", "done"}, first : Nat, i : Nat]]
    BY <1>1, <1>4 DEF IInv, Typed
  <2> QED
    BY <1>1, <1>2, <2>1 DEF IInv, Typed
<1>9. ASSUME NEW d \in Conns PROVE SenderInv(d)'
  <2>1. CASE d = used
    BY <1>1, <1>2, <1>3, <1>4, <1>5, <1>6, <2>1 DEF SenderInv, Running
  <2>2. CASE d # used
    <3>1. d < used => d < used'
      BY <1>1, <1>2 DEF Conns
    <3> QED
      BY <1>1, <1>5, <2>2, <3>1 DEF SenderInv, Running, IInv
  <2> QED
    BY <2>1, <2>2
<1>10. Cursor'
  BY ZenonT(30), <1>1, <1>2, <1>4, <1>5, <1>7 DEF IInv, Cursor
<1>11. Session'
  <2>1. Cardinality(asked'[conn_id']) = 0
    BY <1>1, <1>6, FS_EmptySet
  <2> QED
    BY <1>1, <1>2, <1>7, <2>1 DEF Session
<1>12. Single'
  <2>1. OneByOne => \A c \in Conns : sender[c].st # "none" => c = None
    BY <1>1 DEF IInv, Single
  <2>2. None \notin Conns
    BY ClientConstants DEF None, Conns
  <2> QED
    BY <1>1, <1>5, <2>1, <2>2 DEF Single, OneByOne
<1>13. Whole'
  BY Zenon, <1>1 DEF Whole
<1>14. Times'
  <2> SUFFICES ASSUME ~opt.per_session_output, ~opt.partial
               PROVE  /\ usecs_elapsed \in [Pkts -> Pkts \cup {None}]
                      /\ \A c \in Conns : Running(c)' => c = used
                      /\ \A x \in Timed : x < Counted
                      /\ asked[used] \cap Timed = {}
                      /\ ok = Cardinality(Timed)
    BY <1>1, <1>2, <1>7 DEF Times, Front, Timed
  <2>1. Front = Counted /\ \A c \in Conns : ~Running(c)
    BY <1>1, LeftIsDone
  <2>2. \A c \in Conns : Running(c)' => c = used
    BY <1>5, <2>1 DEF Running
  <2> QED
    BY Zenon, <1>6, <2>1, <2>2 DEF IInv, Times
<1>15. ResultsAddUp'
  BY <1>1 DEF ResultsAddUp
<1> QED
  BY ZenonT(30), <1>8, <1>9, <1>10, <1>11, <1>12, <1>13, <1>14, <1>15 DEF IInv

\* No connection: the session is skipped, or the client is left.
LEMMA NoConnectionInv == ASSUME IInv, ConnectFails \/ HandshakeFails PROVE IInv'
<1>1. /\ pc = "connect" /\ conn_id' = None
      /\ \/ pc' = "skip" /\ failed' = failed + SkipPkts /\ i_incr' = SkipPkts
         \/ pc' = "aborted" /\ UNCHANGED <<failed, i_incr>>
      /\ UNCHANGED <<opt, ok, pkt_i, used, sender, asked, usecs_elapsed, output>>
  BY Zenon DEF ConnectFails, HandshakeFails, counts, arrays
<1>2. /\ pkt_i = Counted /\ Counted < num_pkts /\ Counted % pkts_per_session = 0
      /\ pkts_per_session \in Nat \ {0} /\ num_pkts \in Nat /\ Counted \in Nat
      /\ num_pkts % pkts_per_session = 0 /\ ok \in Nat /\ failed \in Nat
  BY <1>1, Facts DEF IInv, Cursor
<1>3. Counted + pkts_per_session <= num_pkts
  BY Zenon, <1>2, Multiples
<1>4. SkipPkts = pkts_per_session
  BY <1>2 DEF SkipPkts
<1>5. /\ Counted' \in Nat /\ failed' \in Nat /\ Counted <= Counted' /\ Counted' <= num_pkts
      /\ pc' = "skip" => Counted' = pkt_i + i_incr'
  BY <1>1, <1>2, <1>3, <1>4 DEF Counted
<1>6. Typed'
  BY Zenon, <1>1, <1>2, <1>4, <1>5 DEF IInv, Typed
<1>7. \A c \in Conns : SenderInv(c)'
  BY Zenon, <1>1 DEF IInv, SenderInv, Running
<1>8. Cursor' /\ Session' /\ Whole'
  BY Zenon, <1>1, <1>5 DEF Cursor, Session, Whole
<1>9. Single'
  BY Zenon, <1>1, <1>5 DEF IInv, Single, OneByOne
<1>10. Times'
  <2> SUFFICES ASSUME ~opt.per_session_output, ~opt.partial
               PROVE  /\ usecs_elapsed \in [Pkts -> Pkts \cup {None}]
                      /\ \A c \in Conns : ~Running(c)
                      /\ \A x \in Timed : x < Counted'
                      /\ ok = Cardinality(Timed)
    BY <1>1 DEF Times, Front, Timed, Running
  <2>1. Front = Counted /\ \A c \in Conns : ~Running(c)
    BY Zenon, <1>1, LeftIsDone
  <2>2. \A x \in Timed : x \in Nat /\ x < Counted
    BY <2>1 DEF IInv, Times, Timed, Pkts
  <2>3. \A x \in Timed : x < Counted'
    BY <1>2, <1>5, <2>2
  <2> QED
    BY Zenon, <2>1, <2>3 DEF IInv, Times
<1>11. ResultsAddUp'
  BY <1>1 DEF ResultsAddUp
<1> QED
  BY <1>6, <1>7, <1>8, <1>9, <1>10, <1>11 DEF IInv

\* The end of a session: the sender is joined and the connection closed.
LEMMA JoinInv == ASSUME IInv, Join PROVE IInv'
<1>1. /\ pc = "join" /\ pc' = "head" /\ conn_id' = None
      /\ sender' = [sender EXCEPT ![conn_id] = NoSender]
      /\ asked' = [asked EXCEPT ![conn_id] = {}]
      /\ UNCHANGED <<opt, ok, failed, pkt_i, i_incr, used, usecs_elapsed, output>>
  BY DEF Join, counts, arrays
<1>2. conn_id # None /\ conn_id \in Conns
  BY <1>1 DEF IInv, Cursor, Typed
<1>3. /\ NoSender \in [st : {"none", "run", "stamped", "done"}, first : Nat, i : Nat]
      /\ NoSender.st = "none"
  BY DEF NoSender
<1>4. /\ sender'[conn_id] = NoSender /\ asked'[conn_id] = {}
      /\ \A d \in Conns : d # conn_id => sender'[d] = sender[d] /\ asked'[d] = asked[d]
  BY <1>1, <1>2 DEF IInv, Typed
<1>5. Counted' = Counted
  BY <1>1 DEF Counted
<1>6. Typed'
  <2>1. sender' \in [Conns -> [st : {"none", "run", "stamped", "done"}, first : Nat, i : Nat]]
    BY Zenon, <1>1, <1>3 DEF IInv, Typed
  <2>2. asked' \in [Conns -> SUBSET Pkts]
    BY Zenon, <1>1 DEF IInv, Typed
  <2> QED
    BY <1>1, <2>1, <2>2 DEF IInv, Typed
<1>7. ASSUME NEW d \in Conns PROVE SenderInv(d)'
  <2>1. CASE d = conn_id
    BY Zenon, <1>3, <1>4, <2>1 DEF SenderInv
  <2>2. CASE d # conn_id
    BY Zenon, <1>1, <1>4, <2>2 DEF SenderInv, Running, IInv
  <2> QED
    BY <2>1, <2>2
<1>8. Cursor' /\ Session' /\ Whole'
  BY Zenon, <1>1, <1>5 DEF IInv, Cursor, Session, Whole
<1>9. Single'
  BY Zenon, <1>1, <1>3, <1>4 DEF IInv, Single, OneByOne
<1>10. Times'
  <2> SUFFICES ASSUME ~opt.per_session_output, ~opt.partial
               PROVE  /\ usecs_elapsed \in [Pkts -> Pkts \cup {None}]
                      /\ \A c \in Conns : ~Running(c)'
                      /\ \A x \in Timed : x < Counted
                      /\ ok = Cardinality(Timed)
    BY ZenonT(30), <1>1, <1>5 DEF Times, Front, Timed
  <2>1. \A c \in Conns : ~Running(c)'
    BY ZenonT(30), <1>3, <1>4 DEF IInv, Times, Running
  <2>2. Counted = Limit /\ At <= Limit /\ At \in Nat /\ Limit \in Nat
    BY ZenonT(30), <1>1, <1>2, Facts DEF IInv, Whole
  <2>3. \A x \in Timed : x \in Nat /\ x < At
    BY <1>2 DEF IInv, Times, Front, Timed, Pkts
  <2> QED
    BY <2>1, <2>2, <2>3 DEF IInv, Times
<1>11. ResultsAddUp'
  BY <1>1 DEF ResultsAddUp
<1> QED
  BY <1>6, <1>7, <1>8, <1>9, <1>10, <1>11 DEF IInv

\* recv() finds the connection closed, and the rest of the session has failed.
LEMMA RecvClosedInv == ASSUME IInv, RecvClosed PROVE IInv'
<1> DEFINE p == pkts_per_session
<1>1. /\ pc = "recv" /\ pc' = "skip" /\ conn_id # None
      /\ i_incr' = SkipPkts /\ failed' = failed + SkipPkts
      /\ UNCHANGED <<opt, ok, pkt_i, conn_id, used, sender, asked, usecs_elapsed, output>>
  BY ZenonT(30) DEF RecvClosed, counts, arrays
<1>2. /\ First <= Counted /\ Counted < Limit /\ pkt_i = Counted
  BY ZenonT(30), <1>1 DEF IInv, Session, Cursor
<1>3. /\ First \in Nat /\ Limit \in Nat /\ Counted \in Nat /\ p \in Nat \ {0}
      /\ First % p = 0 /\ Limit % p = 0 /\ Limit = First + p /\ Limit <= num_pkts
      /\ num_pkts \in Nat /\ ok \in Nat /\ failed \in Nat
  BY <1>1, Facts
<1>4. Counted % p = Counted - First
  <2> DEFINE r == Counted - First
  <2>1. r \in 0 .. p - 1 /\ First + r = Counted
    BY <1>2, <1>3
  <2> HIDE DEF r
  <2>2. (First + r) % p = r
    BY Zenon, <2>1, <1>3, Remainder
  <2> QED
    BY <2>1, <2>2 DEF r
<1>5. SkipPkts = Limit - Counted /\ SkipPkts \in Nat
  BY <1>2, <1>3, <1>4 DEF SkipPkts
<1>6. Counted' = Limit /\ pkt_i + i_incr' = Limit
  BY <1>1, <1>2, <1>3, <1>5 DEF Counted
<1>7. SessionOver'
  BY ZenonT(30), <1>1, <1>3, <1>6 DEF SessionOver
<1>8. First' = First /\ Limit' = Limit /\ At' = At
  BY ZenonT(30), <1>1 DEF First, Limit, At
<1>9. Typed'
  BY <1>1, <1>3, <1>5 DEF IInv, Typed
<1>10. \A c \in Conns : SenderInv(c)'
  BY Zenon, <1>1 DEF IInv, SenderInv, Running
<1>11. Cursor'
  BY Zenon, <1>1, <1>3, <1>6 DEF IInv, Cursor
<1>12. Session'
  BY <1>1, <1>2, <1>3, <1>6, <1>7, <1>8 DEF Session
<1>13. Single'
  BY Zenon, <1>1, <1>6 DEF IInv, Single, OneByOne
<1>14. Whole'
  BY <1>1, <1>2, <1>3, <1>6, <1>8 DEF Whole
<1>15. Times'
  <2>1. Front' = Front /\ Timed' = Timed
    BY <1>1, <1>8 DEF Front, Timed
  <2> QED
    BY <1>1, <2>1 DEF IInv, Times, Running
<1>16. ResultsAddUp'
  BY <1>1 DEF ResultsAddUp
<1> QED
  BY <1>9, <1>10, <1>11, <1>12, <1>13, <1>14, <1>15, <1>16 DEF IInv
-----------------------------------------------------------------------------
\* Replies.
LEMMA RecvInv ==
  ASSUME IInv, NEW R \in SUBSET Pkts, NEW E \in SUBSET R, Recv(R, E)
  PROVE  IInv'
<1> DEFINE S == asked[conn_id]
           G == R \ E
<1>1. /\ pc = "recv" /\ pc' = "skip" /\ conn_id # None
      /\ R # {} /\ R \subseteq S /\ Cardinality(R) <= opt.batch
      /\ asked' = [asked EXCEPT ![conn_id] = S \ R]
      /\ usecs_elapsed' = Elapsed(G)
      /\ ok' = ok + Cardinality(G) /\ failed' = failed + Cardinality(E) /\ i_incr' = 1
      /\ UNCHANGED <<opt, pkt_i, conn_id, used, sender, output>>
  BY Zenon DEF Recv
<1>2. /\ conn_id \in Conns /\ IsFiniteSet(S) /\ S \subseteq Pkts
      /\ First \in Nat /\ Limit \in Nat /\ At \in Nat /\ At <= Limit /\ Limit <= num_pkts
      /\ num_pkts \in Nat /\ Counted \in Nat /\ ok \in Nat /\ failed \in Nat
  BY Zenon, <1>1, Facts
<1>3. /\ First <= Counted /\ Counted < Limit /\ pkt_i = Counted
      /\ Cardinality(S) + Counted <= At
  BY Zenon, <1>1 DEF IInv, Session, Cursor
<1>4. /\ asked'[conn_id] = S \ R
      /\ \A c \in Conns : c # conn_id => asked'[c] = asked[c]
  BY Zenon, <1>1, <1>2 DEF IInv, Typed
<1>5. /\ Cardinality(S) \in Nat /\ Cardinality(R) \in Nat /\ Cardinality(S \ R) \in Nat
      /\ Cardinality(S) = Cardinality(R) + Cardinality(S \ R) /\ IsFiniteSet(R)
  BY <1>1, <1>2, Parts
<1>6. /\ Cardinality(E) \in Nat /\ Cardinality(G) \in Nat
      /\ Cardinality(R) = Cardinality(E) + Cardinality(G) /\ IsFiniteSet(G)
  BY Zenon, <1>5, Parts
<1>7. Cardinality(R) # 0
  BY Zenon, <1>1, <1>5, FS_EmptySet
<1> DEFINE a == Cardinality(S)
           b == Cardinality(R)
           d == Cardinality(S \ R)
           e == Cardinality(E)
           g == Cardinality(G)
<1> HIDE DEF a, b, d, e, g
<1>8. /\ a \in Nat /\ b \in Nat \ {0} /\ d \in Nat /\ e \in Nat /\ g \in Nat
      /\ a = b + d /\ b = e + g /\ a + Counted <= At
      /\ ok' = ok + g /\ failed' = failed + e
  BY Zenon, <1>1, <1>3, <1>5, <1>6, <1>7 DEF a, b, d, e, g
<1>9. Counted' = Counted + b
  BY <1>2, <1>8 DEF Counted
<1>10. First' = First /\ Limit' = Limit /\ At' = At
  BY Zenon, <1>1 DEF First, Limit, At
<1>11. /\ Counted' \in Nat /\ Counted < Counted' /\ Counted' <= Limit
       /\ Cardinality(asked'[conn_id]) + Counted' <= At
  BY <1>2, <1>4, <1>8, <1>9 DEF d
<1>12. Typed'
  <2>1. asked' \in [Conns -> SUBSET Pkts]
    BY Zenon, <1>1, <1>2 DEF IInv, Typed
  <2>2. ok' \in Nat /\ failed' \in Nat
    BY SMTT(30), <1>2, <1>8
  <2> QED
    BY Zenon, <1>1, <2>1, <2>2 DEF IInv, Typed
<1>13. ASSUME NEW c \in Conns PROVE SenderInv(c)'
  <2>1. asked'[c] \subseteq asked[c]
    BY ZenonT(30), <1>4
  <2> QED
    BY Zenon, <1>1, <2>1 DEF IInv, SenderInv, Running
<1>14. Cursor'
  <2>1. Counted' <= num_pkts
    BY <1>2, <1>11
  <2> QED
    BY ZenonT(30), <1>1, <2>1 DEF IInv, Cursor
<1>15. Session'
  <2>1. First <= Counted'
    BY SMTT(30), <1>2, <1>3, <1>11
  <2> QED
    BY Zenon, <1>1, <1>10, <1>11, <2>1 DEF Session
<1>16. Single'
  <2>1. OneByOne => Counted' = pkt_i + i_incr'
    <3>1. opt.batch = 1 => b = 1
      BY <1>1, <1>8 DEF b
    <3> QED
      BY Zenon, <1>1, <1>2, <1>3, <1>9, <3>1 DEF OneByOne
  <2> QED
    BY Zenon, <1>1, <2>1 DEF IInv, Single, OneByOne
<1>17. Whole'
  <2>1. First < Counted'
    BY <1>2, <1>3, <1>11
  <2> QED
    BY ZenonT(30), <1>1, <1>3, <1>10, <1>11, <2>1 DEF Whole
<1>18. Times'
  <2> SUFFICES ASSUME ~opt.per_session_output, ~opt.partial
               PROVE  /\ usecs_elapsed' \in [Pkts -> Pkts \cup {None}]
                      /\ \A c \in Conns : Running(c) => c = conn_id
                      /\ \A x \in Timed' : x < Front'
                      /\ asked'[conn_id] \cap Timed' = {}
                      /\ ok' = Cardinality(Timed')
    BY Zenon, <1>1 DEF Times, Running
  <2>1. /\ usecs_elapsed \in [Pkts -> Pkts \cup {None}]
        /\ \A c \in Conns : Running(c) => c = conn_id
        /\ \A x \in Timed : x < At
        /\ S \cap Timed = {}
        /\ ok = Cardinality(Timed)
    BY Zenon, <1>1 DEF IInv, Times, Front
  <2>2. Front' = At
    BY <1>1, <1>10 DEF Front
  <2>3. Cells = Pkts /\ \A x \in Pkts : idx(x) = x
    BY ZenonT(30) DEF Cells, idx
  <2>4. \A k \in Pkts : usecs_elapsed'[k] = IF k \in G THEN k ELSE usecs_elapsed[k]
    <3> SUFFICES ASSUME NEW k \in Pkts
                 PROVE  usecs_elapsed'[k] = IF k \in G THEN k ELSE usecs_elapsed[k]
      BY Zenon
    <3>1. usecs_elapsed'[k] = IF \E x \in G : idx(x) = k
                                THEN CHOOSE x \in G : idx(x) = k ELSE usecs_elapsed[k]
      BY ZenonT(30), <1>1, <2>3 DEF Elapsed
    <3>2. (\E x \in G : idx(x) = k) <=> k \in G
      BY Zenon, <2>3
    <3>3. CASE k \in G
      <4>1. \E x \in G : idx(x) = k
        BY <3>2, <3>3
      <4>2. (CHOOSE x \in G : idx(x) = k) = k
        BY Zenon, <4>1, <2>3
      <4> QED
        BY ZenonT(30), <3>1, <3>3, <4>1, <4>2
    <3>4. CASE k \notin G
      BY ZenonT(30), <3>1, <3>2, <3>4
    <3> QED
      BY ZenonT(30), <3>3, <3>4
  <2>5. usecs_elapsed' \in [Pkts -> Pkts \cup {None}]
    <3>1. usecs_elapsed' = [k \in Pkts |-> usecs_elapsed'[k]]
      BY Zenon, <1>1, <2>3 DEF Elapsed
    <3>2. \A k \in Pkts : usecs_elapsed'[k] \in Pkts \cup {None}
      BY Zenon, <2>1, <2>4
    <3> QED
      BY ZenonT(30), <3>1, <3>2
  <2>6. None \notin Pkts
    BY SMTT(30), ClientConstants DEF None, Pkts
  <2>7. Timed' = Timed \cup G /\ Timed \cap G = {}
    <3>1. Timed' = {x \in Pkts : usecs_elapsed'[x] # None}
      BY DEF Timed
    <3>2. \A x \in Pkts : usecs_elapsed'[x] # None <=> x \in G \/ usecs_elapsed[x] # None
      BY <2>4, <2>6
    <3> QED
      BY Zenon, <1>1, <2>1, <3>1, <3>2 DEF Timed
  <2>8. ASSUME NEW x \in Timed' PROVE x < Front'
    <3>1. CASE x \in Timed
      BY ZenonT(30), <2>1, <2>2, <3>1
    <3>2. CASE x \in G
      <4>1. x \in First .. At - 1
        <5>1. S \subseteq First .. At - 1
          <6>1. SenderInv(conn_id) /\ sender[conn_id].st # "none"
            BY ZenonT(30), <1>1, <1>2 DEF IInv, Cursor
          <6>2. sender[conn_id].first \in Nat /\ sender[conn_id].i \in Nat
            BY ZenonT(30), <1>2 DEF IInv, Typed
          <6> DEFINE f == sender[conn_id].first
                     k == sender[conn_id].i
          <6>3. S \subseteq f .. f + k - 1 /\ First = f /\ At = f + k
            BY ZenonT(30), <6>1 DEF SenderInv, First, At
          <6> HIDE DEF f, k
          <6> QED
            BY SMTT(30), <6>2, <6>3 DEF f, k
        <5> QED
          BY ZenonT(30), <1>1, <3>2, <5>1
      <4> QED
        BY <1>2, <2>2, <4>1
    <3> QED
      BY ZenonT(30), <2>7, <3>1, <3>2
  <2>9. asked'[conn_id] \cap Timed' = {}
    BY ZenonT(30), <1>4, <2>1, <2>7
  <2>10. ok' = Cardinality(Timed')
    <3>1. IsFiniteSet(Timed) /\ Cardinality(Timed) \in Nat
      BY ZenonT(30), PktsFinite DEF Timed
    <3>2. Cardinality(Timed \cup G) = Cardinality(Timed) + Cardinality(G) - Cardinality(Timed \cap G)
      BY Zenon, <3>1, <1>6, FS_Union
    <3>3. Cardinality(Timed') = Cardinality(Timed) + Cardinality(G) - 0
      BY ZenonT(30), <3>2, <2>7, FS_EmptySet
    <3>4. Cardinality(Timed') = ok + g - 0
      BY ZenonT(30), <3>3, <2>1 DEF g
    <3> QED
      BY <3>4, <1>2, <1>8
  <2> QED
    BY ZenonT(30), <2>1, <2>5, <2>8, <2>9, <2>10
<1>19. ResultsAddUp'
  BY <1>1 DEF ResultsAddUp
<1> QED
  BY Zenon, <1>12, <1>13, <1>14, <1>15, <1>16, <1>17, <1>18, <1>19 DEF IInv
-----------------------------------------------------------------------------
\* The sender takes the time of its next packet.
LEMMA StampInv == ASSUME IInv, NEW c \in Conns, Stamp(c) PROVE IInv'
<1> DEFINE r == [sender[c] EXCEPT !.st = "stamped"]
<1>1. /\ Running(c) /\ sender' = [sender EXCEPT ![c] = r] /\ asked' = asked
      /\ usecs_elapsed' = [usecs_elapsed EXCEPT ![idx(Pkt(c))] = None]
      /\ UNCHANGED <<opt, pc, ok, failed, pkt_i, i_incr, conn_id, used, output>>
  BY DEF Stamp, Running, counts
<1>2. /\ sender[c] \in [st : {"none", "run", "stamped", "done"}, first : Nat, i : Nat]
      /\ sender[c].i < pkts_per_session /\ sender[c].first + pkts_per_session <= num_pkts
      /\ sender[c].st # "none" /\ pkts_per_session \in Nat /\ num_pkts \in Nat
  BY <1>1, ClientConstants DEF IInv, Typed, SenderInv, Running
<1>3. /\ r \in [st : {"run", "stamped", "done"}, first : Nat, i : Nat]
      /\ r.first = sender[c].first /\ r.i = sender[c].i
  BY <1>2
<1>4. asked' = [asked EXCEPT ![c] = asked[c]]
  BY ZenonT(30), <1>1 DEF IInv, Typed
<1>5. ASSUME ~opt.per_session_output, ~opt.partial PROVE usecs_elapsed' = usecs_elapsed
  <2> DEFINE q == Pkt(c)
  <2>1. q \in Pkts /\ q = sender[c].first + sender[c].i /\ idx(q) = q /\ q \in Nat
    BY <1>2, <1>5 DEF Pkt, Pkts, idx
  <2>2. c = conn_id /\ c # None
    BY <1>1, <1>5, ClientConstants DEF IInv, Times, None, Conns
  <2>3. q = Front
    BY ZenonT(30), <2>1, <2>2 DEF Front, At, First
  <2>4. /\ usecs_elapsed \in [Pkts -> Pkts \cup {None}]
        /\ \A x \in Timed : x < q
    BY ZenonT(30), <2>3, <1>5 DEF IInv, Times
  <2> HIDE DEF q
  <2>5. usecs_elapsed[q] = None
    BY <2>1, <2>4 DEF Timed
  <2>6. usecs_elapsed' = [usecs_elapsed EXCEPT ![q] = None]
    BY Zenon, <1>1, <2>1 DEF q
  <2> QED
    BY ZenonT(30), <2>4, <2>5, <2>6
<1> HIDE DEF r
<1> QED
  BY Zenon, <1>1, <1>2, <1>3, <1>4, <1>5, SenderMoves

\* The packet is sent, dropped, or its send fails.
LEMMA SendInv ==
  ASSUME IInv, NEW c \in Conns, Send(c) \/ SendFails(c) \/ Drop(c)
  PROVE  IInv'
<1>1. /\ Running(c) /\ sender[c].st = "stamped"
      /\ UNCHANGED <<opt, pc, ok, failed, pkt_i, i_incr, conn_id, used, output, usecs_elapsed>>
  BY ZenonT(30) DEF Send, SendFails, Drop, Running, counts, arrays
<1>2. /\ sender[c] \in [st : {"none", "run", "stamped", "done"}, first : Nat, i : Nat]
      /\ sender[c].i < pkts_per_session /\ pkts_per_session \in Nat
  BY <1>1, ClientConstants DEF IInv, Typed, SenderInv, Running
<1>3. CASE SendFails(c)
  <2> DEFINE r == [sender[c] EXCEPT !.st = "done"]
  <2>1. sender' = [sender EXCEPT ![c] = r] /\ asked' = asked
    BY <1>3 DEF SendFails
  <2>2. /\ r \in [st : {"run", "stamped", "done"}, first : Nat, i : Nat]
        /\ r.first = sender[c].first /\ r.i = sender[c].i /\ r.st = "done"
    BY <1>2
  <2>3. asked' = [asked EXCEPT ![c] = asked[c]]
    BY <2>1 DEF IInv, Typed
  <2> HIDE DEF r
  <2> QED
    BY Zenon, <1>1, <2>1, <2>2, <2>3, SenderMoves
<1>4. CASE Send(c) \/ Drop(c)
  <2> DEFINE j == sender[c].i + 1
             w == IF j = pkts_per_session THEN "done" ELSE "run"
             r == [sender[c] EXCEPT !.i = j, !.st = w]
  <2>1. sender' = [sender EXCEPT ![c] = r]
    BY Zenon, <1>4 DEF Send, Drop, NextPkt, IInv, Typed
  <2>2. j = sender[c].i + 1 /\ j \in Nat /\ w \in {"run", "done"}
        /\ (w # "done" => j < pkts_per_session)
    BY <1>2
  <2> HIDE DEF j, w
  <2>3. /\ r \in [st : {"run", "stamped", "done"}, first : Nat, i : Nat]
        /\ r.first = sender[c].first /\ r.i = sender[c].i + 1
        /\ r.st # "done" => r.i < pkts_per_session
    BY Zenon, <1>2, <2>2
  <2>4. PICK A : /\ A = asked[c] \/ A = asked[c] \cup {Pkt(c)}
                 /\ asked' = [asked EXCEPT ![c] = A]
    <3>1. asked = [asked EXCEPT ![c] = asked[c]]
      BY DEF IInv, Typed
    <3>2. asked' = asked \/ asked' = [asked EXCEPT ![c] = asked[c] \cup {Pkt(c)}]
      BY Zenon, <1>4 DEF Send, Drop
    <3> QED
      BY ZenonT(30), <3>1, <3>2
  <2> HIDE DEF r
  <2> QED
    BY Zenon, <1>1, <2>1, <2>3, <2>4, SenderMoves
<1> QED
  BY <1>3, <1>4

\* The invariant does not depend on which connections the node has closed.
LEMMA IdleInv ==
  ASSUME IInv, UNCHANGED vars \/ \E c \in Conns : NodeCloses(c)
  PROVE  IInv'
<1>1. UNCHANGED <<opt, pc, ok, failed, pkt_i, i_incr, conn_id, used, sender, asked,
                  usecs_elapsed, output>>
  BY ZenonT(30) DEF vars, counts, arrays, NodeCloses
<1>2. /\ \A c \in Conns : SenderInv(c)'
      /\ Times'
      /\ Counted' = Counted /\ First' = First /\ Limit' = Limit /\ At' = At
  BY <1>1, Kept
<1>3. SessionOver' <=> SessionOver
  BY ZenonT(30), <1>1 DEF SessionOver
<1>4. Typed' /\ Cursor'
  BY Zenon, <1>1, <1>2 DEF IInv, Typed, Cursor
<1>5. Session'
  BY ZenonT(30), <1>1, <1>2, <1>3 DEF IInv, Session
<1>6. Single' /\ Whole'
  BY Zenon, <1>1, <1>2 DEF IInv, Single, OneByOne, Whole
<1>7. ResultsAddUp'
  BY <1>1 DEF IInv, ResultsAddUp
<1> QED
  BY ZenonT(30), <1>2, <1>4, <1>5, <1>6, <1>7 DEF IInv

\* Nothing was sent or counted yet.
LEMMA InitInv == Init => IInv
<1> SUFFICES ASSUME Init PROVE IInv
  OBVIOUS
<1>1. /\ opt \in Settings /\ pc = "head" /\ ok = 0 /\ failed = 0 /\ pkt_i = 0 /\ i_incr = 0
      /\ conn_id = None /\ used = 0
      /\ sender = [c \in Conns |-> NoSender] /\ asked = [c \in Conns |-> {}]
      /\ usecs_elapsed = [k \in Cells |-> None]
  BY DEF Init
<1>2. /\ NoSender \in [st : {"none", "run", "stamped", "done"}, first : Nat, i : Nat]
      /\ NoSender.st = "none"
  BY DEF NoSender
<1>3. Counted = 0
  BY <1>1 DEF Counted
<1>4. Typed
  <2>1. sender \in [Conns -> [st : {"none", "run", "stamped", "done"}, first : Nat, i : Nat]]
    BY ZenonT(30), <1>1, <1>2
  <2> QED
    BY ZenonT(30), <1>1, <2>1 DEF Typed
<1>5. \A c \in Conns : SenderInv(c) /\ ~Running(c)
  BY Zenon, <1>1, <1>2 DEF SenderInv, Running
<1>6. Cursor /\ Session /\ Whole
  BY <1>1, <1>3, ClientConstants DEF Cursor, Session, Whole
<1>7. Single
  BY <1>1, <1>2 DEF Single
<1>8. Times
  <2> SUFFICES ASSUME ~opt.per_session_output
               PROVE  usecs_elapsed \in [Pkts -> Pkts \cup {None}] /\ Cardinality(Timed) = 0
                      /\ Timed = {}
    BY ZenonT(30), <1>1, <1>5 DEF Times
  <2>1. Cells = Pkts
    BY DEF Cells, idx
  <2>2. usecs_elapsed \in [Pkts -> Pkts \cup {None}] /\ Timed = {}
    BY ZenonT(30), <1>1, <2>1 DEF Timed
  <2> QED
    BY ZenonT(30), <2>2, FS_EmptySet
<1>9. ResultsAddUp
  BY <1>1 DEF ResultsAddUp
<1> QED
  BY <1>4, <1>5, <1>6, <1>7, <1>8, <1>9 DEF IInv

\* Every step keeps the invariant.
LEMMA NextInv == IInv /\ [Next]_vars => IInv'
<1> SUFFICES ASSUME IInv, [Next]_vars PROVE IInv'
  OBVIOUS
<1>1. CASE LoopHead \/ Skip \/ Finish
  BY <1>1, LoopHeadInv, SkipInv, FinishInv
<1>2. CASE Connect \/ ConnectFails \/ HandshakeFails
  BY <1>2, ConnectInv, NoConnectionInv
<1>3. ASSUME NEW R \in SUBSET Pkts, NEW E \in SUBSET R, Recv(R, E) PROVE IInv'
  BY <1>3, RecvInv
<1>4. CASE RecvPartial \/ RecvClosed \/ RecvFreed
  BY <1>4, RecvNothingInv, RecvClosedInv
<1>5. CASE Join
  BY <1>5, JoinInv
<1>6. ASSUME NEW c \in Conns, Sender(c) PROVE IInv'
  BY <1>6, StampInv, SendInv DEF Sender
<1>7. CASE UNCHANGED vars \/ \E c \in Conns : NodeCloses(c)
  BY <1>7, IdleInv
<1> QED
  BY ZenonT(30), <1>1, <1>2, <1>3, <1>4, <1>5, <1>6, <1>7 DEF Next, Receiver
-----------------------------------------------------------------------------
\* The loop of thread_receiver and its senders stay within their session.
THEOREM SessionInductive == Spec => []IInv
BY InitInv, NextInv, PTL DEF Spec

\* Of thread_receiver of src/dw_client.c, for any number of packets, sessions
\* and connections and however replies are cut or joined: no packet is counted
\* twice, and when the loop ends all are counted.
THEOREM CountedOnceHolds == Spec => []CountedOnce
<1>1. IInv => CountedOnce
  BY ZenonT(30) DEF IInv, Cursor, Counted, CountedOnce
<1> QED
  BY <1>1, SessionInductive, PTL

\* Of the end of a session in thread_receiver: when replies come one by one
\* the last sender is joined before the next connection is made.
THEOREM OneSessionHolds == Spec => []OneSession
<1>1. IInv => OneSession
  <2> SUFFICES ASSUME IInv, OneByOne
               PROVE  Cardinality({c \in Conns : sender[c].st # "none"}) <= 1
    BY ZenonT(30) DEF OneSession
  <2> DEFINE S == {c \in Conns : sender[c].st # "none"}
  <2>1. S \subseteq {conn_id}
    BY DEF IInv, Single
  <2> HIDE DEF S
  <2>2. S = {} \/ S = {conn_id}
    BY <2>1
  <2>3. Cardinality(S) = 0 \/ Cardinality(S) = 1
    BY Zenon, <2>2, FS_EmptySet, FS_Singleton
  <2> QED
    BY <2>3 DEF S
<1> QED
  BY <1>1, SessionInductive, PTL

\* Of usecs_elapsed[], which a sender resets and the receiver sets without a
\* lock: when conn_recv() brings whole replies, however many at once, the
\* response times printed at the end are as many as num_success.
THEOREM ResultsAddUpHolds == Spec => []ResultsAddUp
<1>1. IInv => ResultsAddUp
  BY DEF IInv
<1> QED
  BY <1>1, SessionInductive, PTL
-----------------------------------------------------------------------------
\* When replies come one by one and neither the node nor a full buffer has
\* ended the session, the replies received are the packets counted of it.
Replied ==
  /\ recvd \in Nat
  /\ OneByOne /\ conn_id # None /\ conn_id \in up /\ ~RecvBufFull
       /\ pc \in {"head", "recv", "skip", "join"} => recvd = Counted - First

\* A step that receives nothing and leaves the session where it is.
LEMMA RepliedKept ==
  ASSUME Replied, UNCHANGED <<opt, recvd, conn_id, ok, failed, First>>, up' \subseteq up,
         pc' \in {"head", "recv", "skip", "join"} => pc \in {"head", "recv", "skip", "join"}
  PROVE  Replied'
<1>1. Counted' = Counted /\ (OneByOne' <=> OneByOne) /\ (RecvBufFull' <=> RecvBufFull)
  BY Zenon DEF Counted, OneByOne, RecvBufFull
<1> QED
  BY Zenon, <1>1 DEF Replied

\* A reply is received and counted.
LEMMA RecvReplied ==
  ASSUME IInv, Replied, NEW R \in SUBSET Pkts, NEW E \in SUBSET R, Recv(R, E)
  PROVE  Replied'
<1> DEFINE b == Cardinality(R)
           e == Cardinality(E)
           g == Cardinality(R \ E)
<1>1. /\ pc = "recv" /\ recvd' = recvd + b
      /\ ok' = ok + g /\ failed' = failed + e
      /\ UNCHANGED <<opt, conn_id, up, sender>>
  BY Zenon DEF Recv
<1>2. b \in Nat /\ e \in Nat /\ g \in Nat /\ b = e + g
  <2>1. IsFiniteSet(R)
    BY Zenon, PktsFinite, FS_Subset
  <2> QED
    BY Zenon, <2>1, Parts
<1> HIDE DEF b, e, g
<1>3. First' = First /\ (OneByOne' <=> OneByOne)
  BY Zenon, <1>1 DEF First, OneByOne
<1>4. /\ recvd \in Nat /\ ok \in Nat /\ failed \in Nat /\ opt.room \in Nat
      /\ conn_id # None => First \in Nat
  <2>1. opt.room \in Nat
    BY ClientConstants DEF IInv, Typed
  <2> QED
    BY Zenon, <2>1, Facts DEF Replied
<1>5. recvd' \in Nat /\ Counted' = Counted + b /\ Counted \in Nat
  BY <1>1, <1>2, <1>4 DEF Counted
<1>6. ~RecvBufFull' => ~RecvBufFull
  BY <1>1, <1>2, <1>4 DEF RecvBufFull
<1>7. ASSUME OneByOne', conn_id' # None, (conn_id \in up)', ~RecvBufFull'
      PROVE  recvd' = Counted' - First'
  <2>1. recvd = Counted - First
    BY Zenon, <1>1, <1>3, <1>6, <1>7 DEF Replied
  <2>2. First \in Nat
    BY Zenon, <1>1, <1>4, <1>7
  <2> QED
    BY <1>1, <1>2, <1>3, <1>4, <1>5, <2>1, <2>2
<1> QED
  BY Zenon, <1>5, <1>7 DEF Replied

\* Every step of thread_receiver and its senders.
LEMMA RepliedStep == IInv /\ Replied /\ [Next]_vars => Replied'
<1> SUFFICES ASSUME IInv, Replied, [Next]_vars PROVE Replied'
  OBVIOUS
<1>1. CASE LoopHead \/ Skip \/ RecvPartial
  <2>1. /\ UNCHANGED <<opt, recvd, conn_id, ok, failed, up, sender>>
        /\ pc \in {"head", "recv", "skip"}
    BY Zenon, <1>1 DEF LoopHead, Skip, RecvPartial, counts
  <2> QED
    BY Zenon, <2>1, RepliedKept DEF First
<1>2. CASE Finish \/ RecvFreed
  <2>1. recvd' = recvd /\ pc' \in {"finished", "undefined"}
    BY Zenon, <1>2 DEF Finish, RecvFreed
  <2> QED
    BY <2>1 DEF Replied
<1>3. CASE ConnectFails \/ HandshakeFails \/ Join
  <2>1. recvd' = recvd /\ conn_id' = None
    BY Zenon, <1>3 DEF ConnectFails, HandshakeFails, Join
  <2> QED
    BY Zenon, <2>1 DEF Replied
<1>4. CASE Connect
  <2>1. /\ recvd' = 0 /\ conn_id' = used /\ used \in Conns /\ UNCHANGED <<ok, failed>>
        /\ sender' = [sender EXCEPT ![used] = [st |-> "run", first |-> pkt_i, i |-> 0]]
        /\ pc = "connect"
    BY Zenon, <1>4 DEF Connect, counts
  <2>2. sender'[used].first = pkt_i
    BY <2>1 DEF IInv, Typed
  <2>3. First' = pkt_i /\ Counted' = Counted
    BY <2>1, <2>2 DEF First, Counted
  <2>4. pkt_i = Counted /\ Counted \in Nat
    BY Zenon, <2>1, Facts DEF IInv, Cursor
  <2>5. recvd' \in Nat /\ recvd' = Counted' - First'
    BY <2>1, <2>3, <2>4
  <2> QED
    BY Zenon, <2>5 DEF Replied
<1>5. ASSUME NEW R \in SUBSET Pkts, NEW E \in SUBSET R, Recv(R, E) PROVE Replied'
  BY <1>5, RecvReplied
<1>6. CASE RecvClosed
  <2>1. UNCHANGED <<opt, recvd, conn_id, up>> /\ (conn_id \notin up \/ RecvBufFull)
    BY Zenon, <1>6 DEF RecvClosed
  <2>2. RecvBufFull' <=> RecvBufFull
    BY Zenon, <2>1 DEF RecvBufFull
  <2> QED
    BY Zenon, <2>1, <2>2 DEF Replied
<1>7. ASSUME NEW c \in Conns, Sender(c) PROVE Replied'
  <2>1. UNCHANGED <<opt, pc, recvd, conn_id, ok, failed, up>>
    BY Zenon, <1>7 DEF Sender, Stamp, Send, SendFails, Drop, counts
  <2>2. conn_id \in Conns => First' = First
    <3>1. sender \in [Conns -> [st : {"none", "run", "stamped", "done"}, first : Nat, i : Nat]]
      BY Zenon DEF IInv, Typed
    <3> DEFINE j == sender[c].i + 1
               w == IF j = pkts_per_session THEN "done" ELSE "run"
               x == [sender[c] EXCEPT !.st = "stamped"]
               y == [sender[c] EXCEPT !.st = "done"]
               z == [sender[c] EXCEPT !.i = j, !.st = w]
    <3>2. \/ sender' = [sender EXCEPT ![c] = x]
          \/ sender' = [sender EXCEPT ![c] = y]
          \/ sender' = [sender EXCEPT ![c] = z]
      <4>1. CASE Stamp(c)
        BY Zenon, <4>1 DEF Stamp
      <4>2. CASE SendFails(c)
        BY Zenon, <4>2 DEF SendFails
      <4>3. CASE Send(c) \/ Drop(c)
        BY Zenon, <4>3, <3>1 DEF Send, Drop, NextPkt
      <4> QED
        BY Zenon, <1>7, <4>1, <4>2, <4>3 DEF Sender
    <3> HIDE DEF j, w
    <3>3. /\ x.first = sender[c].first /\ y.first = sender[c].first
          /\ z.first = sender[c].first
      <4>1. sender[c] \in [st : {"none", "run", "stamped", "done"}, first : Nat, i : Nat]
        BY Zenon, <3>1
      <4> QED
        BY Zenon, <4>1
    <3> HIDE DEF x, y, z
    <3>4. \A d \in Conns : sender'[d].first = sender[d].first
      <4> SUFFICES ASSUME NEW d \in Conns PROVE sender'[d].first = sender[d].first
        OBVIOUS
      <4>1. CASE d = c
        BY Zenon, <3>1, <3>2, <3>3, <4>1
      <4>2. CASE d # c
        BY Zenon, <3>1, <3>2, <4>2
      <4> QED
        BY <4>1, <4>2
    <3> QED
      BY Zenon, <2>1, <3>4 DEF First
  <2>3. conn_id \notin Conns => conn_id = None
    BY Zenon DEF IInv, Typed
  <2>4. CASE conn_id = None
    BY Zenon, <2>1, <2>4 DEF Replied
  <2>5. CASE conn_id \in Conns
    BY Zenon, <2>1, <2>2, <2>5, RepliedKept
  <2> QED
    BY <2>3, <2>4, <2>5
<1>8. CASE UNCHANGED vars \/ \E c \in Conns : NodeCloses(c)
  <2>1. UNCHANGED <<opt, pc, recvd, conn_id, ok, failed, sender>> /\ up' \subseteq up
    BY Zenon, <1>8 DEF vars, counts, NodeCloses
  <2> QED
    BY Zenon, <2>1, RepliedKept DEF First
<1> QED
  BY ZenonT(30), <1>1, <1>2, <1>3, <1>4, <1>5, <1>6, <1>7, <1>8 DEF Next, Receiver

\* Of thread_receiver, for any length of sessions: a session over a connection
\* the node keeps open ends with the replies to all its packets received, not
\* only counted, unless the receive buffer of the connection is full.
THEOREM SessionEndsWithRepliesHolds == Spec => []SessionEndsWithReplies
<1>1. Init => IInv /\ Replied
  BY InitInv DEF Init, Replied
<1>2. (IInv /\ Replied) /\ [Next]_vars => (IInv /\ Replied)'
  BY NextInv, RepliedStep
<1>3. IInv /\ Replied => SessionEndsWithReplies
  <2> SUFFICES ASSUME IInv, Replied, OneByOne, pc = "join", conn_id \in up, ~RecvBufFull
               PROVE  recvd = pkts_per_session
    BY Zenon DEF SessionEndsWithReplies
  <2>1. conn_id # None
    BY Zenon DEF IInv, Cursor
  <2>2. Counted = Limit
    BY Zenon, <2>1 DEF IInv, Whole, OneByOne
  <2>3. recvd = Counted - First
    BY Zenon, <2>1 DEF Replied
  <2>4. First \in Nat /\ Limit = First + pkts_per_session /\ pkts_per_session \in Nat
    BY Zenon, <2>1, Facts
  <2> QED
    BY <2>2, <2>3, <2>4
<1> QED
  BY <1>1, <1>2, <1>3, PTL DEF Spec
=============================================================================
