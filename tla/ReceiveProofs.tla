--------------------------- MODULE ReceiveProofs ----------------------------
(***************************************************************************)
(* The receive buffer of a connection (Connection, over RecvBuf), for any  *)
(* messages, sizes and clients: the buffer keeps the requests and the      *)
(* framing of the stream (RecvInv), and an empty one has space (SpaceInv). *)
(*                                                                         *)
(* The stream is the concatenation of the messages, UpTo, so the proofs    *)
(* need where a message ends in it, and that by induction on the messages. *)
(***************************************************************************)
EXTENDS Connection, WellFoundedInduction, TLAPS

\* All that the client sends, and where the i-th message ends in it.
Full == In!UpTo[Len(Msgs)]
End(i) == Len(In!UpTo[i])

Cell == Range(Msgs) \X Nat

RecvType ==
  /\ enable_defrag \in BOOLEAN
  /\ answers \subseteq Range(Msgs)
  /\ stream \in Seq(Cell)
  /\ recv_buf \in [0 .. BUF_SIZE - 1 -> Cell \cup {In!Empty}]
  /\ recv \in Nat /\ space \in Nat /\ proc \in Nat
  /\ req_list \in Seq([msg : Range(Msgs), ptr : Nat])
  /\ pc \in {"poll", "obtain", "closed"}
  /\ taken \in Seq(Range(Msgs))

\* The cells between curr_proc_buf and curr_recv_buf, and then those not
\* received, continue the stream where the last message obtained ends.
Framed ==
  LET done == End(Len(taken)) IN
  /\ Len(taken) <= Len(Msgs) /\ taken = SubSeq(Msgs, 1, Len(taken))
  /\ proc <= recv /\ recv + space = BUF_SIZE
  /\ done + (recv - proc) + Len(stream) = Len(Full)
  /\ \A k \in 1 .. recv - proc : recv_buf[proc + k - 1] = Full[done + k]
  /\ \A k \in 1 .. Len(stream) : stream[k] = Full[done + (recv - proc) + k]

\* Where request i ends in the buffer.
ReqEnd(i) == req_list[i].ptr + SizeOf[req_list[i].msg]

\* The requests lie one behind the other, the newest last, before
\* curr_proc_buf.
Apart ==
  /\ \A i \in DOMAIN req_list : ReqEnd(i) <= proc
  /\ \A i, j \in DOMAIN req_list : i < j => ReqEnd(j) <= req_list[i].ptr

RecvInv == RecvType /\ Framed /\ Apart /\ In!RequestsIntact

\* With defragmentation and no answers, nothing else is before curr_proc_buf.
Compact ==
  enable_defrag /\ answers = {} =>
    /\ req_list = <<>> => proc = 0
    /\ req_list # <<>> => ReqEnd(1) = proc /\ req_list[Len(req_list)].ptr = 0
    /\ \A i \in 1 .. Len(req_list) - 1 : req_list[i].ptr = ReqEnd(i + 1)

\* The worker polls when the next message is incomplete.
Waiting ==
  /\ pc # "obtain" /\ proc < recv => recv - proc < SizeOf[Msgs[Len(taken) + 1]]
  /\ pc = "closed" => space = 0 /\ stream # <<>>

SpaceInv == Compact /\ Waiting
-----------------------------------------------------------------------------
\* The elements of a sequence.
LEMMA SeqElements ==
  ASSUME NEW S, NEW s \in Seq(S)
  PROVE  /\ Len(s) \in Nat
         /\ DOMAIN s = 1 .. Len(s)
         /\ \A i \in 1 .. Len(s) : s[i] \in S
OBVIOUS

\* Only the empty sequence has none.
LEMMA NoElements ==
  ASSUME NEW S
  PROVE  /\ <<>> \in Seq(S)
         /\ Len(<<>>) = 0
         /\ \A s \in Seq(S) : Len(s) = 0 => s = <<>>
OBVIOUS

\* A function on 1 .. n is a sequence.
LEMMA MadeSeq ==
  ASSUME NEW S, NEW n \in Nat, NEW f \in [1 .. n -> S]
  PROVE  f \in Seq(S) /\ Len(f) = n
OBVIOUS

\* What is left of a sequence when its first n elements are gone.
LEMMA Suffix ==
  ASSUME NEW S, NEW s \in Seq(S), NEW n \in Nat, n <= Len(s)
  PROVE  /\ SubSeq(s, n + 1, Len(s)) \in Seq(S)
         /\ Len(SubSeq(s, n + 1, Len(s))) = Len(s) - n
         /\ \A k \in 1 .. Len(s) - n : SubSeq(s, n + 1, Len(s))[k] = s[n + k]
OBVIOUS

\* The elements of a concatenation.
LEMMA Concat ==
  ASSUME NEW S, NEW a \in Seq(S), NEW b \in Seq(S)
  PROVE  /\ a \o b \in Seq(S)
         /\ Len(a \o b) = Len(a) + Len(b)
         /\ Len(a) \in Nat /\ Len(b) \in Nat
         /\ \A i \in 1 .. Len(a) : (a \o b)[i] = a[i]
         /\ \A i \in 1 .. Len(b) : (a \o b)[Len(a) + i] = b[i]
OBVIOUS

\* The first n + 1 elements are the first n and the next one.
LEMMA OneMore ==
  ASSUME NEW S, NEW s \in Seq(S), NEW n \in Nat, n + 1 <= Len(s)
  PROVE  SubSeq(s, 1, n + 1) = Append(SubSeq(s, 1, n), s[n + 1])
<1> DEFINE a == SubSeq(s, 1, n)
           b == SubSeq(s, 1, n + 1)
<1>1. a \in Seq(S) /\ Len(a) = n /\ \A k \in 1 .. n : a[k] = s[k]
  OBVIOUS
<1>2. b \in Seq(S) /\ Len(b) = n + 1 /\ \A k \in 1 .. n + 1 : b[k] = s[k]
  OBVIOUS
<1>3. s[n + 1] \in S
  OBVIOUS
<1> HIDE DEF a, b
<1>4. /\ Append(a, s[n + 1]) \in Seq(S) /\ Len(Append(a, s[n + 1])) = n + 1
      /\ \A k \in 1 .. n : Append(a, s[n + 1])[k] = a[k]
      /\ Append(a, s[n + 1])[n + 1] = s[n + 1]
  BY <1>1, <1>3
<1>5. \A k \in 1 .. n + 1 : Append(a, s[n + 1])[k] = b[k]
  BY <1>1, <1>2, <1>4
<1> QED
  BY <1>2, <1>4, <1>5 DEF a, b

\* A set of natural numbers has a least element.
LEMMA LeastElement ==
  ASSUME NEW T \in SUBSET Nat, T # {}
  PROVE  \E x \in T : \A y \in T : x <= y
<1> DEFINE R == {p \in Nat \X Nat : p[1] < p[2]}
<1>1. IsWellFoundedOn(R, Nat)
  BY NatLessThanWellFounded DEF OpToRel
<1>2. \E x \in T : \A y \in T : ~ (<<y, x>> \in R)
  <2> HIDE DEF R
  <2> QED
    BY Zenon, <1>1, WFMin
<1>3. PICK x \in T : \A y \in T : ~ (<<y, x>> \in R)
  BY <1>2
<1>4. \A y \in T : y \in Nat /\ x \in Nat /\ (y < x => <<y, x>> \in R)
  OBVIOUS
<1> HIDE DEF R
<1>5. \A y \in T : ~(y < x)
  BY Zenon, <1>3, <1>4
<1>6. \A y \in T : x <= y
  BY <1>4, <1>5
<1> QED
  BY <1>6

\* Induction over an interval, for a property given as a set.
LEMMA IntervalInduction ==
  ASSUME NEW N \in Nat, NEW S, 0 \in S, \A i \in 1 .. N : i - 1 \in S => i \in S
  PROVE  \A i \in 0 .. N : i \in S
<1> DEFINE T == {i \in 0 .. N : i \notin S}
<1> SUFFICES ASSUME T # {} PROVE FALSE
  OBVIOUS
<1>1. T \in SUBSET Nat
  OBVIOUS
<1>2. PICK n \in T : \A y \in T : n <= y
  <2> HIDE DEF T
  <2> QED BY <1>1, LeastElement
<1>3. n \in 1 .. N /\ n - 1 \in 0 .. N
  BY <1>2
<1>4. n - 1 \notin T
  BY <1>2, <1>3
<1> QED
  BY <1>2, <1>3, <1>4

\* f solves the equation of UpTo for the first n messages.
IsUpTo(f, n) ==
  f = [i \in 0 .. n |-> IF i = 0 THEN <<>> ELSE f[i - 1] \o In!Cells(Msgs[i])]

\* A message is one of the stream's.
LEMMA MsgType == /\ Len(Msgs) \in Nat
                 /\ \A i \in 1 .. Len(Msgs) : Msgs[i] \in Range(Msgs)
<1>1. Msgs \in Seq(Range(Msgs))
  BY ConnConstants
<1> QED
  BY <1>1, SeqElements

\* The recursive equation of UpTo has a solution, so UpTo is one.
LEMMA UpToExists == \A n \in 0 .. Len(Msgs) : \E f : IsUpTo(f, n)
<1> DEFINE S == {n \in Nat : \E f : IsUpTo(f, n)}
<1>1. 0 \in S
  <2>1. IsUpTo([i \in 0 .. 0 |-> <<>>], 0)
    BY DEF IsUpTo
  <2> QED BY <2>1
<1>2. ASSUME NEW n \in 1 .. Len(Msgs), n - 1 \in S PROVE n \in S
  <2>1. n \in Nat \ {0}
    BY MsgType
  <2>2. PICK f : IsUpTo(f, n - 1)
    BY <1>2
  <2> DEFINE e(i) == IF i = 0 THEN <<>> ELSE f[i - 1] \o In!Cells(Msgs[i])
  <2>3. \A i \in 0 .. n - 1 : f[i] = e(i)
    <3>1. f = [i \in 0 .. n - 1 |-> e(i)]
      BY Zenon, <2>2 DEF IsUpTo
    <3> HIDE DEF e
    <3> QED BY <3>1
  <2> DEFINE g == [i \in 0 .. n |-> IF i = n THEN e(n) ELSE f[i]]
  <2>4. \A i \in 0 .. n : g[i] = e(i)
    <3> HIDE DEF e
    <3> QED BY <2>1, <2>3
  <2>5. \A i \in 0 .. n : i # 0 => g[i - 1] = f[i - 1]
    <3> HIDE DEF e
    <3> QED BY <2>1, <2>3
  <2>6. g = [i \in 0 .. n |-> g[i]]
    <3> HIDE DEF e
    <3> QED OBVIOUS
  <2> HIDE DEF g
  <2>7. \A i \in 0 .. n : g[i] = IF i = 0 THEN <<>> ELSE g[i - 1] \o In!Cells(Msgs[i])
    BY Zenon, <2>4, <2>5
  <2>8. IsUpTo(g, n)
    BY Zenon, <2>6, <2>7 DEF IsUpTo
  <2> QED BY <2>1, <2>8
<1> QED
  <2> HIDE DEF S
  <2>1. \A i \in 0 .. Len(Msgs) : i \in S
    BY Zenon, <1>1, <1>2, MsgType, IntervalInduction
  <2> QED BY Zenon, <2>1 DEF S

\* UpTo adds the cells of one message after the other.
LEMMA UpToDef ==
  /\ In!UpTo[0] = <<>>
  /\ \A i \in 1 .. Len(Msgs) : In!UpTo[i] = In!UpTo[i - 1] \o In!Cells(Msgs[i])
<1>0. Len(Msgs) \in Nat
  BY MsgType
<1>1. PICK f : IsUpTo(f, Len(Msgs))
  BY <1>0, UpToExists
<1>2. IsUpTo(In!UpTo, Len(Msgs))
  BY Zenon, <1>1 DEF In!UpTo, IsUpTo
<1> DEFINE e(i) == IF i = 0 THEN <<>> ELSE In!UpTo[i - 1] \o In!Cells(Msgs[i])
<1>3. \A i \in 0 .. Len(Msgs) : In!UpTo[i] = e(i)
  <2>1. In!UpTo = [i \in 0 .. Len(Msgs) |-> e(i)]
    BY Zenon, <1>2 DEF IsUpTo
  <2> HIDE DEF e
  <2> QED BY <2>1
<1>4. 0 \in 0 .. Len(Msgs) /\ \A i \in 1 .. Len(Msgs) : i # 0 /\ i \in 0 .. Len(Msgs)
  BY <1>0
<1> QED
  BY Zenon, <1>3, <1>4

\* The cells of a message.
LEMMA CellsType ==
  ASSUME NEW m \in Range(Msgs)
  PROVE  /\ In!Cells(m) \in Seq(Cell)
         /\ Len(In!Cells(m)) = SizeOf[m]
         /\ \A k \in 1 .. SizeOf[m] : In!Cells(m)[k] = <<m, k>>
<1>1. SizeOf[m] \in Nat
  BY ConnConstants
<1>2. In!Cells(m) = [k \in 1 .. SizeOf[m] |-> <<m, k>>]
  BY DEF In!Cells
<1>3. \A k \in 1 .. SizeOf[m] : <<m, k>> \in Cell
  BY <1>1 DEF Cell
<1>4. In!Cells(m) \in [1 .. SizeOf[m] -> Cell]
  BY <1>2, <1>3
<1>5. In!Cells(m) \in Seq(Cell) /\ Len(In!Cells(m)) = SizeOf[m]
  BY Zenon, <1>1, <1>4, MadeSeq
<1> QED
  BY Zenon, <1>2, <1>5

\* UpTo is a sequence of cells.
LEMMA UpToType == \A i \in 0 .. Len(Msgs) : In!UpTo[i] \in Seq(Cell)
<1> DEFINE S == {i \in Nat : In!UpTo[i] \in Seq(Cell)}
<1>1. 0 \in S
  <2>1. In!UpTo[0] \in Seq(Cell)
    BY UpToDef, NoElements, Zenon
  <2> QED BY <2>1
<1>2. ASSUME NEW i \in 1 .. Len(Msgs), i - 1 \in S PROVE i \in S
  <2>1. In!Cells(Msgs[i]) \in Seq(Cell)
    BY MsgType, CellsType, Zenon
  <2>2. In!UpTo[i - 1] \o In!Cells(Msgs[i]) \in Seq(Cell)
    BY <1>2, <2>1, Concat, Zenon
  <2>3. In!UpTo[i] \in Seq(Cell)
    BY <2>2, UpToDef, Zenon
  <2> QED BY <2>3, MsgType
<1> QED
  <2> HIDE DEF S
  <2>1. \A i \in 0 .. Len(Msgs) : i \in S
    BY Zenon, <1>1, <1>2, MsgType, IntervalInduction
  <2> QED BY Zenon, <2>1 DEF S

\* Where messages end in the stream.
LEMMA EndDef ==
  /\ End(0) = 0
  /\ \A i \in 0 .. Len(Msgs) : End(i) \in Nat
  /\ \A i \in 1 .. Len(Msgs) : End(i) = End(i - 1) + SizeOf[Msgs[i]]
<1>1. End(0) = 0
  BY UpToDef, NoElements, Zenon DEF End
<1>2. \A i \in 0 .. Len(Msgs) : End(i) \in Nat
  BY UpToType, SeqElements, Zenon DEF End
<1>3. ASSUME NEW i \in 1 .. Len(Msgs)
      PROVE  End(i) = End(i - 1) + SizeOf[Msgs[i]]
  <2>1. i - 1 \in 0 .. Len(Msgs)
    BY MsgType
  <2>2. In!UpTo[i] = In!UpTo[i - 1] \o In!Cells(Msgs[i])
    BY UpToDef, Zenon
  <2>3. In!UpTo[i - 1] \in Seq(Cell)
    BY <2>1, UpToType, Zenon
  <2>4. In!Cells(Msgs[i]) \in Seq(Cell) /\ Len(In!Cells(Msgs[i])) = SizeOf[Msgs[i]]
    BY MsgType, CellsType, Zenon
  <2>5. Len(In!UpTo[i - 1] \o In!Cells(Msgs[i])) = Len(In!UpTo[i - 1]) + Len(In!Cells(Msgs[i]))
    <3> DEFINE a == In!UpTo[i - 1]
               b == In!Cells(Msgs[i])
    <3>1. a \in Seq(Cell) /\ b \in Seq(Cell)
      BY <2>3, <2>4
    <3> HIDE DEF a, b
    <3>2. Len(a \o b) = Len(a) + Len(b)
      BY <3>1
    <3> QED BY Zenon, <3>2 DEF a, b
  <2> QED BY Zenon, <2>2, <2>4, <2>5 DEF End
<1> QED
  BY <1>1, <1>2, <1>3, Zenon

\* Messages have a header at least, so they end one after the other.
LEMMA EndMonotonic ==
  \A i, j \in 0 .. Len(Msgs) : i < j => End(i) < End(j)
<1> SUFFICES ASSUME NEW i \in 0 .. Len(Msgs)
             PROVE  \A j \in 0 .. Len(Msgs) : i < j => End(i) < End(j)
  OBVIOUS
<1> DEFINE S == {j \in Nat : i < j => End(i) < End(j)}
<1>0. Len(Msgs) \in Nat
  BY MsgType
<1>1. 0 \in S
  BY <1>0
<1>2. ASSUME NEW j \in 1 .. Len(Msgs), j - 1 \in S PROVE j \in S
  <2>1. End(j) = End(j - 1) + SizeOf[Msgs[j]] /\ SizeOf[Msgs[j]] \in Nat \ {0}
    BY EndDef, MsgType, ConnConstants
  <2>2. j \in Nat /\ End(i) \in Nat /\ End(j - 1) \in Nat
    BY <1>0, EndDef
  <2>3. i < j => i = j - 1 \/ i < j - 1
    BY <1>0
  <2>4. i = j - 1 => End(i) = End(j - 1)
    OBVIOUS
  <2> QED BY <1>2, <2>1, <2>2, <2>3, <2>4
<1> QED
  <2> HIDE DEF S
  <2>1. \A j \in 0 .. Len(Msgs) : j \in S
    BY Zenon, <1>1, <1>2, <1>0, IntervalInduction
  <2> QED BY Zenon, <2>1 DEF S

\* What is sent first stays first.
LEMMA UpToExtends ==
  ASSUME NEW i \in 0 .. Len(Msgs), NEW p \in 1 .. End(i)
  PROVE  \A j \in 0 .. Len(Msgs) : i <= j => In!UpTo[j][p] = In!UpTo[i][p]
<1> DEFINE S == {j \in Nat : i <= j => In!UpTo[j][p] = In!UpTo[i][p]}
<1>0. Len(Msgs) \in Nat
  BY MsgType
<1>1. 0 \in S
  <2>1. i <= 0 => i = 0
    BY <1>0
  <2> QED BY <2>1
<1>2. ASSUME NEW j \in 1 .. Len(Msgs), j - 1 \in S PROVE j \in S
  <2>1. CASE i <= j - 1
    <3>1. In!UpTo[j - 1][p] = In!UpTo[i][p]
      BY <1>2, <2>1
    <3>0. j - 1 \in 0 .. Len(Msgs) /\ (i = j - 1 \/ i < j - 1)
      BY <1>0, <2>1
    <3>2. End(i) = End(j - 1) \/ End(i) < End(j - 1)
      BY Zenon, <3>0, EndMonotonic
    <3>3. p \in 1 .. Len(In!UpTo[j - 1])
      <4>1. End(i) \in Nat /\ End(j - 1) \in Nat
        BY Zenon, <3>0, EndDef
      <4>2. p \in 1 .. End(j - 1)
        BY <3>2, <4>1
      <4> QED BY Zenon, <4>2 DEF End
    <3>4. In!UpTo[j - 1] \in Seq(Cell) /\ In!Cells(Msgs[j]) \in Seq(Cell)
      <4>1. j - 1 \in 0 .. Len(Msgs)
        BY <1>0
      <4> QED BY <4>1, UpToType, MsgType, CellsType, Zenon
    <3>5. (In!UpTo[j - 1] \o In!Cells(Msgs[j]))[p] = In!UpTo[j - 1][p]
      <4> DEFINE a == In!UpTo[j - 1]
                 b == In!Cells(Msgs[j])
      <4>1. a \in Seq(Cell) /\ b \in Seq(Cell) /\ p \in 1 .. Len(a)
        BY <3>3, <3>4
      <4> HIDE DEF a, b
      <4>2. (a \o b)[p] = a[p]
        BY <4>1
      <4> QED BY Zenon, <4>2 DEF a, b
    <3>6. In!UpTo[j][p] = In!UpTo[j - 1][p]
      BY <3>5, UpToDef, Zenon
    <3> QED BY <1>0, <3>1, <3>6
  <2>2. CASE ~(i <= j - 1)
    <3>1. i <= j => i = j
      BY <1>0, <2>2
    <3> QED BY <1>0, <3>1
  <2> QED BY <2>1, <2>2
<1> QED
  <2> HIDE DEF S
  <2>1. \A j \in 0 .. Len(Msgs) : j \in S
    BY Zenon, <1>1, <1>2, <1>0, IntervalInduction
  <2> QED BY Zenon, <2>1 DEF S

\* The cells of the stream: those of message i lie behind the end of the one before.
LEMMA FullCells ==
  /\ Full \in Seq(Cell)
  /\ Len(Full) = End(Len(Msgs))
  /\ \A i \in 1 .. Len(Msgs) : \A k \in 1 .. SizeOf[Msgs[i]] :
       Full[End(i - 1) + k] = <<Msgs[i], k>>
<1>0. Len(Msgs) \in Nat
  BY MsgType
<1>1. Full \in Seq(Cell) /\ Len(Full) = End(Len(Msgs))
  BY <1>0, UpToType DEF Full, End
<1>2. ASSUME NEW i \in 1 .. Len(Msgs), NEW k \in 1 .. SizeOf[Msgs[i]]
      PROVE  Full[End(i - 1) + k] = <<Msgs[i], k>>
  <2>1. i \in 0 .. Len(Msgs) /\ i - 1 \in 0 .. Len(Msgs) /\ End(i - 1) \in Nat
    BY <1>0, EndDef
  <2>2. SizeOf[Msgs[i]] \in Nat /\ End(i) = End(i - 1) + SizeOf[Msgs[i]]
    BY MsgType, EndDef, ConnConstants
  <2>3. End(i - 1) + k \in 1 .. End(i)
    BY <2>1, <2>2
  <2>4. Full[End(i - 1) + k] = In!UpTo[i][End(i - 1) + k]
    <3>1. Len(Msgs) \in 0 .. Len(Msgs) /\ i <= Len(Msgs)
      BY <1>0
    <3> QED BY <2>1, <2>3, <3>1, UpToExtends, Zenon DEF Full
  <2>5. /\ In!UpTo[i] = In!UpTo[i - 1] \o In!Cells(Msgs[i])
        /\ In!UpTo[i - 1] \in Seq(Cell) /\ In!Cells(Msgs[i]) \in Seq(Cell)
        /\ Len(In!Cells(Msgs[i])) = SizeOf[Msgs[i]]
    BY <2>1, UpToDef, UpToType, MsgType, CellsType, Zenon
  <2>6. (In!UpTo[i - 1] \o In!Cells(Msgs[i]))[End(i - 1) + k] = In!Cells(Msgs[i])[k]
    <3> DEFINE a == In!UpTo[i - 1]
               b == In!Cells(Msgs[i])
    <3>1. a \in Seq(Cell) /\ b \in Seq(Cell) /\ Len(a) = End(i - 1) /\ k \in 1 .. Len(b)
      BY <2>5 DEF End
    <3> HIDE DEF a, b
    <3>2. (a \o b)[Len(a) + k] = b[k]
      BY SMTT(30), <3>1
    <3> QED BY Zenon, <3>1, <3>2 DEF a, b
  <2> QED BY <2>4, <2>5, <2>6, MsgType, CellsType, Zenon
<1> QED
  BY <1>1, <1>2, Zenon
-----------------------------------------------------------------------------
\* The position of curr_proc_buf in the stream.
LEMMA DoneType ==
  ASSUME RecvInv
  PROVE  /\ Len(taken) \in 0 .. Len(Msgs)
         /\ End(Len(taken)) \in Nat
         /\ BUF_SIZE \in Nat /\ recv \in Nat /\ proc \in Nat /\ space \in Nat
         /\ Len(stream) \in Nat /\ Len(Full) \in Nat
         /\ Len(req_list) \in Nat /\ DOMAIN req_list = 1 .. Len(req_list)
<1>1. taken \in Seq(Range(Msgs)) /\ Len(taken) <= Len(Msgs)
  BY DEF RecvInv, RecvType, Framed
<1>2. Len(taken) \in 0 .. Len(Msgs)
  BY <1>1, MsgType
<1>3. End(Len(taken)) \in Nat
  BY <1>2, EndDef, Zenon
<1>4. BUF_SIZE \in Nat /\ Len(Full) \in Nat
  BY ConnConstants, FullCells
<1>5. /\ recv \in Nat /\ proc \in Nat /\ space \in Nat
      /\ stream \in Seq(Cell) /\ req_list \in Seq([msg : Range(Msgs), ptr : Nat])
  BY DEF RecvInv, RecvType
<1>6. Len(stream) \in Nat /\ Len(req_list) \in Nat /\ DOMAIN req_list = 1 .. Len(req_list)
  BY <1>5
<1> QED
  BY <1>2, <1>3, <1>4, <1>5, <1>6

\* A request of the list.
LEMMA ReqType ==
  ASSUME RecvType, NEW i \in DOMAIN req_list
  PROVE  /\ req_list[i].msg \in Range(Msgs)
         /\ req_list[i].ptr \in Nat
         /\ SizeOf[req_list[i].msg] \in Nat \ {0}
         /\ ReqEnd(i) \in Nat
<1>1. req_list[i] \in [msg : Range(Msgs), ptr : Nat]
  <2>1. req_list \in Seq([msg : Range(Msgs), ptr : Nat])
    BY DEF RecvType
  <2>2. DOMAIN req_list = 1 .. Len(req_list)
    BY Zenon, <2>1, SeqElements
  <2> QED BY Zenon, <2>1, <2>2, SeqElements
<1>2. SizeOf[req_list[i].msg] \in Nat \ {0}
  BY <1>1, ConnConstants
<1> QED
  BY <1>1, <1>2 DEF ReqEnd

\* Nothing is received or obtained at first.
LEMMA InitRecv == In!Init => RecvInv
<1> SUFFICES ASSUME In!Init PROVE RecvInv
  OBVIOUS
<1>1. stream = Full /\ recv = 0 /\ proc = 0 /\ space = BUF_SIZE /\ req_list = <<>>
      /\ taken = <<>> /\ pc = "poll"
      /\ recv_buf = [k \in 0 .. BUF_SIZE - 1 |-> In!Empty]
  BY DEF In!Init, Full
<1>2. Len(taken) = 0 /\ End(0) = 0 /\ Len(Msgs) \in Nat
  BY <1>1, EndDef, MsgType
<1>3. RecvType
  <2>1. enable_defrag \in BOOLEAN /\ answers \subseteq Range(Msgs)
    BY ConnConstants DEF In!Init
  <2> QED BY <1>1, <2>1, FullCells, ConnConstants DEF RecvType
<1>4. Framed
  <2>1. taken = SubSeq(Msgs, 1, Len(taken))
    BY <1>1, <1>2, ConnConstants
  <2>2. Len(Full) \in Nat /\ BUF_SIZE \in Nat
    BY FullCells, ConnConstants
  <2> QED BY <1>1, <1>2, <2>1, <2>2 DEF Framed
<1>5. Apart /\ In!RequestsIntact
  BY <1>1 DEF Apart, In!RequestsIntact
<1> QED
  BY <1>3, <1>4, <1>5 DEF RecvInv

\* Steps that only move the worker on.
LEMMA RecvFrame ==
  ASSUME RecvInv, pc' \in {"poll", "obtain", "closed"},
         UNCHANGED <<enable_defrag, answers, stream, recv_buf, recv, space, proc, req_list, taken>>
  PROVE  RecvInv'
<1>1. RecvType'
  BY DEF RecvInv, RecvType
<1>2. Framed'
  BY DEF RecvInv, Framed
<1>3. Apart'
  BY DEF RecvInv, Apart, ReqEnd
<1>4. In!RequestsIntact'
  BY Zenon DEF RecvInv, In!RequestsIntact
<1> QED
  BY <1>1, <1>2, <1>3, <1>4 DEF RecvInv

\* conn_recv() continues the stream behind curr_recv_buf.
LEMMA RecvStep ==
  ASSUME RecvInv, NEW n, In!conn_recv(n)
  PROVE  RecvInv'
<1>0. /\ End(Len(taken)) \in Nat
      /\ BUF_SIZE \in Nat /\ recv \in Nat /\ proc \in Nat /\ space \in Nat
      /\ Len(stream) \in Nat /\ Len(Full) \in Nat
  BY Zenon, DoneType
<1>1. /\ n \in 1 .. Len(stream) /\ n <= space
      /\ recv_buf' = [k \in DOMAIN recv_buf |->
                    IF k \in recv .. recv + n - 1 THEN stream[k - recv + 1] ELSE recv_buf[k]]
      /\ recv' = recv + n /\ space' = space - n
      /\ stream' = SubSeq(stream, n + 1, Len(stream))
      /\ pc' = "obtain"
      /\ UNCHANGED <<enable_defrag, answers, proc, req_list, taken>>
  BY DEF In!conn_recv
<1>2. stream \in Seq(Cell) /\ n \in Nat /\ n >= 1 /\ n <= Len(stream)
  BY <1>0, <1>1 DEF RecvInv, RecvType
<1>3. /\ stream' \in Seq(Cell) /\ Len(stream') = Len(stream) - n
      /\ \A k \in 1 .. Len(stream) - n : stream'[k] = stream[n + k]
  <2>1. stream' = SubSeq(stream, n + 1, Len(stream))
    BY <1>1
  <2> QED BY Zenon, <1>2, <2>1, Suffix
<1>4. proc <= recv /\ recv + space = BUF_SIZE
  BY DEF RecvInv, Framed
<1>5. recv_buf \in [0 .. BUF_SIZE - 1 -> Cell \cup {In!Empty}]
  BY DEF RecvInv, RecvType
<1>6. /\ DOMAIN recv_buf = 0 .. BUF_SIZE - 1
      /\ \A k \in 0 .. recv - 1 : recv_buf'[k] = recv_buf[k]
      /\ \A k \in 1 .. n : recv_buf'[recv + k - 1] = stream[k]
  <2>1. DOMAIN recv_buf = 0 .. BUF_SIZE - 1
    BY <1>5
  <2>2. \A k \in 0 .. BUF_SIZE - 1 : recv_buf'[k] =
          IF k \in recv .. recv + n - 1 THEN stream[k - recv + 1] ELSE recv_buf[k]
    BY <1>1, <2>1
  <2>3. \A k \in 0 .. recv - 1 : k \in 0 .. BUF_SIZE - 1 /\ k \notin recv .. recv + n - 1
    BY <1>0, <1>4
  <2>4. \A k \in 1 .. n : /\ recv + k - 1 \in 0 .. BUF_SIZE - 1
                          /\ recv + k - 1 \in recv .. recv + n - 1
                          /\ (recv + k - 1) - recv + 1 = k
    BY <1>0, <1>1, <1>2, <1>4
  <2>5. \A k \in 0 .. recv - 1 : recv_buf'[k] = recv_buf[k]
    BY Zenon, <2>2, <2>3
  <2>6. \A k \in 1 .. n : recv_buf'[recv + k - 1] = stream[k]
    BY Zenon, <2>2, <2>4
  <2> QED BY <2>1, <2>5, <2>6
<1>7. RecvType'
  <2>1. \A k \in recv .. recv + n - 1 : stream[k - recv + 1] \in Cell
    BY <1>0, <1>2
  <2>2. recv_buf' \in [0 .. BUF_SIZE - 1 -> Cell \cup {In!Empty}]
    BY <1>1, <1>5, <2>1
  <2>3. recv' \in Nat /\ space' \in Nat
    BY SMTT(30), <1>0, <1>1, <1>2
  <2> QED BY <1>1, <1>3, <2>2, <2>3 DEF RecvInv, RecvType
<1>8. Framed'
  <2> DEFINE done == End(Len(taken))
  <2>1. done \in Nat /\ End(Len(taken))' = done
    BY <1>0, <1>1 DEF End
  <2>2. /\ done + (recv - proc) + Len(stream) = Len(Full)
        /\ \A k \in 1 .. recv - proc : recv_buf[proc + k - 1] = Full[done + k]
        /\ \A k \in 1 .. Len(stream) : stream[k] = Full[done + (recv - proc) + k]
        /\ Len(taken) <= Len(Msgs) /\ taken = SubSeq(Msgs, 1, Len(taken))
    BY DEF RecvInv, Framed
  <2> HIDE DEF done
  <2>0. recv' - proc' = recv + n - proc /\ proc' = proc /\ Len(stream') = Len(stream) - n
    <3>1. recv' = recv + n /\ proc' = proc
      BY <1>1
    <3>2. recv' - proc' = recv + n - proc
      BY <1>0, <1>2, <3>1
    <3> QED BY <1>3, <3>1, <3>2
  <2>3. done + (recv' - proc') + Len(stream') = Len(Full)
    <3>1. done + (recv + n - proc) + (Len(stream) - n) = done + (recv - proc) + Len(stream)
      BY <1>0, <1>2, <2>1
    <3> QED BY Zenon, <2>0, <2>2, <3>1
  <2>4. \A k \in 1 .. recv' - proc' : recv_buf'[proc' + k - 1] = Full[done + k]
    <3> SUFFICES ASSUME NEW k \in 1 .. recv + n - proc
                 PROVE  recv_buf'[proc + k - 1] = Full[done + k]
      BY Zenon, <2>0
    <3>1. CASE k <= recv - proc
      <4>1. k \in 1 .. recv - proc /\ proc + k - 1 \in 0 .. recv - 1
        BY <1>0, <1>2, <1>4, <3>1
      <4> QED BY Zenon, <1>6, <2>2, <4>1
    <3>2. CASE k > recv - proc
      <4> DEFINE j == k - (recv - proc)
      <4>1. j \in 1 .. n /\ proc + k - 1 = recv + j - 1 /\ done + (recv - proc) + j = done + k
            /\ j \in 1 .. Len(stream)
        BY <1>0, <1>2, <1>4, <2>1, <3>2
      <4> HIDE DEF j
      <4>2. recv_buf'[recv + j - 1] = Full[done + (recv - proc) + j]
        BY Zenon, <1>6, <2>2, <4>1
      <4> QED BY <4>1, <4>2
    <3> QED BY <1>0, <1>2, <1>4, <3>1, <3>2
  <2>5. \A k \in 1 .. Len(stream') : stream'[k] = Full[done + (recv' - proc') + k]
    <3> SUFFICES ASSUME NEW k \in 1 .. Len(stream) - n
                 PROVE  stream'[k] = Full[done + (recv + n - proc) + k]
      BY Zenon, <2>0
    <3>1. n + k \in 1 .. Len(stream) /\ stream'[k] = stream[n + k]
      BY <1>0, <1>2, <1>3
    <3>2. done + (recv - proc) + (n + k) = done + (recv + n - proc) + k
      BY <1>0, <1>2, <2>1
    <3> QED BY Zenon, <2>2, <3>1, <3>2
  <2>6. proc' <= recv' /\ recv' + space' = BUF_SIZE
    BY <1>0, <1>1, <1>2, <1>4
  <2>7. Len(taken') <= Len(Msgs) /\ taken' = SubSeq(Msgs, 1, Len(taken'))
    BY <1>1, <2>2
  <2> QED BY <2>1, <2>3, <2>4, <2>5, <2>6, <2>7 DEF Framed
<1>9. Apart'
  BY <1>1 DEF RecvInv, Apart, ReqEnd
<1>10. In!RequestsIntact'
  <2> SUFFICES ASSUME NEW r \in DOMAIN req_list, NEW k \in 1 .. SizeOf[req_list[r].msg]
               PROVE  recv_buf'[req_list[r].ptr + k - 1] = <<req_list[r].msg, k>>
    BY ZenonT(30), <1>1 DEF In!RequestsIntact
  <2>1. recv_buf[req_list[r].ptr + k - 1] = <<req_list[r].msg, k>>
    BY Zenon DEF RecvInv, In!RequestsIntact
  <2>2. req_list[r].ptr \in Nat /\ SizeOf[req_list[r].msg] \in Nat
        /\ req_list[r].ptr + SizeOf[req_list[r].msg] <= proc
    BY ReqType DEF RecvInv, Apart, ReqEnd
  <2>3. req_list[r].ptr + k - 1 \in 0 .. recv - 1
    BY SMTT(30), <1>0, <1>4, <2>2
  <2> QED BY Zenon, <1>6, <2>1, <2>3
<1> QED
  BY <1>7, <1>8, <1>9, <1>10 DEF RecvInv

\* The next message is the one after the last one obtained.
LEMMA NextMessage ==
  ASSUME RecvInv, proc < recv
  PROVE  /\ Len(taken) + 1 \in 1 .. Len(Msgs)
         /\ recv_buf[proc] = <<Msgs[Len(taken) + 1], 1>>
         /\ End(Len(taken) + 1) = End(Len(taken)) + SizeOf[Msgs[Len(taken) + 1]]
         /\ SizeOf[Msgs[Len(taken) + 1]] \in Nat \ {0}
<1> DEFINE t == Len(taken)
<1>0. /\ t \in 0 .. Len(Msgs) /\ End(t) \in Nat
      /\ recv \in Nat /\ proc \in Nat /\ Len(stream) \in Nat /\ Len(Full) \in Nat
  BY Zenon, DoneType
<1>1. /\ End(t) + (recv - proc) + Len(stream) = Len(Full)
      /\ \A k \in 1 .. recv - proc : recv_buf[proc + k - 1] = Full[End(t) + k]
  BY DEF RecvInv, Framed
<1> HIDE DEF t
<1>2. Len(Msgs) \in Nat /\ Len(Full) = End(Len(Msgs))
  BY MsgType, FullCells
<1>3. t # Len(Msgs)
  <2>1. End(t) < End(Len(Msgs))
    BY <1>0, <1>1, <1>2
  <2> QED BY <1>0, <1>2, <2>1
<1>4. t + 1 \in 1 .. Len(Msgs) /\ (t + 1) - 1 = t
  BY <1>0, <1>2, <1>3
<1>5. SizeOf[Msgs[t + 1]] \in Nat \ {0}
  BY <1>4, MsgType, ConnConstants
<1>6. End(t + 1) = End(t) + SizeOf[Msgs[t + 1]]
  BY Zenon, <1>4, EndDef
<1>7. Full[End(t) + 1] = <<Msgs[t + 1], 1>>
  <2>1. 1 \in 1 .. SizeOf[Msgs[t + 1]]
    BY <1>5
  <2> QED BY Zenon, <1>4, <2>1, FullCells
<1>8. 1 \in 1 .. recv - proc /\ proc + 1 - 1 = proc
  BY <1>0
<1>9. recv_buf[proc] = Full[End(t) + 1]
  BY Zenon, <1>1, <1>8
<1> QED
  BY <1>4, <1>5, <1>6, <1>7, <1>9 DEF t

\* The cells of a complete message are all there.
LEMMA NextCells ==
  ASSUME RecvInv, In!Complete
  PROVE  LET m == Msgs[Len(taken) + 1] IN
         /\ proc < recv
         /\ proc + SizeOf[m] <= recv
         /\ \A k \in 1 .. SizeOf[m] : recv_buf[proc + k - 1] = <<m, k>>
<1> DEFINE t == Len(taken)
           m == Msgs[t + 1]
<1>1. proc < recv
  BY DEF In!Complete
<1>2. /\ t + 1 \in 1 .. Len(Msgs) /\ recv_buf[proc] = <<m, 1>>
      /\ SizeOf[m] \in Nat \ {0}
  BY Zenon, <1>1, NextMessage
<1>3. recv_buf[proc][1] = m
  BY <1>2
<1>4. proc + SizeOf[m] <= recv
  <2> HIDE DEF m
  <2> QED BY <1>3 DEF In!Complete
<1>5. recv \in Nat /\ proc \in Nat /\ t \in 0 .. Len(Msgs)
  BY Zenon, DoneType
<1>6. ASSUME NEW k \in 1 .. SizeOf[m] PROVE recv_buf[proc + k - 1] = <<m, k>>
  <2>1. k \in 1 .. recv - proc
    <3> HIDE DEF m
    <3> QED BY <1>2, <1>4, <1>5
  <2>2. recv_buf[proc + k - 1] = Full[End(t) + k]
    BY <2>1 DEF RecvInv, Framed
  <2>3. (t + 1) - 1 = t
    BY <1>5, MsgType
  <2>4. Full[End(t) + k] = <<m, k>>
    BY Zenon, <1>2, <2>3, FullCells
  <2> QED BY Zenon, <2>2, <2>4
<1> QED
  BY Zenon, <1>1, <1>4, <1>6

\* obtain_messages() takes the message at curr_proc_buf off the stream.
LEMMA ObtainStep ==
  ASSUME RecvInv, In!Obtain
  PROVE  /\ RecvInv'
         /\ taken' = Append(taken, Msgs[Len(taken) + 1])
         /\ Len(taken) + 1 \in 1 .. Len(Msgs)
<1> DEFINE t == Len(taken)
           m == Msgs[t + 1]
           s == SizeOf[m]
<1>1. In!Complete
  BY DEF In!Obtain
<1>2. /\ proc < recv /\ proc + s <= recv
      /\ \A k \in 1 .. s : recv_buf[proc + k - 1] = <<m, k>>
  BY Zenon, <1>1, NextCells
<1>3. /\ t + 1 \in 1 .. Len(Msgs) /\ recv_buf[proc] = <<m, 1>> /\ s \in Nat \ {0}
      /\ End(t + 1) = End(t) + s
  BY Zenon, <1>2, NextMessage
<1>4. recv_buf[proc][1] = m /\ m \in Range(Msgs)
  BY <1>3, MsgType
<1>5. /\ proc' = proc + s
      /\ taken' = Append(taken, m)
      /\ req_list' = IF m \in answers THEN req_list
                     ELSE <<[msg |-> m, ptr |-> proc]>> \o req_list
      /\ UNCHANGED <<enable_defrag, answers, stream, recv_buf, recv, space, pc>>
  <2> HIDE DEF m
  <2> QED BY <1>4 DEF In!Obtain
<1>6. /\ t \in 0 .. Len(Msgs) /\ End(t) \in Nat
      /\ BUF_SIZE \in Nat /\ recv \in Nat /\ proc \in Nat /\ space \in Nat
      /\ Len(stream) \in Nat /\ Len(Full) \in Nat
      /\ Len(req_list) \in Nat /\ DOMAIN req_list = 1 .. Len(req_list)
  BY Zenon, DoneType
<1>7. Len(Msgs) \in Nat /\ Msgs \in Seq(Range(Msgs))
  BY MsgType, ConnConstants
<1>8. /\ taken \in Seq(Range(Msgs)) /\ taken = SubSeq(Msgs, 1, t)
      /\ req_list \in Seq([msg : Range(Msgs), ptr : Nat])
  BY DEF RecvInv, RecvType, Framed
<1>9. taken' \in Seq(Range(Msgs)) /\ Len(taken') = t + 1
  <2> HIDE DEF m
  <2> QED BY <1>4, <1>5, <1>8
<1>10. taken' = SubSeq(Msgs, 1, t + 1)
  <2>1. t \in Nat /\ t + 1 <= Len(Msgs)
    BY <1>3, <1>6, <1>7
  <2>2. SubSeq(Msgs, 1, t + 1) = Append(SubSeq(Msgs, 1, t), Msgs[t + 1])
    BY Zenon, <1>7, <2>1, OneMore
  <2> QED BY Zenon, <1>5, <1>8, <2>2
<1>11. ASSUME m \notin answers
       PROVE  /\ req_list' \in Seq([msg : Range(Msgs), ptr : Nat])
              /\ Len(req_list') = Len(req_list) + 1
              /\ req_list'[1] = [msg |-> m, ptr |-> proc]
              /\ \A i \in 2 .. Len(req_list) + 1 : req_list'[i] = req_list[i - 1]
  <2> DEFINE q == [msg |-> m, ptr |-> proc]
  <2>1. q \in [msg : Range(Msgs), ptr : Nat]
    BY <1>4, <1>6
  <2>2. req_list' = <<q>> \o req_list
    BY <1>5, <1>11
  <2> HIDE DEF q
  <2>3. <<q>> \in Seq([msg : Range(Msgs), ptr : Nat])
    BY <2>1
  <2>4. /\ <<q>> \o req_list \in Seq([msg : Range(Msgs), ptr : Nat])
        /\ Len(<<q>> \o req_list) = Len(req_list) + 1
        /\ (<<q>> \o req_list)[1] = q
        /\ \A i \in 2 .. Len(req_list) + 1 : (<<q>> \o req_list)[i] = req_list[i - 1]
    BY <1>8, <2>3
  <2> QED BY Zenon, <2>2, <2>4 DEF q
<1> HIDE DEF t, m, s
<1>12. RecvType'
  <2>1. req_list' \in Seq([msg : Range(Msgs), ptr : Nat])
    BY Zenon, <1>5, <1>8, <1>11
  <2>2. proc' \in Nat
    BY <1>3, <1>5, <1>6
  <2> QED BY Zenon, <1>5, <1>9, <2>1, <2>2 DEF RecvInv, RecvType
<1>13. Framed'
  <2>1. /\ End(t) + (recv - proc) + Len(stream) = Len(Full)
        /\ \A k \in 1 .. recv - proc : recv_buf[proc + k - 1] = Full[End(t) + k]
        /\ \A k \in 1 .. Len(stream) : stream[k] = Full[End(t) + (recv - proc) + k]
        /\ recv + space = BUF_SIZE
    BY DEF RecvInv, Framed, t
  <2>2. /\ Len(taken)' = t + 1 /\ End(Len(taken))' = End(t + 1) /\ recv' = recv
        /\ proc' = proc + s /\ recv_buf' = recv_buf /\ stream' = stream /\ space' = space
    BY <1>5, <1>9 DEF End
  <2>3. /\ End(t + 1) + (recv - (proc + s)) + Len(stream) = Len(Full)
        /\ End(t + 1) + (recv - (proc + s)) = End(t) + (recv - proc)
    BY SMTT(30), <1>3, <1>6, <2>1
  <2>4. ASSUME NEW k \in 1 .. recv - (proc + s)
        PROVE  recv_buf[(proc + s) + k - 1] = Full[End(t + 1) + k]
    <3>1. /\ s + k \in 1 .. recv - proc /\ proc + (s + k) - 1 = (proc + s) + k - 1
          /\ End(t) + (s + k) = End(t + 1) + k
      BY SMTT(30), <1>3, <1>6
    <3> QED BY Zenon, <2>1, <3>1
  <2>5. t + 1 <= Len(Msgs) /\ proc + s <= recv
    BY <1>2, <1>3, <1>7
  <2>6. \A k \in 1 .. Len(stream) : stream[k] = Full[End(t + 1) + (recv - (proc + s)) + k]
    BY Zenon, <2>1, <2>3
  <2> QED BY Zenon, <1>10, <2>1, <2>2, <2>3, <2>4, <2>5, <2>6 DEF Framed
<1>14. \A i \in DOMAIN req_list : ReqEnd(i) <= proc /\ req_list[i].ptr \in Nat /\ ReqEnd(i) \in Nat
  BY ReqType DEF RecvInv, Apart
<1>15. Apart' /\ In!RequestsIntact'
  <2>1. CASE m \in answers
    <3>1. req_list' = req_list /\ recv_buf' = recv_buf
      BY <1>5, <2>1
    <3>2. \A i \in DOMAIN req_list : ReqEnd(i)' = ReqEnd(i)
      BY <3>1 DEF ReqEnd
    <3>3. \A i \in DOMAIN req_list : ReqEnd(i) <= proc'
      BY SMTT(30), <1>3, <1>5, <1>6, <1>14
    <3>4. Apart'
      BY <3>1, <3>2, <3>3 DEF RecvInv, Apart
    <3>5. In!RequestsIntact'
      BY Zenon, <3>1 DEF RecvInv, In!RequestsIntact
    <3> QED BY <3>4, <3>5
  <2>2. CASE m \notin answers
    <3>0. /\ Len(req_list') = Len(req_list) + 1
          /\ req_list'[1] = [msg |-> m, ptr |-> proc]
          /\ \A i \in 2 .. Len(req_list) + 1 : req_list'[i] = req_list[i - 1]
          /\ DOMAIN req_list' = 1 .. Len(req_list) + 1
      BY <1>11, <2>2
    <3>1. /\ req_list'[1].ptr = proc /\ req_list'[1].msg = m /\ ReqEnd(1)' = proc + s
          /\ proc' = proc + s /\ recv_buf' = recv_buf
      BY <1>5, <3>0 DEF ReqEnd, s
    <3>2. \A i \in DOMAIN req_list' : i # 1 => /\ i - 1 \in DOMAIN req_list
                                              /\ req_list'[i] = req_list[i - 1]
                                              /\ ReqEnd(i)' = ReqEnd(i - 1)
      BY <1>6, <3>0 DEF ReqEnd
    <3>3. \A i \in DOMAIN req_list' : ReqEnd(i)' <= proc'
      BY SMTT(30), <1>3, <1>6, <1>14, <3>1, <3>2
    <3>4. ASSUME NEW i \in DOMAIN req_list', NEW j \in DOMAIN req_list', i < j
          PROVE  ReqEnd(j)' <= req_list'[i].ptr
      <4>1. j # 1 /\ i \in Nat /\ j \in Nat
        BY <1>6, <3>0, <3>4
      <4>2. CASE i = 1
        BY Zenon, <1>14, <3>1, <3>2, <4>1, <4>2
      <4>3. CASE i # 1
        <5>1. i - 1 < j - 1
          BY <3>4, <4>1
        <5>2. ReqEnd(j - 1) <= req_list[i - 1].ptr
          BY <3>2, <4>1, <4>3, <5>1 DEF RecvInv, Apart
        <5> QED BY Zenon, <3>2, <4>1, <4>3, <5>2
      <4> QED BY <4>2, <4>3
    <3>5. Apart'
      BY Zenon, <3>3, <3>4 DEF Apart
    <3>6. ASSUME NEW i \in DOMAIN req_list', NEW k \in 1 .. SizeOf[req_list'[i].msg]
          PROVE  recv_buf'[req_list'[i].ptr + k - 1] = <<req_list'[i].msg, k>>
      <4>1. CASE i = 1
        BY Zenon, <1>2, <3>1, <3>6, <4>1 DEF s
      <4>2. CASE i # 1
        BY Zenon, <3>1, <3>2, <3>6, <4>2 DEF RecvInv, In!RequestsIntact
      <4> QED BY <4>1, <4>2
    <3>7. In!RequestsIntact'
      BY Zenon, <3>6 DEF In!RequestsIntact
    <3> QED BY <3>5, <3>7
  <2> QED BY <2>1, <2>2
<1>16. RecvInv'
  BY <1>12, <1>13, <1>15 DEF RecvInv
<1> QED
  BY Zenon, <1>3, <1>5, <1>16 DEF t, m

\* The list without request r: those before it, moved or not, and those behind.
LEMMA RemovedList ==
  ASSUME RecvInv, NEW r \in DOMAIN req_list, In!conn_req_remove(r)
  PROVE  LET s == SizeOf[req_list[r].msg]
             d == IF enable_defrag THEN s ELSE 0
         IN
         /\ req_list' \in Seq([msg : Range(Msgs), ptr : Nat])
         /\ Len(req_list') = Len(req_list) - 1
         /\ \A i \in 1 .. r - 1 : /\ req_list'[i].msg = req_list[i].msg
                                  /\ req_list'[i].ptr = req_list[i].ptr - d
         /\ \A i \in r .. Len(req_list) - 1 : req_list'[i] = req_list[i + 1]
<1> DEFINE Req == [msg : Range(Msgs), ptr : Nat]
           n == Len(req_list)
           s == SizeOf[req_list[r].msg]
           d == IF enable_defrag THEN s ELSE 0
           newer == In!Newer(r)
           older == SubSeq(req_list, r + 1, n)
<1>1. n \in Nat /\ r \in 1 .. n /\ DOMAIN req_list = 1 .. n
  BY Zenon, DoneType
<1>2. req_list \in Seq(Req) /\ enable_defrag \in BOOLEAN /\ RecvType
  BY DEF RecvInv, RecvType
<1>3. s \in Nat \ {0} /\ req_list[r].ptr \in Nat /\ ReqEnd(r) = req_list[r].ptr + s
  BY <1>2, ReqType DEF ReqEnd
<1>4. \A i \in 1 .. n :
        req_list[i] \in Req /\ req_list[i].msg \in Range(Msgs) /\ req_list[i].ptr \in Nat
  <2>1. \A i \in 1 .. n : req_list[i] \in Req
    BY Zenon, <1>2, SeqElements
  <2> QED BY <2>1
<1>5. \A i \in 1 .. r - 1 : i \in 1 .. n /\ i < r
  BY <1>1
<1>6. \A i \in 1 .. r - 1 : req_list[i].ptr - s \in Nat
  <2> SUFFICES ASSUME NEW i \in 1 .. r - 1 PROVE req_list[i].ptr - s \in Nat
    OBVIOUS
  <2>1. ReqEnd(r) <= req_list[i].ptr
    BY Zenon, <1>1, <1>5 DEF RecvInv, Apart
  <2>2. req_list[i].ptr \in Nat
    BY Zenon, <1>4, <1>5
  <2> HIDE DEF s
  <2> QED BY <1>3, <2>1, <2>2
<1>7. /\ newer \in Seq(Req) /\ Len(newer) = r - 1
      /\ \A i \in 1 .. r - 1 : /\ newer[i].msg = req_list[i].msg
                               /\ newer[i].ptr = req_list[i].ptr - d
  <2>1. CASE enable_defrag
    <3> DEFINE e(i) == [req_list[i] EXCEPT !.ptr = @ - s]
    <3>1. newer = [i \in 1 .. r - 1 |-> e(i)]
      BY <2>1 DEF In!Newer, In!Reclaims, In!MovePrev
    <3>2. ASSUME NEW i \in 1 .. r - 1
          PROVE  e(i) \in Req /\ e(i).msg = req_list[i].msg /\ e(i).ptr = req_list[i].ptr - d
      <4>1. req_list[i] \in Req /\ req_list[i].ptr - s \in Nat
        BY Zenon, <1>4, <1>5, <1>6
      <4>2. d = s
        BY <2>1
      <4> HIDE DEF s, d
      <4> QED BY <4>1, <4>2
    <3>3. r - 1 \in Nat
      BY <1>1
    <3> HIDE DEF e, d
    <3>4. newer \in Seq(Req) /\ Len(newer) = r - 1
      <4> HIDE DEF newer, Req
      <4> QED BY <3>1, <3>2, <3>3, MadeSeq
    <3>5. \A i \in 1 .. r - 1 : newer[i] = e(i)
      <4> HIDE DEF newer
      <4> QED BY <3>1
    <3> QED BY Zenon, <3>2, <3>4, <3>5
  <2>2. CASE ~enable_defrag
    <3>1. newer = SubSeq(req_list, 1, r - 1)
      BY Zenon, <2>2 DEF In!Newer, In!Reclaims
    <3>2. \A i \in 1 .. r - 1 : req_list[i] \in Req
      BY <1>4, <1>5
    <3>3. /\ SubSeq(req_list, 1, r - 1) \in Seq(Req)
          /\ Len(SubSeq(req_list, 1, r - 1)) = r - 1
          /\ \A i \in 1 .. r - 1 : SubSeq(req_list, 1, r - 1)[i] = req_list[i]
      <4> HIDE DEF Req
      <4> QED BY <1>1, <1>2, <3>2
    <3>4. \A i \in 1 .. r - 1 : req_list[i].ptr - 0 = req_list[i].ptr
      BY <1>4, <1>5
    <3>5. d = 0
      BY <2>2
    <3> HIDE DEF newer, d
    <3> QED BY Zenon, <3>1, <3>3, <3>4, <3>5
  <2> QED BY Zenon, <1>2, <2>1, <2>2
<1>8. /\ older \in Seq(Req) /\ Len(older) = n - r
      /\ \A i \in 1 .. n - r : older[i] = req_list[r + i]
  <2>1. r \in Nat /\ r <= n
    BY <1>1
  <2> QED BY Zenon, <1>2, <2>1, Suffix
<1>9. req_list' = newer \o older
  BY DEF In!conn_req_remove
<1> HIDE DEF newer, older, Req, n, s, d
<1>10. /\ req_list' \in Seq(Req) /\ Len(req_list') = n - 1
       /\ \A i \in 1 .. r - 1 : req_list'[i] = newer[i]
       /\ \A i \in 1 .. n - r : req_list'[(r - 1) + i] = older[i]
  <2>1. /\ newer \o older \in Seq(Req)
        /\ Len(newer \o older) = (r - 1) + (n - r)
        /\ \A i \in 1 .. r - 1 : (newer \o older)[i] = newer[i]
        /\ \A i \in 1 .. n - r : (newer \o older)[(r - 1) + i] = older[i]
    <3>0. newer \in Seq(Req) /\ older \in Seq(Req)
      BY Zenon, <1>7, <1>8
    <3>1. /\ newer \o older \in Seq(Req)
          /\ Len(newer \o older) = Len(newer) + Len(older)
          /\ \A i \in 1 .. Len(newer) : (newer \o older)[i] = newer[i]
          /\ \A i \in 1 .. Len(older) : (newer \o older)[Len(newer) + i] = older[i]
      BY <3>0
    <3> QED BY Zenon, <1>7, <1>8, <3>1
  <2>2. (r - 1) + (n - r) = n - 1
    BY <1>1
  <2> QED BY Zenon, <1>9, <2>1, <2>2
<1>11. ASSUME NEW i \in r .. n - 1 PROVE req_list'[i] = req_list[i + 1]
  <2> DEFINE j == i - (r - 1)
  <2>1. j \in 1 .. n - r /\ r + j = i + 1 /\ (r - 1) + j = i
    BY <1>1
  <2> HIDE DEF j
  <2>2. req_list'[(r - 1) + j] = req_list[r + j]
    BY Zenon, <1>8, <1>10, <2>1
  <2> QED BY Zenon, <2>1, <2>2
<1> QED
  BY Zenon, <1>7, <1>10, <1>11 DEF Req, n, d, s

\* The buffer without the cells of request r: what lies behind them moves up.
LEMMA RemovedCells ==
  ASSUME RecvInv, NEW r \in DOMAIN req_list, In!conn_req_remove(r)
  PROVE  LET p == req_list[r].ptr
             s == SizeOf[req_list[r].msg]
             d == IF enable_defrag THEN s ELSE 0
         IN
         /\ recv_buf' \in [0 .. BUF_SIZE - 1 -> Cell \cup {In!Empty}]
         /\ recv' = recv - d /\ proc' = proc - d /\ space' = space + d
         /\ \A k \in 0 .. p - 1 : recv_buf'[k] = recv_buf[k]
         /\ \A k \in p + s .. recv - 1 : recv_buf'[k - d] = recv_buf[k]
<1> DEFINE p == req_list[r].ptr
           s == SizeOf[req_list[r].msg]
           d == IF enable_defrag THEN s ELSE 0
<1>1. /\ BUF_SIZE \in Nat /\ recv \in Nat /\ proc \in Nat /\ space \in Nat
  BY Zenon, DoneType
<1>2. RecvType /\ enable_defrag \in BOOLEAN
      /\ recv_buf \in [0 .. BUF_SIZE - 1 -> Cell \cup {In!Empty}]
  BY ZenonT(30) DEF RecvInv, RecvType
<1>3. s \in Nat \ {0} /\ p \in Nat /\ p + s <= proc
  BY <1>2, ReqType DEF ReqEnd, RecvInv, Apart
<1>4. proc <= recv /\ recv + space = BUF_SIZE
  BY DEF RecvInv, Framed
<1>5. CASE enable_defrag
  <2>1. /\ recv_buf' = [k \in DOMAIN recv_buf |->
                          IF k \in p .. recv - s - 1 THEN recv_buf[k + s] ELSE recv_buf[k]]
        /\ recv' = recv - s /\ proc' = proc - s /\ space' = space + s
    BY <1>5 DEF In!conn_req_remove, In!Reclaims, In!Moved
  <2>2. d = s
    BY <1>5
  <2> HIDE DEF p, s, d
  <2>3. \A k \in 0 .. BUF_SIZE - 1 : recv_buf'[k] =
          IF k \in p .. recv - s - 1 THEN recv_buf[k + s] ELSE recv_buf[k]
    BY <1>2, <2>1
  <2>4. \A k \in p .. recv - s - 1 : k + s \in 0 .. BUF_SIZE - 1
    BY <1>1, <1>3, <1>4
  <2>5. recv_buf' \in [0 .. BUF_SIZE - 1 -> Cell \cup {In!Empty}]
    BY <1>2, <2>1, <2>4
  <2>6. \A k \in 0 .. p - 1 : k \in 0 .. BUF_SIZE - 1 /\ k \notin p .. recv - s - 1
    BY <1>1, <1>3, <1>4
  <2>7. \A k \in p + s .. recv - 1 : /\ k - s \in 0 .. BUF_SIZE - 1
                                     /\ k - s \in p .. recv - s - 1 /\ (k - s) + s = k
    BY <1>1, <1>3, <1>4
  <2>8. \A k \in 0 .. p - 1 : recv_buf'[k] = recv_buf[k]
    BY Zenon, <2>3, <2>6
  <2>9. \A k \in p + s .. recv - 1 : recv_buf'[k - d] = recv_buf[k]
    BY Zenon, <2>2, <2>3, <2>7
  <2> QED BY Zenon, <2>1, <2>2, <2>5, <2>8, <2>9 DEF p, s, d
<1>6. CASE ~enable_defrag
  <2>1. UNCHANGED <<recv_buf, recv, proc, space>>
    BY <1>6 DEF In!conn_req_remove, In!Reclaims
  <2>2. d = 0
    BY <1>6
  <2> HIDE DEF p, s, d
  <2>3. recv' = recv - d /\ proc' = proc - d /\ space' = space + d
    BY <1>1, <2>1, <2>2
  <2>4. \A k \in p + s .. recv - 1 : k - d = k
    BY <1>1, <1>3, <2>2
  <2> QED BY Zenon, <1>2, <2>1, <2>3, <2>4 DEF p, s, d
<1> QED
  BY Zenon, <1>2, <1>5, <1>6

\* conn_req_remove() keeps the requests and the framing.
LEMMA RemoveStep ==
  ASSUME RecvInv, NEW r \in DOMAIN req_list, In!conn_req_remove(r),
         UNCHANGED <<enable_defrag, answers, stream, pc, taken>>
  PROVE  RecvInv'
<1> DEFINE n == Len(req_list)
           p == req_list[r].ptr
           s == SizeOf[req_list[r].msg]
           d == IF enable_defrag THEN s ELSE 0
<1>1. /\ End(Len(taken)) \in Nat
      /\ BUF_SIZE \in Nat /\ recv \in Nat /\ proc \in Nat /\ space \in Nat
      /\ n \in Nat /\ DOMAIN req_list = 1 .. n /\ r \in 1 .. n
  BY Zenon, DoneType
<1>2. RecvType /\ enable_defrag \in BOOLEAN
  BY ZenonT(30) DEF RecvInv, RecvType
<1>3. s \in Nat \ {0} /\ p \in Nat /\ p + s <= proc /\ d \in Nat /\ d <= s
      /\ ReqEnd(r) = p + s
  BY <1>2, ReqType DEF ReqEnd, RecvInv, Apart
<1>4. proc <= recv /\ recv + space = BUF_SIZE
  BY DEF RecvInv, Framed
<1>5. /\ recv_buf' \in [0 .. BUF_SIZE - 1 -> Cell \cup {In!Empty}]
      /\ recv' = recv - d /\ proc' = proc - d /\ space' = space + d
      /\ \A k \in 0 .. p - 1 : recv_buf'[k] = recv_buf[k]
      /\ \A k \in p + s .. recv - 1 : recv_buf'[k - d] = recv_buf[k]
  BY Zenon, RemovedCells
<1>6. /\ req_list' \in Seq([msg : Range(Msgs), ptr : Nat])
      /\ Len(req_list') = n - 1
      /\ \A i \in 1 .. r - 1 : /\ req_list'[i].msg = req_list[i].msg
                               /\ req_list'[i].ptr = req_list[i].ptr - d
      /\ \A i \in r .. n - 1 : req_list'[i] = req_list[i + 1]
  BY Zenon, RemovedList
<1>7. DOMAIN req_list' = 1 .. n - 1
  <2>1. DOMAIN req_list' = 1 .. Len(req_list')
    BY Zenon, <1>6, SeqElements
  <2> QED BY Zenon, <1>6, <2>1
<1>8. \A i \in 1 .. n : /\ ReqEnd(i) \in Nat /\ req_list[i].ptr \in Nat /\ ReqEnd(i) <= proc
                        /\ SizeOf[req_list[i].msg] \in Nat
                        /\ ReqEnd(i) = req_list[i].ptr + SizeOf[req_list[i].msg]
  BY ZenonT(30), <1>1, <1>2, ReqType DEF RecvInv, Apart, ReqEnd
<1>9. \A i, j \in 1 .. n : i < j => ReqEnd(j) <= req_list[i].ptr
  BY ZenonT(30), <1>1 DEF RecvInv, Apart
<1> HIDE DEF n, p, s, d
<1>10. RecvType'
  <2>1. recv' \in Nat /\ proc' \in Nat /\ space' \in Nat
    BY <1>1, <1>3, <1>4, <1>5
  <2> QED BY Zenon, <1>5, <1>6, <2>1 DEF RecvInv, RecvType
<1>11. Framed'
  <2> DEFINE done == End(Len(taken))
  <2>1. /\ done + (recv - proc) + Len(stream) = Len(Full)
        /\ \A k \in 1 .. recv - proc : recv_buf[proc + k - 1] = Full[done + k]
        /\ \A k \in 1 .. Len(stream) : stream[k] = Full[done + (recv - proc) + k]
        /\ Len(taken) <= Len(Msgs) /\ taken = SubSeq(Msgs, 1, Len(taken))
    BY DEF RecvInv, Framed
  <2>2. End(Len(taken))' = done /\ taken' = taken /\ stream' = stream
    BY DEF End
  <2> HIDE DEF done
  <2>3. /\ recv' - proc' = recv - proc /\ proc' <= recv' /\ recv' + space' = BUF_SIZE
    <3>1. /\ (recv - d) - (proc - d) = recv - proc /\ proc - d <= recv - d
          /\ (recv - d) + (space + d) = BUF_SIZE
      BY <1>1, <1>3, <1>4
    <3> QED BY Zenon, <1>5, <3>1
  <2>4. ASSUME NEW k \in 1 .. recv - proc PROVE recv_buf'[proc' + k - 1] = Full[done + k]
    <3>1. proc + k - 1 \in p + s .. recv - 1 /\ (proc + k - 1) - d = (proc - d) + k - 1
      BY <1>1, <1>3, <1>4
    <3> QED BY Zenon, <1>5, <2>1, <3>1
  <2> QED BY Zenon, <2>1, <2>2, <2>3, <2>4 DEF Framed
\* The request at place i was at place o, and has moved by e cells.
<1>12. ASSUME NEW i \in 1 .. n - 1
       PROVE  \E o \in 1 .. n, e \in {0, d} :
                /\ o = (IF i < r THEN i ELSE i + 1) /\ e = (IF i < r THEN d ELSE 0)
                /\ req_list'[i].msg = req_list[o].msg
                /\ req_list'[i].ptr = req_list[o].ptr - e
                /\ ReqEnd(i)' = ReqEnd(o) - e
  <2>1. CASE i < r
    <3>1. i \in 1 .. r - 1 /\ i \in 1 .. n
      BY <1>1, <2>1
    <3>2. req_list'[i].msg = req_list[i].msg /\ req_list'[i].ptr = req_list[i].ptr - d
      BY Zenon, <1>6, <3>1
    <3>3. ReqEnd(i)' = ReqEnd(i) - d
      <4>1. ReqEnd(i)' = (req_list[i].ptr - d) + SizeOf[req_list[i].msg]
        BY Zenon, <3>2 DEF ReqEnd
      <4> QED BY <1>3, <1>8, <3>1, <4>1
    <3> QED BY <2>1, <3>1, <3>2, <3>3
  <2>2. CASE ~(i < r)
    <3>1. i \in r .. n - 1 /\ i + 1 \in 1 .. n
      BY <1>1, <2>2
    <3>2. req_list'[i] = req_list[i + 1]
      BY Zenon, <1>6, <3>1
    <3>3. req_list[i + 1].ptr - 0 = req_list[i + 1].ptr /\ ReqEnd(i + 1) - 0 = ReqEnd(i + 1)
      BY <1>8, <3>1
    <3>4. ReqEnd(i)' = ReqEnd(i + 1)
      BY Zenon, <3>2 DEF ReqEnd
    <3> QED BY Zenon, <2>2, <3>1, <3>2, <3>3, <3>4
  <2> QED BY Zenon, <2>1, <2>2
<1>13. Apart'
  <2>1. ASSUME NEW i \in 1 .. n - 1 PROVE ReqEnd(i)' <= proc'
    <3>1. PICK o \in 1 .. n, e \in {0, d} : /\ o = (IF i < r THEN i ELSE i + 1)
                                            /\ e = (IF i < r THEN d ELSE 0)
                                            /\ ReqEnd(i)' = ReqEnd(o) - e
      BY Zenon, <1>12
    <3>2. CASE i < r
      <4>1. e = d /\ ReqEnd(o) \in Nat /\ ReqEnd(o) <= proc /\ proc \in Nat /\ d \in Nat
        BY Zenon, <1>1, <1>3, <1>8, <3>1, <3>2
      <4>2. ReqEnd(o) - d <= proc - d
        BY ONLY <4>1
      <4> QED BY Zenon, <1>5, <3>1, <4>1, <4>2
    <3>3. CASE ~(i < r)
      <4>1. e = 0 /\ r < o
        BY <1>1, <3>1, <3>3
      <4>2. ReqEnd(o) <= p
        BY <1>1, <1>9, <4>1 DEF p
      <4> QED BY SMTT(30), <1>1, <1>3, <1>5, <1>8, <3>1, <4>1, <4>2
    <3> QED BY <3>2, <3>3
  <2>2. ASSUME NEW i \in 1 .. n - 1, NEW j \in 1 .. n - 1, i < j
        PROVE  ReqEnd(j)' <= req_list'[i].ptr
    <3>1. PICK o \in 1 .. n, e \in {0, d} : /\ o = (IF i < r THEN i ELSE i + 1)
                                            /\ e = (IF i < r THEN d ELSE 0)
                                            /\ req_list'[i].ptr = req_list[o].ptr - e
      BY Zenon, <1>12
    <3>2. PICK q \in 1 .. n, f \in {0, d} : /\ q = (IF j < r THEN j ELSE j + 1)
                                            /\ f = (IF j < r THEN d ELSE 0)
                                            /\ ReqEnd(j)' = ReqEnd(q) - f
      BY Zenon, <1>12
    <3>3. o < q /\ ReqEnd(q) <= req_list[o].ptr
      BY <1>1, <1>9, <2>2, <3>1, <3>2
    <3>4. ReqEnd(q) \in Nat /\ req_list[o].ptr \in Nat
      BY Zenon, <1>8
    <3>5. CASE e = f
      BY <1>3, <3>1, <3>2, <3>3, <3>4, <3>5
    <3>6. CASE e # f
      <4>1. e = d /\ f = 0 /\ o < r /\ r < q
        BY <1>1, <2>2, <3>1, <3>2, <3>6
      <4>2. ReqEnd(q) <= p /\ p + s <= req_list[o].ptr
        BY Zenon, <1>1, <1>3, <1>9, <4>1 DEF p
      <4> QED BY <1>3, <3>1, <3>2, <3>4, <4>1, <4>2
    <3> QED BY <3>5, <3>6
  <2> QED BY Zenon, <1>7, <2>1, <2>2 DEF Apart
<1>14. In!RequestsIntact'
  <2> SUFFICES ASSUME NEW i \in 1 .. n - 1, NEW k \in 1 .. SizeOf[req_list'[i].msg]
               PROVE  recv_buf'[req_list'[i].ptr + k - 1] = <<req_list'[i].msg, k>>
    BY Zenon, <1>7 DEF In!RequestsIntact
  <2>1. PICK o \in 1 .. n, e \in {0, d} :
               /\ o = (IF i < r THEN i ELSE i + 1) /\ e = (IF i < r THEN d ELSE 0)
               /\ req_list'[i].msg = req_list[o].msg
               /\ req_list'[i].ptr = req_list[o].ptr - e
    BY Zenon, <1>12
  <2> DEFINE a == req_list[o].ptr
             z == SizeOf[req_list[o].msg]
  <2>2. k \in 1 .. z /\ z \in Nat /\ a \in Nat /\ a + z <= proc /\ ReqEnd(o) = a + z
    BY <1>8, <2>1
  <2>3. recv_buf[a + k - 1] = <<req_list[o].msg, k>>
    BY Zenon, <1>1, <2>2 DEF RecvInv, In!RequestsIntact
  <2>4. req_list'[i].ptr = a - e
    BY Zenon, <2>1
  <2>5. r < o => a + z <= p
    BY Zenon, <1>1, <1>9, <2>2 DEF p
  <2>6. o < r => p + s <= a
    BY <1>1, <1>3, <1>9
  <2> HIDE DEF a, z
  <2>7. CASE i < r
    <3>1. e = d /\ o < r
      BY <2>1, <2>7
    <3>2. a + k - 1 \in p + s .. recv - 1 /\ (a + k - 1) - d = (a - e) + k - 1
      BY <1>1, <1>3, <1>4, <2>2, <2>6, <3>1
    <3> QED BY ZenonT(30), <1>5, <2>1, <2>3, <2>4, <3>2
  <2>8. CASE ~(i < r)
    <3>1. e = 0 /\ r < o
      BY <1>1, <2>1, <2>8
    <3>2. a + k - 1 \in 0 .. p - 1 /\ (a - e) + k - 1 = a + k - 1
      BY <1>3, <2>2, <2>5, <3>1
    <3> QED BY Zenon, <1>5, <2>1, <2>3, <2>4, <3>2
  <2> QED BY <2>7, <2>8
<1> QED
  BY <1>10, <1>11, <1>13, <1>14 DEF RecvInv

-----------------------------------------------------------------------------
\* Every step of the worker keeps the requests and the framing.
LEMMA RecvInvStep == RecvInv /\ [Next]_vars => RecvInv'
<1> SUFFICES ASSUME RecvInv, [Next]_vars PROVE RecvInv'
  OBVIOUS
<1>0. pc \in {"poll", "obtain", "closed"}
  BY DEF RecvInv, RecvType
<1>1. ASSUME NEW n \in 1 .. BUF_SIZE, Receive(n) PROVE RecvInv'
  BY <1>1, RecvStep DEF Receive
<1>2. CASE ReceiveFails
  BY <1>2, RecvFrame DEF ReceiveFails, In!RecvNoSpace
<1>3. CASE Obtain
  <2>1. CASE In!Obtain
    BY Zenon, <2>1, ObtainStep
  <2>2. CASE In!ObtainDone
    BY <2>2, RecvFrame DEF In!ObtainDone
  <2> QED BY <1>3, <2>1, <2>2 DEF Obtain
<1>4. ASSUME NEW r \in 1 .. Len(Msgs), ReplyTo(r) PROVE RecvInv'
  <2>1. /\ r \in DOMAIN req_list /\ In!conn_req_remove(r)
        /\ UNCHANGED <<enable_defrag, answers, stream, pc, taken>>
    BY Zenon, <1>4 DEF ReplyTo, In!Finish, In!AtReply
  <2> QED BY Zenon, <2>1, RemoveStep
<1>5. ASSUME NEW r \in 1 .. Len(Msgs), ReplyAborts(r) PROVE RecvInv'
  BY Zenon, <1>0, <1>5, RecvFrame DEF ReplyAborts, recvVars
<1>6. CASE Flush
  BY Zenon, <1>6, RecvFrame DEF Flush
<1>7. CASE PeerGone
  BY Zenon, <1>0, <1>7, RecvFrame DEF PeerGone, recvVars
<1>8. CASE UNCHANGED vars
  BY <1>0, <1>8, RecvFrame DEF vars, recvVars
<1> QED
  BY Zenon, <1>1, <1>2, <1>3, <1>4, <1>5, <1>6, <1>7, <1>8 DEF Next

(* Whatever the messages, their sizes, the buffer and the loads are, the
   receive buffer holds the stream from curr_proc_buf on and the requests,
   apart, before it. *)
THEOREM RecvInvariant == Spec => []RecvInv
<1>1. Init => RecvInv
  BY InitRecv DEF Init
<1> QED
  BY <1>1, RecvInvStep, PTL DEF Spec

(* ReceivedIntact for every sequence of messages, every size of the buffer and
   every client: conn_recv(), obtain_messages() and conn_req_remove() never
   lose the framing, and the cells of a request stay where message_ptr says. *)
THEOREM ReceivedIntactHolds == Spec => []ReceivedIntact
<1>1. RecvInv => ReceivedIntact
  <2> SUFFICES ASSUME RecvInv PROVE ReceivedIntact
    OBVIOUS
  <2>1. proc < recv => recv_buf[proc] = <<Msgs[Len(taken) + 1], 1>>
    BY Zenon, NextMessage
  <2>2. /\ Len(taken) <= Len(Msgs) /\ taken = SubSeq(Msgs, 1, Len(taken))
        /\ proc <= recv /\ recv + space = BUF_SIZE
    BY DEF RecvInv, Framed
  <2>3. In!RequestsIntact
    BY DEF RecvInv
  <2> QED BY Zenon, <2>1, <2>2, <2>3 DEF ReceivedIntact, In!FramingKept
<1> QED
  BY <1>1, RecvInvariant, PTL

-----------------------------------------------------------------------------
\* obtain_messages() puts a request right behind the others.
LEMMA ObtainCompact ==
  ASSUME RecvInv, Compact, In!Obtain
  PROVE  Compact'
<1> SUFFICES ASSUME enable_defrag', answers' = {}
             PROVE  /\ req_list' = <<>> => proc' = 0
                    /\ req_list' # <<>> => /\ ReqEnd(1)' = proc'
                                           /\ req_list'[Len(req_list')].ptr = 0
                    /\ \A i \in 1 .. Len(req_list') - 1 : req_list'[i].ptr = ReqEnd(i + 1)'
  BY Zenon DEF Compact
<1> DEFINE m == recv_buf[proc][1]
           n == Len(req_list)
           q == [msg |-> m, ptr |-> proc]
<1>1. /\ enable_defrag /\ answers = {} /\ proc' = proc + SizeOf[m] /\ req_list' = <<q>> \o req_list
  BY DEF In!Obtain
<1>2. /\ n \in Nat /\ DOMAIN req_list = 1 .. n /\ proc \in Nat
  BY Zenon, DoneType
<1>3. m = Msgs[Len(taken) + 1] /\ m \in Range(Msgs) /\ SizeOf[m] \in Nat \ {0}
  <2>1. proc < recv
    BY DEF In!Obtain, In!Complete
  <2>2. /\ recv_buf[proc] = <<Msgs[Len(taken) + 1], 1>> /\ Len(taken) + 1 \in 1 .. Len(Msgs)
        /\ SizeOf[Msgs[Len(taken) + 1]] \in Nat \ {0}
    BY Zenon, <2>1, NextMessage
  <2> QED BY <2>2, MsgType
<1>4. /\ req_list = <<>> => proc = 0
      /\ req_list # <<>> => ReqEnd(1) = proc /\ req_list[n].ptr = 0
      /\ \A i \in 1 .. n - 1 : req_list[i].ptr = ReqEnd(i + 1)
  BY Zenon, <1>1 DEF Compact
<1>5. req_list \in Seq([msg : Range(Msgs), ptr : Nat]) /\ q \in [msg : Range(Msgs), ptr : Nat]
  BY Zenon, <1>2, <1>3 DEF RecvInv, RecvType
<1>6. q.ptr = proc /\ q.msg = m
  OBVIOUS
<1> HIDE DEF q, m, n
<1>7. /\ Len(req_list') = n + 1 /\ req_list'[1] = q
      /\ \A i \in 1 .. n : req_list'[i + 1] = req_list[i]
  <2>1. /\ Len(<<q>> \o req_list) = n + 1 /\ (<<q>> \o req_list)[1] = q
        /\ \A i \in 1 .. n : (<<q>> \o req_list)[i + 1] = req_list[i]
    BY <1>5 DEF n
  <2> QED BY Zenon, <1>1, <2>1
<1>8. \A i \in 1 .. n : ReqEnd(i + 1)' = ReqEnd(i)
  BY Zenon, <1>7 DEF ReqEnd
<1>9. ReqEnd(1)' = proc'
  <2>1. ReqEnd(1)' = proc + SizeOf[m]
    BY Zenon, <1>6, <1>7 DEF ReqEnd
  <2> QED BY Zenon, <1>1, <2>1
<1>10. req_list' # <<>>
  <2>1. n + 1 # 0
    BY <1>2
  <2>2. Len(<<>>) = 0
    OBVIOUS
  <2> QED BY Zenon, <1>7, <2>1, <2>2
<1>11. n = 0 \/ n \in 1 .. n
  BY <1>2
<1>12. n = 0 <=> req_list = <<>>
  BY <1>5 DEF n
<1>13. req_list'[n + 1].ptr = 0
  <2>1. CASE n = 0
    <3>1. n + 1 = 1
      BY <2>1
    <3> QED BY Zenon, <1>4, <1>6, <1>7, <1>12, <2>1, <3>1
  <2>2. CASE n # 0
    BY Zenon, <1>4, <1>7, <1>11, <1>12, <2>2
  <2> QED BY <2>1, <2>2
<1>14. ASSUME NEW i \in 1 .. n PROVE req_list'[i].ptr = ReqEnd(i + 1)'
  <2>1. CASE i = 1
    <3>1. n # 0
      BY <1>2
    <3> QED BY Zenon, <1>4, <1>6, <1>7, <1>8, <1>12, <2>1, <3>1
  <2>2. CASE i # 1
    <3> DEFINE j == i - 1
    <3>1. j \in 1 .. n /\ j \in 1 .. n - 1 /\ i = j + 1
      BY <1>2, <2>2
    <3> HIDE DEF j
    <3> QED BY Zenon, <1>4, <1>7, <1>8, <3>1
  <2> QED BY <2>1, <2>2
<1>15. Len(req_list') - 1 = n
  BY <1>2, <1>7
<1> QED
  BY Zenon, <1>7, <1>9, <1>10, <1>13, <1>14, <1>15

\* conn_req_remove() leaves no gap.
LEMMA RemoveCompact ==
  ASSUME RecvInv, Compact, NEW r \in DOMAIN req_list, In!conn_req_remove(r),
         UNCHANGED <<enable_defrag, answers>>
  PROVE  Compact'
<1> SUFFICES ASSUME enable_defrag', answers' = {}
             PROVE  /\ req_list' = <<>> => proc' = 0
                    /\ req_list' # <<>> => /\ ReqEnd(1)' = proc'
                                           /\ req_list'[Len(req_list')].ptr = 0
                    /\ \A i \in 1 .. Len(req_list') - 1 : req_list'[i].ptr = ReqEnd(i + 1)'
  BY Zenon DEF Compact
<1> DEFINE n == Len(req_list)
           s == SizeOf[req_list[r].msg]
           d == IF enable_defrag THEN s ELSE 0
<1>1. n \in Nat /\ DOMAIN req_list = 1 .. n /\ proc \in Nat /\ r \in 1 .. n
  BY Zenon, DoneType
<1>2. RecvType /\ req_list \in Seq([msg : Range(Msgs), ptr : Nat])
  BY Zenon DEF RecvInv, RecvType
<1>3. \A i \in 1 .. n : /\ ReqEnd(i) \in Nat /\ req_list[i].ptr \in Nat
                        /\ SizeOf[req_list[i].msg] \in Nat
                        /\ ReqEnd(i) = req_list[i].ptr + SizeOf[req_list[i].msg]
  BY Zenon, <1>1, <1>2, ReqType DEF ReqEnd
<1>4. s \in Nat /\ ReqEnd(r) = req_list[r].ptr + s
  BY Zenon, <1>1, <1>3
<1>5. d = s
  OBVIOUS
<1>6. proc' = proc - d
  BY Zenon, RemovedCells
<1>7. /\ Len(req_list') = n - 1 /\ req_list' \in Seq([msg : Range(Msgs), ptr : Nat])
      /\ \A i \in 1 .. r - 1 : /\ req_list'[i].msg = req_list[i].msg
                               /\ req_list'[i].ptr = req_list[i].ptr - d
      /\ \A i \in r .. n - 1 : req_list'[i] = req_list[i + 1]
  BY Zenon, RemovedList
<1>8. /\ req_list # <<>> => ReqEnd(1) = proc /\ req_list[n].ptr = 0
      /\ \A i \in 1 .. n - 1 : req_list[i].ptr = ReqEnd(i + 1)
  BY Zenon DEF Compact
<1> HIDE DEF n, s, d
<1>9. ReqEnd(1) = proc /\ req_list[n].ptr = 0
  <2>1. n # 0
    BY <1>1
  <2>2. req_list # <<>>
    <3>1. Len(<<>>) = 0
      BY Zenon
    <3> QED BY Zenon, <2>1, <3>1 DEF n
  <2> QED BY Zenon, <1>8, <2>2
<1>10. ASSUME NEW i \in 1 .. r - 1
       PROVE  req_list'[i].ptr = req_list[i].ptr - s /\ ReqEnd(i)' = ReqEnd(i) - s
  <2>1. req_list'[i].msg = req_list[i].msg /\ req_list'[i].ptr = req_list[i].ptr - s
    BY Zenon, <1>5, <1>7
  <2>2. ReqEnd(i)' = (req_list[i].ptr - s) + SizeOf[req_list[i].msg]
    BY Zenon, <2>1 DEF ReqEnd
  <2>3. i \in 1 .. n
    BY <1>1
  <2> QED BY <1>3, <1>4, <2>1, <2>2, <2>3
<1>11. ASSUME NEW i \in r .. n - 1
       PROVE  req_list'[i].ptr = req_list[i + 1].ptr /\ ReqEnd(i)' = ReqEnd(i + 1)
  BY Zenon, <1>7 DEF ReqEnd
<1>12. CASE n = 1
  <2>1. r = 1 /\ proc = s
    BY <1>1, <1>3, <1>4, <1>9, <1>12
  <2>2. proc' = 0
    BY <1>1, <1>5, <1>6, <2>1
  <2>3. Len(req_list') = 0
    <3>1. Len(req_list') = n - 1
      BY Zenon, <1>7
    <3> QED BY <1>12, <3>1
  <2>4. req_list' = <<>>
    BY Zenon, <1>7, <2>3, NoElements
  <2>5. 1 .. Len(req_list') - 1 = {}
    BY <2>3
  <2> QED BY Zenon, <2>2, <2>4, <2>5
<1>13. CASE n # 1
  <2>0. n - 1 \in 1 .. n /\ 1 \in 1 .. n /\ 2 \in 1 .. n /\ n - 1 # 0 /\ 1 \in 1 .. n - 1
    BY <1>1, <1>13
  <2>1. req_list' # <<>>
    <3>1. Len(<<>>) = 0
      OBVIOUS
    <3> QED BY Zenon, <1>7, <2>0, <3>1
  <2>2. ReqEnd(1)' = proc - s
    <3>1. CASE r = 1
      <4>1. 1 \in r .. n - 1 /\ 1 + 1 = 2
        BY <1>1, <2>0, <3>1
      <4>2. ReqEnd(1)' = ReqEnd(2) /\ req_list[1].ptr = ReqEnd(2)
        BY Zenon, <1>8, <1>11, <2>0, <4>1
      <4>3. ReqEnd(1) = req_list[1].ptr + s
        BY <1>4, <3>1
      <4> QED BY <1>3, <1>4, <1>9, <2>0, <4>2, <4>3
    <3>2. CASE r # 1
      <4>1. 1 \in 1 .. r - 1
        BY <1>1, <3>2
      <4> QED BY Zenon, <1>9, <1>10, <4>1
    <3> QED BY Zenon, <3>1, <3>2
  <2>3. req_list'[n - 1].ptr = 0
    <3>1. CASE r = n
      <4>1. n - 1 \in 1 .. r - 1 /\ n - 1 \in 1 .. n - 1 /\ (n - 1) + 1 = n
        BY <1>1, <2>0, <3>1
      <4>2. req_list'[n - 1].ptr = req_list[n - 1].ptr - s /\ req_list[n - 1].ptr = ReqEnd(n)
        BY Zenon, <1>8, <1>10, <4>1
      <4>3. ReqEnd(n) = 0 + s
        BY Zenon, <1>4, <1>9, <3>1
      <4> QED BY <1>4, <4>2, <4>3
    <3>2. CASE r # n
      <4>1. n - 1 \in r .. n - 1 /\ (n - 1) + 1 = n
        BY <1>1, <3>2
      <4> QED BY Zenon, <1>9, <1>11, <4>1
    <3> QED BY ZenonT(30), <3>1, <3>2
  <2>4. ASSUME NEW i \in 1 .. (n - 1) - 1 PROVE req_list'[i].ptr = ReqEnd(i + 1)'
    <3>0. i \in 1 .. n - 1 /\ i + 1 \in 1 .. n - 1 /\ i \in 1 .. n /\ i + 1 \in 1 .. n
          /\ (i + 1) + 1 \in 1 .. n
      BY <1>1
    <3>1. req_list[i].ptr = ReqEnd(i + 1) /\ req_list[i + 1].ptr = ReqEnd((i + 1) + 1)
      BY Zenon, <1>8, <3>0
    <3>2. CASE i + 1 < r
      <4>1. i \in 1 .. r - 1 /\ i + 1 \in 1 .. r - 1
        BY <1>1, <3>2
      <4> QED BY Zenon, <1>10, <3>1, <4>1
    <3>3. CASE i + 1 = r
      <4>1. i \in 1 .. r - 1 /\ i + 1 \in r .. n - 1
        BY <1>1, <3>0, <3>3
      <4>2. req_list'[i].ptr = req_list[i].ptr - s /\ ReqEnd(i + 1)' = ReqEnd((i + 1) + 1)
        BY Zenon, <1>10, <1>11, <4>1
      <4>3. req_list[i].ptr = req_list[i + 1].ptr + s
        BY Zenon, <1>4, <3>1, <3>3
      <4>4. req_list[i + 1].ptr \in Nat
        BY ZenonT(30), <1>3, <3>0
      <4>5. req_list'[i].ptr = req_list[i + 1].ptr
        BY <1>4, <4>2, <4>3, <4>4
      <4> QED BY Zenon, <3>1, <4>2, <4>5
    <3>4. CASE i + 1 > r
      <4>1. i \in r .. n - 1 /\ i + 1 \in r .. n - 1
        BY <1>1, <3>0, <3>4
      <4> QED BY Zenon, <1>11, <3>1, <4>1
    <3> QED BY <1>1, <3>2, <3>3, <3>4
  <2> QED BY Zenon, <1>5, <1>6, <1>7, <2>1, <2>2, <2>3, <2>4
<1> QED
  BY <1>12, <1>13

\* conn_req_remove() leaves what is received and not obtained as long as it was.
LEMMA RemoveWaiting ==
  ASSUME RecvInv, Waiting, NEW r \in DOMAIN req_list, In!conn_req_remove(r),
         UNCHANGED <<stream, pc, taken>>, pc # "closed"
  PROVE  Waiting'
<1> DEFINE s == SizeOf[req_list[r].msg]
           d == IF enable_defrag THEN s ELSE 0
<1>1. recv' = recv - d /\ proc' = proc - d
  BY Zenon, RemovedCells
<1>2. s \in Nat
  BY ReqType DEF RecvInv
<1>3. d \in Nat
  BY <1>2
<1>4. recv \in Nat /\ proc \in Nat
  BY Zenon, DoneType
<1> HIDE DEF d
<1>5. recv' - proc' = recv - proc /\ (proc' < recv' <=> proc < recv)
  BY <1>1, <1>3, <1>4
<1> QED
  BY Zenon, <1>5 DEF Waiting

\* Every step of the worker keeps the requests together at the start.
LEMMA SpaceInvStep == RecvInv /\ SpaceInv /\ [Next]_vars => SpaceInv'
<1> SUFFICES ASSUME RecvInv, SpaceInv, [Next]_vars PROVE SpaceInv'
  OBVIOUS
<1>0. Compact /\ Waiting
  BY DEF SpaceInv
<1>a. ASSUME UNCHANGED <<enable_defrag, answers, proc, req_list>> PROVE Compact'
  BY Zenon, <1>0, <1>a DEF Compact, ReqEnd
<1>b. ASSUME UNCHANGED <<pc, space, stream, proc, recv, taken>> PROVE Waiting'
  BY Zenon, <1>0, <1>b DEF Waiting
<1>1. ASSUME NEW n \in 1 .. BUF_SIZE, Receive(n) PROVE SpaceInv'
  <2>1. UNCHANGED <<enable_defrag, answers, proc, req_list>> /\ pc' = "obtain"
    BY <1>1 DEF Receive, In!conn_recv
  <2> QED BY ZenonT(30), <1>a, <2>1 DEF SpaceInv, Waiting
<1>2. CASE ReceiveFails
  <2>1. /\ UNCHANGED <<enable_defrag, answers, proc, req_list, space, stream, recv, taken>>
        /\ pc = "poll" /\ space = 0 /\ stream # <<>>
    BY Zenon, <1>2 DEF ReceiveFails, In!RecvNoSpace
  <2>2. Waiting'
    BY <1>0, <2>1 DEF Waiting
  <2> QED BY ZenonT(30), <1>a, <2>1, <2>2 DEF SpaceInv
<1>3. CASE Obtain
  <2>1. CASE In!Obtain
    <3>1. pc' = "obtain"
      BY <2>1 DEF In!Obtain
    <3>2. Compact'
      BY Zenon, <1>0, <2>1, ObtainCompact
    <3> QED BY Zenon, <3>1, <3>2 DEF SpaceInv, Waiting
  <2>2. CASE In!ObtainDone
    <3>1. /\ ~In!Complete /\ pc' = "poll"
          /\ UNCHANGED <<enable_defrag, answers, stream, recv_buf, recv, space, proc, req_list,
                         taken>>
      BY <2>2 DEF In!ObtainDone
    <3>2. ASSUME proc < recv PROVE recv - proc < SizeOf[Msgs[Len(taken) + 1]]
      <4> DEFINE m == Msgs[Len(taken) + 1]
      <4>1. recv_buf[proc] = <<m, 1>> /\ SizeOf[m] \in Nat \ {0}
        BY Zenon, <3>2, NextMessage
      <4>2. recv_buf[proc][1] = m
        BY <4>1
      <4>3. recv \in Nat /\ proc \in Nat
        BY Zenon, DoneType
      <4> HIDE DEF m
      <4>4. ~(proc + SizeOf[m] <= recv)
        BY Zenon, <3>1, <3>2, <4>2 DEF In!Complete
      <4>5. recv - proc < SizeOf[m]
        BY <4>1, <4>3, <4>4
      <4> QED BY Zenon, <4>5 DEF m
    <3>3. Waiting'
      <4>1. proc' < recv' => recv' - proc' < SizeOf[Msgs[Len(taken') + 1]]
        BY Zenon, <3>1, <3>2
      <4>2. pc' # "closed"
        BY <3>1
      <4> QED BY Zenon, <4>1, <4>2 DEF Waiting
    <3> QED BY Zenon, <1>a, <3>1, <3>3 DEF SpaceInv
  <2> QED BY Zenon, <1>3, <2>1, <2>2 DEF Obtain
<1>4. ASSUME NEW r \in 1 .. Len(Msgs), ReplyTo(r) PROVE SpaceInv'
  <2>1. /\ r \in DOMAIN req_list /\ In!conn_req_remove(r) /\ pc # "closed"
        /\ UNCHANGED <<enable_defrag, answers>> /\ UNCHANGED <<stream, pc, taken>>
    BY <1>4 DEF ReplyTo, In!Finish, In!AtReply
  <2>2. Compact'
    BY Zenon, <1>0, <2>1, RemoveCompact
  <2>3. Waiting'
    BY Zenon, <1>0, <2>1, RemoveWaiting
  <2> QED BY Zenon, <2>2, <2>3 DEF SpaceInv
<1>5. CASE UNCHANGED recvVars
  BY Zenon, <1>5, <1>a, <1>b DEF SpaceInv, recvVars
<1>6. CASE Flush
  <2>1. UNCHANGED <<enable_defrag, answers, proc, req_list>> /\ pc' = "obtain"
    BY <1>6 DEF Flush
  <2> QED BY <1>a, <2>1 DEF SpaceInv, Waiting
<1>7. (\E r \in 1 .. Len(Msgs) : ReplyAborts(r)) \/ PeerGone \/ UNCHANGED vars => UNCHANGED recvVars
  BY DEF ReplyAborts, PeerGone, vars
<1> QED
  BY Zenon, <1>1, <1>2, <1>3, <1>4, <1>5, <1>6, <1>7 DEF Next

(* With defragmentation, and no answers to FORWARDs among the messages, the
   requests in progress fill the buffer from its start to curr_proc_buf; and
   the worker gives a connection up for lack of space only with an incomplete
   message behind them. *)
THEOREM SpaceInvariant == Spec => []SpaceInv
<1>1. Init => SpaceInv
  <2> SUFFICES ASSUME Init PROVE SpaceInv
    OBVIOUS
  <2>1. proc = 0 /\ recv = 0 /\ req_list = <<>> /\ pc = "poll"
    BY DEF Init, In!Init
  <2>2. Len(<<>>) = 0 /\ 1 .. 0 - 1 = {} /\ ~(0 < 0)
    OBVIOUS
  <2>3. Compact
    BY Zenon, <2>1, <2>2 DEF Compact
  <2>4. Waiting
    BY <2>1, <2>2 DEF Waiting
  <2> QED BY <2>3, <2>4 DEF SpaceInv
<1> QED
  BY <1>1, RecvInvariant, SpaceInvStep, PTL DEF Spec

(* EmptyBufferReceives for every client whose messages fit the buffer: with
   defragmentation, conn_recv() finds no space for a connection that only
   requests come in on only while a request is in progress. *)
THEOREM EmptyBufferReceivesHolds ==
  ASSUME \A m \in Range(Msgs) : SizeOf[m] <= BUF_SIZE
  PROVE  Spec => []EmptyBufferReceives
<1>1. RecvInv /\ SpaceInv => EmptyBufferReceives
  <2> SUFFICES ASSUME RecvInv, SpaceInv, enable_defrag, answers = {}, pc = "closed",
                      req_list = <<>>
               PROVE  FALSE
    BY Zenon DEF EmptyBufferReceives, In!EmptyBufferReceives
  <2> DEFINE t == Len(taken)
  <2>1. proc = 0 /\ space = 0 /\ stream # <<>>
    BY DEF SpaceInv, Compact, Waiting
  <2>2. /\ t \in 0 .. Len(Msgs) /\ End(t) \in Nat /\ BUF_SIZE \in Nat /\ recv \in Nat
        /\ Len(stream) \in Nat /\ Len(Full) \in Nat
    BY Zenon, DoneType
  <2>3. recv = BUF_SIZE /\ End(t) + (recv - 0) + Len(stream) = Len(Full)
    <3>1. recv + space = BUF_SIZE /\ End(t) + (recv - proc) + Len(stream) = Len(Full)
      BY DEF RecvInv, Framed
    <3> QED BY <2>1, <2>2, <3>1
  <2>4. Len(stream) # 0
    <3>1. stream \in Seq(Cell)
      BY DEF RecvInv, RecvType
    <3> QED BY Zenon, <2>1, <3>1, NoElements
  <2> HIDE DEF t
  <2>5. t + 1 \in 1 .. Len(Msgs)
    <3>1. Len(Msgs) \in Nat /\ Len(Full) = End(Len(Msgs))
      BY MsgType, FullCells
    <3>2. t = Len(Msgs) => End(t) = End(Len(Msgs))
      OBVIOUS
    <3>3. t # Len(Msgs)
      BY <2>2, <2>3, <2>4, <3>1, <3>2
    <3> QED BY <2>2, <3>1, <3>3
  <2>6. Msgs[t + 1] \in Range(Msgs)
    BY Zenon, <2>5, MsgType
  <2>7. SizeOf[Msgs[t + 1]] \in Nat \ {0} /\ SizeOf[Msgs[t + 1]] <= BUF_SIZE
    BY Zenon, <2>6, ConnConstants
  <2>8. proc < recv
    BY SMTT(30), <2>1, <2>2, <2>3, <2>7
  <2>9. recv - proc < SizeOf[Msgs[t + 1]]
    BY <2>8 DEF SpaceInv, Waiting, t
  <2> QED BY <2>1, <2>2, <2>3, <2>7, <2>9
<1> QED
  BY <1>1, RecvInvariant, SpaceInvariant, PTL
=============================================================================
