---------------------------- MODULE ProxyProofs ----------------------------
(***************************************************************************)
(* What the relay of dw_proxy gives to each end of a flow, for every       *)
(* number of connections and flows and everything the peers may send.  As  *)
(* long as no descriptor was given out between the two closes of a flow,   *)
(* the descriptors of a thread are those of its own flow or closed; hence  *)
(* a thread reads and writes the sockets of its own flow, and the chunks   *)
(* written, in the buffer and unread make up one stream.                   *)
(***************************************************************************)
EXTENDS Proxy, FiniteSetTheorems, WellFoundedInduction, TLAPS

PCs == {"none", "connect", "read", "reading", "write", "close_server",
        "close_client", "kill", "join", "done"}
Chunks == Files \X Nat
ThreadStates == [pc : PCs, file : Files \cup {NoFile}, buf : Seq(Chunks)]

TypeOK ==
  /\ load \in Loads
  /\ n_flows \in 0 .. MAX_FLOWS
  /\ flows \in [1 .. MAX_FLOWS -> [Ends -> 0 .. 2 * NConns]]
  /\ slot \in [Conns -> 0 .. MAX_FLOWS]
  /\ fds \in [Fds -> Files \cup {NoFile}]
  /\ thread \in [Conns -> [Roles -> ThreadStates]]
  /\ input \in [Files -> Seq(Chunks)]
  /\ answered \in [Conns -> Nat]
  /\ left \in [Files -> BOOLEAN]
  /\ out \in [Files -> Seq(Chunks)]

\* Connections are accepted in order, each into a slot of its own, and the
\* slots from n_flows on were never used.
Slots ==
  /\ \E c \in 0 .. NConns : \A j \in Conns : slot[j] # 0 <=> j <= c
  /\ \A k \in Conns : slot[k] <= n_flows
  /\ \A j, k \in Conns : slot[j] # 0 /\ slot[j] = slot[k] => j = k
  /\ \A k \in Conns, r \in Roles : slot[k] = 0 => thread[k][r].pc = "none"
  /\ \A x \in 1 .. MAX_FLOWS : n_flows < x => flows[x]["server"] = 0

\* A socket is open under the descriptor its flow records, and no other.
Recorded ==
  \A d \in Fds, k \in Conns, end \in Ends :
    fds[d] = <<k, end>> => slot[k] # 0 /\ Flow(k)[end] = d

\* A flow whose sender is in do_connect().
Connecting ==
  \A k \in Conns : thread[k]["sender"].pc = "connect" =>
    /\ thread[k]["receiver"].pc = "none"
    /\ Flow(k)["server"] = 0
    /\ FileOf(k, "client") = <<k, "client">>

\* The descriptors that a thread may still use are those of its own flow, or
\* closed, although each of the two threads closes the other's.
Own ==
  \A k \in Conns, r \in Roles, end \in Ends :
    Active(k, r) => FileOf(k, end) \in {NoFile, <<k, end>>}

\* A read() that waits holds the socket of its own flow, and only a thread
\* that writes has something in its buffer.
Reads ==
  \A k \in Conns, r \in Roles :
    /\ thread[k][r].pc = "reading" => thread[k][r].file = <<k, Source(r)>>
    /\ thread[k][r].buf # <<>> <=> thread[k][r].pc = "write"

\* What was written, what is in the buffer and what is unread follow each
\* other; what is written to a peer that is gone is lost.
Follows(src, got, buf, unread, gone) ==
  /\ \A n \in 1 .. Len(got) : got[n] = Chunk(src, n)
  /\ ~gone => /\ \A n \in 1 .. Len(buf) : buf[n] = Chunk(src, Len(got) + n)
              /\ \A n \in 1 .. Len(unread) :
                   unread[n] = Chunk(src, Len(got) + Len(buf) + n)

\* The server has sent what was written, is in the buffer or unread.
InTransit(k, r) ==
  LET src == <<k, Source(r)>>
      dst == <<k, Target(r)>>
  IN
  /\ Follows(src, out[dst], thread[k][r].buf, input[src], left[dst])
  /\ r = "receiver" /\ ~left[dst] =>
       answered[k] = Len(out[dst]) + Len(thread[k][r].buf) + Len(input[src])

OneStream == \A k \in Conns, r \in Roles : InTransit(k, r)

Core == TypeOK /\ Slots /\ Recorded /\ Connecting /\ Own /\ Reads /\ OneStream
IInv == hurried \in BOOLEAN /\ (~hurried => Core)
-----------------------------------------------------------------------------
\* Every nonempty set of naturals has a least element.
LEMMA LeastElement ==
  ASSUME NEW T \in SUBSET Nat, T # {}
  PROVE  \E x \in T : \A y \in T : x <= y
<1> DEFINE R == {p \in Nat \X Nat : p[1] < p[2]}
<1>1. IsWellFoundedOn(R, Nat)
  BY NatLessThanWellFounded DEF OpToRel
<1>2. \E x \in T : \A y \in T : ~ (<<y, x>> \in R)
  <2> HIDE DEF R
  <2> QED
    BY Zenon, <1>1, WFMin
<1>3. PICK x \in T : \A y \in T : ~ (<<y, x>> \in R)
  BY <1>2
<1>4. \A y \in T : y \in Nat /\ x \in Nat /\ (y < x => <<y, x>> \in R)
  OBVIOUS
<1> HIDE DEF R
<1>5. \A y \in T : ~(y < x)
  BY Zenon, <1>3, <1>4
<1>6. \A y \in T : x <= y
  BY <1>4, <1>5
<1> QED
  BY <1>6

\* There are as many descriptors as sockets, two for each connection.
LEMMA Counts == /\ IsFiniteSet(Files) /\ Cardinality(Files) = 2 * NConns
                /\ IsFiniteSet(Fds) /\ Cardinality(Fds) = 2 * NConns
                /\ NConns \in Nat
<1>1. NConns \in Nat /\ MAX_FLOWS \in Nat
  BY ProxyConstants
<1>2. IsFiniteSet(Conns) /\ Cardinality(Conns) = NConns
  BY <1>1, FS_Interval DEF Conns
<1>3. IsFiniteSet(Ends) /\ Cardinality(Ends) = 2
  <2>1. IsFiniteSet({"client"}) /\ Cardinality({"client"}) = 1
    BY Zenon, FS_Singleton
  <2>2. Ends = {"client"} \cup {"server"} /\ "server" \notin {"client"}
    BY DEF Ends
  <2> QED
    BY <2>1, <2>2, FS_AddElement
<1>4. IsFiniteSet(Files) /\ Cardinality(Files) = NConns * 2
  BY Zenon, <1>2, <1>3, FS_Product DEF Files
<1>5. IsFiniteSet(Fds) /\ Cardinality(Fds) = 2 * NConns
  <2>1. 2 * NConns \in Nat
    BY <1>1
  <2> QED
    BY <2>1, FS_Interval DEF Fds
<1> QED
  BY <1>1, <1>4, <1>5

\* No socket is a NoFile.
LEMMA NotNoFile == \A k \in Conns, end \in Ends : <<k, end>> # NoFile /\ <<k, end>> \in Files
BY Counts DEF NoFile, Conns, Files

\* There is a free descriptor for a socket that is not open yet: there are as
\* many descriptors as sockets, and each open socket has one.
LEMMA FreeDescriptor ==
  ASSUME fds \in [Fds -> Files \cup {NoFile}], Recorded,
         NEW k \in Conns, NEW end \in Ends, \A d \in Fds : fds[d] # <<k, end>>
  PROVE  LowestFree \in Fds /\ fds[LowestFree] = NoFile
<1> DEFINE Free == {d \in Fds : fds[d] = NoFile}
           f == <<k, end>>
<1>1. Free # {}
  <2> SUFFICES ASSUME \A d \in Fds : fds[d] # NoFile PROVE FALSE
    OBVIOUS
  <2> DEFINE T == Files \ {f}
  <2>1. f \in Files
    BY NotNoFile
  <2>2. IsFiniteSet(T) /\ Cardinality(T) = 2 * NConns - 1
    BY ZenonT(30), <2>1, Counts, FS_RemoveElement
  <2>3. fds \in [Fds -> T]
    OBVIOUS
  <2>4. Cardinality(T) < Cardinality(Fds)
    BY <2>2, Counts
  <2> HIDE DEF T
  <2>5. PICK d, e \in Fds : d # e /\ fds[d] = fds[e]
    BY <2>2, <2>3, <2>4, Counts, FS_PigeonHole
  <2>6. fds[d] \in Files
    OBVIOUS
  <2>7. PICK j \in Conns, x \in Ends : fds[d] = <<j, x>>
    BY <2>6 DEF Files
  <2>8. fds[e] = <<j, x>>
    BY Zenon, <2>5, <2>7
  <2>9. Flow(j)[x] = d
    BY <2>7 DEF Recorded
  <2>10. Flow(j)[x] = e
    BY <2>8 DEF Recorded
  <2> QED
    BY Zenon, <2>5, <2>9, <2>10
<1>2. Free \in SUBSET Nat
  BY Counts DEF Fds
<1>3. PICK d \in Free : \A e \in Free : d <= e
  BY Zenon, <1>1, <1>2, LeastElement
<1>4. d \in Fds /\ fds[d] = NoFile /\ \A e \in 1 .. d - 1 : fds[e] # NoFile
  <2> SUFFICES ASSUME NEW e \in 1 .. d - 1, fds[e] = NoFile PROVE FALSE
    OBVIOUS
  <2>1. e \in Fds /\ ~(d <= e)
    BY <1>2, Counts DEF Fds
  <2> QED
    BY <2>1, <1>3
<1> QED
  BY Zenon, <1>4 DEF LowestFree

\* The connection main() accepts next has no slot yet.
LEMMA NextConn ==
  ASSUME Slots, NEW k \in Conns, k = Cardinality({j \in Conns : slot[j] # 0}) + 1
  PROVE  slot[k] = 0 /\ \A j \in Conns : slot[j] # 0 <=> j <= k - 1
<1>1. PICK c \in 0 .. NConns : \A j \in Conns : slot[j] # 0 <=> j <= c
  BY DEF Slots
<1>2. {j \in Conns : slot[j] # 0} = 1 .. c
  BY <1>1, Counts DEF Conns
<1>3. Cardinality(1 .. c) = c
  BY FS_Interval
<1>4. k = c + 1
  BY Zenon, <1>2, <1>3
<1> QED
  BY <1>1, <1>4 DEF Conns
-----------------------------------------------------------------------------
\* The steps of the threads of one flow: no thread becomes active that was
\* not, and no descriptor is lost but those of that flow.
Moves(p, q) ==
  LET Using == {"read", "reading", "write", "close_server", "close_client"}
  IN /\ p \notin {"none", "connect"} /\ q \notin {"none", "connect"}
     /\ q \in Using => p \in Using

\* A step of the threads of one flow that opens nothing: the places of the
\* flow move on, and each descriptor keeps its socket or is closed.
LEMMA ThreadStep ==
  ASSUME Core, NEW k \in Conns, thread[k]["sender"].pc # "connect",
         UNCHANGED <<n_flows, flows, slot>>,
         \A j \in Conns, s \in Roles :
           \/ thread'[j][s].pc = thread[j][s].pc
           \/ j = k /\ Moves(thread[j][s].pc, thread'[j][s].pc),
         \A d \in Fds :
           \/ fds'[d] = fds[d]
           \/ fds'[d] = NoFile /\ fds[d] \in {NoFile, <<k, "client">>, <<k, "server">>}
  PROVE  Slots' /\ Recorded' /\ Connecting' /\ Own'
<1>1. Slots'
  <2>1. ASSUME NEW j \in Conns, NEW s \in Roles, slot[j] = 0
        PROVE  thread'[j][s].pc = "none"
    <3>1. thread[j][s].pc = "none"
      BY <2>1 DEF Core, Slots
    <3> QED
      BY <3>1 DEF Moves
  <2> QED
    BY <2>1 DEF Core, Slots
<1>2. Recorded'
  <2> SUFFICES ASSUME NEW d \in Fds, NEW j \in Conns, NEW end \in Ends,
                      fds'[d] = <<j, end>>
               PROVE  slot[j] # 0 /\ Flow(j)[end] = d
    BY DEF Recorded, Flow
  <2>1. fds[d] = <<j, end>>
    BY Zenon, NotNoFile
  <2> QED
    BY <2>1 DEF Core, Recorded
<1>3. \A j \in Conns : thread'[j]["sender"].pc = "connect" =>
        /\ j # k
        /\ thread[j]["sender"].pc = "connect"
        /\ thread'[j]["receiver"].pc = thread[j]["receiver"].pc
  BY DEF Moves, Roles
<1>4. \A j \in Conns, s \in Roles : Active(j, s)' => Active(j, s)
  BY DEF Active, Moves
<1>5. ASSUME NEW j \in Conns, NEW end \in Ends, slot[j] # 0
      PROVE  /\ Flow(j)' = Flow(j)
             /\ FileOf(j, end)' \in {FileOf(j, end), NoFile}
             /\ j # k /\ FileOf(j, end) = <<j, end>> =>
                  FileOf(j, end)' = FileOf(j, end)
  <2>1. Flow(j)' = Flow(j) /\ Flow(j)[end] \in 0 .. 2 * NConns
    BY <1>5 DEF Flow, Core, TypeOK
  <2>2. Flow(j)[end] # 0 => Flow(j)[end] \in Fds
    BY <2>1, Counts DEF Fds
  <2>3. CASE Flow(j)[end] = 0
    BY Zenon, <2>1, <2>3 DEF FileOf
  <2>4. CASE Flow(j)[end] # 0
    <3>1. FileOf(j, end) = fds[Flow(j)[end]] /\ FileOf(j, end)' = fds'[Flow(j)[end]]
      BY ZenonT(30), <2>1, <2>4 DEF FileOf
    <3> QED
      BY <3>1, <2>1, <2>2, <2>4, NotNoFile
  <2> QED
    BY Zenon, <2>3, <2>4
<1>6. Connecting'
  <2> SUFFICES ASSUME NEW j \in Conns, thread'[j]["sender"].pc = "connect"
               PROVE  /\ thread'[j]["receiver"].pc = "none"
                      /\ Flow(j)'["server"] = 0
                      /\ FileOf(j, "client")' = <<j, "client">>
    BY DEF Connecting
  <2>1. /\ j # k /\ thread[j]["sender"].pc = "connect"
        /\ thread'[j]["receiver"].pc = "none"
        /\ Flow(j)["server"] = 0 /\ FileOf(j, "client") = <<j, "client">>
    BY Zenon, <1>3 DEF Core, Connecting
  <2>2. slot[j] # 0
    BY Zenon, <2>1 DEF Core, Slots, Roles
  <2> QED
    BY ZenonT(30), <2>1, <2>2, <1>5 DEF Ends
<1>7. Own'
  <2> SUFFICES ASSUME NEW j \in Conns, NEW s \in Roles, NEW end \in Ends, Active(j, s)'
               PROVE  FileOf(j, end)' \in {NoFile, <<j, end>>}
    BY DEF Own
  <2>1. Active(j, s)
    BY ZenonT(30), <1>4
  <2>2. slot[j] # 0
    BY Zenon, <2>1 DEF Core, Slots, Active
  <2>3. FileOf(j, end) \in {NoFile, <<j, end>>}
    BY <2>1 DEF Core, Own
  <2> QED
    BY ZenonT(30), <2>2, <2>3, <1>5
<1> QED
  BY Zenon, <1>1, <1>2, <1>6, <1>7

\* A thread that is past do_connect() belongs to a flow that is connected.
LEMMA Started ==
  ASSUME Core, NEW k \in Conns, NEW r \in Roles,
         thread[k][r].pc \notin {"none", "connect"}
  PROVE  thread[k]["sender"].pc # "connect"
BY DEF Core, Connecting, Roles

\* The streams, when neither they nor the buffers change.
LEMMA StreamFrame ==
  ASSUME OneStream, UNCHANGED <<input, answered, left, out>>,
         \A k \in Conns, r \in Roles : thread'[k][r].buf = thread[k][r].buf
  PROVE  OneStream'
<1> SUFFICES ASSUME NEW k \in Conns, NEW r \in Roles PROVE InTransit(k, r)'
  BY DEF OneStream
<1>1. InTransit(k, r)
  BY DEF OneStream
<1> QED
  BY Zenon, <1>1 DEF InTransit
-----------------------------------------------------------------------------
\* Before the first accept() no thread runs and no descriptor is open.
LEMMA InitInv == Init => IInv
<1> SUFFICES ASSUME Init PROVE hurried \in BOOLEAN /\ Core
  BY DEF IInv
<1>1. NConns \in Nat /\ MAX_FLOWS \in Nat
  BY ProxyConstants
<1>2. load \in Loads /\ \A k \in Conns : Requests(k) \in Nat
  BY ProxyConstants DEF Init, Requests
<1>3. Idle("none") \in ThreadStates /\ Idle("none").pc = "none" /\ Idle("none").buf = <<>>
  BY DEF Idle, ThreadStates, PCs
<1>4. ASSUME NEW k \in Conns, NEW end \in Ends
      PROVE  /\ input[<<k, end>>] \in Seq(Chunks)
             /\ end = "client" => \A n \in 1 .. Len(input[<<k, end>>]) :
                                    input[<<k, end>>][n] = Chunk(<<k, end>>, n)
             /\ end = "server" => Len(input[<<k, end>>]) = 0
  <2> DEFINE f == <<k, end>>
  <2>1. f \in Files /\ f[1] = k /\ f[2] = end
    BY DEF Files
  <2>2. input[f] = IF end = "client" THEN [n \in 1 .. Requests(k) |-> Chunk(f, n)]
                   ELSE <<>>
    BY Zenon, <2>1 DEF Init
  <2> HIDE DEF f
  <2>3. \A n \in 1 .. Requests(k) : Chunk(f, n) \in Chunks
    BY <2>1, <1>2 DEF Chunk, Chunks
  <2>4. CASE end = "client"
    <3>1. input[f] \in Seq(Chunks) /\ Len(input[f]) = Requests(k)
      BY <2>2, <2>3, <2>4, <1>2
    <3> QED
      BY Zenon, <2>2, <2>4, <3>1 DEF f
  <2>5. CASE end = "server"
    BY <2>2, <2>5 DEF f
  <2> QED
    BY Zenon, <2>4, <2>5 DEF Ends
<1>5. input \in [Files -> Seq(Chunks)]
  <2>1. \A f \in Files : input[f] \in Seq(Chunks)
    BY <1>4 DEF Files
  <2>2. DOMAIN input = Files /\ input = [f \in Files |-> input[f]]
    BY DEF Init
  <2> QED
    BY Zenon, <2>1, <2>2
<1>6. TypeOK
  <2>1. <<>> \in Seq(Chunks)
    OBVIOUS
  <2>2. [client |-> 0, server |-> 0] \in [Ends -> 0 .. 2 * NConns]
    BY <1>1 DEF Ends
  <2> QED
    BY <2>1, <2>2, <1>1, <1>2, <1>3, <1>5 DEF Init, TypeOK
<1>7. Slots
  <2>1. \A k \in Conns : slot[k] = 0 /\ ~(k <= 0)
    BY <1>1 DEF Init, Conns
  <2>2. 0 \in 0 .. NConns /\ \A j \in Conns : slot[j] # 0 <=> j <= 0
    BY <2>1, <1>1
  <2>3. \A x \in 1 .. MAX_FLOWS : flows[x]["server"] = 0
    BY DEF Init
  <2>4. \A k \in Conns, r \in Roles : thread[k][r].pc = "none"
    BY Zenon, <1>3 DEF Init
  <2>5. n_flows = 0
    BY DEF Init
  <2> QED
    BY <2>1, <2>2, <2>3, <2>4, <2>5 DEF Slots
<1>8. Recorded
  BY Zenon, NotNoFile DEF Init, Recorded
<1>9. \A k \in Conns, r \in Roles : thread[k][r].pc = "none" /\ thread[k][r].buf = <<>>
  BY Zenon, <1>3 DEF Init
<1>10. Connecting /\ Own /\ Reads
  BY Zenon, <1>9 DEF Connecting, Own, Active, Reads, Roles
<1>11. OneStream
  <2> SUFFICES ASSUME NEW k \in Conns, NEW r \in Roles PROVE InTransit(k, r)
    BY DEF OneStream
  <2>1. Source(r) \in Ends /\ Target(r) \in Ends
    BY DEF Source, Target, Ends
  <2>2. out[<<k, Target(r)>>] = <<>> /\ thread[k][r].buf = <<>> /\ answered[k] = 0
    BY Zenon, <2>1, <1>9 DEF Init, Files
  <2>3. Source(r) = "client" \/ Source(r) = "server"
    BY DEF Source
  <2>4. r = "receiver" => Source(r) = "server"
    BY DEF Source
  <2>5. Len(<<>>) = 0 /\ \A n : n \notin 1 .. 0
    OBVIOUS
  <2>6. \A n \in 1 .. Len(input[<<k, Source(r)>>]) :
          n \in Nat /\ input[<<k, Source(r)>>][n] = Chunk(<<k, Source(r)>>, n)
    BY <2>1, <2>3, <2>5, <1>4
  <2>7. Follows(<<k, Source(r)>>, <<>>, <<>>, input[<<k, Source(r)>>],
                left[<<k, Target(r)>>])
    BY <2>5, <2>6 DEF Follows
  <2>8. r = "receiver" => Len(input[<<k, Source(r)>>]) = 0
    BY ZenonT(30), <2>1, <2>4, <1>4
  <2> QED
    BY <2>2, <2>5, <2>7, <2>8 DEF InTransit
<1> QED
  BY Zenon, <1>6, <1>7, <1>8, <1>10, <1>11 DEF Core, Init
-----------------------------------------------------------------------------
\* The streams under a read(), a write(), a write() nobody receives, what the
\* peer sends and its leaving.
LEMMA FollowsRead ==
  ASSUME NEW src, NEW got \in Seq(Chunks), NEW u \in Seq(Chunks), NEW gone,
         Follows(src, got, <<>>, u, gone), NEW n \in 1 .. Len(u)
  PROVE  LET buf == SubSeq(u, 1, n)
             rest == SubSeq(u, n + 1, Len(u))
         IN /\ buf \in Seq(Chunks) /\ rest \in Seq(Chunks) /\ buf # <<>>
            /\ Len(buf) + Len(rest) = Len(u)
            /\ Follows(src, got, buf, rest, gone)
<1> DEFINE buf == SubSeq(u, 1, n)
           rest == SubSeq(u, n + 1, Len(u))
<1>1. Len(u) \in Nat /\ Len(got) \in Nat /\ n \in Nat /\ Len(<<>>) = 0
  OBVIOUS
<1>2. /\ buf \in Seq(Chunks) /\ Len(buf) = n
      /\ \A i \in 1 .. n : buf[i] = u[i]
  OBVIOUS
<1>3. /\ rest \in Seq(Chunks) /\ Len(rest) = Len(u) - n
      /\ \A i \in 1 .. Len(u) - n : rest[i] = u[n + i]
  OBVIOUS
<1>4. buf # <<>>
  BY <1>2
<1> HIDE DEF buf, rest
<1>5. ~gone => \A i \in 1 .. Len(u) : u[i] = Chunk(src, Len(got) + i)
  BY <1>1 DEF Follows
<1>6. ~gone => \A i \in 1 .. n : buf[i] = Chunk(src, Len(got) + i)
  BY <1>1, <1>2, <1>5
<1>7. ~gone => \A i \in 1 .. Len(rest) : rest[i] = Chunk(src, Len(got) + Len(buf) + i)
  <2> SUFFICES ASSUME ~gone, NEW i \in 1 .. Len(rest)
               PROVE  rest[i] = Chunk(src, Len(got) + Len(buf) + i)
    OBVIOUS
  <2>1. rest[i] = u[n + i] /\ n + i \in 1 .. Len(u)
    BY <1>1, <1>3
  <2>2. u[n + i] = Chunk(src, Len(got) + (n + i))
    BY Zenon, <2>1, <1>5
  <2>3. Len(got) + (n + i) = Len(got) + Len(buf) + i
    BY <1>1, <1>2
  <2> QED
    BY ZenonT(30), <2>1, <2>2, <2>3
<1>8. Follows(src, got, buf, rest, gone)
  BY Zenon, <1>2, <1>6, <1>7 DEF Follows
<1>9. Len(buf) + Len(rest) = Len(u)
  BY <1>1, <1>2, <1>3
<1> QED
  BY Zenon, <1>2, <1>3, <1>4, <1>8, <1>9 DEF buf, rest

\* write() moves the first chunk of the buffer to the peer.
LEMMA FollowsWrite ==
  ASSUME NEW src, NEW got \in Seq(Chunks), NEW buf \in Seq(Chunks), buf # <<>>,
         NEW u \in Seq(Chunks), NEW gone, ~gone, Follows(src, got, buf, u, gone)
  PROVE  LET new == Append(got, Head(buf))
         IN /\ new \in Seq(Chunks) /\ Tail(buf) \in Seq(Chunks)
            /\ Len(new) + Len(Tail(buf)) = Len(got) + Len(buf)
            /\ Follows(src, new, Tail(buf), u, gone)
<1> DEFINE new == Append(got, Head(buf))
           rest == Tail(buf)
<1>1. /\ Len(got) \in Nat /\ Len(buf) \in Nat \ {0} /\ Len(u) \in Nat
      /\ new \in Seq(Chunks) /\ Len(new) = Len(got) + 1
      /\ new[Len(got) + 1] = buf[1] /\ \A i \in 1 .. Len(got) : new[i] = got[i]
      /\ rest \in Seq(Chunks) /\ Len(rest) = Len(buf) - 1
      /\ \A i \in 1 .. Len(buf) - 1 : rest[i] = buf[i + 1]
  OBVIOUS
<1> HIDE DEF new, rest
<1>2. /\ \A i \in 1 .. Len(got) : got[i] = Chunk(src, i)
      /\ \A i \in 1 .. Len(buf) : buf[i] = Chunk(src, Len(got) + i)
      /\ \A i \in 1 .. Len(u) : u[i] = Chunk(src, Len(got) + Len(buf) + i)
  BY DEF Follows
<1>3. \A i \in 1 .. Len(new) : new[i] = Chunk(src, i)
  <2> TAKE i \in 1 .. Len(new)
  <2>1. i \in 1 .. Len(got) \/ i = Len(got) + 1
    BY <1>1
  <2>2. buf[1] = Chunk(src, Len(got) + 1)
    BY <1>1, <1>2
  <2> QED
    BY Zenon, <2>1, <2>2, <1>1, <1>2
<1>4. \A i \in 1 .. Len(rest) : rest[i] = Chunk(src, Len(new) + i)
  <2> TAKE i \in 1 .. Len(rest)
  <2>1. rest[i] = buf[i + 1] /\ i + 1 \in 1 .. Len(buf)
    BY <1>1
  <2>2. buf[i + 1] = Chunk(src, Len(got) + (i + 1))
    BY ZenonT(30), <2>1, <1>2
  <2>3. Len(got) + (i + 1) = Len(new) + i
    BY <1>1
  <2> QED
    BY Zenon, <2>1, <2>2, <2>3
<1>5. Len(new) + Len(rest) = Len(got) + Len(buf)
  BY <1>1
<1>6. Follows(src, new, rest, u, gone)
  BY Zenon, <1>2, <1>3, <1>4, <1>5 DEF Follows
<1> QED
  BY Zenon, <1>1, <1>5, <1>6 DEF new, rest

\* Once the peer is gone, what is not yet written follows nothing.
LEMMA FollowsLost ==
  ASSUME NEW src, NEW got, NEW buf, NEW rest, NEW u, NEW v, NEW gone,
         Follows(src, got, buf, u, gone)
  PROVE  Follows(src, got, rest, v, TRUE)
BY DEF Follows

\* A peer that sends adds the next chunk of its stream to what is unread.
LEMMA FollowsSend ==
  ASSUME NEW src, NEW got \in Seq(Chunks), NEW buf \in Seq(Chunks),
         NEW u \in Seq(Chunks), NEW gone, Follows(src, got, buf, u, gone),
         NEW c \in Chunks, ~gone => c = Chunk(src, Len(got) + Len(buf) + (Len(u) + 1))
  PROVE  LET new == Append(u, c)
         IN /\ new \in Seq(Chunks) /\ Len(new) = Len(u) + 1
            /\ Follows(src, got, buf, new, gone)
<1> DEFINE new == Append(u, c)
<1>1. /\ Len(got) \in Nat /\ Len(buf) \in Nat /\ Len(u) \in Nat
      /\ new \in Seq(Chunks) /\ Len(new) = Len(u) + 1
      /\ new[Len(u) + 1] = c /\ \A i \in 1 .. Len(u) : new[i] = u[i]
  OBVIOUS
<1> HIDE DEF new
<1>2. ~gone => \A i \in 1 .. Len(new) : new[i] = Chunk(src, Len(got) + Len(buf) + i)
  <2> SUFFICES ASSUME ~gone, NEW i \in 1 .. Len(new)
               PROVE  new[i] = Chunk(src, Len(got) + Len(buf) + i)
    OBVIOUS
  <2>1. CASE i \in 1 .. Len(u)
    BY Zenon, <2>1, <1>1 DEF Follows
  <2>2. CASE i = Len(u) + 1
    BY ZenonT(30), <2>2, <1>1
  <2> QED
    BY <2>1, <2>2, <1>1
<1> QED
  BY ZenonT(30), <1>1, <1>2 DEF Follows, new
-----------------------------------------------------------------------------
\* A thread between two calls.
LEMMA IdleState ==
  ASSUME NEW pc \in PCs
  PROVE  /\ Idle(pc) \in ThreadStates /\ Idle(pc).pc = pc
         /\ Idle(pc).file = NoFile /\ Idle(pc).buf = <<>>
BY DEF Idle, ThreadStates

\* A step of one thread leaves the state of the others.
LEMMA ThreadPut ==
  ASSUME TypeOK, NEW k \in Conns, NEW r \in Roles, NEW q \in ThreadStates,
         thread' = [thread EXCEPT ![k][r] = q]
  PROVE  /\ thread' \in [Conns -> [Roles -> ThreadStates]]
         /\ thread'[k][r] = q
         /\ \A j \in Conns, s \in Roles : j # k \/ s # r => thread'[j][s] = thread[j][s]
BY Zenon DEF TypeOK

\* A step of one thread that leaves the descriptors and the streams alone and
\* whose buffer is empty before and after it.
LEMMA GotoStep ==
  ASSUME Core, NEW k \in Conns, NEW r \in Roles, NEW q \in ThreadStates,
         thread' = [thread EXCEPT ![k][r] = q],
         Moves(thread[k][r].pc, q.pc), thread[k][r].pc # "write", q.pc # "write",
         q.buf = <<>>, q.pc = "reading" => q.file = <<k, Source(r)>>,
         UNCHANGED <<env, n_flows, flows, slot, out>>,
         fds' \in [Fds -> Files \cup {NoFile}],
         \A d \in Fds :
           \/ fds'[d] = fds[d]
           \/ fds'[d] = NoFile /\ fds[d] \in {NoFile, <<k, "client">>, <<k, "server">>}
  PROVE  Core'
<1>1. TypeOK /\ UNCHANGED <<load, input, answered, left>>
  BY DEF Core, env
<1>2. /\ thread' \in [Conns -> [Roles -> ThreadStates]]
      /\ thread'[k][r] = q
      /\ \A j \in Conns, s \in Roles : j # k \/ s # r => thread'[j][s] = thread[j][s]
  BY ZenonT(30), <1>1, ThreadPut
<1>3. TypeOK'
  BY <1>1, <1>2 DEF TypeOK
<1>4. thread[k][r].buf = <<>>
  BY DEF Core, Reads
<1>5. Slots' /\ Recorded' /\ Connecting' /\ Own'
  <2>1. thread[k]["sender"].pc # "connect"
    BY Started DEF Moves
  <2>2. \A j \in Conns, s \in Roles :
          \/ thread'[j][s].pc = thread[j][s].pc
          \/ j = k /\ Moves(thread[j][s].pc, thread'[j][s].pc)
    BY Zenon, <1>2
  <2> QED
    BY <2>1, <2>2, ThreadStep
<1>6. Reads'
  BY <1>2 DEF Core, Reads
<1>7. OneStream'
  <2>1. \A j \in Conns, s \in Roles : thread'[j][s].buf = thread[j][s].buf
    BY Zenon, <1>2, <1>4
  <2> QED
    BY ZenonT(30), <1>1, <2>1, StreamFrame DEF Core
<1> QED
  BY Zenon, <1>3, <1>5, <1>6, <1>7 DEF Core

\* read() starts: it takes the file behind the descriptor, which is the
\* socket of the thread's own flow, or ends the loop.
LEMMA ReadStartInv ==
  ASSUME Core, NEW k \in Conns, NEW r \in Roles, ReadStart(k, r)
  PROVE  Core'
<1> DEFINE f == FileOf(k, Source(r))
           q == IF f = NoFile THEN Idle("close_server")
                ELSE [Idle("reading") EXCEPT !.file = f]
<1>1. /\ thread[k][r].pc = "read"
      /\ thread' = [thread EXCEPT ![k][r] = q]
      /\ UNCHANGED <<env, n_flows, flows, slot, out, fds>>
  BY DEF ReadStart, Goto
<1>2. f \in {NoFile, <<k, Source(r)>>} /\ f \in Files \cup {NoFile}
  <2>1. Active(k, r)
    BY Zenon, <1>1 DEF Active
  <2>2. Source(r) \in Ends
    BY DEF Source, Ends
  <2> QED
    BY ZenonT(30), <2>1, <2>2, NotNoFile DEF Core, Own
<1> HIDE DEF f
<1>3. /\ q \in ThreadStates /\ q.buf = <<>>
      /\ q.pc \in {"reading", "close_server"}
      /\ q.pc = "reading" => q.file = <<k, Source(r)>>
  <2>1. CASE f = NoFile
    <3>1. "close_server" \in PCs
      BY DEF PCs
    <3> QED
      BY Zenon, <2>1, <3>1, IdleState
  <2>2. CASE f # NoFile
    <3>1. q = [pc |-> "reading", file |-> f, buf |-> <<>>]
      BY Zenon, <2>2 DEF Idle
    <3> HIDE DEF q
    <3>2. q.pc = "reading" /\ q.file = f /\ q.buf = <<>> /\ q \in ThreadStates
      BY <3>1, <1>2 DEF ThreadStates, PCs
    <3> QED
      BY Zenon, <3>2, <2>2, <1>2
  <2> QED
    BY Zenon, <2>1, <2>2
<1> HIDE DEF q
<1>4. Moves(thread[k][r].pc, q.pc) /\ thread[k][r].pc # "write" /\ q.pc # "write"
  BY Zenon, <1>1, <1>3 DEF Moves
<1>5. fds' \in [Fds -> Files \cup {NoFile}] /\ \A d \in Fds : fds'[d] = fds[d]
  BY Zenon, <1>1 DEF Core, TypeOK
<1> QED
  BY Zenon, <1>1, <1>3, <1>4, <1>5, GotoStep

\* read() meets the end of the stream.
LEMMA ReadEndInv ==
  ASSUME Core, NEW k \in Conns, NEW r \in Roles, ReadEnd(k, r)
  PROVE  Core'
<1> DEFINE q == Idle("close_server")
<1>1. /\ thread[k][r].pc = "reading"
      /\ thread' = [thread EXCEPT ![k][r] = q]
      /\ UNCHANGED <<env, n_flows, flows, slot, out, fds>>
  BY DEF ReadEnd, Goto
<1>2. q \in ThreadStates /\ q.buf = <<>> /\ q.pc = "close_server"
  <2>1. "close_server" \in PCs
    BY DEF PCs
  <2> QED
    BY Zenon, <2>1, IdleState
<1> HIDE DEF q
<1>3. Moves(thread[k][r].pc, q.pc)
  BY Zenon, <1>1, <1>2 DEF Moves
<1>4. fds' \in [Fds -> Files \cup {NoFile}] /\ \A d \in Fds : fds'[d] = fds[d]
  BY Zenon, <1>1 DEF Core, TypeOK
<1> QED
  BY Zenon, <1>1, <1>2, <1>3, <1>4, GotoStep

\* close() of a descriptor of the flow, which is its own socket or closed.
LEMMA CloseInv ==
  ASSUME Core, NEW k \in Conns, NEW r \in Roles, NEW end \in Ends, Close(k, r, end)
  PROVE  Core'
<1> DEFINE q == Idle(After(r, Closing[end]))
<1>1. /\ thread[k][r].pc = Closing[end]
      /\ thread' = [thread EXCEPT ![k][r] = q]
      /\ fds' = [d \in Fds |-> IF d = Flow(k)[end] THEN NoFile ELSE fds[d]]
      /\ UNCHANGED <<env, n_flows, flows, slot, out>>
  BY Zenon DEF Close, Goto
<1>2. Closing[end] \in {"close_server", "close_client"}
  BY DEF Closing, Ends
<1>3. After(r, Closing[end]) \in {"close_client", "kill", "done"}
  BY Zenon, <1>2 DEF After
<1>4. q \in ThreadStates /\ q.buf = <<>> /\ q.pc \in {"close_client", "kill", "done"}
  <2>1. After(r, Closing[end]) \in PCs
    BY Zenon, <1>3 DEF PCs
  <2> QED
    BY Zenon, <2>1, <1>3, IdleState
<1> HIDE DEF q
<1>5. Moves(thread[k][r].pc, q.pc) /\ q.pc # "reading" /\ q.pc # "write"
      /\ thread[k][r].pc # "write"
  BY Zenon, <1>1, <1>2, <1>4 DEF Moves
<1>6. Active(k, r)
  BY Zenon, <1>1, <1>2 DEF Active
<1>7. fds' \in [Fds -> Files \cup {NoFile}]
  BY Zenon, <1>1 DEF Core, TypeOK
<1>8. ASSUME NEW d \in Fds
      PROVE  \/ fds'[d] = fds[d]
             \/ fds'[d] = NoFile /\ fds[d] \in {NoFile, <<k, "client">>, <<k, "server">>}
  <2>1. CASE d # Flow(k)[end]
    BY <2>1, <1>1
  <2>2. CASE d = Flow(k)[end]
    <3>1. d # 0
      BY Counts DEF Fds
    <3>2. FileOf(k, end) = fds[d]
      BY Zenon, <2>2, <3>1 DEF FileOf
    <3>3. fds[d] \in {NoFile, <<k, end>>}
      BY <3>2, <1>6 DEF Core, Own
    <3> QED
      BY Zenon, <2>2, <3>3, <1>1 DEF Ends
  <2> QED
    BY <2>1, <2>2
<1> QED
  BY Zenon, <1>1, <1>4, <1>5, <1>7, <1>8, GotoStep

\* The sender ends after pthread_join().
LEMMA JoinInv == ASSUME Core, NEW k \in Conns, Join(k) PROVE Core'
<1> DEFINE q == Idle("done")
           r == "sender"
<1>1. /\ r \in Roles /\ thread[k][r].pc = "join"
      /\ thread' = [thread EXCEPT ![k][r] = q]
      /\ UNCHANGED <<env, n_flows, flows, slot, out, fds>>
  BY DEF Join, Goto, Roles
<1>2. q \in ThreadStates /\ q.buf = <<>> /\ q.pc = "done"
  <2>1. "done" \in PCs
    BY DEF PCs
  <2> QED
    BY Zenon, <2>1, IdleState
<1> HIDE DEF q, r
<1>3. Moves(thread[k][r].pc, q.pc)
  BY Zenon, <1>1, <1>2 DEF Moves
<1>4. fds' \in [Fds -> Files \cup {NoFile}] /\ \A d \in Fds : fds'[d] = fds[d]
  BY Zenon, <1>1 DEF Core, TypeOK
<1> QED
  BY Zenon, <1>1, <1>2, <1>3, <1>4, GotoStep

\* pthread_kill() sends the receiver back to the start of its read().
LEMMA KillInv == ASSUME Core, NEW k \in Conns, Kill(k) PROVE Core'
<1> DEFINE p == thread[k]["receiver"]
           q == Idle("join")
           t == IF p.pc = "reading" THEN Idle("read") ELSE p
<1>1. /\ thread[k]["sender"].pc = "kill"
      /\ thread' = [thread EXCEPT ![k] = [sender |-> q, receiver |-> t]]
      /\ UNCHANGED <<load, input, answered, left, n_flows, flows, slot, fds, out>>
  BY Zenon DEF Kill, After, env
<1>2. TypeOK /\ p \in ThreadStates /\ "sender" \in Roles /\ "receiver" \in Roles
  BY DEF Core, TypeOK, Roles
<1>3. q \in ThreadStates /\ q.buf = <<>> /\ q.pc = "join"
  <2>1. "join" \in PCs
    BY Zenon DEF PCs
  <2> QED
    BY Zenon, <2>1, IdleState
<1>4. /\ t \in ThreadStates /\ t.buf = p.buf
      /\ t = p \/ (t.pc = "read" /\ p.pc = "reading")
  <2>1. "read" \in PCs
    BY DEF PCs
  <2>2. p.pc = "reading" => p.buf = <<>>
    BY Zenon, <1>2 DEF Core, Reads
  <2> QED
    BY <2>1, <2>2, <1>2, IdleState
<1>5. thread[k]["sender"].buf = <<>>
  BY Zenon, <1>1, <1>2 DEF Core, Reads
<1> HIDE DEF q, t
<1>6. /\ thread' \in [Conns -> [Roles -> ThreadStates]]
      /\ thread'[k]["sender"] = q /\ thread'[k]["receiver"] = t
      /\ \A j \in Conns, s \in Roles : j # k => thread'[j][s] = thread[j][s]
  <2>1. [sender |-> q, receiver |-> t] \in [Roles -> ThreadStates]
    BY <1>3, <1>4 DEF Roles
  <2> QED
    BY Zenon, <2>1, <1>1, <1>2 DEF TypeOK
<1>7. TypeOK'
  BY <1>1, <1>2, <1>6 DEF TypeOK
<1>8. Slots' /\ Recorded' /\ Connecting' /\ Own'
  <2>1. ASSUME NEW j \in Conns, NEW s \in Roles
        PROVE  \/ thread'[j][s].pc = thread[j][s].pc
               \/ j = k /\ Moves(thread[j][s].pc, thread'[j][s].pc)
    <3>1. CASE j # k
      BY Zenon, <3>1, <1>6
    <3>2. CASE j = k /\ s = "sender"
      BY Zenon, <3>2, <1>1, <1>3, <1>6 DEF Moves
    <3>3. CASE j = k /\ s = "receiver"
      BY Zenon, <3>3, <1>4, <1>6 DEF Moves
    <3> QED
      BY Zenon, <3>1, <3>2, <3>3 DEF Roles
  <2> QED
    BY Zenon, <1>1, <2>1, ThreadStep
<1>9. Reads'
  <2> SUFFICES ASSUME NEW j \in Conns, NEW s \in Roles
               PROVE  /\ thread'[j][s].pc = "reading" =>
                           thread'[j][s].file = <<j, Source(s)>>
                      /\ thread'[j][s].buf # <<>> <=> thread'[j][s].pc = "write"
    BY Zenon DEF Reads
  <2>1. CASE j # k
    BY ZenonT(30), <2>1, <1>6 DEF Core, Reads
  <2>2. CASE j = k /\ s = "sender"
    BY ZenonT(30), <2>2, <1>3, <1>6
  <2>3. CASE j = k /\ s = "receiver"
    BY ZenonT(30), <2>3, <1>4, <1>6 DEF Core, Reads
  <2> QED
    BY Zenon, <2>1, <2>2, <2>3 DEF Roles
<1>10. OneStream'
  <2>1. \A j \in Conns, s \in Roles : thread'[j][s].buf = thread[j][s].buf
    BY Zenon, <1>3, <1>4, <1>5, <1>6 DEF Roles
  <2> QED
    BY ZenonT(30), <1>1, <2>1, StreamFrame DEF Core
<1> QED
  BY Zenon, <1>7, <1>8, <1>9, <1>10 DEF Core

\* What an end reads from and writes to, and that these are different sockets
\* for the two threads of a flow and for those of different flows.
LEMMA EndsApart ==
  /\ \A r \in Roles : Source(r) \in Ends /\ Target(r) \in Ends
  /\ \A r, s \in Roles : r # s => Source(r) # Source(s) /\ Target(r) # Target(s)
BY DEF Roles, Ends, Source, Target

\* read() moves the first chunks from the socket to the buffer.
LEMMA ReadDataInv ==
  ASSUME Core, NEW k \in Conns, NEW r \in Roles, NEW n \in Nat, ReadData(k, r, n)
  PROVE  Core'
<1> DEFINE f == <<k, Source(r)>>
           u == input[f]
           buf == SubSeq(u, 1, n)
           rest == SubSeq(u, n + 1, Len(u))
           q == [Idle("write") EXCEPT !.buf = buf]
           dst == <<k, Target(r)>>
<1>1. /\ thread[k][r].pc = "reading" /\ thread[k][r].file = f
      /\ thread[k][r].buf = <<>>
  BY DEF ReadData, Core, Reads
<1>2. /\ n \in 1 .. Len(u)
      /\ thread' = [thread EXCEPT ![k][r] = q]
      /\ input' = [input EXCEPT ![f] = rest]
      /\ UNCHANGED <<load, answered, left, n_flows, flows, slot, fds, out>>
  BY Zenon, <1>1 DEF ReadData
<1>3. TypeOK /\ f \in Files /\ dst \in Files /\ u \in Seq(Chunks)
      /\ out[dst] \in Seq(Chunks)
  BY Zenon, EndsApart DEF Core, TypeOK, Files
<1>4. /\ Follows(f, out[dst], <<>>, u, left[dst])
      /\ r = "receiver" /\ ~left[dst] => answered[k] = Len(out[dst]) + 0 + Len(u)
  <2>1. InTransit(k, r)
    BY DEF Core, OneStream
  <2> QED
    BY Zenon, <2>1, <1>1 DEF InTransit
<1>5. /\ buf \in Seq(Chunks) /\ rest \in Seq(Chunks) /\ buf # <<>>
      /\ Len(buf) + Len(rest) = Len(u)
      /\ Follows(f, out[dst], buf, rest, left[dst])
  BY Zenon, <1>2, <1>3, <1>4, FollowsRead
<1> HIDE DEF buf, rest
<1>6. q \in ThreadStates /\ q.pc = "write" /\ q.buf = buf
  <2>1. q = [pc |-> "write", file |-> NoFile, buf |-> buf]
    BY DEF Idle
  <2> HIDE DEF q
  <2> QED
    BY Zenon, <2>1, <1>5 DEF ThreadStates, PCs
<1> HIDE DEF q
<1>7. /\ thread' \in [Conns -> [Roles -> ThreadStates]]
      /\ thread'[k][r] = q
      /\ \A j \in Conns, s \in Roles : j # k \/ s # r => thread'[j][s] = thread[j][s]
  BY ZenonT(30), <1>2, <1>3, <1>6, ThreadPut
<1>8. TypeOK'
  BY Zenon, <1>2, <1>3, <1>5, <1>7 DEF TypeOK
<1>9. Slots' /\ Recorded' /\ Connecting' /\ Own'
  <2>1. thread[k]["sender"].pc # "connect"
    BY Zenon, <1>1, Started
  <2>2. \A j \in Conns, s \in Roles :
          \/ thread'[j][s].pc = thread[j][s].pc
          \/ j = k /\ Moves(thread[j][s].pc, thread'[j][s].pc)
    BY Zenon, <1>1, <1>6, <1>7 DEF Moves
  <2> QED
    BY Zenon, <1>2, <2>1, <2>2, ThreadStep
<1>10. Reads'
  BY <1>5, <1>6, <1>7 DEF Core, Reads
<1>11. OneStream'
  <2> SUFFICES ASSUME NEW j \in Conns, NEW s \in Roles PROVE InTransit(j, s)'
    BY DEF OneStream
  <2>1. CASE j # k \/ s # r
    <3>1. <<j, Source(s)>> # f /\ <<j, Source(s)>> \in Files
      BY ZenonT(30), <2>1, EndsApart DEF Files
    <3>2. input'[<<j, Source(s)>>] = input[<<j, Source(s)>>]
      BY Zenon, <3>1, <1>2, <1>3 DEF TypeOK
    <3>3. thread'[j][s] = thread[j][s]
      BY ZenonT(30), <2>1, <1>7
    <3>4. InTransit(j, s)
      BY DEF Core, OneStream
    <3> QED
      BY Zenon, <3>2, <3>3, <3>4, <1>2 DEF InTransit
  <2>2. CASE j = k /\ s = r
    <3>1. input'[f] = rest /\ thread'[k][r].buf = buf
      BY Zenon, <1>2, <1>3, <1>6, <1>7 DEF TypeOK
    <3>2. Len(out[dst]) \in Nat /\ Len(buf) \in Nat /\ Len(rest) \in Nat
      BY <1>3, <1>5
    <3>3. Len(out[dst]) + 0 + Len(u) = Len(out[dst]) + Len(buf) + Len(rest)
      <4> DEFINE a == Len(out[dst])
                 b == Len(buf)
                 c == Len(rest)
                 d == Len(u)
      <4>1. a \in Nat /\ b \in Nat /\ c \in Nat /\ b + c = d
        BY Zenon, <3>2, <1>5
      <4> HIDE DEF a, b, c, d
      <4>2. a + 0 + d = a + b + c
        BY <4>1
      <4> QED
        BY Zenon, <4>2 DEF a, b, c, d
    <3> QED
      BY Zenon, <2>2, <3>1, <3>3, <1>2, <1>4, <1>5 DEF InTransit
  <2> QED
    BY ZenonT(30), <2>1, <2>2
<1> QED
  BY Zenon, <1>8, <1>9, <1>10, <1>11 DEF Core

\* A step that touches no descriptor and no thread, as those of the peers.
LEMMA PeerFrame ==
  ASSUME Core, TypeOK', OneStream', UNCHANGED <<n_flows, flows, slot, fds, thread>>
  PROVE  Core'
<1>1. Slots'
  BY Zenon DEF Core, Slots
<1>2. Recorded'
  BY ZenonT(30) DEF Core, Recorded, Flow
<1>3. Connecting'
  BY Zenon DEF Core, Connecting, FileOf, Flow
<1>4. Own'
  BY Zenon DEF Core, Own, Active, FileOf, Flow
<1>5. Reads'
  BY Zenon DEF Core, Reads
<1> QED
  BY <1>1, <1>2, <1>3, <1>4, <1>5 DEF Core

\* A round of the loop of write(): the first chunk of the buffer goes to the
\* other socket of the same flow, or is lost when the peer is gone.
LEMMA WriteInv ==
  ASSUME Core, NEW k \in Conns, NEW r \in Roles, Write(k, r)
  PROVE  Core'
<1> DEFINE src == <<k, Source(r)>>
           dst == <<k, Target(r)>>
           p == thread[k][r]
           rest == Tail(p.buf)
           q == IF rest = <<>> THEN Idle("read") ELSE [p EXCEPT !.buf = rest]
           new == IF left[dst] THEN out[dst] ELSE Append(out[dst], Head(p.buf))
<1>1. /\ p.pc = "write"
      /\ UNCHANGED <<load, input, answered, left, n_flows, flows, slot, fds>>
  BY Zenon DEF Write, env
<1>2. CASE UNCHANGED <<out, thread>>
  <2>1. TypeOK'
    BY <1>1, <1>2 DEF Core, TypeOK
  <2>2. OneStream'
    BY Zenon, <1>1, <1>2, StreamFrame DEF Core
  <2> QED
    BY <2>1, <2>2, <1>1, <1>2, PeerFrame
<1>3. CASE /\ FileOf(k, Target(r)) # NoFile
           /\ out' = [out EXCEPT ![FileOf(k, Target(r))] =
                        IF left[FileOf(k, Target(r))] THEN @ ELSE Append(@, Head(p.buf))]
           /\ thread' = [thread EXCEPT ![k][r] = q]
  <2>1. FileOf(k, Target(r)) = dst
    <3>1. Active(k, r)
      BY Zenon, <1>1 DEF Active
    <3> QED
      BY Zenon, <3>1, <1>3, EndsApart DEF Core, Own
  <2>2. out' = [out EXCEPT ![dst] = new] /\ thread' = [thread EXCEPT ![k][r] = q]
    BY <1>3, <2>1
  <2>3. /\ TypeOK /\ src \in Files /\ dst \in Files
        /\ out[dst] \in Seq(Chunks) /\ input[src] \in Seq(Chunks)
        /\ p \in ThreadStates /\ p.buf \in Seq(Chunks) /\ left[dst] \in BOOLEAN
    <3>1. TypeOK
      BY DEF Core
    <3>2. src \in Files /\ dst \in Files
      BY Zenon, EndsApart DEF Files
    <3>3. out[dst] \in Seq(Chunks) /\ input[src] \in Seq(Chunks) /\ left[dst] \in BOOLEAN
      <4> HIDE DEF src, dst
      <4> QED
        BY Zenon, <3>1, <3>2 DEF TypeOK
    <3>4. p \in ThreadStates
      BY Zenon, <3>1 DEF TypeOK
    <3>5. p.buf \in Seq(Chunks)
      <4> HIDE DEF p
      <4> QED
        BY Zenon, <3>4 DEF ThreadStates
    <3> QED
      BY Zenon, <3>1, <3>2, <3>3, <3>4, <3>5
  <2>4. p.buf # <<>>
    BY Zenon, <1>1 DEF Core, Reads
  <2>5. /\ Follows(src, out[dst], p.buf, input[src], left[dst])
        /\ r = "receiver" /\ ~left[dst] =>
             answered[k] = Len(out[dst]) + Len(p.buf) + Len(input[src])
    <3>1. InTransit(k, r)
      BY Zenon DEF Core, OneStream
    <3> QED
      BY Zenon, <3>1 DEF InTransit
  <2>6. rest \in Seq(Chunks)
    BY <2>3, <2>4
  <2>7. /\ new \in Seq(Chunks)
        /\ ~left[dst] => Len(new) + Len(rest) = Len(out[dst]) + Len(p.buf)
        /\ Follows(src, new, rest, input[src], left[dst])
    <3>1. CASE left[dst]
      <4>1. new = out[dst] /\ left[dst] = TRUE
        BY Zenon, <3>1, <2>3
      <4>2. Follows(src, new, rest, input[src], TRUE)
        BY Zenon, <4>1, <2>5, FollowsLost
      <4> QED
        BY Zenon, <4>1, <4>2, <2>3
    <3>2. CASE ~left[dst]
      <4> DEFINE got == out[dst]
                 b == p.buf
                 v == input[src]
                 gone == left[dst]
      <4>1. /\ got \in Seq(Chunks) /\ b \in Seq(Chunks) /\ b # <<>> /\ v \in Seq(Chunks)
            /\ ~gone /\ Follows(src, got, b, v, gone)
        BY Zenon, <3>2, <2>3, <2>4, <2>5
      <4>2. new = Append(got, Head(b)) /\ rest = Tail(b)
        BY Zenon, <3>2
      <4> HIDE DEF got, b, v, gone, src, new, rest
      <4>3. /\ Append(got, Head(b)) \in Seq(Chunks)
            /\ Len(Append(got, Head(b))) + Len(Tail(b)) = Len(got) + Len(b)
            /\ Follows(src, Append(got, Head(b)), Tail(b), v, gone)
        BY <4>1, FollowsWrite
      <4>4. /\ new \in Seq(Chunks)
            /\ Len(new) + Len(rest) = Len(got) + Len(b)
            /\ Follows(src, new, rest, v, gone)
        BY Zenon, <4>2, <4>3
      <4> QED
        BY Zenon, <4>4 DEF got, b, v, gone
    <3> QED
      BY Zenon, <3>1, <3>2
  <2> HIDE DEF new, rest
  <2>8. /\ q \in ThreadStates /\ q.buf = rest /\ q.pc \in {"read", "write"}
        /\ rest # <<>> <=> q.pc = "write"
    <3>1. CASE rest = <<>>
      <4>1. "read" \in PCs
        BY DEF PCs
      <4>2. q = Idle("read")
        BY ZenonT(30), <3>1
      <4> QED
        BY ZenonT(30), <3>1, <4>1, <4>2, IdleState
    <3>2. CASE rest # <<>>
      <4>1. q = [p EXCEPT !.buf = rest]
        BY ZenonT(30), <3>2
      <4> HIDE DEF q
      <4>2. q \in ThreadStates /\ q.pc = p.pc /\ q.buf = rest
        <5> HIDE DEF p
        <5> QED
          BY Zenon, <4>1, <2>3, <2>6 DEF ThreadStates
      <4> QED
        BY ZenonT(30), <3>2, <4>2, <1>1
    <3> QED
      BY ZenonT(30), <3>1, <3>2
  <2> HIDE DEF q
  <2>9. /\ thread' \in [Conns -> [Roles -> ThreadStates]]
        /\ thread'[k][r] = q
        /\ \A j \in Conns, s \in Roles : j # k \/ s # r => thread'[j][s] = thread[j][s]
    <3>1. TypeOK /\ q \in ThreadStates /\ thread' = [thread EXCEPT ![k][r] = q]
      BY <2>2, <2>3, <2>8
    <3> QED
      BY ZenonT(30), <3>1, ThreadPut
  <2>10. TypeOK'
    BY SMTT(30), <1>1, <2>2, <2>3, <2>7, <2>9 DEF TypeOK
  <2>11. Slots' /\ Recorded' /\ Connecting' /\ Own'
    <3>1. thread[k]["sender"].pc # "connect"
      BY Zenon, <1>1, Started
    <3>2. \A j \in Conns, s \in Roles :
            \/ thread'[j][s].pc = thread[j][s].pc
            \/ j = k /\ Moves(thread[j][s].pc, thread'[j][s].pc)
      BY Zenon, <1>1, <2>8, <2>9 DEF Moves
    <3> QED
      BY Zenon, <1>1, <3>1, <3>2, ThreadStep
  <2>12. Reads'
    BY <2>8, <2>9 DEF Core, Reads
  <2>13. OneStream'
    <3> SUFFICES ASSUME NEW j \in Conns, NEW s \in Roles PROVE InTransit(j, s)'
      BY DEF OneStream
    <3>1. CASE j # k \/ s # r
      <4>1. <<j, Target(s)>> # dst /\ <<j, Target(s)>> \in Files
        BY ZenonT(30), <3>1, EndsApart DEF Files
      <4>2. out'[<<j, Target(s)>>] = out[<<j, Target(s)>>]
        BY ZenonT(30), <4>1, <2>2, <2>3 DEF TypeOK
      <4>3. thread'[j][s] = thread[j][s]
        BY ZenonT(30), <3>1, <2>9
      <4>4. InTransit(j, s)
        BY DEF Core, OneStream
      <4> QED
        BY Zenon, <4>2, <4>3, <4>4, <1>1 DEF InTransit
    <3>2. CASE j = k /\ s = r
      <4>1. out'[dst] = new /\ thread'[k][r].buf = rest
        BY Zenon, <2>2, <2>3, <2>8, <2>9 DEF TypeOK
      <4> QED
        BY Zenon, <3>2, <4>1, <1>1, <2>5, <2>7 DEF InTransit
    <3> QED
      BY ZenonT(30), <3>1, <3>2
  <2> QED
    BY <2>10, <2>11, <2>12, <2>13 DEF Core
<1> QED
  BY Zenon, <1>2, <1>3 DEF Write, Rest, Goto
-----------------------------------------------------------------------------
\* The server sends the chunk that follows those it has sent.
LEMMA ServerAnswersInv ==
  ASSUME Core, NEW k \in Conns, ServerAnswers(k)
  PROVE  Core'
<1> DEFINE f == <<k, "server">>
           c == Chunk(f, answered[k] + 1)
           new == Append(input[f], c)
<1>1. /\ answered' = [answered EXCEPT ![k] = @ + 1]
      /\ input' = [input EXCEPT ![f] = new]
      /\ UNCHANGED <<load, left, n_flows, flows, slot, fds, thread, out>>
  BY DEF ServerAnswers
<1>2. f \in Files /\ answered[k] \in Nat /\ c \in Chunks /\ TypeOK
  <2>1. f \in Files
    BY Zenon DEF Files, Ends
  <2>2. TypeOK /\ answered[k] \in Nat
    BY DEF Core, TypeOK
  <2>3. answered[k] + 1 \in Nat
    BY <2>2
  <2>4. c \in Chunks
    BY Zenon, <2>1, <2>3 DEF Chunk, Chunks
  <2> QED
    BY Zenon, <2>1, <2>2, <2>4
<1>3. new \in Seq(Chunks)
  BY <1>2 DEF TypeOK
<1>4. TypeOK'
  BY <1>1, <1>2, <1>3 DEF TypeOK
<1>5. OneStream'
  <2> SUFFICES ASSUME NEW j \in Conns, NEW s \in Roles PROVE InTransit(j, s)'
    BY DEF OneStream
  <2>1. InTransit(j, s)
    BY DEF Core, OneStream
  <2>2. CASE j # k \/ s = "sender"
    <3>1. <<j, Source(s)>> # f /\ <<j, Source(s)>> \in Files
      BY Zenon, <2>2, EndsApart DEF Files, Source
    <3>2. input'[<<j, Source(s)>>] = input[<<j, Source(s)>>]
      BY Zenon, <3>1, <1>1, <1>2 DEF TypeOK
    <3>3. s = "receiver" => answered'[j] = answered[j]
      BY Zenon, <2>2, <1>1, <1>2 DEF TypeOK
    <3> QED
      BY Zenon, <2>1, <3>2, <3>3, <1>1 DEF InTransit
  <2>3. CASE j = k /\ s = "receiver"
    <3> DEFINE dst == <<k, "client">>
               got == out[dst]
               buf == thread[k]["receiver"].buf
               u == input[f]
               gone == left[dst]
               n == answered[k]
    <3>1. dst \in Files
      BY Zenon DEF Files, Ends
    <3>2. /\ got \in Seq(Chunks) /\ buf \in Seq(Chunks) /\ u \in Seq(Chunks)
          /\ n \in Nat
      BY Zenon, <3>1, <1>2 DEF TypeOK, Roles, ThreadStates
    <3>3. Follows(f, got, buf, u, gone) /\ (~gone => n = Len(got) + Len(buf) + Len(u))
      BY Zenon, <2>1, <2>3 DEF InTransit, Source, Target
    <3>4. /\ input'[f] = Append(u, Chunk(f, n + 1)) /\ answered'[k] = n + 1
          /\ Chunk(f, n + 1) \in Chunks
      BY Zenon, <1>1, <1>2 DEF TypeOK
    <3>5. /\ InTransit(k, "receiver")' <=>
               /\ Follows(f, got, buf, input'[f], gone)
               /\ ~gone => answered'[k] = Len(got) + Len(buf) + Len(input'[f])
      BY Zenon, <1>1 DEF InTransit, Source, Target
    <3> HIDE DEF got, buf, u, gone, n, f
    <3>6. ~gone => n + 1 = Len(got) + Len(buf) + (Len(u) + 1)
      <4>1. Len(got) \in Nat /\ Len(buf) \in Nat /\ Len(u) \in Nat
        BY <3>2
      <4> QED
        BY <4>1, <3>3
    <3>7. /\ Len(Append(u, Chunk(f, n + 1))) = Len(u) + 1
          /\ Follows(f, got, buf, Append(u, Chunk(f, n + 1)), gone)
      <4> DEFINE x == Chunk(f, n + 1)
      <4>1. x \in Chunks /\ (~gone => x = Chunk(f, Len(got) + Len(buf) + (Len(u) + 1)))
        BY Zenon, <3>4, <3>6
      <4> HIDE DEF x
      <4>2. Len(Append(u, x)) = Len(u) + 1 /\ Follows(f, got, buf, Append(u, x), gone)
        BY <4>1, <3>2, <3>3, FollowsSend
      <4> QED
        BY Zenon, <4>2 DEF x
    <3>8. InTransit(k, "receiver")'
      BY ZenonT(30), <3>4, <3>5, <3>6, <3>7
    <3> QED
      BY <3>8, <2>3
  <2> QED
    BY Zenon, <2>2, <2>3 DEF Roles
<1> QED
  BY Zenon, <1>1, <1>4, <1>5, PeerFrame

\* A peer that closes its end loses what is written to it from then on.
LEMMA PeerClosesInv ==
  ASSUME Core, NEW k \in Conns, NEW end \in Ends, PeerCloses(k, end)
  PROVE  Core'
<1> DEFINE f == <<k, end>>
<1>1. /\ left' = [left EXCEPT ![f] = TRUE]
      /\ UNCHANGED <<load, input, answered, n_flows, flows, slot, fds, thread, out>>
  BY DEF PeerCloses
<1>2. TypeOK /\ f \in Files
  BY ZenonT(30) DEF Core, Files
<1>3. TypeOK'
  BY ZenonT(30), <1>1, <1>2 DEF TypeOK
<1>4. OneStream'
  <2> SUFFICES ASSUME NEW j \in Conns, NEW s \in Roles PROVE InTransit(j, s)'
    BY DEF OneStream
  <2> DEFINE src == <<j, Source(s)>>
             dst == <<j, Target(s)>>
  <2>1. /\ Follows(src, out[dst], thread[j][s].buf, input[src], left[dst])
        /\ s = "receiver" /\ ~left[dst] =>
             answered[j] = Len(out[dst]) + Len(thread[j][s].buf) + Len(input[src])
    BY Zenon DEF Core, OneStream, InTransit
  <2>2. dst \in Files
    BY ZenonT(30), EndsApart DEF Files
  <2>3. CASE dst = f
    <3>1. left'[dst] = TRUE
      BY ZenonT(30), <2>2, <2>3, <1>1, <1>2 DEF TypeOK
    <3>2. Follows(src, out[dst], thread[j][s].buf, input[src], TRUE)
      BY Zenon, <2>1, FollowsLost
    <3> QED
      BY Zenon, <3>1, <3>2, <1>1 DEF InTransit
  <2>4. CASE dst # f
    <3>1. left'[dst] = left[dst]
      BY Zenon, <2>2, <2>4, <1>1, <1>2 DEF TypeOK
    <3> QED
      BY Zenon, <3>1, <2>1, <1>1 DEF InTransit
  <2> QED
    BY ZenonT(30), <2>3, <2>4
<1> QED
  BY ZenonT(30), <1>1, <1>3, <1>4, PeerFrame
-----------------------------------------------------------------------------
\* A descriptor is given out while no flow is half closed: no thread that may
\* use its flow's descriptors has one that is free.
LEMMA Unhurried ==
  ASSUME IInv, Hurry, ~hurried'
  PROVE  /\ Core
         /\ \A j \in Conns, s \in Roles, end \in Ends :
              Active(j, s) => FileOf(j, end) = <<j, end>>
<1>1. ~hurried /\ \A j \in Conns : ~HalfClosed(j)
  BY Zenon DEF Hurry, IInv
<1>2. Core
  BY Zenon, <1>1 DEF IInv
<1>3. ASSUME NEW j \in Conns, NEW s \in Roles, NEW end \in Ends, Active(j, s)
      PROVE  FileOf(j, end) = <<j, end>>
  <2>1. FileOf(j, end) # NoFile
    BY Zenon, <1>1, <1>3 DEF HalfClosed
  <2>2. FileOf(j, end) \in {NoFile, <<j, end>>}
    BY Zenon, <1>2, <1>3 DEF Core, Own
  <2> QED
    BY Zenon, <2>1, <2>2
<1> QED
  BY <1>2, <1>3

\* main() accepts a connection: a new flow takes the next slot and the lowest
\* free descriptor.
LEMMA AcceptInv ==
  ASSUME IInv, NEW k \in Conns, Accept(k), ~hurried'
  PROVE  Core'
<1> DEFINE d == LowestFree
           m == n_flows + 1
<1>1. CASE UNCHANGED <<slot, n_flows, fds, flows, thread, hurried>>
  <2>1. Core /\ UNCHANGED <<load, input, answered, left, out>>
    BY Zenon, <1>1 DEF IInv, Accept, env
  <2>2. TypeOK' /\ OneStream'
    <3>1. OneStream'
      BY Zenon, <2>1, <1>1, StreamFrame DEF Core
    <3>2. TypeOK'
      BY Zenon, <2>1, <1>1 DEF Core, TypeOK
    <3> QED
      BY Zenon, <3>1, <3>2
  <2> QED
    BY Zenon, <2>1, <2>2, <1>1, PeerFrame
<1>2. CASE /\ n_flows < MAX_FLOWS
           /\ slot' = [slot EXCEPT ![k] = m]
           /\ n_flows' = m
           /\ fds' = [fds EXCEPT ![d] = <<k, "client">>]
           /\ flows' = [flows EXCEPT ![m].client = d]
           /\ thread' = [thread EXCEPT ![k]["sender"] = Idle("connect")]
           /\ Hurry
  <2>1. /\ Core /\ TypeOK
        /\ \A j \in Conns, s \in Roles, end \in Ends :
             Active(j, s) => FileOf(j, end) = <<j, end>>
        /\ UNCHANGED <<load, input, answered, left, out>>
    BY Zenon, <1>2, Unhurried DEF Core, Accept, env
  <2>2. slot[k] = 0 /\ \A j \in Conns : slot[j] # 0 <=> j <= k - 1
    BY Zenon, <2>1, NextConn DEF Core, Accept
  <2>3. \A e \in Fds : fds[e] # <<k, "client">> /\ fds[e] # <<k, "server">>
    BY Zenon, <2>1, <2>2 DEF Core, Recorded, Ends
  <2>4. d \in Fds /\ fds[d] = NoFile
    BY Zenon, <2>1, <2>3, FreeDescriptor DEF Core, TypeOK, Ends
  <2> HIDE DEF d
  <2>5. /\ n_flows \in Nat /\ m \in 1 .. MAX_FLOWS /\ n_flows < m /\ MAX_FLOWS \in Nat
    BY <1>2, <2>1, ProxyConstants DEF TypeOK
  <2> HIDE DEF m
  <2>6. /\ thread' \in [Conns -> [Roles -> ThreadStates]]
        /\ thread'[k]["sender"] = Idle("connect")
        /\ \A j \in Conns, s \in Roles : j # k \/ s # "sender" => thread'[j][s] = thread[j][s]
    <3> DEFINE q == Idle("connect")
    <3>1. "connect" \in PCs /\ "sender" \in Roles
      BY Zenon DEF PCs, Roles
    <3>2. q \in ThreadStates
      BY Zenon, <3>1, IdleState
    <3>3. TypeOK /\ thread' = [thread EXCEPT ![k]["sender"] = q]
      BY <1>2, <2>1
    <3> HIDE DEF q
    <3>4. /\ thread' \in [Conns -> [Roles -> ThreadStates]]
          /\ thread'[k]["sender"] = q
          /\ \A j \in Conns, s \in Roles : j # k \/ s # "sender" => thread'[j][s] = thread[j][s]
      BY ZenonT(30), <3>1, <3>2, <3>3, ThreadPut
    <3> QED
      BY Zenon, <3>4 DEF q
  <2>7. /\ slot' \in [Conns -> 0 .. MAX_FLOWS] /\ slot'[k] = m /\ m # 0
        /\ \A j \in Conns : j # k => slot'[j] = slot[j]
    BY <1>2, <2>1, <2>5 DEF TypeOK
  <2>8. /\ fds' \in [Fds -> Files \cup {NoFile}] /\ fds'[d] = <<k, "client">>
        /\ \A e \in Fds : e # d => fds'[e] = fds[e]
    BY Zenon, <1>2, <2>1, <2>4, NotNoFile DEF TypeOK, Ends
  <2>9. /\ flows' \in [1 .. MAX_FLOWS -> [Ends -> 0 .. 2 * NConns]]
        /\ flows'[m]["client"] = d
        /\ flows'[m]["server"] = flows[m]["server"]
        /\ \A x \in 1 .. MAX_FLOWS : x # m => flows'[x] = flows[x]
    <3>1. d \in 0 .. 2 * NConns
      BY <2>4, Counts DEF Fds
    <3>2. flows[m] \in [Ends -> 0 .. 2 * NConns] /\ flows' = [flows EXCEPT ![m] = [flows[m] EXCEPT !["client"] = d]]
      BY Zenon, <1>2, <2>1, <2>5 DEF TypeOK
    <3>3. [flows[m] EXCEPT !["client"] = d] \in [Ends -> 0 .. 2 * NConns]
      BY Zenon, <3>1, <3>2
    <3> QED
      BY Zenon, <3>2, <3>3, <2>1, <2>5 DEF TypeOK, Ends
  <2>10. TypeOK'
    BY Zenon, <1>2, <2>1, <2>5, <2>6, <2>7, <2>8, <2>9 DEF TypeOK
  <2>11. \A j \in Conns : j # k /\ slot[j] # 0 => Flow(j)' = Flow(j)
    <3> SUFFICES ASSUME NEW j \in Conns, j # k, slot[j] # 0 PROVE Flow(j)' = Flow(j)
      BY Zenon
    <3>1. slot[j] <= n_flows /\ slot[j] \in 1 .. MAX_FLOWS
      BY <2>1, <2>5 DEF Core, Slots, TypeOK
    <3>2. slot[j] # m
      BY <3>1, <2>5
    <3> QED
      BY Zenon, <3>1, <3>2, <2>7, <2>9 DEF Flow
  <2>12. Slots'
    <3>1. \E c \in 0 .. NConns : \A j \in Conns : slot'[j] # 0 <=> j <= c
      <4>1. k \in 0 .. NConns /\ \A j \in Conns : slot'[j] # 0 <=> j <= k
        BY <2>2, <2>7, Counts DEF Conns
      <4> QED
        BY ZenonT(30), <4>1
    <3>2. \A j \in Conns : slot'[j] <= m
      <4>1. \A j \in Conns : slot[j] \in Nat /\ slot[j] <= n_flows
        BY <2>1, <2>5 DEF Core, Slots, TypeOK
      <4> QED
        BY <4>1, <2>5, <2>7
    <3>3. \A i, j \in Conns : slot'[i] # 0 /\ slot'[i] = slot'[j] => i = j
      <4>1. \A j \in Conns : slot[j] # m
        BY <2>1, <2>5 DEF Core, Slots, TypeOK
      <4> QED
        BY Zenon, <4>1, <2>1, <2>7 DEF Core, Slots
    <3>4. \A j \in Conns, s \in Roles : slot'[j] = 0 => thread'[j][s].pc = "none"
      BY <2>1, <2>6, <2>7 DEF Core, Slots
    <3>5. \A x \in 1 .. MAX_FLOWS : m < x => flows'[x]["server"] = 0
      <4> SUFFICES ASSUME NEW x \in 1 .. MAX_FLOWS, m < x PROVE flows'[x]["server"] = 0
        BY ZenonT(30)
      <4>1. flows'[x] = flows[x] /\ n_flows < x
        BY <2>5, <2>9
      <4> QED
        BY Zenon, <4>1, <2>1 DEF Core, Slots
    <3> QED
      BY Zenon, <1>2, <3>1, <3>2, <3>3, <3>4, <3>5 DEF Slots
  <2>13. Recorded'
    <3> SUFFICES ASSUME NEW e \in Fds, NEW j \in Conns, NEW end \in Ends,
                        fds'[e] = <<j, end>>
                 PROVE  slot'[j] # 0 /\ Flow(j)'[end] = e
      BY ZenonT(30) DEF Recorded
    <3>1. CASE e = d
      <4>1. j = k /\ end = "client"
        BY <3>1, <2>8
      <4> QED
        BY ZenonT(30), <4>1, <3>1, <2>7, <2>9 DEF Flow
    <3>2. CASE e # d
      <4>1. fds[e] = <<j, end>>
        BY Zenon, <3>2, <2>8
      <4>2. slot[j] # 0 /\ Flow(j)[end] = e
        BY Zenon, <4>1, <2>1 DEF Core, Recorded
      <4>3. j # k
        BY Zenon, <4>2, <2>2
      <4> QED
        BY Zenon, <4>2, <4>3, <2>7, <2>11
    <3> QED
      BY ZenonT(30), <3>1, <3>2
  <2>14. ASSUME NEW j \in Conns, j # k, slot[j] # 0, NEW end \in Ends,
                FileOf(j, end) = <<j, end>>
         PROVE  FileOf(j, end)' = <<j, end>>
    <3>1. Flow(j)' = Flow(j)
      BY Zenon, <2>11, <2>14
    <3>2. Flow(j)[end] # 0 /\ fds[Flow(j)[end]] = <<j, end>>
      BY Zenon, <2>14, NotNoFile DEF FileOf
    <3>3. Flow(j)[end] \in 0 .. 2 * NConns
      BY <2>1, <2>5, <2>14 DEF TypeOK, Flow
    <3>4. Flow(j)[end] \in Fds /\ Flow(j)[end] # d
      <4>1. Flow(j)[end] \in Fds
        BY <3>2, <3>3, Counts DEF Fds
      <4>2. fds[Flow(j)[end]] # fds[d]
        BY ZenonT(30), <3>2, <2>4, NotNoFile
      <4> QED
        BY ZenonT(30), <4>1, <4>2
    <3>5. fds'[Flow(j)[end]] = <<j, end>>
      BY ZenonT(30), <3>2, <3>4, <2>8
    <3> QED
      BY Zenon, <3>1, <3>2, <3>5 DEF FileOf
  <2>15. \A s \in Roles : thread[k][s].pc = "none"
    BY Zenon, <2>1, <2>2 DEF Core, Slots
  <2>16. Connecting'
    <3> SUFFICES ASSUME NEW j \in Conns, thread'[j]["sender"].pc = "connect"
                 PROVE  /\ thread'[j]["receiver"].pc = "none"
                        /\ Flow(j)'["server"] = 0
                        /\ FileOf(j, "client")' = <<j, "client">>
      BY ZenonT(30) DEF Connecting
    <3>1. CASE j = k
      <4>1. thread'[k]["receiver"].pc = "none"
        BY Zenon, <2>6, <2>15 DEF Roles
      <4>2. Flow(k)'["server"] = 0
        BY Zenon, <2>1, <2>5, <2>7, <2>9 DEF Flow, Core, Slots
      <4>3. FileOf(k, "client")' = <<k, "client">>
        <5>1. Flow(k)'["client"] = d /\ d # 0
          BY <2>4, <2>7, <2>9, Counts DEF Flow, Fds
        <5> QED
          BY Zenon, <5>1, <2>8 DEF FileOf
      <4> QED
        BY ZenonT(30), <3>1, <4>1, <4>2, <4>3
    <3>2. CASE j # k
      <4>1. thread'[j]["sender"] = thread[j]["sender"] /\ thread'[j]["receiver"] = thread[j]["receiver"]
        BY Zenon, <3>2, <2>6 DEF Roles
      <4>2. /\ thread[j]["receiver"].pc = "none" /\ Flow(j)["server"] = 0
            /\ FileOf(j, "client") = <<j, "client">>
        BY Zenon, <4>1, <2>1 DEF Core, Connecting
      <4>3. slot[j] # 0
        BY Zenon, <4>1, <2>1 DEF Core, Slots, Roles
      <4> QED
        BY Zenon, <3>2, <4>1, <4>2, <4>3, <2>11, <2>14 DEF Ends
    <3> QED
      BY ZenonT(30), <3>1, <3>2
  <2>17. Own'
    <3> SUFFICES ASSUME NEW j \in Conns, NEW s \in Roles, NEW end \in Ends, Active(j, s)'
                 PROVE  FileOf(j, end)' \in {NoFile, <<j, end>>}
      BY ZenonT(30) DEF Own
    <3>1. j # k /\ Active(j, s)
      <4>1. Idle("connect").pc = "connect"
        BY Zenon DEF Idle
      <4> QED
        BY Zenon, <4>1, <2>6, <2>15 DEF Active
    <3>2. slot[j] # 0
      BY Zenon, <3>1, <2>1 DEF Core, Slots, Active
    <3> QED
      BY Zenon, <3>1, <3>2, <2>1, <2>14
  <2>18. Idle("connect").pc = "connect" /\ Idle("connect").buf = <<>>
    BY Zenon DEF Idle
  <2>19. Reads'
    BY <2>1, <2>6, <2>18 DEF Core, Reads
  <2>20. OneStream'
    <3>1. \A j \in Conns, s \in Roles : thread'[j][s].buf = thread[j][s].buf
      <4>1. ASSUME NEW j \in Conns, NEW s \in Roles, j # k \/ s # "sender"
            PROVE  thread'[j][s].buf = thread[j][s].buf
        BY ZenonT(30), <4>1, <2>6
      <4>2. thread'[k]["sender"].buf = <<>>
        BY ZenonT(30), <2>6, <2>18
      <4>3. thread[k]["sender"].buf = <<>>
        <5>1. "sender" \in Roles
          BY ZenonT(30) DEF Roles
        <5>2. thread[k]["sender"].buf # <<>> <=> thread[k]["sender"].pc = "write"
          BY <5>1, <2>1 DEF Core, Reads
        <5>3. thread[k]["sender"].pc = "none"
          BY Zenon, <5>1, <2>15
        <5> QED
          BY ZenonT(30), <5>2, <5>3
      <4> QED
        BY Zenon, <4>1, <4>2, <4>3
    <3> QED
      BY ZenonT(30), <3>1, <2>1, StreamFrame DEF Core
  <2> QED
    BY <2>10, <2>12, <2>13, <2>16, <2>17, <2>19, <2>20 DEF Core
<1> QED
  BY Zenon, <1>1, <1>2 DEF Accept, NewSlot

\* The sender connects to the server and creates the receiver: the flow gets
\* its second descriptor.
LEMMA ConnectInv ==
  ASSUME IInv, NEW k \in Conns, Connect(k), ~hurried'
  PROVE  Core'
<1> DEFINE d == LowestFree
           m == slot[k]
<1>1. /\ thread[k]["sender"].pc = "connect"
      /\ flows' = [flows EXCEPT ![m].server = d]
      /\ fds' = [fds EXCEPT ![d] = <<k, "server">>]
      /\ Hurry
      /\ UNCHANGED <<load, input, answered, left, n_flows, slot, out>>
  BY DEF Connect, env
<1>2. /\ Core /\ TypeOK
      /\ \A j \in Conns, s \in Roles, end \in Ends :
           Active(j, s) => FileOf(j, end) = <<j, end>>
  BY Zenon, <1>1, Unhurried DEF Core
<1>3. /\ thread[k]["receiver"].pc = "none"
      /\ Flow(k)["server"] = 0
      /\ FileOf(k, "client") = <<k, "client">>
  BY Zenon, <1>1, <1>2 DEF Core, Connecting
<1>4. slot[k] # 0
  BY Zenon, <1>1, <1>2 DEF Core, Slots, Roles
<1>5. \A e \in Fds : e # 0 /\ fds[e] # <<k, "server">>
  BY <1>2, <1>3, Counts DEF Core, Recorded, Ends, Fds
<1>6. d \in Fds /\ fds[d] = NoFile
  BY Zenon, <1>2, <1>5, FreeDescriptor DEF Core, TypeOK, Ends
<1> HIDE DEF d
<1>7. n_flows \in Nat /\ m \in 1 .. MAX_FLOWS /\ m <= n_flows
  BY <1>2, <1>4, ProxyConstants DEF Core, TypeOK, Slots
<1>8. /\ thread' \in [Conns -> [Roles -> ThreadStates]]
      /\ \A j \in Conns, s \in Roles : j # k => thread'[j][s] = thread[j][s]
      /\ \A s \in Roles : thread'[k][s].pc \in {"read", "done", "none"} /\ thread'[k][s].buf = <<>>
  <2>1. /\ Idle("read") \in ThreadStates /\ Idle("done") \in ThreadStates
        /\ Idle("read").pc = "read" /\ Idle("read").buf = <<>>
        /\ Idle("done").pc = "done" /\ Idle("done").buf = <<>>
    BY Zenon, IdleState DEF PCs, Idle
  <2>2. CASE thread' = [thread EXCEPT ![k] = [r \in Roles |-> Idle("read")]]
    BY Zenon, <2>1, <2>2, <1>2 DEF TypeOK
  <2>3. CASE thread' = [thread EXCEPT ![k]["sender"] = Idle("done")]
    <3>1. /\ thread' \in [Conns -> [Roles -> ThreadStates]]
          /\ thread'[k]["sender"] = Idle("done")
          /\ \A j \in Conns, s \in Roles : j # k \/ s # "sender" => thread'[j][s] = thread[j][s]
      BY Zenon, <2>1, <2>3, <1>2, ThreadPut DEF Roles
    <3>2. thread[k]["receiver"].buf = <<>>
      BY Zenon, <1>2, <1>3 DEF Core, Reads, Roles
    <3> QED
      BY Zenon, <3>1, <3>2, <2>1, <1>3 DEF Roles
  <2> QED
    BY ZenonT(30), <2>2, <2>3 DEF Connect
<1> HIDE DEF m
<1>9. /\ fds' \in [Fds -> Files \cup {NoFile}] /\ fds'[d] = <<k, "server">>
      /\ \A e \in Fds : e # d => fds'[e] = fds[e]
  BY Zenon, <1>1, <1>2, <1>6, NotNoFile DEF TypeOK, Ends
<1>10. /\ flows' \in [1 .. MAX_FLOWS -> [Ends -> 0 .. 2 * NConns]]
       /\ flows'[m]["server"] = d
       /\ flows'[m]["client"] = flows[m]["client"]
       /\ \A x \in 1 .. MAX_FLOWS : x # m => flows'[x] = flows[x]
  <2>1. d \in 0 .. 2 * NConns
    BY <1>6, Counts DEF Fds
  <2>2. /\ flows[m] \in [Ends -> 0 .. 2 * NConns]
        /\ flows' = [flows EXCEPT ![m] = [flows[m] EXCEPT !["server"] = d]]
    BY Zenon, <1>1, <1>2, <1>7 DEF TypeOK
  <2>3. [flows[m] EXCEPT !["server"] = d] \in [Ends -> 0 .. 2 * NConns]
    BY Zenon, <2>1, <2>2
  <2> QED
    BY Zenon, <2>2, <2>3, <1>2, <1>7 DEF TypeOK, Ends
<1>11. TypeOK'
  BY Zenon, <1>1, <1>2, <1>8, <1>9, <1>10 DEF TypeOK
<1>12. ASSUME NEW j \in Conns, j # k, slot[j] # 0 PROVE Flow(j)' = Flow(j)
  <2>1. slot[j] # slot[k] /\ slot[j] \in 1 .. MAX_FLOWS
    BY <1>2, <1>12, ProxyConstants DEF Core, Slots, TypeOK
  <2> QED
    BY Zenon, <2>1, <1>1, <1>10 DEF Flow, m
<1>13. Flow(k)'["server"] = d /\ Flow(k)'["client"] = Flow(k)["client"]
  BY Zenon, <1>1, <1>10 DEF Flow, m
<1>14. Slots'
  <2>1. \A j \in Conns, s \in Roles : slot[j] = 0 => thread'[j][s].pc = "none"
    BY <1>2, <1>4, <1>8 DEF Core, Slots
  <2>2. \A x \in 1 .. MAX_FLOWS : n_flows < x => flows'[x]["server"] = 0
    BY <1>2, <1>7, <1>10 DEF Core, Slots
  <2> QED
    BY Zenon, <1>1, <1>2, <2>1, <2>2 DEF Core, Slots
<1>15. Recorded'
  <2> SUFFICES ASSUME NEW e \in Fds, NEW j \in Conns, NEW end \in Ends,
                      fds'[e] = <<j, end>>
               PROVE  slot'[j] # 0 /\ Flow(j)'[end] = e
    BY DEF Recorded
  <2>1. CASE e = d
    <3>1. j = k /\ end = "server"
      BY <2>1, <1>9
    <3> QED
      BY ZenonT(30), <3>1, <2>1, <1>1, <1>4, <1>13
  <2>2. CASE e # d
    <3>1. fds[e] = <<j, end>>
      BY <2>2, <1>9
    <3>2. slot[j] # 0 /\ Flow(j)[end] = e
      BY Zenon, <3>1, <1>2 DEF Core, Recorded
    <3>3. CASE j # k
      BY Zenon, <3>2, <3>3, <1>1, <1>12
    <3>4. CASE j = k
      <4>1. end = "client"
        BY Zenon, <3>1, <3>4, <1>5 DEF Ends
      <4> QED
        BY Zenon, <3>2, <3>4, <4>1, <1>1, <1>13
    <3> QED
      BY Zenon, <3>3, <3>4
  <2> QED
    BY <2>1, <2>2
<1>16. ASSUME NEW j \in Conns, slot[j] # 0, NEW end \in Ends, j # k \/ end = "client",
              FileOf(j, end) = <<j, end>>
       PROVE  FileOf(j, end)' = <<j, end>>
  <2>1. Flow(j)'[end] = Flow(j)[end]
    BY Zenon, <1>12, <1>13, <1>16
  <2>2. Flow(j)[end] # 0 /\ fds[Flow(j)[end]] = <<j, end>>
    BY Zenon, <1>16, NotNoFile DEF FileOf
  <2>3. Flow(j)[end] \in 0 .. 2 * NConns
    BY <1>2, <1>16 DEF TypeOK, Flow
  <2>4. Flow(j)[end] \in Fds /\ Flow(j)[end] # d
    <3>1. Flow(j)[end] \in Fds
      BY <2>2, <2>3, Counts DEF Fds
    <3>2. fds[Flow(j)[end]] # fds[d]
      BY <2>2, <1>6, NotNoFile
    <3> QED
      BY <3>1, <3>2
  <2>5. fds'[Flow(j)[end]] = <<j, end>>
    BY ZenonT(30), <2>2, <2>4, <1>9
  <2> QED
    BY Zenon, <2>1, <2>2, <2>5 DEF FileOf
<1>17. Connecting'
  <2> SUFFICES ASSUME NEW j \in Conns, thread'[j]["sender"].pc = "connect"
               PROVE  /\ thread'[j]["receiver"].pc = "none"
                      /\ Flow(j)'["server"] = 0
                      /\ FileOf(j, "client")' = <<j, "client">>
    BY DEF Connecting
  <2>1. j # k
    BY <1>8 DEF Roles
  <2>2. thread'[j]["sender"] = thread[j]["sender"] /\ thread'[j]["receiver"] = thread[j]["receiver"]
    BY ZenonT(30), <2>1, <1>8 DEF Roles
  <2>3. /\ thread[j]["receiver"].pc = "none" /\ Flow(j)["server"] = 0
        /\ FileOf(j, "client") = <<j, "client">>
    BY ZenonT(30), <2>2, <1>2 DEF Core, Connecting
  <2>4. slot[j] # 0
    BY Zenon, <2>2, <1>2 DEF Core, Slots, Roles
  <2> QED
    BY <2>1, <2>2, <2>3, <2>4, <1>12, <1>16 DEF Ends
<1>18. Own'
  <2> SUFFICES ASSUME NEW j \in Conns, NEW s \in Roles, NEW end \in Ends, Active(j, s)'
               PROVE  FileOf(j, end)' = <<j, end>>
    BY Zenon DEF Own
  <2>1. CASE j # k
    <3>1. Active(j, s)
      BY Zenon, <2>1, <1>8 DEF Active
    <3>2. slot[j] # 0
      BY Zenon, <3>1, <1>2 DEF Core, Slots, Active
    <3> QED
      BY Zenon, <2>1, <3>1, <3>2, <1>2, <1>16
  <2>2. CASE j = k /\ end = "client"
    BY Zenon, <2>2, <1>3, <1>4, <1>16
  <2>3. CASE j = k /\ end = "server"
    BY Zenon, <2>3, <1>5, <1>6, <1>9, <1>13 DEF FileOf
  <2> QED
    BY ZenonT(30), <2>1, <2>2, <2>3 DEF Ends
<1>19. Reads'
  BY <1>2, <1>8 DEF Core, Reads
<1>20. OneStream'
  <2>1. \A s \in Roles : thread[k][s].buf = <<>>
    BY Zenon, <1>1, <1>2, <1>3 DEF Core, Reads, Roles
  <2>2. \A j \in Conns, s \in Roles : thread'[j][s].buf = thread[j][s].buf
    BY Zenon, <2>1, <1>8
  <2> QED
    BY ZenonT(30), <2>2, <1>1, <1>2, StreamFrame DEF Core
<1> QED
  BY <1>11, <1>14, <1>15, <1>17, <1>18, <1>19, <1>20 DEF Core
-----------------------------------------------------------------------------
\* IInv is inductive.  A descriptor that was given out too early stays given
\* out: hurried is never reset.
LEMMA NextInv == IInv /\ [Next]_vars => IInv'
<1> SUFFICES ASSUME IInv, [Next]_vars PROVE IInv'
  BY ZenonT(30)
<1>1. hurried \in BOOLEAN /\ (~hurried => Core)
  BY ZenonT(30) DEF IInv
<1>2. ASSUME UNCHANGED hurried, ~hurried => Core'
      PROVE  IInv'
  BY ZenonT(30), <1>1, <1>2 DEF IInv
<1>3. ASSUME NEW k \in Conns, NEW r \in Roles, Step(k, r)
      PROVE  IInv'
  <2>1. CASE ReadStart(k, r)
    BY <2>1, <1>1, <1>2, ReadStartInv DEF ReadStart
  <2>2. CASE ReadEnd(k, r)
    BY Zenon, <2>2, <1>1, <1>2, ReadEndInv DEF ReadEnd
  <2>3. CASE Write(k, r)
    BY Zenon, <2>3, <1>1, <1>2, WriteInv DEF Write
  <2>4. ASSUME NEW n \in 1 .. Requests(k), ReadData(k, r, n)
        PROVE  IInv'
    <3>1. UNCHANGED hurried
      BY Zenon, <2>4 DEF ReadData
    <3>2. ASSUME Core PROVE Core'
      <4>1. Requests(k) \in Nat
        BY <3>2, ProxyConstants DEF Core, TypeOK, Requests
      <4>2. n \in Nat
        BY <4>1
      <4> QED
        BY Zenon, <3>2, <4>2, <2>4, ReadDataInv
    <3> QED
      BY Zenon, <3>1, <3>2, <1>1, <1>2
  <2>5. ASSUME NEW end \in Ends, Close(k, r, end)
        PROVE  IInv'
    BY Zenon, <2>5, <1>1, <1>2, CloseInv DEF Close
  <2>6. CASE Connect(k)
    <3>1. hurried' \in BOOLEAN
      BY ZenonT(30), <2>6, <1>1 DEF Connect, Hurry
    <3> QED
      BY ZenonT(30), <3>1, <2>6, ConnectInv DEF IInv
  <2>7. CASE Kill(k)
    BY Zenon, <2>7, <1>1, <1>2, KillInv DEF Kill
  <2>8. CASE Join(k)
    BY ZenonT(30), <2>8, <1>1, <1>2, JoinInv DEF Join
  <2> QED
    BY Zenon, <1>3, <2>1, <2>2, <2>3, <2>4, <2>5, <2>6, <2>7, <2>8 DEF Step
<1>4. ASSUME NEW k \in Conns, Accept(k)
      PROVE  IInv'
  <2>1. hurried' \in BOOLEAN
    BY Zenon, <1>4, <1>1 DEF Accept, Hurry
  <2> QED
    BY ZenonT(30), <2>1, <1>4, AcceptInv DEF IInv
<1>5. ASSUME NEW k \in Conns, ServerAnswers(k)
      PROVE  IInv'
  BY Zenon, <1>5, <1>1, <1>2, ServerAnswersInv DEF ServerAnswers
<1>6. ASSUME NEW k \in Conns, NEW end \in Ends, PeerCloses(k, end)
      PROVE  IInv'
  BY Zenon, <1>6, <1>1, <1>2, PeerClosesInv DEF PeerCloses
<1>7. CASE UNCHANGED vars
  <2>1. ASSUME Core PROVE Core'
    <3>1. UNCHANGED <<load, input, answered, left, out, n_flows, flows, slot, fds, thread>>
      BY Zenon, <1>7 DEF vars, env
    <3>2. TypeOK'
      BY Zenon, <2>1, <3>1 DEF Core, TypeOK
    <3>3. OneStream'
      BY Zenon, <2>1, <3>1, StreamFrame DEF Core
    <3> QED
      BY Zenon, <2>1, <3>1, <3>2, <3>3, PeerFrame
  <2> QED
    BY Zenon, <2>1, <1>1, <1>2, <1>7 DEF vars
<1> QED
  BY ZenonT(30), <1>3, <1>4, <1>5, <1>6, <1>7 DEF Next, Threads

\* While no descriptor was given out of a half-closed flow, main(), sender()
\* and receiver() keep the slots apart, the descriptor table in step with the
\* flows, and each stream in one piece between the peers.
THEOREM ProxyInductive == Spec => []IInv
BY InitInv, NextInv, PTL DEF Spec

\* Of the read() and write() loops of sender() and receiver(): what an end of
\* a flow has been given is what the other end of that flow sent, in order and
\* without a gap.
THEOREM RelaysInOrderHolds == Spec => []RelaysInOrder
<1>1. IInv => RelaysInOrder
  <2> SUFFICES ASSUME Core, NEW k \in Conns, NEW r \in Roles,
                      NEW n \in DOMAIN out[<<k, Target(r)>>]
               PROVE  out[<<k, Target(r)>>][n] = Chunk(<<k, Source(r)>>, n)
    BY Zenon DEF IInv, RelaysInOrder
  <2>1. out[<<k, Target(r)>>] \in Seq(Chunks)
    BY Zenon, EndsApart DEF Core, TypeOK, Files
  <2>2. n \in 1 .. Len(out[<<k, Target(r)>>])
    BY <2>1
  <2> QED
    BY Zenon, <2>2 DEF Core, OneStream, InTransit, Follows
<1> QED
  BY <1>1, ProxyInductive, PTL
-----------------------------------------------------------------------------
(* The descriptor table, whether or not a descriptor was reused too early. *)
ThreadShape ==
  /\ DOMAIN thread = Conns
  /\ \A k \in Conns : DOMAIN thread[k] = Roles
  /\ \A k \in Conns, r \in Roles : "pc" \in DOMAIN thread[k][r]

TableType ==
  /\ n_flows \in 0 .. MAX_FLOWS
  /\ flows \in [1 .. MAX_FLOWS -> [Ends -> 0 .. 2 * NConns]]
  /\ slot \in [Conns -> 0 .. MAX_FLOWS]
  /\ fds \in [Fds -> Files \cup {NoFile}]

\* The server's socket is opened once.
Fresh ==
  \A k \in Conns : thread[k]["sender"].pc = "connect" =>
    thread[k]["receiver"].pc = "none" /\ Flow(k)["server"] = 0

\* Where a thread is that has closed an end.
PastClose(end) ==
  IF end = "server" THEN {"close_client", "kill", "join", "done"}
  ELSE {"kill", "join", "done"}

Shut ==
  \A k \in Conns, r \in Roles, end \in Ends :
    thread[k]["receiver"].pc # "none" /\ thread[k][r].pc \in PastClose(end) =>
      \A d \in Fds : fds[d] # <<k, end>>

TInv == ThreadShape /\ TableType /\ Slots /\ Recorded /\ Fresh /\ Shut

\* A thread's move that closes what it has to have closed.
Onward(p, q) == p \notin {"none", "connect"} /\ q \notin {"none", "connect"}

\* A step that opens no socket: threads that run go on to other places, and
\* one that gets past a close leaves no descriptor for that end.
LEMMA QuietTable ==
  ASSUME TInv, ThreadShape', UNCHANGED <<n_flows, flows, slot>>,
         fds' \in [Fds -> Files \cup {NoFile}],
         \A d \in Fds : fds'[d] \in {fds[d], NoFile},
         \A j \in Conns, s \in Roles :
           \/ thread'[j][s].pc = thread[j][s].pc
           \/ /\ Onward(thread[j][s].pc, thread'[j][s].pc)
              /\ \A end \in Ends : thread'[j][s].pc \in PastClose(end) =>
                   \/ thread[j][s].pc \in PastClose(end)
                   \/ \A d \in Fds : fds'[d] # <<j, end>>
  PROVE  TInv'
<1>1. TableType'
  BY Zenon DEF TInv, TableType
<1>2. \A j \in Conns, s \in Roles :
        /\ thread'[j][s].pc = "none" <=> thread[j][s].pc = "none"
        /\ thread'[j][s].pc = "connect" <=> thread[j][s].pc = "connect"
  BY Zenon DEF Onward
<1>3. Slots'
  BY Zenon, <1>2 DEF TInv, Slots
<1>4. \A d \in Fds, k \in Conns, end \in Ends :
        fds'[d] = <<k, end>> => fds[d] = <<k, end>>
  BY Zenon, NotNoFile
<1>5. Recorded'
  <2> SUFFICES ASSUME NEW d \in Fds, NEW k \in Conns, NEW end \in Ends,
                      fds'[d] = <<k, end>>
               PROVE  slot[k] # 0 /\ Flow(k)[end] = d
    BY ZenonT(40) DEF Recorded, Flow
  <2>1. fds[d] = <<k, end>>
    BY Zenon, <1>4
  <2> QED
    BY Zenon, <2>1 DEF TInv, Recorded
<1>6. Fresh'
  BY Zenon, <1>2 DEF TInv, Fresh, Flow, Roles
<1>7. Shut'
  <2> SUFFICES ASSUME NEW k \in Conns, NEW r \in Roles, NEW end \in Ends,
                      thread'[k]["receiver"].pc # "none",
                      thread'[k][r].pc \in PastClose(end), NEW d \in Fds,
                      fds'[d] = <<k, end>>
               PROVE  FALSE
    BY Zenon DEF Shut
  <2>1. fds[d] = <<k, end>> /\ thread[k]["receiver"].pc # "none"
    BY Zenon, <1>2, <1>4 DEF Roles
  <2>2. thread[k][r].pc \in PastClose(end)
    BY Zenon
  <2> QED
    BY Zenon, <2>1, <2>2 DEF TInv, Shut
<1> QED
  BY Zenon, <1>1, <1>3, <1>5, <1>6, <1>7 DEF TInv

\* The same for a step that leaves the threads alone.
LEMMA SameTable ==
  ASSUME TInv, UNCHANGED <<thread, n_flows, flows, slot, fds>>
  PROVE  TInv'
<1>1. ThreadShape' /\ fds' \in [Fds -> Files \cup {NoFile}]
  BY Zenon DEF TInv, ThreadShape, TableType
<1>2. \A d \in Fds : fds'[d] \in {fds[d], NoFile}
  BY Zenon
<1>3. \A j \in Conns, s \in Roles : thread'[j][s].pc = thread[j][s].pc
  BY Zenon
<1> QED
  BY Zenon, <1>1, <1>2, <1>3, QuietTable

\* The same for a step of one thread.
LEMMA OneThreadTable ==
  ASSUME TInv, NEW k \in Conns, NEW r \in Roles, NEW q,
         thread' = [thread EXCEPT ![k][r] = q], "pc" \in DOMAIN q,
         \/ q.pc = thread[k][r].pc
         \/ /\ Onward(thread[k][r].pc, q.pc)
            /\ \A end \in Ends : q.pc \in PastClose(end) =>
                 \/ thread[k][r].pc \in PastClose(end)
                 \/ \A d \in Fds : fds'[d] # <<k, end>>,
         UNCHANGED <<n_flows, flows, slot>>,
         fds' \in [Fds -> Files \cup {NoFile}],
         \A d \in Fds : fds'[d] \in {fds[d], NoFile}
  PROVE  TInv'
<1>1. /\ DOMAIN thread = Conns /\ \A j \in Conns : DOMAIN thread[j] = Roles
      /\ \A j \in Conns, s \in Roles : "pc" \in DOMAIN thread[j][s]
  BY Zenon DEF TInv, ThreadShape
<1>2. /\ DOMAIN thread' = Conns /\ \A j \in Conns : DOMAIN thread'[j] = Roles
      /\ thread'[k][r] = q
      /\ \A j \in Conns, s \in Roles : j # k \/ s # r => thread'[j][s] = thread[j][s]
  BY <1>1
<1>3. ThreadShape'
  BY Zenon, <1>1, <1>2 DEF ThreadShape
<1>4. \A j \in Conns, s \in Roles :
        \/ thread'[j][s].pc = thread[j][s].pc
        \/ /\ Onward(thread[j][s].pc, thread'[j][s].pc)
           /\ \A end \in Ends : thread'[j][s].pc \in PastClose(end) =>
                \/ thread[j][s].pc \in PastClose(end)
                \/ \A d \in Fds : fds'[d] # <<j, end>>
  <2> SUFFICES ASSUME NEW j \in Conns, NEW s \in Roles
               PROVE  \/ thread'[j][s].pc = thread[j][s].pc
                      \/ /\ Onward(thread[j][s].pc, thread'[j][s].pc)
                         /\ \A end \in Ends : thread'[j][s].pc \in PastClose(end) =>
                              \/ thread[j][s].pc \in PastClose(end)
                              \/ \A d \in Fds : fds'[d] # <<j, end>>
    OBVIOUS
  <2>1. CASE j = k /\ s = r
    BY Zenon, <2>1, <1>2
  <2>2. CASE j # k \/ s # r
    BY Zenon, <2>2, <1>2
  <2> QED
    BY Zenon, <2>1, <2>2
<1> QED
  BY Zenon, <1>3, <1>4, QuietTable

\* A thread's state at the start of a place.
LEMMA IdlePlace == ASSUME NEW pc PROVE "pc" \in DOMAIN Idle(pc) /\ Idle(pc).pc = pc
BY DEF Idle

\* close() of a descriptor: the socket recorded under it is closed with it.
LEMMA CloseTable ==
  ASSUME TInv, NEW k \in Conns, NEW r \in Roles, NEW end \in Ends, Close(k, r, end)
  PROVE  TInv'
<1> DEFINE q == Idle(After(r, Closing[end]))
<1>1. /\ thread[k][r].pc = Closing[end]
      /\ fds' = [d \in Fds |-> IF d = Flow(k)[end] THEN NoFile ELSE fds[d]]
      /\ thread' = [thread EXCEPT ![k][r] = q]
      /\ UNCHANGED <<n_flows, flows, slot>>
  BY Zenon DEF Close, Goto
<1>2. "pc" \in DOMAIN q /\ q.pc = After(r, Closing[end])
  BY Zenon, IdlePlace
<1>3. /\ fds' \in [Fds -> Files \cup {NoFile}]
      /\ \A d \in Fds : fds'[d] \in {fds[d], NoFile}
  BY Zenon, <1>1 DEF TInv, TableType
<1>4. \A d \in Fds : fds'[d] # <<k, end>>
  <2> SUFFICES ASSUME NEW d \in Fds, fds'[d] = <<k, end>> PROVE FALSE
    OBVIOUS
  <2>1. d # Flow(k)[end] /\ fds[d] = <<k, end>>
    BY Zenon, <1>1, NotNoFile
  <2> QED
    BY Zenon, <2>1 DEF TInv, Recorded
<1>5. \/ end = "server" /\ thread[k][r].pc = "close_server" /\ q.pc = "close_client"
      \/ /\ end = "client" /\ thread[k][r].pc = "close_client"
         /\ q.pc \in {"kill", "done"}
  BY <1>1, <1>2 DEF Ends, Closing, After
<1>6. /\ Onward(thread[k][r].pc, q.pc)
      /\ \A e \in Ends : q.pc \in PastClose(e) =>
           thread[k][r].pc \in PastClose(e) \/ e = end
  BY <1>5 DEF Onward, PastClose, Ends
<1> HIDE DEF q
<1>7. \A e \in Ends : q.pc \in PastClose(e) =>
        thread[k][r].pc \in PastClose(e) \/ \A d \in Fds : fds'[d] # <<k, e>>
  BY Zenon, <1>4, <1>6
<1> QED
  BY Zenon, <1>1, <1>2, <1>3, <1>6, <1>7, OneThreadTable

\* The steps of a thread between its first read() and its closes.
LEMMA LoopTable ==
  ASSUME TInv, NEW k \in Conns, NEW r \in Roles, NEW q,
         thread' = [thread EXCEPT ![k][r] = q], "pc" \in DOMAIN q,
         thread[k][r].pc \in {"read", "reading", "write"},
         q.pc \in {"read", "reading", "write", "close_server"},
         UNCHANGED <<n_flows, flows, slot, fds>>
  PROVE  TInv'
<1>1. Onward(thread[k][r].pc, q.pc) /\ \A end \in Ends : q.pc \notin PastClose(end)
  BY DEF Onward, PastClose
<1>2. /\ fds' \in [Fds -> Files \cup {NoFile}]
      /\ \A d \in Fds : fds'[d] \in {fds[d], NoFile}
  BY Zenon DEF TInv, TableType
<1> QED
  BY Zenon, <1>1, <1>2, OneThreadTable

LEMMA ReadWriteTable ==
  ASSUME TInv, NEW k \in Conns, NEW r \in Roles,
         \/ ReadStart(k, r) \/ ReadEnd(k, r) \/ Write(k, r)
         \/ \E n \in 1 .. Requests(k) : ReadData(k, r, n)
  PROVE  TInv'
<1>1. ASSUME NEW pc \in {"read", "close_server"}, Goto(k, r, pc),
             thread[k][r].pc \in {"read", "reading", "write"},
             UNCHANGED <<n_flows, flows, slot, fds>>
      PROVE  TInv'
  <2> DEFINE q == Idle(pc)
  <2>1. /\ thread' = [thread EXCEPT ![k][r] = q]
        /\ "pc" \in DOMAIN q /\ q.pc \in {"read", "reading", "write", "close_server"}
    BY Zenon, <1>1, IdlePlace DEF Goto
  <2> HIDE DEF q
  <2> QED
    BY Zenon, <2>1, <1>1, LoopTable
<1>2. ASSUME NEW q, thread' = [thread EXCEPT ![k][r] = q], "pc" \in DOMAIN q,
             q.pc \in {"read", "reading", "write", "close_server"},
             thread[k][r].pc \in {"read", "reading", "write"},
             UNCHANGED <<n_flows, flows, slot, fds>>
      PROVE  TInv'
  BY Zenon, <1>2, LoopTable
<1>3. CASE ReadStart(k, r)
  <2> DEFINE q == [Idle("reading") EXCEPT !.file = FileOf(k, Source(r))]
  <2>1. "pc" \in DOMAIN q /\ q.pc = "reading"
    BY DEF Idle
  <2> HIDE DEF q
  <2>2. /\ thread[k][r].pc \in {"read", "reading", "write"}
        /\ UNCHANGED <<n_flows, flows, slot, fds>>
        /\ Goto(k, r, "close_server") \/ thread' = [thread EXCEPT ![k][r] = q]
    BY Zenon, <1>3 DEF ReadStart, q
  <2> QED
    BY Zenon, <2>1, <2>2, <1>1, <1>2
<1>4. CASE ReadEnd(k, r)
  BY Zenon, <1>1, <1>4 DEF ReadEnd
<1>5. CASE \E n \in 1 .. Requests(k) : ReadData(k, r, n)
  <2>1. PICK n \in 1 .. Requests(k) : ReadData(k, r, n)
    BY Zenon, <1>5
  <2> DEFINE q == [Idle("write") EXCEPT !.buf = SubSeq(input[thread[k][r].file], 1, n)]
  <2>2. "pc" \in DOMAIN q /\ q.pc = "write"
    BY DEF Idle
  <2> HIDE DEF q
  <2>3. /\ thread[k][r].pc \in {"read", "reading", "write"}
        /\ UNCHANGED <<n_flows, flows, slot, fds>>
        /\ thread' = [thread EXCEPT ![k][r] = q]
    BY Zenon, <2>1 DEF ReadData, q
  <2> QED
    BY Zenon, <2>2, <2>3, <1>2
<1>6. CASE Write(k, r)
  <2> DEFINE q == [thread[k][r] EXCEPT !.buf = Rest(thread[k][r].buf)]
  <2>1. thread[k][r].pc = "write" /\ UNCHANGED <<n_flows, flows, slot, fds>>
    BY Zenon, <1>6 DEF Write
  <2>2. \/ Goto(k, r, "read")
        \/ thread' = [thread EXCEPT ![k][r].buf = Rest(thread[k][r].buf)]
        \/ UNCHANGED thread
    BY Zenon, <1>6 DEF Write
  <2>3. /\ DOMAIN thread = Conns /\ DOMAIN thread[k] = Roles
        /\ "pc" \in DOMAIN thread[k][r]
    BY Zenon DEF TInv, ThreadShape
  <2>4. "pc" \in DOMAIN q /\ q.pc = "write"
    BY <2>1, <2>3
  <2>5. CASE thread' = [thread EXCEPT ![k][r].buf = Rest(thread[k][r].buf)]
    <3>1. thread' = [thread EXCEPT ![k][r] = q]
      BY Zenon, <2>5
    <3> HIDE DEF q
    <3> QED
      BY Zenon, <3>1, <2>1, <2>4, <1>2
  <2>6. CASE UNCHANGED thread
    BY Zenon, <2>1, <2>6, SameTable
  <2> QED
    BY Zenon, <2>1, <2>2, <2>5, <2>6, <1>1
<1> QED
  BY Zenon, <1>3, <1>4, <1>5, <1>6

LEMMA JoinTable == ASSUME TInv, NEW k \in Conns, Join(k) PROVE TInv'
<1> DEFINE q == Idle("done")
<1>1. /\ thread[k]["sender"].pc = "join"
      /\ thread' = [thread EXCEPT ![k]["sender"] = q]
      /\ UNCHANGED <<n_flows, flows, slot, fds>>
  BY Zenon DEF Join, Goto
<1>2. "pc" \in DOMAIN q /\ q.pc = "done"
  BY Zenon, IdlePlace
<1>3. /\ Onward("join", "done") /\ "sender" \in Roles
      /\ \A end \in Ends : "join" \in PastClose(end)
  BY DEF Onward, PastClose, Roles
<1>4. /\ fds' \in [Fds -> Files \cup {NoFile}]
      /\ \A d \in Fds : fds'[d] \in {fds[d], NoFile}
  BY Zenon, <1>1 DEF TInv, TableType
<1> HIDE DEF q
<1> QED
  BY Zenon, <1>1, <1>2, <1>3, <1>4, OneThreadTable

LEMMA KillTable == ASSUME TInv, NEW k \in Conns, Kill(k) PROVE TInv'
<1> DEFINE back == IF thread[k]["receiver"].pc = "reading" THEN Idle("read")
                   ELSE thread[k]["receiver"]
           q == [sender |-> Idle("join"), receiver |-> back]
<1>1. /\ thread[k]["sender"].pc = "kill"
      /\ thread' = [thread EXCEPT ![k] = q]
      /\ UNCHANGED <<n_flows, flows, slot, fds>>
  BY DEF Kill, After
<1>2. /\ DOMAIN thread = Conns /\ \A j \in Conns : DOMAIN thread[j] = Roles
      /\ \A j \in Conns, s \in Roles : "pc" \in DOMAIN thread[j][s]
      /\ Roles = {"sender", "receiver"}
  BY Zenon DEF TInv, ThreadShape, Roles
<1>3. "pc" \in DOMAIN Idle("join") /\ Idle("join").pc = "join"
  BY Zenon, IdlePlace
<1>4. /\ "pc" \in DOMAIN back
      /\ \/ back.pc = thread[k]["receiver"].pc
         \/ thread[k]["receiver"].pc = "reading" /\ back.pc = "read"
  <2>1. CASE thread[k]["receiver"].pc = "reading"
    <3>1. back = Idle("read")
      BY Zenon, <2>1
    <3> HIDE DEF back
    <3> QED
      BY Zenon, <2>1, <3>1, IdlePlace
  <2>2. CASE thread[k]["receiver"].pc # "reading"
    <3>1. back = thread[k]["receiver"]
      BY Zenon, <2>2
    <3> HIDE DEF back
    <3> QED
      BY Zenon, <3>1, <1>2
  <2> QED
    BY Zenon, <2>1, <2>2
<1> HIDE DEF back
<1>5. DOMAIN q = Roles /\ q["sender"] = Idle("join") /\ q["receiver"] = back
  BY <1>2
<1> HIDE DEF q
<1>6. /\ DOMAIN thread' = Conns /\ thread'[k] = q
      /\ \A j \in Conns : j # k => thread'[j] = thread[j]
  BY Zenon, <1>1, <1>2
<1>7. ThreadShape'
  BY Zenon, <1>2, <1>3, <1>4, <1>5, <1>6 DEF ThreadShape
<1>8. /\ Onward("kill", "join") /\ Onward("reading", "read")
      /\ \A end \in Ends : "kill" \in PastClose(end) /\ "read" \notin PastClose(end)
  BY DEF Onward, PastClose
<1>9. \A j \in Conns, s \in Roles :
        \/ thread'[j][s].pc = thread[j][s].pc
        \/ /\ Onward(thread[j][s].pc, thread'[j][s].pc)
           /\ \A end \in Ends : thread'[j][s].pc \in PastClose(end) =>
                \/ thread[j][s].pc \in PastClose(end)
                \/ \A d \in Fds : fds'[d] # <<j, end>>
  <2> SUFFICES ASSUME NEW j \in Conns, NEW s \in Roles
               PROVE  \/ thread'[j][s].pc = thread[j][s].pc
                      \/ /\ Onward(thread[j][s].pc, thread'[j][s].pc)
                         /\ \A end \in Ends : thread'[j][s].pc \in PastClose(end) =>
                              thread[j][s].pc \in PastClose(end)
    BY Zenon
  <2>1. CASE j # k
    BY Zenon, <2>1, <1>6
  <2>2. CASE j = k /\ s = "sender"
    BY Zenon, <2>2, <1>1, <1>3, <1>5, <1>6, <1>8
  <2>3. CASE j = k /\ s = "receiver"
    BY Zenon, <2>3, <1>4, <1>5, <1>6, <1>8
  <2> QED
    BY Zenon, <2>1, <2>2, <2>3, <1>2
<1>10. /\ fds' \in [Fds -> Files \cup {NoFile}]
       /\ \A d \in Fds : fds'[d] \in {fds[d], NoFile}
  BY Zenon, <1>1 DEF TInv, TableType
<1> QED
  BY Zenon, <1>1, <1>7, <1>9, <1>10, QuietTable

\* main() opens the client's socket of a flow that has no thread yet.
LEMMA AcceptTable == ASSUME TInv, NEW k \in Conns, Accept(k) PROVE TInv'
<1> DEFINE d == LowestFree
           m == n_flows + 1
           q == Idle("connect")
<1>1. CASE UNCHANGED <<slot, n_flows, fds, flows, thread>>
  BY Zenon, <1>1, SameTable
<1>2. CASE /\ n_flows < MAX_FLOWS
           /\ slot' = [slot EXCEPT ![k] = m]
           /\ n_flows' = m
           /\ fds' = [fds EXCEPT ![d] = <<k, "client">>]
           /\ flows' = [flows EXCEPT ![m].client = d]
           /\ thread' = [thread EXCEPT ![k]["sender"] = q]
  <2>1. TableType /\ Slots /\ Recorded /\ "sender" \in Roles /\ "receiver" \in Roles
    BY Zenon DEF TInv, Roles
  <2>2. slot[k] = 0 /\ \A j \in Conns : slot[j] # 0 <=> j <= k - 1
    BY Zenon, <2>1, NextConn DEF Accept
  <2>3. \A e \in Fds : fds[e] # <<k, "client">> /\ fds[e] # <<k, "server">>
    BY Zenon, <2>1, <2>2 DEF Recorded, Ends
  <2>4. d \in Fds /\ fds[d] = NoFile
    BY Zenon, <2>1, <2>3, FreeDescriptor DEF TableType, Ends
  <2> HIDE DEF d
  <2>5. n_flows \in Nat /\ m \in 1 .. MAX_FLOWS /\ n_flows < m /\ MAX_FLOWS \in Nat /\ m # 0
    BY <1>2, <2>1, ProxyConstants DEF TableType
  <2> HIDE DEF m
  <2>6. /\ slot' \in [Conns -> 0 .. MAX_FLOWS] /\ slot'[k] = m
        /\ \A j \in Conns : j # k => slot'[j] = slot[j]
    <3>1. m \in 0 .. MAX_FLOWS
      BY <2>5
    <3> QED
      BY Zenon, <3>1, <1>2, <2>1 DEF TableType
  <2>7. /\ fds' \in [Fds -> Files \cup {NoFile}] /\ fds'[d] = <<k, "client">>
        /\ \A e \in Fds : e # d => fds'[e] = fds[e]
    BY Zenon, <1>2, <2>1, <2>4, NotNoFile DEF TableType, Ends
  <2>8. /\ flows' \in [1 .. MAX_FLOWS -> [Ends -> 0 .. 2 * NConns]]
        /\ flows'[m]["client"] = d
        /\ flows'[m]["server"] = flows[m]["server"]
        /\ \A x \in 1 .. MAX_FLOWS : x # m => flows'[x] = flows[x]
    <3>1. d \in 0 .. 2 * NConns
      BY <2>4, Counts DEF Fds
    <3>2. flows[m] \in [Ends -> 0 .. 2 * NConns] /\ flows' = [flows EXCEPT ![m] = [flows[m] EXCEPT !["client"] = d]]
      BY Zenon, <1>2, <2>1, <2>5 DEF TableType
    <3>3. [flows[m] EXCEPT !["client"] = d] \in [Ends -> 0 .. 2 * NConns]
      BY Zenon, <3>1, <3>2
    <3> QED
      BY Zenon, <3>2, <3>3, <2>1, <2>5 DEF TableType, Ends
  <2>9. TableType'
    <3>1. m \in 0 .. MAX_FLOWS
      BY <2>5
    <3> QED
      BY Zenon, <3>1, <1>2, <2>6, <2>7, <2>8 DEF TableType
  <2>10. /\ DOMAIN thread = Conns /\ \A j \in Conns : DOMAIN thread[j] = Roles
         /\ \A j \in Conns, s \in Roles : "pc" \in DOMAIN thread[j][s]
         /\ "pc" \in DOMAIN q /\ q.pc = "connect"
    BY Zenon, IdlePlace DEF TInv, ThreadShape
  <2> HIDE DEF q
  <2>11. /\ DOMAIN thread' = Conns /\ \A j \in Conns : DOMAIN thread'[j] = Roles
         /\ thread'[k]["sender"] = q
         /\ \A j \in Conns, s \in Roles : j # k \/ s # "sender" => thread'[j][s] = thread[j][s]
    BY <2>10, <2>1, <1>2
  <2>12. ThreadShape'
    BY Zenon, <2>10, <2>11 DEF ThreadShape
  <2>13. /\ \A s \in Roles : thread[k][s].pc = "none"
         /\ thread'[k]["receiver"].pc = "none"
    <3>1. \A s \in Roles : thread[k][s].pc = "none"
      BY Zenon, <2>1, <2>2 DEF Slots
    <3>2. thread'[k]["receiver"] = thread[k]["receiver"]
      BY Zenon, <2>1, <2>11
    <3> QED
      BY Zenon, <2>1, <3>1, <3>2
  <2>14. \A j \in Conns : j # k /\ slot[j] # 0 =>
           slot'[j] # 0 /\ slot[j] # m /\ Flow(j)' = Flow(j)
    <3> SUFFICES ASSUME NEW j \in Conns, j # k, slot[j] # 0
                 PROVE  slot[j] # m /\ flows'[slot[j]] = flows[slot[j]]
      BY Zenon, <2>6 DEF Flow
    <3>1. slot[j] \in 0 .. MAX_FLOWS /\ slot[j] <= n_flows
      BY Zenon, <2>1 DEF TableType, Slots
    <3>2. slot[j] \in 1 .. MAX_FLOWS /\ slot[j] # m
      BY <3>1, <2>5
    <3> QED
      BY Zenon, <3>2, <2>8
  <2>15. Slots'
    <3>1. \E c \in 0 .. NConns : \A j \in Conns : slot'[j] # 0 <=> j <= c
      <4>1. k \in 0 .. NConns /\ k \in Int
        BY Counts DEF Conns
      <4>2. ASSUME NEW j \in Conns PROVE slot'[j] # 0 <=> j <= k
        <5>1. j \in Int
          BY Counts DEF Conns
        <5>2. CASE j = k
          BY <5>1, <5>2, <2>5, <2>6
        <5>3. CASE j # k
          <6>1. slot'[j] # 0 <=> j <= k - 1
            BY Zenon, <5>3, <2>2, <2>6
          <6>2. j <= k - 1 <=> j <= k
            BY <5>1, <5>3, <4>1
          <6> QED
            BY Zenon, <6>1, <6>2
        <5> QED
          BY Zenon, <5>2, <5>3
      <4> QED
        BY Zenon, <4>1, <4>2
    <3>2. \A j \in Conns : slot'[j] <= n_flows'
      <4> SUFFICES ASSUME NEW j \in Conns PROVE slot'[j] <= m
        BY Zenon, <1>2
      <4>1. CASE j = k
        BY <4>1, <2>5, <2>6
      <4>2. CASE j # k
        <5>1. slot'[j] = slot[j] /\ slot[j] \in 0 .. MAX_FLOWS /\ slot[j] <= n_flows
          BY Zenon, <4>2, <2>1, <2>6 DEF TableType, Slots
        <5> QED
          BY <5>1, <2>5
      <4> QED
        BY Zenon, <4>1, <4>2
    <3>3. \A i, j \in Conns : slot'[i] # 0 /\ slot'[i] = slot'[j] => i = j
      <4> SUFFICES ASSUME NEW i \in Conns, NEW j \in Conns, slot'[i] # 0,
                          slot'[i] = slot'[j], i # j
                   PROVE  FALSE
        BY Zenon
      <4>1. i # k /\ j # k
        BY Zenon, <2>5, <2>6, <2>14
      <4> QED
        BY Zenon, <4>1, <2>1, <2>6 DEF Slots
    <3>4. \A j \in Conns, s \in Roles : slot'[j] = 0 => thread'[j][s].pc = "none"
      <4> SUFFICES ASSUME NEW j \in Conns, NEW s \in Roles, slot'[j] = 0
                   PROVE  thread'[j][s].pc = "none"
        BY Zenon
      <4>1. j # k
        BY Zenon, <2>5, <2>6
      <4>2. slot[j] = 0 /\ thread'[j][s] = thread[j][s]
        BY Zenon, <4>1, <2>6, <2>11
      <4> QED
        BY Zenon, <4>2, <2>1 DEF Slots
    <3>5. \A x \in 1 .. MAX_FLOWS : n_flows' < x => flows'[x]["server"] = 0
      <4> SUFFICES ASSUME NEW x \in 1 .. MAX_FLOWS, m < x
                   PROVE  flows'[x]["server"] = 0
        BY Zenon, <1>2
      <4>1. n_flows < x /\ x # m
        BY <2>5
      <4> QED
        BY Zenon, <4>1, <2>1, <2>8 DEF Slots
    <3> QED
      BY Zenon, <3>1, <3>2, <3>3, <3>4, <3>5 DEF Slots
  <2>16. Recorded'
    <3> SUFFICES ASSUME NEW e \in Fds, NEW j \in Conns, NEW end \in Ends,
                        fds'[e] = <<j, end>>
                 PROVE  slot'[j] # 0 /\ Flow(j)'[end] = e
      BY Zenon DEF Recorded
    <3>1. CASE e = d
      <4>1. j = k /\ end = "client"
        <5>1. <<j, end>> = <<k, "client">>
          BY Zenon, <3>1, <2>7
        <5> QED
          BY <5>1
      <4> QED
        BY Zenon, <3>1, <4>1, <2>5, <2>6, <2>8 DEF Flow
    <3>2. CASE e # d
      <4>1. fds[e] = <<j, end>>
        BY Zenon, <3>2, <2>7
      <4>2. slot[j] # 0 /\ Flow(j)[end] = e
        BY Zenon, <4>1, <2>1 DEF Recorded
      <4> QED
        BY Zenon, <4>2, <2>2, <2>14
    <3> QED
      BY Zenon, <3>1, <3>2
  <2>17. Fresh'
    <3> SUFFICES ASSUME NEW j \in Conns, thread'[j]["sender"].pc = "connect"
                 PROVE  thread'[j]["receiver"].pc = "none" /\ Flow(j)'["server"] = 0
      BY Zenon DEF Fresh
    <3>1. CASE j = k
      <4>1. flows[m]["server"] = 0
        BY Zenon, <2>1, <2>5 DEF Slots
      <4> QED
        BY Zenon, <3>1, <4>1, <2>6, <2>8, <2>13 DEF Flow
    <3>2. CASE j # k
      <4>1. thread[j]["sender"].pc = "connect" /\ thread'[j]["receiver"] = thread[j]["receiver"]
        BY Zenon, <3>2, <2>1, <2>11
      <4>2. slot[j] # 0
        BY Zenon, <4>1, <2>1 DEF Slots
      <4> QED
        BY Zenon, <3>2, <4>1, <4>2, <2>14 DEF TInv, Fresh
    <3> QED
      BY Zenon, <3>1, <3>2
  <2>18. Shut'
    <3> SUFFICES ASSUME NEW j \in Conns, NEW s \in Roles, NEW end \in Ends,
                        thread'[j]["receiver"].pc # "none",
                        thread'[j][s].pc \in PastClose(end), NEW e \in Fds,
                        fds'[e] = <<j, end>>
                 PROVE  FALSE
      BY Zenon DEF Shut
    <3>1. j # k
      BY Zenon, <2>13
    <3>2. thread'[j][s] = thread[j][s] /\ thread'[j]["receiver"] = thread[j]["receiver"]
      BY Zenon, <3>1, <2>1, <2>11
    <3>3. fds[e] = <<j, end>>
      <4>1. <<j, end>> # <<k, "client">>
        BY <3>1
      <4> QED
        BY Zenon, <4>1, <2>7
    <3> QED
      BY Zenon, <3>2, <3>3 DEF TInv, Shut
  <2> QED
    BY Zenon, <2>9, <2>12, <2>15, <2>16, <2>17, <2>18 DEF TInv
<1> QED
  BY Zenon, <1>1, <1>2 DEF Accept, NewSlot

\* do_connect() opens the server's socket of a flow, once, before there is a
\* receiver.
LEMMA ConnectTable == ASSUME TInv, NEW k \in Conns, Connect(k) PROVE TInv'
<1> DEFINE d == LowestFree
           x == slot[k]
           reading == [r \in Roles |-> Idle("read")]
<1>1. /\ thread[k]["sender"].pc = "connect"
      /\ flows' = [flows EXCEPT ![x].server = d]
      /\ fds' = [fds EXCEPT ![d] = <<k, "server">>]
      /\ \/ thread' = [thread EXCEPT ![k] = reading]
         \/ thread' = [thread EXCEPT ![k]["sender"] = Idle("done")]
      /\ UNCHANGED <<n_flows, slot>>
  BY Zenon DEF Connect
<1>2. TableType /\ Slots /\ Recorded /\ "sender" \in Roles /\ "receiver" \in Roles
  BY Zenon DEF TInv, Roles
<1>3. thread[k]["receiver"].pc = "none" /\ Flow(k)["server"] = 0 /\ x # 0
  <2>1. "connect" # "none"
    OBVIOUS
  <2> QED
    BY Zenon, <2>1, <1>1, <1>2 DEF TInv, Fresh, Slots
<1>4. x \in 1 .. MAX_FLOWS
  <2>1. x \in 0 .. MAX_FLOWS /\ MAX_FLOWS \in Nat
    BY Zenon, <1>2, ProxyConstants DEF TableType
  <2> QED
    BY <2>1, <1>3
<1>5. \A e \in Fds : fds[e] # <<k, "server">>
  <2>1. 0 \notin Fds
    BY Counts DEF Fds
  <2> QED
    BY Zenon, <2>1, <1>2, <1>3 DEF Recorded, Ends
<1>6. d \in Fds /\ fds[d] = NoFile
  BY Zenon, <1>2, <1>5, FreeDescriptor DEF TableType, Ends
<1> HIDE DEF d, x
<1>7. /\ fds' \in [Fds -> Files \cup {NoFile}] /\ fds'[d] = <<k, "server">>
      /\ \A e \in Fds : e # d => fds'[e] = fds[e]
  BY Zenon, <1>1, <1>2, <1>6, NotNoFile DEF TableType, Ends
<1>8. /\ flows' \in [1 .. MAX_FLOWS -> [Ends -> 0 .. 2 * NConns]]
      /\ flows'[x]["server"] = d
      /\ flows'[x]["client"] = flows[x]["client"]
      /\ \A y \in 1 .. MAX_FLOWS : y # x => flows'[y] = flows[y]
  <2>1. d \in 0 .. 2 * NConns
    BY <1>6, Counts DEF Fds
  <2>2. flows[x] \in [Ends -> 0 .. 2 * NConns] /\ flows' = [flows EXCEPT ![x] = [flows[x] EXCEPT !["server"] = d]]
    BY Zenon, <1>1, <1>2, <1>4 DEF TableType
  <2>3. [flows[x] EXCEPT !["server"] = d] \in [Ends -> 0 .. 2 * NConns]
    BY Zenon, <2>1, <2>2
  <2> QED
    BY Zenon, <2>2, <2>3, <1>2, <1>4 DEF TableType, Ends
<1>9. TableType'
  BY Zenon, <1>1, <1>2, <1>7, <1>8 DEF TableType
<1>10. /\ DOMAIN thread = Conns /\ \A j \in Conns : DOMAIN thread[j] = Roles
       /\ \A j \in Conns, s \in Roles : "pc" \in DOMAIN thread[j][s]
  BY Zenon DEF TInv, ThreadShape
<1>11. /\ ThreadShape'
       /\ \A j \in Conns : j # k => thread'[j] = thread[j]
       /\ \/ \A s \in Roles : thread'[k][s].pc = "read"
          \/ thread'[k]["sender"].pc = "done" /\ thread'[k]["receiver"].pc = "none"
  <2>1. CASE thread' = [thread EXCEPT ![k] = reading]
    <3>1. DOMAIN reading = Roles /\ \A s \in Roles : reading[s] = Idle("read")
      BY Zenon
    <3> HIDE DEF reading
    <3>2. /\ DOMAIN thread' = Conns /\ thread'[k] = reading
          /\ \A j \in Conns : j # k => thread'[j] = thread[j]
      BY Zenon, <2>1, <1>10
    <3>3. "pc" \in DOMAIN Idle("read") /\ Idle("read").pc = "read"
      BY Zenon, IdlePlace
    <3> QED
      BY Zenon, <3>1, <3>2, <3>3, <1>10 DEF ThreadShape
  <2>2. CASE thread' = [thread EXCEPT ![k]["sender"] = Idle("done")]
    <3> DEFINE q == Idle("done")
    <3>1. "pc" \in DOMAIN q /\ q.pc = "done" /\ thread' = [thread EXCEPT ![k]["sender"] = q]
      BY Zenon, <2>2, IdlePlace
    <3> HIDE DEF q
    <3>2. /\ DOMAIN thread' = Conns /\ \A j \in Conns : DOMAIN thread'[j] = Roles
          /\ thread'[k]["sender"] = q
          /\ thread'[k]["receiver"] = thread[k]["receiver"]
          /\ \A j \in Conns : j # k => thread'[j] = thread[j]
      BY <3>1, <1>2, <1>10
    <3>3. \A s \in Roles : s = "sender" \/ s = "receiver"
      BY Zenon DEF Roles
    <3> QED
      BY Zenon, <3>1, <3>2, <3>3, <1>2, <1>3, <1>10 DEF ThreadShape
  <2> QED
    BY Zenon, <2>1, <2>2, <1>1
<1>12. \A j \in Conns : j # k /\ slot[j] # 0 => Flow(j)' = Flow(j)
  <2> SUFFICES ASSUME NEW j \in Conns, j # k, slot[j] # 0
               PROVE  flows'[slot[j]] = flows[slot[j]]
    BY Zenon, <1>1 DEF Flow
  <2>1. slot[j] # x
    BY Zenon, <1>2 DEF Slots, x
  <2>2. slot[j] \in 0 .. MAX_FLOWS /\ MAX_FLOWS \in Nat
    BY Zenon, <1>2, ProxyConstants DEF TableType
  <2>3. slot[j] \in 1 .. MAX_FLOWS
    BY <2>2
  <2> QED
    BY Zenon, <2>1, <2>3, <1>8
<1>13. Slots'
  <2>1. x <= n_flows
    BY Zenon, <1>2 DEF Slots, x
  <2>2. \A y \in 1 .. MAX_FLOWS : n_flows < y => y # x
    BY <2>1, <1>2, <1>4, ProxyConstants DEF TableType
  <2>3. \A y \in 1 .. MAX_FLOWS : n_flows < y => flows'[y]["server"] = 0
    BY Zenon, <2>2, <1>2, <1>8 DEF Slots
  <2>4. \A j \in Conns, s \in Roles : slot[j] = 0 => thread'[j][s].pc = "none"
    <3> SUFFICES ASSUME NEW j \in Conns, NEW s \in Roles, slot[j] = 0
                 PROVE  thread'[j][s].pc = "none"
      BY Zenon
    <3>1. j # k
      BY Zenon, <1>3 DEF x
    <3>2. thread'[j] = thread[j]
      BY Zenon, <3>1, <1>11
    <3>3. thread[j][s].pc = "none"
      BY Zenon, <1>2 DEF Slots
    <3> QED
      BY Zenon, <3>2, <3>3
  <2> QED
    BY Zenon, <2>3, <2>4, <1>1, <1>2 DEF Slots
<1>14. Recorded'
  <2> SUFFICES ASSUME NEW e \in Fds, NEW j \in Conns, NEW end \in Ends,
                      fds'[e] = <<j, end>>
               PROVE  slot[j] # 0 /\ Flow(j)'[end] = e
    BY ZenonT(40), <1>1 DEF Recorded
  <2>1. CASE e = d
    <3>1. <<j, end>> = <<k, "server">>
      BY Zenon, <2>1, <1>7
    <3>2. j = k /\ end = "server"
      BY <3>1
    <3> QED
      BY Zenon, <2>1, <3>2, <1>1, <1>3, <1>8 DEF Flow, x
  <2>2. CASE e # d
    <3>1. fds[e] = <<j, end>>
      BY Zenon, <2>2, <1>7
    <3>2. slot[j] # 0 /\ Flow(j)[end] = e
      BY Zenon, <3>1, <1>2 DEF Recorded
    <3>3. CASE j = k
      <4>1. end = "client"
        BY Zenon, <3>1, <3>3, <1>5 DEF Ends
      <4> QED
        BY Zenon, <3>2, <3>3, <4>1, <1>1, <1>8 DEF Flow, x
    <3>4. CASE j # k
      BY Zenon, <3>2, <3>4, <1>12
    <3> QED
      BY Zenon, <3>3, <3>4
  <2> QED
    BY Zenon, <2>1, <2>2
<1>15. Fresh'
  <2> SUFFICES ASSUME NEW j \in Conns, thread'[j]["sender"].pc = "connect"
               PROVE  thread'[j]["receiver"].pc = "none" /\ Flow(j)'["server"] = 0
    BY Zenon DEF Fresh
  <2>1. j # k
    <3>1. "read" # "connect" /\ "done" # "connect"
      OBVIOUS
    <3> QED
      BY Zenon, <3>1, <1>2, <1>11
  <2>2. thread'[j] = thread[j]
    BY Zenon, <2>1, <1>11
  <2>3. slot[j] # 0
    <3>1. "none" # "connect"
      OBVIOUS
    <3> QED
      BY Zenon, <3>1, <2>2, <1>2 DEF Slots
  <2> QED
    BY Zenon, <2>1, <2>2, <2>3, <1>12 DEF TInv, Fresh
<1>16. Shut'
  <2> SUFFICES ASSUME NEW j \in Conns, NEW s \in Roles, NEW end \in Ends,
                      thread'[j]["receiver"].pc # "none",
                      thread'[j][s].pc \in PastClose(end), NEW e \in Fds,
                      fds'[e] = <<j, end>>
               PROVE  FALSE
    BY Zenon DEF Shut
  <2>1. "read" \notin PastClose(end)
    BY DEF PastClose
  <2>2. j # k
    BY Zenon, <2>1, <1>11
  <2>3. thread'[j] = thread[j]
    BY Zenon, <2>2, <1>11
  <2>4. fds[e] = <<j, end>>
    <3>1. <<j, end>> # <<k, "server">>
      BY <2>2
    <3> QED
      BY Zenon, <3>1, <1>7
  <2> QED
    BY Zenon, <2>3, <2>4 DEF TInv, Shut
<1> QED
  BY Zenon, <1>9, <1>11, <1>13, <1>14, <1>15, <1>16 DEF TInv

LEMMA InitTable == Init => TInv
<1> SUFFICES ASSUME Init PROVE TInv
  OBVIOUS
<1>1. NConns \in Nat /\ MAX_FLOWS \in Nat
  BY ProxyConstants
<1>2. "pc" \in DOMAIN Idle("none") /\ Idle("none").pc = "none"
  BY Zenon, IdlePlace
<1>3. \A k \in Conns, r \in Roles : thread[k][r] = Idle("none")
  BY Zenon DEF Init
<1>4. ThreadShape
  BY Zenon, <1>2, <1>3 DEF Init, ThreadShape
<1>5. /\ \A k \in Conns : slot[k] = 0
      /\ \A d \in Fds : fds[d] = NoFile
      /\ \A x \in 1 .. MAX_FLOWS : flows[x] = [client |-> 0, server |-> 0]
      /\ n_flows = 0
  BY Zenon DEF Init
<1>6. TableType
  <2>1. 0 \in 0 .. MAX_FLOWS /\ 0 \in 0 .. 2 * NConns
    BY <1>1
  <2>2. [client |-> 0, server |-> 0] \in [Ends -> 0 .. 2 * NConns]
    BY <2>1 DEF Ends
  <2> QED
    BY Zenon, <2>1, <2>2 DEF Init, TableType
<1>7. Slots
  <2>1. \A k \in Conns : slot[k] <= n_flows
    BY <1>5
  <2>2. \E c \in 0 .. NConns : \A j \in Conns : slot[j] # 0 <=> j <= c
    <3>1. 0 \in 0 .. NConns /\ \A j \in Conns : ~(j <= 0)
      BY <1>1 DEF Conns
    <3> QED
      BY Zenon, <3>1, <1>5
  <2>3. \A x \in 1 .. MAX_FLOWS : flows[x]["server"] = 0
    BY <1>5
  <2> QED
    BY Zenon, <2>1, <2>2, <2>3, <1>2, <1>3, <1>5 DEF Slots
<1>8. Recorded
  BY Zenon, <1>5, NotNoFile DEF Recorded
<1>9. Fresh
  <2>1. "none" # "connect"
    OBVIOUS
  <2> QED
    BY Zenon, <2>1, <1>2, <1>3 DEF Fresh, Roles
<1>10. Shut
  BY Zenon, <1>5, NotNoFile DEF Shut
<1> QED
  BY Zenon, <1>4, <1>6, <1>7, <1>8, <1>9, <1>10 DEF TInv

LEMMA NextTable == TInv /\ [Next]_vars => TInv'
<1> SUFFICES ASSUME TInv, [Next]_vars PROVE TInv'
  OBVIOUS
<1>1. ASSUME NEW k \in Conns, NEW r \in Roles, Step(k, r)
      PROVE  TInv'
  <2>1. CASE \/ ReadStart(k, r) \/ ReadEnd(k, r) \/ Write(k, r)
             \/ \E n \in 1 .. Requests(k) : ReadData(k, r, n)
    BY Zenon, <2>1, ReadWriteTable
  <2>2. CASE \E end \in Ends : Close(k, r, end)
    BY Zenon, <2>2, CloseTable
  <2>3. CASE Connect(k)
    BY Zenon, <2>3, ConnectTable
  <2>4. CASE Kill(k)
    BY Zenon, <2>4, KillTable
  <2>5. CASE Join(k)
    BY Zenon, <2>5, JoinTable
  <2> QED
    BY Zenon, <1>1, <2>1, <2>2, <2>3, <2>4, <2>5 DEF Step
<1>2. ASSUME NEW k \in Conns, Accept(k)
      PROVE  TInv'
  BY Zenon, <1>2, AcceptTable
<1>3. ASSUME NEW k \in Conns, ServerAnswers(k)
      PROVE  TInv'
  BY Zenon, <1>3, SameTable DEF ServerAnswers
<1>4. ASSUME NEW k \in Conns, NEW end \in Ends, PeerCloses(k, end)
      PROVE  TInv'
  BY Zenon, <1>4, SameTable DEF PeerCloses
<1>5. CASE UNCHANGED vars
  BY Zenon, <1>5, SameTable DEF vars
<1> QED
  BY Zenon, <1>1, <1>2, <1>3, <1>4, <1>5 DEF Next, Threads

\* Of the closes of sender() and receiver(), for any number of clients and
\* flows: once one of the two threads is through with them, no descriptor
\* refers to a socket of their flow, whichever thread closed it first and
\* whatever the kernel made of the freed numbers since.
THEOREM SocketsClosedHolds == Spec => []SocketsClosed
<1>1. TInv => SocketsClosed
  <2>1. \A end \in Ends : {"kill", "join", "done"} \subseteq PastClose(end)
    BY DEF PastClose
  <2> QED
    BY Zenon, <2>1 DEF TInv, Shut, SocketsClosed, Closed
<1> QED
  BY <1>1, InitTable, NextTable, PTL DEF Spec
=============================================================================
