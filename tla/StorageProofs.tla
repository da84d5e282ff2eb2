--------------------------- MODULE StorageProofs ---------------------------
(***************************************************************************)
(* Two results about the storage threads, for every number of threads,     *)
(* every pipe size and every set of commands.                              *)
(*                                                                         *)
(* The storage files never grow past their maximum size, or past the size  *)
(* they are created with when that is more.  A command is executed         *)
(* on the device it names, because the pipes carry it there, and the       *)
(* position of a file never passes the storage_offset its STOREs are       *)
(* compared by: a STORE moves both by the same amount, and a LOAD that     *)
(* starts over at the end of the file moves the position by less.          *)
(*                                                                         *)
(* The threads implement AbsStorage.  A command is in one place at a time  *)
(* (not issued, in a write, in a pipe, in sync_waiting_queue, about to be  *)
(* acknowledged, in the pipe back, acknowledged), so it is acknowledged at *)
(* most once; and what a timer's loop or a write acknowledges was synced.  *)
(***************************************************************************)
EXTENDS Storage, TLAPS

Files == [offset : Nat, pos : Nat, size : Nat]

TypeOK == /\ writing \in [Workers -> Cmds \cup {Nobody}]
          /\ to \in [Workers \X Devices -> Seq(Cmds)]
          /\ file \in [Devices -> Files]

\* The commands in the pipe of a device are commands for that device.
Routed == \A w \in Workers, d \in Devices :
            \A i \in 1 .. Len(to[w, d]) : DeviceOf[to[w, d][i]] = d

\* The position of the file is not past the offset the worker keeps.
PosBehind == \A d \in Devices : file[d].pos <= file[d].offset

IInv == TypeOK /\ Routed /\ PosBehind /\ FileWithinMax
-----------------------------------------------------------------------------
\* Remainders are naturals below their divisor, and never above the dividend.
LEMMA Remainder ==
  ASSUME NEW x \in Nat, NEW s \in Nat \ {0}
  PROVE  x % s \in Nat /\ x % s < s /\ x % s <= x
OBVIOUS

LEMMA RoundUpNat == \A n \in Nat : RoundUp(n) \in Nat
BY FileConstants DEF RoundUp

LEMMA StoreArgs ==
  ASSUME NEW direct \in BOOLEAN, NEW n \in Nat, NEW off \in Nat
  PROVE  StoreBytes(direct, n) \in Nat /\ StoreOffset(direct, off) \in Nat
BY RoundUpNat, Remainder, FileConstants DEF StoreBytes, StoreOffset

\* safe_read() leaves the file no further than the bytes it was asked for.
LEMMA ReadEndBound ==
  ASSUME NEW pos \in Nat, NEW n \in Nat \ {0}, NEW size \in Nat
  PROVE  ReadEnd(pos, n, size) \in Nat /\ ReadEnd(pos, n, size) <= pos + n
<1> DEFINE left == IF pos < size THEN size - pos ELSE 0
<1>1. left \in Nat
  OBVIOUS
<1>2. CASE n > left /\ size > 0
  <2>1. n - left - 1 \in Nat
    BY <1>1, <1>2
  <2> DEFINE r == (n - left - 1) % size
  <2>2. r \in Nat /\ r <= n - left - 1
    BY <2>1, <1>2, Remainder
  <2>3. ReadEnd(pos, n, size) = r + 1
    BY <1>2 DEF ReadEnd
  <2> HIDE DEF r, left
  <2> QED
    BY <1>1, <2>2, <2>3
<1>3. CASE n <= left
  BY <1>3 DEF ReadEnd
<1>4. CASE n > left /\ size = 0
  BY <1>4 DEF ReadEnd
<1> QED
  BY <1>1, <1>2, <1>3, <1>4

\* An empty pipe has no first command.
LEMMA NoIndex == \A i : i \notin 1 .. 0
<1> SUFFICES ASSUME NEW i, i \in 1 .. 0 PROVE FALSE
  OBVIOUS
<1>1. i \in Int /\ 1 <= i /\ i <= 0
  OBVIOUS
<1> QED
  BY <1>1

\* What is in a pipe after a write, and after a read.
LEMMA AppendElem ==
  ASSUME NEW s \in Seq(Cmds), NEW c \in Cmds, NEW i \in 1 .. Len(Append(s, c))
  PROVE  (i \in 1 .. Len(s) /\ Append(s, c)[i] = s[i]) \/ Append(s, c)[i] = c
OBVIOUS

LEMMA TailElem ==
  ASSUME NEW s \in Seq(Cmds), s # <<>>, NEW i \in 1 .. Len(Tail(s))
  PROVE  i + 1 \in 1 .. Len(s) /\ Tail(s)[i] = s[i + 1]
OBVIOUS

\* A LOAD keeps the position behind the offset and the size as it is.
LEMMA LoadFile ==
  ASSUME NEW f \in Files, f.pos <= f.offset, NEW n \in Nat, NEW off \in Nat
  PROVE  LET g == AfterLoad(f, n, off)
         IN g \in Files /\ g.pos <= g.offset /\ g.size = f.size
<1> DEFINE seek == off % OFFSETS
           h == IF seek # Automatic THEN [f EXCEPT !.offset = seek, !.pos = seek]
                ELSE f
           end == IF n = 0 THEN h.pos ELSE ReadEnd(h.pos, n, h.size)
<1>1. seek \in Nat
  BY Remainder, FileConstants
<1>2. h \in Files /\ h.pos <= h.offset /\ h.size = f.size
  <2> HIDE DEF seek
  <2>1. CASE seek # Automatic
    <3>1. h = [f EXCEPT !.offset = seek, !.pos = seek]
      BY <2>1
    <3> HIDE DEF h
    <3>2. h \in Files /\ h.offset = seek /\ h.pos = seek /\ h.size = f.size
      BY Zenon, <3>1, <1>1 DEF Files
    <3> QED
      BY <3>2, <1>1
  <2>2. CASE seek = Automatic
    BY <2>2
  <2> QED
    BY Zenon, <2>1, <2>2
<1>3. AfterLoad(f, n, off) = [h EXCEPT !.offset = h.offset + n, !.pos = end]
  BY DEF AfterLoad
<1> HIDE DEF h
<1>4. end \in Nat /\ end <= h.pos + n
  <2>1. h.pos \in Nat /\ h.size \in Nat
    BY <1>2 DEF Files
  <2>2. CASE n = 0
    BY <2>1, <2>2
  <2>3. CASE n # 0
    BY Zenon, <2>1, <2>3, ReadEndBound
  <2> QED
    BY <2>2, <2>3
<1> HIDE DEF end
<1>5. h.offset + n \in Nat /\ end <= h.offset + n
  BY <1>2, <1>4 DEF Files
<1> DEFINE g == AfterLoad(f, n, off)
<1>6. g = [h EXCEPT !.offset = h.offset + n, !.pos = end]
  BY <1>3
<1> HIDE DEF g
<1>7. g \in Files /\ g.offset = h.offset + n /\ g.pos = end /\ g.size = h.size
  BY Zenon, <1>2, <1>4, <1>5, <1>6 DEF Files
<1> QED
  BY Zenon, <1>2, <1>5, <1>7 DEF g

\* So does a STORE, and one that fits leaves the file below its maximum.
LEMMA StoreFile ==
  ASSUME NEW f \in Files, f.pos <= f.offset, NEW direct \in BOOLEAN,
         NEW n \in Nat, NEW off \in Nat, NEW max \in Nat
  PROVE  LET g == AfterStore(f, direct, n, off, max)
         IN /\ g \in Files
            /\ g.pos <= g.offset
            /\ Fits(direct, n, off, max) => g.size <= max \/ g.size = f.size
<1> DEFINE b == StoreBytes(direct, n)
           seek == StoreOffset(direct, off)
           h == IF seek # Automatic THEN [f EXCEPT !.offset = seek, !.pos = seek]
                ELSE IF Rewinds(f, b, max)
                THEN [f EXCEPT !.offset = 0, !.pos = 0]
                ELSE f
<1>1. b \in Nat /\ seek \in Nat
  BY StoreArgs
<1>2. AfterStore(f, direct, n, off, max) =
        [offset |-> h.offset + b, pos |-> h.pos + b,
         size |-> IF b > 0 /\ h.pos + b > h.size THEN h.pos + b ELSE h.size]
  BY DEF AfterStore
<1>3. Fits(direct, n, off, max) <=>
        (b + (IF seek = Automatic THEN 0 ELSE seek) <= max)
  BY DEF Fits
<1> HIDE DEF b, seek
<1>4. /\ h \in Files /\ h.pos <= h.offset /\ h.size = f.size
      /\ Fits(direct, n, off, max) => h.pos + b <= max
  <2>1. CASE seek # Automatic
    <3>1. h = [f EXCEPT !.offset = seek, !.pos = seek]
      BY <2>1
    <3> HIDE DEF h
    <3>2. h \in Files /\ h.offset = seek /\ h.pos = seek /\ h.size = f.size
      BY Zenon, <3>1, <1>1 DEF Files
    <3> QED
      BY <2>1, <3>2, <1>1, <1>3
  <2>2. CASE seek = Automatic /\ Rewinds(f, b, max)
    <3>1. h = [f EXCEPT !.offset = 0, !.pos = 0]
      BY <2>2
    <3> HIDE DEF h
    <3>2. h \in Files /\ h.offset = 0 /\ h.pos = 0 /\ h.size = f.size
      BY Zenon, <3>1 DEF Files
    <3> QED
      BY <2>2, <3>2, <1>1, <1>3
  <2>3. CASE seek = Automatic /\ ~Rewinds(f, b, max)
    BY <2>3, <1>1 DEF Files, Rewinds
  <2> QED
    BY Zenon, <2>1, <2>2, <2>3
<1> HIDE DEF h
<1> QED
  BY <1>1, <1>2, <1>4 DEF Files
-----------------------------------------------------------------------------
LEMMA InitInv == Init => IInv
<1> SUFFICES ASSUME Init PROVE IInv
  OBVIOUS
<1>1. NewFile \in Files /\ NewFile.pos <= NewFile.offset /\ NewFile.size = BUF_SIZE
  BY FileConstants DEF NewFile, Files
<1>2. \A d \in Devices : file[d] = NewFile
  BY DEF Init
<1>3. TypeOK
  <2>1. <<>> \in Seq(Cmds)
    OBVIOUS
  <2> QED
    BY Zenon, <2>1, <1>1 DEF Init, TypeOK
<1>4. \A w \in Workers, d \in Devices : Len(to[w, d]) = 0
  BY Zenon DEF Init
<1>5. \A d \in Devices : file[d].size <= BUF_SIZE
  BY <1>1, <1>2, FileConstants
<1>6. Routed
  <2> SUFFICES ASSUME NEW w \in Workers, NEW d \in Devices,
                      NEW i \in 1 .. Len(to[w, d])
               PROVE  FALSE
    BY Zenon DEF Routed
  <2>1. i \in 1 .. 0
    BY Zenon, <1>4
  <2> QED
    BY Zenon, <2>1, NoIndex
<1>7. PosBehind
  BY Zenon, <1>1, <1>2 DEF PosBehind
<1> QED
  BY Zenon, <1>3, <1>5, <1>6, <1>7 DEF IInv, FileWithinMax

\* process_single_message hands a command to its conn_worker's write.
LEMMA IssueInv == ASSUME IInv, NEW c \in Cmds, Issue(c) PROVE IInv'
BY Zenon, StorageConstants
   DEF Issue, IInv, TypeOK, Routed, PosBehind, FileWithinMax

\* The pipe the write goes to is that of the command's device.
LEMMA WriteInv == ASSUME IInv, NEW w \in Workers, Write(w) PROVE IInv'
<1> DEFINE c == writing[w]
           p == <<w, DeviceOf[c]>>
<1>1. c \in Cmds /\ DeviceOf[c] \in Devices /\ p \in Workers \X Devices
  BY Zenon, StorageConstants DEF Write, IInv, TypeOK
<1>2. /\ to' = [to EXCEPT ![p] = Append(to[p], c)]
      /\ writing' = [writing EXCEPT ![w] = Nobody]
      /\ UNCHANGED file
  BY DEF Write
<1>3. TypeOK'
  BY <1>1, <1>2 DEF IInv, TypeOK
<1>4. Routed'
  <2> SUFFICES ASSUME NEW v \in Workers, NEW d \in Devices,
                      NEW i \in 1 .. Len(to'[v, d])
               PROVE  DeviceOf[to'[v, d][i]] = d
    BY Zenon DEF Routed
  <2>1. CASE <<v, d>> # p
    <3>1. to'[v, d] = to[v, d]
      BY Zenon, <2>1, <1>2 DEF IInv, TypeOK
    <3> QED
      BY Zenon, <3>1 DEF IInv, Routed
  <2>2. CASE <<v, d>> = p
    <3>1. to'[v, d] = Append(to[v, d], c) /\ d = DeviceOf[c]
      BY Zenon, <2>2, <1>1, <1>2 DEF IInv, TypeOK
    <3>2. to[v, d] \in Seq(Cmds)
      BY Zenon DEF IInv, TypeOK
    <3>3. \/ i \in 1 .. Len(to[v, d]) /\ to'[v, d][i] = to[v, d][i]
          \/ to'[v, d][i] = c
      <4> HIDE DEF c
      <4> QED
        BY ZenonT(30), <3>1, <3>2, <1>1, AppendElem
    <3>4. i \in 1 .. Len(to[v, d]) => DeviceOf[to[v, d][i]] = d
      BY Zenon DEF IInv, Routed
    <3> HIDE DEF c
    <3> QED
      BY Zenon, <3>1, <3>3, <3>4
  <2> QED
    BY Zenon, <2>1, <2>2
<1> QED
  BY Zenon, <1>2, <1>3, <1>4 DEF IInv, PosBehind, FileWithinMax

\* load() or store() of the command at the head of a pipe.
LEMMA ExecuteInv ==
  ASSUME IInv, NEW w \in Workers, NEW d \in Devices, Execute(w, d)
  PROVE  IInv'
<1> DEFINE p == <<w, d>>
           c == Head(to[p])
           g == Transfer(d, c)
<1>1. /\ to[p] \in Seq(Cmds) /\ to[p] # <<>>
      /\ to' = [to EXCEPT ![p] = Tail(to[p])]
      /\ file' = [file EXCEPT ![d] = g]
      /\ UNCHANGED writing
  BY Zenon DEF Execute, connVars, IInv, TypeOK
<1>2. c \in Cmds /\ c = to[p][1] /\ 1 \in 1 .. Len(to[p])
  BY <1>1
<1>3. DeviceOf[c] = d
  BY Zenon, <1>2 DEF IInv, Routed
<1>4. /\ SizeOf[c] \in Nat /\ OffsetOf[c] \in Nat /\ MaxSize[d] \in Nat
      /\ file[d] \in Files /\ file[d].pos <= file[d].offset
  BY Zenon, <1>2, StorageConstants DEF IInv, TypeOK, PosBehind
<1>5. /\ g \in Files
      /\ g.pos <= g.offset
      /\ OpOf[c] = "LOAD" => g.size = file[d].size
      /\ OpOf[c] # "LOAD" /\ Fits(d \in Direct, SizeOf[c], OffsetOf[c], MaxSize[d])
           => g.size <= MaxSize[d] \/ g.size = file[d].size
  <2> HIDE DEF c
  <2>1. CASE OpOf[c] = "LOAD"
    BY Zenon, <2>1, <1>4, LoadFile DEF Transfer
  <2>2. CASE OpOf[c] # "LOAD"
    <3>1. (d \in Direct) \in BOOLEAN
      OBVIOUS
    <3>2. g = AfterStore(file[d], d \in Direct, SizeOf[c], OffsetOf[c],
                         MaxSize[d])
      BY Zenon, <2>2 DEF Transfer
    <3> HIDE DEF g
    <3>3. /\ g \in Files
          /\ g.pos <= g.offset
          /\ Fits(d \in Direct, SizeOf[c], OffsetOf[c], MaxSize[d])
               => g.size <= MaxSize[d] \/ g.size = file[d].size
      <4> DEFINE dir == d \in Direct
                 n == SizeOf[c]
                 off == OffsetOf[c]
                 max == MaxSize[d]
                 f == file[d]
      <4>1. /\ dir \in BOOLEAN /\ n \in Nat /\ off \in Nat /\ max \in Nat
            /\ f \in Files /\ f.pos <= f.offset
            /\ g = AfterStore(f, dir, n, off, max)
        BY Zenon, <3>1, <3>2, <1>4
      <4>2. SUFFICES /\ g \in Files
                     /\ g.pos <= g.offset
                     /\ Fits(dir, n, off, max) => g.size <= max \/ g.size = f.size
        OBVIOUS
      <4> HIDE DEF dir, n, off, max, f
      <4> QED
        BY SMT, <4>1, StoreFile
    <3> QED
      BY Zenon, <2>2, <3>3
  <2> QED
    BY Zenon, <2>1, <2>2
<1> HIDE DEF g
<1>6. TypeOK'
  <2>1. Tail(to[p]) \in Seq(Cmds)
    BY <1>1
  <2> QED
    BY Zenon, <1>1, <1>5, <2>1 DEF IInv, TypeOK
<1>7. Routed'
  <2> SUFFICES ASSUME NEW v \in Workers, NEW e \in Devices,
                      NEW i \in 1 .. Len(to'[v, e])
               PROVE  DeviceOf[to'[v, e][i]] = e
    BY Zenon DEF Routed
  <2>1. CASE <<v, e>> # p
    <3>1. to'[v, e] = to[v, e]
      BY Zenon, <2>1, <1>1 DEF IInv, TypeOK
    <3> QED
      BY Zenon, <3>1 DEF IInv, Routed
  <2>2. CASE <<v, e>> = p
    <3>1. to'[v, e] = Tail(to[v, e]) /\ to[v, e] \in Seq(Cmds)
          /\ to[v, e] # <<>>
      BY Zenon, <2>2, <1>1 DEF IInv, TypeOK
    <3>2. i + 1 \in 1 .. Len(to[v, e]) /\ to'[v, e][i] = to[v, e][i + 1]
      BY Zenon, <3>1, TailElem
    <3> QED
      BY ZenonT(30), <3>2 DEF IInv, Routed
  <2> QED
    BY Zenon, <2>1, <2>2
<1>8. PosBehind'
  BY Zenon, <1>1, <1>5 DEF IInv, TypeOK, PosBehind
<1>9. FileWithinMax'
  <2> SUFFICES
        ASSUME NEW e \in Devices,
               \A x \in Cmds : DeviceOf[x] = e /\ OpOf[x] # "LOAD" =>
                 Fits(e \in Direct, SizeOf[x], OffsetOf[x], MaxSize[e])
        PROVE  file'[e].size <= MaxSize[e] \/ file'[e].size <= BUF_SIZE
    BY Zenon DEF FileWithinMax
  <2>1. file[e].size <= MaxSize[e] \/ file[e].size <= BUF_SIZE
    BY Zenon DEF IInv, FileWithinMax
  <2>2. CASE e # d
    BY Zenon, <2>1, <2>2, <1>1 DEF IInv, TypeOK
  <2>3. CASE e = d
    <3>1. file'[e] = g
      BY Zenon, <2>3, <1>1 DEF IInv, TypeOK
    <3>2. OpOf[c] # "LOAD" =>
            Fits(d \in Direct, SizeOf[c], OffsetOf[c], MaxSize[d])
      BY <2>3, <1>2, <1>3
    <3> HIDE DEF c
    <3> QED
      BY Zenon, <2>1, <2>3, <3>1, <3>2, <1>5
  <2> QED
    BY <2>2, <2>3
<1> QED
  BY <1>6, <1>7, <1>8, <1>9 DEF IInv

\* Every other step leaves the pipes to the devices and the files alone.
LEMMA OtherInv ==
  ASSUME IInv, UNCHANGED <<writing, to, file>>
  PROVE  IInv'
BY Zenon DEF IInv, TypeOK, Routed, PosBehind, FileWithinMax

LEMMA NextInv == IInv /\ [Next]_vars => IInv'
<1> SUFFICES ASSUME IInv, [Next]_vars PROVE IInv'
  OBVIOUS
<1>1. CASE UNCHANGED vars
  BY Zenon, <1>1, OtherInv DEF vars, connVars
<1>2. CASE \E c \in Cmds : Issue(c)
  BY Zenon, <1>2, IssueInv
<1>3. CASE \E w \in Workers : Write(w)
  BY Zenon, <1>3, WriteInv
<1>4. CASE \E w \in Workers, d \in Devices : ReadAck(w, d)
  BY Zenon, <1>4, OtherInv DEF ReadAck, connVars
<1>5. CASE \E w \in Workers, d \in Devices : Execute(w, d)
  BY <1>5, ExecuteInv
<1>6. CASE \E d \in Devices : Reply(d)
  BY Zenon, <1>6, OtherInv DEF Reply, connVars
<1>7. CASE \E d \in Devices : TimerSync(d)
  BY Zenon, <1>7, OtherInv DEF TimerSync, connVars
<1>8. CASE \E d \in Devices : TimerPop(d)
  BY <1>8, OtherInv DEF TimerPop, connVars
<1> QED
  BY Zenon, <1>1, <1>2, <1>3, <1>4, <1>5, <1>6, <1>7, <1>8 DEF Next

(* Every reachable state satisfies the inductive invariant: commands are in
   the pipes of their own device, and no file is ahead of its offset. *)
THEOREM StorageInductive == Spec => []IInv
BY InitInv, NextInv, PTL DEF Spec

(* A storage file never grows past max_storage_size, or the BUF_SIZE bytes it
   is created with when that is more, as long as every STORE fits below its
   maximum, for any number of threads and commands and any sizes. *)
THEOREM FileWithinMaxHolds == Spec => []FileWithinMax
<1>1. IInv => FileWithinMax
  BY DEF IInv
<1> QED
  BY <1>1, StorageInductive, PTL
-----------------------------------------------------------------------------
(* For the refinement: where a command is.  Its worker and its device are
   those the command names, so it has one place of each kind to be in. *)
Written(c) == c # Nobody /\ writing[WorkerOf[c]] = c
Sent(c) == c \in ToSet(to[<<WorkerOf[c], DeviceOf[c]>>])
Queued(c) == c \in waiting[DeviceOf[c]]
Due(c) == c # Nobody /\ pending[DeviceOf[c]] = c
Answered(c) == c \in ToSet(back[<<WorkerOf[c], DeviceOf[c]>>])

PlaceTypes ==
  /\ todo \in SUBSET Cmds
  /\ back \in [Workers \X Devices -> Seq(Cmds)]
  /\ dirty \in [Devices -> SUBSET {c \in Cmds : OpOf[c] # "LOAD"}]
  /\ pending \in [Devices -> Cmds \cup {Nobody}]
  /\ syncing \in [Devices -> BOOLEAN]
  /\ waiting \in [Devices -> SUBSET Cmds]
  /\ acks \in [Workers \X Cmds -> Nat]

\* The worker and the device that have a command are its own, and a pipe
\* holds it once.
OwnPlace ==
  /\ \A w \in Workers : writing[w] # Nobody => WorkerOf[writing[w]] = w
  /\ \A w \in Workers, d \in Devices :
       /\ \A c \in ToSet(to[<<w, d>>]) \cup ToSet(back[<<w, d>>]) :
            WorkerOf[c] = w /\ DeviceOf[c] = d
       /\ IsInjective(to[<<w, d>>]) /\ IsInjective(back[<<w, d>>])
  /\ \A d \in Devices :
       /\ pending[d] # Nobody => DeviceOf[pending[d]] = d
       /\ \A c \in waiting[d] : DeviceOf[c] = d

\* A command is in one place at a time.
OnePlace ==
  \A c \in Cmds :
    /\ Acked(c) => ~Answered(c)
    /\ Acked(c) \/ Answered(c) => ~Due(c)
    /\ Acked(c) \/ Answered(c) \/ Due(c) => ~Queued(c)
    /\ Acked(c) \/ Answered(c) \/ Due(c) \/ Queued(c) => ~Sent(c)
    /\ Acked(c) \/ Answered(c) \/ Due(c) \/ Queued(c) \/ Sent(c) => ~Written(c)
    /\ Acked(c) \/ Answered(c) \/ Due(c) \/ Queued(c) \/ Sent(c) \/ Written(c)
         => c \notin todo

\* Only what is waited for comes back, a STORE after its sync; what waits for
\* the timer was written, and is synced once the timer's loop runs.
SyncedFirst ==
  \A c \in Cmds :
    /\ Answered(c) \/ Due(c) => Waits(c) /\ (OpOf[c] = "SYNC" => c \in durable)
    /\ Queued(c) => /\ OpOf[c] = "SYNC"
                    /\ c \in durable \cup dirty[DeviceOf[c]]
                    /\ syncing[DeviceOf[c]] => c \in durable

RInv == PlaceTypes /\ OwnPlace /\ OnePlace /\ SyncedFirst
-----------------------------------------------------------------------------
\* A write to a pipe adds its command to what the pipe holds.
LEMMA PipeWrite ==
  ASSUME NEW s \in Seq(Cmds), NEW c \in Cmds
  PROVE  /\ Append(s, c) \in Seq(Cmds)
         /\ ToSet(Append(s, c)) = ToSet(s) \cup {c}
         /\ IsInjective(s) /\ c \notin ToSet(s) => IsInjective(Append(s, c))
<1> DEFINE t == Append(s, c)
<1>1. /\ t \in Seq(Cmds) /\ Len(t) = Len(s) + 1 /\ t[Len(s) + 1] = c
      /\ \A i \in 1 .. Len(s) : t[i] = s[i]
      /\ Len(s) \in Nat
      /\ DOMAIN s = 1 .. Len(s) /\ DOMAIN t = 1 .. Len(s) + 1
  OBVIOUS
<1> HIDE DEF t
<1>2. \A i \in 1 .. Len(s) + 1 : i \in 1 .. Len(s) \/ i = Len(s) + 1
  BY <1>1
<1>3. 1 .. Len(s) \subseteq 1 .. Len(s) + 1 /\ Len(s) + 1 \in 1 .. Len(s) + 1
  BY <1>1
<1>4. ToSet(t) = ToSet(s) \cup {c}
  BY Zenon, <1>1, <1>2, <1>3 DEF ToSet
<1>5. ASSUME IsInjective(s), c \notin ToSet(s)
      PROVE  IsInjective(t)
  <2> SUFFICES ASSUME NEW i \in 1 .. Len(s) + 1, NEW j \in 1 .. Len(s) + 1,
                      t[i] = t[j]
               PROVE  i = j
    BY Zenon, <1>1 DEF IsInjective
  <2>1. \A k \in 1 .. Len(s) : s[k] # c
    BY Zenon, <1>1, <1>5 DEF ToSet
  <2>2. \A k, l \in 1 .. Len(s) : s[k] = s[l] => k = l
    BY Zenon, <1>1, <1>5 DEF IsInjective
  <2> QED
    BY Zenon, <2>1, <2>2, <1>1, <1>2
<1> QED
  BY Zenon, <1>1, <1>4, <1>5 DEF t

\* A read takes its first command out, for good when the pipe held it once.
LEMMA PipeRead ==
  ASSUME NEW s \in Seq(Cmds), s # <<>>
  PROVE  /\ Tail(s) \in Seq(Cmds)
         /\ Head(s) \in Cmds
         /\ Head(s) \in ToSet(s)
         /\ IsInjective(s) => /\ IsInjective(Tail(s))
                              /\ ToSet(Tail(s)) = ToSet(s) \ {Head(s)}
<1> DEFINE t == Tail(s)
           h == Head(s)
<1>1. /\ t \in Seq(Cmds) /\ Len(s) \in Nat \ {0} /\ h = s[1] /\ h \in Cmds
      /\ \A i \in 1 .. Len(s) - 1 : t[i] = s[i + 1]
      /\ DOMAIN s = 1 .. Len(s) /\ DOMAIN t = 1 .. Len(s) - 1
  OBVIOUS
<1> HIDE DEF t, h
<1>2. h \in ToSet(s)
  BY <1>1 DEF ToSet
<1>3. ASSUME IsInjective(s)
      PROVE  IsInjective(t) /\ ToSet(t) = ToSet(s) \ {h}
  <2>1. \A k, l \in 1 .. Len(s) : s[k] = s[l] => k = l
    BY Zenon, <1>1, <1>3 DEF IsInjective
  <2>2. \A i \in 1 .. Len(s) - 1 : i + 1 \in 1 .. Len(s) /\ i + 1 # 1 /\ i \in Nat
    BY <1>1
  <2>3. \A i \in 1 .. Len(s) : i # 1 => i - 1 \in 1 .. Len(s) - 1 /\ (i - 1) + 1 = i
    BY <1>1
  <2>4. IsInjective(t)
    <3> SUFFICES ASSUME NEW i \in 1 .. Len(s) - 1, NEW j \in 1 .. Len(s) - 1,
                        t[i] = t[j]
                 PROVE  i = j
      BY Zenon, <1>1 DEF IsInjective
    <3>1. i + 1 = j + 1
      BY Zenon, <2>1, <2>2, <1>1
    <3> QED
      BY <3>1, <2>2
  <2>5. ToSet(t) \subseteq ToSet(s) \ {h}
    <3> SUFFICES ASSUME NEW i \in 1 .. Len(s) - 1
                 PROVE  t[i] \in ToSet(s) /\ t[i] # h
      BY Zenon, <1>1 DEF ToSet
    <3>1. t[i] = s[i + 1] /\ i + 1 \in 1 .. Len(s) /\ i + 1 # 1 /\ 1 \in 1 .. Len(s)
      BY <1>1, <2>2
    <3> QED
      BY Zenon, <3>1, <2>1, <1>1 DEF ToSet
  <2>6. ToSet(s) \ {h} \subseteq ToSet(t)
    <3> SUFFICES ASSUME NEW i \in 1 .. Len(s), s[i] # h
                 PROVE  s[i] \in ToSet(t)
      BY ZenonT(30), <1>1 DEF ToSet
    <3>1. i # 1
      BY <1>1
    <3>2. i - 1 \in 1 .. Len(s) - 1 /\ (i - 1) + 1 = i
      BY ZenonT(30), <3>1, <2>3
    <3>3. s[i] = t[i - 1]
      BY Zenon, <3>2, <1>1
    <3> QED
      BY Zenon, <3>2, <3>3, <1>1 DEF ToSet
  <2> QED
    BY Zenon, <2>4, <2>5, <2>6
<1> QED
  BY Zenon, <1>1, <1>2, <1>3 DEF t, h

LEMMA EmptyPipe == ToSet(<<>>) = {} /\ IsInjective(<<>>)
<1>1. DOMAIN <<>> = {}
  OBVIOUS
<1> QED
  BY <1>1 DEF ToSet, IsInjective

LEMMA SuccNotZero == \A n \in Nat : n + 1 # 0
OBVIOUS

\* A step that reads no acknowledgement.
LEMMA AcksKept == ASSUME acks' = acks PROVE \A c \in Cmds : Acked(c)' = Acked(c)
BY Zenon DEF Acked

LEMMA InitPlaces == Init => RInv
<1> SUFFICES ASSUME Init PROVE RInv
  OBVIOUS
<1>1. \A c \in Cmds : WorkerOf[c] \in Workers /\ DeviceOf[c] \in Devices
  BY Zenon, StorageConstants
<1>2. \A w \in Workers, d \in Devices :
        to[w, d] = <<>> /\ back[w, d] = <<>>
  BY Zenon DEF Init
<1>3. \A c \in Cmds : ~Sent(c) /\ ~Answered(c) /\ ~Due(c) /\ ~Queued(c) /\ ~Written(c)
  BY Zenon, <1>1, <1>2, EmptyPipe DEF Init, Sent, Answered, Due, Queued, Written
<1>4. PlaceTypes
  <2>1. <<>> \in Seq(Cmds)
    OBVIOUS
  <2>2. 0 \in Nat
    OBVIOUS
  <2> QED
    BY Zenon, <2>1, <2>2 DEF Init, PlaceTypes
<1>5. OwnPlace
  BY Zenon, <1>2, EmptyPipe DEF Init, OwnPlace
<1>6. OnePlace
  <2>1. \A c \in Cmds : acks[WorkerOf[c], c] = 0
    BY Zenon, <1>1 DEF Init
  <2>2. \A c \in Cmds : ~Acked(c)
    BY Zenon, <2>1 DEF Acked
  <2> QED
    BY Zenon, <1>3, <2>2 DEF OnePlace
<1>7. SyncedFirst
  BY Zenon, <1>3 DEF SyncedFirst
<1> QED
  BY Zenon, <1>4, <1>5, <1>6, <1>7 DEF RInv

\* process_single_message takes a command that was nowhere yet.
LEMMA IssuePlaces == ASSUME TypeOK, RInv, NEW c \in Cmds, Issue(c) PROVE RInv'
<1>1. /\ c \in todo /\ writing[WorkerOf[c]] = Nobody
      /\ todo' = todo \ {c}
      /\ writing' = [writing EXCEPT ![WorkerOf[c]] = c]
      /\ UNCHANGED <<to, back, dirty, durable, pending, syncing, waiting, acks>>
  BY DEF Issue, Polling
<1>2. \A e \in Cmds : WorkerOf[e] \in Workers /\ DeviceOf[e] \in Devices
  BY Zenon, StorageConstants
<1>3. /\ \A e \in Cmds : Written(e)' => Written(e) \/ e = c
      /\ \A e \in Cmds : /\ Sent(e)' = Sent(e) /\ Answered(e)' = Answered(e)
                         /\ Due(e)' = Due(e) /\ Queued(e)' = Queued(e)
  BY Zenon, <1>1, <1>2 DEF TypeOK, Written, Sent, Answered, Due, Queued
<1>4. PlaceTypes'
  BY Zenon, <1>1 DEF RInv, PlaceTypes
<1>5. OwnPlace'
  <2>1. \A w \in Workers : writing'[w] # Nobody => WorkerOf[writing'[w]] = w
    BY Zenon, <1>1, <1>2 DEF TypeOK, RInv, OwnPlace
  <2> QED
    BY Zenon, <1>1, <2>1 DEF RInv, OwnPlace
<1>6. OnePlace'
  BY Zenon, <1>1, <1>3, AcksKept DEF RInv, OnePlace
<1>7. SyncedFirst'
  BY Zenon, <1>1, <1>3 DEF RInv, SyncedFirst
<1> QED
  BY Zenon, <1>4, <1>5, <1>6, <1>7 DEF RInv

\* A conn_worker's write moves the command into the pipe to its device.
LEMMA WritePlaces == ASSUME TypeOK, RInv, NEW w \in Workers, Write(w) PROVE RInv'
<1> DEFINE c == writing[w]
           p == <<w, DeviceOf[c]>>
<1>1. /\ c # Nobody
      /\ to' = [to EXCEPT ![p] = Append(to[p], c)]
      /\ writing' = [writing EXCEPT ![w] = Nobody]
      /\ UNCHANGED <<todo, back, dirty, durable, pending, syncing, waiting, acks>>
  BY Zenon DEF Write
<1>2. c \in Cmds /\ WorkerOf[c] = w /\ DeviceOf[c] \in Devices
  BY ZenonT(30), <1>1, StorageConstants DEF TypeOK, RInv, OwnPlace
<1>3. \A e \in Cmds : WorkerOf[e] \in Workers /\ DeviceOf[e] \in Devices
  BY ZenonT(30), StorageConstants
<1>4. Written(c)
  BY ZenonT(30), <1>1, <1>2 DEF Written
<1>5. ~Sent(c)
  BY Zenon, <1>2, <1>4 DEF RInv, OnePlace
<1>6. p \in Workers \X Devices /\ to[p] \in Seq(Cmds) /\ c \notin ToSet(to[p])
  BY Zenon, <1>2, <1>5 DEF TypeOK, Sent
<1> HIDE DEF c
<1>7. /\ ToSet(to'[p]) = ToSet(to[p]) \cup {c}
      /\ IsInjective(to[p]) => IsInjective(to'[p])
      /\ \A x \in Workers \X Devices : x # p => to'[x] = to[x]
  BY Zenon, <1>1, <1>2, <1>6, PipeWrite DEF TypeOK
<1>8. \A e \in Cmds :
        /\ Written(e)' => Written(e) /\ e # c
        /\ Sent(e)' => Sent(e) \/ e = c
        /\ Answered(e)' = Answered(e)
        /\ Due(e)' = Due(e)
        /\ Queued(e)' = Queued(e)
  <2> TAKE e \in Cmds
  <2>1. Written(e)' => Written(e) /\ e # c
    BY Zenon, <1>1, <1>2, <1>3 DEF TypeOK, Written
  <2>2. Sent(e)' => Sent(e) \/ e = c
    <3> DEFINE x == <<WorkerOf[e], DeviceOf[e]>>
    <3>1. x \in Workers \X Devices
      BY Zenon, <1>3
    <3>2. ToSet(to'[x]) \subseteq ToSet(to[x]) \cup {c}
      BY Zenon, <3>1, <1>7
    <3> QED
      BY Zenon, <3>2 DEF Sent
  <2> QED
    BY Zenon, <2>1, <2>2, <1>1 DEF Answered, Due, Queued
<1>9. PlaceTypes'
  BY Zenon, <1>1 DEF RInv, PlaceTypes
<1>10. OwnPlace'
  <2>1. \A v \in Workers : writing'[v] # Nobody => WorkerOf[writing'[v]] = v
    BY Zenon, <1>1 DEF TypeOK, RInv, OwnPlace
  <2>2. ASSUME NEW v \in Workers, NEW d \in Devices
        PROVE  /\ \A e \in ToSet(to'[<<v, d>>]) : WorkerOf[e] = v /\ DeviceOf[e] = d
               /\ IsInjective(to'[<<v, d>>])
    <3>1. CASE <<v, d>> = p
      <4>1. v = w /\ d = DeviceOf[c]
        BY ZenonT(30), <3>1
      <4> QED
        BY <4>1, <3>1, <1>2, <1>7 DEF RInv, OwnPlace
    <3>2. CASE <<v, d>> # p
      BY <3>2, <1>7 DEF RInv, OwnPlace
    <3> QED
      BY ZenonT(30), <3>1, <3>2
  <2> QED
    BY <1>1, <2>1, <2>2 DEF RInv, OwnPlace
<1>11. OnePlace'
  BY Zenon, <1>1, <1>2, <1>4, <1>8, AcksKept DEF RInv, OnePlace
<1>12. SyncedFirst'
  BY Zenon, <1>1, <1>8 DEF RInv, SyncedFirst
<1> QED
  BY <1>9, <1>10, <1>11, <1>12 DEF RInv

\* The acknowledgement a conn_worker reads leaves its pipe.
LEMMA ReadAckPlaces ==
  ASSUME TypeOK, RInv, NEW w \in Workers, NEW d \in Devices, ReadAck(w, d)
  PROVE  RInv'
<1> DEFINE p == <<w, d>>
           c == Head(back[p])
<1>1. /\ back[p] # <<>>
      /\ acks' = [acks EXCEPT ![<<w, c>>] = acks[<<w, c>>] + 1]
      /\ back' = [back EXCEPT ![p] = Tail(back[p])]
      /\ UNCHANGED <<todo, writing, to, dirty, durable, pending, syncing, waiting>>
  BY ZenonT(30) DEF ReadAck, connVars
<1>2. p \in Workers \X Devices /\ back[p] \in Seq(Cmds) /\ IsInjective(back[p])
  BY Zenon DEF RInv, PlaceTypes, OwnPlace
<1>3. \A e \in Cmds : WorkerOf[e] \in Workers /\ DeviceOf[e] \in Devices
  BY Zenon, StorageConstants
<1>4. /\ c \in Cmds /\ c \in ToSet(back[p])
      /\ Tail(back[p]) \in Seq(Cmds) /\ IsInjective(Tail(back[p]))
      /\ ToSet(Tail(back[p])) = ToSet(back[p]) \ {c}
  BY Zenon, <1>1, <1>2, PipeRead
<1>5. WorkerOf[c] = w /\ DeviceOf[c] = d
  BY <1>4 DEF RInv, OwnPlace
<1>6. Answered(c)
  BY Zenon, <1>4, <1>5 DEF Answered
<1> HIDE DEF c
<1>7. /\ ToSet(back'[p]) = ToSet(back[p]) \ {c} /\ IsInjective(back'[p])
      /\ \A x \in Workers \X Devices : x # p => back'[x] = back[x]
  BY Zenon, <1>1, <1>2, <1>4 DEF RInv, PlaceTypes
<1>8. \A e \in Cmds :
        /\ Answered(e)' => Answered(e) /\ e # c
        /\ Written(e)' = Written(e)
        /\ Sent(e)' = Sent(e)
        /\ Due(e)' = Due(e)
        /\ Queued(e)' = Queued(e)
  <2> TAKE e \in Cmds
  <2>1. Answered(e)' => Answered(e) /\ e # c
    <3> DEFINE x == <<WorkerOf[e], DeviceOf[e]>>
    <3>1. x \in Workers \X Devices
      BY ZenonT(30), <1>3
    <3>2. CASE x = p
      BY ZenonT(30), <3>2, <1>7 DEF Answered
    <3>3. CASE x # p
      BY Zenon, <3>1, <3>3, <1>5, <1>7 DEF Answered
    <3> QED
      BY ZenonT(30), <3>2, <3>3
  <2> QED
    BY Zenon, <2>1, <1>1 DEF Written, Sent, Due, Queued
<1>9. PlaceTypes'
  <2>1. acks[<<w, c>>] + 1 \in Nat
    <3>1. acks[<<w, c>>] \in Nat
      BY Zenon, <1>4 DEF RInv, PlaceTypes
    <3> QED
      BY <3>1
  <2> QED
    BY ZenonT(30), <1>1, <1>4, <2>1 DEF RInv, PlaceTypes
<1>10. OwnPlace'
  <2>1. ASSUME NEW v \in Workers, NEW e \in Devices
        PROVE  /\ ToSet(back'[<<v, e>>]) \subseteq ToSet(back[<<v, e>>])
               /\ IsInjective(back'[<<v, e>>])
    <3>1. CASE <<v, e>> = p
      BY Zenon, <3>1, <1>7
    <3>2. CASE <<v, e>> # p
      BY Zenon, <3>2, <1>7 DEF RInv, OwnPlace
    <3> QED
      BY Zenon, <3>1, <3>2
  <2>2. \A v \in Workers, e \in Devices :
          /\ \A x \in ToSet(to'[<<v, e>>]) \cup ToSet(back'[<<v, e>>]) :
               WorkerOf[x] = v /\ DeviceOf[x] = e
          /\ IsInjective(to'[<<v, e>>]) /\ IsInjective(back'[<<v, e>>])
    <3> TAKE v \in Workers, e \in Devices
    <3>1. ToSet(back'[<<v, e>>]) \subseteq ToSet(back[<<v, e>>]) /\ IsInjective(back'[<<v, e>>])
      BY Zenon, <2>1
    <3>2. /\ \A x \in ToSet(to[<<v, e>>]) \cup ToSet(back[<<v, e>>]) :
               WorkerOf[x] = v /\ DeviceOf[x] = e
          /\ IsInjective(to[<<v, e>>])
      BY Zenon DEF RInv, OwnPlace
    <3>3. to'[<<v, e>>] = to[<<v, e>>]
      BY Zenon, <1>1
    <3> QED
      BY Zenon, <3>1, <3>2, <3>3
  <2>3. \A v \in Workers : writing'[v] # Nobody => WorkerOf[writing'[v]] = v
    BY Zenon, <1>1 DEF RInv, OwnPlace
  <2>4. \A e \in Devices : /\ pending'[e] # Nobody => DeviceOf[pending'[e]] = e
                          /\ \A x \in waiting'[e] : DeviceOf[x] = e
    BY Zenon, <1>1 DEF RInv, OwnPlace
  <2> QED
    BY Zenon, <2>2, <2>3, <2>4 DEF OwnPlace
<1>11. OnePlace'
  <2>1. \A e \in Cmds : e # c => Acked(e)' = Acked(e)
    <3> SUFFICES ASSUME NEW e \in Cmds, e # c
                 PROVE  acks'[WorkerOf[e], e] = acks[WorkerOf[e], e]
      BY Zenon DEF Acked
    <3>1. <<WorkerOf[e], e>> # <<w, c>> /\ <<WorkerOf[e], e>> \in Workers \X Cmds
      BY Zenon, <1>3
    <3> QED
      BY Zenon, <3>1, <1>1 DEF RInv, PlaceTypes
  <2>2. \A e \in Cmds : Acked(e)' => Acked(e) \/ e = c
    BY Zenon, <2>1
  <2> QED
    BY Zenon, <1>1, <1>4, <1>6, <1>8, <2>2 DEF RInv, OnePlace
<1>12. SyncedFirst'
  BY Zenon, <1>1, <1>8 DEF RInv, SyncedFirst
<1> QED
  BY ZenonT(30), <1>9, <1>10, <1>11, <1>12 DEF RInv

\* The storage_worker takes a command from a pipe.  An acknowledgement that is
\* due at once follows the fsync() of a STORE; a STORE that waits was written.
LEMMA ExecutePlaces ==
  ASSUME TypeOK, RInv, NEW w \in Workers, NEW d \in Devices, Execute(w, d)
  PROVE  RInv'
<1> DEFINE p == <<w, d>>
           c == Head(to[p])
           written == IF OpOf[c] = "LOAD" THEN dirty[d] ELSE dirty[d] \cup {c}
<1>1. /\ to[p] # <<>> /\ pending[d] = Nobody /\ ~syncing[d]
      /\ to' = [to EXCEPT ![p] = Tail(to[p])]
      /\ dirty' = [dirty EXCEPT ![d] = IF SyncsNow(d, c) THEN {} ELSE written]
      /\ durable' = IF SyncsNow(d, c) THEN durable \cup written ELSE durable
      /\ UNCHANGED <<todo, writing, back, syncing, acks>>
  BY Zenon DEF Execute, connVars, Idle
<1>2. \/ /\ OpOf[c] = "STORE"
         /\ UNCHANGED <<pending, waiting>>
      \/ /\ OpOf[c] = "LOAD" \/ SyncsNow(d, c)
         /\ pending' = [pending EXCEPT ![d] = c]
         /\ UNCHANGED waiting
      \/ /\ OpOf[c] = "SYNC" /\ ~SyncsNow(d, c)
         /\ waiting' = [waiting EXCEPT ![d] = waiting[d] \cup {c}]
         /\ UNCHANGED pending
  BY Zenon DEF Execute, Enqueued, SyncsNow
<1>3. \A e \in Cmds : WorkerOf[e] \in Workers /\ DeviceOf[e] \in Devices
  BY StorageConstants
<1>4. p \in Workers \X Devices /\ to[p] \in Seq(Cmds) /\ IsInjective(to[p])
  BY DEF TypeOK, RInv, OwnPlace
<1>5. /\ c \in Cmds /\ c \in ToSet(to[p])
      /\ IsInjective(Tail(to[p]))
      /\ ToSet(Tail(to[p])) = ToSet(to[p]) \ {c}
  BY Zenon, <1>1, <1>4, PipeRead
<1>6. WorkerOf[c] = w /\ DeviceOf[c] = d
  BY <1>5 DEF RInv, OwnPlace
<1>7. Sent(c)
  BY ZenonT(30), <1>5, <1>6 DEF Sent
<1>8. SyncsNow(d, c) => OpOf[c] = "SYNC"
  BY ZenonT(30) DEF SyncsNow
<1>9. to'[p] = Tail(to[p]) /\ \A x \in Workers \X Devices : x # p => to'[x] = to[x]
  BY Zenon, <1>1, <1>4 DEF TypeOK
<1> HIDE DEF c
<1>10. ToSet(to'[p]) = ToSet(to[p]) \ {c} /\ IsInjective(to'[p])
  BY ZenonT(30), <1>5, <1>9
<1>11. \A e \in Cmds : Sent(e)' => Sent(e) /\ e # c
  <2> TAKE e \in Cmds
  <2> DEFINE x == <<WorkerOf[e], DeviceOf[e]>>
  <2>1. x \in Workers \X Devices
    BY <1>3
  <2>2. CASE x = p
    BY ZenonT(30), <2>2, <1>10 DEF Sent
  <2>3. CASE x # p
    BY Zenon, <2>1, <2>3, <1>6, <1>9 DEF Sent
  <2> QED
    BY <2>2, <2>3
<1>12. \A e \in Cmds :
         /\ Written(e)' = Written(e)
         /\ Answered(e)' = Answered(e)
         /\ Due(e)' => Due(e) \/ (e = c /\ (OpOf[c] = "LOAD" \/ SyncsNow(d, c)))
         /\ Queued(e)' => Queued(e) \/ (e = c /\ OpOf[c] = "SYNC" /\ ~SyncsNow(d, c))
  <2> TAKE e \in Cmds
  <2>1. DeviceOf[e] \in Devices
    BY Zenon, <1>3
  <2>2. Written(e)' = Written(e) /\ Answered(e)' = Answered(e)
    BY Zenon, <1>1 DEF Written, Answered
  <2>3. Due(e)' => Due(e) \/ (e = c /\ (OpOf[c] = "LOAD" \/ SyncsNow(d, c)))
    BY Zenon, <1>2, <2>1 DEF Due, RInv, PlaceTypes
  <2>4. Queued(e)' => Queued(e) \/ (e = c /\ OpOf[c] = "SYNC" /\ ~SyncsNow(d, c))
    <3>1. CASE UNCHANGED waiting
      BY <3>1 DEF Queued
    <3>2. CASE /\ OpOf[c] = "SYNC" /\ ~SyncsNow(d, c)
               /\ waiting' = [waiting EXCEPT ![d] = waiting[d] \cup {c}]
      BY <3>2, <2>1 DEF Queued, RInv, PlaceTypes
    <3> QED
      BY Zenon, <3>1, <3>2, <1>2
  <2> QED
    BY ZenonT(30), <2>2, <2>3, <2>4
<1>13. /\ written \in SUBSET {e \in Cmds : OpOf[e] # "LOAD"}
       /\ dirty[d] \subseteq written
       /\ OpOf[c] # "LOAD" => c \in written
  BY <1>5 DEF RInv, PlaceTypes
<1> HIDE DEF written
<1>14. PlaceTypes'
  <2>1. dirty' \in [Devices -> SUBSET {e \in Cmds : OpOf[e] # "LOAD"}]
    BY Zenon, <1>1, <1>13 DEF RInv, PlaceTypes
  <2>2. pending' \in [Devices -> Cmds \cup {Nobody}]
    BY Zenon, <1>2, <1>5 DEF RInv, PlaceTypes
  <2>3. waiting' \in [Devices -> SUBSET Cmds]
    BY <1>2, <1>5 DEF RInv, PlaceTypes
  <2> QED
    BY Zenon, <1>1, <2>1, <2>2, <2>3 DEF RInv, PlaceTypes
<1>15. OwnPlace'
  <2>1. ASSUME NEW v \in Workers, NEW e \in Devices
        PROVE  /\ ToSet(to'[<<v, e>>]) \subseteq ToSet(to[<<v, e>>])
               /\ IsInjective(to'[<<v, e>>])
    <3>1. CASE <<v, e>> = p
      BY Zenon, <3>1, <1>10
    <3>2. CASE <<v, e>> # p
      BY Zenon, <3>2, <1>9 DEF RInv, OwnPlace
    <3> QED
      BY <3>1, <3>2
  <2>2. ASSUME NEW e \in Devices
        PROVE  /\ pending'[e] # Nobody => DeviceOf[pending'[e]] = e
               /\ \A x \in waiting'[e] : DeviceOf[x] = e
    BY <1>2, <1>6 DEF RInv, OwnPlace, PlaceTypes
  <2> QED
    BY SMTT(30), <1>1, <2>1, <2>2 DEF RInv, OwnPlace
<1>16. OnePlace'
  BY Zenon, <1>1, <1>5, <1>7, <1>8, <1>11, <1>12, AcksKept, AcksKept DEF RInv, OnePlace
<1>17. SyncedFirst'
  <2> SUFFICES ASSUME NEW e \in Cmds
               PROVE  /\ Answered(e)' \/ Due(e)' =>
                           Waits(e) /\ (OpOf[e] = "SYNC" => e \in durable')
                      /\ Queued(e)' =>
                           /\ OpOf[e] = "SYNC"
                           /\ e \in durable' \cup dirty'[DeviceOf[e]]
                           /\ syncing'[DeviceOf[e]] => e \in durable'
    BY ZenonT(30) DEF SyncedFirst, Waits
  <2>1. durable \subseteq durable'
    BY ZenonT(30), <1>1
  <2>2. durable \cup dirty[DeviceOf[e]] \subseteq durable' \cup dirty'[DeviceOf[e]]
    BY Zenon, <1>1, <1>3, <1>13 DEF RInv, PlaceTypes
  <2>3. CASE e # c
    BY Zenon, <2>1, <2>2, <2>3, <1>1, <1>12 DEF RInv, SyncedFirst
  <2>4. CASE e = c
    <3>1. ~Answered(c) /\ ~Due(c) /\ ~Queued(c)
      BY Zenon, <1>5, <1>7 DEF RInv, OnePlace
    <3>2. SyncsNow(d, c) => c \in durable'
      BY Zenon, <1>1, <1>8, <1>13
    <3>3. OpOf[c] = "SYNC" /\ ~SyncsNow(d, c) => c \in dirty'[d]
      BY Zenon, <1>1, <1>13 DEF RInv, PlaceTypes
    <3>4. ~syncing'[d]
      BY Zenon, <1>1
    <3> QED
      BY <2>4, <3>1, <3>2, <3>3, <3>4, <1>5, <1>6, <1>8, <1>12 DEF Waits
  <2> QED
    BY Zenon, <2>3, <2>4
<1> QED
  BY <1>14, <1>15, <1>16, <1>17 DEF RInv

\* The acknowledgement goes into the pipe of the worker the command came from.
LEMMA ReplyPlaces == ASSUME TypeOK, RInv, NEW d \in Devices, Reply(d) PROVE RInv'
<1> DEFINE c == pending[d]
           p == <<WorkerOf[c], d>>
<1>1. /\ c # Nobody
      /\ back' = [back EXCEPT ![p] = Append(back[p], c)]
      /\ pending' = [pending EXCEPT ![d] = Nobody]
      /\ UNCHANGED <<todo, writing, to, dirty, durable, syncing, waiting, acks>>
  BY Zenon DEF Reply, connVars
<1>2. c \in Cmds /\ DeviceOf[c] = d /\ WorkerOf[c] \in Workers
  BY <1>1, StorageConstants DEF RInv, PlaceTypes, OwnPlace
<1>3. \A e \in Cmds : WorkerOf[e] \in Workers /\ DeviceOf[e] \in Devices
  BY Zenon, StorageConstants
<1>4. Due(c)
  BY ZenonT(30), <1>1, <1>2 DEF Due
<1>5. ~Answered(c)
  BY ZenonT(30), <1>2, <1>4 DEF RInv, OnePlace
<1>6. p \in Workers \X Devices /\ back[p] \in Seq(Cmds) /\ c \notin ToSet(back[p])
  BY Zenon, <1>2, <1>5 DEF RInv, PlaceTypes, Answered
<1> HIDE DEF c
<1>7. /\ Append(back[p], c) \in Seq(Cmds)
      /\ ToSet(Append(back[p], c)) = ToSet(back[p]) \cup {c}
      /\ IsInjective(back[p]) => IsInjective(Append(back[p], c))
  BY Zenon, <1>2, <1>6, PipeWrite
<1>8. /\ back'[p] = Append(back[p], c)
      /\ \A x \in Workers \X Devices : x # p => back'[x] = back[x]
  BY ZenonT(30), <1>1, <1>6 DEF RInv, PlaceTypes
<1>9. \A e \in Cmds :
        /\ Written(e)' = Written(e)
        /\ Sent(e)' = Sent(e)
        /\ Queued(e)' = Queued(e)
        /\ Due(e)' => Due(e) /\ e # c
        /\ Answered(e)' => Answered(e) \/ e = c
  <2> TAKE e \in Cmds
  <2>1. Due(e)' => Due(e) /\ e # c
    BY Zenon, <1>1, <1>2, <1>3 DEF RInv, PlaceTypes, Due
  <2>2. Answered(e)' => Answered(e) \/ e = c
    <3> DEFINE x == <<WorkerOf[e], DeviceOf[e]>>
    <3>1. x \in Workers \X Devices
      BY Zenon, <1>3
    <3>2. ToSet(back'[x]) \subseteq ToSet(back[x]) \cup {c}
      BY Zenon, <3>1, <1>7, <1>8
    <3> QED
      BY <3>2 DEF Answered
  <2> QED
    BY Zenon, <2>1, <2>2, <1>1 DEF Written, Sent, Queued
<1>10. PlaceTypes'
  BY Zenon, <1>1, <1>7 DEF RInv, PlaceTypes
<1>11. OwnPlace'
  <2>1. ASSUME NEW v \in Workers, NEW e \in Devices
        PROVE  /\ \A x \in ToSet(back'[<<v, e>>]) : WorkerOf[x] = v /\ DeviceOf[x] = e
               /\ IsInjective(back'[<<v, e>>])
    <3>1. CASE <<v, e>> = p
      <4>1. v = WorkerOf[c] /\ e = d
        BY ZenonT(30), <3>1
      <4>2. /\ \A x \in ToSet(back[p]) : WorkerOf[x] = WorkerOf[c] /\ DeviceOf[x] = d
            /\ IsInjective(back[p])
        BY <1>2 DEF RInv, OwnPlace
      <4>3. ToSet(back'[p]) = ToSet(back[p]) \cup {c} /\ IsInjective(back'[p])
        BY Zenon, <4>2, <1>7, <1>8
      <4> QED
        BY Zenon, <4>1, <4>2, <4>3, <1>2
    <3>2. CASE <<v, e>> # p
      BY <3>2, <1>8 DEF RInv, OwnPlace
    <3> QED
      BY ZenonT(30), <3>1, <3>2
  <2>2. ASSUME NEW e \in Devices
        PROVE  pending'[e] # Nobody => DeviceOf[pending'[e]] = e
    BY <1>1 DEF RInv, OwnPlace, PlaceTypes
  <2> QED
    BY <1>1, <2>1, <2>2 DEF RInv, OwnPlace
<1>12. OnePlace'
  BY Zenon, <1>1, <1>2, <1>4, <1>9, AcksKept DEF RInv, OnePlace
<1>13. SyncedFirst'
  BY Zenon, <1>1, <1>2, <1>4, <1>9 DEF RInv, SyncedFirst
<1> QED
  BY <1>10, <1>11, <1>12, <1>13 DEF RInv

\* The timer's fsync() makes everything written so far durable.
LEMMA TimerSyncPlaces ==
  ASSUME TypeOK, RInv, NEW d \in Devices, TimerSync(d)
  PROVE  RInv'
<1>1. /\ durable' = durable \cup dirty[d]
      /\ dirty' = [dirty EXCEPT ![d] = {}]
      /\ syncing' = [syncing EXCEPT ![d] = TRUE]
      /\ UNCHANGED <<todo, writing, to, back, pending, waiting, acks>>
  BY ZenonT(30) DEF TimerSync, connVars
<1>2. \A e \in Cmds : DeviceOf[e] \in Devices
  BY ZenonT(30), StorageConstants
<1>3. \A e \in Cmds :
        /\ Written(e)' = Written(e) /\ Sent(e)' = Sent(e)
        /\ Queued(e)' = Queued(e) /\ Due(e)' = Due(e)
        /\ Answered(e)' = Answered(e)
  BY ZenonT(30), <1>1 DEF Written, Sent, Queued, Due, Answered
<1>4. PlaceTypes'
  BY ZenonT(30), <1>1 DEF RInv, PlaceTypes
<1>5. OwnPlace'
  BY Zenon, <1>1 DEF RInv, OwnPlace
<1>6. OnePlace'
  BY Zenon, <1>1, <1>3, AcksKept DEF RInv, OnePlace
<1>7. \A e \in Cmds :
        /\ durable \cup dirty[DeviceOf[e]] \subseteq durable' \cup dirty'[DeviceOf[e]]
        /\ syncing'[DeviceOf[e]] => \/ DeviceOf[e] = d
                                    \/ syncing[DeviceOf[e]]
        /\ DeviceOf[e] = d => dirty[DeviceOf[e]] \subseteq durable'
  BY Zenon, <1>1, <1>2 DEF RInv, PlaceTypes
<1>8. SyncedFirst'
  BY Zenon, <1>1, <1>3, <1>7 DEF RInv, SyncedFirst
<1> QED
  BY <1>4, <1>5, <1>6, <1>8 DEF RInv

\* The timer's loop takes a synced command out of sync_waiting_queue.
LEMMA TimerPopPlaces ==
  ASSUME TypeOK, RInv, NEW d \in Devices, TimerPop(d)
  PROVE  RInv'
<1>1. /\ syncing[d] /\ pending[d] = Nobody
      /\ UNCHANGED <<todo, writing, to, back, dirty, durable, acks>>
  BY Zenon DEF TimerPop, connVars
<1>2. \A e \in Cmds : DeviceOf[e] \in Devices
  BY StorageConstants
<1>3. CASE /\ syncing' = [syncing EXCEPT ![d] = FALSE]
           /\ UNCHANGED <<pending, waiting>>
  <2>1. \A e \in Cmds :
          /\ Written(e)' = Written(e) /\ Sent(e)' = Sent(e)
          /\ Queued(e)' = Queued(e) /\ Due(e)' = Due(e)
          /\ Answered(e)' = Answered(e)
    BY Zenon, <1>1, <1>3 DEF Written, Sent, Queued, Due, Answered
  <2>2. \A e \in Cmds : syncing'[DeviceOf[e]] => syncing[DeviceOf[e]]
    BY Zenon, <1>2, <1>3 DEF RInv, PlaceTypes
  <2>3. PlaceTypes'
    BY Zenon, <1>1, <1>3 DEF RInv, PlaceTypes
  <2>4. OwnPlace'
    BY Zenon, <1>1, <1>3 DEF RInv, OwnPlace
  <2>5. OnePlace'
    BY Zenon, <1>1, <2>1, AcksKept DEF RInv, OnePlace
  <2>6. SyncedFirst'
    BY Zenon, <1>1, <2>1, <2>2 DEF RInv, SyncedFirst
  <2> QED
    BY <2>3, <2>4, <2>5, <2>6 DEF RInv
<1>4. CASE \E c \in waiting[d] : /\ pending' = [pending EXCEPT ![d] = c]
                                 /\ waiting' = Pop(d, c)
                                 /\ UNCHANGED syncing
  <2>1. PICK c \in waiting[d] : /\ pending' = [pending EXCEPT ![d] = c]
                                /\ waiting' = [waiting EXCEPT ![d] = waiting[d] \ {c}]
                                /\ UNCHANGED syncing
    BY Zenon, <1>4 DEF Pop
  <2>2. c \in Cmds /\ DeviceOf[c] = d
    BY Zenon DEF RInv, PlaceTypes, OwnPlace
  <2>3. Queued(c)
    BY Zenon, <2>2 DEF Queued
  <2>4. OpOf[c] = "SYNC" /\ c \in durable
    BY Zenon, <1>1, <2>2, <2>3 DEF RInv, SyncedFirst
  <2>5. \A e \in Cmds :
          /\ Written(e)' = Written(e) /\ Sent(e)' = Sent(e)
          /\ Answered(e)' = Answered(e)
          /\ Queued(e)' => Queued(e) /\ e # c
          /\ Due(e)' => Due(e) \/ e = c
    <3> TAKE e \in Cmds
    <3>1. Queued(e)' => Queued(e) /\ e # c
      BY Zenon, <1>2, <2>1, <2>2 DEF RInv, PlaceTypes, Queued
    <3>2. Due(e)' => Due(e) \/ e = c
      BY Zenon, <1>2, <2>1 DEF RInv, PlaceTypes, Due
    <3> QED
      BY Zenon, <3>1, <3>2, <1>1 DEF Written, Sent, Answered
  <2>6. PlaceTypes'
    BY Zenon, <1>1, <2>1, <2>2 DEF RInv, PlaceTypes
  <2>7. OwnPlace'
    <3>1. ASSUME NEW e \in Devices
          PROVE  /\ pending'[e] # Nobody => DeviceOf[pending'[e]] = e
                 /\ \A x \in waiting'[e] : DeviceOf[x] = e
      BY Zenon, <2>1, <2>2 DEF RInv, OwnPlace, PlaceTypes
    <3> QED
      BY Zenon, <1>1, <3>1 DEF RInv, OwnPlace
  <2>8. OnePlace'
    BY Zenon, <1>1, <2>2, <2>3, <2>5, AcksKept DEF RInv, OnePlace
  <2>9. SyncedFirst'
    BY Zenon, <1>1, <2>1, <2>2, <2>4, <2>5 DEF RInv, SyncedFirst, Waits
  <2> QED
    BY Zenon, <2>6, <2>7, <2>8, <2>9 DEF RInv
<1> QED
  BY Zenon, <1>3, <1>4 DEF TimerPop

LEMMA NextPlaces == TypeOK /\ RInv /\ [Next]_vars => RInv'
<1> SUFFICES ASSUME TypeOK, RInv, [Next]_vars PROVE RInv'
  OBVIOUS
<1>1. CASE UNCHANGED vars
  BY ZenonT(30), <1>1 DEF vars, connVars, RInv, PlaceTypes, OwnPlace, OnePlace, SyncedFirst,
              Written, Sent, Queued, Due, Answered, Waits, Acked
<1>2. CASE \E c \in Cmds : Issue(c)
  BY <1>2, IssuePlaces
<1>3. CASE \E w \in Workers : Write(w)
  BY <1>3, WritePlaces
<1>4. CASE \E w \in Workers, d \in Devices : ReadAck(w, d)
  BY Zenon, <1>4, ReadAckPlaces
<1>5. CASE \E w \in Workers, d \in Devices : Execute(w, d)
  BY <1>5, ExecutePlaces
<1>6. CASE \E d \in Devices : Reply(d)
  BY <1>6, ReplyPlaces
<1>7. CASE \E d \in Devices : TimerSync(d)
  BY <1>7, TimerSyncPlaces
<1>8. CASE \E d \in Devices : TimerPop(d)
  BY <1>8, TimerPopPlaces
<1> QED
  BY Zenon, <1>1, <1>2, <1>3, <1>4, <1>5, <1>6, <1>7, <1>8 DEF Next

(* Every reachable state satisfies it: a command is in one place at a time,
   with the worker and the device it names, and a STORE whose acknowledgement
   is on its way was synced. *)
THEOREM PlacesInductive == Spec => []RInv
<1>1. IInv => TypeOK
  BY DEF IInv
<1> QED
  BY <1>1, InitPlaces, NextPlaces, StorageInductive, PTL DEF Spec
-----------------------------------------------------------------------------
\* Handing a command over is an abstract step when somebody waits for it.
LEMMA IssueRefines ==
  ASSUME RInv, NEW c \in Cmds, Issue(c)
  PROVE  [Contract!Next]_(Contract!vars)
<1>1. c \in todo /\ todo' = todo \ {c} /\ UNCHANGED <<acks, durable>>
  BY DEF Issue
<1>2. ~Acked(c) /\ ~Acked(c)' /\ \A e \in Cmds : Acked(e)' = Acked(e)
  BY Zenon, <1>1, AcksKept DEF RInv, OnePlace
<1>3. CASE Waits(c)
  <2>1. c \notin Handed /\ Handed' = Handed \cup {c}
    BY Zenon, <1>1, <1>2, <1>3 DEF Handed, Waits
  <2>2. acks[WorkerOf[c], c] = 0
    BY Zenon, <1>2 DEF Acked
  <2>3. Contract!Hand(c)
    BY Zenon, <1>1, <2>1, <2>2 DEF Contract!Hand
  <2> QED
    BY Zenon, <1>3, <2>3 DEF Contract!Next
<1>4. CASE ~Waits(c)
  <2>1. Handed' = Handed
    BY Zenon, <1>1, <1>2, <1>4 DEF Handed, Waits
  <2> QED
    BY Zenon, <1>1, <2>1 DEF Contract!vars
<1> QED
  BY Zenon, <1>3, <1>4

\* The acknowledgement that is read is one for a command handed over.
LEMMA ReadAckRefines ==
  ASSUME RInv, NEW w \in Workers, NEW d \in Devices, ReadAck(w, d)
  PROVE  [Contract!Next]_(Contract!vars)
<1> DEFINE p == <<w, d>>
           c == Head(back[p])
<1>1. /\ back[p] # <<>>
      /\ acks' = [acks EXCEPT ![<<w, c>>] = acks[<<w, c>>] + 1]
      /\ UNCHANGED <<todo, durable>>
  BY Zenon DEF ReadAck, connVars
<1>2. back[p] \in Seq(Cmds)
  BY Zenon DEF RInv, PlaceTypes
<1>3. c \in Cmds /\ c \in ToSet(back[p])
  BY <1>1, <1>2, PipeRead
<1>4. WorkerOf[c] = w /\ DeviceOf[c] = d
  BY <1>3 DEF RInv, OwnPlace
<1> HIDE DEF c
<1>5. Answered(c)
  BY ZenonT(30), <1>3, <1>4 DEF Answered
<1>6. c \notin todo /\ ~Acked(c)
  BY ZenonT(30), <1>3, <1>5 DEF RInv, OnePlace
<1>7. Waits(c) /\ (OpOf[c] = "SYNC" => c \in durable)
  BY ZenonT(30), <1>3, <1>5 DEF RInv, SyncedFirst
<1>8. OpOf[c] # "LOAD" => OpOf[c] = "SYNC"
  BY ZenonT(30), <1>3, <1>7, StorageConstants DEF Waits
<1>9. c \in Handed /\ Handed' = Handed \ {c}
  <2>1. \A e \in Cmds : e # c => Acked(e)' = Acked(e)
    <3> SUFFICES ASSUME NEW e \in Cmds, e # c
                 PROVE  acks'[WorkerOf[e], e] = acks[WorkerOf[e], e]
      BY Zenon DEF Acked
    <3>1. <<WorkerOf[e], e>> # <<w, c>> /\ <<WorkerOf[e], e>> \in Workers \X Cmds
      BY Zenon, StorageConstants
    <3> QED
      BY Zenon, <3>1, <1>1 DEF RInv, PlaceTypes
  <2>2. \A e \in Cmds : e = c => Acked(e)'
    <3>1. acks'[w, c] = acks[w, c] + 1 /\ acks[w, c] \in Nat
      BY Zenon, <1>1, <1>3 DEF RInv, PlaceTypes
    <3>2. acks'[w, c] # 0
      BY Zenon, <3>1, SuccNotZero
    <3> QED
      BY Zenon, <3>2, <1>4 DEF Acked
  <2> QED
    BY Zenon, <1>1, <1>3, <1>6, <1>7, <2>1, <2>2 DEF Handed
<1>10. Contract!Ack(c)
  BY Zenon, <1>1, <1>4, <1>7, <1>8, <1>9 DEF Contract!Ack
<1> QED
  BY Zenon, <1>3, <1>7, <1>10 DEF Contract!Next

\* load() and store() add to what is durable, or leave it alone.
LEMMA ExecuteRefines ==
  ASSUME TypeOK, RInv, NEW w \in Workers, NEW d \in Devices, Execute(w, d)
  PROVE  [Contract!Next]_(Contract!vars)
<1> DEFINE p == <<w, d>>
           c == Head(to[p])
           written == IF OpOf[c] = "LOAD" THEN dirty[d] ELSE dirty[d] \cup {c}
<1>1. /\ to[p] # <<>>
      /\ durable' = IF SyncsNow(d, c) THEN durable \cup written ELSE durable
      /\ UNCHANGED <<todo, acks>>
  BY Zenon DEF Execute, connVars
<1>2. c \in Cmds
  <2>1. to[p] \in Seq(Cmds)
    BY DEF TypeOK
  <2> QED
    BY ZenonT(30), <1>1, <2>1, PipeRead
<1> HIDE DEF c
<1>3. written \in SUBSET {e \in Cmds : OpOf[e] # "LOAD"}
  BY ZenonT(30), <1>2 DEF RInv, PlaceTypes
<1> HIDE DEF written
<1>4. Handed' = Handed
  BY Zenon, <1>1, AcksKept DEF Handed, Waits
<1>5. CASE SyncsNow(d, c)
  <2>1. Contract!Sync(written)
    BY Zenon, <1>1, <1>4, <1>5 DEF Contract!Sync
  <2> QED
    BY Zenon, <2>1, <1>3 DEF Contract!Next
<1>6. CASE ~SyncsNow(d, c)
  BY Zenon, <1>1, <1>4, <1>6 DEF Contract!vars
<1> QED
  BY ZenonT(30), <1>5, <1>6

LEMMA TimerSyncRefines ==
  ASSUME RInv, NEW d \in Devices, TimerSync(d)
  PROVE  [Contract!Next]_(Contract!vars)
<1>1. durable' = durable \cup dirty[d] /\ UNCHANGED <<todo, acks>>
  BY DEF TimerSync, connVars
<1>2. dirty[d] \in SUBSET {e \in Cmds : OpOf[e] # "LOAD"}
  BY Zenon DEF RInv, PlaceTypes
<1>3. Handed' = Handed
  BY Zenon, <1>1, AcksKept DEF Handed, Waits
<1>4. Contract!Sync(dirty[d])
  BY <1>1, <1>3 DEF Contract!Sync
<1> QED
  BY Zenon, <1>2, <1>4 DEF Contract!Next

\* Every other step is invisible to the worker that waits.
LEMMA OtherRefines ==
  ASSUME UNCHANGED <<todo, durable, acks>>
  PROVE  [Contract!Next]_(Contract!vars)
BY Zenon, AcksKept DEF Contract!vars, Handed, Waits

LEMMA InitRefines == Init => Contract!Init
<1> SUFFICES ASSUME Init PROVE Contract!Init
  OBVIOUS
<1>1. Handed = {}
  BY DEF Init, Handed
<1> QED
  BY Zenon, <1>1 DEF Init, Contract!Init

LEMMA NextRefines ==
  TypeOK /\ RInv /\ [Next]_vars => [Contract!Next]_(Contract!vars)
<1> SUFFICES ASSUME TypeOK, RInv, [Next]_vars
             PROVE  [Contract!Next]_(Contract!vars)
  OBVIOUS
<1>1. CASE UNCHANGED vars
  BY Zenon, <1>1, OtherRefines DEF vars, connVars
<1>2. CASE \E c \in Cmds : Issue(c)
  BY Zenon, <1>2, IssueRefines
<1>3. CASE \E w \in Workers : Write(w)
  BY Zenon, <1>3, OtherRefines DEF Write
<1>4. CASE \E w \in Workers, d \in Devices : ReadAck(w, d)
  BY Zenon, <1>4, ReadAckRefines
<1>5. CASE \E w \in Workers, d \in Devices : Execute(w, d)
  BY Zenon, <1>5, ExecuteRefines
<1>6. CASE \E d \in Devices : Reply(d)
  BY Zenon, <1>6, OtherRefines DEF Reply, connVars
<1>7. CASE \E d \in Devices : TimerSync(d)
  BY <1>7, TimerSyncRefines
<1>8. CASE \E d \in Devices : TimerPop(d)
  BY Zenon, <1>8, OtherRefines DEF TimerPop, connVars
<1> QED
  BY Zenon, <1>1, <1>2, <1>3, <1>4, <1>5, <1>6, <1>7, <1>8 DEF Next

(* The storage threads of the node implement AbsStorage, for any number of
   conn_workers, devices and commands and any pipe size: the acknowledgement
   of a command is read at most once, by the worker that waits for it, and
   that of a STORE only after an fsync() that came after its write(). *)
THEOREM StorageImplementsContract == Spec => ImplementsStorage
<1>1. IInv => TypeOK
  BY DEF IInv
<1> QED
  BY <1>1, InitRefines, NextRefines, StorageInductive, PlacesInductive, PTL
     DEF Spec, ImplementsStorage, Contract!Spec
=============================================================================
