---------------------------- MODULE TableProofs -----------------------------
(***************************************************************************)
(* Three tables of the programs, for every value of the constants,         *)
(* each with an invariant of its own: conns[], whose slots the threads of  *)
(* dw_node take and give back (ConnPool); timeout_queue, the deadlines of  *)
(* the FORWARDs of one thread (Timeouts); and the command list that the    *)
(* options of dw_client build (ClientCommands).                            *)
(***************************************************************************)
EXTENDS ConnPool, Timeouts, ClientCommands, TLAPS
-----------------------------------------------------------------------------
(***************************************************************************)
(* Slots: for any number of threads, slots and descriptors, conn_alloc()   *)
(* gives a slot to one thread at a time, and without TLS FORWARDs a        *)
(* descriptor is in one slot at a time.                                    *)
(***************************************************************************)
\* A thread that holds a slot has its busy flag set, and works on a slot it
\* holds from the exchange that got it to conn_free().
Held ==
  /\ \A t \in Threads : \A i \in mine[t] : busy[i] = 1
  /\ \A t \in Threads :
       at[t] \in {"fill", "ssl", "forget_free", "close_free", "free"} => id[t] \in mine[t]
  /\ \A t \in Threads : at[t] = "ssl" => op[t] \in {"tls", "fwdtls"}

PoolInv == PoolTypeOK /\ Held /\ SlotExclusive

\* The socket a thread is working on is open, no other thread is working on
\* it, and the slot it is in, if any, is one the thread holds.
InFlight(t) == at[t] \notin {"idle", "free", "freed"}
Private ==
  /\ \A t \in Threads : InFlight(t) => fd[t] \in fds
  /\ \A t \in Threads : at[t] \in {"alloc", "fill", "close", "close_free"} =>
                          \A i \in Slots : sock[i] # fd[t]
  /\ \A t \in Threads : at[t] \in {"ssl", "forget", "forget_free"} =>
                          \A i \in Slots : sock[i] = fd[t] => i \in mine[t]
  /\ \A t, u \in Threads : t # u /\ InFlight(t) /\ InFlight(u) => fd[t] # fd[u]

SockInv == SockInOneSlot /\ Private

\* No slot is taken at first.
LEMMA PoolInitInv == PoolInit => PoolInv
  BY PoolConstants DEF PoolInit, PoolInv, PoolTypeOK, Held, SlotExclusive, Slots

\* Every step of a thread keeps the slots apart.
LEMMA PoolStepInv == PoolInv /\ [PoolNext]_poolVars => PoolInv'
<1> SUFFICES ASSUME PoolInv, [PoolNext]_poolVars PROVE PoolInv'
  OBVIOUS
<1> USE PoolConstants
<1>1. ASSUME NEW t \in Threads, NEW k \in Kinds, NEW s \in Socks,
             at[t] = "idle", NewSocket(t, k, s)
      PROVE  PoolInv'
  BY <1>1 DEF PoolInv, PoolTypeOK, Held, SlotExclusive, NewSocket, Goto, table, Slots
<1>2. ASSUME NEW t \in Threads, NEW k \in Kinds, Accept(t, k) PROVE PoolInv'
  BY <1>1, <1>2 DEF Accept
<1>3. ASSUME NEW t \in Threads, NEW k \in Kinds, FindExisting(t, k) PROVE PoolInv'
  <2>1. CASE \E s \in Socks : NewSocket(t, k, s)
    BY <1>1, <1>3, <2>1 DEF FindExisting
  <2>2. CASE ~\E s \in Socks : NewSocket(t, k, s)
    <3>1. PICK i \in Slots : found' = [found EXCEPT ![t] = @ \cup {<<i, k>>}]
      BY <1>3, <2>2 DEF FindExisting
    <3>2. UNCHANGED <<table, fds, at, id, fd, op, mine>>
      BY <1>3, <2>2 DEF FindExisting
    <3>3. found' \in [Threads -> SUBSET (Slots \X Kinds)]
      BY <3>1 DEF PoolInv, PoolTypeOK
    <3>4. QED
      BY <3>2, <3>3 DEF PoolInv, PoolTypeOK, Held, SlotExclusive, table
  <2>3. QED BY <2>1, <2>2
<1>4. ASSUME NEW t \in Threads, TakeSlot(t) PROVE PoolInv'
  <2>1. id[t] \in Slots
    BY <1>4 DEF TakeSlot, PoolInv, PoolTypeOK, Slots
  <2>2. CASE busy[id[t]] = 0
    <3>1. /\ busy' = [busy EXCEPT ![id[t]] = 1]
          /\ mine' = [mine EXCEPT ![t] = @ \cup {id[t]}]
          /\ at' = [at EXCEPT ![t] = "fill"]
          /\ UNCHANGED <<sock, kind, server, parent, fds, id, fd, op, found>>
      BY <1>4, <2>2 DEF TakeSlot, Exchange, Goto
    <3>2. PoolTypeOK'
      BY <2>1, <3>1 DEF PoolInv, PoolTypeOK
    <3>3. Held'
      BY <2>1, <3>1 DEF PoolInv, PoolTypeOK, Held
    <3>4. SlotExclusive'
      BY <2>1, <2>2, <3>1 DEF PoolInv, PoolTypeOK, Held, SlotExclusive
    <3>5. QED BY <3>2, <3>3, <3>4 DEF PoolInv
  <2>3. CASE busy[id[t]] # 0
    BY <1>4, <2>1, <2>3
       DEF PoolInv, PoolTypeOK, Held, SlotExclusive, TakeSlot, Exchange, Goto
  <2>4. QED BY <2>2, <2>3
<1>5. ASSUME NEW t \in Threads, NoSlot(t) \/ NoMemory(t) PROVE PoolInv'
  <2>1. PICK l \in {"forget", "close"} : at' = [at EXCEPT ![t] = l]
    BY <1>5 DEF NoSlot, NoMemory, AllocFailed, Goto
  <2>2. CASE NoSlot(t)
    BY <2>1, <2>2 DEF PoolInv, PoolTypeOK, Held, SlotExclusive, NoSlot, table
  <2>3. CASE NoMemory(t)
    BY <2>1, <2>3 DEF PoolInv, PoolTypeOK, Held, SlotExclusive, NoMemory, table
  <2>4. QED BY <1>5, <2>2, <2>3
<1>6. ASSUME NEW t \in Threads, Fill(t) PROVE PoolInv'
  BY <1>6 DEF PoolInv, PoolTypeOK, Held, SlotExclusive, Fill, Goto
<1>7. ASSUME NEW t \in Threads, EnableSsl(t) PROVE PoolInv'
  <2>1. server' \in [Slots -> BOOLEAN]
    BY Zenon, <1>7 DEF EnableSsl, PoolInv, PoolTypeOK
  <2>2. PICK l \in {"idle", "forget_free", "close_free"} : at' = [at EXCEPT ![t] = l]
    BY <1>7 DEF EnableSsl, Goto
  <2>3. at[t] = "ssl" /\ UNCHANGED <<busy, sock, kind, parent, fds, id, fd, op, mine, found>>
    BY <1>7 DEF EnableSsl
  <2>4. PoolTypeOK'
    BY <2>1, <2>2, <2>3 DEF PoolInv, PoolTypeOK
  <2>5. Held' /\ SlotExclusive'
    BY <2>2, <2>3 DEF PoolInv, PoolTypeOK, Held, SlotExclusive
  <2>6. QED BY <2>4, <2>5 DEF PoolInv
<1>8. ASSUME NEW t \in Threads, NEW i \in Slots, StartClose(t, i) PROVE PoolInv'
  BY <1>8 DEF PoolInv, PoolTypeOK, Held, SlotExclusive, StartClose, Goto, table, Slots
<1>9. ASSUME NEW t \in Threads, Forget(t) PROVE PoolInv'
  BY <1>9 DEF PoolInv, PoolTypeOK, Held, SlotExclusive, Forget, ConnDelSock, Goto
<1>10. ASSUME NEW t \in Threads, Close(t) PROVE PoolInv'
  <2>1. PICK l \in {"idle", "free"} :
          at' = [at EXCEPT ![t] = l] /\ (l = "free" => at[t] = "close_free")
    BY Zenon, <1>10 DEF Close, Goto
  <2>2. PoolTypeOK'
    BY Zenon, <1>10, <2>1 DEF PoolInv, PoolTypeOK, Close, table
  <2>3. Held' /\ SlotExclusive'
    BY <1>10, <2>1 DEF PoolInv, PoolTypeOK, Held, SlotExclusive, Close, table
  <2>4. QED BY <2>2, <2>3 DEF PoolInv
<1>11. ASSUME NEW t \in Threads, Free(t) PROVE PoolInv'
  BY <1>11 DEF PoolInv, PoolTypeOK, Held, SlotExclusive, Free, Goto
<1>12. ASSUME NEW t \in Threads, ResetFlags(t) PROVE PoolInv'
  <2>1. server' \in [Slots -> BOOLEAN]
    BY Zenon, <1>12 DEF ResetFlags, PoolInv, PoolTypeOK
  <2>2. QED
    BY <1>12, <2>1 DEF PoolInv, PoolTypeOK, Held, SlotExclusive, ResetFlags, Goto
<1>13. CASE UNCHANGED poolVars
  BY <1>13 DEF poolVars, table, PoolInv, PoolTypeOK, Held, SlotExclusive
<1>14. QED
  BY <1>2, <1>3, <1>4, <1>5, <1>6, <1>7, <1>8, <1>9, <1>10, <1>11, <1>12, <1>13
     DEF PoolNext

(* conn_alloc() gives no slot to two threads, and the type invariant holds. *)
THEOREM PoolInductive == PoolSpec => []PoolInv
  BY PoolInitInv, PoolStepInv, PTL DEF PoolSpec

(* Every field of conns[] and every local keeps its type. *)
THEOREM PoolTypeCorrect == PoolSpec => []PoolTypeOK
<1>1. PoolInv => PoolTypeOK
  BY DEF PoolInv
<1>2. QED BY <1>1, PoolInductive, PTL

(* No two threads hold the same slot between conn_alloc() and conn_free() or
   close_and_forget(). *)
THEOREM SlotsAreExclusive == PoolSpec => []SlotExclusive
<1>1. PoolInv => SlotExclusive
  BY DEF PoolInv
<1>2. QED BY <1>1, PoolInductive, PTL
-----------------------------------------------------------------------------
\* No slot has a descriptor at first.
LEMMA InitSocks == PoolInit => SockInv
  BY PoolConstants DEF PoolInit, SockInv, SockInOneSlot, Private, InFlight, Slots

\* Without TLS FORWARDs, no step puts a descriptor into a second slot.
LEMMA StepSocks ==
  ASSUME "fwdtls" \notin Kinds
  PROVE  PoolInv /\ SockInv /\ [PoolNext]_poolVars => SockInv'
<1> SUFFICES ASSUME PoolInv, SockInv, [PoolNext]_poolVars PROVE SockInv'
  OBVIOUS
<1> USE PoolConstants DEF InFlight
<1>0. -1 \notin Socks
  OBVIOUS
<1>1. ASSUME NEW t \in Threads, NEW k \in Kinds, NEW s \in Socks,
             at[t] = "idle", NewSocket(t, k, s)
      PROVE  SockInv'
  BY <1>0, <1>1
     DEF PoolInv, PoolTypeOK, SockInv, SockInOneSlot, Private, NewSocket, Goto, table
<1>2. ASSUME NEW t \in Threads, NEW k \in Kinds, Accept(t, k) PROVE SockInv'
  BY <1>1, <1>2 DEF Accept
<1>3. ASSUME NEW t \in Threads, NEW k \in Kinds, FindExisting(t, k) PROVE SockInv'
  <2>1. CASE \E s \in Socks : NewSocket(t, k, s)
    BY Zenon, <1>1, <1>3, <2>1 DEF FindExisting
  <2>2. CASE ~\E s \in Socks : NewSocket(t, k, s)
    <3>1. UNCHANGED <<table, fds, at, id, fd, op, mine>>
      BY <1>3, <2>2 DEF FindExisting
    <3>2. QED BY <3>1 DEF SockInv, SockInOneSlot, Private, table
  <2>3. QED BY <2>1, <2>2
<1>4. ASSUME NEW t \in Threads, TakeSlot(t) PROVE SockInv'
  <2>1. CASE busy[id[t]] = 0
    BY SMTT(30), <1>4, <2>1 DEF PoolInv, PoolTypeOK, SockInv, SockInOneSlot, Private, TakeSlot, Goto
  <2>2. CASE busy[id[t]] # 0
    BY <1>4, <2>2 DEF PoolInv, PoolTypeOK, SockInv, SockInOneSlot, Private, TakeSlot, Goto
  <2>3. QED BY Zenon, <2>1, <2>2
<1>5. ASSUME NEW t \in Threads, NoSlot(t) \/ NoMemory(t) PROVE SockInv'
  <2>1. PICK l \in {"forget", "close"} : at' = [at EXCEPT ![t] = l]
    BY <1>5 DEF NoSlot, NoMemory, AllocFailed, Goto
  <2>2. CASE NoSlot(t)
    BY <2>1, <2>2 DEF PoolInv, PoolTypeOK, SockInv, SockInOneSlot, Private, NoSlot, table
  <2>3. CASE NoMemory(t)
    BY ZenonT(30), <2>1, <2>3 DEF PoolInv, PoolTypeOK, SockInv, SockInOneSlot, Private, NoMemory, table
  <2>4. QED BY <1>5, <2>2, <2>3
<1>6. ASSUME NEW t \in Threads, Fill(t) PROVE SockInv'
  <2>1. PICK l \in {"ssl", "idle"} : at' = [at EXCEPT ![t] = l]
    BY Zenon, <1>6 DEF Fill, Goto
  <2>2. id[t] \in mine[t] /\ id[t] \in Slots
    BY <1>6 DEF Fill, PoolInv, Held, PoolTypeOK
  <2>3. QED
    BY SMTT(30), <1>6, <2>1, <2>2 DEF PoolInv, PoolTypeOK, SockInv, SockInOneSlot, Private, Fill
<1>7. ASSUME NEW t \in Threads, EnableSsl(t) PROVE SockInv'
  <2>1. op[t] = "tls"
    BY <1>7 DEF EnableSsl, PoolInv, PoolTypeOK, Held
  <2>2. PICK l \in {"idle", "forget_free"} : at' = [at EXCEPT ![t] = l]
    BY <1>7, <2>1 DEF EnableSsl, Goto
  <2>3. UNCHANGED <<sock, fds, fd, mine>> /\ at[t] = "ssl"
    BY <1>7 DEF EnableSsl
  <2>4. QED
    BY <2>2, <2>3 DEF PoolInv, PoolTypeOK, SockInv, SockInOneSlot, Private
<1>8. ASSUME NEW t \in Threads, NEW i \in Slots, StartClose(t, i) PROVE SockInv'
  <2>1. i \in mine[t] /\ sock[i] # -1 /\ at[t] = "idle"
    BY ZenonT(30), <1>8 DEF StartClose
  <2>2. /\ fd' = [fd EXCEPT ![t] = sock[i]]
        /\ at' = [at EXCEPT ![t] = "forget"]
        /\ UNCHANGED <<sock, fds, mine>>
    BY <1>8 DEF StartClose, Goto, table
  <2>3. \A u \in Threads : u # t /\ InFlight(u) => fd[u] # sock[i]
    <3>1. SUFFICES ASSUME NEW u \in Threads, u # t, InFlight(u), fd[u] = sock[i]
                   PROVE  FALSE
      OBVIOUS
    <3>2. at[u] \in {"ssl", "forget", "forget_free"}
      BY <3>1 DEF SockInv, Private, PoolInv, PoolTypeOK
    <3>3. i \in mine[u]
      BY <3>1, <3>2 DEF SockInv, Private
    <3>4. QED BY <2>1, <3>1, <3>3 DEF PoolInv, SlotExclusive
  <2>4. \A j \in Slots : sock[j] = sock[i] => j \in mine[t]
    BY <2>1 DEF SockInv, SockInOneSlot
  <2>5. sock[i] \in fds
    BY <2>1 DEF SockInv, SockInOneSlot
  <2>6. SockInOneSlot'
    BY ZenonT(30), <2>2 DEF SockInv, SockInOneSlot
  <2>7. Private'
    BY <2>2, <2>3, <2>4, <2>5 DEF SockInv, Private, PoolInv, PoolTypeOK
  <2>8. QED BY ZenonT(30), <2>6, <2>7 DEF SockInv
<1>9. ASSUME NEW t \in Threads, Forget(t) PROVE SockInv'
  <2>1. PICK l \in {"close", "close_free"} : at' = [at EXCEPT ![t] = l]
    BY Zenon, <1>9 DEF Forget, Goto
  <2>2. fd[t] # -1 /\ fd' = fd /\ fds' = fds
    BY Zenon, <1>0, <1>9 DEF Forget, SockInv, Private, PoolInv, PoolTypeOK
  <2>3. \A i \in Slots : i \in FoundSock(t) <=> sock[i] = fd[t]
    BY <2>2 DEF FoundSock, SockInv, SockInOneSlot, Slots
  <2>4. \A i \in Slots : sock'[i] = IF sock[i] = fd[t] THEN -1 ELSE sock[i]
    BY ZenonT(30), <1>9, <2>3 DEF Forget, ConnDelSock
  <2>5. \A u \in Threads : u # t => mine'[u] = mine[u]
    BY Zenon, <1>9 DEF Forget, PoolInv, PoolTypeOK
  <2>6. \A u \in Threads : InFlight(u) => fd[u] # -1
    BY Zenon, <1>0 DEF SockInv, Private, PoolInv, PoolTypeOK
  <2>7. SockInOneSlot'
    BY Zenon, <2>2, <2>4 DEF SockInv, SockInOneSlot
  <2>8. Private'
    <3>1. at[t] \in {"forget", "forget_free"}
      BY <1>9 DEF Forget
    <3>2. \A u \in Threads : at'[u] = (IF u = t THEN l ELSE at[u])
      BY <2>1 DEF PoolInv, PoolTypeOK
    <3>3. \A u \in Threads : InFlight(u)' => InFlight(u)
      BY Zenon, <2>1, <3>1, <3>2
    <3>4. \A u \in Threads : at'[u] \in {"alloc", "fill", "close", "close_free"} =>
            \A i \in Slots : sock'[i] # fd'[u]
      BY <2>2, <2>4, <2>6, <3>1, <3>2 DEF SockInv, Private
    <3>5. \A u \in Threads : at'[u] \in {"ssl", "forget", "forget_free"} =>
            \A i \in Slots : sock'[i] = fd'[u] => i \in mine'[u]
      BY ZenonT(30), <2>1, <2>2, <2>4, <2>5, <2>6, <3>2 DEF SockInv, Private
    <3>6. QED
      BY Zenon, <2>2, <3>3, <3>4, <3>5 DEF SockInv, Private
  <2>9. QED BY <2>7, <2>8 DEF SockInv
<1>10. ASSUME NEW t \in Threads, Close(t) PROVE SockInv'
  BY <1>10 DEF PoolInv, PoolTypeOK, SockInv, SockInOneSlot, Private, Close, Goto, table
<1>11. ASSUME NEW t \in Threads, Free(t) PROVE SockInv'
  <2>1. /\ sock' = [sock EXCEPT ![id[t]] = -1]
        /\ at' = [at EXCEPT ![t] = "freed"]
        /\ mine' = [mine EXCEPT ![t] = @ \ {id[t]}]
        /\ UNCHANGED <<fds, fd>>
    BY ZenonT(30), <1>11 DEF Free, Goto
  <2>2. \A u \in Threads : InFlight(u) => fd[u] # -1
    BY ZenonT(30), <1>0 DEF SockInv, Private, PoolInv, PoolTypeOK
  <2>3. \A j \in Slots : sock'[j] # -1 => sock'[j] = sock[j]
    BY Zenon, <2>1 DEF PoolInv, PoolTypeOK
  <2>4. \A u \in Threads :
          InFlight(u)' => InFlight(u) /\ u # t /\ at'[u] = at[u] /\ mine'[u] = mine[u]
    BY <2>1 DEF PoolInv, PoolTypeOK
  <2>5. SockInOneSlot'
    BY <2>1, <2>3 DEF SockInv, SockInOneSlot
  <2>6. Private'
    BY SMTT(30), <2>1, <2>2, <2>3, <2>4 DEF SockInv, Private, PoolInv, PoolTypeOK
  <2>7. QED BY ZenonT(30), <2>5, <2>6 DEF SockInv
<1>12. ASSUME NEW t \in Threads, ResetFlags(t) PROVE SockInv'
  BY ZenonT(30), <1>12 DEF PoolInv, PoolTypeOK, SockInv, SockInOneSlot, Private, ResetFlags, Goto
<1>13. CASE UNCHANGED poolVars
  BY <1>13 DEF poolVars, table, SockInv, SockInOneSlot, Private
<1>14. QED
  BY <1>2, <1>3, <1>4, <1>5, <1>6, <1>7, <1>8, <1>9, <1>10, <1>11, <1>12, <1>13
     DEF PoolNext

(* Without TLS FORWARDs, whose failure path closes the socket before it frees
   the slot, a descriptor is in one slot at most and open while it is there. *)
THEOREM DescriptorsAreExclusive ==
  ASSUME "fwdtls" \notin Kinds
  PROVE  PoolSpec => []SockInOneSlot
<1>1. PoolInv /\ SockInv /\ [PoolNext]_poolVars => SockInv'
  BY StepSocks
<1>2. SockInv => SockInOneSlot
  BY DEF SockInv
<1>3. QED BY <1>1, <1>2, InitSocks, PoolInductive, PTL DEF PoolSpec
-----------------------------------------------------------------------------
(***************************************************************************)
(* NeverTooEarly for any requests, durations and number of insertions.     *)
(*                                                                         *)
(* NeverTooEarly says something of the top only, and only when the timer   *)
(* has expired.  It is inductive once every timeout in the queue is        *)
(* bounded the same way while the timer runs: Planned(r), the time until   *)
(* timeout r expires if nothing else happens, is at least what is left to  *)
(* its deadline minus what the keys were shifted by.                       *)
(***************************************************************************)
Planned(r) == content[r] - content[top] + timer

TypeOK ==
  /\ Queued \subseteq Reqs
  /\ content \in [Queued -> Int]
  /\ timer \in Nat
  /\ readable \in BOOLEAN
  /\ elapsed \in Nat
  /\ retrying \in Reqs \cup {NoReq}
  /\ left \in [Reqs -> Nat]
  /\ ahead \in Nat

\* The timer is that of the top, which has the smallest key; the present is
\* not before the last time the queue was empty.
TopFirst ==
  /\ Queued = {} => ~readable /\ timer = 0
  /\ Queued # {} => top \in Queued
  /\ \A r \in Queued : content[top] <= content[r] /\ timer <= content[top]
  /\ readable => timer = 0
  /\ ~Idle => retrying \notin Queued

DeadlinesMet == \A r \in Queued : left[r] - ahead <= Planned(r)

IInv == TypeOK /\ TopFirst /\ DeadlinesMet
-----------------------------------------------------------------------------
\* The queue and the timer are empty at the start.
LEMMA InitInv == Init => IInv
  <1> SUFFICES ASSUME Init PROVE IInv
    OBVIOUS
  <1>1. Queued = {}
    BY DEF Init, Queued
  <1>2. TypeOK
    BY Zenon, <1>1 DEF Init, TypeOK, Queued
  <1>3. TopFirst /\ DeadlinesMet
    BY <1>1 DEF Init, TopFirst, DeadlinesMet, Idle
  <1> QED
    BY <1>2, <1>3 DEF IInv

\* its_to_us(): what is read off the timer is never more than what is left,
\* and not negative.
LEMMA ReadLow ==
  ASSUME timer \in Nat, NEW v \in its_to_us
  PROVE  v \in Nat /\ v <= timer
  BY DEF its_to_us

\* Insert() preserves the invariant.
LEMMA InsertInv ==
  ASSUME IInv, NEW r \in Reqs, r \notin Queued, NEW micros \in Durations,
         NEW v \in its_to_us, Insert(r, micros, v), retrying' = NoReq
  PROVE  IInv'
  <1> DEFINE key == NewKey(micros, v)
  <1>1. micros \in Nat \ {0} /\ v \in Nat /\ v <= timer /\ timer \in Nat
    BY ZenonT(30), ReadLow, TimeoutConstants DEF IInv, TypeOK
  <1>2. Queued' = Queued \cup {r}
    BY ZenonT(30) DEF Insert, Queued
  <1>3. /\ content'[r] = key
        /\ \A q \in Queued : content'[q] = content[q]
    BY DEF Insert
  <1>4. key \in Nat
    <2>1. CASE Queued = {}
      BY <1>1, <2>1 DEF NewKey
    <2>2. CASE Queued # {}
      <3>1. top \in Queued /\ content[top] \in Int /\ timer <= content[top]
        BY <2>2 DEF IInv, TopFirst, TypeOK
      <3> QED
        BY <1>1, <2>2, <3>1 DEF NewKey, Present, IInv, TypeOK
    <2> QED
      BY <2>1, <2>2
  <1>5. content' \in [Queued' -> Int]
    <2>1. \A q \in Queued : content[q] \in Int
      BY DEF IInv, TypeOK
    <2> QED
      BY <1>2, <1>4, <2>1 DEF Insert
  <1>6. left' \in [Reqs -> Nat] /\ left'[r] = micros
        /\ \A q \in Queued : left'[q] = left[q]
    BY ZenonT(30), <1>1 DEF Insert, IInv, TypeOK
  <1>7. elapsed' \in Nat
    BY DEF Insert, IInv, TypeOK
  <1>8. CASE Queued = {}
    <2>1. /\ key = micros /\ top' = r /\ timer' = micros
          /\ readable' = FALSE /\ ahead' = 0
      BY <1>8 DEF Insert, NewKey
    <2>2. Queued' = {r}
      BY <1>2, <1>8
    <2>3. TypeOK'
      BY Zenon, <1>1, <1>5, <1>6, <1>7, <2>1, <2>2 DEF TypeOK
    <2>4. TopFirst'
      BY SMTT(30), <1>1, <1>3, <2>1, <2>2 DEF TopFirst, Idle
    <2>5. DeadlinesMet'
      BY <1>1, <1>3, <1>6, <2>1, <2>2 DEF DeadlinesMet, Planned
    <2> QED
      BY ZenonT(30), <2>3, <2>4, <2>5 DEF IInv
  <1>9. CASE Queued # {}
    <2>1. /\ top \in Queued /\ content[top] \in Int /\ timer <= content[top]
          /\ elapsed \in Nat /\ ahead \in Nat
          /\ \A q \in Queued : /\ content[q] \in Int /\ content[top] <= content[q]
                               /\ left[q] \in Nat
                               /\ left[q] - ahead <= content[q] - content[top] + timer
      BY ZenonT(30), <1>9 DEF IInv, TypeOK, TopFirst, DeadlinesMet, Planned
    <2>2. key = micros + elapsed + content[top] - v
      BY <1>1, <1>9, <2>1 DEF NewKey, Present
    <2>3. Queued' \subseteq Reqs /\ readable' \in BOOLEAN
      BY Zenon, <1>2 DEF Insert, IInv, TypeOK
    <2>4. CASE key < content[top]
      <3>1. /\ top' = r /\ timer' = micros /\ readable' = FALSE
            /\ ahead' = ahead + elapsed + (timer - v)
        BY Zenon, <1>9, <2>4 DEF Insert
      <3>2. ahead' \in Nat
        BY <1>1, <2>1, <3>1
      <3>3. TypeOK'
        BY Zenon, <1>1, <1>5, <1>6, <1>7, <2>3, <3>1, <3>2 DEF TypeOK
      <3>4. TopFirst'
        <4>1. content'[top'] = key /\ timer' <= key
          BY SMTT(30), <1>1, <1>3, <2>1, <2>2, <3>1
        <4>2. \A q \in Queued' : key <= content'[q]
          BY <1>2, <1>3, <1>4, <2>1, <2>4
        <4> QED
          BY Zenon, <1>2, <3>1, <4>1, <4>2 DEF TopFirst, Idle
      <3>5. DeadlinesMet'
        <4>1. left'[r] - ahead' <= Planned(r)'
          BY <1>1, <1>3, <1>4, <1>6, <3>1, <3>2 DEF Planned
        <4>2. ASSUME NEW q \in Queued
              PROVE  left'[q] - ahead' <= Planned(q)'
          <5>1. Planned(q)' = content[q] - key + micros
            BY Zenon, <1>3, <3>1 DEF Planned
          <5>2. left'[q] = left[q]
            BY Zenon, <1>6
          <5> QED
            BY <1>1, <2>1, <2>2, <3>1, <5>1, <5>2
        <4> QED
          BY Zenon, <1>2, <4>1, <4>2 DEF DeadlinesMet
      <3> QED
        BY <3>3, <3>4, <3>5 DEF IInv
    <2>5. CASE ~(key < content[top])
      <3>1. UNCHANGED <<top, timer, readable, ahead>>
        BY Zenon, <1>9, <2>5 DEF Insert
      <3>2. TypeOK'
        BY Zenon, <1>1, <1>5, <1>6, <1>7, <2>1, <2>3, <3>1 DEF TypeOK
      <3>3. TopFirst'
        <4>1. content'[top'] = content[top] /\ timer' <= content'[top']
          BY ZenonT(30), <1>3, <2>1, <3>1
        <4>2. \A q \in Queued' : content'[top'] <= content'[q]
          BY SMTT(30), <1>2, <1>3, <1>4, <2>1, <2>5, <4>1
        <4>3. readable' => timer' = 0
          BY Zenon, <3>1 DEF IInv, TopFirst
        <4> QED
          BY <1>2, <2>1, <3>1, <4>1, <4>2, <4>3 DEF TopFirst, Idle
      <3>4. DeadlinesMet'
        <4>1. left'[r] - ahead' <= Planned(r)'
          <5>1. Planned(r)' = key - content[top] + timer
            BY Zenon, <1>3, <2>1, <3>1 DEF Planned
          <5> QED
            BY <1>1, <1>6, <2>1, <2>2, <3>1, <5>1
        <4>2. ASSUME NEW q \in Queued
              PROVE  left'[q] - ahead' <= Planned(q)'
          <5>1. Planned(q)' = content[q] - content[top] + timer
            BY Zenon, <1>3, <2>1, <3>1 DEF Planned
          <5> QED
            BY Zenon, <1>6, <2>1, <3>1, <5>1
        <4> QED
          BY <1>2, <4>1, <4>2 DEF DeadlinesMet
      <3> QED
        BY <3>2, <3>3, <3>4 DEF IInv
    <2> QED
      BY ZenonT(30), <2>4, <2>5
  <1> QED
    BY <1>8, <1>9

\* The timeouts that stay after a removal, and what is known of them.
LEMMA Remaining ==
  ASSUME IInv, NEW r \in Queued,
         content' = [q \in Queued \ {r} |-> content[q]],
         left' = [left EXCEPT ![r] = 0]
  PROVE  /\ Queued' = Queued \ {r}
         /\ content' \in [Queued' -> Int]
         /\ left' \in [Reqs -> Nat]
         /\ \A q \in Queued' : content'[q] = content[q] /\ left'[q] = left[q]
  <1>1. Queued' = Queued \ {r}
    BY DEF Queued
  <1>2. \A q \in Queued : content[q] \in Int /\ q \in Reqs
    BY DEF IInv, TypeOK
  <1>3. content' \in [Queued' -> Int] /\ \A q \in Queued' : content'[q] = content[q]
    BY <1>1, <1>2
  <1>4. left' \in [Reqs -> Nat] /\ \A q \in Queued' : left'[q] = left[q]
    BY <1>1, <1>2 DEF IInv, TypeOK
  <1> QED
    BY <1>1, <1>3, <1>4

\* remove_timeout() preserves the invariant.
LEMMA RemoveInv ==
  ASSUME IInv, Idle, NEW r \in Queued, remove_timeout(r),
         retrying' \in {NoReq, r}
  PROVE  IInv'
  <1>1. content' = [q \in Queued \ {r} |-> content[q]] /\ left' = [left EXCEPT ![r] = 0]
    BY Zenon DEF remove_timeout, RemoveOther, RemoveLast, RemoveTop
  <1>2. /\ Queued' = Queued \ {r}
        /\ content' \in [Queued' -> Int]
        /\ left' \in [Reqs -> Nat]
        /\ \A q \in Queued' : content'[q] = content[q] /\ left'[q] = left[q]
    BY Zenon, <1>1, Remaining
  <1>3. Queued' \subseteq Reqs /\ retrying' \in Reqs \cup {NoReq} /\ retrying' \notin Queued'
    BY Zenon, <1>2, TimeoutConstants DEF IInv, TypeOK
  <1>4. /\ top \in Queued /\ content[top] \in Int /\ timer \in Nat
        /\ timer <= content[top] /\ ahead \in Nat /\ elapsed \in Nat
        /\ \A q \in Queued : /\ content[q] \in Int /\ content[top] <= content[q]
                             /\ left[q] \in Nat
                             /\ left[q] - ahead <= content[q] - content[top] + timer
    BY DEF IInv, TypeOK, TopFirst, DeadlinesMet, Planned
  <1>5. CASE RemoveOther(r)
    <2>1. top \in Queued' /\ UNCHANGED <<top, timer, readable, elapsed, ahead>>
      BY Zenon, <1>2, <1>4, <1>5 DEF RemoveOther
    <2>2. TypeOK'
      BY Zenon, <1>2, <1>3, <2>1 DEF IInv, TypeOK
    <2>3. content'[top'] = content[top]
      BY Zenon, <1>2, <2>1
    <2>4. TopFirst'
      BY Zenon, <1>2, <1>3, <1>4, <2>1, <2>3 DEF IInv, TopFirst, Idle
    <2>5. DeadlinesMet'
      BY <1>2, <1>4, <2>1, <2>3 DEF DeadlinesMet, Planned
    <2> QED
      BY Zenon, <2>2, <2>4, <2>5 DEF IInv
  <1>6. CASE RemoveLast(r)
    <2>1. Queued' = {} /\ timer' = 0 /\ readable' = FALSE /\ elapsed' = 0 /\ ahead' = 0
      BY Zenon, <1>2, <1>6 DEF RemoveLast
    <2> QED
      BY Zenon, <1>2, <1>3, <2>1 DEF IInv, TypeOK, TopFirst, DeadlinesMet, Idle
  <1>7. ASSUME NEW v \in its_to_us, NEW next \in Queued, RemoveTop(r, v, next)
        PROVE  IInv'
    <2>1. v \in Nat /\ v <= timer
      BY Zenon, <1>4, ReadLow
    <2>2. /\ r = top /\ next \in Queued' /\ top' = next /\ readable' = FALSE
          /\ timer' = content[next] - (content[top] - v)
          /\ elapsed' = content[top] - v
          /\ ahead' = ahead + (timer - v)
          /\ \A q \in Queued' : content[next] <= content[q]
      BY Zenon, <1>2, <1>7 DEF RemoveTop, Delay, Present
    <2>3. timer' \in Nat /\ elapsed' \in Nat /\ ahead' \in Nat
      BY SMTT(30), <1>4, <2>1, <2>2
    <2>4. TypeOK'
      BY Zenon, <1>2, <1>3, <2>2, <2>3 DEF TypeOK
    <2>5. content'[top'] = content[next]
      BY ZenonT(30), <1>2, <2>2
    <2>6. TopFirst'
      <3>1. timer' <= content[next]
        BY SMTT(30), <1>4, <2>1, <2>2
      <3> QED
        BY Zenon, <1>2, <1>3, <2>2, <2>5, <3>1 DEF TopFirst, Idle
    <2>7. DeadlinesMet'
      <3> SUFFICES ASSUME NEW q \in Queued'
                   PROVE  left'[q] - ahead' <= Planned(q)'
        BY Zenon DEF DeadlinesMet
      <3>1. Planned(q)' = content[q] - content[next] + (content[next] - (content[top] - v))
        BY Zenon, <1>2, <2>2, <2>5 DEF Planned
      <3>2. q \in Queued /\ left'[q] = left[q]
        BY <1>2
      <3> QED
        BY <1>4, <2>1, <2>2, <3>1, <3>2
    <2> QED
      BY Zenon, <2>4, <2>6, <2>7 DEF IInv
  <1> QED
    BY Zenon, <1>5, <1>6, <1>7 DEF remove_timeout

\* The passing of time preserves the invariant.
LEMMA TickInv ==
  ASSUME IInv, Tick
  PROVE  IInv'
  <1>1. Queued' = Queued /\ UNCHANGED <<content, top, elapsed, retrying, ahead>>
    BY Zenon DEF Tick, Queued
  <1>2. timer' \in Nat /\ timer' <= timer /\ timer \in Nat
    BY DEF Tick, IInv, TypeOK
  <1>3. left' \in [Reqs -> Nat]
    BY DEF Tick, IInv, TypeOK
  <1>4. TypeOK'
    BY ZenonT(30), <1>1, <1>2, <1>3 DEF Tick, IInv, TypeOK
  <1>5. /\ top \in Queued
        /\ \A q \in Queued : /\ content[q] \in Int /\ content[top] <= content[q]
                             /\ timer <= content[top]
    BY ZenonT(30) DEF Tick, IInv, TypeOK, TopFirst
  <1>6. TopFirst'
    <2>1. ASSUME readable' PROVE timer' = 0
      <3>1. timer = 0 \/ timer = 1
        BY Zenon, <2>1 DEF Tick, IInv, TopFirst
      <3> QED
        BY <3>1 DEF Tick
    <2>2. ~Idle' => retrying' \notin Queued'
      BY ZenonT(30), <1>1 DEF IInv, TopFirst, Idle
    <2> QED
      BY <1>1, <1>2, <1>5, <2>1, <2>2 DEF TopFirst
  <1>7. DeadlinesMet'
    <2> SUFFICES ASSUME NEW q \in Queued
                 PROVE  left'[q] - ahead <= content[q] - content[top] + timer'
      BY ZenonT(30), <1>1 DEF DeadlinesMet, Planned
    <2>1. left[q] - ahead <= content[q] - content[top] + timer
      BY DEF IInv, DeadlinesMet, Planned
    <2>2. left[q] \in Nat /\ ahead \in Nat /\ q \in Reqs
      BY ZenonT(30) DEF IInv, TypeOK
    <2>3. left'[q] = IF left[q] > 0 THEN left[q] - 1 ELSE 0
      BY ZenonT(30), <2>2 DEF Tick
    <2>4. timer' = IF timer > 0 THEN timer - 1 ELSE 0
      BY ZenonT(30) DEF Tick
    <2> QED
      BY <1>2, <1>5, <2>1, <2>2, <2>3, <2>4
  <1> QED
    BY Zenon, <1>4, <1>6, <1>7 DEF IInv

\* Every step preserves the invariant.
LEMMA NextInv == IInv /\ [Next]_vars => IInv'
  <1> SUFFICES ASSUME IInv, [Next]_vars PROVE IInv'
    OBVIOUS
  <1>1. ASSUME NEW r \in Reqs, NEW micros \in Durations, Forward(r, micros)
        PROVE  IInv'
    <2>1. PICK v \in its_to_us : Insert(r, micros, v)
      BY <1>1 DEF Forward, insert_timeout
    <2>2. r \notin Queued /\ retrying' = NoReq
      BY <1>1 DEF Forward, Idle
    <2> QED
      BY <2>1, <2>2, InsertInv
  <1>2. ASSUME NEW r \in Reqs, Answered(r)
        PROVE  IInv'
    BY ZenonT(30), <1>2, RemoveInv DEF Answered, Idle
  <1>3. ASSUME NEW r \in Reqs, Vanish(r)
        PROVE  IInv'
    BY ZenonT(30), <1>3 DEF Vanish, history, IInv, TypeOK, TopFirst, DeadlinesMet, Planned,
                Idle, Queued
  <1>4. CASE HandleExpired
    <2>1. top \in Queued
      BY <1>4 DEF HandleExpired, IInv, TopFirst
    <2>2. Idle /\ remove_timeout(top) /\ retrying' \in {NoReq, top}
      BY <1>4 DEF HandleExpired
    <2> QED
      BY <2>1, <2>2, RemoveInv
  <1>5. CASE HandleMissing
    <2>1. timer = 0 /\ timer' = 0 /\ readable' = FALSE
      BY <1>5 DEF HandleMissing, IInv, TopFirst
    <2>2. UNCHANGED <<content, top, elapsed, retrying, left, ahead>>
      BY <1>5 DEF HandleMissing, history
    <2> QED
      BY Zenon, <2>1, <2>2 DEF IInv, TypeOK, TopFirst, DeadlinesMet, Planned, Idle, Queued
  <1>6. ASSUME NEW micros \in Durations, Retry(micros)
        PROVE  IInv'
    <2>1. PICK v \in its_to_us : Insert(retrying, micros, v)
      BY ZenonT(30), <1>6 DEF Retry, insert_timeout
    <2>2. retrying \in Reqs /\ retrying \notin Queued /\ retrying' = NoReq
      BY <1>6 DEF Retry, Idle, IInv, TypeOK, TopFirst
    <2> QED
      BY <2>1, <2>2, InsertInv
  <1>7. CASE Tick
    BY ZenonT(30), <1>7, TickInv
  <1>8. CASE UNCHANGED vars
    BY <1>8 DEF vars, history, IInv, TypeOK, TopFirst, DeadlinesMet, Planned,
                Idle, Queued
  <1> QED
    BY ZenonT(30), <1>1, <1>2, <1>3, <1>4, <1>5, <1>6, <1>7, <1>8 DEF Next

\* The invariant holds in every behaviour.
THEOREM TimeoutsInductive == Spec => []IInv
  <1>1. Init => IInv
    BY InitInv
  <1>2. IInv /\ [Next]_vars => IInv'
    BY ZenonT(30), NextInv
  <1> QED
    BY <1>1, <1>2, PTL DEF Spec

\* No timeout expires before its deadline, except by what the keys were
\* shifted by: NeverTooEarly, for any requests, timeouts and interleaving.
THEOREM NeverTooEarlyHolds == Spec => []NeverTooEarly
  <1>1. IInv => NeverTooEarly
    <2> SUFFICES ASSUME IInv, readable PROVE left[top] <= ahead
      BY DEF NeverTooEarly
    <2>1. top \in Queued /\ timer = 0
      BY DEF IInv, TopFirst
    <2>2. left[top] \in Nat /\ ahead \in Nat /\ content[top] \in Int
      BY ZenonT(30), <2>1 DEF IInv, TypeOK
    <2>3. left[top] - ahead <= content[top] - content[top] + timer
      BY ZenonT(30), <2>1 DEF IInv, DeadlinesMet, Planned
    <2> QED
      BY <2>1, <2>2, <2>3
  <1> QED
    BY <1>1, TimeoutsInductive, PTL
-----------------------------------------------------------------------------
(***************************************************************************)
(* What the option parser of dw_client guarantees for every sequence of    *)
(* options, every capacity of its queues and every set of arguments:       *)
(* reserved REPLYs are used up, and a branch has the FORWARD_BEGIN it      *)
(* joins.  The invariant that carries the first is reserved <= fwd_scope:  *)
(* a FORWARD adds one to both, a -R takes one from both, and the automatic *)
(* close takes one from `reserved' alone.                                  *)
(***************************************************************************)
Commands == Ops \cup SimpleOps \cup {"PSKIP"}

Nodes == [op : Commands, branched : BOOLEAN, n_ack : Nat, n_skip : Nat]

CommandsType == /\ ccmd \in Seq(Nodes)
                /\ reserved \in Nat
                /\ fwd_scope \in Nat
                /\ branching_degree \in Nat
                /\ last_reserved_used \in Nat

\* Never more REPLYs reserved than FORWARDs open.
CommandsInv == /\ CommandsType
               /\ reserved <= fwd_scope
               /\ DeferredRepliesUsed
               /\ BranchHasBegin
-----------------------------------------------------------------------------
\* The node ccmd_add makes is one of the list's nodes.
LEMMA NodeType ==
  /\ \A o \in Commands : Node(o) \in Nodes
  /\ Node("REPLY") \in Nodes
BY Zenon DEF Node, Nodes, Commands, Ops

\* Appending keeps the commands before, so a branch keeps its FORWARD_BEGIN.
LEMMA ExtendKeepsBegin ==
  ASSUME BranchHasBegin, ccmd \in Seq(Nodes), NEW t \in Seq(Nodes),
         ccmd' = ccmd \o t, UNCHANGED <<branching_degree, curr_forward_begin>>
  PROVE  BranchHasBegin'
BY DEF BranchHasBegin

\* The same for one command, or none.
LEMMA AppendKeepsBegin ==
  ASSUME BranchHasBegin, ccmd \in Seq(Nodes), NEW e \in Nodes,
         ccmd' = Append(ccmd, e) \/ ccmd' = ccmd,
         UNCHANGED <<branching_degree, curr_forward_begin>>
  PROVE  BranchHasBegin'
BY DEF BranchHasBegin

\* The nodes one -F option adds.
LEMMA ForwardsType ==
  ASSUME NEW f \in ForwardArgs, NEW start \in Nat, NEW begin
  PROVE  /\ Forwards(f, start, begin) \in Seq(Nodes)
         /\ Len(Forwards(f, start, begin)) = f.n
         /\ begin = start =>
              /\ Forwards(f, start, begin)[1].op = "FORWARD_BEGIN"
              /\ Forwards(f, start, begin)[1].branched = f.branch
<1>1. f.n \in Nat \ {0} /\ f.branch \in BOOLEAN /\ f.nack \in Nat
  BY CommandConstants
<1>2. Acks(f) \in Nat
  BY <1>1 DEF Acks
<1>3. \A i \in 1 .. f.n : Forwards(f, start, begin)[i] \in Nodes
  BY Zenon, <1>1, <1>2 DEF Forwards, Node, Nodes, Commands, Ops
<1>4. Forwards(f, start, begin) \in [1 .. f.n -> Nodes]
  BY Zenon, <1>3 DEF Forwards
<1>5. begin = start =>
        /\ Forwards(f, start, begin)[1].op = "FORWARD_BEGIN"
        /\ Forwards(f, start, begin)[1].branched = f.branch
  BY <1>1 DEF Forwards, Node
<1> QED
  BY <1>1, <1>4, <1>5
-----------------------------------------------------------------------------
LEMMA CommandsInitInv == CommandsInit => CommandsInv
BY DEF CommandsInit, CommandsInv, CommandsType, DeferredRepliesUsed, BranchHasBegin, NULL

\* COMP_TIME, STORE_DATA, LOAD_DATA and SKIP_CMD
LEMMA SimpleInv ==
  ASSUME CommandsInv, (\E o \in SimpleOps : AddSimple(o))
               \/ (\E n \in SkipCounts : AddSkip(n))
  PROVE  CommandsInv'
<1>1. PICK e \in Nodes : ccmd' = Append(ccmd, e)
  <2>1. CASE \E o \in SimpleOps : AddSimple(o)
    BY <2>1, NodeType DEF AddSimple, Commands
  <2>2. CASE \E n \in SkipCounts : AddSkip(n)
    <3>1. \A n \in Nat : [Node("PSKIP") EXCEPT !.n_skip = n] \in Nodes
      BY Zenon DEF Node, Nodes, Commands
    <3> QED
      BY <2>2, <3>1, CommandConstants DEF AddSkip
  <2> QED
    BY ZenonT(30), <2>1, <2>2
<1>2. /\ stage = "options"
      /\ UNCHANGED <<stage, reserved, fwd_scope, branching_degree,
                     curr_forward_begin, last_reserved_used>>
  BY Zenon DEF AddSimple, AddSkip, Reading
<1>3. BranchHasBegin'
  BY ZenonT(30), <1>1, <1>2, AppendKeepsBegin DEF CommandsInv, CommandsType
<1> QED
  BY <1>1, <1>2, <1>3 DEF CommandsInv, CommandsType, DeferredRepliesUsed

\* FORWARD_CMD
LEMMA ForwardInv ==
  ASSUME CommandsInv, NEW f \in ForwardArgs, AddForward(f)
  PROVE  CommandsInv'
<1> DEFINE base == IF ClosesBranch THEN Append(ccmd, Node("REPLY")) ELSE ccmd
           start == Len(base) + 1
           begin == IF f.branch /\ branching_degree > 0
                    THEN curr_forward_begin ELSE start
           fwds == Forwards(f, start, begin)
<1>1. f.n \in Nat \ {0} /\ f.branch \in BOOLEAN
  BY CommandConstants
<1>2. /\ base \in Seq(Nodes)
      /\ Len(base) >= Len(ccmd)
      /\ \A i \in DOMAIN ccmd : i \in DOMAIN base /\ base[i] = ccmd[i]
  BY SMTT(30), NodeType DEF CommandsInv, CommandsType
<1>3. /\ fwds \in Seq(Nodes)
      /\ Len(fwds) = f.n
      /\ begin = start => fwds[1].op = "FORWARD_BEGIN"
                          /\ fwds[1].branched = f.branch
  BY <1>2, ForwardsType
<1>4. /\ ccmd' = base \o fwds
      /\ curr_forward_begin' = begin
      /\ branching_degree' = Degree(f)
  BY ZenonT(30) DEF AddForward
<1>5. BranchHasBegin'
  <2> SUFFICES ASSUME branching_degree' > 0
               PROVE  /\ curr_forward_begin' \in DOMAIN ccmd'
                      /\ ccmd'[curr_forward_begin'].op = "FORWARD_BEGIN"
                      /\ ccmd'[curr_forward_begin'].branched
    BY DEF BranchHasBegin
  <2>1. f.branch
    BY <1>4 DEF Degree
  <2>2. CASE branching_degree > 0
    <3>1. /\ begin \in DOMAIN ccmd
          /\ ccmd[begin].op = "FORWARD_BEGIN"
          /\ ccmd[begin].branched
      BY ZenonT(30), <2>1, <2>2 DEF CommandsInv, BranchHasBegin
    <3>2. begin \in DOMAIN base /\ base[begin] = ccmd[begin]
      BY ZenonT(30), <3>1, <1>2
    <3> HIDE DEF base, begin, fwds
    <3>3. begin \in DOMAIN (base \o fwds) /\ (base \o fwds)[begin] = base[begin]
      BY <3>2, <1>2, <1>3
    <3> QED
      BY ZenonT(30), <3>1, <3>2, <3>3, <1>4
  <2>3. CASE ~(branching_degree > 0)
    <3>1. begin = start
      BY ZenonT(30), <2>3
    <3> HIDE DEF base, begin, fwds
    <3>2. start \in DOMAIN (base \o fwds) /\ (base \o fwds)[start] = fwds[1]
      BY <1>1, <1>2, <1>3
    <3> QED
      BY Zenon, <2>1, <3>1, <3>2, <1>3, <1>4
  <2> QED
    BY ZenonT(30), <2>2, <2>3
<1>6. /\ stage' = "options"
      /\ reserved' \in Nat /\ fwd_scope' \in Nat /\ reserved' <= fwd_scope'
      /\ branching_degree' \in Nat
      /\ last_reserved_used' \in Nat
  BY SMTT(30), CommandConstants
     DEF AddForward, Reading, Enqueued, Dequeued, Degree, CommandsInv, CommandsType
<1>7. ccmd' \in Seq(Nodes)
  BY <1>2, <1>3, <1>4
<1> QED
  BY <1>5, <1>6, <1>7 DEF CommandsInv, CommandsType, DeferredRepliesUsed

\* REPLY_CMD
LEMMA ReplyInv == ASSUME CommandsInv, AddReply PROVE CommandsInv'
<1>1. Node("REPLY") \in Nodes
  BY ZenonT(30), NodeType
<1>2. BranchHasBegin'
  BY ZenonT(30), <1>1, AppendKeepsBegin DEF AddReply, CommandsInv, CommandsType
<1>3. ccmd' \in Seq(Nodes) /\ Len(ccmd) + 1 \in Nat
  BY <1>1 DEF AddReply, CommandsInv, CommandsType
<1>4. /\ reserved' \in Nat /\ fwd_scope' \in Nat /\ reserved' <= fwd_scope'
      /\ branching_degree' \in Nat /\ last_reserved_used' \in Nat
      /\ stage' = "options"
  BY <1>3 DEF AddReply, Reading, Dequeued, CommandsInv, CommandsType
<1> QED
  BY <1>2, <1>3, <1>4 DEF CommandsInv, CommandsType, DeferredRepliesUsed

\* ARGP_KEY_END: its loop stops at reserved = 0, never at fwd_scope = 0
\* before that, so the check() holds.
LEMMA EndInv == ASSUME CommandsInv, End PROVE CommandsInv'
<1> DEFINE closed == ccmd \o [i \in 1 .. Exhausted |-> Node("REPLY")]
           last == IF Exhausted > 0 THEN Len(closed) ELSE last_reserved_used
           endsOpen == last = Len(closed) \/ ~LastIs(closed, "REPLY")
<1>1. Exhausted = reserved /\ Exhausted \in Nat
  BY DEF Exhausted, CommandsInv, CommandsType
<1>2. [i \in 1 .. Exhausted |-> Node("REPLY")] \in Seq(Nodes)
  BY <1>1, NodeType
<1>3. closed \in Seq(Nodes) /\ Len(closed) \in Nat
  <2> DEFINE rs == [i \in 1 .. Exhausted |-> Node("REPLY")]
  <2>1. rs \in Seq(Nodes) /\ ccmd \in Seq(Nodes)
    BY <1>2 DEF CommandsInv, CommandsType
  <2> HIDE DEF rs
  <2>2. ccmd \o rs \in Seq(Nodes) /\ Len(ccmd \o rs) \in Nat
    BY <2>1
  <2> QED
    BY Zenon, <2>2 DEF rs
<1>4. /\ ccmd' = IF endsOpen THEN Append(closed, Node("REPLY")) ELSE closed
      /\ stage' = "built"
      /\ last_reserved_used' = last
      /\ reserved' = reserved - Exhausted
      /\ fwd_scope' = fwd_scope - Exhausted
      /\ UNCHANGED <<branching_degree, curr_forward_begin>>
  BY <1>1 DEF End
<1>5. ccmd' \in Seq(Nodes) /\ LastIs(ccmd', "REPLY")
  <2> HIDE DEF closed, last
  <2>1. CASE endsOpen
    <3>1. ccmd' = Append(closed, Node("REPLY")) /\ Node("REPLY") \in Nodes
      BY <2>1, <1>4, NodeType
    <3>2. /\ Append(closed, Node("REPLY")) \in Seq(Nodes)
          /\ Len(Append(closed, Node("REPLY"))) = Len(closed) + 1
          /\ Append(closed, Node("REPLY"))[Len(closed) + 1] = Node("REPLY")
          /\ Append(closed, Node("REPLY")) # <<>>
      BY <3>1, <1>3
    <3> QED
      BY <3>1, <3>2 DEF LastIs, Node
  <2>2. CASE ~endsOpen
    BY <2>2, <1>3, <1>4
  <2> QED
    BY ZenonT(30), <2>1, <2>2
<1>6. BranchHasBegin'
  <2>1. PICK t \in Seq(Nodes) : ccmd' = ccmd \o t
    <3> DEFINE rs == [i \in 1 .. Exhausted |-> Node("REPLY")]
    <3>1. CASE endsOpen
      <4>1. ccmd' = Append(ccmd \o rs, Node("REPLY"))
        BY Zenon, <3>1, <1>4
      <4>2. Append(ccmd \o rs, Node("REPLY")) = ccmd \o Append(rs, Node("REPLY"))
        <5> HIDE DEF rs
        <5> QED
          BY SMTT(30), <1>2, NodeType DEF CommandsInv, CommandsType
      <4>3. Append(rs, Node("REPLY")) \in Seq(Nodes)
        BY <1>2, NodeType
      <4> QED
        BY Zenon, <4>1, <4>2, <4>3
    <3>2. CASE ~endsOpen
      BY Zenon, <3>2, <1>2, <1>4
    <3> QED
      BY Zenon, <3>1, <3>2
  <2> QED
    BY Zenon, <2>1, <1>4, ExtendKeepsBegin DEF CommandsInv, CommandsType
<1>7. /\ reserved' = 0
      /\ fwd_scope' \in Nat
      /\ last_reserved_used' \in Nat
      /\ branching_degree' \in Nat
  BY <1>1, <1>3, <1>4 DEF CommandsInv, CommandsType
<1>8. CommandsType'
  BY <1>5, <1>7 DEF CommandsType
<1>9. DeferredRepliesUsed'
  BY Zenon, <1>4, <1>5, <1>7 DEF DeferredRepliesUsed, LastIs
<1> QED
  BY <1>6, <1>7, <1>8, <1>9 DEF CommandsInv

LEMMA CommandsNextInv == CommandsInv /\ [CommandsNext]_commandVars => CommandsInv'
<1> SUFFICES ASSUME CommandsInv, [CommandsNext]_commandVars PROVE CommandsInv'
  OBVIOUS
<1>1. CASE UNCHANGED commandVars
  BY <1>1 DEF commandVars, parser, CommandsInv, CommandsType, DeferredRepliesUsed,
              BranchHasBegin
<1>2. CASE \/ \E o \in SimpleOps : AddSimple(o)
           \/ \E n \in SkipCounts : AddSkip(n)
  BY <1>2, SimpleInv
<1>3. CASE \E f \in ForwardArgs : AddForward(f)
  BY ZenonT(30), <1>3, ForwardInv
<1>4. CASE AddReply
  BY <1>4, ReplyInv
<1>5. CASE End
  BY <1>5, EndInv
<1>6. CASE ForwardCrashes
  BY <1>6 DEF ForwardCrashes, CommandsInv, CommandsType, DeferredRepliesUsed,
              BranchHasBegin
<1>7. CASE \E taken \in SUBSET Skips, size \in Sizes : Dump(taken, size)
  BY ZenonT(30), <1>7 DEF Dump, parser, CommandsInv, CommandsType, DeferredRepliesUsed, BranchHasBegin
<1>8. CASE Pass \/ \E j \in 1 .. CAPACITY : Hop(j)
  BY <1>8 DEF Pass, Hop, OnCommand, parser, CommandsInv, CommandsType,
              DeferredRepliesUsed, BranchHasBegin
<1> QED
  BY ZenonT(30), <1>1, <1>2, <1>3, <1>4, <1>5, <1>6, <1>7, <1>8 DEF CommandsNext

(* Every reachable state of the option parser satisfies the inductive
   invariant: never more REPLYs reserved than FORWARDs open. *)
THEOREM CommandsInductive == CommandsSpec => []CommandsInv
BY CommandsInitInv, CommandsNextInv, PTL DEF CommandsSpec

(* The check() of ARGP_KEY_END never fails and the finished list ends with a
   REPLY, for every sequence of options. *)
THEOREM DeferredRepliesUsedHolds == CommandsSpec => []DeferredRepliesUsed
<1>1. CommandsInv => DeferredRepliesUsed
  BY DEF CommandsInv
<1> QED
  BY <1>1, CommandsInductive, PTL

(* A branch always finds the branched FORWARD_BEGIN of its context, so
   FORWARD_CMD never writes n_ack through a stale curr_forward_begin. *)
THEOREM BranchHasBeginHolds == CommandsSpec => []BranchHasBegin
<1>1. CommandsInv => BranchHasBegin
  BY DEF CommandsInv
<1> QED
  BY <1>1, CommandsInductive, PTL
=============================================================================
