------------------------- MODULE NodeForwardProofs -------------------------
(***************************************************************************)
(* Invariants of NodeForward for every set of connections, peers and       *)
(* programs, every table size and every kind of fault.                     *)
(*                                                                         *)
(* TypeOK, AtMostOneReply, LiveOnOpenConn and NodesMatchQueue are not      *)
(* inductive.  What carries them is the bookkeeping of the request table:  *)
(* a request is in the slot of its req_id, its req_id was handed out, and  *)
(* it has not been answered yet; the req_ids not handed out have no        *)
(* answers; and the slot a handler works on is in use.                     *)
(***************************************************************************)
EXTENDS NodeForward, TLAPS

Table == \A s \in Slots : Live(s) =>
           /\ Slot(reqs[s].req_id) = s
           /\ reqs[s].req_id < last_reqs
           /\ replied[reqs[s].req_id] = 0
           /\ reqs[s].conn_id \in Conns
           /\ up[reqs[s].conn_id] = "open"

Unused == \A i \in Ids : i >= last_reqs => replied[i] = 0

Worker == /\ pc \in {"process", "forward"} => Live(run.slot)
          /\ run.caller = "obtain" => run.from \in Conns

Messages == /\ infl = [p \in Peers |-> infl[p]]
            /\ \A p \in Peers : \A x \in infl[p] : x.id \in Ids
            /\ \A x \in storage : x.id \in Ids

IInv == /\ TypeOK
        /\ AtMostOneReply
        /\ Table
        /\ Unused
        /\ Worker
        /\ Messages
        /\ NodesMatchQueue

\* What a step does to the req_ids of the table: the only new one is the next.
IdsKept == \A s \in Slots :
             reqs'[s].req_id \in {NONE, reqs[s].req_id, last_reqs}
-----------------------------------------------------------------------------
\* A req_id, whatever its value, names a slot of reqs[] (req_get_by_id).
LEMMA SlotInSlots == ASSUME NEW i \in Int PROVE Slot(i) \in Slots
  BY NodeConstants, SMT DEF Slot, Slots

\* The req_ids of a behaviour are naturals, and each has a slot.
LEMMA IdFacts == /\ \A i \in Ids : i \in Nat /\ i # NONE /\ Slot(i) \in Slots
                 /\ \A i \in Nat : i < MaxIds => i \in Ids
                 /\ \A s \in Slots : s \in Nat
                 /\ 0 \in Slots
  BY NodeConstants, SlotInSlots DEF Ids, Slots, NONE

\* The records handlers write into the table are requests.
LEMMA FreeReqType == FreeReq \in Request
  BY NodeConstants DEF FreeReq, Request, Status

\* Between two events the worker is in no call.
LEMMA IdleType == Idle \in Call /\ Idle.caller = "none"
  BY IdFacts DEF Idle, Call, Callers

\* req_unlink frees the slot and leaves it its timeout node.
LEMMA UnlinkedType ==
  ASSUME NEW r \in Request
  PROVE  /\ Unlinked(r) \in Request
         /\ Unlinked(r).req_id = NONE
         /\ Unlinked(r).timeout_node = r.timeout_node
  BY FreeReqType DEF Unlinked, FreeReq, Request

\* Setting one field of the request in a slot leaves the others as they are.
LEMMA StatusSet ==
  ASSUME NEW R \in [Slots -> Request], NEW s \in Slots, NEW st \in Status
  PROVE  LET S == [R EXCEPT ![s].status = st]
         IN  /\ S \in [Slots -> Request]
             /\ \A t \in Slots : /\ S[t].timeout_node = R[t].timeout_node
                                 /\ S[t].req_id = R[t].req_id
                                 /\ S[t].conn_id = R[t].conn_id
<1> DEFINE q == [R[s] EXCEPT !.status = st]
<1>1. /\ q \in Request /\ q.timeout_node = R[s].timeout_node
      /\ q.req_id = R[s].req_id /\ q.conn_id = R[s].conn_id
  BY Zenon DEF Request
<1>2. [R EXCEPT ![s].status = st] = [R EXCEPT ![s] = q]
  OBVIOUS
<1> HIDE DEF q
<1> QED BY <1>1, <1>2

LEMMA RepliesLeftSet ==
  ASSUME NEW R \in [Slots -> Request], NEW s \in Slots, NEW left \in Int
  PROVE  LET S == [R EXCEPT ![s].fwd_replies_left = left]
         IN  /\ S \in [Slots -> Request]
             /\ \A t \in Slots : /\ S[t].timeout_node = R[t].timeout_node
                                 /\ S[t].req_id = R[t].req_id
                                 /\ S[t].conn_id = R[t].conn_id
<1> DEFINE q == [R[s] EXCEPT !.fwd_replies_left = left]
<1>1. /\ q \in Request /\ q.timeout_node = R[s].timeout_node
      /\ q.req_id = R[s].req_id /\ q.conn_id = R[s].conn_id
  BY Zenon DEF Request
<1>2. [R EXCEPT ![s].fwd_replies_left = left] = [R EXCEPT ![s] = q]
  OBVIOUS
<1> HIDE DEF q
<1> QED BY <1>1, <1>2

LEMMA TimeoutNodeSet ==
  ASSUME NEW R \in [Slots -> Request], NEW s \in Slots, NEW n \in Ids \cup {NONE}
  PROVE  LET S == [R EXCEPT ![s].timeout_node = n]
         IN  /\ S \in [Slots -> Request]
             /\ \A t \in Slots : /\ S[t].timeout_node =
                                      IF t = s THEN n ELSE R[t].timeout_node
                                 /\ S[t].req_id = R[t].req_id
                                 /\ S[t].conn_id = R[t].conn_id
<1> DEFINE q == [R[s] EXCEPT !.timeout_node = n]
<1>1. /\ q \in Request /\ q.timeout_node = n
      /\ q.req_id = R[s].req_id /\ q.conn_id = R[s].conn_id
  BY Zenon DEF Request
<1>2. [R EXCEPT ![s].timeout_node = n] = [R EXCEPT ![s] = q]
  OBVIOUS
<1> HIDE DEF q
<1> QED BY <1>1, <1>2

\* conn_reset frees the requests of c, keeps the others, and leaves every
\* slot its timeout node.
LEMMA ForgetFacts ==
  ASSUME NEW R \in [Slots -> Request], NEW c
  PROVE  /\ Forget(R, c) \in [Slots -> Request]
         /\ \A s \in Slots :
              /\ Forget(R, c)[s].timeout_node = R[s].timeout_node
              /\ \/ Forget(R, c)[s] = R[s] /\ (R[s].req_id # NONE => R[s].conn_id # c)
                 \/ Forget(R, c)[s].req_id = NONE
  BY UnlinkedType DEF Forget

\* What a handler that ends leaves to the poll loop.
LEMMA ReturnFacts ==
  ASSUME TypeOK, Worker, NEW r, Return(r)
  PROVE  /\ pc' \in {"poll", "fail", "err"}
         /\ run' \in Call
         /\ run'.caller = "obtain" => run'.from \in Conns
  BY Zenon, IdleType DEF TypeOK, Worker, Return, Failed, Call, Callers, Idle

\* The loop of start_forward goes on with the next branch, or returns.
LEMMA NextBranchFacts ==
  ASSUME TypeOK, Worker, pc = "forward", NextBranch
  PROVE  /\ \/ pc' = "forward" /\ run' = run
            \/ pc' \in {"poll", "fail", "err"}
         /\ run' \in Call
         /\ run'.caller = "obtain" => run'.from \in Conns
<1> DEFINE nx == BoundedNextForward(Msg(run.slot), cmd)
<1>1. CASE nx = NULL
  BY <1>1, ReturnFacts DEF NextBranch
<1>2. CASE nx # NULL
  BY <1>2 DEF NextBranch, TypeOK, Worker
<1> QED BY <1>1, <1>2

-----------------------------------------------------------------------------
(***************************************************************************)
(* How the table and the queue survive the changes handlers make to them.  *)
(***************************************************************************)

\* A step that only frees requests keeps the bookkeeping of the others.
LEMMA TableKept ==
  ASSUME Table, UNCHANGED last_reqs,
         \A s \in Slots : reqs'[s].req_id # NONE =>
           /\ reqs'[s].req_id = reqs[s].req_id
           /\ reqs'[s].conn_id = reqs[s].conn_id
           /\ replied'[reqs[s].req_id] = replied[reqs[s].req_id]
           /\ up'[reqs[s].conn_id] = up[reqs[s].conn_id]
  PROVE  Table'
  BY DEF Table, Live, Slot

\* A step that touches neither the queue nor a timeout_node keeps them
\* in agreement.
LEMMA QueueKept ==
  ASSUME TypeOK, NodesMatchQueue, UNCHANGED timeoutVars,
         \A s \in Slots : reqs'[s].timeout_node = reqs[s].timeout_node
  PROVE  NodesMatchQueue'
<1> USE DEF timeoutVars
<1>1. \A i \in tq : Slot(i) \in Slots
  BY IdFacts DEF TypeOK
<1> QED BY <1>1 DEF NodesMatchQueue, Slot

\* remove_timeout takes the node of slot s out of the queue, and out of the
\* slot.
LEMMA NodeRemoved ==
  ASSUME TypeOK, NodesMatchQueue, NEW s \in Slots,
         RemoveNode(reqs[s].timeout_node),
         \A t \in Slots : reqs'[t].timeout_node =
                            IF t = s THEN NONE ELSE reqs[t].timeout_node
  PROVE  /\ NodesMatchQueue'
         /\ tq' \subseteq Ids /\ top' \in Ids \cup {NONE} /\ armed' \in BOOLEAN
<1> DEFINE n == reqs[s].timeout_node
<1>0. /\ reqs[s] \in Request /\ n \in Ids \cup {NONE}
      /\ \A i \in tq : Slot(i) \in Slots /\ i # NONE
  BY IdFacts DEF TypeOK, Request
<1>1. CASE n = NONE
  <2>1. UNCHANGED timeoutVars
    BY <1>1 DEF RemoveNode
  <2>2. \A t \in Slots : reqs'[t].timeout_node = reqs[t].timeout_node
    BY <1>1
  <2> QED BY <2>1, <2>2, QueueKept DEF TypeOK, timeoutVars
<1>2. CASE n # NONE
  <2>1. tq' = tq \ {n} /\ n \in tq /\ Slot(n) = s
    BY <1>0, <1>2 DEF RemoveNode, NodesMatchQueue
  <2>2. /\ \A t \in Slots : reqs'[t].timeout_node # NONE =>
             /\ reqs'[t].timeout_node \in tq'
             /\ Slot(reqs'[t].timeout_node) = t
        /\ \A i \in tq' : reqs'[Slot(i)].timeout_node = i
    BY <1>0, <2>1 DEF NodesMatchQueue
  <2>3. CASE n = top
    <3>1. /\ top' \in IF tq' = {} THEN {NONE} ELSE tq'
          /\ armed' \in Rearmed(tq')
      BY Zenon, <1>2, <2>3 DEF RemoveNode
    <3>2. armed' \in BOOLEAN /\ (armed' => tq' # {})
      BY Zenon, <3>1 DEF Rearmed
    <3>3. tq' \subseteq Ids /\ \A i \in tq' : i # NONE
      BY Zenon, <1>0, <2>1 DEF TypeOK
    <3>4. (top' = NONE <=> tq' = {}) /\ (top' # NONE => top' \in tq')
      BY Zenon, <3>1, <3>3
    <3> QED BY Zenon, <2>2, <3>1, <3>2, <3>3, <3>4 DEF NodesMatchQueue, Slot
  <2>4. CASE n # top
    BY <1>0, <1>2, <2>1, <2>2, <2>4 DEF RemoveNode, NodesMatchQueue, TypeOK, Slot
  <2> QED BY <2>3, <2>4
<1> QED BY <1>1, <1>2

\* insert_timeout adds the request of slot s, unless the slot has a node.
LEMMA NodeInserted ==
  ASSUME TypeOK, NodesMatchQueue, Table, NEW s \in Slots, Live(s),
         InsertTimeout(s)
  PROVE  /\ NodesMatchQueue'
         /\ reqs' \in [Slots -> Request]
         /\ \A t \in Slots : /\ reqs'[t].req_id = reqs[t].req_id
                             /\ reqs'[t].conn_id = reqs[t].conn_id
         /\ tq' \subseteq Ids /\ top' \in Ids \cup {NONE} /\ armed' \in BOOLEAN
<1> DEFINE id == reqs[s].req_id
<1>0. /\ reqs[s] \in Request /\ id \in Ids /\ id # NONE /\ Slot(id) = s
      /\ \A i \in tq : Slot(i) \in Slots /\ i # NONE
  BY Zenon, IdFacts DEF TypeOK, Request, Table, Live
<1>1. CASE reqs[s].timeout_node # NONE
  <2>1. UNCHANGED <<reqs, timeoutVars>>
    BY <1>1 DEF InsertTimeout
  <2> QED BY <2>1, QueueKept DEF TypeOK, timeoutVars
<1>2. CASE reqs[s].timeout_node = NONE
  <2>1. /\ reqs' = [reqs EXCEPT ![s].timeout_node = id]
        /\ tq' = tq \cup {id}
        /\ \/ (tq = {} \/ armed) /\ top' = id /\ armed' = TRUE
           \/ tq # {} /\ UNCHANGED <<top, armed>>
    BY <1>2 DEF InsertTimeout
  <2>2. /\ reqs' \in [Slots -> Request]
        /\ \A t \in Slots :
             /\ reqs'[t].req_id = reqs[t].req_id
             /\ reqs'[t].conn_id = reqs[t].conn_id
             /\ reqs'[t].timeout_node = IF t = s THEN id
                                        ELSE reqs[t].timeout_node
    BY Zenon, <1>0, <2>1 DEF TypeOK, Request
  <2>3. /\ \A t \in Slots : reqs'[t].timeout_node # NONE =>
             /\ reqs'[t].timeout_node \in tq'
             /\ Slot(reqs'[t].timeout_node) = t
        /\ \A i \in tq' : reqs'[Slot(i)].timeout_node = i
    BY <1>0, <1>2, <2>1, <2>2 DEF NodesMatchQueue
  <2>4. /\ top' = NONE <=> tq' = {}
        /\ top' # NONE => top' \in tq'
        /\ armed' => tq' # {}
    BY <1>0, <2>1 DEF NodesMatchQueue
  <2>5. tq' \subseteq Ids /\ top' \in Ids \cup {NONE} /\ armed' \in BOOLEAN
    BY Zenon, <1>0, <2>1 DEF TypeOK
  <2> QED BY <2>2, <2>3, <2>4, <2>5 DEF NodesMatchQueue, Slot
<1> QED BY <1>1, <1>2

-----------------------------------------------------------------------------
(***************************************************************************)
(* The steps of process_single_message.                                    *)
(***************************************************************************)
\* compute_for, and store() without wait_sync, only move the cursor.
LEMMA SkipCommandInv == ASSUME IInv, SkipCommand PROVE IInv' /\ IdsKept
  BY DEF IdsKept, IInv, TypeOK, AtMostOneReply, Table, Unused, Worker, Messages,
         NodesMatchQueue, Live, Slot, SkipCommand, AtCommand, timeoutVars,
         netVars, historyVars

\* load(), and store() with wait_sync, hand a command of a request in the
\* table to a storage thread.
LEMMA StorageCommandInv == ASSUME IInv, StorageCommand PROVE IInv' /\ IdsKept
<1> USE DEF IdsKept, timeoutVars, netVars, historyVars
<1>1. /\ UNCHANGED <<reqs, last_reqs, up, recvd, link, infl, tq, top, armed,
                     scan, replied>>
      /\ Return(0) /\ pc = "process"
  BY DEF StorageCommand, AtCommand
<1>2. TypeOK' /\ Worker'
  BY <1>1, ReturnFacts DEF IInv, TypeOK, Worker
<1>3. Messages'
  <2>1. run.slot \in Slots /\ reqs[run.slot].req_id \in Ids
    BY <1>1 DEF IInv, TypeOK, Worker, Live, Call, Request
  <2>2. storage' = storage \cup {[id |-> reqs[run.slot].req_id, cmd |-> cmd]}
    BY DEF StorageCommand
  <2> QED BY <1>1, <2>1, <2>2 DEF IInv, Messages
<1> QED BY <1>1, <1>2, <1>3 DEF IInv, AtMostOneReply, Table, Unused,
                                NodesMatchQueue, Live, Slot

\* A storage command that fails changes nothing but where the worker is.
LEMMA StorageFailsInv == ASSUME IInv, StorageFails PROVE IInv' /\ IdsKept
<1> USE DEF IdsKept, timeoutVars, netVars, historyVars
<1>1. /\ UNCHANGED <<reqs, last_reqs, up, recvd, link, infl, tq, top, armed,
                     scan, replied, storage>>
      /\ Return(-1)
  BY Zenon DEF StorageFails
<1>2. TypeOK' /\ Worker'
  BY <1>1, ReturnFacts DEF IInv, TypeOK, Worker
<1> QED BY Zenon, <1>1, <1>2 DEF IInv, AtMostOneReply, Table, Unused, Messages,
                                NodesMatchQueue, Live, Slot

\* start_forward opens a context in the slot of a request in the table.
LEMMA StartForwardInv == ASSUME IInv, StartForward PROVE IInv' /\ IdsKept
<1> USE DEF IdsKept, timeoutVars, netVars, historyVars
<1> DEFINE s == run.slot
           c == Msg(s)[cmd]
<1>1. /\ UNCHANGED <<last_reqs, up, recvd, link, infl, tq, top, armed, run,
                     scan, replied, storage>>
      /\ pc = "process" /\ pc' = "forward"
      /\ s \in Slots /\ Live(s) /\ reqs[s] \in Request
  BY DEF StartForward, AtCommand, IInv, TypeOK, Worker, Call
<1>2. c \in Command
  <2>1. Msg(s) \in Programs \cup {<<>>} /\ cmd \in 1 .. Len(Msg(s))
    BY <1>1 DEF StartForward, AtCommand, Points, InBounds, Msg, Request
  <2>2. Msg(s) \in Programs
    BY <2>1
  <2> QED BY <2>1, <2>2, NodeConstants
<1>3. /\ reqs' \in [Slots -> Request]
      /\ \A t \in Slots : /\ reqs'[t].req_id = reqs[t].req_id
                          /\ reqs'[t].conn_id = reqs[t].conn_id
                          /\ reqs'[t].timeout_node = reqs[t].timeout_node
  <2>1. CASE reqs[s].fwd_replies_left = -1
    <3>1. reqs' = [reqs EXCEPT ![s] =
                     [@ EXCEPT !.fwd_replies_left = c.nack,
                               !.fwd_timeout = c.timeout,
                               !.fwd_retries = c.retries,
                               !.fwd_on_fail_skip = c.on_fail_skip]]
      BY <2>1 DEF StartForward
    <3>2. c.nack \in Int /\ c.timeout \in Nat /\ c.retries \in Nat
          /\ c.on_fail_skip \in Nat
      BY <1>2 DEF Command
    <3> HIDE DEF c
    <3> QED BY Zenon, <1>1, <3>1, <3>2 DEF IInv, TypeOK, Request
  <2>2. CASE reqs[s].fwd_replies_left # -1
    BY <2>2 DEF StartForward, IInv, TypeOK
  <2> QED BY <2>1, <2>2
<1>4. Table' /\ NodesMatchQueue'
  BY <1>1, <1>3, TableKept, QueueKept DEF IInv
<1> QED BY <1>1, <1>3, <1>4 DEF IInv, TypeOK, AtMostOneReply, Unused, Worker,
                                Messages, Live

\* A branch that has answered is passed over.
LEMMA SkipBranchInv == ASSUME IInv, SkipBranch PROVE IInv' /\ IdsKept
<1> USE DEF IdsKept, timeoutVars, netVars, historyVars
<1>1. /\ UNCHANGED <<reqs, last_reqs, storage, up, recvd, link, infl, tq, top,
                     armed, scan, replied>>
      /\ pc = "forward" /\ NextBranch
  BY DEF SkipBranch
<1>2. TypeOK' /\ Worker'
  BY <1>1, NextBranchFacts DEF IInv, TypeOK, Worker, Live
<1> QED BY <1>1, <1>2 DEF IInv, AtMostOneReply, Table, Unused, Messages,
                          NodesMatchQueue, Live, Slot

\* single_start_forward sends with the req_id of a request in the table and
\* queues at most one timeout for it.
LEMMA SendBranchInv == ASSUME IInv, SendBranch PROVE IInv' /\ IdsKept
<1> USE DEF IdsKept, timeoutVars, netVars, historyVars
<1> DEFINE s == run.slot
           p == Branch.addr
           x == [id |-> reqs[s].req_id, ctx |-> curr_cmd[s], br |-> cmd,
                 retry |-> reqs[s].fwd_retries]
<1>1. /\ UNCHANGED <<last_reqs, storage, up, recvd, scan, replied>>
      /\ pc = "forward" /\ NextBranch
      /\ s \in Slots /\ Live(s) /\ reqs[s].req_id \in Ids
  BY DEF SendBranch, IInv, TypeOK, Worker, Call, Live, Request
<1>2. /\ link' \in [Peers -> {"none", "connecting", "ready", "closing"}]
      /\ infl' = [q \in Peers |-> infl'[q]]
      /\ \A q \in Peers : \A y \in infl'[q] : y.id \in Ids
  <2>1. x.id \in Ids
    BY ZenonT(30), <1>1
  <2>2. /\ \/ link' = [link EXCEPT ![p] = IF @ = "none" THEN "connecting"
                                          ELSE @]
           \/ link' = [link EXCEPT ![p] = "ready"]
           \/ link' = [link EXCEPT ![p] = "closing"]
        /\ \/ infl' = [infl EXCEPT ![p] = @ \cup {x}]
           \/ infl' = [infl EXCEPT ![p] = {x}]
           \/ infl' = infl
    BY DEF SendBranch
  <2> HIDE DEF x, p
  <2>3. link' \in [Peers -> {"none", "connecting", "ready", "closing"}]
    BY <2>2 DEF IInv, TypeOK
  <2>4. infl' = [q \in Peers |-> infl'[q]]
    BY <2>2 DEF IInv, Messages
  <2>5. ASSUME NEW q \in Peers PROVE infl'[q] \subseteq infl[q] \cup {x}
    BY <2>2 DEF IInv, Messages
  <2> QED BY Zenon, <2>1, <2>3, <2>4, <2>5 DEF IInv, Messages
<1>3. /\ NodesMatchQueue'
      /\ reqs' \in [Slots -> Request]
      /\ \A t \in Slots : /\ reqs'[t].req_id = reqs[t].req_id
                          /\ reqs'[t].conn_id = reqs[t].conn_id
      /\ tq' \subseteq Ids /\ top' \in Ids \cup {NONE} /\ armed' \in BOOLEAN
  <2>1. CASE reqs[s].fwd_timeout # 0
    BY <1>1, <2>1, NodeInserted DEF SendBranch, IInv
  <2>2. CASE reqs[s].fwd_timeout = 0
    <3>1. UNCHANGED <<reqs, timeoutVars>>
      BY <2>2 DEF SendBranch
    <3> QED BY Zenon, <3>1, QueueKept DEF IInv, TypeOK
  <2> QED BY ZenonT(30), <2>1, <2>2
<1>4. TypeOK' /\ Worker'
  BY Zenon, <1>1, <1>2, <1>3, NextBranchFacts DEF IInv, TypeOK, Worker, Live
<1>5. Table'
  BY Zenon, <1>1, <1>3, TableKept DEF IInv
<1> QED BY <1>1, <1>2, <1>3, <1>4, <1>5 DEF IInv, AtMostOneReply, Unused,
                                            Messages

\* When single_start_forward gives up the table is as it was.
LEMMA SendBranchFailsInv == ASSUME IInv, SendBranchFails PROVE IInv' /\ IdsKept
<1> USE DEF IdsKept, timeoutVars, netVars, historyVars
<1>1. /\ UNCHANGED <<reqs, last_reqs, storage, up, recvd, infl, tq, top,
                     armed, scan, replied>>
      /\ Return(-1)
  BY DEF SendBranchFails
<1>2. link' \in [Peers -> {"none", "connecting", "ready", "closing"}]
  BY DEF SendBranchFails, IInv, TypeOK
<1>3. TypeOK' /\ Worker'
  BY Zenon, <1>1, <1>2, ReturnFacts DEF IInv, TypeOK, Worker
<1> QED BY <1>1, <1>3 DEF IInv, AtMostOneReply, Table, Unused, Messages,
                          NodesMatchQueue, Live, Slot

\* reply() answers a request that had no answer, and unlinks it; after
\* EPIPE the other requests of its connection go too.
LEMMA ReplyCommandInv == ASSUME IInv, ReplyCommand PROVE IInv' /\ IdsKept
<1> USE DEF IdsKept, timeoutVars, netVars, historyVars
<1> DEFINE s == run.slot
           id == reqs[s].req_id
           c == reqs[s].conn_id
           gone == RemoveAnswered(reqs, s)
<1>1. /\ UNCHANGED <<last_reqs, storage, recvd, link, infl, tq, top, armed,
                     scan>>
      /\ s \in Slots /\ reqs[s] \in Request /\ id \in Ids /\ id # NONE
      /\ replied[id] = 0 /\ id < last_reqs /\ Slot(id) = s
      /\ c \in Conns
  <2>1. /\ UNCHANGED <<last_reqs, storage, recvd, link, infl, tq, top, armed,
                       scan>>
        /\ pc = "process"
    BY DEF ReplyCommand, AtCommand
  <2>2. s \in Slots /\ reqs[s] \in Request /\ Live(s)
    BY <2>1 DEF IInv, TypeOK, Worker, Call
  <2>3. id \in Ids /\ id # NONE
    BY ZenonT(30), <2>2 DEF Live, Request
  <2> QED BY Zenon, <2>1, <2>2, <2>3 DEF IInv, Table
<1>2. /\ gone \in [Slots -> Request]
      /\ \A t \in Slots : /\ gone[t].timeout_node = reqs[t].timeout_node
                          /\ \/ gone[t] = reqs[t] /\ t # s
                             \/ gone[t].req_id = NONE
  BY Zenon, <1>1, UnlinkedType DEF RemoveAnswered, IInv, TypeOK
<1>3. /\ pc' \in {"poll", "fail", "err"} /\ run' \in Call
      /\ run'.caller = "obtain" => run'.from \in Conns
  BY ZenonT(30), ReturnFacts DEF IInv, ReplyCommand
<1>4. \/ reqs' = gone /\ up' = up
      \/ reqs' = Forget(gone, c) /\ up' = [up EXCEPT ![c] = "closed"]
  BY ZenonT(30) DEF ReplyCommand, CloseUp
<1>5. \/ replied' = replied
      \/ replied' = [replied EXCEPT ![id] = @ + 1]
  BY DEF ReplyCommand
<1> HIDE DEF gone
<1>6. /\ reqs' \in [Slots -> Request]
      /\ \A t \in Slots :
           /\ reqs'[t].timeout_node = reqs[t].timeout_node
           /\ reqs'[t].req_id # NONE => /\ t # s /\ reqs'[t] = reqs[t]
                                        /\ up'[reqs[t].conn_id] =
                                             up[reqs[t].conn_id]
  <2>1. CASE reqs' = gone /\ up' = up
    BY <1>2, <2>1
  <2>2. CASE /\ reqs' = Forget(gone, c)
             /\ up' = [up EXCEPT ![c] = "closed"]
    <3>1. /\ reqs' \in [Slots -> Request]
          /\ \A t \in Slots :
               /\ reqs'[t].timeout_node = gone[t].timeout_node
               /\ \/ /\ reqs'[t] = gone[t]
                     /\ gone[t].req_id # NONE => gone[t].conn_id # c
                  \/ reqs'[t].req_id = NONE
      BY <1>2, <2>2, ForgetFacts
    <3>2. \A t \in Conns : t # c => up'[t] = up[t]
      BY <2>2 DEF IInv, TypeOK
    <3>3. ASSUME NEW t \in Slots, reqs'[t].req_id # NONE
          PROVE  /\ t # s /\ reqs'[t] = reqs[t]
                 /\ up'[reqs[t].conn_id] = up[reqs[t].conn_id]
      <4>1. reqs'[t] = reqs[t] /\ t # s /\ reqs[t].conn_id # c
        BY ZenonT(30), <1>2, <3>1, <3>3
      <4>2. reqs[t].conn_id \in Conns
        BY ZenonT(30), <3>3, <4>1 DEF IInv, Table, Live
      <4> QED BY <4>1, <4>2, <3>2
    <3> QED BY Zenon, <1>2, <3>1, <3>3
  <2> QED BY <1>4, <2>1, <2>2
<1>7. /\ replied' \in [Ids -> Nat]
      /\ \A i \in Ids : /\ i # id => replied'[i] = replied[i]
                        /\ replied'[i] <= 1
  BY <1>1, <1>5 DEF IInv, TypeOK, AtMostOneReply
<1>8. Table'
  <2>1. ASSUME NEW t \in Slots, reqs'[t].req_id # NONE
        PROVE  replied'[reqs[t].req_id] = replied[reqs[t].req_id]
    <3>1. t # s /\ reqs'[t] = reqs[t] /\ reqs[t] \in Request
      BY <1>6, <2>1 DEF IInv, TypeOK
    <3>2. Slot(reqs[t].req_id) = t /\ reqs[t].req_id \in Ids
      BY ZenonT(30), <2>1, <3>1 DEF IInv, Table, Live, Request
    <3> QED BY <1>1, <1>7, <3>1, <3>2
  <2> QED BY Zenon, <1>1, <1>6, <2>1, TableKept DEF IInv
<1>9. Unused'
  <2>1. id < last_reqs /\ id \in Nat /\ last_reqs \in Nat
    <3>1. last_reqs \in 0 .. MaxIds /\ MaxIds \in Nat
      BY Zenon, NodeConstants DEF IInv, TypeOK
    <3>2. last_reqs \in Nat
      BY ONLY <3>1
    <3> QED BY Zenon, <1>1, <3>2, IdFacts
  <2>2. \A i \in Ids : i >= last_reqs => i # id
    BY ONLY <2>1
  <2> QED BY Zenon, <1>1, <1>7, <2>2 DEF IInv, Unused
<1>10. NodesMatchQueue'
  BY <1>1, <1>6, QueueKept DEF IInv
<1>11. up' \in [Conns -> {"new", "open", "closed"}]
  BY Zenon, <1>4 DEF IInv, TypeOK
<1> QED BY Zenon, <1>1, <1>3, <1>6, <1>7, <1>8, <1>9, <1>10, <1>11
        DEF IInv, TypeOK, AtMostOneReply, Worker, Messages

\* A list without REPLY leaves its request in the table.
LEMMA EndOfCommandsInv == ASSUME IInv, EndOfCommands PROVE IInv' /\ IdsKept
<1> USE DEF IdsKept, timeoutVars, netVars, historyVars
<1>1. /\ UNCHANGED <<reqs, last_reqs, storage, up, recvd, link, infl, tq, top,
                     armed, scan, replied>>
      /\ Return(1)
  BY DEF EndOfCommands
<1>2. TypeOK' /\ Worker'
  BY Zenon, <1>1, ReturnFacts DEF IInv, TypeOK, Worker
<1> QED BY <1>1, <1>2 DEF IInv, AtMostOneReply, Table, Unused, Messages,
                          NodesMatchQueue, Live, Slot

-----------------------------------------------------------------------------
(***************************************************************************)
(* The events of the poll loop.                                            *)
(***************************************************************************)
\* A new connection has no requests.
LEMMA AcceptInv == ASSUME IInv, NEW c \in Conns, Accept(c) PROVE IInv' /\ IdsKept
<1> USE DEF IdsKept, timeoutVars, netVars, historyVars, workerVars
<1>1. /\ UNCHANGED <<reqs, last_reqs, storage, recvd, link, infl, tq, top,
                     armed, pc, run, scan, replied>>
      /\ up[c] = "new" /\ up' = [up EXCEPT ![c] = "open"]
  BY DEF Accept
<1>2. up' \in [Conns -> {"new", "open", "closed"}]
      /\ \A d \in Conns : up[d] = "open" => up'[d] = "open"
  BY Zenon, <1>1 DEF IInv, TypeOK
<1>3. Table'
  BY Zenon, <1>1, <1>2 DEF IInv, Table, Live, Slot
<1> QED BY <1>1, <1>2, <1>3 DEF IInv, TypeOK, AtMostOneReply, Unused, Worker,
                                Messages, NodesMatchQueue, Live, Slot

\* Closing an upstream connection frees its requests and leaves the others.
LEMMA ConnForgotten ==
  ASSUME IInv, NEW R \in [Slots -> Request], NEW c \in Conns,
         \A s \in Slots : /\ R[s].req_id = reqs[s].req_id
                          /\ R[s].conn_id = reqs[s].conn_id,
         reqs' = Forget(R, c), CloseUp(c), UNCHANGED replied
  PROVE  /\ reqs' \in [Slots -> Request]
         /\ up' \in [Conns -> {"new", "open", "closed"}]
         /\ \A s \in Slots :
              /\ reqs'[s].timeout_node = R[s].timeout_node
              /\ reqs'[s].req_id # NONE =>
                   /\ reqs'[s].req_id = reqs[s].req_id
                   /\ reqs'[s].conn_id = reqs[s].conn_id
                   /\ replied'[reqs[s].req_id] = replied[reqs[s].req_id]
                   /\ up'[reqs[s].conn_id] = up[reqs[s].conn_id]
<1>1. /\ reqs' \in [Slots -> Request]
      /\ \A s \in Slots :
           /\ reqs'[s].timeout_node = R[s].timeout_node
           /\ \/ /\ reqs'[s] = R[s]
                 /\ R[s].req_id # NONE => R[s].conn_id # c
              \/ reqs'[s].req_id = NONE
  BY ForgetFacts
<1>2. /\ up' \in [Conns -> {"new", "open", "closed"}]
      /\ \A d \in Conns : d # c => up'[d] = up[d]
  BY Zenon DEF CloseUp, IInv, TypeOK
<1>3. ASSUME NEW s \in Slots, reqs'[s].req_id # NONE
      PROVE  /\ reqs'[s].req_id = reqs[s].req_id
             /\ reqs'[s].conn_id = reqs[s].conn_id
             /\ up'[reqs[s].conn_id] = up[reqs[s].conn_id]
  <2>1. /\ reqs'[s].req_id = reqs[s].req_id
        /\ reqs'[s].conn_id = reqs[s].conn_id /\ reqs[s].conn_id # c
    BY Zenon, <1>1, <1>3
  <2>2. reqs[s].conn_id \in Conns
    BY Zenon, <1>3, <2>1 DEF IInv, Table, Live
  <2> QED BY <1>2, <2>1, <2>2
<1> QED BY <1>1, <1>2, <1>3

\* The scan of the error path starts.
LEMMA EnterErrFacts ==
  ASSUME NEW from \in Conns \cup Peers \cup {NoConn}, EnterErr(from)
  PROVE  /\ pc' = "err" /\ run' \in Call /\ run'.caller = "err"
         /\ scan' \subseteq Conns
<1>1. /\ pc' = "err" /\ run' = [Idle EXCEPT !.caller = "err", !.from = from]
      /\ scan' = {c \in Conns \ {from} : up[c] = "open"}
  BY Zenon DEF EnterErr
<1>2. run' \in Call /\ run'.caller = "err"
  BY Zenon, <1>1, IdleType DEF Call, Callers, Idle
<1>3. scan' \subseteq Conns
  BY Zenon, <1>1
<1> QED BY Zenon, <1>1, <1>2, <1>3

\* The error path on an upstream connection frees its requests, and then
\* looks for requests to fail.
LEMMA FailUpInv ==
  ASSUME IInv, NEW c \in Conns, FailUp(c),
         UNCHANGED <<last_reqs, storage, recvd, link, infl, tq, top, armed, replied>>
  PROVE  IInv' /\ IdsKept
<1> USE DEF IdsKept, timeoutVars, netVars, historyVars, workerVars
<1>1. /\ reqs' = Forget(reqs, c) /\ CloseUp(c) /\ EnterErr(c)
      /\ reqs \in [Slots -> Request]
  BY Zenon DEF FailUp, IInv, TypeOK
<1>2. Table' /\ NodesMatchQueue'
  BY Zenon, <1>1, ConnForgotten, TableKept, QueueKept DEF IInv
<1>3. /\ pc' = "err" /\ run' \in Call /\ run'.caller = "err"
      /\ scan' \subseteq Conns
  BY Zenon, <1>1, EnterErrFacts
<1>4. TypeOK' /\ IdsKept
  BY Zenon, <1>1, <1>3, ConnForgotten DEF IInv, TypeOK
<1>5. Worker'
  BY Zenon, <1>3 DEF Worker
<1> QED BY Zenon, <1>2, <1>4, <1>5 DEF IInv, AtMostOneReply, Unused, Messages

\* The end of an upstream connection.
LEMMA UpstreamClosedInv ==
  ASSUME IInv, NEW c \in Conns, UpstreamClosed(c) PROVE IInv' /\ IdsKept
  BY Zenon, FailUpInv DEF UpstreamClosed, timeoutVars, historyVars

\* conn_req_add gives the next req_id to the slot of that id when it is
\* free, and the connection is closed when it is not.
LEMMA RecvRequestInv ==
  ASSUME IInv, NEW c \in Conns, NEW prog \in Programs, RecvRequest(c, prog)
  PROVE  IInv' /\ IdsKept
<1> USE DEF IdsKept, timeoutVars, netVars, historyVars, workerVars
<1> DEFINE s == Slot(last_reqs)
<1>1. /\ pc = "poll" /\ up[c] = "open"
      /\ last_reqs < MaxIds /\ last_reqs' = last_reqs + 1
      /\ recvd' = [recvd EXCEPT ![c] = @ + 1]
      /\ UNCHANGED <<storage, link, infl, tq, top, armed, replied>>
      /\ reqs \in [Slots -> Request]
  BY Zenon DEF RecvRequest, IInv, TypeOK
<1>2. /\ last_reqs \in Ids /\ last_reqs # NONE /\ s \in Slots
      /\ last_reqs' \in 0 .. MaxIds /\ recvd' \in [Conns -> Nat]
      /\ recvd[c] \in Nat
  BY <1>1, IdFacts, NodeConstants DEF IInv, TypeOK
<1>3. Unused'
  BY <1>1, IdFacts, NodeConstants DEF IInv, Unused, TypeOK, Ids
<1>4. CASE Live(s)
  <2>1. reqs' = Forget(reqs, c) /\ CloseUp(c) /\ EnterErr(c)
    BY Zenon, <1>4 DEF RecvRequest, FailUp
  <2>2. Table'
    <3>1. \A t \in Slots : reqs'[t].req_id # NONE =>
            /\ reqs'[t].req_id = reqs[t].req_id
            /\ reqs'[t].conn_id = reqs[t].conn_id
            /\ replied'[reqs[t].req_id] = replied[reqs[t].req_id]
            /\ up'[reqs[t].conn_id] = up[reqs[t].conn_id]
      BY Zenon, <1>1, <2>1, ConnForgotten DEF IInv
    <3>2. \A t \in Slots : reqs[t].req_id # NONE => reqs[t].req_id \in Nat
      BY Zenon, IdFacts DEF IInv, TypeOK, Request
    <3>3. last_reqs \in Nat
      BY <1>2, IdFacts
    <3> QED
      <4> SUFFICES ASSUME NEW t \in Slots, reqs'[t].req_id # NONE
                   PROVE  /\ Slot(reqs'[t].req_id) = t
                          /\ reqs'[t].req_id < last_reqs'
                          /\ replied'[reqs'[t].req_id] = 0
                          /\ reqs'[t].conn_id \in Conns
                          /\ up'[reqs'[t].conn_id] = "open"
        BY DEF Table, Live, Slot
      <4>1. /\ reqs'[t].req_id = reqs[t].req_id
            /\ reqs'[t].conn_id = reqs[t].conn_id
            /\ Live(t)
        BY Zenon, <3>1 DEF Live
      <4>2. /\ Slot(reqs[t].req_id) = t
            /\ reqs[t].req_id < last_reqs
            /\ replied[reqs[t].req_id] = 0
            /\ reqs[t].conn_id \in Conns
            /\ up[reqs[t].conn_id] = "open"
        BY Zenon, <4>1 DEF IInv, Table
      <4>3. reqs[t].req_id < last_reqs + 1
        BY <3>2, <3>3, <4>1, <4>2 DEF Live
      <4> QED BY Zenon, <1>1, <3>1, <4>1, <4>2, <4>3
  <2>3. NodesMatchQueue'
    BY Zenon, <1>1, <2>1, ConnForgotten, QueueKept DEF IInv
  <2>4. /\ pc' = "err" /\ run' \in Call /\ run'.caller = "err"
        /\ scan' \subseteq Conns
    BY Zenon, <2>1, EnterErrFacts
  <2>5. TypeOK' /\ IdsKept
    BY Zenon, <1>1, <1>2, <2>1, <2>4, ConnForgotten DEF IInv, TypeOK
  <2>6. Worker'
    BY Zenon, <2>4 DEF Worker
  <2> QED BY Zenon, <1>1, <1>3, <2>2, <2>3, <2>5, <2>6
          DEF IInv, AtMostOneReply, Messages
<1>5. CASE ~Live(s)
  <2>1. /\ reqs' = [reqs EXCEPT ![s] =
                      [@ EXCEPT !.req_id = last_reqs, !.conn_id = c,
                                !.uid = recvd[c], !.msg = prog,
                                !.status = "SUCCESS",
                                !.fwd_replies_left = -1]]
        /\ pc' = "process"
        /\ run' = [slot |-> s, caller |-> "obtain", from |-> c]
        /\ UNCHANGED <<up, scan>>
    BY Zenon, <1>5 DEF RecvRequest, Process
  <2>2. /\ reqs' \in [Slots -> Request]
        /\ \A t \in Slots :
             /\ t # s => reqs'[t] = reqs[t]
             /\ reqs'[t].timeout_node = reqs[t].timeout_node
        /\ reqs'[s].req_id = last_reqs /\ reqs'[s].conn_id = c
    <3>1. PICK i \in Ids, u \in Nat, st \in Status, left \in Int :
            i = last_reqs /\ u = recvd[c] /\ st = "SUCCESS" /\ left = -1
      BY <1>2 DEF Status
    <3> DEFINE r == [reqs[s] EXCEPT !.req_id = i, !.conn_id = c, !.uid = u,
                                    !.msg = prog, !.status = st,
                                    !.fwd_replies_left = left]
    <3>2. reqs' = [reqs EXCEPT ![s] = r]
      BY <2>1, <3>1
    <3>3. reqs[s] \in Request
      BY <1>1, <1>2
    <3> HIDE DEF s
    <3>4. /\ r \in Request /\ r.req_id = last_reqs /\ r.conn_id = c
          /\ r.timeout_node = reqs[s].timeout_node
      BY Zenon, <3>1, <3>3 DEF Request
    <3> HIDE DEF r
    <3> QED BY Zenon, <1>1, <1>2, <3>2, <3>4
  <2>3. run' \in Call
    BY <1>2, <2>1 DEF Call, Callers
  <2>4. replied[last_reqs] = 0
    BY <1>2, IdFacts DEF IInv, Unused
  <2>5. Table'
    <3>1. \A t \in Slots : reqs[t].req_id # NONE => reqs[t].req_id \in Nat
      BY IdFacts DEF IInv, TypeOK, Request
    <3>2. ASSUME NEW t \in Slots, reqs'[t].req_id # NONE
          PROVE  /\ Slot(reqs'[t].req_id) = t
                 /\ reqs'[t].req_id < last_reqs + 1
                 /\ replied[reqs'[t].req_id] = 0
                 /\ reqs'[t].conn_id \in Conns
                 /\ up[reqs'[t].conn_id] = "open"
      <4>1. CASE t = s
        BY <1>1, <1>2, <2>2, <2>4, <4>1, IdFacts
      <4>2. CASE t # s
        <5>1. reqs'[t] = reqs[t] /\ last_reqs \in Nat
          BY ZenonT(30), <1>2, <2>2, <4>2, IdFacts
        <5> QED BY <3>1, <3>2, <5>1 DEF IInv, Table, Live
      <4> QED BY <4>1, <4>2
    <3> QED BY <1>1, <2>1, <3>2 DEF Table, Live, Slot
  <2>6. NodesMatchQueue'
    BY <1>1, <2>2, QueueKept DEF IInv
  <2>7. TypeOK' /\ Worker'
    BY <1>1, <1>2, <2>1, <2>2, <2>3 DEF IInv, TypeOK, Worker, Live
  <2> QED BY <1>1, <1>3, <2>2, <2>5, <2>6, <2>7
          DEF IInv, AtMostOneReply, Messages
<1> QED BY <1>4, <1>5

\* remove_timeout on a request in the table takes its own node.
LEMMA NodeOfAlive ==
  ASSUME NEW i \in Int, Alive(i)
  PROVE  Slot(i) \in Slots /\ NodeOf(i) = reqs[Slot(i)].timeout_node
  BY ZenonT(30), SlotInSlots DEF NodeOf

\* handle_forward_reply on the last answer removes the timeout and goes on.
LEMMA FinishForwardInv ==
  ASSUME IInv, NEW p \in Peers, NEW x, x.id \in Ids, NEW st \in Status,
         FinishForward(p, x, st), pc = "poll",
         UNCHANGED <<last_reqs, storage, up, recvd, link, replied>>,
         Messages'
  PROVE  IInv' /\ IdsKept
<1> USE DEF IdsKept
<1> DEFINE s == Slot(x.id)
<1>1. /\ x.id \in Int /\ Alive(x.id) /\ s \in Slots /\ reqs[s] \in Request
      /\ Live(s)
  BY IdFacts DEF FinishForward, Counts, Waits, Alive, Live, IInv, TypeOK
<1>2. /\ reqs' \in [Slots -> Request]
      /\ \A t \in Slots :
           /\ reqs'[t].req_id = reqs[t].req_id
           /\ reqs'[t].conn_id = reqs[t].conn_id
           /\ reqs'[t].timeout_node = IF t = s THEN NONE
                                      ELSE reqs[t].timeout_node
  <2>1. PICK left \in Int, zero \in Nat, no \in Ids \cup {NONE} :
               left = -1 /\ zero = 0 /\ no = NONE
    OBVIOUS
  <2> DEFINE r == [reqs[s] EXCEPT !.status = st, !.fwd_replies_left = left,
                                  !.fwd_timeout = zero, !.fwd_retries = zero,
                                  !.timeout_node = no]
  <2>2. reqs' = [reqs EXCEPT ![s] = r]
    BY <2>1 DEF FinishForward
  <2> HIDE DEF s
  <2>3. /\ r \in Request /\ r.req_id = reqs[s].req_id
        /\ r.conn_id = reqs[s].conn_id /\ r.timeout_node = NONE
    BY ZenonT(30), <1>1, <2>1 DEF Request
  <2> HIDE DEF r
  <2> QED BY <1>1, <2>2, <2>3 DEF IInv, TypeOK
<1>3. /\ RemoveNode(reqs[s].timeout_node)
      /\ pc' = "process" /\ scan' = scan
      /\ run' = [slot |-> s, caller |-> "reply", from |-> p]
  BY <1>1, NodeOfAlive DEF FinishForward, Process
<1>4. /\ NodesMatchQueue'
      /\ tq' \subseteq Ids /\ top' \in Ids \cup {NONE} /\ armed' \in BOOLEAN
  BY <1>1, <1>2, <1>3, NodeRemoved DEF IInv
<1>5. Table'
  BY <1>2, TableKept DEF IInv
<1>6. run' \in Call
  BY <1>1, <1>3 DEF Call, Callers
<1>7. TypeOK' /\ Worker'
  BY ZenonT(30), <1>1, <1>2, <1>3, <1>4, <1>6 DEF IInv, TypeOK, Worker, Live
<1> QED BY <1>2, <1>4, <1>5, <1>7 DEF IInv, AtMostOneReply, Unused

\* An answer of a peer is dropped, fails a check(), is counted or ends the
\* context: whichever it is, only a request in the table changes.
LEMMA ForwardReplyInv ==
  ASSUME IInv, NEW p \in Peers, NEW x \in infl[p], NEW st \in PeerStatus,
         ForwardReply(p, x, st)
  PROVE  IInv' /\ IdsKept
<1> USE DEF IdsKept, timeoutVars, netVars, historyVars, workerVars
<1> DEFINE s == Slot(x.id)
<1>1. /\ UNCHANGED <<last_reqs, storage, up, recvd, link, replied>>
      /\ pc = "poll" /\ infl' = [infl EXCEPT ![p] = @ \ {x}]
      /\ x.id \in Ids /\ st \in Status
  BY ZenonT(30), NodeConstants DEF ForwardReply, IInv, Messages
<1>2. Messages'
  <2>1. infl' = [q \in Peers |-> infl'[q]]
        /\ \A q \in Peers : infl'[q] \subseteq infl[q]
    BY Zenon, <1>1 DEF IInv, Messages
  <2> QED BY ZenonT(30), <1>1, <2>1 DEF IInv, Messages
<1>3. CASE IgnoreAnswer(p, x)
  BY ZenonT(30), <1>1, <1>2, <1>3 DEF IgnoreAnswer, IInv, TypeOK, AtMostOneReply, Table,
                          Unused, Worker, NodesMatchQueue, Live, Slot
<1>4. CASE ExitOnAnswer(x)
  BY Zenon, <1>1, <1>2, <1>4 DEF ExitOnAnswer, IInv, TypeOK, AtMostOneReply, Table,
                          Unused, Worker, NodesMatchQueue, Live, Slot
<1>5. CASE CountAnswer(p, x)
  <2>1. /\ UNCHANGED <<tq, top, armed, pc, run, scan>>
        /\ reqs' = [reqs EXCEPT ![s].fwd_replies_left = @ - 1]
        /\ s \in Slots /\ reqs[s] \in Request
    BY <1>1, <1>5, IdFacts DEF CountAnswer, IInv, TypeOK
  <2>2. /\ reqs' \in [Slots -> Request]
        /\ \A t \in Slots : /\ reqs'[t].req_id = reqs[t].req_id
                            /\ reqs'[t].conn_id = reqs[t].conn_id
                            /\ reqs'[t].timeout_node = reqs[t].timeout_node
    <3>1. PICK left \in Int : left = reqs[s].fwd_replies_left - 1
      BY <2>1 DEF Request
    <3> HIDE DEF s
    <3>2. reqs' = [reqs EXCEPT ![s].fwd_replies_left = left]
      BY <2>1, <3>1
    <3>3. s \in Slots /\ reqs \in [Slots -> Request]
      BY <2>1 DEF IInv, TypeOK
    <3> QED BY <3>2, <3>3, RepliesLeftSet
  <2>3. Table' /\ NodesMatchQueue'
    BY Zenon, <1>1, <2>1, <2>2, TableKept, QueueKept DEF IInv
  <2> QED BY Zenon, <1>1, <1>2, <2>1, <2>2, <2>3 DEF IInv, TypeOK, AtMostOneReply,
                                              Unused, Worker, Live
<1>6. CASE FinishForward(p, x, st)
  BY ZenonT(30), <1>1, <1>2, <1>6, FinishForwardInv
<1> QED BY Zenon, <1>3, <1>4, <1>5, <1>6 DEF ForwardReply

\* handle_timeout retries, skips or unlinks the request of the top node.
LEMMA TimeoutInv == ASSUME IInv, Timeout PROVE IInv' /\ IdsKept
<1> USE DEF IdsKept, timeoutVars, netVars, historyVars
<1> DEFINE s == Slot(top)
           r == reqs[s]
           unqueued == [reqs EXCEPT ![s].timeout_node = NONE]
<1>1. /\ UNCHANGED <<last_reqs, storage, up, recvd, link, infl, scan, replied>>
      /\ pc = "poll"
      /\ top \in Ids /\ top \in Int /\ s \in Slots /\ r \in Request
  <2>1. top \in Ids
    BY ZenonT(30) DEF Timeout, IInv, TypeOK, NodesMatchQueue
  <2> QED BY <2>1, IdFacts DEF Timeout, IInv, TypeOK
<1>2. CASE ~Alive(top)
  <2>1. armed' = FALSE /\ UNCHANGED <<reqs, tq, top, pc, run>>
    BY <1>2 DEF Timeout
  <2> QED BY Zenon, <1>1, <2>1 DEF IInv, TypeOK, AtMostOneReply, Table, Unused,
                            Worker, Messages, NodesMatchQueue, Live, Slot
<1>3. CASE Alive(top)
  <2>1. /\ RemoveNode(r.timeout_node)
        /\ \/ /\ r.fwd_retries > 0
              /\ reqs' = [unqueued EXCEPT ![s].fwd_retries = @ - 1]
              /\ Process(s, curr_cmd[s], "timeout", NoConn)
           \/ /\ reqs' = [unqueued EXCEPT ![s].status = "TIMEOUT"]
              /\ Process(s, BoundedSkip(r.msg, curr_cmd[s],
                                        r.fwd_on_fail_skip),
                         "timeout", NoConn)
           \/ /\ reqs' = [unqueued EXCEPT ![s] = Unlinked(@)]
              /\ UNCHANGED <<pc, run>>
    BY <1>1, <1>3, NodeOfAlive DEF Timeout, RetriesLeft
  <2>2. /\ unqueued \in [Slots -> Request]
        /\ unqueued[s].req_id # NONE
        /\ \A t \in Slots :
             /\ unqueued[t].req_id = reqs[t].req_id
             /\ unqueued[t].conn_id = reqs[t].conn_id
             /\ unqueued[t].timeout_node = IF t = s THEN NONE
                                           ELSE reqs[t].timeout_node
        /\ unqueued[s].fwd_retries = r.fwd_retries
    BY Zenon, <1>1, <1>3, IdFacts DEF IInv, TypeOK, Request, Alive
  <2> HIDE DEF unqueued
  <2>3. /\ reqs' \in [Slots -> Request]
        /\ \A t \in Slots :
             /\ reqs'[t].timeout_node = unqueued[t].timeout_node
             /\ reqs'[t].req_id # NONE =>
                  /\ reqs'[t].req_id = unqueued[t].req_id
                  /\ reqs'[t].conn_id = unqueued[t].conn_id
        /\ \/ UNCHANGED <<pc, run>>
           \/ /\ reqs'[s].req_id # NONE /\ pc' = "process"
              /\ run' = [slot |-> s, caller |-> "timeout", from |-> NoConn]
    <3>1. CASE /\ r.fwd_retries > 0
               /\ reqs' = [unqueued EXCEPT ![s].fwd_retries = @ - 1]
               /\ Process(s, curr_cmd[s], "timeout", NoConn)
      <4>1. r.fwd_retries - 1 \in Nat
        BY <1>1, <3>1 DEF Request
      <4> HIDE DEF s
      <4> QED BY Zenon, <1>1, <2>2, <3>1, <4>1 DEF Process, Request
    <3>2. CASE /\ reqs' = [unqueued EXCEPT ![s].status = "TIMEOUT"]
               /\ Process(s, BoundedSkip(r.msg, curr_cmd[s],
                                         r.fwd_on_fail_skip),
                          "timeout", NoConn)
      <4>1. PICK st \in Status : st = "TIMEOUT"
        BY DEF Status
      <4> HIDE DEF s
      <4>2. reqs' = [unqueued EXCEPT ![s].status = st]
        BY <3>2, <4>1
      <4>3. /\ pc' = "process"
            /\ run' = [slot |-> s, caller |-> "timeout", from |-> NoConn]
        BY <3>2 DEF Process
      <4>4. /\ reqs' \in [Slots -> Request]
            /\ \A t \in Slots :
                 /\ reqs'[t].timeout_node = unqueued[t].timeout_node
                 /\ reqs'[t].req_id = unqueued[t].req_id
                 /\ reqs'[t].conn_id = unqueued[t].conn_id
        BY <1>1, <2>2, <4>2, StatusSet
      <4> QED BY <1>1, <2>2, <4>3, <4>4
    <3>3. CASE /\ reqs' = [unqueued EXCEPT ![s] = Unlinked(@)]
               /\ UNCHANGED <<pc, run>>
      BY <1>1, <2>2, <3>3, UnlinkedType
    <3> QED BY <2>1, <3>1, <3>2, <3>3
  <2>4. /\ NodesMatchQueue'
        /\ tq' \subseteq Ids /\ top' \in Ids \cup {NONE} /\ armed' \in BOOLEAN
    BY <1>1, <2>1, <2>2, <2>3, NodeRemoved DEF IInv
  <2>5. Table'
    BY <1>1, <2>2, <2>3, TableKept DEF IInv
  <2>6. [slot |-> s, caller |-> "timeout", from |-> NoConn] \in Call
    BY ZenonT(30), <1>1 DEF Call, Callers
  <2>7. TypeOK'
    <3>1. /\ pc' \in {"poll", "process", "forward", "fail", "err", "exited"}
          /\ run' \in Call
      BY Zenon, <1>1, <2>3, <2>6 DEF IInv, TypeOK
    <3> QED BY ZenonT(30), <1>1, <2>3, <2>4, <3>1 DEF IInv, TypeOK
  <2>8. Worker'
    <3>1. CASE UNCHANGED <<pc, run>>
      BY <1>1, <3>1 DEF IInv, Worker
    <3>2. CASE /\ reqs'[s].req_id # NONE
               /\ run' = [slot |-> s, caller |-> "timeout", from |-> NoConn]
      <4> HIDE DEF s
      <4> QED BY Zenon, <3>2 DEF Worker, Live
    <3> QED BY <2>3, <3>1, <3>2
  <2>9. IdsKept
    BY Zenon, <2>2, <2>3
  <2> QED BY <1>1, <2>4, <2>5, <2>7, <2>8, <2>9
          DEF IInv, AtMostOneReply, Unused, Messages
<1> QED BY <1>2, <1>3

\* An acknowledgement of a storage thread resumes a request in the table.
LEMMA StorageAckInv == ASSUME IInv, NEW x \in storage, StorageAck(x) PROVE IInv' /\ IdsKept
<1> USE DEF IdsKept, timeoutVars, netVars, historyVars
<1>1. /\ UNCHANGED <<reqs, last_reqs, up, recvd, link, infl, tq, top, armed,
                     scan, replied>>
      /\ pc = "poll" /\ storage' = storage \ {x}
      /\ x.id \in Ids /\ Slot(x.id) \in Slots
  BY Zenon, IdFacts DEF StorageAck, IInv, Messages
<1>2. \/ UNCHANGED <<pc, run>>
      \/ /\ reqs[Slot(x.id)].req_id # NONE /\ pc' = "process"
         /\ run' = [slot |-> Slot(x.id), caller |-> "storage",
                    from |-> NoConn]
  BY Zenon, <1>1, IdFacts DEF StorageAck, Process, Alive
<1>3. [slot |-> Slot(x.id), caller |-> "storage", from |-> NoConn] \in Call
  BY Zenon, <1>1 DEF Call, Callers
<1>4. TypeOK'
  <2>1. /\ pc' \in {"poll", "process", "forward", "fail", "err", "exited"}
        /\ run' \in Call
    BY Zenon, <1>1, <1>2, <1>3 DEF IInv, TypeOK
  <2> QED BY Zenon, <1>1, <2>1 DEF IInv, TypeOK
<1>5. Worker'
  <2>1. CASE UNCHANGED <<pc, run>>
    BY Zenon, <1>1, <2>1 DEF IInv, Worker
  <2>2. CASE /\ reqs[Slot(x.id)].req_id # NONE
             /\ run' = [slot |-> Slot(x.id), caller |-> "storage",
                        from |-> NoConn]
    BY Zenon, <1>1, <2>2 DEF Worker, Live
  <2> QED BY Zenon, <1>2, <2>1, <2>2
<1> QED BY Zenon, <1>1, <1>4, <1>5 DEF IInv, AtMostOneReply, Table, Unused, Messages,
                                NodesMatchQueue, Live, Slot

\* establish_conn changes no request.
LEMMA EstablishedInv ==
  ASSUME IInv, NEW p \in Peers, Established(p) PROVE IInv' /\ IdsKept
  BY DEF IdsKept, Established, IInv, TypeOK, AtMostOneReply, Table, Unused, Worker,
         Messages, NodesMatchQueue, Live, Slot, timeoutVars, historyVars,
         workerVars
-----------------------------------------------------------------------------
(***************************************************************************)
(* The error path.                                                         *)
(***************************************************************************)
\* close_and_forget on a peer keeps the types, and starts the scan.
LEMMA FailLinkFacts ==
  ASSUME IInv, NEW p \in Conns \cup Peers \cup {NoConn}, FailLink(p),
         UNCHANGED storage
  PROVE  /\ link' \in [Peers -> {"none", "connecting", "ready", "closing"}]
         /\ Messages'
         /\ pc' = "err" /\ run' \in Call /\ run'.caller = "err"
         /\ scan' \subseteq Conns
<1>1. /\ link' = [link EXCEPT ![p] = "none"]
      /\ infl' = [infl EXCEPT ![p] = {}]
  BY Zenon DEF FailLink, CloseLink
<1>2. link' \in [Peers -> {"none", "connecting", "ready", "closing"}]
  BY Zenon, <1>1 DEF IInv, TypeOK
<1>3. Messages'
  BY Zenon, <1>1 DEF IInv, Messages
<1> QED BY Zenon, <1>2, <1>3, EnterErrFacts DEF FailLink

\* The failure of a peer changes no request before the scan.
LEMMA LinkErrorInv == ASSUME IInv, NEW p \in Peers, LinkError(p) PROVE IInv' /\ IdsKept
<1> USE DEF IdsKept, timeoutVars, historyVars
<1>1. /\ UNCHANGED <<reqs, last_reqs, storage, up, recvd, tq, top, armed,
                     replied>>
      /\ FailLink(p)
  BY Zenon DEF LinkError
<1>2. TypeOK' /\ Worker' /\ Messages'
  BY Zenon, <1>1, FailLinkFacts DEF IInv, TypeOK, Worker
<1> QED BY <1>1, <1>2 DEF IInv, AtMostOneReply, Table, Unused,
                          NodesMatchQueue, Live, Slot

\* obtain_messages failed: the connection it read from is closed.
LEMMA FailConnInv == ASSUME IInv, FailConn PROVE IInv' /\ IdsKept
<1> USE DEF IdsKept, timeoutVars, historyVars
<1>1. /\ UNCHANGED <<last_reqs, storage, recvd, tq, top, armed, replied>>
      /\ pc = "fail" /\ reqs \in [Slots -> Request]
  BY Zenon DEF FailConn, IInv, TypeOK
<1>2. CASE /\ run.caller = "obtain" /\ up[run.from] = "open"
           /\ FailUp(run.from) /\ UNCHANGED <<link, infl>>
  <2>1. run.from \in Conns
    BY Zenon, <1>2 DEF IInv, Worker
  <2> QED BY Zenon, <1>1, <1>2, <2>1, FailUpInv
<1>3. CASE pc' = "exited" /\ UNCHANGED <<reqs, up, link, infl, run, scan>>
  BY Zenon, <1>1, <1>3 DEF IInv, TypeOK, AtMostOneReply, Table, Unused, Worker,
                    Messages, NodesMatchQueue, Live, Slot
<1>4. CASE /\ run.caller = "reply" /\ FailLink(run.from)
           /\ UNCHANGED <<reqs, up>>
  <2>1. run.from \in Conns \cup Peers \cup {NoConn}
    BY Zenon DEF IInv, TypeOK, Call
  <2>2. TypeOK' /\ Worker' /\ Messages'
    BY Zenon, <1>1, <1>4, <2>1, FailLinkFacts DEF IInv, TypeOK, Worker
  <2> QED BY Zenon, <1>1, <1>4, <2>2 DEF IInv, AtMostOneReply, Table, Unused,
                                  NodesMatchQueue, Live, Slot
<1> QED BY Zenon, <1>2, <1>3, <1>4 DEF FailConn

\* A turn of the scan that fails no request.
LEMMA ErrSkipInv == ASSUME IInv, NEW c \in Conns, ErrSkip(c) PROVE IInv' /\ IdsKept
  BY Zenon DEF IdsKept, ErrSkip, IInv, TypeOK, AtMostOneReply, Table, Unused, Worker,
         Messages, NodesMatchQueue, Live, Slot, timeoutVars, historyVars,
         netVars

\* A NULL cursor ends the process, and the table with it.
LEMMA ErrCrashInv ==
  ASSUME IInv, NEW c \in Conns, ErrCrash(c) PROVE IInv' /\ IdsKept
  BY Zenon DEF IdsKept, ErrCrash, IInv, TypeOK, AtMostOneReply, Table, Unused,
         Worker, Messages, NodesMatchQueue, Live, Slot, timeoutVars,
         historyVars, netVars

\* The end of the scan.
LEMMA ErrDoneInv == ASSUME IInv, ErrDone PROVE IInv' /\ IdsKept
  BY Zenon, IdleType DEF IdsKept, ErrDone, IInv, TypeOK, AtMostOneReply, Table, Unused,
         Worker, Messages, NodesMatchQueue, Live, Slot, timeoutVars,
         historyVars, netVars

\* A turn of the scan fails one request, or closes its connection; the
\* node it removes is that of whichever request has the req_id of the
\* client's message.
LEMMA ErrFailInv ==
  ASSUME IInv, NEW c \in Conns, NEW s \in Slots, ErrFail(c, s) PROVE IInv' /\ IdsKept
<1> USE DEF IdsKept, historyVars
<1> DEFINE to == MatchingReply(Msg(s), curr_cmd[s])
           uid == reqs[s].uid
           u == Slot(uid)
           unqueued == [reqs EXCEPT ![u].timeout_node =
                                      IF Alive(uid) THEN NONE ELSE @]
<1>1. /\ UNCHANGED <<last_reqs, storage, recvd, link, infl, replied>>
      /\ pc = "err" /\ scan' = scan \ {c} /\ Live(s)
      /\ RemoveNode(NodeOf(uid))
      /\ reqs \in [Slots -> Request] /\ uid \in Int /\ u \in Slots
  BY SlotInSlots DEF ErrFail, WaitingOn, Newest, IInv, TypeOK, Request
<1>2. /\ unqueued \in [Slots -> Request]
      /\ \A t \in Slots :
           /\ unqueued[t].req_id = reqs[t].req_id
           /\ unqueued[t].conn_id = reqs[t].conn_id
           /\ unqueued[t].timeout_node = IF t = u /\ Alive(uid) THEN NONE
                                         ELSE reqs[t].timeout_node
  <2>1. PICK n \in Ids \cup {NONE} :
          n = IF Alive(uid) THEN NONE ELSE reqs[u].timeout_node
    BY <1>1 DEF Request
  <2>2. unqueued = [reqs EXCEPT ![u].timeout_node = n]
    BY <2>1
  <2> HIDE DEF u, unqueued
  <2>3. /\ unqueued \in [Slots -> Request]
        /\ \A t \in Slots :
             /\ unqueued[t].req_id = reqs[t].req_id
             /\ unqueued[t].conn_id = reqs[t].conn_id
             /\ unqueued[t].timeout_node = IF t = u THEN n
                                           ELSE reqs[t].timeout_node
    BY <1>1, <2>2, TimeoutNodeSet
  <2> QED BY Zenon, <2>1, <2>3
<1>3. \/ /\ reqs' = [unqueued EXCEPT ![s].status = "ERR"]
         /\ pc' = "process" /\ up' = up
         /\ run' = [slot |-> s, caller |-> "err", from |-> run.from]
      \/ /\ reqs' = Forget(unqueued, c) /\ CloseUp(c)
         /\ UNCHANGED <<pc, run>>
  BY DEF ErrFail, Process
<1> HIDE DEF unqueued
<1>4. /\ reqs' \in [Slots -> Request]
      /\ up' \in [Conns -> {"new", "open", "closed"}]
      /\ \A t \in Slots :
           /\ reqs'[t].timeout_node = unqueued[t].timeout_node
           /\ reqs'[t].req_id # NONE =>
                /\ reqs'[t].req_id = reqs[t].req_id
                /\ reqs'[t].conn_id = reqs[t].conn_id
                /\ replied'[reqs[t].req_id] = replied[reqs[t].req_id]
                /\ up'[reqs[t].conn_id] = up[reqs[t].conn_id]
      /\ \/ UNCHANGED <<pc, run>>
         \/ /\ reqs'[s].req_id # NONE /\ pc' = "process"
            /\ run' = [slot |-> s, caller |-> "err", from |-> run.from]
  <2>1. CASE /\ reqs' = [unqueued EXCEPT ![s].status = "ERR"]
             /\ pc' = "process" /\ up' = up
             /\ run' = [slot |-> s, caller |-> "err", from |-> run.from]
    <3>1. PICK st \in Status : st = "ERR"
      BY DEF Status
    <3>2. reqs' = [unqueued EXCEPT ![s].status = st]
      BY <2>1, <3>1
    <3>3. /\ reqs' \in [Slots -> Request]
          /\ \A t \in Slots :
               /\ reqs'[t].timeout_node = unqueued[t].timeout_node
               /\ reqs'[t].req_id = unqueued[t].req_id
               /\ reqs'[t].conn_id = unqueued[t].conn_id
      <4>1. unqueued \in [Slots -> Request]
        BY ZenonT(30), <1>2
      <4> QED BY <3>2, <4>1, StatusSet
    <3> QED BY <1>1, <1>2, <2>1, <3>3 DEF IInv, TypeOK, Live
  <2>2. CASE /\ reqs' = Forget(unqueued, c) /\ CloseUp(c)
             /\ UNCHANGED <<pc, run>>
    BY Zenon, <1>1, <1>2, <2>2, ConnForgotten
  <2> QED BY <1>3, <2>1, <2>2
<1>5. /\ NodesMatchQueue'
      /\ tq' \subseteq Ids /\ top' \in Ids \cup {NONE} /\ armed' \in BOOLEAN
  <2>1. CASE Alive(uid)
    <3>1. RemoveNode(reqs[u].timeout_node)
      BY Zenon, <1>1, <2>1, NodeOfAlive
    <3>2. \A t \in Slots : reqs'[t].timeout_node =
                             IF t = u THEN NONE ELSE reqs[t].timeout_node
      BY ZenonT(30), <1>2, <1>4, <2>1
    <3> HIDE DEF u, uid
    <3> QED BY Zenon, <1>1, <3>1, <3>2, NodeRemoved DEF IInv
  <2>2. CASE ~Alive(uid)
    <3>1. UNCHANGED timeoutVars
      BY ZenonT(30), <1>1, <2>2 DEF NodeOf, RemoveNode
    <3>2. \A t \in Slots : reqs'[t].timeout_node = reqs[t].timeout_node
      BY Zenon, <1>2, <1>4, <2>2
    <3> QED BY ZenonT(30), <3>1, <3>2, QueueKept DEF IInv, TypeOK, timeoutVars
  <2> QED BY ZenonT(30), <2>1, <2>2
<1>6. Table'
  BY ZenonT(30), <1>1, <1>4, TableKept DEF IInv
<1>7. run' \in Call
  <2>1. run \in Call
    BY DEF IInv, TypeOK
  <2>2. [slot |-> s, caller |-> "err", from |-> run.from] \in Call
    BY ZenonT(30), <2>1 DEF Call, Callers
  <2> QED BY ZenonT(30), <1>4, <2>1, <2>2
<1>8. TypeOK'
  <2>1. pc' \in {"poll", "process", "forward", "fail", "err", "exited"}
    BY ZenonT(30), <1>1, <1>4
  <2> QED BY ZenonT(30), <1>1, <1>4, <1>5, <1>7, <2>1 DEF IInv, TypeOK
<1>9. Worker'
  <2>1. CASE UNCHANGED <<pc, run>>
    BY ZenonT(30), <1>1, <2>1 DEF IInv, Worker
  <2>2. CASE /\ reqs'[s].req_id # NONE
             /\ run' = [slot |-> s, caller |-> "err", from |-> run.from]
    BY <2>2 DEF Worker, Live
  <2> QED BY ZenonT(30), <1>4, <2>1, <2>2
<1> QED BY Zenon, <1>1, <1>4, <1>5, <1>6, <1>8, <1>9 DEF IInv, AtMostOneReply, Unused, Messages
-----------------------------------------------------------------------------
(***************************************************************************)
(* The invariant is inductive.                                             *)
(***************************************************************************)
\* dw_node starts with an empty table and an empty queue.
LEMMA InitInv == Init => IInv
<1> SUFFICES ASSUME Init PROVE IInv
  OBVIOUS
<1>1. reqs \in [Slots -> Request] /\ \A s \in Slots : reqs[s] = FreeReq
  BY ZenonT(30), FreeReqType DEF Init
<1>2. TypeOK
  <2>1. /\ up \in [Conns -> {"new", "open", "closed"}]
        /\ recvd \in [Conns -> Nat]
        /\ link \in [Peers -> {"none", "connecting", "ready", "closing"}]
        /\ replied \in [Ids -> Nat]
    BY DEF Init
  <2>2. /\ last_reqs \in 0 .. MaxIds
        /\ tq \subseteq Ids /\ top \in Ids \cup {NONE} /\ armed \in BOOLEAN
        /\ pc = "poll" /\ run \in Call /\ scan \subseteq Conns
    <3>1. 0 \in 0 .. MaxIds
      BY NodeConstants
    <3>2. last_reqs = 0 /\ tq = {} /\ top = NONE /\ armed = FALSE
      BY DEF Init
    <3>3. pc = "poll" /\ run = Idle /\ scan = {}
      BY DEF Init
    <3> QED BY Zenon, <3>1, <3>2, <3>3, IdleType
  <2> QED BY ZenonT(30), <1>1, <2>1, <2>2 DEF TypeOK
<1>3. Table /\ NodesMatchQueue
  BY <1>1 DEF Init, Table, NodesMatchQueue, Live, FreeReq
<1>4. Worker /\ Messages
  BY Zenon, IdleType DEF Init, Worker, Messages
<1> QED BY <1>2, <1>3, <1>4 DEF Init, IInv, AtMostOneReply, Unused

\* Every step of the worker keeps the invariant, and brings at most the next
\* req_id into the table.
LEMMA NextInv == IInv /\ [Next]_vars => IInv' /\ IdsKept
<1> SUFFICES ASSUME IInv, [Next]_vars PROVE IInv' /\ IdsKept
  OBVIOUS
<1>1. CASE WorkerStep
  BY <1>1, SkipCommandInv, StorageCommandInv, StorageFailsInv, StartForwardInv, SkipBranchInv,
     SendBranchInv, SendBranchFailsInv, ReplyCommandInv, EndOfCommandsInv,
     FailConnInv, ErrDoneInv, ErrSkipInv, ErrCrashInv,
     ErrFailInv DEF WorkerStep
<1>2. ASSUME NEW c \in Conns,
             \/ Accept(c) \/ UpstreamClosed(c)
             \/ \E prog \in Programs : RecvRequest(c, prog)
      PROVE  IInv' /\ IdsKept
  BY Zenon, <1>2, AcceptInv, UpstreamClosedInv, RecvRequestInv
<1>3. ASSUME NEW p \in Peers,
             \/ Established(p) \/ LinkError(p)
             \/ \E x \in infl[p], st \in PeerStatus : ForwardReply(p, x, st)
      PROVE  IInv' /\ IdsKept
  BY <1>3, EstablishedInv, LinkErrorInv, ForwardReplyInv
<1>4. CASE Timeout
  BY <1>4, TimeoutInv
<1>5. CASE \E x \in storage : StorageAck(x)
  BY Zenon, <1>5, StorageAckInv
<1>6. CASE UNCHANGED vars
  BY <1>6 DEF IdsKept, vars, workerVars, timeoutVars, netVars, historyVars, IInv,
              TypeOK, AtMostOneReply, Table, Unused, Worker, Messages,
              NodesMatchQueue, Live, Slot
<1> QED BY <1>1, <1>2, <1>3, <1>4, <1>5, <1>6 DEF Next

\* The table, the queue, the worker and the messages stay consistent, for
\* every number of slots, connections, peers and programs and every fault.
THEOREM Inductive == Spec => []IInv
  BY InitInv, NextInv, PTL DEF Spec

\* Every variable of the engine keeps its type.
THEOREM TypeCorrect == Spec => []TypeOK
<1>1. IInv => TypeOK
  BY DEF IInv
<1> QED BY <1>1, Inductive, PTL

\* reply() is reached at most once for every req_id, whatever answers,
\* timeouts, retries and errors come in between.
THEOREM RepliesOnce == Spec => []AtMostOneReply
<1>1. IInv => AtMostOneReply
  BY Zenon DEF IInv
<1> QED BY <1>1, Inductive, PTL

\* A request in the table belongs to an open connection: close_and_forget
\* never leaves one behind.
THEOREM RequestsOnOpenConns == Spec => []LiveOnOpenConn
<1>1. IInv => LiveOnOpenConn
  BY DEF IInv, Table, LiveOnOpenConn
<1> QED BY <1>1, Inductive, PTL

\* The nodes in the timeout queue are the ones the slots point to, one for
\* each, although req_unlink leaves them there (insert_timeout,
\* remove_timeout).
THEOREM QueueMatchesTable == Spec => []NodesMatchQueue
<1>1. IInv => NodesMatchQueue
  BY DEF IInv
<1> QED BY <1>1, Inductive, PTL

-----------------------------------------------------------------------------
(***************************************************************************)
(* When the timer is off.  The node at the top stays that of a request     *)
(* that is gone because its req_id was handed out and is never used again. *)
(***************************************************************************)
Queued == \A i \in tq : i < last_reqs

\* What a step does to the queue and the timer.
QueueStep ==
  \/ UNCHANGED timeoutVars
  \/ \E n : RemoveNode(n)
  \/ \E s \in Slots : Live(s) /\ InsertTimeout(s)
  \/ ~Alive(top) /\ UNCHANGED <<reqs, tq, top>>

\* The handlers that insert or remove timeouts, and those that do not.
LEMMA NextQueue ==
  ASSUME IInv, [Next]_vars
  PROVE  QueueStep /\ last_reqs' \in {last_reqs, last_reqs + 1}
<1>1. CASE SendBranch
  <2>1. /\ last_reqs' = last_reqs /\ run.slot \in Slots /\ Live(run.slot)
        /\ InsertTimeout(run.slot) \/ UNCHANGED timeoutVars
    BY Zenon, <1>1 DEF SendBranch, IInv, TypeOK, Worker, Call
  <2> QED BY Zenon, <2>1 DEF QueueStep
<1>2. CASE Timeout
  BY Zenon, <1>2 DEF Timeout, QueueStep
<1>3. CASE \E p \in Peers : \E x \in infl[p], st \in PeerStatus : ForwardReply(p, x, st)
  BY Zenon, <1>3 DEF ForwardReply, IgnoreAnswer, ExitOnAnswer, CountAnswer,
                     FinishForward, QueueStep
<1>4. CASE \E c \in Conns : \E s \in Slots : ErrFail(c, s)
  BY Zenon, <1>4 DEF ErrFail, QueueStep
<1>5. CASE \E c \in Conns : \E prog \in Programs : RecvRequest(c, prog)
  BY Zenon, <1>5 DEF RecvRequest, QueueStep
<1>6. CASE \/ SkipCommand \/ StorageCommand \/ StorageFails \/ StartForward
           \/ SkipBranch \/ SendBranchFails \/ ReplyCommand \/ EndOfCommands
           \/ FailConn \/ ErrDone
           \/ \E c \in Conns : ErrSkip(c) \/ ErrCrash(c) \/ Accept(c) \/ UpstreamClosed(c)
           \/ \E p \in Peers : Established(p) \/ LinkError(p)
           \/ \E x \in storage : StorageAck(x)
           \/ UNCHANGED vars
  <2>1. UNCHANGED timeoutVars /\ last_reqs' = last_reqs
    BY Zenon, <1>6 DEF SkipCommand, StorageCommand, StorageFails, StartForward, SkipBranch,
         SendBranchFails, ReplyCommand, EndOfCommands, FailConn, ErrDone, ErrSkip,
         ErrCrash, Accept, UpstreamClosed, Established, LinkError, StorageAck, vars
  <2> QED BY Zenon, <2>1 DEF QueueStep
<1> QED BY Zenon, <1>1, <1>2, <1>3, <1>4, <1>5, <1>6 DEF Next, WorkerStep

\* A req_id that left the table does not come back (req_get_by_id).
LEMMA DeadStaysDead ==
  ASSUME IInv, IdsKept, NEW i \in Ids, i < last_reqs, ~Alive(i)
  PROVE  ~Alive(i)'
<1>1. Slot(i) \in Slots /\ i # NONE /\ i \in Nat /\ last_reqs \in Nat
  <2>1. last_reqs \in 0 .. MaxIds /\ MaxIds \in Nat
    BY NodeConstants DEF IInv, TypeOK
  <2>2. last_reqs \in Nat
    BY <2>1
  <2> QED BY Zenon, <2>2, IdFacts
<1>2. reqs'[Slot(i)].req_id \in {NONE, reqs[Slot(i)].req_id, last_reqs}
  BY Zenon, <1>1 DEF IdsKept
<1>3. reqs[Slot(i)].req_id # i
  BY Zenon DEF Alive
<1>4. i # last_reqs
  BY <1>1
<1>5. reqs'[Slot(i)].req_id # i
  BY Zenon, <1>1, <1>2, <1>3, <1>4
<1> QED BY Zenon, <1>5 DEF Alive, Slot

\* Every step keeps the timer on, or the request of the top gone.
LEMMA TimerStep ==
  IInv /\ Queued /\ TimerOffOverDeadTop /\ [Next]_vars => (Queued /\ TimerOffOverDeadTop)'
<1> SUFFICES ASSUME IInv, Queued, TimerOffOverDeadTop, [Next]_vars
             PROVE  Queued' /\ TimerOffOverDeadTop'
  OBVIOUS
<1> USE DEF timeoutVars
<1>1. IInv' /\ IdsKept /\ QueueStep /\ last_reqs' \in {last_reqs, last_reqs + 1}
  BY Zenon, NextInv, NextQueue
<1>2. /\ tq \subseteq Ids /\ \A i \in Ids : i \in Nat
      /\ last_reqs \in Nat
      /\ \A i \in Nat : i < last_reqs => i < last_reqs'
  <2>1. last_reqs \in 0 .. MaxIds /\ MaxIds \in Nat /\ tq \subseteq Ids
    BY NodeConstants DEF IInv, TypeOK
  <2>2. last_reqs \in Nat
    BY <2>1
  <2>3. \A i \in Nat : i < last_reqs => i < last_reqs'
    BY <1>1, <2>2
  <2> QED BY Zenon, <2>1, <2>2, <2>3, IdFacts
<1>3. ASSUME tq' \subseteq tq PROVE Queued'
  BY Zenon, <1>2, <1>3 DEF Queued
<1>4. ASSUME UNCHANGED <<top, armed>>, tq' # {} => tq # {} PROVE TimerOffOverDeadTop'
  <2> SUFFICES ASSUME "tie" \notin Faults, tq # {}, ~armed, ~Alive(top)
               PROVE  ~Alive(top)'
    BY Zenon, <1>4 DEF TimerOffOverDeadTop
  <2>1. top \in Ids /\ top < last_reqs
    BY Zenon, <1>2 DEF IInv, NodesMatchQueue, Queued
  <2>2. \A i \in Ids : i = top => ~Alive(i)'
    BY Zenon, <1>1, <2>1, DeadStaysDead
  <2> QED BY Zenon, <1>4, <2>1, <2>2 DEF Alive, Slot
<1>5. CASE UNCHANGED timeoutVars
  BY Zenon, <1>3, <1>4, <1>5
<1>6. ASSUME NEW n, RemoveNode(n) PROVE Queued' /\ TimerOffOverDeadTop'
  <2>1. tq' \subseteq tq
    BY Zenon, <1>6 DEF RemoveNode
  <2>2. CASE n # NONE /\ n = top
    <3>1. armed' \in Rearmed(tq')
      BY Zenon, <1>6, <2>2 DEF RemoveNode
    <3>2. "tie" \notin Faults /\ tq' # {} => armed'
      BY Zenon, <3>1 DEF Rearmed
    <3> QED BY Zenon, <1>3, <2>1, <3>2 DEF TimerOffOverDeadTop
  <2>3. CASE n = NONE \/ n # top
    <3>1. UNCHANGED <<top, armed>>
      BY Zenon, <1>6, <2>3 DEF RemoveNode
    <3> QED BY Zenon, <1>3, <1>4, <2>1, <3>1
  <2> QED BY <2>2, <2>3
<1>7. ASSUME NEW s \in Slots, Live(s), InsertTimeout(s) PROVE Queued' /\ TimerOffOverDeadTop'
  <2>1. CASE reqs[s].timeout_node # NONE
    BY Zenon, <1>5, <1>7, <2>1 DEF InsertTimeout
  <2>2. CASE reqs[s].timeout_node = NONE
    <3> DEFINE id == reqs[s].req_id
    <3>1. /\ tq' = tq \cup {id}
          /\ \/ armed' = TRUE
             \/ tq # {} /\ UNCHANGED <<top, armed>>
      BY Zenon, <1>7, <2>2 DEF InsertTimeout
    <3>2. id < last_reqs /\ id \in Nat
      <4>1. id < last_reqs /\ id # NONE /\ id \in Ids \cup {NONE}
        BY Zenon, <1>7 DEF IInv, TypeOK, Request, Table, Live
      <4> QED BY Zenon, <4>1, <1>2
    <3> HIDE DEF id
    <3>3. Queued'
      BY Zenon, <1>2, <3>1, <3>2 DEF Queued
    <3>4. TimerOffOverDeadTop'
      BY Zenon, <1>4, <3>1 DEF TimerOffOverDeadTop
    <3> QED BY <3>3, <3>4
  <2> QED BY <2>1, <2>2
<1>8. CASE ~Alive(top) /\ UNCHANGED <<reqs, tq, top>>
  BY Zenon, <1>3, <1>8 DEF TimerOffOverDeadTop, Alive, Slot
<1> QED BY Zenon, <1>1, <1>5, <1>6, <1>7, <1>8 DEF QueueStep

\* The timerfd is off while timeouts wait in the queue only after
\* handle_timeout found the top of the queue to be that of a request that is
\* gone (insert_timeout, remove_timeout, handle_timeout), for any number of
\* requests and slots and any faults but equal expiry times.
THEOREM TimerOffHolds == Spec => []TimerOffOverDeadTop
<1>1. Init => IInv /\ Queued /\ TimerOffOverDeadTop
  BY Zenon, InitInv DEF Init, Queued, TimerOffOverDeadTop
<1>2. (IInv /\ Queued /\ TimerOffOverDeadTop) /\ [Next]_vars
        => (IInv /\ Queued /\ TimerOffOverDeadTop)'
  BY NextInv, TimerStep
<1> QED BY <1>1, <1>2, PTL DEF Spec
-----------------------------------------------------------------------------
(***************************************************************************)
(* NodeForward implements AbsEngine.  Most handlers rewrite fields of a    *)
(* request that AbsEngine does not know of: they are stuttering steps.     *)
(* The others free one request (reply(), handle_timeout), free those of a  *)
(* connection (conn_reset) or take a free slot (conn_req_add).  That       *)
(* freeing a slot takes one request and no other out of Open rests on      *)
(* IInv: requests in different slots have different req_ids.               *)
(***************************************************************************)
\* Every slot has the request it had, of the connection it had.
SameRequests == \A s \in Slots : /\ reqs'[s].req_id = reqs[s].req_id
                                 /\ reqs'[s].conn_id = reqs[s].conn_id

\* The request of slot s leaves the table, and no other does.
FreesSlot(s) == /\ reqs'[s].req_id = NONE
                /\ \A t \in Slots \ {s} : /\ reqs'[t].req_id = reqs[t].req_id
                                          /\ reqs'[t].conn_id = reqs[t].conn_id

\* The requests of connection c leave the table, and no others do.
FreesConn(c) ==
  \A s \in Slots :
    IF Live(s) /\ reqs[s].conn_id = c THEN reqs'[s].req_id = NONE
    ELSE /\ reqs'[s].req_id = reqs[s].req_id
         /\ Live(s) => reqs'[s].conn_id = reqs[s].conn_id

\* A step AbsEngine allows.
EngineStep == [Engine!Next]_(Engine!vars)
-----------------------------------------------------------------------------
\* A handler that frees and adds no request does nothing a client sees.
LEMMA SameRequestsStep ==
  ASSUME SameRequests, UNCHANGED <<last_reqs, up, replied>>
  PROVE  EngineStep
<1>1. Open' = Open
  BY DEF Open, Live, SameRequests
<1> QED BY Zenon, <1>1 DEF EngineStep, Engine!vars

\* Freeing the slot of a request takes that request out of the table.
LEMMA OneFreed ==
  ASSUME IInv, NEW s \in Slots, Live(s), FreesSlot(s)
  PROVE  LET r == <<reqs[s].req_id, reqs[s].conn_id>>
         IN  r \in Open /\ Open' = Open \ {r}
<1> DEFINE r == <<reqs[s].req_id, reqs[s].conn_id>>
<1>1. r \in Open
  BY Zenon DEF Open
<1>2. \A t \in Slots \ {s} : Live(t) => reqs[t].req_id # reqs[s].req_id
  BY Zenon DEF IInv, Table
<1>3. Open' \subseteq Open \ {r}
  BY <1>2 DEF Open, Live, FreesSlot
<1>4. Open \ {r} \subseteq Open'
  BY DEF Open, Live, FreesSlot
<1> QED BY Zenon, <1>1, <1>3, <1>4

\* Freeing the requests of a connection takes those out of the table.
LEMMA ConnFreed ==
  ASSUME NEW c, FreesConn(c)
  PROVE  Open' = {r \in Open : r[2] # c}
<1>1. Open' \subseteq {r \in Open : r[2] # c}
  BY DEF Open, Live, FreesConn
<1>2. {r \in Open : r[2] # c} \subseteq Open'
  BY DEF Open, Live, FreesConn
<1> QED BY ZenonT(30), <1>1, <1>2

\* conn_reset frees the requests of one connection.
LEMMA ForgetFreesConn ==
  ASSUME NEW R \in [Slots -> Request], NEW c,
         \A s \in Slots : /\ R[s].req_id = reqs[s].req_id
                          /\ R[s].conn_id = reqs[s].conn_id,
         reqs' = Forget(R, c)
  PROVE  FreesConn(c)
  BY UnlinkedType DEF Forget, FreesConn, Live

\* close_and_forget on an open connection is what AbsEngine calls the end of
\* the connection.
LEMMA DisconnectStep ==
  ASSUME NEW c \in Conns, up[c] = "open", FreesConn(c), CloseUp(c),
         last_reqs' \in {last_reqs, last_reqs + 1}, UNCHANGED replied
  PROVE  EngineStep
<1>1. Engine!Disconnect(c)
  BY ConnFreed DEF Engine!Disconnect, CloseUp
<1> QED BY ZenonT(30), <1>1 DEF EngineStep, Engine!Next
-----------------------------------------------------------------------------
\* The handlers that leave the table alone.
LEMMA QuietSteps ==
  ASSUME \/ SkipCommand \/ StorageCommand \/ StorageFails \/ SkipBranch \/ SendBranchFails
         \/ EndOfCommands \/ ErrDone
         \/ \E c \in Conns : ErrSkip(c) \/ ErrCrash(c)
         \/ \E p \in Peers : Established(p) \/ LinkError(p)
         \/ \E x \in storage : StorageAck(x)
         \/ UNCHANGED vars
  PROVE  EngineStep
<1>1. UNCHANGED <<reqs, last_reqs, up, replied>>
  BY Zenon DEF SkipCommand, StorageCommand, StorageFails, SkipBranch, SendBranchFails,
         EndOfCommands, ErrDone, ErrSkip, ErrCrash, Established, LinkError,
         StorageAck, vars, netVars, historyVars
<1> QED BY ZenonT(30), <1>1, SameRequestsStep DEF SameRequests

\* start_forward and single_start_forward write the context and the timeout
\* node of a request.
LEMMA ForwardSteps == ASSUME IInv, StartForward \/ SendBranch PROVE EngineStep
<1>1. /\ UNCHANGED <<last_reqs, up, replied>>
      /\ reqs \in [Slots -> Request]
  BY DEF StartForward, SendBranch, netVars, historyVars, IInv, TypeOK
<1>2. CASE StartForward
  <2> DEFINE s == run.slot
             c == Msg(s)[cmd]
             q == [reqs[s] EXCEPT !.fwd_replies_left = c.nack,
                                  !.fwd_timeout = c.timeout,
                                  !.fwd_retries = c.retries,
                                  !.fwd_on_fail_skip = c.on_fail_skip]
  <2>1. s \in Slots /\ (reqs' = [reqs EXCEPT ![s] = q] \/ reqs' = reqs)
    BY <1>2 DEF StartForward, IInv, TypeOK, Call
  <2>2. q.req_id = reqs[s].req_id /\ q.conn_id = reqs[s].conn_id
    BY <1>1, <2>1 DEF Request
  <2> HIDE DEF q
  <2>3. SameRequests
    BY ZenonT(30), <1>1, <2>1, <2>2 DEF SameRequests
  <2> QED BY <1>1, <2>3, SameRequestsStep
<1>3. CASE SendBranch
  <2> DEFINE s == run.slot
             id == reqs[s].req_id
  <2>1. /\ s \in Slots
        /\ reqs' = [reqs EXCEPT ![s].timeout_node = id] \/ reqs' = reqs
    BY <1>3 DEF SendBranch, InsertTimeout, IInv, TypeOK, Call
  <2>2. id \in Ids \cup {NONE}
    BY <1>1, <2>1 DEF Request
  <2> HIDE DEF id, s
  <2>3. SameRequests
    <3>1. CASE reqs' = [reqs EXCEPT ![s].timeout_node = id]
      BY <1>1, <2>1, <2>2, <3>1, TimeoutNodeSet DEF SameRequests
    <3>2. CASE reqs' = reqs
      BY ZenonT(30), <3>2 DEF SameRequests
    <3> QED BY <2>1, <3>1, <3>2
  <2> QED BY <1>1, <2>3, SameRequestsStep
<1> QED BY ZenonT(30), <1>2, <1>3

\* handle_forward_reply writes the context of a request.
LEMMA ForwardReplyStep ==
  ASSUME IInv, NEW p \in Peers, NEW x \in infl[p], NEW st \in PeerStatus,
         ForwardReply(p, x, st)
  PROVE  EngineStep
<1>1. /\ UNCHANGED <<last_reqs, up, replied>>
      /\ reqs \in [Slots -> Request]
  BY ZenonT(30) DEF ForwardReply, IInv, TypeOK
<1>2. CASE IgnoreAnswer(p, x) \/ ExitOnAnswer(x)
  BY ZenonT(30), <1>1, <1>2, SameRequestsStep DEF IgnoreAnswer, ExitOnAnswer, SameRequests
<1>3. CASE CountAnswer(p, x)
  <2>1. SameRequests
    BY <1>1, <1>3 DEF CountAnswer, SameRequests, Request
  <2> QED BY <1>1, <2>1, SameRequestsStep
<1>4. CASE FinishForward(p, x, st)
  <2>1. SameRequests
    BY <1>1, <1>4 DEF FinishForward, SameRequests, Request
  <2> QED BY <1>1, <2>1, SameRequestsStep
<1> QED BY Zenon, <1>2, <1>3, <1>4 DEF ForwardReply

\* handle_timeout writes the request of the top node, or unlinks it.
LEMMA TimeoutStep == ASSUME IInv, Timeout PROVE EngineStep
<1> DEFINE s == Slot(top)
           unqueued == [reqs EXCEPT ![s].timeout_node = NONE]
<1>1. /\ UNCHANGED <<last_reqs, up, replied>>
      /\ reqs \in [Slots -> Request] /\ top \in Ids /\ s \in Slots
  <2>1. top \in Ids
    BY DEF Timeout, IInv, TypeOK, NodesMatchQueue
  <2> QED BY ZenonT(30), <2>1, IdFacts DEF Timeout, netVars, historyVars, IInv, TypeOK
<1>2. CASE ~Alive(top)
  <2>1. SameRequests
    BY <1>2 DEF Timeout, SameRequests
  <2> QED BY <1>1, <2>1, SameRequestsStep
<1>3. CASE Alive(top)
  <2>1. \/ reqs' = [unqueued EXCEPT ![s].fwd_retries = @ - 1]
        \/ reqs' = [unqueued EXCEPT ![s].status = "TIMEOUT"]
        \/ reqs' = [unqueued EXCEPT ![s] = Unlinked(@)]
    BY <1>3 DEF Timeout
  <2>2. /\ unqueued \in [Slots -> Request]
        /\ \A t \in Slots : /\ unqueued[t].req_id = reqs[t].req_id
                            /\ unqueued[t].conn_id = reqs[t].conn_id
    BY <1>1, TimeoutNodeSet
  <2> HIDE DEF unqueued, s
  <2>3. CASE reqs' = [unqueued EXCEPT ![s].fwd_retries = @ - 1]
    <3> DEFINE q == [unqueued[s] EXCEPT !.fwd_retries = @ - 1]
    <3>1. reqs' = [unqueued EXCEPT ![s] = q]
      BY <2>3
    <3>2. q.req_id = unqueued[s].req_id /\ q.conn_id = unqueued[s].conn_id
      BY ZenonT(30), <1>1, <2>2 DEF Request
    <3> HIDE DEF q
    <3>3. SameRequests
      BY Zenon, <1>1, <2>2, <3>1, <3>2 DEF SameRequests
    <3> QED BY <1>1, <3>3, SameRequestsStep
  <2>4. CASE reqs' = [unqueued EXCEPT ![s].status = "TIMEOUT"]
    <3>1. "TIMEOUT" \in Status
      BY DEF Status
    <3>2. SameRequests
      BY <1>1, <2>2, <2>4, <3>1, StatusSet DEF SameRequests
    <3> QED BY <1>1, <3>2, SameRequestsStep
  <2>5. CASE reqs' = [unqueued EXCEPT ![s] = Unlinked(@)]
    <3>1. FreesSlot(s)
      BY Zenon, <1>1, <2>2, <2>5, UnlinkedType DEF FreesSlot
    <3>2. Live(s)
      BY ZenonT(30), <1>1, <1>3, IdFacts DEF Alive, Live, s
    <3>3. Engine!Abandon(<<reqs[s].req_id, reqs[s].conn_id>>)
      BY ZenonT(30), <1>1, <3>1, <3>2, OneFreed DEF Engine!Abandon
    <3> QED BY ZenonT(30), <1>1, <3>1, <3>2, <3>3, OneFreed DEF EngineStep, Engine!Next
  <2> QED BY ZenonT(30), <2>1, <2>3, <2>4, <2>5
<1> QED BY ZenonT(30), <1>2, <1>3

\* reply() answers and frees one request; after EPIPE its connection ends.
LEMMA ReplyStep == ASSUME IInv, ReplyCommand PROVE EngineStep
<1> DEFINE s == run.slot
           id == reqs[s].req_id
           c == reqs[s].conn_id
           r == <<id, c>>
           gone == RemoveAnswered(reqs, s)
<1>1. /\ last_reqs' = last_reqs /\ pc = "process"
      /\ s \in Slots /\ Live(s) /\ reqs \in [Slots -> Request]
  BY Zenon DEF ReplyCommand, AtCommand, IInv, TypeOK, Worker, Call
<1>2. c \in Conns /\ up[c] = "open" /\ replied[id] = 0
  BY Zenon, <1>1 DEF IInv, Table
<1>3. /\ gone \in [Slots -> Request]
      /\ gone[s].req_id = NONE
      /\ \A t \in Slots \ {s} : gone[t] = reqs[t]
  BY Zenon, <1>1, UnlinkedType DEF RemoveAnswered
<1> HIDE DEF gone
<1>4. CASE reqs' = gone /\ up' = up
  <2>1. FreesSlot(s)
    BY ZenonT(30), <1>3, <1>4 DEF FreesSlot
  <2>2. r \in Open /\ Open' = Open \ {r}
    BY ZenonT(30), <1>1, <2>1, OneFreed
  <2>3. CASE replied' = [replied EXCEPT ![id] = @ + 1]
    <3>1. replied' = [replied EXCEPT ![r[1]] = 1]
      BY <1>2, <2>3
    <3>2. Engine!Reply(r)
      BY ZenonT(30), <1>1, <1>2, <1>4, <2>2, <3>1 DEF Engine!Reply
    <3> QED BY ZenonT(30), <2>2, <3>2 DEF EngineStep, Engine!Next
  <2>4. CASE replied' = replied
    <3>1. Engine!Abandon(r)
      BY ZenonT(30), <1>1, <1>4, <2>2, <2>4 DEF Engine!Abandon
    <3> QED BY Zenon, <2>2, <3>1 DEF EngineStep, Engine!Next
  <2> QED BY ZenonT(30), <1>4, <2>3, <2>4 DEF ReplyCommand
<1>5. CASE reqs' = Forget(gone, c) /\ CloseUp(c) /\ replied' = replied
  <2>1. FreesConn(c)
    BY <1>1, <1>3, <1>5, UnlinkedType DEF Forget, FreesConn, Live
  <2> QED BY ZenonT(30), <1>1, <1>2, <1>5, <2>1, DisconnectStep
<1> QED BY <1>4, <1>5 DEF ReplyCommand, gone

\* conn_req_add takes a free slot for the next number; without one the
\* connection ends.
LEMMA RecvRequestStep ==
  ASSUME IInv, NEW c \in Conns, NEW prog \in Programs, RecvRequest(c, prog)
  PROVE  EngineStep
<1> DEFINE s == Slot(last_reqs)
<1>1. /\ up[c] = "open" /\ last_reqs' = last_reqs + 1 /\ replied' = replied
      /\ reqs \in [Slots -> Request] /\ last_reqs \in Ids /\ s \in Slots
  BY IdFacts, NodeConstants DEF RecvRequest, IInv, TypeOK
<1>2. CASE Live(s)
  <2>1. reqs' = Forget(reqs, c) /\ CloseUp(c)
    BY ZenonT(30), <1>2 DEF RecvRequest, FailUp
  <2>2. FreesConn(c)
    BY <1>1, <2>1, ForgetFreesConn
  <2> QED BY <1>1, <2>1, <2>2, DisconnectStep
<1>3. CASE ~Live(s)
  <2> DEFINE q == [reqs[s] EXCEPT !.req_id = last_reqs, !.conn_id = c,
                                  !.uid = recvd[c], !.msg = prog,
                                  !.status = "SUCCESS",
                                  !.fwd_replies_left = -1]
  <2>1. up' = up /\ reqs' = [reqs EXCEPT ![s] = q]
    BY <1>3 DEF RecvRequest
  <2>2. q.req_id = last_reqs /\ q.conn_id = c /\ last_reqs # NONE
    BY Zenon, <1>1, IdFacts DEF Request
  <2> HIDE DEF q, s
  <2>3. /\ reqs'[s].req_id = last_reqs /\ reqs'[s].conn_id = c
        /\ \A t \in Slots \ {s} : reqs'[t] = reqs[t]
    BY ZenonT(30), <1>1, <2>1, <2>2
  <2>4. Open' \subseteq Open \cup {<<last_reqs, c>>}
    BY Zenon, <2>3 DEF Open, Live
  <2>5. Open \cup {<<last_reqs, c>>} \subseteq Open'
    BY ZenonT(30), <1>1, <1>3, <2>2, <2>3 DEF Open, Live
  <2>6. Engine!Receive(c)
    BY <1>1, <2>1, <2>4, <2>5 DEF Engine!Receive
  <2> QED BY <2>6 DEF EngineStep, Engine!Next
<1> QED BY <1>2, <1>3

\* A client connects.
LEMMA AcceptStep == ASSUME NEW c \in Conns, Accept(c) PROVE EngineStep
<1>1. Open' = Open
  BY Zenon DEF Accept, Open, Live
<1>2. Engine!Connect(c)
  BY Zenon, <1>1 DEF Accept, Engine!Connect, historyVars
<1> QED BY Zenon, <1>2 DEF EngineStep, Engine!Next

\* The end of file on an upstream connection.
LEMMA UpstreamClosedStep ==
  ASSUME IInv, NEW c \in Conns, UpstreamClosed(c) PROVE EngineStep
<1>1. /\ up[c] = "open" /\ reqs' = Forget(reqs, c) /\ CloseUp(c)
      /\ UNCHANGED <<last_reqs, replied>> /\ reqs \in [Slots -> Request]
  BY Zenon DEF UpstreamClosed, FailUp, historyVars, IInv, TypeOK
<1> QED BY Zenon, <1>1, ForgetFreesConn, DisconnectStep

\* A handler failed on the connection it reads from.
LEMMA FailConnStep == ASSUME IInv, FailConn PROVE EngineStep
<1>1. UNCHANGED <<last_reqs, replied>> /\ reqs \in [Slots -> Request]
  BY Zenon DEF FailConn, historyVars, IInv, TypeOK
<1>2. CASE /\ run.caller = "obtain" /\ up[run.from] = "open"
           /\ reqs' = Forget(reqs, run.from) /\ CloseUp(run.from)
  <2>1. run.from \in Conns
    BY Zenon, <1>2 DEF IInv, Worker
  <2> QED BY ZenonT(30), <1>1, <1>2, <2>1, ForgetFreesConn, DisconnectStep
<1>3. CASE UNCHANGED <<reqs, up>>
  BY <1>1, <1>3, SameRequestsStep DEF SameRequests
<1> QED BY Zenon, <1>2, <1>3 DEF FailConn, FailUp

\* The scan of the error path fails one request, or ends its connection.
LEMMA ErrFailStep ==
  ASSUME IInv, NEW c \in Conns, NEW s \in Slots, ErrFail(c, s)
  PROVE  EngineStep
<1> DEFINE uid == reqs[s].uid
           u == Slot(uid)
           n == IF Alive(uid) THEN NONE ELSE reqs[u].timeout_node
           unqueued == [reqs EXCEPT ![u].timeout_node = n]
<1>1. /\ UNCHANGED <<last_reqs, replied>>
      /\ reqs \in [Slots -> Request] /\ u \in Slots
      /\ Live(s) /\ reqs[s].conn_id = c
  BY SlotInSlots DEF ErrFail, WaitingOn, Newest, historyVars, IInv, TypeOK,
                     Request
<1>2. n \in Ids \cup {NONE}
  BY ZenonT(30), <1>1 DEF Request
<1>3. \/ reqs' = [unqueued EXCEPT ![s].status = "ERR"] /\ up' = up
      \/ reqs' = Forget(unqueued, c) /\ CloseUp(c)
  BY DEF ErrFail
<1> HIDE DEF n, u
<1>4. /\ unqueued \in [Slots -> Request]
      /\ \A t \in Slots : /\ unqueued[t].req_id = reqs[t].req_id
                          /\ unqueued[t].conn_id = reqs[t].conn_id
  BY <1>1, <1>2, TimeoutNodeSet
<1> HIDE DEF unqueued
<1>5. CASE reqs' = [unqueued EXCEPT ![s].status = "ERR"] /\ up' = up
  <2>1. "ERR" \in Status
    BY DEF Status
  <2>2. SameRequests
    BY <1>4, <1>5, <2>1, StatusSet DEF SameRequests
  <2> QED BY ZenonT(30), <1>1, <1>5, <2>2, SameRequestsStep
<1>6. CASE reqs' = Forget(unqueued, c) /\ CloseUp(c)
  <2>1. up[c] = "open"
    BY ZenonT(30), <1>1 DEF IInv, Table
  <2>2. FreesConn(c)
    BY ZenonT(30), <1>4, <1>6, ForgetFreesConn
  <2> QED BY ZenonT(30), <1>1, <1>6, <2>1, <2>2, DisconnectStep
<1> QED BY Zenon, <1>3, <1>5, <1>6
-----------------------------------------------------------------------------
\* dw_node starts without connections and requests.
LEMMA InitEngine == Init => Engine!Init
<1> SUFFICES ASSUME Init PROVE Engine!Init
  OBVIOUS
<1>1. Open = {}
  BY ZenonT(30) DEF Init, Open, Live, FreeReq
<1> QED BY Zenon, <1>1 DEF Init, Engine!Init

\* Every step of the worker is a step of AbsEngine, or changes nothing a
\* client sees.
LEMMA NextEngine == IInv /\ [Next]_vars => EngineStep
<1> SUFFICES ASSUME IInv, [Next]_vars PROVE EngineStep
  OBVIOUS
<1>1. CASE WorkerStep
  BY Zenon, <1>1, QuietSteps, ForwardSteps, ReplyStep, FailConnStep,
     ErrFailStep DEF WorkerStep
<1>2. ASSUME NEW c \in Conns,
             \/ Accept(c) \/ UpstreamClosed(c)
             \/ \E prog \in Programs : RecvRequest(c, prog)
      PROVE  EngineStep
  BY Zenon, <1>2, AcceptStep, UpstreamClosedStep, RecvRequestStep
<1>3. ASSUME NEW p \in Peers,
             \/ Established(p) \/ LinkError(p)
             \/ \E x \in infl[p], st \in PeerStatus : ForwardReply(p, x, st)
      PROVE  EngineStep
  BY <1>3, QuietSteps, ForwardReplyStep
<1>4. CASE Timeout
  BY <1>4, TimeoutStep
<1>5. CASE (\E x \in storage : StorageAck(x)) \/ UNCHANGED vars
  BY <1>5, QuietSteps
<1> QED BY Zenon, <1>1, <1>2, <1>3, <1>4, <1>5 DEF Next

\* dw_node implements AbsEngine for every number of slots, connections,
\* peers and programs and every fault: each request ends once, and a
\* connection that ends takes its own requests with it and no others.
THEOREM EngineImplemented == Spec => ImplementsEngine
  BY InitEngine, NextEngine, Inductive, PTL
     DEF Spec, ImplementsEngine, Engine!Spec, EngineStep
=============================================================================
