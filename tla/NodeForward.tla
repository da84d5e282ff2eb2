---------------------------- MODULE NodeForward ----------------------------
(***************************************************************************)
(* The request engine of dw_node: one conn_worker thread that accepts      *)
(* requests on upstream TCP connections, executes their command lists,     *)
(* forwards parts of them to peers, collects the acknowledgements of each  *)
(* FORWARD context, retries or gives up on a timeout, hands LOAD and STORE *)
(* to the storage threads and replies (src/dw_node.c, src/request.c and    *)
(* the parts of src/connection.c that own the requests of a connection).   *)
(*                                                                         *)
(* The worker handles one poll event at a time.  `pc' says where in a      *)
(* handler it is: "poll" between two events, "process" in the loop of      *)
(* process_single_message, "forward" in the loop of start_forward, "err"   *)
(* in the loop of exec_request's error path, "fail" about to enter that    *)
(* path, "exited" after a failed check() or assert().  The network and     *)
(* the storage threads appear only through the events they cause, and the  *)
(* kinds of failures the environment may cause are the constant Faults.    *)
(***************************************************************************)
EXTENDS Message, FiniteSets

CONSTANTS Conns,     \* upstream connections
          Peers,     \* next hops a FORWARD may name
          NoConn,    \* the conn_id of a slot that was never used
          Programs,  \* the command lists clients send, ended by EOM
          PeerStatus, \* the statuses of the answers of peers
          MAX_REQS,  \* size of reqs[]
          MaxIds,    \* bound on the requests of a behaviour
          Faults     \* kinds of failures the environment may cause

Status == {"SUCCESS", "TIMEOUT", "ERR"}

FaultKinds == {"up_close",    \* an upstream client closes its connection
               "link_error",  \* a peer resets, or refuses to be connected
               "send_error",  \* sending on a peer connection fails
               "reply_error", \* sending a REPLY upstream fails
               "storage_error", \* a command names no device of the node, or
                              \* the write to the pipe of its thread fails
               "tie"}         \* two timeouts expire in the same microsecond

Command == [op : Ops, addr : Peers \cup {NoConn}, nack : Nat, retries : Nat,
            timeout : Nat, on_fail_skip : Nat, branched : BOOLEAN,
            wait_sync : BOOLEAN]

ASSUME NodeConstants == /\ MAX_REQS \in Nat \ {0}
                        /\ MaxIds \in Nat
                        /\ NoConn \notin Conns \cup Peers
                        /\ Conns \cap Peers = {}
                        /\ Programs \subseteq Seq(Command)
                        /\ \A m \in Programs : /\ m # <<>>
                                                /\ m[Len(m)].op = "EOM"
                        /\ PeerStatus \subseteq Status
                        /\ Faults \subseteq FaultKinds

NONE == -1
Ids == 0 .. MaxIds - 1
Slots == 0 .. MAX_REQS - 1

VARIABLES
  reqs,      \* reqs[]: the request table, a record per slot
  curr_cmd,  \* reqs[s].curr_cmd
  mask,      \* reqs[s].fwd_replies_mask, as the set of its bits
  last_reqs, \* the next req_id
  up,        \* state of each upstream connection
  recvd,     \* requests received so far on each upstream connection
  link,      \* state of the connection to each peer
  infl,      \* messages sent to each peer whose answer may still come
  storage,   \* commands handed to the storage threads, not acknowledged
  tq,        \* req_ids of the nodes in infos->timeout_queue
  top,       \* the node pqueue_top() returns
  armed,     \* is the timerfd armed?
  pc, run,   \* where the worker is, and the call it is in
  cmd,       \* the local cursor of process_single_message
  scan,      \* the connections the error path has yet to visit
  replied,   \* history: how many REPLYs each request got
  acks       \* history: the <<context, branch>> pairs the request of each
             \* slot got an answer from

workerVars == <<pc, run, cmd, scan>>
timeoutVars == <<tq, top, armed>>
netVars == <<up, recvd, link, infl>>
historyVars == <<replied, acks>>
vars == <<reqs, curr_cmd, mask, last_reqs, storage, netVars, timeoutVars,
          workerVars, historyVars>>

\* The slot of a req_id, and req_get_by_id() # NULL.
Slot(id) == id % MAX_REQS
Live(s) == reqs[s].req_id # NONE
AliveAnyId(id) == Live(Slot(id)) \* mutant: the id is not compared
Alive(id) == reqs[Slot(id)].req_id = id

\* req_info_t, without the two fields that have variables of their own.
Request == [req_id : Ids \cup {NONE}, conn_id : Conns \cup {NoConn},
            uid : Nat, msg : Programs \cup {<<>>}, status : Status,
            timeout_node : Ids \cup {NONE}, fwd_replies_left : Int,
            fwd_timeout : Nat, fwd_retries : Nat, fwd_on_fail_skip : Nat]
Callers == {"none", "obtain", "reply", "timeout", "storage", "err"}
Call == [slot : Slots, caller : Callers, from : Conns \cup Peers \cup {NoConn}]

FreeReq == [req_id |-> NONE, conn_id |-> NoConn, uid |-> 0, msg |-> <<>>,
            status |-> "SUCCESS", timeout_node |-> NONE,
            fwd_replies_left |-> 0, fwd_timeout |-> 0, fwd_retries |-> 0,
            fwd_on_fail_skip |-> 0]

Idle == [slot |-> 0, caller |-> "none", from |-> NoConn]

Init == /\ reqs = [s \in Slots |-> FreeReq]
        /\ curr_cmd = [s \in Slots |-> NULL]
        /\ mask = [s \in Slots |-> {}]
        /\ last_reqs = 0
        /\ up = [c \in Conns |-> "new"]
        /\ recvd = [c \in Conns |-> 0]
        /\ link = [p \in Peers |-> "none"]
        /\ infl = [p \in Peers |-> {}]
        /\ storage = {}
        /\ tq = {} /\ top = NONE /\ armed = FALSE
        /\ pc = "poll" /\ cmd = NULL /\ scan = {}
        /\ run = Idle
        /\ replied = [i \in Ids |-> 0]
        /\ acks = [s \in Slots |-> {}]
-----------------------------------------------------------------------------
(***************************************************************************)
(* Parts the handlers share.                                               *)
(***************************************************************************)

\* req_unlink.  The timeout node stays in the queue, and the slot keeps its
\* pointer to it; the fields reset here are all written before the next
\* request of the slot reads them.
UnlinkedAll(r) == FreeReq \* mutant: the pointer to the node is lost
Unlinked(r) == [FreeReq EXCEPT !.timeout_node = r.timeout_node]

\* close_and_forget -> conn_del_sock -> conn_reset on upstream connection c.
ForgetAll(R, c) == \* mutant: the requests of every connection go
  [s \in Slots |-> IF R[s].req_id # NONE THEN Unlinked(R[s]) ELSE R[s]]
Forget(R, c) == [s \in Slots |-> IF R[s].req_id # NONE /\ R[s].conn_id = c
                                 THEN Unlinked(R[s]) ELSE R[s]]
CloseUp(c) == up' = [up EXCEPT ![c] = "closed"]

\* close_and_forget on the connection to peer p: what was sent or buffered
\* on it is lost.
CloseLink(p) == /\ link' = [link EXCEPT ![p] = "none"]
                /\ infl' = [infl EXCEPT ![p] = {}]

\* insert_timeout.  The queue orders nodes by expiry, of which only the top
\* matters here.  Requests may carry any timeouts, so a new node may come
\* before the top; with the timer disarmed its key lies after the top's.
InsertTimeout(s) ==
  IF reqs[s].timeout_node # NONE
  THEN UNCHANGED <<reqs, timeoutVars>>
  ELSE LET id == reqs[s].req_id
       IN /\ reqs' = [reqs EXCEPT ![s].timeout_node = id]
          /\ tq' = tq \cup {id}
          /\ \/ /\ tq = {} \/ armed
                /\ top' = id /\ armed' = TRUE
             \/ tq # {} /\ UNCHANGED <<top, armed>>

\* remove_timeout on the node a request points to: dropping the top
\* re-arms the timer for the next node, or disarms it.  A timer that has
\* expired, and a next node with the same key, leave a delay of 0: arming the
\* timer with it disarms it too.
NodeOf(id) == IF Alive(id) THEN reqs[Slot(id)].timeout_node ELSE NONE
NotRearmed(Q) == {FALSE} \* mutant: the timer is not set for the next node
Rearmed(Q) == {Q # {}} \cup {b \in {FALSE} : "tie" \in Faults}
RemoveNode(n) ==
  IF n = NONE THEN UNCHANGED timeoutVars
  ELSE /\ tq' = tq \ {n}
       /\ IF n = top
          THEN /\ top' \in IF tq' = {} THEN {NONE} ELSE tq'
               /\ armed' \in Rearmed(tq')
          ELSE UNCHANGED <<top, armed>>

\* Call process_messages on slot s.
Process(s, at, caller, from) ==
  /\ pc' = "process"
  /\ run' = [slot |-> s, caller |-> caller, from |-> from]
  /\ cmd' = at

\* What the caller of process_single_message does with its result: 1 when
\* the message is done, 0 when it needs more time, -1 on an error.
\* obtain_messages takes a negative result for a new request, and a zero of
\* handle_forward_reply, as a failure of the connection it reads from.
Failed(result) == \/ run.caller = "obtain" /\ result = -1
                  \/ run.caller = "reply" /\ result = 0
Return(result) ==
  /\ pc' = CASE run.caller = "err" -> "err"
            [] Failed(result) -> "fail"
            [] OTHER -> "poll"
  /\ run' = IF run.caller = "err" \/ Failed(result)
            THEN [Idle EXCEPT !.caller = run.caller, !.from = run.from]
            ELSE Idle
  /\ cmd' = NULL

\* The label err of exec_request: the connection is closed, to a peer or to a
\* client, and the upstream connections left open are visited in turn.
EnterErr(from) ==
  /\ pc' = "err"
  /\ run' = [Idle EXCEPT !.caller = "err", !.from = from]
  /\ cmd' = NULL
  /\ scan' = {c \in Conns \ {from} : up[c] = "open"}
FailLink(p) == CloseLink(p) /\ EnterErr(p)
FailUp(c) == reqs' = Forget(reqs, c) /\ CloseUp(c) /\ EnterErr(c)

\* find_forward_reply_id: the position of the first FORWARD of the context
\* that names addr, or -1.
FindForwardReplyId(m, i, addr) ==
  LET chain == ForwardChain(m, i)
      ids == {j \in DOMAIN chain : m[chain[j]].addr = addr}
  IN IF ids = {} THEN -1
     ELSE (CHOOSE j \in ids : \A l \in ids : j <= l) - 1
-----------------------------------------------------------------------------
(***************************************************************************)
(* process_single_message, one step for each command.                      *)
(***************************************************************************)
Msg(s) == reqs[s].msg
Points(m, i) == InBounds(m, i) /\ m[i].op # "EOM"
AtCommand(ops) == /\ pc = "process"
                  /\ Points(Msg(run.slot), cmd)
                  /\ Msg(run.slot)[cmd].op \in ops

\* COMPUTE, and a STORE nobody waits for.
SkipCommand ==
  LET m == Msg(run.slot) IN
  /\ AtCommand({"COMPUTE", "STORE"})
  /\ m[cmd].op = "STORE" => ~m[cmd].wait_sync
  /\ cmd' = BoundedSkip(m, cmd, 1)
  /\ UNCHANGED <<reqs, curr_cmd, mask, last_reqs, storage, netVars,
                 timeoutVars, pc, run, scan, historyVars>>

\* Where the request goes on after a storage command.
SameAgain(m, i) == i \* mutant: the cursor stays on the command
AfterStorage(m, i) == BoundedNext(m, i)

\* LOAD, and a STORE that waits for its sync: the cursor already moves to
\* the next command, which runs when the acknowledgement comes.
StorageCommand ==
  LET m == Msg(run.slot) IN
  /\ AtCommand({"LOAD", "STORE"})
  /\ m[cmd].op = "STORE" => m[cmd].wait_sync
  /\ storage' = storage \cup {[id |-> reqs[run.slot].req_id,
                               cmd |-> cmd]}
  /\ curr_cmd' = [curr_cmd EXCEPT ![run.slot] = AfterStorage(m, cmd)]
  /\ Return(0)
  /\ UNCHANGED <<reqs, mask, last_reqs, netVars, timeoutVars, scan,
                 historyVars>>

\* The command names a device the node does not have, or the write to the
\* pipe fails.
StorageFails ==
  /\ "storage_error" \in Faults
  /\ AtCommand({"LOAD", "STORE"})
  /\ Return(-1)
  /\ UNCHANGED <<reqs, curr_cmd, mask, last_reqs, storage, netVars, timeoutVars,
                 scan, historyVars>>

\* FORWARD: start_forward opens a context unless one is open, then starts
\* the branches in turn.
StartForward ==
  LET s == run.slot
      c == Msg(s)[cmd]
  IN
  /\ AtCommand(ForwardOps)
  /\ curr_cmd' = [curr_cmd EXCEPT
                    ![s] = IF c.op = "FORWARD_BEGIN" THEN cmd ELSE @]
  /\ IF reqs[s].fwd_replies_left = -1
     THEN /\ reqs' = [reqs EXCEPT ![s] =
                        [@ EXCEPT !.fwd_replies_left = c.nack,
                                  !.fwd_timeout = c.timeout,
                                  !.fwd_retries = c.retries,
                                  !.fwd_on_fail_skip = c.on_fail_skip]]
          /\ mask' = [mask EXCEPT ![s] = {}]
     ELSE UNCHANGED <<reqs, mask>>
  /\ pc' = "forward"
  /\ UNCHANGED <<last_reqs, storage, netVars, timeoutVars, run, cmd, scan,
                 historyVars>>

Branch == Msg(run.slot)[cmd]
AnyAcked == mask[run.slot] # {} \* mutant: any bit counts for the branch
BranchAcked == FindForwardReplyId(Msg(run.slot), curr_cmd[run.slot],
                                  Branch.addr) \in mask[run.slot]

\* The loop step of start_forward.
NextBranch ==
  LET nx == BoundedNextForward(Msg(run.slot), cmd)
  IN IF nx = NULL THEN Return(0)
     ELSE cmd' = nx /\ UNCHANGED <<pc, run>>

\* single_start_forward does not send to a branch that has answered.
SkipBranch ==
  /\ pc = "forward"
  /\ BranchAcked
  /\ NextBranch
  /\ UNCHANGED <<reqs, curr_cmd, mask, last_reqs, storage, netVars,
                 timeoutVars, scan, historyVars>>

\* single_start_forward: connect if there is no connection, send or buffer
\* the branch, insert the timeout.  A message sent on a connection whose
\* peer is gone is lost, and the failure goes unnoticed here.
SendBranch ==
  LET s == run.slot
      p == Branch.addr
      x == [id |-> reqs[s].req_id, ctx |-> curr_cmd[s], br |-> cmd,
            retry |-> reqs[s].fwd_retries]
  IN
  /\ pc = "forward"
  /\ ~BranchAcked
  /\ \/ /\ link[p] \in {"none", "connecting", "ready"}
        /\ link' = [link EXCEPT ![p] = IF @ = "none" THEN "connecting"
                                       ELSE @]
        /\ infl' = [infl EXCEPT ![p] = @ \cup {x}]
     \/ /\ link[p] = "none"
        /\ link' = [link EXCEPT ![p] = "ready"]
        /\ infl' = [infl EXCEPT ![p] = {x}]
     \/ /\ \/ link[p] = "closing"
           \/ link[p] = "ready" /\ "link_error" \in Faults
        /\ link' = [link EXCEPT ![p] = "closing"]
        /\ UNCHANGED infl
  /\ IF reqs[s].fwd_timeout # 0 THEN InsertTimeout(s)
     ELSE UNCHANGED <<reqs, timeoutVars>>
  /\ NextBranch
  /\ UNCHANGED <<curr_cmd, mask, last_reqs, storage, up, recvd, scan,
                 historyVars>>

\* single_start_forward gives up: no connection slot, connect() or send()
\* failed at once.  A socket whose connect() failed stays in conns[].
SendBranchFails ==
  LET p == Branch.addr IN
  /\ "send_error" \in Faults
  /\ pc = "forward"
  /\ ~BranchAcked
  /\ \/ UNCHANGED link
     \/ link[p] = "none" /\ link' = [link EXCEPT ![p] = "closing"]
  /\ Return(-1)
  /\ UNCHANGED <<reqs, curr_cmd, mask, last_reqs, storage, up, recvd, infl,
                 timeoutVars, scan, historyVars>>

\* conn_req_remove at the end of reply().
KeepAnswered(R, s) == R \* mutant: the request stays in the table
RemoveAnswered(R, s) == [R EXCEPT ![s] = Unlinked(@)]

\* REPLY: the request leaves the table whatever happens to the message.
\* After EPIPE the connection is closed with all its requests; any other
\* failure of send() counts as success.
ReplyCommand ==
  LET s == run.slot
      id == reqs[s].req_id
      c == reqs[s].conn_id
      gone == RemoveAnswered(reqs, s)
  IN
  /\ AtCommand({"REPLY"})
  /\ \/ /\ replied' = [replied EXCEPT ![id] = @ + 1]
        /\ reqs' = gone /\ UNCHANGED up
        /\ Return(1)
     \/ /\ "reply_error" \in Faults
        /\ reqs' = gone /\ UNCHANGED <<up, replied>>
        /\ Return(1)
     \/ /\ "reply_error" \in Faults
        /\ reqs' = Forget(gone, c) /\ CloseUp(c) /\ UNCHANGED replied
        /\ Return(-1)
  /\ UNCHANGED <<curr_cmd, mask, last_reqs, storage, recvd, link, infl,
                 timeoutVars, scan, acks>>

\* The list ends without a REPLY: the request stays in the table.
EndOfCommands ==
  /\ pc = "process"
  /\ ~Points(Msg(run.slot), cmd)
  /\ Return(1)
  /\ UNCHANGED <<reqs, curr_cmd, mask, last_reqs, storage, netVars,
                 timeoutVars, scan, historyVars>>
-----------------------------------------------------------------------------
(***************************************************************************)
(* The events of the poll loop.                                            *)
(***************************************************************************)
Accept(c) ==
  /\ pc = "poll"
  /\ up[c] = "new"
  /\ up' = [up EXCEPT ![c] = "open"]
  /\ UNCHANGED <<reqs, curr_cmd, mask, last_reqs, storage, recvd, link, infl,
                 timeoutVars, workerVars, historyVars>>

\* obtain_messages on a complete request: conn_req_add takes the slot of the
\* next req_id, or the connection is closed when that slot is in use.
RecvRequest(c, prog) ==
  LET s == Slot(last_reqs) IN
  /\ pc = "poll"
  /\ up[c] = "open"
  /\ last_reqs < MaxIds
  /\ last_reqs' = last_reqs + 1
  /\ recvd' = [recvd EXCEPT ![c] = @ + 1]
  /\ IF Live(s)
     THEN /\ FailUp(c)
          /\ UNCHANGED <<curr_cmd, acks>>
     ELSE /\ reqs' = [reqs EXCEPT ![s] =
                        [@ EXCEPT !.req_id = last_reqs, !.conn_id = c,
                                  !.uid = recvd[c], !.msg = prog,
                                  !.status = "SUCCESS",
                                  !.fwd_replies_left = -1]]
          /\ curr_cmd' = [curr_cmd EXCEPT ![s] = 1]
          /\ acks' = [acks EXCEPT ![s] = {}]
          /\ Process(s, 1, "obtain", c)
          /\ UNCHANGED <<up, scan>>
  /\ UNCHANGED <<mask, storage, link, infl, timeoutVars, replied>>

\* handle_forward_reply on the answer x of peer p, with the status st.
\* Waits: the request is there and its cursor is not NULL.
Waits(x) == Alive(x.id) /\ InBounds(Msg(Slot(x.id)), curr_cmd[Slot(x.id)])
InForward(s) == Msg(s)[curr_cmd[s]].op \in ForwardOps
ReplyId(s, p) == FindForwardReplyId(Msg(s), curr_cmd[s], p)
CountsTwice(x, p) == \* mutant: the mask is not looked at
  Waits(x) /\ InForward(Slot(x.id)) /\ ReplyId(Slot(x.id), p) # -1
Counts(x, p) == /\ Waits(x)
                /\ InForward(Slot(x.id))
                /\ ReplyId(Slot(x.id), p) \notin mask[Slot(x.id)] \cup {-1}

\* fwd_replies_left is about to become 0.
NoneLeft(s) == reqs[s].fwd_replies_left <= 0 \* mutant: one answer late
LastAnswer(s) == reqs[s].fwd_replies_left <= 1

\* Nobody waits for it, or its branch has answered: dropped.
IgnoreAnswer(p, x) ==
  /\ ~Waits(x) \/ (Waits(x) /\ InForward(Slot(x.id)) /\ ~Counts(x, p))
  /\ UNCHANGED <<reqs, curr_cmd, mask, timeoutVars, workerVars>>

\* The cursor is on no FORWARD: cmd_bounded_next_forward fails its check().
ExitOnAnswer(x) ==
  /\ Waits(x) /\ ~InForward(Slot(x.id))
  /\ pc' = "exited"
  /\ UNCHANGED <<reqs, curr_cmd, mask, timeoutVars, run, cmd, scan>>

CountAnswer(p, x) ==
  LET s == Slot(x.id) IN
  /\ Counts(x, p)
  /\ ~LastAnswer(s)
  /\ mask' = [mask EXCEPT ![s] = @ \cup {ReplyId(s, p)}]
  /\ reqs' = [reqs EXCEPT ![s].fwd_replies_left = @ - 1]
  /\ UNCHANGED <<curr_cmd, timeoutVars, workerVars>>

\* The last answer the context needs: close it and go on.
FinishForward(p, x, st) ==
  LET s == Slot(x.id)
      next == BoundedSkip(Msg(s), curr_cmd[s], 1)
  IN
  /\ Counts(x, p)
  /\ LastAnswer(s)
  /\ mask' = [mask EXCEPT ![s] = {}]
  /\ curr_cmd' = [curr_cmd EXCEPT ![s] = next]
  /\ reqs' = [reqs EXCEPT ![s] =
                [@ EXCEPT !.status = st, !.fwd_replies_left = -1,
                          !.fwd_timeout = 0, !.fwd_retries = 0,
                          !.timeout_node = NONE]]
  /\ RemoveNode(NodeOf(x.id))
  /\ Process(s, next, "reply", p)
  /\ UNCHANGED scan

ForwardReply(p, x, st) ==
  /\ pc = "poll"
  /\ link[p] = "ready"
  /\ x \in infl[p]
  /\ infl' = [infl EXCEPT ![p] = @ \ {x}]
  /\ acks' = IF Alive(x.id)
             THEN [acks EXCEPT ![Slot(x.id)] = @ \cup {<<x.ctx, x.br>>}]
             ELSE acks
  /\ \/ IgnoreAnswer(p, x)
     \/ ExitOnAnswer(x)
     \/ CountAnswer(p, x)
     \/ FinishForward(p, x, st)
  /\ UNCHANGED <<last_reqs, storage, up, recvd, link, replied>>

\* handle_timeout on the top of the queue.  Giving up moves the cursor but
\* leaves the FORWARD context as it was.
RetriesLeft(r) == r.fwd_retries > 0
Timeout ==
  LET s == Slot(top)
      r == reqs[s]
      failed == BoundedSkip(r.msg, curr_cmd[s], r.fwd_on_fail_skip)
      unqueued == [reqs EXCEPT ![s].timeout_node = NONE]
  IN
  /\ pc = "poll"
  /\ armed
  /\ IF ~Alive(top)
     THEN /\ armed' = FALSE
          /\ UNCHANGED <<reqs, curr_cmd, tq, top, pc, run, cmd>>
     ELSE /\ RemoveNode(NodeOf(top))
          /\ \/ /\ RetriesLeft(r)
                /\ reqs' = [unqueued EXCEPT ![s].fwd_retries = @ - 1]
                /\ UNCHANGED curr_cmd
                /\ Process(s, curr_cmd[s], "timeout", NoConn)
             \/ /\ ~RetriesLeft(r) /\ r.fwd_on_fail_skip > 0
                /\ reqs' = [unqueued EXCEPT ![s].status = "TIMEOUT"]
                /\ curr_cmd' = [curr_cmd EXCEPT ![s] = failed]
                /\ Process(s, failed, "timeout", NoConn)
             \/ /\ ~RetriesLeft(r) /\ r.fwd_on_fail_skip = 0
                /\ reqs' = [unqueued EXCEPT ![s] = Unlinked(@)]
                /\ UNCHANGED <<curr_cmd, pc, run, cmd>>
  /\ UNCHANGED <<mask, last_reqs, storage, netVars, scan, historyVars>>

\* A storage thread acknowledges command x; nobody waits for the request
\* that is no longer in the table.
StorageAck(x) ==
  /\ pc = "poll"
  /\ x \in storage
  /\ storage' = storage \ {x}
  /\ IF Alive(x.id)
     THEN Process(Slot(x.id), curr_cmd[Slot(x.id)], "storage", NoConn)
     ELSE UNCHANGED <<pc, run, cmd>>
  /\ UNCHANGED <<reqs, curr_cmd, mask, last_reqs, netVars, timeoutVars, scan,
                 historyVars>>

\* establish_conn, and the flush of what was buffered meanwhile.
Established(p) ==
  /\ pc = "poll"
  /\ link[p] = "connecting"
  /\ link' = [link EXCEPT ![p] = "ready"]
  /\ UNCHANGED <<reqs, curr_cmd, mask, last_reqs, storage, up, recvd, infl,
                 timeoutVars, workerVars, historyVars>>
-----------------------------------------------------------------------------
(***************************************************************************)
(* The error path of exec_request, once the connection is closed: every    *)
(* open upstream connection is visited, and one request of it that waits   *)
(* for the peer is failed.  No FORWARD names the address of a client, so   *)
(* after the end of an upstream connection the visit only reads cursors.   *)
(***************************************************************************)
\* A hangup, a reset, a refused connection of a peer.
LinkError(p) ==
  /\ "link_error" \in Faults \/ link[p] = "closing"
  /\ pc = "poll"
  /\ link[p] # "none"
  /\ FailLink(p)
  /\ UNCHANGED <<reqs, curr_cmd, mask, last_reqs, storage, up, recvd,
                 timeoutVars, historyVars>>

\* The end of file or a reset of an upstream connection.
UpstreamClosed(c) ==
  /\ "up_close" \in Faults
  /\ pc = "poll"
  /\ up[c] = "open"
  /\ FailUp(c)
  /\ UNCHANGED <<curr_cmd, mask, last_reqs, storage, recvd, link, infl,
                 timeoutVars, historyVars>>

\* obtain_messages returned 0.  Closing a socket that was closed already
\* fails the assertion of conn_find_sock.
FailConn ==
  /\ pc = "fail"
  /\ \/ /\ run.caller = "obtain" /\ up[run.from] = "open"
        /\ FailUp(run.from)
        /\ UNCHANGED <<link, infl>>
     \/ /\ run.caller = "obtain" /\ up[run.from] = "closed"
        /\ pc' = "exited"
        /\ UNCHANGED <<reqs, up, link, infl, run, cmd, scan>>
     \/ /\ run.caller = "reply"
        /\ FailLink(run.from)
        /\ UNCHANGED <<reqs, up>>
  /\ UNCHANGED <<curr_cmd, mask, last_reqs, storage, recvd, timeoutVars,
                 historyVars>>

\* The requests of c whose cursor is on a FORWARD_BEGIN to the failed peer.
WaitingOn(c, p) ==
  {s \in Slots : /\ Live(s) /\ reqs[s].conn_id = c
                 /\ InBounds(Msg(s), curr_cmd[s])
                 /\ Msg(s)[curr_cmd[s]].op = "FORWARD_BEGIN"
                 /\ Msg(s)[curr_cmd[s]].addr = p}
Newest(S) == {s \in S : \A t \in S : reqs[t].req_id <= reqs[s].req_id}

\* The loop reads the cursor of the requests of c, newest first, up to the
\* one it stops at; some cursor is NULL.
NullCursor(c, p) ==
  \E s \in Slots : /\ Live(s) /\ reqs[s].conn_id = c
                   /\ ~InBounds(Msg(s), curr_cmd[s])
                   /\ \A t \in WaitingOn(c, p) : reqs[t].req_id < reqs[s].req_id

ErrCrash(c) ==
  /\ pc = "err"
  /\ c \in scan
  /\ NullCursor(c, run.from)
  /\ pc' = "exited"
  /\ UNCHANGED <<reqs, curr_cmd, mask, last_reqs, storage, netVars,
                 timeoutVars, run, cmd, scan, historyVars>>

\* One turn of the loop.  Only the newest such request of a connection is
\* looked at.
ErrSkip(c) ==
  LET W == WaitingOn(c, run.from) IN
  /\ pc = "err"
  /\ c \in scan
  /\ ~NullCursor(c, run.from)
  /\ scan' = scan \ {c}
  /\ \A s \in Newest(W) : Msg(s)[curr_cmd[s]].retries > 0
  /\ UNCHANGED <<reqs, curr_cmd, mask, last_reqs, storage, netVars,
                 timeoutVars, pc, run, cmd, historyVars>>

\* The request is failed with the REPLY that ends its list.  remove_timeout
\* is given the req_id of the client's message (m->req_id), not the
\* request's own.
ErrFail(c, s) ==
  LET to == MatchingReply(Msg(s), curr_cmd[s])
      uid == reqs[s].uid
      unqueued == [reqs EXCEPT ![Slot(uid)].timeout_node =
                                 IF Alive(uid) THEN NONE ELSE @]
  IN
  /\ pc = "err"
  /\ c \in scan
  /\ ~NullCursor(c, run.from)
  /\ scan' = scan \ {c}
  /\ s \in Newest(WaitingOn(c, run.from))
  /\ Msg(s)[curr_cmd[s]].retries = 0
  /\ RemoveNode(NodeOf(uid))
  /\ IF Points(Msg(s), to)
     THEN /\ reqs' = [unqueued EXCEPT ![s].status = "ERR"]
          /\ curr_cmd' = [curr_cmd EXCEPT ![s] = to]
          /\ Process(s, to, "err", run.from)
          /\ UNCHANGED up
     ELSE /\ reqs' = Forget(unqueued, c)
          /\ CloseUp(c)
          /\ UNCHANGED <<curr_cmd, pc, run, cmd>>
  /\ UNCHANGED <<mask, last_reqs, storage, recvd, link, infl, historyVars>>

ErrDone ==
  /\ pc = "err"
  /\ scan = {}
  /\ pc' = "poll" /\ run' = Idle
  /\ UNCHANGED <<reqs, curr_cmd, mask, last_reqs, storage, netVars, timeoutVars,
                 cmd, scan, historyVars>>
-----------------------------------------------------------------------------
\* The steps the worker takes by itself once it is inside a handler.
WorkerStep == \/ SkipCommand \/ StorageCommand \/ StorageFails \/ StartForward
              \/ SkipBranch \/ SendBranch \/ SendBranchFails
              \/ ReplyCommand \/ EndOfCommands
              \/ FailConn \/ ErrDone
              \/ \E c \in Conns : \/ ErrSkip(c) \/ ErrCrash(c)
                                 \/ \E s \in Slots : ErrFail(c, s)

Next == \/ WorkerStep
        \/ \E c \in Conns : \/ Accept(c)
                            \/ UpstreamClosed(c)
                            \/ \E prog \in Programs : RecvRequest(c, prog)
        \/ \E p \in Peers : \/ Established(p)
                            \/ LinkError(p)
                            \/ \E x \in infl[p], st \in PeerStatus :
                                 ForwardReply(p, x, st)
        \/ Timeout
        \/ \E x \in storage : StorageAck(x)

Spec == Init /\ [][Next]_vars

\* The worker never stops inside a handler, an armed timer expires, the
\* kernel reports a connection that is broken, and the storage threads serve
\* every command.  Peers need not answer.
Fairness == /\ WF_vars(WorkerStep)
            /\ WF_vars(Timeout)
            /\ WF_vars(\E x \in storage : StorageAck(x))
            /\ WF_vars(\E p \in Peers : link[p] = "closing" /\ LinkError(p))

FairSpec == Spec /\ Fairness
-----------------------------------------------------------------------------
TypeOK ==
  /\ reqs \in [Slots -> Request]
  /\ last_reqs \in 0 .. MaxIds
  /\ up \in [Conns -> {"new", "open", "closed"}]
  /\ recvd \in [Conns -> Nat]
  /\ link \in [Peers -> {"none", "connecting", "ready", "closing"}]
  /\ tq \subseteq Ids /\ top \in Ids \cup {NONE} /\ armed \in BOOLEAN
  /\ pc \in {"poll", "process", "forward", "fail", "err", "exited"}
  /\ run \in Call
  /\ scan \subseteq Conns
  /\ replied \in [Ids -> Nat]

(* A request is answered at most once, whatever is retried, acknowledged
   late or twice, or failed by the error path: reply() always unlinks the
   request, and req_get_by_id() finds no request that was unlinked, even
   when its slot is in use again. *)
AtMostOneReply == \A i \in Ids : replied[i] <= 1

(* Every request in the table belongs to an open connection: whichever
   handler closes a connection unlinks all its requests, so that no later
   event replies on a socket that is gone. *)
LiveOnOpenConn == \A s \in Slots : Live(s) => up[reqs[s].conn_id] = "open"

(* The timeout queue holds exactly the nodes the table points to, each from
   the slot its request had, although unlinking a request leaves its node
   behind and a new request inherits the pointer: remove_timeout never
   frees a node twice, and a request is never queued twice. *)
NodesMatchQueue ==
  /\ \A s \in Slots : reqs[s].timeout_node # NONE =>
       reqs[s].timeout_node \in tq /\ Slot(reqs[s].timeout_node) = s
  /\ \A i \in tq : reqs[Slot(i)].timeout_node = i
  /\ top = NONE <=> tq = {}
  /\ top # NONE => top \in tq
  /\ armed => tq # {}

(* The timer is off over a queue that is not empty only when the node at its
   top belongs to a request that is gone, which handle_timeout leaves there:
   as long as requests end before their nodes do, some timeout will fire.
   Timeouts that expire in the same microsecond are excluded. *)
TimerOffOverDeadTop ==
  "tie" \notin Faults => (tq # {} /\ ~armed => ~Alive(top))

\* The requests in the table, each with the connection it belongs to.
Open == {<<reqs[s].req_id, reqs[s].conn_id>> : s \in {t \in Slots : Live(t)}}
Engine == INSTANCE AbsEngine WITH Clients <- Conns, next <- last_reqs,
                                  open <- Open, conn <- up

(* Through slots, retries, timeouts, lost peers and late answers, the node
   serves its clients as AbsEngine says: every request ends once, by reply(),
   by handle_timeout or with its connection, and close_and_forget takes the
   requests of one connection, all of them and no others. *)
ImplementsEngine == Engine!Spec

\* The branches of the context slot s is in that have answered.
Answered(s) == {b \in 1 .. Len(Msg(s)) : <<curr_cmd[s], b>> \in acks[s]}
OpenContext(s) == /\ Live(s)
                  /\ InBounds(Msg(s), curr_cmd[s])
                  /\ Msg(s)[curr_cmd[s]].op = "FORWARD_BEGIN"
                  /\ reqs[s].fwd_replies_left # -1

(* While a FORWARD waits, fwd_replies_left is the number of answers it asked
   for less the number of its own branches that have answered, and it stays
   positive: duplicates of retransmitted branches and answers to earlier
   requests of the slot never count. *)
AckAccounting ==
  \A s \in Slots : OpenContext(s) =>
    /\ reqs[s].fwd_replies_left
         = Msg(s)[curr_cmd[s]].nack - Cardinality(Answered(s))
    /\ reqs[s].fwd_replies_left > 0

(* A FORWARD is over only once as many of its branches have answered as it
   asked for, each counted once however often it was retransmitted. *)
QuorumBeforeMovingOn ==
  [][\A s \in Slots :
       /\ OpenContext(s)
       /\ reqs'[s].req_id = reqs[s].req_id
       /\ reqs'[s].fwd_replies_left = -1
       => Cardinality({b \in 1 .. Len(Msg(s)) : <<curr_cmd[s], b>> \in acks'[s]})
            >= Msg(s)[curr_cmd[s]].nack]_vars

(* single_start_forward leaves a branch out only when that branch has
   answered in the context that is being (re)sent. *)
UnackedBranchIsSent ==
  pc = "forward" /\ BranchAcked => cmd \in Answered(run.slot)

(* Every request is answered, with one REPLY, however many peers stay
   silent: a timeout is retried, then skipped.  This is about command lists
   with at most one FORWARD, followed by a REPLY, while no connection, send or
   storage command fails and no two timeouts expire in the same microsecond;
   README.md records what the others do. *)
EveryRequestAnswered ==
  Faults = {} => \A i \in Ids : (i < last_reqs) ~> (replied[i] = 1)

(* Every request leaves the table in the end: it is answered, dropped by its
   timeout, or goes with its connection. *)
EveryRequestEnds == \A i \in Ids : Alive(i) ~> ~Alive(i)
-----------------------------------------------------------------------------
(* No check() and no assert() of the node fails, and no NULL cursor is read.
   A late answer, a REPLY that fails at once and a skip past the end of the
   list each lead to one; see README.md. *)
NodeStaysUp == pc # "exited"

(* While no connection fails, the node closes no connection to a peer.  It
   does when an answer lets a request go on to a command that takes time; see
   README.md. *)
HealthyLinkKept == [][\A p \in Peers : link[p] = "ready" => link'[p] # "none"]_vars
=============================================================================
