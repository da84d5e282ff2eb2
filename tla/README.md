# A TLA+ model of distwalk

distwalk emulates distributed services. A `dw_client` sends requests, each a list
of commands (COMPUTE, STORE, LOAD, PSKIP, FORWARD, REPLY, EOM), to a `dw_node`,
which executes them, forwards parts of them to other nodes and replies. This
directory models the parts of these programs, and of the `dw_proxy` between them,
where state is shared, reused or kept across events, checks the models with TLC on
small instances, and proves the central properties of eight of them with TLAPS for
every instance.

Source paths below are relative to `src/src/`.

## The system

**dw_node.** One or more `conn_worker` threads run a poll loop (`dw_poll.c`) over
their sockets, a timerfd, an eventfd and the pipes of the storage threads.

- A socket event makes the worker receive into the buffer of the connection,
  cut the stream into messages, put each request into the table `reqs[]` and
  execute it (`obtain_messages`, `process_single_message`).
- A FORWARD copies part of the message to one or several peers
  (`start_forward`), and the request waits for as many answers as it asked for
  (`handle_forward_reply`), for a timeout (`handle_timeout`, ordered by
  `priority_queue.c`), or for the failure of the connection (`exec_request`).
- LOAD and a synchronous STORE go through a pipe to a `storage_worker` thread,
  and the request waits for the acknowledgement that comes back.
- A REPLY goes into the send buffer of the connection the request came on
  (`connection.c`), and the request leaves the table.

All threads share `conns[]`, without a lock: a slot is taken with an atomic
exchange on its `busy` flag.

**dw_client.** A client thread opens a connection per session, starts a
`thread_sender` for it, receives the replies, counts them, and prints results. The
two threads share the arrays of timestamps without a lock. What a request asks for
comes from the options: each adds to a list of commands (`ccmd.c`), FORWARDs
reserve the REPLYs that close them, and each packet is a dump of the list, without
what its PSKIPs leave out.

**dw_proxy** relays TCP streams with a delay. Each connection has a sender and a
receiver thread, which share two descriptors and end each other.

### What is hard here

- Two ids name a request: its own (`req->req_id`, which selects the slot) and the
  one of the client's message. Slots are reused, and answers, acknowledgements
  and timeouts come late, twice or never.
- Unlinking a request leaves its node in the timeout queue, and the slot keeps the
  pointer to that node.
- Handlers change the lists that the poll loop is walking.
- Sends and receives are partial. Both buffers move data that others point into.
- Closing a descriptor makes its number available to other threads at once.
- One timer serves all timeouts of a worker, so every key is relative to when the
  timer was last set.
- A connection is polled either for input or for output, and a reply that blocks
  changes which.
- The receiver of the client restarts sessions while the sender of an earlier one
  may still run.

`PROJECT.json` lists these as hazards, each at its line.

## Modules

| Module | Part of the code | State |
|---|---|---|
| `Message` | command walk of `message.c` | operators only |
| `MessageWalk`, `SamplePrograms` | the same walk over structured programs | a cursor on a message |
| `ClientCommands` | command options of `dw_client.c`, `ccmd.c` | the list, reserved REPLYs, scopes, then the message and a hop's cursor |
| `NodeForward`, `AbsEngine` | one `conn_worker`: `dw_node.c`, `request.c`, and what it promises its clients | request table, timeout queue, links, worker |
| `NodeForwardProofs` | proofs about `NodeForward`, and that it implements `AbsEngine` | |
| `DwPoll`, `AbsPoll` | `dw_poll.c`, and what it promises | the lists of select and poll, the kernel's for epoll |
| `DwPollProofs` | proofs about `DwPoll`, and that it implements `AbsPoll` | |
| `Timeouts` | `insert_timeout`, `remove_timeout`, `handle_timeout` | keys, top, the timer, `time_elapsed` |
| `PQueue`, `AbsPQueue` | `priority_queue.c`, and what it promises | nodes, heap, free stack |
| `Storage`, `AbsStorage` | pipes and `storage_worker` | pipes, files, dirty and durable commands, waiting queue |
| `StorageFile` | `store`, `load`, `safe_read` on a file | operators only |
| `StorageProofs` | proofs about `Storage`, and that it implements `AbsStorage` | |
| `ConnPool` | `conns[]` under several threads | fields of the slots, open descriptors, each thread's place |
| `TableProofs` | proofs about `ConnPool`, `Timeouts` and `ClientCommands` | |
| `SendBuf` | send buffer of a connection | buffer, cursors, the stream on the wire |
| `RecvBuf` | receive buffer of a connection | buffer, cursors, request list |
| `Connection` | events of a connection: `exec_request`, `reply` | both buffers, and what is polled for |
| `ReceiveProofs`, `SendProofs` | proofs about the two buffers of `Connection` | |
| `ClientSession` | `thread_receiver`, `thread_sender` | counters, connections, receive buffer, senders, timestamps |
| `ClientSessionProofs` | proofs about `ClientSession` | |
| `Proxy` | `dw_proxy.c` | flows, descriptors, both threads of each flow, the streams |
| `ProxyProofs` | proofs about `Proxy` | |

Each `MC` module gives the constants of a module their values for TLC.
`MCTimeouts` and `MCCommandWalk` hold two specifications each, and the initial state
says which of the two a behaviour is of.

### How the modules fit together

`Message` is shared by `MessageWalk`, `ClientCommands` and `NodeForward`, so the walk
that is checked against the structure of programs is the one the engine uses.

Two modules compose others:

- `Connection` joins `RecvBuf` and `SendBuf`. Each step of it is a step of one or of
  both: a REPLY takes a request out of the receive buffer and puts its answer into
  the send buffer, and a reply that blocks stops the receiving. The client sends
  a request only when it has room in its window.
- `ClientCommands` follows a request from the options to the last hop: the option
  parser builds the list, `ccmd_dump` makes a message of it, and each hop walks the
  message it has with the functions of `Message`, and passes a branch on.

`Storage` uses `StorageFile` for what each command does to the file.

`NodeForward` sees the other parts through what they promise:

- the storage threads as the set `storage` of commands handed over, which is
  `AbsStorage`, implemented by `Storage`;
- the timeout queue as a set of nodes with a top and a timer that is armed or not.
  `Timeouts` is the same three functions with keys and a clock, over a set of keys
  with a least one on top, which is `AbsPQueue`, implemented by `PQueue`;
- the poll loop as one event at a time, on which `AbsPoll` and `ReadyIsServed` of
  `DwPoll` bear.

These last links are by reading, not by a composed specification.

### Correspondence with the code

An action is a handler, or a step of one where a handler loops. `NodeForward!pc`
says where in a handler the worker is: `process` in the loop of
`process_single_message`, `forward` in that of `start_forward`, `fail` and `err`
in the error path of `exec_request`, and `exited` after a failed `check()` or
`assert()`. Variables have the names of the fields they model. History variables
(`replied`, `acks`, `asked`, `once`, `call`, `queued`, `wire`, `taken`,
`left`, `ahead`, `tie`, `hurried`, `misled`, `replies`) are written and never read by
guards, except that `DwPoll!asked` also says which calls a caller can make and
`Connection` counts the replies the client has with `queued` and `wire`.

What is abstracted:

- A message is its list of commands; sizes are dropped, except in the buffers,
  where they are counted in cells.
- Time is dropped from `NodeForward`. The order in which timeouts expire is free, and
  whether the timer is armed is kept. That two timeouts are due in the same
  microsecond, where `remove_timeout` sets the timer to 0 and so disarms it
  (`dw_node.c:308`), is a fault of the model, `"tie"`, like a connection that fails.
  `Timeouts` has time: a tick is a microsecond,
  the worker may be late by any number of them, and what `its_to_us` cuts off is a
  choice between two values.
- In `Storage` offsets and sizes are numbers, and `OFFSETS` is where a `uint32_t`
  wraps. The contents of files are the sets of commands written and synced.
- In `ClientCommands` sizes and addresses are dropped, an option is one of a few
  shapes, and a message has room for a number of commands. The addresses of a
  FORWARD come before its `branch`, as in the manual page.
- In `Proxy` streams are chunks, and `usleep` is a step that comes late. SIGUSR1 is
  installed with `signal()`, so the `read()` it interrupts is started again, and then
  fails on the closed descriptor.
- A socket appears through its outcomes: all, part or nothing sent; blocked; gone;
  or an error the code does not expect, after which `conn_send` leaves the reply where
  it is, `conn_send_v2` gives up the body, and the header loop of `conn_send_v2` takes
  the -1 for a length and sends the byte before the header (a `Stray` cell, once for
  each header).
- The receive buffer of a client session is the number of replies it has room for:
  the client gives nothing back, and `conn_recv` returns 0 when it is full
  (`connection.c:617`), which the receiver takes for a closed connection. A sender is
  not blocked by a node whose replies nobody reads.
- `fwd_replies_mask` is the set of its bits, without the width of an `int`.
- The interest a caller states in `DwPoll` is any flags the callers of `dw_poll.c`
  use, in any handler; this allows more than `dw_node.c` does.

## Runs

Every run finishes within a few minutes with two workers.

| Run | Instance | Distinct states |
|---|---|---|
| `command_walk` | up to 5 options, FORWARDs to 1 or 2 nodes, branched or not, lists of up to 30 commands, messages that fit or not, every hop; and programs of up to three items, FORWARDs nested two deep, cut at every length | 423,689 |
| `node_safety` | 2 clients, 2 peers, 3 programs, 2 slots, 3 requests, all failures | 1,871,762 |
| `node_branches` | 2 clients, 2 peers, FORWARDs to both peers with a retry, waiting for 1 or 2, 2 requests, clients and links that break | 1,732,511 |
| `node_clean` | the same with 5 programs and no faults, fair | 96,736 |
| `lost_timeout` | 2 clients that may leave, one FORWARD each, fair | (violation) |
| `poll` | 3 descriptors, all back ends, room for 3 with poll and for 2 with select, fair | 142,151 |
| `timeouts` | 3 requests, timeouts of 1 and 4 ticks, 3 insertions, fair; and a heap of capacity 6 with 3 keys | 275,589 |
| `storage` | 2 workers, 2 devices, one with O_DIRECT and a periodic sync, 5 commands, pipes of 1, fair | 10,289 |
| `conn_pool` | 2 threads, 2 slots, 3 descriptors, 4 kinds of connection | about 1,250,000 |
| `connection` | 6 messages of 1 to 3 cells, their replies, buffers of 7, with and without defragmentation; one request under way with partial and failing sends and SENDFILE replies, or 2 or 5 with sends that are whole, with and without select, fair | 308,721 |
| `client` | 4 packets in 2 sessions, 3 connections, receive buffers for 1 or 2 replies, blocking or not, fair | 79,024 |
| `proxy` | 3 orderly connections for 2 flows, or 2 of peers that come and go, 2 chunks each way, fair | 393,773 |

### What they show

**command_walk.** Of the lists that options build: `DeferredRepliesUsed`, the
`check()` at the end of the options never fails and a list ends with a REPLY;
`BranchHasBegin`, the pointer that options write acknowledgements and timeouts
through is the FORWARD_BEGIN of a context; `EveryHopReplies`, from any options and
through any skips every node on the way comes to a REPLY at its own level;
`ChainFillsContext`, no FORWARD the user asked for is left out of its context;
`SkipsWholeContexts`, a skip never leaves half a FORWARD behind. Five options are
enough for a context with two branches, a REPLY and a skip, or for one context in
another. Of the walk: `CursorOnItem`, skipping contexts always lands on the start of
the next item of the program, or on NULL outside the message;
`BranchesFollowProgram`, `cmd_bounded_next_forward` enumerates exactly the branches of
a context, and none of a nested or a following one, and `message_copy_tail` sends
the branch the program was built from. The structured programs also have FORWARDs
inside branches, which no options write.

**node_safety.** `AtMostOneReply`: no request is answered twice. `NodesMatchQueue`:
queue and table agree, so no node is freed or inserted twice. `AckAccounting`: the
answers a request still waits for are those of its own branches that have not come,
also when its slot was that of another request whose answers come late.
`ImplementsEngine`: the node implements `AbsEngine`, which knows of no slots, peers or
timers. There a request has a number of its own and a client, and ends once: with
its REPLY, without one, or with its connection, which takes all its own requests
and no others. `Open` maps the table to the requests being served. Three requests for two slots make
slots be reused while answers to their earlier requests are on their way.

**node_branches.** `AckAccounting`, `UnackedBranchIsSent` and
`QuorumBeforeMovingOn`: each branch counts once, however often it is resent and
answers; only branches that answered are left out of a resend; a FORWARD ends only
with the answers it asked for. `TimerOffOverDeadTop`: the one timer is off while
timeouts wait only in the case of `lost_timeout`, when the first of them is that of a
request that is gone; whatever else is inserted, removed or expires, the timer is on.
Two slots for two requests leave no slot to reuse here; that is in `node_safety`.

**node_clean.** `EveryRequestAnswered`: the node answers every request although peers
may stay silent, for which the timer has to be armed whenever a request waits. The
programs have at most one FORWARD, which is followed by the REPLY, and there are no
faults: no connection, send or storage command fails and no two timeouts are due
together. The table below says what happens otherwise. That the node stays up and
keeps its links (`NodeStaysUp`, `HealthyLinkKept`) is not checked here, where nothing
could break it; where something can, it does not hold, as the table records.

**poll.** `EntriesAreCurrent`: deletions that move entries under the cursor never
leave a stale or a second entry. `ImplementsInterest`: each back end polls for what
the last call asked, less an event that was asked ONESHOT and has come.
`ReadyIsServed`: with poll and epoll, a descriptor that stays ready is returned. With
room for 3 in the array of poll there is an entry besides the listener to be moved
into the hole of another, before or behind the cursor.

**timeouts.** `NeverTooEarly`: a timeout fires before its time by at most what
insertions and removals shifted the keys by. `EveryTimeoutEnds`: no insertion or
removal makes the timer forget a timeout, other than one of two that are due
together, or after a request vanished. `ImplementsCollection`: the heap refines
`AbsPQueue`, the collection with a least top that `Timeouts` uses. Capacity 6 is the
smallest in which a removal has to move its replacement up. Three insertions give
a timeout that is inserted after a removal while a third one waits, which is what
shifts keys.

**storage.** `EveryCommandAcked`, and `ImplementsStorage`: refinement of
`AbsStorage`, which counts the acknowledgements of each command that each worker
reads: at most one, by the worker that waits for it, none by another, and of a waited
STORE only when it is durable. `FileWithinMax`: STOREs that go on from wherever the
file is rewind before it grows past its maximum, although a LOAD lets the offset that
is compared part from the position in the file. Start-up allocates `BUF_SIZE` bytes
whatever the maximum is (`dw_node.c:2122`), so the bound is the larger of the two. One worker has as many commands as
can be under way without blocking both threads; see the note on deadlock below. An
assumption of `MCStorage` checks the loop of `safe_read` against the closed form
that `StorageFile` uses, for small files.

**conn_pool.** `SlotExclusive`: a slot has one owner. `SockInOneSlot`: an open
descriptor is in one slot, although its number is reused at once.

**connection.** `ReceivedIntact`: defragmentation keeps the bytes of every request
where its pointer is, and messages are obtained in order, however the stream is
cut. `EmptyBufferReceives`: the room of requests is all given back.
`StreamInOrder`: every header is where the client looks for it. `RoomForReply`: a
client that waits for each reply never makes the assertion in `reply` fail.
`EveryRequestAnswered`: every request is read and answered to its last byte or the
connection is closed, although a reply that blocks turns the reading off, when
`sendto` takes all it is given or nothing, does not fail unexpectedly, and the back
end is not select; with several requests under way it may stall instead, see below.
`StreamInOrder` and `RoomForReply` are checked with unexpected errors, and claim nothing
after a stray byte was sent. Six messages are more than either buffer
holds.

**client.** `CountedOnce` and `ResultsAddUp`: counters and results agree, whatever
connections are refused or closed. `OneSession`, `SessionEndsWithReplies`,
`Terminates`: when replies come one by one, sessions follow one another; a session
whose connection is open and whose receive buffer has room ends only with as many
replies as it has packets; and the client terminates, if its packets are sent (they
fit, on a socket that blocks) and the receive buffer holds the replies of a session.

**proxy.** `RelaysInOrder`: each side gets a prefix of what the other sent.
`ThreadsEnd`: once the client of a flow has left, both its threads end
(`test/test_proxy_threads.sh`). Both are about a behaviour until a descriptor is given
out while one thread of a flow has closed it and the other has not; what happens then
is in the table below. `SocketsClosed`: once one thread of a flow is through with its
closes, none of the flow's sockets is left open, also when the closes of the two
threads fall between each other and the numbers are given out again meanwhile.

Every property of a passing run has a mutant: an operator beside the one it
changes, marked `mutant` in a comment, with which TLC finds the property violated.

### Fairness

- `NodeForward`: weak fairness of the worker's own steps, of an armed timer, of the
  acknowledgements of the storage threads (`EveryCommandAcked` of `Storage`) and of
  reporting a broken link. Peers and clients need do nothing.
- `DwPoll`: the worker polls, walks the events, and its handlers return.
- `Storage`: threads run. A pipe that is ready again and again is served, because
  epoll returns all that is ready: hence strong fairness of reading a pipe.
- `Timeouts`: time passes, and the worker serves its timer and finishes the handler.
- `Connection`: the worker serves its events, and every request comes to its REPLY. A
  socket that would block becomes writable again and again, and a connection that is
  polled for output now and then reports a hang-up, hence strong fairness of a flush
  that makes progress and of a hang-up.
- `Proxy`: some thread runs while any can. Clients and servers need do nothing.
- `ClientSession`: both threads run, and a request on an open connection is answered
  or its connection closed.

### Deadlock checking

It is on for `poll`, `storage` and `conn_pool`. It is off where the model ends: at the
bound on requests or insertions, after the last message or packet, after
`exited`, at the end of a message, when all flows are over. With one more command for
one device in `storage` the worker and the storage thread block on two full pipes:
both write with `safe_write`, which blocks. Real pipes hold thousands of commands.

## Proofs

`tlapm` checks all proofs of the eight modules whose names end in `Proofs`. The
inductive invariants were checked by TLC before they were proved.

**NodeForward**, for any clients, peers, programs, failures and numbers of slots and of requests
(`NodeConstants` only asks that programs end with EOM, that names differ and that
there is a slot). `Inductive` proves the invariant

    IInv == TypeOK /\ AtMostOneReply /\ Table /\ Unused /\ Worker
            /\ Messages /\ NodesMatchQueue

`AtMostOneReply` is not inductive alone: a REPLY adds one to the count of the id in
the slot the worker is on. `Table` says that the request in a slot has the slot of
its id, an id that was given out, no answer yet, and an open connection. `Worker`
says that the slot a handler works on is in use. `Unused` says that ids not given
out have no answers, so a new request starts with none. `Messages` says that what
peers and storage threads return carries ids. One lemma per action shows that it
keeps the invariant. From it follow

- `TypeCorrect`: type correctness;
- `RepliesOnce` and `QueueMatchesTable`: the invariants of `node_safety`;
- `RequestsOnOpenConns`: no request in the table outlives its connection;
- `TimerOffHolds`: `TimerOffOverDeadTop`, with one more invariant, `Queued`: the ids in
  the timeout queue were given out. A step that leaves the timer off leaves the same
  node at the top, and its request stays gone: each lemma also shows `IdsKept`, that a
  step brings no id into the table except the next one, and by `Queued` that is
  another;
- `EngineImplemented`: the refinement `ImplementsEngine`. Each
  handler leaves the ids and the connections in the table alone (a stuttering step),
  frees one slot, frees the slots of one connection, or takes a free slot. That one
  freed slot is one request less needs `Table`: two slots never hold the same id.
  `Table` also gives what `AbsEngine` asks of a REPLY (no answer yet) and of the
  end of a connection (it is open).

**ConnPool**, for any threads, slots and descriptors. `PoolInductive` proves
`PoolTypeOK /\ Held /\ SlotExclusive`, where `Held` says that whoever works on a slot has
its busy flag set; `PoolTypeCorrect` and `SlotsAreExclusive` follow.
`DescriptorsAreExclusive` proves `SockInOneSlot` when no FORWARD uses TLS, along with
`Private`: a descriptor being worked on is open, is nobody else's, and is in no slot
but the thread's own. With TLS the proof does not go through, and rightly: when the
handshake of a FORWARD fails, `dw_node.c:438` closes the descriptor before the slot
gives it up.

**Connection**, for any messages of any sizes, any replies, any size of the buffers,
any cutting of the stream, with and without defragmentation, and any loads:
`ConnConstants` only asks that messages differ and have a header. `ReceiveProofs` has
two invariants and `SendProofs` two more, each proved with the help of those before it.

- `RecvInv == RecvType /\ Framed /\ Apart /\ RequestsIntact` (`RecvInvariant`).
  `RequestsIntact` is not inductive: `conn_req_remove` moves the cells behind the
  request that goes, and the pointers of the newer requests with them. `Apart` says
  that requests lie one behind the other, the newest last, before `curr_proc_buf`, so
  the requests that move are those whose pointers are changed, and nothing is moved
  over an older one. `Framed` says that the cells from `curr_proc_buf` to
  `curr_recv_buf`, and then what is not received, are the stream from the end of the
  last message obtained. `ReceivedIntactHolds` follows.
- `SpaceInv == Compact /\ Waiting` (`SpaceInvariant`): with defragmentation, on a
  connection on which no answers come, the requests fill the buffer up to
  `curr_proc_buf` without a gap, and the worker polls only when the next message is
  incomplete. `EmptyBufferReceivesHolds` follows for messages that fit the buffer:
  a buffer without requests that is full would hold a complete message.
- `WindowInv == Headers /\ Pending /\ InWindow` (`WindowInvariant`): each reply has one
  header in what was queued, a request of the list was obtained and not answered,
  and the client has no more requests without a whole reply under way than its
  window.
- `OrderInv` (`OrderInvariant`), for a window of one or for replies that go out whole, as
  long as no stray byte was sent:
  `Linked`, what waits at `curr_send_buf` and in the file is what the wire lacks of the
  replies made. `reply` keeps it only when nothing waits in front of `curr_send_buf`
  and, for SENDFILE, nothing waits at all. With a window of one this is a counting
  argument (`AllSent`): were a reply not sent whole while another request is in the
  list, the two requests and those answered would be two more than the replies sent.
  `SendBufferType`, which needs no condition, says that what waits is always within
  `send_buf`.

`StreamInOrderHolds` and `RoomForReplyHolds` follow. The first has the loads as its
premise: a window of one, or neither partial sends nor SENDFILE replies; for others the
property fails, as the table below records. The second has as its premise that each
reply fits the buffer alone. The client checks the size of its requests
(`dw_client.c:984`) but of the sizes of replies only the bounds of a distribution
(`dw_client.c:1023`), which a fixed size does not pass through, so these premises
are stated with the theorems and are no assumptions of the module.

That `UpTo`, the recursive function the initial stream is made of, exists and what it
computes is proved from a least element (`LeastElement`, `IntervalInduction`).

**Timeouts**, for any requests and durations. `TimeoutsInductive` proves

    IInv == TypeOK /\ TopFirst /\ DeadlinesMet

`NeverTooEarly` speaks of the top when the timer has expired, but a timeout may have
been below the top for any number of insertions and removals. `DeadlinesMet` bounds
all of them while the timer runs: `Planned(r)`, the time until timeout r expires if
nothing else happens, is at least what is left to its deadline, less `ahead`, what
the keys were shifted by. `TopFirst` says that the timer is that of the top, whose
key is least. `NeverTooEarlyHolds` follows.

**ClientCommands**, for any options, capacity and number of options.
`CommandsInductive` proves

    CommandsInv == CommandsType /\ reserved <= fwd_scope
                   /\ DeferredRepliesUsed /\ BranchHasBegin

The loop at the end of the options stops when either counter is 0, and the `check()`
after it looks at one: it holds since no more REPLYs are reserved than FORWARDs are
in scope, although a branch that is closed by the next one takes a reserved REPLY and
leaves the scope as it is.

**Storage**, for any workers, devices, commands, sizes and offsets.
`StorageInductive` proves

    IInv == TypeOK /\ Routed /\ PosBehind /\ FileWithinMax

`Routed` says that a command is only in the pipe of its device, so the maximum it is
compared with is that of its file. `PosBehind` says that the position in the file is
never ahead of the `storage_offset` that is compared: a LOAD adds all it was asked
for to one, and moves the other back to the start when it meets the end of the file.
`FileWithinMaxHolds` follows.

`StorageImplementsContract` proves the refinement `ImplementsStorage`, from a second
invariant that `PlacesInductive` proves:

    RInv == PlaceTypes /\ OwnPlace /\ OnePlace /\ SyncedFirst

`OwnPlace` says that a command is only in the pipes, the waiting queue and the
hands of its own device and worker, `OnePlace` that it is in one of these places at a
time, once. So the handing over of a command is new to the contract, and an
acknowledgement is its first. `SyncedFirst` says that a STORE on its way back is on
the disk, and that one in the waiting queue was written, and is on the disk once the
loop of the timer runs: the loop answers all that is in the queue after one `fsync`.

**DwPoll**, for any descriptors, any of the three back ends and any calls the worker
can make. `PollInductive` proves

    IInv == Typed /\ OwnLists /\ Lists /\ ClosedIsForgotten
            /\ (pc # "handle" => call = <<>>)

`Lists` says that a descriptor has one entry in a list, with the `aux` of the last
call and no event that call did not ask for. It is not inductive alone: `dw_poll_add`
appends without looking for an entry. `ClosedIsForgotten` says that nothing is asked
of a closed descriptor, so there is none to double. Deletion moves the last entry
into the hole; the lemma `DelList` shows that this takes away the one entry and no
other. `EntriesStayCurrent` follows. For the refinement, `PollImplementsInterest`,
each step is one of `AbsPoll`: a call sets the interest of one descriptor, and
`dw_poll_next` ends an interest only through a ONESHOT entry, which by `Lists` is of
a descriptor whose last call had ONESHOT. That an entry with ONESHOT is for one event
(the callers in `dw_node.c` never ask for more) is needed there: with poll the
whole entry goes when one event comes.

**ClientSession**, for any number of packets, length of sessions, number of
connections and settings (`ClientConstants` asks that sessions divide the packets:
`dw_client.c:1186` rounds `num_pkts` up to a multiple). `SessionInductive` proves

    IInv == Typed /\ Cursor /\ Session /\ Single /\ Whole /\ Times
            /\ ResultsAddUp /\ \A c \in Conns : SenderInv(c)

`CountedOnce` speaks of counters that grow by one for each reply, and by the rest of a
session when the connection closes. `Session` bounds both: what is counted of a
session and what waits for a reply is no more than its sender has sent, unless all of
it was counted. `Cursor` says that the receiver connects only at multiples of
`pkts_per_session`, `SenderInv` that only what was sent is answered. `Single` and
`Whole` are what holds in addition when replies come one by one or whole, `Times`
that the response times that are set are as many as the successes, and that no
sender still has a packet ahead whose time is set: a sender resets the time of each
packet before it sends it. `CountedOnceHolds`, `OneSessionHolds`,
`ResultsAddUpHolds` and `SessionEndsWithRepliesHolds` follow, each with the condition
its property has. The last needs `Replied` too: the replies received on the connection
are as many as the packets counted since it was opened, as long as neither the node
nor a full buffer has ended it.

**Proxy**, for any number of connections and flows and everything the peers may send.
`ProxyInductive` proves

    IInv == hurried \in BOOLEAN /\ (~hurried => Core)
    Core == TypeOK /\ Slots /\ Recorded /\ Connecting /\ Own /\ Reads /\ OneStream

`hurried` is set when a descriptor is given out between the two closes of it; after
that nothing is claimed, see below. `Recorded` says that an open socket is
under the descriptor its flow records, `Slots` that flows do not share a slot, and
`Own` that a thread finds its own sockets or closed ones: a descriptor that was closed
may be given out again, but only when no running thread still has it.
`Reads` says which socket a waiting `read()` holds, and `OneStream` that what was
written to one end, what is in the buffer of the thread and what is unread at the
other end follow each other without a gap, as long as the reader is there.
`RelaysInOrderHolds` follows.

`SocketsClosedHolds` claims something after `hurried` too, so it has an invariant of its
own, about the table of descriptors only:

    TInv == ThreadShape /\ TableType /\ Slots /\ Recorded /\ Fresh /\ Shut

`Shut` says of each end that no descriptor refers to it once one of the two threads is
past its close. A close takes away whatever its number refers to, be it of another
flow; `Recorded` says that no other number can refer to the end that is to be closed,
and `Fresh` that the server's end is opened once, before the receiver runs.

**Only model-checked.**

- Liveness under fairness, which is out of reach of the prover.
- What recursive definitions compute: everything about `Message` and the walk of
  `ClientCommands` (`CursorOnItem`, `BranchesFollowProgram`, `EveryHopReplies`,
  `ChainFillsContext`, `SkipsWholeContexts`) and the refinement by `PQueue`, whose `up`
  and `down` are recursive operators. Arguments by a least element stand in for
  induction over numbers in `ProxyProofs`, `DwPollProofs` and `ReceiveProofs`, where
  they reach a recursive function; they do not reach recursive operators.
- `AckAccounting`, `UnackedBranchIsSent` and `QuorumBeforeMovingOn` of `NodeForward`. They hold for the programs and failures of
  their runs and not for all: a FORWARD that is given up leaves its context open, and
  an answer is matched by the address it comes from, so other programs violate
  them, as the table below records. A theorem would be about the programs.
- `EveryRequestAnswered` of `Connection`, which is liveness.

## Disagreements between the code and its documentation

One is a run, `lost_timeout`. `handle_timeout` finds no request for the node at the
top of the queue and returns (`dw_node.c:994`) without removing the node or arming
the timer. A client that leaves while its FORWARD waits produces such a node. Later
requests then wait for ever for peers that stay silent, although a FORWARD has a
timeout (`man/dw_client.1:182`). Peers and links are faultless in this run.

The others were found while modelling. Each line names the property and the
instance in which TLC finds it violated.

| Where | What the code does | Shown by |
|---|---|---|
| `dw_node.c:1132` | `remove_timeout` is given the client's id, and takes the timeout of another request away | `EveryRequestEnds`, `HopEitherPeer`, link errors, fair |
| `dw_node.c:1019` | a skipped FORWARD leaves its mask to the next, which leaves out a branch it never sent (comment at `dw_node.c:352`) | `UnackedBranchIsSent`, `GiveUpPrograms` |
| `message.c:130` | an answer that comes after its FORWARD is over fails a `check()` (comment at `dw_node.c:533`) | `NodeStaysUp`, `LatePrograms` |
| `connection.c:206` | a REPLY that fails with EPIPE while the request is read closes the socket twice and fails an assertion | `NodeStaysUp`, `SimplePrograms`, reply errors |
| `dw_node.c:1124` | the scan of the error path reads the command of a request whose cursor is NULL, after a skip past the end of the list | `NodeStaysUp`, `SafetyPrograms`, clients that leave |
| `dw_node.c:927` | "more time" after an answer closes the healthy link (comment at `dw_node.c:821`) | `HealthyLinkKept`, `TwoHopsPrograms` |
| `dw_poll.c:136` | with select, asking for input after a flush keeps ONESHOT, and later input is not heard (comments at `dw_poll.c:120,138`) | `SocketIsHeard`, select only |
| `dw_node.c:817` | a closed connection keeps its slot busy (`connection.h:31,56`) | `ClosedIsNotBusy`, accepted TCP |
| `connection.c:273` | `conn_free` writes to the slot after giving it up (comment at `connection.c:285`) | `ServerFlagKept`, accepted TLS |
| `connection.c:189` | a TCP FORWARD may take the connection of another thread (comment at `connection.c:285`) | `OneUser`, TCP FORWARDs |
| `connection.c:186` | a UDP FORWARD may take a TCP connection (comment at `connection.c:170`) | `FoundIsOfKind`, accepted TCP and UDP FORWARDs |
| `connection.c:336` | after a partial send the next reply overwrites what waits (`connection.h:44,45`) | `StreamInOrder`, window 2, partial sends |
| `connection.c:535` | the rest of a partly sent reply is not sent (comment at `dw_node.c:605`) | `EveryRequestAnswered` of `Connection` without its condition, partial sends |
| `connection.c:492` | a second reply sends what the first left; the flush that was asked for finds nothing, which "should not even be possible" (comment there), asks for POLLOUT again, and the connection is never read again | `EveryRequestAnswered` of `Connection` without `Stalled`, window 2 |
| `connection.c:519` | after an error other than EAGAIN, EPIPE and ECONNRESET `conn_send` returns -1 and leaves the reply in the buffer; the REPLY goes on, and nobody asks for POLLOUT (comment at `dw_node.c:605`) | `EveryRequestAnswered` of `Connection` without its condition, errors |
| `connection.c:555` | the header loop adds the -1 of such an error to `curr_send_buf` and `curr_send_size`, and the byte before the header is sent (`connection.h:44,45`) | `StreamInOrder` without `Slipped`, errors and SENDFILE |
| `dw_node.c:1092` | with select the ONESHOT of the request for POLLIN is taken at its word: after one more receive the connection is not heard | `EveryRequestAnswered` of `Connection` without its condition, select |
| `connection.c:370` | a SENDFILE reply takes the place of one that waits (comment at `connection.c:366`) | `StreamInOrder`, window 2, two SENDFILE replies |
| `dw_node.c:921` | the room of answers to FORWARDs is not given back (help at `dw_node.c:1641`) | `EmptyBufferReceives` without its condition, answers only |
| `connection.c:617` | the client does not give back the room of replies either: after `BUF_SIZE` bytes an open session is ended as if the node had closed it, its other packets are counted as failed, and its sender is joined while nobody reads (`README.md:136`) | `SessionEndsWithReplies` without `RecvBufFull`, room 1 |
| `dw_client.c:288` | on a non-blocking socket EAGAIN ends the sender, and the receiver waits for replies to what was not sent | `Terminates` without `~opt.nonblock` |
| `dw_client.c:542` | with two replies in one receive the end of a session is missed (`README.md:137`) | `OneSession` without its condition, batch 2 |
| `dw_client.c:542` | a receive that ends inside a header ends the session (`README.md:136`) | `SessionEndsWithReplies` without `OneByOne`, partial |
| `dw_client.c:546` | the per-session output numbers packets one too high (`man/dw_client.1:71`) | `ResultsAreLabelled` |
| `dw_client.c:558` | timestamps are reset before the sender is joined (comment at `dw_client.c:556`) | `StampsAreReset` |
| `dw_node.c:269` | `time_elapsed` is added to a key that already counts it: later timeouts fire late, and if the new one becomes the top, others fire early, one of 4 ticks after 2 (`man/dw_client.1:182`) | `readable => left[top] = 0` in place of `NeverTooEarly`, durations 1 and 4 |
| `dw_node.c:312` | of two timeouts that are due together the second sets the timer to 0, which disarms it (comment at `dw_node.c:285`) | `EveryTimeoutEnds` without `tie`; `TimerOffOverDeadTop` without its condition, `"tie"` |
| `dw_node.c:2122` | the file is allocated `BUF_SIZE` bytes also when its maximum is smaller (`man/dw_node.1:117`) | `FileWithinMax` with the maximum only, `BUF_SIZE` above it |
| `dw_node.c:749` | with O_DIRECT the offset -1 is rounded up and wraps to 0, so every STORE without an offset is at 0 and none goes on from the last (`man/dw_node.1:121`) | a STORE to a device in `Direct` with `Automatic`, `StoreOffset` |
| `dw_client.c:884` | after `-F a,branch -R -C 1`, another `-F` finds no reserved REPLY and reads through NULL | `ForwardCrashes` |
| `dw_client.c:883` | inside another FORWARD the same options close that one instead, and a later branch joins a context it does not belong to and is never sent (`man/dw_client.1:213`) | `ChainFillsContext` without `misled` |
| `ccmd.c:48` | a skip of more than is left on its level drops the REPLY too, and nobody answers (`man/dw_client.1:260`) | `EveryHopReplies` without `complete` |
| `dw_client.c:955` | a branched FORWARD waits for the answers of its first group only, where by default all are needed (`man/dw_client.1:200`) | `Acks` and `Forwards`, two branches |
| `dw_proxy.c:102` | both threads close both descriptors: one that is given to another flow in between is closed, read or written by the wrong threads, or a write fails a `check()` and the proxy exits | `RelaysInOrder` without `hurried` |
| `dw_proxy.c:181` | slots of flows that ended are not reused: the 17th connection ends the proxy | `Accept`, `exited` |

Where a passing run checks such a property, its instance or the condition in the
property leaves the case out, and says so.

## Not modelled

- Statistics, logging, start-up and shutdown: no state that a property here depends
  on. Of the options of the client only those that build the command list are
  modelled; a list of more than 100 commands, for which `ccmd_add` links nodes it does
  not enqueue, and `branch` before the address, which leaves `curr_forward_begin`
  unset, are not.
- DPDK: built only with `DPDK_ENABLED`, around an external library.
- TLS records and the handshake: OpenSSL's. Only the flags of a slot are modelled.
- UDP in the buffers.
- `distrib.c`: floating-point sampling, out of TLC's reach.
- `queue.c` beyond the two operations that the options use: its ring never wraps in
  the programs. `address_utils.c`, `thread_affinity.c`: parsing and system calls.
- I/O errors of the storage file in the storage threads, which `check()` turns into an exit.
- The width of `fwd_replies_mask`, `req_id` and the keys of timeouts: the values at
  which they overflow are far beyond what TLC enumerates.

## Plan

The engine with its abstract specification and proofs, the parts it rests on, the timeouts with a clock, the
composed buffers, the command lists of the client, the storage file and the proxy
are done. What would add most next:

1. `NodeForward` with `Storage` and `Timeouts` in place of its view of them, or a
   refinement of that view by each.
2. Theorems about `AckAccounting` and `UnackedBranchIsSent`, with a condition on
   programs that excludes the cases of the table above.
3. UDP in the buffers.
