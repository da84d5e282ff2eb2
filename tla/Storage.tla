------------------------------ MODULE Storage ------------------------------
(***************************************************************************)
(* The conn_worker and storage_worker threads of src/dw_node.c and the     *)
(* pipes between them: a pipe from every conn_worker to every              *)
(* storage_worker, and one back for the acknowledgements.  Pipes hold a    *)
(* bounded number of commands and their writers block.  A STORE that waits *)
(* for its sync is acknowledged after an fsync() of its own, or, in the    *)
(* devices with a periodic sync, by the next timer event.  The files are   *)
(* those of StorageFile.                                                   *)
(***************************************************************************)
EXTENDS SequencesExt, StorageFile

CONSTANTS Workers,   \* conn_worker threads
          Devices,   \* storage_worker threads
          Periodic,  \* the devices with periodic_sync_msec > 0
          Cmds,      \* the commands requests execute, each at most once
          WorkerOf, DeviceOf, OpOf, \* of each command; OpOf is "LOAD",
                                    \* "STORE" or "SYNC", a waited STORE
          SizeOf, OffsetOf, \* bytes and file offset of each command
          Direct,    \* the devices with use_odirect
          MaxSize,   \* max_storage_size of each device
          PipeSize   \* commands that fit in a pipe

ASSUME StorageConstants == /\ WorkerOf \in [Cmds -> Workers]
                           /\ DeviceOf \in [Cmds -> Devices]
                           /\ OpOf \in [Cmds -> {"LOAD", "STORE", "SYNC"}]
                           /\ SizeOf \in [Cmds -> Nat]
                           /\ OffsetOf \in [Cmds -> Nat]
                           /\ MaxSize \in [Devices -> Nat]
                           /\ Periodic \subseteq Devices
                           /\ Direct \subseteq Devices
                           /\ PipeSize \in Nat \ {0}

VARIABLES todo,      \* commands no request has come to yet
          writing,   \* the command each conn_worker is in safe_write() with
          to, back,  \* storefd and store_replyfd pipes of <<worker, device>>
          file,      \* the storage file of each device
          dirty,     \* written to the file of a device, not synced
          durable,   \* synced
          pending,   \* the command a storage_worker is about to acknowledge
          syncing,   \* is a storage_worker in the loop of its timer event?
          waiting,   \* sync_waiting_queue of each storage_worker
          acks       \* history: how often a conn_worker has read the
                     \* acknowledgement of a command

connVars == <<todo, writing>>
vars == <<connVars, to, back, file, dirty, durable, pending, syncing, waiting, acks>>

Nobody == "none"
Waits(c) == OpOf[c] # "STORE"

Init == /\ todo = Cmds
        /\ writing = [w \in Workers |-> Nobody]
        /\ to = [x \in Workers \X Devices |-> <<>>]
        /\ back = [x \in Workers \X Devices |-> <<>>]
        /\ file = [d \in Devices |-> NewFile]
        /\ dirty = [d \in Devices |-> {}]
        /\ durable = {}
        /\ pending = [d \in Devices |-> Nobody]
        /\ syncing = [d \in Devices |-> FALSE]
        /\ waiting = [d \in Devices |-> {}]
        /\ acks = [x \in Workers \X Cmds |-> 0]
-----------------------------------------------------------------------------
\* A conn_worker is in its poll loop, and not blocked in a write.
Polling(w) == writing[w] = Nobody

\* process_single_message comes to a LOAD or STORE.
Issue(c) ==
  /\ c \in todo
  /\ Polling(WorkerOf[c])
  /\ todo' = todo \ {c}
  /\ writing' = [writing EXCEPT ![WorkerOf[c]] = c]
  /\ UNCHANGED <<to, back, file, dirty, durable, pending, syncing, waiting, acks>>

\* Its safe_write(), when there is room.
Write(w) ==
  LET c == writing[w]
      p == <<w, DeviceOf[c]>>
  IN
  /\ c # Nobody
  /\ Len(to[p]) < PipeSize
  /\ to' = [to EXCEPT ![p] = Append(@, c)]
  /\ writing' = [writing EXCEPT ![w] = Nobody]
  /\ UNCHANGED <<todo, back, file, dirty, durable, pending, syncing, waiting, acks>>

\* The STORAGE event of conn_worker.
ReadAck(w, d) ==
  /\ Polling(w)
  /\ back[w, d] # <<>>
  /\ acks' = [acks EXCEPT ![<<w, Head(back[w, d])>>] = @ + 1]
  /\ back' = [back EXCEPT ![<<w, d>>] = Tail(@)]
  /\ UNCHANGED <<connVars, to, file, dirty, durable, pending, syncing, waiting>>
-----------------------------------------------------------------------------
Idle(d) == pending[d] = Nobody /\ ~syncing[d]

\* store() ends with an fsync() when its command waits and there is no
\* periodic one.
NoSync(d, c) == FALSE \* mutant: fsync() is left to the file system
SyncsNow(d, c) == OpOf[c] = "SYNC" /\ d \notin Periodic

\* pqueue_insert() into sync_waiting_queue.
Forgotten(d, c) == waiting \* mutant: the insertion is missing
Enqueued(d, c) == [waiting EXCEPT ![d] = @ \cup {c}]

\* load() or store()
Transfer(d, c) ==
  IF OpOf[c] = "LOAD" THEN AfterLoad(file[d], SizeOf[c], OffsetOf[c])
  ELSE AfterStore(file[d], d \in Direct, SizeOf[c], OffsetOf[c], MaxSize[d])

\* The STORAGE event of storage_worker: read the command, load() or store(),
\* then acknowledge it or let it wait for the timer.
Execute(w, d) ==
  LET c == Head(to[w, d])
      written == IF OpOf[c] = "LOAD" THEN dirty[d] ELSE dirty[d] \cup {c}
  IN
  /\ Idle(d)
  /\ to[w, d] # <<>>
  /\ to' = [to EXCEPT ![<<w, d>>] = Tail(@)]
  /\ file' = [file EXCEPT ![d] = Transfer(d, c)]
  /\ dirty' = [dirty EXCEPT ![d] = IF SyncsNow(d, c) THEN {} ELSE written]
  /\ durable' = IF SyncsNow(d, c) THEN durable \cup written ELSE durable
  /\ \/ /\ OpOf[c] = "STORE"
        /\ UNCHANGED <<pending, waiting>>
     \/ /\ OpOf[c] = "LOAD" \/ (OpOf[c] = "SYNC" /\ d \notin Periodic)
        /\ pending' = [pending EXCEPT ![d] = c]
        /\ UNCHANGED waiting
     \/ /\ OpOf[c] = "SYNC" /\ d \in Periodic
        /\ waiting' = Enqueued(d, c)
        /\ UNCHANGED pending
  /\ UNCHANGED <<connVars, back, syncing, acks>>

\* The acknowledgement goes to the conn_worker the command came from.
Reply(d) ==
  LET c == pending[d]
      p == <<WorkerOf[c], d>>
  IN
  /\ c # Nobody
  /\ Len(back[p]) < PipeSize
  /\ back' = [back EXCEPT ![p] = Append(@, c)]
  /\ pending' = [pending EXCEPT ![d] = Nobody]
  /\ UNCHANGED <<connVars, to, file, dirty, durable, syncing, waiting, acks>>

\* The TIMER event: fsync(), then the loop over sync_waiting_queue.
TimerSync(d) ==
  /\ d \in Periodic
  /\ Idle(d)
  /\ durable' = durable \cup dirty[d]
  /\ dirty' = [dirty EXCEPT ![d] = {}]
  /\ syncing' = [syncing EXCEPT ![d] = TRUE]
  /\ UNCHANGED <<connVars, to, back, file, pending, waiting, acks>>

\* The queue is ordered by worker_id; here any order.
Pop(d, c) == [waiting EXCEPT ![d] = @ \ {c}]

TimerPop(d) ==
  /\ syncing[d] /\ pending[d] = Nobody
  /\ \/ /\ \E c \in waiting[d] : /\ pending' = [pending EXCEPT ![d] = c]
                                 /\ waiting' = Pop(d, c)
        /\ UNCHANGED syncing
     \/ /\ waiting[d] = {}
        /\ syncing' = [syncing EXCEPT ![d] = FALSE]
        /\ UNCHANGED <<pending, waiting>>
  /\ UNCHANGED <<connVars, to, back, file, dirty, durable, acks>>

Next == \/ \E c \in Cmds : Issue(c)
        \/ \E w \in Workers : Write(w)
        \/ \E w \in Workers, d \in Devices : ReadAck(w, d) \/ Execute(w, d)
        \/ \E d \in Devices : Reply(d) \/ TimerSync(d) \/ TimerPop(d)

Spec == Init /\ [][Next]_vars

\* Every thread keeps running, serves each of its pipes, and the periodic
\* timer goes on.
Fairness ==
  /\ \A w \in Workers : WF_vars(Write(w))
  /\ \A w \in Workers, d \in Devices : SF_vars(ReadAck(w, d)) /\ SF_vars(Execute(w, d))
  /\ \A d \in Devices : WF_vars(Reply(d)) /\ SF_vars(TimerSync(d)) /\ WF_vars(TimerPop(d))
FairSpec == Spec /\ Fairness
-----------------------------------------------------------------------------
\* Its acknowledgement has been read by the conn_worker that waits for it.
Acked(c) == acks[WorkerOf[c], c] # 0

(* The threads implement AbsStorage: the acknowledgement of a command is read
   at most once, by the conn_worker that waits for it and by no other, and
   that of a STORE only after an fsync() that came after its write(). *)
Handed == {c \in Cmds \ todo : Waits(c) /\ ~Acked(c)}
Contract == INSTANCE AbsStorage
              WITH Waited <- {c \in Cmds : Waits(c)},
                   Stores <- {c \in Cmds : OpOf[c] # "LOAD"},
                   Owner <- WorkerOf,
                   storage <- Handed
ImplementsStorage == Contract!Spec

(* A storage file never grows past max_storage_size, or past the BUF_SIZE
   bytes it is created with when that is more, as long as every STORE fits
   below its maximum: the STOREs of all conn_workers that go on from wherever
   the file is rewind in time, though the storage_offset they are compared by
   is not the position a LOAD left the file at. *)
FileWithinMax ==
  \A d \in Devices :
    (\A c \in Cmds : DeviceOf[c] = d /\ OpOf[c] # "LOAD" =>
       Fits(d \in Direct, SizeOf[c], OffsetOf[c], MaxSize[d]))
      => file[d].size <= MaxSize[d] \/ file[d].size <= BUF_SIZE

(* Every command a request waits for is acknowledged, as long as the pipes do
   not fill up on both sides: with two pipes and two more commands of one
   worker under way on one device, the worker blocks in its write of a
   command and the storage_worker in its write of an acknowledgement, each
   waiting for the other. *)
EveryCommandAcked ==
  \A c \in Cmds : Waits(c) /\ c \notin todo ~> Acked(c)
=============================================================================
