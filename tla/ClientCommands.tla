--------------------------- MODULE ClientCommands ---------------------------
(***************************************************************************)
(* The command list dw_client builds from its options, the message it      *)
(* dumps the list into, and the nodes that walk that message.              *)
(*                                                                         *)
(* argp hands the options to argp_client_parse_opt one at a time           *)
(* (src/dw_client.c).  Each appends commands to the list `ccmd', a         *)
(* queue_t with links between its nodes (src/ccmd.c, src/queue.c), here a  *)
(* sequence.  A FORWARD reserves the REPLY that will close it; `reserved'  *)
(* counts the reserved ones, and fwd_scope the FORWARDs still open.        *)
(* ARGP_KEY_END uses up what is left.  For every request ccmd_dump then    *)
(* copies the list into the message, deciding at each PSKIP whether to     *)
(* leave the next contexts out, and the nodes walk the message as in       *)
(* Message: a hop either passes a FORWARD context or sends one of its      *)
(* branches to the next hop.                                               *)
(*                                                                         *)
(* STORE, LOAD and COMPUTE differ only in their payload: one of them       *)
(* stands for the three.  Sizes count commands.  A command_t* or           *)
(* ccmd_node_t* is an index, NULL is 0.                                    *)
(***************************************************************************)
EXTENDS Message

CONSTANTS SimpleOps,   \* operations without structure
          ForwardArgs, \* arguments of a FORWARD: [n, branch, nack], 0 no nack=
          SkipCounts,  \* values of n_skip
          Sizes,       \* commands that fit into a message
          CAPACITY,    \* of the two queues, 100 in dw_client.c
          MaxOptions   \* bound on the number of options

ASSUME CommandConstants ==
  /\ ForwardArgs \subseteq [n : Nat \ {0}, branch : BOOLEAN, nack : Nat]
  /\ SkipCounts \subseteq Nat
  /\ CAPACITY \in Nat \ {0}

VARIABLES stage,       \* "options", "failed", "crashed", "built", "unsent",
                       \* "walk"
          ccmd,        \* the command list
          reserved,    \* size of reserved_fwd_replies
          fwd_scope,
          branching_degree,
          curr_forward_begin,
          last_reserved_used,
          options,     \* how many options were read
          replies,     \* REPLY options since the last FORWARD option
          misled,      \* a REPLY closed a FORWARD it was not meant for
          message,     \* what ccmd_dump sent, as the current hop has it
          complete,    \* no PSKIP ran into the end of its context
          cmd          \* the hop's cursor

parser == <<reserved, fwd_scope, branching_degree, curr_forward_begin,
            last_reserved_used, options, replies, misled>>
dumped == <<message, complete, cmd>>
commandVars == <<stage, ccmd, parser, dumped>>

\* ccmd_add: the node calloc() and the caller fill in.
Node(op) == [op |-> op, branched |-> FALSE, n_ack |-> 0, n_skip |-> 0]

\* queue_enqueue and queue_dequeue_tail on reserved_fwd_replies.
Enqueued(n) == IF n = CAPACITY THEN n ELSE n + 1
Dequeued(n) == IF n = 0 THEN n ELSE n - 1

LastIs(l, op) == l # <<>> /\ l[Len(l)].op = op

CommandsInit == /\ stage = "options"
                /\ ccmd = <<>>
                /\ reserved = 0
                /\ fwd_scope = 0
                /\ branching_degree = 0
                /\ curr_forward_begin = NULL
                /\ last_reserved_used = NULL
                /\ options = 0
                /\ replies = 0
                /\ misled = FALSE
                /\ message = <<>>
                /\ complete = TRUE
                /\ cmd = NULL

\* The next option adds n commands.
Reading(n) == /\ stage = "options"
              /\ options < MaxOptions
              /\ Len(ccmd) + n <= CAPACITY
              /\ options' = options + 1
-----------------------------------------------------------------------------
\* COMP_TIME, STORE_DATA, LOAD_DATA
AddSimple(op) ==
  /\ Reading(1)
  /\ ccmd' = Append(ccmd, Node(op))
  /\ UNCHANGED <<stage, reserved, fwd_scope, branching_degree,
                 curr_forward_begin, last_reserved_used, replies, misled,
                 dumped>>

\* SKIP_CMD
AddSkip(n) ==
  /\ Reading(1)
  /\ ccmd' = Append(ccmd, [Node("PSKIP") EXCEPT !.n_skip = n])
  /\ UNCHANGED <<stage, reserved, fwd_scope, branching_degree,
                 curr_forward_begin, last_reserved_used, replies, misled,
                 dumped>>

\* FORWARD_CMD, its first lines: a branch without its REPLY is closed by the
\* FORWARD that follows it.
NeverCloses == FALSE \* mutant: the branch stays open
ClosesBranch == branching_degree > 0 /\ ~LastIs(ccmd, "REPLY")

\* How many answers the FORWARD_BEGIN waits for.
Acks(f) == IF f.nack = 0 \/ (~f.branch /\ f.nack > f.n) THEN f.n ELSE f.nack

\* The FORWARD nodes of one option, the first of them at position `start':
\* all become FORWARD_CONTINUE but the one its context begins with.
Forwards(f, start, begin) ==
  [i \in 1 .. f.n |->
     IF start + i - 1 = begin
     THEN [Node("FORWARD_BEGIN") EXCEPT !.branched = f.branch,
                                        !.n_ack = Acks(f)]
     ELSE [Node("FORWARD_CONTINUE") EXCEPT !.branched = f.branch]]

\* The branches of the current context, this one included.
DegreeKept(f) == branching_degree + (IF f.branch THEN 1 ELSE 0) \* mutant: no reset
Degree(f) == IF f.branch THEN branching_degree + 1 ELSE 0

\* FORWARD_CMD with one address or more, "branch" after the addresses.
AddForward(f) ==
  LET base == IF ClosesBranch THEN Append(ccmd, Node("REPLY")) ELSE ccmd
      start == Len(base) + 1
      begin == IF f.branch /\ branching_degree > 0 THEN curr_forward_begin
               ELSE start
  IN /\ Reading(f.n + 1)
     /\ ~(ClosesBranch /\ reserved = 0)
     /\ ccmd' = base \o Forwards(f, start, begin)
     /\ reserved' = Enqueued(IF ClosesBranch THEN Dequeued(reserved)
                             ELSE reserved)
     /\ fwd_scope' = fwd_scope + 1
     /\ branching_degree' = Degree(f)
     /\ curr_forward_begin' = begin
     /\ replies' = 0
     /\ misled' = \/ misled
                  \/ ClosesBranch /\ replies > 0
                  \/ branching_degree > 0 /\ f.branch /\ replies > 1
     /\ UNCHANGED <<stage, last_reserved_used, dumped>>

\* FORWARD_CMD when there is no reserved REPLY to close the branch with:
\* queue_tail() is NULL and queue_node_key() reads through it.
ForwardCrashes ==
  /\ Reading(0)
  /\ ClosesBranch
  /\ reserved = 0
  /\ stage' = "crashed"
  /\ UNCHANGED <<ccmd, reserved, fwd_scope, branching_degree,
                 curr_forward_begin, last_reserved_used, replies, misled,
                 dumped>>

\* REPLY_CMD: the REPLY of the innermost FORWARD, or, outside every FORWARD,
\* one more REPLY or a new size for the REPLY before it.
AddReply ==
  LET inside == fwd_scope > 0 /\ ccmd # <<>>
      updates == /\ fwd_scope = 0
                 /\ LastIs(ccmd, "REPLY")
                 /\ last_reserved_used # Len(ccmd)
  IN /\ Reading(1)
     /\ ccmd' = IF updates THEN ccmd ELSE Append(ccmd, Node("REPLY"))
     /\ reserved' = IF inside THEN Dequeued(reserved) ELSE reserved
     /\ fwd_scope' = IF inside THEN fwd_scope - 1 ELSE fwd_scope
     /\ last_reserved_used' = IF inside THEN Len(ccmd) + 1
                              ELSE last_reserved_used
     /\ replies' = replies + 1
     /\ UNCHANGED <<stage, branching_degree, curr_forward_begin, misled, dumped>>

\* ARGP_KEY_END: how many reserved REPLYs its loop adds.
NoneAdded == 0 \* mutant: the loop is missing
Exhausted == IF reserved < fwd_scope THEN reserved ELSE fwd_scope

\* ARGP_KEY_END: close the open FORWARDs, check() that no reserved REPLY is
\* left, and end the list with a REPLY of its own.
End ==
  LET closed == ccmd \o [i \in 1 .. Exhausted |-> Node("REPLY")]
      last == IF Exhausted > 0 THEN Len(closed) ELSE last_reserved_used
      endsOpen == last = Len(closed) \/ ~LastIs(closed, "REPLY")
  IN /\ stage = "options"
     /\ Len(closed) < CAPACITY
     /\ stage' = IF reserved = Exhausted THEN "built" ELSE "failed"
     /\ ccmd' = IF endsOpen THEN Append(closed, Node("REPLY")) ELSE closed
     /\ reserved' = reserved - Exhausted
     /\ fwd_scope' = fwd_scope - Exhausted
     /\ last_reserved_used' = last
     /\ UNCHANGED <<branching_degree, curr_forward_begin, options, replies,
                    misled, dumped>>
-----------------------------------------------------------------------------
\* ccmd_skip: how the node at i changes nested_fwd.
FlatNesting(l, i) == 0 \* mutant: passes commands, not contexts
Nesting(l, i) ==
  LET nx == BoundedNext(l, i)
  IN CASE l[i].op = "FORWARD_BEGIN" -> 1
       [] l[i].op = "REPLY" /\ nx # NULL /\ l[nx].op # "FORWARD_CONTINUE" -> -1
       [] OTHER -> 0

\* ccmd_skip: pass one context, NULL at a REPLY without its FORWARD.
PassContext(l, i) ==
  LET pass[j \in 1 .. Len(l), nested \in 0 .. Len(l)] ==
        LET nx == BoundedNext(l, j)
            n == nested + Nesting(l, j)
        IN IF l[j].op = "REPLY" /\ nested = 0 THEN NULL
           ELSE IF nx = NULL \/ n = 0 THEN nx
           ELSE pass[nx, n]
  IN pass[i, 0]

\* ccmd_skip
ccmd_skip(l, node, to_skip) ==
  LET skip[i \in 0 .. Len(l), k \in 0 .. to_skip] ==
        IF i = NULL \/ k = 0 THEN i ELSE skip[PassContext(l, i), k - 1]
  IN skip[node, to_skip]

\* The nodes ccmd_dump visits when the PSKIPs in `taken' are carried out.
Visited(l, taken) ==
  LET from[i \in 0 .. Len(l)] ==
        IF i = NULL THEN <<>>
        ELSE <<i>> \o from[IF i \in taken
                           THEN ccmd_skip(l, BoundedNext(l, i), l[i].n_skip)
                           ELSE BoundedNext(l, i)]
  IN from[IF l = <<>> THEN NULL ELSE 1]

Sent(l, visited) ==
  LET cmds == SelectSeq(visited, LAMBDA i : l[i].op # "PSKIP")
  IN [i \in 1 .. Len(cmds) |-> l[cmds[i]]] \o <<Node("EOM")>>

\* ccmd_dump into a message with room for `size' commands, and the send of
\* the message to the first node.
Dump(taken, size) ==
  LET visited == Visited(ccmd, taken)
  IN /\ stage = "built"
     /\ IF Len(visited) + 1 > size
        THEN stage' = "unsent" /\ UNCHANGED dumped
        ELSE /\ stage' = "walk"
             /\ message' = Sent(ccmd, visited)
             /\ complete' = (visited[Len(visited)] = Len(ccmd))
             /\ cmd' = 1
     /\ UNCHANGED <<ccmd, parser>>

Skips == {i \in DOMAIN ccmd : ccmd[i].op = "PSKIP"}
-----------------------------------------------------------------------------
OnCommand == stage = "walk" /\ cmd # NULL

\* The hop is past the command or the context at its cursor.
Pass == /\ OnCommand
        /\ message[cmd].op \notin {"REPLY", "EOM"}
        /\ cmd' = BoundedSkip(message, cmd, 1)
        /\ UNCHANGED <<stage, ccmd, parser, message, complete>>

\* start_forward: the next hop has the branch of the j-th FORWARD.
Hop(j) == /\ OnCommand
          /\ message[cmd].op = "FORWARD_BEGIN"
          /\ j \in DOMAIN ForwardChain(message, cmd)
          /\ message' = ForwardedMessage(message,
                                         ForwardChain(message, cmd)[j])
          /\ cmd' = IF message' = <<>> THEN NULL ELSE 1
          /\ UNCHANGED <<stage, ccmd, parser, complete>>

CommandsNext == \/ \E op \in SimpleOps : AddSimple(op)
                \/ \E n \in SkipCounts : AddSkip(n)
                \/ \E f \in ForwardArgs : AddForward(f)
                \/ ForwardCrashes
                \/ AddReply
                \/ End
                \/ \E taken \in SUBSET Skips, size \in Sizes : Dump(taken, size)
                \/ Pass
                \/ \E j \in 1 .. CAPACITY : Hop(j)

CommandsSpec == CommandsInit /\ [][CommandsNext]_commandVars
-----------------------------------------------------------------------------
(* The check() of ARGP_KEY_END never fails and the list it leaves ends with
   a REPLY: whatever the order of the options, every REPLY a FORWARD
   reserved is used by a -R option, by the next branch or at the end, even
   though an automatic close takes a reserved REPLY and leaves fwd_scope as
   it is. *)
DeferredRepliesUsed ==
  /\ stage # "failed"
  /\ stage = "built" => reserved = 0 /\ LastIs(ccmd, "REPLY")

(* A branch joins the context it belongs to: while branching_degree counts
   branches, curr_forward_begin, which FORWARD_CMD writes n_ack and timeout
   through, is the branched FORWARD_BEGIN of a context in the list. *)
BranchHasBegin ==
  branching_degree > 0 =>
    /\ curr_forward_begin \in DOMAIN ccmd
    /\ ccmd[curr_forward_begin].op = "FORWARD_BEGIN"
    /\ ccmd[curr_forward_begin].branched

\* A hop walks a message whose REPLYs no PSKIP left out.
Walking == stage = "walk" /\ complete

(* Every node on the way of a request finds a REPLY at its own level: from
   any options, through any PSKIPs and into any branch of any FORWARD, the
   cursor goes from context to context and comes neither to the end of the
   message nor into the branch of another FORWARD. *)
EveryHopReplies ==
  Walking => /\ cmd # NULL
             /\ message[cmd].op \in SimpleOps \cup {"FORWARD_BEGIN", "REPLY"}

(* The branches of a context are all there is in it: when each -F option was
   read as it was meant, the context that cmd_bounded_skip passes ends with
   the REPLY that message_copy_tail finds for the last FORWARD of the chain
   of cmd_bounded_next_forward, so no FORWARD the user asked for is left out
   of the chain and silently dropped. *)
ChainFillsContext ==
  Walking /\ ~misled /\ cmd # NULL /\ message[cmd].op = "FORWARD_BEGIN" =>
    LET chain == ForwardChain(message, cmd)
        last == ForwardBody(message, chain[Len(chain)])
    IN BoundedSkip(message, cmd, 1)
         = BoundedNext(message, MatchingReply(message, last))

\* REPLYs at the top level of a command list.
TopReplies(l) ==
  LET walk[i \in 0 .. Len(l)] ==
        IF i = NULL THEN 0
        ELSE (IF l[i].op = "REPLY" THEN 1 ELSE 0) + walk[BoundedSkip(l, i, 1)]
  IN walk[1]

(* A PSKIP leaves out whole contexts: the message replies at its top level
   as often as the list without any skip, so what is left of a skipped
   FORWARD never answers for the request. *)
SkipsWholeContexts ==
  [][stage = "built" /\ stage' = "walk" /\ complete' =>
       TopReplies(message') = TopReplies(Sent(ccmd, Visited(ccmd, {})))]_commandVars
=============================================================================
