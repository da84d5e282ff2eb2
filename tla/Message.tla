------------------------------ MODULE Message ------------------------------
(***************************************************************************)
(* The command list of a distwalk message and the cursor functions the     *)
(* node walks it with (src/message.c, src/message.h).                      *)
(*                                                                         *)
(* A message is a sequence of command records.  A command_t* that points   *)
(* into it is an index, and the NULL pointer is 0.  An index is inside the *)
(* message bounds exactly when it is in 1..Len(m): a message cut short by  *)
(* its req_size is a sequence that does not end with EOM.                  *)
(***************************************************************************)
EXTENDS Naturals, Integers, Sequences

NULL == 0

\* command_type_t.  PSKIP is resolved by the client and never sent.
Ops == {"COMPUTE", "STORE", "LOAD", "FORWARD_BEGIN", "FORWARD_CONTINUE",
        "REPLY", "EOM"}

ForwardOps == {"FORWARD_BEGIN", "FORWARD_CONTINUE"}

\* cmd_in_bounds
InBounds(m, i) == i \in 1 .. Len(m)

\* cmd_bounded_next: the following command, or NULL past the end.
BoundedNext(m, i) == IF InBounds(m, i + 1) THEN i + 1 ELSE NULL

\* How the do-while of cmd_bounded_skip changes nested_fwd at command i,
\* whose successor is nx.
AnyReplyCloses(m, i, nx) == \* mutant: every REPLY closes a context
  CASE m[i].op = "FORWARD_BEGIN" -> 1 [] m[i].op = "REPLY" -> -1 [] OTHER -> 0
NestingChange(m, i, nx) ==
  CASE m[i].op = "FORWARD_BEGIN" -> 1
    [] m[i].op = "REPLY" /\ m[nx].op # "FORWARD_CONTINUE" -> -1
    [] OTHER -> 0

\* The do-while of cmd_bounded_skip: pass one context starting at i.
SkipContext(m, i) ==
  LET walk[j \in 1 .. Len(m), nested \in (-Len(m)) .. Len(m)] ==
        LET nx == BoundedNext(m, j)
        IN IF nx = NULL THEN NULL
           ELSE LET n == nested + NestingChange(m, j, nx)
                IN IF m[nx].op = "EOM" \/ n <= 0 THEN nx ELSE walk[nx, n]
  IN walk[i, 0]

\* cmd_bounded_skip: pass to_skip contexts, NULL if EOM or the end of the
\* message comes first.
BoundedSkip(m, i, to_skip) ==
  LET skip[p \in 0 .. Len(m), k \in 0 .. to_skip] ==
        IF p = NULL \/ k = 0 THEN p
        ELSE IF m[p].op = "EOM" THEN NULL
        ELSE skip[SkipContext(m, p), k - 1]
  IN IF InBounds(m, i) THEN skip[i, to_skip] ELSE NULL

\* Does a REPLY followed by the command at nx end the context?
ContextEnds(m, nx, branched) == ~branched \/ m[nx].op # "FORWARD_CONTINUE"

\* cmd_bounded_next_forward, on a FORWARD command: the next FORWARD of the
\* same multi-FORWARD context, or NULL.
BoundedNextForward(m, i) ==
  LET branched == m[i].branched
      find[c \in 0 .. Len(m)] ==
        IF c = NULL THEN NULL
        ELSE CASE m[c].op = "EOM" -> NULL
               [] m[c].op = "FORWARD_CONTINUE" -> c
               [] m[c].op = "FORWARD_BEGIN" -> find[BoundedSkip(m, c, 1)]
               [] OTHER ->
                    LET nx == BoundedNext(m, c)
                    IN IF \/ nx = NULL
                          \/ /\ m[c].op = "REPLY"
                             /\ ContextEnds(m, nx, branched)
                       THEN NULL ELSE find[nx]
  IN find[BoundedNext(m, i)]

\* The loops of find_forward_reply_id and start_forward walk this chain: the
\* indices of the FORWARD commands of the context that starts at i, in order.
ForwardChain(m, i) ==
  LET chain[c \in 0 .. Len(m)] ==
        IF c = NULL THEN <<>>
        ELSE <<c>> \o chain[BoundedNextForward(m, c)]
  IN chain[i]

\* The loop of message_copy_tail, also used by the error path of
\* exec_request: the first REPLY or EOM at the nesting level of c.
MatchingReply(m, c) ==
  LET find[i \in 0 .. Len(m)] ==
        IF i = NULL THEN NULL
        ELSE IF m[i].op \in {"EOM", "REPLY"} THEN i
        ELSE find[BoundedSkip(m, i, 1)]
  IN find[c]

\* single_start_forward: the first command after the FORWARD at i and the
\* FORWARD_CONTINUEs that follow it.
NextCommand(m, i) == BoundedNext(m, i) \* mutant: stops at a CONTINUE
ForwardBody(m, i) ==
  LET find[c \in 0 .. Len(m)] ==
        IF c = NULL THEN NULL
        ELSE IF m[c].op = "FORWARD_CONTINUE" THEN find[BoundedNext(m, c)]
        ELSE c
  IN find[BoundedNext(m, i)]

\* message_copy_tail applied to the body of the FORWARD at i: the command
\* list sent to the next hop, or <<>> when no end of it is found.
ForwardedMessage(m, i) ==
  LET c == ForwardBody(m, i)
      r == MatchingReply(m, c)
  IN IF r = NULL THEN <<>>
     ELSE Append(SubSeq(m, c, r), [m[r] EXCEPT !.op = "EOM"])
=============================================================================
