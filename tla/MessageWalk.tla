---------------------------- MODULE MessageWalk ----------------------------
(***************************************************************************)
(* The cursor functions of src/message.c against the structure of the      *)
(* messages dw_client builds.                                              *)
(*                                                                         *)
(* A program is a sequence of items.  An item is one context in the sense  *)
(* of cmd_bounded_skip: a simple command, or a FORWARD with everything up  *)
(* to the REPLY that closes it.  Beside its commands an item carries what  *)
(* it was built from: `heads', the positions of the FORWARD commands of    *)
(* its own context, and `bodies', the command list each of them has to     *)
(* send to the next hop.  The message is the concatenation of the items    *)
(* followed by REPLY and EOM, cut to its first `cut' commands when the     *)
(* req_size of the sender is too small for the rest.                       *)
(***************************************************************************)
EXTENDS Message, SequencesExt

CONSTANTS Programs,  \* set of sequences of items
          Reply, Eom \* the two closing commands

VARIABLES items,     \* the program
          cut,       \* number of commands inside the message bounds
          at,        \* the cursor, NULL once a walk left the bounds
          k          \* how many items the cursor has passed, plus one

vars == <<items, cut, at, k>>

Flat(prog) == FoldLeft(LAMBDA acc, it : acc \o it.cmds, <<>>, prog)
              \o <<Reply, Eom>>

message == SubSeq(Flat(items), 1, cut)

\* Where item j of the program starts; the closing REPLY counts as an item.
Start(j) == 1 + FoldLeft(LAMBDA n, it : n + Len(it.cmds), 0,
                         SubSeq(items, 1, j - 1))

Ending == Len(items) + 1

Init == /\ items \in Programs
        /\ cut \in 1 .. Len(Flat(items))
        /\ at = 1
        /\ k = 1

\* The loop step of process_single_message, handle_forward_reply and
\* message_copy_tail: go to the context after the current one.
Advance == /\ at # NULL
           /\ k < Ending
           /\ message[at].op # "EOM"
           /\ at' = BoundedSkip(message, at, 1)
           /\ k' = k + 1
           /\ UNCHANGED <<items, cut>>

\* handle_timeout: skip on_fail_skip contexts at once.
FailSkip(n) == /\ at # NULL
               /\ k + n <= Ending
               /\ message[at].op \in ForwardOps
               /\ at' = BoundedSkip(message, at, n)
               /\ k' = k + n
               /\ UNCHANGED <<items, cut>>

Next == Advance \/ \E n \in 1 .. Ending : FailSkip(n)

Spec == Init /\ [][Next]_vars
-----------------------------------------------------------------------------
(* Skipping contexts lands exactly on the start of the item after them,
   however deep the FORWARDs inside them nest, and gives NULL exactly when
   that start is cut off: cmd_bounded_skip never stops inside a context and
   never leaves the message. *)
CursorOnItem ==
  at = IF Start(k) <= cut THEN Start(k) ELSE NULL

\* Item k, when the cursor is on it and no command of it is cut off.
Whole == at # NULL /\ k < Ending /\ Start(k + 1) <= cut

(* From the FORWARD_BEGIN of a context, cmd_bounded_next_forward enumerates
   the FORWARDs of that context, in order, and none of the contexts nested
   in its branches. *)
ChainIsContext ==
  Whole /\ message[at].op = "FORWARD_BEGIN" =>
    ForwardChain(message, at) = [j \in DOMAIN items[k].heads |->
                                   at - 1 + items[k].heads[j]]

(* Every FORWARD of a context sends its own branch, up to the REPLY that
   closes that branch, and an EOM: message_copy_tail stops neither at the
   REPLY of a nested FORWARD nor in the branch of a sibling. *)
BodyIsBranch ==
  Whole /\ message[at].op = "FORWARD_BEGIN" =>
    \A j \in DOMAIN items[k].heads :
      ForwardedMessage(message, at - 1 + items[k].heads[j])
        = items[k].bodies[j]
=============================================================================
