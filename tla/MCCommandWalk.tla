--------------------------- MODULE MCCommandWalk ---------------------------
(***************************************************************************)
(* Two sources of messages for TLC: what dw_client makes of its options    *)
(* (ClientCommands), and the structured programs of SamplePrograms, which  *)
(* also hold the FORWARDs inside branches that no options of dw_client     *)
(* write but that the cursor functions allow for (MessageWalk).            *)
(***************************************************************************)
EXTENDS ClientCommands, SamplePrograms

VARIABLES items, cut, cursor, k

Walk == INSTANCE MessageWalk WITH Programs <- MCPrograms, Reply <- Rep,
                                  Eom <- EndOfMsg, at <- cursor

walkVars == <<items, cut, cursor, k>>
allVars == <<commandVars, walkVars>>

F(n, branch, nack) == [n |-> n, branch |-> branch, nack |-> nack]
MCForwardArgs == {F(1, FALSE, 2), F(2, FALSE, 0), F(1, TRUE, 0), F(2, TRUE, 1)}

OnlyOptions == items = <<>>

MCInit == /\ CommandsInit
          /\ \/ /\ items = <<>>
                /\ cut = 0
                /\ cursor = NULL
                /\ k = 0
             \/ Walk!Init

MCNext == \/ OnlyOptions /\ CommandsNext /\ UNCHANGED walkVars
          \/ ~OnlyOptions /\ Walk!Next /\ UNCHANGED commandVars

MCSpec == MCInit /\ [][MCNext]_allVars
-----------------------------------------------------------------------------
(* Skipping contexts lands exactly on the start of the item after them and
   gives NULL exactly when that start is cut off (cmd_bounded_skip). *)
CursorOnItem == OnlyOptions \/ Walk!CursorOnItem

(* cmd_bounded_next_forward enumerates the FORWARDs of its own context, in
   order, and none of the contexts nested in its branches, and each of them
   sends its own branch, up to the REPLY that closes it (message_copy_tail). *)
BranchesFollowProgram ==
  OnlyOptions \/ (Walk!ChainIsContext /\ Walk!BodyIsBranch)
=============================================================================
