--------------------------- MODULE MCNodeForward ---------------------------
(* Small instances of NodeForward for TLC: a catalogue of command lists. *)
EXTENDS NodeForward, TLC

CONSTANTS c1, c2, p1, p2

Cmd(op) == [op |-> op, addr |-> NoConn, nack |-> 0, retries |-> 0,
            timeout |-> 0, on_fail_skip |-> 0, branched |-> FALSE,
            wait_sync |-> FALSE]
Begin(p, n, retries, skip) ==
  [Cmd("FORWARD_BEGIN") EXCEPT !.addr = p, !.nack = n, !.retries = retries,
                               !.timeout = 1, !.on_fail_skip = skip]
Continue(p) == [Cmd("FORWARD_CONTINUE") EXCEPT !.addr = p]
SyncStore == [Cmd("STORE") EXCEPT !.wait_sync = TRUE]
R == Cmd("REPLY")
E == Cmd("EOM")

\* FORWARD to one peer.
One(p, retries, skip) == <<Begin(p, 1, retries, skip), R>>
\* FORWARD to both peers, waiting for n answers.
Both(n, retries, skip) == <<Begin(p1, n, retries, skip), Continue(p2), R>>
Close == <<R, E>>

Simple == <<Cmd("COMPUTE")>> \o Close
Stores == <<Cmd("STORE"), SyncStore, Cmd("LOAD")>> \o Close
Hop == One(p1, 0, 1) \o Close
RetryHop == One(p1, 1, 1) \o Close
\* A skip on failure past the end of the list.
SkipPast == One(p1, 1, 3) \o Close
Quorum1 == Both(1, 1, 1) \o Close
Quorum2 == Both(2, 1, 1) \o Close
LoadHop == <<Cmd("LOAD")>> \o Hop
\* No skip on failure (dw_client always asks for one), and a PSKIP took the
\* closing REPLY away.
Drop == One(p2, 0, 0) \o <<E>>
TwoHops == One(p1, 0, 1) \o One(p2, 0, 1) \o Close
GiveUpThenForward == Both(2, 0, 1) \o Both(2, 0, 1) \o Close
ForwardThenLoad == Both(1, 0, 1) \o <<Cmd("LOAD")>> \o Close

AllFaults == FaultKinds
Ok == {"SUCCESS"}
ConnSymmetry == Permutations({c1, c2})

SafetyPrograms == {LoadHop, SkipPast, Drop}
BranchPrograms == {Quorum1, Quorum2}
CleanPrograms == {Simple, Stores, LoadHop, RetryHop, Quorum2}
HopPrograms == {Hop}
HopEitherPeer == {Hop, One(p2, 0, 1) \o Close}
TwoHopsPrograms == {TwoHops}
GiveUpPrograms == {GiveUpThenForward}
LatePrograms == {ForwardThenLoad}
SimplePrograms == {Simple}
=============================================================================
