----------------------------- MODULE MCConnPool -----------------------------
EXTENDS ConnPool, TLC
ThreadSymmetry == Permutations(Threads)
\* The locals of an idle thread are dead.
Live == <<table, fds, at, mine, found,
          [t \in Threads |-> IF at[t] = "idle" THEN <<>> ELSE <<id[t], fd[t], op[t]>>]>>
=============================================================================
