----------------------------- MODULE MCStorage -----------------------------
EXTENDS Storage
\* Two conn_workers, a device that syncs at once and one with a periodic
\* sync and O_DIRECT.  Worker w1 has 2 * PipeSize + 1 commands for d1: either
\* pipe fills up, and one more command could block both threads for good.
\* The two STOREs of d1 do not both fit, and its LOAD may find too little;
\* both files may grow beyond what they are created with.
MCWorkerOf == [c \in Cmds |-> IF c = "w2sync" THEN "w2" ELSE "w1"]
MCDeviceOf == [c \in Cmds |-> IF c \in {"psync", "w2sync"} THEN "d2" ELSE "d1"]
MCOpOf == [c \in Cmds |-> CASE c = "load1" -> "LOAD"
                            [] c = "store" -> "STORE"
                            [] OTHER -> "SYNC"]
MCCmds == {"load1", "store", "sync", "psync", "w2sync"}
MCSizeOf == [c \in Cmds |-> IF c \in {"psync", "load1"} THEN 3 ELSE 2]
MCOffsetOf == [c \in Cmds |-> IF c = "w2sync" THEN 17 ELSE Automatic]
MCMaxSize == [d \in Devices |-> IF d = "d1" THEN 3 ELSE 4]

\* The loop of safe_read() read by read.
ReadLoop(pos, n, size) ==
  LET loop[p \in 0 .. pos + size, len \in 0 .. n, last \in 0 .. n] ==
        LET left == IF p < size THEN size - p ELSE 0
            got == IF len < left THEN len ELSE left
        IN CASE len = 0 -> p
             [] len > 0 /\ got > 0 -> loop[p + got, len - got, last]
             [] len > 0 /\ got = 0 /\ last = len -> p
             [] OTHER -> loop[0, len, len]
  IN loop[pos, n, 0]

ASSUME ReadLoopEnds ==
  \A pos \in 0 .. 5, n \in 1 .. 7, size \in 0 .. 4 :
    ReadLoop(pos, n, size) = ReadEnd(pos, n, size)
=============================================================================
