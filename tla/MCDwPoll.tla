------------------------------ MODULE MCDwPoll ------------------------------
EXTENDS DwPoll
\* A descriptor carries the id of the connection that owns it.
MCAux == [f \in Fds |-> {f}]
\* The arrays of select fill up; in those of poll there is an entry to move.
MCRoom == [t \in {"DW_SELECT", "DW_POLL", "DW_EPOLL"} |-> IF t = "DW_POLL" THEN 3 ELSE 2]
AllTypes == {"DW_SELECT", "DW_POLL", "DW_EPOLL"}
=============================================================================
