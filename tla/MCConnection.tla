---------------------------- MODULE MCConnection ----------------------------
EXTENDS Connection
\* Messages of one to three cells; not all of them fit in the buffer.  The
\* replies to all of them do not fit either.
MCMsgs == <<"a", "b", "c", "d", "e", "f">>
MCSize == [m \in Range(Msgs) |-> CASE m \in {"a", "d"} -> 2 [] m \in {"b", "f"} -> 1 [] OTHER -> 3]
MCReplySize ==
  [m \in Range(Msgs) |-> CASE m = "b" -> 1 [] m \in {"c", "d"} -> 2 [] OTHER -> 4]
MCAnswers == {{}, {"b", "d"}}
\* One request at a time with replies of either mode, on sockets that fail and
\* with any back end, or several with normal replies that sendto() takes whole.
MCLoads == [window : {1}, partial : BOOLEAN, errors : BOOLEAN, sendfile : {{"c", "d"}},
            select : BOOLEAN]
           \cup [window : {2}, partial : {FALSE}, errors : BOOLEAN, sendfile : {{}},
                 select : BOOLEAN]
           \cup [window : {5}, partial : {FALSE}, errors : {FALSE}, sendfile : {{}},
                 select : {FALSE}]
=============================================================================
