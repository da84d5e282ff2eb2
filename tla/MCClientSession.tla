-------------------------- MODULE MCClientSession --------------------------
EXTENDS ClientSession
\* A quiet surrounding with each output option, on a socket that may return
\* EAGAIN or not and with a receive buffer that holds a session or is too small
\* for one, and the roughest surrounding.
Quiet == [per_session_output : BOOLEAN, nonblock : {FALSE}, tls : {FALSE},
          fits : {TRUE}, batch : {1}, partial : {FALSE}, room : {2}]
Tight == [per_session_output : {FALSE}, nonblock : BOOLEAN, tls : {FALSE},
          fits : {TRUE}, batch : {1}, partial : {FALSE}, room : {1, 2}]
Rough == [per_session_output : {FALSE}, nonblock : {TRUE}, tls : {TRUE},
          fits : {FALSE}, batch : {2}, partial : BOOLEAN, room : {2}]
MCSettings == Quiet \cup Tight \cup Rough
=============================================================================
