-------------------------- MODULE MCTcpConnection --------------------------
\* TcpConnection with small constants for TLC.
EXTENDS TcpConnection

CONSTANTS t1, t2, m1, m2, m3

\* A thread that sends and keeps its pointer, with and without I/O threads ...
Quiet == [senders : {{t1}}, closers : {{}}, shutters : {{}}, keepers : {{t1}},
          serverDies : {FALSE}, msgs : {{m1, m2, m3}}, oneLoop : BOOLEAN]

\* ... and threads that send, shut down and close while the server goes away.
Races == [senders : {{t1}}, closers : {{t2}}, shutters : {{t1}}, keepers : {{}},
          serverDies : {TRUE}, msgs : {{m1}}, oneLoop : {FALSE}]

MCSetups == Quiet \cup Races
=============================================================================
