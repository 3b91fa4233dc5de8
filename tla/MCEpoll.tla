------------------------------ MODULE MCEpoll ------------------------------
\* Three channels, two of them for the same fd, also at the same time.
EXTENDS Epoll, TLC

CONSTANTS c1, c2, c3, fd1, fd2

MCChannels == {c1, c2, c3}
MCFds == {fd1, fd2}
MCFd == c1 :> fd1 @@ c2 :> fd2 @@ c3 :> fd2
=============================================================================
