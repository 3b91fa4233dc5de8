SPECIFICATION EpollSpec
CONSTANTS
    c1 = c1
    c2 = c2
    c3 = c3
    fd1 = fd1
    fd2 = fd2
    Channels <- MCChannels
    Fds <- MCFds
    Fd <- MCFd
    NoChannel = NoChannel
INVARIANTS StatusMatchesEpoll NoDanglingChannel
