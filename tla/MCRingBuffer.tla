---------------------------- MODULE MCRingBuffer ----------------------------
\* RingBuffer with small constants for TLC.  readFd() that reads nothing has met the
\* end of the stream, after which a program no longer uses its buffer.
EXTENDS RingBuffer

CONSTANTS MaxChunk,         \* bytes of one call
          MaxContent        \* bytes in the buffer
Chunks == UNION {[1..n -> Byte] : n \in 0..MaxChunk}

MCNext ==
    \/ \E data \in Chunks : Len(content) + Len(data) <= MaxContent
                            /\ (RingAppend(data) \/ RingPrepend(data)
                                  \/ (data # <<>> /\ RingReadFd(data)))
    \/ \E len \in 0..MaxContent : RingRetrieve(len)
    \/ \E reserve \in 0..MaxChunk : RingShrink(reserve)
    \/ RingRetrieveAll

MCSpec == RingInit /\ [][MCNext]_ringVars

=============================================================================
