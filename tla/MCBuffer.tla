------------------------------ MODULE MCBuffer ------------------------------
\* Buffer with small constants for TLC.
EXTENDS Buffer

CONSTANTS MaxChunk,         \* bytes of one call
          MaxContent        \* bytes in the buffer
Chunks == UNION {[1..n -> Byte] : n \in 0..MaxChunk}

MCNext ==
    \/ \E data \in Chunks : Len(content) + Len(data) <= MaxContent
                            /\ (Append_(data) \/ ReadFd(data) \/ Prepend(data))
    \/ \E len \in 0..MaxContent : Retrieve(len)
    \/ \E reserve \in 0..MaxChunk : Shrink(reserve)
    \/ RetrieveAll

MCSpec == BufferInit /\ [][MCNext]_bufVars

=============================================================================
