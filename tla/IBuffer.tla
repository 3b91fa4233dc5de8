------------------------------ MODULE IBuffer ------------------------------
(***************************************************************************)
(* burger/net/IBuffer.h: what the users of Buffer and RingBuffer are       *)
(* promised, a sequence of bytes that grows at its end (append, readFd),   *)
(* is consumed at its front (retrieve and the calls made of it), and       *)
(* takes a few bytes back at its front (prepend).  The modules Buffer and  *)
(* RingBuffer move content along with the operation they model.            *)
(***************************************************************************)
EXTENDS Naturals, Sequences

CONSTANTS Byte, Zero,       \* Zero is what vector::resize() fills with
          kCheapPrepend, kInitialSize

ASSUME BufferAssumption ==
    /\ Zero \in Byte
    /\ kCheapPrepend \in Nat \ {0} /\ kInitialSize \in Nat \ {0}

VARIABLE content            \* what has been put in and not yet taken out

ContentInit == content = <<>>
ContentGrows(data) == content' = content \o data
ContentGrowsInFront(data) == content' = data \o content
ContentShrinks(len) == content' = SubSeq(content, len + 1, Len(content))

\* The vector buffer_ is a sequence, index i of the code is place i + 1.

\* resize(n)
Resized(buf, n) == [k \in 1..n |-> IF k <= Len(buf) THEN buf[k] ELSE Zero]

\* std::copy of data to index i
Copied(buf, i, data) ==
    [k \in 1..Len(buf) |-> IF k \in i + 1..i + Len(data) THEN data[k - i] ELSE buf[k]]

=============================================================================
