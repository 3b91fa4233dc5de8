----------------------------- MODULE RingBuffer -----------------------------
(***************************************************************************)
(* burger/net/RingBuffer.cc: the vector is used as a ring, with            *)
(* kCheapPrepend bytes kept free in front of it and of the readable bytes. *)
(* this is the object, ok says that no assertion has failed.  As in module *)
(* Buffer, preconditions are guards, overloads are one operator, and byte  *)
(* order and searches are left out.                                        *)
(***************************************************************************)
EXTENDS IBuffer

VARIABLE this

ringVars == <<this, content>>

\* RingBuffer(initalSize)
New(initalSize) ==
    [buffer_ |-> [k \in 1..kCheapPrepend + initalSize |-> Zero],
     readrIndex_ |-> kCheapPrepend, writerIndex_ |-> kCheapPrepend,
     capacity_ |-> initalSize, totalSize_ |-> kCheapPrepend + initalSize,
     hasData_ |-> FALSE, ok |-> TRUE]

\* Reader in front of writer, the code's "normal condition"
Straight(b) == b.writerIndex_ > b.readrIndex_

getReadableBytes(b) ==
    IF ~ b.hasData_ THEN 0
    ELSE IF Straight(b) THEN b.writerIndex_ - b.readrIndex_
    ELSE b.capacity_ + b.writerIndex_ - b.readrIndex_

Beyond(n, m) == IF n >= m THEN n - m ELSE 0

getWritableBytes(b) ==
    IF ~ b.hasData_ THEN b.capacity_
    ELSE IF Straight(b)
    THEN b.totalSize_ - b.writerIndex_ + Beyond(b.readrIndex_, 2 * kCheapPrepend)
    ELSE Beyond(b.readrIndex_ - b.writerIndex_, kCheapPrepend)

getPrependableBytes(b) ==
    IF ~ b.hasData_ THEN kCheapPrepend
    ELSE IF Straight(b) \/ b.writerIndex_ = kCheapPrepend THEN b.readrIndex_
    ELSE b.readrIndex_ - b.writerIndex_

\* What retrieveAsString(len) copies: at once, or up to the end and from continueRead()
Peeked(b, len) ==
    IF Straight(b) \/ b.readrIndex_ + len <= b.totalSize_
    THEN SubSeq(b.buffer_, b.readrIndex_ + 1, b.readrIndex_ + len)
    ELSE SubSeq(b.buffer_, b.readrIndex_ + 1, b.totalSize_)
         \o SubSeq(b.buffer_, kCheapPrepend + 1,
                   kCheapPrepend + len - (b.totalSize_ - b.readrIndex_))

retrieveAll(b) ==
    [b EXCEPT !.readrIndex_ = kCheapPrepend, !.writerIndex_ = kCheapPrepend, !.hasData_ = FALSE]

\* retrieve(len)
Retrieved(b, len) ==
    IF len < getReadableBytes(b)
    THEN [b EXCEPT !.readrIndex_ = (@ + len) % b.capacity_]
    ELSE retrieveAll(b)

\* std::copy in one or two parts, hasWritten()
Written(b, data) ==
    LET first == b.totalSize_ - b.writerIndex_
        split == Straight(b) /\ b.writerIndex_ + Len(data) > b.totalSize_
        buf == IF split
               THEN Copied(Copied(b.buffer_, b.writerIndex_, SubSeq(data, 1, first)),
                           kCheapPrepend, SubSeq(data, first + 1, Len(data)))
               ELSE Copied(b.buffer_, b.writerIndex_, data)
    IN  [b EXCEPT !.buffer_ = buf,
                  !.writerIndex_ = (@ + Len(data)) % b.capacity_,
                  !.hasData_ = @ \/ Len(data) > 0,
                  !.ok = @ /\ Len(data) <= getWritableBytes(b)]

Grown(b, n) ==
    [b EXCEPT !.buffer_ = Resized(@, n), !.totalSize_ = n, !.capacity_ = n - kCheapPrepend]

\* ensureWritableBytes(len) of a new object, which only has makeSpace()'s first case
Fresh(len) ==
    IF kInitialSize < len THEN Grown(New(kInitialSize), kCheapPrepend + len) ELSE New(kInitialSize)

\* The bytes move to a new object with room for len more.
Moved(b, len) ==
    [Written(Fresh(getReadableBytes(b) + len), Peeked(b, getReadableBytes(b)))
        EXCEPT !.ok = @ /\ b.ok]

\* makeSpace(len)
makeSpace(b, len) ==
    IF ~ b.hasData_ THEN Grown(retrieveAll(b), kCheapPrepend + len)
    ELSE IF Straight(b) THEN Grown(b, b.writerIndex_ + len)
    ELSE Moved(b, len)

\* ensureWritableBytes(len), with its assertion
Ensured(b, len) ==
    LET c == IF getWritableBytes(b) < len THEN makeSpace(b, len) ELSE b
    IN  [c EXCEPT !.ok = @ /\ getWritableBytes(c) >= len]

\* append(data): what follows a failed assertion does not happen.
Appended(b, data) ==
    LET c == Ensured(b, Len(data))
    IN  IF c.ok THEN Written(c, data) ELSE c

\* prepend(data)
Prepended(b, data) ==
    LET r == b.readrIndex_ - Len(data)
    IN  [b EXCEPT !.readrIndex_ = r, !.buffer_ = Copied(@, r, data)]

\* readFd(): hasData_ is set even if nothing was read.
ReadFrom(b, data) ==
    LET w == IF ~ b.hasData_ \/ b.writerIndex_ < b.readrIndex_ THEN getWritableBytes(b)
             ELSE b.totalSize_ - b.writerIndex_
        n == IF Len(data) <= w THEN Len(data) ELSE w
        c == [b EXCEPT !.buffer_ = Copied(@, b.writerIndex_, SubSeq(data, 1, n)),
                       !.writerIndex_ = @ + n, !.hasData_ = TRUE]
    IN  IF Len(data) <= w THEN c ELSE Appended(c, SubSeq(data, w + 1, Len(data)))

-----------------------------------------------------------------------------
RingInit == this = New(kInitialSize) /\ ContentInit

RingAppend(data) == this.ok /\ this' = Appended(this, data) /\ ContentGrows(data)

RingReadFd(data) == this.ok /\ this' = ReadFrom(this, data) /\ ContentGrows(data)

RingPrepend(data) ==
    /\ this.ok /\ Len(data) <= getPrependableBytes(this)
    /\ this' = Prepended(this, data) /\ ContentGrowsInFront(data)

RingRetrieve(len) ==
    /\ this.ok /\ len <= getReadableBytes(this)
    /\ this' = Retrieved(this, len) /\ ContentShrinks(len)

RingRetrieveAll == this.ok /\ this' = retrieveAll(this) /\ ContentShrinks(Len(content))

RingShrink(reserve) == this.ok /\ this' = Moved(this, reserve) /\ UNCHANGED content

-----------------------------------------------------------------------------
\* ensureWritableBytes() and hasWritten() assert that makeSpace() has made room.
RingAssertionsHold == this.ok

=============================================================================
