------------------------------- MODULE Buffer -------------------------------
(***************************************************************************)
(* burger/net/Buffer.cc: a vector with a read and a write index.  this is  *)
(* the object; ok says that no assertion of the class has failed.  The     *)
(* preconditions on the caller's arguments are guards of the actions.      *)
(* append(), retrieve() and prepend() stand for all their overloads; the   *)
(* byte order of appendInt*() and peekInt*() is left out, and so are the   *)
(* searches findCRLF() and findEOL().                                      *)
(***************************************************************************)
EXTENDS IBuffer

VARIABLE this

bufVars == <<this, content>>

\* Buffer(initalSize)
New(initalSize) ==
    [buffer_ |-> [k \in 1..kCheapPrepend + initalSize |-> Zero],
     readrIndex_ |-> kCheapPrepend, writerIndex_ |-> kCheapPrepend, ok |-> TRUE]

getReadableBytes(b) == b.writerIndex_ - b.readrIndex_
getWritableBytes(b) == Len(b.buffer_) - b.writerIndex_
getPrependableBytes(b) == b.readrIndex_

\* The readable bytes, from peek() to beginWrite()
Readable(b) == SubSeq(b.buffer_, b.readrIndex_ + 1, b.writerIndex_)

retrieveAll(b) == [b EXCEPT !.readrIndex_ = kCheapPrepend, !.writerIndex_ = kCheapPrepend]

\* retrieve(len)
Retrieved(b, len) ==
    IF len < getReadableBytes(b) THEN [b EXCEPT !.readrIndex_ = @ + len]
    ELSE retrieveAll(b)

\* Without the prepend area in the test: compaction although there is no room.
MakeSpaceTight(b, len) ==
    IF getWritableBytes(b) + getPrependableBytes(b) < len
    THEN [b EXCEPT !.buffer_ = Resized(@, b.writerIndex_ + len)]
    ELSE [b EXCEPT !.buffer_ = Copied(@, kCheapPrepend, Readable(b)),
                   !.readrIndex_ = kCheapPrepend,
                   !.writerIndex_ = kCheapPrepend + getReadableBytes(b),
                   !.ok = @ /\ kCheapPrepend < b.readrIndex_]

\* makeSpace(len): grow, or move the readable bytes to the front
makeSpace(b, len) ==
    IF getWritableBytes(b) + getPrependableBytes(b) < len + kCheapPrepend
    THEN [b EXCEPT !.buffer_ = Resized(@, b.writerIndex_ + len)]
    ELSE [b EXCEPT !.buffer_ = Copied(@, kCheapPrepend, Readable(b)),
                   !.readrIndex_ = kCheapPrepend,
                   !.writerIndex_ = kCheapPrepend + getReadableBytes(b),
                   !.ok = @ /\ kCheapPrepend < b.readrIndex_]

\* ensureWritableBytes(len), with its assertion
Ensured(b, len) ==
    LET c == IF getWritableBytes(b) < len THEN makeSpace(b, len) ELSE b
    IN  [c EXCEPT !.ok = @ /\ getWritableBytes(c) >= len]

\* std::copy to beginWrite(), hasWritten()
Written(b, data) ==
    [b EXCEPT !.buffer_ = Copied(@, b.writerIndex_, data),
              !.writerIndex_ = @ + Len(data),
              !.ok = @ /\ Len(data) <= getWritableBytes(b)]

\* append(data)
Appended(b, data) == Written(Ensured(b, Len(data)), data)

\* prepend(data)
Prepended(b, data) ==
    LET r == b.readrIndex_ - Len(data)
    IN  [b EXCEPT !.readrIndex_ = r, !.buffer_ = Copied(@, r, data)]

\* shrink(reserve)
Shrunk(b, reserve) ==
    LET other == Ensured(New(kInitialSize), getReadableBytes(b) + reserve)
    IN  [Appended(other, Readable(b)) EXCEPT !.ok = @ /\ b.ok]

\* The bytes that went to extrabuf are appended behind the old write index.
ReadFdStale(b, data) ==
    LET w == getWritableBytes(b)
    IN  IF Len(data) <= w THEN Written(b, data)
        ELSE Appended([Written(b, SubSeq(data, 1, w)) EXCEPT !.writerIndex_ = b.writerIndex_],
                      SubSeq(data, w + 1, Len(data)))

\* readFd(): readv() fills the writable part, then extrabuf, which is appended.
ReadFrom(b, data) ==
    LET w == getWritableBytes(b)
    IN  IF Len(data) <= w THEN Written(b, data)
        ELSE Appended(Written(b, SubSeq(data, 1, w)), SubSeq(data, w + 1, Len(data)))

-----------------------------------------------------------------------------
BufferInit == this = New(kInitialSize) /\ ContentInit

Append_(data) == this' = Appended(this, data) /\ ContentGrows(data)

ReadFd(data) == this' = ReadFrom(this, data) /\ ContentGrows(data)

Prepend(data) ==
    /\ Len(data) <= getPrependableBytes(this)
    /\ this' = Prepended(this, data) /\ ContentGrowsInFront(data)

Retrieve(len) ==
    /\ len <= getReadableBytes(this)
    /\ this' = Retrieved(this, len) /\ ContentShrinks(len)

RetrieveAll == this' = retrieveAll(this) /\ ContentShrinks(Len(content))

Shrink(reserve) == this' = Shrunk(this, reserve) /\ UNCHANGED content

BufferNext ==
    \/ \E data \in Seq(Byte) : Append_(data) \/ ReadFd(data) \/ Prepend(data)
    \/ \E len \in Nat : Retrieve(len) \/ Shrink(len)
    \/ RetrieveAll

BufferSpec == BufferInit /\ [][BufferNext]_bufVars

-----------------------------------------------------------------------------
\* Buffer is the byte sequence of IBuffer: however it has been grown, compacted,
\* prepended to or read into through extrabuf, peek() shows what was put in.
ContentIsRight == Readable(this) = content

\* No assertion of the class fails, in makeSpace(), ensureWritableBytes() and
\* hasWritten(), whatever legal calls have been made; the indices are in the order
\* of the picture in Buffer.h.
AssertionsHold ==
    /\ this.ok
    /\ this.buffer_ \in Seq(Byte) /\ this.readrIndex_ \in Nat /\ this.writerIndex_ \in Nat
    /\ this.readrIndex_ <= this.writerIndex_ /\ this.writerIndex_ <= Len(this.buffer_)
    /\ kCheapPrepend + kInitialSize <= Len(this.buffer_)

=============================================================================
