------------------------------- MODULE Buffer -------------------------------
(***************************************************************************)
(* Buffer (src/src/Buffer.h, Buffer.cc): a vector of bytes with two        *)
(* indices.  What was read or appended lies between them; what is before   *)
(* readerIndex_ was retrieved, and its space is used again by makeSpace.   *)
(*                                                                         *)
(* A buffer is a record of its three members.  The functions that change   *)
(* it are operators from a buffer to a buffer, so that readFd can call     *)
(* append; byte i of the vector is buffer_[i + 1].                         *)
(***************************************************************************)
EXTENDS Integers, Sequences

CONSTANTS
  Byte,
  Zero,           \* what resize fills the vector with
  kCheapPrepend,
  kInitialSize,
  ExtraSize,      \* sizeof(extrabuf) in readFd
  Pieces,         \* the byte sequences given to append or delivered by readv
  MaxSize         \* bound on the size of the vector

ASSUME BufferAssumption ==
  /\ Zero \in Byte
  /\ kCheapPrepend \in Nat /\ kInitialSize \in Nat /\ ExtraSize \in Nat
  /\ Pieces \subseteq Seq(Byte)

VARIABLES
  b,              \* [buffer_, readerIndex_, writerIndex_]
  last            \* history: the last operation (see ByteQueue)

vars == <<b, last>>

Size(buf) == Len(buf.buffer_)
PrependableBytes(buf) == buf.readerIndex_
ReadableBytes(buf) == buf.writerIndex_ - buf.readerIndex_
WritableBytes(buf) == Size(buf) - buf.writerIndex_

(* The n bytes at peek(), and all that are to be read.                     *)
Peek(buf, n) == SubSeq(buf.buffer_, buf.readerIndex_ + 1, buf.readerIndex_ + n)
Contents(buf) == Peek(buf, ReadableBytes(buf))

Filled(n) == [i \in 1 .. n |-> Zero]

(* buffer_.resize(n), and std::copy of s to begin() + at.                  *)
Resize(v, n) == [i \in 1 .. n |-> IF i <= Len(v) THEN v[i] ELSE Zero]
CopyTo(v, at, s) ==
  [i \in 1 .. Len(v) |-> IF i \in at + 1 .. at + Len(s) THEN s[i - at] ELSE v[i]]

-----------------------------------------------------------------------------
(* makeSpace grows the vector if the space before and behind the contents  *)
(* is too little.  Mutated forms of the test: it forgets that the first    *)
(* kCheapPrepend bytes stay free, or space in front is not used again.     *)
MustGrowIntoPrepend(buf, len) == WritableBytes(buf) + PrependableBytes(buf) < len
MustGrowAlways(buf, len) == TRUE
MustGrow(buf, len) == WritableBytes(buf) + PrependableBytes(buf) < len + kCheapPrepend

Grow(buf, len) == [buf EXCEPT !.buffer_ = Resize(@, buf.writerIndex_ + len)]

MoveToFront(buf) ==
  [buffer_ |-> CopyTo(buf.buffer_, kCheapPrepend, Contents(buf)),
   readerIndex_ |-> kCheapPrepend,
   writerIndex_ |-> kCheapPrepend + ReadableBytes(buf)]

MakeSpace(buf, len) == IF MustGrow(buf, len) THEN Grow(buf, len) ELSE MoveToFront(buf)

(* The test of ensureWritableBytes.  Mutated form: off by one.             *)
NeedsSpaceForEqual(buf, len) == WritableBytes(buf) <= len
NeedsSpace(buf, len) == WritableBytes(buf) < len

EnsureWritableBytes(buf, len) == IF NeedsSpace(buf, len) THEN MakeSpace(buf, len) ELSE buf

(* Bytes are copied to beginWrite(), and writerIndex_ advanced: by append  *)
(* once there is space, by readv within the writable bytes.                *)
Written(buf, data) ==
  [buffer_ |-> CopyTo(buf.buffer_, buf.writerIndex_, data),
   readerIndex_ |-> buf.readerIndex_,
   writerIndex_ |-> buf.writerIndex_ + Len(data)]

AppendBytes(buf, data) == Written(EnsureWritableBytes(buf, Len(data)), data)

RetrieveAll(buf) ==
  [buf EXCEPT !.readerIndex_ = kCheapPrepend, !.writerIndex_ = kCheapPrepend]

RetrieveBytes(buf, len) ==
  IF len < ReadableBytes(buf)
  THEN [buf EXCEPT !.readerIndex_ = @ + len]
  ELSE RetrieveAll(buf)

(* What readv can deliver: extrabuf is offered if the writable space is    *)
(* smaller.                                                                *)
ReadCapacity(buf) ==
  IF WritableBytes(buf) < ExtraSize THEN WritableBytes(buf) + ExtraSize ELSE WritableBytes(buf)

(* readv fills the writable bytes first and then extrabuf, which is then   *)
(* appended to the full vector.  Mutated form: all of n is appended.       *)
Overflowing(buf, data) == SubSeq(data, WritableBytes(buf) + 1, Len(data))

ReadFdFrom(buf, data, rest) ==
  IF Len(data) <= WritableBytes(buf)
  THEN Written(buf, data)
  ELSE AppendBytes(Written(buf, SubSeq(data, 1, WritableBytes(buf))), rest)

ReadFdBytesTwice(buf, data) == ReadFdFrom(buf, data, data)
ReadFdBytes(buf, data) == ReadFdFrom(buf, data, Overflowing(buf, data))

-----------------------------------------------------------------------------
Init ==
  /\ b = [buffer_ |-> Filled(kCheapPrepend + kInitialSize),
          readerIndex_ |-> kCheapPrepend, writerIndex_ |-> kCheapPrepend]
  /\ last = [op |-> "none", bytes |-> <<>>]

Put(data, after) ==
  /\ Size(after) <= MaxSize
  /\ b' = after
  /\ last' = [op |-> "put", bytes |-> data]

Take(len, after) ==
  /\ b' = after
  /\ last' = [op |-> "take", bytes |-> Peek(b, len)]

(* sendInLoop appends what write did not take.                             *)
Append_ == \E data \in Pieces : Put(data, AppendBytes(b, data))

(* handleRead; an error of readv changes nothing.                          *)
ReadFd ==
  \E data \in Pieces : Len(data) <= ReadCapacity(b) /\ Put(data, ReadFdBytes(b, data))

(* handleWrite writes bytes at peek() to the socket and retrieves them;    *)
(* retrieveAsString copies them, of which the caller asks for at most      *)
(* readableBytes().                                                        *)
Retrieve == \E len \in 0 .. ReadableBytes(b) : Take(len, RetrieveBytes(b, len))

(* retrieveAll, and retrieve of more than there is.                        *)
Discard == Take(ReadableBytes(b), RetrieveAll(b))

Next == Append_ \/ ReadFd \/ Retrieve \/ Discard

Spec == Init /\ [][Next]_vars

-----------------------------------------------------------------------------
(* The vector and the indices: prependable, readable and writable bytes    *)
(* follow one another, and the first kCheapPrepend stay free (the picture  *)
(* at Buffer.h:12-18).                                                     *)
IsBuffer(buf) ==
  /\ buf \in [buffer_ : Seq(Byte), readerIndex_ : Nat, writerIndex_ : Nat]
  /\ kCheapPrepend <= buf.readerIndex_
  /\ buf.readerIndex_ <= buf.writerIndex_
  /\ buf.writerIndex_ <= Size(buf)

TypeOK ==
  /\ IsBuffer(b)
  /\ last \in [op : {"none", "put", "take"}, bytes : Seq(Byte)]

(* makeSpace moves bytes only towards the front, so that std::copy never   *)
(* overwrites what it has still to copy.                                   *)
MovesToFront ==
  \A len \in 0 .. MaxSize :
    NeedsSpace(b, len) /\ ~MustGrow(b, len) => kCheapPrepend < b.readerIndex_

(* The vector grows only when more than half of it (without the bytes kept *)
(* free) is to be read: space that was retrieved is used again before any  *)
(* is added, so that a reader who keeps up keeps the memory bounded.       *)
GrowsOnlyFull ==
  [][Size(b') > Size(b) => Size(b') < kCheapPrepend + 2 * ReadableBytes(b')]_vars

(* Whatever the indices do, a buffer is a queue of bytes.                  *)
Queue == INSTANCE ByteQueue WITH contents <- Contents(b)
ImplementsByteQueue == Queue!Spec

=============================================================================
