---------------------------- MODULE BufferProofs ----------------------------
(***************************************************************************)
(* Proofs about Buffer, for every value of its constants: the indices stay *)
(* in order and the bytes come out as they went in.                        *)
(*                                                                         *)
(* A buffer is compared with a sequence byte by byte (Holds), so that the  *)
(* lemmas about its operations need no law of SubSeq; ContentsHeld leads   *)
(* from there to Contents.                                                 *)
(***************************************************************************)
EXTENDS Buffer, SequenceTheorems, TLAPS

Holds(buf, s) ==
  /\ IsBuffer(buf) /\ s \in Seq(Byte)
  /\ Len(s) = ReadableBytes(buf)
  /\ \A i \in 1 .. Len(s) : buf.buffer_[buf.readerIndex_ + i] = s[i]

(* A buffer by its members, and members that make a buffer.                *)
LEMMA Members ==
  ASSUME NEW buf, IsBuffer(buf)
  PROVE  /\ buf.buffer_ \in Seq(Byte) /\ Len(buf.buffer_) \in Nat
         /\ buf.readerIndex_ \in Nat /\ buf.writerIndex_ \in Nat /\ kCheapPrepend \in Nat
         /\ kCheapPrepend <= buf.readerIndex_ /\ buf.readerIndex_ <= buf.writerIndex_
         /\ buf.writerIndex_ <= Len(buf.buffer_)
         /\ ReadableBytes(buf) \in Nat
         /\ buf.writerIndex_ = buf.readerIndex_ + ReadableBytes(buf)
         /\ WritableBytes(buf) \in Nat
         /\ Len(buf.buffer_) = buf.writerIndex_ + WritableBytes(buf)
<1>1. /\ buf.buffer_ \in Seq(Byte) /\ buf.readerIndex_ \in Nat /\ buf.writerIndex_ \in Nat
      /\ buf.readerIndex_ <= buf.writerIndex_ /\ buf.writerIndex_ <= Len(buf.buffer_)
      /\ kCheapPrepend <= buf.readerIndex_
  BY DEF IsBuffer, Size
<1>2. Len(buf.buffer_) \in Nat
  BY <1>1
<1>3. kCheapPrepend \in Nat
  BY BufferAssumption
<1> QED
  BY <1>1, <1>2, <1>3 DEF ReadableBytes, WritableBytes, Size

Made(v, r, w) == [buffer_ |-> v, readerIndex_ |-> r, writerIndex_ |-> w]

LEMMA MakesBuffer ==
  ASSUME NEW v \in Seq(Byte), NEW r \in Nat, NEW w \in Nat,
         kCheapPrepend <= r, r <= w, w <= Len(v)
  PROVE  /\ IsBuffer(Made(v, r, w))
         /\ ReadableBytes(Made(v, r, w)) = w - r
         /\ WritableBytes(Made(v, r, w)) = Len(v) - w
         /\ Made(v, r, w).buffer_ = v
         /\ Made(v, r, w).readerIndex_ = r
         /\ Made(v, r, w).writerIndex_ = w
  BY DEF Made, IsBuffer, Size, ReadableBytes, WritableBytes

(* What Peek returns of a buffer.                                          *)
LEMMA PeekBytes ==
  ASSUME NEW buf, IsBuffer(buf), NEW n \in 0 .. ReadableBytes(buf)
  PROVE  /\ Peek(buf, n) \in Seq(Byte) /\ Len(Peek(buf, n)) = n
         /\ \A i \in 1 .. n : Peek(buf, n)[i] = buf.buffer_[buf.readerIndex_ + i]
<1> DEFINE v == buf.buffer_
           r == buf.readerIndex_
           from == r + 1
           to == r + n
           t == SubSeq(v, from, to)
<1>1. v \in Seq(Byte) /\ Len(v) \in Nat /\ r \in Nat /\ r + n <= Len(v) /\ n \in Nat
  BY Members
<1> HIDE DEF v, r
<1>2. /\ from \in Int /\ to \in Int /\ to - from + 1 = n /\ (from <= to <=> n > 0)
      /\ \A i \in from .. to : i \in 1 .. Len(v)
      /\ \A i \in 1 .. n : from + i - 1 = r + i
  BY <1>1
<1>3. \A i \in from .. to : v[i] \in Byte
  BY <1>1, <1>2, ElementOfSeq
<1>4. /\ t \in Seq(Byte)
      /\ Len(t) = IF from <= to THEN to - from + 1 ELSE 0
      /\ \A i \in 1 .. to - from + 1 : t[i] = v[from + i - 1]
  <2> HIDE DEF from, to
  <2> QED BY <1>2, <1>3, SubSeqProperties
<1>5. Peek(buf, n) = t
  BY DEF Peek, v, r
<1> HIDE DEF from, to, t
<1>6. Len(t) = n
  BY <1>1, <1>2, <1>4
<1>7. \A i \in 1 .. n : t[i] = v[r + i]
  BY <1>2, <1>4
<1>8. Peek(buf, n) \in Seq(Byte) /\ Len(Peek(buf, n)) = n
  BY <1>4, <1>5, <1>6
<1>9. \A i \in 1 .. n : Peek(buf, n)[i] = v[r + i]
  BY <1>5, <1>7
<1> QED
  BY <1>8, <1>9 DEF v, r

(* The contents of a buffer are the sequence it holds.                     *)
LEMMA ContentsHeld ==
  ASSUME NEW buf, IsBuffer(buf)
  PROVE  /\ Holds(buf, Contents(buf))
         /\ \A s : Holds(buf, s) => Contents(buf) = s
<1>1. ReadableBytes(buf) \in 0 .. ReadableBytes(buf)
  BY DEF IsBuffer, ReadableBytes
<1>2. Holds(buf, Contents(buf))
  BY <1>1, PeekBytes DEF Contents, Holds
<1>3. ASSUME NEW s, Holds(buf, s) PROVE Contents(buf) = s
  BY <1>2, <1>3, SeqEqual DEF Holds
<1> QED
  BY <1>2, <1>3

-----------------------------------------------------------------------------
(* What resize and std::copy do to a vector of bytes.                      *)
LEMMA ResizeBytes ==
  ASSUME NEW v \in Seq(Byte), NEW n \in Nat
  PROVE  /\ Resize(v, n) \in Seq(Byte) /\ Len(Resize(v, n)) = n
         /\ \A i \in 1 .. n : i <= Len(v) => Resize(v, n)[i] = v[i]
<1>1. \A i \in 1 .. n : (IF i <= Len(v) THEN v[i] ELSE Zero) \in Byte
  BY BufferAssumption
<1> QED
  BY <1>1 DEF Resize

LEMMA CopyBytes ==
  ASSUME NEW v \in Seq(Byte), NEW at \in Nat, NEW s \in Seq(Byte), at + Len(s) <= Len(v)
  PROVE  /\ CopyTo(v, at, s) \in Seq(Byte) /\ Len(CopyTo(v, at, s)) = Len(v)
         /\ \A i \in 1 .. Len(s) : CopyTo(v, at, s)[at + i] = s[i]
         /\ \A i \in 1 .. at : CopyTo(v, at, s)[i] = v[i]
<1>1. \A i \in 1 .. Len(v) : i \in at + 1 .. at + Len(s) => i - at \in 1 .. Len(s)
  OBVIOUS
<1>2. \A i \in 1 .. Len(v) :
        (IF i \in at + 1 .. at + Len(s) THEN s[i - at] ELSE v[i]) \in Byte
  BY <1>1
<1> QED
  BY <1>2 DEF CopyTo

(* ensureWritableBytes makes the space, and keeps what the buffer holds.   *)
LEMMA EnsuresSpace ==
  ASSUME NEW buf, NEW s, Holds(buf, s), NEW len \in Nat
  PROVE  /\ Holds(EnsureWritableBytes(buf, len), s)
         /\ WritableBytes(EnsureWritableBytes(buf, len)) >= len
<1> DEFINE after == EnsureWritableBytes(buf, len)
           w == buf.writerIndex_
           r == buf.readerIndex_
           v == buf.buffer_
<1>1. /\ IsBuffer(buf) /\ s \in Seq(Byte) /\ Len(s) = ReadableBytes(buf)
      /\ \A i \in 1 .. Len(s) : v[r + i] = s[i]
  BY DEF Holds
<1>2. /\ v \in Seq(Byte) /\ Len(v) \in Nat /\ r \in Nat /\ w \in Nat /\ kCheapPrepend \in Nat
      /\ kCheapPrepend <= r /\ w = r + Len(s) /\ Len(s) \in Nat
      /\ WritableBytes(buf) \in Nat /\ Len(v) = w + WritableBytes(buf)
  BY <1>1, Members
<1>3. CASE ~NeedsSpace(buf, len)
  BY <1>2, <1>3 DEF EnsureWritableBytes, NeedsSpace
<1>4. CASE NeedsSpace(buf, len) /\ MustGrow(buf, len)
  <2> DEFINE u == Resize(v, w + len)
  <2>1. after = Made(u, r, w)
    BY <1>1, <1>4 DEF EnsureWritableBytes, MakeSpace, Grow, IsBuffer, Made
  <2>2. w + len > Len(v) /\ w + len \in Nat
    BY <1>2, <1>4 DEF NeedsSpace
  <2>3. /\ u \in Seq(Byte) /\ Len(u) = w + len
        /\ \A i \in 1 .. w + len : i <= Len(v) => u[i] = v[i]
    BY <1>2, <2>2, ResizeBytes
  <2> HIDE DEF u, v, w, r, after
  <2>4. ASSUME NEW i \in 1 .. Len(s) PROVE u[r + i] = s[i]
    <3>1. r + i \in 1 .. w + len /\ r + i <= Len(v)
      BY <1>2, <2>2
    <3> QED
      BY <1>1, <2>3, <3>1
  <2>5. /\ IsBuffer(after) /\ ReadableBytes(after) = Len(s) /\ WritableBytes(after) = len
        /\ after.buffer_ = u /\ after.readerIndex_ = r
    <3>1. /\ u \in Seq(Byte) /\ r \in Nat /\ kCheapPrepend <= r
          /\ w \in Nat /\ r <= w /\ w <= Len(u) /\ w - r = Len(s) /\ Len(u) - w = len
      BY <1>2, <2>3
    <3> DEFINE m == Made(u, r, w)
    <3>2. /\ IsBuffer(m) /\ ReadableBytes(m) = w - r
          /\ WritableBytes(m) = Len(u) - w
          /\ m.buffer_ = u /\ m.readerIndex_ = r
      BY <3>1, MakesBuffer
    <3> QED
      BY <2>1, <3>1, <3>2
  <2> QED
    BY <1>1, <2>4, <2>5 DEF Holds, after
<1>5. CASE NeedsSpace(buf, len) /\ ~MustGrow(buf, len)
  <2> DEFINE u == CopyTo(v, kCheapPrepend, s)
  <2> DEFINE c == kCheapPrepend + Len(s)
  <2>1. after = Made(u, kCheapPrepend, c)
    BY <1>1, <1>5, ContentsHeld DEF EnsureWritableBytes, MakeSpace, MoveToFront, Made
  <2>2. kCheapPrepend + Len(s) <= Len(v)
    BY <1>2
  <2>3. /\ u \in Seq(Byte) /\ Len(u) = Len(v)
        /\ \A i \in 1 .. Len(s) : u[kCheapPrepend + i] = s[i]
    BY <1>1, <1>2, <2>2, CopyBytes
  <2>4. Len(v) - (kCheapPrepend + Len(s)) >= len
    BY <1>2, <1>5 DEF MustGrow, PrependableBytes
  <2> HIDE DEF u, v, w, r, after
  <2>5. /\ IsBuffer(after) /\ ReadableBytes(after) = Len(s)
        /\ WritableBytes(after) = Len(u) - c
        /\ after.buffer_ = u /\ after.readerIndex_ = kCheapPrepend
    <3>1. /\ u \in Seq(Byte) /\ kCheapPrepend \in Nat /\ kCheapPrepend <= kCheapPrepend
          /\ c \in Nat /\ kCheapPrepend <= c /\ c <= Len(u) /\ c - kCheapPrepend = Len(s)
      BY <1>2, <2>2, <2>3
    <3> HIDE DEF c
    <3> DEFINE m == Made(u, kCheapPrepend, c)
    <3>2. /\ IsBuffer(m) /\ ReadableBytes(m) = c - kCheapPrepend
          /\ WritableBytes(m) = Len(u) - c
          /\ m.buffer_ = u /\ m.readerIndex_ = kCheapPrepend
      BY <3>1, MakesBuffer
    <3> QED
      BY <2>1, <3>1, <3>2
  <2> QED
    BY <1>1, <2>3, <2>4, <2>5 DEF Holds, after
<1> QED
  BY <1>3, <1>4, <1>5

(* Bytes written within the writable space are added at the end.           *)
LEMMA WritesAtEnd ==
  ASSUME NEW buf, NEW s, Holds(buf, s), NEW data \in Seq(Byte),
         Len(data) <= WritableBytes(buf)
  PROVE  Holds(Written(buf, data), s \o data)
<1> DEFINE after == Written(buf, data)
           w == buf.writerIndex_
           r == buf.readerIndex_
           v == buf.buffer_
           u == CopyTo(v, w, data)
           t == s \o data
<1>1. /\ IsBuffer(buf) /\ s \in Seq(Byte) /\ Len(s) = ReadableBytes(buf)
      /\ \A i \in 1 .. Len(s) : v[r + i] = s[i]
  BY DEF Holds
<1>2. /\ v \in Seq(Byte) /\ r \in Nat /\ w \in Nat /\ kCheapPrepend \in Nat
      /\ kCheapPrepend <= r /\ w = r + Len(s) /\ Len(s) \in Nat /\ Len(data) \in Nat
      /\ Len(v) = w + WritableBytes(buf) /\ w + Len(data) <= Len(v)
  BY <1>1, Members
<1>3. /\ u \in Seq(Byte) /\ Len(u) = Len(v)
      /\ \A i \in 1 .. Len(data) : u[w + i] = data[i]
      /\ \A i \in 1 .. w : u[i] = v[i]
  BY <1>2, CopyBytes
<1> DEFINE c == w + Len(data)
<1>4. after = Made(u, r, c)
  BY DEF Written, Made
<1>5. /\ t \in Seq(Byte) /\ Len(t) = Len(s) + Len(data)
      /\ \A i \in 1 .. Len(s) + Len(data) : t[i] = IF i <= Len(s) THEN s[i] ELSE data[i - Len(s)]
  BY <1>1, ConcatProperties
<1> HIDE DEF u, v, w, r, t, after
<1>6. ASSUME NEW i \in 1 .. Len(t) PROVE u[r + i] = t[i]
  <2>1. CASE i <= Len(s)
    BY <1>1, <1>2, <1>3, <1>5, <2>1
  <2>2. CASE i > Len(s)
    <3> DEFINE j == i - Len(s)
    <3>1. j \in 1 .. Len(data) /\ r + i = w + j
      BY <1>2, <1>5, <2>2
    <3>2. t[i] = data[j]
      BY <1>2, <1>5, <2>2
    <3> QED
      BY <1>3, <3>1, <3>2
  <2> QED
    BY <1>2, <1>5, <2>1, <2>2
<1>7. /\ IsBuffer(after) /\ ReadableBytes(after) = Len(t)
      /\ after.buffer_ = u /\ after.readerIndex_ = r
  <2>1. /\ u \in Seq(Byte) /\ r \in Nat /\ kCheapPrepend <= r
        /\ c \in Nat /\ r <= c /\ c <= Len(u) /\ c - r = Len(t)
    BY <1>2, <1>3, <1>5
  <2> HIDE DEF c
  <2>2. /\ IsBuffer(Made(u, r, c)) /\ ReadableBytes(Made(u, r, c)) = c - r
        /\ Made(u, r, c).buffer_ = u /\ Made(u, r, c).readerIndex_ = r
    BY <2>1, MakesBuffer
  <2> QED
    BY <1>4, <2>1, <2>2
<1> QED
  BY <1>5, <1>6, <1>7 DEF Holds, after, t

-----------------------------------------------------------------------------
(* append adds the bytes at the end, whatever makeSpace has to do.         *)
LEMMA AppendAdds ==
  ASSUME NEW buf, NEW s, Holds(buf, s), NEW data \in Seq(Byte)
  PROVE  Holds(AppendBytes(buf, data), s \o data)
<1>1. Len(data) \in Nat
  OBVIOUS
<1> QED
  BY <1>1, EnsuresSpace, WritesAtEnd DEF AppendBytes

(* A sequence is the concatenation of its two parts.                       *)
LEMMA SplitsAnywhere ==
  ASSUME NEW data \in Seq(Byte), NEW w \in Nat, w < Len(data)
  PROVE  /\ SubSeq(data, 1, w) \in Seq(Byte) /\ Len(SubSeq(data, 1, w)) = w
         /\ SubSeq(data, w + 1, Len(data)) \in Seq(Byte)
         /\ SubSeq(data, 1, w) \o SubSeq(data, w + 1, Len(data)) = data
<1> DEFINE n == Len(data)
<1>1. n \in Nat /\ w < n
  OBVIOUS
<1>2. \A i \in 1 .. n : data[i] \in Byte
  BY ElementOfSeq
<1> HIDE DEF n
<1> DEFINE first == SubSeq(data, 1, w)
           rest == SubSeq(data, w + 1, n)
<1>3. /\ SubSeq(data, 1, w) \in Seq(Byte)
      /\ Len(SubSeq(data, 1, w)) = IF 1 <= w THEN w - 1 + 1 ELSE 0
  <2>1. 1 \in Int /\ w \in Int /\ \A i \in 1 .. w : data[i] \in Byte
    BY <1>1, <1>2
  <2> QED
    BY <2>1, SubSeqProperties
<1>4. SubSeq(data, w + 1, n) \in Seq(Byte)
  <2>1. w + 1 \in Int /\ n \in Int /\ \A i \in w + 1 .. n : data[i] \in Byte
    BY <1>1, <1>2
  <2> QED
    BY <2>1, SubSeqProperties
<1>5. SubSeq(data, 1, w) \o SubSeq(data, w + 1, n) = SubSeq(data, 1, n)
  <2>1. 1 \in 1 .. Len(data) + 1 /\ w \in 1 - 1 .. Len(data) /\ n \in w .. Len(data)
    BY <1>1 DEF n
  <2> QED
    BY <2>1, ConcatAdjacentSubSeq
<1>6. SubSeq(data, 1, n) = data
  BY SubSeqFull DEF n
<1>7. Len(first) = w
  BY <1>3
<1> HIDE DEF first, rest
<1> QED
  BY <1>3, <1>4, <1>5, <1>6, <1>7 DEF first, rest, n

(* readFd adds the bytes that readv delivered, also those in extrabuf.     *)
LEMMA ReadFdAdds ==
  ASSUME NEW buf, NEW s, Holds(buf, s), NEW data \in Seq(Byte)
  PROVE  Holds(ReadFdBytes(buf, data), s \o data)
<1> DEFINE w == WritableBytes(buf)
           first == SubSeq(data, 1, w)
           rest == SubSeq(data, w + 1, Len(data))
<1>1. w \in Nat /\ Len(data) \in Nat
  BY DEF Holds, IsBuffer, WritableBytes, Size
<1>2. CASE Len(data) <= w
  BY <1>2, WritesAtEnd DEF ReadFdBytes, ReadFdFrom
<1>3. CASE ~(Len(data) <= w)
  <2>1. w < Len(data)
    BY <1>1, <1>3
  <2>2. /\ first \in Seq(Byte) /\ Len(first) = w
        /\ rest \in Seq(Byte)
        /\ first \o rest = data
    <3> HIDE DEF w
    <3> QED BY <1>1, <2>1, SplitsAnywhere
  <2>3. s \in Seq(Byte) /\ Len(first) <= WritableBytes(buf)
    BY <1>1, <2>2 DEF Holds
  <2> HIDE DEF w, first, rest
  <2>4. Holds(Written(buf, first), s \o first)
    BY <2>2, <2>3, WritesAtEnd
  <2>5. Holds(AppendBytes(Written(buf, first), rest), (s \o first) \o rest)
    BY <2>2, <2>4, AppendAdds
  <2>6. (s \o first) \o rest = s \o data
    <3>1. s \in Seq(Byte) /\ first \in Seq(Byte) /\ rest \in Seq(Byte)
      BY <2>2, <2>3
    <3>2. (s \o first) \o rest = s \o (first \o rest)
      BY <3>1, ConcatAssociative
    <3> QED
      BY <2>2, <3>2
  <2>7. ReadFdBytes(buf, data) = AppendBytes(Written(buf, first), rest)
    BY <1>3 DEF ReadFdBytes, ReadFdFrom, Overflowing, w, first, rest
  <2> QED
    BY <2>5, <2>6, <2>7
<1> QED
  BY <1>2, <1>3

(* retrieve takes the first bytes away: they are what peek() showed.       *)
LEMMA RetrieveTakes ==
  ASSUME NEW buf, IsBuffer(buf), NEW len \in 0 .. ReadableBytes(buf)
  PROVE  /\ IsBuffer(RetrieveBytes(buf, len))
         /\ Contents(buf) = Peek(buf, len) \o Contents(RetrieveBytes(buf, len))
<1> DEFINE after == RetrieveBytes(buf, len)
           n == ReadableBytes(buf)
           v == buf.buffer_
           r == buf.readerIndex_
           w == buf.writerIndex_
           taken == Peek(buf, len)
           kept == Contents(after)
           t == taken \o kept
<1>1. /\ v \in Seq(Byte) /\ r \in Nat /\ w \in Nat /\ n \in Nat /\ len \in Nat
      /\ kCheapPrepend \in Nat /\ kCheapPrepend <= r /\ w = r + n /\ w <= Len(v) /\ len <= n
  BY Members
<1>2. /\ IsBuffer(after) /\ ReadableBytes(after) = n - len
      /\ after.buffer_ = v
      /\ len < n => after.readerIndex_ = r + len
  <2>1. CASE len < n
    <3> DEFINE at == r + len
    <3>1. after = Made(v, at, w)
      BY <2>1 DEF RetrieveBytes, IsBuffer, Made
    <3>2. /\ v \in Seq(Byte) /\ at \in Nat /\ w \in Nat
          /\ kCheapPrepend <= at /\ at <= w /\ w <= Len(v) /\ w - at = n - len
      BY <1>1, <2>1
    <3> HIDE DEF at, v, w, n, after
    <3>3. /\ IsBuffer(Made(v, at, w)) /\ ReadableBytes(Made(v, at, w)) = w - at
          /\ Made(v, at, w).buffer_ = v /\ Made(v, at, w).readerIndex_ = at
      BY <3>2, MakesBuffer
    <3> QED
      BY <3>1, <3>2, <3>3 DEF at
  <2>2. CASE ~(len < n)
    <3>1. after = Made(v, kCheapPrepend, kCheapPrepend)
      BY <2>2 DEF RetrieveBytes, RetrieveAll, IsBuffer, Made
    <3>2. /\ v \in Seq(Byte) /\ kCheapPrepend \in Nat /\ kCheapPrepend <= kCheapPrepend
          /\ kCheapPrepend <= Len(v) /\ kCheapPrepend - kCheapPrepend = n - len
      BY <1>1, <2>2
    <3> HIDE DEF v, w, n, after
    <3> DEFINE m == Made(v, kCheapPrepend, kCheapPrepend)
    <3>3. /\ IsBuffer(m) /\ ReadableBytes(m) = kCheapPrepend - kCheapPrepend /\ m.buffer_ = v
      BY <3>2, MakesBuffer
    <3> HIDE DEF m
    <3> QED
      BY <2>2, <3>1, <3>2, <3>3 DEF m
  <2> QED
    BY <2>1, <2>2
<1>3. /\ taken \in Seq(Byte) /\ Len(taken) = len
      /\ \A i \in 1 .. len : taken[i] = v[r + i]
  BY PeekBytes
<1>4. /\ kept \in Seq(Byte) /\ Len(kept) = n - len
      /\ \A i \in 1 .. n - len : after.buffer_[after.readerIndex_ + i] = kept[i]
  <2> HIDE DEF after
  <2> QED BY <1>2, ContentsHeld DEF Holds
<1>5. /\ t \in Seq(Byte) /\ Len(t) = Len(taken) + Len(kept)
      /\ \A i \in 1 .. Len(taken) + Len(kept) :
           t[i] = IF i <= Len(taken) THEN taken[i] ELSE kept[i - Len(taken)]
  <2> HIDE DEF taken, kept
  <2> QED BY <1>3, <1>4, ConcatProperties
<1> HIDE DEF after, n, v, r, w, taken, kept, t
<1>6. ASSUME NEW i \in 1 .. n PROVE v[r + i] = t[i]
  <2>1. CASE i <= len
    BY <1>1, <1>3, <1>4, <1>5, <2>1
  <2>2. CASE i > len
    <3> DEFINE j == i - len
    <3>1. j \in 1 .. n - len /\ len < n /\ r + len + j = r + i
      BY <1>1, <2>2
    <3>2. t[i] = kept[j]
      BY <1>1, <1>3, <1>4, <1>5, <2>2
    <3>3. v[r + len + j] = kept[j]
      BY <1>2, <1>4, <3>1
    <3> QED
      BY <3>1, <3>2, <3>3
  <2> QED
    BY <1>1, <2>1, <2>2
<1>7. Holds(buf, t)
  BY <1>1, <1>3, <1>4, <1>5, <1>6 DEF Holds, n, v, r
<1> QED
  BY <1>2, <1>7, ContentsHeld DEF after, t, taken, kept

(* retrieveAll leaves nothing.                                             *)
LEMMA RetrieveAllTakes ==
  ASSUME NEW buf, IsBuffer(buf)
  PROVE  /\ RetrieveAll(buf) = RetrieveBytes(buf, ReadableBytes(buf))
         /\ ReadableBytes(buf) \in 0 .. ReadableBytes(buf)
  BY Members DEF RetrieveBytes

-----------------------------------------------------------------------------
(* The type invariant, and with it the order of the indices, is inductive. *)
LEMMA InitTypeOK == Init => TypeOK
<1> SUFFICES ASSUME Init PROVE TypeOK
  OBVIOUS
<1> DEFINE v == Filled(kCheapPrepend + kInitialSize)
<1>1. /\ v \in Seq(Byte) /\ Len(v) = kCheapPrepend + kInitialSize
      /\ kCheapPrepend \in Nat /\ kInitialSize \in Nat
  BY BufferAssumption DEF Filled
<1>2. b = Made(v, kCheapPrepend, kCheapPrepend)
  BY DEF Init, Made
<1> HIDE DEF v
<1>3. IsBuffer(b)
  BY <1>1, <1>2, MakesBuffer
<1>4. last \in [op : {"none", "put", "take"}, bytes : Seq(Byte)]
  BY DEF Init
<1> QED
  BY <1>3, <1>4 DEF TypeOK

(* What each operation does to the buffer, as the queue sees it.           *)
PutsIn(data) ==
  /\ data \in Seq(Byte) /\ last' = [op |-> "put", bytes |-> data]
  /\ IsBuffer(b') /\ Contents(b') = Contents(b) \o data

TakesOut(data) ==
  /\ data \in Seq(Byte) /\ last' = [op |-> "take", bytes |-> data]
  /\ IsBuffer(b') /\ Contents(b) = data \o Contents(b')

LEMMA Steps ==
  ASSUME TypeOK, Next
  PROVE  \E data : PutsIn(data) \/ TakesOut(data)
<1>1. IsBuffer(b) /\ Holds(b, Contents(b))
  BY ContentsHeld DEF TypeOK
<1>2. CASE Append_
  <2>1. PICK data \in Pieces : Put(data, AppendBytes(b, data))
    BY <1>2 DEF Append_
  <2>2. data \in Seq(Byte)
    BY BufferAssumption
  <2>3. Holds(b', Contents(b) \o data)
    BY <1>1, <2>1, <2>2, AppendAdds DEF Put
  <2>4. PutsIn(data)
    BY <2>1, <2>2, <2>3, ContentsHeld DEF Put, PutsIn, Holds
  <2> QED
    BY <2>4
<1>3. CASE ReadFd
  <2>1. PICK data \in Pieces : Put(data, ReadFdBytes(b, data))
    BY <1>3 DEF ReadFd
  <2>2. data \in Seq(Byte)
    BY BufferAssumption
  <2>3. Holds(b', Contents(b) \o data)
    BY <1>1, <2>1, <2>2, ReadFdAdds DEF Put
  <2>4. PutsIn(data)
    BY <2>1, <2>2, <2>3, ContentsHeld DEF Put, PutsIn, Holds
  <2> QED
    BY <2>4
<1>4. ASSUME NEW len \in 0 .. ReadableBytes(b), Take(len, RetrieveBytes(b, len))
      PROVE  TakesOut(Peek(b, len))
  BY <1>1, <1>4, PeekBytes, RetrieveTakes DEF Take, TakesOut
<1>5. CASE Retrieve
  <2>1. PICK len \in 0 .. ReadableBytes(b) : Take(len, RetrieveBytes(b, len))
    BY <1>5 DEF Retrieve
  <2> QED
    BY <1>4, <2>1
<1>6. CASE Discard
  <2>1. Take(ReadableBytes(b), RetrieveBytes(b, ReadableBytes(b)))
    BY <1>1, <1>6, RetrieveAllTakes DEF Discard
  <2> QED
    BY <1>1, <1>4, <2>1, RetrieveAllTakes
<1> QED
  BY <1>2, <1>3, <1>5, <1>6 DEF Next

(* The bytes kept free, the bytes to be read and the writable bytes follow *)
(* one another, whatever is appended, read and retrieved.                  *)
THEOREM TypeCorrect == Spec => []TypeOK
<1>1. TypeOK /\ [Next]_vars => TypeOK'
  <2> SUFFICES ASSUME TypeOK, [Next]_vars PROVE TypeOK'
    OBVIOUS
  <2>1. CASE Next
    <3>1. PICK data : PutsIn(data) \/ TakesOut(data)
      BY <2>1, Steps
    <3> QED
      BY <3>1 DEF TypeOK, PutsIn, TakesOut
  <2>2. CASE UNCHANGED vars
    BY <2>2 DEF TypeOK, vars, IsBuffer, Size
  <2> QED
    BY <2>1, <2>2
<1> QED
  BY <1>1, InitTypeOK, PTL DEF Spec

(* makeSpace never moves bytes up: when it need not grow the vector,       *)
(* something was retrieved before.                                         *)
THEOREM MovesOnlyToFront == Spec => []MovesToFront
<1>1. TypeOK => MovesToFront
  <2> SUFFICES ASSUME TypeOK, NEW len \in 0 .. MaxSize, NeedsSpace(b, len), ~MustGrow(b, len)
               PROVE  kCheapPrepend < b.readerIndex_
    BY DEF MovesToFront
  <2>1. /\ WritableBytes(b) \in Nat /\ b.readerIndex_ \in Nat /\ kCheapPrepend \in Nat
    BY Members DEF TypeOK
  <2>2. WritableBytes(b) < len
    BY DEF NeedsSpace
  <2>3. ~(WritableBytes(b) + b.readerIndex_ < len + kCheapPrepend)
    BY DEF MustGrow, PrependableBytes
  <2> QED
    BY <2>1, <2>2, <2>3
<1> QED
  BY <1>1, TypeCorrect, PTL

(* The buffer is a queue: appending and readFd put their bytes behind, and *)
(* what is retrieved was put in first.                                     *)
THEOREM IsQueue == Spec => ImplementsByteQueue
<1>1. Init => Queue!Init
  <2> SUFFICES ASSUME Init PROVE Queue!Init
    OBVIOUS
  <2>1. Len(Contents(b)) = 0 /\ Contents(b) \in Seq(Byte)
    <3>1. IsBuffer(b) /\ ReadableBytes(b) = 0
      BY InitTypeOK, BufferAssumption DEF TypeOK, Init, ReadableBytes
    <3> QED
      BY <3>1, ContentsHeld DEF Holds
  <2>2. Contents(b) = <<>>
    BY <2>1, EmptySeq
  <2> QED
    BY <2>2 DEF Init, Queue!Init, Queue!Operation
<1>2. TypeOK /\ [Next]_vars => [Queue!Next]_(Queue!vars)
  <2> SUFFICES ASSUME TypeOK, [Next]_vars PROVE [Queue!Next]_(Queue!vars)
    OBVIOUS
  <2>1. CASE Next
    <3>1. PICK data : PutsIn(data) \/ TakesOut(data)
      BY <2>1, Steps
    <3>2. Contents(b)' = Contents(b')
      BY DEF Contents, Peek, ReadableBytes
    <3>3. CASE PutsIn(data)
      <4>1. last'.op = "put" /\ last'.bytes = data /\ Contents(b)' = Contents(b) \o data
        BY <3>2, <3>3 DEF PutsIn
      <4> QED
        BY <4>1 DEF Queue!Next, Queue!Put
    <3>4. CASE TakesOut(data)
      <4>1. last'.op = "take" /\ last'.bytes = data /\ Contents(b) = data \o Contents(b)'
        BY <3>2, <3>4 DEF TakesOut
      <4> QED
        BY <4>1 DEF Queue!Next, Queue!Take
    <3> QED
      BY <3>1, <3>3, <3>4
  <2>2. CASE UNCHANGED vars
    BY <2>2 DEF vars, Queue!vars, Contents, Peek, ReadableBytes
  <2> QED
    BY <2>1, <2>2
<1> QED
  BY <1>1, <1>2, TypeCorrect, PTL DEF Spec, ImplementsByteQueue, Queue!Spec

-----------------------------------------------------------------------------
(* Written keeps the size of the vector.                                   *)
LEMMA WrittenSize ==
  ASSUME NEW buf, IsBuffer(buf), NEW data
  PROVE  Size(Written(buf, data)) = Size(buf)
<1>1. buf.buffer_ \in Seq(Byte)
  BY Members
<1>2. Len(CopyTo(buf.buffer_, buf.writerIndex_, data)) = Len(buf.buffer_)
  BY <1>1 DEF CopyTo
<1> QED
  BY <1>2 DEF Written, Size

(* The vector grows only when the contents, with what is appended, are     *)
(* more than half of it.                                                   *)
LEMMA AppendGrows ==
  ASSUME NEW buf, NEW s, Holds(buf, s), NEW data \in Seq(Byte)
  PROVE  Size(AppendBytes(buf, data)) > Size(buf) =>
           Size(AppendBytes(buf, data)) < kCheapPrepend + 2 * ReadableBytes(AppendBytes(buf, data))
<1> DEFINE len == Len(data)
           room == EnsureWritableBytes(buf, len)
           after == AppendBytes(buf, data)
<1> SUFFICES ASSUME Size(after) > Size(buf)
             PROVE  Size(after) < kCheapPrepend + 2 * ReadableBytes(after)
  OBVIOUS
<1>1. /\ len \in Nat /\ IsBuffer(buf) /\ ReadableBytes(buf) = Len(s) /\ s \in Seq(Byte)
  BY DEF Holds
<1>2. Holds(room, s)
  BY <1>1, EnsuresSpace
<1>3. Size(after) = Size(room)
  BY <1>2, WrittenSize DEF AppendBytes, Holds
<1>4. ReadableBytes(after) = Len(s) + len
  <2>1. Holds(after, s \o data)
    BY AppendAdds
  <2> QED
    BY <1>1, <2>1, ConcatProperties DEF Holds
<1>5. ~(~NeedsSpace(buf, len))
  BY <1>3 DEF EnsureWritableBytes, Size
<1>6. MustGrow(buf, len)
  <2> SUFFICES ASSUME ~MustGrow(buf, len) PROVE FALSE
    OBVIOUS
  <2>1. room.buffer_ = CopyTo(buf.buffer_, kCheapPrepend, Contents(buf))
    BY <1>5 DEF EnsureWritableBytes, MakeSpace, MoveToFront
  <2>2. Len(buf.buffer_) \in Nat /\ buf.buffer_ \in Seq(Byte)
    BY <1>1, Members
  <2>3. Len(room.buffer_) = Len(buf.buffer_)
    BY <2>1, <2>2 DEF CopyTo
  <2> QED
    BY <1>3, <2>2, <2>3 DEF Size
<1>7. Size(room) = buf.writerIndex_ + len
  <2>1. room.buffer_ = Resize(buf.buffer_, buf.writerIndex_ + len)
    BY <1>1, <1>5, <1>6 DEF EnsureWritableBytes, MakeSpace, Grow, IsBuffer
  <2>2. buf.writerIndex_ + len \in Nat /\ buf.buffer_ \in Seq(Byte)
    BY <1>1, Members
  <2>3. Len(Resize(buf.buffer_, buf.writerIndex_ + len)) = buf.writerIndex_ + len
    BY <2>2, ResizeBytes
  <2> QED
    BY <2>1, <2>3 DEF Size
<1>8. /\ buf.writerIndex_ = buf.readerIndex_ + Len(s) /\ buf.readerIndex_ \in Nat
      /\ kCheapPrepend \in Nat /\ Len(s) \in Nat /\ WritableBytes(buf) \in Nat
  BY <1>1, Members
<1>9. buf.readerIndex_ < len + kCheapPrepend
  BY <1>1, <1>6, <1>8 DEF MustGrow, PrependableBytes
<1> HIDE DEF len, room, after
<1> QED
  BY <1>1, <1>3, <1>4, <1>7, <1>8, <1>9

LEMMA ReadFdGrows ==
  ASSUME NEW buf, NEW s, Holds(buf, s), NEW data \in Seq(Byte)
  PROVE  Size(ReadFdBytes(buf, data)) > Size(buf) =>
           Size(ReadFdBytes(buf, data)) < kCheapPrepend + 2 * ReadableBytes(ReadFdBytes(buf, data))
<1> DEFINE w == WritableBytes(buf)
           first == SubSeq(data, 1, w)
           rest == SubSeq(data, w + 1, Len(data))
<1>1. IsBuffer(buf) /\ w \in Nat /\ Len(data) \in Nat /\ Size(buf) \in Nat
  BY Members DEF Holds, Size
<1>2. CASE Len(data) <= w
  <2>1. Size(ReadFdBytes(buf, data)) = Size(buf)
    BY <1>1, <1>2, WrittenSize DEF ReadFdBytes, ReadFdFrom
  <2> QED
    BY <1>1, <2>1
<1>3. CASE ~(Len(data) <= w)
  <2>1. w < Len(data)
    BY <1>1, <1>3
  <2>2. first \in Seq(Byte) /\ Len(first) = w /\ rest \in Seq(Byte)
    <3> HIDE DEF w
    <3> QED BY <1>1, <2>1, SplitsAnywhere
  <2>3. Len(first) <= WritableBytes(buf) /\ Size(Written(buf, first)) = Size(buf)
    BY <1>1, <2>2, WrittenSize
  <2>4. ReadFdBytes(buf, data) = AppendBytes(Written(buf, first), rest)
    BY <1>3 DEF ReadFdBytes, ReadFdFrom, Overflowing
  <2> HIDE DEF w, first, rest
  <2>5. Holds(Written(buf, first), s \o first)
    BY <2>2, <2>3, WritesAtEnd
  <2> QED
    BY <2>2, <2>3, <2>4, <2>5, AppendGrows
<1> QED
  BY <1>2, <1>3

(* A reader who keeps up keeps the memory bounded.                         *)
THEOREM GrowthBounded == Spec => GrowsOnlyFull
<1> DEFINE Bounded == Size(b') > Size(b) => Size(b') < kCheapPrepend + 2 * ReadableBytes(b')
<1>1. ASSUME TypeOK, [Next]_vars PROVE [Bounded]_vars
  <2>1. IsBuffer(b) /\ Holds(b, Contents(b)) /\ Size(b) \in Nat
    BY <1>1, ContentsHeld, Members DEF TypeOK, Size
  <2>2. CASE Append_
    <3>1. PICK data \in Pieces : Put(data, AppendBytes(b, data))
      BY <2>2 DEF Append_
    <3> QED
      BY <2>1, <3>1, AppendGrows, BufferAssumption DEF Put
  <2>3. CASE ReadFd
    <3>1. PICK data \in Pieces : Put(data, ReadFdBytes(b, data))
      BY <2>3 DEF ReadFd
    <3> QED
      BY <2>1, <3>1, ReadFdGrows, BufferAssumption DEF Put
  <2>4. ASSUME b' = RetrieveAll(b) \/ \E len : b' = RetrieveBytes(b, len)
        PROVE  Bounded
    <3>1. b'.buffer_ = b.buffer_
      BY <2>1, <2>4 DEF RetrieveAll, RetrieveBytes, IsBuffer
    <3> QED
      BY <2>1, <3>1 DEF Size
  <2>5. CASE Retrieve \/ Discard
    BY <2>4, <2>5 DEF Retrieve, Discard, Take
  <2>6. CASE UNCHANGED vars
    BY <2>6
  <2> QED
    BY <1>1, <2>2, <2>3, <2>5, <2>6 DEF Next
<1> QED
  BY <1>1, TypeCorrect, PTL DEF Spec, GrowsOnlyFull

=============================================================================
