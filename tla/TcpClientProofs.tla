-------------------------- MODULE TcpClientProofs --------------------------
(***************************************************************************)
(* Proofs about TcpClient, for any finite number of sockets: the client    *)
(* and its connector do one thing at a time, every open socket has an      *)
(* owner, and neither is used after its end unless it ended at an          *)
(* unfortunate moment.                                                     *)
(***************************************************************************)
EXTENDS TcpClient, FiniteSetTheorems, SequenceTheorems, TLAPS

FC(s) == [op |-> "forceCloseInLoop", socket |-> s]
CD(s) == [op |-> "connectDestroyed", socket |-> s]

(* The functors that wait, in the order in which they run, and regardless  *)
(* of it.                                                                  *)
Elems(s) == {s[i] : i \in DOMAIN s}
Line == functors \o pendingFunctors_
Waiting == Elems(Line)
Has(op) == \E f \in Waiting : f.op = op

(* What never waits behind f, when c is the connection: a second start;    *)
(* a use of a connection behind its end; and resetChannel, which is from   *)
(* the attempt that made c, behind a forced close of c, which may start    *)
(* the next attempt.                                                       *)
Clash(f, g, c) ==
  \/ f.op = "startInLoop" /\ g.op = "startInLoop"
  \/ f.op = "connectDestroyed" /\ g \in {CD(f.socket), FC(f.socket)}
  \/ f = FC(c) /\ g.op = "resetChannel"
InOrder(s, c) == \A i, j \in DOMAIN s : i < j => ~Clash(s[i], s[j], c)

(* What a step of the loop leaves when it ends.                            *)
Places ==
  /\ pc # "functors" => functors = <<>>
  /\ active # {} => pc = "events"
  /\ timerDue => pc = "events" /\ timers = 1
  /\ active \subseteq registered \cup ({connection_} \ {NoSocket})
  /\ pc = "handler" => state_ \in {"kConnecting", "kDisconnected"}
  /\ pc = "handler" /\ "err" \in revents => state_ = "kConnecting"

(* One activity at a time, and no resetChannel waits while one connects.   *)
One ==
  /\ registered = IF state_ = "kConnecting" THEN {channel_} ELSE {}
  /\ timers = 1 => state_ # "kConnecting" /\ connection_ = NoSocket /\ ~Has("startInLoop")
  /\ state_ = "kConnecting" =>
       connection_ = NoSocket /\ ~Has("startInLoop") /\ ~Has("resetChannel")
  /\ connection_ # NoSocket => ~Has("startInLoop")

Stops == Has("stopInLoop") => ~connect_

(* Nothing that may start an attempt comes before a resetChannel runs.     *)
Resets ==
  /\ Has("resetChannel") => ~Has("startInLoop") /\ ~timerDue /\ connection_ \notin active
  /\ pc \in {"poll", "functors"} /\ (connection_ # NoSocket \/ timers = 1) =>
       \A f \in Elems(pendingFunctors_) : f.op # "resetChannel"

(* The open sockets and their owners.                                      *)
Owners ==
  /\ registered \subseteq open
  /\ connection_ # NoSocket => connection_ \in open
  /\ \A f \in Waiting : f.op = "connectDestroyed" => f.socket \in open \ (registered \cup {connection_})
  /\ \A f \in Waiting : f.op = "forceCloseInLoop" =>
       f.socket \in Sockets /\ (f.socket = connection_ \/ CD(f.socket) \in Waiting)
  /\ \A s \in open : s \in registered \/ s = connection_ \/ CD(s) \in Waiting

(* After a safe end of the client the connector does nothing any more, and *)
(* is gone only when nothing is left that points to it.                    *)
Orphan ==
  ~alive /\ ~unsafeEnd =>
    /\ state_ # "kConnecting" /\ pc # "handler" /\ ~Has("startInLoop") /\ ~Has("resetChannel")
    /\ timers = 1 => ~connect_
    /\ Has("stopInLoop") =>
         /\ timers = 1 /\ ~timerDue /\ pc \in {"events", "functors"}
         /\ pc = "functors" => \A f \in Elems(pendingFunctors_) : f.op # "stopInLoop"

(* The inductive invariant.                                                *)
IInv ==
  /\ TypeOK /\ Places /\ One /\ Stops /\ Resets /\ Owners /\ Orphan
  /\ InOrder(Line, connection_) /\ NoUseAfterDestruction

-----------------------------------------------------------------------------
(* Functors.                                                               *)
LEMMA FunctorFacts ==
  /\ \A op \in {"startInLoop", "stopInLoop", "resetChannel"} :
       Functor(op) \in FunctorType /\ Functor(op).op = op
  /\ \A s \in Sockets : /\ FC(s) \in FunctorType /\ FC(s).op = "forceCloseInLoop" /\ FC(s).socket = s
                        /\ CD(s) \in FunctorType /\ CD(s).op = "connectDestroyed" /\ CD(s).socket = s
  /\ \A f \in FunctorType :
       /\ f.op = "connectDestroyed" => f = CD(f.socket)
       /\ f.op = "forceCloseInLoop" => f = FC(f.socket)
  BY DEF Functor, FunctorType, FC, CD

-----------------------------------------------------------------------------
(* Sequences: their elements, and their order.                             *)
LEMMA ElemsConcat ==
  ASSUME NEW S, NEW s \in Seq(S), NEW t \in Seq(S)
  PROVE  Elems(s \o t) = Elems(s) \cup Elems(t)
<1> DEFINE m == Len(s)
           n == Len(t)
           r == s \o t
<1>1. /\ r \in Seq(S) /\ Len(r) = m + n
      /\ \A i \in 1 .. m + n : r[i] = IF i <= m THEN s[i] ELSE t[i - m]
  BY ConcatProperties
<1>2. /\ m \in Nat /\ DOMAIN s = 1 .. m /\ n \in Nat /\ DOMAIN t = 1 .. n /\ DOMAIN r = 1 .. m + n
  BY <1>1, LenProperties
<1> HIDE DEF m, n, r
<1>3. ASSUME NEW i \in 1 .. m PROVE s[i] \in Elems(r)
  <2>1. i \in 1 .. m + n /\ r[i] = s[i]
    BY <1>1, <1>2
  <2> QED
    BY <1>2, <2>1 DEF Elems
<1>4. ASSUME NEW i \in 1 .. n PROVE t[i] \in Elems(r)
  <2>1. m + i \in 1 .. m + n /\ r[m + i] = t[i]
    BY <1>1, <1>2
  <2> QED
    BY <1>2, <2>1 DEF Elems
<1>5. ASSUME NEW i \in 1 .. m + n PROVE r[i] \in Elems(s) \cup Elems(t)
  <2>1. (i \in 1 .. m /\ r[i] = s[i]) \/ (i - m \in 1 .. n /\ r[i] = t[i - m])
    BY <1>1, <1>2
  <2> QED
    BY <1>2, <2>1 DEF Elems
<1>6. Elems(s) \subseteq Elems(r) /\ Elems(t) \subseteq Elems(r)
  <2>1. \A x \in Elems(s) : \E i \in 1 .. m : x = s[i]
    BY <1>2 DEF Elems
  <2>2. \A x \in Elems(t) : \E i \in 1 .. n : x = t[i]
    BY <1>2 DEF Elems
  <2> QED
    BY <1>3, <1>4, <2>1, <2>2
<1>7. Elems(r) \subseteq Elems(s) \cup Elems(t)
  <2>1. \A x \in Elems(r) : \E i \in 1 .. m + n : x = r[i]
    BY <1>2 DEF Elems
  <2> QED
    BY <1>5, <2>1
<1> QED
  BY <1>6, <1>7 DEF r

LEMMA ElemsAppend ==
  ASSUME NEW S, NEW s \in Seq(S), NEW f \in S
  PROVE  Elems(Append(s, f)) = Elems(s) \cup {f}
<1>1. <<f>> \in Seq(S) /\ Append(s, f) = s \o <<f>>
  BY AppendIsConcat
<1>2. Elems(<<f>>) = {f}
  BY DEF Elems
<1>3. Elems(s \o <<f>>) = Elems(s) \cup Elems(<<f>>)
  BY <1>1, ElemsConcat
<1> QED
  BY <1>1, <1>2, <1>3

LEMMA ElemsTail ==
  ASSUME NEW S, NEW s \in Seq(S), s # <<>>
  PROVE  /\ Elems(s) = {Head(s)} \cup Elems(Tail(s))
         /\ Head(s) \in S /\ Tail(s) \in Seq(S)
<1> DEFINE t == Tail(s)
           n == Len(s)
<1>1. /\ Len(t) = n - 1 /\ Head(s) = s[1] /\ Head(s) \in S /\ t \in Seq(S)
      /\ \A i \in 1 .. Len(t) : t[i] = s[i + 1]
  BY HeadTailProperties
<1>2. n \in Nat \ {0} /\ DOMAIN s = 1 .. n /\ DOMAIN t = 1 .. n - 1
  BY <1>1, LenProperties, EmptySeq
<1> HIDE DEF t, n
<1>3. ASSUME NEW i \in 1 .. n PROVE s[i] = Head(s) \/ s[i] \in Elems(t)
  <2>1. i = 1 \/ (i - 1 \in 1 .. n - 1 /\ t[i - 1] = s[i])
    BY <1>1, <1>2
  <2> QED
    BY <1>1, <1>2, <2>1 DEF Elems
<1>4. ASSUME NEW i \in 1 .. n - 1 PROVE t[i] \in Elems(s)
  <2>1. i + 1 \in 1 .. n /\ t[i] = s[i + 1]
    BY <1>1, <1>2
  <2> QED
    BY <1>2, <2>1 DEF Elems
<1>5. Head(s) \in Elems(s)
  BY <1>1, <1>2, 1 \in 1 .. n DEF Elems
<1>6. /\ \A x \in Elems(s) : \E i \in 1 .. n : x = s[i]
      /\ \A x \in Elems(t) : \E i \in 1 .. n - 1 : x = t[i]
  BY <1>2 DEF Elems
<1>7. Elems(s) = {Head(s)} \cup Elems(t)
  BY <1>3, <1>4, <1>5, <1>6
<1> QED
  BY <1>1, <1>7 DEF t

LEMMA ElemsType ==
  ASSUME NEW S, NEW s \in Seq(S)
  PROVE  Elems(s) \subseteq S
<1>1. DOMAIN s = 1 .. Len(s) /\ \A i \in 1 .. Len(s) : s[i] \in S
  BY ElementOfSeq, LenProperties
<1> QED
  BY <1>1 DEF Elems

(* The first of a batch is the first of the line.                         *)
LEMMA HeadTailOfLine ==
  ASSUME NEW S, NEW s \in Seq(S), NEW t \in Seq(S), s # <<>>
  PROVE  /\ s \o t # <<>> /\ Head(s \o t) = Head(s) /\ Tail(s \o t) = Tail(s) \o t
<1> DEFINE m == Len(s)
           n == Len(t)
           r == s \o t
           u == Tail(s)
           v == u \o t
           w == Tail(r)
<1>1. /\ r \in Seq(S) /\ Len(r) = m + n
      /\ \A i \in 1 .. m + n : r[i] = IF i <= m THEN s[i] ELSE t[i - m]
  BY ConcatProperties
<1>2. m \in Nat \ {0} /\ n \in Nat
  BY LenProperties, EmptySeq
<1>3. /\ u \in Seq(S) /\ Len(u) = m - 1 /\ Head(s) = s[1]
      /\ \A i \in 1 .. m - 1 : u[i] = s[i + 1]
  BY HeadTailProperties
<1>4. r # <<>>
  BY <1>1, <1>2, EmptySeq
<1>5. /\ w \in Seq(S) /\ Len(w) = m + n - 1 /\ Head(r) = r[1]
      /\ \A i \in 1 .. m + n - 1 : w[i] = r[i + 1]
  BY <1>1, <1>2, <1>4, HeadTailProperties
<1>6. /\ v \in Seq(S) /\ Len(v) = m - 1 + n
      /\ \A i \in 1 .. m - 1 + n : v[i] = IF i <= m - 1 THEN u[i] ELSE t[i - (m - 1)]
  BY <1>3, ConcatProperties
<1> HIDE DEF m, n, r, u, v, w
<1>7. r[1] = s[1]
  BY <1>1, <1>2
<1>8. ASSUME NEW i \in 1 .. m + n - 1 PROVE w[i] = v[i]
  <2>1. /\ w[i] = IF i + 1 <= m THEN s[i + 1] ELSE t[i + 1 - m]
        /\ v[i] = IF i <= m - 1 THEN u[i] ELSE t[i - (m - 1)]
    BY <1>1, <1>2, <1>5, <1>6
  <2>2. i + 1 - m = i - (m - 1) /\ (i + 1 <= m <=> i <= m - 1)
    BY <1>2
  <2> QED
    BY <1>2, <1>3, <2>1, <2>2
<1>9. Len(w) = Len(v)
  BY <1>2, <1>5, <1>6
<1>10. w = v
  BY <1>5, <1>6, <1>8, <1>9, SeqEqual
<1> QED
  BY <1>3, <1>4, <1>5, <1>7, <1>10 DEF r, w, v, u

LEMMA InOrderEmpty == Elems(<<>>) = {} /\ \A c : InOrder(<<>>, c)
  BY EmptySeq DEF Elems, InOrder

(* Behind the first nothing waits that clashes with it.                    *)
LEMMA InOrderTail ==
  ASSUME NEW S, NEW s \in Seq(S), s # <<>>, NEW c, InOrder(s, c)
  PROVE  /\ InOrder(Tail(s), c)
         /\ \A g \in Elems(Tail(s)) : ~Clash(Head(s), g, c)
<1>1. /\ Len(Tail(s)) = Len(s) - 1 /\ Head(s) = s[1] /\ Tail(s) \in Seq(S)
      /\ \A i \in 1 .. Len(Tail(s)) : Tail(s)[i] = s[i + 1]
  BY HeadTailProperties
<1>2. Len(s) \in Nat \ {0} /\ DOMAIN s = 1 .. Len(s) /\ DOMAIN Tail(s) = 1 .. Len(s) - 1
  BY <1>1, LenProperties, EmptySeq
<1>3. \A i \in 1 .. Len(s) - 1 : i + 1 \in 1 .. Len(s) /\ 1 < i + 1 /\ Tail(s)[i] = s[i + 1]
  BY <1>1, <1>2
<1>4. \A i, j \in 1 .. Len(s) : i < j => ~Clash(s[i], s[j], c)
  BY <1>2 DEF InOrder
<1>5. \A g \in Elems(Tail(s)) : ~Clash(Head(s), g, c)
  <2>1. \A g \in Elems(Tail(s)) : \E i \in 1 .. Len(s) - 1 : g = s[i + 1]
    BY <1>2, <1>3 DEF Elems
  <2> QED
    BY <1>1, <1>2, <1>3, <1>4, <2>1
<1>6. \A i, j \in 1 .. Len(s) - 1 : i < j => ~Clash(Tail(s)[i], Tail(s)[j], c)
  <2>1. \A i, j \in 1 .. Len(s) - 1 : i < j => i + 1 < j + 1
    BY <1>2
  <2> QED
    BY <1>3, <1>4, <2>1
<1> QED
  BY <1>2, <1>5, <1>6 DEF InOrder

(* A functor is queued behind those it does not clash with.                *)
LEMMA InOrderAppend ==
  ASSUME NEW S, NEW s \in Seq(S), NEW f \in S, NEW c, InOrder(s, c),
         \A g \in Elems(s) : ~Clash(g, f, c)
  PROVE  InOrder(Append(s, f), c)
<1> DEFINE m == Len(s)
           r == Append(s, f)
<1>1. /\ r \in Seq(S) /\ Len(r) = m + 1
      /\ \A i \in 1 .. m : r[i] = s[i]
      /\ r[m + 1] = f
  BY AppendProperties
<1>2. m \in Nat /\ DOMAIN s = 1 .. m /\ DOMAIN r = 1 .. m + 1
  BY <1>1, LenProperties
<1> HIDE DEF m, r
<1>3. \A i \in 1 .. m : s[i] \in Elems(s)
  BY <1>2 DEF Elems
<1>4. \A i, j \in 1 .. m : i < j => ~Clash(s[i], s[j], c)
  BY <1>2 DEF InOrder
<1>5. ASSUME NEW i \in 1 .. m + 1, NEW j \in 1 .. m + 1, i < j
      PROVE  ~Clash(r[i], r[j], c)
  <2>1. i \in 1 .. m
    BY <1>2, <1>5
  <2>2. CASE j \in 1 .. m
    BY <1>1, <1>4, <1>5, <2>1, <2>2
  <2>3. CASE j = m + 1
    BY <1>1, <1>3, <2>1, <2>3
  <2> QED
    BY <1>2, <2>2, <2>3
<1> QED
  BY <1>2, <1>5 DEF InOrder, r

(* The connection changes.                                                 *)
LEMMA InOrderOther ==
  ASSUME NEW s, NEW c, NEW d, InOrder(s, c), FC(d) \notin Elems(s)
  PROVE  InOrder(s, d)
<1>1. \A i \in DOMAIN s : s[i] # FC(d)
  BY DEF Elems
<1> QED
  BY <1>1 DEF InOrder, Clash

LEMMA ConcatAppend ==
  ASSUME NEW S, NEW s \in Seq(S), NEW t \in Seq(S), NEW f \in S
  PROVE  s \o Append(t, f) = Append(s \o t, f)
<1>1. s \o t \in Seq(S)
  BY ConcatProperties
<1>2. Append(t, f) = t \o <<f>> /\ <<f>> \in Seq(S)
  BY AppendIsConcat
<1>3. Append(s \o t, f) = (s \o t) \o <<f>>
  BY <1>1, AppendIsConcat
<1>4. s \o (t \o <<f>>) = (s \o t) \o <<f>>
  BY <1>2, ConcatAssociative
<1> QED
  BY <1>2, <1>3, <1>4

-----------------------------------------------------------------------------
(* What waits, with queue p and batch q, after each kind of step.          *)

(* A functor is queued.                                                    *)
LEMMA Filled ==
  ASSUME NEW p \in Seq(FunctorType), NEW q \in Seq(FunctorType), NEW f \in FunctorType
  PROVE  /\ Append(p, f) \in Seq(FunctorType)
         /\ Elems(Append(p, f)) = Elems(p) \cup {f}
         /\ Elems(q \o Append(p, f)) = Elems(q \o p) \cup {f}
         /\ \A c : InOrder(q \o p, c) /\ (\A g \in Elems(q \o p) : ~Clash(g, f, c))
                     => InOrder(q \o Append(p, f), c)
<1> DEFINE r == q \o p
<1>1. r \in Seq(FunctorType)
  BY ConcatProperties
<1>2. q \o Append(p, f) = Append(r, f)
  BY ConcatAppend DEF r
<1> HIDE DEF r
<1>3. Append(p, f) \in Seq(FunctorType) /\ Elems(Append(p, f)) = Elems(p) \cup {f}
  <2>1. Append(p, f) \in Seq(FunctorType)
    BY AppendProperties
  <2> QED
    BY <2>1, ElemsAppend
<1>4. Elems(Append(r, f)) = Elems(r) \cup {f}
  BY <1>1, ElemsAppend
<1>5. \A c : InOrder(r, c) /\ (\A g \in Elems(r) : ~Clash(g, f, c)) => InOrder(Append(r, f), c)
  BY <1>1, InOrderAppend
<1> QED
  BY <1>2, <1>3, <1>4, <1>5 DEF r

(* The loop takes the first functor of its batch.                          *)
LEMMA Taken ==
  ASSUME NEW p \in Seq(FunctorType), NEW q \in Seq(FunctorType), q # <<>>
  PROVE  /\ Tail(q) \in Seq(FunctorType) /\ q[1] \in FunctorType
         /\ Elems(q \o p) = {q[1]} \cup Elems(Tail(q) \o p)
         /\ \A c : InOrder(q \o p, c) =>
              /\ InOrder(Tail(q) \o p, c)
              /\ \A g \in Elems(Tail(q) \o p) : ~Clash(q[1], g, c)
<1> DEFINE r == q \o p
<1>1. r \in Seq(FunctorType) /\ r # <<>> /\ Head(r) = q[1] /\ Tail(r) = Tail(q) \o p
  BY ConcatProperties, HeadTailOfLine
<1>2. Tail(q) \in Seq(FunctorType) /\ q[1] \in FunctorType
  BY ElemsTail
<1> HIDE DEF r
<1>3. Elems(r) = {Head(r)} \cup Elems(Tail(r))
  BY <1>1, ElemsTail
<1>4. \A c : InOrder(r, c) => InOrder(Tail(r), c) /\ \A g \in Elems(Tail(r)) : ~Clash(Head(r), g, c)
  BY <1>1, InOrderTail
<1> QED
  BY <1>1, <1>2, <1>3, <1>4 DEF r

(* What is in the queue or the batch waits.                                *)
LEMMA Parts ==
  ASSUME NEW p \in Seq(FunctorType), NEW q \in Seq(FunctorType)
  PROVE  /\ Elems(q \o p) = Elems(q) \cup Elems(p) /\ Elems(q \o p) \subseteq FunctorType
         /\ <<>> \in Seq(FunctorType) /\ p \o <<>> = p /\ <<>> \o p = p
<1>1. q \o p \in Seq(FunctorType)
  BY ConcatProperties
<1> QED
  BY <1>1, ElemsConcat, ElemsType, ConcatEmptySeq, EmptySeq

-----------------------------------------------------------------------------
(* What the invariant says of a state, and what waits after a step.        *)
LEMMA WaitingFacts ==
  ASSUME TypeOK
  PROVE  /\ Waiting = Elems(functors) \cup Elems(pendingFunctors_) /\ Waiting \subseteq FunctorType
         /\ \A op : Queued(op) <=> Has(op)
<1>1. Waiting = Elems(functors) \cup Elems(pendingFunctors_) /\ Waiting \subseteq FunctorType
  BY Parts DEF TypeOK, Waiting, Line
<1> QED
  BY <1>1 DEF Queued, Has, Elems

LEMMA QueueStep ==
  ASSUME TypeOK, NEW f \in FunctorType, QueueInLoop(f), UNCHANGED functors
  PROVE  /\ pendingFunctors_' \in Seq(FunctorType) /\ functors' \in Seq(FunctorType)
         /\ Elems(functors') = Elems(functors)
         /\ Elems(pendingFunctors_') = Elems(pendingFunctors_) \cup {f}
         /\ Waiting' = Waiting \cup {f}
         /\ \A c : InOrder(Line, c) /\ (\A g \in Waiting : ~Clash(g, f, c)) => InOrder(Line', c)
<1>1. pendingFunctors_ \in Seq(FunctorType) /\ functors \in Seq(FunctorType)
  BY DEF TypeOK
<1>2. Line' = functors \o Append(pendingFunctors_, f)
  BY DEF Line, QueueInLoop
<1>3. pendingFunctors_' = Append(pendingFunctors_, f)
  BY DEF QueueInLoop
<1> QED
  BY <1>1, <1>2, <1>3, Filled DEF Waiting, Line

(* The loop runs the first functor, h, of its batch.                       *)
LEMMA RunStep ==
  ASSUME TypeOK, NEW op, NextFunctor(op), UNCHANGED pendingFunctors_
  PROVE  /\ pendingFunctors_' \in Seq(FunctorType) /\ functors' \in Seq(FunctorType)
         /\ functors[1] \in FunctorType /\ functors[1].op = op
         /\ Elems(pendingFunctors_') = Elems(pendingFunctors_)
         /\ Waiting = {functors[1]} \cup Waiting'
         /\ \A c : InOrder(Line, c) =>
              InOrder(Line', c) /\ \A g \in Waiting' : ~Clash(functors[1], g, c)
<1>1. pendingFunctors_ \in Seq(FunctorType) /\ functors \in Seq(FunctorType) /\ functors # <<>>
  BY DEF TypeOK, NextFunctor
<1>2. functors' = Tail(functors) /\ functors[1].op = op
  BY DEF NextFunctor
<1>3. Line' = Tail(functors) \o pendingFunctors_
  BY <1>2 DEF Line
<1> QED
  BY <1>1, <1>2, <1>3, Taken DEF Waiting, Line

(* It runs the first functor, which queues another.                        *)
LEMMA RunQueueStep ==
  ASSUME TypeOK, NEW op, NextFunctor(op), NEW f \in FunctorType, QueueInLoop(f)
  PROVE  /\ pendingFunctors_' \in Seq(FunctorType) /\ functors' \in Seq(FunctorType)
         /\ functors[1] \in FunctorType /\ functors[1].op = op
         /\ Elems(pendingFunctors_') = Elems(pendingFunctors_) \cup {f}
         /\ \E W \in SUBSET FunctorType :
              /\ Waiting = {functors[1]} \cup W
              /\ Waiting' = W \cup {f}
              /\ \A c : InOrder(Line, c) =>
                   /\ \A g \in W : ~Clash(functors[1], g, c)
                   /\ (\A g \in W : ~Clash(g, f, c)) => InOrder(Line', c)
<1> DEFINE p == pendingFunctors_
           q == Tail(functors)
           W == Elems(q \o p)
<1>1. p \in Seq(FunctorType) /\ functors \in Seq(FunctorType) /\ functors # <<>>
  BY DEF TypeOK, NextFunctor
<1>2. functors' = q /\ functors[1].op = op /\ pendingFunctors_' = Append(p, f)
  BY DEF NextFunctor, QueueInLoop
<1>3. /\ q \in Seq(FunctorType) /\ functors[1] \in FunctorType
      /\ Waiting = {functors[1]} \cup W
      /\ \A c : InOrder(Line, c) => InOrder(q \o p, c) /\ \A g \in W : ~Clash(functors[1], g, c)
  BY <1>1, Taken DEF Waiting, Line
<1>4. Line' = q \o Append(p, f)
  BY <1>2 DEF Line
<1> HIDE DEF p, q
<1>5. /\ Append(p, f) \in Seq(FunctorType)
      /\ Elems(Append(p, f)) = Elems(p) \cup {f}
      /\ Elems(q \o Append(p, f)) = W \cup {f}
      /\ \A c : InOrder(q \o p, c) /\ (\A g \in W : ~Clash(g, f, c)) => InOrder(q \o Append(p, f), c)
  BY <1>1, <1>3, Filled
<1>6. Waiting' = W \cup {f}
  BY <1>4, <1>5 DEF Waiting
<1>7. W \subseteq FunctorType
  BY <1>1, <1>3, Parts
<1> HIDE DEF W
<1>8. \A c : InOrder(Line, c) =>
        /\ \A g \in W : ~Clash(functors[1], g, c)
        /\ (\A g \in W : ~Clash(g, f, c)) => InOrder(Line', c)
  BY <1>3, <1>4, <1>5 DEF W
<1> QED
  BY <1>2, <1>3, <1>5, <1>6, <1>7, <1>8 DEF p

(* Nothing is queued or run.                                               *)
LEMMA QuietStep ==
  ASSUME UNCHANGED <<pendingFunctors_, functors>>
  PROVE  /\ Line' = Line /\ Waiting' = Waiting /\ Elems(pendingFunctors_') = Elems(pendingFunctors_)
         /\ \A op : Has(op)' <=> Has(op)
  BY DEF Line, Waiting, Has, Elems

(* connect(): an attempt, a retry delay, or nothing.                       *)
LEMMA Started ==
  ASSUME TypeOK, registered = {}, state_ # "kConnecting",
         \/ ConnectProceeds(0) \/ ConnectFails(0)
         \/ timers' = 0 /\ UNCHANGED <<state_, channel_, registered, open, gaveUp>>
  PROVE  /\ state_' \in {"kDisconnected", "kConnecting", "kConnected"}
         /\ channel_' \in Sockets \cup {NoSocket} /\ gaveUp' \in BOOLEAN
         /\ registered' = IF state_' = "kConnecting" THEN {channel_'} ELSE {}
         /\ registered' \subseteq Sockets /\ open' \subseteq Sockets
         /\ open' = open \cup registered' /\ registered' \cap open = {}
         /\ timers' \in 0 .. 1 /\ (timers' = 1 => state_' # "kConnecting")
<1>1. CASE ConnectProceeds(0)
  <2>1. PICK s \in Sockets \ open :
          /\ open' = open \cup {s} /\ state_' = "kConnecting" /\ channel_' = s
          /\ registered' = registered \cup {s} /\ gaveUp' = FALSE /\ timers' = 0
    BY <1>1 DEF ConnectProceeds
  <2>2. registered' = {s}
    BY <2>1
  <2>3. open' = open \cup registered' /\ registered' \cap open = {}
    BY <2>1, <2>2
  <2>4. registered' \subseteq Sockets /\ open' \subseteq Sockets
    BY <2>1, <2>2 DEF TypeOK
  <2>5. timers' \in 0 .. 1 /\ timers' # 1
    BY <2>1
  <2> QED
    BY <2>1, <2>2, <2>3, <2>4, <2>5
<1>2. CASE ConnectFails(0)
  <2>1. /\ state_' \in {state_, "kDisconnected"} /\ gaveUp' \in BOOLEAN
        /\ timers' \in {0, 1} /\ UNCHANGED <<channel_, registered, open>>
    <3>1. timers' = 0 + 1 \/ timers' = 0
      BY <1>2 DEF ConnectFails, TimersAfterRetry
    <3>2. state_' \in {state_, "kDisconnected"} /\ gaveUp' \in BOOLEAN
      BY <1>2 DEF ConnectFails
    <3> QED
      BY <1>2, <3>1, <3>2 DEF ConnectFails
  <2>2. state_' # "kConnecting" /\ state_' \in {"kDisconnected", "kConnecting", "kConnected"}
    BY <2>1 DEF TypeOK
  <2> QED
    BY <2>1, <2>2 DEF TypeOK
<1>3. CASE timers' = 0 /\ UNCHANGED <<state_, channel_, registered, open, gaveUp>>
  BY <1>3 DEF TypeOK
<1> QED
  BY <1>1, <1>2, <1>3

-----------------------------------------------------------------------------
(* The calls of the user.                                                  *)
LEMMA StopStep == IInv /\ Stop /\ ~undefined => IInv'
<1> SUFFICES ASSUME IInv, Stop, ~undefined PROVE IInv'
  OBVIOUS
<1> DEFINE f == Functor("stopInLoop")
<1>1. TypeOK /\ Places /\ One /\ Stops /\ Resets /\ Owners /\ Orphan /\ InOrder(Line, connection_)
  BY DEF IInv
<1>2. f \in FunctorType /\ f.op = "stopInLoop"
  BY FunctorFacts
<1>3. QueueInLoop(f) /\ connect_' = FALSE /\ clientConnect_' = FALSE /\ alive
      /\ UNCHANGED <<attemptVars, retry_, connection_, alive, unsafeEnd, loopVars, undefined>>
  BY DEF Stop
<1> USE DEF attemptVars, loopVars
<1> HIDE DEF f
<1>4. /\ pendingFunctors_' \in Seq(FunctorType) /\ functors' \in Seq(FunctorType)
      /\ Elems(pendingFunctors_') = Elems(pendingFunctors_) \cup {f}
      /\ Waiting' = Waiting \cup {f}
      /\ \A c : InOrder(Line, c) /\ (\A g \in Waiting : ~Clash(g, f, c)) => InOrder(Line', c)
  BY <1>1, <1>2, <1>3, QueueStep
<1>5. InOrder(Line, connection_)'
  <2>1. \A g \in Waiting : ~Clash(g, f, connection_)
    BY <1>2 DEF Clash, CD, FC
  <2> QED
    BY <1>1, <1>3, <1>4, <2>1
<1>6. TypeOK'
  BY <1>1, <1>3, <1>4 DEF TypeOK
<1>7. Places'
  BY <1>1, <1>3 DEF Places
<1>8. One' /\ Stops'
  BY <1>1, <1>2, <1>3, <1>4 DEF One, Stops, Has
<1>9. Resets'
  BY <1>1, <1>2, <1>3, <1>4 DEF Resets, Has
<1>10. Owners'
  BY <1>1, <1>2, <1>3, <1>4 DEF Owners
<1>11. Orphan' /\ NoUseAfterDestruction'
  BY <1>1, <1>3 DEF Orphan, NoUseAfterDestruction
<1> QED
  BY <1>5, <1>6, <1>7, <1>8, <1>9, <1>10, <1>11 DEF IInv

LEMMA DisconnectStep == IInv /\ Disconnect /\ ~undefined => IInv'
<1> SUFFICES ASSUME IInv, Disconnect, ~undefined PROVE IInv'
  OBVIOUS
<1>1. TypeOK /\ Places /\ One /\ Stops /\ Resets /\ Owners /\ Orphan /\ InOrder(Line, connection_)
  BY DEF IInv
<1>2. clientConnect_' = FALSE /\ alive
      /\ UNCHANGED <<connectorVars, retry_, connection_, alive, unsafeEnd, loopVars, undefined>>
  BY DEF Disconnect
<1> USE DEF connectorVars, attemptVars, loopVars
<1>3. Line' = Line /\ Waiting' = Waiting /\ Elems(pendingFunctors_') = Elems(pendingFunctors_)
  BY <1>2, QuietStep
<1>4. TypeOK' /\ Places'
  BY <1>1, <1>2 DEF TypeOK, Places
<1>5. One' /\ Stops' /\ Resets' /\ Owners'
  BY <1>1, <1>2, <1>3 DEF One, Stops, Resets, Owners, Has
<1>6. Orphan' /\ NoUseAfterDestruction'
  BY <1>2 DEF Orphan, NoUseAfterDestruction
<1>7. InOrder(Line, connection_)'
  BY <1>1, <1>2, <1>3
<1> QED
  BY <1>4, <1>5, <1>6, <1>7 DEF IInv

LEMMA ForceCloseStep == IInv /\ ForceClose /\ ~undefined => IInv'
<1> SUFFICES ASSUME IInv, ForceClose, ~undefined PROVE IInv'
  OBVIOUS
<1> DEFINE f == FC(connection_)
<1>1. TypeOK /\ Places /\ One /\ Stops /\ Resets /\ Owners /\ Orphan /\ InOrder(Line, connection_)
  BY DEF IInv
<1>2. connection_ \in Sockets /\ connection_ # NoSocket
  BY <1>1 DEF TypeOK, ForceClose
<1>3. f \in FunctorType /\ f.op = "forceCloseInLoop" /\ f.socket = connection_
  BY <1>2, FunctorFacts
<1>4. QueueInLoop(f) /\ UNCHANGED <<connect_, attemptVars, clientVars, loopVars, undefined>>
  BY DEF ForceClose, FC
<1> USE DEF attemptVars, clientVars, loopVars
<1>5. \A g \in Waiting : ~Clash(g, f, connection_)
  <2>1. \A g \in Waiting : g.op = "connectDestroyed" => g.socket # connection_
    BY <1>1 DEF Owners
  <2> QED
    BY <1>3, <2>1 DEF Clash, CD, FC
<1> HIDE DEF f
<1>6. /\ pendingFunctors_' \in Seq(FunctorType) /\ functors' \in Seq(FunctorType)
      /\ Elems(pendingFunctors_') = Elems(pendingFunctors_) \cup {f}
      /\ Waiting' = Waiting \cup {f}
      /\ \A c : InOrder(Line, c) /\ (\A g \in Waiting : ~Clash(g, f, c)) => InOrder(Line', c)
  BY <1>1, <1>3, <1>4, QueueStep
<1>7. InOrder(Line, connection_)'
  BY <1>1, <1>4, <1>5, <1>6
<1>8. TypeOK'
  BY <1>1, <1>4, <1>6 DEF TypeOK
<1>9. Places'
  BY <1>1, <1>4 DEF Places
<1>10. One' /\ Stops'
  BY <1>1, <1>3, <1>4, <1>6 DEF One, Stops, Has
<1>11. Resets'
  BY <1>1, <1>3, <1>4, <1>6 DEF Resets, Has
<1>12. Owners'
  BY <1>1, <1>2, <1>3, <1>4, <1>6 DEF Owners
<1>13. Orphan' /\ NoUseAfterDestruction'
  BY <1>1, <1>3, <1>4, <1>6 DEF Orphan, NoUseAfterDestruction, Has, IInv
<1> QED
  BY <1>7, <1>8, <1>9, <1>10, <1>11, <1>12, <1>13 DEF IInv

(* ~TcpClient with a connection, and without one.                          *)
LEMMA EndClientStep == IInv /\ EndClient /\ ~undefined => IInv'
<1> SUFFICES ASSUME IInv, EndClient, ~undefined PROVE IInv'
  OBVIOUS
<1>1. TypeOK /\ Places /\ One /\ Stops /\ Resets /\ Owners /\ Orphan /\ InOrder(Line, connection_)
  BY DEF IInv
<1>2. /\ pc # "handler" /\ pc # "poll" /\ alive' = FALSE
      /\ UNCHANGED <<attemptVars, clientConnect_, retry_, connection_, loopVars, undefined>>
      /\ unsafeEnd' \in BOOLEAN
      /\ ~unsafeEnd' =>
           /\ connection_ # NoSocket \/ (timers > 0 /\ ~timerDue /\ pc = "events")
           /\ ~Has("startInLoop") /\ ~Has("stopInLoop") /\ ~Has("resetChannel")
  BY <1>1, WaitingFacts DEF EndClient, UserCode
<1>3. \/ UNCHANGED <<connect_, pendingFunctors_>> /\ connection_ # NoSocket
      \/ QueueInLoop(FC(connection_)) /\ UNCHANGED connect_ /\ connection_ # NoSocket
      \/ QueueInLoop(Functor("stopInLoop")) /\ connect_' = FALSE /\ connection_ = NoSocket
  BY DEF EndClient, FC
<1> USE DEF attemptVars, loopVars
<1>4. ASSUME UNCHANGED <<connect_, pendingFunctors_>>, connection_ # NoSocket PROVE IInv'
  <2>1. Line' = Line /\ Waiting' = Waiting /\ Elems(pendingFunctors_') = Elems(pendingFunctors_)
    BY <1>2, <1>4, QuietStep
  <2>2. TypeOK' /\ Places'
    BY <1>1, <1>2, <1>4 DEF TypeOK, Places
  <2>3. One' /\ Stops' /\ Resets' /\ Owners'
    BY <1>1, <1>2, <1>4, <2>1 DEF One, Stops, Resets, Owners, Has
  <2>4. Orphan' /\ NoUseAfterDestruction'
    BY <1>1, <1>2, <1>4, <2>1 DEF One, Orphan, NoUseAfterDestruction, Has
  <2>5. InOrder(Line, connection_)'
    BY <1>1, <1>2, <2>1
  <2> QED
    BY <2>2, <2>3, <2>4, <2>5 DEF IInv
<1>5. ASSUME NEW f \in FunctorType, f.op \in {"forceCloseInLoop", "stopInLoop"}, QueueInLoop(f),
             IF f.op = "stopInLoop" THEN connect_' = FALSE /\ connection_ = NoSocket
             ELSE f = FC(connection_) /\ UNCHANGED connect_ /\ connection_ # NoSocket
      PROVE  IInv'
  <2>1. /\ pendingFunctors_' \in Seq(FunctorType) /\ functors' \in Seq(FunctorType)
        /\ Elems(pendingFunctors_') = Elems(pendingFunctors_) \cup {f}
        /\ Waiting' = Waiting \cup {f}
        /\ \A c : InOrder(Line, c) /\ (\A g \in Waiting : ~Clash(g, f, c)) => InOrder(Line', c)
    BY <1>1, <1>2, <1>5, QueueStep
  <2>2. connection_ \in Sockets \/ connection_ = NoSocket
    BY <1>1 DEF TypeOK
  <2>3. f.op = "forceCloseInLoop" => f.socket = connection_ /\ connection_ \in Sockets
    BY <1>5, <2>2, FunctorFacts
  <2>4. \A g \in Waiting : ~Clash(g, f, connection_)
    <3>1. \A g \in Waiting : g.op = "connectDestroyed" => g.socket # connection_
      BY <1>1 DEF Owners
    <3> QED
      BY <1>5, <3>1 DEF Clash, CD, FC
  <2>5. InOrder(Line, connection_)'
    BY <1>1, <1>2, <2>1, <2>4
  <2>6. TypeOK'
    BY <1>1, <1>2, <1>5, <2>1 DEF TypeOK
  <2>7. Places'
    BY <1>1, <1>2 DEF Places
  <2>8. One' /\ Stops'
    BY <1>1, <1>2, <1>5, <2>1 DEF One, Stops, Has
  <2>9. Resets'
    BY <1>1, <1>2, <1>5, <2>1 DEF Resets, Has
  <2>10. Owners'
    BY <1>1, <1>2, <1>5, <2>1, <2>3 DEF Owners
  <2>11. Orphan'
    <3>1. SUFFICES ASSUME ~unsafeEnd' PROVE Orphan'
      BY DEF Orphan
    <3>2. ~Has("startInLoop")' /\ ~Has("resetChannel")'
      BY <1>2, <1>5, <2>1, <3>1 DEF Has
    <3>3. state_ # "kConnecting" /\ (timers = 1 => connection_ = NoSocket) /\ timers \in 0 .. 1
      BY <1>1, <1>2, <3>1 DEF TypeOK, One
    <3>4. timers = 1 => ~connect_'
      BY <1>5, <3>3
    <3>5. Has("stopInLoop")' => timers = 1 /\ ~timerDue /\ pc = "events"
      BY <1>2, <1>5, <2>1, <3>1, <3>3 DEF Has
    <3> QED
      BY <1>2, <3>2, <3>3, <3>4, <3>5 DEF Orphan
  <2>12. NoUseAfterDestruction'
    BY <1>2 DEF NoUseAfterDestruction
  <2> QED
    BY <2>5, <2>6, <2>7, <2>8, <2>9, <2>10, <2>11, <2>12 DEF IInv
<1>6. CASE QueueInLoop(FC(connection_)) /\ UNCHANGED connect_ /\ connection_ # NoSocket
  <2>1. FC(connection_) \in FunctorType /\ FC(connection_).op = "forceCloseInLoop"
    BY <1>1, <1>6, FunctorFacts DEF TypeOK
  <2> QED
    BY <1>5, <1>6, <2>1
<1>7. CASE QueueInLoop(Functor("stopInLoop")) /\ connect_' = FALSE /\ connection_ = NoSocket
  <2>1. Functor("stopInLoop") \in FunctorType /\ Functor("stopInLoop").op = "stopInLoop"
    BY FunctorFacts
  <2> QED
    BY <1>5, <1>7, <2>1
<1> QED
  BY <1>3, <1>4, <1>6, <1>7

(* connect(), on the loop thread and on another one.                       *)
LEMMA ConnectStep == IInv /\ Connect /\ ~undefined => IInv'
<1> SUFFICES ASSUME IInv, Connect, ~undefined PROVE IInv'
  OBVIOUS
<1>1. TypeOK /\ Places /\ One /\ Stops /\ Resets /\ Owners /\ Orphan /\ InOrder(Line, connection_)
  BY DEF IInv
<1>2. /\ registered = {} /\ timers = 0 /\ connection_ = NoSocket
      /\ ~Has("startInLoop") /\ ~Has("stopInLoop") /\ ~Has("resetChannel")
  BY <1>1, WaitingFacts DEF Connect, Idle
<1>3. /\ alive /\ clientConnect_' = TRUE /\ connect_' = TRUE
      /\ UNCHANGED <<retry_, connection_, alive, unsafeEnd, loopVars, undefined>>
  BY DEF Connect
<1>4. \/ /\ pc \in {"events", "functors"}
         /\ ConnectProceeds(0) \/ ConnectFails(0)
         /\ UNCHANGED pendingFunctors_
      \/ /\ QueueInLoop(Functor("startInLoop"))
         /\ gaveUp' = FALSE
         /\ UNCHANGED <<state_, channel_, registered, open, timers>>
  BY <1>2 DEF Connect, UserCode
<1>5. state_ # "kConnecting"
  BY <1>1, <1>2 DEF One
<1> USE DEF loopVars
<1>6. Orphan' /\ NoUseAfterDestruction'
  BY <1>3 DEF Orphan, NoUseAfterDestruction
<1>7. CASE /\ pc \in {"events", "functors"}
           /\ ConnectProceeds(0) \/ ConnectFails(0)
           /\ UNCHANGED pendingFunctors_
  <2>1. /\ state_' \in {"kDisconnected", "kConnecting", "kConnected"}
        /\ channel_' \in Sockets \cup {NoSocket} /\ gaveUp' \in BOOLEAN
        /\ registered' = IF state_' = "kConnecting" THEN {channel_'} ELSE {}
        /\ registered' \subseteq Sockets /\ open' \subseteq Sockets
        /\ open' = open \cup registered' /\ registered' \cap open = {}
        /\ timers' \in 0 .. 1 /\ (timers' = 1 => state_' # "kConnecting")
    BY <1>1, <1>2, <1>5, <1>7, Started
  <2>2. Line' = Line /\ Waiting' = Waiting /\ Elems(pendingFunctors_') = Elems(pendingFunctors_)
        /\ \A op : Has(op)' <=> Has(op)
    BY <1>3, <1>7, QuietStep
  <2>3. TypeOK'
    BY <1>1, <1>3, <1>7, <2>1 DEF TypeOK
  <2>4. Places'
    BY <1>1, <1>2, <1>3, <1>7, <2>1 DEF Places
  <2>5. One' /\ Stops'
    BY <1>2, <1>3, <2>1, <2>2 DEF One, Stops
  <2>6. Resets'
    <3>1. \A g \in Elems(pendingFunctors_) : g.op # "resetChannel"
      BY <1>1, <1>2, WaitingFacts DEF Has
    <3> QED
      BY <1>2, <2>2, <3>1 DEF Resets
  <2>7. Owners'
    BY <1>1, <1>2, <1>3, <2>1, <2>2 DEF Owners
  <2>8. InOrder(Line, connection_)'
    BY <1>1, <1>3, <2>2
  <2> QED
    BY <1>6, <2>3, <2>4, <2>5, <2>6, <2>7, <2>8 DEF IInv
<1>8. CASE /\ QueueInLoop(Functor("startInLoop"))
           /\ gaveUp' = FALSE
           /\ UNCHANGED <<state_, channel_, registered, open, timers>>
  <2> DEFINE f == Functor("startInLoop")
  <2>1. f \in FunctorType /\ f.op = "startInLoop"
    BY FunctorFacts
  <2>2. QueueInLoop(f)
    BY <1>8
  <2> HIDE DEF f
  <2>3. /\ pendingFunctors_' \in Seq(FunctorType) /\ functors' \in Seq(FunctorType)
        /\ Elems(pendingFunctors_') = Elems(pendingFunctors_) \cup {f}
        /\ Waiting' = Waiting \cup {f}
        /\ \A c : InOrder(Line, c) /\ (\A g \in Waiting : ~Clash(g, f, c)) => InOrder(Line', c)
    BY <1>1, <1>3, <2>1, <2>2, QueueStep
  <2>4. InOrder(Line, connection_)'
    <3>1. \A g \in Waiting : ~Clash(g, f, connection_)
      BY <1>2, <2>1 DEF Clash, Has, CD, FC
    <3> QED
      BY <1>1, <1>3, <2>3, <3>1
  <2>5. TypeOK'
    BY <1>1, <1>3, <1>8, <2>3 DEF TypeOK
  <2>6. Places'
    BY <1>1, <1>3, <1>8 DEF Places
  <2>7. One' /\ Stops'
    BY <1>1, <1>2, <1>3, <1>5, <1>8, <2>1, <2>3 DEF One, Stops, Has
  <2>8. Resets'
    BY <1>1, <1>2, <1>3, <1>8, <2>1, <2>3 DEF Resets, Has
  <2>9. Owners'
    BY <1>1, <1>3, <1>8, <2>1, <2>3 DEF Owners
  <2> QED
    BY <1>6, <2>4, <2>5, <2>6, <2>7, <2>8, <2>9 DEF IInv
<1> QED
  BY <1>4, <1>7, <1>8

-----------------------------------------------------------------------------
(* The steps of the loop.                                                  *)
LEMMA PollStep == IInv /\ Poll /\ ~undefined => IInv'
<1> SUFFICES ASSUME IInv, Poll, ~undefined PROVE IInv'
  OBVIOUS
<1>1. TypeOK /\ Places /\ One /\ Stops /\ Resets /\ Owners /\ Orphan /\ InOrder(Line, connection_)
  BY DEF IInv
<1>2. /\ pc = "poll" /\ pc' = "events"
      /\ active' \subseteq registered \cup ({connection_} \ {NoSocket})
      /\ timerDue' \in BOOLEAN /\ (timerDue' => timers = 1)
      /\ UNCHANGED <<connectorVars, clientVars, revents, functors, undefined>>
  <2>1. timerDue' => timers > 0
    BY DEF Poll
  <2>2. timers \in 0 .. 1
    BY <1>1 DEF TypeOK
  <2>3. timerDue' => timers = 1
    BY <2>1, <2>2
  <2>4. timerDue' \in BOOLEAN
    <3>1. timerDue' = FALSE \/ timerDue' = (timers > 0)
      BY DEF Poll
    <3>2. (timers > 0) = TRUE \/ (timers > 0) = FALSE
      OBVIOUS
    <3> QED
      BY <3>1, <3>2
  <2>5. active' \subseteq registered \cup ({connection_} \ {NoSocket})
    BY DEF Poll
  <2> QED
    BY <2>3, <2>4, <2>5 DEF Poll
<1> USE DEF connectorVars, attemptVars, clientVars
<1>3. Line' = Line /\ Waiting' = Waiting /\ Elems(pendingFunctors_') = Elems(pendingFunctors_)
      /\ \A op : Has(op)' <=> Has(op)
  BY <1>2, QuietStep
<1>4. TypeOK'
  BY <1>1, <1>2 DEF TypeOK
<1>5. Places'
  BY <1>1, <1>2 DEF Places
<1>6. One' /\ Stops' /\ Owners'
  BY <1>1, <1>2, <1>3 DEF One, Stops, Owners
<1>7. Resets'
  <2>1. functors = <<>>
    BY <1>1, <1>2 DEF Places
  <2>2. Waiting = Elems(pendingFunctors_)
    BY <1>1, <2>1, WaitingFacts, InOrderEmpty
  <2>3. Has("resetChannel") => connection_ = NoSocket /\ timers # 1
    BY <1>1, <1>2, <2>2 DEF Resets, Has
  <2>4. connection_ = NoSocket => connection_ \notin active'
    BY <1>1, <1>2, SocketsAssumption DEF TypeOK
  <2> QED
    BY <1>1, <1>2, <1>3, <2>3, <2>4 DEF Resets
<1>8. Orphan' /\ NoUseAfterDestruction'
  BY <1>1, <1>2, <1>3 DEF Orphan, NoUseAfterDestruction
<1>9. InOrder(Line, connection_)'
  BY <1>1, <1>2, <1>3
<1> QED
  BY <1>4, <1>5, <1>6, <1>7, <1>8, <1>9 DEF IInv

(* The channel whose event is handled is the current attempt's, and the    *)
(* connector exists.                                                       *)
LEMMA HandleAttemptStep ==
  ASSUME IInv, ~undefined, NEW s \in Sockets, HandleAttempt(s)
  PROVE  IInv'
<1>1. TypeOK /\ Places /\ One /\ Stops /\ Resets /\ Owners /\ Orphan /\ InOrder(Line, connection_)
  BY DEF IInv
<1>2. /\ pc = "events" /\ s \in active /\ s # connection_
      /\ active' = active \ {s} /\ pc' = "handler"
      /\ revents' \subseteq {"err", "out"}
      /\ undefined' = (channel_ # s \/ ~ConnectorAlive)
      /\ UNCHANGED <<connectorVars, clientVars, timerDue, functors>>
  BY DEF HandleAttempt
<1> USE DEF connectorVars, attemptVars, clientVars
<1>3. s \in registered
  BY <1>1, <1>2 DEF Places
<1>4. state_ = "kConnecting" /\ channel_ = s /\ connection_ = NoSocket /\ registered = {s}
  BY <1>1, <1>3 DEF One
<1>5. timers # 1 /\ ~timerDue /\ active' = {} /\ ~Has("startInLoop") /\ ~Has("resetChannel")
  BY <1>1, <1>2, <1>4 DEF One, Places
<1>6. alive \/ unsafeEnd
  BY <1>1, <1>4 DEF Orphan
<1>7. Line' = Line /\ Waiting' = Waiting /\ Elems(pendingFunctors_') = Elems(pendingFunctors_)
      /\ \A op : Has(op)' <=> Has(op)
  BY <1>2, QuietStep
<1>8. TypeOK'
  BY <1>1, <1>2 DEF TypeOK
<1>9. Places'
  BY <1>1, <1>2, <1>4, <1>5 DEF Places
<1>10. One' /\ Stops' /\ Owners'
  BY <1>1, <1>2, <1>7 DEF One, Stops, Owners
<1>11. Resets'
  BY <1>2, <1>5, <1>7 DEF Resets
<1>12. Orphan' /\ NoUseAfterDestruction'
  BY <1>2, <1>4, <1>6 DEF Orphan, NoUseAfterDestruction, ConnectorAlive
<1>13. InOrder(Line, connection_)'
  BY <1>1, <1>2, <1>7
<1> QED
  BY <1>8, <1>9, <1>10, <1>11, <1>12, <1>13 DEF IInv

(* An attempt ends without a connection: what handleError, handleWriter    *)
(* and stopInLoop share.                                                   *)
LEMMA AttemptEnds ==
  ASSUME TypeOK, One, state_ = "kConnecting",
         RemoveAndResetChannel, Retry(channel_), UNCHANGED <<channel_, gaveUp>>
  PROVE  /\ channel_ \in Sockets /\ registered = {channel_} /\ registered' = {}
         /\ open' = open \ {channel_} /\ state_' = "kDisconnected"
         /\ timers = 0 /\ timers' \in 0 .. 1 /\ (timers' = 1 => connect_)
         /\ QueueInLoop(Functor("resetChannel"))
<1>1. registered = {channel_} /\ registered' = registered \ {channel_}
  BY DEF One, RemoveAndResetChannel
<1>2. channel_ \in Sockets /\ registered' = {}
  BY <1>1 DEF TypeOK
<1>3. timers = 0
  BY DEF TypeOK, One
<1>4. timers' = IF connect_ THEN 0 + 1 ELSE 0
  BY <1>3 DEF Retry, TimersAfterRetry
<1> QED
  BY <1>1, <1>2, <1>3, <1>4 DEF Retry, OpenAfterRetry, RemoveAndResetChannel

(* EPOLLERR: handleError.                                                  *)
LEMMA DispatchErrorStep == IInv /\ DispatchError /\ ~undefined => IInv'
<1> SUFFICES ASSUME IInv, DispatchError, ~undefined PROVE IInv'
  OBVIOUS
<1>1. TypeOK /\ Places /\ One /\ Stops /\ Resets /\ Owners /\ Orphan /\ InOrder(Line, connection_)
  BY DEF IInv
<1>2. /\ pc = "handler" /\ "err" \in revents /\ revents' = revents \ {"err"}
      /\ HandleError
      /\ UNCHANGED <<connect_, clientVars, pc, active, timerDue, functors, undefined>>
  BY DEF DispatchError
<1> USE DEF clientVars
<1>3. /\ state_ = "kConnecting" /\ connection_ = NoSocket
      /\ ~Has("startInLoop") /\ ~Has("resetChannel") /\ active = {} /\ ~timerDue
  BY <1>1, <1>2 DEF Places, One
<1>4. RemoveAndResetChannel /\ Retry(channel_) /\ UNCHANGED <<channel_, gaveUp>>
  BY <1>2, <1>3 DEF HandleError
<1>5. /\ channel_ \in Sockets /\ registered = {channel_} /\ registered' = {}
      /\ open' = open \ {channel_} /\ state_' = "kDisconnected"
      /\ timers = 0 /\ timers' \in 0 .. 1 /\ (timers' = 1 => connect_)
      /\ QueueInLoop(Functor("resetChannel"))
  BY <1>1, <1>3, <1>4, AttemptEnds
<1> DEFINE f == Functor("resetChannel")
<1>6. f \in FunctorType /\ f.op = "resetChannel" /\ QueueInLoop(f)
  BY <1>5, FunctorFacts
<1> HIDE DEF f
<1>7. /\ pendingFunctors_' \in Seq(FunctorType) /\ functors' \in Seq(FunctorType)
      /\ Elems(pendingFunctors_') = Elems(pendingFunctors_) \cup {f}
      /\ Waiting' = Waiting \cup {f}
      /\ \A c : InOrder(Line, c) /\ (\A g \in Waiting : ~Clash(g, f, c)) => InOrder(Line', c)
  BY <1>1, <1>2, <1>6, QueueStep
<1>8. InOrder(Line, connection_)'
  <2>1. \A g \in Waiting : g.op = "forceCloseInLoop" => g.socket # NoSocket
    BY <1>1, SocketsAssumption DEF Owners
  <2>2. \A g \in Waiting : ~Clash(g, f, connection_)
    BY <1>3, <1>6, <2>1 DEF Clash, CD, FC
  <2> QED
    BY <1>1, <1>2, <1>7, <2>2
<1>9. TypeOK'
  BY <1>1, <1>2, <1>4, <1>5, <1>7 DEF TypeOK
<1>10. Places'
  BY <1>2, <1>3, <1>5, <1>1 DEF Places
<1>11. One' /\ Stops'
  BY <1>1, <1>2, <1>3, <1>5, <1>6, <1>7 DEF One, Stops, Has
<1>12. Resets'
  BY <1>2, <1>3, <1>6, <1>7 DEF Resets, Has
<1>13. Owners'
  BY <1>1, <1>2, <1>3, <1>5, <1>6, <1>7 DEF Owners
<1>14. Orphan' /\ NoUseAfterDestruction'
  BY <1>1, <1>2 DEF Orphan, NoUseAfterDestruction, IInv
<1> QED
  BY <1>8, <1>9, <1>10, <1>11, <1>12, <1>13, <1>14 DEF IInv

(* EPOLLOUT: the attempt fails after all, is handed over or closed, or was *)
(* ended by handleError.                                                   *)
LEMMA DispatchWriteStep == IInv /\ DispatchWrite /\ ~undefined => IInv'
<1> SUFFICES ASSUME IInv, DispatchWrite, ~undefined PROVE IInv'
  OBVIOUS
<1>1. TypeOK /\ Places /\ One /\ Stops /\ Resets /\ Owners /\ Orphan /\ InOrder(Line, connection_)
  BY DEF IInv
<1>2. /\ pc = "handler" /\ revents' = {} /\ pc' = "events"
      /\ UNCHANGED <<connect_, clientConnect_, retry_, alive, unsafeEnd, active, timerDue, functors>>
  BY DEF DispatchWrite
<1>3. active = {} /\ ~timerDue /\ functors = <<>>
  BY <1>1, <1>2 DEF Places
<1>4. ASSUME state_ # "kConnecting", UNCHANGED <<attemptVars, pendingFunctors_, connection_>>,
             undefined' = (state_ # "kDisconnected")
      PROVE  IInv'
  <2>1. undefined' = FALSE
    BY <1>1, <1>2, <1>4 DEF Places
  <2>2. Line' = Line /\ Waiting' = Waiting /\ Elems(pendingFunctors_') = Elems(pendingFunctors_)
        /\ \A op : Has(op)' <=> Has(op)
    BY <1>2, <1>4, QuietStep
  <2> USE DEF attemptVars
  <2>3. TypeOK'
    BY <1>1, <1>2, <1>4, <2>1 DEF TypeOK
  <2>4. Places'
    BY <1>1, <1>2, <1>3, <1>4 DEF Places
  <2>5. One' /\ Stops' /\ Owners'
    BY <1>1, <1>2, <1>4, <2>2 DEF One, Stops, Owners
  <2>6. Resets'
    BY <1>1, <1>2, <1>3, <1>4, <2>2 DEF Resets
  <2>7. Orphan' /\ NoUseAfterDestruction'
    BY <1>1, <1>2, <1>4, <2>1 DEF Orphan, NoUseAfterDestruction
  <2>8. InOrder(Line, connection_)'
    BY <1>1, <1>4, <2>2
  <2> QED
    BY <2>3, <2>4, <2>5, <2>6, <2>7, <2>8 DEF IInv
<1>5. ASSUME state_ = "kConnecting", QueueInLoop(Functor("resetChannel")),
             state_' \in {"kDisconnected", "kConnected"}, registered' = {},
             timers' \in 0 .. 1, timers' = 1 => connection_' = NoSocket /\ connect_,
             UNCHANGED <<channel_, gaveUp>>,
             IF connection_' = NoSocket THEN open' = open \ {channel_}
             ELSE connection_' = channel_ /\ open' = open,
             undefined' \in BOOLEAN, undefined' => ~alive
      PROVE  IInv'
  <2>1. /\ connection_ = NoSocket /\ registered = {channel_} /\ channel_ \in Sockets
        /\ ~Has("startInLoop") /\ ~Has("resetChannel")
    BY <1>1, <1>5 DEF One, TypeOK
  <2>2. alive \/ unsafeEnd
    BY <1>1, <1>5 DEF Orphan
  <2> DEFINE f == Functor("resetChannel")
  <2>3. f \in FunctorType /\ f.op = "resetChannel" /\ QueueInLoop(f)
    BY <1>5, FunctorFacts
  <2> HIDE DEF f
  <2>4. /\ pendingFunctors_' \in Seq(FunctorType) /\ functors' \in Seq(FunctorType)
        /\ Elems(pendingFunctors_') = Elems(pendingFunctors_) \cup {f}
        /\ Waiting' = Waiting \cup {f}
        /\ \A c : InOrder(Line, c) /\ (\A g \in Waiting : ~Clash(g, f, c)) => InOrder(Line', c)
    BY <1>1, <1>2, <2>3, QueueStep
  <2>5. connection_' \in {NoSocket, channel_}
    BY <1>5
  <2>6. InOrder(Line, connection_)'
    <3>1. \A g \in Waiting : g.op = "forceCloseInLoop" => g.socket # NoSocket /\ g.socket # channel_
      BY <1>1, <2>1, FunctorFacts, SocketsAssumption DEF Owners
    <3>2. FC(connection_') \notin Waiting
      BY <2>5, <3>1 DEF FC
    <3>3. InOrder(Line, connection_')
      BY <1>1, <3>2, InOrderOther DEF Waiting
    <3>4. \A g \in Waiting : ~Clash(g, f, connection_')
      BY <2>3, <3>2 DEF Clash, CD, FC
    <3> QED
      BY <2>4, <3>3, <3>4
  <2>7. TypeOK'
    BY <1>1, <1>2, <1>5, <2>1, <2>4, <2>5 DEF TypeOK
  <2>8. Places'
    BY <1>2, <1>3 DEF Places
  <2>9. One' /\ Stops'
    BY <1>1, <1>2, <1>5, <2>1, <2>3, <2>4 DEF One, Stops, Has
  <2>10. Resets'
    BY <1>2, <1>3, <2>1, <2>3, <2>4 DEF Resets, Has
  <2>11. Owners'
    <3>1. /\ \A g \in Waiting' : g.op # "resetChannel" => g \in Waiting
          /\ Waiting \subseteq Waiting'
      BY <2>3, <2>4
    <3>2. connection_' # NoSocket => connection_' \in open'
      BY <1>1, <1>5, <2>1 DEF Owners
    <3>3. open' \subseteq open /\ open \ {channel_} \subseteq open'
      BY <1>5
    <3>4. \A s \in open' : s = connection_' \/ CD(s) \in Waiting'
      <4>1. \A s \in open : s = channel_ \/ s = NoSocket \/ CD(s) \in Waiting'
        BY <1>1, <2>1, <3>1 DEF Owners
      <4>2. \A s \in open : s # NoSocket
        BY <1>1, SocketsAssumption DEF TypeOK
      <4>3. channel_ \in open' => connection_' = channel_
        BY <1>5
      <4> QED
        BY <3>3, <4>1, <4>2, <4>3
    <3>5. \A g \in Waiting' : g.op = "connectDestroyed" => g.socket \in open' \ {connection_'}
      BY <1>1, <2>1, <2>5, <3>1, <3>3, SocketsAssumption DEF Owners, TypeOK
    <3>6. \A g \in Waiting' : g.op = "forceCloseInLoop" =>
            g.socket \in Sockets /\ CD(g.socket) \in Waiting'
      BY <1>1, <2>1, <3>1, SocketsAssumption DEF Owners
    <3> QED
      BY <1>5, <3>2, <3>4, <3>5, <3>6 DEF Owners
  <2>12. Orphan' /\ NoUseAfterDestruction'
    BY <1>2, <1>5, <2>2 DEF Orphan, NoUseAfterDestruction
  <2> QED
    BY <2>6, <2>7, <2>8, <2>9, <2>10, <2>11, <2>12 DEF IInv
<1>6. CASE HandleWriterFails /\ UNCHANGED <<connection_, undefined>>
  <2>1. /\ state_ = "kConnecting" /\ RemoveAndResetChannel /\ Retry(channel_)
        /\ UNCHANGED <<channel_, gaveUp>>
    BY <1>6 DEF HandleWriterFails, MustHandleWrite
  <2>2. /\ channel_ \in Sockets /\ registered' = {}
        /\ open' = open \ {channel_} /\ state_' = "kDisconnected"
        /\ timers' \in 0 .. 1 /\ (timers' = 1 => connect_)
        /\ QueueInLoop(Functor("resetChannel"))
    BY <1>1, <2>1, AttemptEnds
  <2>3. connection_ = NoSocket
    BY <1>1, <2>1 DEF One
  <2>4. connection_' = NoSocket /\ undefined' = FALSE
    BY <1>1, <1>6, <2>3 DEF TypeOK
  <2> QED
    BY <1>5, <2>1, <2>2, <2>4
<1>7. CASE /\ HandleWriterConnects
           /\ connection_' = IF connect_ THEN channel_ ELSE connection_
           /\ undefined' = (connect_ /\ ~alive)
  <2>1. /\ state_ = "kConnecting" /\ RemoveAndResetChannel /\ state_' = "kConnected"
        /\ open' = IF connect_ THEN open ELSE open \ {channel_}
        /\ UNCHANGED <<channel_, timers, gaveUp>>
    BY <1>7 DEF HandleWriterConnects, MustHandleWrite
  <2>2. connection_ = NoSocket /\ registered = {channel_} /\ channel_ \in Sockets /\ timers = 0
    BY <1>1, <2>1 DEF One, TypeOK
  <2>3. registered' = {} /\ QueueInLoop(Functor("resetChannel"))
    BY <2>1, <2>2 DEF RemoveAndResetChannel
  <2>4. connection_' = (IF connect_ THEN channel_ ELSE NoSocket) /\ channel_ # NoSocket
    BY <1>7, <2>2, SocketsAssumption
  <2>5. undefined' \in BOOLEAN /\ (undefined' => ~alive)
    BY <1>7
  <2>6. timers' \in 0 .. 1 /\ timers' # 1
    BY <2>1, <2>2
  <2>7. IF connection_' = NoSocket THEN open' = open \ {channel_}
        ELSE connection_' = channel_ /\ open' = open
    BY <2>1, <2>4
  <2> QED
    BY <1>5, <2>1, <2>3, <2>5, <2>6, <2>7
<1>8. CASE /\ ~MustHandleWrite
           /\ undefined' = (state_ # "kDisconnected")
           /\ UNCHANGED <<attemptVars, pendingFunctors_, connection_>>
  BY <1>4, <1>8 DEF MustHandleWrite
<1> QED
  BY <1>6, <1>7, <1>8 DEF DispatchWrite

(* The connection closes, while nothing that resets the channel waits.     *)
(* Waiting, but for a functor h that runs, gains connectDestroyed.         *)
LEMMA Closes ==
  ASSUME IInv, ~undefined, connection_ \in Sockets, CloseConnection,
         pc \in {"events", "functors"}, pc # "functors" => functors' = <<>>,
         active' \subseteq active \ {connection_}, ~Has("resetChannel")',
         pendingFunctors_' \in Seq(FunctorType), functors' \in Seq(FunctorType),
         Elems(pendingFunctors_') \subseteq Waiting',
         NEW W \in SUBSET Waiting, Waiting' = W \cup {CD(connection_)},
         \A g \in Waiting : g \in W \/ g = FC(connection_),
         InOrder(Line', connection_)
  PROVE  IInv'
<1>1. TypeOK /\ Places /\ One /\ Stops /\ Resets /\ Owners /\ Orphan
  BY DEF IInv
<1>2. /\ connection_' = NoSocket /\ undefined' = FALSE
      /\ UNCHANGED <<connect_, clientConnect_, retry_, alive, unsafeEnd, pc, timerDue, revents>>
      /\ (alive /\ StartInLoop(timers)) \/ UNCHANGED attemptVars
  BY DEF CloseConnection, CloseCallbackUndefined
<1>3. connection_ # NoSocket /\ ~Has("startInLoop") /\ timers = 0 /\ state_ # "kConnecting"
  BY <1>1, SocketsAssumption DEF One, TypeOK
<1>4. registered = {}
  BY <1>1, <1>3 DEF One
<1> DEFINE f == CD(connection_)
<1>5. f \in FunctorType /\ f.op = "connectDestroyed" /\ f.socket = connection_ /\ f = CD(connection_)
  BY FunctorFacts
<1>6. \A g \in Waiting : g \in FunctorType /\ (g = FC(connection_) => g.op = "forceCloseInLoop")
  BY <1>1, WaitingFacts DEF FC
<1> HIDE DEF f
<1>7. /\ state_' \in {"kDisconnected", "kConnecting", "kConnected"}
      /\ channel_' \in Sockets \cup {NoSocket} /\ gaveUp' \in BOOLEAN
      /\ registered' = IF state_' = "kConnecting" THEN {channel_'} ELSE {}
      /\ registered' \subseteq Sockets /\ open' \subseteq Sockets
      /\ open' = open \cup registered' /\ registered' \cap open = {}
      /\ timers' \in 0 .. 1 /\ (timers' = 1 => state_' # "kConnecting")
      /\ alive \/ (state_' # "kConnecting" /\ timers' = 0)
  <2>1. CASE alive /\ StartInLoop(timers)
    <3>1. \/ ConnectProceeds(0) \/ ConnectFails(0)
          \/ timers' = 0 /\ UNCHANGED <<state_, channel_, registered, open, gaveUp>>
      BY <1>3, <2>1 DEF StartInLoop
    <3> QED
      BY <1>1, <1>3, <1>4, <2>1, <3>1, Started
  <2>2. CASE UNCHANGED attemptVars
    <3>1. timers' = 0 /\ UNCHANGED <<state_, channel_, registered, open, gaveUp>>
      BY <1>3, <2>2 DEF attemptVars
    <3> QED
      BY <1>1, <1>3, <1>4, <3>1, Started
  <2> QED
    BY <1>2, <2>1, <2>2
<1>8. TypeOK'
  BY <1>1, <1>2, <1>7 DEF TypeOK
<1>9. active' = {} /\ ~timerDue
  BY <1>1, <1>3, <1>4 DEF Places
<1>10. Places'
  BY <1>2, <1>9 DEF Places
<1>11. \A op : op # "connectDestroyed" => (Has(op)' => Has(op))
  BY <1>5 DEF Has
<1>12. One' /\ Stops'
  BY <1>1, <1>2, <1>3, <1>7, <1>11 DEF One, Stops
<1>13. Resets'
  BY <1>2 DEF Resets, Has
<1>14. Owners'
  <2>1. registered' \subseteq open' /\ connection_' = NoSocket
    BY <1>2, <1>7
  <2>2. \A s \in open : s \in open' \ registered' /\ s # NoSocket
    BY <1>1, <1>7, SocketsAssumption DEF TypeOK
  <2>3. \A s : CD(s) \in Waiting => CD(s) \in Waiting'
    BY DEF CD, FC
  <2>4. connection_ \in open
    BY <1>1, <1>3 DEF Owners
  <2>5. \A g \in Waiting' : g.op = "connectDestroyed" =>
          g.socket \in open' \ (registered' \cup {connection_'})
    <3>1. \A g \in W : g.op = "connectDestroyed" => g.socket \in open
      BY <1>1 DEF Owners
    <3> QED
      BY <1>5, <2>1, <2>2, <2>4, <3>1
  <2>6. \A g \in Waiting' : g.op = "forceCloseInLoop" =>
          g.socket \in Sockets /\ CD(g.socket) \in Waiting'
    <3>1. ASSUME NEW g \in W, g.op = "forceCloseInLoop"
          PROVE  g.socket \in Sockets /\ (g.socket = connection_ \/ CD(g.socket) \in Waiting')
      BY <1>1, <2>3, <3>1 DEF Owners
    <3> QED
      BY <1>5, <3>1
  <2>7. \A s \in open' : s \in registered' \/ CD(s) \in Waiting'
    <3>1. \A s \in open : s = connection_ \/ CD(s) \in Waiting'
      BY <1>1, <1>4, <2>3 DEF Owners
    <3> QED
      BY <1>7, <3>1
  <2> QED
    BY <2>1, <2>5, <2>6, <2>7 DEF Owners
<1>15. Orphan' /\ NoUseAfterDestruction'
  BY <1>1, <1>2, <1>3, <1>7, <1>11 DEF Orphan, NoUseAfterDestruction
<1>16. InOrder(Line, connection_)'
  <2>1. \A g \in Waiting' : g.op = "forceCloseInLoop" => g.socket # NoSocket
    BY <1>14, SocketsAssumption DEF Owners
  <2>2. FC(NoSocket) \notin Elems(Line')
    BY <2>1 DEF FC, Waiting
  <2>3. InOrder(Line', NoSocket)
    BY <2>2, InOrderOther
  <2> QED
    BY <1>2, <2>3
<1> QED
  BY <1>8, <1>10, <1>12, <1>13, <1>14, <1>15, <1>16 DEF IInv

(* handleClose, from an event.                                             *)
LEMMA HandleConnectionStep == IInv /\ HandleConnection /\ ~undefined => IInv'
<1> SUFFICES ASSUME IInv, HandleConnection, ~undefined PROVE IInv'
  OBVIOUS
<1>1. TypeOK /\ Places /\ One /\ Resets /\ Owners /\ InOrder(Line, connection_)
  BY DEF IInv
<1>2. /\ pc = "events" /\ connection_ \in active /\ active' = active \ {connection_}
      /\ CloseConnection /\ functors' = functors
  BY DEF HandleConnection
<1>3. connection_ \in Sockets
  BY <1>1, <1>2 DEF TypeOK
<1> DEFINE f == CD(connection_)
<1>4. f \in FunctorType /\ f.op = "connectDestroyed" /\ f.socket = connection_
  BY <1>3, FunctorFacts
<1>5. QueueInLoop(f) /\ pc' = pc
  BY <1>2 DEF CloseConnection, CD
<1>6. \A g \in Waiting : ~Clash(g, f, connection_)
  <2>1. \A g \in Waiting : g.op = "connectDestroyed" => g.socket # connection_
    BY <1>1 DEF Owners
  <2> QED
    BY <1>4, <2>1 DEF Clash, CD, FC
<1> HIDE DEF f
<1>7. /\ pendingFunctors_' \in Seq(FunctorType) /\ functors' \in Seq(FunctorType)
      /\ Elems(pendingFunctors_') = Elems(pendingFunctors_) \cup {f}
      /\ Waiting' = Waiting \cup {f}
      /\ \A c : InOrder(Line, c) /\ (\A g \in Waiting : ~Clash(g, f, c)) => InOrder(Line', c)
  BY <1>1, <1>2, <1>4, <1>5, QueueStep
<1>8. ~Has("resetChannel")'
  BY <1>1, <1>2, <1>4, <1>7 DEF Resets, Has
<1>9. Elems(pendingFunctors_') \subseteq Waiting' /\ InOrder(Line', connection_)
  BY <1>1, <1>6, <1>7, WaitingFacts
<1>10. functors' = <<>>
  BY <1>1, <1>2 DEF Places
<1>11. Waiting \in SUBSET Waiting /\ Waiting' = Waiting \cup {CD(connection_)}
  BY <1>7 DEF f
<1> QED
  BY <1>2, <1>3, <1>7, <1>8, <1>9, <1>10, <1>11, Closes

(* The retry timer fires.                                                  *)
LEMMA HandleTimerStep == IInv /\ HandleTimer /\ ~undefined => IInv'
<1> SUFFICES ASSUME IInv, HandleTimer, ~undefined PROVE IInv'
  OBVIOUS
<1>1. TypeOK /\ Places /\ One /\ Stops /\ Resets /\ Owners /\ Orphan /\ InOrder(Line, connection_)
  BY DEF IInv
<1>2. /\ pc = "events" /\ timerDue /\ timerDue' = FALSE
      /\ StartInLoop(timers - 1)
      /\ UNCHANGED <<connect_, pendingFunctors_, clientVars, pc, active, revents, functors, undefined>>
  BY DEF HandleTimer
<1> USE DEF clientVars
<1>3. timers = 1 /\ timers - 1 = 0
  BY <1>1, <1>2 DEF Places
<1>4. /\ state_ # "kConnecting" /\ connection_ = NoSocket
      /\ ~Has("startInLoop") /\ ~Has("resetChannel") /\ registered = {}
  BY <1>1, <1>2, <1>3 DEF One, Resets
<1>5. \/ connect_ /\ (ConnectProceeds(0) \/ ConnectFails(0))
      \/ timers' = 0 /\ UNCHANGED <<state_, channel_, registered, open, gaveUp>>
  BY <1>2, <1>3 DEF StartInLoop
<1>6. /\ state_' \in {"kDisconnected", "kConnecting", "kConnected"}
      /\ channel_' \in Sockets \cup {NoSocket} /\ gaveUp' \in BOOLEAN
      /\ registered' = IF state_' = "kConnecting" THEN {channel_'} ELSE {}
      /\ registered' \subseteq Sockets /\ open' \subseteq Sockets
      /\ open' = open \cup registered' /\ registered' \cap open = {}
      /\ timers' \in 0 .. 1 /\ (timers' = 1 => state_' # "kConnecting")
  BY <1>1, <1>4, <1>5, Started
<1>7. Line' = Line /\ Waiting' = Waiting /\ Elems(pendingFunctors_') = Elems(pendingFunctors_)
      /\ \A op : Has(op)' <=> Has(op)
  BY <1>2, QuietStep
<1>8. TypeOK'
  BY <1>1, <1>2, <1>6 DEF TypeOK
<1>9. Places'
  <2>1. active = {}
    BY <1>1, <1>4 DEF Places
  <2> QED
    BY <1>1, <1>2, <2>1 DEF Places
<1>10. One' /\ Stops'
  BY <1>1, <1>2, <1>4, <1>6, <1>7 DEF One, Stops
<1>11. Resets'
  BY <1>2, <1>4, <1>7 DEF Resets
<1>12. Owners'
  BY <1>1, <1>2, <1>4, <1>6, <1>7 DEF Owners
<1>13. Orphan' /\ NoUseAfterDestruction'
  <2>1. ~alive /\ ~unsafeEnd => ~connect_ /\ ~Has("stopInLoop")
    BY <1>1, <1>2, <1>3 DEF Orphan
  <2>2. ~connect_ => timers' = 0 /\ state_' = state_
    BY <1>5
  <2> QED
    BY <1>2, <1>4, <1>7, <2>1, <2>2 DEF Orphan, NoUseAfterDestruction
<1>14. InOrder(Line, connection_)'
  BY <1>1, <1>2, <1>7
<1> QED
  BY <1>8, <1>9, <1>10, <1>11, <1>12, <1>13, <1>14 DEF IInv

LEMMA SwapFunctorsStep == IInv /\ SwapFunctors /\ ~undefined => IInv'
<1> SUFFICES ASSUME IInv, SwapFunctors, ~undefined PROVE IInv'
  OBVIOUS
<1>1. TypeOK /\ Places /\ One /\ Stops /\ Resets /\ Owners /\ Orphan /\ InOrder(Line, connection_)
  BY DEF IInv
<1>2. /\ pc = "events" /\ active = {} /\ ~timerDue /\ pc' = "functors"
      /\ functors' = pendingFunctors_ /\ pendingFunctors_' = <<>>
      /\ UNCHANGED <<connect_, attemptVars, clientVars, active, timerDue, revents, undefined>>
  BY DEF SwapFunctors
<1> USE DEF clientVars, attemptVars
<1>3. pendingFunctors_ \in Seq(FunctorType) /\ functors = <<>>
  BY <1>1, <1>2 DEF TypeOK, Places
<1>4. <<>> \in Seq(FunctorType)
  BY <1>3, Parts
<1>5. pendingFunctors_ \o <<>> = <<>> \o pendingFunctors_
  BY <1>3, Parts
<1>6. Line' = Line
  BY <1>2, <1>3, <1>5 DEF Line
<1>7. Waiting' = Waiting /\ \A op : Has(op)' <=> Has(op)
  BY <1>6 DEF Waiting, Has
<1>8. Elems(pendingFunctors_') = {}
  BY <1>2, InOrderEmpty
<1>9. TypeOK'
  BY <1>1, <1>2, <1>4 DEF TypeOK
<1>10. Places' /\ One' /\ Stops' /\ Owners'
  BY <1>1, <1>2, <1>7 DEF Places, One, Stops, Owners
<1>11. Resets' /\ Orphan' /\ NoUseAfterDestruction'
  BY <1>1, <1>2, <1>7, <1>8 DEF Resets, Orphan, NoUseAfterDestruction
<1>12. InOrder(Line, connection_)'
  BY <1>1, <1>2, <1>6
<1> QED
  BY <1>9, <1>10, <1>11, <1>12 DEF IInv

LEMMA EndBatchStep == IInv /\ EndBatch /\ ~undefined => IInv'
<1> SUFFICES ASSUME IInv, EndBatch, ~undefined PROVE IInv'
  OBVIOUS
<1>1. TypeOK /\ Places /\ One /\ Stops /\ Resets /\ Owners /\ Orphan /\ InOrder(Line, connection_)
  BY DEF IInv
<1>2. /\ pc = "functors" /\ functors = <<>> /\ pc' = "poll"
      /\ UNCHANGED <<connectorVars, clientVars, active, timerDue, revents, functors, undefined>>
  BY DEF EndBatch
<1> USE DEF connectorVars, attemptVars, clientVars
<1>3. Line' = Line /\ Waiting' = Waiting /\ Elems(pendingFunctors_') = Elems(pendingFunctors_)
      /\ \A op : Has(op)' <=> Has(op)
  BY <1>2, QuietStep
<1>4. TypeOK' /\ Places' /\ One' /\ Stops' /\ Owners'
  BY <1>1, <1>2, <1>3 DEF TypeOK, Places, One, Stops, Owners
<1>5. Resets'
  BY <1>1, <1>2, <1>3 DEF Resets
<1>6. Orphan' /\ NoUseAfterDestruction'
  <2>1. Waiting = Elems(pendingFunctors_)
    BY <1>1, <1>2, WaitingFacts, InOrderEmpty
  <2>2. ~alive /\ ~unsafeEnd => ~Has("stopInLoop")
    BY <1>1, <1>2, <2>1 DEF Orphan, Has
  <2> QED
    BY <1>1, <1>2, <1>3, <2>2 DEF Orphan, NoUseAfterDestruction
<1>7. InOrder(Line, connection_)'
  BY <1>1, <1>2, <1>3
<1> QED
  BY <1>4, <1>5, <1>6, <1>7 DEF IInv

-----------------------------------------------------------------------------
(* The functors.                                                           *)
LEMMA RunStartInLoopStep == IInv /\ RunStartInLoop /\ ~undefined => IInv'
<1> SUFFICES ASSUME IInv, RunStartInLoop, ~undefined PROVE IInv'
  OBVIOUS
<1> DEFINE h == functors[1]
<1>1. TypeOK /\ Places /\ One /\ Stops /\ Resets /\ Owners /\ Orphan /\ InOrder(Line, connection_)
  BY DEF IInv
<1>2. /\ NextFunctor("startInLoop") /\ undefined' = ~ConnectorAlive /\ StartInLoop(timers)
      /\ UNCHANGED <<pendingFunctors_, connect_, clientVars, pc, active, timerDue, revents>>
  BY DEF RunStartInLoop, RunConnectorFunctor
<1> USE DEF clientVars
<1>3. pc = "functors" /\ active = {} /\ ~timerDue
  BY <1>1, <1>2 DEF NextFunctor, Places
<1>4. /\ pendingFunctors_' \in Seq(FunctorType) /\ functors' \in Seq(FunctorType)
      /\ h \in FunctorType /\ h.op = "startInLoop"
      /\ Elems(pendingFunctors_') = Elems(pendingFunctors_)
      /\ Waiting = {h} \cup Waiting'
      /\ \A c : InOrder(Line, c) =>
           InOrder(Line', c) /\ \A g \in Waiting' : ~Clash(h, g, c)
  BY <1>1, <1>2, RunStep
<1> HIDE DEF h
<1>5. InOrder(Line, connection_)' /\ \A g \in Waiting' : g.op # "startInLoop"
  BY <1>1, <1>2, <1>4 DEF Clash
<1>6. Has("startInLoop")
  BY <1>4 DEF Has
<1>7. /\ state_ # "kConnecting" /\ connection_ = NoSocket /\ timers = 0
      /\ ~Has("resetChannel") /\ registered = {} /\ (alive \/ unsafeEnd)
  BY <1>1, <1>6 DEF One, Resets, Orphan, TypeOK
<1>8. \/ ConnectProceeds(0) \/ ConnectFails(0)
      \/ timers' = 0 /\ UNCHANGED <<state_, channel_, registered, open, gaveUp>>
  BY <1>2, <1>7 DEF StartInLoop
<1>9. /\ state_' \in {"kDisconnected", "kConnecting", "kConnected"}
      /\ channel_' \in Sockets \cup {NoSocket} /\ gaveUp' \in BOOLEAN
      /\ registered' = IF state_' = "kConnecting" THEN {channel_'} ELSE {}
      /\ registered' \subseteq Sockets /\ open' \subseteq Sockets
      /\ open' = open \cup registered' /\ registered' \cap open = {}
      /\ timers' \in 0 .. 1 /\ (timers' = 1 => state_' # "kConnecting")
  BY <1>1, <1>7, <1>8, Started
<1>10. ~Has("startInLoop")' /\ ~Has("resetChannel")' /\ (Has("stopInLoop")' => Has("stopInLoop"))
  BY <1>4, <1>5, <1>7 DEF Has
<1>11. TypeOK'
  BY <1>1, <1>2, <1>4, <1>9 DEF TypeOK, ConnectorAlive
<1>12. Places'
  BY <1>2, <1>3 DEF Places
<1>13. One' /\ Stops'
  BY <1>1, <1>2, <1>7, <1>9, <1>10 DEF One, Stops
<1>14. Resets'
  <2>1. \A g \in Elems(pendingFunctors_) : g \in Waiting
    BY <1>1, WaitingFacts
  <2>2. \A g \in Elems(pendingFunctors_') : g.op # "resetChannel"
    BY <1>4, <1>7, <2>1 DEF Has
  <2> QED
    BY <1>10, <2>2 DEF Resets
<1>15. Owners'
  <2>1. \A s : CD(s) \in Waiting => CD(s) \in Waiting'
    BY <1>4 DEF CD
  <2> QED
    BY <1>1, <1>2, <1>4, <1>7, <1>9, <2>1 DEF Owners
<1>16. Orphan' /\ NoUseAfterDestruction'
  BY <1>2, <1>7 DEF Orphan, NoUseAfterDestruction, ConnectorAlive
<1> QED
  BY <1>5, <1>11, <1>12, <1>13, <1>14, <1>15, <1>16 DEF IInv

(* stopInLoop during an attempt, and at another time.                      *)
LEMMA RunStopInLoopStep == IInv /\ RunStopInLoop /\ ~undefined => IInv'
<1> SUFFICES ASSUME IInv, RunStopInLoop, ~undefined PROVE IInv'
  OBVIOUS
<1> DEFINE h == functors[1]
<1>1. TypeOK /\ Places /\ One /\ Stops /\ Resets /\ Owners /\ Orphan /\ InOrder(Line, connection_)
  BY DEF IInv
<1>2. /\ NextFunctor("stopInLoop") /\ undefined' = ~ConnectorAlive /\ StopInLoop
      /\ UNCHANGED <<connect_, clientVars, pc, active, timerDue, revents>>
  BY DEF RunStopInLoop, RunConnectorFunctor
<1> USE DEF clientVars
<1>3. pc = "functors" /\ active = {} /\ ~timerDue
  BY <1>1, <1>2 DEF NextFunctor, Places
<1>4. /\ undefined' \in BOOLEAN
      /\ undefined' => ~alive /\ timers # 1
  <2>1. timers = 1 => timers > 0
    OBVIOUS
  <2>2. undefined' = ~(alive \/ timers > 0)
    BY <1>2 DEF ConnectorAlive
  <2>3. (undefined' = TRUE \/ undefined' = FALSE) /\ (undefined' => ~(alive \/ timers > 0))
    BY <2>2
  <2> QED
    BY <2>1, <2>3
<1>5. ASSUME state_ # "kConnecting", UNCHANGED <<attemptVars, pendingFunctors_>> PROVE IInv'
  <2> USE DEF attemptVars
  <2>1. /\ pendingFunctors_' \in Seq(FunctorType) /\ functors' \in Seq(FunctorType)
        /\ h \in FunctorType /\ h.op = "stopInLoop"
        /\ Elems(pendingFunctors_') = Elems(pendingFunctors_)
        /\ Waiting = {h} \cup Waiting'
        /\ \A c : InOrder(Line, c) =>
             InOrder(Line', c) /\ \A g \in Waiting' : ~Clash(h, g, c)
    BY <1>1, <1>2, <1>5, RunStep
  <2> HIDE DEF h
  <2>2. \A op : (Has(op)' => Has(op)) /\ (op # "stopInLoop" => (Has(op) => Has(op)'))
    BY <2>1 DEF Has
  <2>3. Has("stopInLoop")
    BY <2>1 DEF Has
  <2>4. TypeOK'
    BY <1>1, <1>2, <1>4, <1>5, <2>1 DEF TypeOK
  <2>5. Places'
    BY <1>2, <1>3 DEF Places
  <2>6. One' /\ Stops'
    BY <1>1, <1>2, <1>5, <2>2 DEF One, Stops
  <2>7. Resets'
    BY <1>1, <1>2, <1>5, <2>1, <2>2 DEF Resets
  <2>8. Owners'
    <3>1. \A s : CD(s) \in Waiting => CD(s) \in Waiting'
      BY <2>1 DEF CD
    <3> QED
      BY <1>1, <1>2, <1>5, <2>1, <3>1 DEF Owners
  <2>9. Orphan' /\ NoUseAfterDestruction'
    BY <1>1, <1>2, <1>3, <1>4, <1>5, <2>1, <2>2, <2>3 DEF Orphan, NoUseAfterDestruction
  <2>10. InOrder(Line, connection_)'
    BY <1>1, <1>2, <2>1
  <2> QED
    BY <2>4, <2>5, <2>6, <2>7, <2>8, <2>9, <2>10 DEF IInv
<1>6. ASSUME state_ = "kConnecting", RemoveAndResetChannel, Retry(channel_),
             UNCHANGED <<channel_, gaveUp>>
      PROVE  IInv'
  <2>1. /\ channel_ \in Sockets /\ registered = {channel_} /\ registered' = {}
        /\ open' = open \ {channel_} /\ state_' = "kDisconnected"
        /\ timers = 0 /\ timers' \in 0 .. 1 /\ (timers' = 1 => connect_)
        /\ QueueInLoop(Functor("resetChannel"))
    BY <1>1, <1>6, AttemptEnds
  <2>2. connection_ = NoSocket /\ ~Has("startInLoop") /\ ~Has("resetChannel") /\ (alive \/ unsafeEnd)
    BY <1>1, <1>6 DEF One, Orphan
  <2> DEFINE f == Functor("resetChannel")
  <2>3. f \in FunctorType /\ f.op = "resetChannel" /\ QueueInLoop(f)
    BY <2>1, FunctorFacts
  <2> HIDE DEF f
  <2>4. /\ pendingFunctors_' \in Seq(FunctorType) /\ functors' \in Seq(FunctorType)
        /\ h \in FunctorType /\ h.op = "stopInLoop"
        /\ \E W \in SUBSET FunctorType :
             /\ Waiting = {h} \cup W
             /\ Waiting' = W \cup {f}
             /\ \A c : InOrder(Line, c) =>
                  /\ \A g \in W : ~Clash(h, g, c)
                  /\ (\A g \in W : ~Clash(g, f, c)) => InOrder(Line', c)
    BY <1>1, <1>2, <2>3, RunQueueStep
  <2>5. PICK W \in SUBSET FunctorType :
             /\ Waiting = {h} \cup W
             /\ Waiting' = W \cup {f}
             /\ \A c : InOrder(Line, c) =>
                  /\ \A g \in W : ~Clash(h, g, c)
                  /\ (\A g \in W : ~Clash(g, f, c)) => InOrder(Line', c)
    BY <2>4
  <2> HIDE DEF h
  <2>6. ~connect_ /\ timers' = 0
    <3>1. Has("stopInLoop")
      BY <2>4, <2>5 DEF Has
    <3> QED
      BY <1>1, <2>1, <3>1 DEF Stops
  <2>7. ~Has("startInLoop")'
    BY <2>2, <2>3, <2>5 DEF Has
  <2>8. TypeOK'
    BY <1>1, <1>2, <1>4, <1>6, <2>1, <2>4 DEF TypeOK
  <2>9. Places'
    BY <1>2, <1>3 DEF Places
  <2>10. One' /\ Stops'
    BY <1>2, <2>1, <2>2, <2>6, <2>7 DEF One, Stops
  <2>11. Resets'
    BY <1>2, <1>3, <2>2, <2>6, <2>7 DEF Resets
  <2>12. Owners'
    <3>1. \A g \in Waiting' : g.op # "resetChannel" => g \in Waiting
      BY <2>3, <2>5
    <3>2. \A s : CD(s) \in Waiting => CD(s) \in Waiting'
      BY <2>4, <2>5 DEF CD
    <3>3. \A g \in Waiting' : g.op = "connectDestroyed" => g.socket \in open' \ {NoSocket}
      BY <1>1, <2>1, <2>2, <3>1 DEF Owners
    <3>4. \A g \in Waiting' : g.op = "forceCloseInLoop" =>
            g.socket \in Sockets /\ (g.socket = NoSocket \/ CD(g.socket) \in Waiting')
      BY <1>1, <2>2, <3>1, <3>2 DEF Owners
    <3>5. \A s \in open' : s = NoSocket \/ CD(s) \in Waiting'
      BY <1>1, <2>1, <2>2, <3>2 DEF Owners
    <3> QED
      BY <1>2, <2>1, <2>2, <3>3, <3>4, <3>5 DEF Owners
  <2>13. Orphan' /\ NoUseAfterDestruction'
    BY <1>2, <1>4, <2>2 DEF Orphan, NoUseAfterDestruction
  <2>14. InOrder(Line, connection_)'
    <3>1. \A g \in Waiting : g.op = "forceCloseInLoop" => g.socket # NoSocket
      BY <1>1, SocketsAssumption DEF Owners
    <3>2. \A g \in W : ~Clash(g, f, connection_)
      BY <2>2, <2>3, <2>5, <3>1 DEF Clash, CD, FC
    <3> QED
      BY <1>1, <1>2, <2>5, <3>2
  <2> QED
    BY <2>8, <2>9, <2>10, <2>11, <2>12, <2>13, <2>14 DEF IInv
<1> QED
  BY <1>2, <1>5, <1>6 DEF StopInLoop

LEMMA RunResetChannelStep == IInv /\ RunResetChannel /\ ~undefined => IInv'
<1> SUFFICES ASSUME IInv, RunResetChannel, ~undefined PROVE IInv'
  OBVIOUS
<1> DEFINE h == functors[1]
<1>1. TypeOK /\ Places /\ One /\ Stops /\ Resets /\ Owners /\ Orphan /\ InOrder(Line, connection_)
  BY DEF IInv
<1>2. /\ NextFunctor("resetChannel") /\ undefined' = ~ConnectorAlive
      /\ channel_' = NoSocket
      /\ UNCHANGED <<state_, registered, open, timers, gaveUp>>
      /\ UNCHANGED <<pendingFunctors_, connect_, clientVars, pc, active, timerDue, revents>>
  BY DEF RunResetChannel, RunConnectorFunctor, ResetChannel
<1> USE DEF clientVars
<1>3. pc = "functors" /\ active = {} /\ ~timerDue
  BY <1>1, <1>2 DEF NextFunctor, Places
<1>4. /\ pendingFunctors_' \in Seq(FunctorType) /\ functors' \in Seq(FunctorType)
      /\ h \in FunctorType /\ h.op = "resetChannel"
      /\ Elems(pendingFunctors_') = Elems(pendingFunctors_)
      /\ Waiting = {h} \cup Waiting'
      /\ \A c : InOrder(Line, c) =>
           InOrder(Line', c) /\ \A g \in Waiting' : ~Clash(h, g, c)
  BY <1>1, <1>2, RunStep
<1> HIDE DEF h
<1>5. Has("resetChannel") /\ \A op : Has(op)' => Has(op)
  BY <1>4 DEF Has
<1>6. state_ # "kConnecting" /\ ~Has("startInLoop") /\ (alive \/ unsafeEnd)
  BY <1>1, <1>5 DEF One, Resets, Orphan
<1>7. TypeOK'
  BY <1>1, <1>2, <1>4 DEF TypeOK, ConnectorAlive
<1>8. Places'
  BY <1>2, <1>3 DEF Places
<1>9. One' /\ Stops'
  BY <1>1, <1>2, <1>5, <1>6 DEF One, Stops
<1>10. Resets'
  BY <1>1, <1>2, <1>3, <1>4, <1>5, <1>6 DEF Resets
<1>11. Owners'
  <2>1. \A s : CD(s) \in Waiting => CD(s) \in Waiting'
    BY <1>4 DEF CD
  <2> QED
    BY <1>1, <1>2, <1>4, <2>1 DEF Owners
<1>12. Orphan' /\ NoUseAfterDestruction'
  BY <1>2, <1>6 DEF Orphan, NoUseAfterDestruction, ConnectorAlive
<1>13. InOrder(Line, connection_)'
  BY <1>1, <1>2, <1>4
<1> QED
  BY <1>7, <1>8, <1>9, <1>10, <1>11, <1>12, <1>13 DEF IInv

(* A forced close of the connection, and of one that has closed already.   *)
LEMMA RunForceCloseInLoopStep == IInv /\ RunForceCloseInLoop /\ ~undefined => IInv'
<1> SUFFICES ASSUME IInv, RunForceCloseInLoop, ~undefined PROVE IInv'
  OBVIOUS
<1> DEFINE h == functors[1]
<1>1. TypeOK /\ Places /\ One /\ Stops /\ Resets /\ Owners /\ Orphan /\ InOrder(Line, connection_)
  BY DEF IInv
<1>2. NextFunctor("forceCloseInLoop")
  BY DEF RunForceCloseInLoop
<1>3. pc = "functors" /\ active = {} /\ ~timerDue
  BY <1>1, <1>2 DEF NextFunctor, Places
<1>4. h \in Waiting /\ h \in FunctorType /\ h.op = "forceCloseInLoop"
  <2>1. functors \in Seq(FunctorType) /\ functors # <<>> /\ h.op = "forceCloseInLoop"
    BY <1>1, <1>2 DEF NextFunctor, TypeOK
  <2>2. pendingFunctors_ \in Seq(FunctorType)
    BY <1>1 DEF TypeOK
  <2> QED
    BY <2>1, <2>2, Taken DEF Waiting, Line
<1>5. h.socket \in Sockets /\ h = FC(h.socket)
  BY <1>1, <1>4, FunctorFacts DEF Owners
<1>6. ASSUME h.socket # connection_,
             UNCHANGED <<connectorVars, clientVars, pc, active, timerDue, revents, undefined>>
      PROVE  IInv'
  <2> USE DEF connectorVars, attemptVars, clientVars
  <2>1. /\ pendingFunctors_' \in Seq(FunctorType) /\ functors' \in Seq(FunctorType)
        /\ Elems(pendingFunctors_') = Elems(pendingFunctors_)
        /\ Waiting = {h} \cup Waiting'
        /\ \A c : InOrder(Line, c) =>
             InOrder(Line', c) /\ \A g \in Waiting' : ~Clash(h, g, c)
    BY <1>1, <1>2, <1>6, RunStep
  <2> HIDE DEF h
  <2>2. \A op : op # "forceCloseInLoop" => (Has(op)' <=> Has(op))
    BY <1>4, <2>1 DEF Has
  <2>3. TypeOK' /\ Places'
    BY <1>1, <1>2, <1>3, <1>6, <2>1 DEF TypeOK, Places
  <2>4. One' /\ Stops'
    BY <1>1, <1>6, <2>2 DEF One, Stops
  <2>5. Resets'
    BY <1>1, <1>6, <2>1, <2>2 DEF Resets
  <2>6. Owners'
    <3>1. \A s : CD(s) \in Waiting => CD(s) \in Waiting'
      BY <1>4, <2>1 DEF CD
    <3> QED
      BY <1>1, <1>6, <2>1, <3>1 DEF Owners
  <2>7. Orphan' /\ NoUseAfterDestruction'
    BY <1>1, <1>6, <2>1, <2>2 DEF Orphan, NoUseAfterDestruction
  <2>8. InOrder(Line, connection_)'
    BY <1>1, <1>6, <2>1
  <2> QED
    BY <2>3, <2>4, <2>5, <2>6, <2>7, <2>8 DEF IInv
<1>7. ASSUME h.socket = connection_, CloseConnection, active' = active PROVE IInv'
  <2>1. connection_ \in Sockets /\ connection_ # NoSocket /\ h = FC(connection_)
    BY <1>5, <1>7, SocketsAssumption
  <2> DEFINE f == CD(connection_)
  <2>2. f \in FunctorType /\ f.op = "connectDestroyed" /\ f.socket = connection_
    BY <2>1, FunctorFacts
  <2>3. QueueInLoop(f)
    BY <1>7 DEF CloseConnection, CD
  <2>4. /\ pendingFunctors_' \in Seq(FunctorType) /\ functors' \in Seq(FunctorType)
        /\ Elems(pendingFunctors_') = Elems(pendingFunctors_) \cup {f}
        /\ \E W \in SUBSET FunctorType :
             /\ Waiting = {h} \cup W
             /\ Waiting' = W \cup {f}
             /\ \A c : InOrder(Line, c) =>
                  /\ \A g \in W : ~Clash(h, g, c)
                  /\ (\A g \in W : ~Clash(g, f, c)) => InOrder(Line', c)
    BY <1>1, <1>2, <2>2, <2>3, RunQueueStep
  <2>5. PICK W \in SUBSET FunctorType :
             /\ Waiting = {h} \cup W
             /\ Waiting' = W \cup {f}
             /\ \A c : InOrder(Line, c) =>
                  /\ \A g \in W : ~Clash(h, g, c)
                  /\ (\A g \in W : ~Clash(g, f, c)) => InOrder(Line', c)
    BY <2>4
  <2>6. Waiting' = W \cup {CD(connection_)} /\ W \subseteq Waiting
    BY <2>5
  <2>7. \A g \in W : ~Clash(g, f, connection_)
    <3>1. \A g \in W : g.op = "connectDestroyed" => g.socket # connection_
      BY <1>1, <2>6 DEF Owners
    <3> QED
      BY <2>2, <3>1 DEF Clash, CD, FC
  <2> HIDE DEF h, f
  <2>8. InOrder(Line', connection_) /\ \A g \in W : g.op # "resetChannel"
    BY <1>1, <2>1, <2>5, <2>7 DEF Clash
  <2>9. ~Has("resetChannel")'
    BY <2>2, <2>5, <2>8 DEF Has
  <2>10. Elems(pendingFunctors_') \subseteq Waiting'
    <3>1. Waiting' = Elems(functors') \cup Elems(pendingFunctors_')
      BY <2>4, Parts DEF Waiting, Line
    <3> QED
      BY <3>1
  <2>11. \A g \in Waiting : g \in W \/ g = FC(connection_)
    BY <2>1, <2>5
  <2>12. active' \subseteq active \ {connection_}
    BY <1>3, <1>7
  <2> QED
    BY <1>3, <1>7, <2>1, <2>4, <2>6, <2>8, <2>9, <2>10, <2>11, <2>12, Closes
<1> QED
  BY <1>6, <1>7 DEF RunForceCloseInLoop

(* The last shared_ptr to a connection goes, and no functor needs it.      *)
LEMMA RunConnectDestroyedStep == IInv /\ RunConnectDestroyed /\ ~undefined => IInv'
<1> SUFFICES ASSUME IInv, RunConnectDestroyed, ~undefined PROVE IInv'
  OBVIOUS
<1> DEFINE h == functors[1]
<1>1. TypeOK /\ Places /\ One /\ Stops /\ Resets /\ Owners /\ Orphan /\ InOrder(Line, connection_)
  BY DEF IInv
<1>2. /\ NextFunctor("connectDestroyed") /\ open' = open \ {h.socket}
      /\ UNCHANGED <<connect_, pendingFunctors_, state_, channel_, registered, timers, gaveUp,
                     clientVars, pc, active, timerDue, revents, undefined>>
  BY DEF RunConnectDestroyed
<1> USE DEF clientVars
<1>3. /\ pendingFunctors_' \in Seq(FunctorType) /\ functors' \in Seq(FunctorType)
      /\ h \in FunctorType /\ h.op = "connectDestroyed"
      /\ Elems(pendingFunctors_') = Elems(pendingFunctors_)
      /\ Waiting = {h} \cup Waiting'
      /\ \A c : InOrder(Line, c) =>
           InOrder(Line', c) /\ \A g \in Waiting' : ~Clash(h, g, c)
  BY <1>1, <1>2, RunStep
<1> HIDE DEF h
<1>4. \A op : op # "connectDestroyed" => (Has(op)' <=> Has(op))
  BY <1>3 DEF Has
<1>5. InOrder(Line, connection_)'
  BY <1>1, <1>2, <1>3
<1>6. TypeOK'
  BY <1>1, <1>2, <1>3 DEF TypeOK
<1>7. Places'
  BY <1>1, <1>2 DEF Places, NextFunctor
<1>8. One' /\ Stops' /\ Resets'
  BY <1>1, <1>2, <1>3, <1>4 DEF One, Stops, Resets
<1>9. Owners'
  <2>1. h = CD(h.socket) /\ h.socket \in open \ (registered \cup {connection_})
    BY <1>1, <1>3, FunctorFacts DEF Owners
  <2>2. \A g \in Waiting' : g # CD(h.socket) /\ g # FC(h.socket)
    BY <1>1, <1>3 DEF Clash
  <2>3. \A g \in Waiting' : g \in FunctorType /\ g \in Waiting
    BY <1>1, <1>3, WaitingFacts
  <2>4. \A g \in Waiting' : g.op = "connectDestroyed" =>
          g.socket \in open' \ (registered \cup {connection_})
    BY <1>1, <1>2, <2>2, <2>3, FunctorFacts DEF Owners
  <2>5. \A s : s # h.socket /\ CD(s) \in Waiting => CD(s) \in Waiting'
    BY <1>3 DEF CD
  <2>6. \A g \in Waiting' : g.op = "forceCloseInLoop" =>
          g.socket \in Sockets /\ (g.socket = connection_ \/ CD(g.socket) \in Waiting')
    BY <1>1, <2>2, <2>3, <2>5, FunctorFacts DEF Owners
  <2>7. \A s \in open' : s \in registered \/ s = connection_ \/ CD(s) \in Waiting'
    BY <1>1, <1>2, <2>5 DEF Owners
  <2>8. registered \subseteq open' /\ (connection_ # NoSocket => connection_ \in open')
    BY <1>1, <1>2, <2>1 DEF Owners
  <2> QED
    BY <1>2, <2>4, <2>6, <2>7, <2>8 DEF Owners
<1>10. Orphan' /\ NoUseAfterDestruction'
  BY <1>1, <1>2, <1>3, <1>4 DEF Orphan, NoUseAfterDestruction
<1> QED
  BY <1>5, <1>6, <1>7, <1>8, <1>9, <1>10 DEF IInv

-----------------------------------------------------------------------------
(* The invariant.                                                          *)
LEMMA Initially == Init => IInv
<1> SUFFICES ASSUME Init PROVE IInv
  OBVIOUS
<1> USE DEF Init, ConnectorInit
<1>1. <<>> \in Seq(FunctorType)
  OBVIOUS
<1>2. Waiting = {} /\ Elems(pendingFunctors_) = {} /\ InOrder(Line, connection_)
  <2>1. Line = <<>>
    BY <1>1, Parts DEF Line
  <2> QED
    BY <2>1, InOrderEmpty DEF Waiting
<1>3. TypeOK
  <2>1. pendingFunctors_ \in Seq(FunctorType) /\ functors \in Seq(FunctorType)
    BY <1>1
  <2>2. registered \subseteq Sockets /\ open \subseteq Sockets /\ active \subseteq Sockets
        /\ revents \subseteq {"err", "out"}
    OBVIOUS
  <2>3. timers \in 0 .. 1
    OBVIOUS
  <2> QED
    BY <2>1, <2>2, <2>3 DEF TypeOK
<1>4. Places /\ One /\ Stops /\ Resets /\ Orphan /\ NoUseAfterDestruction
  BY <1>2 DEF Places, One, Stops, Resets, Orphan, NoUseAfterDestruction, Has
<1>5. Owners
  BY <1>2 DEF Owners
<1> QED
  BY <1>2, <1>3, <1>4, <1>5 DEF IInv

LEMMA Inductive == Spec => []IInv
<1>1. Init => IInv
  BY Initially
<1>2. IInv /\ [Next]_vars => IInv'
  <2>1. IInv /\ UNCHANGED vars => IInv'
    <3> SUFFICES ASSUME IInv, UNCHANGED vars PROVE IInv'
      OBVIOUS
    <3> USE DEF vars, connectorVars, attemptVars, clientVars, loopVars
    <3>1. Line' = Line /\ Waiting' = Waiting /\ Elems(pendingFunctors_') = Elems(pendingFunctors_)
          /\ \A op : Has(op)' <=> Has(op)
      BY QuietStep
    <3>2. TypeOK' /\ Places' /\ One' /\ Stops'
      BY <3>1 DEF IInv, TypeOK, Places, One, Stops
    <3>3. Resets' /\ Owners' /\ Orphan' /\ NoUseAfterDestruction'
      BY <3>1 DEF IInv, Resets, Owners, Orphan, NoUseAfterDestruction
    <3>4. InOrder(Line, connection_)'
      BY <3>1 DEF IInv
    <3> QED
      BY <3>2, <3>3, <3>4 DEF IInv
  <2>2. IInv /\ ~undefined /\ Handle => IInv'
    BY HandleAttemptStep, DispatchErrorStep, DispatchWriteStep, HandleConnectionStep,
       HandleTimerStep DEF Handle
  <2>3. IInv /\ ~undefined /\ RunFunctor => IInv'
    BY RunStartInLoopStep, RunStopInLoopStep, RunResetChannelStep, RunForceCloseInLoopStep,
       RunConnectDestroyedStep DEF RunFunctor
  <2>4. IInv /\ Round => IInv'
    BY <2>2, <2>3, SwapFunctorsStep, EndBatchStep DEF Round
  <2>5. IInv /\ User => IInv'
    BY ConnectStep, StopStep, DisconnectStep, ForceCloseStep, EndClientStep DEF User
  <2> QED
    BY <2>1, <2>4, <2>5, PollStep DEF Next
<1> QED
  BY <1>1, <1>2, PTL DEF Spec

-----------------------------------------------------------------------------
(* The types, and with them: there is never a second retry timer.          *)
THEOREM TypeCorrect == Spec => []TypeOK
<1>1. IInv => TypeOK
  BY DEF IInv
<1> QED
  BY <1>1, Inductive, PTL

(* The connector's channel is in epoll exactly during an attempt, and the  *)
(* queued resetChannel never frees it there; every open socket has an      *)
(* owner that will close it.                                               *)
THEOREM SocketsHaveOwners == Spec => []SocketsOwned
<1>1. IInv => SocketsOwned
  <2> SUFFICES ASSUME IInv PROVE SocketsOwned
    OBVIOUS
  <2>1. TypeOK /\ One /\ Owners
    BY DEF IInv
  <2>2. RegisteredIsCurrent
    BY <2>1 DEF One, RegisteredIsCurrent
  <2>3. ASSUME NEW s \in Sockets, CD(s) \in Waiting PROVE s \in BeingDestroyed
    <3>1. CD(s) \in Elems(functors) \/ CD(s) \in Elems(pendingFunctors_)
      BY <2>1, <2>3, WaitingFacts
    <3>2. \E q \in {pendingFunctors_, functors} : \E i \in DOMAIN q :
            q[i] = [op |-> "connectDestroyed", socket |-> s]
      BY <3>1 DEF Elems, CD
    <3> QED
      BY <3>2 DEF BeingDestroyed
  <2>4. NoSocketLeaked
    BY <2>1, <2>3 DEF TypeOK, Owners, NoSocketLeaked
  <2> QED
    BY <2>2, <2>4 DEF SocketsOwned
<1> QED
  BY <1>1, Inductive, PTL

(* Of a queued start, a retry delay, an attempt and a connection there is  *)
(* never more than one.                                                    *)
THEOREM OneAtATime == Spec => []OneActivity
<1>1. IInv => OneActivity
  <2> SUFFICES ASSUME IInv PROVE OneActivity
    OBVIOUS
  <2>1. TypeOK /\ One
    BY DEF IInv
  <2>2. Queued("startInLoop") <=> Has("startInLoop")
    BY <2>1, WaitingFacts
  <2>3. Cardinality(registered) = IF state_ = "kConnecting" THEN 1 ELSE 0
    BY <2>1, FS_EmptySet, FS_Singleton DEF One
  <2>4. timers \in {0, 1}
    BY <2>1 DEF TypeOK
  <2> QED
    BY <2>1, <2>2, <2>3, <2>4 DEF One, OneActivity
<1> QED
  BY <1>1, Inductive, PTL

(* Neither the connector nor the client is used after its end, no freed    *)
(* channel is polled and handleWriter never reaches exit, unless the       *)
(* client was destroyed while something held a raw pointer to it.          *)
THEOREM UseSafe == Spec => []NoUseAfterDestruction
<1>1. IInv => NoUseAfterDestruction
  BY DEF IInv
<1> QED
  BY <1>1, Inductive, PTL

=============================================================================
