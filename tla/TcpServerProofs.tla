-------------------------- MODULE TcpServerProofs --------------------------
(***************************************************************************)
(* Proofs about TcpServer, for any number of threads, connections and      *)
(* descriptors: no functor of a connection is queued twice, on the wrong   *)
(* loop or in the wrong order, however the connection closes; it leaves    *)
(* its poller, down or, when the server ended while it shut down, untold;  *)
(* and the server is not used after its end unless it ended at an          *)
(* unfortunate moment, of which a forceClose under way is one.             *)
(***************************************************************************)
EXTENDS TcpServer, FiniteSetTheorems, SequenceTheorems, TLAPS

CE(c) == Functor("connectEstablished", c)
RC(c) == Functor("removeConnectionInLoop", c)
CD(c) == Functor("connectDestroyed", c)
FC(c) == Functor("forceCloseInLoop", c)
Listen == Functor("listen", NoConn)

(* The functors that wait for a loop, in the order in which they run, and  *)
(* regardless of it.                                                       *)
Elems(s) == {s[i] : i \in DOMAIN s}
Line(p, q, l) == q[l] \o p[l]
WaitingIn(p, q) == [l \in Loops |-> Elems(q[l]) \cup Elems(p[l])]
Waiting == WaitingIn(pendingFunctors_, functors)

(* No functor waits twice, and connectDestroyed waits behind               *)
(* connectEstablished.                                                     *)
InOrder(s) ==
  /\ \A i, j \in DOMAIN s : s[i] = s[j] => i = j
  /\ \A i, j \in DOMAIN s : \A c \in Conns : s[i] = CE(c) /\ s[j] = CD(c) => i < j
OrderedIn(p, q) == \A l \in Loops : InOrder(Line(p, q, l))
Ordered == OrderedIn(pendingFunctors_, functors)

Known == 1 .. nextConnId_ - 1
Ended(l) == pc[l] \in {"returned", "destroyed"}

(* The threads of the pool run from start() until the destructor joins     *)
(* them.                                                                   *)
Threads ==
  /\ \A l \in Loops : functors[l] # <<>> => pc[l] = "functors"
  /\ listening \/ Listen \in Waiting[Base] => started_
  /\ \A c \in Known : loop_[c] # Base => started_ /\ loop_[c] \in 1 .. numThreads_
  /\ server = "alive" => joining = 1 /\ \A l \in Loops \ {Base} : ~quit_[l] /\ ~Ended(l)
  /\ \A l \in 1 .. joining - 1 : pc[l] = "returned"
  /\ server = "joining" => started_ /\ joining <= numThreads_
  /\ server = "gone" /\ started_ => joining > numThreads_
  /\ \A l \in Loops \ {Base} : pc[l] # "destroyed" /\ (~started_ => pc[l] = "none")
  /\ server \in {"quitting", "joining"} => pc[Base] # "events"
  /\ server = "gone" /\ listening => undefined

(* Every functor waits for the loop it is for.                             *)
AtPlace(l, f) ==
  \/ f = Listen /\ l = Base
  \/ /\ f.conn \in Known
     /\ \/ f = CE(f.conn) /\ l = loop_[f.conn] /\ l # Base
        \/ f \in {CD(f.conn), FC(f.conn)} /\ l = loop_[f.conn]
        \/ f = RC(f.conn) /\ l = Base /\ loop_[f.conn] # Base
Placed == \A l \in Loops : \A f \in Waiting[l] : AtPlace(l, f)

(* What waits for a connection, by its state.                              *)
Life(c) ==
  /\ c \notin Known => stat_[c] = "none" /\ c \notin connections_ /\ c \notin inPoller
  /\ c \in Known => stat_[c] # "none"
  /\ CE(c) \in Waiting[loop_[c]] => stat_[c] = "kConnecting"
  /\ stat_[c] = "kConnecting" =>
       /\ c \notin inPoller /\ RC(c) \notin Waiting[Base] /\ loop_[c] # Base
       /\ CE(c) \in Waiting[loop_[c]] \/ Ended(loop_[c])
  /\ Up(c) => RC(c) \notin Waiting[Base]
  /\ stat_[c] = "kConnected" => c \in inPoller
  /\ CD(c) \in Waiting[loop_[c]] => c \in inPoller \/ CE(c) \in Waiting[loop_[c]]

(* While the server lives: the map and the functors account for each       *)
(* connection.                                                             *)
Served(c) ==
  /\ stat_[c] = "kConnecting" \/ Up(c) =>
       c \in connections_ /\ CD(c) \notin Waiting[loop_[c]]
  /\ Up(c) => c \in inPoller
  /\ stat_[c] = "kDisconnected" =>
       IF c \in connections_
       THEN c \in inPoller /\ RC(c) \in Waiting[Base] /\ CD(c) \notin Waiting[loop_[c]]
       ELSE (c \in inPoller <=> CD(c) \in Waiting[loop_[c]]) /\ RC(c) \notin Waiting[Base]

(* After its end: connectDestroyed was queued to each; one that closes by  *)
(* force behind it enters its channel again, and queues its removal.       *)
Abandoned(c) ==
  /\ c \notin connections_
  /\ (c \in inPoller \/ stat_[c] = "kConnecting") /\ ~Ended(loop_[c]) =>
       CD(c) \in Waiting[loop_[c]] \/ RC(c) \in Waiting[Base]
  /\ loop_[c] = Base /\ Up(c) => stat_[c] = "kDisconnecting" /\ c \notin inPoller

(* A server that ended safely left nobody to call it.                      *)
LeftAlone ==
  server # "alive" /\ ~unsafeEnd /\ ~Ended(Base) =>
    /\ Listen \notin Waiting[Base]
    /\ \A c \in Conns : RC(c) \notin Waiting[Base]
                        /\ (loop_[c] # Base => stat_[c] \in {"none", "kDisconnected"})
                        /\ (FC(c) \in Waiting[Base] => stat_[c] = "kDisconnected")

Lives ==
  \A c \in Conns : Life(c) /\ IF server = "alive" THEN Served(c) ELSE Abandoned(c)

Sound == Ordered /\ Lives /\ LeftAlone
Core == Threads /\ Placed /\ (undefined \/ Sound)
IInv == TypeOK /\ Core /\ RemovedOnce /\ GoneCleanly /\ NoUseAfterDestruction

-----------------------------------------------------------------------------
(* Functors.                                                               *)
LEMMA FunctorFacts ==
  /\ Listen \in FunctorType /\ Listen.conn = NoConn /\ NoConn \notin Conns
  /\ \A c \in Conns : /\ CE(c) \in FunctorType /\ CE(c).conn = c
                      /\ CD(c) \in FunctorType /\ CD(c).conn = c
                      /\ RC(c) \in FunctorType /\ RC(c).conn = c
                      /\ FC(c) \in FunctorType /\ FC(c).conn = c
                      /\ CE(c) # Listen /\ CD(c) # Listen /\ RC(c) # Listen /\ FC(c) # Listen
  /\ \A c, d \in Conns : /\ CE(c) # CD(d) /\ CE(c) # RC(d) /\ CD(c) # RC(d)
                         /\ FC(c) # CE(d) /\ FC(c) # CD(d) /\ FC(c) # RC(d)
  BY ServerAssumption
     DEF ServerAssumption, FunctorType, CE, CD, RC, FC, Listen, Functor, NoConn, Conns

LEMMA LoopFacts == Base \in Loops /\ 1 .. MaxThreads = Loops \ {Base} /\ IsFiniteSet(Conns)
<1>1. IsFiniteSet(Conns)
  BY ServerAssumption, FS_Interval DEF ServerAssumption, Conns
<1> QED
  BY <1>1, ServerAssumption DEF ServerAssumption, Base, Loops

-----------------------------------------------------------------------------
(* Sequences: their elements, and their order.                             *)
LEMMA ElemsEmpty == Elems(<<>>) = {} /\ InOrder(<<>>)
  BY EmptySeq DEF Elems, InOrder

LEMMA ElemsConcat ==
  ASSUME NEW S, NEW s \in Seq(S), NEW t \in Seq(S)
  PROVE  Elems(s \o t) = Elems(s) \cup Elems(t)
<1> DEFINE m == Len(s)
           n == Len(t)
           r == s \o t
<1>1. /\ r \in Seq(S) /\ Len(r) = m + n
      /\ \A i \in 1 .. m + n : r[i] = IF i <= m THEN s[i] ELSE t[i - m]
  BY ConcatProperties
<1>2. /\ m \in Nat /\ DOMAIN s = 1 .. m /\ n \in Nat /\ DOMAIN t = 1 .. n /\ DOMAIN r = 1 .. m + n
  BY <1>1, LenProperties
<1> HIDE DEF m, n, r
<1>3. ASSUME NEW i \in 1 .. m PROVE s[i] \in Elems(r)
  <2>1. i \in 1 .. m + n /\ r[i] = s[i]
    BY <1>1, <1>2
  <2> QED
    BY <1>2, <2>1 DEF Elems
<1>4. ASSUME NEW i \in 1 .. n PROVE t[i] \in Elems(r)
  <2>1. m + i \in 1 .. m + n /\ r[m + i] = t[i]
    BY <1>1, <1>2
  <2> QED
    BY <1>2, <2>1 DEF Elems
<1>5. ASSUME NEW i \in 1 .. m + n PROVE r[i] \in Elems(s) \cup Elems(t)
  <2>1. (i \in 1 .. m /\ r[i] = s[i]) \/ (i - m \in 1 .. n /\ r[i] = t[i - m])
    BY <1>1, <1>2
  <2> QED
    BY <1>2, <2>1 DEF Elems
<1>6. Elems(s) \subseteq Elems(r) /\ Elems(t) \subseteq Elems(r)
  <2>1. \A x \in Elems(s) : \E i \in 1 .. m : x = s[i]
    BY <1>2 DEF Elems
  <2>2. \A x \in Elems(t) : \E i \in 1 .. n : x = t[i]
    BY <1>2 DEF Elems
  <2> QED
    BY <1>3, <1>4, <2>1, <2>2
<1>7. Elems(r) \subseteq Elems(s) \cup Elems(t)
  <2>1. \A x \in Elems(r) : \E i \in 1 .. m + n : x = r[i]
    BY <1>2 DEF Elems
  <2> QED
    BY <1>5, <2>1
<1> QED
  BY <1>6, <1>7 DEF r

LEMMA ElemsAppend ==
  ASSUME NEW S, NEW s \in Seq(S), NEW f \in S
  PROVE  /\ Elems(Append(s, f)) = Elems(s) \cup {f}
         /\ Append(s, f) = s \o <<f>> /\ <<f>> \in Seq(S) /\ Elems(<<f>>) = {f}
<1>1. <<f>> \in Seq(S) /\ Append(s, f) = s \o <<f>>
  BY AppendIsConcat
<1>2. Elems(<<f>>) = {f}
  BY DEF Elems
<1>3. Elems(s \o <<f>>) = Elems(s) \cup Elems(<<f>>)
  BY <1>1, ElemsConcat
<1> QED
  BY <1>1, <1>2, <1>3

LEMMA ElemsTail ==
  ASSUME NEW S, NEW s \in Seq(S), s # <<>>
  PROVE  /\ Elems(s) = {Head(s)} \cup Elems(Tail(s))
         /\ Head(s) \in S /\ Tail(s) \in Seq(S)
<1> DEFINE t == Tail(s)
           n == Len(s)
<1>1. /\ Len(t) = n - 1 /\ Head(s) = s[1] /\ Head(s) \in S /\ t \in Seq(S)
      /\ \A i \in 1 .. Len(t) : t[i] = s[i + 1]
  BY HeadTailProperties
<1>2. n \in Nat \ {0} /\ DOMAIN s = 1 .. n /\ DOMAIN t = 1 .. n - 1
  BY <1>1, LenProperties, EmptySeq
<1> HIDE DEF t, n
<1>3. ASSUME NEW i \in 1 .. n PROVE s[i] = Head(s) \/ s[i] \in Elems(t)
  <2>1. i = 1 \/ (i - 1 \in 1 .. n - 1 /\ t[i - 1] = s[i])
    BY <1>1, <1>2
  <2> QED
    BY <1>1, <1>2, <2>1 DEF Elems
<1>4. ASSUME NEW i \in 1 .. n - 1 PROVE t[i] \in Elems(s)
  <2>1. i + 1 \in 1 .. n /\ t[i] = s[i + 1]
    BY <1>1, <1>2
  <2> QED
    BY <1>2, <2>1 DEF Elems
<1>5. Head(s) \in Elems(s)
  BY <1>1, <1>2, 1 \in 1 .. n DEF Elems
<1>6. /\ \A x \in Elems(s) : \E i \in 1 .. n : x = s[i]
      /\ \A x \in Elems(t) : \E i \in 1 .. n - 1 : x = t[i]
  BY <1>2 DEF Elems
<1>7. Elems(s) = {Head(s)} \cup Elems(t)
  BY <1>3, <1>4, <1>5, <1>6
<1> QED
  BY <1>1, <1>7 DEF t

LEMMA ElemsType ==
  ASSUME NEW S, NEW s \in Seq(S)
  PROVE  Elems(s) \subseteq S
<1>1. DOMAIN s = 1 .. Len(s) /\ \A i \in 1 .. Len(s) : s[i] \in S
  BY ElementOfSeq, LenProperties
<1> QED
  BY <1>1 DEF Elems

LEMMA InOrderTail ==
  ASSUME NEW S, NEW s \in Seq(S), s # <<>>, InOrder(s)
  PROVE  /\ InOrder(Tail(s)) /\ Head(s) \notin Elems(Tail(s))
         /\ \A c \in Conns : Head(s) = CD(c) => CE(c) \notin Elems(Tail(s))
<1>1. /\ Len(Tail(s)) = Len(s) - 1 /\ Head(s) = s[1] /\ Tail(s) \in Seq(S)
      /\ \A i \in 1 .. Len(Tail(s)) : Tail(s)[i] = s[i + 1]
  BY HeadTailProperties
<1>2. Len(s) \in Nat \ {0} /\ DOMAIN s = 1 .. Len(s) /\ DOMAIN Tail(s) = 1 .. Len(s) - 1
  BY <1>1, LenProperties, EmptySeq
<1>3. \A i \in 1 .. Len(s) - 1 : i + 1 \in 1 .. Len(s) /\ i + 1 # 1 /\ ~(i + 1 < 1)
                                 /\ Tail(s)[i] = s[i + 1]
  BY <1>1, <1>2
<1>4. 1 \in 1 .. Len(s)
  BY <1>2
<1>5. /\ \A i, j \in 1 .. Len(s) : s[i] = s[j] => i = j
      /\ \A i, j \in 1 .. Len(s) : \A c \in Conns : s[i] = CE(c) /\ s[j] = CD(c) => i < j
  BY <1>2 DEF InOrder
<1>6. Head(s) \notin Elems(Tail(s))
  BY <1>1, <1>2, <1>3, <1>4, <1>5 DEF Elems
<1>7. ASSUME NEW c \in Conns, Head(s) = CD(c) PROVE CE(c) \notin Elems(Tail(s))
  BY <1>1, <1>2, <1>3, <1>4, <1>5, <1>7 DEF Elems
<1>8. InOrder(Tail(s))
  <2>1. \A i, j \in 1 .. Len(s) - 1 : Tail(s)[i] = Tail(s)[j] => i = j
    BY <1>2, <1>3, <1>5
  <2>2. \A i, j \in 1 .. Len(s) - 1 : \A c \in Conns :
          Tail(s)[i] = CE(c) /\ Tail(s)[j] = CD(c) => i < j
    BY <1>2, <1>3, <1>5
  <2> QED
    BY <1>2, <2>1, <2>2 DEF InOrder
<1> QED
  BY <1>6, <1>7, <1>8

LEMMA InOrderConcat ==
  ASSUME NEW S, NEW s \in Seq(S), NEW t \in Seq(S), InOrder(s), InOrder(t),
         Elems(s) \cap Elems(t) = {},
         \A c \in Conns : CE(c) \in Elems(t) => CD(c) \notin Elems(s)
  PROVE  InOrder(s \o t)
<1> DEFINE m == Len(s)
           n == Len(t)
           r == s \o t
<1>1. /\ r \in Seq(S) /\ Len(r) = m + n
      /\ \A i \in 1 .. m + n : r[i] = IF i <= m THEN s[i] ELSE t[i - m]
  BY ConcatProperties
<1>2. /\ m \in Nat /\ DOMAIN s = 1 .. m /\ n \in Nat /\ DOMAIN t = 1 .. n /\ DOMAIN r = 1 .. m + n
  BY <1>1, LenProperties
<1> HIDE DEF m, n, r
<1>3. \A i \in 1 .. m + n :
        \/ i \in 1 .. m /\ r[i] = s[i]
        \/ i - m \in 1 .. n /\ r[i] = t[i - m] /\ i > m
  BY <1>1, <1>2
<1>4. /\ \A i \in 1 .. m : s[i] \in Elems(s)
      /\ \A i \in 1 .. n : t[i] \in Elems(t)
  BY <1>2 DEF Elems
<1>5. /\ \A i, j \in 1 .. m : s[i] = s[j] => i = j
      /\ \A i, j \in 1 .. n : t[i] = t[j] => i = j
      /\ \A i, j \in 1 .. m : \A c \in Conns : s[i] = CE(c) /\ s[j] = CD(c) => i < j
      /\ \A i, j \in 1 .. n : \A c \in Conns : t[i] = CE(c) /\ t[j] = CD(c) => i < j
  BY <1>2 DEF InOrder
<1>6. ASSUME NEW i \in 1 .. m + n, NEW j \in 1 .. m + n, r[i] = r[j]
      PROVE  i = j
  <2>1. ~(i \in 1 .. m /\ r[i] = s[i] /\ j - m \in 1 .. n /\ r[j] = t[j - m])
    BY <1>4, <1>6
  <2>2. ~(j \in 1 .. m /\ r[j] = s[j] /\ i - m \in 1 .. n /\ r[i] = t[i - m])
    BY <1>4, <1>6
  <2>3. CASE i \in 1 .. m /\ r[i] = s[i]
    BY <1>3, <1>5, <1>6, <2>1, <2>3
  <2>4. CASE i - m \in 1 .. n /\ r[i] = t[i - m]
    <3>1. j - m \in 1 .. n /\ r[j] = t[j - m]
      BY <1>3, <2>2, <2>4
    <3>2. i - m = j - m
      BY <1>5, <1>6, <2>4, <3>1
    <3> QED
      BY <1>2, <3>2
  <2> QED
    BY <1>3, <2>3, <2>4
<1>7. ASSUME NEW i \in 1 .. m + n, NEW j \in 1 .. m + n, NEW c \in Conns,
             r[i] = CE(c), r[j] = CD(c)
      PROVE  i < j
  <2>1. CASE i \in 1 .. m /\ r[i] = s[i]
    <3>1. CASE j \in 1 .. m /\ r[j] = s[j]
      BY <1>5, <1>7, <2>1, <3>1
    <3>2. CASE j > m
      BY <1>2, <2>1, <3>2
    <3> QED
      BY <1>3, <3>1, <3>2
  <2>2. CASE i - m \in 1 .. n /\ r[i] = t[i - m]
    <3>1. j - m \in 1 .. n /\ r[j] = t[j - m]
      BY <1>3, <1>4, <1>7, <2>2
    <3>2. i - m < j - m
      BY <1>5, <1>7, <2>2, <3>1
    <3> QED
      BY <1>2, <3>2
  <2> QED
    BY <1>3, <2>1, <2>2
<1> QED
  BY <1>2, <1>6, <1>7 DEF InOrder, r

-----------------------------------------------------------------------------
(* What the loops' queues, p, and batches, q, hold after each kind of step.*)
Queues == [Loops -> Seq(FunctorType)]

LEMMA Filling ==
  ASSUME NEW p \in Queues, NEW q \in Queues
  PROVE  \A l \in Loops : /\ p[l] \in Seq(FunctorType) /\ q[l] \in Seq(FunctorType)
                          /\ WaitingIn(p, q)[l] = Elems(q[l]) \cup Elems(p[l])
                          /\ WaitingIn(p, q)[l] = Elems(Line(p, q, l))
                          /\ WaitingIn(p, q)[l] \subseteq FunctorType
  BY ElemsConcat, ElemsType DEF Queues, WaitingIn, Line

(* A functor is queued.                                                    *)
LEMMA Filled ==
  ASSUME NEW p \in Queues, NEW q \in Queues, NEW l \in Loops, NEW f \in FunctorType,
         NEW p2 \in Queues, p2[l] = Append(p[l], f), \A k \in Loops \ {l} : p2[k] = p[k]
  PROVE  /\ WaitingIn(p2, q)[l] = WaitingIn(p, q)[l] \cup {f}
         /\ \A k \in Loops \ {l} : WaitingIn(p2, q)[k] = WaitingIn(p, q)[k]
         /\ \/ ~OrderedIn(p, q) \/ f \in WaitingIn(p, q)[l] \/ OrderedIn(p2, q)
            \/ \E c \in Conns : f = CE(c) /\ CD(c) \in WaitingIn(p, q)[l]
<1>1. p2 \in Queues /\ p2[l] = Append(p[l], f) /\ \A k \in Loops \ {l} : p2[k] = p[k]
  OBVIOUS
<1>2. Elems(p2[l]) = Elems(p[l]) \cup {f}
  <2>1. p[l] \in Seq(FunctorType)
    BY Filling
  <2>2. <<f>> \in Seq(FunctorType) /\ Elems(<<f>>) = {f} /\ p2[l] = p[l] \o <<f>>
    BY <1>1, <2>1, ElemsAppend
  <2>3. \A s, t \in Seq(FunctorType) : Elems(s \o t) = Elems(s) \cup Elems(t)
    BY ElemsConcat
  <2> QED
    BY ONLY <2>1, <2>2, <2>3
<1>3. /\ WaitingIn(p2, q)[l] = WaitingIn(p, q)[l] \cup {f}
      /\ \A k \in Loops \ {l} : WaitingIn(p2, q)[k] = WaitingIn(p, q)[k]
  BY <1>1, <1>2 DEF WaitingIn
<1>4. ASSUME OrderedIn(p, q), f \notin WaitingIn(p, q)[l],
             \A c \in Conns : f = CE(c) => CD(c) \notin WaitingIn(p, q)[l]
      PROVE  OrderedIn(p2, q)
  <2>1. \A k \in Loops \ {l} : Line(p2, q, k) = Line(p, q, k)
    BY <1>1 DEF Line
  <2>2. /\ <<f>> \in Seq(FunctorType) /\ Elems(<<f>>) = {f}
        /\ p2[l] = p[l] \o <<f>>
        /\ p[l] \in Seq(FunctorType) /\ q[l] \in Seq(FunctorType)
    BY <1>1, Filling, ElemsAppend
  <2>3. Line(p2, q, l) = Line(p, q, l) \o <<f>> /\ Line(p, q, l) \in Seq(FunctorType)
    <3>1. q[l] \o (p[l] \o <<f>>) = (q[l] \o p[l]) \o <<f>>
      <4>1. \A s, t, u \in Seq(FunctorType) : (s \o t) \o u = s \o (t \o u)
        BY ConcatAssociative
      <4> QED
        BY ONLY <2>2, <4>1
    <3>2. q[l] \o p[l] \in Seq(FunctorType)
      BY <2>2, ConcatProperties
    <3> QED
      BY ONLY <2>2, <3>1, <3>2 DEF Line
  <2>4. InOrder(<<f>>)
    <3>1. DOMAIN <<f>> = {1} /\ <<f>>[1] = f
      OBVIOUS
    <3> QED
      BY <3>1, FunctorFacts DEF InOrder
  <2>5. InOrder(Line(p, q, l)) /\ Elems(Line(p, q, l)) = WaitingIn(p, q)[l]
    BY <1>4, Filling DEF OrderedIn
  <2> DEFINE s == Line(p, q, l)
  <2>6. /\ s \in Seq(FunctorType) /\ InOrder(s) /\ Elems(s) \cap Elems(<<f>>) = {}
        /\ \A c \in Conns : CE(c) \in Elems(<<f>>) => CD(c) \notin Elems(s)
    BY <1>4, <2>2, <2>3, <2>5
  <2> HIDE DEF s
  <2>7. InOrder(s \o <<f>>)
    BY <2>2, <2>4, <2>6, InOrderConcat
  <2> QED
    BY <1>4, <2>1, <2>3, <2>7 DEF OrderedIn, s
<1> QED
  BY <1>1, <1>3, <1>4

(* A loop takes the first functor of its batch.                            *)
LEMMA HeadTailOfLine ==
  ASSUME NEW S, NEW s \in Seq(S), NEW t \in Seq(S), s # <<>>
  PROVE  /\ s \o t # <<>> /\ Head(s \o t) = Head(s) /\ Tail(s \o t) = Tail(s) \o t
<1> DEFINE m == Len(s)
           n == Len(t)
           r == s \o t
           u == Tail(s)
           v == u \o t
           w == Tail(r)
<1>1. /\ r \in Seq(S) /\ Len(r) = m + n
      /\ \A i \in 1 .. m + n : r[i] = IF i <= m THEN s[i] ELSE t[i - m]
  BY ConcatProperties
<1>2. m \in Nat \ {0} /\ n \in Nat
  BY LenProperties, EmptySeq
<1>3. /\ u \in Seq(S) /\ Len(u) = m - 1 /\ Head(s) = s[1]
      /\ \A i \in 1 .. m - 1 : u[i] = s[i + 1]
  BY HeadTailProperties
<1>4. r # <<>>
  BY <1>1, <1>2, EmptySeq
<1>5. /\ w \in Seq(S) /\ Len(w) = m + n - 1 /\ Head(r) = r[1]
      /\ \A i \in 1 .. m + n - 1 : w[i] = r[i + 1]
  BY <1>1, <1>2, <1>4, HeadTailProperties
<1>6. /\ v \in Seq(S) /\ Len(v) = m - 1 + n
      /\ \A i \in 1 .. m - 1 + n : v[i] = IF i <= m - 1 THEN u[i] ELSE t[i - (m - 1)]
  BY <1>3, ConcatProperties
<1> HIDE DEF m, n, r, u, v, w
<1>7. r[1] = s[1]
  BY <1>1, <1>2
<1>8. ASSUME NEW i \in 1 .. m + n - 1 PROVE w[i] = v[i]
  <2>1. /\ w[i] = IF i + 1 <= m THEN s[i + 1] ELSE t[i + 1 - m]
        /\ v[i] = IF i <= m - 1 THEN u[i] ELSE t[i - (m - 1)]
    BY <1>1, <1>2, <1>5, <1>6
  <2>2. i + 1 - m = i - (m - 1) /\ (i + 1 <= m <=> i <= m - 1)
    BY <1>2
  <2> QED
    BY <1>2, <1>3, <2>1, <2>2
<1>9. Len(w) = Len(v)
  BY <1>2, <1>5, <1>6
<1>10. w = v
  BY <1>5, <1>6, <1>8, <1>9, SeqEqual
<1> QED
  BY <1>3, <1>4, <1>5, <1>7, <1>10 DEF r, w, v, u

LEMMA Taken ==
  ASSUME NEW p \in Queues, NEW q \in Queues, NEW l \in Loops, q[l] # <<>>,
         NEW q2 \in Queues, q2[l] = Tail(q[l]), \A k \in Loops \ {l} : q2[k] = q[k]
  PROVE  /\ Head(q[l]) \in WaitingIn(p, q)[l]
         /\ \A k \in Loops \ {l} : WaitingIn(p, q2)[k] = WaitingIn(p, q)[k]
         /\ WaitingIn(p, q2)[l] \subseteq WaitingIn(p, q)[l]
         /\ OrderedIn(p, q) =>
              /\ OrderedIn(p, q2)
              /\ WaitingIn(p, q2)[l] = WaitingIn(p, q)[l] \ {Head(q[l])}
              /\ \A c \in Conns : Head(q[l]) = CD(c) => CE(c) \notin WaitingIn(p, q)[l]
<1>1. /\ q[l] \in Seq(FunctorType) /\ p[l] \in Seq(FunctorType)
      /\ Elems(q[l]) = {Head(q[l])} \cup Elems(Tail(q[l])) /\ Tail(q[l]) \in Seq(FunctorType)
  BY Filling, ElemsTail
<1>2. q2 \in Queues /\ q2[l] = Tail(q[l]) /\ \A k \in Loops \ {l} : q2[k] = q[k]
  OBVIOUS
<1>3. \A k \in Loops \ {l} : WaitingIn(p, q2)[k] = WaitingIn(p, q)[k]
  BY <1>2 DEF WaitingIn
<1>4. WaitingIn(p, q2)[l] \subseteq WaitingIn(p, q)[l]
  BY <1>1, <1>2 DEF WaitingIn
<1>5. Head(q[l]) \in WaitingIn(p, q)[l]
  <2>1. WaitingIn(p, q)[l] = Elems(q[l]) \cup Elems(p[l])
    BY Filling
  <2> QED
    BY <1>1, <2>1
<1>6. ASSUME OrderedIn(p, q)
      PROVE  /\ OrderedIn(p, q2)
             /\ WaitingIn(p, q2)[l] = WaitingIn(p, q)[l] \ {Head(q[l])}
             /\ \A c \in Conns : Head(q[l]) = CD(c) => CE(c) \notin WaitingIn(p, q)[l]
  <2> DEFINE s == Line(p, q, l)
             t == Line(p, q2, l)
  <2>1. s \in Seq(FunctorType) /\ s # <<>> /\ InOrder(s) /\ Head(s) = Head(q[l]) /\ Tail(s) = t
    <3>1. s = q[l] \o p[l] /\ t = Tail(q[l]) \o p[l]
      BY <1>2 DEF Line
    <3>2. /\ q[l] \o p[l] # <<>> /\ Head(q[l] \o p[l]) = Head(q[l])
          /\ Tail(q[l] \o p[l]) = Tail(q[l]) \o p[l]
      BY <1>1, HeadTailOfLine
    <3>3. q[l] \o p[l] \in Seq(FunctorType)
      BY <1>1, ConcatProperties
    <3>4. InOrder(s)
      BY <1>6 DEF OrderedIn
    <3> QED
      BY ONLY <3>1, <3>2, <3>3, <3>4
  <2>2. WaitingIn(p, q)[l] = Elems(s) /\ WaitingIn(p, q2)[l] = Elems(t)
    BY <1>2, Filling
  <2> HIDE DEF s, t
  <2>3. /\ InOrder(t) /\ Head(s) \notin Elems(t) /\ Elems(s) = {Head(s)} \cup Elems(t)
        /\ \A c \in Conns : Head(s) = CD(c) => CE(c) \notin Elems(t)
    BY <2>1, InOrderTail, ElemsTail
  <2>4. OrderedIn(p, q2)
    BY <1>2, <1>6, <2>3 DEF OrderedIn, Line, t
  <2>5. WaitingIn(p, q2)[l] = WaitingIn(p, q)[l] \ {Head(q[l])}
    BY <2>1, <2>2, <2>3
  <2>6. \A c \in Conns : Head(q[l]) = CD(c) => CE(c) \notin WaitingIn(p, q)[l]
    BY <2>1, <2>2, <2>3, FunctorFacts
  <2> QED
    BY <2>4, <2>5, <2>6
<1> QED
  BY <1>5, <1>6, <1>3, <1>4

(* A loop whose batch is done takes its queue, or drops it.                *)
LEMMA Swapped ==
  ASSUME NEW p \in Queues, NEW q \in Queues, NEW l \in Loops, q[l] = <<>>,
         NEW p2 \in Queues, NEW q2 \in Queues, p2[l] = <<>>, q2[l] = p[l],
         \A k \in Loops \ {l} : p2[k] = p[k] /\ q2[k] = q[k]
  PROVE  /\ WaitingIn(p2, q2) = WaitingIn(p, q)
         /\ OrderedIn(p, q) => OrderedIn(p2, q2)
<1>1. /\ p[l] \in Seq(FunctorType) /\ <<>> \in Seq(FunctorType)
      /\ <<>> \o p[l] = p[l] /\ p[l] \o <<>> = p[l]
  BY Filling, ConcatEmptySeq, EmptySeq
<1>2. /\ p2 \in Queues /\ q2 \in Queues /\ p2[l] = <<>> /\ q2[l] = p[l]
      /\ \A k \in Loops \ {l} : p2[k] = p[k] /\ q2[k] = q[k]
  OBVIOUS
<1>3. \A k \in Loops : Line(p2, q2, k) = Line(p, q, k)
  BY <1>1, <1>2 DEF Line
<1>4. \A k \in Loops : WaitingIn(p2, q2)[k] = WaitingIn(p, q)[k]
  <2>1. \A k \in Loops : WaitingIn(p, q)[k] = Elems(Line(p, q, k))
    BY Filling
  <2>2. \A k \in Loops : WaitingIn(p2, q2)[k] = Elems(Line(p2, q2, k))
    BY <1>2, Filling
  <2> QED
    BY <1>3, <2>1, <2>2
<1> QED
  BY <1>2, <1>3, <1>4 DEF OrderedIn, WaitingIn

LEMMA Dropped ==
  ASSUME NEW p \in Queues, NEW q \in Queues, NEW l \in Loops, q[l] = <<>>,
         NEW p2 \in Queues, p2[l] = <<>>, \A k \in Loops \ {l} : p2[k] = p[k]
  PROVE  /\ WaitingIn(p2, q)[l] = {}
         /\ \A k \in Loops \ {l} : WaitingIn(p2, q)[k] = WaitingIn(p, q)[k]
         /\ OrderedIn(p, q) => OrderedIn(p2, q)
<1>1. <<>> \in Seq(FunctorType) /\ <<>> \o <<>> = <<>>
  BY ConcatEmptySeq, EmptySeq
<1>2. /\ p2 \in Queues /\ p2[l] = <<>> /\ \A k \in Loops \ {l} : p2[k] = p[k]
  BY <1>1 DEF Queues
<1>3. WaitingIn(p2, q)[l] = {}
  BY <1>2, ElemsEmpty DEF WaitingIn
<1>4. \A k \in Loops \ {l} : WaitingIn(p2, q)[k] = WaitingIn(p, q)[k]
  BY <1>2 DEF WaitingIn
<1>5. InOrder(Line(p2, q, l)) /\ \A k \in Loops \ {l} : Line(p2, q, k) = Line(p, q, k)
  BY <1>1, <1>2, ElemsEmpty DEF Line
<1> QED
  BY <1>2, <1>3, <1>4, <1>5 DEF OrderedIn, WaitingIn

(* ~TcpServer destroys every connection of a set once.                     *)
LEMMA Enumeration ==
  ASSUME NEW S, IsFiniteSet(S)
  PROVE  /\ SetToSeq(S) \in [1 .. Cardinality(S) -> S] /\ Cardinality(S) \in Nat
         /\ \A i, j \in 1 .. Cardinality(S) : SetToSeq(S)[i] = SetToSeq(S)[j] => i = j
         /\ \A x \in S : \E i \in 1 .. Cardinality(S) : SetToSeq(S)[i] = x
<1> DEFINE n == Cardinality(S)
           f == SetToSeq(S)
<1>1. n \in Nat /\ ExistsBijection(1 .. n, S)
  BY FS_CardinalityType
<1>2. \E g \in [1 .. n -> S] : IsInjective(g)
  BY <1>1 DEF ExistsBijection, Bijection, Injection
<1>3. f \in [1 .. n -> S] /\ IsInjective(f)
  BY <1>2 DEF SetToSeq
<1>4. IsFiniteSet(1 .. n) /\ Cardinality(1 .. n) = n
  <2>1. Cardinality(1 .. n) = IF 1 > n THEN 0 ELSE n - 1 + 1
    BY <1>1, FS_Interval
  <2> QED
    BY <1>1, <2>1, FS_Interval
<1>5. f \in Surjection(1 .. n, S)
  <2>1. f \in Injection(1 .. n, S)
    BY <1>3 DEF Injection
  <2> QED
    BY <1>4, <2>1, FS_Injection
<1> QED
  BY <1>1, <1>3, <1>5 DEF IsInjective, Surjection

LEMMA DestroyAllFacts ==
  ASSUME NEW S, S \subseteq Conns
  PROVE  /\ DestroyAll(S) \in Seq(FunctorType)
         /\ Elems(DestroyAll(S)) = {CD(c) : c \in S}
         /\ InOrder(DestroyAll(S))
<1> DEFINE n == Cardinality(S)
           f == SetToSeq(S)
           d == DestroyAll(S)
<1>1. IsFiniteSet(S)
  BY LoopFacts, FS_Subset
<1>2. /\ f \in [1 .. n -> S] /\ n \in Nat
      /\ \A i, j \in 1 .. n : f[i] = f[j] => i = j
      /\ \A x \in S : \E i \in 1 .. n : f[i] = x
  BY <1>1, Enumeration
<1>3. d = [i \in 1 .. n |-> CD(f[i])]
  BY DEF DestroyAll, CD
<1> HIDE DEF n, f, d
<1>4. d \in [1 .. n -> FunctorType]
  BY <1>2, <1>3, FunctorFacts
<1>5. d \in Seq(FunctorType)
  BY <1>2, <1>4, SeqDef
<1>6. DOMAIN d = 1 .. n /\ \A i \in 1 .. n : d[i] = CD(f[i]) /\ f[i] \in S
  BY <1>2, <1>3
<1>7. Elems(d) = {CD(c) : c \in S}
  BY <1>2, <1>6 DEF Elems
<1>8. InOrder(d)
  <2>1. \A i, j \in 1 .. n : d[i] = d[j] => i = j
    BY <1>2, <1>6, FunctorFacts
  <2>2. \A i \in 1 .. n : \A c \in Conns : d[i] # CE(c)
    BY <1>6, FunctorFacts
  <2> QED
    BY <1>6, <2>1, <2>2 DEF InOrder
<1> QED
  BY <1>5, <1>7, <1>8 DEF d

LEMMA AllDestroyed ==
  ASSUME NEW p \in Queues, NEW q \in Queues, NEW D \in [Loops -> SUBSET Conns], NEW p2 \in Queues,
         \A l \in Loops : p2[l] = IF l = Base THEN p[l] ELSE p[l] \o DestroyAll(D[l])
  PROVE  /\ \A l \in Loops : \A f :
              f \in WaitingIn(p2, q)[l] <=>
                f \in WaitingIn(p, q)[l] \/ (l # Base /\ \E c \in D[l] : f = CD(c))
         /\ OrderedIn(p, q)
              /\ (\A l \in Loops \ {Base} : \A c \in D[l] : CD(c) \notin WaitingIn(p, q)[l])
                => OrderedIn(p2, q)
<1> DEFINE d(l) == DestroyAll(D[l])
<1>1. ASSUME NEW l \in Loops
      PROVE  d(l) \in Seq(FunctorType) /\ Elems(d(l)) = {CD(c) : c \in D[l]} /\ InOrder(d(l))
  BY DestroyAllFacts
<1> HIDE DEF d
<1>2. ASSUME NEW l \in Loops
      PROVE  /\ p[l] \in Seq(FunctorType) /\ q[l] \in Seq(FunctorType)
             /\ p2[l] = IF l = Base THEN p[l] ELSE p[l] \o d(l)
  BY Filling DEF d
<1>3. \A s, t \in Seq(FunctorType) :
        s \o t \in Seq(FunctorType) /\ Elems(s \o t) = Elems(s) \cup Elems(t)
  BY ElemsConcat, ConcatProperties
<1>4. ASSUME NEW l \in Loops
      PROVE  WaitingIn(p2, q)[l] = IF l = Base THEN WaitingIn(p, q)[l]
                                   ELSE WaitingIn(p, q)[l] \cup {CD(c) : c \in D[l]}
  <2>1. Elems(p2[l]) = IF l = Base THEN Elems(p[l]) ELSE Elems(p[l]) \cup Elems(d(l))
    BY ONLY <1>1, <1>2, <1>3, l \in Loops
  <2>2. /\ WaitingIn(p2, q)[l] = Elems(q[l]) \cup Elems(p2[l])
        /\ WaitingIn(p, q)[l] = Elems(q[l]) \cup Elems(p[l])
    BY DEF WaitingIn
  <2> QED
    BY <1>1, <2>1, <2>2
<1>5. ASSUME OrderedIn(p, q),
             \A l \in Loops \ {Base} : \A c \in D[l] : CD(c) \notin WaitingIn(p, q)[l]
      PROVE  OrderedIn(p2, q)
  <2>1. InOrder(Line(p2, q, Base))
    BY <1>2, <1>5, LoopFacts DEF OrderedIn, Line
  <2>2. ASSUME NEW l \in Loops \ {Base} PROVE InOrder(Line(p2, q, l))
    <3> DEFINE s == Line(p, q, l)
               t == d(l)
    <3>0. /\ p[l] \in Seq(FunctorType) /\ q[l] \in Seq(FunctorType) /\ p2[l] = p[l] \o t
          /\ t \in Seq(FunctorType) /\ InOrder(t) /\ Elems(t) = {CD(c) : c \in D[l]}
      BY <1>1, <1>2
    <3> HIDE DEF t
    <3>1. s \in Seq(FunctorType)
      <4>1. s = q[l] \o p[l]
        BY DEF Line
      <4> QED
        BY ONLY <1>3, <3>0, <4>1
    <3>2. Line(p2, q, l) = s \o t
      <4>1. \A r, u, v \in Seq(FunctorType) : (r \o u) \o v = r \o (u \o v)
        BY ConcatAssociative
      <4>2. Line(p2, q, l) = q[l] \o p2[l] /\ s = q[l] \o p[l]
        BY DEF Line
      <4> QED
        <5>1. p[l] \in Seq(FunctorType) /\ q[l] \in Seq(FunctorType) /\ t \in Seq(FunctorType)
          BY <3>0
        <5>2. q[l] \o (p[l] \o t) = (q[l] \o p[l]) \o t
          BY ONLY <4>1, <5>1
        <5>3. p2[l] = p[l] \o t
          BY <3>0
        <5> QED
          BY ONLY <4>2, <5>2, <5>3
    <3>3. InOrder(s) /\ Elems(s) = WaitingIn(p, q)[l]
      BY <1>5, Filling DEF OrderedIn
    <3> HIDE DEF s
    <3>4. Elems(s) \cap Elems(t) = {}
      BY <1>5, <3>0, <3>3
    <3>5. \A c \in Conns : CE(c) \notin Elems(t)
      BY <3>0, FunctorFacts
    <3>6. InOrder(s \o t)
      BY <3>0, <3>1, <3>3, <3>4, <3>5, InOrderConcat
    <3> QED
      BY <3>2, <3>6
  <2> QED
    BY <2>1, <2>2 DEF OrderedIn
<1>6. ASSUME NEW l \in Loops, NEW f
      PROVE  f \in WaitingIn(p2, q)[l] <=>
               f \in WaitingIn(p, q)[l] \/ (l # Base /\ \E c \in D[l] : f = CD(c))
  <2> DEFINE d0 == {CD(c) : c \in D[l]}
  <2>1. f \in d0 <=> \E c \in D[l] : f = CD(c)
    OBVIOUS
  <2>2. WaitingIn(p2, q)[l] = IF l = Base THEN WaitingIn(p, q)[l] ELSE WaitingIn(p, q)[l] \cup d0
    BY <1>4
  <2> HIDE DEF d0
  <2> QED
    BY <2>1, <2>2
<1> QED
  BY <1>5, <1>6

-----------------------------------------------------------------------------
(* What the invariant says of a state.                                     *)
LEMMA WaitingFacts ==
  ASSUME TypeOK
  PROVE  /\ pendingFunctors_ \in Queues /\ functors \in Queues
         /\ \A l \in Loops : Waiting[l] \subseteq FunctorType
         /\ \A l \in Loops : \A f : Queued(l, f) <=> f \in Waiting[l]
         /\ \A c : Alive(c) <=> c \in connections_ \/ \E l \in Loops : \E f \in Waiting[l] : f.conn = c
<1>1. pendingFunctors_ \in Queues /\ functors \in Queues
  BY DEF TypeOK, Queues
<1>2. \A l \in Loops : \A f : Queued(l, f) <=> f \in Waiting[l]
  BY DEF Queued, Waiting, WaitingIn, Elems
<1>3. ASSUME NEW c
      PROVE  Alive(c) <=> c \in connections_ \/ \E l \in Loops : \E f \in Waiting[l] : f.conn = c
  <2>1. \A l \in Loops : \A f \in Waiting[l] :
          \E q \in {pendingFunctors_, functors} : \E i \in DOMAIN q[l] : q[l][i] = f
    BY DEF Waiting, WaitingIn, Elems
  <2>2. \A l \in Loops : \A q \in {pendingFunctors_, functors} : \A i \in DOMAIN q[l] :
          q[l][i] \in Waiting[l]
    BY DEF Waiting, WaitingIn, Elems
  <2> QED
    BY <2>1, <2>2 DEF Alive
<1>4. \A l \in Loops : Waiting[l] \subseteq FunctorType
  <2>1. \A l \in Loops : WaitingIn(pendingFunctors_, functors)[l] \subseteq FunctorType
    BY <1>1, Filling
  <2> QED
    BY <2>1 DEF Waiting
<1> QED
  BY <1>1, <1>2, <1>3, <1>4

LEMMA KnownConns == TypeOK => Known \subseteq Conns /\ nextConnId_ \in Nat \ {0} /\ arrived \in Nat
  BY ServerAssumption DEF ServerAssumption, TypeOK, Known, Conns

(* The first functor of a batch.                                           *)
LEMMA FirstWaits ==
  ASSUME TypeOK, NEW l \in Loops, functors[l] # <<>>
  PROVE  LET f == Head(functors[l])
         IN  /\ f \in Waiting[l] /\ f \in FunctorType
             /\ Ordered => \A c \in Conns : f = CD(c) => CE(c) \notin Waiting[l]
<1> DEFINE p == pendingFunctors_
           q == functors
           q2 == [functors EXCEPT ![l] = Tail(@)]
<1>1. p \in Queues /\ q \in Queues /\ \A k \in Loops : Waiting[k] \subseteq FunctorType
  BY WaitingFacts
<1>2. /\ q2 \in Queues /\ q2[l] = Tail(q[l]) /\ \A k \in Loops \ {l} : q2[k] = q[k]
      /\ q[l] # <<>>
  BY <1>1, Filling, ElemsTail DEF Queues
<1>3. /\ Head(q[l]) \in WaitingIn(p, q)[l]
      /\ OrderedIn(p, q) =>
           \A c \in Conns : Head(q[l]) = CD(c) => CE(c) \notin WaitingIn(p, q)[l]
  <2> HIDE DEF p, q, q2
  <2> QED
    BY <1>1, <1>2, Taken
<1> QED
  BY <1>1, <1>3 DEF Waiting, Ordered

LEMMA HeadFacts ==
  ASSUME TypeOK, Placed, NEW l \in Loops, functors[l] # <<>>
  PROVE  LET f == Head(functors[l])
         IN  /\ f \in Waiting[l] /\ f \in FunctorType
             /\ f.op = "listen" => f = Listen /\ l = Base
             /\ f.op # "listen" => f.conn \in Known /\ f.conn \in Conns
             /\ f.op = "connectEstablished" => f = CE(f.conn) /\ l = loop_[f.conn] /\ l # Base
             /\ f.op = "connectDestroyed" => f = CD(f.conn) /\ l = loop_[f.conn]
             /\ f.op = "forceCloseInLoop" => f = FC(f.conn) /\ l = loop_[f.conn]
             /\ f.op = "removeConnectionInLoop" => f = RC(f.conn) /\ l = Base /\ loop_[f.conn] # Base
<1> DEFINE f == Head(functors[l])
<1>1. f \in Waiting[l] /\ f \in FunctorType
  BY FirstWaits
<1>2. AtPlace(l, f)
  BY <1>1 DEF Placed
<1> HIDE DEF f
<1>3. /\ f.op = "listen" => f = Listen /\ l = Base
      /\ f.op # "listen" => f.conn \in Known
      /\ f.op = "connectEstablished" => f = CE(f.conn) /\ l = loop_[f.conn] /\ l # Base
      /\ f.op = "connectDestroyed" => f = CD(f.conn) /\ l = loop_[f.conn]
      /\ f.op = "forceCloseInLoop" => f = FC(f.conn) /\ l = loop_[f.conn]
      /\ f.op = "removeConnectionInLoop" => f = RC(f.conn) /\ l = Base /\ loop_[f.conn] # Base
  BY <1>2 DEF AtPlace, CE, RC, CD, FC, Listen, Functor
<1> QED
  BY <1>1, <1>3, KnownConns DEF f

(* connectDestroyed finds the channel.                                     *)
LEMMA HeadReady ==
  ASSUME TypeOK, Placed, Ordered, Lives, NEW l \in Loops, functors[l] # <<>>
  PROVE  LET f == Head(functors[l])
         IN  /\ f \in Waiting[l] /\ f \in FunctorType
             /\ f.op = "connectDestroyed" =>
                  /\ f = CD(f.conn) /\ f.conn \in Known /\ f.conn \in Conns /\ l = loop_[f.conn]
                  /\ f.conn \in inPoller /\ CE(f.conn) \notin Waiting[l]
<1> DEFINE f == Head(functors[l])
<1>1. /\ f \in Waiting[l] /\ f \in FunctorType
      /\ \A c \in Conns : f = CD(c) => CE(c) \notin Waiting[l]
  BY FirstWaits
<1>2. ASSUME f.op = "connectDestroyed"
      PROVE  f = CD(f.conn) /\ f.conn \in Known /\ f.conn \in Conns /\ l = loop_[f.conn]
  BY <1>2, HeadFacts
<1>3. f.op = "connectDestroyed" => f.conn \in inPoller
  BY <1>1, <1>2 DEF Lives, Life
<1> QED
  BY <1>1, <1>2, <1>3

LEMMA Destroyable ==
  ASSUME TypeOK, Placed, Ordered, Lives
  PROVE  RemovedOnce
  BY HeadReady DEF RemovedOnce

LEMMA Clean ==
  ASSUME TypeOK, Lives
  PROVE  GoneCleanly
<1> SUFFICES ASSUME NEW c \in Known, ~Alive(c), ~Ended(loop_[c])
             PROVE  /\ c \notin inPoller
                    /\ stat_[c] = "kDisconnected" \/ (stat_[c] = "kDisconnecting" /\ server # "alive")
  BY DEF GoneCleanly, Known, Ended
<1>1. c \in Conns /\ Life(c) /\ (IF server = "alive" THEN Served(c) ELSE Abandoned(c))
  BY KnownConns DEF Lives
<1>2. /\ stat_[c] \in {"kConnecting", "kConnected", "kDisconnecting", "kDisconnected"}
      /\ loop_[c] \in Loops
  BY <1>1 DEF TypeOK, Life
<1>3. \A f \in {CE(c), CD(c)} : f \in Waiting[loop_[c]] => Alive(c)
  BY <1>1, <1>2, WaitingFacts, FunctorFacts
<1>4. RC(c) \in Waiting[Base] => Alive(c)
  BY <1>1, WaitingFacts, FunctorFacts, LoopFacts
<1>5. c \in connections_ => Alive(c)
  BY DEF Alive
<1>6. CASE server = "alive"
  BY <1>1, <1>2, <1>3, <1>4, <1>5, <1>6 DEF Life, Served, Up
<1>7. CASE server # "alive"
  <2>1. c \notin inPoller /\ stat_[c] # "kConnecting"
    BY <1>1, <1>3, <1>4, <1>7 DEF Abandoned
  <2> QED
    BY <1>1, <1>2, <1>7, <2>1 DEF Life
<1> QED
  BY <1>6, <1>7

LEMMA InFlight ==
  ASSUME TypeOK, Placed, NEW c \in Known
  PROVE  /\ "connectEstablished" \in Ops(c) <=> CE(c) \in Waiting[loop_[c]]
         /\ "connectDestroyed" \in Ops(c) <=> CD(c) \in Waiting[loop_[c]]
         /\ "removeConnectionInLoop" \in Ops(c) <=> RC(c) \in Waiting[Base]
         /\ Ops(c) \subseteq {"connectEstablished", "removeConnectionInLoop", "connectDestroyed"}
<1>1. c \in Conns /\ loop_[c] \in Loops /\ Base \in Loops
  BY KnownConns, LoopFacts DEF TypeOK
<1>2. ASSUME NEW l \in Loops
      PROVE  /\ CE(c) \in Waiting[l] => l = loop_[c]
             /\ CD(c) \in Waiting[l] => l = loop_[c]
             /\ RC(c) \in Waiting[l] => l = Base
  BY <1>1, KnownConns, FunctorFacts DEF Placed, AtPlace
<1>3. \A op \in {"connectEstablished", "removeConnectionInLoop", "connectDestroyed"} :
        op \in Ops(c) <=> \E l \in Loops : Functor(op, c) \in Waiting[l]
  BY WaitingFacts DEF Ops
<1> QED
  BY <1>1, <1>2, <1>3 DEF Ops, CE, CD, RC

LEMMA Accounting ==
  ASSUME TypeOK, Threads, Placed, undefined \/ Lives
  PROVE  Accounted
<1> SUFFICES ASSUME server = "alive", Lives, NEW c \in Known
             PROVE  /\ stat_[c] = "kConnecting" => c \in connections_ /\ Ops(c) = {"connectEstablished"}
                    /\ Up(c) => c \in connections_ /\ Ops(c) = {} /\ c \in inPoller
                    /\ stat_[c] = "kDisconnected" =>
                         Ops(c) = IF c \in connections_ THEN {"removeConnectionInLoop"}
                                  ELSE IF c \in inPoller THEN {"connectDestroyed"} ELSE {}
  BY DEF Accounted, Known
<1>1. Life(c) /\ Served(c) /\ loop_[c] \in Loops
  BY KnownConns DEF Lives, TypeOK
<1>2. stat_[c] = "kConnecting" => CE(c) \in Waiting[loop_[c]]
  BY <1>1 DEF Life, Threads
<1> QED
  BY <1>1, <1>2, InFlight DEF Life, Served, Up

-----------------------------------------------------------------------------
(* What each step does to the queues.                                      *)
LEMMA Left ==
  ASSUME TypeOK, UNCHANGED <<pendingFunctors_, functors>>
  PROVE  /\ pendingFunctors_' \in Queues /\ functors' \in Queues
         /\ Waiting' = Waiting /\ (Ordered => Ordered')
<1>1. pendingFunctors_ \in Queues /\ functors \in Queues
  BY WaitingFacts
<1> QED
  BY <1>1 DEF Waiting, Ordered

LEMMA Queueing ==
  ASSUME TypeOK, NEW l \in Loops, NEW f \in FunctorType, QueueInLoop(l, f), UNCHANGED functors
  PROVE  /\ pendingFunctors_' \in Queues /\ functors' \in Queues
         /\ Waiting'[l] = Waiting[l] \cup {f} /\ \A k \in Loops \ {l} : Waiting'[k] = Waiting[k]
         /\ Ordered /\ f \notin Waiting[l] /\ (\A c \in Conns : f = CE(c) => CD(c) \notin Waiting[l])
              => Ordered'
<1> DEFINE p == pendingFunctors_
           q == functors
           p2 == pendingFunctors_'
           Old == WaitingIn(p, q)
           New == WaitingIn(p2, q)
<1>1. p \in Queues /\ q \in Queues
  BY WaitingFacts
<1>2. p2 \in Queues /\ p2[l] = Append(p[l], f) /\ \A k \in Loops \ {l} : p2[k] = p[k]
  BY <1>1, AppendProperties DEF QueueInLoop, Queues
<1>3. /\ New[l] = Old[l] \cup {f} /\ \A k \in Loops \ {l} : New[k] = Old[k]
      /\ \/ ~OrderedIn(p, q) \/ f \in Old[l] \/ OrderedIn(p2, q)
         \/ \E c \in Conns : f = CE(c) /\ CD(c) \in Old[l]
  <2> HIDE DEF p, q, p2
  <2> QED
    BY ONLY l \in Loops, f \in FunctorType, <1>1, <1>2, Filled
<1>4. Waiting = Old /\ Waiting' = New /\ (Ordered <=> OrderedIn(p, q)) /\ (Ordered' <=> OrderedIn(p2, q))
  BY DEF Waiting, Ordered
<1> HIDE DEF Old, New, p, q
<1> QED
  BY <1>1, <1>2, <1>3, <1>4 DEF p2, q

LEMMA Swapping ==
  ASSUME TypeOK, Threads, NEW l \in Loops, SwapFunctors(l)
  PROVE  /\ pendingFunctors_' \in Queues /\ functors' \in Queues
         /\ Waiting' = Waiting /\ (Ordered => Ordered')
<1> DEFINE p == pendingFunctors_
           q == functors
           p2 == pendingFunctors_'
           q2 == functors'
<1>1. p \in Queues /\ q \in Queues /\ q[l] = <<>>
  BY WaitingFacts DEF SwapFunctors, Threads
<1>2. /\ p2 \in Queues /\ q2 \in Queues /\ p2[l] = <<>> /\ q2[l] = p[l]
      /\ \A k \in Loops \ {l} : p2[k] = p[k] /\ q2[k] = q[k]
  BY <1>1, EmptySeq DEF SwapFunctors, Queues
<1>3. /\ WaitingIn(p2, q2) = WaitingIn(p, q)
      /\ (OrderedIn(p, q) => OrderedIn(p2, q2))
  <2> HIDE DEF p, q, p2, q2
  <2> QED
    BY ONLY l \in Loops, <1>1, <1>2, Swapped
<1> QED
  BY <1>2, <1>3 DEF Waiting, Ordered

LEMMA Dropping ==
  ASSUME TypeOK, NEW l \in Loops, functors[l] = <<>>, UNCHANGED functors,
         pendingFunctors_' = [pendingFunctors_ EXCEPT ![l] = <<>>]
  PROVE  /\ pendingFunctors_' \in Queues /\ functors' \in Queues
         /\ Waiting'[l] = {} /\ \A k \in Loops \ {l} : Waiting'[k] = Waiting[k]
         /\ (Ordered => Ordered')
<1> DEFINE p == pendingFunctors_
           q == functors
           p2 == pendingFunctors_'
<1>1. p \in Queues /\ q \in Queues /\ q[l] = <<>> /\ functors' = q
  BY WaitingFacts
<1>2. p2 \in Queues /\ p2[l] = <<>> /\ \A k \in Loops \ {l} : p2[k] = p[k]
  BY <1>1, EmptySeq DEF Queues
<1>3. /\ WaitingIn(p2, q)[l] = {} /\ \A k \in Loops \ {l} : WaitingIn(p2, q)[k] = WaitingIn(p, q)[k]
      /\ (OrderedIn(p, q) => OrderedIn(p2, q))
  <2> HIDE DEF p, q, p2
  <2> QED
    BY ONLY l \in Loops, <1>1, <1>2, Dropped
<1> QED
  BY <1>1, <1>2, <1>3 DEF Waiting, Ordered

LEMMA Taking ==
  ASSUME TypeOK, NEW l \in Loops, functors[l] # <<>>, UNCHANGED pendingFunctors_,
         functors' = [functors EXCEPT ![l] = Tail(@)]
  PROVE  /\ pendingFunctors_' \in Queues /\ functors' \in Queues
         /\ \A k \in Loops \ {l} : Waiting'[k] = Waiting[k]
         /\ Ordered => Ordered' /\ Waiting'[l] = Waiting[l] \ {Head(functors[l])}
         /\ Waiting'[l] \subseteq Waiting[l]
<1> DEFINE p == pendingFunctors_
           q == functors
           q2 == functors'
<1>1. p \in Queues /\ q \in Queues /\ q[l] # <<>> /\ pendingFunctors_' = p
  BY WaitingFacts
<1>2. q2 \in Queues /\ q2[l] = Tail(q[l]) /\ \A k \in Loops \ {l} : q2[k] = q[k]
  BY <1>1, Filling, ElemsTail DEF Queues
<1>3. /\ \A k \in Loops \ {l} : WaitingIn(p, q2)[k] = WaitingIn(p, q)[k]
      /\ WaitingIn(p, q2)[l] \subseteq WaitingIn(p, q)[l]
      /\ OrderedIn(p, q) =>
           OrderedIn(p, q2) /\ WaitingIn(p, q2)[l] = WaitingIn(p, q)[l] \ {Head(q[l])}
  <2> HIDE DEF p, q, q2
  <2> QED
    BY ONLY l \in Loops, <1>1, <1>2, Taken
<1> QED
  BY <1>1, <1>2, <1>3 DEF Waiting, Ordered

(* A functor of one loop queues one to a loop.                             *)
LEMMA Passing ==
  ASSUME TypeOK, NEW b \in Loops, NEW l \in Loops, NEW f \in FunctorType, functors[b] # <<>>,
         QueueInLoop(l, f), functors' = [functors EXCEPT ![b] = Tail(@)]
  PROVE  /\ pendingFunctors_' \in Queues /\ functors' \in Queues
         /\ \A k \in Loops : \A g \in Waiting'[k] : g \in Waiting[k] \/ (k = l /\ g = f)
         /\ Ordered => \A k \in Loops : \A g :
              g \in Waiting'[k]
                <=> (g \in Waiting[k] /\ ~(k = b /\ g = Head(functors[b]))) \/ (k = l /\ g = f)
         /\ Ordered /\ f \notin Waiting[l] /\ (\A c \in Conns : f = CE(c) => CD(c) \notin Waiting[l])
              => Ordered'
<1> DEFINE p == pendingFunctors_
           q == functors
           p2 == pendingFunctors_'
           q2 == functors'
           Old == WaitingIn(p, q)
           Mid == WaitingIn(p, q2)
           New == WaitingIn(p2, q2)
<1>1. p \in Queues /\ q \in Queues /\ q[b] # <<>> /\ b \in Loops /\ l \in Loops
  BY WaitingFacts
<1>2. q2 \in Queues /\ q2[b] = Tail(q[b]) /\ \A k \in Loops \ {b} : q2[k] = q[k]
  BY <1>1, Filling, ElemsTail DEF Queues
<1>3. p2 \in Queues /\ p2[l] = Append(p[l], f) /\ \A k \in Loops \ {l} : p2[k] = p[k]
  BY <1>1, AppendProperties DEF QueueInLoop, Queues
<1>4. /\ \A k \in Loops \ {b} : Mid[k] = Old[k]
      /\ Mid[b] \subseteq Old[b]
      /\ OrderedIn(p, q) => OrderedIn(p, q2) /\ Mid[b] = Old[b] \ {Head(q[b])}
  <2> HIDE DEF p, q, q2
  <2> QED
    BY ONLY <1>1, <1>2, Taken
<1>5. /\ New[l] = Mid[l] \cup {f} /\ \A k \in Loops \ {l} : New[k] = Mid[k]
      /\ \/ ~OrderedIn(p, q2) \/ f \in Mid[l] \/ OrderedIn(p2, q2)
         \/ \E c \in Conns : f = CE(c) /\ CD(c) \in Mid[l]
  <2> HIDE DEF p, q, p2, q2
  <2> QED
    BY ONLY <1>1, f \in FunctorType, <1>2, <1>3, Filled
<1>6. Waiting = Old /\ Waiting' = New /\ (Ordered <=> OrderedIn(p, q)) /\ (Ordered' <=> OrderedIn(p2, q2))
  BY DEF Waiting, Ordered
<1>7. p2 = pendingFunctors_' /\ q2 = functors' /\ q[b] = functors[b]
  OBVIOUS
<1> HIDE DEF Old, Mid, New, p, q, p2, q2
<1>8. Mid[l] \subseteq Old[l]
  BY <1>1, <1>4
<1>9. \A k \in Loops : \A g \in New[k] : g \in Old[k] \/ (k = l /\ g = f)
  BY <1>4, <1>5
<1>10. OrderedIn(p, q) => \A k \in Loops : \A g :
         g \in New[k] <=> (g \in Old[k] /\ ~(k = b /\ g = Head(q[b]))) \/ (k = l /\ g = f)
  <2> SUFFICES ASSUME OrderedIn(p, q), NEW k \in Loops, NEW g
               PROVE  g \in New[k] <=>
                        (g \in Old[k] /\ ~(k = b /\ g = Head(q[b]))) \/ (k = l /\ g = f)
    OBVIOUS
  <2>1. g \in Mid[k] <=> g \in Old[k] /\ ~(k = b /\ g = Head(q[b]))
    BY <1>4
  <2>2. g \in New[k] <=> g \in Mid[k] \/ (k = l /\ g = f)
    BY <1>5
  <2> QED
    BY <2>1, <2>2
<1>11. OrderedIn(p, q) /\ f \notin Old[l] /\ (\A c \in Conns : f = CE(c) => CD(c) \notin Old[l])
         => OrderedIn(p2, q2)
  BY <1>4, <1>5, <1>8
<1>12. /\ \A k \in Loops : \A g \in Waiting'[k] : g \in Waiting[k] \/ (k = l /\ g = f)
       /\ Ordered => \A k \in Loops : \A g :
            g \in Waiting'[k]
                <=> (g \in Waiting[k] /\ ~(k = b /\ g = Head(functors[b]))) \/ (k = l /\ g = f)
  BY <1>6, <1>7, <1>9, <1>10
<1>13. Ordered /\ f \notin Waiting[l] /\ (\A c \in Conns : f = CE(c) => CD(c) \notin Waiting[l])
         => Ordered'
  BY <1>6, <1>11
<1> QED
  BY <1>2, <1>3, <1>7, <1>12, <1>13

(* The server's destructor queues one to each connection of another loop.  *)
LEMMA Destroying ==
  ASSUME TypeOK, BeginDestroy
  PROVE  /\ pendingFunctors_' \in Queues /\ functors' \in Queues
         /\ \A l \in Loops : \A f :
              f \in Waiting'[l] <=>
                f \in Waiting[l] \/ (l # Base /\ \E c \in DestroyedByServer(l) : f = CD(c))
         /\ Ordered
              /\ (\A l \in Loops \ {Base} : \A c \in DestroyedByServer(l) : CD(c) \notin Waiting[l])
                => Ordered'
<1> DEFINE p == pendingFunctors_
           q == functors
           p2 == pendingFunctors_'
           D == [l \in Loops |-> DestroyedByServer(l)]
<1>1. p \in Queues /\ q \in Queues /\ functors' = q
  BY WaitingFacts DEF BeginDestroy
<1>2. D \in [Loops -> SUBSET Conns] /\ \A l \in Loops : D[l] = DestroyedByServer(l)
  BY DEF DestroyedByServer, TypeOK
<1>3. \A l \in Loops : p2[l] = IF l = Base THEN p[l] ELSE p[l] \o DestroyAll(D[l])
  BY DEF BeginDestroy
<1> HIDE DEF D
<1>4. p2 \in Queues
  <2>1. p2 = [l \in Loops |-> p2[l]]
    BY DEF BeginDestroy
  <2>2. ASSUME NEW l \in Loops PROVE p2[l] \in Seq(FunctorType)
    <3>1. \A s, t \in Seq(FunctorType) : s \o t \in Seq(FunctorType)
      BY ConcatProperties
    <3>2. p[l] \in Seq(FunctorType) /\ DestroyAll(D[l]) \in Seq(FunctorType)
      BY <1>1, <1>2, DestroyAllFacts, Filling
    <3> QED
      BY ONLY <1>3, <3>1, <3>2, l \in Loops
  <2> QED
    BY ONLY <2>1, <2>2 DEF Queues
<1>5. /\ \A l \in Loops : \A f :
           f \in WaitingIn(p2, q)[l] <=>
             f \in WaitingIn(p, q)[l] \/ (l # Base /\ \E c \in D[l] : f = CD(c))
      /\ OrderedIn(p, q)
           /\ (\A l \in Loops \ {Base} : \A c \in D[l] : CD(c) \notin WaitingIn(p, q)[l])
             => OrderedIn(p2, q)
  <2> HIDE DEF p, q, p2
  <2> QED
    BY ONLY <1>1, <1>2, <1>3, <1>4, AllDestroyed
<1> QED
  BY <1>1, <1>2, <1>4, <1>5 DEF Waiting, Ordered

-----------------------------------------------------------------------------
(* Types.                                                                  *)
LEMMA TypeInit == Init => TypeOK
<1>1. <<>> \in Seq(FunctorType)
  BY EmptySeq
<1> QED
  BY <1>1, ServerAssumption
     DEF Init, TypeOK, ServerAssumption, Base, Loops, Conns

LEMMA Accepting ==
  ASSUME TypeOK, NewConnection
  PROVE  /\ nextConnId_ \in Conns /\ nextConnId_ \notin Known
         /\ Known' = Known \cup {nextConnId_}
         /\ NextLoop \in Loops /\ (NextLoop # Base => NextLoop \in 1 .. numThreads_)
         /\ next_' = 0 \/ next_' \in 0 .. numThreads_ - 1
         /\ CE(nextConnId_) \in FunctorType
<1>1. /\ nextConnId_ \in Nat \ {0} /\ arrived \in Nat /\ arrived <= MaxConns
      /\ nextConnId_ <= arrived /\ nextConnId_' = nextConnId_ + 1
      /\ numThreads_ \in Nat /\ numThreads_ <= MaxThreads /\ MaxThreads \in Nat /\ MaxConns \in Nat
      /\ next_ = 0 \/ next_ \in 0 .. numThreads_ - 1
  BY ServerAssumption DEF ServerAssumption, TypeOK, NewConnection, HandleRead
<1>2. nextConnId_ \in Conns /\ nextConnId_ \notin Known /\ Known' = Known \cup {nextConnId_}
  BY <1>1 DEF Conns, Known
<1>3. NextLoop \in Loops /\ (NextLoop # Base => NextLoop \in 1 .. numThreads_)
  BY <1>1 DEF NextLoop, Loops, Base
<1>4. next_' = 0 \/ next_' \in 0 .. numThreads_ - 1
  BY <1>1 DEF NewConnection, NextIndex
<1> QED
  BY <1>2, <1>3, <1>4, FunctorFacts


LEMMA Steps ==
  ASSUME Next
  PROVE  /\ ~undefined
         /\ \/ Start \/ StartElsewhere \/ QuitBase \/ BeginDestroy \/ DestroyBaseLoop
            \/ ClientConnects \/ AcceptFails \/ NewConnection
            \/ RunListen \/ RunRemoveConnectionInLoop
            \/ QuitThread \/ JoinThread \/ EndDestroy
            \/ \E c \in Conns : HandleClose(c) \/ Shutdown(c) \/ ForceClose(c)
            \/ \E l \in Loops : \/ EnterLoop(l) \/ SwapFunctors(l) \/ EndBatch(l)
                                \/ RunConnectEstablished(l) \/ RunForceCloseInLoop(l)
                                \/ RunConnectDestroyed(l)
  BY LoopFacts DEF Next, User, Environment, BaseRound, Destructor, Round, RunFunctor

LEMMA TypeStep ==
  ASSUME TypeOK, Threads, Placed, Next
  PROVE  TypeOK'
<1> USE DEF serverVars, endVars, connVars
<1>1. ASSUME Start PROVE TypeOK'
  <2>1. pendingFunctors_' \in Queues /\ functors' \in Queues
    BY <1>1, Left DEF Start, StartPool
  <2> QED
    BY <1>1, <2>1 DEF TypeOK, Start, StartPool, Queues
<1>2. ASSUME StartElsewhere PROVE TypeOK'
  <2>1. pendingFunctors_' \in Queues /\ functors' \in Queues
    BY <1>2, Queueing, FunctorFacts, LoopFacts DEF StartElsewhere, StartPool, Listen
  <2> QED
    BY <1>2, <2>1 DEF TypeOK, StartElsewhere, StartPool, Queues
<1>3. ASSUME QuitBase PROVE TypeOK'
  BY <1>3 DEF TypeOK, QuitBase
<1>4. ASSUME BeginDestroy PROVE TypeOK'
  <2>1. pendingFunctors_' \in Queues /\ functors' \in Queues
    BY <1>4, Destroying
  <2>2. unsafeEnd' \in BOOLEAN
    BY <1>4 DEF BeginDestroy
  <2> QED
    BY <1>4, <2>1, <2>2 DEF TypeOK, BeginDestroy, Queues
<1>5. ASSUME DestroyBaseLoop PROVE TypeOK'
  <2>1. functors[Base] = <<>>
    BY <1>5, LoopFacts DEF DestroyBaseLoop, Threads
  <2>2. pendingFunctors_' \in Queues /\ functors' \in Queues
    BY <1>5, <2>1, Dropping, LoopFacts DEF DestroyBaseLoop
  <2> QED
    BY <1>5, <2>2 DEF TypeOK, DestroyBaseLoop, Queues
<1>6. ASSUME ClientConnects PROVE TypeOK'
  <2>1. arrived' \in 0 .. MaxConns /\ nextConnId_' \in 1 .. arrived' + 1
    BY <1>6, ServerAssumption DEF ServerAssumption, TypeOK, ClientConnects
  <2> QED
    BY <1>6, <2>1 DEF TypeOK, ClientConnects
<1>7. ASSUME AcceptFails PROVE TypeOK'
  BY <1>7 DEF TypeOK, AcceptFails, ListeningAfterError
<1>8. ASSUME NewConnection PROVE TypeOK'
  <2>1. nextConnId_ \in Conns /\ NextLoop \in Loops /\ CE(nextConnId_) \in FunctorType
        /\ (next_' = 0 \/ next_' \in 0 .. numThreads_ - 1)
    BY <1>8, Accepting
  <2>2. pendingFunctors_' \in Queues /\ functors' \in Queues
    <3>1. CASE NextLoop = Base
      BY <1>8, <3>1, Left DEF NewConnection
    <3>2. CASE NextLoop # Base
      BY <1>8, <2>1, <3>2, Queueing DEF NewConnection, CE
    <3> QED
      BY <3>1, <3>2
  <2>3. nextConnId_' \in 1 .. arrived' + 1 /\ numThreads_' = numThreads_
    BY <1>8, ServerAssumption DEF ServerAssumption, TypeOK, NewConnection, HandleRead
  <2>4. /\ connections_' \subseteq Conns /\ inPoller' \subseteq Conns
        /\ stat_' \in [Conns -> {"none", "kConnecting", "kConnected", "kDisconnecting", "kDisconnected"}]
        /\ loop_' \in [Conns -> Loops]
    BY <1>8, <2>1 DEF TypeOK, NewConnection
  <2> QED
    BY <1>8, <2>1, <2>2, <2>3, <2>4 DEF TypeOK, NewConnection, Queues
<1>9. ASSUME RunListen PROVE TypeOK'
  <2>1. pendingFunctors_' \in Queues /\ functors' \in Queues
    BY <1>9, Taking, LoopFacts DEF RunListen, NextFunctor
  <2>2. undefined' \in BOOLEAN /\ listening' = TRUE
    BY <1>9 DEF RunListen
  <2> QED
    BY <1>9, <2>1, <2>2 DEF TypeOK, RunListen, Queues
<1>10. ASSUME RunRemoveConnectionInLoop PROVE TypeOK'
  <2> DEFINE c == Head(functors[Base]).conn
  <2>1. c \in Conns /\ loop_[c] \in Loops \ {Base} /\ CD(c) \in FunctorType
    BY <1>10, HeadFacts, LoopFacts, FunctorFacts
       DEF RunRemoveConnectionInLoop, NextFunctor, TypeOK
  <2>2. /\ functors[Base] # <<>> /\ QueueInLoop(loop_[c], CD(c))
        /\ functors' = [functors EXCEPT ![Base] = Tail(@)]
    BY <1>10 DEF RunRemoveConnectionInLoop, RemoveConnectionInLoop, NextFunctor, CD
  <2> HIDE DEF c
  <2>3. pendingFunctors_' \in Queues /\ functors' \in Queues
    BY <2>1, <2>2, Passing, LoopFacts
  <2>4. undefined' \in BOOLEAN /\ connections_' \subseteq connections_
    BY <1>10 DEF RunRemoveConnectionInLoop, RemoveConnectionInLoop
  <2> QED
    BY <1>10, <2>3, <2>4 DEF TypeOK, RunRemoveConnectionInLoop, Queues
<1>11. ASSUME QuitThread PROVE TypeOK'
  BY <1>11 DEF TypeOK, QuitThread
<1>12. ASSUME JoinThread PROVE TypeOK'
  <2>1. joining' \in 1 .. MaxThreads + 1
    BY <1>12, ServerAssumption DEF ServerAssumption, TypeOK, JoinThread, Threads
  <2> QED
    BY <1>12, <2>1 DEF TypeOK, JoinThread
<1>13. ASSUME EndDestroy PROVE TypeOK'
  BY <1>13 DEF TypeOK, EndDestroy
<1>c. ASSUME NEW c \in Conns, Close(c), pendingFunctors_' \in Queues, functors' \in Queues
      PROVE  TypeOK'
  <2>1. undefined' \in BOOLEAN /\ connections_' \subseteq connections_
    BY <1>c DEF Close, RemoveConnectionInLoop
  <2>2. stat_' \in [Conns -> {"none", "kConnecting", "kConnected", "kDisconnecting", "kDisconnected"}]
    BY <1>c DEF Close, TypeOK
  <2> QED
    BY <1>c, <2>1, <2>2 DEF TypeOK, Close, Queues
<1>d. ASSUME NEW c \in Conns, Close(c)
      PROVE  /\ loop_[c] \in Loops /\ CD(c) \in FunctorType /\ RC(c) \in FunctorType
             /\ QueueInLoop(loop_[c], CD(c)) \/ QueueInLoop(Base, RC(c))
  BY <1>d, FunctorFacts DEF TypeOK, Close, RemoveConnectionInLoop, CD, RC
<1>14. ASSUME NEW c \in Conns, HandleClose(c) PROVE TypeOK'
  <2>1. Close(c) /\ functors' = functors
    BY <1>14 DEF HandleClose
  <2>2. pendingFunctors_' \in Queues /\ functors' \in Queues
    BY <1>d, <2>1, Queueing, LoopFacts
  <2> QED
    BY <1>c, <2>1, <2>2
<1>15. ASSUME NEW l \in Loops, EnterLoop(l) PROVE TypeOK'
  BY <1>15 DEF TypeOK, EnterLoop
<1>16. ASSUME NEW l \in Loops, SwapFunctors(l) PROVE TypeOK'
  <2>1. pendingFunctors_' \in Queues /\ functors' \in Queues
    BY <1>16, Swapping
  <2> QED
    BY <1>16, <2>1 DEF TypeOK, SwapFunctors, Queues
<1>17. ASSUME NEW l \in Loops, EndBatch(l) PROVE TypeOK'
  <2>1. pendingFunctors_' \in Queues /\ functors' \in Queues
    BY <1>17, Dropping, Left DEF EndBatch
  <2> QED
    BY <1>17, <2>1 DEF TypeOK, EndBatch, Queues
<1>18. ASSUME NEW l \in Loops, RunConnectEstablished(l) PROVE TypeOK'
  <2>1. pendingFunctors_' \in Queues /\ functors' \in Queues
    BY <1>18, Taking DEF RunConnectEstablished, NextFunctor
  <2>2. Head(functors[l]).conn \in Conns
    BY <1>18, HeadFacts DEF RunConnectEstablished, NextFunctor
  <2> QED
    BY <1>18, <2>1, <2>2 DEF TypeOK, RunConnectEstablished, Queues
<1>19. ASSUME NEW l \in Loops, RunConnectDestroyed(l) PROVE TypeOK'
  <2>1. pendingFunctors_' \in Queues /\ functors' \in Queues
    BY <1>19, Taking DEF RunConnectDestroyed, NextFunctor
  <2> QED
    BY <1>19, <2>1 DEF TypeOK, RunConnectDestroyed, Queues
<1>20. ASSUME NEW l \in Loops, RunForceCloseInLoop(l) PROVE TypeOK'
  <2> DEFINE c == Head(functors[l]).conn
  <2>1. c \in Conns
    BY <1>20, HeadFacts DEF RunForceCloseInLoop, NextFunctor
  <2>2. functors[l] # <<>> /\ functors' = [functors EXCEPT ![l] = Tail(@)]
    BY <1>20 DEF RunForceCloseInLoop, NextFunctor
  <2>3. CASE Up(c) /\ Close(c)
    <3> HIDE DEF c
    <3>1. pendingFunctors_' \in Queues /\ functors' \in Queues
      BY <1>d, <2>1, <2>2, <2>3, Passing, LoopFacts
    <3> QED
      BY <1>c, <2>1, <2>3, <3>1
  <2>4. CASE ~(Up(c) /\ Close(c))
    <3>1. UNCHANGED <<serverVars, listening, endVars, connVars, pc, quit_, pendingFunctors_,
                      undefined>>
      BY <1>20, <2>4 DEF RunForceCloseInLoop
    <3>2. pendingFunctors_' \in Queues /\ functors' \in Queues
      BY <2>2, <3>1, Taking
    <3> QED
      BY <3>1, <3>2 DEF TypeOK, Queues
  <2> QED
    BY <2>3, <2>4
<1>21. ASSUME NEW c \in Conns, Shutdown(c) PROVE TypeOK'
  BY <1>21 DEF TypeOK, Shutdown
<1>22. ASSUME NEW c \in Conns, ForceClose(c) PROVE TypeOK'
  <2>1. loop_[c] \in Loops /\ FC(c) \in FunctorType /\ QueueInLoop(loop_[c], FC(c))
        /\ functors' = functors
    BY <1>22, FunctorFacts DEF TypeOK, ForceClose, FC
  <2>2. pendingFunctors_' \in Queues /\ functors' \in Queues
    BY <2>1, Queueing
  <2>3. stat_' \in [Conns -> {"none", "kConnecting", "kConnected", "kDisconnecting", "kDisconnected"}]
    BY <1>22 DEF ForceClose, TypeOK
  <2> QED
    BY <1>22, <2>2, <2>3 DEF TypeOK, ForceClose, Queues
<1> QED
  BY Steps, <1>1, <1>2, <1>3, <1>4, <1>5, <1>6, <1>7, <1>8, <1>9, <1>10, <1>11, <1>12, <1>13,
     <1>14, <1>15, <1>16, <1>17, <1>18, <1>19, <1>20, <1>21, <1>22

-----------------------------------------------------------------------------
(* The threads.                                                            *)
LEMMA ThreadsInit == Init => Threads
<1> SUFFICES ASSUME Init PROVE Threads
  OBVIOUS
<1>1. Waiting[Base] = {} /\ Known = {}
  BY ElemsEmpty, LoopFacts DEF Init, Waiting, WaitingIn, Known
<1> QED
  BY <1>1 DEF Init, Threads, Ended, Base

(* Steps that leave the threads and the queue of the base loop alone.      *)
LEMMA ThreadsKept ==
  ASSUME TypeOK, Threads, ~undefined,
         UNCHANGED <<numThreads_, started_, listening, server, joining, pc, quit_>>,
         \A l \in Loops : functors'[l] # <<>> => functors[l] # <<>>,
         Listen \in Waiting'[Base] => Listen \in Waiting[Base],
         \A c \in Known' : c \in Known /\ loop_'[c] = loop_[c]
  PROVE  Threads'
  BY DEF Threads, Ended

LEMMA ThreadsStep ==
  ASSUME TypeOK, Threads, Placed, Next
  PROVE  Threads'
<1> USE DEF serverVars, endVars, connVars
<1>0. Base \in Loops /\ \A n \in 0 .. MaxThreads : \A l \in 1 .. n : l \in Loops \ {Base}
  BY LoopFacts, ServerAssumption DEF ServerAssumption
<1>a. ASSUME UNCHANGED <<nextConnId_, loop_>> PROVE Known' = Known /\ loop_' = loop_
  BY <1>a DEF Known
<1>b. /\ numThreads_ \in 0 .. MaxThreads /\ joining \in 1 .. MaxThreads + 1
      /\ pc \in [Loops -> {"none", "before", "events", "functors", "returned", "destroyed"}]
      /\ quit_ \in [Loops -> BOOLEAN]
  BY DEF TypeOK
<1>c. ~undefined
  BY DEF Next
<1>1. ASSUME Start PROVE Threads'
  <2>1. Waiting' = Waiting
    BY <1>1, Left DEF Start, StartPool
  <2> QED
    BY <1>1, <1>0, <1>a, <1>b, <2>1 DEF Threads, Ended, Start, StartPool
<1>2. ASSUME StartElsewhere PROVE Threads'
  <2>1. /\ started_' = TRUE /\ ~started_ /\ server = "alive"
        /\ UNCHANGED <<numThreads_, nextConnId_, loop_, server, joining, quit_, functors>>
        /\ pc' = [l \in Loops |-> IF l \in 1 .. numThreads_ THEN "before" ELSE pc[l]]
    BY <1>2 DEF StartElsewhere, StartPool
  <2> QED
    BY <1>0, <1>a, <1>b, <2>1 DEF Threads, Ended
<1>3. ASSUME QuitBase PROVE Threads'
  <2>1. Waiting' = Waiting
    BY <1>3, Left DEF QuitBase
  <2> QED
    BY <1>3, <1>a, <1>b, <2>1 DEF Threads, Ended, QuitBase
<1>4. ASSUME BeginDestroy PROVE Threads'
  <2>1. Listen \in Waiting'[Base] => Listen \in Waiting[Base]
    BY <1>0, <1>4, Destroying
  <2>2. /\ server' = "quitting"
        /\ UNCHANGED <<numThreads_, started_, nextConnId_, listening, joining, loop_, pc, quit_,
                       functors>>
        /\ pc[Base] # "events"
    BY <1>4 DEF BeginDestroy, UserCode
  <2> QED
    BY <1>a, <2>1, <2>2 DEF Threads, Ended
<1>5. ASSUME DestroyBaseLoop PROVE Threads'
  <2>1. functors[Base] = <<>>
    BY <1>0, <1>5 DEF DestroyBaseLoop, Threads
  <2>2. Listen \notin Waiting'[Base]
    BY <1>0, <1>5, <2>1, Dropping DEF DestroyBaseLoop
  <2>3. /\ server = "gone" /\ pc' = [pc EXCEPT ![Base] = "destroyed"]
        /\ UNCHANGED <<numThreads_, started_, nextConnId_, listening, server, joining, loop_,
                       quit_, functors, undefined>>
    BY <1>5 DEF DestroyBaseLoop
  <2>4. \A l \in 1 .. joining - 1 : l \in Loops \ {Base}
    BY <1>b, ServerAssumption DEF ServerAssumption, Loops, Base
  <2>5. \A l \in 1 .. joining' - 1 : pc'[l] = "returned"
    BY <1>b, <2>3, <2>4 DEF Threads
  <2>6. \A l \in Loops : functors'[l] # <<>> => pc'[l] = "functors"
    BY <1>b, <2>1, <2>3 DEF Threads
  <2>7. \A l \in Loops \ {Base} : pc'[l] = pc[l]
    BY <1>b, <2>3
  <2> QED
    BY <1>a, <2>2, <2>3, <2>5, <2>6, <2>7 DEF Threads, Ended
<1>6. ASSUME ClientConnects PROVE Threads'
  BY <1>6, <1>a, Left, ThreadsKept, <1>c DEF ClientConnects
<1>7. ASSUME AcceptFails PROVE Threads'
  BY <1>7, <1>a, Left, ThreadsKept, <1>c DEF AcceptFails, ListeningAfterError
<1>8. ASSUME NewConnection PROVE Threads'
  <2> DEFINE c0 == nextConnId_
  <2>1. /\ c0 \in Conns /\ c0 \notin Known /\ Known' = Known \cup {c0}
        /\ NextLoop \in Loops /\ (NextLoop # Base => NextLoop \in 1 .. numThreads_)
        /\ CE(c0) \in FunctorType
    BY <1>8, Accepting
  <2>2. started_
    BY <1>8 DEF NewConnection, HandleRead, Threads
  <2>3. /\ UNCHANGED <<numThreads_, started_, listening, server, joining, pc, quit_, functors,
                       undefined>>
        /\ loop_' = [loop_ EXCEPT ![c0] = NextLoop]
    BY <1>8 DEF NewConnection
  <2>4. \A c \in Known' : loop_'[c] # Base => loop_'[c] \in 1 .. numThreads_
    BY <2>1, <2>3, KnownConns DEF Threads, TypeOK
  <2> QED
    BY <2>2, <2>3, <2>4 DEF Threads, Ended
<1>9. ASSUME RunListen PROVE Threads'
  <2>1. /\ functors[Base] # <<>> /\ functors' = [functors EXCEPT ![Base] = Tail(@)]
        /\ pc[Base] = "functors" /\ Listen \in Waiting[Base]
        /\ UNCHANGED <<numThreads_, started_, nextConnId_, server, joining, loop_, pc, quit_>>
        /\ undefined' = (server = "gone")
    BY <1>0, <1>9, HeadFacts DEF RunListen, NextFunctor
  <2>2. \A l \in Loops : functors'[l] # <<>> => pc'[l] = "functors"
    BY <2>1 DEF Threads, TypeOK
  <2> QED
    BY <1>a, <2>1, <2>2 DEF Threads, Ended
<1>10. ASSUME RunRemoveConnectionInLoop PROVE Threads'
  <2> DEFINE c == Head(functors[Base]).conn
  <2>1. c \in Conns /\ loop_[c] \in Loops \ {Base} /\ CD(c) \in FunctorType
    BY <1>10, HeadFacts, LoopFacts, FunctorFacts
       DEF RunRemoveConnectionInLoop, NextFunctor, TypeOK
  <2>2. /\ functors[Base] # <<>> /\ QueueInLoop(loop_[c], CD(c))
        /\ functors' = [functors EXCEPT ![Base] = Tail(@)]
        /\ pc[Base] = "functors"
        /\ UNCHANGED <<numThreads_, started_, nextConnId_, listening, server, joining, loop_, pc,
                       quit_>>
    BY <1>10 DEF RunRemoveConnectionInLoop, RemoveConnectionInLoop, NextFunctor, CD
  <2> HIDE DEF c
  <2>3. Listen \in Waiting'[Base] => Listen \in Waiting[Base]
    BY <1>0, <2>1, <2>2, Passing
  <2>4. \A l \in Loops : functors'[l] # <<>> => functors[l] # <<>>
    BY <2>2 DEF TypeOK
  <2> QED
    BY <1>a, <2>2, <2>3, <2>4, ThreadsKept, <1>c
<1>11. ASSUME QuitThread PROVE Threads'
  <2>1. Waiting' = Waiting
    BY <1>11, Left DEF QuitThread
  <2> QED
    BY <1>11, <1>a, <1>b, <2>1 DEF Threads, Ended, QuitThread
<1>12. ASSUME JoinThread PROVE Threads'
  <2>1. Waiting' = Waiting
    BY <1>12, Left DEF JoinThread
  <2>2. \A l \in 1 .. joining' - 1 : pc'[l] = "returned"
    BY <1>12, <1>b DEF Threads, JoinThread
  <2> QED
    BY <1>12, <1>a, <1>b, <2>1, <2>2 DEF Threads, Ended, JoinThread
<1>13. ASSUME EndDestroy PROVE Threads'
  <2>1. Waiting' = Waiting
    BY <1>13, Left DEF EndDestroy
  <2> QED
    BY <1>13, <1>a, <1>b, <2>1 DEF Threads, Ended, EndDestroy, ThreadsJoined
<1>d. ASSUME NEW c \in Conns, Close(c)
      PROVE  /\ loop_[c] \in Loops /\ CD(c) \in FunctorType /\ RC(c) \in FunctorType
             /\ CD(c) # Listen /\ RC(c) # Listen
             /\ QueueInLoop(loop_[c], CD(c)) \/ QueueInLoop(Base, RC(c))
             /\ UNCHANGED <<numThreads_, started_, nextConnId_, listening, server, joining, loop_,
                            pc, quit_>>
  BY <1>d, FunctorFacts DEF TypeOK, Close, RemoveConnectionInLoop, CD, RC
<1>14. ASSUME NEW c \in Conns, HandleClose(c) PROVE Threads'
  <2>1. Close(c) /\ functors' = functors
    BY <1>14 DEF HandleClose
  <2>2. Listen \in Waiting'[Base] => Listen \in Waiting[Base]
    BY <1>0, <1>d, <2>1, Queueing
  <2> QED
    BY <1>a, <1>c, <1>d, <2>1, <2>2, ThreadsKept
<1>15. ASSUME NEW l \in Loops, EnterLoop(l) PROVE Threads'
  <2>1. Waiting' = Waiting
    BY <1>15, Left DEF EnterLoop
  <2> QED
    BY <1>15, <1>0, <1>a, <1>b, <2>1 DEF Threads, Ended, EnterLoop, Proceeds
<1>16. ASSUME NEW l \in Loops, SwapFunctors(l) PROVE Threads'
  <2>1. Waiting' = Waiting
    BY <1>16, Swapping
  <2> QED
    BY <1>16, <1>0, <1>a, <1>b, <2>1 DEF Threads, Ended, SwapFunctors, TypeOK
<1>17. ASSUME NEW l \in Loops, EndBatch(l) PROVE Threads'
  <2>1. Listen \in Waiting'[Base] => Listen \in Waiting[Base]
    BY <1>0, <1>17, Dropping, Left DEF EndBatch
  <2> QED
    BY <1>17, <1>0, <1>a, <1>b, <2>1 DEF Threads, Ended, EndBatch, Proceeds
<1>18. ASSUME NEW l \in Loops, RunConnectEstablished(l) PROVE Threads'
  <2>1. /\ functors[l] # <<>> /\ functors' = [functors EXCEPT ![l] = Tail(@)]
        /\ Waiting'[Base] \subseteq Waiting[Base]
    BY <1>0, <1>18, Taking DEF RunConnectEstablished, NextFunctor
  <2>2. \A k \in Loops : functors'[k] # <<>> => functors[k] # <<>>
    BY <2>1 DEF TypeOK
  <2> QED
    BY <1>18, <1>a, <2>1, <2>2, ThreadsKept, <1>c DEF RunConnectEstablished
<1>19. ASSUME NEW l \in Loops, RunConnectDestroyed(l) PROVE Threads'
  <2>1. /\ functors[l] # <<>> /\ functors' = [functors EXCEPT ![l] = Tail(@)]
        /\ Waiting'[Base] \subseteq Waiting[Base]
    BY <1>0, <1>19, Taking DEF RunConnectDestroyed, NextFunctor
  <2>2. \A k \in Loops : functors'[k] # <<>> => functors[k] # <<>>
    BY <2>1 DEF TypeOK
  <2> QED
    BY <1>19, <1>a, <2>1, <2>2, ThreadsKept, <1>c DEF RunConnectDestroyed
<1>20. ASSUME NEW l \in Loops, RunForceCloseInLoop(l) PROVE Threads'
  <2> DEFINE c == Head(functors[l]).conn
  <2>1. c \in Conns
    BY <1>20, HeadFacts DEF RunForceCloseInLoop, NextFunctor
  <2>2. functors[l] # <<>> /\ functors' = [functors EXCEPT ![l] = Tail(@)]
    BY <1>20 DEF RunForceCloseInLoop, NextFunctor
  <2>3. \A k \in Loops : functors'[k] # <<>> => functors[k] # <<>>
    BY <2>2 DEF TypeOK
  <2>4. CASE Up(c) /\ Close(c)
    <3> HIDE DEF c
    <3>1. Listen \in Waiting'[Base] => Listen \in Waiting[Base]
      BY <1>0, <1>d, <2>1, <2>2, <2>4, Passing
    <3> QED
      BY <1>a, <1>c, <1>d, <2>1, <2>3, <2>4, <3>1, ThreadsKept
  <2>5. CASE ~(Up(c) /\ Close(c))
    <3>1. UNCHANGED <<serverVars, listening, endVars, connVars, pc, quit_, pendingFunctors_,
                      undefined>>
      BY <1>20, <2>5 DEF RunForceCloseInLoop
    <3>2. Waiting'[Base] \subseteq Waiting[Base]
      BY <1>0, <2>2, <3>1, Taking
    <3> QED
      BY <1>a, <1>c, <2>3, <3>1, <3>2, ThreadsKept
  <2> QED
    BY <2>4, <2>5
<1>21. ASSUME NEW c \in Conns, Shutdown(c) PROVE Threads'
  BY <1>21, <1>a, Left, ThreadsKept, <1>c DEF Shutdown
<1>22. ASSUME NEW c \in Conns, ForceClose(c) PROVE Threads'
  <2>1. /\ loop_[c] \in Loops /\ FC(c) \in FunctorType /\ FC(c) # Listen
        /\ QueueInLoop(loop_[c], FC(c)) /\ functors' = functors
    BY <1>22, FunctorFacts DEF TypeOK, ForceClose, FC
  <2>2. Listen \in Waiting'[Base] => Listen \in Waiting[Base]
    BY <1>0, <2>1, Queueing
  <2> QED
    BY <1>22, <1>a, <2>2, ThreadsKept, <1>c DEF ForceClose
<1> QED
  BY Steps, <1>1, <1>2, <1>3, <1>4, <1>5, <1>6, <1>7, <1>8, <1>9, <1>10, <1>11, <1>12, <1>13,
     <1>14, <1>15, <1>16, <1>17, <1>18, <1>19, <1>20, <1>21, <1>22

-----------------------------------------------------------------------------
(* A thread of the pool has ended when the server is gone.                 *)
LEMMA PoolEnded ==
  ASSUME TypeOK, Threads, server = "gone", NEW c \in Known, loop_[c] # Base
  PROVE  pc[loop_[c]] = "returned"
<1>1. started_ /\ loop_[c] \in 1 .. numThreads_ /\ joining > numThreads_
  BY DEF Threads
<1>2. loop_[c] \in 1 .. joining - 1
  BY <1>1, ServerAssumption DEF TypeOK, ServerAssumption
<1> QED
  BY <1>2 DEF Threads

(* The connections.  One that a step does not touch lives on, although its *)
(* loop may end and drop what waits for it.                                *)
LEMMA LifeKept ==
  ASSUME NEW c \in Conns, Life(c), IF server = "alive" THEN Served(c) ELSE Abandoned(c),
         stat_'[c] = stat_[c], loop_'[c] = loop_[c],
         c \in Known' <=> c \in Known,
         c \in connections_' <=> c \in connections_,
         c \in inPoller' <=> c \in inPoller,
         server' = "alive" <=> server = "alive",
         pc[loop_[c]] \in {"returned", "destroyed"} => pc'[loop_[c]] \in {"returned", "destroyed"},
         CE(c) \in Waiting'[loop_[c]] => CE(c) \in Waiting[loop_[c]],
         CD(c) \in Waiting'[loop_[c]] => CD(c) \in Waiting[loop_[c]],
         RC(c) \in Waiting'[Base] => RC(c) \in Waiting[Base],
         \/ RC(c) \in Waiting[Base] => RC(c) \in Waiting'[Base]
         \/ server # "alive" /\ pc'[loop_[c]] \in {"returned", "destroyed"},
         \/ /\ CE(c) \in Waiting[loop_[c]] => CE(c) \in Waiting'[loop_[c]]
            /\ CD(c) \in Waiting[loop_[c]] => CD(c) \in Waiting'[loop_[c]]
         \/ /\ server # "alive" /\ pc'[loop_[c]] \in {"returned", "destroyed"}
            /\ CD(c) \notin Waiting'[loop_[c]]
  PROVE  Life(c)' /\ IF server' = "alive" THEN Served(c)' ELSE Abandoned(c)'
  BY DEF Life, Served, Abandoned, Up, Ended, CE, CD, RC, Functor

LEMMA PlacedKept ==
  ASSUME TypeOK, Placed, \A c \in Known : c \in Known' /\ loop_'[c] = loop_[c],
         \A l \in Loops : \A f \in Waiting'[l] : f \in Waiting[l] \/ AtPlace(l, f)'
  PROVE  Placed'
<1>1. ASSUME NEW l \in Loops, NEW f \in Waiting[l] PROVE AtPlace(l, f)'
  <2>1. AtPlace(l, f)
    BY DEF Placed
  <2> QED
    BY <2>1 DEF AtPlace, CE, CD, RC, FC, Listen, Functor
<1> QED
  BY <1>1 DEF Placed

(* A step that touches no connection.                                      *)
LEMMA Kept ==
  ASSUME TypeOK, Placed, Lives, LeftAlone,
         UNCHANGED <<connections_, nextConnId_, stat_, loop_, inPoller, unsafeEnd>>,
         server' = "alive" <=> server = "alive",
         \A l \in Loops : Ended(l) => Ended(l)',
         \A l \in Loops : \A f \in Waiting'[l] :
           f \in Waiting[l] \/ (f = Listen /\ l = Base /\ server = "alive"),
         \A l \in Loops : \A f \in Waiting[l] :
           \/ f \in Waiting'[l] \/ f.op \in {"listen", "forceCloseInLoop"}
           \/ server # "alive" /\ Ended(l)' /\ Waiting'[l] = {},
         \A c \in Conns : RC(c) \in Waiting[Base] => RC(c) \in Waiting'[Base] \/ Ended(loop_[c])
  PROVE  Placed' /\ Lives' /\ LeftAlone'
<1>1. Known' = Known
  BY DEF Known
<1>2. Placed'
  BY <1>1, PlacedKept DEF AtPlace
<1>3. Lives'
  <2> SUFFICES ASSUME NEW c \in Conns
               PROVE  Life(c)' /\ IF server' = "alive" THEN Served(c)' ELSE Abandoned(c)'
    BY DEF Lives
  <2>1. Life(c) /\ IF server = "alive" THEN Served(c) ELSE Abandoned(c)
    BY DEF Lives
  <2>2. loop_[c] \in Loops /\ Base \in Loops
    BY LoopFacts DEF TypeOK
  <2>3. /\ CE(c) # Listen /\ CD(c) # Listen /\ RC(c) # Listen
        /\ \A f \in {CE(c), CD(c), RC(c)} : f.op \notin {"listen", "forceCloseInLoop"}
    BY FunctorFacts DEF CE, CD, RC, Functor
  <2>4. /\ pc[loop_[c]] \in {"returned", "destroyed"} => pc'[loop_[c]] \in {"returned", "destroyed"}
        /\ CE(c) \in Waiting'[loop_[c]] => CE(c) \in Waiting[loop_[c]]
        /\ CD(c) \in Waiting'[loop_[c]] => CD(c) \in Waiting[loop_[c]]
        /\ RC(c) \in Waiting'[Base] => RC(c) \in Waiting[Base]
    BY <2>2, <2>3 DEF Ended
  <2>6. \/ RC(c) \in Waiting[Base] => RC(c) \in Waiting'[Base]
        \/ server # "alive" /\ pc'[loop_[c]] \in {"returned", "destroyed"}
    <3>1. Ended(loop_[c]) => pc'[loop_[c]] \in {"returned", "destroyed"}
      BY <2>2 DEF Ended
    <3>2. RC(c) \in Waiting[Base] => RC(c) \in Waiting'[Base] \/ server # "alive"
      BY <2>2, <2>3
    <3>3. RC(c) \in Waiting[Base] => RC(c) \in Waiting'[Base] \/ Ended(loop_[c])
      OBVIOUS
    <3> QED
      BY <3>1, <3>2, <3>3
  <2>5. \/ /\ CE(c) \in Waiting[loop_[c]] => CE(c) \in Waiting'[loop_[c]]
           /\ CD(c) \in Waiting[loop_[c]] => CD(c) \in Waiting'[loop_[c]]
        \/ /\ server # "alive" /\ pc'[loop_[c]] \in {"returned", "destroyed"}
           /\ CD(c) \notin Waiting'[loop_[c]]
    BY <2>2, <2>3 DEF Ended
  <2> QED
    BY <1>1, <2>1, <2>4, <2>5, <2>6, LifeKept
<1>4. LeftAlone'
  <2>1. ASSUME NEW c \in Conns
        PROVE /\ RC(c) \in Waiting'[Base] => RC(c) \in Waiting[Base]
              /\ FC(c) \in Waiting'[Base] => FC(c) \in Waiting[Base]
    BY LoopFacts, FunctorFacts
  <2>2. server # "alive" /\ Listen \in Waiting'[Base] => Listen \in Waiting[Base]
    BY LoopFacts
  <2>3. Ended(Base) => Ended(Base)'
    BY LoopFacts
  <2>4. ASSUME NEW c \in Conns PROVE RC(c)' = RC(c) /\ FC(c)' = FC(c)
    BY DEF RC, FC, Functor
  <2> QED
    BY <2>1, <2>2, <2>3, <2>4 DEF LeftAlone, Listen, Functor
<1> QED
  BY <1>2, <1>3, <1>4

LEMMA SoundInit == Init => Placed /\ Sound
<1> SUFFICES ASSUME Init PROVE Placed /\ Sound
  OBVIOUS
<1>1. \A l \in Loops : pendingFunctors_[l] = <<>> /\ functors[l] = <<>>
  BY DEF Init
<1>2. \A l \in Loops : Waiting[l] = {}
  BY <1>1, ElemsEmpty DEF Waiting, WaitingIn
<1>3. Known = {}
  BY DEF Init, Known
<1>4. Ordered
  <2>1. <<>> \o <<>> = <<>>
    BY EmptySeq, ConcatEmptySeq
  <2> QED
    BY <1>1, <2>1, ElemsEmpty DEF Ordered, OrderedIn, Line
<1>5. Lives
  BY <1>2, <1>3, LoopFacts DEF Init, Lives, Life, Served, Up
<1> QED
  BY <1>2, <1>4, <1>5 DEF Init, Placed, Sound, LeftAlone

LEMMA ControlStep ==
  ASSUME TypeOK, Threads, Placed, Sound, ~undefined,
         \/ Start \/ StartElsewhere \/ QuitBase \/ DestroyBaseLoop \/ ClientConnects \/ AcceptFails
         \/ QuitThread \/ JoinThread \/ EndDestroy
         \/ \E l \in Loops : EnterLoop(l) \/ SwapFunctors(l) \/ EndBatch(l)
  PROVE  Placed' /\ Sound'
<1> USE DEF serverVars, endVars, connVars
<1>0. Ordered /\ Lives /\ LeftAlone /\ Base \in Loops
  BY LoopFacts DEF Sound
<1>b. pc \in [Loops -> {"none", "before", "events", "functors", "returned", "destroyed"}]
  BY DEF TypeOK
<1>q. ASSUME UNCHANGED <<connections_, nextConnId_, stat_, loop_, inPoller, unsafeEnd>>,
             server' = "alive" <=> server = "alive",
             \A l \in Loops : Ended(l) => Ended(l)', Waiting' = Waiting, Ordered'
      PROVE  Placed' /\ Sound'
  BY <1>0, <1>q, Kept DEF Sound
<1>1. ASSUME Start PROVE Placed' /\ Sound'
  <2>1. Waiting' = Waiting /\ Ordered'
    BY <1>0, <1>1, Left DEF Start, StartPool
  <2>2. \A l \in Loops : Ended(l) => Ended(l)'
    <3>1. Base \notin 1 .. numThreads_
      BY DEF Base
    <3>2. pc' = [l \in Loops |-> IF l \in 1 .. numThreads_ THEN "before" ELSE pc[l]] /\ ~started_
      BY <1>1 DEF Start, StartPool
    <3>3. \A l \in Loops \ {Base} : ~Ended(l)
      BY <3>2 DEF Threads, Ended
    <3>4. \A l \in Loops : l \notin 1 .. numThreads_ => pc'[l] = pc[l]
      BY <3>2
    <3> QED
      BY <3>1, <3>3, <3>4 DEF Ended
  <2> QED
    BY <1>1, <1>q, <2>1, <2>2 DEF Start, StartPool
<1>2. ASSUME StartElsewhere PROVE Placed' /\ Sound'
  <2>1. /\ server = "alive" /\ server' = "alive" /\ ~started_
        /\ UNCHANGED <<connections_, nextConnId_, stat_, loop_, inPoller, unsafeEnd, functors>>
        /\ pc' = [l \in Loops |-> IF l \in 1 .. numThreads_ THEN "before" ELSE pc[l]]
        /\ QueueInLoop(Base, Listen)
    BY <1>2 DEF StartElsewhere, StartPool, Listen
  <2>2. Listen \notin Waiting[Base]
    BY <2>1 DEF Threads
  <2>3. /\ Waiting'[Base] = Waiting[Base] \cup {Listen}
        /\ \A k \in Loops \ {Base} : Waiting'[k] = Waiting[k]
        /\ Ordered'
    BY <1>0, <2>1, <2>2, Queueing, FunctorFacts
  <2>4. \A l \in Loops : Ended(l) => Ended(l)'
    <3>1. Base \notin 1 .. numThreads_
      BY DEF Base
    <3>3. \A l \in Loops \ {Base} : ~Ended(l)
      BY <2>1 DEF Threads, Ended
    <3>4. \A l \in Loops : l \notin 1 .. numThreads_ => pc'[l] = pc[l]
      BY <2>1
    <3> QED
      BY <3>1, <3>3, <3>4 DEF Ended
  <2>5. /\ \A l \in Loops : \A f \in Waiting'[l] :
             f \in Waiting[l] \/ (f = Listen /\ l = Base /\ server = "alive")
        /\ \A l \in Loops : \A f \in Waiting[l] : f \in Waiting'[l]
    BY <2>1, <2>3
  <2> QED
    BY <1>0, <2>1, <2>3, <2>4, <2>5, Kept DEF Sound
<1>3. ASSUME QuitBase PROVE Placed' /\ Sound'
  <2>1. Waiting' = Waiting /\ Ordered'
    BY <1>0, <1>3, Left DEF QuitBase
  <2> QED
    BY <1>3, <1>q, <2>1 DEF QuitBase, Ended
<1>4. ASSUME DestroyBaseLoop PROVE Placed' /\ Sound'
  <2>1. /\ server = "gone" /\ server' = "gone" /\ pc[Base] = "returned"
        /\ pc' = [pc EXCEPT ![Base] = "destroyed"]
        /\ pendingFunctors_' = [pendingFunctors_ EXCEPT ![Base] = <<>>]
        /\ UNCHANGED <<connections_, nextConnId_, stat_, loop_, inPoller, unsafeEnd, functors>>
    BY <1>4 DEF DestroyBaseLoop
  <2>2. functors[Base] = <<>>
    BY <1>0, <2>1 DEF Threads
  <2>3. /\ Waiting'[Base] = {} /\ \A k \in Loops \ {Base} : Waiting'[k] = Waiting[k]
        /\ Ordered'
    BY <1>0, <2>1, <2>2, Dropping
  <2>4. Ended(Base)' /\ \A l \in Loops : Ended(l) => Ended(l)'
    BY <1>0, <1>b, <2>1 DEF Ended
  <2>5. /\ \A l \in Loops : \A f \in Waiting'[l] : f \in Waiting[l]
        /\ \A l \in Loops : \A f \in Waiting[l] :
             f \in Waiting'[l] \/ (server # "alive" /\ Ended(l)' /\ Waiting'[l] = {})
    BY <2>1, <2>3, <2>4
  <2>6. \A c \in Conns : RC(c) \in Waiting[Base] => Ended(loop_[c])
    <3> SUFFICES ASSUME NEW c \in Conns, RC(c) \in Waiting[Base] PROVE Ended(loop_[c])
      OBVIOUS
    <3>1. c \in Known /\ loop_[c] # Base
      BY <1>0, FunctorFacts DEF Placed, AtPlace
    <3> QED
      BY <2>1, <3>1, PoolEnded DEF Ended
  <2> QED
    BY <1>0, <2>1, <2>3, <2>4, <2>5, <2>6, Kept DEF Sound
<1>5. ASSUME ClientConnects PROVE Placed' /\ Sound'
  <2>1. Waiting' = Waiting /\ Ordered'
    BY <1>0, <1>5, Left DEF ClientConnects
  <2> QED
    BY <1>5, <1>q, <2>1 DEF ClientConnects, Ended
<1>6. ASSUME AcceptFails PROVE Placed' /\ Sound'
  <2>1. Waiting' = Waiting /\ Ordered'
    BY <1>0, <1>6, Left DEF AcceptFails
  <2> QED
    BY <1>6, <1>q, <2>1 DEF AcceptFails, Ended
<1>7. ASSUME QuitThread PROVE Placed' /\ Sound'
  <2>1. Waiting' = Waiting /\ Ordered'
    BY <1>0, <1>7, Left DEF QuitThread
  <2> QED
    BY <1>7, <1>q, <2>1 DEF QuitThread, Ended
<1>8. ASSUME JoinThread PROVE Placed' /\ Sound'
  <2>1. Waiting' = Waiting /\ Ordered'
    BY <1>0, <1>8, Left DEF JoinThread
  <2> QED
    BY <1>8, <1>q, <2>1 DEF JoinThread, Ended
<1>9. ASSUME EndDestroy PROVE Placed' /\ Sound'
  <2>1. Waiting' = Waiting /\ Ordered'
    BY <1>0, <1>9, Left DEF EndDestroy
  <2> QED
    BY <1>9, <1>q, <2>1 DEF EndDestroy, Ended
<1>10. ASSUME NEW l \in Loops, EnterLoop(l) PROVE Placed' /\ Sound'
  <2>1. Waiting' = Waiting /\ Ordered'
    BY <1>0, <1>10, Left DEF EnterLoop
  <2>2. \A k \in Loops : Ended(k) => Ended(k)'
    BY <1>b, <1>10 DEF EnterLoop, Ended
  <2> QED
    BY <1>10, <1>q, <2>1, <2>2 DEF EnterLoop
<1>11. ASSUME NEW l \in Loops, SwapFunctors(l) PROVE Placed' /\ Sound'
  <2>1. Waiting' = Waiting /\ Ordered'
    BY <1>0, <1>11, Swapping
  <2>2. \A k \in Loops : Ended(k) => Ended(k)'
    BY <1>b, <1>11 DEF SwapFunctors, Ended
  <2> QED
    BY <1>11, <1>q, <2>1, <2>2 DEF SwapFunctors
<1>12. ASSUME NEW l \in Loops, EndBatch(l) PROVE Placed' /\ Sound'
  <2>1. /\ functors[l] = <<>> /\ pc[l] = "functors"
        /\ UNCHANGED <<connections_, nextConnId_, stat_, loop_, inPoller, unsafeEnd, server, functors>>
        /\ pc' = [pc EXCEPT ![l] = IF quit_[l] THEN "returned" ELSE "events"]
        /\ pendingFunctors_' = IF quit_[l] /\ l # Base
                               THEN [pendingFunctors_ EXCEPT ![l] = <<>>] ELSE pendingFunctors_
    BY <1>12 DEF EndBatch
  <2>2. \A k \in Loops : Ended(k) => Ended(k)'
    BY <1>b, <2>1 DEF Ended
  <2>3. CASE quit_[l] /\ l # Base
    <3>1. server # "alive"
      BY <2>3 DEF Threads
    <3>2. /\ Waiting'[l] = {} /\ \A k \in Loops \ {l} : Waiting'[k] = Waiting[k]
          /\ Ordered'
      BY <1>0, <2>1, <2>3, Dropping
    <3>3. Ended(l)'
      BY <1>b, <2>1, <2>3 DEF Ended
    <3>4. /\ \A k \in Loops : \A f \in Waiting'[k] : f \in Waiting[k]
          /\ \A k \in Loops : \A f \in Waiting[k] :
               f \in Waiting'[k] \/ (server # "alive" /\ Ended(k)' /\ Waiting'[k] = {})
      BY <3>1, <3>2, <3>3
    <3>5. \A c \in Conns : RC(c) \in Waiting[Base] => RC(c) \in Waiting'[Base]
      BY <1>0, <2>3, <3>2
    <3> QED
      BY <1>0, <2>1, <2>2, <3>2, <3>4, <3>5, Kept DEF Sound
  <2>4. CASE ~(quit_[l] /\ l # Base)
    <3>1. Waiting' = Waiting /\ Ordered'
      BY <1>0, <2>1, <2>4, Left
    <3> QED
      BY <1>q, <2>1, <2>2, <3>1
  <2> QED
    BY <2>3, <2>4
<1> QED
  BY <1>1, <1>2, <1>3, <1>4, <1>5, <1>6, <1>7, <1>8, <1>9, <1>10, <1>11, <1>12

(* A step that touches one connection: the others live on.                 *)
LEMMA OthersKept ==
  ASSUME TypeOK, Lives, NEW c0 \in Conns, UNCHANGED <<server, pc>>,
         \A d \in Conns \ {c0} : /\ stat_'[d] = stat_[d] /\ loop_'[d] = loop_[d]
                                 /\ d \in Known' <=> d \in Known
                                 /\ d \in connections_' <=> d \in connections_
                                 /\ d \in inPoller' <=> d \in inPoller,
         \A l \in Loops : \A f : f.conn # c0 => (f \in Waiting'[l] <=> f \in Waiting[l]),
         Life(c0)', IF server' = "alive" THEN Served(c0)' ELSE Abandoned(c0)'
  PROVE  Lives'
<1> SUFFICES ASSUME NEW d \in Conns \ {c0}
             PROVE  Life(d)' /\ IF server' = "alive" THEN Served(d)' ELSE Abandoned(d)'
  BY DEF Lives
<1>1. Life(d) /\ IF server = "alive" THEN Served(d) ELSE Abandoned(d)
  BY DEF Lives
<1>2. loop_[d] \in Loops /\ Base \in Loops
  BY LoopFacts DEF TypeOK
<1>3. CE(d).conn # c0 /\ CD(d).conn # c0 /\ RC(d).conn # c0
  BY FunctorFacts
<1>4. /\ CE(d) \in Waiting'[loop_[d]] <=> CE(d) \in Waiting[loop_[d]]
      /\ CD(d) \in Waiting'[loop_[d]] <=> CD(d) \in Waiting[loop_[d]]
      /\ RC(d) \in Waiting'[Base] <=> RC(d) \in Waiting[Base]
  BY <1>2, <1>3
<1> QED
  BY <1>1, <1>4, LifeKept

LEMMA NewConnectionStep ==
  ASSUME TypeOK, Threads, Placed, Sound, ~undefined, NewConnection
  PROVE  Placed' /\ Sound'
<1> USE DEF serverVars, endVars, connVars
<1> SUFFICES ASSUME NEW c, c = nextConnId_, NEW l, l = NextLoop
             PROVE  Placed' /\ Sound'
  OBVIOUS
<1>0. Ordered /\ Lives /\ LeftAlone /\ Base \in Loops
  BY LoopFacts DEF Sound
<1>1. /\ c \in Conns /\ c \notin Known /\ Known' = Known \cup {c}
      /\ l \in Loops /\ CE(c) \in FunctorType
  BY Accepting
<1>2. /\ connections_' = connections_ \cup {c} /\ loop_' = [loop_ EXCEPT ![c] = l]
      /\ UNCHANGED <<server, pc, functors, unsafeEnd, undefined>>
      /\ \/ /\ l = Base /\ UNCHANGED pendingFunctors_
            /\ stat_' = [stat_ EXCEPT ![c] = "kConnected"] /\ inPoller' = inPoller \cup {c}
         \/ /\ l # Base /\ QueueInLoop(l, CE(c))
            /\ stat_' = [stat_ EXCEPT ![c] = "kConnecting"] /\ inPoller' = inPoller
  BY DEF NewConnection, CE
<1>3. server = "alive" /\ server' = "alive"
  BY <1>2 DEF NewConnection, HandleRead, Threads, TypeOK
<1>4. Life(c) /\ c \notin inPoller
  BY <1>0, <1>1 DEF Lives, Life
<1>5. \A k \in Loops : CE(c) \notin Waiting[k] /\ CD(c) \notin Waiting[k] /\ RC(c) \notin Waiting[k]
  BY <1>1, FunctorFacts DEF Placed, AtPlace
<1>6. /\ \A k \in Loops : \A f : f \in Waiting'[k] <=>
           f \in Waiting[k] \/ (k = l /\ l # Base /\ f = CE(c))
      /\ Ordered'
  <2>1. CASE l = Base
    BY <1>0, <1>2, <2>1, Left
  <2>2. CASE l # Base
    BY <1>0, <1>1, <1>2, <1>5, <2>2, Queueing, FunctorFacts
  <2> QED
    BY <2>1, <2>2
<1>7. /\ loop_'[c] = l /\ c \in connections_' /\ c \in Known'
      /\ \/ l = Base /\ stat_'[c] = "kConnected" /\ c \in inPoller'
         \/ l # Base /\ stat_'[c] = "kConnecting" /\ c \notin inPoller'
      /\ \A d \in Conns \ {c} : /\ stat_'[d] = stat_[d] /\ loop_'[d] = loop_[d]
                                /\ d \in Known' <=> d \in Known
                                /\ d \in connections_' <=> d \in connections_
                                /\ d \in inPoller' <=> d \in inPoller
  BY <1>1, <1>2, <1>4 DEF TypeOK
<1>8. Placed'
  <2>1. AtPlace(l, CE(c))' \/ l = Base
    BY <1>1, <1>7, FunctorFacts DEF AtPlace, CE, CD, RC, FC, Listen, Functor
  <2>2. \A d \in Known : d \in Known' /\ loop_'[d] = loop_[d]
    BY <1>1, <1>7, KnownConns
  <2> QED
    BY <1>6, <2>1, <2>2, PlacedKept
<1>9. /\ CE(c) \in Waiting'[l] <=> l # Base
      /\ CD(c) \notin Waiting'[l] /\ RC(c) \notin Waiting'[Base]
  BY <1>0, <1>1, <1>5, <1>6, FunctorFacts
<1>10. Life(c)' /\ Served(c)'
  BY <1>7, <1>9 DEF Life, Served, Up, CE, CD, RC, Functor
<1>11. Lives'
  <2>1. \A k \in Loops : \A f : f.conn # c => (f \in Waiting'[k] <=> f \in Waiting[k])
    BY <1>1, <1>6, FunctorFacts
  <2> QED
    BY <1>0, <1>1, <1>2, <1>3, <1>7, <1>10, <2>1, OthersKept
<1> QED
  BY <1>3, <1>6, <1>8, <1>11 DEF Sound, LeftAlone

(* A connection that closes queues its removal to the base loop.           *)
Removal(c) == IF loop_[c] = Base THEN CD(c) ELSE RC(c)

LEMMA Closing ==
  ASSUME TypeOK, Placed, Sound, NEW c \in Conns, Close(c), Up(c),
         loop_[c] = Base => server = "alive"
  PROVE  /\ QueueInLoop(Base, Removal(c)) /\ Removal(c) \in FunctorType
         /\ Removal(c) \notin Waiting[Base] /\ Removal(c).conn = c
         /\ \A d \in Conns : Removal(c) # CE(d) /\ Removal(c) # FC(d)
<1>1. Life(c) /\ (loop_[c] = Base => Served(c))
  BY DEF Sound, Lives
<1>2. Removal(c) \notin Waiting[Base]
  BY <1>1 DEF Life, Served, Removal
<1>3. QueueInLoop(Base, Removal(c))
  BY DEF Close, RemoveConnectionInLoop, Removal, CD, RC
<1> QED
  BY <1>2, <1>3, FunctorFacts DEF Removal

LEMMA CloseStep ==
  ASSUME TypeOK, Threads, Placed, Sound, NEW c \in Conns, Close(c), Up(c),
         loop_[c] = Base => server = "alive", pc[loop_[c]] \in {"events", "functors"},
         \A k \in Loops : \A f \in Waiting'[k] : f \in Waiting[k] \/ (k = Base /\ f = Removal(c)),
         \A k \in Loops : \A f \in Waiting[k] : f \in Waiting'[k] \/ f = FC(c),
         Removal(c) \in Waiting'[Base], Ordered'
  PROVE  Placed' /\ Sound' /\ ~undefined'
<1> USE DEF serverVars, endVars, connVars
<1> DEFINE l == loop_[c]
<1>0. Ordered /\ Lives /\ LeftAlone /\ Base \in Loops /\ l \in Loops
  BY LoopFacts DEF Sound, TypeOK
<1>1. /\ stat_' = [stat_ EXCEPT ![c] = "kDisconnected"] /\ inPoller' = inPoller \cup {c}
      /\ UNCHANGED <<server, pc, unsafeEnd, loop_, nextConnId_>>
      /\ connections_' = IF l = Base THEN connections_ \ {c} ELSE connections_
      /\ undefined' = (server = "gone")
  BY DEF Close, RemoveConnectionInLoop
<1>2. Life(c) /\ (IF server = "alive" THEN Served(c) ELSE Abandoned(c))
  BY <1>0 DEF Lives
<1>3. /\ c \in Known /\ RC(c) \notin Waiting[Base] /\ CE(c) \notin Waiting[l]
      /\ server = "alive" => c \in connections_ /\ CD(c) \notin Waiting[l]
      /\ server # "alive" => c \notin connections_ /\ l # Base
      /\ ~Ended(l)
  BY <1>2 DEF Life, Served, Abandoned, Ended, Up
<1>4. server # "gone"
  BY <1>3, PoolEnded DEF Ended
<1>5. /\ CD(c).conn = c /\ RC(c).conn = c /\ FC(c).conn = c
      /\ \A d \in Conns : /\ CD(c) # CE(d) /\ RC(c) # CE(d) /\ CD(c) # RC(d) /\ CE(c) # RC(d)
                         /\ FC(c) # CE(d) /\ FC(c) # CD(d) /\ FC(c) # RC(d)
  BY FunctorFacts
<1>6. Removal(c) = IF l = Base THEN CD(c) ELSE RC(c)
  BY DEF Removal
<1>7. /\ loop_'[c] = l /\ stat_'[c] = "kDisconnected" /\ c \in inPoller' /\ Known' = Known
      /\ c \in connections_' <=> c \in connections_ /\ l # Base
      /\ \A d \in Conns \ {c} : /\ stat_'[d] = stat_[d] /\ loop_'[d] = loop_[d]
                                /\ d \in Known' <=> d \in Known
                                /\ d \in connections_' <=> d \in connections_
                                /\ d \in inPoller' <=> d \in inPoller
  BY <1>1, <1>3 DEF TypeOK, Known
<1>8. Placed'
  <2>1. AtPlace(Base, Removal(c))'
    BY <1>3, <1>6, <1>7, FunctorFacts DEF AtPlace, Removal, CE, CD, RC, FC, Listen, Functor
  <2>2. Removal(c)' = Removal(c)
    BY <1>1 DEF Removal, CD, RC, Functor
  <2>3. \A k \in Loops : \A f \in Waiting'[k] : f \in Waiting[k] \/ AtPlace(k, f)'
    BY <2>1, <2>2 DEF AtPlace
  <2> QED
    BY <1>1, <1>7, <2>3, PlacedKept
<1>9. /\ CE(c) \notin Waiting'[l] /\ (CD(c) \in Waiting[l] => CD(c) \in Waiting'[l])
      /\ IF l = Base THEN CD(c) \in Waiting'[l] /\ RC(c) \notin Waiting'[Base]
                     ELSE RC(c) \in Waiting'[Base]
                          /\ (CD(c) \in Waiting'[l] => CD(c) \in Waiting[l])
  BY <1>0, <1>3, <1>5, <1>6
<1>10. Life(c)'
  BY <1>3, <1>7, <1>9 DEF Life, Up, CE, CD, RC, Functor
<1>11. IF server' = "alive" THEN Served(c)' ELSE Abandoned(c)'
  <2>1. CASE server = "alive"
    BY <1>1, <1>3, <1>7, <1>9, <2>1 DEF Served, Up, CD, RC, Functor
  <2>2. CASE server # "alive"
    BY <1>1, <1>3, <1>7, <1>9, <2>2 DEF Abandoned, Up, CD, RC, Functor
  <2> QED
    BY <2>1, <2>2
<1>12. Lives'
  <2>1. \A k \in Loops : \A f : f.conn # c => (f \in Waiting'[k] <=> f \in Waiting[k])
    BY <1>5, <1>6
  <2> QED
    BY <1>0, <1>1, <1>7, <1>10, <1>11, <2>1, OthersKept
<1>13. LeftAlone'
  <2>1. server # "alive" => unsafeEnd \/ Ended(Base)
    BY <1>0, <1>3 DEF LeftAlone, Up
  <2> QED
    BY <1>1, <2>1 DEF LeftAlone, Ended
<1> QED
  BY <1>1, <1>4, <1>8, <1>12, <1>13 DEF Sound

(* For an event: the channel is in the poller, so that the connection is   *)
(* up, and on the base loop it is so only while the server lives.          *)
LEMMA HandleCloseStep ==
  ASSUME TypeOK, Threads, Placed, Sound, NEW c \in Conns, HandleClose(c)
  PROVE  Placed' /\ Sound' /\ ~undefined'
<1>0. Ordered /\ Lives /\ Base \in Loops
  BY LoopFacts DEF Sound
<1>1. /\ pc[loop_[c]] = "events" /\ c \in inPoller /\ stat_[c] # "kDisconnected"
      /\ Close(c) /\ functors' = functors
  BY DEF HandleClose
<1>2. Life(c) /\ (IF server = "alive" THEN Served(c) ELSE Abandoned(c))
  BY <1>0 DEF Lives
<1>3. Up(c)
  BY <1>1, <1>2 DEF Life, Up, TypeOK
<1>4. loop_[c] = Base => server = "alive"
  BY <1>1, <1>2, <1>3 DEF Abandoned
<1>5. /\ QueueInLoop(Base, Removal(c)) /\ Removal(c) \in FunctorType
      /\ Removal(c) \notin Waiting[Base] /\ \A d \in Conns : Removal(c) # CE(d)
  BY <1>1, <1>3, <1>4, Closing
<1>6. /\ Waiting'[Base] = Waiting[Base] \cup {Removal(c)}
      /\ \A k \in Loops \ {Base} : Waiting'[k] = Waiting[k]
      /\ Ordered'
  BY <1>0, <1>1, <1>5, Queueing
<1>7. /\ \A k \in Loops : \A f \in Waiting'[k] : f \in Waiting[k] \/ (k = Base /\ f = Removal(c))
      /\ \A k \in Loops : \A f \in Waiting[k] : f \in Waiting'[k]
      /\ Removal(c) \in Waiting'[Base]
  BY <1>6
<1> QED
  BY <1>1, <1>3, <1>4, <1>6, <1>7, CloseStep

(* By force.  A connection that is down is left as it is ...               *)
LEMMA LeftClosedStep ==
  ASSUME TypeOK, Threads, Placed, Sound, ~undefined, NEW l \in Loops, RunForceCloseInLoop(l),
         ~Up(Head(functors[l]).conn)
  PROVE  Placed' /\ Sound' /\ ~undefined'
<1> USE DEF serverVars, endVars, connVars
<1> SUFFICES ASSUME NEW c, c = Head(functors[l]).conn
             PROVE  Placed' /\ Sound' /\ ~undefined'
  OBVIOUS
<1>0. Ordered /\ Lives /\ LeftAlone /\ Base \in Loops
  BY LoopFacts DEF Sound
<1>1. /\ functors[l] # <<>> /\ functors' = [functors EXCEPT ![l] = Tail(@)]
      /\ Head(functors[l]).op = "forceCloseInLoop"
      /\ UNCHANGED <<serverVars, listening, endVars, connVars, pc, quit_, pendingFunctors_,
                     undefined>>
  BY DEF RunForceCloseInLoop, NextFunctor
<1>2. c \in Conns /\ Head(functors[l]) = FC(c)
  BY <1>1, HeadFacts
<1>3. /\ Waiting'[l] = Waiting[l] \ {FC(c)} /\ \A k \in Loops \ {l} : Waiting'[k] = Waiting[k]
      /\ Ordered'
  BY <1>0, <1>1, <1>2, Taking
<1>4. FC(c).op = "forceCloseInLoop"
  BY DEF FC, Functor
<1>5. /\ \A k \in Loops : \A f \in Waiting'[k] : f \in Waiting[k]
      /\ \A k \in Loops : \A f \in Waiting[k] :
           f \in Waiting'[k] \/ f.op \in {"listen", "forceCloseInLoop"}
  BY <1>3, <1>4
<1>6. \A d \in Conns : RC(d) \in Waiting[Base] => RC(d) \in Waiting'[Base]
  BY <1>0, <1>2, <1>3, FunctorFacts
<1>7. \A k \in Loops : Ended(k) => Ended(k)'
  BY <1>1 DEF Ended
<1> QED
  BY <1>0, <1>1, <1>3, <1>5, <1>6, <1>7, Kept DEF Sound

(* ... one that is up is closed.                                           *)
LEMMA RunForceCloseInLoopStep ==
  ASSUME TypeOK, Threads, Placed, Sound, ~undefined, NEW l \in Loops, RunForceCloseInLoop(l),
         l = Base => server # "gone"
  PROVE  Placed' /\ Sound' /\ ~undefined'
<1> USE DEF serverVars, endVars, connVars
<1> SUFFICES ASSUME NEW c, c = Head(functors[l]).conn
             PROVE  Placed' /\ Sound' /\ ~undefined'
  OBVIOUS
<1>0. Ordered /\ Base \in Loops
  BY LoopFacts DEF Sound
<1>1. /\ functors[l] # <<>> /\ functors' = [functors EXCEPT ![l] = Tail(@)]
      /\ Head(functors[l]).op = "forceCloseInLoop" /\ pc[l] = "functors"
      /\ l = Base => server = "alive"
      /\ ~Up(c) \/ Close(c)
  BY DEF RunForceCloseInLoop, NextFunctor, Proceeds
<1>2. /\ c \in Conns /\ Head(functors[l]) = FC(c) /\ l = loop_[c]
  BY <1>1, HeadFacts
<1>3. CASE Up(c) /\ Close(c)
  <2>1. /\ QueueInLoop(Base, Removal(c)) /\ Removal(c) \in FunctorType
        /\ Removal(c) \notin Waiting[Base]
        /\ \A d \in Conns : Removal(c) # CE(d) /\ Removal(c) # FC(d)
    BY <1>1, <1>2, <1>3, Closing
  <2> DEFINE f0 == Removal(c)
  <2>a. /\ f0 \in FunctorType /\ QueueInLoop(Base, f0) /\ f0 \notin Waiting[Base]
        /\ \A d \in Conns : f0 = CE(d) => CD(d) \notin Waiting[Base]
    BY <2>1
  <2> HIDE DEF f0
  <2>b. /\ \A k \in Loops : \A g : g \in Waiting'[k] <=>
             (g \in Waiting[k] /\ ~(k = l /\ g = Head(functors[l]))) \/ (k = Base /\ g = f0)
        /\ Ordered'
    BY <1>0, <1>1, <2>a, Passing
  <2>2. /\ \A k \in Loops : \A g : g \in Waiting'[k] <=>
             (g \in Waiting[k] /\ ~(k = l /\ g = FC(c))) \/ (k = Base /\ g = Removal(c))
        /\ Ordered'
    BY <1>2, <2>b DEF f0
  <2>3. /\ \A k \in Loops : \A f \in Waiting'[k] :
             f \in Waiting[k] \/ (k = Base /\ f = Removal(c))
        /\ \A k \in Loops : \A f \in Waiting[k] : f \in Waiting'[k] \/ f = FC(c)
        /\ Removal(c) \in Waiting'[Base]
    BY <1>0, <2>2
  <2>4. /\ loop_[c] = Base => server = "alive"
        /\ pc[loop_[c]] \in {"events", "functors"} /\ c \in Conns /\ Close(c) /\ Up(c) /\ Ordered'
    BY <1>1, <1>2, <1>3, <2>2
  <2> QED
    BY <2>3, <2>4, CloseStep
<1>4. CASE ~Up(c)
  BY <1>4, LeftClosedStep
<1> QED
  BY <1>1, <1>3, <1>4

(* What the user calls.  A connection that is up when the server has ended *)
(* safely is not there any more.                                           *)
LEMMA LeftUp ==
  ASSUME TypeOK, Placed, Sound, NEW c \in Conns, Up(c), Alive(c), server # "alive"
  PROVE  unsafeEnd \/ Ended(Base)
<1>0. Ordered /\ Lives /\ LeftAlone /\ Base \in Loops
  BY LoopFacts DEF Sound
<1> SUFFICES ASSUME loop_[c] = Base, ~unsafeEnd, ~Ended(Base) PROVE FALSE
  BY <1>0 DEF LeftAlone, Up
<1>1. Life(c) /\ Abandoned(c)
  BY <1>0 DEF Lives
<1>2. PICK l \in Loops : \E f \in Waiting[l] : f.conn = c
  BY <1>1, WaitingFacts DEF Abandoned
<1>3. PICK f \in Waiting[l] : f.conn = c
  BY <1>2
<1>4. AtPlace(l, f) /\ f # Listen
  BY <1>0, <1>2, <1>3, FunctorFacts DEF Placed
<1>5. f \in {CD(c), FC(c)} /\ l = Base
  BY <1>3, <1>4 DEF AtPlace
<1>6. CE(c) \notin Waiting[Base]
  BY <1>1 DEF Life, Up
<1>7. CD(c) \notin Waiting[Base]
  BY <1>1, <1>6 DEF Life, Abandoned
<1>8. FC(c) \notin Waiting[Base]
  BY <1>0 DEF LeftAlone, Up
<1> QED
  BY <1>3, <1>5, <1>7, <1>8

LEMMA UserStep ==
  ASSUME TypeOK, Threads, Placed, Sound, NEW c \in Conns, Shutdown(c) \/ ForceClose(c)
  PROVE  Placed' /\ Sound'
<1> USE DEF serverVars, endVars, connVars
<1> DEFINE l == loop_[c]
<1>0. Ordered /\ Lives /\ LeftAlone /\ Base \in Loops /\ l \in Loops
  BY LoopFacts DEF Sound, TypeOK
<1>1. /\ Alive(c) /\ Up(c)
      /\ stat_' = [stat_ EXCEPT ![c] = "kDisconnecting"]
      /\ UNCHANGED <<nextConnId_, connections_, server, unsafeEnd, loop_, inPoller, pc, functors>>
      /\ \/ UNCHANGED pendingFunctors_
         \/ FC(c) \notin Waiting[l] /\ QueueInLoop(l, FC(c))
  BY <1>0, WaitingFacts DEF Shutdown, ForceClose, UserOf, Up, FC
<1>2. Life(c) /\ (IF server = "alive" THEN Served(c) ELSE Abandoned(c))
  BY <1>0 DEF Lives
<1>3. c \in Known
  BY <1>1, <1>2 DEF Life, Up
<1>4. /\ FC(c) \in FunctorType /\ FC(c).conn = c
      /\ \A d \in Conns : FC(c) # CE(d) /\ FC(c) # CD(d) /\ FC(c) # RC(d)
  BY FunctorFacts
<1>5. /\ \A k \in Loops : \A f \in Waiting'[k] : f \in Waiting[k] \/ (k = l /\ f = FC(c))
      /\ \A k \in Loops : Waiting[k] \subseteq Waiting'[k]
      /\ Ordered'
  <2>1. CASE UNCHANGED pendingFunctors_
    BY <1>0, <1>1, <2>1, Left
  <2>2. CASE FC(c) \notin Waiting[l] /\ QueueInLoop(l, FC(c))
    BY <1>0, <1>1, <1>4, <2>2, Queueing
  <2> QED
    BY <1>1, <2>1, <2>2
<1>6. /\ loop_'[c] = l /\ stat_'[c] = "kDisconnecting" /\ Known' = Known
      /\ \A d \in Conns \ {c} : /\ stat_'[d] = stat_[d] /\ loop_'[d] = loop_[d]
                                /\ d \in Known' <=> d \in Known
                                /\ d \in connections_' <=> d \in connections_
                                /\ d \in inPoller' <=> d \in inPoller
  BY <1>1 DEF TypeOK, Known
<1>7. Placed'
  <2>1. AtPlace(l, FC(c))'
    BY <1>3, <1>6, FunctorFacts DEF AtPlace, CE, CD, RC, FC, Listen, Functor
  <2>2. FC(c)' = FC(c)
    BY DEF FC, Functor
  <2>3. \A k \in Loops : \A f \in Waiting'[k] : f \in Waiting[k] \/ AtPlace(k, f)'
    BY <1>1, <1>5, <2>1, <2>2 DEF AtPlace
  <2> QED
    BY <1>1, <1>6, <2>3, PlacedKept
<1>8. /\ CE(c) \in Waiting'[l] <=> CE(c) \in Waiting[l]
      /\ CD(c) \in Waiting'[l] <=> CD(c) \in Waiting[l]
      /\ RC(c) \in Waiting'[Base] <=> RC(c) \in Waiting[Base]
  BY <1>0, <1>4, <1>5
<1>9. Life(c)'
  BY <1>1, <1>2, <1>3, <1>6, <1>8 DEF Life, Up, CE, CD, RC, Functor
<1>10. IF server' = "alive" THEN Served(c)' ELSE Abandoned(c)'
  BY <1>1, <1>2, <1>6, <1>8 DEF Served, Abandoned, Up, Ended, CD, RC, Functor
<1>11. Lives'
  <2>1. \A k \in Loops : \A f : f.conn # c => (f \in Waiting'[k] <=> f \in Waiting[k])
    BY <1>4, <1>5
  <2> QED
    BY <1>0, <1>1, <1>6, <1>9, <1>10, <2>1, OthersKept
<1>12. LeftAlone'
  <2>1. server = "alive" \/ unsafeEnd \/ Ended(Base)
    BY <1>1, LeftUp
  <2> QED
    BY <1>1, <2>1 DEF LeftAlone, Ended
<1> QED
  BY <1>5, <1>7, <1>11, <1>12 DEF Sound

LEMMA RunConnectEstablishedStep ==
  ASSUME TypeOK, Threads, Placed, Sound, ~undefined, NEW l \in Loops, RunConnectEstablished(l)
  PROVE  Placed' /\ Sound'
<1> USE DEF serverVars, endVars, connVars
<1> SUFFICES ASSUME NEW c, c = Head(functors[l]).conn
             PROVE  Placed' /\ Sound'
  OBVIOUS
<1>0. Ordered /\ Lives /\ LeftAlone /\ Base \in Loops
  BY LoopFacts DEF Sound
<1>1. /\ functors[l] # <<>> /\ functors' = [functors EXCEPT ![l] = Tail(@)]
      /\ Head(functors[l]).op = "connectEstablished"
      /\ stat_' = [stat_ EXCEPT ![c] = "kConnected"] /\ inPoller' = inPoller \cup {c}
      /\ UNCHANGED <<nextConnId_, connections_, server, unsafeEnd, loop_, pc, pendingFunctors_>>
  BY DEF RunConnectEstablished, NextFunctor
<1>2. /\ c \in Conns /\ c \in Known /\ Head(functors[l]) = CE(c) /\ CE(c) \in Waiting[l]
      /\ l = loop_[c] /\ l # Base
  BY <1>1, HeadFacts
<1>3. /\ Waiting'[l] = Waiting[l] \ {CE(c)} /\ \A k \in Loops \ {l} : Waiting'[k] = Waiting[k]
      /\ Ordered'
  BY <1>0, <1>1, <1>2, Taking
<1>4. Life(c) /\ IF server = "alive" THEN Served(c) ELSE Abandoned(c)
  BY <1>0, <1>2 DEF Lives
<1>5. /\ stat_[c] = "kConnecting" /\ c \notin inPoller /\ RC(c) \notin Waiting[Base]
      /\ server = "alive" => c \in connections_ /\ CD(c) \notin Waiting[l]
      /\ server # "alive" => c \notin connections_ /\ (~Ended(l) => CD(c) \in Waiting[l])
  BY <1>2, <1>4 DEF Life, Served, Abandoned
<1>6. /\ loop_'[c] = l /\ stat_'[c] = "kConnected" /\ c \in inPoller' /\ Known' = Known
      /\ \A d \in Conns \ {c} : /\ stat_'[d] = stat_[d] /\ loop_'[d] = loop_[d]
                                /\ d \in Known' <=> d \in Known
                                /\ d \in connections_' <=> d \in connections_
                                /\ d \in inPoller' <=> d \in inPoller
  BY <1>1, <1>2 DEF TypeOK, Known
<1>7. Placed'
  BY <1>1, <1>3, <1>6, PlacedKept
<1>8. /\ CE(c) \notin Waiting'[l] /\ RC(c) \notin Waiting'[Base]
      /\ CD(c) \in Waiting'[l] <=> CD(c) \in Waiting[l]
  BY <1>0, <1>2, <1>3, <1>5, FunctorFacts
<1>9. Life(c)'
  BY <1>2, <1>6, <1>8 DEF Life, Up, CE, CD, RC, Functor
<1>10. IF server' = "alive" THEN Served(c)' ELSE Abandoned(c)'
  BY <1>1, <1>2, <1>5, <1>6, <1>8 DEF Served, Abandoned, Up, Ended, CD, RC, Functor
<1>11. Lives'
  <2>1. \A k \in Loops : \A f : f.conn # c => (f \in Waiting'[k] <=> f \in Waiting[k])
    BY <1>2, <1>3, FunctorFacts
  <2> QED
    BY <1>0, <1>1, <1>2, <1>6, <1>9, <1>10, <2>1, OthersKept
<1>12. LeftAlone'
  <2>1. server = "alive" \/ unsafeEnd \/ Ended(Base)
    BY <1>0, <1>2, <1>5 DEF LeftAlone
  <2> QED
    BY <1>1, <2>1 DEF LeftAlone, Ended
<1> QED
  BY <1>3, <1>7, <1>11, <1>12 DEF Sound

LEMMA RunConnectDestroyedStep ==
  ASSUME TypeOK, Threads, Placed, Sound, ~undefined, NEW l \in Loops, RunConnectDestroyed(l)
  PROVE  Placed' /\ Sound'
<1> USE DEF serverVars, endVars, connVars
<1> SUFFICES ASSUME NEW c, c = Head(functors[l]).conn
             PROVE  Placed' /\ Sound'
  OBVIOUS
<1>0. Ordered /\ Lives /\ LeftAlone /\ Base \in Loops
  BY LoopFacts DEF Sound
<1>1. /\ functors[l] # <<>> /\ functors' = [functors EXCEPT ![l] = Tail(@)]
      /\ Head(functors[l]).op = "connectDestroyed"
      /\ stat_' = [stat_ EXCEPT ![c] = IF @ = "kConnected" THEN "kDisconnected" ELSE @]
      /\ inPoller' = inPoller \ {c}
      /\ UNCHANGED <<nextConnId_, connections_, server, unsafeEnd, loop_, pc, pendingFunctors_>>
  BY DEF RunConnectDestroyed, NextFunctor
<1>2. /\ c \in Conns /\ c \in Known /\ Head(functors[l]) = CD(c) /\ CD(c) \in Waiting[l]
      /\ l = loop_[c] /\ c \in inPoller /\ CE(c) \notin Waiting[l]
  BY <1>0, <1>1, HeadReady
<1>3. /\ Waiting'[l] = Waiting[l] \ {CD(c)} /\ \A k \in Loops \ {l} : Waiting'[k] = Waiting[k]
      /\ Ordered'
  BY <1>0, <1>1, <1>2, Taking
<1>4. Life(c) /\ IF server = "alive" THEN Served(c) ELSE Abandoned(c)
  BY <1>0, <1>2 DEF Lives
<1>5. /\ stat_[c] \in {"kConnected", "kDisconnecting", "kDisconnected"}
      /\ Up(c) => server # "alive" /\ RC(c) \notin Waiting[Base]
      /\ server = "alive" => c \notin connections_ /\ RC(c) \notin Waiting[Base]
      /\ server # "alive" => c \notin connections_
  <2>1. stat_[c] \in {"none", "kConnecting", "kConnected", "kDisconnecting", "kDisconnected"}
    BY <1>2 DEF TypeOK
  <2> QED
    BY <1>2, <1>4, <2>1 DEF Life, Served, Abandoned, Up
<1>6. /\ loop_'[c] = l /\ c \notin inPoller' /\ Known' = Known
      /\ stat_'[c] = IF stat_[c] = "kDisconnecting" THEN "kDisconnecting" ELSE "kDisconnected"
      /\ \A d \in Conns \ {c} : /\ stat_'[d] = stat_[d] /\ loop_'[d] = loop_[d]
                                /\ d \in Known' <=> d \in Known
                                /\ d \in connections_' <=> d \in connections_
                                /\ d \in inPoller' <=> d \in inPoller
  BY <1>1, <1>2, <1>5 DEF TypeOK, Known
<1>7. Placed'
  BY <1>1, <1>3, <1>6, PlacedKept
<1>8. /\ CE(c) \notin Waiting'[l] /\ CD(c) \notin Waiting'[l]
      /\ RC(c) \in Waiting'[Base] <=> RC(c) \in Waiting[Base]
  BY <1>0, <1>2, <1>3, <1>5, FunctorFacts
<1>r. /\ stat_[c] = "kDisconnecting" => RC(c) \notin Waiting'[Base] /\ server # "alive"
      /\ server = "alive" => stat_'[c] = "kDisconnected" /\ RC(c) \notin Waiting'[Base]
  BY <1>5, <1>6, <1>8 DEF Up
<1>9. Life(c)'
  BY <1>2, <1>6, <1>8, <1>r DEF Life, Up, CE, CD, RC, Functor
<1>10. IF server' = "alive" THEN Served(c)' ELSE Abandoned(c)'
  <2>1. CASE server = "alive"
    BY <1>1, <1>5, <1>6, <1>8, <1>r, <2>1 DEF Served, Up, CD, RC, Functor
  <2>2. CASE server # "alive"
    BY <1>1, <1>5, <1>6, <2>2 DEF Abandoned, Up, Ended, CD, RC, Functor
  <2> QED
    BY <2>1, <2>2
<1>11. Lives'
  <2>1. \A k \in Loops : \A f : f.conn # c => (f \in Waiting'[k] <=> f \in Waiting[k])
    BY <1>2, <1>3, FunctorFacts
  <2> QED
    BY <1>0, <1>1, <1>2, <1>6, <1>9, <1>10, <2>1, OthersKept
<1>12. LeftAlone'
  <2>1. \A d \in Conns : /\ RC(d) \in Waiting'[Base] => RC(d) \in Waiting[Base]
                         /\ FC(d) \in Waiting'[Base] => FC(d) \in Waiting[Base]
                         /\ stat_[d] = "kDisconnected" => stat_'[d] = "kDisconnected"
                         /\ stat_[d] \in {"none", "kDisconnected"} =>
                              stat_'[d] \in {"none", "kDisconnected"}
                         /\ loop_'[d] = loop_[d]
    BY <1>0, <1>1, <1>3, <1>6
  <2>2. Listen \in Waiting'[Base] => Listen \in Waiting[Base]
    BY <1>0, <1>3
  <2> QED
    BY <1>0, <1>1, <2>1, <2>2 DEF LeftAlone, Ended, RC, FC, Listen, Functor
<1> QED
  BY <1>3, <1>7, <1>11, <1>12 DEF Sound

(* removeConnectionInLoop, while the server is there.                      *)
LEMMA RunRemoveConnectionInLoopStep ==
  ASSUME TypeOK, Threads, Placed, Sound, ~undefined, RunRemoveConnectionInLoop, server # "gone"
  PROVE  Placed' /\ Sound'
<1> USE DEF serverVars, endVars, connVars
<1> SUFFICES ASSUME NEW c, c = Head(functors[Base]).conn, NEW l, l = loop_[c]
             PROVE  Placed' /\ Sound'
  OBVIOUS
<1>0. Ordered /\ Lives /\ LeftAlone /\ Base \in Loops
  BY LoopFacts DEF Sound
<1>1. /\ functors[Base] # <<>> /\ functors' = [functors EXCEPT ![Base] = Tail(@)]
      /\ Head(functors[Base]).op = "removeConnectionInLoop"
      /\ connections_' = connections_ \ {c} /\ QueueInLoop(l, CD(c))
      /\ UNCHANGED <<nextConnId_, stat_, inPoller, server, unsafeEnd, loop_, pc>>
      /\ server = "alive"
  BY DEF RunRemoveConnectionInLoop, RemoveConnectionInLoop, NextFunctor, Proceeds, CD
<1>2. /\ c \in Conns /\ c \in Known /\ Head(functors[Base]) = RC(c) /\ RC(c) \in Waiting[Base]
      /\ l \in Loops \ {Base} /\ CD(c) \in FunctorType
  BY <1>0, <1>1, HeadFacts, FunctorFacts DEF TypeOK
<1>3. Life(c) /\ Served(c)
  BY <1>0, <1>1, <1>2 DEF Lives
<1>4. /\ stat_[c] = "kDisconnected" /\ c \in inPoller /\ CD(c) \notin Waiting[l]
      /\ CE(c) \notin Waiting[l]
  <2>1. stat_[c] \in {"none", "kConnecting", "kConnected", "kDisconnecting", "kDisconnected"}
    BY <1>2 DEF TypeOK
  <2> QED
    BY <1>2, <1>3, <2>1 DEF Life, Served, Up
<1>p. \A d \in Conns : CD(c) = CE(d) => CD(d) \notin Waiting[l]
  BY <1>2, FunctorFacts
<1>5. /\ \A k \in Loops : \A g : g \in Waiting'[k] <=>
           (g \in Waiting[k] /\ ~(k = Base /\ g = RC(c))) \/ (k = l /\ g = CD(c))
      /\ Ordered'
  <2> DEFINE f0 == CD(c)
  <2>1. /\ f0 \in FunctorType /\ QueueInLoop(l, f0) /\ f0 \notin Waiting[l] /\ l \in Loops
        /\ \A d \in Conns : f0 = CE(d) => CD(d) \notin Waiting[l]
    BY <1>1, <1>2, <1>4, <1>p
  <2> HIDE DEF f0
  <2>2. /\ \A k \in Loops : \A g : g \in Waiting'[k] <=>
             (g \in Waiting[k] /\ ~(k = Base /\ g = Head(functors[Base]))) \/ (k = l /\ g = f0)
        /\ Ordered'
    BY <1>0, <1>1, <2>1, Passing
  <2> QED
    BY <1>2, <2>2 DEF f0
<1>6. /\ loop_'[c] = l /\ stat_'[c] = "kDisconnected" /\ c \in inPoller' /\ Known' = Known
      /\ c \notin connections_'
      /\ \A d \in Conns \ {c} : /\ stat_'[d] = stat_[d] /\ loop_'[d] = loop_[d]
                                /\ d \in Known' <=> d \in Known
                                /\ d \in connections_' <=> d \in connections_
                                /\ d \in inPoller' <=> d \in inPoller
  BY <1>1, <1>2, <1>4 DEF Known
<1>7. Placed'
  <2>1. AtPlace(l, CD(c))'
    BY <1>2, <1>6, FunctorFacts DEF AtPlace, CE, CD, RC, FC, Listen, Functor
  <2> QED
    BY <1>1, <1>5, <1>6, <2>1, PlacedKept
<1>8. /\ CE(c) \notin Waiting'[l] /\ CD(c) \in Waiting'[l] /\ RC(c) \notin Waiting'[Base]
  BY <1>0, <1>2, <1>5, <1>4, FunctorFacts
<1>9. Life(c)' /\ Served(c)'
  BY <1>2, <1>6, <1>8 DEF Life, Served, Up, CE, CD, RC, Functor
<1>10. Lives'
  <2>1. \A k \in Loops : \A f : f.conn # c => (f \in Waiting'[k] <=> f \in Waiting[k])
    BY <1>2, <1>5, FunctorFacts
  <2> QED
    BY <1>0, <1>1, <1>2, <1>6, <1>9, <2>1, OthersKept
<1> QED
  BY <1>1, <1>5, <1>7, <1>10 DEF Sound, LeftAlone

(* An acceptor listens while the server is there.                          *)
LEMMA RunListenStep ==
  ASSUME TypeOK, Threads, Placed, Sound, ~undefined, RunListen, server # "gone"
  PROVE  Placed' /\ Sound'
<1> USE DEF serverVars, endVars, connVars
<1>0. Ordered /\ Lives /\ LeftAlone /\ Base \in Loops
  BY LoopFacts DEF Sound
<1>1. /\ functors[Base] # <<>> /\ functors' = [functors EXCEPT ![Base] = Tail(@)]
      /\ Head(functors[Base]).op = "listen"
      /\ UNCHANGED <<nextConnId_, connections_, stat_, inPoller, server, unsafeEnd, loop_, pc,
                     pendingFunctors_>>
  BY DEF RunListen, NextFunctor
<1>2. Head(functors[Base]) = Listen
  BY <1>0, <1>1, HeadFacts
<1>3. /\ Waiting'[Base] = Waiting[Base] \ {Listen}
      /\ \A k \in Loops \ {Base} : Waiting'[k] = Waiting[k]
      /\ Ordered'
  BY <1>0, <1>1, <1>2, Taking
<1>4. /\ \A l \in Loops : \A f \in Waiting'[l] : f \in Waiting[l]
      /\ \A l \in Loops : \A f \in Waiting[l] : f \in Waiting'[l] \/ f.op = "listen"
      /\ \A c \in Conns : RC(c) \in Waiting[Base] => RC(c) \in Waiting'[Base]
  BY <1>0, <1>1, <1>2, <1>3, FunctorFacts
<1>5. \A l \in Loops : Ended(l) => Ended(l)'
  BY <1>1 DEF Ended
<1> QED
  BY <1>0, <1>1, <1>3, <1>4, <1>5, Kept DEF Sound

LEMMA BeginDestroyStep ==
  ASSUME TypeOK, Threads, Placed, Sound, ~undefined, BeginDestroy
  PROVE  Placed' /\ Sound'
<1> USE DEF serverVars, endVars, connVars
<1>0. Ordered /\ Lives /\ LeftAlone /\ Base \in Loops
  BY LoopFacts DEF Sound
<1>1. /\ server = "alive" /\ server' = "quitting" /\ unsafeEnd' = ~SafeEnd
      /\ stat_' = [c \in Conns |-> IF c \in DestroyedByServer(Base) /\ stat_[c] = "kConnected"
                                   THEN "kDisconnected" ELSE stat_[c]]
      /\ inPoller' = inPoller \ DestroyedByServer(Base) /\ connections_' = {}
      /\ UNCHANGED <<nextConnId_, loop_, pc, functors>>
  BY DEF BeginDestroy
<1>2. \A l \in Loops : \A c : c \in DestroyedByServer(l) <=> c \in connections_ /\ loop_[c] = l
  BY DEF DestroyedByServer
<1>3. ASSUME NEW c \in Conns
      PROVE  /\ Life(c) /\ Served(c) /\ loop_[c] \in Loops
             /\ stat_[c] \in {"none", "kConnecting", "kConnected", "kDisconnecting", "kDisconnected"}
             /\ c \in connections_ => c \in Known /\ CD(c) \notin Waiting[loop_[c]]
             /\ c \in connections_ /\ loop_[c] = Base =>
                  stat_[c] \in {"kConnected", "kDisconnecting"} /\ RC(c) \notin Waiting[Base]
             /\ c \notin connections_ =>
                  /\ stat_[c] \in {"none", "kDisconnected"}
                  /\ c \in inPoller => CD(c) \in Waiting[loop_[c]]
             /\ stat_[c] = "kConnecting" => CE(c) \in Waiting[loop_[c]] /\ loop_[c] # Base
             /\ c \in connections_ => c \in inPoller \/ CE(c) \in Waiting[loop_[c]]
  <2>1. /\ Life(c) /\ Served(c) /\ loop_[c] \in Loops
        /\ stat_[c] \in {"none", "kConnecting", "kConnected", "kDisconnecting", "kDisconnected"}
    BY <1>0, <1>1 DEF Lives, TypeOK
  <2>2. \A l \in Loops \ {Base} : ~Ended(l)
    BY <1>1 DEF Threads
  <2>3. RC(c) \in Waiting[Base] => loop_[c] # Base
    BY <1>0, FunctorFacts DEF Placed, AtPlace
  <2>4. stat_[c] = "kConnecting" => CE(c) \in Waiting[loop_[c]] /\ loop_[c] # Base
    BY <2>1, <2>2 DEF Life
  <2>a. Up(c) => c \in inPoller /\ RC(c) \notin Waiting[Base] /\ CD(c) \notin Waiting[loop_[c]]
    BY <2>1 DEF Life, Served
  <2>5. c \in connections_ => c \in Known /\ stat_[c] # "none"
    BY <2>1 DEF Life
  <2>6. c \in connections_ /\ stat_[c] = "kDisconnected" => c \in inPoller /\ RC(c) \in Waiting[Base]
    BY <2>1 DEF Served
  <2>7. c \in connections_ => CD(c) \notin Waiting[loop_[c]]
    BY <2>1, <2>5, <2>a DEF Served, Up
  <2>8. c \in connections_ => c \in inPoller \/ CE(c) \in Waiting[loop_[c]]
    BY <2>1, <2>4, <2>5, <2>6, <2>a DEF Up
  <2>9. c \notin connections_ => /\ stat_[c] \in {"none", "kDisconnected"}
                                 /\ c \in inPoller => CD(c) \in Waiting[loop_[c]]
    BY <2>1 DEF Life, Served, Up
  <2>10. c \in connections_ /\ loop_[c] = Base =>
           stat_[c] \in {"kConnected", "kDisconnecting"} /\ RC(c) \notin Waiting[Base]
    BY <2>1, <2>3, <2>4, <2>5, <2>6, <2>a DEF Up
  <2> QED
    BY <2>1, <2>4, <2>5, <2>7, <2>8, <2>9, <2>10
<1>4. /\ \A l \in Loops : \A f :
           f \in Waiting'[l] <=>
             f \in Waiting[l] \/ (l # Base /\ \E c \in connections_ : loop_[c] = l /\ f = CD(c))
      /\ Ordered'
  <2>1. connections_ \subseteq Conns
    BY DEF TypeOK
  <2>2. \A l \in Loops \ {Base} : \A c \in DestroyedByServer(l) : CD(c) \notin Waiting[l]
    BY <1>2, <1>3, <2>1
  <2>3. /\ \A l \in Loops : \A f :
             f \in Waiting'[l] <=>
               f \in Waiting[l] \/ (l # Base /\ \E c \in DestroyedByServer(l) : f = CD(c))
        /\ Ordered'
    BY <1>0, <2>2, Destroying
  <2> QED
    BY <1>2, <2>3
<1>5. Known' = Known /\ loop_' = loop_
  BY <1>1 DEF Known
<1>6. Placed'
  <2>1. ASSUME NEW c \in connections_ PROVE AtPlace(loop_[c], CD(c))'
    <3>1. c \in Conns /\ c \in Known
      BY <1>3 DEF TypeOK
    <3> QED
      BY <1>5, <3>1, FunctorFacts DEF AtPlace, CE, CD, RC, FC, Listen, Functor
  <2>2. \A l \in Loops : \A f \in Waiting'[l] :
          f \in Waiting[l] \/ \E c \in connections_ : loop_[c] = l /\ f = CD(c)
    BY <1>4
  <2>3. ASSUME NEW l \in Loops, NEW f \in Waiting'[l], f \notin Waiting[l] PROVE AtPlace(l, f)'
    <3>1. PICK c \in connections_ : loop_[c] = l /\ f = CD(c)
      BY <2>2, <2>3
    <3>2. CD(c)' = CD(c)
      BY DEF CD, Functor
    <3> QED
      BY <1>5, <2>1, <3>1, <3>2 DEF AtPlace
  <2> QED
    BY <1>5, <2>3, PlacedKept
<1>7. ASSUME NEW c \in Conns PROVE Life(c)' /\ Abandoned(c)'
  <2> DEFINE l == loop_[c]
  <2>1. /\ CE(c) \in Waiting'[l] <=> CE(c) \in Waiting[l]
        /\ RC(c) \in Waiting'[Base] <=> RC(c) \in Waiting[Base]
        /\ CD(c) \in Waiting'[l] <=> CD(c) \in Waiting[l] \/ (l # Base /\ c \in connections_)
    <3>1. \A d \in connections_ : d \in Conns
      BY DEF TypeOK
    <3>2. \A d \in connections_ : /\ CE(c) # CD(d) /\ RC(c) # CD(d) /\ (CD(c) = CD(d) => c = d)
      BY <3>1, FunctorFacts
    <3> QED
      BY <1>0, <1>3, <1>4, <3>2
  <2>2. /\ stat_'[c] = IF c \in connections_ /\ l = Base /\ stat_[c] = "kConnected"
                       THEN "kDisconnected" ELSE stat_[c]
        /\ c \in inPoller' <=> c \in inPoller /\ ~(c \in connections_ /\ l = Base)
    BY <1>0, <1>1, <1>2
  <2>3. c \notin connections_' /\ loop_'[c] = l /\ (c \in Known' <=> c \in Known)
    BY <1>1, <1>5
  <2>4. Life(c)'
    <3>1. CASE c \in connections_ /\ l = Base
      BY <1>3, <2>1, <2>2, <2>3, <3>1 DEF Life, Up, CE, CD, RC, Functor
    <3>2. CASE ~(c \in connections_ /\ l = Base)
      <4>1. stat_'[c] = stat_[c] /\ (c \in inPoller' <=> c \in inPoller)
        BY <2>2, <3>2
      <4>2. CD(c) \in Waiting'[l] => c \in inPoller \/ CE(c) \in Waiting[l]
        BY <1>3, <2>1 DEF Life
      <4>3. Life(c)
        BY <1>3
      <4>4. stat_[c] = "kConnecting" => CE(c) \in Waiting[l]
        BY <1>3
      <4> QED
        BY <1>1, <2>1, <2>3, <4>1, <4>2, <4>3, <4>4 DEF Life, Up, CE, CD, RC, Functor
    <3> QED
      BY <3>1, <3>2
  <2>5. Abandoned(c)'
    <3>1. CASE c \in connections_ /\ l = Base
      BY <1>3, <2>2, <2>3, <3>1 DEF Abandoned, Up
    <3>2. CASE c \in connections_ /\ l # Base
      BY <2>1, <2>3, <3>2 DEF Abandoned, Up, Ended, CD, RC, Functor
    <3>3. CASE c \notin connections_
      <4>1. stat_'[c] = stat_[c] /\ (c \in inPoller' <=> c \in inPoller)
        BY <2>2, <3>3
      <4> QED
        BY <1>3, <2>1, <2>3, <3>3, <4>1 DEF Abandoned, Up, Ended, CD, RC, Functor
    <3> QED
      BY <3>1, <3>2, <3>3
  <2> QED
    BY <2>4, <2>5
<1>8. Lives'
  BY <1>1, <1>7 DEF Lives
<1>9. LeftAlone'
  <2> SUFFICES ASSUME SafeEnd, ~Ended(Base)
               PROVE  /\ Listen \notin Waiting[Base]
                      /\ \A c \in Conns : /\ RC(c) \notin Waiting[Base]
                                          /\ loop_[c] # Base => stat_[c] \in {"none", "kDisconnected"}
                                          /\ FC(c) \in Waiting[Base] => stat_[c] = "kDisconnected"
    <3>1. Waiting'[Base] = Waiting[Base]
      BY <1>0, <1>4
    <3>2. \A c \in Conns : stat_[c] = stat_'[c] \/ stat_'[c] = "kDisconnected"
      BY <1>1
    <3> QED
      BY <1>1, <3>1, <3>2 DEF LeftAlone, Ended, RC, FC, Listen, Functor
  <2>1. /\ ~Queued(Base, Listen) /\ \A c \in Conns : ~Queued(Base, RC(c))
        /\ \A c \in connections_ : loop_[c] = Base /\ ~Queued(Base, FC(c))
    BY DEF SafeEnd, Ended, Listen, RC, FC
  <2>2. /\ Listen \notin Waiting[Base] /\ \A c \in Conns : RC(c) \notin Waiting[Base]
        /\ \A c \in connections_ : FC(c) \notin Waiting[Base]
    BY <1>0, <2>1, WaitingFacts
  <2>3. ASSUME NEW c \in Conns, FC(c) \in Waiting[Base] PROVE stat_[c] = "kDisconnected"
    <3>1. c \in Known
      BY <1>0, <2>3, FunctorFacts DEF Placed, AtPlace
    <3>2. c \notin connections_ /\ stat_[c] # "none"
      BY <1>3, <2>2, <2>3, <3>1 DEF Life
    <3> QED
      BY <1>3, <3>2
  <2> QED
    BY <1>3, <2>1, <2>2, <2>3
<1> QED
  BY <1>4, <1>6, <1>8, <1>9 DEF Sound

-----------------------------------------------------------------------------
(* A functor that refers to a server that is gone: the behaviour ends with *)
(* it.                                                                     *)
LEMMA LateStep ==
  ASSUME TypeOK, Threads, Placed, Sound, ~undefined, server = "gone",
         \/ RunListen \/ RunRemoveConnectionInLoop
         \/ RunForceCloseInLoop(Base) /\ Up(Head(functors[Base]).conn)
  PROVE  Placed' /\ undefined' /\ unsafeEnd' /\ RemovedOnce' /\ GoneCleanly'
<1> USE DEF serverVars, endVars, connVars
<1>0. Ordered /\ Lives /\ LeftAlone /\ Base \in Loops
  BY LoopFacts DEF Sound
<1>1. /\ functors[Base] # <<>> /\ functors' = [functors EXCEPT ![Base] = Tail(@)]
      /\ pc[Base] = "functors" /\ undefined'
      /\ UNCHANGED <<nextConnId_, server, unsafeEnd, loop_, pc>>
  BY DEF RunListen, RunRemoveConnectionInLoop, RunForceCloseInLoop, Close, NextFunctor
<1>2. \/ /\ Head(functors[Base]) = Listen /\ Listen \in Waiting[Base]
         /\ UNCHANGED <<pendingFunctors_, stat_, inPoller>>
      \/ \E c \in Known \cap Conns :
           /\ loop_[c] \in Loops /\ CD(c) \in FunctorType /\ QueueInLoop(loop_[c], CD(c))
           /\ \/ /\ Head(functors[Base]) = RC(c) /\ RC(c) \in Waiting[Base]
                 /\ UNCHANGED <<stat_, inPoller>>
              \/ /\ Head(functors[Base]) = FC(c) /\ FC(c) \in Waiting[Base] /\ Up(c)
                 /\ stat_' = [stat_ EXCEPT ![c] = "kDisconnected"]
                 /\ inPoller' = inPoller \cup {c}
  <2>1. CASE RunListen
    BY <1>0, <2>1, HeadFacts DEF RunListen, NextFunctor
  <2> DEFINE c == Head(functors[Base]).conn
  <2>2. CASE RunRemoveConnectionInLoop
    <3>1. /\ Head(functors[Base]).op = "removeConnectionInLoop" /\ QueueInLoop(loop_[c], CD(c))
          /\ UNCHANGED <<stat_, inPoller>>
      BY <2>2 DEF RunRemoveConnectionInLoop, RemoveConnectionInLoop, NextFunctor, CD
    <3> HIDE DEF c
    <3>2. /\ c \in Known \cap Conns /\ Head(functors[Base]) = RC(c) /\ RC(c) \in Waiting[Base]
      BY <1>0, <1>1, <3>1, HeadFacts DEF c
    <3>3. loop_[c] \in Loops /\ CD(c) \in FunctorType
      BY <3>2, FunctorFacts DEF TypeOK
    <3> QED
      BY <3>1, <3>2, <3>3
  <2>3. CASE RunForceCloseInLoop(Base) /\ Up(c)
    <3>1. Head(functors[Base]).op = "forceCloseInLoop" /\ Close(c) /\ Up(c)
      BY <2>3 DEF RunForceCloseInLoop, NextFunctor
    <3> HIDE DEF c
    <3>2. /\ c \in Known \cap Conns /\ Head(functors[Base]) = FC(c) /\ FC(c) \in Waiting[Base]
          /\ loop_[c] = Base
      BY <1>0, <1>1, <3>1, HeadFacts DEF c
    <3>3. loop_[c] \in Loops /\ CD(c) \in FunctorType
      BY <3>2, FunctorFacts DEF TypeOK
    <3>4. /\ QueueInLoop(loop_[c], CD(c))
          /\ stat_' = [stat_ EXCEPT ![c] = "kDisconnected"] /\ inPoller' = inPoller \cup {c}
      BY <3>1, <3>2 DEF Close, RemoveConnectionInLoop, CD
    <3> QED
      BY <3>1, <3>2, <3>3, <3>4
  <2> QED
    BY <2>1, <2>2, <2>3
<1>3. unsafeEnd'
  <2>1. ~Ended(Base) /\ server # "alive"
    BY <1>1 DEF Ended
  <2>2. \A c \in Conns : Up(c) => stat_[c] # "kDisconnected"
    BY DEF Up
  <2> QED
    BY <1>0, <1>1, <1>2, <2>1, <2>2 DEF LeftAlone
<1>4. \A l \in Loops : \A f \in Waiting'[l] :
        \/ f \in Waiting[l]
        \/ \E c \in Known \cap Conns : f = CD(c) /\ l = loop_[c]
  <2>1. CASE UNCHANGED pendingFunctors_
    BY <1>0, <1>1, <2>1, Taking
  <2>2. ASSUME NEW c \in Known \cap Conns, loop_[c] \in Loops, CD(c) \in FunctorType,
               QueueInLoop(loop_[c], CD(c)), NEW l \in Loops, NEW f \in Waiting'[l]
        PROVE  f \in Waiting[l] \/ (f = CD(c) /\ l = loop_[c])
    BY <1>0, <1>1, <2>2, Passing
  <2> QED
    BY <1>2, <2>1, <2>2
<1>5. \A l \in Loops : \A f \in Waiting[l] :
        f \in Waiting'[l] \/ f = Listen \/ \E c \in Conns : f \in {RC(c), FC(c)}
  <2>1. CASE Head(functors[Base]) = Listen /\ UNCHANGED pendingFunctors_
    BY <1>0, <1>1, <2>1, Taking
  <2>2. ASSUME NEW c \in Known \cap Conns, loop_[c] \in Loops, CD(c) \in FunctorType,
               QueueInLoop(loop_[c], CD(c)), Head(functors[Base]) \in {RC(c), FC(c)},
               NEW l \in Loops, NEW f \in Waiting[l]
        PROVE  f \in Waiting'[l] \/ f \in {RC(c), FC(c)}
    <3> DEFINE f0 == CD(c)
               m == loop_[c]
    <3>1. f0 \in FunctorType /\ m \in Loops /\ QueueInLoop(m, f0)
      BY <2>2
    <3> HIDE DEF f0, m
    <3>2. \A k \in Loops : \A g :
            g \in Waiting[k] /\ ~(k = Base /\ g = Head(functors[Base])) => g \in Waiting'[k]
      BY <1>0, <1>1, <3>1, Passing
    <3> QED
      BY <2>2, <3>2
  <2> QED
    BY <1>2, <2>1, <2>2
<1>6. /\ Known' = Known
      /\ \A c \in Conns :
           \/ stat_'[c] = stat_[c] /\ (c \in inPoller' <=> c \in inPoller)
           \/ CD(c) \in Waiting'[loop_[c]]
      /\ inPoller \subseteq inPoller'
  <2>1. CASE UNCHANGED <<stat_, inPoller>>
    BY <1>1, <2>1 DEF Known
  <2>2. ASSUME NEW c \in Known \cap Conns, loop_[c] \in Loops, CD(c) \in FunctorType,
               QueueInLoop(loop_[c], CD(c)), stat_' = [stat_ EXCEPT ![c] = "kDisconnected"],
               inPoller' = inPoller \cup {c}
        PROVE  /\ \A d \in Conns :
                    \/ stat_'[d] = stat_[d] /\ (d \in inPoller' <=> d \in inPoller)
                    \/ CD(d) \in Waiting'[loop_[d]]
               /\ inPoller \subseteq inPoller'
    <3>1. CD(c) \in Waiting'[loop_[c]]
      BY <1>0, <1>1, <2>2, Passing
    <3> QED
      BY <2>2, <3>1 DEF TypeOK
  <2>3. Known' = Known
    BY <1>1 DEF Known
  <2> QED
    BY <1>2, <2>1, <2>2, <2>3
<1>7. Placed'
  <2>1. ASSUME NEW c \in Known \cap Conns PROVE AtPlace(loop_[c], CD(c))'
    BY <1>1, <1>6, FunctorFacts DEF AtPlace, CE, CD, RC, FC, Listen, Functor
  <2>2. ASSUME NEW l \in Loops, NEW f \in Waiting'[l], f \notin Waiting[l] PROVE AtPlace(l, f)'
    <3>1. PICK c \in Known \cap Conns : f = CD(c) /\ l = loop_[c]
      BY <1>4, <2>2
    <3>2. CD(c)' = CD(c)
      BY DEF CD, Functor
    <3> QED
      BY <1>1, <2>1, <3>1, <3>2 DEF AtPlace
  <2> QED
    BY <1>1, <1>6, <2>2, PlacedKept
<1>8. RemovedOnce'
  <2>1. RemovedOnce
    BY <1>0, Destroyable
  <2>2. ASSUME NEW l \in Loops, l # Base
        PROVE  functors'[l] # <<>> /\ Head(functors'[l]).op = "connectDestroyed"
                 => Head(functors'[l]).conn \in inPoller'
    <3>1. functors'[l] = functors[l]
      BY <1>1, <2>2
    <3> QED
      BY <1>6, <2>1, <3>1 DEF RemovedOnce
  <2>3. ASSUME functors'[Base] # <<>>, Head(functors'[Base]).op = "connectDestroyed"
        PROVE  Head(functors'[Base]).conn \in inPoller'
    <3> DEFINE s == functors[Base]
               t == Tail(s)
               f == Head(t)
               c == f.conn
    <3>1. s \in Seq(FunctorType) /\ s # <<>> /\ functors'[Base] = t
      BY <1>0, <1>1, WaitingFacts DEF Queues
    <3>2. t \in Seq(FunctorType) /\ Elems(t) \subseteq Elems(s)
      <4> HIDE DEF s
      <4> QED
        BY <3>1, ElemsTail
    <3>3. f \in Elems(t)
      <4>1. t # <<>>
        BY <2>3, <3>1
      <4> HIDE DEF t
      <4> QED
        BY <3>2, <4>1, ElemsTail
    <3>4. f \in Waiting[Base]
      <4>1. Waiting[Base] = Elems(s) \cup Elems(pendingFunctors_[Base])
        BY <1>0 DEF Waiting, WaitingIn
      <4> QED
        BY <3>2, <3>3, <4>1
    <3>5. f.op = "connectDestroyed"
      BY <2>3, <3>1
    <3> HIDE DEF f, s, t
    <3>6. f = CD(c) /\ c \in Known /\ c \in Conns /\ loop_[c] = Base
      <4>1. AtPlace(Base, f)
        BY <1>0, <3>4 DEF Placed
      <4> QED
        BY <3>5, <4>1, KnownConns DEF AtPlace, CE, CD, RC, FC, Listen, Functor
    <3>7. CE(c) \notin Waiting[Base]
      <4>1. ~AtPlace(Base, CE(c))
        BY <3>6, FunctorFacts DEF AtPlace
      <4> QED
        BY <1>0, <4>1 DEF Placed
    <3>8. c \in inPoller
      BY <1>0, <3>4, <3>6, <3>7 DEF Lives, Life
    <3> QED
      BY <1>6, <3>1, <3>8 DEF f
  <2> QED
    BY <1>0, <2>2, <2>3 DEF RemovedOnce
<1>9. GoneCleanly'
  <2> SUFFICES ASSUME NEW c \in Known, ~Alive(c)', ~Ended(loop_[c])
               PROVE  c \notin inPoller' /\ stat_'[c] \in {"kDisconnected", "kDisconnecting"}
    BY <1>1, <1>6 DEF GoneCleanly, Known, Ended
  <2>1. c \in Conns /\ Life(c) /\ Abandoned(c) /\ loop_[c] = Base
    BY <1>0, KnownConns, PoolEnded DEF Lives, Ended
  <2>2. CD(c) \notin Waiting'[Base]
    <3> SUFFICES ASSUME CD(c) \in Waiting'[Base] PROVE FALSE
      OBVIOUS
    <3>1. \E q \in {pendingFunctors_', functors'} : \E i \in DOMAIN q[Base] : q[Base][i] = CD(c)
      BY <1>0 DEF Waiting, WaitingIn, Elems
    <3>2. CD(c).conn = c
      BY <2>1, FunctorFacts
    <3> QED
      BY <1>0, <3>1, <3>2 DEF Alive
  <2>3. CD(c) \notin Waiting[Base]
    BY <1>0, <1>5, <2>1, <2>2, FunctorFacts
  <2>4. RC(c) \notin Waiting[Base]
    BY <1>0, <2>1, FunctorFacts DEF Placed, AtPlace
  <2>5. c \notin inPoller /\ stat_[c] # "kConnecting" /\ stat_[c] # "none"
    BY <2>1, <2>3, <2>4 DEF Life, Abandoned
  <2>6. stat_[c] \in {"kDisconnected", "kDisconnecting"}
    BY <2>1, <2>5 DEF Abandoned, Up, TypeOK
  <2> QED
    BY <1>6, <2>1, <2>2, <2>5, <2>6
<1> QED
  BY <1>1, <1>3, <1>7, <1>8, <1>9

-----------------------------------------------------------------------------
LEMMA SoundStates == TypeOK /\ Placed /\ Sound => RemovedOnce /\ GoneCleanly
  BY Destroyable, Clean DEF Sound

LEMMA SoundStatesNext == TypeOK' /\ Placed' /\ Sound' => RemovedOnce' /\ GoneCleanly'
  BY SoundStates, PTL

LEMMA SoundStep ==
  ASSUME TypeOK, Threads, Placed, Sound, Next
  PROVE  /\ Placed' /\ (undefined' \/ Sound')
         /\ RemovedOnce' /\ GoneCleanly' /\ (undefined' => unsafeEnd')
<1> DEFINE Late == /\ server = "gone"
                   /\ \/ RunListen \/ RunRemoveConnectionInLoop
                      \/ RunForceCloseInLoop(Base) /\ Up(Head(functors[Base]).conn)
<1>0. ~undefined /\ TypeOK'
  BY TypeStep DEF Next
<1>1. CASE Late
  BY <1>0, <1>1, LateStep
<1>2. CASE ~Late
  <2>1. Placed' /\ Sound' /\ ~undefined'
    <3>1. CASE \/ Start \/ StartElsewhere \/ QuitBase \/ DestroyBaseLoop \/ ClientConnects
               \/ AcceptFails \/ QuitThread \/ JoinThread \/ EndDestroy
               \/ \E l \in Loops : EnterLoop(l) \/ SwapFunctors(l) \/ EndBatch(l)
      <4>1. Placed' /\ Sound'
        BY <1>0, <3>1, ControlStep
      <4>2. undefined' = undefined
        BY <3>1 DEF Start, StartElsewhere, StartPool, QuitBase, DestroyBaseLoop, ClientConnects,
                    AcceptFails, QuitThread, JoinThread, EndDestroy, EnterLoop, SwapFunctors,
                    EndBatch
      <4> QED
        BY <1>0, <4>1, <4>2
    <3>2. CASE BeginDestroy
      BY <1>0, <3>2, BeginDestroyStep DEF BeginDestroy
    <3>3. CASE NewConnection
      BY <1>0, <3>3, NewConnectionStep DEF NewConnection
    <3>4. CASE RunListen
      BY <1>0, <1>2, <3>4, RunListenStep DEF RunListen
    <3>5. CASE RunRemoveConnectionInLoop
      BY <1>0, <1>2, <3>5, RunRemoveConnectionInLoopStep DEF RunRemoveConnectionInLoop
    <3>6. CASE \E c \in Conns : HandleClose(c)
      BY <1>0, <3>6, HandleCloseStep
    <3>7. CASE \E l \in Loops : RunConnectEstablished(l) \/ RunConnectDestroyed(l)
      <4>1. Placed' /\ Sound'
        BY <1>0, <3>7, RunConnectEstablishedStep, RunConnectDestroyedStep
      <4>2. undefined' = undefined
        BY <3>7 DEF RunConnectEstablished, RunConnectDestroyed
      <4> QED
        BY <1>0, <4>1, <4>2
    <3>8. ASSUME NEW l \in Loops, RunForceCloseInLoop(l) PROVE Placed' /\ Sound' /\ ~undefined'
      <4>1. CASE l = Base => server # "gone"
        BY <1>0, <3>8, <4>1, RunForceCloseInLoopStep
      <4>2. CASE l = Base /\ server = "gone"
        <5>1. ~Up(Head(functors[l]).conn)
          BY <1>2, <3>8, <4>2
        <5> QED
          BY <1>0, <3>8, <5>1, LeftClosedStep
      <4> QED
        BY <4>1, <4>2
    <3>9. ASSUME NEW c \in Conns, Shutdown(c) \/ ForceClose(c)
          PROVE  Placed' /\ Sound' /\ ~undefined'
      BY <1>0, <3>9, UserStep DEF Shutdown, ForceClose
    <3> QED
      BY Steps, <3>1, <3>2, <3>3, <3>4, <3>5, <3>6, <3>7, <3>8, <3>9
  <2> QED
    BY <1>0, <2>1, SoundStatesNext
<1> QED
  BY <1>1, <1>2

LEMMA Inductive == Spec => []IInv
<1>1. Init => IInv
  <2>1. Init => TypeOK /\ Threads /\ Placed /\ Sound
    BY TypeInit, ThreadsInit, SoundInit
  <2>2. Init => NoUseAfterDestruction
    BY DEF Init, NoUseAfterDestruction
  <2> QED
    BY <2>1, <2>2, SoundStates DEF IInv, Core
<1>2. IInv /\ [Next]_vars => IInv'
  <2> SUFFICES ASSUME IInv, [Next]_vars PROVE IInv'
    OBVIOUS
  <2>1. CASE Next
    <3>1. TypeOK /\ Threads /\ Placed /\ Sound
      BY <2>1 DEF IInv, Core, Next
    <3>2. TypeOK' /\ Threads'
      BY <2>1, <3>1, TypeStep, ThreadsStep
    <3>3. /\ Placed' /\ (undefined' \/ Sound')
          /\ RemovedOnce' /\ GoneCleanly' /\ (undefined' => unsafeEnd')
      BY <2>1, <3>1, SoundStep
    <3> QED
      BY <3>2, <3>3 DEF IInv, Core, NoUseAfterDestruction
  <2>2. CASE UNCHANGED vars
    <3> USE <2>2 DEF vars, serverVars, endVars, connVars
    <3>1. TypeOK'
      BY DEF IInv, TypeOK
    <3>2. Waiting' = Waiting /\ Known' = Known
      BY DEF Waiting, Known
    <3>3. Threads' /\ Placed'
      BY <3>2 DEF IInv, Core, Threads, Placed, AtPlace, Ended, CE, CD, RC, FC, Listen, Functor
    <3>4. Ordered' = Ordered /\ undefined' = undefined
      BY DEF Ordered
    <3>5. ASSUME NEW c \in Conns, IF server = "alive" THEN Served(c) ELSE Abandoned(c), Life(c)
          PROVE  Life(c)' /\ IF server' = "alive" THEN Served(c)' ELSE Abandoned(c)'
      BY <3>2, <3>5 DEF Life, Served, Abandoned, Up, Ended, CE, CD, RC, Functor
    <3>6. Lives => Lives'
      BY <3>5 DEF Lives
    <3>7. LeftAlone => LeftAlone'
      BY <3>2 DEF LeftAlone, Ended, RC, FC, Listen, Functor
    <3>8. RemovedOnce' /\ NoUseAfterDestruction'
      BY DEF IInv, RemovedOnce, NoUseAfterDestruction
    <3>9. GoneCleanly'
      BY DEF IInv, GoneCleanly, Alive
    <3> QED
      BY <3>1, <3>3, <3>4, <3>6, <3>7, <3>8, <3>9 DEF IInv, Core, Sound
  <2> QED
    BY <2>1, <2>2
<1> QED
  BY <1>1, <1>2, PTL DEF Spec

(* The functors of a server are typed, as are its queues and batches.      *)
THEOREM TypeCorrect == Spec => []TypeOK
<1>1. IInv => TypeOK
  BY DEF IInv
<1> QED
  BY <1>1, Inductive, PTL

(* While the server lives each connection is in the map until its removal  *)
(* runs and has one functor on its way exactly when it is established,     *)
(* removed or destroyed, and connectDestroyed always finds the channel in  *)
(* the poller, before and after the server's end: whether the connection   *)
(* closes for an event or by forceCloseInLoop, and whatever it is in the   *)
(* middle of when ~TcpServer runs.  The calls of its user are on its loop, *)
(* which is what makes it close once.                                      *)
THEOREM HandShakeCorrect == Spec => []HandShakeHolds
<1>1. IInv => HandShakeHolds
  BY Accounting DEF IInv, Core, Sound, HandShakeHolds
<1> QED
  BY <1>1, Inductive, PTL

(* A connection whose last shared_ptr goes is out of its poller, and its   *)
(* user was told that it is down, unless the loop ended first or the       *)
(* connection was shutting down when the server ended: connectDestroyed    *)
(* leaves that one kDisconnecting and tells nobody.                        *)
THEOREM CleanEnd == Spec => []GoneCleanly
<1>1. IInv => GoneCleanly
  BY DEF IInv
<1> QED
  BY <1>1, Inductive, PTL

(* No functor and no closing connection uses a server that is gone, if its *)
(* base loop had returned when it was destroyed, or no functor for it was  *)
(* queued, no connection of another loop was left, and forceClose had not  *)
(* been called for one of the base loop.                                   *)
THEOREM UseSafe == Spec => []NoUseAfterDestruction
<1>1. IInv => NoUseAfterDestruction
  BY DEF IInv
<1> QED
  BY <1>1, Inductive, PTL

=============================================================================
