--------------------------- MODULE TcpServerProofs ---------------------------
(***************************************************************************)
(* Proofs about TcpServer, for any size of the pools and any bounds.       *)
(***************************************************************************)
EXTENDS TcpServerInv, TLAPS, SequenceTheorems

\* Lemma: what taking the first element of a list leaves.
LEMMA TailRange ==
    ASSUME NEW S, NEW s \in Seq(S), s # <<>>
    PROVE  /\ Head(s) \in S /\ Tail(s) \in Seq(S) /\ Len(Tail(s)) = Len(s) - 1
           /\ Len(s) \in Nat \ {0}
           /\ Range(s) = {Head(s)} \cup Range(Tail(s))
           /\ IsInjective(s) => IsInjective(Tail(s)) /\ Head(s) \notin Range(Tail(s))
<1>1. /\ Len(s) \in Nat \ {0} /\ DOMAIN s = 1..Len(s) /\ DOMAIN Tail(s) = 1..(Len(s) - 1)
      /\ Head(s) = s[1] /\ \A k \in 1..(Len(s) - 1) : Tail(s)[k] = s[k + 1]
  BY HeadTailProperties, LenProperties, EmptySeq
<1>2. Range(s) \subseteq {Head(s)} \cup Range(Tail(s))
  <2>1. \A k \in 2..Len(s) : k - 1 \in 1..(Len(s) - 1) /\ Tail(s)[k - 1] = s[k]
    BY <1>1
  <2>2. \A k \in 1..Len(s) : k = 1 \/ k \in 2..Len(s)
    BY <1>1
  <2>3. \A k \in 1..Len(s) : s[k] \in {Head(s)} \cup Range(Tail(s))
    BY <1>1, <2>1, <2>2 DEF Range
  <2> QED BY <1>1, <2>3 DEF Range
<1>3. {Head(s)} \cup Range(Tail(s)) \subseteq Range(s)
  BY <1>1 DEF Range
<1>4. IsInjective(s) => IsInjective(Tail(s)) /\ Head(s) \notin Range(Tail(s))
  BY <1>1 DEF Range, IsInjective
<1> QED BY <1>1, <1>2, <1>3, <1>4, HeadTailProperties

\* Lemma: what putting an element in front of a list makes of it.
LEMMA ConsRange ==
    ASSUME NEW S, NEW s \in Seq(S), NEW e \in S
    PROVE  /\ <<e>> \o s \in Seq(S) /\ Len(<<e>> \o s) = Len(s) + 1
           /\ Range(<<e>> \o s) = {e} \cup Range(s)
           /\ IsInjective(s) /\ e \notin Range(s) => IsInjective(<<e>> \o s)
<1>1. <<e>> \in Seq(S) /\ Len(<<e>>) = 1 /\ <<e>>[1] = e
  OBVIOUS
<1>2. /\ <<e>> \o s \in Seq(S) /\ Len(<<e>> \o s) = Len(s) + 1 /\ Len(s) \in Nat
      /\ (<<e>> \o s)[1] = e /\ \A k \in 1..Len(s) : (<<e>> \o s)[k + 1] = s[k]
  BY <1>1, ConcatProperties, LenProperties
<1>3. DOMAIN s = 1..Len(s) /\ DOMAIN (<<e>> \o s) = 1..(Len(s) + 1)
  BY <1>2, LenProperties
<1>4. \A k \in 2..(Len(s) + 1) : k - 1 \in 1..Len(s) /\ (<<e>> \o s)[k] = s[k - 1]
  BY <1>2
<1>5. Range(<<e>> \o s) = {e} \cup Range(s)
  <2> DEFINE r == <<e>> \o s
  <2>1. \A k \in 1..(Len(s) + 1) : k = 1 \/ k \in 2..(Len(s) + 1)
    BY <1>2
  <2>2. \A k \in 1..(Len(s) + 1) : r[k] \in {e} \cup Range(s)
    BY <1>2, <1>3, <1>4, <2>1 DEF Range
  <2>3. 1 \in 1..(Len(s) + 1) /\ \A k \in 1..Len(s) : k + 1 \in 1..(Len(s) + 1)
    BY <1>2
  <2>4. e \in Range(r) /\ \A k \in 1..Len(s) : s[k] \in Range(r)
    BY <1>2, <1>3, <2>3 DEF Range
  <2> QED BY <1>2, <1>3, <2>2, <2>4 DEF Range
<1>6. IsInjective(s) /\ e \notin Range(s) => IsInjective(<<e>> \o s)
  BY <1>2, <1>3, <1>4 DEF Range, IsInjective
<1> QED BY <1>2, <1>5, <1>6

\* Lemma: what appending an element to a list makes of it.
LEMMA AppendRange ==
    ASSUME NEW S, NEW s \in Seq(S), NEW e \in S
    PROVE  /\ Append(s, e) \in Seq(S) /\ Len(Append(s, e)) = Len(s) + 1
           /\ Range(Append(s, e)) = Range(s) \cup {e}
           /\ IsInjective(s) /\ e \notin Range(s) => IsInjective(Append(s, e))
<1>1. /\ Append(s, e) \in Seq(S) /\ Len(Append(s, e)) = Len(s) + 1 /\ Len(s) \in Nat
      /\ DOMAIN s = 1..Len(s) /\ DOMAIN Append(s, e) = 1..(Len(s) + 1)
      /\ Append(s, e)[Len(s) + 1] = e /\ \A k \in 1..Len(s) : Append(s, e)[k] = s[k]
  BY AppendProperties, LenProperties
<1>2. \A k \in 1..(Len(s) + 1) : k \in 1..Len(s) \/ k = Len(s) + 1
  BY <1>1
<1>3. Range(Append(s, e)) = Range(s) \cup {e}
  BY <1>1, <1>2 DEF Range
<1>4. IsInjective(s) /\ e \notin Range(s) => IsInjective(Append(s, e))
  BY <1>1, <1>2 DEF Range, IsInjective
<1> QED BY <1>1, <1>3, <1>4

\* Lemma: what erasing the element at a position leaves of a list.
LEMMA RemoveAtRange ==
    ASSUME NEW S, NEW s \in Seq(S), NEW k \in DOMAIN s
    PROVE  /\ RemoveAt(s, k) \in Seq(S) /\ Len(RemoveAt(s, k)) = Len(s) - 1 /\ Len(s) \in Nat \ {0}
           /\ IsInjective(s) => IsInjective(RemoveAt(s, k)) /\ Range(RemoveAt(s, k)) = Range(s) \ {s[k]}
<1> DEFINE n == Len(s)
           a == SubSeq(s, 1, k - 1)
           b == SubSeq(s, k + 1, n)
<1>1. n \in Nat /\ DOMAIN s = 1..n /\ \A j \in 1..n : s[j] \in S
  BY LenProperties
<1>2. k \in 1..n
  BY <1>1
<1> HIDE DEF n
<1>3. a \in Seq(S) /\ Len(a) = k - 1 /\ \A j \in 1..(k - 1) : a[j] = s[j]
  <2>1. 1 \in Int /\ k - 1 \in Int /\ \A j \in 1..(k - 1) : s[j] \in S
    BY <1>1, <1>2
  <2> QED BY <1>2, <2>1, SubSeqProperties, Z3
<1>4. b \in Seq(S) /\ Len(b) = n - k /\ \A j \in 1..(n - k) : b[j] = s[k + j]
  <2>1. k + 1 \in Int /\ n \in Int /\ \A j \in (k + 1)..n : s[j] \in S
    BY <1>1, <1>2
  <2>2. /\ b \in Seq(S) /\ Len(b) = (IF k + 1 <= n THEN n - (k + 1) + 1 ELSE 0)
        /\ \A j \in 1..(n - (k + 1) + 1) : b[j] = s[(k + 1) + j - 1]
    BY <2>1, SubSeqProperties, Z3
  <2> QED BY <1>1, <1>2, <2>2
<1>5. RemoveAt(s, k) = a \o b
  BY DEF RemoveAt, n
<1> HIDE DEF a, b
<1> DEFINE r == a \o b
<1>6. /\ r \in Seq(S) /\ Len(r) = n - 1
      /\ \A j \in 1..(n - 1) : r[j] = IF j < k THEN s[j] ELSE s[j + 1]
  <2>1. r \in Seq(S) /\ Len(r) = Len(a) + Len(b)
        /\ \A j \in 1..(Len(a) + Len(b)) : r[j] = IF j <= Len(a) THEN a[j] ELSE b[j - Len(a)]
    BY <1>3, <1>4, ConcatProperties
  <2>2. Len(r) = n - 1
    BY <1>1, <1>2, <1>3, <1>4, <2>1
  <2>3. ASSUME NEW j \in 1..(n - 1) PROVE r[j] = IF j < k THEN s[j] ELSE s[j + 1]
    <3>1. CASE j < k
      BY <3>1, <1>1, <1>2, <1>3, <1>4, <2>1
    <3>2. CASE ~(j < k)
      <4>1. j - (k - 1) \in 1..(n - k) /\ k + (j - (k - 1)) = j + 1
        BY <3>2, <1>1, <1>2
      <4>2. r[j] = b[j - (k - 1)]
        BY <3>2, <1>1, <1>2, <1>3, <1>4, <2>1
      <4> HIDE DEF r
      <4>3. b[j - (k - 1)] = s[j + 1]
        BY <4>1, <1>4
      <4> QED BY <3>2, <4>2, <4>3
    <3> QED BY <3>1, <3>2
  <2> QED BY <2>1, <2>2, <2>3
<1>7. DOMAIN r = 1..(n - 1)
  BY <1>6, LenProperties
<1> HIDE DEF r
<1>8. IsInjective(s) => IsInjective(r)
  <2>1. SUFFICES ASSUME IsInjective(s), NEW x \in 1..(n - 1), NEW y \in 1..(n - 1), r[x] = r[y]
                 PROVE  x = y
    BY <1>7 DEF IsInjective
  <2>2. /\ x \in 1..n /\ y \in 1..n /\ x + 1 \in 1..n /\ y + 1 \in 1..n
        /\ \A u, v \in 1..n : s[u] = s[v] => u = v
    BY <2>1, <1>1, <1>2 DEF IsInjective
  <2>3. (IF x < k THEN x ELSE x + 1) = (IF y < k THEN y ELSE y + 1)
    BY <2>1, <2>2, <1>6
  <2> QED BY <2>3, <1>2
<1>9. IsInjective(s) => Range(r) = Range(s) \ {s[k]}
  <2>1. SUFFICES ASSUME IsInjective(s) PROVE Range(r) = Range(s) \ {s[k]}
    OBVIOUS
  <2>2. ASSUME NEW j \in 1..(n - 1) PROVE r[j] \in Range(s) \ {s[k]}
    <3>1. PICK i \in 1..n : i # k /\ r[j] = s[i]
      <4>1. CASE j < k
        <5>1. j \in 1..n /\ j # k
          BY <4>1, <1>1, <1>2
        <5> QED BY <4>1, <5>1, <1>6
      <4>2. CASE ~(j < k)
        <5>1. j + 1 \in 1..n /\ j + 1 # k
          BY <4>2, <1>1, <1>2
        <5> QED BY <4>2, <5>1, <1>6
      <4> QED BY <4>1, <4>2
    <3>2. s[i] # s[k]
      BY <2>1, <3>1, <1>1, <1>2 DEF IsInjective
    <3> QED BY <3>1, <3>2, <1>1 DEF Range
  <2>3. ASSUME NEW j \in 1..n, j # k PROVE s[j] \in Range(r)
    <3>1. CASE j < k
      BY <3>1, <1>1, <1>2, <1>6, <1>7 DEF Range
    <3>2. CASE ~(j < k)
      <4>1. j - 1 \in 1..(n - 1) /\ ~(j - 1 < k) /\ (j - 1) + 1 = j
        BY <3>2, <2>3, <1>1, <1>2
      <4>2. r[j - 1] = s[j]
        BY <4>1, <1>6
      <4> QED BY <4>1, <4>2, <1>7 DEF Range
    <3> QED BY <3>1, <3>2
  <2> QED BY <2>2, <2>3, <1>1, <1>7 DEF Range
<1> QED BY <1>1, <1>2, <1>5, <1>6, <1>8, <1>9 DEF r, n

-----------------------------------------------------------------------------
(* The types and the sizes of the pools.                                   *)

\* Lemma: the pools loadConfig fills have their types and sizes.
LEMMA TypeInit == Init => TypeInv
<1> SUFFICES ASSUME Init PROVE TypeInv
  OBVIOUS
<1> USE TcpConstants
<1>1. \A n \in Nat : [k \in 1..n |-> k] \in Seq(1..n) /\ Len([k \in 1..n |-> k]) = n
  OBVIOUS
<1>2. freeConns \in Seq(Obj) /\ Len(freeConns) = MaxConn
  BY <1>1 DEF Init, Obj
<1>3. freeBufs \in Seq(Buf) /\ Len(freeBufs) = 2 * MaxConn
  BY <1>1 DEF Init, Buf
<1>4. conn \in [Obj -> Conn]
  BY DEF Init, NoConn, Conn, State
<1>5. buff \in [Buf -> [rq : Seq(UpMsg), sq : Seq(Packet)]]
  BY DEF Init, NoBytes
<1>6. Types
  BY <1>2, <1>3, <1>4, <1>5 DEF Init, Types
<1>7. Sizes
  BY <1>2, <1>3 DEF Init, Sizes
<1>8. Ids
  BY DEF Init, Ids, NoConn
<1> QED BY <1>6, <1>7, <1>8 DEF TypeInv

\* Lemma: the completions that closing a socket queues.
LEMMA AbortedType ==
    ASSUME NEW o \in Obj, NEW c \in Conn, c.id # 0
    PROVE  /\ Aborted(o, c) \in Seq(Entry)
           /\ \A k \in 1..Len(Aborted(o, c)) :
                 Aborted(o, c)[k] = [obj |-> o, id |-> c.id, early |-> phase = "run"]
           /\ c.rd = "none" /\ ~c.wr => Aborted(o, c) = <<>>
<1> DEFINE e == [obj |-> o, id |-> c.id, early |-> phase = "run"]
<1>1. e \in Entry
  BY DEF Entry, Conn
<1> HIDE DEF e
<1>2. Aborted(o, c) = (IF c.rd # "none" THEN <<e>> ELSE <<>>) \o (IF c.wr THEN <<e>> ELSE <<>>)
  BY DEF Aborted, e
<1>3. <<e>> \in Seq(Entry) /\ <<>> \in Seq(Entry) /\ Len(<<e>>) = 1 /\ <<e>>[1] = e
  BY <1>1
<1>4. Aborted(o, c) \in {<<>> \o <<>>, <<e>> \o <<>>, <<>> \o <<e>>, <<e>> \o <<e>>}
  BY <1>2
<1>5. <<>> \o <<>> = <<>> /\ <<e>> \o <<>> = <<e>> /\ <<>> \o <<e>> = <<e>>
  BY <1>3, ConcatEmptySeq
<1>6. /\ <<e>> \o <<e>> \in Seq(Entry) /\ Len(<<e>> \o <<e>>) = 2
      /\ (<<e>> \o <<e>>)[1] = e /\ (<<e>> \o <<e>>)[2] = e
  BY <1>3, ConcatProperties
<1>7. /\ Aborted(o, c) \in Seq(Entry)
      /\ \A k \in 1..Len(Aborted(o, c)) : Aborted(o, c)[k] = e
  <2>1. CASE Aborted(o, c) = <<>>
    BY <2>1
  <2>2. CASE Aborted(o, c) = <<e>>
    BY <2>2, <1>3
  <2>3. CASE Aborted(o, c) = <<e>> \o <<e>>
    <3>1. \A k \in 1..2 : k = 1 \/ k = 2
      OBVIOUS
    <3> QED BY <2>3, <1>6, <3>1
  <2> QED BY <2>1, <2>2, <2>3, <1>4, <1>5
<1> QED BY <1>2, <1>5, <1>7 DEF e

\* The completions queued after those of q are all for object o.
Grown(q, r, o) ==
    /\ r \in Seq(Entry) /\ Len(r) >= Len(q)
    /\ \A k \in 1..Len(q) : r[k] = q[k]
    /\ \A k \in (Len(q) + 1)..Len(r) :
          r[k] = [obj |-> o, id |-> conn[o].id, early |-> phase = "run"]

\* Lemma: appending completions of one object.
LEMMA GrownConcat ==
    ASSUME NEW q \in Seq(Entry), NEW a \in Seq(Entry), NEW o \in Obj,
           \A k \in 1..Len(a) : a[k] = [obj |-> o, id |-> conn[o].id, early |-> phase = "run"]
    PROVE  Grown(q, q \o a, o)
<1>1. /\ q \o a \in Seq(Entry) /\ Len(q \o a) = Len(q) + Len(a)
      /\ Len(q) \in Nat /\ Len(a) \in Nat
      /\ \A k \in 1..(Len(q) + Len(a)) : (q \o a)[k] = IF k <= Len(q) THEN q[k] ELSE a[k - Len(q)]
  BY ConcatProperties, LenProperties
<1>2. \A k \in (Len(q) + 1)..(Len(q) + Len(a)) :
         k \in 1..(Len(q) + Len(a)) /\ ~(k <= Len(q)) /\ k - Len(q) \in 1..Len(a)
  BY <1>1
<1>3. \A k \in 1..Len(q) : (q \o a)[k] = q[k]
  BY <1>1
<1>4. \A k \in (Len(q) + 1)..(Len(q) + Len(a)) :
        (q \o a)[k] = [obj |-> o, id |-> conn[o].id, early |-> phase = "run"]
  BY <1>1, <1>2
<1> QED BY <1>1, <1>3, <1>4 DEF Grown

\* The state force_close leaves, reached from an object it does not find
\* DISCONNECTED; q is the queue before the completions it adds.
Shut(o, q) ==
    /\ conn' = [conn EXCEPT ![o] = Closed(conn[o])]
    /\ buff' = [buff EXCEPT ![conn[o].buf] = NoBytes]
    /\ events' = [events EXCEPT ![conn[o].id] = @ + 1]
    /\ Grown(q, posted', o)

\* Lemma: force_close, whatever operations are pending on the socket.
LEMMA ForceCloseShape ==
    ASSUME NEW o \in Obj, conn \in [Obj -> Conn], conn[o].id # 0, NEW q \in Seq(Entry), NEW c,
           c \in {conn[o], [conn[o] EXCEPT !.rd = "none"], [conn[o] EXCEPT !.wr = FALSE]},
           ForceClose(o, c, q)
    PROVE  \/ /\ conn[o].st = "DISCONNECTED" /\ posted' = q
              /\ UNCHANGED <<conn, buff, events>>
           \/ conn[o].st # "DISCONNECTED" /\ Shut(o, q)
<1>1. /\ c \in Conn /\ c.st = conn[o].st /\ c.id = conn[o].id /\ c.buf = conn[o].buf
      /\ Closed(c) = Closed(conn[o])
  BY DEF Conn, Closed
<1>2. CASE c.st = "DISCONNECTED"
  BY <1>1, <1>2 DEF ForceClose
<1>3. CASE c.st # "DISCONNECTED"
  <2>1. /\ Aborted(o, c) \in Seq(Entry)
        /\ \A k \in 1..Len(Aborted(o, c)) :
              Aborted(o, c)[k] = [obj |-> o, id |-> conn[o].id, early |-> phase = "run"]
    BY <1>1, AbortedType
  <2>2. Grown(q, q \o Aborted(o, c), o)
    BY <2>1, GrownConcat
  <2> QED BY <1>1, <1>3, <2>2 DEF ForceClose, Shut
<1> QED BY <1>2, <1>3

\* Lemma: handleDisconnectAck of a close in progress.
LEMMA ReadAckShape ==
    ASSUME NEW o \in Obj, conn \in [Obj -> Conn], conn[o].id # 0, posted \in Seq(Entry), ReadAck(o)
    PROVE  /\ conn[o].st = "DISCONNECTING"
           /\ conn' = [conn EXCEPT ![o] = [Closed(conn[o]) EXCEPT !.st = "CONNECTED"]]
           /\ buff' = [buff EXCEPT ![conn[o].buf] = NoBytes]
           /\ events' = [events EXCEPT ![conn[o].id] = @ + 1]
           /\ Grown(posted, posted', o) /\ Len(posted') > Len(posted)
<1> DEFINE c == [conn[o] EXCEPT !.rd = "none"]
           a == Aborted(o, c)
           e == [obj |-> o, id |-> c.id, early |-> FALSE]
<1>1. /\ c \in Conn /\ c.st = conn[o].st /\ c.id = conn[o].id /\ c.buf = conn[o].buf
      /\ Closed(c) = Closed(conn[o])
  BY DEF Conn, Closed
<1>2. /\ c.st = "DISCONNECTING" /\ phase # "run"
      /\ posted' = posted \o a \o <<e>>
      /\ conn' = [conn EXCEPT ![o] = [Closed(c) EXCEPT !.st = "CONNECTED"]]
      /\ buff' = [buff EXCEPT ![c.buf] = NoBytes]
      /\ events' = [events EXCEPT ![c.id] = @ + 1]
  BY DEF ReadAck, ReadingAck, Reading, Reactor
<1>3. e = [obj |-> o, id |-> conn[o].id, early |-> phase = "run"] /\ e \in Entry
  BY <1>1, <1>2 DEF Entry, Conn
<1>4. a \in Seq(Entry) /\ \A k \in 1..Len(a) : a[k] = e
  BY <1>1, <1>3, AbortedType
<1> HIDE DEF a, c, e
<1>5. <<e>> \in Seq(Entry) /\ Len(<<e>>) = 1 /\ <<e>>[1] = e
  BY <1>3
<1>6. posted' = posted \o (a \o <<e>>)
  BY <1>2, <1>4, <1>5, ConcatAssociative
<1>7. /\ a \o <<e>> \in Seq(Entry) /\ Len(a \o <<e>>) = Len(a) + 1 /\ Len(a) \in Nat
      /\ \A k \in 1..(Len(a) + 1) : (a \o <<e>>)[k] = IF k <= Len(a) THEN a[k] ELSE <<e>>[k - Len(a)]
  BY <1>4, <1>5, ConcatProperties, LenProperties
<1>8. \A k \in 1..Len(a \o <<e>>) : (a \o <<e>>)[k] = e
  <2>1. SUFFICES ASSUME NEW k \in 1..(Len(a) + 1) PROVE (a \o <<e>>)[k] = e
    BY <1>7
  <2>2. CASE k <= Len(a)
    BY <2>2, <1>4, <1>7
  <2>3. CASE ~(k <= Len(a))
    <3>1. k - Len(a) = 1
      BY <2>3, <1>7
    <3> QED BY <2>3, <3>1, <1>5, <1>7
  <2> QED BY <2>2, <2>3
<1>9. Grown(posted, posted', o)
  BY <1>3, <1>6, <1>7, <1>8, GrownConcat
<1>10. Len(posted') > Len(posted)
  <2>1. Len(posted') = Len(posted) + Len(a \o <<e>>) /\ Len(posted) \in Nat
    BY <1>6, <1>7, ConcatProperties, LenProperties
  <2> QED BY <2>1, <1>7
<1> QED BY <1>1, <1>2, <1>9, <1>10

\* A step that leaves the pools alone, and every object its connection.
Kept ==
    /\ UNCHANGED <<pool, currId>>
    /\ \A o \in Obj : /\ conn'[o].id = conn[o].id /\ conn'[o].buf = conn[o].buf
                      /\ conn[o].id = 0 => conn'[o] = conn[o]
                      /\ conn[o].id # 0 /\ conn[o].st # "NOT_USE" => conn'[o].st # "NOT_USE"

\* The types of what force_close and the application's calls change.
Typed ==
    /\ conn' \in [Obj -> Conn] /\ buff' \in [Buf -> [rq : Seq(UpMsg), sq : Seq(Packet)]]
    /\ events' \in [Id -> Nat] /\ posted' \in Seq(Entry)
    /\ Kept
    /\ \A p \in Obj : conn'[p].rd = "body" => conn[p].rd = "body"
    /\ \A k \in 1..Len(posted') : conn[posted'[k].obj].id # 0

\* Lemma: a queue of completions of objects that had a connection stays one.
LEMMA GrownTypes ==
    ASSUME NEW q \in Seq(Entry), NEW r, NEW o \in Obj, conn[o].id # 0, Grown(q, r, o),
           \A k \in 1..Len(q) : conn[q[k].obj].id # 0
    PROVE  r \in Seq(Entry) /\ \A k \in 1..Len(r) : conn[r[k].obj].id # 0
<1>1. Len(q) \in Nat /\ r \in Seq(Entry) /\ Len(r) \in Nat
  BY LenProperties DEF Grown
<1>2. \A k \in 1..Len(r) : k \in 1..Len(q) \/ k \in (Len(q) + 1)..Len(r)
  BY <1>1
<1>3. \A k \in (Len(q) + 1)..Len(r) : r[k].obj = o
  BY DEF Grown
<1>4. \A k \in 1..Len(q) : r[k] = q[k]
  BY DEF Grown
<1> QED BY <1>1, <1>2, <1>3, <1>4

\* Lemma: the types after force_close.
LEMMA ShutTypes ==
    ASSUME TypeInv, NEW o \in Obj, conn[o].id # 0, NEW q \in Seq(Entry),
           \A k \in 1..Len(q) : conn[q[k].obj].id # 0,
           Shut(o, q), UNCHANGED <<pool, currId>>
    PROVE  Typed
<1>0. /\ conn \in [Obj -> Conn] /\ buff \in [Buf -> [rq : Seq(UpMsg), sq : Seq(Packet)]]
      /\ events \in [Id -> Nat]
  BY DEF TypeInv, Types
<1>1. Closed(conn[o]) \in Conn /\ Closed(conn[o]).id = conn[o].id /\ Closed(conn[o]).buf = conn[o].buf
      /\ Closed(conn[o]).rd = "none" /\ Closed(conn[o]).st = "DISCONNECTED"
  <2>1. conn[o] \in Conn
    BY <1>0
  <2> QED BY <2>1 DEF Conn, Closed, State
<1>2. conn' \in [Obj -> Conn] /\ Kept /\ \A p \in Obj : conn'[p].rd = "body" => conn[p].rd = "body"
  BY <1>0, <1>1 DEF Shut, Kept
<1>3. buff' \in [Buf -> [rq : Seq(UpMsg), sq : Seq(Packet)]]
  <2>1. NoBytes \in [rq : Seq(UpMsg), sq : Seq(Packet)]
    BY DEF NoBytes
  <2> QED BY <1>0, <2>1 DEF Shut
<1>4. events' \in [Id -> Nat]
  <2>1. conn[o].id \in Id /\ events[conn[o].id] + 1 \in Nat
    BY <1>0 DEF Conn
  <2> QED BY <1>0, <2>1 DEF Shut
<1>5. posted' \in Seq(Entry) /\ \A k \in 1..Len(posted') : conn[posted'[k].obj].id # 0
  BY GrownTypes DEF Shut
<1> QED BY <1>2, <1>3, <1>4, <1>5 DEF Typed

\* Lemma: Sizes and Ids of a step that leaves the pools alone.
LEMMA KeptIds ==
    ASSUME TypeInv, Types', Kept,
           \A o \in Obj : conn'[o].rd = "body" => Len(sent'[conn[o].id]) < MaxUp,
           \A k \in 1..Len(posted') : conn[posted'[k].obj].id # 0,
           pos' > 0 => phase' = "run" /\ todo' # <<>> /\ conn[Head(todo')].id # 0
    PROVE  TypeInv'
<1>1. Sizes'
  BY DEF TypeInv, Sizes, Kept, pool
<1>2. \A k \in 1..Len(posted') : posted'[k].obj \in Obj
  <2>1. posted' \in Seq(Entry)
    BY DEF Types
  <2>2. \A k \in 1..Len(posted') : posted'[k] \in Entry
    BY <2>1, ElementOfSeq
  <2> QED BY <2>2 DEF Entry
<1>3. Ids'
  <2>1. currId' = currId
    BY DEF Kept
  <2>2. \A o \in Obj : /\ conn'[o].id <= currId'
                       /\ conn'[o].id = 0 => conn'[o] = NoConn
                       /\ conn'[o].id # 0 => conn'[o].buf # 0 /\ conn'[o].st # "NOT_USE"
    BY <2>1 DEF TypeInv, Ids, Kept
  <2>3. \A o, p \in Obj : conn'[o].id # 0 /\ conn'[o].id = conn'[p].id => o = p
    BY DEF TypeInv, Ids, Kept
  <2>4. \A o \in Obj : conn'[o].rd = "body" => Len(sent'[conn'[o].id]) < MaxUp
    BY DEF Kept
  <2>5. \A k \in 1..Len(posted') : conn'[posted'[k].obj].id # 0
    BY <1>2 DEF Kept
  <2>6. pos' > 0 => phase' = "run" /\ todo' # <<>> /\ conn'[Head(todo')].id # 0
    <3>1. todo' # <<>> => Head(todo') \in Obj
      BY TailRange DEF Types
    <3> QED BY <3>1 DEF Kept
  <2> QED BY <2>2, <2>3, <2>4, <2>5, <2>6 DEF Ids, cur
<1> QED BY <1>1, <1>3 DEF TypeInv

\* Lemma: force_close of an object that had a connection.
LEMMA ForceCloseTypes ==
    ASSUME TypeInv, NEW o \in Obj, conn[o].id # 0, NEW q \in Seq(Entry), NEW c,
           c \in {conn[o], [conn[o] EXCEPT !.rd = "none"], [conn[o] EXCEPT !.wr = FALSE]},
           \A k \in 1..Len(q) : conn[q[k].obj].id # 0,
           ForceClose(o, c, q), UNCHANGED <<pool, currId>>
    PROVE  Typed
<1>1. conn \in [Obj -> Conn]
  BY DEF TypeInv, Types
<1>2. CASE posted' = q /\ UNCHANGED <<conn, buff, events>>
  BY <1>2 DEF TypeInv, Types, Typed, Kept
<1>3. CASE Shut(o, q)
  BY <1>3, ShutTypes
<1> QED BY <1>1, <1>2, <1>3, ForceCloseShape

\* Lemma: the queue holds completions of objects that had a connection.
LEMMA PostedTypes ==
    ASSUME TypeInv
    PROVE  /\ posted \in Seq(Entry)
           /\ \A k \in 1..Len(posted) : posted[k].obj \in Obj /\ conn[posted[k].obj].id # 0
<1>1. posted \in Seq(Entry)
  BY DEF TypeInv, Types
<1>2. \A k \in 1..Len(posted) : posted[k] \in Entry
  BY <1>1, ElementOfSeq
<1> QED BY <1>1, <1>2 DEF Entry, TypeInv, Ids

\* Lemma: the ids and buffers of an object that had a connection.
LEMMA ConnTypes ==
    ASSUME TypeInv, NEW o \in Obj
    PROVE  /\ conn[o] \in Conn /\ conn[o].id \in Id \cup {0} /\ conn[o].buf \in Buf \cup {0}
           /\ conn[o].st # "NOT_USE" \/ conn[o].rd # "none" \/ conn[o].wr \/ conn[o].open
                => conn[o].id # 0
           /\ conn[o].id # 0 => conn[o].id \in Id /\ conn[o].buf \in Buf
           /\ 0 \notin Id /\ 0 \notin Buf
<1>1. conn[o] \in Conn
  BY DEF TypeInv, Types
<1>2. conn[o].id \in Id \cup {0} /\ conn[o].buf \in Buf \cup {0}
  BY <1>1 DEF Conn
<1>3. conn[o].id = 0 => conn[o] = NoConn
  BY DEF TypeInv, Ids
<1>4. conn[o].id # 0 => conn[o].buf # 0
  BY DEF TypeInv, Ids
<1>5. 0 \notin Id /\ 0 \notin Buf
  BY DEF Id, Buf
<1> QED BY <1>1, <1>2, <1>3, <1>4, <1>5 DEF NoConn

\* Lemma: the types after send.
LEMMA SendTypes ==
    ASSUME TypeInv, NEW d \in Obj, Send(d), UNCHANGED <<pool, currId>>
    PROVE  Typed /\ queued' \in [Id -> Seq(DownMsg)]
<1> DEFINE i == conn[d].id
           b == conn[d].buf
           m == Data(i, Len(queued[i]) + 1)
<1>1. i \in Id /\ b \in Buf
  BY ConnTypes DEF Send, Live
<1>2. buff \in [Buf -> [rq : Seq(UpMsg), sq : Seq(Packet)]] /\ queued \in [Id -> Seq(DownMsg)]
  BY DEF TypeInv, Types
<1>3. Len(queued[i]) \in Nat /\ Len(queued[i]) < MaxDown
  BY <1>1, <1>2, LenProperties DEF Send
<1>4. m \in DownMsg /\ m \in Packet
  BY <1>1, <1>3, TcpConstants DEF Data, DownMsg, Packet
<1>5. buff' = [buff EXCEPT ![b].sq = Append(@, m)] /\ queued' = [queued EXCEPT ![i] = Append(@, m)]
  BY DEF Send
<1>6. UNCHANGED <<conn, posted, events>>
  BY DEF Send
<1> HIDE DEF i, b, m
<1>7. Append(buff[b].sq, m) \in Seq(Packet) /\ Append(queued[i], m) \in Seq(DownMsg)
  BY <1>1, <1>2, <1>4, AppendProperties
<1>8. buff' \in [Buf -> [rq : Seq(UpMsg), sq : Seq(Packet)]] /\ queued' \in [Id -> Seq(DownMsg)]
  BY <1>1, <1>2, <1>5, <1>7
<1> QED BY <1>6, <1>8, PostedTypes DEF TypeInv, Types, Typed, Kept

\* Lemma: the types after close.
LEMMA CloseTypes ==
    ASSUME TypeInv, NEW d \in Obj, Close(d), UNCHANGED <<pool, currId>>
    PROVE  Typed /\ queued' \in [Id -> Seq(DownMsg)]
<1> DEFINE b == conn[d].buf
           c == [conn[d] EXCEPT !.st = "DISCONNECTING"]
<1>1. conn[d].id # 0 /\ conn[d].st = "CONNECTED" /\ b \in Buf /\ conn[d] \in Conn
  BY ConnTypes DEF Close, Live
<1>2. /\ buff \in [Buf -> [rq : Seq(UpMsg), sq : Seq(Packet)]] /\ conn \in [Obj -> Conn]
      /\ events \in [Id -> Nat] /\ queued \in [Id -> Seq(DownMsg)]
  BY DEF TypeInv, Types
<1>3. /\ c \in Conn /\ c.id = conn[d].id /\ c.buf = conn[d].buf /\ c.rd = conn[d].rd
      /\ c.st = "DISCONNECTING"
  BY <1>1 DEF Conn, State
<1>4. /\ buff' = [buff EXCEPT ![b].sq = Append(@, Disc)] /\ conn' = [conn EXCEPT ![d] = c]
      /\ UNCHANGED <<queued, posted, events>>
  BY DEF Close
<1> HIDE DEF b, c
<1>5. Append(buff[b].sq, Disc) \in Seq(Packet)
  <2>1. Disc \in Packet
    BY DEF Packet
  <2> QED BY <1>1, <1>2, <2>1, AppendProperties
<1>6. buff' \in [Buf -> [rq : Seq(UpMsg), sq : Seq(Packet)]]
  BY <1>1, <1>2, <1>4, <1>5
<1>7. conn' \in [Obj -> Conn] /\ Kept /\ \A p \in Obj : conn'[p].rd = "body" => conn[p].rd = "body"
  BY <1>1, <1>2, <1>3, <1>4 DEF Kept
<1> QED BY <1>2, <1>4, <1>6, <1>7, PostedTypes DEF Typed

\* Lemma: the types after what the application does to a connection.
LEMMA AppTypes ==
    ASSUME TypeInv, NEW d \in Obj, AppOp(d), UNCHANGED <<pool, currId>>
    PROVE  Typed /\ queued' \in [Id -> Seq(DownMsg)]
<1>1. CASE Kick(d)
  <2>1. Typed
    BY <1>1, ForceCloseTypes, PostedTypes DEF Kick, Live
  <2> QED BY <1>1, <2>1 DEF Kick, TypeInv, Types
<1> QED BY <1>1, SendTypes, CloseTypes DEF AppOp

\* Lemma: the connection whose messages are handled.
LEMMA HandlingTypes ==
    ASSUME TypeInv, pos > 0
    PROVE  /\ phase = "run" /\ todo # <<>> /\ cur \in Obj /\ Tail(todo) \in Seq(Obj)
           /\ conn[cur].id \in Id /\ conn[cur].buf \in Buf
           /\ HandOver /\ pos <= Len(recvList) => got' \in [Id -> Seq(UpMsg)]
<1>1. phase = "run" /\ todo # <<>> /\ conn[cur].id # 0
  BY DEF TypeInv, Ids
<1>2. cur \in Obj /\ Tail(todo) \in Seq(Obj)
  BY <1>1, TailRange DEF TypeInv, Types, cur
<1>3. conn[cur].id \in Id /\ conn[cur].buf \in Buf
  BY <1>1, <1>2, ConnTypes
<1>4. ASSUME HandOver, pos <= Len(recvList) PROVE got' \in [Id -> Seq(UpMsg)]
  <2>1. recvList \in Seq(UpMsg) /\ pos \in Nat /\ got \in [Id -> Seq(UpMsg)]
    BY <1>3 DEF TypeInv, Types, recvList
  <2>2. recvList[pos] \in UpMsg
    <3>1. pos \in 1..Len(recvList)
      BY <1>4, <2>1, LenProperties
    <3> QED BY <2>1, <3>1, ElementOfSeq
  <2>3. Append(got[conn[cur].id], recvList[pos]) \in Seq(UpMsg)
    BY <1>3, <2>1, <2>2, AppendProperties
  <2> QED BY <1>4, <2>1, <2>3 DEF HandOver
<1> QED BY <1>1, <1>2, <1>3, <1>4

\* Lemma: TypeInv at every step of the pass.
LEMMA TypeVisit == ASSUME TypeInv, Visit PROVE TypeInv' /\ (VisitDead \/ Kept)
<1> USE TcpConstants
<1>0. \A k \in 1..Len(posted) : posted[k].obj \in Obj /\ conn[posted[k].obj].id # 0
  BY PostedTypes
<1>1. CASE VisitDead
  <2>1. /\ todo # <<>> /\ cur \in Obj /\ Tail(todo) \in Seq(Obj)
        /\ conn[cur].st = "DISCONNECTED"
    BY <1>1, TailRange DEF TypeInv, Types, VisitDead, StartVisit, cur
  <2>2. conn[cur] \in Conn /\ conn[cur].id \in Id /\ conn[cur].buf \in Buf
    <3>1. conn[cur] \in Conn
      BY <2>1 DEF TypeInv, Types
    <3>2. conn[cur].id # 0 /\ conn[cur].buf # 0
      BY <2>1 DEF TypeInv, Ids, NoConn
    <3> QED BY <3>1, <3>2 DEF Conn
  <2>3. conns' \in Seq(Obj) /\ Len(conns') = Len(conns) - 1 /\ Len(conns) \in Nat
    BY <1>1, RemoveAtRange DEF VisitDead, TypeInv, Types
  <2>4. freeConns' \in Seq(Obj) /\ Len(freeConns') = Len(freeConns) + 1 /\ Len(freeConns) \in Nat
    BY <1>1, <2>1, ConsRange, LenProperties DEF VisitDead, TypeInv, Types
  <2>5. freeBufs' \in Seq(Buf) /\ Len(freeBufs') = Len(freeBufs) + 1 /\ Len(freeBufs) \in Nat
    BY <1>1, <2>2, ConsRange, LenProperties DEF VisitDead, TypeInv, Types
  <2>6. usedMap' \in [Id -> Obj \cup {0}]
    BY <1>1 DEF VisitDead, TypeInv, Types
  <2> DEFINE c == [conn[cur] EXCEPT !.st = "NOT_CONNECT"]
  <2>7. /\ c \in Conn /\ c.id = conn[cur].id /\ c.buf = conn[cur].buf /\ c.st = "NOT_CONNECT"
        /\ c.rd = conn[cur].rd
    BY <2>2 DEF Conn, State
  <2>8. conn' = [conn EXCEPT ![cur] = c] /\ conn \in [Obj -> Conn]
    BY <1>1 DEF VisitDead, TypeInv, Types
  <2> HIDE DEF c
  <2>9. buff' \in [Buf -> [rq : Seq(UpMsg), sq : Seq(Packet)]]
    <3>1. NoBytes \in [rq : Seq(UpMsg), sq : Seq(Packet)]
      BY DEF NoBytes
    <3> QED BY <1>1, <3>1 DEF VisitDead, TypeInv, Types
  <2>10. conn' \in [Obj -> Conn]
    BY <2>1, <2>7, <2>8
  <2>11. Types'
    <3>1. todo' = Tail(todo) /\ UNCHANGED <<phase, pos, posted, currId, peer, hist>>
      BY <1>1 DEF VisitDead
    <3> QED BY <2>1, <2>3, <2>4, <2>5, <2>6, <2>9, <2>10, <3>1 DEF TypeInv, Types, hist
  <2>12. Sizes'
    <3>1. \A x, y \in Nat : x - 1 + (y + 1) = x + y
      OBVIOUS
    <3>2. Len(conns') + Len(freeConns') = Len(conns) + Len(freeConns)
      BY <2>3, <2>4, <3>1
    <3>3. Len(conns') + Len(freeBufs') = Len(conns) + Len(freeBufs)
      BY <2>3, <2>5, <3>1
    <3> QED BY <3>2, <3>3 DEF TypeInv, Sizes
  <2>13. UNCHANGED <<currId, sent, posted>>
    BY <1>1 DEF VisitDead, hist
  <2>14. Ids'
    <3>1. \A p \in Obj : /\ conn'[p].id = conn[p].id /\ conn'[p].buf = conn[p].buf
                         /\ conn'[p].rd = conn[p].rd
                         /\ p # cur => conn'[p] = conn[p]
                         /\ conn'[p].st = "NOT_USE" => conn[p].st = "NOT_USE"
      BY <2>1, <2>7, <2>8
    <3>2. conn[cur].id # 0 /\ 0 \notin Id
      BY <2>2 DEF Id
    <3>3. ~(pos' > 0)
      BY <1>1 DEF VisitDead, StartVisit
    <3> QED BY <1>0, <2>13, <3>1, <3>2, <3>3 DEF TypeInv, Ids
  <2> QED BY <1>1, <2>11, <2>12, <2>14 DEF TypeInv
<1>2. CASE VisitIdle
  <2>1. Types'
    BY <1>2, TailRange DEF TypeInv, Types, VisitIdle, pool, hist
  <2>2. Kept
    BY <1>2 DEF VisitIdle, Kept
  <2> QED BY <1>2, <2>1, <2>2, KeptIds, PostedTypes DEF VisitIdle, TypeInv, Ids, hist
<1>3. CASE VisitTimeout
  <2>1. todo # <<>> /\ cur \in Obj /\ Tail(todo) \in Seq(Obj) /\ conn[cur].st = "DISCONNECTING"
    BY <1>3, TailRange DEF TypeInv, Types, VisitTimeout, StartVisit, cur
  <2>2. Typed
    <3>1. UNCHANGED <<pool, currId>> /\ ForceClose(cur, conn[cur], posted)
      BY <1>3 DEF VisitTimeout
    <3>2. conn[cur].id # 0
      BY <2>1, ConnTypes
    <3> QED BY <2>1, <3>1, <3>2, ForceCloseTypes, PostedTypes
  <2>3. Types'
    BY <1>3, <2>1, <2>2 DEF TypeInv, Types, VisitTimeout, pool, Typed
  <2> QED BY <1>3, <2>2, <2>3, KeptIds DEF Typed, VisitTimeout, StartVisit, TypeInv, Ids
<1>4. CASE VisitConnected
  <2>1. Types'
    BY <1>4, TailRange DEF TypeInv, Types, VisitConnected, pool, hist
  <2>2. Kept
    BY <1>4 DEF VisitConnected, Kept
  <2>3. phase = "run" /\ todo # <<>> /\ cur \in Obj /\ conn[cur].st = "CONNECTED"
    BY <1>4, TailRange DEF TypeInv, Types, VisitConnected, StartVisit, cur
  <2>4. conn[Head(todo')].id # 0
    BY <1>4, <2>3, ConnTypes DEF VisitConnected, cur
  <2> QED BY <1>4, <2>1, <2>2, <2>3, <2>4, KeptIds DEF VisitConnected, TypeInv, Ids, hist
<1>5. CASE Deliver
  <2>1. pos > 0 /\ pos <= Len(recvList) /\ HandOver /\ UNCHANGED <<pool, currId>>
    BY <1>5 DEF Deliver, Handling
  <2>2. got' \in [Id -> Seq(UpMsg)] /\ pos' \in Nat
    <3>1. got' \in [Id -> Seq(UpMsg)]
      BY <2>1, HandlingTypes
    <3> QED BY <1>5, <3>1 DEF Deliver, TypeInv, Types
  <2>3. Typed
    BY <1>5, <2>1, PostedTypes DEF Deliver, Typed, Kept, TypeInv, Types
  <2>4. Types'
    BY <1>5, <2>2, <2>3 DEF TypeInv, Types, Deliver, pool, Typed
  <2> QED BY <1>5, <2>1, <2>3, <2>4, KeptIds, HandlingTypes DEF Typed, Deliver, TypeInv, Ids, cur
<1>6. CASE DeliverFail
  <2>1. /\ pos > 0 /\ pos <= Len(recvList) /\ HandOver /\ UNCHANGED <<pool, currId>>
        /\ ForceClose(cur, conn[cur], posted)
    BY <1>6 DEF DeliverFail, Handling
  <2>2. got' \in [Id -> Seq(UpMsg)] /\ Tail(todo) \in Seq(Obj) /\ cur \in Obj /\ conn[cur].id # 0
    BY <1>6, <2>1, HandlingTypes, ConnTypes
  <2>3. Typed
    BY <2>1, <2>2, ForceCloseTypes, PostedTypes
  <2>4. Types'
    BY <1>6, <2>2, <2>3 DEF TypeInv, Types, DeliverFail, pool, Typed
  <2> QED BY <1>6, <2>3, <2>4, KeptIds DEF Typed, DeliverFail, TypeInv, Ids
<1>7. CASE DeliverEnd
  <2> DEFINE b == conn[cur].buf
             c == StartSend(conn[cur], buff[b].sq)
  <2>1. pos > 0 /\ UNCHANGED <<pool, currId, posted, events>>
    BY <1>7 DEF DeliverEnd, hist
  <2>2. Tail(todo) \in Seq(Obj) /\ cur \in Obj /\ b \in Buf /\ conn[cur] \in Conn /\ conn[cur].id # 0
    <3>1. Tail(todo) \in Seq(Obj) /\ cur \in Obj /\ b \in Buf /\ conn[cur].id \in Id
      BY <2>1, HandlingTypes
    <3> QED BY <3>1, ConnTypes
  <2>3. /\ buff \in [Buf -> [rq : Seq(UpMsg), sq : Seq(Packet)]] /\ conn \in [Obj -> Conn]
        /\ events \in [Id -> Nat]
    BY DEF TypeInv, Types
  <2>4. buff' = [buff EXCEPT ![b].rq = <<>>] /\ conn' = [conn EXCEPT ![cur] = c]
    BY <1>7 DEF DeliverEnd
  <2>5. c \in Conn /\ c.id = conn[cur].id /\ c.buf = b /\ c.rd = conn[cur].rd /\ c.st = conn[cur].st
    BY <2>2 DEF StartSend, Conn
  <2> HIDE DEF b, c
  <2>6. buff' \in [Buf -> [rq : Seq(UpMsg), sq : Seq(Packet)]]
    <3>1. <<>> \in Seq(UpMsg)
      OBVIOUS
    <3>2. [buff[b] EXCEPT !.rq = <<>>] \in [rq : Seq(UpMsg), sq : Seq(Packet)]
      BY <2>2, <2>3, <3>1
    <3> QED BY <2>2, <2>3, <2>4, <3>2
  <2>7. Typed
    <3>1. conn' \in [Obj -> Conn]
      BY <2>2, <2>3, <2>4, <2>5
    <3>2. Kept /\ \A p \in Obj : conn'[p].rd = "body" => conn[p].rd = "body"
      BY <2>1, <2>2, <2>3, <2>4, <2>5 DEF Kept, b
    <3> QED BY <2>1, <2>3, <2>6, <3>1, <3>2, PostedTypes DEF Typed
  <2>8. Types'
    BY <1>7, <2>2, <2>7 DEF TypeInv, Types, DeliverEnd, pool, hist, Typed
  <2>9. pos' = 0 /\ sent' = sent /\ posted' = posted
    BY <1>7 DEF DeliverEnd, hist
  <2>10. \A o \in Obj : conn'[o].rd = "body" => Len(sent'[conn[o].id]) < MaxUp
    BY <2>7, <2>9 DEF Typed, TypeInv, Ids
  <2>11. \A k \in 1..Len(posted') : conn[posted'[k].obj].id # 0
    BY <2>9 DEF TypeInv, Ids
  <2>12. ~(pos' > 0)
    BY <2>9
  <2>13. Kept
    BY <2>7 DEF Typed
  <2> QED BY <2>8, <2>10, <2>11, <2>12, <2>13, KeptIds
<1> QED BY <1>1, <1>2, <1>3, <1>4, <1>5, <1>6, <1>7 DEF Visit

\* Lemma: TypeInv when the application acts, and at the ends of the phases.
LEMMA TypeRest == ASSUME TypeInv, App \/ EndRun \/ EndPoll PROVE TypeInv' /\ Kept
<1>1. CASE App
  <2>1. UNCHANGED <<pool, currId>> /\ \E d \in Obj : AppOp(d)
    BY <1>1 DEF App, AppOp
  <2>2. Typed /\ queued' \in [Id -> Seq(DownMsg)]
    BY <2>1, AppTypes
  <2>3. Types'
    BY <1>1, <2>2 DEF TypeInv, Types, App, pool, Typed
  <2> QED BY <1>1, <2>2, <2>3, KeptIds DEF Typed, App, TypeInv, Ids, cur
<1>2. CASE EndRun
  <2>1. Types'
    BY <1>2 DEF TypeInv, Types, EndRun, pool, hist
  <2>2. Kept
    BY <1>2 DEF EndRun, Kept
  <2> QED BY <1>2, <2>1, <2>2, KeptIds DEF EndRun, hist, TypeInv, Ids
<1>3. CASE EndPoll
  <2>1. Types'
    BY <1>3 DEF TypeInv, Types, EndPoll, pool, hist
  <2>2. Kept
    BY <1>3 DEF EndPoll, Kept
  <2> QED BY <1>3, <2>1, <2>2, KeptIds DEF EndPoll, hist, TypeInv, Ids
<1> QED BY <1>1, <1>2, <1>3

\* Lemma: TypeInv when a queued completion runs.
LEMMA TypeRunPosted == ASSUME TypeInv, RunPosted PROVE TypeInv' /\ Kept
<1> DEFINE o == Head(posted).obj
           q == Tail(posted)
<1>1. posted # <<>> /\ phase = "poll" /\ ForceClose(o, conn[o], q) /\ UNCHANGED <<pool, currId>>
  BY DEF RunPosted
<1>2. /\ q \in Seq(Entry) /\ o \in Obj /\ conn[o].id # 0
      /\ \A k \in 1..Len(q) : conn[q[k].obj].id # 0
  <2>1. /\ posted \in Seq(Entry) /\ Head(posted) = posted[1] /\ 1 \in 1..Len(posted)
        /\ q \in Seq(Entry) /\ \A k \in 1..Len(q) : q[k] = posted[k + 1] /\ k + 1 \in 1..Len(posted)
    BY <1>1, PostedTypes, HeadTailProperties, EmptySeq, LenProperties
  <2> QED BY <2>1, PostedTypes
<1> HIDE DEF o, q
<1>3. Typed
  BY <1>1, <1>2, ForceCloseTypes
<1>4. Types'
  BY <1>3 DEF TypeInv, Types, RunPosted, pool, Typed
<1> QED BY <1>1, <1>3, <1>4, KeptIds DEF Typed, RunPosted, TypeInv, Ids

\* Lemma: a connection can only be accepted while the pools are not empty.
LEMMA AcceptRoom ==
    ASSUME TypeInv, Len(conns) < MaxConn
    PROVE  freeConns # <<>> /\ freeBufs # <<>>
<1>1. /\ conns \in Seq(Obj) /\ freeConns \in Seq(Obj) /\ freeBufs \in Seq(Buf)
      /\ Len(conns) + Len(freeConns) = MaxConn /\ Len(conns) + Len(freeBufs) = 2 * MaxConn
  BY DEF TypeInv, Types, Sizes
<1>2. Len(conns) \in Nat /\ Len(freeConns) \in Nat /\ Len(freeBufs) \in Nat
  BY <1>1, LenProperties
<1>3. Len(freeConns) > 0 /\ Len(freeBufs) > 0
  BY <1>1, <1>2, TcpConstants
<1> QED BY <1>3

\* A new connection is in object o, which is now d ...
Welcomed(o, d) ==
    /\ d.open /\ d.st = "CONNECTED" /\ d.rd = "head"
    /\ d.wr = conn[o].wr /\ d.sending = conn[o].sending
    /\ UNCHANGED <<buff, posted, events>>

\* ... or onConnect has closed it.
Refused(o, d) ==
    /\ ~d.open /\ d.st = "DISCONNECTED" /\ d.rd = "none" /\ ~d.wr /\ ~d.sending
    /\ buff' = [buff EXCEPT ![d.buf] = NoBytes]
    /\ events' = [events EXCEPT ![d.id] = @ + 1]
    /\ posted' \in Seq(Entry) /\ Len(posted') >= Len(posted)
    /\ \A k \in 1..Len(posted) : posted'[k] = posted[k]
    /\ \A k \in (Len(posted) + 1)..Len(posted') :
          posted'[k] = [obj |-> o, id |-> d.id, early |-> FALSE]

\* Lemma: what accept does, whether or not onConnect closes the connection.
LEMMA AcceptNew ==
    ASSUME TypeInv, Accept
    PROVE  \E o \in Obj, b \in Buf, d \in Conn :
              /\ o = Head(freeConns) /\ b = Head(freeBufs)
              /\ Reactor /\ phase = "poll" /\ currId + 1 \in Id /\ currId \in Nat
              /\ Len(conns) < MaxConn /\ freeConns # <<>> /\ freeBufs # <<>>
              /\ currId' = currId + 1 /\ freeConns' = Tail(freeConns) /\ freeBufs' = Tail(freeBufs)
              /\ usedMap' = [usedMap EXCEPT ![currId + 1] = o] /\ conns' = Append(conns, o)
              /\ d.id = currId + 1 /\ d.buf = b /\ conn' = [conn EXCEPT ![o] = d]
              /\ Welcomed(o, d) \/ Refused(o, d)
              /\ UNCHANGED <<phase, todo, pos, peer, sent, got, queued, wrote>>
<1> DEFINE o == Head(freeConns)
           b == Head(freeBufs)
           i == currId + 1
           c == Receiving([conn[o] EXCEPT !.id = i, !.buf = b, !.open = TRUE])
<1>1. /\ Reactor /\ phase = "poll" /\ currId < MaxId /\ Len(conns) < MaxConn
      /\ currId' = i /\ freeConns' = Tail(freeConns) /\ freeBufs' = Tail(freeBufs)
      /\ usedMap' = [usedMap EXCEPT ![i] = o] /\ conns' = Append(conns, o)
      /\ UNCHANGED <<phase, todo, pos, peer, sent, got, queued, wrote>>
  BY DEF Accept, Reactor
<1>2. \/ conn' = [conn EXCEPT ![o] = c] /\ UNCHANGED <<buff, posted, events>>
      \/ ForceClose(o, c, posted)
  BY DEF Accept
<1>3. /\ freeConns \in Seq(Obj) /\ freeBufs \in Seq(Buf) /\ conn \in [Obj -> Conn]
      /\ currId \in Id \cup {0} /\ posted \in Seq(Entry)
  BY DEF TypeInv, Types
<1>4. freeConns # <<>> /\ freeBufs # <<>>
  BY <1>1, AcceptRoom
<1>5. o \in Obj /\ b \in Buf
  BY <1>3, <1>4, TailRange
<1>6. i \in Id /\ i # 0 /\ currId \in Nat
  BY <1>1, <1>3, TcpConstants, SMTT(30) DEF Id
<1>7. /\ c \in Conn /\ c.id = i /\ c.buf = b /\ c.open /\ c.st = "CONNECTED" /\ c.rd = "head"
      /\ c.wr = conn[o].wr /\ c.sending = conn[o].sending
  <2>1. conn[o] \in Conn
    BY <1>3, <1>5
  <2> QED BY <1>5, <1>6, <2>1 DEF Conn, Receiving, State
<1>8. /\ Closed(c) \in Conn /\ Closed(c).id = i /\ Closed(c).buf = b /\ ~Closed(c).open
      /\ Closed(c).st = "DISCONNECTED" /\ Closed(c).rd = "none" /\ ~Closed(c).wr /\ ~Closed(c).sending
  BY <1>7 DEF Conn, Closed, State
<1> HIDE DEF o, b, i, c
<1>9. CASE conn' = [conn EXCEPT ![o] = c] /\ UNCHANGED <<buff, posted, events>>
  <2>1. Welcomed(o, c)
    BY <1>7, <1>9 DEF Welcomed
  <2> QED BY <1>1, <1>4, <1>5, <1>6, <1>7, <1>9, <2>1 DEF o, b, i
<1>10. CASE ForceClose(o, c, posted)
  <2> DEFINE a == Aborted(o, c)
  <2>1. /\ posted' = posted \o a /\ conn' = [conn EXCEPT ![o] = Closed(c)]
        /\ buff' = [buff EXCEPT ![c.buf] = NoBytes] /\ events' = [events EXCEPT ![c.id] = @ + 1]
    BY <1>7, <1>10 DEF ForceClose
  <2>2. a \in Seq(Entry) /\ \A k \in 1..Len(a) : a[k] = [obj |-> o, id |-> i, early |-> FALSE]
    BY <1>1, <1>5, <1>6, <1>7, AbortedType
  <2> HIDE DEF a
  <2>3. /\ posted' \in Seq(Entry) /\ Len(posted') = Len(posted) + Len(a)
        /\ Len(posted) \in Nat /\ Len(a) \in Nat
        /\ \A k \in 1..(Len(posted) + Len(a)) :
              posted'[k] = IF k <= Len(posted) THEN posted[k] ELSE a[k - Len(posted)]
    BY <1>3, <2>1, <2>2, ConcatProperties, LenProperties
  <2>4. \A k \in 1..Len(posted) : posted'[k] = posted[k]
    <3>1. \A k \in 1..Len(posted) : k \in 1..(Len(posted) + Len(a)) /\ k <= Len(posted)
      BY <2>3
    <3> QED BY <2>3, <3>1
  <2>5. \A k \in (Len(posted) + 1)..(Len(posted) + Len(a)) :
           k \in 1..(Len(posted) + Len(a)) /\ ~(k <= Len(posted)) /\ k - Len(posted) \in 1..Len(a)
    BY <2>3
  <2>6. \A k \in (Len(posted) + 1)..Len(posted') : posted'[k] = [obj |-> o, id |-> i, early |-> FALSE]
    BY <2>2, <2>3, <2>5
  <2>7. Len(posted') >= Len(posted)
    BY <2>3
  <2>8. Refused(o, Closed(c))
    BY <1>7, <1>8, <2>1, <2>3, <2>4, <2>6, <2>7 DEF Refused
  <2> QED BY <1>1, <1>4, <1>5, <1>6, <1>8, <2>1, <2>8 DEF o, b, i
<1> QED BY <1>2, <1>9, <1>10

\* Lemma: the types of what onConnect may change.
LEMMA RefusedTypes ==
    ASSUME TypeInv, NEW o \in Obj, NEW d \in Conn, d.id \in Id, d.buf \in Buf,
           Welcomed(o, d) \/ Refused(o, d)
    PROVE  /\ buff' \in [Buf -> [rq : Seq(UpMsg), sq : Seq(Packet)]] /\ events' \in [Id -> Nat]
           /\ posted' \in Seq(Entry)
           /\ \A k \in 1..Len(posted') :
                 \/ k \in 1..Len(posted) /\ posted'[k] = posted[k]
                 \/ Refused(o, d) /\ posted'[k] = [obj |-> o, id |-> d.id, early |-> FALSE]
<1>1. /\ buff \in [Buf -> [rq : Seq(UpMsg), sq : Seq(Packet)]] /\ events \in [Id -> Nat]
      /\ posted \in Seq(Entry)
  BY DEF TypeInv, Types
<1>2. CASE Welcomed(o, d)
  BY <1>1, <1>2 DEF Welcomed
<1>3. CASE Refused(o, d)
  <2>1. NoBytes \in [rq : Seq(UpMsg), sq : Seq(Packet)] /\ events[d.id] + 1 \in Nat
    BY <1>1 DEF NoBytes
  <2>2. /\ buff' = [buff EXCEPT ![d.buf] = NoBytes] /\ events' = [events EXCEPT ![d.id] = @ + 1]
        /\ posted' \in Seq(Entry)
    BY <1>3 DEF Refused
  <2>3. Len(posted) \in Nat /\ Len(posted') \in Nat
    BY <1>1, <2>2, LenProperties
  <2>4. \A k \in 1..Len(posted') : k \in 1..Len(posted) \/ k \in (Len(posted) + 1)..Len(posted')
    BY <2>3
  <2>5. \A k \in 1..Len(posted') :
           \/ k \in 1..Len(posted) /\ posted'[k] = posted[k]
           \/ posted'[k] = [obj |-> o, id |-> d.id, early |-> FALSE]
    BY <1>3, <2>4 DEF Refused
  <2> QED BY <1>1, <1>3, <2>1, <2>2, <2>5
<1> QED BY <1>2, <1>3

\* Lemma: TypeInv when a connection is accepted.
LEMMA TypeAccept == ASSUME TypeInv, Accept PROVE TypeInv'
<1> USE TcpConstants
<1> DEFINE i == currId + 1
<1>1. PICK o \in Obj, b \in Buf, c \in Conn :
              /\ o = Head(freeConns) /\ b = Head(freeBufs)
              /\ phase = "poll" /\ i \in Id /\ currId \in Nat
              /\ freeConns # <<>> /\ freeBufs # <<>>
              /\ currId' = i /\ freeConns' = Tail(freeConns) /\ freeBufs' = Tail(freeBufs)
              /\ usedMap' = [usedMap EXCEPT ![i] = o] /\ conns' = Append(conns, o)
              /\ c.id = i /\ c.buf = b /\ conn' = [conn EXCEPT ![o] = c]
              /\ Welcomed(o, c) \/ Refused(o, c)
              /\ UNCHANGED <<phase, todo, pos, peer, sent, got, queued, wrote>>
  BY AcceptNew
<1>2. /\ conns \in Seq(Obj) /\ freeConns \in Seq(Obj) /\ freeBufs \in Seq(Buf) /\ conn \in [Obj -> Conn]
      /\ usedMap \in [Id -> Obj \cup {0}] /\ currId \in Id \cup {0}
      /\ Len(conns) + Len(freeConns) = MaxConn /\ Len(conns) + Len(freeBufs) = 2 * MaxConn
  BY DEF TypeInv, Types, Sizes
<1>3. Len(conns) \in Nat /\ Len(freeConns) \in Nat /\ Len(freeBufs) \in Nat
  BY <1>2, LenProperties
<1>4. freeConns # <<>> /\ freeBufs # <<>>
  BY <1>1
<1>5. /\ o \in Obj /\ Tail(freeConns) \in Seq(Obj) /\ Len(Tail(freeConns)) = Len(freeConns) - 1
      /\ b \in Buf /\ Tail(freeBufs) \in Seq(Buf) /\ Len(Tail(freeBufs)) = Len(freeBufs) - 1
  BY <1>2, <1>4, TailRange
<1>6. i \in Id /\ i > 0 /\ i > currId /\ currId \in Nat
  BY <1>1, <1>2, SMTT(30) DEF Id
<1>7. /\ c \in Conn /\ c.id = i /\ c.buf = b /\ c.st # "NOT_USE" /\ c.rd # "body"
  BY <1>1 DEF Welcomed, Refused
<1> HIDE DEF i
<1>8. conns' \in Seq(Obj) /\ Len(conns') = Len(conns) + 1
  BY <1>1, <1>2, <1>5, AppendRange
<1>9. conn' \in [Obj -> Conn] /\ usedMap' \in [Id -> Obj \cup {0}]
  BY <1>1, <1>2, <1>5, <1>6, <1>7
<1>10. Types'
  <2>1. /\ buff' \in [Buf -> [rq : Seq(UpMsg), sq : Seq(Packet)]] /\ events' \in [Id -> Nat]
        /\ posted' \in Seq(Entry)
    BY <1>1, <1>6, <1>7, RefusedTypes
  <2> QED BY <1>1, <1>5, <1>6, <1>8, <1>9, <2>1 DEF TypeInv, Types
<1>11. Sizes'
  <2>1. \A x, y \in Nat : x + 1 + (y - 1) = x + y
    OBVIOUS
  <2>2. Len(conns') + Len(freeConns') = Len(conns) + Len(freeConns)
    BY <1>1, <1>3, <1>5, <1>8, <2>1
  <2>3. Len(conns') + Len(freeBufs') = Len(conns) + Len(freeBufs)
    BY <1>1, <1>3, <1>5, <1>8, <2>1
  <2> QED BY <1>2, <2>2, <2>3 DEF Sizes
<1>12. Ids'
  <2>1. \A p \in Obj : p # o => conn'[p] = conn[p]
    BY <1>1, <1>2
  <2>2. conn'[o] = c
    BY <1>1, <1>2, <1>5
  <2>3. \A p \in Obj : conn[p].id \in Nat /\ conn[p].id <= currId
    BY <1>2, ConnTypes DEF TypeInv, Ids, Id
  <2>4. \A p \in Obj : /\ conn'[p].id <= currId'
                       /\ conn'[p].id = 0 => conn'[p] = NoConn
                       /\ conn'[p].id # 0 => conn'[p].buf # 0 /\ conn'[p].st # "NOT_USE"
    <3>1. b # 0
      BY <1>5 DEF Buf
    <3>2. \A p \in Obj : conn[p].id <= i
      <4>1. \A x, y \in Nat : x <= y => x <= y + 1
        OBVIOUS
      <4>2. i = currId + 1
        BY DEF i
      <4> QED BY <1>6, <2>3, <4>1, <4>2
    <3>3. \A p \in Obj : p # o => /\ conn'[p].id <= currId'
                                  /\ conn'[p].id = 0 => conn'[p] = NoConn
                                  /\ conn'[p].id # 0 => conn'[p].buf # 0 /\ conn'[p].st # "NOT_USE"
      BY <1>1, <2>1, <3>2 DEF TypeInv, Ids
    <3>4. conn'[o].id <= currId' /\ conn'[o].id # 0 /\ conn'[o].buf # 0 /\ conn'[o].st # "NOT_USE"
      <4>1. i <= i
        BY <1>6 DEF Id
      <4> QED BY <1>1, <1>6, <1>7, <2>2, <3>1, <4>1
    <3> QED BY <3>3, <3>4
  <2>5. \A p, r \in Obj : conn'[p].id # 0 /\ conn'[p].id = conn'[r].id => p = r
    <3>1. \A p \in Obj : p # o => conn'[p].id # i
      <4>1. \A p \in Obj : conn[p].id # i
        <5>1. SUFFICES ASSUME NEW p \in Obj, conn[p].id = i PROVE FALSE
          OBVIOUS
        <5>2. i \in Nat /\ i <= currId
          BY <5>1, <2>3
        <5> QED BY <5>2, <1>6
      <4> QED BY <4>1, <2>1
    <3> QED BY <1>7, <2>1, <2>2, <3>1 DEF TypeInv, Ids
  <2>6. sent' = sent /\ pos' = pos /\ todo' = todo
    BY <1>1
  <2>7. \A p \in Obj : conn'[p].rd = "body" => Len(sent'[conn'[p].id]) < MaxUp
    BY <1>7, <2>1, <2>2, <2>6 DEF TypeInv, Ids
  <2>8. \A k \in 1..Len(posted') : conn'[posted'[k].obj].id # 0
    <3>1. \A p \in Obj : conn[p].id # 0 => conn'[p].id # 0
      BY <1>6, <1>7, <2>1, <2>2
    <3>2. \A k \in 1..Len(posted') :
             \/ k \in 1..Len(posted) /\ posted'[k] = posted[k]
             \/ posted'[k] = [obj |-> o, id |-> c.id, early |-> FALSE]
      BY <1>1, <1>6, <1>7, RefusedTypes
    <3>3. conn'[o].id # 0
      BY <1>6, <1>7, <2>2
    <3> QED BY <3>1, <3>2, <3>3, PostedTypes
  <2>9. ~(pos' > 0)
    BY <1>1, <2>6 DEF TypeInv, Ids
  <2> QED BY <2>4, <2>5, <2>7, <2>8, <2>9 DEF Ids
<1> QED BY <1>10, <1>11, <1>12 DEF TypeInv

\* Lemma: TypeInv when the reactor completes an operation.
LEMMA TypeCompletion == ASSUME TypeInv, BuffersOK, NEW o \in Obj, Completion(o) PROVE TypeInv' /\ Kept
<1> USE TcpConstants
<1> DEFINE i == conn[o].id
           b == conn[o].buf
<1>1. phase = "poll" /\ conn[o].open /\ UNCHANGED <<phase, todo, pos, pool, currId, got, queued>>
  BY DEF Completion, ReadHead, ReadBody, ReadDisc, ReadStrayAck, ReadAck, ReadErr, WriteAll, WritePart,
         WriteErr, ReadingAck, Reading, Reactor, hist
<1>2. i \in Id /\ b \in Buf /\ conn[o] \in Conn /\ i # 0
  BY <1>1, ConnTypes
<1>3. /\ conn \in [Obj -> Conn] /\ buff \in [Buf -> [rq : Seq(UpMsg), sq : Seq(Packet)]]
      /\ events \in [Id -> Nat] /\ sent \in [Id -> Seq(UpMsg)] /\ wrote \in [Id -> Seq(DownMsg)]
      /\ peer \in [Id -> [closing : BOOLEAN, owes : Nat]]
  BY DEF TypeInv, Types
<1>4. ~(pos' > 0)
  BY <1>1 DEF TypeInv, Ids
\* What is left to show of a step.
<1> DEFINE Rest == /\ sent' \in [Id -> Seq(UpMsg)] /\ wrote' \in [Id -> Seq(DownMsg)]
                   /\ peer' \in [Id -> [closing : BOOLEAN, owes : Nat]]
           Bodies == \A p \in Obj : conn'[p].rd = "body" => Len(sent'[conn[p].id]) < MaxUp
           Objects == /\ conn' \in [Obj -> Conn]
                      /\ buff' \in [Buf -> [rq : Seq(UpMsg), sq : Seq(Packet)]]
                      /\ events' \in [Id -> Nat] /\ posted' \in Seq(Entry)
                      /\ \A k \in 1..Len(posted') : conn[posted'[k].obj].id # 0
<1>5. ASSUME Objects, Rest, Kept, Bodies PROVE TypeInv' /\ Kept
  <2>1. Types'
    BY <1>1, <1>5 DEF TypeInv, Types, pool
  <2> QED BY <1>4, <1>5, <2>1, KeptIds
<1>6. ASSUME Typed, Rest, sent' = sent PROVE TypeInv' /\ Kept
  <2>1. Bodies
    BY <1>6 DEF Typed, TypeInv, Ids
  <2> QED BY <1>5, <1>6, <2>1 DEF Typed
\* A step that changes one object only.
<1>7. ASSUME NEW c \in Conn, c.id = i, c.buf = b, c.st # "NOT_USE", conn' = [conn EXCEPT ![o] = c]
      PROVE  conn' \in [Obj -> Conn] /\ Kept /\ \A p \in Obj : p # o => conn'[p] = conn[p]
  BY <1>1, <1>2, <1>3, <1>7 DEF Kept
<1>8. conn[o].st # "NOT_USE"
  BY <1>2 DEF TypeInv, Ids
<1> HIDE DEF i, b, Rest, Bodies, Objects
<1>9. CASE ReadHead(o)
  <2> DEFINE c == [conn[o] EXCEPT !.rd = "body"]
  <2>1. c \in Conn /\ c.id = i /\ c.buf = b /\ c.st # "NOT_USE"
    BY <1>2, <1>8 DEF Conn, i, b
  <2>2. conn' = [conn EXCEPT ![o] = c] /\ UNCHANGED <<buff, posted, peer, hist>> /\ Len(sent[i]) < MaxUp
    BY <1>9 DEF ReadHead, i
  <2> HIDE DEF c
  <2>3. conn' \in [Obj -> Conn] /\ Kept /\ \A p \in Obj : p # o => conn'[p] = conn[p]
    BY <1>7, <2>1, <2>2
  <2>4. Objects /\ Rest
    BY <1>3, <2>2, <2>3, PostedTypes DEF Objects, Rest, hist
  <2>5. Bodies
    BY <2>2, <2>3 DEF TypeInv, Ids, Bodies, hist, i
  <2> QED BY <1>5, <2>3, <2>4, <2>5
<1>10. CASE ReadBody(o)
  <2> DEFINE m == Data(i, Len(sent[i]) + 1)
             c == Receiving(conn[o])
  <2>1. c \in Conn /\ c.id = i /\ c.buf = b /\ c.st # "NOT_USE" /\ c.rd = "head"
    BY <1>2, <1>8 DEF Conn, State, Receiving, i, b
  <2>2. Len(sent[i]) \in Nat /\ Len(sent[i]) < MaxUp
    <3>1. conn[o].rd = "body"
      BY <1>10 DEF ReadBody, Reading
    <3> QED BY <1>2, <1>3, <3>1, LenProperties DEF TypeInv, Ids, i
  <2>3. m \in UpMsg
    BY <1>2, <2>2 DEF Data, UpMsg
  <2>4. /\ sent' = [sent EXCEPT ![i] = Append(@, m)] /\ buff' = [buff EXCEPT ![b].rq = Append(@, m)]
        /\ conn' = [conn EXCEPT ![o] = c] /\ UNCHANGED <<posted, peer, wrote, events>>
    BY <1>10 DEF ReadBody, i, b
  <2> HIDE DEF m, c
  <2>5. conn' \in [Obj -> Conn] /\ Kept /\ \A p \in Obj : p # o => conn'[p] = conn[p]
    BY <1>7, <2>1, <2>4
  <2>6. Append(sent[i], m) \in Seq(UpMsg) /\ Append(buff[b].rq, m) \in Seq(UpMsg)
    BY <1>2, <1>3, <2>3, AppendProperties
  <2>7. sent' \in [Id -> Seq(UpMsg)] /\ buff' \in [Buf -> [rq : Seq(UpMsg), sq : Seq(Packet)]]
    BY <1>2, <1>3, <2>4, <2>6
  <2>8. Objects /\ Rest
    BY <1>3, <2>4, <2>5, <2>7, PostedTypes DEF Objects, Rest
  <2>9. Bodies
    <3>1. \A p \in Obj : p # o => sent'[conn[p].id] = sent[conn[p].id] \/ conn[p].id = 0
      BY <1>2, <1>3, <2>4, ConnTypes DEF TypeInv, Ids, i
    <3>2. \A p \in Obj : conn[p].id = 0 => conn[p].rd # "body"
      BY ConnTypes
    <3>3. conn'[o].rd # "body"
      BY <1>3, <2>1, <2>4
    <3> QED BY <2>5, <3>1, <3>2, <3>3 DEF TypeInv, Ids, Bodies
  <2> QED BY <1>5, <2>5, <2>8, <2>9
<1>11. CASE ReadDisc(o)
  <2> DEFINE c == Receiving(conn[o])
  <2>1. c \in Conn /\ c.id = i /\ c.buf = b /\ c.st # "NOT_USE" /\ c.rd = "head"
    BY <1>2, <1>8 DEF Conn, State, Receiving, i, b
  <2>2. /\ peer' = [peer EXCEPT ![i].closing = TRUE]
        /\ buff' = buff \/ buff' = [buff EXCEPT ![b].sq = Append(@, Ack)]
        /\ conn' = [conn EXCEPT ![o] = c] /\ UNCHANGED <<posted, hist>>
    BY <1>11 DEF ReadDisc, i, b
  <2> HIDE DEF c
  <2>3. conn' \in [Obj -> Conn] /\ Kept /\ \A p \in Obj : p # o => conn'[p] = conn[p]
    BY <1>7, <2>1, <2>2
  <2>4. buff' \in [Buf -> [rq : Seq(UpMsg), sq : Seq(Packet)]]
    <3>1. Ack \in Packet
      BY DEF Packet
    <3>2. Append(buff[b].sq, Ack) \in Seq(Packet)
      BY <1>2, <1>3, <3>1, AppendProperties
    <3> QED BY <1>2, <1>3, <2>2, <3>2
  <2>5. Objects /\ Rest
    BY <1>2, <1>3, <2>2, <2>3, <2>4, PostedTypes DEF Objects, Rest, hist
  <2>6. Bodies
    <3>1. conn'[o].rd # "body" /\ sent' = sent
      BY <1>3, <2>1, <2>2 DEF hist
    <3> QED BY <2>3, <3>1 DEF TypeInv, Ids, Bodies
  <2> QED BY <1>5, <2>3, <2>5, <2>6
<1>12. CASE ReadStrayAck(o)
  <2>1. /\ peer' = [peer EXCEPT ![i].owes = @ - 1] /\ peer[i].owes > 0
        /\ UNCHANGED <<conn, buff, posted, pool, currId, hist>>
    BY <1>12 DEF ReadStrayAck, ReadingAck, i
  <2>2. peer' \in [Id -> [closing : BOOLEAN, owes : Nat]]
    <3>1. peer[i] \in [closing : BOOLEAN, owes : Nat] /\ peer[i].owes - 1 \in Nat
      BY <1>2, <1>3, <2>1
    <3> QED BY <1>2, <1>3, <2>1, <3>1
  <2>3. Typed
    BY <1>3, <2>1, PostedTypes DEF Typed, Kept, hist
  <2>4. Rest /\ sent' = sent
    BY <1>3, <2>1, <2>2 DEF Rest, hist
  <2> QED BY <1>6, <2>3, <2>4
<1>13. CASE ReadAck(o)
  <2> DEFINE c == [Closed(conn[o]) EXCEPT !.st = "CONNECTED"]
  <2>1. c \in Conn /\ c.id = i /\ c.buf = b /\ c.st # "NOT_USE" /\ c.rd = "none"
    BY <1>2, <1>8 DEF Conn, State, Closed, i, b
  <2>2. /\ conn' = [conn EXCEPT ![o] = c] /\ buff' = [buff EXCEPT ![b] = NoBytes]
        /\ events' = [events EXCEPT ![i] = @ + 1] /\ Grown(posted, posted', o)
    BY <1>2, <1>3, <1>13, ReadAckShape, PostedTypes DEF i, b
  <2>3. /\ peer' = [peer EXCEPT ![i].owes = @ - 1] /\ peer[i].owes > 0
        /\ UNCHANGED <<sent, wrote>>
    BY <1>13 DEF ReadAck, ReadingAck, i
  <2> HIDE DEF c
  <2>4. conn' \in [Obj -> Conn] /\ Kept /\ \A p \in Obj : p # o => conn'[p] = conn[p]
    BY <1>7, <2>1, <2>2
  <2>5. peer' \in [Id -> [closing : BOOLEAN, owes : Nat]]
    <3>1. peer[i] \in [closing : BOOLEAN, owes : Nat] /\ peer[i].owes - 1 \in Nat
      BY <1>2, <1>3, <2>3
    <3> QED BY <1>2, <1>3, <2>3, <3>1
  <2>6. buff' \in [Buf -> [rq : Seq(UpMsg), sq : Seq(Packet)]] /\ events' \in [Id -> Nat]
    <3>1. NoBytes \in [rq : Seq(UpMsg), sq : Seq(Packet)]
      BY DEF NoBytes
    <3> QED BY <1>2, <1>3, <2>2, <3>1
  <2>7. posted' \in Seq(Entry) /\ \A k \in 1..Len(posted') : conn[posted'[k].obj].id # 0
    BY <1>2, <2>2, PostedTypes, GrownTypes DEF i
  <2>8. Typed
    <3>1. conn'[o].rd # "body"
      BY <1>3, <2>1, <2>2
    <3> QED BY <2>4, <2>6, <2>7, <3>1 DEF Typed
  <2>9. Rest /\ sent' = sent
    BY <1>3, <2>3, <2>5 DEF Rest
  <2> QED BY <1>6, <2>8, <2>9
<1>14. CASE ReadErr(o) \/ WriteErr(o)
  <2>1. /\ \E c \in {[conn[o] EXCEPT !.rd = "none"], [conn[o] EXCEPT !.wr = FALSE]} :
              ForceClose(o, c, posted)
        /\ UNCHANGED <<pool, currId, peer, sent, wrote>>
    BY <1>14 DEF ReadErr, WriteErr
  <2>2. Typed
    BY <1>2, <2>1, ForceCloseTypes, PostedTypes DEF i
  <2>3. Rest /\ sent' = sent
    BY <1>3, <2>1 DEF Rest
  <2> QED BY <1>6, <2>2, <2>3
\* buffer_list_send on any list.
<1>15. ASSUME NEW s PROVE LET c == Written(conn[o], s) IN
          c \in Conn /\ c.id = i /\ c.buf = b /\ c.st # "NOT_USE" /\ c.rd = conn[o].rd
  <2>1. conn[o].cnt \in 0..(SendBatch - 1)
    BY <1>2 DEF Conn
  <2>2. /\ 0 \in 0..(SendBatch - 1)
        /\ ~(conn[o].cnt + 1 >= SendBatch) => conn[o].cnt + 1 \in 0..(SendBatch - 1)
    BY <2>1
  <2>3. CASE conn[o].cnt + 1 >= SendBatch \/ s = <<>>
    <3>1. Written(conn[o], s) = [conn[o] EXCEPT !.cnt = 0, !.wr = FALSE, !.sending = FALSE]
      BY <2>3 DEF Written
    <3> QED BY <1>2, <1>8, <2>2, <3>1 DEF Conn, i, b
  <2>4. CASE ~(conn[o].cnt + 1 >= SendBatch \/ s = <<>>)
    <3>1. Written(conn[o], s) = [conn[o] EXCEPT !.cnt = @ + 1]
      BY <2>4 DEF Written
    <3>2. conn[o].cnt + 1 \in 0..(SendBatch - 1)
      BY <2>2, <2>4
    <3> QED BY <1>2, <1>8, <3>1, <3>2 DEF Conn, i, b
  <2> QED BY <2>3, <2>4
<1>16. CASE WritePart(o)
  <2> DEFINE c == Written(conn[o], buff[b].sq)
  <2>1. conn' = [conn EXCEPT ![o] = c] /\ UNCHANGED <<buff, posted, peer, hist>>
    BY <1>16 DEF WritePart, b
  <2>2. c \in Conn /\ c.id = i /\ c.buf = b /\ c.st # "NOT_USE" /\ c.rd = conn[o].rd
    BY <1>15
  <2> HIDE DEF c
  <2>3. conn' \in [Obj -> Conn] /\ Kept /\ \A p \in Obj : p # o => conn'[p] = conn[p]
    BY <1>7, <2>1, <2>2
  <2>4. conn'[o].rd = conn[o].rd
    BY <1>3, <2>1, <2>2
  <2>5. Typed
    BY <1>3, <2>1, <2>3, <2>4, PostedTypes DEF Typed, hist
  <2>6. Rest /\ sent' = sent
    BY <1>3, <2>1 DEF Rest, hist
  <2> QED BY <1>6, <2>5, <2>6
<1>17. CASE WriteAll(o)
  <2> DEFINE s == buff[b].sq
             p == Head(s)
             c == Written(conn[o], Tail(s))
  <2>1. /\ conn' = [conn EXCEPT ![o] = c] /\ buff' = [buff EXCEPT ![b].sq = Tail(s)]
        /\ IF IsData(p)
           THEN wrote' = [wrote EXCEPT ![i] = Append(@, p)] /\ UNCHANGED peer
           ELSE /\ peer' = [peer EXCEPT ![i].owes = IF p = Disc THEN @ + 1 ELSE @]
                /\ UNCHANGED wrote
        /\ UNCHANGED <<posted, sent, events>>
    BY <1>17 DEF WriteAll, i, b
  <2>2. s \in Seq(Packet) /\ s # <<>>
    <3>1. conn[o].wr
      BY <1>17 DEF WriteAll
    <3> QED BY <1>2, <1>3, <3>1 DEF BuffersOK, b
  <2>3. p \in Packet /\ Tail(s) \in Seq(Packet)
    BY <2>2, TailRange
  <2>4. c \in Conn /\ c.id = i /\ c.buf = b /\ c.st # "NOT_USE" /\ c.rd = conn[o].rd
    BY <1>15
  <2>5. IsData(p) => p \in DownMsg
    BY <2>3 DEF Packet, Disc, Ack, IsData
  <2> HIDE DEF c, p, s
  <2>6. conn' \in [Obj -> Conn] /\ Kept /\ \A q \in Obj : q # o => conn'[q] = conn[q]
    BY <1>7, <2>1, <2>4
  <2>7. conn'[o].rd = conn[o].rd
    BY <1>3, <2>1, <2>4
  <2>8. buff' \in [Buf -> [rq : Seq(UpMsg), sq : Seq(Packet)]]
    BY <1>2, <1>3, <2>1, <2>3
  <2>9. Typed
    BY <1>3, <2>1, <2>6, <2>7, <2>8, PostedTypes DEF Typed
  <2>10. Rest
    <3>1. CASE IsData(p)
      <4>1. Append(wrote[i], p) \in Seq(DownMsg)
        BY <1>2, <1>3, <2>5, <3>1, AppendProperties
      <4> QED BY <1>2, <1>3, <2>1, <3>1, <4>1 DEF Rest
    <3>2. CASE ~IsData(p)
      <4>1. (IF p = Disc THEN peer[i].owes + 1 ELSE peer[i].owes) \in Nat
        BY <1>2, <1>3
      <4>2. peer' = [peer EXCEPT ![i].owes = IF p = Disc THEN @ + 1 ELSE @] /\ wrote' = wrote
        BY <2>1, <3>2
      <4>3. peer' \in [Id -> [closing : BOOLEAN, owes : Nat]]
        BY <1>2, <1>3, <4>1, <4>2
      <4> QED BY <1>3, <2>1, <4>2, <4>3 DEF Rest
    <3> QED BY <3>1, <3>2
  <2> QED BY <1>6, <2>1, <2>9, <2>10
<1> QED BY <1>9, <1>10, <1>11, <1>12, <1>13, <1>14, <1>16, <1>17 DEF Completion

\* Lemma: TypeInv at every step; only two actions touch the pools.
LEMMA TypeNext ==
    ASSUME TypeInv, BuffersOK, [Next]_vars
    PROVE  TypeInv' /\ (VisitDead \/ Accept \/ Kept)
<1>1. CASE UNCHANGED vars
  <2>1. TypeInv'
    BY <1>1 DEF vars, pool, hist, TypeInv, Types, Sizes, Ids, cur
  <2>2. Kept
    BY <1>1 DEF vars, Kept
  <2> QED BY <2>1, <2>2
<1>2. CASE Next
  BY <1>2, TypeVisit, TypeRest, TypeRunPosted, TypeAccept, TypeCompletion DEF Next
<1> QED BY <1>1, <1>2

-----------------------------------------------------------------------------
(* The pools.                                                              *)

\* Lemma: after loadConfig everything is free.
LEMMA PoolsInit == Init => PoolsKept
<1> SUFFICES ASSUME Init PROVE PoolsKept
  OBVIOUS
<1>1. Range(conns) = {} /\ IsInjective(conns)
  BY DEF Init, Range, IsInjective
<1>2. Range(freeConns) = Obj /\ IsInjective(freeConns)
  BY DEF Init, Range, IsInjective
<1>3. Range(freeBufs) = Buf /\ IsInjective(freeBufs)
  BY DEF Init, Range, IsInjective
<1>4. \A i \in Id, o \in Obj : usedMap[i] # o
  BY DEF Init, Obj
<1> QED BY <1>1, <1>2, <1>3, <1>4 DEF PoolsKept

\* Lemma: run_conns gives an ended connection back.
LEMMA PoolsDead == ASSUME TypeInv, PoolsKept, VisitDead PROVE PoolsKept'
<1> DEFINE o == cur
           b == conn[o].buf
<1>1. /\ todo # <<>> /\ o \in Obj /\ conn[o].st = "DISCONNECTED"
  BY TailRange DEF TypeInv, Types, VisitDead, StartVisit, cur
<1>2. conn[o].id \in Id /\ b \in Buf
  BY <1>1, ConnTypes
<1>3. /\ conns \in Seq(Obj) /\ freeConns \in Seq(Obj) /\ freeBufs \in Seq(Buf)
      /\ usedMap \in [Id -> Obj \cup {0}] /\ conn \in [Obj -> Conn]
  BY DEF TypeInv, Types
<1>4. /\ IsInjective(conns) /\ IsInjective(freeConns) /\ IsInjective(freeBufs)
      /\ Range(conns) \cap Range(freeConns) = {}
      /\ Range(conns) \cup Range(freeConns) = Obj
      /\ \A x, y \in Range(conns) : x # y => conn[x].buf # conn[y].buf
      /\ {conn[x].buf : x \in Range(conns)} = Buf \ Range(freeBufs)
      /\ \A i \in Id, x \in Obj : usedMap[i] = x <=> x \in Range(conns) /\ conn[x].id = i
  BY DEF PoolsKept
<1>5. PICK k \in DOMAIN conns : conns[k] = o /\ conns' = RemoveAt(conns, k)
  BY DEF VisitDead
<1>6. o \in Range(conns)
  BY <1>5 DEF Range
<1>7. IsInjective(conns') /\ Range(conns') = Range(conns) \ {o}
  BY <1>3, <1>4, <1>5, RemoveAtRange
<1>8. IsInjective(freeConns') /\ Range(freeConns') = Range(freeConns) \cup {o}
  <2>1. freeConns' = <<o>> \o freeConns
    BY DEF VisitDead
  <2> QED BY <1>1, <1>3, <1>4, <1>6, <2>1, ConsRange
<1>9. IsInjective(freeBufs') /\ Range(freeBufs') = Range(freeBufs) \cup {b}
  <2>1. freeBufs' = <<b>> \o freeBufs
    BY DEF VisitDead
  <2>2. b \notin Range(freeBufs)
    BY <1>4, <1>6
  <2> QED BY <1>2, <1>3, <1>4, <2>1, <2>2, ConsRange
<1>10. \A x \in Obj : conn'[x].id = conn[x].id /\ conn'[x].buf = conn[x].buf
  BY <1>1, <1>3 DEF VisitDead
<1>11. usedMap' = [usedMap EXCEPT ![conn[o].id] = 0]
  BY DEF VisitDead
<1>12. \A x, y \in Obj : conn[x].id # 0 /\ conn[x].id = conn[y].id => x = y
  BY DEF TypeInv, Ids
<1>13. 0 \notin Obj /\ 0 \notin Id
  BY DEF Obj, Id
<1>14. Range(conns) \subseteq Obj
  BY <1>4
<1> HIDE DEF o, b
<1>15. \A x, y \in Range(conns') : x # y => conn'[x].buf # conn'[y].buf
  BY <1>4, <1>7, <1>10, <1>14
<1>16. {conn'[x].buf : x \in Range(conns')} = Buf \ Range(freeBufs')
  BY <1>4, <1>6, <1>7, <1>9, <1>10, <1>14 DEF b
<1>17. \A i \in Id, x \in Obj : usedMap'[i] = x <=> x \in Range(conns') /\ conn'[x].id = i
  BY <1>2, <1>3, <1>4, <1>6, <1>7, <1>10, <1>11, <1>12, <1>13
<1>18. Range(conns') \cap Range(freeConns') = {} /\ Range(conns') \cup Range(freeConns') = Obj
  BY <1>1, <1>4, <1>6, <1>7, <1>8
<1> QED BY <1>7, <1>8, <1>9, <1>15, <1>16, <1>17, <1>18 DEF PoolsKept

\* Lemma: accept takes an object and a buffer nobody has.
LEMMA PoolsAccept == ASSUME TypeInv, PoolsKept, Accept PROVE PoolsKept'
<1> DEFINE i == currId + 1
<1>1. PICK o \in Obj, b \in Buf, c \in Conn :
              /\ o = Head(freeConns) /\ b = Head(freeBufs) /\ i \in Id /\ currId \in Nat
              /\ freeConns # <<>> /\ freeBufs # <<>>
              /\ freeConns' = Tail(freeConns) /\ freeBufs' = Tail(freeBufs)
              /\ usedMap' = [usedMap EXCEPT ![i] = o] /\ conns' = Append(conns, o)
              /\ c.id = i /\ c.buf = b /\ conn' = [conn EXCEPT ![o] = c]
  BY AcceptNew
<1>2. /\ conns \in Seq(Obj) /\ freeConns \in Seq(Obj) /\ freeBufs \in Seq(Buf) /\ conn \in [Obj -> Conn]
      /\ usedMap \in [Id -> Obj \cup {0}] /\ currId \in Id \cup {0}
      /\ Len(conns) + Len(freeConns) = MaxConn /\ Len(conns) + Len(freeBufs) = 2 * MaxConn
  BY DEF TypeInv, Types, Sizes
<1>3. freeConns # <<>> /\ freeBufs # <<>>
  BY <1>1
<1>4. /\ IsInjective(conns) /\ IsInjective(freeConns) /\ IsInjective(freeBufs)
      /\ Range(conns) \cap Range(freeConns) = {}
      /\ Range(conns) \cup Range(freeConns) = Obj
      /\ \A x, y \in Range(conns) : x # y => conn[x].buf # conn[y].buf
      /\ {conn[x].buf : x \in Range(conns)} = Buf \ Range(freeBufs)
      /\ \A j \in Id, x \in Obj : usedMap[j] = x <=> x \in Range(conns) /\ conn[x].id = j
  BY DEF PoolsKept
<1>5. /\ o \in Obj /\ IsInjective(freeConns') /\ o \notin Range(freeConns')
      /\ Range(freeConns) = {o} \cup Range(freeConns')
  BY <1>1, <1>2, <1>3, <1>4, TailRange
<1>6. /\ b \in Buf /\ IsInjective(freeBufs') /\ b \notin Range(freeBufs')
      /\ Range(freeBufs) = {b} \cup Range(freeBufs')
  BY <1>1, <1>2, <1>3, <1>4, TailRange
<1>7. i \in Id /\ \A x \in Obj : conn[x].id # i
  <2>1. i \in Id /\ currId \in Nat
    BY <1>1
  <2>2. \A x \in Obj : conn[x].id \in Nat /\ conn[x].id <= currId
    BY ConnTypes DEF TypeInv, Ids, Id
  <2>3. ASSUME NEW x \in Obj, conn[x].id = i PROVE FALSE
    BY <2>1, <2>2, <2>3
  <2> QED BY <2>1, <2>3
<1>8. c.id = i /\ c.buf = b
  BY <1>1
<1> HIDE DEF i
<1>9. IsInjective(conns') /\ Range(conns') = Range(conns) \cup {o} /\ o \notin Range(conns)
  <2>1. o \notin Range(conns)
    BY <1>4, <1>5
  <2> QED BY <1>1, <1>2, <1>4, <1>5, <2>1, AppendRange
<1>10. conn'[o] = c /\ \A x \in Obj : x # o => conn'[x] = conn[x]
  BY <1>1, <1>2, <1>5
<1>11. Range(conns) \subseteq Obj /\ 0 \notin Obj
  BY <1>4 DEF Obj
<1>12. \A x \in Range(conns) : conn[x].buf # b
  BY <1>4, <1>6
<1>13. \A x, y \in Range(conns') : x # y => conn'[x].buf # conn'[y].buf
  BY <1>4, <1>8, <1>9, <1>10, <1>11, <1>12
<1>14. {conn'[x].buf : x \in Range(conns')} = Buf \ Range(freeBufs')
  BY <1>4, <1>6, <1>8, <1>9, <1>10, <1>11
<1>15. \A j \in Id, x \in Obj : usedMap'[j] = x <=> x \in Range(conns') /\ conn'[x].id = j
  BY <1>1, <1>2, <1>4, <1>5, <1>7, <1>8, <1>9, <1>10
<1>16. Range(conns') \cap Range(freeConns') = {} /\ Range(conns') \cup Range(freeConns') = Obj
  BY <1>4, <1>5, <1>9
<1> QED BY <1>5, <1>6, <1>9, <1>13, <1>14, <1>15, <1>16 DEF PoolsKept

\* Lemma: the pools are kept at every step.
LEMMA PoolsNext ==
    ASSUME TypeInv, PoolsKept, VisitDead \/ Accept \/ Kept
    PROVE  PoolsKept'
<1>1. CASE Kept
  <2>1. UNCHANGED <<conns, freeConns, usedMap, freeBufs>>
    BY <1>1 DEF Kept, pool
  <2>2. Range(conns) \subseteq Obj
    BY DEF PoolsKept
  <2> QED BY <1>1, <2>1, <2>2 DEF Kept, PoolsKept
<1> QED BY <1>1, PoolsDead, PoolsAccept

-----------------------------------------------------------------------------
(* The life of the connection objects.                                     *)

\* Lemma: no connection lives initially.
LEMMA LifeInit == Init => LifeInv
<1> SUFFICES ASSUME Init PROVE LifeInv
  OBVIOUS
<1>1. PassOK
  BY DEF Init, PassOK, IsInjective, Range
<1>2. QueueOK
  BY DEF Init, QueueOK
<1>3. EventsOK
  BY DEF Init, EventsOK, Reported, NoConn, Id
<1>4. Served = {}
  BY DEF Init, Served, Range
<1>5. \A o \in Obj : Life(o)
  BY <1>4 DEF Init, Life, NoConn
<1> QED BY <1>1, <1>2, <1>3, <1>5 DEF LifeInv, LifeOK

\* A step that ends no connection and starts none.
Mild ==
    /\ UNCHANGED <<pool, posted, currId, events, phase>>
    /\ \A o \in Obj :
          /\ conn'[o].id = conn[o].id
          /\ IF conn[o].open
             THEN /\ conn'[o].open /\ conn'[o].st \in {"CONNECTED", "DISCONNECTING"}
                  /\ conn'[o].rd # "none" /\ conn'[o].sending = conn'[o].wr
             ELSE conn'[o] = conn[o]

\* Lemma: such a step is no event in the life of a connection.
LEMMA MildLife == ASSUME TypeInv, LifeOK, Mild PROVE LifeOK'
<1>1. Served' = Served /\ Pending' = Pending /\ phase' = phase /\ posted' = posted
      /\ events' = events /\ currId' = currId /\ usedMap' = usedMap
  BY DEF Mild, pool, Served, Pending
<1>2. \A o \in Obj : Life(o)'
  BY <1>1 DEF LifeOK, Mild, Life
<1>3. QueueOK'
  BY <1>1, PostedTypes DEF LifeOK, Mild, QueueOK
<1>4. EventsOK'
  BY <1>1 DEF LifeOK, Mild, EventsOK, Reported
<1> QED BY <1>2, <1>3, <1>4 DEF LifeOK

\* Lemma: the objects with a queued completion after force_close.
LEMMA GrownPending ==
    ASSUME posted \in Seq(Entry), NEW o \in Obj, Grown(posted, posted', o)
    PROVE  /\ Pending \subseteq Pending' /\ Pending' \subseteq Pending \cup {o}
           /\ Len(posted') > Len(posted) => o \in Pending'
           /\ \A k \in 1..Len(posted') :
                \/ k \in 1..Len(posted) /\ posted'[k] = posted[k]
                \/ posted'[k] = [obj |-> o, id |-> conn[o].id, early |-> phase = "run"]
<1>1. /\ Len(posted) \in Nat /\ Len(posted') \in Nat /\ Len(posted') >= Len(posted)
      /\ DOMAIN posted = 1..Len(posted) /\ DOMAIN posted' = 1..Len(posted')
  BY LenProperties DEF Grown
<1>2. \A k \in 1..Len(posted') : k \in 1..Len(posted) \/ k \in (Len(posted) + 1)..Len(posted')
  BY <1>1
<1>3. \A k \in 1..Len(posted') :
         \/ k \in 1..Len(posted) /\ posted'[k] = posted[k]
         \/ posted'[k] = [obj |-> o, id |-> conn[o].id, early |-> phase = "run"]
  BY <1>2 DEF Grown
<1>4. Pending' \subseteq Pending \cup {o}
  BY <1>1, <1>3 DEF Pending
<1>5. Pending \subseteq Pending'
  <2>1. \A k \in 1..Len(posted) : k \in 1..Len(posted') /\ posted'[k] = posted[k]
    BY <1>1 DEF Grown
  <2> QED BY <1>1, <2>1 DEF Pending
<1>6. Len(posted') > Len(posted) => o \in Pending'
  <2>1. SUFFICES ASSUME Len(posted') > Len(posted) PROVE o \in Pending'
    OBVIOUS
  <2>2. Len(posted') \in (Len(posted) + 1)..Len(posted') /\ Len(posted') \in 1..Len(posted')
    BY <1>1, <2>1
  <2>3. posted'[Len(posted')].obj = o
    BY <2>2 DEF Grown
  <2> QED BY <1>1, <2>2, <2>3 DEF Pending
<1> QED BY <1>3, <1>4, <1>5, <1>6

\* Lemma: the socket of a connection is closed, and its object left in state c.
LEMMA EndLife ==
    ASSUME TypeInv, PoolsKept, LifeOK, NEW o \in Obj, conn[o].open, NEW c,
           c.id = conn[o].id, ~c.open, c.rd = "none", ~c.wr, ~c.sending,
           \/ c.st = "DISCONNECTED"
           \/ c.st = "CONNECTED" /\ phase = "poll" /\ Len(posted') > Len(posted),
           conn' = [conn EXCEPT ![o] = c],
           events' = [events EXCEPT ![conn[o].id] = @ + 1],
           Grown(posted, posted', o), UNCHANGED <<pool, currId, phase>>
    PROVE  LifeOK'
<1>1. Served' = Served /\ phase' = phase /\ currId' = currId /\ usedMap' = usedMap
  BY DEF pool, Served
<1>2. conn \in [Obj -> Conn] /\ events \in [Id -> Nat] /\ posted \in Seq(Entry) /\ conn[o].id \in Id
  BY ConnTypes DEF TypeInv, Types
<1>3. conn'[o] = c /\ \A p \in Obj : p # o => conn'[p] = conn[p]
  BY <1>2
<1>4. /\ Life(o) /\ o \in Served /\ o \notin Pending
      /\ events[conn[o].id] = 0 /\ conn[o].id # 0
  BY <1>2, ConnTypes DEF LifeOK, Life, EventsOK, Reported
<1>5. /\ Pending \subseteq Pending' /\ Pending' \subseteq Pending \cup {o}
      /\ Len(posted') > Len(posted) => o \in Pending'
      /\ \A k \in 1..Len(posted') :
            \/ k \in 1..Len(posted) /\ posted'[k] = posted[k]
            \/ posted'[k] = [obj |-> o, id |-> conn[o].id, early |-> phase = "run"]
  BY <1>2, GrownPending
<1>6. \A p \in Obj : Life(p)'
  <2>1. Life(o)'
    BY <1>1, <1>3, <1>4, <1>5 DEF Life
  <2>2. \A p \in Obj : p # o => Life(p)'
    BY <1>1, <1>3, <1>5 DEF LifeOK, Life
  <2> QED BY <2>1, <2>2
<1>7. QueueOK'
  <2>1. SUFFICES ASSUME NEW k \in 1..Len(posted')
                 PROVE  /\ conn'[posted'[k].obj].id = posted'[k].id
                        /\ posted'[k].early \/ posted'[k].obj \in Served
                        /\ phase = "run" => posted'[k].early
                        /\ posted'[k].early => \A j \in 1..k : posted'[j].early
    BY <1>1 DEF QueueOK
  <2>2. CASE k \in 1..Len(posted) /\ posted'[k] = posted[k]
    <3>1. \A j \in 1..k : posted'[j] = posted[j]
      <4>1. \A j \in 1..k : j \in 1..Len(posted)
        BY <2>2, <1>2, LenProperties
      <4> QED BY <4>1 DEF Grown
    <3> QED BY <2>2, <3>1, <1>3, PostedTypes DEF LifeOK, QueueOK
  <2>3. CASE posted'[k] = [obj |-> o, id |-> conn[o].id, early |-> phase = "run"]
    <3> DEFINE e == [obj |-> o, id |-> conn[o].id, early |-> phase = "run"]
    <3>0. e.obj = o /\ e.id = conn[o].id /\ (e.early <=> phase = "run")
      OBVIOUS
    <3> HIDE DEF e
    <3>1. phase = "run" => \A j \in 1..k : posted'[j].early
      <4>1. \A j \in 1..k : j \in 1..Len(posted')
        BY LenProperties DEF Grown
      <4>2. \A j \in 1..k : (j \in 1..Len(posted) /\ posted'[j] = posted[j]) \/ posted'[j] = e
        BY <4>1, <1>5 DEF e
      <4>3. phase = "run" => \A j \in 1..Len(posted) : posted[j].early
        BY DEF LifeOK, QueueOK
      <4> QED BY <4>2, <4>3, <3>0
    <3>2. posted'[k] = e
      BY <2>3 DEF e
    <3> QED BY <3>0, <3>1, <3>2, <1>3, <1>4
  <2> QED BY <2>2, <2>3, <1>5
<1>8. events'[conn[o].id] = 1 /\ \A i \in Id : i # conn[o].id => events'[i] = events[i]
  BY <1>2, <1>4
<1>9. \A p \in Obj : Reported(p)'
  <2>1. Reported(o)'
    BY <1>3, <1>8 DEF Reported
  <2>2. ASSUME NEW p \in Obj, p # o PROVE Reported(p)'
    <3>1. conn[p].id # 0 => conn[p].id \in Id /\ conn[p].id # conn[o].id
      BY <1>4, <2>2, ConnTypes DEF TypeInv, Ids
    <3>2. p \in Pending' => p \in Pending
      BY <1>5, <2>2
    <3> QED BY <1>1, <1>3, <1>8, <2>2, <3>1, <3>2 DEF LifeOK, EventsOK, Reported
  <2> QED BY <2>1, <2>2
<1>10. \A i \in Id : /\ i > currId => events'[i] = 0
                     /\ events'[i] <= 2
                     /\ i <= currId /\ usedMap[i] = 0 => events'[i] >= 1
  <2>1. ~(conn[o].id > currId)
    BY <1>2 DEF TypeInv, Types, Ids, Id
  <2> QED BY <1>8, <2>1 DEF LifeOK, EventsOK
<1> QED BY <1>1, <1>6, <1>7, <1>9, <1>10 DEF LifeOK, EventsOK

\* Lemma: a queued completion closes an object again or finds it closed.
LEMMA RunPostedShape ==
    ASSUME TypeInv, LifeOK, RunPosted
    PROVE  \E o \in Obj :
              /\ posted # <<>> /\ o = Head(posted).obj /\ o \in Pending
              /\ conn[o].id # 0 /\ ~conn[o].open /\ posted' = Tail(posted)
              /\ \/ conn[o].st = "DISCONNECTED" /\ UNCHANGED <<conn, buff, events>>
                 \/ /\ conn[o].st # "DISCONNECTED"
                    /\ conn' = [conn EXCEPT ![o] = Closed(conn[o])]
                    /\ buff' = [buff EXCEPT ![conn[o].buf] = NoBytes]
                    /\ events' = [events EXCEPT ![conn[o].id] = @ + 1]
<1> DEFINE o == Head(posted).obj
           q == Tail(posted)
<1>1. posted # <<>> /\ phase = "poll" /\ ForceClose(o, conn[o], q)
  BY DEF RunPosted
<1>2. posted \in Seq(Entry) /\ q \in Seq(Entry) /\ 1 \in DOMAIN posted /\ Head(posted) = posted[1]
  BY <1>1, PostedTypes, HeadTailProperties, EmptySeq, LenProperties
<1>3. o \in Obj /\ conn[o].id # 0 /\ o \in Pending
  BY <1>2, PostedTypes, LenProperties DEF Pending
<1> HIDE DEF o, q
<1>4. ~conn[o].open /\ conn[o].rd = "none" /\ ~conn[o].wr
  BY <1>3 DEF LifeOK, Life
<1>5. conn[o] \in Conn
  BY <1>3, ConnTypes
<1>6. Aborted(o, conn[o]) = <<>>
  BY <1>3, <1>4, <1>5, AbortedType
<1>7. q \o <<>> = q
  BY <1>2, ConcatEmptySeq
<1> QED BY <1>1, <1>3, <1>4, <1>6, <1>7 DEF ForceClose, o, q

\* Lemma: so that the life of the connections goes on as it must.
LEMMA RunPostedLife == ASSUME TypeInv, LifeOK, RunPosted PROVE LifeOK'
<1>1. PICK o \in Obj :
              /\ posted # <<>> /\ o = Head(posted).obj /\ o \in Pending
              /\ conn[o].id # 0 /\ ~conn[o].open /\ posted' = Tail(posted)
              /\ \/ conn[o].st = "DISCONNECTED" /\ UNCHANGED <<conn, buff, events>>
                 \/ /\ conn[o].st # "DISCONNECTED"
                    /\ conn' = [conn EXCEPT ![o] = Closed(conn[o])]
                    /\ buff' = [buff EXCEPT ![conn[o].buf] = NoBytes]
                    /\ events' = [events EXCEPT ![conn[o].id] = @ + 1]
  BY RunPostedShape
<1>2. /\ phase = "poll" /\ phase' = phase /\ currId' = currId /\ usedMap' = usedMap /\ Served' = Served
  BY DEF RunPosted, pool, Served
<1>3. conn \in [Obj -> Conn] /\ events \in [Id -> Nat] /\ posted \in Seq(Entry) /\ conn[o].id \in Id
  BY <1>1, ConnTypes DEF TypeInv, Types
<1>4. /\ Len(posted) \in Nat \ {0} /\ Len(posted') = Len(posted) - 1 /\ Head(posted) = posted[1]
      /\ \A k \in 1..Len(posted') : posted'[k] = posted[k + 1]
      /\ DOMAIN posted = 1..Len(posted) /\ DOMAIN posted' = 1..Len(posted')
  BY <1>1, <1>3, HeadTailProperties, EmptySeq, LenProperties
<1>5. Pending = Pending' \cup {o}
  <2>1. \A k \in 1..Len(posted') : k + 1 \in 1..Len(posted)
    BY <1>4
  <2>2. \A k \in 1..Len(posted) : k = 1 \/ (k - 1 \in 1..Len(posted') /\ (k - 1) + 1 = k)
    BY <1>4
  <2>3. \A k \in 1..Len(posted) : k = 1 \/ (k - 1 \in 1..Len(posted') /\ posted'[k - 1] = posted[k])
    BY <1>4, <2>2
  <2>4. Pending' \subseteq Pending
    BY <1>4, <2>1 DEF Pending
  <2>5. Pending \subseteq Pending' \cup {o}
    <3>1. \A k \in 1..Len(posted') : posted'[k].obj \in Pending'
      BY <1>4 DEF Pending
    <3>2. \A k \in 1..Len(posted) : posted[k].obj \in Pending' \cup {o}
      BY <1>1, <1>4, <2>3, <3>1
    <3> QED BY <1>4, <3>2 DEF Pending
  <2> QED BY <1>1, <2>4, <2>5
<1>6. /\ conn'[o].id = conn[o].id /\ ~conn'[o].open /\ conn'[o].st = "DISCONNECTED"
      /\ conn'[o].rd = "none" /\ ~conn'[o].wr /\ ~conn'[o].sending
      /\ \A p \in Obj : p # o => conn'[p] = conn[p]
  <2>1. CASE conn[o].st = "DISCONNECTED" /\ UNCHANGED <<conn, buff, events>>
    BY <1>1, <2>1 DEF LifeOK, Life
  <2>2. CASE conn' = [conn EXCEPT ![o] = Closed(conn[o])]
    <3>1. conn[o] \in Conn
      BY <1>3
    <3>2. /\ Closed(conn[o]).id = conn[o].id /\ ~Closed(conn[o]).open
          /\ Closed(conn[o]).st = "DISCONNECTED"
          /\ Closed(conn[o]).rd = "none" /\ ~Closed(conn[o]).wr /\ ~Closed(conn[o]).sending
      BY <3>1 DEF Closed, Conn
    <3> QED BY <1>3, <2>2, <3>2
  <2> QED BY <1>1, <2>1, <2>2
<1>7. \A p \in Obj : Life(p)'
  <2>1. Life(o)'
    BY <1>6 DEF Life
  <2>2. \A p \in Obj : p # o => Life(p)'
    BY <1>2, <1>5, <1>6 DEF LifeOK, Life
  <2> QED BY <2>1, <2>2
<1>8. QueueOK'
  <2>1. SUFFICES ASSUME NEW k \in 1..Len(posted')
                 PROVE  /\ conn'[posted'[k].obj].id = posted'[k].id
                        /\ posted'[k].early \/ posted'[k].obj \in Served
                        /\ posted'[k].early => \A j \in 1..k : posted'[j].early
    BY <1>2 DEF QueueOK
  <2>2. k + 1 \in 1..Len(posted) /\ \A j \in 1..k : j + 1 \in 1..(k + 1) /\ j \in 1..Len(posted')
    BY <1>4
  <2>3. posted'[k] = posted[k + 1] /\ \A j \in 1..k : posted'[j] = posted[j + 1]
    BY <1>4, <2>2
  <2>4. \A p \in Obj : conn'[p].id = conn[p].id
    BY <1>6
  <2> QED BY <2>2, <2>3, <2>4, PostedTypes, SMTT(30) DEF LifeOK, QueueOK
<1>9. /\ events'[conn[o].id] \in {1, 2}
      /\ \A i \in Id : i # conn[o].id => events'[i] = events[i]
  <2>1. events[conn[o].id] \in {1, 2}
    BY <1>1, <1>3 DEF LifeOK, EventsOK, Reported
  <2>2. CASE UNCHANGED <<conn, buff, events>>
    BY <2>1, <2>2
  <2>3. CASE conn[o].st # "DISCONNECTED" /\ events' = [events EXCEPT ![conn[o].id] = @ + 1]
    <3>1. conn[o].st = "CONNECTED" \/ conn[o].st = "NOT_CONNECT"
      <4>1. conn[o].st # "NOT_USE" /\ conn[o] \in Conn
        BY <1>1, <1>3 DEF TypeInv, Ids
      <4>2. conn[o].st # "DISCONNECTING"
        BY <1>1 DEF LifeOK, Life
      <4> QED BY <4>1, <4>2, <2>3 DEF Conn, State
    <3>2. events[conn[o].id] = 1
      BY <1>1, <3>1 DEF LifeOK, EventsOK, Reported
    <3> QED BY <1>3, <2>3, <3>2
  <2> QED BY <1>1, <2>2, <2>3
<1>10. \A p \in Obj : Reported(p)'
  <2>1. Reported(o)'
    BY <1>2, <1>6, <1>9 DEF Reported
  <2>2. ASSUME NEW p \in Obj, p # o PROVE Reported(p)'
    <3>1. conn[p].id # 0 => conn[p].id \in Id /\ conn[p].id # conn[o].id
      BY <1>1, <2>2, ConnTypes DEF TypeInv, Ids
    <3> QED BY <1>2, <1>5, <1>6, <1>9, <2>2, <3>1 DEF LifeOK, EventsOK, Reported
  <2> QED BY <2>1, <2>2
<1>11. \A i \in Id : /\ i > currId => events'[i] = 0
                     /\ events'[i] <= 2
                     /\ i <= currId /\ usedMap[i] = 0 => events'[i] >= 1
  <2>1. ~(conn[o].id > currId)
    BY <1>3 DEF TypeInv, Types, Ids, Id
  <2> QED BY <1>9, <2>1 DEF LifeOK, EventsOK
<1> QED BY <1>2, <1>7, <1>8, <1>10, <1>11 DEF LifeOK, EventsOK

\* Lemma: the pass gives an ended connection's object and buffer back.
LEMMA DeadShape ==
    ASSUME TypeInv, PoolsKept, VisitDead
    PROVE  /\ phase = "run" /\ todo # <<>> /\ cur \in Obj /\ cur \in Served
           /\ conn[cur].st = "DISCONNECTED" /\ conn[cur].id \in Id /\ conn[cur].buf \in Buf
           /\ Served' = Served \ {cur}
           /\ Range(freeBufs') = Range(freeBufs) \cup {conn[cur].buf}
           /\ conn' = [conn EXCEPT ![cur].st = "NOT_CONNECT"]
           /\ buff' = [buff EXCEPT ![conn[cur].buf] = NoBytes]
           /\ usedMap' = [usedMap EXCEPT ![conn[cur].id] = 0]
           /\ todo' = Tail(todo) /\ UNCHANGED <<phase, pos, posted, currId, peer, hist>>
<1>1. /\ phase = "run" /\ todo # <<>> /\ cur \in Obj /\ conn[cur].st = "DISCONNECTED"
  BY TailRange DEF TypeInv, Types, VisitDead, StartVisit, cur
<1>2. conn[cur].id \in Id /\ conn[cur].buf \in Buf
  BY <1>1, ConnTypes
<1>3. /\ conns \in Seq(Obj) /\ freeBufs \in Seq(Buf) /\ IsInjective(conns)
  BY DEF TypeInv, Types, PoolsKept
<1>4. PICK k \in DOMAIN conns : conns[k] = cur /\ conns' = RemoveAt(conns, k)
  BY DEF VisitDead
<1>5. cur \in Served
  BY <1>4 DEF Served, Range
<1>6. Served' = Served \ {cur}
  BY <1>3, <1>4, RemoveAtRange DEF Served
<1>7. Range(freeBufs') = Range(freeBufs) \cup {conn[cur].buf}
  <2>1. freeBufs' = <<conn[cur].buf>> \o freeBufs
    BY DEF VisitDead
  <2> QED BY <1>2, <1>3, <2>1, ConsRange
<1> QED BY <1>1, <1>2, <1>5, <1>6, <1>7 DEF VisitDead

\* Lemma: an object is freed only when its end has been reported.
LEMMA DeadLife == ASSUME TypeInv, PoolsKept, LifeOK, VisitDead PROVE LifeOK'
<1>0. PICK o \in Obj : o = cur
  BY DeadShape
<1> DEFINE c == [conn[o] EXCEPT !.st = "NOT_CONNECT"]
<1>1. /\ phase = "run" /\ o \in Obj /\ o \in Served
      /\ conn[o].st = "DISCONNECTED" /\ conn[o].id \in Id
      /\ Served' = Served \ {o} /\ conn' = [conn EXCEPT ![o] = c]
      /\ usedMap' = [usedMap EXCEPT ![conn[o].id] = 0]
      /\ UNCHANGED <<phase, posted, currId, events>>
  BY <1>0, DeadShape DEF hist
<1>2. conn \in [Obj -> Conn] /\ usedMap \in [Id -> Obj \cup {0}] /\ conn[o].id # 0
  BY <1>1, ConnTypes DEF TypeInv, Types
<1>3. /\ c.id = conn[o].id /\ c.open = conn[o].open /\ c.rd = conn[o].rd /\ c.wr = conn[o].wr
      /\ c.sending = conn[o].sending /\ c.st = "NOT_CONNECT"
  <2>1. conn[o] \in Conn
    BY <1>1, <1>2
  <2> QED BY <2>1 DEF Conn
<1> HIDE DEF c
<1>4. conn'[o] = c /\ \A p \in Obj : p # o => conn'[p] = conn[p]
  BY <1>1, <1>2
<1>5. Pending' = Pending
  BY <1>1 DEF Pending
<1>6. ~conn[o].open /\ conn[o].rd = "none" /\ ~conn[o].wr /\ ~conn[o].sending
  BY <1>1 DEF LifeOK, Life
<1>7. \A p \in Obj : Life(p)'
  <2>1. Life(o)'
    BY <1>1, <1>3, <1>4, <1>6 DEF Life
  <2>2. \A p \in Obj : p # o => Life(p)'
    BY <1>1, <1>4, <1>5 DEF LifeOK, Life
  <2> QED BY <2>1, <2>2
<1>8. QueueOK'
  BY <1>1, <1>3, <1>4, PostedTypes DEF LifeOK, QueueOK
<1>9. events[conn[o].id] >= 1 /\ \A p \in Obj : Reported(p)'
  BY <1>1, <1>2, <1>3, <1>4, <1>5, <1>6 DEF LifeOK, EventsOK, Reported
<1>10. \A i \in Id : /\ i > currId => events[i] = 0
                     /\ events[i] <= 2
                     /\ i <= currId /\ usedMap'[i] = 0 => events[i] >= 1
  BY <1>1, <1>2, <1>9 DEF LifeOK, EventsOK
<1> QED BY <1>1, <1>7, <1>8, <1>9, <1>10 DEF LifeOK, EventsOK

\* Lemma: the reactor's completions find no queued completion of a freed object.
LEMMA ReactorServed == ASSUME TypeInv, LifeOK, Reactor PROVE Pending \subseteq Served
<1>1. posted \in Seq(Entry) /\ Len(posted) \in Nat /\ DOMAIN posted = 1..Len(posted)
  BY PostedTypes, LenProperties
<1>2. SUFFICES ASSUME NEW k \in 1..Len(posted) PROVE posted[k].obj \in Served
  BY <1>1 DEF Pending
<1>3. posted # <<>> /\ 1 \in 1..k /\ Head(posted) = posted[1]
  BY <1>1, <1>2
<1>4. ~posted[1].early
  BY <1>3 DEF Reactor
<1> QED BY <1>3, <1>4 DEF LifeOK, QueueOK

\* Lemma: a connection takes the first free object and buffer.
LEMMA AcceptShape ==
    ASSUME TypeInv, PoolsKept, LifeOK, Accept
    PROVE  \E o \in Obj, b \in Buf, c \in Conn :
              /\ phase = "poll" /\ currId + 1 \in Id /\ currId \in Nat
              /\ o \notin Served /\ o \notin Pending /\ Served' = Served \cup {o}
              /\ b \in Range(freeBufs) /\ Range(freeBufs') = Range(freeBufs) \ {b}
              /\ c.id = currId + 1 /\ c.buf = b /\ ~c.wr /\ ~c.sending
              /\ Welcomed(o, c) \/ Refused(o, c)
              /\ conn' = [conn EXCEPT ![o] = c] /\ usedMap' = [usedMap EXCEPT ![currId + 1] = o]
              /\ currId' = currId + 1
              /\ UNCHANGED <<phase, todo, pos, peer, sent, got, queued, wrote>>
              /\ \A x \in Obj : conn[x].id # currId + 1
<1> DEFINE i == currId + 1
<1>1. PICK o \in Obj, b \in Buf, c \in Conn :
              /\ o = Head(freeConns) /\ b = Head(freeBufs)
              /\ Reactor /\ phase = "poll" /\ i \in Id /\ currId \in Nat
              /\ freeConns # <<>> /\ freeBufs # <<>>
              /\ currId' = i /\ freeConns' = Tail(freeConns) /\ freeBufs' = Tail(freeBufs)
              /\ usedMap' = [usedMap EXCEPT ![i] = o] /\ conns' = Append(conns, o)
              /\ c.id = i /\ c.buf = b /\ conn' = [conn EXCEPT ![o] = c]
              /\ Welcomed(o, c) \/ Refused(o, c)
              /\ UNCHANGED <<phase, todo, pos, peer, sent, got, queued, wrote>>
  BY AcceptNew
<1>2. /\ conns \in Seq(Obj) /\ freeConns \in Seq(Obj) /\ freeBufs \in Seq(Buf) /\ conn \in [Obj -> Conn]
      /\ currId \in Id \cup {0}
  BY DEF TypeInv, Types
<1>3. /\ o \in Range(freeConns) /\ b \in Range(freeBufs)
      /\ Range(freeBufs') = Range(freeBufs) \ {b}
  BY <1>1, <1>2, TailRange DEF PoolsKept
<1>4. o \notin Served
  BY <1>3 DEF PoolsKept, Served
<1>5. o \notin Pending
  BY <1>1, <1>4, ReactorServed
<1>6. Served' = Served \cup {o}
  BY <1>1, <1>2, AppendRange DEF Served
<1>7. ~c.wr /\ ~c.sending
  <2>1. ~conn[o].open /\ ~conn[o].wr /\ ~conn[o].sending
    BY <1>4 DEF LifeOK, Life
  <2> QED BY <1>1, <2>1 DEF Welcomed, Refused
<1>8. \A x \in Obj : conn[x].id # i
  <2>1. \A x \in Obj : conn[x].id \in Nat /\ conn[x].id <= currId
    BY ConnTypes DEF TypeInv, Ids, Id
  <2>2. ASSUME NEW x \in Obj, conn[x].id = i PROVE FALSE
    BY <1>1, <2>1, <2>2
  <2> QED BY <2>2
<1> QED BY <1>1, <1>3, <1>4, <1>5, <1>6, <1>7, <1>8

\* Lemma: the object that accept takes has no completion in the queue, but
\* for the one that closing it in onConnect adds.
LEMMA AcceptLife == ASSUME TypeInv, PoolsKept, LifeOK, Accept PROVE LifeOK'
<1>1. PICK o \in Obj, b \in Buf, c \in Conn :
              /\ phase = "poll" /\ currId + 1 \in Id /\ currId \in Nat
              /\ o \notin Served /\ o \notin Pending /\ Served' = Served \cup {o}
              /\ c.id = currId + 1 /\ c.buf = b /\ ~c.wr /\ ~c.sending
              /\ Welcomed(o, c) \/ Refused(o, c)
              /\ conn' = [conn EXCEPT ![o] = c] /\ usedMap' = [usedMap EXCEPT ![currId + 1] = o]
              /\ currId' = currId + 1 /\ UNCHANGED <<phase, todo, pos>>
              /\ \A x \in Obj : conn[x].id # currId + 1
  BY AcceptShape
<1>2. conn \in [Obj -> Conn] /\ usedMap \in [Id -> Obj \cup {0}] /\ events \in [Id -> Nat]
  BY DEF TypeInv, Types
<1>3. \A k \in 1..Len(posted') :
         \/ k \in 1..Len(posted) /\ posted'[k] = posted[k]
         \/ Refused(o, c) /\ posted'[k] = [obj |-> o, id |-> c.id, early |-> FALSE]
  BY <1>1, RefusedTypes
<1>4. conn'[o] = c /\ \A p \in Obj : p # o => conn'[p] = conn[p]
  BY <1>1, <1>2
<1>5. posted \in Seq(Entry) /\ posted' \in Seq(Entry) /\ Len(posted) \in Nat /\ Len(posted') \in Nat
  BY <1>1, RefusedTypes, PostedTypes, LenProperties
<1>6. /\ \A p \in Obj : p # o => (p \in Pending' <=> p \in Pending)
      /\ c.open => o \notin Pending'
  <2>1. DOMAIN posted = 1..Len(posted) /\ DOMAIN posted' = 1..Len(posted')
    BY <1>5, LenProperties
  <2>2. \A k \in 1..Len(posted) : k \in 1..Len(posted') /\ posted'[k] = posted[k]
    BY <1>1, <1>5 DEF Welcomed, Refused
  <2>3. \A p \in Obj : p # o => (p \in Pending' <=> p \in Pending)
    BY <1>3, <2>1, <2>2 DEF Pending
  <2>4. c.open => o \notin Pending'
    BY <1>1 DEF Welcomed, Refused, Pending
  <2> QED BY <2>3, <2>4
<1>7. \A p \in Obj : Life(p)'
  <2>1. Life(o)'
    BY <1>1, <1>4, <1>6 DEF Life, Conn, Welcomed, Refused
  <2>2. \A p \in Obj : p # o => Life(p)'
    BY <1>1, <1>4, <1>6 DEF LifeOK, Life
  <2> QED BY <2>1, <2>2
<1>8. QueueOK'
  <2>1. \A k \in 1..Len(posted) : posted[k].obj \in Obj \ {o}
    BY <1>1, <1>5, PostedTypes, LenProperties DEF Pending
  <2>2. SUFFICES ASSUME NEW k \in 1..Len(posted')
                 PROVE  /\ conn'[posted'[k].obj].id = posted'[k].id
                        /\ posted'[k].early \/ posted'[k].obj \in Served'
                        /\ phase = "run" => posted'[k].early
                        /\ posted'[k].early => \A j \in 1..k : posted'[j].early
    BY <1>1 DEF QueueOK
  <2>3. CASE k \in 1..Len(posted) /\ posted'[k] = posted[k]
    <3>1. \A j \in 1..k : posted'[j] = posted[j]
      <4>1. \A j \in 1..k : j \in 1..Len(posted)
        BY <1>5, <2>3
      <4> QED BY <1>1, <4>1 DEF Welcomed, Refused
    <3> QED BY <1>1, <1>4, <2>1, <2>3, <3>1 DEF LifeOK, QueueOK
  <2>4. CASE posted'[k] = [obj |-> o, id |-> c.id, early |-> FALSE]
    BY <1>1, <1>4, <2>4
  <2> QED BY <1>3, <2>3, <2>4
<1>9. events[currId + 1] = 0
  <2>1. currId + 1 > currId
    BY <1>1
  <2> QED BY <1>1, <2>1 DEF LifeOK, EventsOK
<1>10. /\ \A i \in Id : i # currId + 1 => events'[i] = events[i]
       /\ c.open => events'[currId + 1] = 0
       /\ ~c.open => events'[currId + 1] = 1
  BY <1>1, <1>2, <1>9 DEF Welcomed, Refused
<1>11. \A p \in Obj : Reported(p)'
  <2>1. Reported(o)'
    BY <1>1, <1>4, <1>10 DEF Reported
  <2>2. ASSUME NEW p \in Obj, p # o PROVE Reported(p)'
    <3>1. CASE conn[p].id = 0
      BY <1>4, <2>2, <3>1 DEF Reported
    <3>2. CASE conn[p].id # 0
      <4>1. conn[p].id \in Id /\ events'[conn[p].id] = events[conn[p].id]
        BY <1>1, <1>10, <3>2, ConnTypes
      <4> QED BY <1>1, <1>4, <1>6, <2>2, <4>1 DEF LifeOK, EventsOK, Reported
    <3> QED BY <3>1, <3>2
  <2> QED BY <2>1, <2>2
<1>12. \A i \in Id : /\ i > currId + 1 => events'[i] = 0
                     /\ events'[i] <= 2
                     /\ i <= currId + 1 /\ usedMap'[i] = 0 => events'[i] >= 1
  <2>1. ASSUME NEW i \in Id
        PROVE  /\ i > currId + 1 => i > currId /\ i # currId + 1
               /\ i <= currId + 1 => i <= currId \/ i = currId + 1
    BY <1>1 DEF Id
  <2>2. o # 0
    BY DEF Obj
  <2>3. usedMap'[currId + 1] # 0 /\ \A i \in Id : i # currId + 1 => usedMap'[i] = usedMap[i]
    BY <1>1, <1>2, <2>2
  <2>4. events'[currId + 1] <= 2
    BY <1>10
  <2> QED BY <1>10, <2>1, <2>3, <2>4 DEF LifeOK, EventsOK
<1> QED BY <1>1, <1>7, <1>8, <1>11, <1>12 DEF LifeOK, EventsOK

\* Lemma: a phase ends.
LEMMA PhaseLife == ASSUME TypeInv, LifeOK, EndRun \/ EndPoll PROVE LifeOK'
<1>1. Served' = Served /\ Pending' = Pending /\ UNCHANGED <<conn, posted, events, currId, usedMap>>
  BY DEF EndRun, EndPoll, pool, hist, Served, Pending
<1>2. CASE EndRun
  <2>1. phase = "run" /\ phase' = "poll"
    BY <1>2 DEF EndRun
  <2>2. \A o \in Obj : Life(o)' /\ Reported(o)'
    BY <1>1, <2>1 DEF LifeOK, EventsOK, Reported, Life
  <2>3. QueueOK'
    BY <1>1, <2>1 DEF LifeOK, QueueOK
  <2> QED BY <1>1, <2>2, <2>3 DEF LifeOK, EventsOK
<1>3. CASE EndPoll
  <2>1. Pending = {} /\ Len(posted) = 0
    BY <1>3 DEF EndPoll, Pending
  <2>2. \A o \in Obj : Life(o)' /\ Reported(o)'
    BY <1>1, <2>1 DEF LifeOK, EventsOK, Reported, Life
  <2>3. QueueOK'
    BY <1>1, <2>1 DEF QueueOK
  <2> QED BY <1>1, <2>2, <2>3 DEF LifeOK, EventsOK
<1> QED BY <1>2, <1>3

\* Lemma: steps that change no object, or one with an open socket.
LEMMA MildSame ==
    ASSUME LifeOK, UNCHANGED <<pool, posted, currId, events, phase, conn>>
    PROVE  Mild
  BY DEF Mild, LifeOK, Life

\* Lemma: a step on one open connection that stays open.
LEMMA MildConn ==
    ASSUME TypeInv, LifeOK, UNCHANGED <<pool, posted, currId, events, phase>>,
           NEW o \in Obj, conn[o].open, NEW c, conn' = [conn EXCEPT ![o] = c],
           c.id = conn[o].id, c.open, c.st \in {"CONNECTED", "DISCONNECTING"},
           c.rd # "none", c.sending = c.wr
    PROVE  Mild
<1>1. conn'[o] = c /\ \A p \in Obj : p # o => conn'[p] = conn[p]
  BY DEF TypeInv, Types
<1> QED BY <1>1 DEF Mild, LifeOK, Life

\* Lemma: while the pass runs, an object the application reaches is closed or open.
LEMMA RunOpen ==
    ASSUME LifeOK, phase = "run", NEW d \in Obj,
           d \in Served \/ conn[d].st \in {"CONNECTED", "DISCONNECTING"}, conn[d].st # "DISCONNECTED"
    PROVE  conn[d].open
  BY DEF LifeOK, Life

\* Lemma: what used_map_ finds is served.
LEMMA LiveServed == ASSUME PoolsKept, TypeInv, NEW d \in Obj, Live(d) PROVE d \in Served /\ conn[d].id # 0
<1>1. conn[d].id \in Id /\ usedMap[conn[d].id] = d
  BY ConnTypes DEF Live
<1> QED BY <1>1 DEF PoolsKept, Served, Live

\* Lemma: force_close of an open connection.
LEMMA ForceCloseLife ==
    ASSUME TypeInv, PoolsKept, LifeOK, NEW o \in Obj, conn[o].open, NEW c,
           c \in {conn[o], [conn[o] EXCEPT !.rd = "none"], [conn[o] EXCEPT !.wr = FALSE]},
           ForceClose(o, c, posted), UNCHANGED <<pool, currId, phase>>
    PROVE  LifeOK' /\ \A p \in Obj : p # o => conn'[p] = conn[p]
<1>1. conn \in [Obj -> Conn] /\ conn[o].id # 0 /\ posted \in Seq(Entry) /\ conn[o] \in Conn
  BY ConnTypes DEF TypeInv, Types
<1>2. conn[o].st # "DISCONNECTED"
  BY DEF LifeOK, Life
<1>3. Shut(o, posted)
  BY <1>1, <1>2, ForceCloseShape
<1> DEFINE e == Closed(conn[o])
<1>4. e.id = conn[o].id /\ ~e.open /\ e.rd = "none" /\ ~e.wr /\ ~e.sending /\ e.st = "DISCONNECTED"
  BY <1>1 DEF Closed, Conn
<1>5. /\ conn' = [conn EXCEPT ![o] = e] /\ events' = [events EXCEPT ![conn[o].id] = @ + 1]
      /\ Grown(posted, posted', o)
  BY <1>3 DEF Shut
<1> HIDE DEF e
<1>6. LifeOK'
  BY <1>4, <1>5, EndLife
<1> QED BY <1>1, <1>5, <1>6

\* Lemma: what the application does to a connection.
LEMMA AppLife ==
    ASSUME TypeInv, PoolsKept, LifeOK, phase = "run", NEW d \in Obj, AppOp(d),
           UNCHANGED <<pool, currId, phase>>
    PROVE  /\ LifeOK' /\ \A p \in Obj : p # d => conn'[p] = conn[p]
           /\ Send(d) \/ Close(d) => conn'[d].st \in {"CONNECTED", "DISCONNECTING"}
<1>0. conn \in [Obj -> Conn] /\ d \in Served
  BY LiveServed DEF TypeInv, Types, AppOp, Send, Close, Kick
<1>1. CASE Send(d)
  <2>1. Mild /\ conn' = conn /\ conn[d].st = "CONNECTED"
    BY <1>1, MildSame DEF Send
  <2> QED BY <2>1, MildLife
<1>2. CASE Close(d)
  <2> DEFINE c == [conn[d] EXCEPT !.st = "DISCONNECTING"]
  <2>1. conn[d].open
    BY <1>0, <1>2, RunOpen DEF Close
  <2>2. conn' = [conn EXCEPT ![d] = c] /\ UNCHANGED <<posted, events>>
    BY <1>2 DEF Close
  <2>3. /\ c.id = conn[d].id /\ c.open /\ c.st = "DISCONNECTING" /\ c.rd # "none" /\ c.sending = c.wr
    <3>1. conn[d] \in Conn /\ conn[d].rd # "none" /\ conn[d].sending = conn[d].wr
      BY <1>0, <2>1 DEF LifeOK, Life
    <3> QED BY <2>1, <3>1 DEF Conn
  <2> HIDE DEF c
  <2>4. Mild
    BY <2>1, <2>2, <2>3, MildConn
  <2> QED BY <1>0, <2>2, <2>3, <2>4, MildLife
<1>3. CASE Kick(d)
  <2>1. ForceClose(d, conn[d], posted)
    BY <1>3 DEF Kick
  <2>2. CASE conn[d].st = "DISCONNECTED"
    <3>1. UNCHANGED <<conn, posted, events>>
      BY <2>1, <2>2 DEF ForceClose
    <3>2. LifeOK'
      BY <3>1, MildSame, MildLife
    <3> QED BY <2>2, <3>1, <3>2 DEF Send, Close
  <2>3. CASE conn[d].st # "DISCONNECTED"
    <3>1. conn[d].open
      BY <1>0, <2>3, RunOpen
    <3>2. LifeOK' /\ \A p \in Obj : p # d => conn'[p] = conn[p]
      BY <2>1, <3>1, ForceCloseLife
    <3>3. Close(d) => conn'[d].st \in {"CONNECTED", "DISCONNECTING"}
      BY <1>0 DEF Close
    <3>4. Send(d) => conn'[d].st \in {"CONNECTED", "DISCONNECTING"}
      BY <1>0 DEF Send
    <3> QED BY <3>2, <3>3, <3>4
  <2> QED BY <2>2, <2>3
<1> QED BY <1>1, <1>2, <1>3 DEF AppOp

\* Lemma: the pass goes on to the next connection.
LEMMA TailPass ==
    ASSUME TypeInv, PassOK, todo # <<>>, todo' = Tail(todo), phase' = "run", pos' = 0,
           Served' = Served \/ Served' = Served \ {cur}
    PROVE  PassOK'
<1>1. todo \in Seq(Obj)
  BY DEF TypeInv, Types
<1>2. IsInjective(todo') /\ cur \notin Range(todo') /\ Range(todo') \subseteq Range(todo)
  BY <1>1, TailRange DEF PassOK, cur
<1> QED BY <1>2 DEF PassOK

\* Lemma: the life of the connections at every step of the pass.
LEMMA LifeVisit == ASSUME TypeInv, PoolsKept, LifeInv, Visit PROVE LifeInv'
<1>0. PassOK /\ LifeOK
  BY DEF LifeInv
<1>1. CASE VisitDead
  <2>1. PassOK'
    BY <1>0, <1>1, DeadShape, TailPass DEF VisitDead, StartVisit
  <2> QED BY <1>0, <1>1, <2>1, DeadLife DEF LifeInv
<1>2. CASE VisitIdle
  <2>1. Mild
    BY <1>0, <1>2, MildSame DEF VisitIdle, hist
  <2>2. PassOK'
    BY <1>0, <1>2, TailPass DEF VisitIdle, pool, Served
  <2> QED BY <1>0, <2>1, <2>2, MildLife DEF LifeInv
<1>3. CASE VisitTimeout
  <2>1. PICK o \in Obj : o = cur /\ conn[o].st = "DISCONNECTING"
    BY <1>3, TailRange DEF TypeInv, Types, VisitTimeout, StartVisit, cur
  <2>2. /\ phase = "run" /\ ForceClose(o, conn[o], posted) /\ UNCHANGED <<pool, currId, phase>>
    BY <1>3, <2>1 DEF VisitTimeout, StartVisit
  <2>3. conn[o].open
    BY <1>0, <2>1, <2>2, RunOpen
  <2>4. LifeOK'
    BY <1>0, <2>2, <2>3, ForceCloseLife
  <2>5. PassOK'
    BY <1>0, <1>3, TailPass DEF VisitTimeout, StartVisit, pool, Served
  <2> QED BY <2>4, <2>5 DEF LifeInv
<1>4. CASE VisitConnected
  <2>1. Mild
    BY <1>0, <1>4, MildSame DEF VisitConnected, hist
  <2>2. PassOK'
    BY <1>0, <1>4 DEF VisitConnected, StartVisit, pool, Served, PassOK, cur
  <2> QED BY <1>0, <2>1, <2>2, MildLife DEF LifeInv
<1>5. CASE Deliver
  <2>1. phase = "run" /\ pos > 0 /\ UNCHANGED <<pool, currId, phase, todo>>
    BY <1>5 DEF Deliver, Handling
  <2>2. PICK o \in Obj : o = cur /\ conn[o].st \in {"CONNECTED", "DISCONNECTING"}
    BY <1>0, <2>1, HandlingTypes DEF PassOK
  <2>3. LifeOK' /\ conn'[o].st \in {"CONNECTED", "DISCONNECTING"}
    BY <1>0, <1>5, <2>1, <2>2, MildSame, MildLife DEF Deliver
  <2>4. PassOK'
    <3>1. cur' = o /\ Served' = Served
      BY <2>1, <2>2 DEF cur, pool, Served
    <3> QED BY <1>0, <2>1, <2>3, <3>1 DEF PassOK
  <2> QED BY <2>3, <2>4 DEF LifeInv
<1>6. CASE DeliverFail
  <2>1. pos > 0 /\ phase = "run"
    BY <1>6 DEF DeliverFail, Handling
  <2>2. PICK o \in Obj : o = cur /\ conn[o].st \in {"CONNECTED", "DISCONNECTING"}
    BY <1>0, <2>1, HandlingTypes DEF PassOK
  <2>3. ForceClose(o, conn[o], posted) /\ UNCHANGED <<pool, currId, phase>>
    BY <1>6, <2>2 DEF DeliverFail
  <2>4. LifeOK'
    BY <1>0, <2>1, <2>2, <2>3, RunOpen, ForceCloseLife
  <2>5. PassOK'
    BY <1>0, <1>6, <2>1, HandlingTypes, TailPass DEF DeliverFail, pool, Served
  <2> QED BY <2>4, <2>5 DEF LifeInv
<1>7. CASE DeliverEnd
  <2>1. pos > 0 /\ phase = "run" /\ UNCHANGED <<pool, posted, currId, events, phase>>
    BY <1>7 DEF DeliverEnd, hist
  <2>2. PICK o \in Obj : o = cur /\ conn[o].st \in {"CONNECTED", "DISCONNECTING"}
    BY <1>0, <2>1, HandlingTypes DEF PassOK
  <2> DEFINE c == StartSend(conn[o], buff[conn[o].buf].sq)
  <2>3. conn' = [conn EXCEPT ![o] = c]
    BY <1>7, <2>2 DEF DeliverEnd
  <2>4. conn[o].open
    BY <1>0, <2>1, <2>2, RunOpen
  <2>5. conn[o] \in Conn /\ conn[o].rd # "none" /\ conn[o].sending = conn[o].wr
    BY <1>0, <2>4, ConnTypes DEF LifeOK, Life
  <2>6. /\ c.id = conn[o].id /\ c.open /\ c.st \in {"CONNECTED", "DISCONNECTING"}
        /\ c.rd # "none" /\ c.sending = c.wr
    BY <2>2, <2>4, <2>5 DEF StartSend, Conn
  <2> HIDE DEF c
  <2>7. LifeOK'
    BY <1>0, <2>1, <2>3, <2>4, <2>6, MildConn, MildLife
  <2>8. PassOK'
    BY <1>0, <1>7, <2>1, HandlingTypes, TailPass DEF DeliverEnd, pool, Served
  <2> QED BY <2>7, <2>8 DEF LifeInv
<1> QED BY <1>1, <1>2, <1>3, <1>4, <1>5, <1>6, <1>7 DEF Visit

\* Lemma: between two passes there is nothing left to visit.
LEMMA PollPass ==
    ASSUME TypeInv, PassOK, phase = "poll", UNCHANGED <<phase, todo, pos>>
    PROVE  PassOK'
<1>1. todo' = <<>> /\ ~(pos' > 0)
  BY DEF PassOK, TypeInv, Ids
<1>2. IsInjective(<<>>) /\ Range(<<>>) = {}
  BY DEF IsInjective, Range
<1> QED BY <1>1, <1>2 DEF PassOK

\* Lemma: the life of the connections when the reactor completes an operation.
LEMMA LifeCompletion ==
    ASSUME TypeInv, PoolsKept, LifeInv, NEW o \in Obj, Completion(o)
    PROVE  LifeInv'
<1>0. PassOK /\ LifeOK
  BY DEF LifeInv
<1>1. phase = "poll" /\ conn[o].open /\ UNCHANGED <<phase, todo, pos, pool, currId>>
  BY DEF Completion, ReadHead, ReadBody, ReadDisc, ReadStrayAck, ReadAck, ReadErr, WriteAll, WritePart,
         WriteErr, ReadingAck, Reading, Reactor
<1>2. /\ conn[o] \in Conn /\ conn[o].rd # "none" /\ conn[o].sending = conn[o].wr
      /\ conn[o].st \in {"CONNECTED", "DISCONNECTING"} /\ conn[o].id # 0
      /\ conn \in [Obj -> Conn] /\ posted \in Seq(Entry)
  BY <1>0, <1>1, ConnTypes DEF LifeOK, Life, TypeInv, Types
<1>3. SUFFICES LifeOK'
  BY <1>0, <1>1, PollPass DEF LifeInv
\* A step that leaves the connection open.
<1>4. ASSUME NEW c, conn' = [conn EXCEPT ![o] = c], c.id = conn[o].id, c.open,
             c.st \in {"CONNECTED", "DISCONNECTING"}, c.rd # "none", c.sending = c.wr,
             UNCHANGED <<posted, events>>
      PROVE  LifeOK'
  BY <1>0, <1>1, <1>4, MildConn, MildLife
<1>5. CASE ReadHead(o)
  <2> DEFINE c == [conn[o] EXCEPT !.rd = "body"]
  <2>1. conn' = [conn EXCEPT ![o] = c] /\ UNCHANGED <<posted, events>>
    BY <1>5 DEF ReadHead, hist
  <2>2. /\ c.id = conn[o].id /\ c.open /\ c.st \in {"CONNECTED", "DISCONNECTING"}
        /\ c.rd # "none" /\ c.sending = c.wr
    BY <1>1, <1>2 DEF Conn
  <2> HIDE DEF c
  <2> QED BY <1>4, <2>1, <2>2
<1>6. CASE ReadBody(o) \/ ReadDisc(o)
  <2> DEFINE c == Receiving(conn[o])
  <2>1. conn' = [conn EXCEPT ![o] = c] /\ UNCHANGED <<posted, events>>
    BY <1>6 DEF ReadBody, ReadDisc, hist
  <2>2. /\ c.id = conn[o].id /\ c.open /\ c.st \in {"CONNECTED", "DISCONNECTING"}
        /\ c.rd # "none" /\ c.sending = c.wr
    BY <1>1, <1>2 DEF Conn, Receiving
  <2> HIDE DEF c
  <2> QED BY <1>4, <2>1, <2>2
<1>7. CASE ReadStrayAck(o)
  BY <1>0, <1>1, <1>7, MildSame, MildLife DEF ReadStrayAck, hist
<1>8. CASE ReadAck(o)
  <2> DEFINE c == [Closed(conn[o]) EXCEPT !.st = "CONNECTED"]
  <2>1. /\ conn' = [conn EXCEPT ![o] = c] /\ events' = [events EXCEPT ![conn[o].id] = @ + 1]
        /\ Grown(posted, posted', o) /\ Len(posted') > Len(posted)
    BY <1>2, <1>8, ReadAckShape
  <2>2. c.id = conn[o].id /\ ~c.open /\ c.rd = "none" /\ ~c.wr /\ ~c.sending /\ c.st = "CONNECTED"
    BY <1>2 DEF Conn, Closed
  <2> HIDE DEF c
  <2> QED BY <1>0, <1>1, <2>1, <2>2, EndLife
<1>9. CASE ReadErr(o) \/ WriteErr(o)
  BY <1>0, <1>1, <1>9, ForceCloseLife DEF ReadErr, WriteErr
<1>10. ASSUME NEW s PROVE LET c == Written(conn[o], s) IN
         /\ c.id = conn[o].id /\ c.open /\ c.st \in {"CONNECTED", "DISCONNECTING"}
         /\ c.rd # "none" /\ c.sending = c.wr
  BY <1>1, <1>2 DEF Written, Conn
<1>11. CASE WriteAll(o) \/ WritePart(o)
  <2>1. PICK s : conn' = [conn EXCEPT ![o] = Written(conn[o], s)]
    BY <1>11 DEF WriteAll, WritePart
  <2>2. UNCHANGED <<posted, events>>
    BY <1>11 DEF WriteAll, WritePart, hist
  <2> QED BY <1>4, <1>10, <2>1, <2>2
<1> QED BY <1>5, <1>6, <1>7, <1>8, <1>9, <1>11 DEF Completion

\* Lemma: the life of the connections at every step.
LEMMA LifeNext ==
    ASSUME TypeInv, PoolsKept, LifeInv, [Next]_vars
    PROVE  LifeInv'
<1>0. PassOK /\ LifeOK
  BY DEF LifeInv
<1>1. CASE UNCHANGED vars
  <2>1. UNCHANGED <<pool, posted, currId, events, phase, conn, todo, pos>> /\ Served' = Served
    BY <1>1 DEF vars, hist, pool, Served
  <2>2. LifeOK'
    BY <1>0, <2>1, MildSame, MildLife
  <2>3. PassOK'
    BY <1>0, <2>1 DEF PassOK, cur
  <2> QED BY <2>2, <2>3 DEF LifeInv
<1>2. CASE App
  <2>1. phase = "run" /\ UNCHANGED <<pool, currId, phase, todo, pos>> /\ Served' = Served
    BY <1>2 DEF App, pool, Served
  <2>2. CASE todo = <<>> /\ \E d \in Obj : AppOp(d)
    <3>1. LifeOK'
      BY <1>0, <2>1, <2>2, AppLife
    <3>2. PassOK'
      BY <1>0, <2>1, <2>2 DEF PassOK, TypeInv, Ids
    <3> QED BY <3>1, <3>2 DEF LifeInv
  <2>3. CASE Handling /\ \E d \in Obj : Send(d) \/ Close(d) \/ (d # cur /\ Kick(d))
    <3>1. PICK o \in Obj : o = cur /\ conn[o].st \in {"CONNECTED", "DISCONNECTING"}
      BY <1>0, <2>3, HandlingTypes DEF PassOK, Handling
    <3>2. PICK d \in Obj : Send(d) \/ Close(d) \/ (d # o /\ Kick(d))
      BY <2>3, <3>1
    <3>3. AppOp(d)
      BY <3>2 DEF AppOp
    <3>4. /\ LifeOK' /\ \A p \in Obj : p # d => conn'[p] = conn[p]
          /\ Send(d) \/ Close(d) => conn'[d].st \in {"CONNECTED", "DISCONNECTING"}
      BY <1>0, <2>1, <3>3, AppLife
    <3>5. conn'[o].st \in {"CONNECTED", "DISCONNECTING"}
      BY <3>1, <3>2, <3>4
    <3>6. cur' = o
      BY <2>1, <3>1 DEF cur
    <3>7. PassOK'
      BY <1>0, <2>1, <3>5, <3>6 DEF PassOK
    <3> QED BY <3>4, <3>7 DEF LifeInv
  <2> QED BY <1>2, <2>2, <2>3 DEF App
<1>3. CASE EndRun
  <2>1. LifeOK'
    BY <1>0, <1>3, PhaseLife
  <2>2. PassOK'
    BY <1>0, <1>3 DEF PassOK, EndRun, pool, Served, TypeInv, Ids
  <2> QED BY <2>1, <2>2 DEF LifeInv
<1>4. CASE EndPoll
  <2>1. LifeOK'
    BY <1>0, <1>4, PhaseLife
  <2>2. /\ todo' = conns /\ phase' = "run" /\ ~(pos' > 0) /\ Served' = Served
    BY <1>4 DEF EndPoll, pool, Served, TypeInv, Ids
  <2>3. PassOK'
    BY <1>0, <2>2 DEF PassOK, Served, PoolsKept
  <2> QED BY <2>1, <2>3 DEF LifeInv
<1>5. CASE RunPosted
  <2>1. PassOK'
    BY <1>0, <1>5, PollPass DEF RunPosted
  <2> QED BY <1>0, <1>5, <2>1, RunPostedLife DEF LifeInv
<1>6. CASE Accept
  <2>1. PassOK'
    BY <1>0, <1>6, PollPass DEF Accept, Reactor
  <2> QED BY <1>0, <1>6, <2>1, AcceptLife DEF LifeInv
<1> QED BY <1>1, <1>2, <1>3, <1>4, <1>5, <1>6, LifeVisit, LifeCompletion DEF Next

-----------------------------------------------------------------------------
(* The buffers.                                                            *)

\* Lemma: a list is not empty after Append.
LEMMA AppendLonger ==
    ASSUME NEW S, NEW s \in Seq(S), NEW m
    PROVE  Append(s, m) # <<>>
<1>1. s \in Seq(S \cup {m})
  <2>1. s \in [1..Len(s) -> S] /\ Len(s) \in Nat
    BY LenProperties
  <2>2. s \in [1..Len(s) -> S \cup {m}]
    BY <2>1
  <2> QED BY <2>1, <2>2, IsASeq
<1>2. Len(Append(s, m)) = Len(s) + 1 /\ Len(s) \in Nat
  BY <1>1, AppendProperties
<1> QED BY <1>2, EmptySeq

\* Lemma: the buffers are empty initially.
LEMMA BuffersInit == Init => BuffersOK
  BY DEF Init, BuffersOK, Pending, NoConn, Range

\* Lemma: a served object's buffer is its own.
LEMMA OwnBuffer ==
    ASSUME TypeInv, PoolsKept, NEW o \in Served
    PROVE  /\ o \in Obj /\ conn[o].buf \in Buf /\ conn[o].buf \notin Range(freeBufs)
           /\ \A p \in Served : p # o => conn[p].buf # conn[o].buf
<1>1. o \in Obj /\ o \in Range(conns)
  BY DEF PoolsKept, Served
<1>2. conn[o].buf \in {conn[p].buf : p \in Range(conns)}
  BY <1>1
<1> QED BY <1>1, <1>2 DEF PoolsKept, Served

\* Lemma: a step on the buffer of one served object.
LEMMA BuffStep ==
    ASSUME TypeInv, PoolsKept, LifeOK, BuffersOK, NEW o \in Served,
           freeBufs' = freeBufs, Served' = Served,
           \A b \in Buf : b # conn[o].buf => buff'[b] = buff[b],
           \A p \in Obj : p # o => conn'[p] = conn[p],
           conn'[o].buf = conn[o].buf,
           conn'[o].wr => buff'[conn[o].buf].sq # <<>>,
           Pending' \subseteq Pending \cup {o}
    PROVE  BuffersOK'
<1>1. freeBufs \in Seq(Buf) /\ Range(freeBufs) \subseteq Buf
  BY RangeOfSeq DEF TypeInv, Types
<1>2. \A b \in Range(freeBufs) : buff'[b] = NoBytes
  BY <1>1, OwnBuffer DEF BuffersOK
<1>3. Pending \subseteq Obj
  BY PostedTypes, LenProperties DEF Pending
<1>4. \A p \in Pending' : p \notin Served => conn'[p].buf \in Range(freeBufs)
  BY <1>3 DEF BuffersOK
<1>5. ASSUME NEW p \in Obj, conn'[p].wr PROVE buff'[conn'[p].buf].sq # <<>>
  <2>1. CASE p = o
    BY <1>5, <2>1
  <2>2. CASE p # o
    <3>1. conn'[p] = conn[p] /\ p \in Served
      BY <1>5, <2>2 DEF LifeOK, Life
    <3>2. conn[p].buf \in Buf /\ conn[p].buf # conn[o].buf
      BY <2>2, <3>1, OwnBuffer
    <3> QED BY <1>5, <3>1, <3>2 DEF BuffersOK
  <2> QED BY <2>1, <2>2
<1> QED BY <1>2, <1>4, <1>5 DEF BuffersOK

\* Lemma: a step that changes no buffer and no object.
LEMMA BuffSame ==
    ASSUME BuffersOK, UNCHANGED <<pool, conn, buff, posted>>
    PROVE  BuffersOK'
  BY DEF BuffersOK, pool, Pending, Served

\* Lemma: force_close of an open connection.
LEMMA ForceCloseBuff ==
    ASSUME TypeInv, PoolsKept, LifeOK, BuffersOK, NEW o \in Obj, conn[o].open, NEW c,
           c \in {conn[o], [conn[o] EXCEPT !.rd = "none"], [conn[o] EXCEPT !.wr = FALSE]},
           ForceClose(o, c, posted), UNCHANGED pool
    PROVE  /\ BuffersOK'
           /\ ~conn'[o].open /\ \A p \in Obj : p # o => conn'[p] = conn[p]
           /\ \A b \in Buf : b # conn[o].buf => buff'[b] = buff[b]
<1>1. /\ conn \in [Obj -> Conn] /\ conn[o].id # 0 /\ posted \in Seq(Entry) /\ conn[o] \in Conn
      /\ buff \in [Buf -> [rq : Seq(UpMsg), sq : Seq(Packet)]]
  BY ConnTypes DEF TypeInv, Types
<1>2. conn[o].st # "DISCONNECTED" /\ o \in Served
  BY DEF LifeOK, Life
<1>3. Shut(o, posted)
  BY <1>1, <1>2, ForceCloseShape
<1> DEFINE e == Closed(conn[o])
<1>4. e.buf = conn[o].buf /\ ~e.open /\ ~e.wr
  BY <1>1 DEF Closed, Conn
<1>5. /\ conn' = [conn EXCEPT ![o] = e] /\ buff' = [buff EXCEPT ![conn[o].buf] = NoBytes]
      /\ Grown(posted, posted', o)
  BY <1>3 DEF Shut
<1> HIDE DEF e
<1>6. conn'[o] = e /\ \A p \in Obj : p # o => conn'[p] = conn[p]
  BY <1>1, <1>5
<1>7. \A b \in Buf : b # conn[o].buf => buff'[b] = buff[b]
  BY <1>1, <1>5
<1>8. Pending' \subseteq Pending \cup {o}
  BY <1>1, <1>5, GrownPending
<1>9. freeBufs' = freeBufs /\ Served' = Served
  BY DEF pool, Served
<1> QED BY <1>2, <1>4, <1>6, <1>7, <1>8, <1>9, BuffStep

\* Lemma: what the application does to a connection.
LEMMA AppBuff ==
    ASSUME TypeInv, PoolsKept, LifeOK, BuffersOK, phase = "run", NEW d \in Obj, AppOp(d), UNCHANGED pool
    PROVE  /\ BuffersOK'
           /\ \A p \in Obj : p # d => conn'[p] = conn[p]
           /\ \A b \in Buf : b # conn[d].buf => buff'[b] = buff[b]
<1>1. d \in Served /\ conn[d].id # 0 /\ conn[d].buf \in Buf /\ conn[d] \in Conn
  BY LiveServed, ConnTypes, OwnBuffer DEF AppOp, Send, Close, Kick
<1>2. /\ conn \in [Obj -> Conn] /\ buff \in [Buf -> [rq : Seq(UpMsg), sq : Seq(Packet)]]
      /\ buff[conn[d].buf].sq \in Seq(Packet)
  BY <1>1 DEF TypeInv, Types
<1>3. freeBufs' = freeBufs /\ Served' = Served
  BY DEF pool, Served
<1>4. CASE Send(d) \/ Close(d)
  <2>1. PICK m : buff' = [buff EXCEPT ![conn[d].buf].sq = Append(@, m)]
    BY <1>4 DEF Send, Close
  <2>2. /\ posted' = posted /\ conn'[d].wr = conn[d].wr /\ conn'[d].buf = conn[d].buf
        /\ \A p \in Obj : p # d => conn'[p] = conn[p]
    <3>1. CASE Send(d)
      BY <3>1 DEF Send
    <3>2. CASE Close(d)
      BY <3>2, <1>1, <1>2 DEF Close, Conn
    <3> QED BY <1>4, <3>1, <3>2
  <2>3. \A b \in Buf : b # conn[d].buf => buff'[b] = buff[b]
    BY <1>2, <2>1
  <2>4. buff'[conn[d].buf].sq = Append(buff[conn[d].buf].sq, m)
    BY <1>1, <1>2, <2>1
  <2>5. Append(buff[conn[d].buf].sq, m) # <<>>
    BY <1>2, AppendLonger
  <2>6. Pending' = Pending
    BY <2>2 DEF Pending
  <2> QED BY <1>1, <1>3, <2>2, <2>3, <2>4, <2>5, <2>6, BuffStep
<1>5. CASE Kick(d)
  <2>1. ForceClose(d, conn[d], posted)
    BY <1>5 DEF Kick
  <2>2. CASE conn[d].st = "DISCONNECTED"
    <3>1. UNCHANGED <<conn, buff, posted>>
      BY <2>1, <2>2 DEF ForceClose
    <3> QED BY <3>1, BuffSame
  <2>3. CASE conn[d].st # "DISCONNECTED"
    BY <1>1, <2>1, <2>3, RunOpen, ForceCloseBuff
  <2> QED BY <2>2, <2>3
<1> QED BY <1>4, <1>5 DEF AppOp

\* Lemma: a freed buffer is empty, and its last object keeps pointing to it.
LEMMA DeadBuff == ASSUME TypeInv, PoolsKept, LifeOK, BuffersOK, VisitDead PROVE BuffersOK'
<1>1. PICK o \in Obj : o = cur
  BY DeadShape
<1>2. /\ o \in Served /\ conn[o].st = "DISCONNECTED" /\ conn[o].buf \in Buf
      /\ Served' = Served \ {o} /\ Range(freeBufs') = Range(freeBufs) \cup {conn[o].buf}
      /\ conn' = [conn EXCEPT ![o].st = "NOT_CONNECT"]
      /\ buff' = [buff EXCEPT ![conn[o].buf] = NoBytes] /\ posted' = posted
  BY <1>1, DeadShape
<1>3. /\ conn \in [Obj -> Conn] /\ buff \in [Buf -> [rq : Seq(UpMsg), sq : Seq(Packet)]]
      /\ Range(freeBufs) \subseteq Buf /\ conn[o] \in Conn
  BY ConnTypes, RangeOfSeq DEF TypeInv, Types
<1>4. /\ \A p \in Obj : p # o => conn'[p] = conn[p]
      /\ conn'[o].buf = conn[o].buf /\ conn'[o].wr = conn[o].wr
  BY <1>2, <1>3 DEF Conn
<1>5. buff'[conn[o].buf] = NoBytes /\ \A b \in Buf : b # conn[o].buf => buff'[b] = buff[b]
  BY <1>2, <1>3
<1>6. \A b \in Range(freeBufs') : buff'[b] = NoBytes
  BY <1>2, <1>3, <1>5 DEF BuffersOK
<1>7. Pending' = Pending /\ Pending \subseteq Obj
  BY <1>2, PostedTypes, LenProperties DEF Pending
<1>8. ASSUME NEW p \in Pending', p \notin Served' PROVE conn'[p].buf \in Range(freeBufs')
  BY <1>2, <1>4, <1>7, <1>8 DEF BuffersOK
<1>9. ASSUME NEW p \in Obj, conn'[p].wr PROVE buff'[conn'[p].buf].sq # <<>>
  <2>1. ~conn[o].wr
    BY <1>2 DEF LifeOK, Life
  <2>2. p # o /\ conn[p].wr /\ conn'[p] = conn[p]
    BY <1>4, <1>9, <2>1
  <2>3. p \in Served
    BY <2>2 DEF LifeOK, Life
  <2>4. conn[p].buf \in Buf /\ conn[p].buf # conn[o].buf
    BY <1>2, <2>2, <2>3, OwnBuffer
  <2> QED BY <1>5, <2>2, <2>4 DEF BuffersOK
<1> QED BY <1>6, <1>8, <1>9 DEF BuffersOK

\* Lemma: the end of a visit, which clears the recv list and starts a send.
LEMMA DeliverEndShape ==
    ASSUME TypeInv, PoolsKept, LifeInv, DeliverEnd
    PROVE  \E o \in Obj :
              /\ o = cur /\ o \in Served /\ conn[o].open /\ pos > Len(buff[conn[o].buf].rq) /\ pos > 0
              /\ \E c \in Conn :
                    /\ conn' = [conn EXCEPT ![o] = c] /\ c.buf = conn[o].buf /\ c.id = conn[o].id
                    /\ c.open /\ (c.wr => conn[o].wr \/ buff[conn[o].buf].sq # <<>>)
              /\ buff' = [buff EXCEPT ![conn[o].buf].rq = <<>>]
              /\ pos' = 0 /\ todo' = Tail(todo) /\ UNCHANGED <<phase, pool, posted, currId, peer, hist>>
<1>1. pos > 0
  BY DEF DeliverEnd
<1>2. PICK o \in Obj : o = cur
  BY <1>1, HandlingTypes
<1>3. conn[o].st \in {"CONNECTED", "DISCONNECTING"} /\ phase = "run"
  BY <1>1, <1>2, HandlingTypes DEF LifeInv, PassOK
<1>4. conn[o].open
  BY <1>3, RunOpen DEF LifeInv
<1>5. o \in Served
  BY <1>4 DEF LifeInv, LifeOK, Life
<1>6. conn[o] \in Conn
  BY ConnTypes
<1> DEFINE c == StartSend(conn[o], buff[conn[o].buf].sq)
<1>7. c \in Conn
  BY <1>6 DEF StartSend, Conn
<1>8. c.buf = conn[o].buf /\ c.id = conn[o].id /\ c.open = conn[o].open
  BY <1>6 DEF StartSend, Conn
<1>9. c.wr => conn[o].wr \/ buff[conn[o].buf].sq # <<>>
  BY <1>6 DEF StartSend, Conn
<1>10. conn' = [conn EXCEPT ![o] = c]
  BY <1>2 DEF DeliverEnd
<1> HIDE DEF c
<1> QED BY <1>1, <1>2, <1>4, <1>5, <1>7, <1>8, <1>9, <1>10 DEF DeliverEnd, recvList

\* Lemma: the pass.
LEMMA BuffVisit == ASSUME TypeInv, PoolsKept, LifeInv, BuffersOK, Visit PROVE BuffersOK'
<1> LifeOK /\ PassOK
  BY DEF LifeInv
<1>1. CASE VisitDead
  BY <1>1, DeadBuff
<1>2. CASE VisitIdle \/ VisitConnected
  BY <1>2, BuffSame DEF VisitIdle, VisitConnected
<1>3. CASE VisitTimeout
  <2>0. todo \in Seq(Obj) /\ todo # <<>>
    BY <1>3 DEF VisitTimeout, StartVisit, TypeInv, Types
  <2>1. PICK o \in Obj : o = cur
    BY <2>0, TailRange DEF cur
  <2>2. conn[o].st = "DISCONNECTING" /\ ForceClose(o, conn[o], posted) /\ UNCHANGED pool
    BY <1>3, <2>1 DEF VisitTimeout, StartVisit
  <2>3. conn[o].open
    BY <2>2 DEF LifeOK, Life
  <2> QED BY <2>2, <2>3, ForceCloseBuff
<1>4. CASE Deliver
  <2>1. phase = "run" /\ UNCHANGED pool
    BY <1>4 DEF Deliver, Handling
  <2> QED BY <1>4, <2>1, BuffSame DEF Deliver
<1>5. CASE DeliverFail
  <2>1. pos > 0 /\ phase = "run"
    BY <1>5 DEF DeliverFail, Handling
  <2>2. PICK o \in Obj : o = cur
    BY <2>1, HandlingTypes
  <2>3. conn[o].st \in {"CONNECTED", "DISCONNECTING"}
    BY <2>1, <2>2 DEF PassOK
  <2>4. conn[o].open
    BY <2>1, <2>3, RunOpen
  <2>5. ForceClose(o, conn[o], posted) /\ UNCHANGED pool
    BY <1>5, <2>2 DEF DeliverFail
  <2> QED BY <2>4, <2>5, ForceCloseBuff
<1>6. CASE DeliverEnd
  <2>1. PICK o \in Served, c \in Conn :
            /\ conn' = [conn EXCEPT ![o] = c] /\ c.buf = conn[o].buf
            /\ c.wr => conn[o].wr \/ buff[conn[o].buf].sq # <<>>
            /\ buff' = [buff EXCEPT ![conn[o].buf].rq = <<>>] /\ UNCHANGED <<pool, posted>>
    BY <1>6, DeliverEndShape
  <2>2. /\ conn \in [Obj -> Conn] /\ buff \in [Buf -> [rq : Seq(UpMsg), sq : Seq(Packet)]]
        /\ conn[o].buf \in Buf /\ o \in Obj
    BY OwnBuffer DEF TypeInv, Types
  <2>3. buff'[conn[o].buf].sq = buff[conn[o].buf].sq /\ \A b \in Buf : b # conn[o].buf => buff'[b] = buff[b]
    BY <2>1, <2>2
  <2>4. conn'[o] = c /\ \A p \in Obj : p # o => conn'[p] = conn[p]
    BY <2>1, <2>2
  <2>5. conn'[o].wr => buff'[conn[o].buf].sq # <<>>
    BY <2>1, <2>2, <2>3, <2>4 DEF BuffersOK
  <2>6. Pending' = Pending /\ Served' = Served /\ freeBufs' = freeBufs
    BY <2>1 DEF Pending, Served, pool
  <2> QED BY <2>1, <2>3, <2>4, <2>5, <2>6, BuffStep
<1> QED BY <1>1, <1>2, <1>3, <1>4, <1>5, <1>6 DEF Visit

\* Lemma: a completion that leaves the connection open.  What it changes is
\* the object and its buffer.
LEMMA ReadWriteShape ==
    ASSUME TypeInv, LifeOK, BuffersOK, NEW o \in Obj,
           ReadHead(o) \/ ReadBody(o) \/ ReadDisc(o) \/ ReadStrayAck(o) \/ WriteAll(o) \/ WritePart(o)
    PROVE  /\ conn[o].open /\ o \in Served /\ conn[o].id \in Id /\ conn[o].buf \in Buf
           /\ \A p \in Obj : p # o => conn'[p] = conn[p]
           /\ \A b \in Buf : b # conn[o].buf => buff'[b] = buff[b]
           /\ conn'[o].buf = conn[o].buf /\ conn'[o].id = conn[o].id /\ conn'[o].open
           /\ conn'[o].wr => buff'[conn[o].buf].sq # <<>>
           /\ UNCHANGED <<phase, todo, pos, pool, posted, currId, got, queued, events>>
<1>1. conn[o].open
  BY DEF ReadHead, ReadBody, ReadDisc, ReadStrayAck, ReadingAck, Reading, WriteAll, WritePart
<1>2. conn[o] \in Conn /\ conn[o].id \in Id /\ conn[o].buf \in Buf
  BY <1>1, ConnTypes
<1>3. /\ conn \in [Obj -> Conn] /\ buff \in [Buf -> [rq : Seq(UpMsg), sq : Seq(Packet)]]
      /\ buff[conn[o].buf].sq \in Seq(Packet) /\ buff[conn[o].buf].rq \in Seq(UpMsg)
  BY <1>2 DEF TypeInv, Types
<1>4. o \in Served
  BY <1>1 DEF LifeOK, Life
<1>5. UNCHANGED <<phase, todo, pos, pool, posted, currId, got, queued, events>>
  BY DEF ReadHead, ReadBody, ReadDisc, ReadStrayAck, WriteAll, WritePart, hist
<1>6. conn[o].wr => buff[conn[o].buf].sq # <<>>
  BY DEF BuffersOK
<1>7. CASE ReadHead(o)
  <2>1. conn' = [conn EXCEPT ![o].rd = "body"] /\ buff' = buff
    BY <1>7 DEF ReadHead
  <2>2. conn'[o].buf = conn[o].buf /\ conn'[o].id = conn[o].id /\ conn'[o].open = conn[o].open /\ conn'[o].wr = conn[o].wr
    BY <1>2, <1>3, <2>1 DEF Conn
  <2>3. \A p \in Obj : p # o => conn'[p] = conn[p]
    BY <1>3, <2>1
  <2> QED BY <1>1, <1>2, <1>4, <1>5, <1>6, <2>1, <2>2, <2>3
<1>8. CASE ReadBody(o) \/ ReadDisc(o)
  <2>1. conn' = [conn EXCEPT ![o] = Receiving(conn[o])]
    BY <1>8, <1>3 DEF ReadBody, ReadDisc
  <2>2. /\ Receiving(conn[o]).buf = conn[o].buf /\ Receiving(conn[o]).id = conn[o].id
        /\ Receiving(conn[o]).open = conn[o].open /\ Receiving(conn[o]).wr = conn[o].wr
    BY <1>2 DEF Receiving, Conn
  <2>3. conn'[o] = Receiving(conn[o]) /\ \A p \in Obj : p # o => conn'[p] = conn[p]
    BY <1>3, <2>1
  <2>4. \A b \in Buf : b # conn[o].buf => buff'[b] = buff[b]
    BY <1>3, <1>8 DEF ReadBody, ReadDisc
  <2>5. buff[conn[o].buf].sq # <<>> => buff'[conn[o].buf].sq # <<>>
    <3>1. CASE ReadBody(o)
      <4>1. PICK m : buff' = [buff EXCEPT ![conn[o].buf].rq = Append(@, m)]
        BY <3>1 DEF ReadBody
      <4>2. buff'[conn[o].buf].sq = buff[conn[o].buf].sq
        BY <1>2, <1>3, <4>1
      <4> QED BY <4>2
    <3>2. CASE buff' = [buff EXCEPT ![conn[o].buf].sq = Append(@, Ack)]
      <4>1. buff'[conn[o].buf].sq = Append(buff[conn[o].buf].sq, Ack)
        BY <1>2, <1>3, <3>2
      <4> QED BY <1>3, <4>1, AppendLonger
    <3>3. CASE buff' = buff
      BY <3>3
    <3> QED BY <1>8, <3>1, <3>2, <3>3 DEF ReadDisc
  <2> QED BY <1>1, <1>2, <1>4, <1>5, <1>6, <2>2, <2>3, <2>4, <2>5
<1>9. CASE ReadStrayAck(o)
  BY <1>1, <1>2, <1>4, <1>5, <1>6, <1>9 DEF ReadStrayAck
<1>10. CASE WriteAll(o) \/ WritePart(o)
  <2>1. PICK s \in Seq(Packet) : /\ conn' = [conn EXCEPT ![o] = Written(conn[o], s)]
                   /\ buff' = [buff EXCEPT ![conn[o].buf].sq = s]
    <3>1. CASE WriteAll(o)
      <4>1. Tail(buff[conn[o].buf].sq) \in Seq(Packet)
        BY <1>3, <1>6, <3>1, HeadTailProperties DEF WriteAll
      <4> QED BY <3>1, <4>1 DEF WriteAll
    <3>2. CASE WritePart(o)
      <4>1. buff = [buff EXCEPT ![conn[o].buf].sq = buff[conn[o].buf].sq]
        BY <1>2, <1>3
      <4> QED BY <1>3, <3>2, <4>1 DEF WritePart
    <3> QED BY <1>10, <3>1, <3>2
  <2>2. /\ Written(conn[o], s).buf = conn[o].buf /\ Written(conn[o], s).id = conn[o].id
        /\ Written(conn[o], s).open = conn[o].open
    BY <1>2 DEF Written, Conn
  <2>3. Written(conn[o], s).wr => s # <<>>
    BY <1>2 DEF Written, Conn
  <2>4. conn'[o] = Written(conn[o], s) /\ \A p \in Obj : p # o => conn'[p] = conn[p]
    BY <1>3, <2>1
  <2>5. buff'[conn[o].buf].sq = s /\ \A b \in Buf : b # conn[o].buf => buff'[b] = buff[b]
    BY <1>2, <1>3, <2>1
  <2> QED BY <1>1, <1>2, <1>4, <1>5, <2>2, <2>3, <2>4, <2>5
<1> QED BY <1>7, <1>8, <1>9, <1>10

\* Lemma: the completions of the reactor.
LEMMA BuffCompletion ==
    ASSUME TypeInv, PoolsKept, LifeOK, BuffersOK, NEW o \in Obj, Completion(o)
    PROVE  BuffersOK'
<1>1. CASE ReadHead(o) \/ ReadBody(o) \/ ReadDisc(o) \/ ReadStrayAck(o) \/ WriteAll(o) \/ WritePart(o)
  <2>1. /\ o \in Served /\ \A p \in Obj : p # o => conn'[p] = conn[p]
        /\ \A b \in Buf : b # conn[o].buf => buff'[b] = buff[b]
        /\ conn'[o].buf = conn[o].buf /\ (conn'[o].wr => buff'[conn[o].buf].sq # <<>>)
        /\ UNCHANGED <<pool, posted>>
    BY <1>1, ReadWriteShape
  <2>2. Pending' = Pending /\ Served' = Served /\ freeBufs' = freeBufs
    BY <2>1 DEF Pending, Served, pool
  <2> QED BY <2>1, <2>2, BuffStep
<1>2. CASE ReadAck(o)
  <2>1. conn[o].open /\ UNCHANGED pool
    BY <1>2 DEF ReadAck, ReadingAck, Reading
  <2>2. /\ conn \in [Obj -> Conn] /\ conn[o].id # 0 /\ posted \in Seq(Entry) /\ conn[o] \in Conn
        /\ buff \in [Buf -> [rq : Seq(UpMsg), sq : Seq(Packet)]]
    BY <2>1, ConnTypes DEF TypeInv, Types
  <2> DEFINE c == [Closed(conn[o]) EXCEPT !.st = "CONNECTED"]
  <2>3. c.buf = conn[o].buf /\ ~c.wr
    BY <2>2 DEF Closed, Conn
  <2>4. /\ conn' = [conn EXCEPT ![o] = c] /\ buff' = [buff EXCEPT ![conn[o].buf] = NoBytes]
        /\ Grown(posted, posted', o)
    BY <1>2, <2>2, ReadAckShape
  <2> HIDE DEF c
  <2>5. conn'[o] = c /\ \A p \in Obj : p # o => conn'[p] = conn[p]
    BY <2>2, <2>4
  <2>6. \A b \in Buf : b # conn[o].buf => buff'[b] = buff[b]
    BY <2>2, <2>4
  <2>7. o \in Served
    BY <2>1 DEF LifeOK, Life
  <2>8. Pending' \subseteq Pending \cup {o} /\ Served' = Served /\ freeBufs' = freeBufs
    BY <2>1, <2>2, <2>4, GrownPending DEF Served, pool
  <2> QED BY <2>3, <2>5, <2>6, <2>7, <2>8, BuffStep
<1>3. CASE ReadErr(o)
  BY <1>3, ForceCloseBuff DEF ReadErr
<1>4. CASE WriteErr(o)
  BY <1>4, ForceCloseBuff DEF WriteErr
<1> QED BY <1>1, <1>2, <1>3, <1>4 DEF Completion

\* Lemma: a queued completion that finds its object freed clears a buffer
\* that is in the pool and empty already.
LEMMA RunPostedBuff ==
    ASSUME TypeInv, PoolsKept, LifeOK, BuffersOK, RunPosted
    PROVE  BuffersOK'
<1>1. PICK o \in Obj :
              /\ posted # <<>> /\ o \in Pending
              /\ conn[o].id # 0 /\ ~conn[o].open /\ posted' = Tail(posted)
              /\ \/ conn[o].st = "DISCONNECTED" /\ UNCHANGED <<conn, buff, events>>
                 \/ /\ conn' = [conn EXCEPT ![o] = Closed(conn[o])]
                    /\ buff' = [buff EXCEPT ![conn[o].buf] = NoBytes]
  BY RunPostedShape
<1>2. /\ conn \in [Obj -> Conn] /\ posted \in Seq(Entry) /\ conn[o] \in Conn /\ conn[o].buf \in Buf
      /\ buff \in [Buf -> [rq : Seq(UpMsg), sq : Seq(Packet)]] /\ Range(freeBufs) \subseteq Buf
  BY <1>1, ConnTypes, RangeOfSeq DEF TypeInv, Types
<1>3. freeBufs' = freeBufs /\ Served' = Served
  BY DEF RunPosted, pool, Served
<1>4. Pending' \subseteq Pending /\ Pending \subseteq Obj
  <2>1. /\ Len(posted') = Len(posted) - 1 /\ Len(posted) \in Nat
        /\ \A k \in 1..Len(posted') : posted'[k] = posted[k + 1]
        /\ DOMAIN posted = 1..Len(posted) /\ DOMAIN posted' = 1..Len(posted')
    BY <1>1, <1>2, HeadTailProperties, EmptySeq, LenProperties
  <2>2. \A k \in 1..Len(posted') : k + 1 \in 1..Len(posted)
    BY <2>1
  <2>3. Pending' \subseteq Pending
    BY <2>1, <2>2 DEF Pending
  <2>4. Pending \subseteq Obj
    BY <2>1, PostedTypes DEF Pending
  <2> QED BY <2>3, <2>4
<1>5. CASE UNCHANGED <<conn, buff>>
  BY <1>3, <1>4, <1>5 DEF BuffersOK
<1>6. CASE /\ conn' = [conn EXCEPT ![o] = Closed(conn[o])]
           /\ buff' = [buff EXCEPT ![conn[o].buf] = NoBytes]
  <2>1. Closed(conn[o]).buf = conn[o].buf /\ ~Closed(conn[o]).wr
    BY <1>2 DEF Closed, Conn
  <2>2. conn'[o] = Closed(conn[o]) /\ \A p \in Obj : p # o => conn'[p] = conn[p]
    BY <1>2, <1>6
  <2>3. buff'[conn[o].buf] = NoBytes /\ \A b \in Buf : b # conn[o].buf => buff'[b] = buff[b]
    BY <1>2, <1>6
  <2>4. CASE o \in Served
    BY <1>3, <1>4, <2>1, <2>2, <2>3, <2>4, BuffStep
  <2>5. CASE o \notin Served
    <3>1. \A b \in Buf : buff'[b] = buff[b]
      BY <1>1, <2>3, <2>5 DEF BuffersOK
    <3>2. \A p \in Obj : conn'[p].buf = conn[p].buf /\ (conn'[p].wr => conn[p].wr)
      BY <2>1, <2>2
    <3>3. \A p \in Obj : conn[p].wr => conn[p].buf \in Buf
      BY ConnTypes
    <3>4. \A b \in Range(freeBufs) : buff'[b] = NoBytes
      BY <1>2, <3>1 DEF BuffersOK
    <3>5. \A p \in Pending' : p \notin Served => conn'[p].buf \in Range(freeBufs)
      BY <1>4, <3>2 DEF BuffersOK
    <3>6. \A p \in Obj : conn'[p].wr => buff'[conn'[p].buf].sq # <<>>
      BY <3>1, <3>2, <3>3 DEF BuffersOK
    <3> QED BY <1>3, <3>4, <3>5, <3>6 DEF BuffersOK
  <2> QED BY <2>4, <2>5
<1> QED BY <1>1, <1>5, <1>6

\* Lemma: accept takes an empty buffer, and no queued completion is for an
\* object that is not served when it does.
LEMMA AcceptBuff ==
    ASSUME TypeInv, PoolsKept, LifeOK, BuffersOK, Accept
    PROVE  BuffersOK'
<1>1. PICK o \in Obj, b \in Buf, c \in Conn :
              /\ currId + 1 \in Id
              /\ o \notin Served /\ Served' = Served \cup {o} /\ b \in Range(freeBufs)
              /\ Range(freeBufs') = Range(freeBufs) \ {b}
              /\ c.id = currId + 1 /\ c.buf = b /\ ~c.wr
              /\ Welcomed(o, c) \/ Refused(o, c)
              /\ conn' = [conn EXCEPT ![o] = c]
  BY AcceptShape
<1>2. Reactor
  BY DEF Accept
<1>3. Pending' \subseteq Served'
  <2>1. Pending \subseteq Served
    BY <1>2, ReactorServed
  <2>2. posted' \in Seq(Entry) /\ posted \in Seq(Entry)
    BY <1>1, RefusedTypes, PostedTypes
  <2>3. DOMAIN posted = 1..Len(posted) /\ DOMAIN posted' = 1..Len(posted')
    BY <2>2, LenProperties
  <2>4. \A k \in 1..Len(posted') :
           \/ k \in 1..Len(posted) /\ posted'[k] = posted[k]
           \/ posted'[k] = [obj |-> o, id |-> c.id, early |-> FALSE]
    BY <1>1, RefusedTypes
  <2> QED BY <1>1, <2>1, <2>3, <2>4 DEF Pending
<1>4. conn \in [Obj -> Conn] /\ buff \in [Buf -> [rq : Seq(UpMsg), sq : Seq(Packet)]]
  BY DEF TypeInv, Types
<1>5. conn'[o] = c /\ \A p \in Obj : p # o => conn'[p] = conn[p]
  BY <1>1, <1>4
<1>6. buff' = buff
  <2>1. buff[b] = NoBytes
    BY <1>1 DEF BuffersOK
  <2> QED BY <1>1, <1>4, <2>1 DEF Welcomed, Refused
<1>7. \A f \in Range(freeBufs') : buff'[f] = NoBytes
  BY <1>1, <1>6 DEF BuffersOK
<1>8. \A p \in Obj : conn'[p].wr => buff'[conn'[p].buf].sq # <<>>
  BY <1>1, <1>5, <1>6 DEF BuffersOK
<1> QED BY <1>3, <1>7, <1>8 DEF BuffersOK

\* Lemma: every step keeps the buffers.
LEMMA BuffNext ==
    ASSUME TypeInv, PoolsKept, LifeInv, BuffersOK, [Next]_vars
    PROVE  BuffersOK'
<1>0. LifeOK
  BY DEF LifeInv
<1>1. CASE UNCHANGED vars \/ EndRun \/ EndPoll
  BY <1>1, BuffSame DEF vars, EndRun, EndPoll
<1>2. CASE App
  BY <1>0, <1>2, AppBuff DEF App, AppOp
<1>3. CASE \E o \in Obj : Completion(o)
  BY <1>0, <1>3, BuffCompletion
<1> QED BY <1>0, <1>1, <1>2, <1>3, BuffVisit, RunPostedBuff, AcceptBuff DEF Next

-----------------------------------------------------------------------------
\* Theorem: the invariant the server is built on.  The pools, the life of a
\* connection object and the buffers need one another: an accept finds an
\* object because the pass returns it, a queued completion is harmless on a
\* freed object because its buffer is still in the pool, and both hold only
\* because poll runs the queue before it accepts.
THEOREM Serving == Spec => []ServeInv
<1>1. Init => ServeInv
  BY TypeInit, PoolsInit, LifeInit, BuffersInit DEF ServeInv
<1>2. ServeInv /\ [Next]_vars => ServeInv'
  BY TypeNext, PoolsNext, LifeNext, BuffNext DEF ServeInv
<1> QED BY <1>1, <1>2, PTL DEF Spec

\* Theorem: every variable keeps its type (TypeOK).
THEOREM TcpTypes == Spec => []TypeOK
<1>1. ServeInv => TypeOK
  <2> SUFFICES ASSUME Types PROVE TypeOK
    BY DEF ServeInv, TypeInv
  <2>1. /\ Range(todo) \subseteq Obj /\ Range(conns) \subseteq Obj
        /\ Range(freeConns) \subseteq Obj /\ Range(freeBufs) \subseteq Buf
    BY RangeOfSeq DEF Types
  <2>2. \A b \in Buf : Range(buff[b].rq) \subseteq UpMsg
    BY RangeOfSeq DEF Types
  <2>3. \A k \in DOMAIN posted : posted[k].obj \in Obj /\ posted[k].id \in Id
    <3>1. posted \in Seq(Entry)
      BY DEF Types
    <3>2. \A k \in DOMAIN posted : posted[k] \in Entry
      BY <3>1, LenProperties
    <3> QED BY <3>2 DEF Entry
  <2> QED BY <2>1, <2>2, <2>3 DEF Types, TypeOK, Conn, State
<1> QED BY <1>1, Serving, PTL

\* Theorem: run_conns, accept and the two managers keep their pools.
THEOREM TcpPoolsKept == Spec => []PoolsKept
<1>1. ServeInv => PoolsKept
  BY DEF ServeInv
<1> QED BY <1>1, Serving, PTL

\* Theorem: no completion of an ended connection is queued for an object
\* that serves another connection.
THEOREM TcpNoStaleCompletion == Spec => []NoStaleCompletion
<1>1. ServeInv => NoStaleCompletion
  <2> SUFFICES ASSUME ServeInv PROVE NoStaleCompletion
    OBVIOUS
  <2>1. DOMAIN posted = 1..Len(posted)
    BY PostedTypes, LenProperties DEF ServeInv
  <2> QED BY <2>1 DEF ServeInv, LifeInv, LifeOK, QueueOK, NoStaleCompletion
<1> QED BY <1>1, Serving, PTL

\* Theorem: a connection the pass treats as alive has a read pending, and
\* sending_data_ tells whether a write is.
THEOREM TcpNoDeafConnection == Spec => []NoDeafConnection
<1>1. ServeInv => NoDeafConnection
  <2> SUFFICES ASSUME ServeInv, phase = "run", NEW o \in Range(conns), conn[o].st # "DISCONNECTED"
               PROVE  conn[o].open /\ conn[o].rd # "none" /\ conn[o].sending = conn[o].wr
    BY DEF NoDeafConnection
  <2>1. o \in Obj /\ o \in Served
    BY OwnBuffer DEF ServeInv, Served
  <2>2. LifeOK
    BY DEF ServeInv, LifeInv
  <2>3. conn[o].open
    BY <2>1, <2>2, RunOpen
  <2> QED BY <2>1, <2>2, <2>3 DEF LifeOK, Life
<1> QED BY <1>1, Serving, PTL

\* Theorem: the end of a connection is reported before its object is freed,
\* and at most twice.
THEOREM TcpDisconnectReported == Spec => []DisconnectReported
<1>1. ServeInv => DisconnectReported
  BY DEF ServeInv, LifeInv, LifeOK, EventsOK, DisconnectReported
<1> QED BY <1>1, Serving, PTL
=============================================================================
