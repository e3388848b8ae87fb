------------------------- MODULE TcpChannelsProofs -------------------------
(***************************************************************************)
(* TcpServer implements Channels in both directions.  The argument: the    *)
(* lists of a connection's buffer hold exactly the messages between the    *)
(* two ends of each channel (ChanInv), and a step of the server changes    *)
(* the status and the histories of a connection the way a channel may.     *)
(***************************************************************************)
EXTENDS TcpServerProofs

\* Lemma: an open connection has an object of its own, and is not ended.
LEMMA OpenIs ==
    ASSUME ServeInv, NEW o \in Obj, conn[o].open
    PROVE  /\ o \in Served /\ conn[o].id \in Id /\ conn[o].buf \in Buf
           /\ conn[o].id <= currId /\ events[conn[o].id] = 0
           /\ \A p \in Obj : p # o => conn[p].id # conn[o].id
           /\ \A p \in Served : p # o => conn[p].buf # conn[o].buf
           /\ conn[o].buf \notin Range(freeBufs)
<1>1. TypeInv /\ PoolsKept /\ LifeOK
  BY DEF ServeInv, LifeInv
<1>2. conn[o].id # 0 /\ conn[o].id \in Id /\ conn[o].buf \in Buf
  BY <1>1, ConnTypes
<1>3. o \in Served /\ events[conn[o].id] = 0
  BY <1>1, <1>2 DEF LifeOK, Life, EventsOK, Reported
<1>4. conn[o].id <= currId /\ \A p \in Obj : p # o => conn[p].id # conn[o].id
  BY <1>1, <1>2 DEF TypeInv, Ids
<1> QED BY <1>1, <1>2, <1>3, <1>4, OwnBuffer

\* Lemma: the connection whose messages are being handled is open.
LEMMA CurOpen ==
    ASSUME ServeInv, pos > 0
    PROVE  phase = "run" /\ todo # <<>> /\ cur \in Obj /\ conn[cur].open
<1>1. phase = "run" /\ todo # <<>> /\ cur \in Obj
  BY HandlingTypes DEF ServeInv
<1>2. conn[cur].st \in {"CONNECTED", "DISCONNECTING"} /\ LifeOK
  BY DEF ServeInv, LifeInv, PassOK
<1> QED BY <1>1, <1>2, RunOpen

\* Lemma: force_close adds at most one to the reports of one connection.
LEMMA CloseEvents ==
    ASSUME TypeInv, NEW o \in Obj, conn[o].id # 0, NEW c, c.id = conn[o].id, NEW q, ForceClose(o, c, q)
    PROVE  \A i \in Id : events'[i] = events[i] \/ (i <= currId /\ events'[i] = events[i] + 1)
<1>1. events \in [Id -> Nat] /\ conn[o].id <= currId
  BY DEF TypeInv, Types, Ids
<1>2. CASE events' = events
  BY <1>2
<1>3. CASE events' = [events EXCEPT ![conn[o].id] = @ + 1]
  BY <1>1, <1>3
<1> QED BY <1>2, <1>3 DEF ForceClose

\* Lemma: the same of what the application does.
LEMMA AppEvents ==
    ASSUME TypeInv, NEW d \in Obj, AppOp(d)
    PROVE  \A i \in Id : events'[i] = events[i] \/ (i <= currId /\ events'[i] = events[i] + 1)
<1>1. CASE Send(d) \/ Close(d)
  BY <1>1 DEF Send, Close
<1>2. CASE Kick(d)
  BY <1>2, CloseEvents DEF Kick, Live
<1> QED BY <1>1, <1>2 DEF AppOp

\* Lemma: a step accepts one connection, or adds to the reports of some that
\* have been accepted.
LEMMA EventStep ==
    ASSUME TypeInv, [Next]_vars
    PROVE  \/ Accept
           \/ /\ currId' = currId
              /\ \A i \in Id : events'[i] = events[i] \/ (i <= currId /\ events'[i] = events[i] + 1)
<1> DEFINE Counted == \A i \in Id : events'[i] = events[i] \/ (i <= currId /\ events'[i] = events[i] + 1)
<1>1. CASE UNCHANGED <<currId, events>>
  BY <1>1
<1>2. CASE VisitTimeout \/ DeliverFail
  <2>1. currId' = currId /\ ForceClose(cur, conn[cur], posted)
    BY <1>2 DEF VisitTimeout, DeliverFail
  <2>2. cur \in Obj /\ conn[cur].id # 0
    <3>1. CASE VisitTimeout
      <4>1. todo \in Seq(Obj) /\ todo # <<>> /\ conn[cur].st = "DISCONNECTING"
        BY <3>1 DEF VisitTimeout, StartVisit, TypeInv, Types
      <4>2. cur \in Obj
        BY <4>1, TailRange DEF cur
      <4> QED BY <4>1, <4>2, ConnTypes
    <3>2. CASE DeliverFail
      <4>1. pos > 0
        BY <3>2 DEF DeliverFail, Handling
      <4> QED BY <4>1, HandlingTypes DEF TypeInv, Ids
    <3> QED BY <1>2, <3>1, <3>2
  <2> QED BY <2>1, <2>2, CloseEvents
<1>3. CASE Deliver \/ App
  <2>1. currId' = currId /\ (UNCHANGED events \/ \E d \in Obj : AppOp(d))
    BY <1>3 DEF Deliver, App, AppOp
  <2> QED BY <2>1, AppEvents
<1>4. CASE RunPosted
  <2>1. PICK o \in Obj : conn[o].id # 0 /\ ForceClose(o, conn[o], Tail(posted))
    <3>1. posted # <<>> /\ posted \in Seq(Entry)
      BY <1>4, PostedTypes DEF RunPosted
    <3>2. Head(posted) = posted[1] /\ 1 \in 1..Len(posted)
      BY <3>1, EmptySeq, LenProperties, HeadTailProperties
    <3>3. Head(posted).obj \in Obj /\ conn[Head(posted).obj].id # 0
      BY <3>2, PostedTypes
    <3> QED BY <1>4, <3>3 DEF RunPosted
  <2>2. currId' = currId
    BY <1>4 DEF RunPosted
  <2> QED BY <2>1, <2>2, CloseEvents
<1>5. ASSUME NEW o \in Obj, Completion(o), ~UNCHANGED <<currId, events>>
      PROVE  currId' = currId /\ Counted
  <2>1. ReadAck(o) \/ ReadErr(o) \/ WriteErr(o)
    BY <1>5 DEF Completion, ReadHead, ReadBody, ReadDisc, ReadStrayAck, WriteAll, WritePart, hist
  <2>2. conn[o].open /\ currId' = currId
    BY <2>1 DEF ReadAck, ReadingAck, Reading, ReadErr, WriteErr
  <2>3. conn[o].id # 0 /\ conn[o] \in Conn
    BY <2>2, ConnTypes
  <2>4. CASE ReadAck(o)
    <3>1. events' = [events EXCEPT ![conn[o].id] = @ + 1]
      BY <2>3, <2>4, ReadAckShape DEF TypeInv, Types
    <3> QED BY <2>2, <3>1 DEF TypeInv, Types, Ids
  <2>5. CASE ReadErr(o)
    BY <2>2, <2>3, <2>5, CloseEvents DEF ReadErr, Conn
  <2>6. CASE WriteErr(o)
    BY <2>2, <2>3, <2>6, CloseEvents DEF WriteErr, Conn
  <2> QED BY <2>1, <2>4, <2>5, <2>6
<1>6. CASE VisitDead \/ VisitIdle \/ VisitConnected \/ DeliverEnd \/ EndRun \/ EndPoll \/ UNCHANGED vars
  <2>1. UNCHANGED <<currId, events>>
    BY <1>6 DEF VisitDead, VisitIdle, VisitConnected, DeliverEnd, EndRun, EndPoll, vars, hist
  <2> QED BY <1>1, <2>1
<1> QED BY <1>1, <1>2, <1>3, <1>4, <1>5, <1>6 DEF Next, Visit

\* Lemma: a connection is accepted once, and ends once.
LEMMA StatusStep ==
    ASSUME ServeInv, [Next]_vars, NEW i \in Id
    PROVE  \/ Status'[i] = Status[i]
           \/ Status[i] = "new" /\ Status'[i] \in {"open", "ended"}
           \/ Status[i] = "open" /\ Status'[i] = "ended"
<1>1. TypeInv /\ LifeOK /\ PoolsKept /\ currId \in Nat /\ events \in [Id -> Nat] /\ i \in Nat
  BY DEF ServeInv, LifeInv, TypeInv, Types, Id
<1>2. CASE Accept
  <2>1. /\ currId' = currId + 1
        /\ events' = events \/ events' = [events EXCEPT ![currId + 1] = @ + 1]
    <3>1. PICK o \in Obj, b \in Buf, c \in Conn :
             c.id = currId + 1 /\ (Welcomed(o, c) \/ Refused(o, c)) /\ currId' = currId + 1
      BY <1>1, <1>2, AcceptShape
    <3> QED BY <3>1 DEF Welcomed, Refused
  <2>2. i > currId => events[i] = 0
    BY <1>1 DEF LifeOK, EventsOK
  <2>3. i # currId + 1 => events'[i] = events[i]
    BY <1>1, <2>1
  <2>4. CASE i = currId + 1
    BY <1>1, <2>1, <2>4 DEF Status
  <2>5. CASE i # currId + 1
    BY <1>1, <2>1, <2>2, <2>3, <2>5 DEF Status
  <2> QED BY <2>4, <2>5
<1>3. CASE currId' = currId /\ (events'[i] = events[i] \/ (i <= currId /\ events'[i] = events[i] + 1))
  BY <1>1, <1>3 DEF Status
<1> QED BY <1>1, <1>2, <1>3, EventStep

-----------------------------------------------------------------------------
(* What the two ends of a channel see.                                     *)

\* Lemma: the types of a connection's lists and histories.
LEMMA ChanTypes ==
    ASSUME ServeInv, NEW o \in Obj, conn[o].open
    PROVE  /\ buff[conn[o].buf].rq \in Seq(UpMsg) /\ buff[conn[o].buf].sq \in Seq(Packet)
           /\ sent[conn[o].id] \in Seq(UpMsg) /\ got[conn[o].id] \in Seq(UpMsg)
           /\ queued[conn[o].id] \in Seq(DownMsg) /\ wrote[conn[o].id] \in Seq(DownMsg)
           /\ Len(buff[conn[o].buf].rq) \in Nat /\ Len(buff[conn[o].buf].sq) \in Nat
           /\ Len(sent[conn[o].id]) \in Nat /\ Len(got[conn[o].id]) \in Nat
           /\ Len(queued[conn[o].id]) \in Nat /\ Len(wrote[conn[o].id]) \in Nat
<1>1. conn[o].id \in Id /\ conn[o].buf \in Buf
  BY OpenIs
<1>2. /\ buff[conn[o].buf].rq \in Seq(UpMsg) /\ buff[conn[o].buf].sq \in Seq(Packet)
      /\ sent[conn[o].id] \in Seq(UpMsg) /\ got[conn[o].id] \in Seq(UpMsg)
      /\ queued[conn[o].id] \in Seq(DownMsg) /\ wrote[conn[o].id] \in Seq(DownMsg)
  BY <1>1 DEF ServeInv, TypeInv, Types
<1> QED BY <1>2, LenProperties

\* Lemma: the packet handed to a message handler is the next one the peer
\* has sent on that connection.
LEMMA HandedOver ==
    ASSUME ServeInv, ChanInv, Handling, HandOver, NEW o \in Obj, o = cur
    PROVE  /\ conn[o].open /\ Len(got[conn[o].id]) < Len(sent[conn[o].id])
           /\ pos \in 1..Len(buff[conn[o].buf].rq)
           /\ sent[conn[o].id][Len(got[conn[o].id]) + 1] = Data(conn[o].id, Len(got[conn[o].id]) + 1)
           /\ got' = [got EXCEPT ![conn[o].id] = Append(@, Data(conn[o].id, Len(got[conn[o].id]) + 1))]
<1> DEFINE i == conn[o].id
           r == buff[conn[o].buf].rq
<1>1. conn[o].open /\ pos > 0 /\ pos \in Nat /\ pos <= Len(r)
  BY CurOpen DEF Handling, recvList, ServeInv, TypeInv, Types
<1>2. Len(r) \in Nat /\ Len(sent[i]) \in Nat /\ Len(got[i]) \in Nat /\ i \in Id
  BY <1>1, ChanTypes, OpenIs
<1>3. Handled(o) = pos - 1
  BY <1>1 DEF Handled
<1>4. /\ Len(sent[i]) + Handled(o) = Len(got[i]) + Len(r)
      /\ \A k \in 1..Len(r) : r[k] = Data(i, Len(sent[i]) - Len(r) + k)
  BY <1>1 DEF ChanInv, UpOK, Arrived
<1>5. \A n \in 1..Len(sent[i]) : sent[i][n] = Data(i, n)
  BY <1>2 DEF ChanInv, Numbered
<1>6. got' = [got EXCEPT ![i] = Append(@, r[pos])]
  BY DEF HandOver, recvList
<1> HIDE DEF i, r
<1>7. pos \in 1..Len(r) /\ Len(sent[i]) - Len(r) + pos = Len(got[i]) + 1 /\ Len(got[i]) < Len(sent[i])
  BY <1>1, <1>2, <1>3, <1>4
<1>8. r[pos] = Data(i, Len(got[i]) + 1)
  BY <1>4, <1>7
<1>9. Len(got[i]) + 1 \in 1..Len(sent[i])
  BY <1>2, <1>7
<1> QED BY <1>1, <1>5, <1>6, <1>7, <1>8, <1>9 DEF i, r

\* Lemma: the message at the head of the send list is the next one the
\* handlers have queued on that connection.
LEMMA HeadIsNext ==
    ASSUME ServeInv, ChanInv, NEW o \in Obj, conn[o].open, buff[conn[o].buf].sq # <<>>,
           IsData(Head(buff[conn[o].buf].sq))
    PROVE  /\ Len(wrote[conn[o].id]) < Len(queued[conn[o].id])
           /\ Head(buff[conn[o].buf].sq) = Data(conn[o].id, Len(wrote[conn[o].id]) + 1)
           /\ queued[conn[o].id][Len(wrote[conn[o].id]) + 1] = Data(conn[o].id, Len(wrote[conn[o].id]) + 1)
<1> DEFINE i == conn[o].id
           s == buff[conn[o].buf].sq
           w == Len(wrote[i])
           q == Len(queued[i])
<1>1. s \in Seq(Packet) /\ w \in Nat /\ q \in Nat /\ i \in Id
  BY ChanTypes, OpenIs
<1>2. /\ \A k \in 1..Len(s) : IsData(s[k]) => s[k][1] = i /\ s[k][2] \in (w + 1)..q
      /\ \A j, k \in 1..Len(s) : j < k /\ IsData(s[j]) /\ IsData(s[k]) => s[j][2] < s[k][2]
      /\ \A n \in (w + 1)..q : \E k \in 1..Len(s) : s[k] = Data(i, n)
  BY DEF ChanInv, DownOK, Waiting
<1>3. \A n \in 1..q : queued[i][n] = Data(i, n)
  BY <1>1 DEF ChanInv, Numbered
<1>4. s # <<>> /\ IsData(Head(s))
  OBVIOUS
<1> HIDE DEF i, s, w, q
<1>5. Len(s) \in Nat \ {0} /\ Head(s) = s[1] /\ Head(s) \in Packet
  BY <1>1, <1>4, TailRange, HeadTailProperties
<1>6. 1 \in 1..Len(s) /\ s[1][1] = i /\ s[1][2] \in (w + 1)..q
  BY <1>2, <1>4, <1>5
<1>7. w + 1 \in (w + 1)..q
  BY <1>1, <1>6
<1>8. PICK k \in 1..Len(s) : s[k] = Data(i, w + 1)
  BY <1>2, <1>7
<1>9. s[k][2] = w + 1 /\ IsData(s[k])
  BY <1>1, <1>8 DEF Data, IsData, Id
<1>10. k = 1
  <2>1. CASE 1 < k
    <3>1. s[1][2] < w + 1
      BY <1>2, <1>4, <1>5, <1>6, <1>9, <2>1
    <3> QED BY <1>1, <1>6, <3>1
  <2> QED BY <1>5, <2>1
<1>11. Head(s) = Data(i, w + 1)
  BY <1>5, <1>8, <1>10
<1>12. w < q /\ w + 1 \in 1..q
  BY <1>1, <1>7
<1> QED BY <1>3, <1>11, <1>12 DEF i, s, w, q

\* Lemma: an application call either accepts one message to be sent, which
\* ends no connection, or leaves the histories alone.
LEMMA AppHist ==
    ASSUME ServeInv, phase = "run", NEW d \in Obj, AppOp(d)
    PROVE  \/ UNCHANGED queued
           \/ /\ conn[d].open /\ UNCHANGED events
              /\ queued' = [queued EXCEPT ![conn[d].id] = Append(@, Data(conn[d].id, Len(queued[conn[d].id]) + 1))]
              /\ Data(conn[d].id, Len(queued[conn[d].id]) + 1) \in DownMsg
<1>1. CASE Send(d)
  <2>1. conn[d].open
    BY <1>1, RunOpen DEF Send, ServeInv, LifeInv
  <2>2. conn[d].id \in Id /\ Len(queued[conn[d].id]) \in Nat
    BY <2>1, OpenIs, ChanTypes
  <2>3. Len(queued[conn[d].id]) + 1 \in 1..MaxDown
    BY <1>1, <2>2, TcpConstants DEF Send
  <2> QED BY <1>1, <2>1, <2>2, <2>3 DEF Send, Data, DownMsg
<1>2. CASE Close(d) \/ Kick(d)
  BY <1>2 DEF Close, Kick
<1> QED BY <1>1, <1>2 DEF AppOp

\* Lemma: the steps that touch the upward histories.
LEMMA UpHist ==
    ASSUME [Next]_vars
    PROVE  \/ UNCHANGED <<sent, got>>
           \/ \E o \in Obj : ReadBody(o)
           \/ (Deliver \/ DeliverFail) /\ Handling /\ HandOver /\ UNCHANGED sent
<1>1. CASE VisitDead \/ VisitIdle \/ VisitConnected \/ DeliverEnd \/ EndRun \/ EndPoll \/ UNCHANGED vars
  BY <1>1 DEF VisitDead, VisitIdle, VisitConnected, DeliverEnd, EndRun, EndPoll, vars, hist
<1>2. CASE VisitTimeout \/ App \/ RunPosted \/ Accept
  BY <1>2 DEF VisitTimeout, App, RunPosted, Accept, hist
<1>3. CASE Deliver \/ DeliverFail
  BY <1>3 DEF Deliver, DeliverFail
<1>4. ASSUME NEW o \in Obj, Completion(o)
      PROVE  UNCHANGED <<sent, got>> \/ ReadBody(o)
  BY <1>4 DEF Completion, ReadHead, ReadDisc, ReadStrayAck, ReadAck, ReadErr, WriteAll, WritePart, WriteErr, hist
<1> QED BY <1>1, <1>2, <1>3, <1>4 DEF Next, Visit

\* Lemma: the steps that touch the downward histories.
LEMMA DownHist ==
    ASSUME [Next]_vars
    PROVE  \/ UNCHANGED <<queued, wrote>>
           \/ /\ phase = "run" /\ App /\ UNCHANGED <<wrote, currId>>
              /\ \E d \in Obj : AppOp(d)
           \/ \E o \in Obj : WriteAll(o)
<1>1. CASE VisitDead \/ VisitIdle \/ VisitConnected \/ DeliverEnd \/ EndRun \/ EndPoll \/ UNCHANGED vars
  BY <1>1 DEF VisitDead, VisitIdle, VisitConnected, DeliverEnd, EndRun, EndPoll, vars, hist
<1>2. CASE VisitTimeout \/ DeliverFail \/ RunPosted \/ Accept
  BY <1>2 DEF VisitTimeout, DeliverFail, RunPosted, Accept, hist
<1>3. CASE Deliver
  BY <1>3 DEF Deliver
<1>4. CASE App
  BY <1>4 DEF App, AppOp
<1>5. ASSUME NEW o \in Obj, Completion(o)
      PROVE  UNCHANGED <<queued, wrote>> \/ WriteAll(o)
  BY <1>5 DEF Completion, ReadHead, ReadBody, ReadDisc, ReadStrayAck, ReadAck, ReadErr, WritePart, WriteErr, hist
<1> QED BY <1>1, <1>2, <1>3, <1>4, <1>5 DEF Next, Visit

\* Lemma: one connection, seen as an upward channel, in one step.
LEMMA UpStep ==
    ASSUME ServeInv, ChanInv, [Next]_vars, NEW i \in Id
    PROVE  Up!Open(i) \/ Up!End(i) \/ Up!Send(i) \/ Up!Deliver(i) \/ Up!Idle(i)
<1>0. /\ \/ Status'[i] = Status[i]
         \/ Status[i] = "new" /\ Status'[i] \in {"open", "ended"}
         \/ Status[i] = "open" /\ Status'[i] = "ended"
      /\ currId \in Nat /\ sent \in [Id -> Seq(UpMsg)] /\ got \in [Id -> Seq(UpMsg)]
  BY StatusStep DEF ServeInv, TypeInv, Types, Id
<1>1. CASE sent'[i] = sent[i] /\ got'[i] = got[i]
  BY <1>0, <1>1 DEF Up!Open, Up!End, Up!Idle, Up!Stay
<1>2. ASSUME NEW o \in Obj, ReadBody(o), conn[o].id = i
      PROVE  Up!Send(i)
  <2>1. conn[o].open
    BY <1>2 DEF ReadBody, Reading
  <2>2. i <= currId /\ events[i] = 0 /\ Len(sent[i]) \in Nat
    BY <1>2, <2>1, OpenIs, ChanTypes
  <2>3. Status[i] = "open" /\ Status' = Status
    <3>1. events' = events /\ currId' = currId
      BY <1>2 DEF ReadBody
    <3> QED BY <1>0, <2>2, <3>1 DEF Status, Id
  <2>4. Len(sent[i]) < MaxUp
    BY <1>2 DEF ReadBody, Reading, ServeInv, TypeInv, Ids
  <2>5. Len(sent[i]) + 1 \in 1..MaxUp
    BY <2>2, <2>4, TcpConstants
  <2>6. Data(i, Len(sent[i]) + 1) \in UpMsg
    BY <2>5 DEF Data, UpMsg
  <2>7. sent'[i] = Append(sent[i], Data(i, Len(sent[i]) + 1)) /\ got' = got
    BY <1>0, <1>2 DEF ReadBody
  <2> QED BY <2>3, <2>6, <2>7 DEF Up!Send, Up!Stay
<1>3. ASSUME Handling, HandOver, sent' = sent, conn[cur].id = i
      PROVE  Up!Deliver(i)
  <2>1. PICK o \in Obj : o = cur
    BY <1>3, CurOpen DEF Handling
  <2>2. /\ conn[o].open /\ Len(got[i]) < Len(sent[i])
        /\ sent[i][Len(got[i]) + 1] = Data(i, Len(got[i]) + 1)
        /\ got' = [got EXCEPT ![i] = Append(@, Data(i, Len(got[i]) + 1))]
    BY <1>3, <2>1, HandedOver
  <2>3. i <= currId /\ events[i] = 0
    BY <1>3, <2>1, <2>2, OpenIs
  <2>4. Status[i] = "open"
    BY <1>0, <2>3 DEF Status, Id
  <2>5. Status'[i] \in {"open", "ended"}
    BY <1>0, <2>4
  <2>6. got'[i] = Append(got[i], sent[i][Len(got[i]) + 1])
    BY <1>0, <2>2
  <2> QED BY <1>3, <2>2, <2>4, <2>5, <2>6 DEF Up!Deliver, Up!Stay
<1>4. ASSUME NEW o \in Obj, ReadBody(o), conn[o].id # i
      PROVE  sent'[i] = sent[i] /\ got'[i] = got[i]
  BY <1>0, <1>4 DEF ReadBody
<1>5. ASSUME HandOver, sent' = sent, conn[cur].id # i
      PROVE  sent'[i] = sent[i] /\ got'[i] = got[i]
  BY <1>0, <1>5 DEF HandOver
<1> QED BY <1>1, <1>2, <1>3, <1>4, <1>5, UpHist

\* Lemma: one connection, seen as a downward channel, in one step.
LEMMA DownStep ==
    ASSUME ServeInv, ChanInv, [Next]_vars, NEW i \in Id
    PROVE  Down!Open(i) \/ Down!End(i) \/ Down!Send(i) \/ Down!Deliver(i) \/ Down!Idle(i)
<1>0. /\ \/ Status'[i] = Status[i]
         \/ Status[i] = "new" /\ Status'[i] \in {"open", "ended"}
         \/ Status[i] = "open" /\ Status'[i] = "ended"
      /\ currId \in Nat /\ queued \in [Id -> Seq(DownMsg)] /\ wrote \in [Id -> Seq(DownMsg)]
  BY StatusStep DEF ServeInv, TypeInv, Types, Id
<1>1. CASE queued'[i] = queued[i] /\ wrote'[i] = wrote[i]
  BY <1>0, <1>1 DEF Down!Open, Down!End, Down!Idle, Down!Stay
<1>2. ASSUME phase = "run", NEW d \in Obj, AppOp(d), UNCHANGED <<wrote, currId>>
      PROVE  \/ queued'[i] = queued[i] /\ wrote'[i] = wrote[i]
             \/ Down!Send(i)
  <2>1. CASE UNCHANGED queued
    BY <1>2, <2>1
  <2>2. CASE /\ conn[d].open /\ UNCHANGED events
             /\ queued' = [queued EXCEPT ![conn[d].id] = Append(@, Data(conn[d].id, Len(queued[conn[d].id]) + 1))]
             /\ Data(conn[d].id, Len(queued[conn[d].id]) + 1) \in DownMsg
    <3>1. CASE conn[d].id # i
      BY <1>0, <1>2, <2>2, <3>1
    <3>2. CASE conn[d].id = i
      <4>1. i <= currId /\ events[i] = 0
        BY <2>2, <3>2, OpenIs
      <4>2. Status[i] = "open" /\ Status' = Status
        BY <1>0, <1>2, <2>2, <4>1 DEF Status, Id
      <4>3. queued'[i] = Append(queued[i], Data(i, Len(queued[i]) + 1)) /\ Data(i, Len(queued[i]) + 1) \in DownMsg
        BY <1>0, <2>2, <3>2
      <4> QED BY <1>2, <4>2, <4>3 DEF Down!Send, Down!Stay
    <3> QED BY <3>1, <3>2
  <2> QED BY <1>2, <2>1, <2>2, AppHist
<1>3. ASSUME NEW o \in Obj, WriteAll(o)
      PROVE  \/ queued'[i] = queued[i] /\ wrote'[i] = wrote[i]
             \/ Down!Deliver(i)
  <2>1. conn[o].open /\ conn[o].wr /\ queued' = queued
    BY <1>3 DEF WriteAll
  <2>2. buff[conn[o].buf].sq # <<>>
    BY <2>1 DEF ServeInv, BuffersOK
  <2>3. CASE ~IsData(Head(buff[conn[o].buf].sq))
    BY <1>3, <2>1, <2>3 DEF WriteAll
  <2>4. CASE IsData(Head(buff[conn[o].buf].sq))
    <3>1. wrote' = [wrote EXCEPT ![conn[o].id] = Append(@, Head(buff[conn[o].buf].sq))]
      BY <1>3, <2>4 DEF WriteAll
    <3>2. CASE conn[o].id # i
      BY <1>0, <2>1, <3>1, <3>2
    <3>3. CASE conn[o].id = i
      <4>1. i <= currId /\ events[i] = 0
        BY <2>1, <3>3, OpenIs
      <4>2. Status[i] = "open"
        BY <1>0, <4>1 DEF Status, Id
      <4>3. Status'[i] \in {"open", "ended"}
        BY <1>0, <4>2
      <4>4. /\ Len(wrote[i]) < Len(queued[i])
            /\ Head(buff[conn[o].buf].sq) = queued[i][Len(wrote[i]) + 1]
        BY <2>1, <2>2, <2>4, <3>3, HeadIsNext
      <4>5. wrote'[i] = Append(wrote[i], queued[i][Len(wrote[i]) + 1])
        BY <1>0, <3>1, <3>3, <4>4
      <4> QED BY <2>1, <4>2, <4>3, <4>4, <4>5 DEF Down!Deliver, Down!Stay
    <3> QED BY <3>2, <3>3
  <2> QED BY <2>3, <2>4
<1> QED BY <1>1, <1>2, <1>3, DownHist

-----------------------------------------------------------------------------
(* ChanInv is inductive.                                                   *)

\* Lemma: a history that gets its next message stays numbered.
LEMMA NumberedGrows ==
    ASSUME NEW M, NEW f \in [Id -> Seq(M)], NEW c, NEW i \in Id, ~(i > c), NEW g,
           Data(i, Len(f[i]) + 1) \in M, g = [f EXCEPT ![i] = Append(@, Data(i, Len(f[i]) + 1))],
           \A j \in Id : (j > c => f[j] = <<>>) /\ \A n \in 1..Len(f[j]) : f[j][n] = Data(j, n)
    PROVE  \A j \in Id : (j > c => g[j] = <<>>) /\ \A n \in 1..Len(g[j]) : g[j][n] = Data(j, n)
<1> TAKE j \in Id
<1>1. CASE j # i
  <2>1. g[j] = f[j]
    BY <1>1
  <2> QED BY <2>1
<1>2. CASE j = i
  <2>1. g[i] = Append(f[i], Data(i, Len(f[i]) + 1)) /\ f[i] \in Seq(M) /\ Len(f[i]) \in Nat
    BY LenProperties
  <2>2. /\ Len(g[i]) = Len(f[i]) + 1 /\ g[i][Len(f[i]) + 1] = Data(i, Len(f[i]) + 1)
        /\ \A n \in 1..Len(f[i]) : g[i][n] = f[i][n]
    BY <2>1, AppendProperties
  <2>3. \A n \in 1..Len(g[i]) : n \in 1..Len(f[i]) \/ n = Len(f[i]) + 1
    BY <2>1, <2>2
  <2> QED BY <1>2, <2>2, <2>3
<1> QED BY <1>1, <1>2

\* Lemma: the four histories stay numbered.
LEMMA NumberedNext ==
    ASSUME ServeInv, ChanInv, [Next]_vars
    PROVE  Numbered(sent)' /\ Numbered(got)' /\ Numbered(queued)' /\ Numbered(wrote)'
<1>0. /\ TypeInv /\ currId \in Nat
      /\ sent \in [Id -> Seq(UpMsg)] /\ got \in [Id -> Seq(UpMsg)]
      /\ queued \in [Id -> Seq(DownMsg)] /\ wrote \in [Id -> Seq(DownMsg)]
  BY DEF ServeInv, TypeInv, Types, Id
<1>1. currId' \in Nat /\ currId' >= currId
  <2>1. CASE Accept
    BY <1>0, <2>1 DEF Accept
  <2>2. CASE currId' = currId
    BY <1>0, <2>2
  <2> QED BY <1>0, <2>1, <2>2, EventStep
<1>2. \A j \in Id : j > currId' => j > currId
  BY <1>0, <1>1 DEF Id
<1>3. UNCHANGED <<sent, got>> => Numbered(sent)' /\ Numbered(got)'
  BY <1>2 DEF ChanInv, Numbered
<1>4. UNCHANGED <<queued, wrote>> => Numbered(queued)' /\ Numbered(wrote)'
  BY <1>2 DEF ChanInv, Numbered
<1>5. ASSUME NEW o \in Obj, ReadBody(o)
      PROVE  Numbered(sent)' /\ Numbered(got)'
  <2>1. conn[o].open /\ currId' = currId /\ got' = got
    BY <1>5 DEF ReadBody, Reading
  <2>2. conn[o].id \in Id /\ ~(conn[o].id > currId) /\ Len(sent[conn[o].id]) \in Nat
    BY <1>0, <2>1, OpenIs, ChanTypes DEF Id
  <2>3. sent' = [sent EXCEPT ![conn[o].id] = Append(@, Data(conn[o].id, Len(sent[conn[o].id]) + 1))]
    BY <1>5 DEF ReadBody
  <2>4. Len(sent[conn[o].id]) < MaxUp
    BY <1>5 DEF ReadBody, Reading, ServeInv, TypeInv, Ids
  <2>5. Len(sent[conn[o].id]) + 1 \in 1..MaxUp
    BY <2>2, <2>4, TcpConstants
  <2>6. Data(conn[o].id, Len(sent[conn[o].id]) + 1) \in UpMsg
    BY <2>2, <2>5 DEF Data, UpMsg
  <2>7. \A j \in Id : (j > currId => sent[j] = <<>>) /\ \A n \in 1..Len(sent[j]) : sent[j][n] = Data(j, n)
    BY DEF ChanInv, Numbered
  <2>8. \A j \in Id : (j > currId => sent'[j] = <<>>) /\ \A n \in 1..Len(sent'[j]) : sent'[j][n] = Data(j, n)
    BY <1>0, <2>2, <2>3, <2>6, <2>7, NumberedGrows
  <2> QED BY <2>1, <2>8 DEF ChanInv, Numbered
<1>6. ASSUME Deliver \/ DeliverFail, Handling, HandOver, sent' = sent
      PROVE  Numbered(sent)' /\ Numbered(got)'
  <2>1. PICK o \in Obj : o = cur
    BY <1>6, CurOpen DEF Handling
  <2>2. /\ conn[o].open /\ Len(got[conn[o].id]) < Len(sent[conn[o].id])
        /\ got' = [got EXCEPT ![conn[o].id] = Append(@, Data(conn[o].id, Len(got[conn[o].id]) + 1))]
        /\ sent[conn[o].id][Len(got[conn[o].id]) + 1] = Data(conn[o].id, Len(got[conn[o].id]) + 1)
    BY <1>6, <2>1, HandedOver
  <2>3. /\ conn[o].id \in Id /\ ~(conn[o].id > currId)
        /\ Len(got[conn[o].id]) \in Nat /\ Len(sent[conn[o].id]) \in Nat /\ sent[conn[o].id] \in Seq(UpMsg)
    BY <1>0, <2>2, OpenIs, ChanTypes DEF Id
  <2>4. Len(got[conn[o].id]) + 1 \in 1..Len(sent[conn[o].id])
    BY <2>2, <2>3
  <2>5. Data(conn[o].id, Len(got[conn[o].id]) + 1) \in UpMsg
    BY <2>2, <2>3, <2>4, ElementOfSeq
  <2>6. \A j \in Id : (j > currId => got[j] = <<>>) /\ \A n \in 1..Len(got[j]) : got[j][n] = Data(j, n)
    BY DEF ChanInv, Numbered
  <2>7. \A j \in Id : (j > currId => got'[j] = <<>>) /\ \A n \in 1..Len(got'[j]) : got'[j][n] = Data(j, n)
    BY <1>0, <2>2, <2>3, <2>5, <2>6, NumberedGrows
  <2>8. currId' = currId
    BY <1>6 DEF Deliver, DeliverFail
  <2> QED BY <1>6, <2>7, <2>8 DEF ChanInv, Numbered
<1>7. ASSUME phase = "run", NEW d \in Obj, AppOp(d), UNCHANGED <<wrote, currId>>
      PROVE  Numbered(queued)' /\ Numbered(wrote)'
  <2>1. CASE UNCHANGED queued
    BY <1>7, <2>1 DEF ChanInv, Numbered
  <2>2. CASE /\ conn[d].open /\ UNCHANGED events
             /\ queued' = [queued EXCEPT ![conn[d].id] = Append(@, Data(conn[d].id, Len(queued[conn[d].id]) + 1))]
             /\ Data(conn[d].id, Len(queued[conn[d].id]) + 1) \in DownMsg
    <3>1. conn[d].id \in Id /\ ~(conn[d].id > currId)
      BY <1>0, <2>2, OpenIs DEF Id
    <3>2. \A j \in Id : (j > currId => queued[j] = <<>>) /\ \A n \in 1..Len(queued[j]) : queued[j][n] = Data(j, n)
      BY DEF ChanInv, Numbered
    <3>3. \A j \in Id : (j > currId => queued'[j] = <<>>) /\ \A n \in 1..Len(queued'[j]) : queued'[j][n] = Data(j, n)
      BY <1>0, <2>2, <3>1, <3>2, NumberedGrows
    <3> QED BY <1>7, <3>3 DEF ChanInv, Numbered
  <2> QED BY <1>7, <2>1, <2>2, AppHist
<1>8. ASSUME NEW o \in Obj, WriteAll(o)
      PROVE  Numbered(queued)' /\ Numbered(wrote)'
  <2>1. conn[o].open /\ conn[o].wr /\ queued' = queued /\ currId' = currId
    BY <1>8 DEF WriteAll
  <2>2. buff[conn[o].buf].sq # <<>>
    BY <2>1 DEF ServeInv, BuffersOK
  <2>3. CASE ~IsData(Head(buff[conn[o].buf].sq))
    BY <1>4, <1>8, <2>1, <2>3 DEF WriteAll
  <2>4. CASE IsData(Head(buff[conn[o].buf].sq))
    <3>1. wrote' = [wrote EXCEPT ![conn[o].id] = Append(@, Head(buff[conn[o].buf].sq))]
      BY <1>8, <2>4 DEF WriteAll
    <3>2. /\ Len(wrote[conn[o].id]) < Len(queued[conn[o].id])
          /\ Head(buff[conn[o].buf].sq) = Data(conn[o].id, Len(wrote[conn[o].id]) + 1)
          /\ queued[conn[o].id][Len(wrote[conn[o].id]) + 1] = Data(conn[o].id, Len(wrote[conn[o].id]) + 1)
      BY <2>1, <2>2, <2>4, HeadIsNext
    <3>3. /\ conn[o].id \in Id /\ ~(conn[o].id > currId) /\ queued[conn[o].id] \in Seq(DownMsg)
          /\ Len(wrote[conn[o].id]) \in Nat /\ Len(queued[conn[o].id]) \in Nat
      BY <1>0, <2>1, OpenIs, ChanTypes DEF Id
    <3>4. Len(wrote[conn[o].id]) + 1 \in 1..Len(queued[conn[o].id])
      BY <3>2, <3>3
    <3>5. Data(conn[o].id, Len(wrote[conn[o].id]) + 1) \in DownMsg
      BY <3>2, <3>3, <3>4, ElementOfSeq
    <3>6. \A j \in Id : (j > currId => wrote[j] = <<>>) /\ \A n \in 1..Len(wrote[j]) : wrote[j][n] = Data(j, n)
      BY DEF ChanInv, Numbered
    <3>7. wrote' = [wrote EXCEPT ![conn[o].id] = Append(@, Data(conn[o].id, Len(wrote[conn[o].id]) + 1))]
      BY <3>1, <3>2
    <3>8. \A j \in Id : (j > currId => wrote'[j] = <<>>) /\ \A n \in 1..Len(wrote'[j]) : wrote'[j][n] = Data(j, n)
      BY <1>0, <3>3, <3>5, <3>6, <3>7, NumberedGrows
    <3> QED BY <2>1, <3>8 DEF ChanInv, Numbered
  <2> QED BY <2>3, <2>4
<1> QED BY <1>3, <1>4, <1>5, <1>6, <1>7, <1>8, UpHist, DownHist

\* A connection that is open after a step was open before it, and the step
\* changed neither its recv list nor its upward histories; ...
UpSame(p) ==
    conn'[p].open =>
        /\ conn[p].open /\ conn'[p].id = conn[p].id /\ conn'[p].buf = conn[p].buf
        /\ buff'[conn[p].buf].rq = buff[conn[p].buf].rq
        /\ sent'[conn[p].id] = sent[conn[p].id] /\ got'[conn[p].id] = got[conn[p].id]
        /\ Handled(p)' = Handled(p)

\* ... neither its send list nor its downward histories.
DownSame(p) ==
    conn'[p].open =>
        /\ conn[p].open /\ conn'[p].id = conn[p].id /\ conn'[p].buf = conn[p].buf
        /\ buff'[conn[p].buf].sq = buff[conn[p].buf].sq
        /\ queued'[conn[p].id] = queued[conn[p].id] /\ wrote'[conn[p].id] = wrote[conn[p].id]

\* Lemma: such a step keeps the two invariants of the connection.
LEMMA SameOK ==
    ASSUME ChanInv, NEW p \in Obj
    PROVE  (UpSame(p) => UpOK(p)') /\ (DownSame(p) => DownOK(p)')
<1>1. UpOK(p) /\ DownOK(p)
  BY DEF ChanInv
<1>2. UpSame(p) => UpOK(p)'
  BY <1>1 DEF UpSame, UpOK
<1>3. DownSame(p) => DownOK(p)'
  BY <1>1 DEF DownSame, DownOK
<1> QED BY <1>2, <1>3

\* Lemma: outside processData nothing is handled and not yet cleared.
LEMMA HandledZero ==
    ASSUME NEW p
    PROVE  /\ pos = 0 => Handled(p) = 0
           /\ pos' = 0 \/ pos' = 1 => Handled(p)' = 0
           /\ p # cur => Handled(p) = 0
           /\ p # cur' => Handled(p)' = 0
<1>1. pos = 0 => Handled(p) = 0
  BY DEF Handled
<1>2. pos' = 0 => Handled(p)' = 0
  BY DEF Handled
<1>3. pos' = 1 => Handled(p)' = 0
  BY DEF Handled
<1>4. p # cur => Handled(p) = 0
  BY DEF Handled
<1>5. p # cur' => Handled(p)' = 0
  BY DEF Handled
<1> QED BY <1>1, <1>2, <1>3, <1>4, <1>5

\* A step that ends the connection of object o, or finds it ended.
Ending(o) ==
    /\ ~conn'[o].open
    /\ \A p \in Obj : p # o => conn'[p] = conn[p]
    /\ \A p \in Obj : p # o /\ conn[p].open => buff'[conn[p].buf] = buff[conn[p].buf]

\* Lemma: force_close of an open connection.
LEMMA CloseEnding ==
    ASSUME ServeInv, NEW o \in Obj, conn[o].open, NEW c,
           c \in {conn[o], [conn[o] EXCEPT !.rd = "none"], [conn[o] EXCEPT !.wr = FALSE]},
           ForceClose(o, c, posted), UNCHANGED pool
    PROVE  Ending(o)
<1>1. TypeInv /\ PoolsKept /\ LifeOK /\ BuffersOK
  BY DEF ServeInv, LifeInv
<1>2. /\ ~conn'[o].open /\ \A p \in Obj : p # o => conn'[p] = conn[p]
      /\ \A b \in Buf : b # conn[o].buf => buff'[b] = buff[b]
  BY <1>1, ForceCloseBuff
<1>3. ASSUME NEW p \in Obj, p # o, conn[p].open PROVE buff'[conn[p].buf] = buff[conn[p].buf]
  <2>1. conn[p].buf \in Buf /\ conn[p].buf # conn[o].buf
    BY <1>3, OpenIs
  <2> QED BY <1>2, <2>1
<1> QED BY <1>2, <1>3 DEF Ending

\* Lemma: an application call that closes, or finds closed.
LEMMA KickEnding ==
    ASSUME ServeInv, phase = "run", NEW d \in Obj, Kick(d), UNCHANGED pool
    PROVE  Ending(d)
<1>1. TypeInv /\ PoolsKept /\ LifeOK /\ Live(d) /\ ForceClose(d, conn[d], posted)
  BY DEF ServeInv, LifeInv, Kick
<1>2. d \in Served
  BY <1>1, LiveServed
<1>3. CASE conn[d].st = "DISCONNECTED"
  <2>1. UNCHANGED <<conn, buff>> /\ ~conn[d].open
    BY <1>1, <1>3 DEF ForceClose, LifeOK, Life
  <2> QED BY <2>1 DEF Ending
<1>4. CASE conn[d].st # "DISCONNECTED"
  BY <1>1, <1>2, <1>4, RunOpen, CloseEnding
<1> QED BY <1>3, <1>4

\* Lemma: the steps of which one connection does not survive.
LEMMA EndingSteps ==
    ASSUME ServeInv,
           \/ VisitDead \/ VisitTimeout \/ RunPosted
           \/ \E o \in Obj : ReadAck(o) \/ ReadErr(o) \/ WriteErr(o)
    PROVE  /\ \E o \in Obj : Ending(o)
           /\ UNCHANGED <<sent, got, queued, wrote>> /\ pos = 0 /\ pos' = 0
<1>0. TypeInv /\ PoolsKept /\ LifeOK /\ BuffersOK
  BY DEF ServeInv, LifeInv
<1>1. CASE VisitDead
  <2>1. PICK o \in Obj : o = cur
    BY <1>0, <1>1, DeadShape
  <2>2. /\ o \in Served /\ conn[o].st = "DISCONNECTED" /\ conn[o].buf \in Buf
        /\ conn' = [conn EXCEPT ![o].st = "NOT_CONNECT"]
        /\ buff' = [buff EXCEPT ![conn[o].buf] = NoBytes]
        /\ UNCHANGED <<pos, sent, got, queued, wrote>>
    BY <1>0, <1>1, <2>1, DeadShape DEF hist
  <2>3. conn \in [Obj -> Conn] /\ buff \in [Buf -> [rq : Seq(UpMsg), sq : Seq(Packet)]] /\ conn[o] \in Conn
    BY <1>0, ConnTypes DEF TypeInv, Types
  <2>4. conn'[o].open = conn[o].open /\ \A p \in Obj : p # o => conn'[p] = conn[p]
    BY <2>2, <2>3 DEF Conn
  <2>5. ~conn[o].open
    BY <1>0, <2>2 DEF LifeOK, Life
  <2>6. \A p \in Obj : p # o /\ conn[p].open => conn[p].buf \in Buf /\ conn[p].buf # conn[o].buf
    BY <2>2, OpenIs
  <2>7. \A p \in Obj : p # o /\ conn[p].open => buff'[conn[p].buf] = buff[conn[p].buf]
    BY <2>2, <2>3, <2>6
  <2>8. pos = 0
    BY <1>1 DEF VisitDead, StartVisit
  <2> QED BY <2>2, <2>4, <2>5, <2>7, <2>8 DEF Ending
<1>2. CASE VisitTimeout
  <2>0. todo \in Seq(Obj) /\ todo # <<>> /\ pos = 0 /\ UNCHANGED <<pos, sent, got, queued, wrote, pool>>
    BY <1>0, <1>2 DEF VisitTimeout, StartVisit, TypeInv, Types
  <2>1. PICK o \in Obj : o = cur
    BY <2>0, TailRange DEF cur
  <2>2. conn[o].st = "DISCONNECTING" /\ ForceClose(o, conn[o], posted)
    BY <1>2, <2>1 DEF VisitTimeout, StartVisit
  <2>3. conn[o].open
    BY <1>0, <2>2 DEF LifeOK, Life
  <2> QED BY <2>0, <2>2, <2>3, CloseEnding
<1>3. ~(phase = "run") => pos = 0
  BY <1>0 DEF TypeInv, Types, Ids
<1>4. CASE RunPosted
  <2>0. pos = 0 /\ UNCHANGED <<pos, sent, got, queued, wrote>>
    BY <1>3, <1>4 DEF RunPosted
  <2>1. PICK o \in Obj :
              /\ o \in Pending /\ conn[o].id # 0 /\ ~conn[o].open
              /\ \/ UNCHANGED <<conn, buff, events>>
                 \/ /\ conn' = [conn EXCEPT ![o] = Closed(conn[o])]
                    /\ buff' = [buff EXCEPT ![conn[o].buf] = NoBytes]
    BY <1>0, <1>4, RunPostedShape
  <2>2. /\ conn \in [Obj -> Conn] /\ buff \in [Buf -> [rq : Seq(UpMsg), sq : Seq(Packet)]]
        /\ conn[o] \in Conn /\ conn[o].buf \in Buf
    BY <1>0, <2>1, ConnTypes DEF TypeInv, Types
  <2>3. CASE UNCHANGED <<conn, buff, events>>
    BY <2>0, <2>1, <2>3 DEF Ending
  <2>4. CASE /\ conn' = [conn EXCEPT ![o] = Closed(conn[o])]
             /\ buff' = [buff EXCEPT ![conn[o].buf] = NoBytes]
    <3>1. ~Closed(conn[o]).open
      BY <2>2 DEF Closed, Conn
    <3>2. conn'[o] = Closed(conn[o]) /\ \A p \in Obj : p # o => conn'[p] = conn[p]
      BY <2>2, <2>4
    <3>3. o \notin Served => conn[o].buf \in Range(freeBufs)
      BY <1>0, <2>1 DEF BuffersOK
    <3>4. \A p \in Obj : p # o /\ conn[p].open => conn[p].buf \in Buf /\ conn[p].buf # conn[o].buf
      BY <3>3, OpenIs
    <3>5. \A p \in Obj : p # o /\ conn[p].open => buff'[conn[p].buf] = buff[conn[p].buf]
      BY <2>2, <2>4, <3>4
    <3> QED BY <2>0, <3>1, <3>2, <3>5 DEF Ending
  <2> QED BY <2>1, <2>3, <2>4
<1>5. ASSUME NEW o \in Obj, ReadErr(o) \/ WriteErr(o)
      PROVE  Ending(o) /\ UNCHANGED <<sent, got, queued, wrote>> /\ pos = 0 /\ pos' = 0
  <2>1. /\ conn[o].open /\ UNCHANGED <<pos, pool, sent, got, queued, wrote>> /\ pos = 0
        /\ \E c \in {conn[o], [conn[o] EXCEPT !.rd = "none"], [conn[o] EXCEPT !.wr = FALSE]} : ForceClose(o, c, posted)
    BY <1>3, <1>5 DEF ReadErr, WriteErr, Reactor
  <2> QED BY <2>1, CloseEnding
<1>6. ASSUME NEW o \in Obj, ReadAck(o)
      PROVE  Ending(o) /\ UNCHANGED <<sent, got, queued, wrote>> /\ pos = 0 /\ pos' = 0
  <2>1. conn[o].open /\ UNCHANGED <<pos, sent, got, queued, wrote>> /\ pos = 0
    BY <1>3, <1>6 DEF ReadAck, ReadingAck, Reading, Reactor
  <2>2. /\ conn \in [Obj -> Conn] /\ buff \in [Buf -> [rq : Seq(UpMsg), sq : Seq(Packet)]]
        /\ conn[o] \in Conn /\ conn[o].id # 0 /\ conn[o].buf \in Buf /\ posted \in Seq(Entry)
    BY <1>0, <2>1, ConnTypes DEF TypeInv, Types
  <2> DEFINE c == [Closed(conn[o]) EXCEPT !.st = "CONNECTED"]
  <2>3. conn' = [conn EXCEPT ![o] = c] /\ buff' = [buff EXCEPT ![conn[o].buf] = NoBytes]
    BY <1>6, <2>2, ReadAckShape
  <2>4. ~c.open
    BY <2>2 DEF Closed, Conn
  <2> HIDE DEF c
  <2>5. conn'[o] = c /\ \A p \in Obj : p # o => conn'[p] = conn[p]
    BY <2>2, <2>3
  <2>6. \A p \in Obj : p # o /\ conn[p].open => conn[p].buf \in Buf /\ conn[p].buf # conn[o].buf
    BY <2>1, OpenIs
  <2>7. \A p \in Obj : p # o /\ conn[p].open => buff'[conn[p].buf] = buff[conn[p].buf]
    BY <2>2, <2>3, <2>6
  <2> QED BY <2>1, <2>4, <2>5, <2>7 DEF Ending
<1> QED BY <1>1, <1>2, <1>4, <1>5, <1>6

\* Lemma: the send list when a message or a control packet is put at its end.
LEMMA WaitingAppend ==
    ASSUME NEW i \in Id, NEW s \in Seq(Packet), NEW w \in Nat, NEW q \in Nat, Waiting(i, s, w, q)
    PROVE  /\ Data(i, q + 1) \in Packet => Waiting(i, Append(s, Data(i, q + 1)), w, q + 1)
           /\ \A m \in {Disc, Ack} : Waiting(i, Append(s, m), w, q)
<1>0. Len(s) \in Nat /\ i # 0
  BY LenProperties DEF Id
<1>1. /\ w <= q
      /\ \A k \in 1..Len(s) : IsData(s[k]) => s[k][1] = i /\ s[k][2] \in (w + 1)..q
      /\ \A j, k \in 1..Len(s) : j < k /\ IsData(s[j]) /\ IsData(s[k]) => s[j][2] < s[k][2]
      /\ \A n \in (w + 1)..q : \E k \in 1..Len(s) : s[k] = Data(i, n)
  BY DEF Waiting
<1>2. ASSUME NEW m \in Packet
      PROVE  /\ Len(Append(s, m)) = Len(s) + 1 /\ Append(s, m)[Len(s) + 1] = m
             /\ \A k \in 1..Len(s) : Append(s, m)[k] = s[k]
  BY AppendProperties
<1>3. ASSUME Data(i, q + 1) \in Packet
      PROVE  Waiting(i, Append(s, Data(i, q + 1)), w, q + 1)
  <2> DEFINE t == Append(s, Data(i, q + 1))
  <2>1. /\ Len(t) = Len(s) + 1 /\ t[Len(s) + 1] = Data(i, q + 1)
        /\ \A k \in 1..Len(s) : t[k] = s[k]
    BY <1>2, <1>3
  <2> HIDE DEF t
  <2>2. Data(i, q + 1)[1] = i /\ Data(i, q + 1)[2] = q + 1
    BY DEF Data
  <2>3. \A k \in 1..Len(t) : (k \in 1..Len(s) /\ t[k] = s[k]) \/ (k = Len(s) + 1 /\ t[k] = Data(i, q + 1))
    BY <1>0, <2>1
  <2>4. \A k \in 1..Len(t) : IsData(t[k]) => t[k][1] = i /\ t[k][2] \in (w + 1)..(q + 1)
    <3> SUFFICES ASSUME NEW k \in 1..Len(t), IsData(t[k])
                 PROVE  t[k][1] = i /\ t[k][2] \in (w + 1)..(q + 1)
      OBVIOUS
    <3>1. CASE k \in 1..Len(s) /\ t[k] = s[k]
      <4>1. s[k][1] = i /\ s[k][2] \in (w + 1)..q
        BY <1>1, <3>1
      <4> QED BY <3>1, <4>1
    <3>2. CASE t[k] = Data(i, q + 1)
      BY <1>1, <2>2, <3>2
    <3> QED BY <2>3, <3>1, <3>2
  <2>5. ASSUME NEW j \in 1..Len(t), NEW k \in 1..Len(t), j < k, IsData(t[j]), IsData(t[k])
        PROVE  t[j][2] < t[k][2]
    <3>1. j \in 1..Len(s) /\ t[j] = s[j]
      BY <1>0, <2>1, <2>3, <2>5
    <3>2. s[j][2] \in (w + 1)..q
      BY <1>1, <2>5, <3>1
    <3>3. CASE k \in 1..Len(s) /\ t[k] = s[k]
      BY <1>1, <2>5, <3>1, <3>3
    <3>4. CASE t[k] = Data(i, q + 1)
      BY <2>2, <3>1, <3>2, <3>4
    <3> QED BY <2>3, <3>3, <3>4
  <2>6. ASSUME NEW n \in (w + 1)..(q + 1)
        PROVE  \E k \in 1..Len(t) : t[k] = Data(i, n)
    <3>1. CASE n \in (w + 1)..q
      <4>1. PICK k \in 1..Len(s) : s[k] = Data(i, n)
        BY <1>1, <3>1
      <4>2. k \in 1..Len(t) /\ t[k] = Data(i, n)
        BY <1>0, <2>1, <4>1
      <4> QED BY <4>2
    <3>2. CASE n = q + 1
      <4>1. Len(s) + 1 \in 1..Len(t) /\ t[Len(s) + 1] = Data(i, n)
        BY <1>0, <2>1, <3>2
      <4> QED BY <4>1
    <3> QED BY <3>1, <3>2
  <2>7. w <= q + 1
    BY <1>1
  <2>8. Waiting(i, t, w, q + 1)
    BY <2>4, <2>5, <2>6, <2>7 DEF Waiting
  <2> QED BY <2>8 DEF t
<1>4. ASSUME NEW m \in {Disc, Ack}
      PROVE  Waiting(i, Append(s, m), w, q)
  <2> DEFINE t == Append(s, m)
  <2>1. /\ Len(t) = Len(s) + 1 /\ t[Len(s) + 1] = m
        /\ \A k \in 1..Len(s) : t[k] = s[k]
    BY <1>2 DEF Packet
  <2>2. ~IsData(m)
    BY <1>4 DEF IsData, Disc, Ack
  <2> HIDE DEF t
  <2>3. \A k \in 1..Len(t) : IsData(t[k]) => k \in 1..Len(s) /\ t[k] = s[k]
    BY <1>0, <2>1, <2>2
  <2>4. \A k \in 1..Len(t) : IsData(t[k]) => t[k][1] = i /\ t[k][2] \in (w + 1)..q
    BY <1>1, <2>3
  <2>5. \A j, k \in 1..Len(t) : j < k /\ IsData(t[j]) /\ IsData(t[k]) => t[j][2] < t[k][2]
    BY <1>1, <2>3
  <2>6. \A k \in 1..Len(s) : k \in 1..Len(t)
    BY <1>0, <2>1
  <2>7. \A n \in (w + 1)..q : \E k \in 1..Len(t) : t[k] = Data(i, n)
    BY <1>1, <2>1, <2>6
  <2>8. Waiting(i, t, w, q)
    BY <1>1, <2>4, <2>5, <2>7 DEF Waiting
  <2> QED BY <2>8 DEF t
<1> QED BY <1>3, <1>4

\* Lemma: the send list when its first element has been written.
LEMMA WaitingTail ==
    ASSUME NEW i \in Id, NEW s \in Seq(Packet), s # <<>>, NEW w \in Nat, NEW q \in Nat, Waiting(i, s, w, q)
    PROVE  /\ IsData(Head(s)) /\ Head(s) = Data(i, w + 1) /\ w < q => Waiting(i, Tail(s), w + 1, q)
           /\ ~IsData(Head(s)) => Waiting(i, Tail(s), w, q)
<1> DEFINE t == Tail(s)
<1>1. /\ w <= q
      /\ \A k \in 1..Len(s) : IsData(s[k]) => s[k][1] = i /\ s[k][2] \in (w + 1)..q
      /\ \A j, k \in 1..Len(s) : j < k /\ IsData(s[j]) /\ IsData(s[k]) => s[j][2] < s[k][2]
      /\ \A n \in (w + 1)..q : \E k \in 1..Len(s) : s[k] = Data(i, n)
  BY DEF Waiting
<1>2. /\ Len(s) \in Nat \ {0} /\ Head(s) = s[1] /\ Len(t) = Len(s) - 1
      /\ \A k \in 1..Len(t) : t[k] = s[k + 1]
  BY TailRange, HeadTailProperties
<1> HIDE DEF t
<1>3. \A k \in 1..Len(t) : k + 1 \in 1..Len(s) /\ 1 < k + 1 /\ t[k] = s[k + 1]
  BY <1>2
<1>4. ASSUME NEW k \in 1..Len(s)
      PROVE  k = 1 \/ (k - 1 \in 1..Len(t) /\ t[k - 1] = s[k])
  <2>1. k = 1 \/ (k - 1 \in 1..Len(t) /\ (k - 1) + 1 = k)
    BY <1>2
  <2> QED BY <1>2, <2>1
<1>5. \A j, k \in 1..Len(t) : j < k /\ IsData(t[j]) /\ IsData(t[k]) => t[j][2] < t[k][2]
  <2> SUFFICES ASSUME NEW j \in 1..Len(t), NEW k \in 1..Len(t), j < k, IsData(t[j]), IsData(t[k])
               PROVE  t[j][2] < t[k][2]
    OBVIOUS
  <2>1. j + 1 < k + 1
    BY <1>2
  <2> QED BY <1>1, <1>3, <2>1
<1>6. ASSUME IsData(Head(s)), Head(s) = Data(i, w + 1), w < q
      PROVE  Waiting(i, t, w + 1, q)
  <2>0. 1 \in 1..Len(s) /\ s[1] = Data(i, w + 1) /\ s[1][2] = w + 1 /\ IsData(s[1])
    BY <1>2, <1>6 DEF Data
  <2>1. ASSUME NEW k \in 1..Len(t), IsData(t[k])
        PROVE  t[k][1] = i /\ t[k][2] \in ((w + 1) + 1)..q
    <3>1. t[k] = s[k + 1] /\ k + 1 \in 1..Len(s) /\ 1 < k + 1
      BY <1>3
    <3>2. s[k + 1][1] = i /\ s[k + 1][2] \in (w + 1)..q
      BY <1>1, <2>1, <3>1
    <3>3. w + 1 < s[k + 1][2]
      BY <1>1, <2>0, <2>1, <3>1
    <3> QED BY <3>1, <3>2, <3>3
  <2>2. ASSUME NEW n \in ((w + 1) + 1)..q
        PROVE  \E k \in 1..Len(t) : t[k] = Data(i, n)
    <3>1. n \in (w + 1)..q /\ n # w + 1
      BY <2>2
    <3>2. PICK k \in 1..Len(s) : s[k] = Data(i, n)
      BY <1>1, <3>1
    <3>3. k # 1
      BY <2>0, <3>1, <3>2 DEF Data
    <3> QED BY <1>4, <3>2, <3>3
  <2>3. w + 1 <= q
    BY <1>6
  <2> QED BY <1>5, <2>1, <2>2, <2>3 DEF Waiting
<1>7. ASSUME ~IsData(Head(s))
      PROVE  Waiting(i, t, w, q)
  <2>1. \A k \in 1..Len(t) : IsData(t[k]) => t[k][1] = i /\ t[k][2] \in (w + 1)..q
    BY <1>1, <1>3
  <2>2. ASSUME NEW n \in (w + 1)..q
        PROVE  \E k \in 1..Len(t) : t[k] = Data(i, n)
    <3>1. PICK k \in 1..Len(s) : s[k] = Data(i, n)
      BY <1>1
    <3>2. IsData(s[k])
      BY <3>1 DEF Data, IsData, Id
    <3>3. k # 1
      BY <1>2, <1>7, <3>2
    <3> QED BY <1>4, <3>1, <3>3
  <2> QED BY <1>1, <1>5, <2>1, <2>2 DEF Waiting
<1> QED BY <1>6, <1>7 DEF t

\* Lemma: the recv list when the next message has come.
LEMMA ArrivedAppend ==
    ASSUME NEW i \in Id, NEW r \in Seq(UpMsg), NEW n \in Nat, NEW g \in Nat,
           Arrived(i, r, 0, n, g), Data(i, n + 1) \in UpMsg
    PROVE  Arrived(i, Append(r, Data(i, n + 1)), 0, n + 1, g)
<1> DEFINE t == Append(r, Data(i, n + 1))
<1>1. Len(r) \in Nat
  BY LenProperties
<1>2. Len(t) = Len(r) + 1 /\ t[Len(r) + 1] = Data(i, n + 1) /\ \A k \in 1..Len(r) : t[k] = r[k]
  BY AppendProperties
<1>3. n + 0 = g + Len(r) /\ \A k \in 1..Len(r) : r[k] = Data(i, n - Len(r) + k)
  BY DEF Arrived
<1> HIDE DEF t
<1>4. \A k \in 1..Len(t) : k \in 1..Len(r) \/ k = Len(r) + 1
  BY <1>1, <1>2
<1>5. \A k \in 1..Len(r) : (n + 1) - Len(t) + k = n - Len(r) + k
  BY <1>1, <1>2
<1>6. (n + 1) - Len(t) + (Len(r) + 1) = n + 1
  BY <1>1, <1>2
<1>7. \A k \in 1..Len(t) : t[k] = Data(i, (n + 1) - Len(t) + k)
  BY <1>2, <1>3, <1>4, <1>5, <1>6
<1>8. 0 <= Len(t) /\ (n + 1) + 0 = g + Len(t)
  BY <1>1, <1>2, <1>3
<1>9. Arrived(i, t, 0, n + 1, g)
  BY <1>7, <1>8 DEF Arrived
<1> QED BY <1>9 DEF t

\* Lemma: an application call changes no recv list of a connection it leaves
\* open; and, on the other connections, no send list.
LEMMA AppLists ==
    ASSUME ServeInv, phase = "run", NEW d \in Obj, AppOp(d), UNCHANGED pool, NEW p \in Obj, conn'[p].open
    PROVE  /\ conn[p].open /\ conn'[p].id = conn[p].id /\ conn'[p].buf = conn[p].buf
           /\ buff'[conn[p].buf].rq = buff[conn[p].buf].rq
           /\ p # d => buff'[conn[p].buf].sq = buff[conn[p].buf].sq
<1>0. TypeInv /\ PoolsKept /\ LifeOK
  BY DEF ServeInv, LifeInv
<1>1. CASE Kick(d)
  <2>1. Ending(d)
    BY <1>1, KickEnding
  <2> QED BY <2>1 DEF Ending
<1>2. CASE Send(d) \/ Close(d)
  <2>1. conn[d].open
    BY <1>0, <1>2, RunOpen DEF Send, Close
  <2>2. /\ conn \in [Obj -> Conn] /\ buff \in [Buf -> [rq : Seq(UpMsg), sq : Seq(Packet)]]
        /\ conn[d].buf \in Buf /\ conn[d] \in Conn
    BY <1>0, <2>1, OpenIs, ConnTypes DEF TypeInv, Types
  <2>3. PICK m : buff' = [buff EXCEPT ![conn[d].buf].sq = Append(@, m)]
    BY <1>2 DEF Send, Close
  <2>4. /\ \A q \in Obj : q # d => conn'[q] = conn[q]
        /\ conn'[d].open = conn[d].open /\ conn'[d].id = conn[d].id /\ conn'[d].buf = conn[d].buf
    <3>1. CASE Send(d)
      BY <3>1 DEF Send
    <3>2. CASE Close(d)
      BY <2>2, <3>2 DEF Close, Conn
    <3> QED BY <1>2, <3>1, <3>2
  <2>5. /\ \A b \in Buf : b # conn[d].buf => buff'[b] = buff[b]
        /\ buff'[conn[d].buf].rq = buff[conn[d].buf].rq
    BY <2>2, <2>3
  <2>6. CASE p = d
    BY <2>1, <2>4, <2>5, <2>6
  <2>7. CASE p # d
    <3>1. conn'[p] = conn[p] /\ conn[p].open
      BY <2>4, <2>7
    <3>2. conn[p].buf \in Buf /\ conn[p].buf # conn[d].buf
      BY <2>1, <2>7, <3>1, OpenIs
    <3> QED BY <2>5, <3>1, <3>2
  <2> QED BY <2>6, <2>7
<1> QED BY <1>1, <1>2 DEF AppOp

\* Lemma: what the application calls do to the send lists.
LEMMA AppDown ==
    ASSUME ServeInv, ChanInv, phase = "run", NEW d \in Obj, AppOp(d), UNCHANGED <<pool, wrote>>,
           NEW p \in Obj
    PROVE  DownOK(p)'
<1>0. /\ queued \in [Id -> Seq(DownMsg)] /\ buff \in [Buf -> [rq : Seq(UpMsg), sq : Seq(Packet)]]
  BY DEF ServeInv, TypeInv, Types
<1> SUFFICES ASSUME conn'[p].open PROVE DownOK(p)'
  BY DEF DownOK
<1>1. /\ conn[p].open /\ conn'[p].id = conn[p].id /\ conn'[p].buf = conn[p].buf
      /\ p # d => buff'[conn[p].buf].sq = buff[conn[p].buf].sq
  BY AppLists
<1>2. CASE p # d
  <2>1. queued'[conn[p].id] = queued[conn[p].id]
    <3>1. conn[p].id # conn[d].id /\ conn[p].id \in Id
      BY <1>1, <1>2, OpenIs
    <3> QED BY <1>0, <3>1, AppHist
  <2>2. DownSame(p)
    BY <1>1, <1>2, <2>1 DEF DownSame
  <2> QED BY <2>2, SameOK
<1>3. CASE p = d /\ Kick(d)
  BY <1>3, KickEnding DEF Ending
<1>4. CASE p = d /\ (Send(d) \/ Close(d))
  <2> DEFINE i == conn[d].id
             s == buff[conn[d].buf].sq
  <2>1. /\ i \in Id /\ conn[d].buf \in Buf /\ s \in Seq(Packet)
        /\ Len(wrote[i]) \in Nat /\ Len(queued[i]) \in Nat /\ queued[i] \in Seq(DownMsg)
    BY <1>1, <1>4, OpenIs, ChanTypes
  <2>2. Waiting(i, s, Len(wrote[i]), Len(queued[i]))
    BY <1>1, <1>4 DEF ChanInv, DownOK
  <2>3. CASE Send(d)
    <3>1. /\ Data(i, Len(queued[i]) + 1) \in DownMsg
          /\ queued'[i] = Append(queued[i], Data(i, Len(queued[i]) + 1))
      <4>1. queued' = [queued EXCEPT ![i] = Append(@, Data(i, Len(queued[i]) + 1))]
        BY <2>3 DEF Send
      <4>2. Len(queued[i]) + 1 \in 1..MaxDown
        BY <2>1, <2>3, TcpConstants, SMTT(30) DEF Send
      <4> QED BY <1>0, <2>1, <4>1, <4>2 DEF Data, DownMsg
    <3>2. buff'[conn[d].buf].sq = Append(s, Data(i, Len(queued[i]) + 1))
      BY <1>0, <2>1, <2>3 DEF Send
    <3> HIDE DEF i, s
    <3>3. Len(queued'[i]) = Len(queued[i]) + 1
      BY <2>1, <3>1, AppendProperties
    <3>4. Waiting(i, Append(s, Data(i, Len(queued[i]) + 1)), Len(wrote[i]), Len(queued[i]) + 1)
      BY <2>1, <2>2, <3>1, WaitingAppend DEF Packet
    <3> QED BY <1>1, <1>4, <3>2, <3>3, <3>4 DEF DownOK, i, s
  <2>4. CASE Close(d)
    <3>1. buff'[conn[d].buf].sq = Append(s, Disc) /\ queued' = queued
      BY <1>0, <2>1, <2>4 DEF Close
    <3> HIDE DEF i, s
    <3>2. Waiting(i, Append(s, Disc), Len(wrote[i]), Len(queued[i]))
      BY <2>1, <2>2, WaitingAppend
    <3> QED BY <1>1, <1>4, <3>1, <3>2 DEF DownOK, i, s
  <2> QED BY <1>4, <2>3, <2>4
<1> QED BY <1>2, <1>3, <1>4 DEF AppOp

\* Lemma: the steps that end a connection keep the others.
LEMMA EndingSame ==
    ASSUME ServeInv, NEW o \in Obj, Ending(o), UNCHANGED <<sent, got, queued, wrote>>, pos = 0, pos' = 0,
           NEW p \in Obj
    PROVE  UpSame(p) /\ DownSame(p)
<1>1. Handled(p) = 0 /\ Handled(p)' = 0
  BY HandledZero
<1> QED BY <1>1 DEF Ending, UpSame, DownSame

\* Lemma: the steps that change no list and no history.
LEMMA QuietSame ==
    ASSUME ServeInv, EndRun \/ EndPoll \/ VisitIdle \/ VisitConnected \/ UNCHANGED vars, NEW p \in Obj
    PROVE  UpSame(p) /\ DownSame(p)
<1>1. UNCHANGED <<conn, buff, sent, got, queued, wrote>>
  BY DEF EndRun, EndPoll, VisitIdle, VisitConnected, vars, hist
<1>2. Handled(p)' = Handled(p)
  <2>1. CASE UNCHANGED vars
    BY <2>1 DEF vars, Handled, cur
  <2>2. CASE EndRun \/ EndPoll \/ VisitIdle \/ VisitConnected
    <3>1. pos = 0 /\ (pos' = 0 \/ pos' = 1)
      BY <2>2 DEF EndRun, EndPoll, VisitIdle, VisitConnected, StartVisit, ServeInv, TypeInv, Types, Ids
    <3> QED BY <3>1, HandledZero
  <2> QED BY <2>1, <2>2
<1> QED BY <1>1, <1>2 DEF UpSame, DownSame

\* Lemma: a new connection starts with empty lists and histories.
LEMMA AcceptChan ==
    ASSUME ServeInv, ChanInv, Accept, NEW p \in Obj
    PROVE  UpOK(p)' /\ DownOK(p)'
<1>0. TypeInv /\ PoolsKept /\ LifeOK /\ BuffersOK /\ conn \in [Obj -> Conn]
  BY DEF ServeInv, LifeInv, TypeInv, Types
<1>1. PICK o \in Obj, b \in Buf, c \in Conn :
              /\ currId + 1 \in Id /\ currId \in Nat /\ b \in Range(freeBufs)
              /\ c.id = currId + 1 /\ c.buf = b
              /\ conn' = [conn EXCEPT ![o] = c]
              /\ Welcomed(o, c) \/ Refused(o, c)
              /\ phase = "poll" /\ UNCHANGED <<phase, todo, pos, sent, got, queued, wrote>>
  BY <1>0, AcceptShape
<1>2. phase = "poll" /\ pos = 0 /\ pos' = 0 /\ UNCHANGED <<buff, sent, got, queued, wrote>>
  <2>1. buff[b] = NoBytes /\ buff \in [Buf -> [rq : Seq(UpMsg), sq : Seq(Packet)]]
    BY <1>0, <1>1 DEF BuffersOK, TypeInv, Types
  <2>2. buff' = buff
    BY <1>1, <2>1 DEF Welcomed, Refused
  <2> QED BY <1>0, <1>1, <2>2 DEF TypeInv, Types, Ids
<1>3. Handled(p) = 0 /\ Handled(p)' = 0
  BY <1>2, HandledZero
<1>4. CASE p # o
  <2>1. conn'[p] = conn[p]
    BY <1>0, <1>1, <1>4
  <2>2. UpSame(p) /\ DownSame(p)
    BY <1>2, <1>3, <2>1 DEF UpSame, DownSame
  <2> QED BY <2>2, SameOK
<1>5. CASE p = o
  <2>1. conn'[p].id = currId + 1 /\ conn'[p].buf = b
    BY <1>0, <1>1, <1>5
  <2>2. buff'[b].rq = <<>> /\ buff'[b].sq = <<>>
    BY <1>0, <1>1, <1>2 DEF BuffersOK, NoBytes
  <2>3. currId + 1 > currId
    BY <1>1
  <2>4. /\ sent'[currId + 1] = <<>> /\ got'[currId + 1] = <<>>
        /\ queued'[currId + 1] = <<>> /\ wrote'[currId + 1] = <<>>
    BY <1>1, <1>2, <2>3 DEF ChanInv, Numbered
  <2>5. Len(<<>>) = 0
    OBVIOUS
  <2>6. Arrived(currId + 1, <<>>, 0, 0, 0) /\ Waiting(currId + 1, <<>>, 0, 0)
    BY <2>5 DEF Arrived, Waiting
  <2>7. UpOK(p)'
    BY <1>3, <2>1, <2>2, <2>4, <2>5, <2>6 DEF UpOK
  <2>8. DownOK(p)'
    BY <2>1, <2>2, <2>4, <2>5, <2>6 DEF DownOK
  <2> QED BY <2>7, <2>8
<1> QED BY <1>4, <1>5

\* Lemma: the handling of a recv list.
LEMMA VisitChan ==
    ASSUME ServeInv, ChanInv, Deliver \/ DeliverFail \/ DeliverEnd, NEW p \in Obj
    PROVE  UpOK(p)' /\ DownOK(p)'
<1>0. pos > 0 /\ pos \in Nat /\ got \in [Id -> Seq(UpMsg)]
  BY DEF Deliver, DeliverFail, DeliverEnd, Handling, ServeInv, TypeInv, Types
<1>1. PICK o \in Obj : o = cur
  BY <1>0, CurOpen
<1>2. conn[o].open /\ phase = "run" /\ Handled(o) = pos - 1
  BY <1>0, <1>1, CurOpen DEF Handled
<1>3. p # o /\ conn[p].open => conn[p].id # conn[o].id /\ conn[p].id \in Id /\ conn[p].buf \in Buf
                             /\ conn[p].buf # conn[o].buf
  BY <1>2, OpenIs
<1>4. CASE DeliverFail
  <2>1. /\ HandOver /\ pos' = 0 /\ ForceClose(o, conn[o], posted)
        /\ UNCHANGED <<pool, sent, queued, wrote>>
    BY <1>1, <1>4 DEF DeliverFail
  <2>2. Ending(o)
    BY <1>2, <2>1, CloseEnding
  <2>3. p # o => Handled(p) = 0 /\ Handled(p)' = 0
    BY <1>1, <2>1, HandledZero
  <2>4. p # o /\ conn[p].open => got'[conn[p].id] = got[conn[p].id]
    BY <1>0, <1>1, <1>3, <2>1 DEF HandOver
  <2>5. UpSame(p) /\ DownSame(p)
    BY <2>1, <2>2, <2>3, <2>4 DEF Ending, UpSame, DownSame
  <2> QED BY <2>5, SameOK
<1>5. CASE DeliverEnd
  <2>1. PICK q \in Obj : /\ q = cur /\ pos > Len(buff[conn[q].buf].rq)
                         /\ \E c \in Conn : /\ conn' = [conn EXCEPT ![q] = c]
                                            /\ c.buf = conn[q].buf /\ c.id = conn[q].id
                         /\ buff' = [buff EXCEPT ![conn[q].buf].rq = <<>>]
                         /\ pos' = 0 /\ UNCHANGED hist
    BY <1>5, DeliverEndShape DEF ServeInv
  <2>2. /\ conn \in [Obj -> Conn] /\ buff \in [Buf -> [rq : Seq(UpMsg), sq : Seq(Packet)]]
        /\ conn[o].buf \in Buf /\ conn[o].id \in Id
    BY <1>2, OpenIs DEF ServeInv, TypeInv, Types
  <2>3. /\ conn'[o].buf = conn[o].buf /\ conn'[o].id = conn[o].id
        /\ \A x \in Obj : x # o => conn'[x] = conn[x]
    BY <1>1, <2>1, <2>2
  <2>4. /\ buff'[conn[o].buf].rq = <<>> /\ buff'[conn[o].buf].sq = buff[conn[o].buf].sq
        /\ \A b \in Buf : b # conn[o].buf => buff'[b] = buff[b]
    BY <1>1, <2>1, <2>2
  <2>5. UNCHANGED <<sent, got, queued, wrote>> /\ Handled(p)' = 0
    BY <2>1, HandledZero DEF hist
  <2>6. CASE p # o
    <3>1. Handled(p) = 0
      BY <1>1, <2>6, HandledZero
    <3>2. UpSame(p) /\ DownSame(p)
      BY <1>3, <2>3, <2>4, <2>5, <2>6, <3>1 DEF UpSame, DownSame
    <3> QED BY <3>2, SameOK
  <2>7. CASE p = o
    <3>1. DownSame(p)
      BY <1>2, <2>3, <2>4, <2>5, <2>7 DEF DownSame
    <3>2. /\ Len(buff[conn[o].buf].rq) \in Nat /\ Len(sent[conn[o].id]) \in Nat /\ Len(got[conn[o].id]) \in Nat
      BY <1>2, ChanTypes
    <3>3. /\ pos - 1 <= Len(buff[conn[o].buf].rq)
          /\ Len(sent[conn[o].id]) + (pos - 1) = Len(got[conn[o].id]) + Len(buff[conn[o].buf].rq)
      BY <1>2 DEF ChanInv, UpOK, Arrived
    <3>4. pos > Len(buff[conn[o].buf].rq)
      BY <1>1, <2>1
    <3>5. Len(sent[conn[o].id]) = Len(got[conn[o].id])
      <4>1. ASSUME NEW a \in Nat, NEW b \in Nat, NEW c \in Nat, NEW x \in Nat,
                   x - 1 <= c, a + (x - 1) = b + c, x > c
            PROVE  a = b
        BY <4>1
      <4> QED BY <1>0, <3>2, <3>3, <3>4, <4>1
    <3>6. Arrived(conn[o].id, <<>>, 0, Len(sent[conn[o].id]), Len(got[conn[o].id]))
      BY <3>2, <3>5 DEF Arrived
    <3>7. UpOK(p)'
      BY <2>3, <2>4, <2>5, <2>7, <3>6 DEF UpOK
    <3> QED BY <3>1, <3>7, SameOK
  <2> QED BY <2>6, <2>7
<1>6. CASE Deliver
  <2>1. /\ Handling /\ HandOver /\ pos' = pos + 1
        /\ UNCHANGED <<pool, sent, wrote, todo, conn, buff, posted, events, queued>>
    BY <1>6 DEF Deliver
  <2>2. DownOK(p)'
    <3>1. DownSame(p)
      BY <2>1 DEF DownSame
    <3> QED BY <3>1, SameOK
  <2>3. conn'[p].open => /\ conn[p].open /\ conn'[p].id = conn[p].id /\ conn'[p].buf = conn[p].buf
                         /\ buff'[conn[p].buf].rq = buff[conn[p].buf].rq
    BY <2>1
  <2>4. cur' = cur
    BY <2>1 DEF cur
  <2>5. /\ got' = [got EXCEPT ![conn[o].id] = Append(@, Data(conn[o].id, Len(got[conn[o].id]) + 1))]
        /\ pos \in 1..Len(buff[conn[o].buf].rq) /\ Len(got[conn[o].id]) < Len(sent[conn[o].id])
        /\ sent[conn[o].id][Len(got[conn[o].id]) + 1] = Data(conn[o].id, Len(got[conn[o].id]) + 1)
    BY <1>1, <2>1, HandedOver
  <2>6. CASE p # o
    <3>1. Handled(p) = 0 /\ Handled(p)' = 0
      BY <1>1, <2>4, <2>6, HandledZero
    <3>2. conn[p].open => got'[conn[p].id] = got[conn[p].id]
      BY <1>0, <1>3, <2>5, <2>6
    <3>3. UpSame(p)
      BY <2>1, <2>3, <3>1, <3>2 DEF UpSame
    <3> QED BY <2>2, <3>3, SameOK
  <2>7. CASE p = o
    <3> DEFINE i == conn[o].id
               r == buff[conn[o].buf].rq
    <3>1. /\ Len(r) \in Nat /\ Len(sent[i]) \in Nat /\ Len(got[i]) \in Nat /\ i \in Id
          /\ got[i] \in Seq(UpMsg) /\ sent[i] \in Seq(UpMsg)
      BY <1>2, ChanTypes, OpenIs
    <3>2. Arrived(i, r, pos - 1, Len(sent[i]), Len(got[i]))
      BY <1>2 DEF ChanInv, UpOK
    <3>3. Handled(o)' = pos
      <4>1. pos' > 0 /\ pos' - 1 = pos
        BY <1>0, <2>1
      <4> QED BY <1>1, <2>4, <4>1 DEF Handled
    <3> HIDE DEF i, r
    <3>4. Len(got'[i]) = Len(got[i]) + 1
      <4>1. Len(got[i]) + 1 \in 1..Len(sent[i])
        BY <2>5, <3>1 DEF i
      <4>2. Data(i, Len(got[i]) + 1) \in UpMsg
        BY <2>5, <3>1, <4>1, ElementOfSeq DEF i
      <4>3. got'[i] = Append(got[i], Data(i, Len(got[i]) + 1))
        BY <1>0, <2>5, <3>1 DEF i
      <4> QED BY <3>1, <4>2, <4>3, AppendProperties
    <3>5. pos <= Len(r) /\ Len(sent[i]) + pos = (Len(got[i]) + 1) + Len(r)
      <4>1. Len(sent[i]) + (pos - 1) = Len(got[i]) + Len(r)
        BY <3>2 DEF Arrived
      <4>2. pos <= Len(r)
        BY <2>5 DEF r
      <4> QED BY <1>0, <3>1, <4>1, <4>2
    <3>6. Arrived(i, r, pos, Len(sent[i]), Len(got[i]) + 1)
      BY <3>2, <3>5 DEF Arrived
    <3>7. UpOK(p)'
      BY <2>1, <2>3, <2>7, <3>3, <3>4, <3>6 DEF UpOK, i, r
    <3> QED BY <2>2, <3>7
  <2> QED BY <2>6, <2>7
<1> QED BY <1>4, <1>5, <1>6

\* Lemma: the completions that leave the connection open.
LEMMA ReadWriteChan ==
    ASSUME ServeInv, ChanInv, NEW o \in Obj,
           ReadHead(o) \/ ReadBody(o) \/ ReadDisc(o) \/ ReadStrayAck(o) \/ WriteAll(o) \/ WritePart(o),
           NEW p \in Obj
    PROVE  UpOK(p)' /\ DownOK(p)'
<1>0. /\ TypeInv /\ LifeOK /\ BuffersOK /\ buff \in [Buf -> [rq : Seq(UpMsg), sq : Seq(Packet)]]
      /\ sent \in [Id -> Seq(UpMsg)] /\ wrote \in [Id -> Seq(DownMsg)]
  BY DEF ServeInv, LifeInv, TypeInv, Types
<1>1. /\ conn[o].open /\ o \in Served /\ conn[o].id \in Id /\ conn[o].buf \in Buf
      /\ \A x \in Obj : x # o => conn'[x] = conn[x]
      /\ \A b \in Buf : b # conn[o].buf => buff'[b] = buff[b]
      /\ conn'[o].buf = conn[o].buf /\ conn'[o].id = conn[o].id
      /\ UNCHANGED <<phase, todo, pos, pool, posted, currId, got, queued, events>>
  BY <1>0, ReadWriteShape
<1>2. phase = "poll"
  BY DEF ReadHead, ReadBody, ReadDisc, ReadStrayAck, ReadingAck, Reading, WriteAll, WritePart, Reactor
<1>3. pos = 0 /\ pos' = 0
  BY <1>0, <1>1, <1>2 DEF TypeInv, Types, Ids
<1>4. Handled(p) = 0 /\ Handled(p)' = 0
  BY <1>3, HandledZero
<1>5. /\ \A i \in Id : i # conn[o].id => sent'[i] = sent[i] /\ wrote'[i] = wrote[i]
      /\ ReadBody(o) \/ sent' = sent
      /\ WriteAll(o) \/ wrote' = wrote
  BY <1>0 DEF ReadHead, ReadBody, ReadDisc, ReadStrayAck, WriteAll, WritePart, hist
<1>6. CASE p # o
  <2>1. conn[p].open => conn[p].id # conn[o].id /\ conn[p].id \in Id /\ conn[p].buf \in Buf
                        /\ conn[p].buf # conn[o].buf
    BY <1>1, <1>6, OpenIs
  <2>2. UpSame(p) /\ DownSame(p)
    BY <1>1, <1>4, <1>5, <1>6, <2>1 DEF UpSame, DownSame
  <2> QED BY <2>2, SameOK
<1>7. CASE p = o
  <2> DEFINE i == conn[o].id
             r == buff[conn[o].buf].rq
             s == buff[conn[o].buf].sq
  <2>1. /\ Len(r) \in Nat /\ Len(sent[i]) \in Nat /\ Len(got[i]) \in Nat /\ i \in Id
        /\ sent[i] \in Seq(UpMsg) /\ r \in Seq(UpMsg) /\ s \in Seq(Packet)
        /\ Len(wrote[i]) \in Nat /\ Len(queued[i]) \in Nat
        /\ wrote[i] \in Seq(DownMsg) /\ queued[i] \in Seq(DownMsg)
    BY <1>1, ChanTypes
  <2>2. /\ Arrived(i, r, 0, Len(sent[i]), Len(got[i]))
        /\ Waiting(i, s, Len(wrote[i]), Len(queued[i]))
    <3>1. Handled(o) = 0
      BY <1>4, <1>7
    <3> QED BY <1>1, <3>1 DEF ChanInv, UpOK, DownOK
  <2>3. UpOK(p)'
    <3>1. CASE ReadBody(o)
      <4>1. /\ sent' = [sent EXCEPT ![i] = Append(@, Data(i, Len(sent[i]) + 1))]
            /\ buff' = [buff EXCEPT ![conn[o].buf].rq = Append(@, Data(i, Len(sent[i]) + 1))]
            /\ Len(sent[i]) < MaxUp
        BY <1>0, <3>1 DEF ReadBody, Reading, TypeInv, Ids
      <4>2. Len(sent[i]) + 1 \in 1..MaxUp
        BY <2>1, <4>1, TcpConstants, SMTT(30)
      <4>3. Data(i, Len(sent[i]) + 1) \in UpMsg
        BY <2>1, <4>2 DEF Data, UpMsg
      <4>4. sent'[i] = Append(sent[i], Data(i, Len(sent[i]) + 1))
        BY <1>0, <2>1, <4>1
      <4>5. buff'[conn[o].buf].rq = Append(r, Data(i, Len(sent[i]) + 1))
        BY <1>0, <1>1, <4>1
      <4> HIDE DEF i, r, s
      <4>6. Len(sent'[i]) = Len(sent[i]) + 1
        BY <2>1, <4>3, <4>4, AppendProperties
      <4>7. Arrived(i, Append(r, Data(i, Len(sent[i]) + 1)), 0, Len(sent[i]) + 1, Len(got[i]))
        BY <2>1, <2>2, <4>3, ArrivedAppend
      <4> QED BY <1>1, <1>4, <1>7, <4>5, <4>6, <4>7 DEF UpOK, i, r
    <3>2. CASE ~ReadBody(o)
      <4>1. buff'[conn[o].buf].rq = r
        <5>1. CASE \E t : buff' = [buff EXCEPT ![conn[o].buf].sq = t]
          BY <1>0, <1>1, <5>1
        <5>2. CASE ReadDisc(o) \/ WriteAll(o)
          BY <5>1, <5>2 DEF ReadDisc, WriteAll
        <5>3. CASE buff' = buff
          BY <5>3
        <5> QED BY <3>2, <5>2, <5>3 DEF ReadHead, ReadStrayAck, WritePart
      <4>2. sent' = sent /\ got' = got
        BY <1>1, <1>5, <3>2
      <4>3. UpSame(p)
        BY <1>1, <1>4, <1>7, <4>1, <4>2 DEF UpSame
      <4> QED BY <4>3, SameOK
    <3> QED BY <3>1, <3>2
  <2>4. DownOK(p)'
    <3>1. CASE WriteAll(o)
      <4>1. /\ conn[o].wr /\ buff'[conn[o].buf].sq = Tail(s)
        BY <1>0, <1>1, <3>1 DEF WriteAll
      <4>2. s # <<>>
        BY <1>0, <4>1 DEF BuffersOK
      <4>3. CASE IsData(Head(s))
        <5>1. /\ Len(wrote[i]) < Len(queued[i]) /\ Head(s) = Data(i, Len(wrote[i]) + 1)
              /\ queued[i][Len(wrote[i]) + 1] = Data(i, Len(wrote[i]) + 1)
          BY <1>1, <4>2, <4>3, HeadIsNext
        <5>2. wrote'[i] = Append(wrote[i], Head(s))
          <6>1. wrote' = [wrote EXCEPT ![i] = Append(@, Head(s))]
            BY <3>1, <4>3 DEF WriteAll
          <6> QED BY <1>0, <2>1, <6>1
        <5> HIDE DEF i, r, s
        <5>3. Len(wrote[i]) + 1 \in 1..Len(queued[i])
          BY <2>1, <5>1
        <5>4. Head(s) \in DownMsg
          BY <2>1, <5>1, <5>3, ElementOfSeq
        <5>5. Len(wrote'[i]) = Len(wrote[i]) + 1
          BY <2>1, <5>2, <5>4, AppendProperties
        <5>6. Waiting(i, Tail(s), Len(wrote[i]) + 1, Len(queued[i]))
          BY <2>1, <2>2, <4>2, <4>3, <5>1, WaitingTail
        <5> QED BY <1>1, <1>7, <4>1, <5>5, <5>6 DEF DownOK, i, s
      <4>4. CASE ~IsData(Head(s))
        <5>1. wrote' = wrote
          BY <3>1, <4>4 DEF WriteAll
        <5> HIDE DEF i, r, s
        <5>2. Waiting(i, Tail(s), Len(wrote[i]), Len(queued[i]))
          BY <2>1, <2>2, <4>2, <4>4, WaitingTail
        <5> QED BY <1>1, <1>7, <4>1, <5>1, <5>2 DEF DownOK, i, s
      <4> QED BY <4>3, <4>4
    <3>2. CASE ReadDisc(o) /\ conn[o].st # "DISCONNECTING"
      <4>1. buff'[conn[o].buf].sq = Append(s, Ack) /\ wrote' = wrote /\ queued' = queued
        BY <1>0, <1>1, <3>2 DEF ReadDisc, hist
      <4> HIDE DEF i, r, s
      <4>2. Waiting(i, Append(s, Ack), Len(wrote[i]), Len(queued[i]))
        BY <2>1, <2>2, WaitingAppend
      <4> QED BY <1>1, <1>7, <4>1, <4>2 DEF DownOK, i, s
    <3>3. CASE ~WriteAll(o) /\ ~(ReadDisc(o) /\ conn[o].st # "DISCONNECTING")
      <4>1. buff'[conn[o].buf].sq = s
        <5>1. CASE ReadBody(o)
          <6>1. PICK m : buff' = [buff EXCEPT ![conn[o].buf].rq = Append(@, m)]
            BY <5>1 DEF ReadBody
          <6> QED BY <1>0, <1>1, <6>1
        <5>2. CASE buff' = buff
          BY <5>2
        <5> QED BY <3>3, <5>1, <5>2 DEF ReadHead, ReadDisc, ReadStrayAck, WritePart
      <4>2. wrote' = wrote /\ queued' = queued
        BY <1>1, <1>5, <3>3
      <4>3. DownSame(p)
        BY <1>1, <1>7, <4>1, <4>2 DEF DownSame
      <4> QED BY <4>3, SameOK
    <3> QED BY <3>1, <3>2, <3>3
  <2> QED BY <2>3, <2>4
<1> QED BY <1>6, <1>7

\* Lemma: every step keeps ChanInv.
LEMMA ChanNext ==
    ASSUME ServeInv, ChanInv, [Next]_vars
    PROVE  ChanInv'
<1>1. ASSUME NEW p \in Obj PROVE UpOK(p)' /\ DownOK(p)'
  <2>1. CASE EndRun \/ EndPoll \/ VisitIdle \/ VisitConnected \/ UNCHANGED vars
    BY <2>1, QuietSame, SameOK
  <2>2. CASE \/ VisitDead \/ VisitTimeout \/ RunPosted
             \/ \E o \in Obj : ReadAck(o) \/ ReadErr(o) \/ WriteErr(o)
    <3>1. PICK o \in Obj : Ending(o) /\ UNCHANGED <<sent, got, queued, wrote>> /\ pos = 0 /\ pos' = 0
      BY <2>2, EndingSteps
    <3> QED BY <3>1, EndingSame, SameOK
  <2>3. CASE Deliver \/ DeliverFail \/ DeliverEnd
    BY <2>3, VisitChan
  <2>4. CASE App
    <3>1. PICK d \in Obj : AppOp(d)
      BY <2>4 DEF App, AppOp
    <3>2. /\ phase = "run" /\ UNCHANGED <<pool, sent, got, wrote, pos, todo>>
      BY <2>4 DEF App
    <3>3. Handled(p)' = Handled(p)
      BY <3>2 DEF Handled, cur
    <3>4. UpSame(p)
      BY <3>1, <3>2, <3>3, AppLists DEF UpSame
    <3> QED BY <3>1, <3>2, <3>4, AppDown, SameOK
  <2>5. CASE Accept
    BY <2>5, AcceptChan
  <2>6. CASE \E o \in Obj : ReadHead(o) \/ ReadBody(o) \/ ReadDisc(o) \/ ReadStrayAck(o)
                            \/ WriteAll(o) \/ WritePart(o)
    BY <2>6, ReadWriteChan
  <2> QED BY <2>1, <2>2, <2>3, <2>4, <2>5, <2>6 DEF Next, Visit, Completion
<1> QED BY <1>1, NumberedNext DEF ChanInv

\* Theorem: the lists of every open connection hold exactly the messages
\* between the two ends of its channels.
THEOREM Carrying == Spec => [](ServeInv /\ ChanInv)
<1>1. Init => ChanInv
  <2> SUFFICES ASSUME Init PROVE ChanInv
    OBVIOUS
  <2>1. \A o \in Obj : ~conn[o].open
    BY DEF Init, NoConn
  <2>2. \A i \in Id : sent[i] = <<>> /\ got[i] = <<>> /\ queued[i] = <<>> /\ wrote[i] = <<>>
    BY DEF Init
  <2>3. Len(<<>>) = 0
    OBVIOUS
  <2> QED BY <2>1, <2>2, <2>3 DEF ChanInv, Numbered, UpOK, DownOK
<1>2. ServeInv /\ ChanInv /\ [Next]_vars => ChanInv'
  BY ChanNext
<1> QED BY <1>1, <1>2, Serving, PTL DEF Spec

\* Lemma: the initial states of both channels.
LEMMA ChanInit == Init => Up!Init /\ Down!Init
<1> SUFFICES ASSUME Init PROVE Up!Init /\ Down!Init
  OBVIOUS
<1>1. Status = [i \in Id |-> "new"]
  <2>1. \A i \in Id : i > currId
    BY DEF Init, Id
  <2> QED BY <2>1 DEF Status
<1> QED BY <1>1 DEF Init, Up!Init, Down!Init

\* Theorem: the passive side implements the upward channels (UpIsChannels):
\* the message handlers get what the peer of each connection has sent, in
\* order, once, and nothing of an earlier connection of the same object.
THEOREM TcpUpIsChannels == Spec => UpIsChannels
<1>1. Init => Up!Init
  BY ChanInit
<1>2. ServeInv /\ ChanInv /\ [Next]_vars => [Up!Next]_(Up!chans)
  BY UpStep DEF Up!Next
<1> QED BY <1>1, <1>2, Carrying, PTL DEF Spec, UpIsChannels, Up!Spec

\* Theorem: the passive side implements the downward channels
\* (DownIsChannels): what the handlers queue for a connection is written to
\* the socket of that connection, in order and once.
THEOREM TcpDownIsChannels == Spec => DownIsChannels
<1>1. Init => Down!Init
  BY ChanInit
<1>2. ServeInv /\ ChanInv /\ [Next]_vars => [Down!Next]_(Down!chans)
  BY DownStep DEF Down!Next
<1> QED BY <1>1, <1>2, Carrying, PTL DEF Spec, DownIsChannels, Down!Spec
=============================================================================
