----------------------------- MODULE TcpServer -----------------------------
(***************************************************************************)
(* The passive (server) side of libjmy: JmyTcpServer, the JmyTcpConnection *)
(* objects it pools in a JmyTcpConnectionMgr, and the JmyConnectionBuffer  *)
(* objects it pools in a JmyConnectionBufferMgr.                           *)
(*                                                                         *)
(* One thread alternates two phases (the servers' main loops):             *)
(*   "run"   JmyTcpServer::run visits the connections in list order, hands *)
(*           received packets to the message handlers and starts sends;    *)
(*           when the pass is over the application may still act on any    *)
(*           connection (the handlers of the server's other connections);  *)
(*   "poll"  io_service::poll runs the completion handlers.                *)
(* Completions with a result come from the reactor and are actions of      *)
(* their own.  Completions that carry an error because the socket was      *)
(* closed under them are queued in `posted` and run in that order.         *)
(*                                                                         *)
(* A definition named Bug... is the definition that follows it with a slip *)
(* the code could plausibly contain; no action uses it.  The properties    *)
(* must tell it from the real one.                                         *)
(*                                                                         *)
(* A connection is identified by the id JmyIdGenerator gives it; ids are   *)
(* never reused, connection objects and buffers are.                       *)
(***************************************************************************)
EXTENDS Naturals, Sequences, FiniteSets, SequencesExt

CONSTANTS
    MaxConn,     \* conf_.max_conn: size of the connection pool
    MaxId,       \* bound: connections accepted in a behaviour
    MaxUp,       \* bound: messages a peer sends on one connection
    MaxDown,     \* bound: messages the handlers send on one connection
    SendBatch    \* sends of one chain before it yields (100 in the code)

ASSUME TcpConstants ==
    /\ MaxConn \in Nat \ {0} /\ MaxId \in Nat \ {0}
    /\ MaxUp \in Nat /\ MaxDown \in Nat
    /\ SendBatch \in Nat \ {0}

Obj == 1..MaxConn              \* JmyTcpConnection objects
Buf == 1..(2 * MaxConn)        \* JmyConnectionBuffer objects
Id  == 1..MaxId                \* connection ids

Data(i, n) == <<i, n>>         \* the n-th user message of connection i
Disc == <<0, 0>>               \* JMY_PACKET2_DISCONNECT
Ack  == <<0, 1>>               \* JMY_PACKET2_DISCONNECT_ACK
UpMsg   == Id \X (1..MaxUp)
DownMsg == Id \X (1..MaxDown)
IsData(p) == p[1] # 0

VARIABLES
    phase,      \* "run" or "poll"
    todo,       \* run_conns: the part of conns_ the pass has still to visit
    pos,        \* processData: next element of the recv list, 0 outside it
    conns,      \* JmyTcpServer::conns_
    freeConns,  \* JmyTcpConnectionMgr::free_list_
    usedMap,    \* JmyTcpConnectionMgr::used_map_ (0: no entry)
    freeBufs,   \* JmyConnectionBufferMgr::free_queue_
    conn,       \* the connection objects
    buff,       \* the buffer objects: recv_buff_list and send_buff_list
    posted,     \* error completions queued in the io_service
    currId,     \* JmyIdGenerator::curr_id_
    peer        \* per connection: what its peer may still send

\* History of the messages and events the application sees.
VARIABLES sent, got, queued, wrote, events

pool == <<conns, freeConns, usedMap, freeBufs>>
hist == <<sent, got, queued, wrote, events>>
vars == <<phase, todo, pos, pool, conn, buff, posted, currId, peer, hist>>

-----------------------------------------------------------------------------
(* Initial state: pools filled by loadConfig, nothing accepted yet.        *)

NoConn == [st |-> "NOT_USE", id |-> 0, buf |-> 0, open |-> FALSE, rd |-> "none",
           wr |-> FALSE, sending |-> FALSE, cnt |-> 0]

NoBytes == [rq |-> <<>>, sq |-> <<>>]

Init ==
    /\ phase = "poll" /\ todo = <<>> /\ pos = 0
    /\ conns = <<>>
    /\ freeConns = [k \in Obj |-> k]
    /\ usedMap = [i \in Id |-> 0]
    /\ freeBufs = [k \in Buf |-> k]
    /\ conn = [o \in Obj |-> NoConn]
    /\ buff = [b \in Buf |-> NoBytes]
    /\ posted = <<>>
    /\ currId = 0
    /\ peer = [i \in Id |-> [closing |-> FALSE, owes |-> 0]]
    /\ sent = [i \in Id |-> <<>>] /\ got = [i \in Id |-> <<>>]
    /\ queued = [i \in Id |-> <<>>] /\ wrote = [i \in Id |-> <<>>]
    /\ events = [i \in Id |-> 0]

-----------------------------------------------------------------------------
(* JmyTcpConnection: the operations every handler is built from.           *)

\* Closing the socket of object o, in state c, queues an aborted completion
\* for each operation still pending on it: the read, then the write.
Aborted(o, c) ==
    LET e == [obj |-> o, id |-> c.id, early |-> phase = "run"]
    IN  (IF c.rd # "none" THEN <<e>> ELSE <<>>) \o (IF c.wr THEN <<e>> ELSE <<>>)

BugClosedSending(c) == [c EXCEPT !.st = "DISCONNECTED", !.open = FALSE, !.rd = "none",
                                 !.wr = FALSE]

\* The connection object once force_close is through with it.
Closed(c) == [c EXCEPT !.st = "DISCONNECTED", !.open = FALSE, !.rd = "none",
                       !.wr = FALSE, !.sending = FALSE]

BugForceCloseTwice(o, c, q) ==
    /\ posted' = q \o Aborted(o, c)
    /\ conn' = [conn EXCEPT ![o] = Closed(c)]
    /\ buff' = [buff EXCEPT ![c.buf] = NoBytes]
    /\ events' = [events EXCEPT ![c.id] = @ + 1]

\* force_close on object o found in state c; q is the queue of completions
\* that are due before the ones this call adds.
ForceClose(o, c, q) ==
    IF c.st = "DISCONNECTED"
    THEN posted' = q /\ UNCHANGED <<conn, buff, events>>
    ELSE /\ posted' = q \o Aborted(o, c)
         /\ conn' = [conn EXCEPT ![o] = Closed(c)]
         /\ buff' = [buff EXCEPT ![c.buf] = NoBytes]
         /\ events' = [events EXCEPT ![c.id] = @ + 1]

BugReceivingState(c) == [c EXCEPT !.rd = "head"]

\* start_recv on an open socket: the next header is awaited.  A passive
\* connection is CONNECTED from then on, whatever its state was.
Receiving(c) == [c EXCEPT !.rd = "head", !.st = "CONNECTED"]

\* start_send, on the state c the connection and s its send list have.
StartSend(c, s) ==
    IF c.st = "CONNECTED" /\ ~c.sending /\ s # <<>>
    THEN [c EXCEPT !.wr = TRUE, !.sending = TRUE]
    ELSE c

-----------------------------------------------------------------------------
(* What the application does to a connection, from a handler or between    *)
(* two phases: send, close, force_close.  The connection is looked up in   *)
(* used_map_ by its id.                                                    *)

Live(d) == conn[d].id # 0 /\ usedMap[conn[d].id] = d

Send(d) ==
    LET i == conn[d].id
        m == Data(i, Len(queued[i]) + 1)
    IN  /\ Live(d) /\ conn[d].st = "CONNECTED"
        /\ Len(queued[i]) < MaxDown
        /\ buff' = [buff EXCEPT ![conn[d].buf].sq = Append(@, m)]
        /\ queued' = [queued EXCEPT ![i] = Append(@, m)]
        /\ UNCHANGED <<conn, posted, events>>

Close(d) ==
    /\ Live(d) /\ conn[d].st = "CONNECTED"
    /\ buff' = [buff EXCEPT ![conn[d].buf].sq = Append(@, Disc)]
    /\ conn' = [conn EXCEPT ![d].st = "DISCONNECTING"]
    /\ UNCHANGED <<queued, posted, events>>

Kick(d) == Live(d) /\ ForceClose(d, conn[d], posted) /\ UNCHANGED queued

AppOp(d) == Send(d) \/ Close(d) \/ Kick(d)

-----------------------------------------------------------------------------
(* "run": JmyTcpServer::run_conns, one connection after the other.         *)

cur == Head(todo)

StartVisit(st) == phase = "run" /\ todo # <<>> /\ pos = 0 /\ conn[cur].st = st

BugVisitDeadBuffer ==
    /\ StartVisit("DISCONNECTED")
    /\ todo' = Tail(todo)
    /\ \E k \in DOMAIN conns : conns[k] = cur /\ conns' = RemoveAt(conns, k)
    /\ usedMap' = [usedMap EXCEPT ![conn[cur].id] = 0]
    /\ freeConns' = <<cur>> \o freeConns
    /\ conn' = [conn EXCEPT ![cur].st = "NOT_CONNECT"]
    /\ buff' = [buff EXCEPT ![conn[cur].buf] = NoBytes]
    /\ UNCHANGED <<phase, pos, freeBufs, posted, currId, peer, hist>>

BugVisitDeadSkip ==
    /\ StartVisit("DISCONNECTED")
    /\ todo' = Tail(todo)
    /\ UNCHANGED <<phase, pos, pool, conn, buff, posted, currId, peer, hist>>

\* The connection ended: it and its buffer go back to their pools.  The
\* object keeps its pointer to the buffer.
VisitDead ==
    /\ StartVisit("DISCONNECTED")
    /\ todo' = Tail(todo)
    /\ \E k \in DOMAIN conns : conns[k] = cur /\ conns' = RemoveAt(conns, k)
    /\ usedMap' = [usedMap EXCEPT ![conn[cur].id] = 0]
    /\ freeConns' = <<cur>> \o freeConns
    /\ conn' = [conn EXCEPT ![cur].st = "NOT_CONNECT"]
    /\ buff' = [buff EXCEPT ![conn[cur].buf] = NoBytes]
    /\ freeBufs' = <<conn[cur].buf>> \o freeBufs
    /\ UNCHANGED <<phase, pos, posted, currId, peer, hist>>

\* Nothing to do for a connection that is not CONNECTED: an active close
\* waits for its ack, and the clock decides whether it is over.
VisitIdle ==
    /\ phase = "run" /\ todo # <<>> /\ pos = 0
    /\ conn[cur].st \notin {"CONNECTED", "DISCONNECTED"}
    /\ todo' = Tail(todo)
    /\ UNCHANGED <<phase, pos, pool, conn, buff, posted, currId, peer, hist>>

VisitTimeout ==
    /\ StartVisit("DISCONNECTING")
    /\ todo' = Tail(todo)
    /\ ForceClose(cur, conn[cur], posted)
    /\ UNCHANGED <<phase, pos, pool, currId, peer, sent, got, queued, wrote>>

\* handle_recv: processData starts on the recv list.
VisitConnected ==
    /\ StartVisit("CONNECTED")
    /\ pos' = 1
    /\ UNCHANGED <<phase, todo, pool, conn, buff, posted, currId, peer, hist>>

recvList == buff[conn[cur].buf].rq

Handling == phase = "run" /\ pos > 0 /\ pos <= Len(recvList)

HandOver == got' = [got EXCEPT ![conn[cur].id] = Append(@, recvList[pos])]

\* The handler accepts the packet.  What it does to connections before it
\* returns, with or without an error, is in App.
Deliver ==
    /\ Handling
    /\ HandOver
    /\ pos' = pos + 1
    /\ UNCHANGED <<phase, todo, pool, conn, buff, posted, currId, peer, sent, queued, wrote, events>>

\* The handler returns an error: the rest of the list is not handled.
DeliverFail ==
    /\ Handling
    /\ HandOver
    /\ ForceClose(cur, conn[cur], posted)
    /\ pos' = 0 /\ todo' = Tail(todo)
    /\ UNCHANGED <<phase, pool, currId, peer, sent, queued, wrote>>

BugDeliverEndKeeps ==
    /\ phase = "run" /\ pos > 0 /\ pos > Len(recvList)
    /\ conn' = [conn EXCEPT ![cur] = StartSend(@, buff[conn[cur].buf].sq)]
    /\ pos' = 0 /\ todo' = Tail(todo)
    /\ UNCHANGED <<phase, pool, buff, posted, currId, peer, hist>>

\* The list is handled: it is cleared, and run ends with start_send.
DeliverEnd ==
    LET b == conn[cur].buf IN
    /\ phase = "run" /\ pos > 0 /\ pos > Len(recvList)
    /\ buff' = [buff EXCEPT ![b].rq = <<>>]
    /\ conn' = [conn EXCEPT ![cur] = StartSend(@, buff[b].sq)]
    /\ pos' = 0 /\ todo' = Tail(todo)
    /\ UNCHANGED <<phase, pool, posted, currId, peer, hist>>

\* The handler at work acts on a connection, its own included, as often as it
\* likes; it does not force_close its own connection (see README).  Outside
\* the pass the handlers of the server's other connections act.
App ==
    /\ phase = "run"
    /\ \/ Handling /\ \E d \in Obj : Send(d) \/ Close(d) \/ (d # cur /\ Kick(d))
       \/ todo = <<>> /\ \E d \in Obj : AppOp(d)
    /\ UNCHANGED <<phase, todo, pos, pool, currId, peer, sent, got, wrote>>

EndRun ==
    /\ phase = "run" /\ todo = <<>>
    /\ phase' = "poll"
    /\ UNCHANGED <<todo, pos, pool, conn, buff, posted, currId, peer, hist>>

-----------------------------------------------------------------------------
(* "poll": io_service::poll.                                               *)

\* A queued error completion: handle_recv_error or the write's error branch.
\* A completion queued by the completion handlers goes to the end of the
\* queue, behind the ones that run_conns or the application left there.
RunPosted ==
    /\ phase = "poll" /\ posted # <<>>
    /\ LET o == Head(posted).obj IN ForceClose(o, conn[o], Tail(posted))
    /\ UNCHANGED <<phase, todo, pos, pool, currId, peer, sent, got, queued, wrote>>

\* The reactor's completions come behind everything queued before the poll.
Reactor == phase = "poll" /\ (posted # <<>> => ~Head(posted).early)

\* do_accept: the connection gets the first free object and buffer.  When
\* conns_ is full the new socket is closed at once, and nothing changes.
\* onConnect may force_close the new connection.
Accept ==
    LET o == Head(freeConns)
        b == Head(freeBufs)
        i == currId + 1
        c == Receiving([conn[o] EXCEPT !.id = i, !.buf = b, !.open = TRUE])
    IN  /\ Reactor /\ currId < MaxId
        /\ Len(conns) < MaxConn
        /\ currId' = i
        /\ freeConns' = Tail(freeConns)
        /\ usedMap' = [usedMap EXCEPT ![i] = o]
        /\ freeBufs' = Tail(freeBufs)
        /\ conns' = Append(conns, o)
        /\ \/ conn' = [conn EXCEPT ![o] = c] /\ UNCHANGED <<buff, posted, events>>
           \/ ForceClose(o, c, posted)
        /\ UNCHANGED <<phase, todo, pos, peer, sent, got, queued, wrote>>

(* The peer (external) is the active side of libjmy: it sends messages     *)
(* until it sends its own Disconnect, acknowledges a Disconnect it gets    *)
(* before that, and may break the link at any time.                        *)

Reading(o, r) == Reactor /\ conn[o].open /\ conn[o].rd = r
PeerSends(o) == ~peer[conn[o].id].closing

\* A header of user data: recv_packet awaits the body.
ReadHead(o) ==
    /\ Reading(o, "head") /\ PeerSends(o) /\ Len(sent[conn[o].id]) < MaxUp
    /\ conn' = [conn EXCEPT ![o].rd = "body"]
    /\ UNCHANGED <<phase, todo, pos, pool, buff, posted, currId, peer, hist>>

ReadBody(o) ==
    LET i == conn[o].id
        m == Data(i, Len(sent[i]) + 1)
    IN  /\ Reading(o, "body")
        /\ sent' = [sent EXCEPT ![i] = Append(@, m)]
        /\ buff' = [buff EXCEPT ![conn[o].buf].rq = Append(@, m)]
        /\ conn' = [conn EXCEPT ![o] = Receiving(@)]
        /\ UNCHANGED <<phase, todo, pos, pool, posted, currId, peer, got, queued, wrote, events>>

\* handleDisconnect: acknowledged unless this side is closing as well.
ReadDisc(o) ==
    /\ Reading(o, "head") /\ PeerSends(o)
    /\ peer' = [peer EXCEPT ![conn[o].id].closing = TRUE]
    /\ buff' = IF conn[o].st = "DISCONNECTING" THEN buff
               ELSE [buff EXCEPT ![conn[o].buf].sq = Append(@, Ack)]
    /\ conn' = [conn EXCEPT ![o] = Receiving(@)]
    /\ UNCHANGED <<phase, todo, pos, pool, posted, currId, hist>>

ReadingAck(o) ==
    /\ Reading(o, "head") /\ PeerSends(o) /\ peer[conn[o].id].owes > 0
    /\ peer' = [peer EXCEPT ![conn[o].id].owes = @ - 1]

\* handleDisconnectAck when no close is in progress: only a warning.
ReadStrayAck(o) ==
    /\ ReadingAck(o) /\ conn[o].st # "DISCONNECTING"
    /\ UNCHANGED <<phase, todo, pos, pool, conn, buff, posted, currId, hist>>

\* handleDisconnectAck of a close in progress: force_close, but the reader
\* goes on with start_recv.  The read on the closed socket fails at once (a
\* queued completion) and the object is CONNECTED until it runs.
ReadAck(o) ==
    LET c == [conn[o] EXCEPT !.rd = "none"]
    IN  /\ ReadingAck(o) /\ c.st = "DISCONNECTING"
        /\ posted' = posted \o Aborted(o, c) \o <<[obj |-> o, id |-> c.id, early |-> FALSE]>>
        /\ conn' = [conn EXCEPT ![o] = [Closed(c) EXCEPT !.st = "CONNECTED"]]
        /\ buff' = [buff EXCEPT ![c.buf] = NoBytes]
        /\ events' = [events EXCEPT ![c.id] = @ + 1]
        /\ UNCHANGED <<phase, todo, pos, pool, currId, sent, got, queued, wrote>>

\* The link is broken or closed by the peer: handle_recv_error.
ReadErr(o) ==
    /\ Reactor /\ conn[o].open
    /\ ForceClose(o, [conn[o] EXCEPT !.rd = "none"], posted)
    /\ UNCHANGED <<phase, todo, pos, pool, currId, peer, sent, got, queued, wrote>>

BugWrittenCount(c, s) ==
    IF c.cnt + 1 >= SendBatch \/ s = <<>>
    THEN [c EXCEPT !.cnt = @ + 1, !.wr = FALSE, !.sending = FALSE]
    ELSE [c EXCEPT !.cnt = @ + 1]

\* buffer_list_send: the chain goes on with the next element of the list
\* unless it is long enough or the list is empty.
Written(c, s) ==
    IF c.cnt + 1 >= SendBatch \/ s = <<>>
    THEN [c EXCEPT !.cnt = 0, !.wr = FALSE, !.sending = FALSE]
    ELSE [c EXCEPT !.cnt = @ + 1]

BugWriteAllKeeps(o) ==
    LET c == conn[o]
        p == Head(buff[c.buf].sq)
    IN  /\ Reactor /\ c.open /\ c.wr
        /\ conn' = [conn EXCEPT ![o] = Written(c, buff[c.buf].sq)]
        /\ wrote' = [wrote EXCEPT ![c.id] = IF IsData(p) THEN Append(@, p) ELSE @]
        /\ UNCHANGED <<phase, todo, pos, pool, buff, posted, currId, peer, sent, got, queued, events>>

WriteAll(o) ==
    LET c == conn[o]
        s == buff[c.buf].sq
        p == Head(s)
    IN  /\ Reactor /\ c.open /\ c.wr
        /\ buff' = [buff EXCEPT ![c.buf].sq = Tail(s)]
        /\ conn' = [conn EXCEPT ![o] = Written(c, Tail(s))]
        /\ IF IsData(p)
           THEN wrote' = [wrote EXCEPT ![c.id] = Append(@, p)] /\ UNCHANGED peer
           ELSE /\ peer' = [peer EXCEPT ![c.id].owes = IF p = Disc THEN @ + 1 ELSE @]
                /\ UNCHANGED wrote
        /\ UNCHANGED <<phase, todo, pos, pool, posted, currId, sent, got, queued, events>>

\* The socket took only a part of the element.
WritePart(o) ==
    LET c == conn[o]
        s == buff[c.buf].sq
    IN  /\ Reactor /\ c.open /\ c.wr
        /\ conn' = [conn EXCEPT ![o] = Written(c, s)]
        /\ UNCHANGED <<phase, todo, pos, pool, buff, posted, currId, peer, hist>>

WriteErr(o) ==
    /\ Reactor /\ conn[o].open /\ conn[o].wr
    /\ ForceClose(o, [conn[o] EXCEPT !.wr = FALSE], posted)
    /\ UNCHANGED <<phase, todo, pos, pool, currId, peer, sent, got, queued, wrote>>

BugEndPollOne ==
    /\ phase = "poll"
    /\ phase' = "run" /\ todo' = conns
    /\ UNCHANGED <<pos, pool, conn, buff, posted, currId, peer, hist>>

\* The queue is empty: poll returns and the loop starts a new pass.
EndPoll ==
    /\ phase = "poll" /\ posted = <<>>
    /\ phase' = "run" /\ todo' = conns
    /\ UNCHANGED <<pos, pool, conn, buff, posted, currId, peer, hist>>

-----------------------------------------------------------------------------
Visit == VisitDead \/ VisitIdle \/ VisitTimeout \/ VisitConnected
         \/ Deliver \/ DeliverFail \/ DeliverEnd

Completion(o) == ReadHead(o) \/ ReadBody(o) \/ ReadDisc(o) \/ ReadStrayAck(o) \/ ReadAck(o)
                 \/ ReadErr(o) \/ WriteAll(o) \/ WritePart(o) \/ WriteErr(o)

Next ==
    \/ Visit \/ App \/ EndRun
    \/ RunPosted \/ Accept \/ EndPoll
    \/ \E o \in Obj : Completion(o)

Spec == Init /\ [][Next]_vars

\* The loop never stops, poll runs what is ready each time it is called (a
\* packet of which the header has come is completed or the link breaks), and
\* the clock that VisitTimeout reads advances.  Peers and application need
\* not do anything.
Fairness ==
    /\ WF_vars(Visit) /\ WF_vars(EndRun) /\ WF_vars(RunPosted) /\ WF_vars(EndPoll)
    /\ SF_vars(VisitTimeout)
    /\ \A o \in Obj : SF_vars(ReadBody(o)) /\ SF_vars(WriteAll(o))

FairSpec == Spec /\ Fairness
=============================================================================
