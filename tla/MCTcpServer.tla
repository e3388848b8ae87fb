---------------------------- MODULE MCTcpServer ----------------------------
(* TcpServer: the properties the runs check. *)
EXTENDS TcpServer

\* The type of every variable.
TypeOK ==
    /\ phase \in {"run", "poll"}
    /\ Range(todo) \subseteq Obj /\ pos \in Nat
    /\ Range(conns) \cup Range(freeConns) \subseteq Obj
    /\ usedMap \in [Id -> Obj \cup {0}]
    /\ Range(freeBufs) \subseteq Buf
    /\ conn \in [Obj -> [st : {"NOT_USE", "NOT_CONNECT", "CONNECTED", "DISCONNECTING", "DISCONNECTED"},
                         id : Id \cup {0}, buf : Buf \cup {0}, open : BOOLEAN,
                         rd : {"none", "head", "body"}, wr : BOOLEAN, sending : BOOLEAN,
                         cnt : 0..(SendBatch - 1)]]
    /\ \A b \in Buf : Range(buff[b].rq) \subseteq UpMsg
    /\ \A k \in DOMAIN posted : posted[k].obj \in Obj /\ posted[k].id \in Id
    /\ currId \in Id \cup {0}

\* run_conns, getFree/free and getOneBuffer/freeBuffer keep their pools: an
\* object is either served or free, never both nor twice, a buffer belongs
\* to one served object or is free, and used_map_ finds exactly the served
\* objects.  So accept_new never meets an empty pool (which it would
\* dereference, or take as a reason to stop accepting for good).
PoolsKept ==
    /\ IsInjective(conns) /\ IsInjective(freeConns) /\ IsInjective(freeBufs)
    /\ Range(conns) \cap Range(freeConns) = {}
    /\ Range(conns) \cup Range(freeConns) = Obj
    /\ \A o, p \in Range(conns) : o # p => conn[o].buf # conn[p].buf
    /\ {conn[o].buf : o \in Range(conns)} = Buf \ Range(freeBufs)
    /\ \A i \in Id, o \in Obj : usedMap[i] = o <=> o \in Range(conns) /\ conn[o].id = i

\* The completion lambdas capture the object, not the connection.  None
\* that belongs to an ended connection is still queued when its object
\* serves another one, which it would close.
NoStaleCompletion ==
    \A k \in DOMAIN posted :
        posted[k].obj \in Range(conns) => conn[posted[k].obj].id = posted[k].id

\* Whenever the pass runs, a connection it treats as alive has an open
\* socket with a read pending, and sending_data_ tells whether a write is.
\* Otherwise nothing would ever wake the connection again.
NoDeafConnection ==
    phase = "run" =>
        \A o \in Range(conns) :
            conn[o].st # "DISCONNECTED" =>
                /\ conn[o].open /\ conn[o].rd # "none"
                /\ conn[o].sending = conn[o].wr

\* The application learns of the end of every connection before its object
\* is freed, and at most twice (force_close may run again on the object
\* start_recv or the pool has taken out of DISCONNECTED).
DisconnectReported ==
    \A i \in Id : /\ events[i] <= 2
                  /\ i <= currId /\ usedMap[i] = 0 => events[i] >= 1

-----------------------------------------------------------------------------
Status == [i \in Id |-> IF i > currId THEN "new" ELSE IF events[i] = 0 THEN "open" ELSE "ended"]

Up   == INSTANCE Channels WITH Msg <- UpMsg, status <- Status, sent <- sent, got <- got
Down == INSTANCE Channels WITH Msg <- DownMsg, status <- Status, sent <- queued, got <- wrote

\* Both directions of every connection are channels, although objects and
\* buffers are reused: no handler sees a message out of order, twice, of an
\* earlier connection of the object, or after DISCONNECT was reported ...
UpIsChannels == Up!Spec

\* ... and no message queued for one connection is written to another.
DownIsChannels == Down!Spec

-----------------------------------------------------------------------------
Ended(i) == events[i] > 0

\* A message the peer has sent is handled, or the connection ends.
EventuallyHandled == \A i \in Id : sent[i] # got[i] ~> (sent[i] = got[i] \/ Ended(i))

\* A message send() has accepted is written, or the connection ends, even
\* when the chain of sends stops at SendBatch elements.
EventuallyWritten == \A i \in Id : queued[i] # wrote[i] ~> (queued[i] = wrote[i] \/ Ended(i))

\* A connection that ended gives its object back to the pool.
EventuallyRecycled == \A i \in Id : Ended(i) ~> usedMap[i] = 0

\* A close() in progress ends the connection, with the ack or by the
\* timeout ("active close default timeout", jmy_const.h:57).
CloseEnds ==
    \A o \in Obj, i \in Id : (conn[o].id = i /\ conn[o].st = "DISCONNECTING") ~> Ended(i)
=============================================================================
