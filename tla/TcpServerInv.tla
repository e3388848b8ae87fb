---------------------------- MODULE TcpServerInv ----------------------------
(***************************************************************************)
(* The inductive invariant of TcpServer, in four layers: the types and the *)
(* sizes of the pools; the pools; the life of a connection object and of   *)
(* the completions queued for it; the messages in its buffers.             *)
(***************************************************************************)
EXTENDS MCTcpServer

Served == Range(conns)                              \* objects in conns_
Pending == {posted[k].obj : k \in DOMAIN posted}    \* objects with a queued completion

State == {"NOT_USE", "NOT_CONNECT", "CONNECTED", "DISCONNECTING", "DISCONNECTED"}
Conn == [st : State, id : Id \cup {0}, buf : Buf \cup {0}, open : BOOLEAN,
         rd : {"none", "head", "body"}, wr : BOOLEAN, sending : BOOLEAN, cnt : 0..(SendBatch - 1)]
Entry == [obj : Obj, id : Id, early : BOOLEAN]
Packet == DownMsg \cup {Disc, Ack}

-----------------------------------------------------------------------------
Types ==
    /\ phase \in {"run", "poll"}
    /\ todo \in Seq(Obj) /\ pos \in Nat
    /\ conns \in Seq(Obj) /\ freeConns \in Seq(Obj) /\ freeBufs \in Seq(Buf)
    /\ usedMap \in [Id -> Obj \cup {0}]
    /\ conn \in [Obj -> Conn]
    /\ buff \in [Buf -> [rq : Seq(UpMsg), sq : Seq(Packet)]]
    /\ posted \in Seq(Entry)
    /\ currId \in Id \cup {0}
    /\ peer \in [Id -> [closing : BOOLEAN, owes : Nat]]
    /\ sent \in [Id -> Seq(UpMsg)] /\ got \in [Id -> Seq(UpMsg)]
    /\ queued \in [Id -> Seq(DownMsg)] /\ wrote \in [Id -> Seq(DownMsg)]
    /\ events \in [Id -> Nat]

\* Nothing is taken from an empty pool.
Sizes ==
    /\ Len(conns) + Len(freeConns) = MaxConn
    /\ Len(conns) + Len(freeBufs) = 2 * MaxConn

\* An object has its connection and its buffer from its first accept on, no
\* two objects had their last connection in common, and a connection whose
\* messages or completions are being handled is one.
Ids ==
    /\ \A o \in Obj : /\ conn[o].id <= currId
                      /\ conn[o].id = 0 => conn[o] = NoConn
                      /\ conn[o].id # 0 => conn[o].buf # 0 /\ conn[o].st # "NOT_USE"
    /\ \A o, p \in Obj : conn[o].id # 0 /\ conn[o].id = conn[p].id => o = p
    /\ \A o \in Obj : conn[o].rd = "body" => Len(sent[conn[o].id]) < MaxUp
    /\ \A k \in 1..Len(posted) : conn[posted[k].obj].id # 0
    /\ pos > 0 => phase = "run" /\ todo # <<>> /\ conn[cur].id # 0

TypeInv == Types /\ Sizes /\ Ids

-----------------------------------------------------------------------------
\* What the pass of run_conns may rely on while it goes through the list.
PassOK ==
    /\ IsInjective(todo) /\ Range(todo) \subseteq Served
    /\ phase = "poll" => todo = <<>>
    /\ pos > 0 => conn[cur].st \in {"CONNECTED", "DISCONNECTING"}

\* An object with an open socket is served and waits for its peer.  One
\* without has nothing pending on the socket; it may be CONNECTED all the
\* same, but only until the completions that are queued for it have run.
Life(o) ==
    IF conn[o].open
    THEN /\ conn[o].st \in {"CONNECTED", "DISCONNECTING"} /\ o \in Served
         /\ conn[o].rd # "none" /\ conn[o].sending = conn[o].wr
         /\ o \notin Pending
    ELSE /\ conn[o].rd = "none" /\ ~conn[o].wr /\ ~conn[o].sending
         /\ conn[o].st # "DISCONNECTING"
         /\ conn[o].st = "CONNECTED" => phase = "poll" /\ o \in Pending /\ o \in Served
         /\ o \in Served => conn[o].st \in {"CONNECTED", "DISCONNECTED"}

\* The queue: the completions left by the pass come first, and the others
\* are for objects that are still served.
QueueOK ==
    \A k \in 1..Len(posted) :
        /\ conn[posted[k].obj].id = posted[k].id
        /\ posted[k].early \/ posted[k].obj \in Served
        /\ phase = "run" => posted[k].early
        /\ posted[k].early => \A j \in 1..k : posted[j].early

\* How often the end of a connection has been reported.
Reported(o) ==
    conn[o].id # 0 =>
        /\ conn[o].open => events[conn[o].id] = 0
        /\ ~conn[o].open => events[conn[o].id] >= 1
        /\ ~conn[o].open /\ (\/ conn[o].st = "CONNECTED"
                             \/ o \in Pending /\ (phase = "run" \/ conn[o].st = "NOT_CONNECT"))
              => events[conn[o].id] = 1

EventsOK ==
    /\ \A o \in Obj : Reported(o)
    /\ \A i \in Id : /\ i > currId => events[i] = 0
                     /\ events[i] <= 2
                     /\ i <= currId /\ usedMap[i] = 0 => events[i] >= 1

LifeOK == (\A o \in Obj : Life(o)) /\ QueueOK /\ EventsOK

LifeInv == PassOK /\ LifeOK

-----------------------------------------------------------------------------
\* A buffer in the pool is empty, and a completion that is still queued for
\* a freed object finds its old buffer there.
BuffersOK ==
    /\ \A b \in Range(freeBufs) : buff[b] = NoBytes
    /\ \A o \in Pending : o \notin Served => conn[o].buf \in Range(freeBufs)
    /\ \A o \in Obj : conn[o].wr => buff[conn[o].buf].sq # <<>>

ServeInv == TypeInv /\ PoolsKept /\ LifeInv /\ BuffersOK

-----------------------------------------------------------------------------
\* The n-th message of a connection is the n-th one everywhere.
Numbered(f) == \A i \in Id : /\ i > currId => f[i] = <<>>
                             /\ \A n \in 1..Len(f[i]) : f[i][n] = Data(i, n)

Handled(o) == IF pos > 0 /\ o = cur THEN pos - 1 ELSE 0

\* The recv list r of connection i, of which n messages were sent and g
\* handled: it holds the messages up to the n-th, after the h that the pass
\* has handled and not yet cleared.
Arrived(i, r, h, n, g) ==
    /\ h <= Len(r)
    /\ n + h = g + Len(r)
    /\ \A k \in 1..Len(r) : r[k] = Data(i, n - Len(r) + k)

UpOK(o) ==
    LET i == conn[o].id
    IN  conn[o].open => Arrived(i, buff[conn[o].buf].rq, Handled(o), Len(sent[i]), Len(got[i]))

\* The send list s of connection i holds, in order, the messages after the
\* w-th and up to the q-th.
Waiting(i, s, w, q) ==
    /\ w <= q
    /\ \A k \in 1..Len(s) : IsData(s[k]) => s[k][1] = i /\ s[k][2] \in (w + 1)..q
    /\ \A j, k \in 1..Len(s) : j < k /\ IsData(s[j]) /\ IsData(s[k]) => s[j][2] < s[k][2]
    /\ \A n \in (w + 1)..q : \E k \in 1..Len(s) : s[k] = Data(i, n)

\* They are the messages queued and not yet written.
DownOK(o) ==
    LET i == conn[o].id
    IN  conn[o].open => Waiting(i, buff[conn[o].buf].sq, Len(wrote[i]), Len(queued[i]))

ChanInv ==
    /\ Numbered(sent) /\ Numbered(got) /\ Numbered(queued) /\ Numbered(wrote)
    /\ \A o \in Obj : UpOK(o) /\ DownOK(o)
=============================================================================
