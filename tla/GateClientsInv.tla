--------------------------- MODULE GateClientsInv ---------------------------
(* GateClients: the properties that the runs check and the proofs use. *)
EXTENDS GateClients

\* The type of every variable.
TypeOK ==
    /\ m \in Mgr
    /\ session \subseteq Account /\ game \in BOOLEAN
    /\ pending \subseteq Request
    /\ auth \in [Conn -> SUBSET Account]

\* The messages of a connection go to one client, which is in use, and no
\* other connection's messages go to it; an account holds one slot at most.
\* This survives the undefined read in BiMap::remove_1 and remove_2,
\* whatever it yields, and ClientInfo::close leaving `used` off.
Routing ==
    /\ \A c \in Conn : m.con1[c] # None => m.con1[c] \in m.usedIds
    /\ \A c, d \in Conn : m.con1[c] # None /\ m.con1[c] = m.con1[d] => c = d
    /\ \A i, j \in m.usedIds : m.acc2[i] = m.acc2[j] => i = j

\* Why Routing holds: free and used slots are a partition, a slot has an
\* account in the map from slots exactly while it is in use, and the two
\* halves of each BiMap agree where the half that remove erases first has
\* an entry (the other half may hold entries that are out of date).
SlotsPartitioned(x) ==
    /\ x.freeIds \cap x.usedIds = {} /\ x.freeIds \cup x.usedIds = Slot
    /\ \A i \in Slot : x.used[i] => i \in x.usedIds
    /\ \A i \in x.usedIds : x.account[i] # None

MapsAgree(x) ==
    /\ \A i \in Slot : x.acc2[i] # None <=> i \in x.usedIds
    /\ \A i \in Slot : x.acc2[i] # None => x.acc1[x.acc2[i]] = i
    /\ \A c \in Conn : x.con1[c] # None => x.con2[x.con1[c]] = c /\ x.con1[c] \in x.usedIds

RoutingInv == TypeOK /\ SlotsPartitioned(m) /\ MapsAgree(m)

ReleaseStep ==
    \A i \in Slot : i \in m.usedIds /\ i \notin m'.usedIds =>
        \E c \in Conn : Up(m, c) /\ m'.link[c] = "ended" /\ (m.con1[c] = i \/ m'.conn[i] = c)

\* A slot in use is released only in a step that ends the connection whose
\* messages it took, or was about to take (GetRole binds a connection and
\* may fail after that).
ReleasedByDisconnect == [][ReleaseStep]_vars

\* A client's messages and answers concern an account whose session was
\* checked on its connection, although slots, with the conn_id and account
\* of their last user in them, are reused.  This depends on what the undefined
\* read in BiMap yields: it holds when the read finds the old key.
RoutedToOwner ==
    \A i \in m.usedIds :
        /\ \A c \in Conn : m.con1[c] = i => m.account[i] \in auth[c]
        /\ CanSend(m, i) => m.account[i] \in auth[m.conn[i]]

\* While the `used` flag of a client is on, a connection that is up and whose
\* messages go to the client is the one that the client sends to, and the
\* client's account had its session checked on that connection.  Unlike
\* RoutedToOwner this survives the undefined read in BiMap, whatever it
\* yields: with entries that are out of date, another account may get a slot
\* in use, but only once its connection has been closed by the kick.
ServesOwner ==
    \A i \in m.usedIds : m.used[i] =>
        /\ \A c \in Conn : m.con1[c] = i /\ Up(m, c) => m.conn[i] = c
        /\ m.conn[i] # None /\ Up(m, m.conn[i]) => m.account[i] \in auth[m.conn[i]]

\* Why ServesOwner holds: a free slot has no connection left in it that is up,
\* and no connection is in a slot or a map before it is accepted.
BoundConns(x) ==
    /\ \A c \in Conn : x.con1[c] # None /\ x.used[x.con1[c]] /\ Up(x, c) => x.conn[x.con1[c]] = c
    /\ \A i \in x.freeIds : x.conn[i] # None => ~Up(x, x.conn[i])
    /\ \A i \in Slot : x.conn[i] # None => x.link[x.conn[i]] # "new"
    /\ \A c \in Conn : x.con1[c] # None => x.link[c] # "new"

Owned(x, au) ==
    \A i \in x.usedIds :
        x.used[i] /\ x.conn[i] # None /\ Up(x, x.conn[i]) => x.account[i] \in au[x.conn[i]]

OwnerInv == BoundConns(m) /\ Owned(m, auth)

\* "check role id is valid" (client_handler.cpp:157): the role with which a
\* client enters the game is its account's.
EntersOwnRole == \A c \in Conn : Up(m, c) /\ Entering(c) => m.role[ByConn(m, c)] \in auth[c]

\* "close this client" (client_handler.cpp:83): a client refused because the
\* gate is full is closed, so that no slot stays in use that was never given
\* a connection.
RefusedClientClosed == \A i \in m.usedIds : m.used[i] => m.conn[i] # None
=============================================================================
