---------------------------- MODULE GateClients ----------------------------
(***************************************************************************)
(* gate_server: who is connected as which account.  ClientManager keeps    *)
(*   - ClientArray: a fixed array of client slots, free_ids_ / used_ids_;  *)
(*   - account_id_bimap_ and connid_id_bimap_, two-way maps from an        *)
(*     account and from a connection to a slot;                            *)
(*   - the sessions the login server has announced.                        *)
(* ClientHandler handles what clients send, GameHandler what the game      *)
(* server answers.  A handler that returns an error makes libjmy           *)
(* force_close the connection the message came from (TcpServer), which     *)
(* calls onDisconnect synchronously.  One thread runs everything, so each  *)
(* handler is one step.                                                    *)
(*                                                                         *)
(* The manager's data is one record, m, because a handler changes it in    *)
(* several steps: the operators below take the record and return the new   *)
(* one, or the set of records that may result.                             *)
(*                                                                         *)
(* Bug... : see TcpServer.                                                 *)
(***************************************************************************)
EXTENDS Naturals, FiniteSets

CONSTANTS
    Slot,       \* client ids, as many as max_conn
    Account,
    Conn,       \* bound: the client connections accepted in a behaviour
    None,       \* no slot, account or connection
    ReadBack    \* what BiMap's read of an erased node yields: see Unmapped

ASSUME GateConstants ==
    /\ None \notin Slot \cup Account \cup Conn
    /\ ReadBack \subseteq BOOLEAN /\ ReadBack # {}

VARIABLES
    m,          \* ClientManager and, in m.link, the client connections
    session,    \* account_session_map_: the accounts with a session
    game,       \* whether a game server is registered (the_game_id_ > 0)
    pending,    \* requests the game server has not answered
    auth        \* history: the accounts that passed the session check on a connection

vars == <<m, session, game, pending, auth>>

\* A connection is "closing" after close(), "ended" once DISCONNECT was
\* reported, and "gone" when JmyTcpConnectionMgr does not find it any more.
LinkState == {"new", "open", "closing", "ended", "gone"}

\* The role of an account is named by the account.
Mgr == [freeIds : SUBSET Slot, usedIds : SUBSET Slot,
        used : [Slot -> BOOLEAN], account : [Slot -> Account \cup {None}],
        conn : [Slot -> Conn \cup {None}], role : [Slot -> Account \cup {None}],
        acc1 : [Account -> Slot \cup {None}], acc2 : [Slot -> Account \cup {None}],
        con1 : [Conn -> Slot \cup {None}], con2 : [Slot -> Conn \cup {None}],
        link : [Conn -> LinkState]]

Request == [kind : {"get", "create"}, account : Account]

Init ==
    /\ m = [freeIds |-> Slot, usedIds |-> {},
            used |-> [i \in Slot |-> FALSE], account |-> [i \in Slot |-> None],
            conn |-> [i \in Slot |-> None], role |-> [i \in Slot |-> None],
            acc1 |-> [a \in Account |-> None], acc2 |-> [i \in Slot |-> None],
            con1 |-> [c \in Conn |-> None], con2 |-> [i \in Slot |-> None],
            link |-> [c \in Conn |-> "new"]]
    /\ session = {} /\ game = FALSE /\ pending = {}
    /\ auth = [c \in Conn |-> {}]

-----------------------------------------------------------------------------
(* ClientArray and ClientManager.                                          *)

ByAccount(x, a) == IF x.acc1[a] \in x.usedIds THEN x.acc1[a] ELSE None
ByConn(x, c) == IF x.con1[c] \in x.usedIds THEN x.con1[c] ELSE None

Freed(x, i) == [x EXCEPT !.freeIds = @ \cup {i}, !.usedIds = @ \ {i}, !.used[i] = FALSE]

\* BiMap::remove_1 and remove_2 erase a node of one map and then read the
\* key of the other map from the erased node.  That read is undefined: the
\* other map loses its entry (r) or keeps it.
Unmapped(f, k, r) == IF r THEN [f EXCEPT ![k] = None] ELSE f

BugRemoved(x, c, r) ==
    LET i == x.con1[c]
    IN  IF i \notin x.usedIds \/ ~x.used[i] THEN x
        ELSE [Freed(x, i) EXCEPT !.con1[c] = None, !.con2 = Unmapped(@, i, r[2])]

\* removeByConnId, when the two reads yield r.  A slot whose used flag is
\* off is not freed, and nothing is unmapped.
Removed(x, c, r) ==
    LET i == x.con1[c]
    IN  IF i \notin x.usedIds \/ ~x.used[i] THEN x
        ELSE IF x.acc2[i] = None THEN Freed(x, i)
        ELSE [Freed(x, i) EXCEPT !.acc1 = Unmapped(@, x.acc2[i], r[1]), !.acc2[i] = None,
                                 !.con1[c] = None, !.con2 = Unmapped(@, i, r[2])]

RemoveByConnId(x, c) == {Removed(x, c, r) : r \in ReadBack \X ReadBack}

BugNewClient(x, a) ==
    IF x.acc1[a] # None THEN {<<x, x.acc1[a]>> : i \in {x.acc1[a]} \cap x.usedIds}
    ELSE {<<[x EXCEPT !.freeIds = @ \ {i}, !.usedIds = @ \cup {i}, !.used[i] = TRUE,
                      !.acc1[a] = i, !.acc2[i] = a], i>> : i \in x.freeIds}

\* newClient: pairs of the new record and the slot; none when it fails.  (The
\* force_close it does on an existing client changes nothing: the one caller
\* has just done it.  The insert succeeds: a free slot is in neither half of
\* account_id_bimap_.)
NewClient(x, a) ==
    IF x.acc1[a] # None
    THEN {<<[x EXCEPT !.account[x.acc1[a]] = a], x.acc1[a]>> : i \in {x.acc1[a]} \cap x.usedIds}
    ELSE {<<[x EXCEPT !.freeIds = @ \ {i}, !.usedIds = @ \cup {i}, !.used[i] = TRUE,
                      !.acc1[a] = i, !.acc2[i] = a, !.account[i] = a], i>> : i \in x.freeIds}

BugBind(x, c, i) ==
    IF x.con1[c] = None THEN [x EXCEPT !.con1[c] = i, !.con2[i] = c, !.conn[i] = c]
    ELSE [x EXCEPT !.conn[i] = c]

\* insertConnIdId, whose failure the caller ignores, and the slot's conn_id.
Bind(x, c, i) ==
    IF x.con1[c] = None /\ x.con2[i] = None
    THEN [x EXCEPT !.con1[c] = i, !.con2[i] = c, !.conn[i] = c]
    ELSE [x EXCEPT !.conn[i] = c]

-----------------------------------------------------------------------------
(* Ending a connection.                                                    *)

Up(x, c) == x.link[c] \in {"open", "closing"}

\* JmyTcpConnection::force_close, with onDisconnect.
ForceCloseConn(x, c) ==
    IF Up(x, c) THEN RemoveByConnId([x EXCEPT !.link[c] = "ended"], c) ELSE {x}

\* ClientInfo::force_close.
ForceCloseClient(x, i) ==
    IF x.used[i] /\ x.conn[i] # None THEN ForceCloseConn(x, x.conn[i]) ELSE {x}

BugCloseClient(x, i) ==
    LET c == x.conn[i]
    IN  IF x.used[i] /\ c # None /\ x.link[c] # "gone"
        THEN Removed([x EXCEPT !.link[c] = IF @ = "open" THEN "closing" ELSE @], c, <<TRUE, TRUE>>)
        ELSE x

\* ClientInfo::close, which does not release the slot but turns `used` off.
CloseClient(x, i) ==
    LET c == x.conn[i]
    IN  IF x.used[i] /\ c # None /\ x.link[c] # "gone"
        THEN [x EXCEPT !.used[i] = FALSE, !.link[c] = IF @ = "open" THEN "closing" ELSE @]
        ELSE x

\* ClientInfo::send and JmyTcpConnection::send.
CanSend(x, i) == x.used[i] /\ x.conn[i] # None /\ x.link[x.conn[i]] = "open"

\* The rest of a client message handler that returns an error.
Fail(x, c) == m' \in ForceCloseConn(x, c)

-----------------------------------------------------------------------------
(* Client connections, as TcpServer provides them.                         *)

Connect(c) ==
    /\ m.link[c] = "new"
    /\ m' = [m EXCEPT !.link[c] = "open"]
    /\ UNCHANGED <<session, game, pending, auth>>

\* The link breaks or a close is through: onDisconnect.
Disconnect(c) ==
    /\ Up(m, c)
    /\ m' \in ForceCloseConn(m, c)
    /\ UNCHANGED <<session, game, pending, auth>>

\* A packet received while closing takes the connection back.
Reopen(c) ==
    /\ m.link[c] = "closing"
    /\ m' = [m EXCEPT !.link[c] = "open"]
    /\ UNCHANGED <<session, game, pending, auth>>

\* run_conns frees the connection object.
Forget(c) ==
    /\ m.link[c] = "ended"
    /\ m' = [m EXCEPT !.link[c] = "gone"]
    /\ UNCHANGED <<session, game, pending, auth>>

-----------------------------------------------------------------------------
(* The login server announces a session (ConnLoginHandler).                *)

NewAccountSession(a) ==
    /\ session' = session \cup {a}
    /\ UNCHANGED <<m, game, pending, auth>>

-----------------------------------------------------------------------------
(* ClientHandler.                                                          *)

BugKicked(x, a) == {x}

\* The client already connected for the account is closed, before the
\* session is checked.
Kicked(x, a) == LET i == ByAccount(x, a) IN IF i = None THEN {x} ELSE ForceCloseClient(x, i)

\* checkSessionByAccount fails: no session, another code, or it is too old
\* (and then erased).
GetRoleRefused(c, a) ==
    /\ Up(m, c)
    /\ session' \in {session, session \ {a}}
    /\ \E x \in Kicked(m, a) : Fail(x, c)
    /\ UNCHANGED <<game, pending, auth>>

TooMany(x) == Cardinality(x.usedIds) >= Cardinality(Slot)

GetRole(c, a) ==
    /\ Up(m, c) /\ a \in session
    /\ session' = session \ {a}
    /\ auth' = [auth EXCEPT ![c] = @ \cup {a}]
    /\ \E x \in Kicked(m, a) :
        \/ NewClient(x, a) = {} /\ Fail(x, c) /\ UNCHANGED pending
        \/ \E p \in NewClient(x, a) :
            LET y == p[1]
                i == p[2]
            IN  IF TooMany(y) THEN Fail(CloseClient(y, i), c) /\ UNCHANGED pending
                ELSE IF game
                THEN /\ m' = Bind(y, c, i)
                     /\ pending' = pending \cup {[kind |-> "get", account |-> a]}
                ELSE Fail(Bind(y, c, i), c) /\ UNCHANGED pending
    /\ UNCHANGED game

CreateRole(c) ==
    LET i == ByConn(m, c)
    IN  /\ Up(m, c)
        /\ IF i = None THEN Fail(m, c) /\ UNCHANGED pending
           ELSE /\ pending' = IF game THEN pending \cup {[kind |-> "create", account |-> m.account[i]]}
                              ELSE pending
                /\ UNCHANGED m
        /\ UNCHANGED <<session, game, auth>>

\* The game server is asked to let the slot's current role in; nothing else
\* changes.
Entering(c) == ByConn(m, c) # None /\ m.role[ByConn(m, c)] # None

EnterGame(c) ==
    /\ Up(m, c)
    /\ IF Entering(c) THEN UNCHANGED m ELSE Fail(m, c)
    /\ UNCHANGED <<session, game, pending, auth>>

LeaveGame(c) ==
    LET i == ByConn(m, c)
    IN  /\ Up(m, c)
        /\ IF i = None THEN Fail(m, c)
           ELSE IF game THEN m' = CloseClient(m, i)
           ELSE Fail(CloseClient(m, i), c)
        /\ UNCHANGED <<session, game, pending, auth>>

\* The client that holds the account is closed unless this is its connection.
Reconnect(c, a) ==
    LET i == ByAccount(m, a)
    IN  /\ Up(m, c)
        /\ IF i = None THEN Fail(m, c)
           ELSE \E x \in IF m.conn[i] = c THEN {m} ELSE ForceCloseClient(m, i) :
                    IF x.link[c] = "open" THEN m' = x ELSE Fail(x, c)
        /\ UNCHANGED <<session, game, pending, auth>>

\* Any other message is passed on; without a client it is an error.
ClientDefault(c) ==
    /\ Up(m, c) /\ m.con1[c] = None
    /\ Fail(m, c)
    /\ UNCHANGED <<session, game, pending, auth>>

-----------------------------------------------------------------------------
(* GameHandler.  An error closes the link to the game server.              *)

ConnectGate ==
    /\ ~game
    /\ game' = TRUE
    /\ UNCHANGED <<m, session, pending, auth>>

\* The game server's process ends when its link to the gate does
\* (GameServer::run), and the requests it was working on with it.
GameLost ==
    /\ game
    /\ game' = FALSE /\ pending' = {}
    /\ UNCHANGED <<m, session, auth>>

\* The db server never answers (a failed query drops its callback).
RequestLost(r) ==
    /\ pending' = pending \ {r}
    /\ UNCHANGED <<m, session, game, auth>>

\* A message for a user that has no client, or whose client cannot be sent
\* to, is an error like any other.
GameDefault(i) ==
    /\ game /\ (i \notin m.usedIds \/ ~CanSend(m, i))
    /\ game' = FALSE /\ pending' = {}
    /\ UNCHANGED <<m, session, auth>>

SetRole(x, i, a) == [x EXCEPT !.role[i] = a]

\* The account has no role yet, or has one.
GetRoleResponse(a) ==
    LET r == [kind |-> "get", account |-> a]
        i == ByAccount(m, a)
    IN  /\ game /\ r \in pending
        /\ IF i # None /\ CanSend(m, i)
           THEN m' \in {m, SetRole(m, i, a)} /\ pending' = pending \ {r} /\ UNCHANGED game
           ELSE game' = FALSE /\ pending' = {} /\ UNCHANGED m
        /\ UNCHANGED <<session, auth>>

\* Here the role is recorded before the answer is sent.
CreateRoleResponse(a) ==
    LET r == [kind |-> "create", account |-> a]
        i == ByAccount(m, a)
    IN  /\ game /\ r \in pending
        /\ m' = IF i # None THEN SetRole(m, i, a) ELSE m
        /\ game' = (i # None /\ CanSend(m, i))
        /\ pending' = IF game' THEN pending \ {r} ELSE {}
        /\ UNCHANGED <<session, auth>>

-----------------------------------------------------------------------------
Client(c) ==
    \/ Connect(c) \/ Disconnect(c) \/ Reopen(c) \/ Forget(c)
    \/ CreateRole(c) \/ EnterGame(c) \/ LeaveGame(c) \/ ClientDefault(c)
    \/ \E a \in Account : GetRoleRefused(c, a) \/ GetRole(c, a) \/ Reconnect(c, a)

Game ==
    \/ ConnectGate \/ GameLost
    \/ \E r \in pending : RequestLost(r)
    \/ \E i \in Slot : GameDefault(i)
    \/ \E a \in Account : GetRoleResponse(a) \/ CreateRoleResponse(a)

Next == Game \/ (\E c \in Conn : Client(c)) \/ (\E a \in Account : NewAccountSession(a))

Spec == Init /\ [][Next]_vars
=============================================================================
