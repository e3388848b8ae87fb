------------------------------ MODULE GateGame ------------------------------
(***************************************************************************)
(* The gate with its game server: GateClients, and of game_server the      *)
(* PlayerManager and the handlers for what the gate passes on.  A user id  *)
(* of the game server is a slot of the gate.  The two exchange messages    *)
(* over one link, in order; get and create requests stay with GateClients  *)
(* (pending), because the db server answers them at any time.              *)
(*                                                                         *)
(* The game server's process ends when its link does, and then players     *)
(* and messages in flight are gone.  It and the gate see the end in one    *)
(* step: what the gate does between the two ends it could do before.       *)
(***************************************************************************)
EXTENDS GateClients, Sequences

CONSTANT MaxBox     \* bound: messages in flight on the link, each way

VARIABLES
    online,     \* online_role_ids_: the role of a user
    user,       \* all_players_: for a role with a player, the player's user_id
    inbox,      \* from the gate to the game server
    outbox,     \* from the game server to the gate: the users addressed
    entered,    \* history: the users that entered on this link, before they left
    held        \* history: the accounts a slot has been given to (ClientInfo::account)

gameVars == <<online, user, inbox, outbox, entered>>
allVars == <<vars, gameVars, held>>

ToGame == [kind : {"enter"}, user : Slot, role : Account] \cup [kind : {"leave", "data"}, user : Slot]

Leave(u) == [kind |-> "leave", user |-> u]

NoPlayers ==
    /\ online' = [u \in Slot |-> None] /\ user' = [r \in Account |-> None]
    /\ inbox' = <<>> /\ outbox' = <<>> /\ entered' = {}

GInit ==
    /\ Init
    /\ online = [u \in Slot |-> None] /\ user = [r \in Account |-> None]
    /\ inbox = <<>> /\ outbox = <<>> /\ entered = {}
    /\ held = [u \in Slot |-> {}]

-----------------------------------------------------------------------------
(* gate_server: what is sent to the game server.  Without one a message is *)
(* lost, which only the leave request's handler notices.                   *)

SendGame(s) ==
    /\ Len(inbox) + Len(s) <= MaxBox
    /\ inbox' = inbox \o s
    /\ entered' = entered \cup {u \in Slot : /\ \E k \in 1..Len(s) : s[k].kind = "enter" /\ s[k].user = u
                                            /\ \A k \in 1..Len(inbox) : inbox[k] # Leave(u)}
    /\ UNCHANGED <<online, user, outbox>>

ClientEnters(c) ==
    LET u == ByConn(m, c)
    IN  /\ EnterGame(c)
        /\ SendGame(IF game /\ Entering(c)
                    THEN <<[kind |-> "enter", user |-> u, role |-> m.role[u]]>> ELSE <<>>)

ClientLeaves(c) ==
    LET u == ByConn(m, c)
    IN  /\ LeaveGame(c)
        /\ SendGame(IF game /\ u # None THEN <<Leave(u)>> ELSE <<>>)

BugClientData(c) ==
    /\ Up(m, c) /\ game
    /\ SendGame(<<[kind |-> "data", user |-> m.con1[c]]>>)
    /\ UNCHANGED vars

\* processDefault, when the connection has a client.
ClientData(c) ==
    /\ Up(m, c) /\ m.con1[c] # None /\ game
    /\ SendGame(<<[kind |-> "data", user |-> m.con1[c]]>>)
    /\ UNCHANGED vars

\* The other events of the gate concern no player.
ClientOther ==
    /\ \/ \E c \in Conn :
            \/ Connect(c) \/ Disconnect(c) \/ Reopen(c) \/ Forget(c)
            \/ CreateRole(c) \/ ClientDefault(c)
            \/ \E a \in Account : GetRoleRefused(c, a) \/ GetRole(c, a) \/ Reconnect(c, a)
       \/ \E a \in Account : NewAccountSession(a)
       \/ \E r \in pending : RequestLost(r)
    /\ UNCHANGED gameVars

-----------------------------------------------------------------------------
(* game_server: ConnGateHandler.                                           *)

Starts == ConnectGate /\ NoPlayers

Ends == GameLost /\ NoPlayers

\* PlayerManager::get.
PlayerOf(u) == IF online[u] # None /\ user[online[u]] # None THEN user[online[u]] ELSE None

BugIndex(u, r) ==
    \E v \in Slot \ {u} : /\ online' = [online EXCEPT ![v] = r]
                         /\ user' = [user EXCEPT ![r] = IF @ = None THEN v ELSE @]

BugMalloc(u, r) ==
    /\ online' = online
    /\ user' = [user EXCEPT ![r] = IF @ = None THEN u ELSE @]

\* PlayerManager::malloc: a role that has a player keeps it, the insert fails.
Malloc(u, r) ==
    /\ online' = [online EXCEPT ![u] = r]
    /\ user' = [user EXCEPT ![r] = IF @ = None THEN u ELSE @]

Received(kind) == game /\ inbox # <<>> /\ Head(inbox).kind = kind /\ inbox' = Tail(inbox)

SendGate(s) == Len(outbox) + Len(s) <= MaxBox /\ outbox' = outbox \o s

\* A user that has a player keeps it whatever role is asked for.  It gets an
\* answer and a notification.
ProcessEnterGame ==
    LET q == Head(inbox)
    IN  /\ Received("enter")
        /\ IF PlayerOf(q.user) = None THEN Malloc(q.user, q.role) ELSE UNCHANGED <<online, user>>
        /\ SendGate(<<q.user, q.user>>)
        /\ UNCHANGED <<vars, entered>>

BugFree(u) ==
    /\ online' = [online EXCEPT ![u] = None]
    /\ user' = [r \in Account |-> IF r = online[u] THEN None ELSE user[r]]

\* PlayerManager::free, called with the request's role id, which the gate
\* does not set: 0 is no user id, and nothing is freed.
Free(u) == UNCHANGED <<online, user>>

\* A user without a player is an error, which ends the server.
ProcessLeaveGame ==
    \/ /\ Received("leave") /\ PlayerOf(Head(inbox).user) # None
       /\ Free(Head(inbox).user)
       /\ UNCHANGED <<vars, outbox, entered>>
    \/ /\ game /\ inbox # <<>> /\ Head(inbox).kind = "leave"
       /\ PlayerOf(Head(inbox).user) = None
       /\ Ends

\* A chat message is answered, and the role it names notified.
ProcessChat ==
    /\ Received("data")
    /\ \E s \in {<<>>} \cup {<<user[r]>> : r \in {q \in Account : user[q] # None}} :
            SendGate(<<Head(inbox).user>> \o s)
    /\ UNCHANGED <<vars, online, user, entered>>

\* Role data go to the db server (which ends the link, and so the server,
\* when the user has no role: Ends); gm commands are not answered.
ProcessSetRoleData ==
    /\ Received("data")
    /\ UNCHANGED <<vars, online, user, outbox, entered>>

-----------------------------------------------------------------------------
(* gate_server: GameHandler.                                               *)

\* An error ends the link.
Answered ==
    /\ \E a \in Account : GetRoleResponse(a) \/ CreateRoleResponse(a)
    /\ IF game' THEN UNCHANGED gameVars ELSE NoPlayers

PassedOn ==
    /\ game /\ outbox # <<>>
    /\ \/ /\ Head(outbox) \in m.usedIds /\ CanSend(m, Head(outbox))
          /\ outbox' = Tail(outbox)
          /\ UNCHANGED <<vars, online, user, inbox, entered>>
       \/ GameDefault(Head(outbox)) /\ NoPlayers

-----------------------------------------------------------------------------
GNext ==
    /\ \/ \E c \in Conn : ClientEnters(c) \/ ClientLeaves(c) \/ ClientData(c)
       \/ ClientOther \/ Answered \/ PassedOn
       \/ Starts \/ Ends
       \/ ProcessEnterGame \/ ProcessLeaveGame \/ ProcessChat \/ ProcessSetRoleData
    /\ held' = [u \in Slot |-> held[u] \cup ({m'.account[u]} \ {None})]

GSpec == GInit /\ [][GNext]_allVars
=============================================================================
