---------------------------- MODULE LoginServer ----------------------------
(***************************************************************************)
(* login_server: a client logs in with an account, selects a gate server   *)
(* and is sent the session code that gate made for it.                     *)
(*   ClientHandler   login and select-server requests of the clients       *)
(*   GateHandler     the links to the gates and their answers              *)
(*   ClientManager   one agent per logged-in account, with the gate the    *)
(*                   account selected last (ClientData::gate_id)           *)
(*   GateServerList  the gates that are connected, and the configured list *)
(* and, of the gate server, the handler that makes a session code.         *)
(*                                                                         *)
(* One thread runs the login server, so each handler is one step.  A       *)
(* handler that returns an error makes libjmy force_close the connection   *)
(* the message came on, which calls onDisconnect synchronously.            *)
(*                                                                         *)
(* A code is named by the selection it was made for; messages carry that   *)
(* number only for the properties.                                         *)
(***************************************************************************)
EXTENDS Naturals, Sequences, FiniteSets, Agents

CONSTANTS
    Account,
    Conn,         \* bound: client connections accepted in a behaviour
    Gate,         \* gate ids
    MaxClients,   \* SERVER_CONFIG.max_conn
    MaxLogin,     \* bound: login requests on one connection
    MaxSel        \* bound: selections in a behaviour

ASSUME LoginConstants ==
    /\ None \notin Account \cup Conn \cup Gate
    /\ MaxClients \in Nat /\ MaxLogin \in Nat /\ MaxSel \in Nat

VARIABLES
    ag,         \* ClientManager::agent_mgr_
    selGate,    \* ClientData::gate_id of the account's agent (None: 0)
    link,       \* the client connections
    gateUp,     \* the gates with an agent: their link is up and registered
    listed,     \* gate_conf_list_
    toGate,     \* select notifications on their way to a gate
    fromGate,   \* answers on their way back
    session     \* account_session_map_ of each gate: the code of an account

\* History: the logins on a connection, the selections so far, an account's
\* latest selection, and the last answer sent to a client.
VARIABLES logins, nsel, latest, answer

clients == <<ag, selGate, link, logins>>
hist    == <<nsel, latest, answer>>
vars    == <<clients, gateUp, listed, toGate, fromGate, session, hist>>

Sel == [account : Account, n : 1..MaxSel]
NoAnswer == [account |-> None, gate |-> None, from |-> None, n |-> 0]

Init ==
    /\ ag = NoAgents(Account, Conn)
    /\ selGate = [a \in Account |-> None]
    /\ link = [c \in Conn |-> "new"]
    /\ logins = [c \in Conn |-> <<>>]
    /\ gateUp = {} /\ listed = {}
    /\ toGate = [g \in Gate |-> <<>>] /\ fromGate = [g \in Gate |-> <<>>]
    /\ session = [g \in Gate |-> [a \in Account |-> 0]]
    /\ nsel = 0 /\ latest = [a \in Account |-> 0] /\ answer = NoAnswer

-----------------------------------------------------------------------------
(* Client connections, as TcpServer provides them: at most max_conn open.  *)

Open == {c \in Conn : link[c] = "open"}

BugForceClose(x, l, c) == <<x, [l EXCEPT ![c] = "ended"]>>

\* JmyTcpConnection::force_close with ClientHandler::onDisconnect: the agent
\* table x and the connections l that result.
ForceClose(x, l, c) ==
    IF l[c] = "open" THEN <<DeleteAgentByConn(x, c), [l EXCEPT ![c] = "ended"]>> ELSE <<x, l>>

\* The end of a client handler that fails on connection c.
Fail(c) == LET f == ForceClose(ag, link, c) IN ag' = f[1] /\ link' = f[2]

IsFull == Cardinality({a \in Account : ag.agent[a] # None}) >= MaxClients

\* onConnect closes the connection at once when there are too many agents.
Connect(c) ==
    /\ link[c] = "new" /\ Cardinality(Open) < MaxClients
    /\ link' = [link EXCEPT ![c] = IF IsFull THEN "ended" ELSE "open"]
    /\ UNCHANGED <<ag, selGate, logins, gateUp, listed, toGate, fromGate, session, hist>>

Disconnect(c) ==
    /\ link[c] = "open"
    /\ Fail(c)
    /\ UNCHANGED <<selGate, logins, gateUp, listed, toGate, fromGate, session, hist>>

-----------------------------------------------------------------------------
(* ClientHandler::processLogin.                                            *)

BugKicked(a) == <<DeleteAgent(ag, a), link>>

\* An agent the account already has is closed and deleted.  Its connection
\* may be the one that asks.
Kicked(a) ==
    IF ag.agent[a] = None THEN <<ag, link>>
    ELSE LET f == ForceClose(ag, link, ag.agent[a]) IN <<DeleteAgent(f[1], a), f[2]>>

\* The new agent's data is value-initialised.  Sending the answer fails when
\* the connection was just closed, but the agent stays.
Login(c, a) ==
    /\ link[c] = "open" /\ Len(logins[c]) < MaxLogin
    /\ LET k == Kicked(a)
       IN  ag' = NewAgent(k[1], a, c) /\ link' = k[2]
    /\ selGate' = [selGate EXCEPT ![a] = None]
    /\ logins' = [logins EXCEPT ![c] = Append(@, a)]
    /\ UNCHANGED <<gateUp, listed, toGate, fromGate, session, hist>>

-----------------------------------------------------------------------------
(* ClientHandler::processSelectServer.                                     *)

BugSelected(a, g) == [selGate EXCEPT ![a] = IF @ = None THEN g ELSE @]
Selected(a, g) == [selGate EXCEPT ![a] = g]

\* The account is the one the connection's id is mapped to.
SelectServer(c, g) ==
    LET a == ag.ofConn[c]
    IN  /\ link[c] = "open" /\ g \in gateUp /\ a # None /\ nsel < MaxSel
        /\ toGate' = [toGate EXCEPT ![g] = Append(@, [account |-> a, n |-> nsel + 1])]
        /\ selGate' = IF ag.agent[a] # None THEN Selected(a, g) ELSE selGate
        /\ nsel' = nsel + 1 /\ latest' = [latest EXCEPT ![a] = nsel + 1]
        /\ UNCHANGED <<ag, link, logins, gateUp, listed, fromGate, session, answer>>

\* No such gate is connected, or the connection has not logged in.
SelectRefused(c, g) ==
    /\ link[c] = "open" /\ (g \notin gateUp \/ ag.ofConn[c] = None)
    /\ Fail(c)
    /\ UNCHANGED <<selGate, logins, gateUp, listed, toGate, fromGate, session, hist>>

-----------------------------------------------------------------------------
(* The gates.  ConnLoginHandler::processSelectedServerNotify in the gate   *)
(* makes a code; newAccountSession replaces the one the account had.       *)

SelectedServerNotify(g) ==
    /\ toGate[g] # <<>>
    /\ LET q == Head(toGate[g])
       IN  /\ session' = [session EXCEPT ![g][q.account] = q.n]
           /\ fromGate' = [fromGate EXCEPT ![g] = Append(@, q)]
    /\ toGate' = [toGate EXCEPT ![g] = Tail(@)]
    /\ UNCHANGED <<clients, gateUp, listed, hist>>

\* The link to a gate ends (GateHandler::onDisconnect), and what is on it.
\* A notification the gate still handles is one it handled before.
DropGate(g) ==
    /\ gateUp' = gateUp \ {g}
    /\ toGate' = [toGate EXCEPT ![g] = <<>>] /\ fromGate' = [fromGate EXCEPT ![g] = <<>>]

GateLost(g) ==
    /\ g \in gateUp
    /\ DropGate(g)
    /\ UNCHANGED <<clients, listed, session, hist>>

\* GateHandler::processConnectLogin.
ConnectLogin(g) ==
    /\ g \notin gateUp
    /\ gateUp' = gateUp \cup {g}
    /\ UNCHANGED <<clients, listed, toGate, fromGate, session, hist>>

\* Whether processSelectedServerResponse can answer the account: an agent,
\* the gate it selected last connected and listed, a connection to send on.
Answerable(a) ==
    /\ ag.agent[a] # None /\ link[ag.agent[a]] = "open"
    /\ selGate[a] \in gateUp \cap listed

\* The client is told the address of the gate its agent selected last and
\* the code in the answer, which gate g made.
Answered(q, g) == [account |-> q.account, gate |-> selGate[q.account], from |-> g, n |-> q.n]

\* An answer that cannot be passed on ends the link to the gate.
SelectedServerResponse(g) ==
    /\ fromGate[g] # <<>>
    /\ LET q == Head(fromGate[g])
       IN  IF Answerable(q.account)
           THEN /\ answer' = Answered(q, g)
                /\ fromGate' = [fromGate EXCEPT ![g] = Tail(@)]
                /\ UNCHANGED <<gateUp, toGate>>
           ELSE DropGate(g) /\ UNCHANGED answer
    /\ UNCHANGED <<clients, listed, session, nsel, latest>>

\* ConnConfigHandler::processConnectConfigResponse and processGateConfListNotify.
GateConfList ==
    /\ listed = {}
    /\ listed' = Gate
    /\ UNCHANGED <<clients, gateUp, toGate, fromGate, session, hist>>

-----------------------------------------------------------------------------
Client(c) ==
    \/ Connect(c) \/ Disconnect(c)
    \/ \E a \in Account : Login(c, a)
    \/ \E g \in Gate : SelectServer(c, g) \/ SelectRefused(c, g)

GateStep(g) ==
    SelectedServerNotify(g) \/ SelectedServerResponse(g) \/ GateLost(g) \/ ConnectLogin(g)

Next == (\E c \in Conn : Client(c)) \/ (\E g \in Gate : GateStep(g)) \/ GateConfList

Spec == Init /\ [][Next]_vars
=============================================================================
