----------------------------- MODULE GateLinks -----------------------------
(***************************************************************************)
(* How a gate server finds the login servers and keeps a link to each:     *)
(*   config_server  ConnHandler: login servers register; the gate is told  *)
(*                  the list when it connects and every new one after that *)
(*   gate_server    ConnConfigHandler starts a JmyTcpClient for each login *)
(*                  server it hears of; ConnLoginHandler registers the     *)
(*                  link; JmyTcpClientSet::run reconnects what is in the   *)
(*                  set; GlobalData keeps the agents and login_clients_    *)
(*   login_server   GateHandler keeps one agent per gate; the process ends *)
(*                  when its link to the config server does                *)
(* Login servers crash and restart; links break.  There is one gate and    *)
(* one config server, which stay up.                                       *)
(*                                                                         *)
(* A client is named by its connection id, which generate() never reuses.  *)
(* A TCP link has two ends that are closed at different times; at most one *)
(* message is on it while it is being registered.                          *)
(*                                                                         *)
(* Bug... : see TcpServer.                                                 *)
(***************************************************************************)
EXTENDS Naturals, Sequences, FiniteSets, SequencesExt, Agents

CONSTANTS
    Login,       \* login server ids
    MaxGen,      \* login clients generate() can make (10 less the config client)
    MaxLink,     \* bound: links with an open end at a time
    MaxStart,    \* bound: starts of login servers
    MaxBreak,    \* bound: links lost by the network, or by the login server's choice
    ReadBack     \* what ConnHandler::onDisconnect reads from the erased node

ASSUME LinksConstants ==
    /\ IsFiniteSet(Login) /\ None \notin Login /\ None \notin Nat
    /\ MaxGen \in Nat /\ MaxLink \in Nat /\ MaxStart \in Nat /\ MaxBreak \in Nat
    /\ ReadBack \subseteq BOOLEAN /\ ReadBack # {}

Client == 1..MaxGen
Link   == 1..MaxLink

VARIABLES
    login,      \* login servers: process, link to the config server, and the
                \* link its gate agent sends on (0: none)
    cfgAgent,   \* ConnHandler::login_mgr_
    cfgLink,    \* the gate's link to the config server
    notes,      \* what the config server has told the gate
    gen,        \* clients generated so far (used_ids_)
    client,     \* JmyTcpClient and its connection
    tracked,    \* GlobalData::login_clients_
    gl,         \* GlobalData::login_mgr_
    link,       \* TCP links between gate and login servers
    starts,     \* starts so far
    breaks      \* breaks so far

\* History.  torn: clients recycled while their connection was live; broke:
\* a link its login server had registered was lost under the running
\* process; missed: no client could be started for the login server.
VARIABLES torn, broke, missed

bounds == <<starts, breaks>>
gate == <<gen, client, tracked, gl, torn>>
vars == <<login, cfgAgent, cfgLink, notes, gate, link, bounds, broke, missed>>

\* cfgAgent: "live" while the login's link is up, "stale" after it ended and
\* before onDisconnect ran, "stuck" when onDisconnect has missed it.
CfgAgent == {"none", "live", "stale", "stuck"}

NoClient == [login |-> None, st |-> "free", set |-> FALSE]
NoLink == [client |-> 0, gateEnd |-> FALSE, loginEnd |-> FALSE, msg |-> "none"]

Init ==
    /\ login = [l \in Login |-> [up |-> FALSE, cfg |-> "none", agent |-> 0]]
    /\ cfgAgent = [l \in Login |-> "none"]
    /\ cfgLink = "connecting" /\ notes = <<>>
    /\ gen = 0 /\ client = [k \in Client |-> NoClient]
    /\ tracked = [l \in Login |-> None] /\ gl = NoAgents(Login, Client)
    /\ link = [x \in Link |-> NoLink]
    /\ starts = 0 /\ breaks = 0
    /\ torn = {} /\ broke = [l \in Login |-> FALSE] /\ missed = [l \in Login |-> FALSE]

LoginOf(x) == client[link[x].client].login

\* A link with neither end open is forgotten.
Tidy(r) == IF r.gateEnd \/ r.loginEnd THEN r ELSE NoLink

-----------------------------------------------------------------------------
(* The login servers and the config server.                                *)

LoginStart(l) ==
    /\ ~login[l].up /\ starts < MaxStart
    /\ starts' = starts + 1
    /\ login' = [login EXCEPT ![l] = [up |-> TRUE, cfg |-> "asked", agent |-> 0]]
    /\ broke' = [broke EXCEPT ![l] = FALSE] /\ missed' = [missed EXCEPT ![l] = FALSE]
    /\ UNCHANGED <<cfgAgent, cfgLink, notes, gate, link, breaks>>

\* The process of l ends, and with it its end of every link.
Exit(l) ==
    /\ login' = [login EXCEPT ![l].up = FALSE, ![l].cfg = "none", ![l].agent = 0]
    /\ link' = [x \in Link |-> IF link[x].loginEnd /\ LoginOf(x) = l
                               THEN Tidy([link[x] EXCEPT !.loginEnd = FALSE,
                                              !.msg = IF @ = "request" THEN "none" ELSE @])
                               ELSE link[x]]

LoginCrash(l) ==
    /\ login[l].up
    /\ Exit(l)
    /\ cfgAgent' = [cfgAgent EXCEPT ![l] = IF login[l].cfg = "on" THEN "stale" ELSE @]
    /\ UNCHANGED <<cfgLink, notes, gate, bounds, broke, missed>>

\* ConnHandler::processLoginConnect.  A login server the config server still
\* has an agent for is refused, and LoginServer::run then ends.
LoginConnect(l) ==
    /\ login[l].cfg = "asked"
    /\ IF cfgAgent[l] = "none"
       THEN /\ login' = [login EXCEPT ![l].cfg = "on"]
            /\ cfgAgent' = [cfgAgent EXCEPT ![l] = "live"]
            /\ notes' = IF cfgLink = "on" THEN Append(notes, [kind |-> "new", logins |-> <<l>>]) ELSE notes
            /\ UNCHANGED link
       ELSE Exit(l) /\ UNCHANGED <<cfgAgent, notes>>
    /\ UNCHANGED <<cfgLink, gate, bounds, broke, missed>>

\* ConnHandler::onDisconnect erases the connection's node and reads the login
\* id from it afterwards.  Another value leaves the agent where it is.
Forget == {IF r THEN "none" ELSE "stuck" : r \in ReadBack}

\* The config server sees that the link of a login server has ended: it is
\* dead already, or its process ends with it.
LoginLost(l) ==
    /\ cfgAgent[l] \in {"live", "stale"}
    /\ cfgAgent' \in {[cfgAgent EXCEPT ![l] = f] : f \in Forget}
    /\ IF cfgAgent[l] = "live" THEN Exit(l) /\ breaks < MaxBreak /\ breaks' = breaks + 1
       ELSE UNCHANGED <<login, link, breaks>>
    /\ UNCHANGED <<cfgLink, notes, gate, starts, broke, missed>>

\* ConnHandler::processGateConnect: the gate is sent the login servers there
\* are agents for.
GateConnect ==
    /\ cfgLink = "connecting"
    /\ cfgLink' = "on"
    /\ \E s \in SetToSeqs({l \in Login : cfgAgent[l] # "none"}) :
        notes' = <<[kind |-> "list", logins |-> s]>>
    /\ UNCHANGED <<login, cfgAgent, gate, link, bounds, broke, missed>>

\* The gate's link to the config server ends or never comes up.  It is not in
\* a client set, so nothing reconnects it.
GateConfigLost ==
    /\ cfgLink # "lost" /\ breaks < MaxBreak
    /\ cfgLink' = "lost" /\ notes' = <<>> /\ breaks' = breaks + 1
    /\ UNCHANGED <<login, cfgAgent, gate, link, starts, broke, missed>>

-----------------------------------------------------------------------------
(* The gate: ConnConfigHandler and GateServer::startLoginClient.           *)

BugGranted(n) == n

\* How many clients generate() can still make of the n wanted: ids are never
\* given back.
Granted(n) == IF gen + n > MaxGen THEN MaxGen - gen ELSE n

\* addLoginClient keeps the client it has for the login server.
Track(l, k) == IF tracked[l] = None THEN k ELSE tracked[l]

\* A client is started for each login server named.  processNewLoginNotify
\* fails when it cannot be, which ends the link to the config server;
\* processConnectConfigResponse goes on.  (After a client was torn the next
\* generate() hands its live connection out again: not modelled.)
HandleNote ==
    /\ notes # <<>> /\ torn = {}
    /\ LET s == Head(notes).logins
           n == Granted(Len(s))
           K == gen + 1 .. gen + n
           At(l) == gen + (CHOOSE i \in DOMAIN s : s[i] = l)
           fails == n < Len(s) /\ Head(notes).kind = "new"
       IN  /\ gen' = gen + n
           /\ client' = [k \in Client |-> IF k \in K
                            THEN [login |-> s[k - gen], st |-> "CONNECTING", set |-> TRUE]
                            ELSE client[k]]
           /\ tracked' = [l \in Login |-> IF \E k \in K : s[k - gen] = l THEN Track(l, At(l))
                                          ELSE tracked[l]]
           /\ missed' = [l \in Login |-> missed[l] \/ \E i \in n + 1 .. Len(s) : s[i] = l]
           /\ cfgLink' = IF fails THEN "lost" ELSE cfgLink
           /\ notes' = IF fails THEN <<>> ELSE Tail(notes)
    /\ UNCHANGED <<login, cfgAgent, gl, torn, link, bounds, broke>>

-----------------------------------------------------------------------------
(* The gate: connections to login servers.                                 *)

SetState(k, s) == client' = [client EXCEPT ![k].st = s]

BugConnected(k) ==
    /\ client[k].st = "CONNECTING" /\ login[client[k].login].up
    /\ \E x \in Link :
        /\ link[x] = NoLink /\ \A y \in Link : link[y] = NoLink => x <= y
        /\ link' = [link EXCEPT ![x] = [client |-> k, gateEnd |-> TRUE, loginEnd |-> TRUE,
                                        msg |-> IF client[k].set THEN "request" ELSE "none"]]
    /\ gl' = IF gl.agent[client[k].login] = None THEN NewAgent(gl, client[k].login, k) ELSE gl
    /\ SetState(k, "CONNECTED")
    /\ UNCHANGED <<login, cfgAgent, cfgLink, notes, gen, tracked, torn, bounds, broke, missed>>

\* The connect completes; onConnect sends the gate's request, unless the
\* client was recycled meanwhile.
Connected(k) ==
    /\ client[k].st = "CONNECTING" /\ login[client[k].login].up
    /\ \E x \in Link :
        /\ link[x] = NoLink /\ \A y \in Link : link[y] = NoLink => x <= y
        /\ link' = [link EXCEPT ![x] = [client |-> k, gateEnd |-> TRUE, loginEnd |-> TRUE,
                                        msg |-> IF client[k].set THEN "request" ELSE "none"]]
    /\ SetState(k, "CONNECTED")
    /\ UNCHANGED <<login, cfgAgent, cfgLink, notes, gen, tracked, gl, torn, bounds, broke, missed>>

ConnectFailed(k) ==
    /\ client[k].st = "CONNECTING" /\ ~login[client[k].login].up
    /\ SetState(k, "NOT_CONNECT")
    /\ UNCHANGED <<login, cfgAgent, cfgLink, notes, gen, tracked, gl, torn, link, bounds, broke, missed>>

BugRetry(k) ==
    /\ client[k].set /\ client[k].st = "DISCONNECTED"
    /\ SetState(k, "NOT_CONNECT")
    /\ UNCHANGED <<login, cfgAgent, cfgLink, notes, gen, tracked, gl, torn, link, bounds, broke, missed>>

\* JmyTcpClientSet::run on a client without a connection: reset it first, and
\* connect again when the interval is over.
Retry(k) ==
    /\ client[k].set
    /\ \/ client[k].st = "DISCONNECTED" /\ SetState(k, "NOT_CONNECT")
       \/ client[k].st = "NOT_CONNECT" /\ SetState(k, "CONNECTING")
    /\ UNCHANGED <<login, cfgAgent, cfgLink, notes, gen, tracked, gl, torn, link, bounds, broke, missed>>

Live(k) == client[k].st \in {"CONNECTING", "CONNECTED"}

BugOnDisconnect(k) ==
    LET l == gl.ofConn[k]
        t == IF l = None THEN None ELSE tracked[l]
    IN  /\ gl' = IF l = None THEN gl ELSE DeleteAgent(gl, l)
        /\ client' = IF t = None THEN [client EXCEPT ![k].st = "DISCONNECTED"]
                     ELSE [client EXCEPT ![k].st = "DISCONNECTED", ![t].set = FALSE,
                                         ![t].st = IF t = k \/ ~Live(t) THEN "free" ELSE @]
        /\ torn' = IF t # None /\ t # k /\ Live(t) THEN torn \cup {t} ELSE torn
        /\ UNCHANGED tracked

\* force_close of the connection of k with ConnLoginHandler::onDisconnect.  A
\* registered link takes its agent along, and the client login_clients_ has
\* for that login server - which need not be k - is taken out of the set and
\* recycled, its connection not closed.
OnDisconnect(k) ==
    LET l == gl.ofConn[k]
        t == IF l = None THEN None ELSE tracked[l]
    IN  /\ gl' = IF l = None THEN gl ELSE DeleteAgent(gl, l)
        /\ tracked' = IF l = None THEN tracked ELSE [tracked EXCEPT ![l] = None]
        /\ client' = IF t = None THEN [client EXCEPT ![k].st = "DISCONNECTED"]
                     ELSE [client EXCEPT ![k].st = "DISCONNECTED", ![t].set = FALSE,
                                         ![t].st = IF t = k \/ ~Live(t) THEN "free" ELSE @]
        /\ torn' = IF t # None /\ t # k /\ Live(t) THEN torn \cup {t} ELSE torn

CloseGateEnd(x) ==
    /\ OnDisconnect(link[x].client)
    /\ link' = [link EXCEPT ![x] = Tidy([link[x] EXCEPT !.gateEnd = FALSE,
                                             !.msg = IF @ = "response" THEN "none" ELSE @])]
    /\ UNCHANGED gen

\* GateHandler::onDisconnect in the login server.
CloseLoginEnd(x) ==
    /\ login' = [login EXCEPT ![LoginOf(x)].agent = IF @ = x THEN 0 ELSE @]
    /\ link' = [link EXCEPT ![x] = Tidy([link[x] EXCEPT !.loginEnd = FALSE,
                                             !.msg = IF @ = "request" THEN "none" ELSE @])]

BugLoginRequest(x) ==
    /\ link[x].loginEnd /\ link[x].msg = "request"
    /\ login' = [login EXCEPT ![LoginOf(x)].agent = x]
    /\ link' = [link EXCEPT ![x].msg = IF link[x].gateEnd THEN "response" ELSE "none"]
    /\ UNCHANGED <<cfgAgent, cfgLink, notes, gate, bounds, broke, missed>>

\* GateHandler::processConnectLogin in the login server: one agent per gate.
LoginRequest(x) ==
    /\ link[x].loginEnd /\ link[x].msg = "request"
    /\ IF login[LoginOf(x)].agent = 0
       THEN /\ login' = [login EXCEPT ![LoginOf(x)].agent = x]
            /\ link' = [link EXCEPT ![x].msg = IF link[x].gateEnd THEN "response" ELSE "none"]
       ELSE CloseLoginEnd(x)
    /\ UNCHANGED <<cfgAgent, cfgLink, notes, gate, bounds, broke, missed>>

\* ConnLoginHandler::processConnectLoginResponse, from JmyTcpClientSet::run.
LoginResponse(x) ==
    LET k == link[x].client
        l == client[k].login
    IN  /\ link[x].gateEnd /\ link[x].msg = "response" /\ client[k].set
        /\ IF gl.agent[l] = None
           THEN /\ gl' = NewAgent(gl, l, k)
                /\ link' = [link EXCEPT ![x].msg = "none"]
                /\ UNCHANGED <<gen, client, tracked, torn>>
           ELSE CloseGateEnd(x)
        /\ UNCHANGED <<login, cfgAgent, cfgLink, notes, bounds, broke, missed>>

\* An end is told that the other one is closed.
GateEndTold(x) ==
    /\ link[x].gateEnd /\ ~link[x].loginEnd
    /\ CloseGateEnd(x)
    /\ UNCHANGED <<login, cfgAgent, cfgLink, notes, bounds, broke, missed>>

LoginEndTold(x) ==
    /\ link[x].loginEnd /\ ~link[x].gateEnd
    /\ CloseLoginEnd(x)
    /\ UNCHANGED <<cfgAgent, cfgLink, notes, gate, bounds, broke, missed>>

\* A link is lost, and one end sees it first; also the login server closing
\* the link because of an answer it cannot pass on (LoginServer).
Break(x) ==
    /\ link[x].gateEnd /\ link[x].loginEnd /\ breaks < MaxBreak
    /\ breaks' = breaks + 1
    /\ broke' = [broke EXCEPT ![LoginOf(x)] = @ \/ login[LoginOf(x)].agent = x]
    /\ \/ CloseGateEnd(x) /\ UNCHANGED login
       \/ CloseLoginEnd(x) /\ UNCHANGED gate
    /\ UNCHANGED <<cfgAgent, cfgLink, notes, starts, missed>>

-----------------------------------------------------------------------------
Next ==
    \/ \E l \in Login : LoginStart(l) \/ LoginCrash(l) \/ LoginConnect(l) \/ LoginLost(l)
    \/ GateConnect \/ GateConfigLost \/ HandleNote
    \/ \E k \in Client : Connected(k) \/ ConnectFailed(k) \/ Retry(k)
    \/ \E x \in Link : LoginRequest(x) \/ LoginResponse(x) \/ GateEndTold(x) \/ LoginEndTold(x)
                       \/ Break(x)

Spec == Init /\ [][Next]_vars

\* The main loops keep running and TCP reports a closed peer: every step but
\* the starts, crashes and breaks is taken when it stays possible.
Fairness ==
    /\ \A l \in Login : WF_vars(LoginConnect(l)) /\ WF_vars(cfgAgent[l] = "stale" /\ LoginLost(l))
    /\ WF_vars(GateConnect) /\ WF_vars(HandleNote)
    /\ \A k \in Client : WF_vars(Connected(k)) /\ WF_vars(ConnectFailed(k)) /\ WF_vars(Retry(k))
    /\ \A x \in Link : /\ WF_vars(LoginRequest(x)) /\ WF_vars(LoginResponse(x))
                       /\ WF_vars(GateEndTold(x)) /\ WF_vars(LoginEndTold(x))

FairSpec == Spec /\ Fairness
=============================================================================
