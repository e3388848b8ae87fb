---------------------------- MODULE MCGateLinks ----------------------------
(***************************************************************************)
(* Properties of GateLinks.                                                *)
(***************************************************************************)
EXTENDS GateLinks

\* Types of the links' state; a client outside the set is free, or was torn.
TypeOK ==
    /\ login \in [Login -> [up : BOOLEAN, cfg : {"none", "asked", "on"}, agent : 0..MaxLink]]
    /\ cfgAgent \in [Login -> CfgAgent]
    /\ cfgLink \in {"connecting", "on", "lost"} /\ gen \in 0..MaxGen
    /\ client \in [Client -> [login : Login \cup {None}, set : BOOLEAN,
                              st : {"free", "CONNECTING", "CONNECTED", "DISCONNECTED", "NOT_CONNECT"}]]
    /\ \A k \in Client : client[k].set \/ client[k].st = "free" \/ k \in torn
    /\ tracked \in [Login -> Client \cup {None}] /\ gl \in AgentTable(Login, Client)
    /\ link \in [Link -> [client : 0..MaxGen, gateEnd : BOOLEAN, loginEnd : BOOLEAN,
                          msg : {"none", "request", "response"}]]

\* global_data.cpp, jmy_tcp_client.cpp: login_clients_ never names a client
\* that was recycled (its memory is freed), and an agent of the gate always
\* leads to a connected client of that login server that is still in the set.
NoDangling ==
    \A l \in Login :
        /\ tracked[l] # None => client[tracked[l]].set /\ client[tracked[l]].login = l
        /\ LET k == gl.agent[l]
           IN  k # None => client[k].set /\ client[k].st = "CONNECTED" /\ client[k].login = l

\* conn_login_handler.cpp, gate_handler.cpp: when the gate has registered a
\* link and both ends are still open, the login server's agent for the gate is
\* on this link, so a select notification of the login server reaches it.
EndsAgree ==
    \A x \in Link :
        LET r == link[x]
        IN  r.gateEnd /\ r.loginEnd /\ gl.ofConn[r.client] # None
            => login[LoginOf(x)].agent = x

\* jmy_tcp_client_set.cpp: no answer to a registration ever reaches a client
\* that is registered.  A handler that fails in JmyTcpClientSet::run thus never
\* removes the element that run's iterator is at.
FailsOutsideSet ==
    \A x \in Link : link[x].gateEnd /\ link[x].msg \in {"request", "response"}
                    => gl.ofConn[link[x].client] = None

\* A login server that stays registered at the config server is linked to the
\* gate in the end, whatever happened to its earlier processes and links.  The
\* exceptions: the config link is lost, generate() is exhausted, a registered
\* link broke under the running process (its client is not started again), or
\* a client was torn.
EventuallyLinked ==
    \A l \in Login :
        login[l].cfg = "on" ~>
            \/ \E x \in Link : link[x].gateEnd /\ link[x].loginEnd /\ gl.agent[l] = link[x].client
            \/ login[l].cfg # "on" \/ cfgLink = "lost" \/ missed[l] \/ broke[l] \/ torn # {}
=============================================================================
