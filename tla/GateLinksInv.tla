---------------------------- MODULE GateLinksInv ----------------------------
(***************************************************************************)
(* The inductive invariant of GateLinks.  Its parts besides the properties *)
(* the run checks:                                                         *)
(*   NotesOK     the config server names a login server once per message   *)
(*   ClientsOK   a client that was generated has its login server          *)
(*   EndsOK      an open end leads to a generated client; the gate's end   *)
(*               is the connection of a connected client, which has no     *)
(*               other; the login server's end is in a running process     *)
(*   AnsweredOK  while a registration's answer is under way between two    *)
(*               open ends, the login server's agent is on that link       *)
(*   AgentsOK    both directions of the gate's agent table agree           *)
(***************************************************************************)
EXTENDS MCGateLinks

Note == [kind : {"list", "new"},
         logins : {s \in Seq(Login) : \A i, j \in DOMAIN s : s[i] = s[j] => i = j}]

NotesOK == notes \in Seq(Note)

ConfigOK ==
    /\ NotesOK /\ cfgAgent \in [Login -> CfgAgent]
    /\ cfgLink \in {"connecting", "on", "lost"}

LoginRec == [up : BOOLEAN, cfg : {"none", "asked", "on"}, agent : 0..MaxLink]
ClientRec == [login : Login \cup {None}, set : BOOLEAN,
              st : {"free", "CONNECTING", "CONNECTED", "DISCONNECTED", "NOT_CONNECT"}]
LinkRec == [client : 0..MaxGen, gateEnd : BOOLEAN, loginEnd : BOOLEAN,
            msg : {"none", "request", "response"}]

Typed ==
    /\ login \in [Login -> LoginRec] /\ gen \in 0..MaxGen
    /\ client \in [Client -> ClientRec]
    /\ tracked \in [Login -> Client \cup {None}] /\ gl \in AgentTable(Login, Client)
    /\ link \in [Link -> LinkRec]

\* What a client record may be, its connection torn or not.
ClientOK(c, isTorn) ==
    /\ c.login = None => c = NoClient
    /\ c.set \/ c.st = "free" \/ isTorn

ClientsOK ==
    /\ \A k \in Client : ClientOK(client[k], k \in torn)
    /\ \A k \in Client : k > gen => client[k] = NoClient

EndsOK ==
    /\ \A x \in Link : link[x].gateEnd \/ link[x].loginEnd
                       => link[x].client \in Client /\ LoginOf(x) # None
    /\ \A x \in Link : link[x].gateEnd => client[link[x].client].st = "CONNECTED"
    /\ \A x, y \in Link :
        link[x].gateEnd /\ link[y].gateEnd /\ link[x].client = link[y].client => x = y
    /\ \A x \in Link : link[x].loginEnd => login[LoginOf(x)].up

AnsweredOK ==
    \A x \in Link : link[x].gateEnd /\ link[x].loginEnd /\ link[x].msg = "response"
                    => login[LoginOf(x)].agent = x

AgentsOK ==
    /\ \A l \in Login : gl.connOf[l] = gl.agent[l]
    /\ \A l \in Login, k \in Client : gl.agent[l] = k <=> gl.ofConn[k] = l

LinksInv ==
    /\ Typed /\ ClientsOK /\ EndsOK /\ AnsweredOK /\ AgentsOK
    /\ NoDangling /\ EndsAgree /\ FailsOutsideSet
=============================================================================
