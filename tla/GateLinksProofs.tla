-------------------------- MODULE GateLinksProofs --------------------------
(***************************************************************************)
(* Proofs about GateLinks, for any finite set of login servers and any     *)
(* numbers of clients, links, starts and breaks.                           *)
(***************************************************************************)
EXTENDS GateLinksInv, TLAPS, FiniteSetTheorems, SequenceTheorems

core == <<login, gen, client, tracked, gl, link, torn>>

\* Lemma: None is neither a login server nor a client or a link.
LEMMA NoneOutside == None \notin Login /\ None \notin Client /\ 0 \notin Client
BY LinksConstants DEF Client

\* Lemma: what Tidy returns differs from its argument only in the client of a
\* link that is closed at both ends.
LEMMA TidyIs ==
    ASSUME NEW r \in LinkRec
    PROVE  /\ Tidy(r) \in LinkRec
           /\ Tidy(r).gateEnd = r.gateEnd /\ Tidy(r).loginEnd = r.loginEnd
           /\ r.gateEnd \/ r.loginEnd => Tidy(r) = r
<1>1. CASE r.gateEnd \/ r.loginEnd
  BY <1>1 DEF Tidy
<1>2. CASE ~(r.gateEnd \/ r.loginEnd)
  <2>1. Tidy(r) = NoLink /\ 0 \in 0..MaxGen
    BY <1>2, LinksConstants DEF Tidy
  <2>2. r.gateEnd = FALSE /\ r.loginEnd = FALSE
    BY <1>2 DEF LinkRec
  <2>3. NoLink \in LinkRec /\ NoLink.gateEnd = FALSE /\ NoLink.loginEnd = FALSE
    BY <2>1 DEF NoLink, LinkRec
  <2> QED BY <1>2, <2>1, <2>2, <2>3, Zenon
<1> QED BY <1>1, <1>2

\* Lemma: the parts of the invariant are about the core variables only.
LEMMA CoreKept ==
    ASSUME LinksInv, UNCHANGED core
    PROVE  LinksInv'
<1>1. UNCHANGED <<login, gen, client, tracked, gl, link, torn>>
  BY DEF core
<1>2. Typed' /\ ClientsOK'
  BY <1>1 DEF LinksInv, Typed, ClientsOK
<1>3. EndsOK' /\ AnsweredOK'
  BY <1>1 DEF LinksInv, EndsOK, AnsweredOK, LoginOf
<1>4. AgentsOK' /\ NoDangling' /\ EndsAgree' /\ FailsOutsideSet'
  BY <1>1 DEF LinksInv, AgentsOK, NoDangling, EndsAgree, FailsOutsideSet, LoginOf
<1> QED BY <1>2, <1>3, <1>4 DEF LinksInv

\* Lemma: the invariant holds in the initial state.
LEMMA InitLinks == Init => LinksInv /\ ConfigOK
<1> SUFFICES ASSUME Init PROVE LinksInv /\ ConfigOK
  OBVIOUS
<1> USE NoneOutside
<1>1. /\ login = [l \in Login |-> [up |-> FALSE, cfg |-> "none", agent |-> 0]]
      /\ cfgAgent = [l \in Login |-> "none"]
      /\ cfgLink = "connecting" /\ notes = <<>>
      /\ gen = 0 /\ client = [k \in Client |-> NoClient]
      /\ tracked = [l \in Login |-> None] /\ gl = NoAgents(Login, Client)
      /\ link = [x \in Link |-> NoLink]
  BY DEF Init
<1>2. NoClient \in ClientRec /\ NoLink \in LinkRec /\ 0 \in 0..MaxGen /\ 0 \in 0..MaxLink
  BY LinksConstants DEF NoClient, ClientRec, NoLink, LinkRec
<1>3. Typed
  BY <1>1, <1>2 DEF Typed, NoAgents, AgentTable, LoginRec
<1>4. ClientsOK
  BY <1>1 DEF ClientsOK, ClientOK, NoClient
<1>5. EndsOK /\ AnsweredOK /\ EndsAgree /\ FailsOutsideSet
  BY <1>1 DEF EndsOK, AnsweredOK, EndsAgree, FailsOutsideSet, NoLink
<1>6. AgentsOK /\ NoDangling
  BY <1>1 DEF AgentsOK, NoDangling, NoAgents
<1>7. ConfigOK
  BY <1>1 DEF ConfigOK, NotesOK, CfgAgent
<1> QED BY <1>3, <1>4, <1>5, <1>6, <1>7 DEF LinksInv

\* Lemma: a login server starts, or changes what it knows of the config
\* server: no link is open at a process that is not up.
LEMMA LoginChanges ==
    ASSUME LinksInv, NEW l \in Login, UNCHANGED <<gate, link>>,
           login' \in [Login -> LoginRec],
           \A m \in Login : m # l => login'[m] = login[m],
           login[l].up => login'[l].up /\ login'[l].agent = login[l].agent
    PROVE  LinksInv'
<1>1. UNCHANGED <<gen, client, tracked, gl, link, torn>>
  BY DEF gate
<1>2. Typed' /\ ClientsOK'
  BY <1>1 DEF LinksInv, Typed, ClientsOK
<1>3. \A m \in Login : login[m].up => login'[m].up /\ login'[m].agent = login[m].agent
  OBVIOUS
<1>4. ASSUME NEW x \in Link, link[x].gateEnd \/ link[x].loginEnd
      PROVE  LoginOf(x) \in Login /\ LoginOf(x)' = LoginOf(x)
  BY <1>1, <1>4 DEF LinksInv, EndsOK, Typed, ClientRec, LoginOf
<1>5. EndsOK'
  BY <1>1, <1>3, <1>4 DEF LinksInv, EndsOK
<1>6. AnsweredOK' /\ EndsAgree'
  BY <1>1, <1>3, <1>4 DEF LinksInv, EndsOK, AnsweredOK, EndsAgree
<1>7. AgentsOK' /\ NoDangling' /\ FailsOutsideSet'
  BY <1>1 DEF LinksInv, AgentsOK, NoDangling, FailsOutsideSet
<1> QED BY <1>2, <1>5, <1>6, <1>7 DEF LinksInv

\* Lemma: the end of a process, or of one link at its login server, closes
\* ends of links, and takes a request with it that was not read.
LEMMA LoginEndsClose ==
    ASSUME LinksInv, NEW l \in Login, NEW X \in SUBSET Link, UNCHANGED gate,
           \A x \in X : link[x].loginEnd /\ LoginOf(x) = l,
           login' \in [Login -> LoginRec],
           \A m \in Login : m # l => login'[m] = login[m],
           \/ \A x \in Link : link[x].loginEnd /\ LoginOf(x) = l => x \in X
           \/ /\ login'[l].up = login[l].up
              /\ login'[l].agent = login[l].agent \/ login[l].agent \in X,
           link' = [x \in Link |-> IF x \in X
                        THEN Tidy([link[x] EXCEPT !.loginEnd = FALSE,
                                       !.msg = IF @ = "request" THEN "none" ELSE @])
                        ELSE link[x]]
    PROVE  LinksInv'
<1> DEFINE c(x) == [link[x] EXCEPT !.loginEnd = FALSE, !.msg = IF @ = "request" THEN "none" ELSE @]
<1>1. UNCHANGED <<gen, client, tracked, gl, torn>>
  BY DEF gate
<1>2. link \in [Link -> LinkRec] /\ client \in [Client -> ClientRec]
  BY DEF LinksInv, Typed
<1>3. ASSUME NEW x \in X
      PROVE  /\ link'[x] \in LinkRec
             /\ link'[x].gateEnd = link[x].gateEnd /\ ~link'[x].loginEnd
             /\ link[x].gateEnd => /\ link'[x].client = link[x].client
                                   /\ link'[x].msg = "none" \/ link'[x].msg = link[x].msg
  <2>1. x \in Link /\ link[x] \in LinkRec
    BY <1>2
  <2>2. link'[x] = Tidy(c(x))
    BY <2>1
  <2>3. /\ c(x) \in LinkRec /\ c(x).gateEnd = link[x].gateEnd /\ c(x).loginEnd = FALSE
        /\ c(x).client = link[x].client
        /\ c(x).msg = "none" \/ c(x).msg = link[x].msg
    BY <2>1 DEF LinkRec
  <2> HIDE DEF c
  <2>4. /\ Tidy(c(x)) \in LinkRec
        /\ Tidy(c(x)).gateEnd = c(x).gateEnd /\ Tidy(c(x)).loginEnd = c(x).loginEnd
        /\ c(x).gateEnd \/ c(x).loginEnd => Tidy(c(x)) = c(x)
    BY <2>3, TidyIs
  <2>5. /\ link'[x] \in LinkRec
        /\ link'[x].gateEnd = link[x].gateEnd /\ ~link'[x].loginEnd
    BY <2>2, <2>3, <2>4, Zenon
  <2>6. link[x].gateEnd => link'[x] = c(x)
    BY <2>2, <2>3, <2>4, Zenon
  <2> QED BY <2>3, <2>5, <2>6, Zenon
<1>4. ASSUME NEW x \in Link, x \notin X PROVE link'[x] = link[x]
  BY <1>4
<1>5. \A x \in Link : link'[x].gateEnd = link[x].gateEnd
  BY <1>3, <1>4, Zenon
<1>6. \A x \in Link : link'[x].gateEnd => link'[x].client = link[x].client
  BY <1>3, <1>4, <1>5, Zenon
<1>7. \A x \in Link : link'[x].loginEnd => x \notin X /\ link'[x] = link[x]
  BY <1>3, <1>4, Zenon
<1>8. \A x \in Link : link'[x].gateEnd /\ link'[x].msg # "none" => link'[x].msg = link[x].msg
  BY <1>3, <1>4, <1>5, Zenon
<1>9. \A x \in Link : (link'[x].gateEnd \/ link'[x].loginEnd) =>
        /\ link[x].gateEnd \/ link[x].loginEnd
        /\ link'[x].client = link[x].client /\ LoginOf(x)' = LoginOf(x)
        /\ link[x].client \in Client /\ LoginOf(x) \in Login
  <2> SUFFICES ASSUME NEW x \in Link, link'[x].gateEnd \/ link'[x].loginEnd
      PROVE  /\ link[x].gateEnd \/ link[x].loginEnd
             /\ link'[x].client = link[x].client /\ LoginOf(x)' = LoginOf(x)
             /\ link[x].client \in Client /\ LoginOf(x) \in Login
    OBVIOUS
  <2>1. /\ link[x].gateEnd \/ link[x].loginEnd
        /\ link'[x].client = link[x].client
    BY <1>5, <1>6, <1>7, Zenon
  <2>2. link[x].client \in Client /\ LoginOf(x) # None
    BY <2>1 DEF LinksInv, EndsOK
  <2>3. LoginOf(x) \in Login
    BY <1>2, <2>2 DEF ClientRec, LoginOf
  <2>4. LoginOf(x)' = LoginOf(x)
    BY <1>1, <2>1 DEF LoginOf
  <2> QED BY <2>1, <2>2, <2>3, <2>4
\* A login server's end that stays open keeps its process and its agent.
<1>10. \A x \in Link : link'[x].loginEnd =>
         /\ login'[LoginOf(x)].up = login[LoginOf(x)].up
         /\ login[LoginOf(x)].agent = x => login'[LoginOf(x)].agent = x
  <2> SUFFICES ASSUME NEW x \in Link, link'[x].loginEnd
      PROVE  /\ login'[LoginOf(x)].up = login[LoginOf(x)].up
             /\ login[LoginOf(x)].agent = x => login'[LoginOf(x)].agent = x
    OBVIOUS
  <2>1. link[x].loginEnd /\ LoginOf(x) \in Login /\ x \notin X
    BY <1>7, <1>9
  <2>2. CASE LoginOf(x) = l
    BY <2>1, <2>2, Zenon
  <2>3. CASE LoginOf(x) # l
    BY <2>1, <2>3
  <2> QED BY <2>2, <2>3
<1>11. Typed'
  <2>1. link' \in [Link -> LinkRec]
    BY <1>2, <1>3, <1>4
  <2> QED BY <1>1, <2>1 DEF LinksInv, Typed
<1>12. ClientsOK' /\ AgentsOK' /\ NoDangling'
  <2>1. ClientsOK'
    BY <1>1 DEF LinksInv, ClientsOK
  <2>2. AgentsOK'
    BY <1>1 DEF LinksInv, AgentsOK
  <2>3. NoDangling'
    BY <1>1 DEF LinksInv, NoDangling
  <2> QED BY <2>1, <2>2, <2>3
<1>13. EndsOK'
  <2>1. \A x \in Link : link'[x].gateEnd \/ link'[x].loginEnd
                         => link'[x].client \in Client /\ LoginOf(x)' # None
    <3> SUFFICES ASSUME NEW x \in Link, link'[x].gateEnd \/ link'[x].loginEnd
        PROVE  link'[x].client \in Client /\ LoginOf(x)' # None
      OBVIOUS
    <3>1. /\ link'[x].client = link[x].client /\ LoginOf(x)' = LoginOf(x)
          /\ link[x].client \in Client /\ LoginOf(x) \in Login
      BY <1>9
    <3> QED BY <3>1, NoneOutside
  <2>2. \A x \in Link : link'[x].gateEnd => client'[link'[x].client].st = "CONNECTED"
    BY <1>1, <1>5, <1>6, ZenonT(40) DEF LinksInv, EndsOK
  <2>3. \A x, y \in Link :
          link'[x].gateEnd /\ link'[y].gateEnd /\ link'[x].client = link'[y].client => x = y
    <3> SUFFICES ASSUME NEW x \in Link, NEW y \in Link, link'[x].gateEnd, link'[y].gateEnd,
                        link'[x].client = link'[y].client
        PROVE  x = y
      OBVIOUS
    <3>1. link[x].gateEnd /\ link[y].gateEnd /\ link[x].client = link[y].client
      BY <1>5, <1>6
    <3> QED BY <3>1 DEF LinksInv, EndsOK
  <2>4. \A x \in Link : link'[x].loginEnd => login'[LoginOf(x)'].up
    BY <1>7, <1>9, <1>10 DEF LinksInv, EndsOK
  <2> QED BY <2>1, <2>2, <2>3, <2>4 DEF EndsOK
<1>14. AnsweredOK'
  <2> SUFFICES ASSUME NEW x \in Link, link'[x].gateEnd, link'[x].loginEnd, link'[x].msg = "response"
      PROVE  login'[LoginOf(x)'].agent = x
    BY DEF AnsweredOK
  <2>1. link[x].gateEnd /\ link[x].loginEnd /\ link[x].msg = "response"
    BY <1>7
  <2> QED BY <1>9, <1>10, <2>1 DEF LinksInv, AnsweredOK
<1>15. EndsAgree'
  <2> SUFFICES ASSUME NEW x \in Link, link'[x].gateEnd, link'[x].loginEnd,
                      gl'.ofConn[link'[x].client] # None
      PROVE  login'[LoginOf(x)'].agent = x
    BY DEF EndsAgree
  <2>1. link[x].gateEnd /\ link[x].loginEnd /\ gl.ofConn[link[x].client] # None
    BY <1>1, <1>7
  <2> QED BY <1>9, <1>10, <2>1 DEF LinksInv, EndsAgree
<1>16. FailsOutsideSet'
  <2> SUFFICES ASSUME NEW x \in Link, link'[x].gateEnd, link'[x].msg \in {"request", "response"}
      PROVE  gl'.ofConn[link'[x].client] = None
    BY DEF FailsOutsideSet
  <2>1. link'[x].msg # "none"
    OBVIOUS
  <2>2. link[x].gateEnd /\ link[x].msg = link'[x].msg /\ link'[x].client = link[x].client
    BY <1>5, <1>6, <1>8, <2>1
  <2> QED BY <1>1, <2>2 DEF LinksInv, FailsOutsideSet
<1> QED BY <1>11, <1>12, <1>13, <1>14, <1>15, <1>16 DEF LinksInv

\* Lemma: Exit keeps the invariant.
LEMMA ExitKeeps ==
    ASSUME LinksInv, NEW l \in Login, Exit(l), UNCHANGED gate
    PROVE  LinksInv'
<1> DEFINE X == {x \in Link : link[x].loginEnd /\ LoginOf(x) = l}
<1>1. login \in [Login -> LoginRec] /\ 0 \in 0..MaxLink
  BY LinksConstants DEF LinksInv, Typed
<1>2. /\ login' \in [Login -> LoginRec]
      /\ \A m \in Login : m # l => login'[m] = login[m]
  BY <1>1 DEF Exit, LoginRec
<1>3. link' = [x \in Link |-> IF x \in X
                  THEN Tidy([link[x] EXCEPT !.loginEnd = FALSE,
                                 !.msg = IF @ = "request" THEN "none" ELSE @])
                  ELSE link[x]]
  BY DEF Exit
<1>4. /\ X \in SUBSET Link /\ \A x \in X : link[x].loginEnd /\ LoginOf(x) = l
      /\ \A x \in Link : link[x].loginEnd /\ LoginOf(x) = l => x \in X
  OBVIOUS
<1> HIDE DEF X
<1> QED BY <1>2, <1>3, <1>4, LoginEndsClose

\* Lemma: so does CloseLoginEnd.
LEMMA CloseLoginEndKeeps ==
    ASSUME LinksInv, NEW x \in Link, link[x].loginEnd, CloseLoginEnd(x), UNCHANGED gate
    PROVE  LinksInv'
<1> DEFINE l == LoginOf(x)
<1>1. login \in [Login -> LoginRec] /\ 0 \in 0..MaxLink /\ link \in [Link -> LinkRec]
  BY LinksConstants DEF LinksInv, Typed
<1>2. l \in Login
  BY DEF LinksInv, EndsOK, Typed, ClientRec, LoginOf
<1>3. login' = [login EXCEPT ![l].agent = IF @ = x THEN 0 ELSE @]
  BY DEF CloseLoginEnd
<1> HIDE DEF l
<1>4. /\ login' \in [Login -> LoginRec]
      /\ \A m \in Login : m # l => login'[m] = login[m]
      /\ login'[l].up = login[l].up
      /\ login'[l].agent = login[l].agent \/ login[l].agent \in {x}
  BY <1>1, <1>2, <1>3 DEF LoginRec
<1>5. link' = [y \in Link |-> IF y \in {x}
                  THEN Tidy([link[y] EXCEPT !.loginEnd = FALSE,
                                 !.msg = IF @ = "request" THEN "none" ELSE @])
                  ELSE link[y]]
  BY <1>1 DEF CloseLoginEnd
<1>6. {x} \in SUBSET Link /\ \A y \in {x} : link[y].loginEnd /\ LoginOf(y) = l
  BY DEF l
<1> QED BY <1>2, <1>4, <1>5, <1>6, LoginEndsClose

\* Lemma: a client whose connection is not up changes its state, or starts to
\* connect again: no link and no agent leads to it.
LEMMA ClientMoves ==
    ASSUME LinksInv, NEW k \in Client, NEW s,
           s \in {"CONNECTING", "NOT_CONNECT"},
           client[k].st \notin {"free", "CONNECTED"}, SetState(k, s),
           UNCHANGED <<login, gen, tracked, gl, torn, link>>
    PROVE  LinksInv'
<1>1. client \in [Client -> ClientRec] /\ client' = [client EXCEPT ![k].st = s]
  BY DEF LinksInv, Typed, SetState
<1>2. /\ client' \in [Client -> ClientRec]
      /\ client'[k].login = client[k].login /\ client'[k].set = client[k].set
      /\ client'[k].st = s
      /\ \A j \in Client : j # k => client'[j] = client[j]
  BY <1>1 DEF ClientRec
<1>3. client[k].login # None /\ client[k] # NoClient
  BY DEF LinksInv, ClientsOK, ClientOK, NoClient
<1>4. \A j \in Client : client'[j].login = client[j].login
  BY <1>2
<1>5. \A j \in Client : client'[j].set = client[j].set
  BY <1>2
<1>6. \A j \in Client : client[j].st = "CONNECTED" => client'[j].st = "CONNECTED"
  BY <1>2
<1>7. Typed'
  BY <1>2 DEF LinksInv, Typed
<1>8. ClientsOK'
  <2>1. ASSUME NEW j \in Client PROVE ClientOK(client'[j], j \in torn')
    <3>1. ClientOK(client[j], j \in torn)
      BY DEF LinksInv, ClientsOK
    <3>2. CASE j # k
      BY <1>2, <3>1, <3>2
    <3>3. CASE j = k
      <4>1. client[k].set \/ k \in torn
        BY <3>1, <3>3 DEF ClientOK
      <4>2. client'[k].set \/ k \in torn'
        BY <1>5, <4>1
      <4> QED BY <1>2, <1>3, <3>3, <4>2 DEF ClientOK
    <3> QED BY <3>2, <3>3
  <2>2. ASSUME NEW j \in Client, j > gen' PROVE client'[j] = NoClient
    BY <1>2, <1>3, <2>2 DEF LinksInv, ClientsOK
  <2> QED BY <2>1, <2>2 DEF ClientsOK
<1>9. ASSUME NEW x \in Link, link[x].gateEnd \/ link[x].loginEnd
      PROVE  link[x].client \in Client /\ LoginOf(x)' = LoginOf(x)
  BY <1>4, <1>9 DEF LinksInv, EndsOK, LoginOf
<1>10. EndsOK'
  BY <1>6, <1>9 DEF LinksInv, EndsOK
<1>11. AnsweredOK' /\ EndsAgree'
  BY <1>9 DEF LinksInv, AnsweredOK, EndsAgree
<1>12. AgentsOK' /\ FailsOutsideSet'
  BY DEF LinksInv, AgentsOK, FailsOutsideSet
<1>13. NoDangling'
  <2>1. gl \in AgentTable(Login, Client) /\ tracked \in [Login -> Client \cup {None}]
    BY DEF LinksInv, Typed
  <2> SUFFICES ASSUME NEW l \in Login
      PROVE  /\ tracked[l] # None => client'[tracked[l]].set /\ client'[tracked[l]].login = l
             /\ gl.agent[l] # None => /\ client'[gl.agent[l]].set
                                      /\ client'[gl.agent[l]].st = "CONNECTED"
                                      /\ client'[gl.agent[l]].login = l
    BY DEF NoDangling
  <2>2. tracked[l] # None => tracked[l] \in Client
    BY <2>1
  <2>3. gl.agent[l] # None => gl.agent[l] \in Client
    BY <2>1 DEF AgentTable
  <2> QED BY <1>4, <1>5, <1>6, <2>2, <2>3 DEF LinksInv, NoDangling
<1> QED BY <1>7, <1>8, <1>10, <1>11, <1>12, <1>13 DEF LinksInv

\* Lemma: the connect of a client completes: it has no other link at the gate,
\* and no agent leads to it.
LEMMA ConnectedKeeps ==
    ASSUME LinksInv, NEW k \in Client, Connected(k)
    PROVE  LinksInv'
<1>1. /\ client[k].st = "CONNECTING" /\ login[client[k].login].up
      /\ client' = [client EXCEPT ![k].st = "CONNECTED"]
      /\ UNCHANGED <<login, gen, tracked, gl, torn>>
  BY DEF Connected, SetState
<1>2. PICK x \in Link : /\ link[x] = NoLink
                        /\ link' = [link EXCEPT ![x] =
                              [client |-> k, gateEnd |-> TRUE, loginEnd |-> TRUE,
                               msg |-> IF client[k].set THEN "request" ELSE "none"]]
  BY DEF Connected
<1>3. /\ client \in [Client -> ClientRec] /\ link \in [Link -> LinkRec]
      /\ gl \in AgentTable(Login, Client) /\ tracked \in [Login -> Client \cup {None}]
  BY DEF LinksInv, Typed
<1>4. /\ client' \in [Client -> ClientRec]
      /\ client'[k].login = client[k].login /\ client'[k].set = client[k].set
      /\ client'[k].st = "CONNECTED"
      /\ \A j \in Client : j # k => client'[j] = client[j]
  BY <1>1, <1>3 DEF ClientRec
<1>5. client[k].login \in Login /\ client[k] # NoClient
  BY <1>1, <1>3 DEF LinksInv, ClientsOK, ClientOK, NoClient, ClientRec
<1>6. \A j \in Client : client'[j].login = client[j].login
  BY <1>4
<1>7. \A j \in Client : client'[j].set = client[j].set
  BY <1>4
<1>8. \A j \in Client : client[j].st = "CONNECTED" => client'[j].st = "CONNECTED"
  BY <1>4
<1>9. /\ link' \in [Link -> LinkRec]
      /\ link'[x].client = k /\ link'[x].gateEnd /\ link'[x].loginEnd
      /\ link'[x].msg \in {"none", "request"}
      /\ \A y \in Link : y # x => link'[y] = link[y]
  <2>1. k \in 0..MaxGen
    BY LinksConstants DEF Client
  <2> QED BY <1>2, <1>3, <2>1 DEF LinkRec
<1>10. \A y \in Link : link[y].gateEnd => link[y].client # k
  BY <1>1 DEF LinksInv, EndsOK
<1>11. gl.ofConn[k] = None
  <2>1. ASSUME NEW l \in Login, gl.ofConn[k] = l PROVE FALSE
    <3>1. gl.agent[l] = k /\ k # None
      BY <2>1, NoneOutside DEF LinksInv, AgentsOK
    <3>2. client[k].st = "CONNECTED"
      BY <3>1 DEF LinksInv, NoDangling
    <3> QED BY <1>1, <3>2
  <2> QED BY <1>3, <2>1 DEF AgentTable
<1>12. Typed'
  BY <1>1, <1>4, <1>9 DEF LinksInv, Typed
<1>13. ClientsOK'
  <2>1. ASSUME NEW j \in Client PROVE ClientOK(client'[j], j \in torn')
    <3>1. ClientOK(client[j], j \in torn) /\ torn' = torn
      BY <1>1 DEF LinksInv, ClientsOK
    <3>2. CASE j # k
      BY <1>4, <3>1, <3>2
    <3>3. CASE j = k
      <4>1. client[k].set \/ k \in torn
        BY <1>1, <3>1, <3>3 DEF ClientOK
      <4>2. client'[k].set \/ k \in torn'
        BY <1>7, <3>1, <4>1
      <4> QED BY <1>4, <1>5, <3>3, <4>2, NoneOutside DEF ClientOK
    <3> QED BY <3>2, <3>3
  <2>2. ASSUME NEW j \in Client, j > gen' PROVE client'[j] = NoClient
    BY <1>1, <1>4, <1>5, <2>2 DEF LinksInv, ClientsOK
  <2> QED BY <2>1, <2>2 DEF ClientsOK
<1>14. LoginOf(x)' = client[k].login
  BY <1>6, <1>9 DEF LoginOf
<1>15. ASSUME NEW y \in Link, y # x, link[y].gateEnd \/ link[y].loginEnd
       PROVE  link[y].client \in Client /\ LoginOf(y)' = LoginOf(y)
  BY <1>6, <1>9, <1>15 DEF LinksInv, EndsOK, LoginOf
<1>16. EndsOK'
  <2>1. ASSUME NEW y \in Link, link'[y].gateEnd \/ link'[y].loginEnd
        PROVE  link'[y].client \in Client /\ LoginOf(y)' # None
    BY <1>5, <1>9, <1>14, <1>15, <2>1, NoneOutside DEF LinksInv, EndsOK
  <2>2. ASSUME NEW y \in Link, link'[y].gateEnd PROVE client'[link'[y].client].st = "CONNECTED"
    BY <1>4, <1>8, <1>9, <1>15, <2>2 DEF LinksInv, EndsOK
  <2>3. ASSUME NEW y \in Link, NEW z \in Link, link'[y].gateEnd, link'[z].gateEnd,
               link'[y].client = link'[z].client
        PROVE  y = z
    BY <1>9, <1>10, <2>3 DEF LinksInv, EndsOK
  <2>4. ASSUME NEW y \in Link, link'[y].loginEnd PROVE login'[LoginOf(y)'].up
    BY <1>1, <1>9, <1>14, <1>15, <2>4 DEF LinksInv, EndsOK
  <2> QED BY <2>1, <2>2, <2>3, <2>4 DEF EndsOK
<1>17. AnsweredOK'
  BY <1>1, <1>9, <1>15 DEF LinksInv, AnsweredOK
<1>18. EndsAgree'
  BY <1>1, <1>9, <1>11, <1>15 DEF LinksInv, EndsAgree
<1>19. AgentsOK' /\ FailsOutsideSet'
  <2>1. AgentsOK'
    BY <1>1 DEF LinksInv, AgentsOK
  <2>2. FailsOutsideSet'
    BY <1>1, <1>9, <1>11 DEF LinksInv, FailsOutsideSet
  <2> QED BY <2>1, <2>2
<1>20. NoDangling'
  <2> SUFFICES ASSUME NEW l \in Login
      PROVE  /\ tracked[l] # None => client'[tracked[l]].set /\ client'[tracked[l]].login = l
             /\ gl.agent[l] # None => /\ client'[gl.agent[l]].set
                                      /\ client'[gl.agent[l]].st = "CONNECTED"
                                      /\ client'[gl.agent[l]].login = l
    BY <1>1 DEF NoDangling
  <2>1. tracked[l] # None => tracked[l] \in Client
    BY <1>3
  <2>2. gl.agent[l] # None => gl.agent[l] \in Client
    BY <1>3 DEF AgentTable
  <2> QED BY <1>6, <1>7, <1>8, <2>1, <2>2 DEF LinksInv, NoDangling
<1> QED BY <1>12, <1>13, <1>16, <1>17, <1>18, <1>19, <1>20 DEF LinksInv

\* Lemma: in a table whose two directions agree, deleteAgent takes both entries
\* of the login server and leaves the rest.
LEMMA AgentDeleted ==
    ASSUME Typed, AgentsOK, NEW l \in Login, NEW k \in Client, gl.ofConn[k] = l
    PROVE  LET y == DeleteAgent(gl, l)
           IN  /\ y \in AgentTable(Login, Client)
               /\ y.agent = [gl.agent EXCEPT ![l] = None]
               /\ y.ofConn = [gl.ofConn EXCEPT ![k] = None]
               /\ y.connOf = [gl.connOf EXCEPT ![l] = None]
<1>1. gl.agent[l] = k /\ gl.connOf[l] = k /\ k # None
  BY NoneOutside DEF AgentsOK
<1>2. DeleteAgent(gl, l) =
        [gl EXCEPT !.agent[l] = None, !.ofConn[k] = None, !.connOf[l] = None]
  BY <1>1 DEF DeleteAgent
<1>3. gl \in AgentTable(Login, Client)
  BY DEF Typed
<1>4. None \in Client \cup {None} /\ None \in Login \cup {None}
  OBVIOUS
<1> DEFINE y == DeleteAgent(gl, l)
<1> HIDE DEF y
<1>5. /\ y.agent = [gl.agent EXCEPT ![l] = None]
      /\ y.ofConn = [gl.ofConn EXCEPT ![k] = None]
      /\ y.connOf = [gl.connOf EXCEPT ![l] = None]
  BY <1>2, <1>3 DEF AgentTable, y
<1>6. y \in AgentTable(Login, Client)
  <2>1. /\ [gl.agent EXCEPT ![l] = None] \in [Login -> Client \cup {None}]
        /\ [gl.ofConn EXCEPT ![k] = None] \in [Client -> Login \cup {None}]
        /\ [gl.connOf EXCEPT ![l] = None] \in [Login -> Client \cup {None}]
    BY <1>3, <1>4 DEF AgentTable
  <2>2. y = [agent |-> y.agent, ofConn |-> y.ofConn, connOf |-> y.connOf]
    BY <1>2, <1>3 DEF AgentTable, y
  <2> QED BY <1>5, <2>1, <2>2 DEF AgentTable
<1> QED BY <1>5, <1>6 DEF y

\* Lemma: what onDisconnect of the connection of k does, in terms of k, of the
\* login server l that k was the registered link of and of the client t that
\* is recycled with it.
LEMMA OnDisconnectDoes ==
    ASSUME LinksInv, NEW k \in Client, client[k].st = "CONNECTED", OnDisconnect(k)
    PROVE  \E t \in Client \cup {None} :
            /\ t # None => /\ gl.ofConn[k] # None /\ tracked[gl.ofConn[k]] = t
                           /\ client[t].login = gl.ofConn[k] /\ client[t].set
            /\ gl' \in AgentTable(Login, Client)
            /\ gl'.ofConn = [gl.ofConn EXCEPT ![k] = None]
            /\ \A m \in Login : /\ gl'.agent[m] = IF gl.ofConn[k] = m THEN None ELSE gl.agent[m]
                                /\ gl'.connOf[m] = gl'.agent[m]
            /\ tracked' \in [Login -> Client \cup {None}]
            /\ \A m \in Login : tracked'[m] = IF gl.ofConn[k] = m THEN None ELSE tracked[m]
            /\ client' \in [Client -> ClientRec]
            /\ \A j \in Client :
                /\ client'[j].login = client[j].login
                /\ j # t => client'[j].set = client[j].set
                /\ j \notin {k, t} => client'[j] = client[j]
                /\ j # k /\ client[j].st = "CONNECTED" => client'[j].st = "CONNECTED"
            /\ torn \subseteq torn'
            /\ t # None => client'[t].st = "free" \/ t \in torn'
<1> DEFINE l == gl.ofConn[k]
           t == IF l = None THEN None ELSE tracked[l]
<1>1. /\ gl' = IF l = None THEN gl ELSE DeleteAgent(gl, l)
      /\ tracked' = IF l = None THEN tracked ELSE [tracked EXCEPT ![l] = None]
      /\ client' = IF t = None THEN [client EXCEPT ![k].st = "DISCONNECTED"]
                   ELSE [client EXCEPT ![k].st = "DISCONNECTED", ![t].set = FALSE,
                                       ![t].st = IF t = k \/ ~Live(t) THEN "free" ELSE @]
      /\ torn' = IF t # None /\ t # k /\ Live(t) THEN torn \cup {t} ELSE torn
  BY DEF OnDisconnect
<1>2. /\ gl \in AgentTable(Login, Client) /\ tracked \in [Login -> Client \cup {None}]
      /\ client \in [Client -> ClientRec] /\ AgentsOK /\ Typed
  BY DEF LinksInv, Typed
<1>3. l \in Login \cup {None} /\ t \in Client \cup {None}
  BY <1>2, NoneOutside DEF AgentTable
<1>4. t # None => l # None /\ tracked[l] = t /\ client[t].login = l /\ client[t].set
  BY <1>3, NoneOutside DEF LinksInv, NoDangling
<1> HIDE DEF t
<1>5. /\ gl' \in AgentTable(Login, Client)
      /\ gl'.ofConn = [gl.ofConn EXCEPT ![k] = None]
      /\ \A m \in Login : /\ gl'.agent[m] = IF l = m THEN None ELSE gl.agent[m]
                          /\ gl'.connOf[m] = gl'.agent[m]
  <2>1. CASE l = None
    <3>1. gl' = gl /\ \A m \in Login : l # m
      BY <1>1, <2>1, NoneOutside
    <3>2. [gl.ofConn EXCEPT ![k] = None] = gl.ofConn
      BY <1>2, <2>1 DEF AgentTable
    <3> QED BY <1>2, <3>1, <3>2 DEF AgentsOK
  <2>2. CASE l # None
    <3>1. l \in Login /\ gl' = DeleteAgent(gl, l)
      BY <1>1, <1>3, <2>2
    <3>2. /\ gl' \in AgentTable(Login, Client)
          /\ gl'.agent = [gl.agent EXCEPT ![l] = None]
          /\ gl'.ofConn = [gl.ofConn EXCEPT ![k] = None]
          /\ gl'.connOf = [gl.connOf EXCEPT ![l] = None]
      BY <1>2, <3>1, AgentDeleted
    <3>3. gl.agent \in [Login -> Client \cup {None}] /\ gl.connOf \in [Login -> Client \cup {None}]
      BY <1>2 DEF AgentTable
    <3> QED BY <1>2, <3>1, <3>2, <3>3 DEF AgentsOK
  <2> QED BY <2>1, <2>2
<1>6. /\ tracked' \in [Login -> Client \cup {None}]
      /\ \A m \in Login : tracked'[m] = IF l = m THEN None ELSE tracked[m]
  BY <1>1, <1>2, <1>3, NoneOutside
<1> HIDE DEF l
<1>7. CASE t = None
  <2>1. client' = [client EXCEPT ![k].st = "DISCONNECTED"] /\ torn' = torn
    BY <1>1, <1>7
  <2>2. /\ client' \in [Client -> ClientRec]
        /\ \A j \in Client : /\ client'[j].login = client[j].login
                             /\ client'[j].set = client[j].set
                             /\ j # k => client'[j] = client[j]
    BY <1>2, <2>1 DEF ClientRec
  <2> WITNESS None \in Client \cup {None}
  <2> QED BY <1>5, <1>6, <2>1, <2>2 DEF l
<1>8. CASE t # None /\ t = k
  <2>1. client' = [client EXCEPT ![k] = [client[k] EXCEPT !.set = FALSE, !.st = "free"]]
    <3>1. client' = [client EXCEPT ![k].st = "DISCONNECTED", ![k].set = FALSE,
                                   ![k].st = "free"]
      BY <1>1, <1>8
    <3> QED BY <1>2, <3>1 DEF ClientRec
  <2>2. torn' = torn
    BY <1>1, <1>8
  <2>3. /\ client' \in [Client -> ClientRec] /\ client'[k].st = "free"
        /\ \A j \in Client : client'[j].login = client[j].login
        /\ \A j \in Client : j # k => client'[j] = client[j]
    BY <1>2, <2>1 DEF ClientRec
  <2> t \in Client \cup {None}
    BY <1>3
  <2> WITNESS t \in Client \cup {None}
  <2> QED BY <1>3, <1>4, <1>5, <1>6, <1>8, <2>2, <2>3 DEF l
<1>9. CASE t # None /\ t # k
  <2>1. t \in Client
    BY <1>3, <1>9
  <2>2. /\ client' = [client EXCEPT ![k].st = "DISCONNECTED", ![t].set = FALSE,
                                   ![t].st = IF ~Live(t) THEN "free" ELSE @]
        /\ torn' = IF Live(t) THEN torn \cup {t} ELSE torn
    BY <1>1, <1>9
  <2>3. /\ client' \in [Client -> ClientRec]
        /\ \A j \in Client : client'[j].login = client[j].login
        /\ \A j \in Client : j \notin {k, t} => client'[j] = client[j]
        /\ client'[k].set = client[k].set
        /\ client'[t].st = IF ~Live(t) THEN "free" ELSE client[t].st
    <3> DEFINE d == IF ~Live(t) THEN "free" ELSE client[t].st
    <3>1. client' = [client EXCEPT ![k].st = "DISCONNECTED", ![t].set = FALSE, ![t].st = d]
      BY <1>2, <1>9, <2>1, <2>2
    <3>2. d \in {"free", "CONNECTING", "CONNECTED", "DISCONNECTED", "NOT_CONNECT"}
      BY <1>2, <2>1 DEF ClientRec
    <3> HIDE DEF d
    <3>3. client' = [client EXCEPT ![k] = [client[k] EXCEPT !.st = "DISCONNECTED"],
                                   ![t] = [client[t] EXCEPT !.set = FALSE, !.st = d]]
      BY <1>2, <1>9, <2>1, <3>1
    <3>4. /\ [client[k] EXCEPT !.st = "DISCONNECTED"] \in ClientRec
          /\ [client[t] EXCEPT !.set = FALSE, !.st = d] \in ClientRec
      BY <1>2, <2>1, <3>2 DEF ClientRec
    <3>5. /\ client'[k] = [client[k] EXCEPT !.st = "DISCONNECTED"]
          /\ client'[t] = [client[t] EXCEPT !.set = FALSE, !.st = d]
          /\ \A j \in Client : j \notin {k, t} => client'[j] = client[j]
          /\ client' \in [Client -> ClientRec]
      BY <1>2, <1>9, <2>1, <3>3, <3>4
    <3>6. /\ client'[k].login = client[k].login /\ client'[t].login = client[t].login
          /\ client'[t].st = d
      BY <1>2, <2>1, <3>5 DEF ClientRec
    <3>7. client'[k].set = client[k].set
      BY <1>2, <3>5 DEF ClientRec
    <3> QED BY <3>5, <3>6, <3>7 DEF d
  <2>4. client[t].st = "CONNECTED" => client'[t].st = "CONNECTED"
    BY <2>3 DEF Live
  <2>5. torn \subseteq torn' /\ (client'[t].st = "free" \/ t \in torn')
    BY <2>2, <2>3
  <2> t \in Client \cup {None}
    BY <1>3
  <2> WITNESS t \in Client \cup {None}
  <2> QED BY <1>3, <1>4, <1>5, <1>6, <1>9, <2>1, <2>3, <2>4, <2>5 DEF l
<1> QED BY <1>7, <1>8, <1>9

\* Lemma: the gate closes its end of a link: its agent, the record in
\* login_clients_ and the recycled client go together.
LEMMA CloseGateEndKeeps ==
    ASSUME LinksInv, NEW x \in Link, link[x].gateEnd, CloseGateEnd(x), UNCHANGED login
    PROVE  LinksInv'
<1>1. PICK k \in Client : k = link[x].client
  BY DEF LinksInv, EndsOK
<1>2. client[k].st = "CONNECTED" /\ OnDisconnect(k)
  BY <1>1 DEF LinksInv, EndsOK, CloseGateEnd
<1>3. PICK t \in Client \cup {None} :
            /\ t # None => /\ gl.ofConn[k] # None /\ tracked[gl.ofConn[k]] = t
                           /\ client[t].login = gl.ofConn[k] /\ client[t].set
            /\ gl' \in AgentTable(Login, Client)
            /\ gl'.ofConn = [gl.ofConn EXCEPT ![k] = None]
            /\ \A m \in Login : /\ gl'.agent[m] = IF gl.ofConn[k] = m THEN None ELSE gl.agent[m]
                                /\ gl'.connOf[m] = gl'.agent[m]
            /\ tracked' \in [Login -> Client \cup {None}]
            /\ \A m \in Login : tracked'[m] = IF gl.ofConn[k] = m THEN None ELSE tracked[m]
            /\ client' \in [Client -> ClientRec]
            /\ \A j \in Client :
                /\ client'[j].login = client[j].login
                /\ j # t => client'[j].set = client[j].set
                /\ j \notin {k, t} => client'[j] = client[j]
                /\ j # k /\ client[j].st = "CONNECTED" => client'[j].st = "CONNECTED"
            /\ torn \subseteq torn'
            /\ t # None => client'[t].st = "free" \/ t \in torn'
  <2> HIDE DEF LinksInv
  <2> QED BY <1>2, OnDisconnectDoes
<1>4. /\ link \in [Link -> LinkRec] /\ client \in [Client -> ClientRec] /\ gen \in 0..MaxGen
      /\ gl.ofConn \in [Client -> Login \cup {None}] /\ gl.agent \in [Login -> Client \cup {None}]
      /\ tracked \in [Login -> Client \cup {None}] /\ login \in [Login -> LoginRec]
  BY DEF LinksInv, Typed, AgentTable
<1>5. gen' = gen /\ login' = login
  BY DEF CloseGateEnd
<1>6. /\ link'[x] \in LinkRec /\ ~link'[x].gateEnd
      /\ link'[x].loginEnd = link[x].loginEnd
      /\ link[x].loginEnd => link'[x].client = k
      /\ \A y \in Link : y # x => link'[y] = link[y]
      /\ link' \in [Link -> LinkRec]
  <2> DEFINE c == [link[x] EXCEPT !.gateEnd = FALSE, !.msg = IF @ = "response" THEN "none" ELSE @]
  <2>1. link' = [link EXCEPT ![x] = Tidy(c)]
    BY DEF CloseGateEnd
  <2>2. /\ c \in LinkRec /\ c.loginEnd = link[x].loginEnd /\ c.gateEnd = FALSE
        /\ c.client = link[x].client
    BY <1>4 DEF LinkRec
  <2> HIDE DEF c
  <2>3. /\ Tidy(c) \in LinkRec
        /\ Tidy(c).gateEnd = c.gateEnd /\ Tidy(c).loginEnd = c.loginEnd
        /\ c.gateEnd \/ c.loginEnd => Tidy(c) = c
    BY <2>2, TidyIs
  <2>4. /\ link'[x] = Tidy(c) /\ \A y \in Link : y # x => link'[y] = link[y]
        /\ link' \in [Link -> LinkRec]
    BY <1>4, <2>1, <2>3
  <2>5. link'[x] \in LinkRec /\ ~link'[x].gateEnd /\ link'[x].loginEnd = link[x].loginEnd
    BY <2>2, <2>3, <2>4, Zenon
  <2>6. link[x].loginEnd => link'[x].client = k
    BY <1>1, <2>2, <2>3, <2>4, Zenon
  <2> QED BY <2>4, <2>5, <2>6
<1>7. \A y \in Link : link'[y].gateEnd =>
        y # x /\ link'[y] = link[y] /\ link[y].client \in Client /\ link[y].client # k
  BY <1>1, <1>6 DEF LinksInv, EndsOK
<1>8. \A y \in Link : link'[y].gateEnd \/ link'[y].loginEnd =>
        /\ link[y].gateEnd \/ link[y].loginEnd
        /\ link'[y].client = link[y].client /\ link[y].client \in Client
        /\ LoginOf(y)' = LoginOf(y) /\ LoginOf(y) # None
  <2> SUFFICES ASSUME NEW y \in Link, link'[y].gateEnd \/ link'[y].loginEnd
      PROVE  /\ link[y].gateEnd \/ link[y].loginEnd
             /\ link'[y].client = link[y].client /\ link[y].client \in Client
             /\ LoginOf(y)' = LoginOf(y) /\ LoginOf(y) # None
    OBVIOUS
  <2>1. link[y].gateEnd \/ link[y].loginEnd
    BY <1>6
  <2>2. link[y].client \in Client /\ LoginOf(y) # None
    BY <2>1 DEF LinksInv, EndsOK
  <2>3. link'[y].client = link[y].client
    BY <1>1, <1>6
  <2>4. LoginOf(y)' = LoginOf(y)
    BY <1>3, <2>2, <2>3 DEF LoginOf
  <2> QED BY <2>1, <2>2, <2>3, <2>4
<1>9. Typed'
  BY <1>3, <1>4, <1>5, <1>6 DEF Typed
<1>10. ClientsOK'
  <2>1. ASSUME NEW j \in Client PROVE ClientOK(client'[j], j \in torn')
    <3>1. ClientOK(client[j], j \in torn)
      BY DEF LinksInv, ClientsOK
    <3>2. CASE j \notin {k, t}
      <4>1. client'[j] = client[j] /\ torn \subseteq torn'
        BY <1>3, <3>2
      <4> QED BY <3>1, <4>1 DEF ClientOK
    <3>3. CASE j = k \/ j = t
      <4>1. client'[j].login # None
        <5>1. CASE j = k
          BY <1>2, <1>3, <3>1, <5>1 DEF ClientOK, NoClient
        <5>2. CASE j = t
          BY <1>3, <5>2, NoneOutside
        <5> QED BY <3>3, <5>1, <5>2
      <4>2. client'[j].set \/ client'[j].st = "free" \/ j \in torn'
        <5>1. CASE j = t
          BY <1>3, <5>1, NoneOutside
        <5>2. CASE j = k /\ j # t
          <6>1. client[j].set \/ j \in torn
            BY <1>2, <3>1, <5>2 DEF ClientOK
          <6> QED BY <1>3, <5>2, <6>1
        <5> QED BY <3>3, <5>1, <5>2
      <4> QED BY <4>1, <4>2 DEF ClientOK
    <3> QED BY <3>2, <3>3
  <2>2. ASSUME NEW j \in Client, j > gen' PROVE client'[j] = NoClient
    <3>1. client[j] = NoClient
      BY <1>5, <2>2 DEF LinksInv, ClientsOK
    <3>2. client[j].st # "CONNECTED" /\ ~client[j].set
      BY <3>1 DEF NoClient
    <3>3. j # k /\ j # t
      BY <1>2, <1>3, <3>2, NoneOutside
    <3> QED BY <1>3, <3>1, <3>3
  <2> QED BY <2>1, <2>2 DEF ClientsOK
<1>11. EndsOK'
  <2>1. \A y \in Link : link'[y].gateEnd \/ link'[y].loginEnd
                         => link'[y].client \in Client /\ LoginOf(y)' # None
    BY <1>8, Zenon
  <2>2. \A y \in Link : link'[y].gateEnd => client'[link'[y].client].st = "CONNECTED"
    BY <1>3, <1>7 DEF LinksInv, EndsOK
  <2>3. \A y, z \in Link :
          link'[y].gateEnd /\ link'[z].gateEnd /\ link'[y].client = link'[z].client => y = z
    BY <1>7 DEF LinksInv, EndsOK
  <2>4. ASSUME NEW y \in Link, link'[y].loginEnd PROVE login'[LoginOf(y)'].up
    <3>1. link[y].loginEnd
      BY <1>6, <2>4
    <3>2. LoginOf(y)' = LoginOf(y)
      BY <1>8, <2>4
    <3> QED BY <1>5, <3>1, <3>2 DEF LinksInv, EndsOK
  <2> QED BY <2>1, <2>2, <2>3, <2>4 DEF EndsOK
<1>12. AnsweredOK'
  <2> SUFFICES ASSUME NEW y \in Link, link'[y].gateEnd, link'[y].loginEnd, link'[y].msg = "response"
      PROVE  login'[LoginOf(y)'].agent = y
    BY DEF AnsweredOK
  <2> QED BY <1>5, <1>7, <1>8 DEF LinksInv, AnsweredOK
<1>13. EndsAgree'
  <2> SUFFICES ASSUME NEW y \in Link, link'[y].gateEnd, link'[y].loginEnd,
                      gl'.ofConn[link'[y].client] # None
      PROVE  login'[LoginOf(y)'].agent = y
    BY DEF EndsAgree
  <2>1. gl.ofConn[link[y].client] # None
    BY <1>3, <1>4, <1>7
  <2> QED BY <1>5, <1>7, <1>8, <2>1 DEF LinksInv, EndsAgree
<1>14. FailsOutsideSet'
  <2> SUFFICES ASSUME NEW y \in Link, link'[y].gateEnd, link'[y].msg \in {"request", "response"}
      PROVE  gl'.ofConn[link'[y].client] = None
    BY DEF FailsOutsideSet
  <2>1. gl.ofConn[link[y].client] = None
    BY <1>7 DEF LinksInv, FailsOutsideSet
  <2> QED BY <1>3, <1>4, <1>7, <2>1
<1>15. AgentsOK'
  <2>1. ASSUME NEW m \in Login, NEW j \in Client
        PROVE  gl'.agent[m] = j <=> gl'.ofConn[j] = m
    <3>1. gl.agent[m] = j <=> gl.ofConn[j] = m
      BY DEF LinksInv, AgentsOK
    <3>2. gl.agent[m] = k <=> gl.ofConn[k] = m
      BY DEF LinksInv, AgentsOK
    <3>3. gl'.ofConn[j] = IF j = k THEN None ELSE gl.ofConn[j]
      BY <1>3, <1>4
    <3>4. gl'.agent[m] = IF gl.ofConn[k] = m THEN None ELSE gl.agent[m]
      BY <1>3
    <3> QED BY <3>1, <3>2, <3>3, <3>4, NoneOutside
  <2> QED BY <1>3, <2>1 DEF AgentsOK
<1>16. NoDangling'
  <2> SUFFICES ASSUME NEW m \in Login
      PROVE  /\ tracked'[m] # None => client'[tracked'[m]].set /\ client'[tracked'[m]].login = m
             /\ gl'.agent[m] # None => /\ client'[gl'.agent[m]].set
                                       /\ client'[gl'.agent[m]].st = "CONNECTED"
                                       /\ client'[gl'.agent[m]].login = m
    BY DEF NoDangling
  <2>1. ASSUME tracked'[m] # None
        PROVE  client'[tracked'[m]].set /\ client'[tracked'[m]].login = m
    <3>1. PICK j \in Client : j = tracked[m] /\ tracked'[m] = j /\ gl.ofConn[k] # m
      BY <1>3, <1>4, <2>1
    <3>2. client[j].set /\ client[j].login = m
      BY <3>1, NoneOutside DEF LinksInv, NoDangling
    <3>3. j # t
      BY <1>3, <3>1, <3>2, NoneOutside
    <3> QED BY <1>3, <3>1, <3>2, <3>3
  <2>2. ASSUME gl'.agent[m] # None
        PROVE  /\ client'[gl'.agent[m]].set
               /\ client'[gl'.agent[m]].st = "CONNECTED"
               /\ client'[gl'.agent[m]].login = m
    <3>1. PICK j \in Client : j = gl.agent[m] /\ gl'.agent[m] = j /\ gl.ofConn[k] # m
      BY <1>3, <1>4, <2>2
    <3>2. client[j].set /\ client[j].st = "CONNECTED" /\ client[j].login = m
      BY <3>1, NoneOutside DEF LinksInv, NoDangling
    <3>3. j # k
      BY <3>1 DEF LinksInv, AgentsOK
    <3>4. j # t
      BY <1>3, <3>1, <3>2, NoneOutside
    <3> QED BY <1>3, <3>1, <3>2, <3>3, <3>4
  <2> QED BY <2>1, <2>2
<1> QED BY <1>9, <1>10, <1>11, <1>12, <1>13, <1>14, <1>15, <1>16 DEF LinksInv

\* Lemma: the login server answers a registration when it has no agent for
\* the gate, else closes its end.
LEMMA LoginRequestKeeps ==
    ASSUME LinksInv, NEW x \in Link, LoginRequest(x)
    PROVE  LinksInv'
<1>1. link[x].loginEnd /\ link[x].msg = "request" /\ UNCHANGED gate
  BY DEF LoginRequest
<1>2. CASE login[LoginOf(x)].agent # 0
  <2>1. CloseLoginEnd(x)
    BY <1>2 DEF LoginRequest
  <2> QED BY <1>1, <2>1, CloseLoginEndKeeps
<1>3. CASE login[LoginOf(x)].agent = 0
  <2>1. PICK l \in Login : l = LoginOf(x)
    BY <1>1 DEF LinksInv, EndsOK, Typed, ClientRec, LoginOf
  <2>2. /\ login' = [login EXCEPT ![l].agent = x]
        /\ link' = [link EXCEPT ![x].msg = IF link[x].gateEnd THEN "response" ELSE "none"]
    BY <1>3, <2>1 DEF LoginRequest
  <2>3. UNCHANGED <<gen, client, tracked, gl, torn>>
    BY <1>1 DEF gate
  <2>4. /\ link \in [Link -> LinkRec] /\ login \in [Login -> LoginRec] /\ x \in 0..MaxLink
        /\ client \in [Client -> ClientRec]
    BY LinksConstants DEF LinksInv, Typed, Link
  <2>5. /\ login' \in [Login -> LoginRec] /\ login'[l].agent = x
        /\ login'[l].up = login[l].up
        /\ \A m \in Login : m # l => login'[m] = login[m]
    BY <2>2, <2>4 DEF LoginRec
  <2>6. /\ link' \in [Link -> LinkRec]
        /\ link'[x].client = link[x].client /\ link'[x].gateEnd = link[x].gateEnd
        /\ link'[x].loginEnd = link[x].loginEnd
        /\ \A y \in Link : y # x => link'[y] = link[y]
    <3> DEFINE d == IF link[x].gateEnd THEN "response" ELSE "none"
    <3>1. link' = [link EXCEPT ![x] = [link[x] EXCEPT !.msg = d]] /\ d \in {"none", "request", "response"}
      BY <2>2, <2>4
    <3> HIDE DEF d
    <3>2. [link[x] EXCEPT !.msg = d] \in LinkRec /\ [link[x] EXCEPT !.msg = d].client = link[x].client
      BY <2>4, <3>1 DEF LinkRec
    <3>3. [link[x] EXCEPT !.msg = d].gateEnd = link[x].gateEnd
      BY <2>4 DEF LinkRec
    <3>4. [link[x] EXCEPT !.msg = d].loginEnd = link[x].loginEnd
      BY <2>4 DEF LinkRec
    <3>5. link'[x] = [link[x] EXCEPT !.msg = d] /\ \A y \in Link : y # x => link'[y] = link[y]
      BY <2>4, <3>1
    <3>6. link' \in [Link -> LinkRec]
      BY <2>4, <3>1, <3>2
    <3> QED BY <3>2, <3>3, <3>4, <3>5, <3>6
  <2>7. /\ \A y \in Link : link'[y].gateEnd = link[y].gateEnd
        /\ \A y \in Link : link'[y].loginEnd = link[y].loginEnd
        /\ \A y \in Link : link'[y].client = link[y].client /\ LoginOf(y)' = LoginOf(y)
    <3>1. \A y \in Link : link'[y].gateEnd = link[y].gateEnd
      BY <2>6
    <3>2. \A y \in Link : link'[y].loginEnd = link[y].loginEnd
      BY <2>6
    <3>3. \A y \in Link : link'[y].client = link[y].client
      BY <2>6
    <3>4. \A y \in Link : LoginOf(y)' = LoginOf(y)
      BY <2>3, <3>3 DEF LoginOf
    <3> QED BY <3>1, <3>2, <3>3, <3>4
  <2>8. \A y \in Link : link[y].loginEnd => LoginOf(y) \in Login
    BY <2>4 DEF LinksInv, EndsOK, LoginOf, ClientRec
  \* No other link was this login server's: its agent was 0.
  <2>9. ASSUME NEW y \in Link, link[y].loginEnd, login[LoginOf(y)].agent = y
        PROVE  login'[LoginOf(y)].agent = y
    <3>1. y # 0
      BY DEF Link
    <3> QED BY <1>3, <2>1, <2>5, <2>8, <2>9, <3>1
  <2>10. Typed'
    BY <2>3, <2>5, <2>6 DEF LinksInv, Typed
  <2>11. ClientsOK' /\ AgentsOK' /\ NoDangling'
    <3>1. ClientsOK'
      BY <2>3 DEF LinksInv, ClientsOK
    <3>2. AgentsOK'
      BY <2>3 DEF LinksInv, AgentsOK
    <3>3. NoDangling'
      BY <2>3 DEF LinksInv, NoDangling
    <3> QED BY <3>1, <3>2, <3>3
  <2>12. EndsOK'
    <3>1. \A y \in Link : link[y].loginEnd => login'[LoginOf(y)].up
      BY <2>5, <2>8 DEF LinksInv, EndsOK
    <3> QED BY <2>3, <2>7, <3>1 DEF LinksInv, EndsOK
  <2>13. AnsweredOK'
    <3> SUFFICES ASSUME NEW y \in Link, link'[y].gateEnd, link'[y].loginEnd, link'[y].msg = "response"
        PROVE  login'[LoginOf(y)'].agent = y
      BY DEF AnsweredOK
    <3>1. CASE y = x
      BY <2>1, <2>5, <2>7, <3>1
    <3>2. CASE y # x
      <4>1. link[y].gateEnd /\ link[y].loginEnd /\ link[y].msg = "response"
        BY <2>6, <3>2
      <4> QED BY <2>7, <2>9, <4>1 DEF LinksInv, AnsweredOK
    <3> QED BY <3>1, <3>2
  <2>14. EndsAgree'
    <3> SUFFICES ASSUME NEW y \in Link, link'[y].gateEnd, link'[y].loginEnd,
                        gl'.ofConn[link'[y].client] # None
        PROVE  login'[LoginOf(y)'].agent = y
      BY DEF EndsAgree
    <3>1. link[y].gateEnd /\ link[y].loginEnd /\ gl.ofConn[link[y].client] # None
      BY <2>3, <2>7
    <3> QED BY <2>7, <2>9, <3>1 DEF LinksInv, EndsAgree
  <2>15. FailsOutsideSet'
    <3> SUFFICES ASSUME NEW y \in Link, link'[y].gateEnd, link'[y].msg \in {"request", "response"}
        PROVE  gl.ofConn[link[y].client] = None
      BY <2>3, <2>7 DEF FailsOutsideSet
    <3>1. link[y].gateEnd /\ link[y].msg \in {"request", "response"}
      BY <1>1, <2>6, <2>7
    <3> QED BY <3>1 DEF LinksInv, FailsOutsideSet
  <2> QED BY <2>10, <2>11, <2>12, <2>13, <2>14, <2>15 DEF LinksInv
<1> QED BY <1>2, <1>3

\* Lemma: the gate registers the link the answer came on, or closes it when
\* the login server has an agent already.
LEMMA LoginResponseKeeps ==
    ASSUME LinksInv, NEW x \in Link, LoginResponse(x)
    PROVE  LinksInv'
<1>1. /\ link[x].gateEnd /\ link[x].msg = "response" /\ client[link[x].client].set
      /\ login' = login
  BY DEF LoginResponse
<1>2. PICK k \in Client : k = link[x].client /\ client[k].st = "CONNECTED"
  BY <1>1 DEF LinksInv, EndsOK
<1>3. PICK l \in Login : l = client[k].login /\ l = LoginOf(x)
  BY <1>1, <1>2 DEF LinksInv, EndsOK, Typed, ClientRec, LoginOf
<1>4. CASE gl.agent[l] # None
  <2>1. CloseGateEnd(x)
    BY <1>2, <1>3, <1>4 DEF LoginResponse
  <2> QED BY <1>1, <2>1, CloseGateEndKeeps
<1>5. CASE gl.agent[l] = None
  <2>1. /\ gl' = NewAgent(gl, l, k) /\ link' = [link EXCEPT ![x].msg = "none"]
        /\ UNCHANGED <<gen, client, tracked, torn>>
    BY <1>2, <1>3, <1>5 DEF LoginResponse
  <2>2. /\ link \in [Link -> LinkRec] /\ gl \in AgentTable(Login, Client)
        /\ gl.ofConn \in [Client -> Login \cup {None}] /\ gl.agent \in [Login -> Client \cup {None}]
        /\ gl.connOf \in [Login -> Client \cup {None}]
    BY DEF LinksInv, Typed, AgentTable
  <2>3. gl.ofConn[k] = None /\ gl.connOf[l] = None
    BY <1>1, <1>2, <1>5 DEF LinksInv, FailsOutsideSet, AgentsOK
  <2>4. /\ gl'.agent = [gl.agent EXCEPT ![l] = k] /\ gl'.ofConn = [gl.ofConn EXCEPT ![k] = l]
        /\ gl'.connOf = [gl.connOf EXCEPT ![l] = k] /\ gl' \in AgentTable(Login, Client)
    <3>1. gl' = [agent |-> [gl.agent EXCEPT ![l] = k], ofConn |-> [gl.ofConn EXCEPT ![k] = l],
                 connOf |-> [gl.connOf EXCEPT ![l] = k]]
      BY <2>1, <2>2, <2>3 DEF NewAgent, Insert
    <3>2. /\ [gl.agent EXCEPT ![l] = k] \in [Login -> Client \cup {None}]
          /\ [gl.ofConn EXCEPT ![k] = l] \in [Client -> Login \cup {None}]
          /\ [gl.connOf EXCEPT ![l] = k] \in [Login -> Client \cup {None}]
      BY <2>2
    <3> QED BY <3>1, <3>2 DEF AgentTable
  <2>5. /\ link' \in [Link -> LinkRec] /\ link'[x].msg = "none"
        /\ link'[x].client = link[x].client
        /\ \A y \in Link : y # x => link'[y] = link[y]
    BY <2>1, <2>2 DEF LinkRec
  <2>6. \A y \in Link : link'[y].gateEnd = link[y].gateEnd
    BY <2>1, <2>2 DEF LinkRec
  <2>7. \A y \in Link : link'[y].loginEnd = link[y].loginEnd
    BY <2>1, <2>2 DEF LinkRec
  <2>8. \A y \in Link : link'[y].client = link[y].client /\ LoginOf(y)' = LoginOf(y)
    <3>1. \A y \in Link : link'[y].client = link[y].client
      BY <2>5
    <3> QED BY <2>1, <3>1 DEF LoginOf
  <2>9. Typed'
    BY <1>1, <2>1, <2>4, <2>5 DEF LinksInv, Typed
  <2>10. ClientsOK'
    BY <2>1 DEF LinksInv, ClientsOK
  <2>11. EndsOK'
    BY <1>1, <2>1, <2>6, <2>7, <2>8 DEF LinksInv, EndsOK
  <2>12. AnsweredOK'
    <3> SUFFICES ASSUME NEW y \in Link, link'[y].gateEnd, link'[y].loginEnd, link'[y].msg = "response"
        PROVE  login[LoginOf(y)].agent = y
      BY <1>1, <2>8 DEF AnsweredOK
    <3> QED BY <2>5 DEF LinksInv, AnsweredOK
  <2>13. ASSUME NEW y \in Link, y # x, link[y].gateEnd PROVE link[y].client # k
    BY <1>1, <1>2, <2>13 DEF LinksInv, EndsOK
  <2>14. EndsAgree'
    <3> SUFFICES ASSUME NEW y \in Link, link'[y].gateEnd, link'[y].loginEnd,
                        gl'.ofConn[link'[y].client] # None
        PROVE  login[LoginOf(y)].agent = y
      BY <1>1, <2>8 DEF EndsAgree
    <3>1. link[y].gateEnd /\ link[y].loginEnd /\ link[y].client \in Client
      BY <2>6, <2>7 DEF LinksInv, EndsOK
    <3>2. CASE y = x
      BY <1>1, <3>1, <3>2 DEF LinksInv, AnsweredOK
    <3>3. CASE y # x
      <4>1. gl.ofConn[link[y].client] # None
        BY <2>2, <2>4, <2>8, <2>13, <3>1, <3>3
      <4> QED BY <3>1, <4>1 DEF LinksInv, EndsAgree
    <3> QED BY <3>2, <3>3
  <2>15. FailsOutsideSet'
    <3> SUFFICES ASSUME NEW y \in Link, link'[y].gateEnd, link'[y].msg \in {"request", "response"}
        PROVE  gl'.ofConn[link[y].client] = None
      BY <2>8 DEF FailsOutsideSet
    <3>1. y # x
      BY <2>5
    <3>2. link[y].gateEnd /\ link[y].client \in Client /\ gl.ofConn[link[y].client] = None
      BY <2>5, <3>1 DEF LinksInv, EndsOK, FailsOutsideSet
    <3> QED BY <2>2, <2>4, <2>13, <3>1, <3>2
  <2>16. AgentsOK'
    <3>1. \A m \in Login : gl'.connOf[m] = gl'.agent[m]
      BY <2>2, <2>4 DEF LinksInv, AgentsOK
    <3>2. ASSUME NEW m \in Login, NEW j \in Client PROVE gl'.agent[m] = j <=> gl'.ofConn[j] = m
      <4>1. gl.agent[m] = j <=> gl.ofConn[j] = m
        BY DEF LinksInv, AgentsOK
      <4>2. /\ gl'.agent[m] = IF m = l THEN k ELSE gl.agent[m]
            /\ gl'.ofConn[j] = IF j = k THEN l ELSE gl.ofConn[j]
        BY <2>2, <2>4
      <4> QED BY <1>5, <2>3, <4>1, <4>2, NoneOutside
    <3> QED BY <3>1, <3>2 DEF AgentsOK
  <2>17. NoDangling'
    <3> SUFFICES ASSUME NEW m \in Login, gl'.agent[m] # None
        PROVE  /\ client[gl'.agent[m]].set /\ client[gl'.agent[m]].st = "CONNECTED"
               /\ client[gl'.agent[m]].login = m
      BY <2>1 DEF LinksInv, NoDangling
    <3>1. CASE m = l
      BY <1>1, <1>2, <1>3, <2>2, <2>4, <3>1
    <3>2. CASE m # l
      BY <2>2, <2>4, <3>2 DEF LinksInv, NoDangling
    <3> QED BY <3>1, <3>2
  <2> QED BY <2>9, <2>10, <2>11, <2>12, <2>14, <2>15, <2>16, <2>17 DEF LinksInv
<1> QED BY <1>4, <1>5

\* Lemma: what HandleNote works with: the note names each login server once,
\* and there are ids for the clients that are started.
LEMMA NoteIs ==
    ASSUME ConfigOK, Typed, notes # <<>>
    PROVE  LET s == Head(notes).logins
               n == Granted(Len(s))
           IN  /\ s \in Seq(Login) /\ n \in 0..Len(s) /\ gen + n \in 0..MaxGen
               /\ \A i, j \in DOMAIN s : s[i] = s[j] => i = j
               /\ Tail(notes) \in Seq(Note)
<1>1. notes \in Seq(Note)
  BY DEF ConfigOK, NotesOK
<1>2. Head(notes) \in Note /\ Tail(notes) \in Seq(Note)
  BY <1>1
<1> DEFINE s == Head(notes).logins
<1>3. s \in Seq(Login) /\ \A i, j \in DOMAIN s : s[i] = s[j] => i = j
  BY <1>2 DEF Note
<1> HIDE DEF s
<1>4. ASSUME NEW a \in Nat PROVE Granted(a) \in 0..a /\ gen + Granted(a) \in 0..MaxGen
  BY LinksConstants DEF Granted, Typed
<1>5. Len(s) \in Nat
  BY <1>3
<1> QED BY <1>2, <1>3, <1>4, <1>5 DEF s

\* Lemma: the clients that HandleNote starts are new: nothing leads to them.
LEMMA HandleNoteKeeps ==
    ASSUME LinksInv, ConfigOK, HandleNote
    PROVE  LinksInv'
<1> DEFINE s == Head(notes).logins
           n == Granted(Len(s))
           K == gen + 1 .. gen + n
           At(l) == gen + (CHOOSE i \in DOMAIN s : s[i] = l)
<1>1. /\ notes # <<>> /\ gen' = gen + n
      /\ client' = [k \in Client |-> IF k \in K
                       THEN [login |-> s[k - gen], st |-> "CONNECTING", set |-> TRUE]
                       ELSE client[k]]
      /\ tracked' = [l \in Login |-> IF \E k \in K : s[k - gen] = l THEN Track(l, At(l))
                                     ELSE tracked[l]]
      /\ UNCHANGED <<login, gl, torn, link>>
  BY DEF HandleNote
<1>2. /\ s \in Seq(Login) /\ n \in 0..Len(s) /\ gen + n \in 0..MaxGen
      /\ \A i, j \in DOMAIN s : s[i] = s[j] => i = j
  BY <1>1, NoteIs DEF LinksInv
<1> HIDE DEF s, n
<1>3. /\ gen \in Nat /\ n \in Nat /\ MaxGen \in Nat /\ Len(s) \in Nat /\ n <= Len(s)
      /\ gen + n <= MaxGen
  BY <1>2, LinksConstants DEF LinksInv, Typed
<1>4. ASSUME NEW k \in K
      PROVE  k \in Client /\ k > gen /\ k - gen \in DOMAIN s /\ s[k - gen] \in Login
  <2>1. k \in Client /\ k > gen /\ k - gen \in 1..Len(s)
    BY <1>3 DEF Client
  <2> QED BY <1>2, <2>1
<1>5. ASSUME NEW k \in K
      PROVE  /\ client'[k] = [login |-> s[k - gen], st |-> "CONNECTING", set |-> TRUE]
             /\ client'[k] \in ClientRec /\ client'[k].set /\ client'[k].login \in Login
             /\ client[k] = NoClient
  <2>1. client'[k] = [login |-> s[k - gen], st |-> "CONNECTING", set |-> TRUE]
    BY <1>1, <1>4
  <2>2. client[k] = NoClient
    BY <1>4 DEF LinksInv, ClientsOK
  <2> QED BY <1>4, <2>1, <2>2 DEF ClientRec
<1>6. \A k \in Client : k \notin K => client'[k] = client[k]
  BY <1>1
<1>7. \A k \in Client : client[k] # NoClient => client'[k] = client[k]
  BY <1>5, <1>6
<1>8. /\ client \in [Client -> ClientRec] /\ tracked \in [Login -> Client \cup {None}]
      /\ gl \in AgentTable(Login, Client)
  BY DEF LinksInv, Typed
<1>9. \A l \in Login : (\E k \in K : s[k - gen] = l) => At(l) \in K /\ client'[At(l)].login = l
  <2> SUFFICES ASSUME NEW l \in Login, NEW k \in K, s[k - gen] = l
      PROVE  At(l) \in K /\ client'[At(l)].login = l
    OBVIOUS
  <2>1. (CHOOSE i \in DOMAIN s : s[i] = l) = k - gen
    BY <1>2, <1>4
  <2>2. At(l) = k
    <3>1. k \in Nat /\ gen + (k - gen) = k
      BY <1>3, <1>4 DEF Client
    <3> QED BY <2>1, <3>1, Zenon
  <2>3. client'[k].login = l
    <3>1. client'[k] = [login |-> s[k - gen], st |-> "CONNECTING", set |-> TRUE]
      BY <1>5
    <3>2. client'[k].login = s[k - gen]
      BY <3>1
    <3> QED BY <3>2
  <2> HIDE DEF At
  <2> QED BY <2>2, <2>3
<1> HIDE DEF At
<1>10. \A l \in Login : \/ tracked'[l] = tracked[l]
                        \/ tracked'[l] \in K /\ client'[tracked'[l]].login = l
  <2> SUFFICES ASSUME NEW l \in Login
      PROVE  \/ tracked'[l] = tracked[l]
             \/ tracked'[l] \in K /\ client'[tracked'[l]].login = l
    OBVIOUS
  <2>1. tracked'[l] = IF \E k \in K : s[k - gen] = l THEN Track(l, At(l)) ELSE tracked[l]
    BY <1>1
  <2>2. tracked'[l] = tracked[l] \/ (tracked'[l] = At(l) /\ \E k \in K : s[k - gen] = l)
    BY <2>1 DEF Track
  <2> QED BY <1>9, <2>2
<1> HIDE DEF K
<1>11. Typed'
  <2>1. client' \in [Client -> ClientRec]
    <3>1. \A k \in Client : client'[k] \in ClientRec
      BY <1>5, <1>6, <1>8
    <3> QED BY <1>1, <3>1
  <2>2. tracked' \in [Login -> Client \cup {None}]
    <3>1. \A l \in Login : tracked'[l] \in Client \cup {None}
      BY <1>4, <1>8, <1>10
    <3> QED BY <1>1, <3>1
  <2> QED BY <1>1, <1>2, <2>1, <2>2 DEF LinksInv, Typed
<1>12. ClientsOK'
  <2>1. ASSUME NEW k \in Client PROVE ClientOK(client'[k], k \in torn')
    <3>1. CASE k \in K
      BY <1>5, <3>1, NoneOutside DEF ClientOK
    <3>2. CASE k \notin K
      BY <1>1, <1>6, <3>2 DEF LinksInv, ClientsOK
    <3> QED BY <3>1, <3>2
  <2>2. ASSUME NEW k \in Client, k > gen' PROVE client'[k] = NoClient
    <3>1. k \notin K /\ k > gen
      BY <1>1, <1>3, <2>2 DEF K, Client
    <3> QED BY <1>6, <3>1 DEF LinksInv, ClientsOK
  <2> QED BY <2>1, <2>2 DEF ClientsOK
<1>13. ASSUME NEW x \in Link, link[x].gateEnd \/ link[x].loginEnd
       PROVE  /\ link[x].client \in Client /\ client'[link[x].client] = client[link[x].client]
              /\ LoginOf(x)' = LoginOf(x)
  <2>1. link[x].client \in Client /\ client[link[x].client].login # None
    BY <1>13 DEF LinksInv, EndsOK, LoginOf
  <2>2. client'[link[x].client] = client[link[x].client]
    BY <1>7, <2>1 DEF NoClient
  <2> QED BY <1>1, <2>1, <2>2 DEF LoginOf
<1>14. EndsOK'
  BY <1>1, <1>13 DEF LinksInv, EndsOK
<1>15. AnsweredOK' /\ EndsAgree'
  BY <1>1, <1>13 DEF LinksInv, AnsweredOK, EndsAgree
<1>16. AgentsOK' /\ FailsOutsideSet'
  BY <1>1 DEF LinksInv, AgentsOK, FailsOutsideSet
<1>17. NoDangling'
  <2> SUFFICES ASSUME NEW l \in Login
      PROVE  /\ tracked'[l] # None => client'[tracked'[l]].set /\ client'[tracked'[l]].login = l
             /\ gl.agent[l] # None => /\ client'[gl.agent[l]].set
                                      /\ client'[gl.agent[l]].st = "CONNECTED"
                                      /\ client'[gl.agent[l]].login = l
    BY <1>1, SMTT(30) DEF NoDangling
  <2>1. ASSUME NEW j \in Client, client[j].set PROVE client'[j] = client[j]
    BY <1>7, <2>1 DEF NoClient
  <2>2. tracked[l] # None => client[tracked[l]].set /\ client[tracked[l]].login = l
    BY DEF LinksInv, NoDangling
  <2>3. tracked'[l] # None => client'[tracked'[l]].set /\ client'[tracked'[l]].login = l
    <3>1. CASE tracked'[l] = tracked[l]
      BY <1>8, <2>1, <2>2, <3>1
    <3>2. CASE tracked'[l] \in K /\ client'[tracked'[l]].login = l
      BY <1>5, <3>2
    <3> QED BY <1>10, <3>1, <3>2
  <2>4. gl.agent[l] # None => /\ client[gl.agent[l]].set /\ client[gl.agent[l]].st = "CONNECTED"
                              /\ client[gl.agent[l]].login = l
    BY DEF LinksInv, NoDangling
  <2>5. gl.agent[l] # None => gl.agent[l] \in Client
    BY <1>8 DEF AgentTable
  <2> QED BY <2>1, <2>3, <2>4, <2>5
<1> QED BY <1>11, <1>12, <1>14, <1>15, <1>16, <1>17 DEF LinksInv

\* Lemma: SetToSeqs lists login servers without repetition.
LEMMA ListIs ==
    ASSUME NEW S \in SUBSET Login, NEW s \in SetToSeqs(S)
    PROVE  [kind |-> "list", logins |-> s] \in Note
<1>1. Cardinality(S) \in Nat
  BY LinksConstants, FS_Subset, FS_CardinalityType
<1> DEFINE c == Cardinality(S)
<1>2. s \in [1..c -> S] /\ \A i, j \in 1..c : i # j => s[i] # s[j]
  BY DEF SetToSeqs
<1> HIDE DEF c
<1>3. s \in Seq(Login)
  <2>1. c \in Nat /\ s \in [1..c -> Login]
    BY <1>1, <1>2 DEF c
  <2> QED BY <2>1
<1>4. \A i, j \in DOMAIN s : s[i] = s[j] => i = j
  BY <1>2
<1> QED BY <1>3, <1>4 DEF Note

\* Lemma: the config server's agents and its messages to the gate are typed,
\* and a message names no login server twice.
LEMMA ConfigKept ==
    ASSUME ConfigOK, LinksInv, [Next]_vars
    PROVE  ConfigOK'
<1>1. /\ notes \in Seq(Note) /\ cfgAgent \in [Login -> CfgAgent]
      /\ cfgLink \in {"connecting", "on", "lost"}
  BY DEF ConfigOK, NotesOK
<1>2. <<>> \in Seq(Note)
  OBVIOUS
<1>3. CASE UNCHANGED <<cfgAgent, cfgLink, notes>>
  BY <1>1, <1>3 DEF ConfigOK, NotesOK
<1>4. ASSUME NEW l \in Login, LoginCrash(l) PROVE ConfigOK'
  BY <1>1, <1>4 DEF LoginCrash, ConfigOK, NotesOK, CfgAgent
<1>5. ASSUME NEW l \in Login, LoginConnect(l) PROVE ConfigOK'
  <2>1. [kind |-> "new", logins |-> <<l>>] \in Note
    BY DEF Note
  <2>2. notes' \in Seq(Note)
    <3>1. Append(notes, [kind |-> "new", logins |-> <<l>>]) \in Seq(Note)
      BY <1>1, <2>1
    <3> QED BY <1>1, <1>5, <3>1 DEF LoginConnect
  <2>3. cfgAgent' \in [Login -> CfgAgent] /\ cfgLink' = cfgLink
    BY <1>1, <1>5 DEF LoginConnect, CfgAgent
  <2> QED BY <1>1, <2>2, <2>3 DEF ConfigOK, NotesOK
<1>6. ASSUME NEW l \in Login, LoginLost(l) PROVE ConfigOK'
  <2>1. PICK f \in Forget : cfgAgent' = [cfgAgent EXCEPT ![l] = f]
    BY <1>6 DEF LoginLost
  <2>2. f \in CfgAgent
    BY DEF Forget, CfgAgent
  <2> QED BY <1>1, <1>6, <2>1, <2>2 DEF LoginLost, ConfigOK, NotesOK
<1>7. ASSUME GateConnect PROVE ConfigOK'
  <2>1. PICK s \in SetToSeqs({l \in Login : cfgAgent[l] # "none"}) :
            notes' = <<[kind |-> "list", logins |-> s]>>
    BY <1>7 DEF GateConnect
  <2>2. [kind |-> "list", logins |-> s] \in Note
    BY ListIs
  <2>3. notes' \in Seq(Note)
    BY <2>1, <2>2
  <2> QED BY <1>1, <1>7, <2>3 DEF GateConnect, ConfigOK, NotesOK
<1>8. ASSUME GateConfigLost PROVE ConfigOK'
  BY <1>1, <1>2, <1>8 DEF GateConfigLost, ConfigOK, NotesOK
<1>9. ASSUME HandleNote PROVE ConfigOK'
  <2>1. notes # <<>> /\ Tail(notes) \in Seq(Note)
    BY <1>9, NoteIs DEF HandleNote, LinksInv
  <2>2. /\ notes' \in {<<>>, Tail(notes)} /\ cfgLink' \in {"lost", cfgLink} /\ cfgAgent' = cfgAgent
    BY <1>9 DEF HandleNote
  <2> QED BY <1>1, <1>2, <2>1, <2>2 DEF ConfigOK, NotesOK
<1>10. ASSUME NEW l \in Login, LoginStart(l) PROVE ConfigOK'
  BY <1>3, <1>10 DEF LoginStart
<1>11. ASSUME NEW k \in Client, Connected(k) \/ ConnectFailed(k) \/ Retry(k) PROVE ConfigOK'
  BY <1>3, <1>11 DEF Connected, ConnectFailed, Retry
<1>12. ASSUME NEW x \in Link,
              LoginRequest(x) \/ LoginResponse(x) \/ GateEndTold(x) \/ LoginEndTold(x) \/ Break(x)
       PROVE  ConfigOK'
  BY <1>3, <1>12 DEF LoginRequest, LoginResponse, GateEndTold, LoginEndTold, Break
<1>13. CASE UNCHANGED vars
  BY <1>3, <1>13 DEF vars
<1> QED BY <1>4, <1>5, <1>6, <1>7, <1>8, <1>9, <1>10, <1>11, <1>12, <1>13 DEF Next

\* Lemma: every step keeps the invariant of the links.
LEMMA LinksKept ==
    ASSUME ConfigOK, LinksInv, [Next]_vars
    PROVE  LinksInv'
<1>1. login \in [Login -> LoginRec] /\ 0 \in 0..MaxLink
  BY LinksConstants DEF LinksInv, Typed
<1>2. CASE UNCHANGED <<login, gate, link>>
  BY <1>2, CoreKept DEF gate, core
<1>3. ASSUME NEW l \in Login, LoginStart(l) PROVE LinksInv'
  <2>1. /\ UNCHANGED <<gate, link>> /\ ~login[l].up
        /\ login' = [login EXCEPT ![l] = [up |-> TRUE, cfg |-> "asked", agent |-> 0]]
    BY <1>3 DEF LoginStart
  <2>2. /\ login' \in [Login -> LoginRec]
        /\ \A m \in Login : m # l => login'[m] = login[m]
    BY <1>1, <2>1 DEF LoginRec
  <2> QED BY <2>1, <2>2, LoginChanges
<1>4. ASSUME NEW l \in Login, LoginCrash(l) PROVE LinksInv'
  BY <1>4, ExitKeeps DEF LoginCrash
<1>5. ASSUME NEW l \in Login, LoginConnect(l) PROVE LinksInv'
  <2>1. UNCHANGED gate
    BY <1>5 DEF LoginConnect
  <2>2. CASE Exit(l)
    BY <2>1, <2>2, ExitKeeps
  <2>3. CASE login' = [login EXCEPT ![l].cfg = "on"] /\ UNCHANGED link
    <3>1. /\ login' \in [Login -> LoginRec]
          /\ \A m \in Login : m # l => login'[m] = login[m]
          /\ login'[l].up = login[l].up /\ login'[l].agent = login[l].agent
      BY <1>1, <2>3 DEF LoginRec
    <3>2. login[l].up => login'[l].up /\ login'[l].agent = login[l].agent
      BY <3>1
    <3> QED BY <2>1, <2>3, <3>1, <3>2, LoginChanges
  <2> QED BY <1>5, <2>2, <2>3 DEF LoginConnect
<1>6. ASSUME NEW l \in Login, LoginLost(l) PROVE LinksInv'
  BY <1>2, <1>6, ExitKeeps DEF LoginLost
<1>7. ASSUME GateConnect \/ GateConfigLost PROVE LinksInv'
  BY <1>2, <1>7 DEF GateConnect, GateConfigLost
<1>8. ASSUME HandleNote PROVE LinksInv'
  BY <1>8, HandleNoteKeeps
<1>9. ASSUME NEW k \in Client, Connected(k) PROVE LinksInv'
  BY <1>9, ConnectedKeeps
<1>10. ASSUME NEW k \in Client, ConnectFailed(k) PROVE LinksInv'
  BY <1>10, ClientMoves DEF ConnectFailed
<1>11. ASSUME NEW k \in Client, Retry(k) PROVE LinksInv'
  BY <1>11, ClientMoves DEF Retry
<1>12. ASSUME NEW x \in Link, LoginRequest(x) PROVE LinksInv'
  BY <1>12, LoginRequestKeeps
<1>13. ASSUME NEW x \in Link, LoginResponse(x) PROVE LinksInv'
  BY <1>13, LoginResponseKeeps
<1>14. ASSUME NEW x \in Link, GateEndTold(x) PROVE LinksInv'
  BY <1>14, CloseGateEndKeeps DEF GateEndTold
<1>15. ASSUME NEW x \in Link, LoginEndTold(x) PROVE LinksInv'
  BY <1>15, CloseLoginEndKeeps DEF LoginEndTold
<1>16. ASSUME NEW x \in Link, Break(x) PROVE LinksInv'
  BY <1>16, CloseGateEndKeeps, CloseLoginEndKeeps DEF Break
<1>17. CASE UNCHANGED vars
  BY <1>2, <1>17 DEF vars
<1> QED BY <1>3, <1>4, <1>5, <1>6, <1>7, <1>8, <1>9, <1>10, <1>11, <1>12, <1>13, <1>14,
           <1>15, <1>16, <1>17 DEF Next

\* Theorem: the inductive invariant of the links between gate and login
\* servers holds in every state, whatever starts, crashes, connects, breaks or
\* is told late, and for every outcome of the config server's erased read.
THEOREM Linking == Spec => [](ConfigOK /\ LinksInv)
<1>1. Init => ConfigOK /\ LinksInv
  BY InitLinks
<1>2. ConfigOK /\ LinksInv /\ [Next]_vars => (ConfigOK /\ LinksInv)'
  BY ConfigKept, LinksKept
<1> QED BY <1>1, <1>2, PTL DEF Spec

\* Theorem: TypeOK, a client that is neither in the set nor free being torn.
THEOREM LinksTypes == Spec => []TypeOK
<1>1. ConfigOK /\ LinksInv => TypeOK
  <2> SUFFICES ASSUME ConfigOK, LinksInv PROVE TypeOK
    OBVIOUS
  <2>1. \A k \in Client : client[k].set \/ client[k].st = "free" \/ k \in torn
    BY DEF LinksInv, ClientsOK, ClientOK
  <2> QED BY <2>1 DEF LinksInv, ConfigOK, Typed, TypeOK, LoginRec, ClientRec, LinkRec
<1> QED BY <1>1, Linking, PTL

\* Theorem: login_clients_ and the gate's agents never name a recycled client
\* or one of another login server (global_data.cpp, jmy_tcp_client.cpp).
THEOREM LinksNoDangling == Spec => []NoDangling
<1>1. LinksInv => NoDangling
  BY DEF LinksInv
<1> QED BY <1>1, Linking, PTL

\* Theorem: on a link that the gate has registered and that is open at both
\* ends the login server has its agent too (conn_login_handler.cpp,
\* gate_handler.cpp).
THEOREM LinksEndsAgree == Spec => []EndsAgree
<1>1. LinksInv => EndsAgree
  BY DEF LinksInv
<1> QED BY <1>1, Linking, PTL

\* Theorem: no answer to a registration reaches a registered client, so run's
\* iterator stays valid (jmy_tcp_client_set.cpp).
THEOREM LinksFailsOutsideSet == Spec => []FailsOutsideSet
<1>1. LinksInv => FailsOutsideSet
  BY DEF LinksInv
<1> QED BY <1>1, Linking, PTL
=============================================================================
