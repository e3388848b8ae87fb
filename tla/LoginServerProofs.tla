------------------------- MODULE LoginServerProofs -------------------------
(***************************************************************************)
(* Proofs about LoginServer, for any sets of accounts, connections and     *)
(* gates and any bounds on logins and selections.                          *)
(***************************************************************************)
EXTENDS LoginServerInv, TLAPS

\* Agents and connections are consistent, the logins so far being lg.
SideOK(x, l, lg) ==
    /\ TableOK(x) /\ l \in [Conn -> {"new", "open", "ended"}] /\ lg \in [Conn -> Seq(Account)]
    /\ \A a \in Account : AgentOK(x, l, lg, a)

\* Lemma: deleteAgent keeps the table sound and the account has no agent then.
\* It may take the index entry of no other connection than the agent's.
LEMMA DeleteAgentOK ==
    ASSUME NEW x, TableOK(x), NEW k \in Account
    PROVE  LET y == DeleteAgent(x, k)
           IN  /\ TableOK(y) /\ y.agent[k] = None
               /\ \A b \in Account : b # k => y.agent[b] = x.agent[b]
               /\ \A c \in Conn : c # x.agent[k] => y.ofConn[c] = x.ofConn[c]
<1> DEFINE c == x.agent[k]
           y == DeleteAgent(x, k)
<1>1. CASE c = None
  BY <1>1 DEF DeleteAgent
<1>2. CASE c # None
  <2>1. c \in Conn /\ x.connOf[k] = c
    BY <1>2 DEF TableOK, AgentTable
  <2>2. y = [x EXCEPT !.agent[k] = None, !.ofConn[c] = None, !.connOf[k] = None]
    BY <1>2, <2>1 DEF DeleteAgent
  <2>3. /\ y.agent = [x.agent EXCEPT ![k] = None] /\ y.ofConn = [x.ofConn EXCEPT ![c] = None]
        /\ y.connOf = [x.connOf EXCEPT ![k] = None] /\ y \in AgentTable(Account, Conn)
    <3>1. x \in AgentTable(Account, Conn)
      BY DEF TableOK
    <3> HIDE DEF y, c
    <3>2. y \in AgentTable(Account, Conn)
      BY <2>1, <2>2, <3>1 DEF AgentTable
    <3> QED BY <2>1, <2>2, <3>1, <3>2 DEF AgentTable
  <2>4. /\ x.agent \in [Account -> Conn \cup {None}] /\ x.ofConn \in [Conn -> Account \cup {None}]
        /\ x.connOf \in [Account -> Conn \cup {None}] /\ None \notin Account
    BY LoginConstants DEF TableOK, AgentTable
  <2>5. TableOK(y)
    <3> HIDE DEF y, c
    <3>1. \A a \in Account : y.connOf[a] = y.agent[a]
      BY <2>3, <2>4 DEF TableOK
    <3>2. ASSUME NEW d \in Conn, NEW a \in Account, y.ofConn[d] = a PROVE y.agent[a] = d
      <4>1. d # c /\ x.ofConn[d] = a
        BY <2>1, <2>3, <2>4, <3>2
      <4>2. x.agent[a] = d /\ a # k
        BY <4>1 DEF TableOK, c
      <4> QED BY <2>3, <2>4, <4>2
    <3> QED BY <2>3, <3>1, <3>2 DEF TableOK
  <2> QED BY <2>1, <2>3, <2>4, <2>5
<1> QED BY <1>1, <1>2

\* Lemma: so does force_close of a client connection, which leaves no open
\* connection with an agent out of the index.
LEMMA ForceCloseOK ==
    ASSUME NEW x, NEW l, NEW lg, SideOK(x, l, lg), NEW c \in Conn
    PROVE  LET f == ForceClose(x, l, c)
           IN  /\ SideOK(f[1], f[2], lg) /\ f[2][c] # "open"
               /\ \A d \in Conn : f[2][d] = l[d] \/ (d = c /\ f[2][d] = "ended")
               /\ \A a \in Account : f[1].agent[a] = x.agent[a] \/ f[1].agent[a] = None
<1> DEFINE f == ForceClose(x, l, c)
           k == x.ofConn[c]
<1>1. CASE l[c] # "open"
  BY <1>1 DEF ForceClose
<1>2. CASE l[c] = "open"
  <2>1. f[1] = DeleteAgentByConn(x, c) /\ f[2] = [l EXCEPT ![c] = "ended"]
    BY <1>2 DEF ForceClose
  <2>2. /\ l \in [Conn -> {"new", "open", "ended"}] /\ f[2] \in [Conn -> {"new", "open", "ended"}]
        /\ f[2][c] = "ended" /\ \A d \in Conn : d # c => f[2][d] = l[d]
    BY <2>1 DEF SideOK
  <2>3. /\ TableOK(f[1])
        /\ \A a \in Account : f[1].agent[a] = x.agent[a] \/ f[1].agent[a] = None
        /\ \A a \in Account : a = k => f[1].agent[a] = None
        /\ \A d \in Conn : d # c => f[1].ofConn[d] = x.ofConn[d]
    <3>1. CASE k = None
      BY <2>1, <3>1, LoginConstants DEF DeleteAgentByConn, SideOK
    <3>2. CASE k # None
      <4>1. k \in Account /\ x.agent[k] = c
        BY <3>2 DEF SideOK, TableOK, AgentTable
      <4>2. f[1] = DeleteAgent(x, k)
        BY <2>1, <3>2 DEF DeleteAgentByConn
      <4> QED BY <4>1, <4>2, DeleteAgentOK DEF SideOK
    <3> QED BY <3>1, <3>2
  <2>4. ASSUME NEW a \in Account PROVE AgentOK(f[1], f[2], lg, a)
    <3> DEFINE d == x.agent[a]
    <3>1. CASE f[1].agent[a] = None
      BY <3>1 DEF AgentOK
    <3>2. CASE f[1].agent[a] # None
      <4>1. f[1].agent[a] = d /\ d # None /\ d \in Conn /\ a # k
        BY <2>3, <3>2 DEF SideOK, TableOK, AgentTable
      <4>2. AgentOK(x, l, lg, a)
        BY DEF SideOK
      <4>3. CASE d # c
        BY <2>2, <2>3, <4>1, <4>2, <4>3 DEF AgentOK
      <4>4. CASE d = c
        <5>1. k # None /\ k \in Account /\ x.agent[k] = c
          BY <1>2, <4>1, <4>2, <4>4 DEF AgentOK, SideOK, TableOK, AgentTable
        <5>2. AgentOK(x, l, lg, k)
          BY <5>1 DEF SideOK
        <5>3. c # None
          BY LoginConstants
        <5>4. /\ Len(lg[c]) >= 1 /\ (Len(lg[c]) = 1 => lg[c][1] = a)
              /\ (Len(lg[c]) = 1 => lg[c][1] = k)
          BY <4>1, <4>2, <4>4, <5>1, <5>2, <5>3 DEF AgentOK
        <5>5. Len(lg[c]) # 1
          BY <4>1, <5>4
        <5>6. Len(lg[c]) >= 2
          <6>1. lg[c] \in Seq(Account)
            BY DEF SideOK
          <6>2. Len(lg[c]) \in Nat
            BY <6>1
          <6>3. \A n \in Nat : n >= 1 /\ n # 1 => n >= 2
            OBVIOUS
          <6> QED BY <5>4, <5>5, <6>2, <6>3, Zenon
        <5> QED BY <2>2, <4>1, <4>4, <5>4, <5>6 DEF AgentOK
      <4> QED BY <4>3, <4>4
    <3> QED BY <3>1, <3>2
  <2> QED BY <2>2, <2>3, <2>4 DEF SideOK
<1> QED BY <1>1, <1>2

\* Lemma: after the kick the account has no agent, and only its connection
\* was closed.
LEMMA KickedOK ==
    ASSUME SideOK(ag, link, logins), NEW a \in Account
    PROVE  LET k == Kicked(a)
           IN  /\ SideOK(k[1], k[2], logins) /\ k[1].agent[a] = None
               /\ \A d \in Conn : k[2][d] = link[d] \/ (d = ag.agent[a] /\ k[2][d] = "ended")
<1> DEFINE k == Kicked(a)
           c == ag.agent[a]
           f == ForceClose(ag, link, c)
<1>1. CASE c = None
  BY <1>1 DEF Kicked
<1>2. CASE c # None
  <2>1. c \in Conn
    BY <1>2 DEF SideOK, TableOK, AgentTable
  <2>2. k[1] = DeleteAgent(f[1], a) /\ k[2] = f[2]
    BY <1>2 DEF Kicked
  <2>3. /\ SideOK(f[1], f[2], logins) /\ f[2][c] # "open"
        /\ \A d \in Conn : f[2][d] = link[d] \/ (d = c /\ f[2][d] = "ended")
        /\ f[1].agent[a] = c \/ f[1].agent[a] = None
    BY <2>1, ForceCloseOK
  <2> DEFINE x == f[1]
             l == f[2]
             y == DeleteAgent(x, a)
  <2>4. /\ TableOK(y) /\ y.agent[a] = None
        /\ \A b \in Account : b # a => y.agent[b] = x.agent[b]
        /\ \A d \in Conn : d # x.agent[a] => y.ofConn[d] = x.ofConn[d]
    BY <2>3, DeleteAgentOK DEF SideOK
  <2> HIDE DEF y
  <2>5. ASSUME NEW b \in Account PROVE AgentOK(y, l, logins, b)
    <3>1. CASE b = a
      BY <2>4, <3>1 DEF AgentOK
    <3>2. CASE b # a
      <4> DEFINE d == x.agent[b]
      <4>1. y.agent[b] = d /\ AgentOK(x, l, logins, b) /\ d \in Conn \cup {None}
        BY <2>3, <2>4, <3>2 DEF SideOK, TableOK, AgentTable
      <4>2. d \in Conn /\ l[d] = "open" => y.ofConn[d] = x.ofConn[d]
        BY <2>3, <2>4, LoginConstants
      <4> QED BY <4>1, <4>2 DEF AgentOK
    <3> QED BY <3>1, <3>2
  <2>6. SideOK(y, l, logins)
    BY <2>3, <2>4, <2>5 DEF SideOK
  <2> QED BY <2>2, <2>3, <2>4, <2>6 DEF y
<1> QED BY <1>1, <1>2

\* Lemma: a login keeps agents and connections consistent, also when the
\* account's agent was on the connection that logs in.
LEMMA LoginOK ==
    ASSUME SideOK(ag, link, logins), NEW c \in Conn, NEW a \in Account, Login(c, a)
    PROVE  SideOK(ag, link, logins)'
<1> DEFINE k == Kicked(a)
           x == k[1]
           lg == logins'
<1>1. /\ SideOK(x, k[2], logins) /\ x.agent[a] = None
      /\ \A d \in Conn : k[2][d] = link[d] \/ (d = ag.agent[a] /\ k[2][d] = "ended")
  BY KickedOK
<1>2. ag' = NewAgent(x, a, c) /\ link' = k[2] /\ link[c] = "open"
  BY DEF Login
<1>3. /\ x \in AgentTable(Account, Conn) /\ x.connOf[a] = None
      /\ x.agent \in [Account -> Conn \cup {None}] /\ x.ofConn \in [Conn -> Account \cup {None}]
      /\ x.connOf \in [Account -> Conn \cup {None}] /\ None \notin Account /\ None \notin Conn
  BY <1>1, LoginConstants DEF SideOK, TableOK, AgentTable
<1>4. /\ lg \in [Conn -> Seq(Account)] /\ logins[c] \in Seq(Account)
      /\ lg[c] = Append(logins[c], a) /\ \A d \in Conn : d # c => lg[d] = logins[d]
  BY DEF Login, SideOK
<1>5. /\ Len(logins[c]) \in Nat /\ Len(lg[c]) = Len(logins[c]) + 1
      /\ Len(logins[c]) = 0 => lg[c][1] = a
  BY <1>4
<1> HIDE DEF k, lg
<1>6. /\ ag'.agent = [x.agent EXCEPT ![a] = c] /\ ag'.connOf = [x.connOf EXCEPT ![a] = c]
      /\ ag'.ofConn = [x.ofConn EXCEPT ![c] = IF @ = None THEN a ELSE @]
  BY <1>2, <1>3 DEF NewAgent, Insert
<1>7. TableOK(ag')
  <2>1. ag' \in AgentTable(Account, Conn)
    BY <1>2, <1>3 DEF NewAgent, Insert, AgentTable
  <2>2. \A b \in Account : ag'.connOf[b] = ag'.agent[b]
    BY <1>1, <1>3, <1>6 DEF SideOK, TableOK
  <2>3. ASSUME NEW d \in Conn, NEW b \in Account, ag'.ofConn[d] = b PROVE ag'.agent[b] = d
    <3>1. x.ofConn[d] = b => x.agent[b] = d
      BY <1>1 DEF SideOK, TableOK
    <3>2. (x.ofConn[d] = b) \/ (d = c /\ b = a)
      BY <1>3, <1>6, <2>3
    <3> QED BY <1>1, <1>3, <1>6, <3>1, <3>2
  <2> QED BY <2>1, <2>2, <2>3 DEF TableOK
<1>8. ASSUME NEW b \in Account PROVE AgentOK(ag', link', lg, b)
  <2> DEFINE d == x.agent[b]
  <2>1. AgentOK(x, k[2], logins, b) /\ d \in Conn \cup {None}
    BY <1>1, <1>3 DEF SideOK
  <2>2. CASE b = a
    <3>1. ag'.agent[b] = c /\ ag'.ofConn[c] # None
      BY <1>3, <1>6, <2>2
    <3>2. k[2][c] # "open" => ag.agent[a] = c
      BY <1>1, <1>2
    <3>3. ag.agent[a] = c => Len(logins[c]) >= 1
      BY <1>3 DEF SideOK, AgentOK
    <3>4. Len(lg[c]) >= 1 /\ (Len(lg[c]) = 1 => lg[c][1] = a) /\ (k[2][c] # "open" => Len(lg[c]) >= 2)
      BY <1>5, <3>2, <3>3
    <3>5. k[2][c] # "new"
      BY <1>1, <1>2
    <3> QED BY <1>2, <2>2, <3>1, <3>4, <3>5 DEF AgentOK
  <2>3. CASE b # a
    <3>1. ag'.agent[b] = d
      BY <1>3, <1>6, <2>3
    <3>2. CASE d = None
      BY <3>1, <3>2 DEF AgentOK
    <3>3. CASE d # None /\ d # c
      BY <1>2, <1>3, <1>4, <1>6, <2>1, <3>1, <3>3 DEF AgentOK
    <3>4. CASE d # None /\ d = c
      <4>1. Len(logins[c]) >= 1 /\ k[2][c] # "new"
        BY <2>1, <3>4 DEF AgentOK
      <4>2. Len(lg[c]) >= 2 /\ Len(lg[c]) # 1 /\ Len(lg[c]) >= 1
        BY <1>5, <4>1
      <4>3. ag'.ofConn[c] # None
        BY <1>3, <1>6
      <4> QED BY <1>2, <3>1, <3>4, <4>1, <4>2, <4>3 DEF AgentOK
    <3> QED BY <3>2, <3>3, <3>4
  <2> QED BY <2>2, <2>3
<1>9. link' \in [Conn -> {"new", "open", "ended"}]
  BY <1>1, <1>2 DEF SideOK
<1> QED BY <1>4, <1>7, <1>8, <1>9 DEF SideOK, lg

\* Lemma: every step keeps agents and connections consistent.
LEMMA SideStep ==
    ASSUME SideOK(ag, link, logins), [Next]_vars
    PROVE  SideOK(ag, link, logins)'
<1>1. CASE UNCHANGED <<ag, link, logins>>
  BY <1>1 DEF SideOK, AgentOK
<1>2. ASSUME NEW c \in Conn, Fail(c), UNCHANGED logins PROVE SideOK(ag, link, logins)'
  BY <1>2, ForceCloseOK DEF Fail
<1>3. ASSUME NEW c \in Conn, Connect(c) PROVE SideOK(ag, link, logins)'
  <2>1. /\ link[c] = "new" /\ UNCHANGED <<ag, logins>>
        /\ link' \in [Conn -> {"new", "open", "ended"}]
        /\ \A d \in Conn : d # c => link'[d] = link[d]
    BY <1>3 DEF Connect, SideOK
  <2>2. ASSUME NEW a \in Account PROVE AgentOK(ag', link', logins', a)
    <3>1. AgentOK(ag, link, logins, a) /\ ag.agent[a] \in Conn \cup {None}
      BY DEF SideOK, TableOK, AgentTable
    <3> QED BY <2>1, <3>1 DEF AgentOK
  <2> QED BY <2>1, <2>2 DEF SideOK
<1>4. ASSUME NEW c \in Conn, Client(c) PROVE SideOK(ag, link, logins)'
  BY <1>1, <1>2, <1>3, <1>4, LoginOK DEF Client, Disconnect, SelectServer, SelectRefused
<1>5. ASSUME NEW g \in Gate, GateStep(g) PROVE SideOK(ag, link, logins)'
  BY <1>1, <1>5 DEF GateStep, SelectedServerNotify, SelectedServerResponse, GateLost, ConnectLogin, clients
<1>6. CASE GateConfList \/ UNCHANGED vars
  BY <1>1, <1>6 DEF GateConfList, vars, clients
<1> QED BY <1>4, <1>5, <1>6 DEF Next

\* The other variables have their types.
RestOK ==
    /\ selGate \in [Account -> Gate \cup {None}]
    /\ gateUp \subseteq Gate /\ listed \subseteq Gate
    /\ toGate \in [Gate -> Seq(Sel)] /\ fromGate \in [Gate -> Seq(Sel)]
    /\ session \in [Gate -> [Account -> 0..MaxSel]]
    /\ nsel \in 0..MaxSel /\ latest \in [Account -> 0..MaxSel]

\* Lemma: the selection that a request makes.
LEMMA SelectServerShape ==
    ASSUME SideOK(ag, link, logins), RestOK, NEW c \in Conn, NEW g \in Gate, SelectServer(c, g)
    PROVE  \E a \in Account :
            /\ nsel + 1 \in 1..MaxSel /\ nsel' = nsel + 1
            /\ [account |-> a, n |-> nsel + 1] \in Sel
            /\ toGate' = [toGate EXCEPT ![g] = Append(@, [account |-> a, n |-> nsel + 1])]
            /\ selGate' = [selGate EXCEPT ![a] = g]
            /\ latest' = [latest EXCEPT ![a] = nsel + 1]
            /\ UNCHANGED <<gateUp, listed, fromGate, session, answer>>
<1> DEFINE a == ag.ofConn[c]
<1>1. a \in Account /\ ag.agent[a] # None
  <2>1. a \in Account
    BY DEF SelectServer, SideOK, TableOK, AgentTable
  <2>2. ag.agent[a] = c
    BY <2>1 DEF SideOK, TableOK
  <2> QED BY <2>1, <2>2, LoginConstants
<1>2. nsel + 1 \in 1..MaxSel
  BY LoginConstants DEF SelectServer, RestOK
<1>3. [account |-> a, n |-> nsel + 1] \in Sel
  BY <1>1, <1>2 DEF Sel
<1> QED BY <1>1, <1>2, <1>3 DEF SelectServer, Selected

\* Lemma: every step keeps their types.
LEMMA RestStep ==
    ASSUME SideOK(ag, link, logins), RestOK, [Next]_vars
    PROVE  RestOK'
<1>1. CASE UNCHANGED <<selGate, gateUp, listed, toGate, fromGate, session, nsel, latest>>
  BY <1>1 DEF RestOK
<1>2. ASSUME NEW c \in Conn, Client(c) PROVE RestOK'
  <2>1. CASE Connect(c) \/ Disconnect(c) \/ \E g \in Gate : SelectRefused(c, g)
    BY <1>1, <2>1 DEF Connect, Disconnect, SelectRefused, hist
  <2>2. ASSUME NEW a \in Account, Login(c, a) PROVE RestOK'
    BY <2>2 DEF Login, hist, RestOK
  <2>3. ASSUME NEW g \in Gate, SelectServer(c, g) PROVE RestOK'
    <3>1. PICK a \in Account :
            /\ nsel + 1 \in 1..MaxSel /\ nsel' = nsel + 1
            /\ [account |-> a, n |-> nsel + 1] \in Sel
            /\ toGate' = [toGate EXCEPT ![g] = Append(@, [account |-> a, n |-> nsel + 1])]
            /\ selGate' = [selGate EXCEPT ![a] = g]
            /\ latest' = [latest EXCEPT ![a] = nsel + 1]
            /\ UNCHANGED <<gateUp, listed, fromGate, session, answer>>
      BY <2>3, SelectServerShape
    <3>2. Append(toGate[g], [account |-> a, n |-> nsel + 1]) \in Seq(Sel)
      BY <3>1 DEF RestOK
    <3>3. nsel' \in 0..MaxSel /\ nsel + 1 \in 0..MaxSel
      BY <3>1
    <3> QED BY <3>1, <3>2, <3>3 DEF RestOK
  <2> QED BY <1>2, <2>1, <2>2, <2>3 DEF Client
<1>3. ASSUME NEW g \in Gate, SelectedServerNotify(g) PROVE RestOK'
  <2> DEFINE q == Head(toGate[g])
  <2>1. q \in Sel /\ Tail(toGate[g]) \in Seq(Sel) /\ Append(fromGate[g], q) \in Seq(Sel)
    BY <1>3 DEF SelectedServerNotify, RestOK
  <2>2. q.account \in Account /\ q.n \in 0..MaxSel
    BY <2>1 DEF Sel
  <2> HIDE DEF q
  <2>3. /\ session' = [session EXCEPT ![g][q.account] = q.n]
        /\ fromGate' = [fromGate EXCEPT ![g] = Append(@, q)] /\ toGate' = [toGate EXCEPT ![g] = Tail(@)]
        /\ UNCHANGED <<selGate, gateUp, listed, nsel, latest>>
    BY <1>3 DEF SelectedServerNotify, clients, hist, q
  <2>4. session' \in [Gate -> [Account -> 0..MaxSel]]
    BY <2>2, <2>3 DEF RestOK
  <2> QED BY <2>1, <2>3, <2>4 DEF RestOK
<1>4. ASSUME NEW g \in Gate, DropGate(g), UNCHANGED <<selGate, listed, session, nsel, latest>> PROVE RestOK'
  BY <1>4 DEF DropGate, RestOK
<1>5. ASSUME NEW g \in Gate, SelectedServerResponse(g) PROVE RestOK'
  <2>1. CASE DropGate(g)
    BY <1>4, <1>5, <2>1 DEF SelectedServerResponse, clients
  <2>2. CASE fromGate' = [fromGate EXCEPT ![g] = Tail(@)] /\ UNCHANGED <<gateUp, toGate>>
    BY <1>5, <2>2 DEF SelectedServerResponse, clients, RestOK
  <2> QED BY <1>5, <2>1, <2>2 DEF SelectedServerResponse
<1>6. ASSUME NEW g \in Gate, GateLost(g) \/ ConnectLogin(g) PROVE RestOK'
  BY <1>4, <1>6 DEF GateLost, ConnectLogin, clients, hist, RestOK
<1>7. CASE GateConfList \/ UNCHANGED vars
  BY <1>7 DEF GateConfList, vars, clients, hist, RestOK
<1> QED BY <1>2, <1>3, <1>5, <1>6, <1>7 DEF Next, GateStep

\* Lemma: the invariant that the theorems below start from.
LEMMA SideAndRest == Spec => [](SideOK(ag, link, logins) /\ RestOK)
<1>1. Init => SideOK(ag, link, logins)
  <2> SUFFICES ASSUME Init PROVE SideOK(ag, link, logins)
    OBVIOUS
  <2>1. TableOK(ag)
    BY LoginConstants DEF Init, NoAgents, TableOK, AgentTable
  <2>2. \A a \in Account : AgentOK(ag, link, logins, a)
    BY DEF Init, NoAgents, AgentOK
  <2>3. link \in [Conn -> {"new", "open", "ended"}] /\ logins \in [Conn -> Seq(Account)]
    BY DEF Init
  <2> QED BY <2>1, <2>2, <2>3 DEF SideOK
<1>2. Init => RestOK
  BY LoginConstants DEF Init, RestOK
<1>3. SideOK(ag, link, logins) /\ RestOK /\ [Next]_vars => (SideOK(ag, link, logins) /\ RestOK)'
  BY SideStep, RestStep
<1> QED BY <1>1, <1>2, <1>3, PTL DEF Spec

\* Theorem: the agents of the login server and their index agree: an account
\* found by its connection has its agent on that connection.
THEOREM IndexHolds == Spec => []IndexSound
<1>1. SideOK(ag, link, logins) => IndexSound
  BY DEF SideOK, TableOK, IndexSound
<1> QED BY <1>1, SideAndRest, PTL

\* Theorem: an open connection with an agent is indexed, also after it logged
\* in as several accounts.
THEOREM OpenHolds == Spec => []OpenIndexed
<1>1. SideOK(ag, link, logins) => OpenIndexed
  <2> SUFFICES ASSUME SideOK(ag, link, logins), NEW a \in Account, ag.agent[a] # None,
                      link[ag.agent[a]] = "open"
               PROVE  /\ ag.ofConn[ag.agent[a]] # None
                      /\ ag.agent[ag.ofConn[ag.agent[a]]] = ag.agent[a]
    BY DEF OpenIndexed
  <2>1. ag.ofConn[ag.agent[a]] # None /\ ag.agent[a] \in Conn
    BY DEF SideOK, AgentOK, TableOK, AgentTable
  <2> QED BY <2>1 DEF SideOK, TableOK, AgentTable
<1> QED BY <1>1, SideAndRest, PTL

\* Theorem: an agent outlives its connection only when that connection logged
\* in more than once.
THEOREM GhostsHold == Spec => []GhostsOnlyByRelogin
<1>1. SideOK(ag, link, logins) => GhostsOnlyByRelogin
  BY DEF SideOK, AgentOK, GhostsOnlyByRelogin
<1> QED BY <1>1, SideAndRest, PTL

\* Theorem: the type invariant.
THEOREM TypesHold == Spec => []TypeOK
<1>1. SideOK(ag, link, logins) /\ RestOK => TypeOK
  BY DEF SideOK, TableOK, RestOK, TypeOK
<1> QED BY <1>1, SideAndRest, PTL

-----------------------------------------------------------------------------
(* The answer to the latest selection.                                     *)

\* What SelectInv says about gate g, in terms of the values it depends on.
GateInv(g, to, from, lat, sel, ses) ==
    /\ \A i, j \in 1..Len(to) : i < j => to[i].n < to[j].n
    /\ \A i \in 1..Len(from), j \in 1..Len(to) : from[i].n < to[j].n
    /\ \A i \in 1..Len(to) : /\ to[i].n <= lat[to[i].account]
                             /\ to[i].n = lat[to[i].account] => sel[to[i].account] \in {g, None}
    /\ \A i \in 1..Len(from) : /\ from[i].n <= lat[from[i].account]
                               /\ from[i].n = lat[from[i].account] =>
                                    /\ sel[from[i].account] \in {g, None}
                                    /\ ses[from[i].account] = from[i].n

\* Lemma: SelectInv in this form.
LEMMA SelectInvParts ==
    SelectInv <=> /\ \A a \in Account : latest[a] <= nsel
                  /\ \A g \in Gate : GateInv(g, toGate[g], fromGate[g], latest, selGate, session[g])
  BY DEF SelectInv, Ordered, Underway, GateInv

\* Lemma: a request on its way names an account and a number.
LEMMA SelTypes ==
    ASSUME NEW s \in Seq(Sel)
    PROVE  /\ Len(s) \in Nat
           /\ \A i \in 1..Len(s) : s[i] \in Sel /\ s[i].account \in Account /\ s[i].n \in Nat
<1>1. Len(s) \in Nat /\ \A i \in 1..Len(s) : s[i] \in Sel
  OBVIOUS
<1> QED BY <1>1, LoginConstants DEF Sel

\* Lemma: a selection of account a, at gate h, as gate g sees it.
LEMMA SelectKeeps ==
    ASSUME NEW g, NEW to \in Seq(Sel), NEW from \in Seq(Sel), NEW ses,
           NEW lat \in [Account -> 0..MaxSel], NEW sel \in [Account -> Gate \cup {None}],
           NEW n \in Nat, \A b \in Account : lat[b] <= n,
           GateInv(g, to, from, lat, sel, ses),
           NEW a \in Account, NEW h
    PROVE  /\ GateInv(g, to, from, [lat EXCEPT ![a] = n + 1], [sel EXCEPT ![a] = h], ses)
           /\ g = h => GateInv(g, Append(to, [account |-> a, n |-> n + 1]), from,
                               [lat EXCEPT ![a] = n + 1], [sel EXCEPT ![a] = h], ses)
<1> DEFINE q == [account |-> a, n |-> n + 1]
           l2 == [lat EXCEPT ![a] = n + 1]
           s2 == [sel EXCEPT ![a] = h]
           t2 == Append(to, q)
<1>1. /\ Len(to) \in Nat /\ \A i \in 1..Len(to) : to[i].account \in Account /\ to[i].n \in Nat
      /\ Len(from) \in Nat /\ \A i \in 1..Len(from) : from[i].account \in Account /\ from[i].n \in Nat
  BY SelTypes
<1>2. /\ \A b \in Account : lat[b] \in Nat /\ l2[b] \in Nat
      /\ l2[a] = n + 1 /\ s2[a] = h /\ \A b \in Account : b # a => l2[b] = lat[b] /\ s2[b] = sel[b]
  BY LoginConstants
<1> HIDE DEF l2, s2
<1>3. \A i \in 1..Len(to) : /\ to[i].n <= n /\ to[i].n <= l2[to[i].account]
                            /\ to[i].n = l2[to[i].account] => s2[to[i].account] \in {g, None}
  <2> SUFFICES ASSUME NEW i \in 1..Len(to)
               PROVE  /\ to[i].n <= n /\ to[i].n <= l2[to[i].account]
                      /\ to[i].n = l2[to[i].account] => s2[to[i].account] \in {g, None}
    OBVIOUS
  <2>1. /\ to[i].n <= lat[to[i].account] /\ lat[to[i].account] <= n
        /\ to[i].n = lat[to[i].account] => sel[to[i].account] \in {g, None}
    BY <1>1 DEF GateInv
  <2>2. to[i].n <= n /\ to[i].n # n + 1
    BY <1>1, <1>2, <2>1
  <2>3. CASE to[i].account = a
    BY <1>1, <1>2, <2>2, <2>3
  <2>4. CASE to[i].account # a
    BY <1>1, <1>2, <2>1, <2>2, <2>4
  <2> QED BY <2>3, <2>4
<1>4. \A i \in 1..Len(from) :
            /\ from[i].n <= n /\ from[i].n <= l2[from[i].account]
            /\ from[i].n = l2[from[i].account] => /\ s2[from[i].account] \in {g, None}
                                                  /\ ses[from[i].account] = from[i].n
  <2> SUFFICES ASSUME NEW i \in 1..Len(from)
               PROVE  /\ from[i].n <= n /\ from[i].n <= l2[from[i].account]
                      /\ from[i].n = l2[from[i].account] => /\ s2[from[i].account] \in {g, None}
                                                            /\ ses[from[i].account] = from[i].n
    OBVIOUS
  <2>1. /\ from[i].n <= lat[from[i].account] /\ lat[from[i].account] <= n
        /\ from[i].n = lat[from[i].account] => /\ sel[from[i].account] \in {g, None}
                                               /\ ses[from[i].account] = from[i].n
    BY <1>1 DEF GateInv
  <2>2. from[i].n <= n /\ from[i].n # n + 1
    BY <1>1, <1>2, <2>1
  <2>3. CASE from[i].account = a
    BY <1>1, <1>2, <2>2, <2>3
  <2>4. CASE from[i].account # a
    BY <1>1, <1>2, <2>1, <2>2, <2>4
  <2> QED BY <2>3, <2>4
<1>5. GateInv(g, to, from, l2, s2, ses)
  BY <1>3, <1>4 DEF GateInv
<1>6. ASSUME g = h PROVE GateInv(g, t2, from, l2, s2, ses)
  <2>1. /\ Len(t2) = Len(to) + 1 /\ t2[Len(to) + 1] = q /\ \A i \in 1..Len(to) : t2[i] = to[i]
    OBVIOUS
  <2>2. q.n = n + 1 /\ q.account = a
    OBVIOUS
  <2> HIDE DEF t2, q
  <2>3. \A i \in 1..Len(t2) : i \in 1..Len(to) \/ i = Len(to) + 1
    BY <1>1, <2>1
  <2>4. ASSUME NEW i \in 1..Len(t2), NEW j \in 1..Len(t2), i < j PROVE t2[i].n < t2[j].n
    <3>1. i \in 1..Len(to)
      BY <1>1, <2>1, <2>4
    <3>2. CASE j \in 1..Len(to)
      BY <2>1, <2>4, <3>1, <3>2 DEF GateInv
    <3>3. CASE j = Len(to) + 1
      BY <1>1, <1>3, <2>1, <2>2, <3>1, <3>3
    <3> QED BY <2>3, <3>2, <3>3
  <2>5. ASSUME NEW i \in 1..Len(from), NEW j \in 1..Len(t2) PROVE from[i].n < t2[j].n
    <3>1. CASE j \in 1..Len(to)
      BY <2>1, <3>1 DEF GateInv
    <3>2. CASE j = Len(to) + 1
      BY <1>1, <1>4, <2>1, <2>2, <3>2
    <3> QED BY <2>3, <3>1, <3>2
  <2>6. ASSUME NEW i \in 1..Len(t2)
        PROVE  /\ t2[i].n <= l2[t2[i].account]
               /\ t2[i].n = l2[t2[i].account] => s2[t2[i].account] \in {g, None}
    <3>1. CASE i \in 1..Len(to)
      BY <1>3, <2>1, <3>1
    <3>2. CASE i = Len(to) + 1
      BY <1>2, <1>6, <2>1, <2>2, <3>2
    <3> QED BY <2>3, <3>1, <3>2
  <2> QED BY <1>4, <2>4, <2>5, <2>6 DEF GateInv
<1> QED BY <1>5, <1>6 DEF l2, s2

\* Lemma: gate g handles the first request it was sent: the account's code is
\* replaced, which no answer on its way back depends on.
LEMMA NotifyKeeps ==
    ASSUME NEW g, NEW to \in Seq(Sel), NEW from \in Seq(Sel), NEW ses \in [Account -> 0..MaxSel],
           NEW lat \in [Account -> 0..MaxSel], NEW sel,
           GateInv(g, to, from, lat, sel, ses), to # <<>>
    PROVE  GateInv(g, Tail(to), Append(from, Head(to)), lat, sel,
                   [ses EXCEPT ![Head(to).account] = Head(to).n])
<1> DEFINE q == Head(to)
           t2 == Tail(to)
           f2 == Append(from, q)
           e2 == [ses EXCEPT ![q.account] = q.n]
<1>1. /\ Len(to) \in Nat /\ \A i \in 1..Len(to) : to[i].account \in Account /\ to[i].n \in Nat
      /\ Len(from) \in Nat /\ \A i \in 1..Len(from) : from[i].account \in Account /\ from[i].n \in Nat
  BY SelTypes
<1>2. /\ Len(t2) = Len(to) - 1 /\ \A i \in 1..Len(t2) : t2[i] = to[i + 1]
      /\ Len(to) >= 1 /\ q = to[1]
  OBVIOUS
<1>3. /\ Len(f2) = Len(from) + 1 /\ f2[Len(from) + 1] = q /\ \A i \in 1..Len(from) : f2[i] = from[i]
  BY <1>2
<1>4. q.account \in Account /\ q.n \in Nat
  BY <1>1, <1>2
<1>5. e2[q.account] = q.n /\ \A b \in Account : b # q.account => e2[b] = ses[b]
  BY <1>4
<1>6. \A b \in Account : lat[b] \in Nat
  BY LoginConstants
<1> HIDE DEF q, t2, f2, e2
<1>7. /\ \A i \in 1..Len(t2) : i + 1 \in 1..Len(to) /\ 1 < i + 1
      /\ \A i \in 1..Len(f2) : i \in 1..Len(from) \/ i = Len(from) + 1
      /\ 1 \in 1..Len(to)
  BY <1>1, <1>2, <1>3
<1>8. ASSUME NEW i \in 1..Len(t2), NEW j \in 1..Len(t2), i < j PROVE t2[i].n < t2[j].n
  <2>1. i + 1 \in 1..Len(to) /\ j + 1 \in 1..Len(to) /\ i + 1 < j + 1
    BY <1>7, <1>8
  <2> QED BY <1>2, <2>1 DEF GateInv
<1>9. ASSUME NEW i \in 1..Len(f2), NEW j \in 1..Len(t2) PROVE f2[i].n < t2[j].n
  <2>1. CASE i \in 1..Len(from)
    BY <1>2, <1>3, <1>7, <2>1 DEF GateInv
  <2>2. CASE i = Len(from) + 1
    BY <1>2, <1>3, <1>7, <2>2 DEF GateInv
  <2> QED BY <1>7, <2>1, <2>2
<1>10. ASSUME NEW i \in 1..Len(t2)
       PROVE  /\ t2[i].n <= lat[t2[i].account]
              /\ t2[i].n = lat[t2[i].account] => sel[t2[i].account] \in {g, None}
  BY <1>2, <1>7 DEF GateInv
<1>11. ASSUME NEW i \in 1..Len(f2)
       PROVE  /\ f2[i].n <= lat[f2[i].account]
              /\ f2[i].n = lat[f2[i].account] => /\ sel[f2[i].account] \in {g, None}
                                                 /\ e2[f2[i].account] = f2[i].n
  <2>1. /\ q.n <= lat[q.account]
        /\ q.n = lat[q.account] => sel[q.account] \in {g, None}
    BY <1>2, <1>7 DEF GateInv
  <2>2. CASE i = Len(from) + 1
    BY <1>3, <1>5, <2>1, <2>2
  <2>3. CASE i \in 1..Len(from)
    <3> DEFINE r == from[i]
    <3>1. /\ f2[i] = r /\ r.account \in Account /\ r.n \in Nat /\ r.n < q.n
          /\ r.n <= lat[r.account]
          /\ r.n = lat[r.account] => sel[r.account] \in {g, None} /\ ses[r.account] = r.n
      <4>1. f2[i] = r /\ r.account \in Account /\ r.n \in Nat
        BY <1>1, <1>3, <2>3
      <4>2. r.n < q.n
        BY <1>2, <1>7, <2>3 DEF GateInv
      <4>3. /\ r.n <= lat[r.account]
            /\ r.n = lat[r.account] => sel[r.account] \in {g, None} /\ ses[r.account] = r.n
        BY <2>3 DEF GateInv
      <4> QED BY <4>1, <4>2, <4>3
    <3> HIDE DEF r
    <3>2. r.n = lat[r.account] => r.account # q.account
      BY <1>4, <1>6, <2>1, <3>1
    <3> QED BY <1>5, <3>1, <3>2
  <2> QED BY <1>7, <2>2, <2>3
<1>12. GateInv(g, t2, f2, lat, sel, e2)
  BY <1>8, <1>9, <1>10, <1>11 DEF GateInv
<1> QED BY <1>12 DEF q, t2, f2, e2

\* Lemma: an answer is taken from the link, the link ends, or an account's
\* selection is forgotten.
LEMMA LessKeeps ==
    ASSUME NEW g, NEW to \in Seq(Sel), NEW from \in Seq(Sel), NEW ses, NEW lat,
           NEW sel \in [Account -> Gate \cup {None}],
           GateInv(g, to, from, lat, sel, ses)
    PROVE  /\ from # <<>> => GateInv(g, to, Tail(from), lat, sel, ses)
           /\ GateInv(g, <<>>, <<>>, lat, sel, ses)
           /\ \A a \in Account : GateInv(g, to, from, lat, [sel EXCEPT ![a] = None], ses)
<1>1. ASSUME from # <<>> PROVE GateInv(g, to, Tail(from), lat, sel, ses)
  <2> DEFINE f2 == Tail(from)
  <2>1. /\ Len(from) \in Nat /\ Len(f2) = Len(from) - 1 /\ \A i \in 1..Len(f2) : f2[i] = from[i + 1]
    BY <1>1
  <2> HIDE DEF f2
  <2>2. \A i \in 1..Len(f2) : i + 1 \in 1..Len(from)
    BY <2>1
  <2>3. GateInv(g, to, f2, lat, sel, ses)
    BY <2>1, <2>2 DEF GateInv
  <2> QED BY <2>3 DEF f2
<1>2. GateInv(g, <<>>, <<>>, lat, sel, ses)
  BY DEF GateInv
<1>3. ASSUME NEW a \in Account PROVE GateInv(g, to, from, lat, [sel EXCEPT ![a] = None], ses)
  <2>1. /\ \A i \in 1..Len(to) : to[i].account \in Account
        /\ \A i \in 1..Len(from) : from[i].account \in Account
    BY SelTypes
  <2>2. \A b \in Account : [sel EXCEPT ![a] = None][b] \in {sel[b], None}
    OBVIOUS
  <2> QED BY <2>1, <2>2 DEF GateInv
<1> QED BY <1>1, <1>2, <1>3

\* Lemma: SelectInv is inductive.
LEMMA SelectStep ==
    ASSUME SideOK(ag, link, logins), RestOK, SelectInv, [Next]_vars
    PROVE  SelectInv'
<1> DEFINE G(g) == GateInv(g, toGate[g], fromGate[g], latest, selGate, session[g])
<1>1. (\A a \in Account : latest[a] <= nsel) /\ \A g \in Gate : G(g)
  BY SelectInvParts
<1>2. SelectInv' <=> (\A a \in Account : latest'[a] <= nsel') /\ \A g \in Gate : G(g)'
  BY DEF SelectInv, Ordered, Underway, GateInv
<1>3. /\ selGate \in [Account -> Gate \cup {None}] /\ latest \in [Account -> 0..MaxSel]
      /\ toGate \in [Gate -> Seq(Sel)] /\ fromGate \in [Gate -> Seq(Sel)]
      /\ session \in [Gate -> [Account -> 0..MaxSel]] /\ nsel \in Nat
  BY LoginConstants DEF RestOK
<1>4. CASE UNCHANGED <<toGate, fromGate, latest, selGate, session, nsel>>
  BY <1>1, <1>2, <1>4
<1>5. ASSUME NEW c \in Conn, NEW a \in Account, Login(c, a) PROVE SelectInv'
  <2>1. UNCHANGED <<toGate, fromGate, latest, session, nsel>> /\ selGate' = [selGate EXCEPT ![a] = None]
    BY <1>5 DEF Login, hist
  <2>2. ASSUME NEW g \in Gate PROVE G(g)'
    BY <1>1, <1>3, <2>1, LessKeeps
  <2> QED BY <1>1, <1>2, <2>1, <2>2
<1>6. ASSUME NEW c \in Conn, NEW h \in Gate, SelectServer(c, h) PROVE SelectInv'
  <2>1. PICK a \in Account :
          /\ nsel' = nsel + 1
          /\ toGate' = [toGate EXCEPT ![h] = Append(@, [account |-> a, n |-> nsel + 1])]
          /\ selGate' = [selGate EXCEPT ![a] = h]
          /\ latest' = [latest EXCEPT ![a] = nsel + 1]
          /\ UNCHANGED <<fromGate, session>>
    BY <1>6, SelectServerShape
  <2>2. ASSUME NEW g \in Gate PROVE G(g)'
    <3>1. /\ GateInv(g, toGate[g], fromGate[g], latest', selGate', session[g])
          /\ g = h => GateInv(g, Append(toGate[g], [account |-> a, n |-> nsel + 1]), fromGate[g],
                              latest', selGate', session[g])
      BY <1>1, <1>3, <2>1, SelectKeeps
    <3>2. toGate'[g] = IF g = h THEN Append(toGate[g], [account |-> a, n |-> nsel + 1]) ELSE toGate[g]
      BY <1>3, <2>1
    <3> QED BY <2>1, <3>1, <3>2
  <2>3. ASSUME NEW b \in Account PROVE latest'[b] <= nsel'
    <3>1. latest[b] <= nsel /\ latest[b] \in Nat
      BY <1>1, <1>3, LoginConstants
    <3>2. latest'[b] = nsel + 1 \/ latest'[b] = latest[b]
      BY <1>3, <2>1
    <3> QED BY <1>3, <2>1, <3>1, <3>2
  <2> QED BY <1>2, <2>2, <2>3
<1>7. ASSUME NEW h \in Gate, SelectedServerNotify(h) PROVE SelectInv'
  <2> DEFINE q == Head(toGate[h])
  <2>1. /\ toGate[h] # <<>>
        /\ session' = [session EXCEPT ![h][q.account] = q.n]
        /\ fromGate' = [fromGate EXCEPT ![h] = Append(@, q)] /\ toGate' = [toGate EXCEPT ![h] = Tail(@)]
        /\ UNCHANGED <<selGate, nsel, latest>>
    BY <1>7 DEF SelectedServerNotify, clients, hist
  <2>2. GateInv(h, Tail(toGate[h]), Append(fromGate[h], q), latest, selGate,
                [session[h] EXCEPT ![q.account] = q.n])
    BY <1>1, <1>3, <2>1, NotifyKeeps
  <2> HIDE DEF q
  <2>3. ASSUME NEW g \in Gate PROVE G(g)'
    <3>1. CASE g = h
      <4>1. /\ toGate'[h] = Tail(toGate[h]) /\ fromGate'[h] = Append(fromGate[h], q)
            /\ session'[h] = [session[h] EXCEPT ![q.account] = q.n]
        BY <1>3, <2>1
      <4> QED BY <2>1, <2>2, <3>1, <4>1
    <3>2. CASE g # h
      <4>1. toGate'[g] = toGate[g] /\ fromGate'[g] = fromGate[g] /\ session'[g] = session[g]
        BY <1>3, <2>1, <3>2
      <4> QED BY <1>1, <2>1, <4>1
    <3> QED BY <3>1, <3>2
  <2> QED BY <1>1, <1>2, <2>1, <2>3
<1>8. ASSUME NEW h \in Gate, UNCHANGED <<selGate, nsel, latest, session>>,
             \/ DropGate(h)
             \/ /\ fromGate[h] # <<>> /\ fromGate' = [fromGate EXCEPT ![h] = Tail(@)]
                /\ UNCHANGED toGate
      PROVE  SelectInv'
  <2>1. ASSUME NEW g \in Gate PROVE G(g)'
    <3>1. /\ fromGate[g] # <<>> => GateInv(g, toGate[g], Tail(fromGate[g]), latest, selGate, session[g])
          /\ GateInv(g, <<>>, <<>>, latest, selGate, session[g])
      BY <1>1, <1>3, LessKeeps
    <3>2. \/ toGate'[g] = toGate[g] /\ fromGate'[g] = fromGate[g]
          \/ toGate'[g] = <<>> /\ fromGate'[g] = <<>>
          \/ toGate'[g] = toGate[g] /\ fromGate[g] # <<>> /\ fromGate'[g] = Tail(fromGate[g])
      BY <1>3, <1>8 DEF DropGate
    <3> QED BY <1>1, <1>8, <3>1, <3>2
  <2> QED BY <1>1, <1>2, <1>8, <2>1
<1>9. ASSUME NEW h \in Gate, GateStep(h) PROVE SelectInv'
  <2>1. CASE SelectedServerResponse(h) \/ GateLost(h)
    BY <1>8, <2>1 DEF SelectedServerResponse, GateLost, clients, hist
  <2>2. CASE ConnectLogin(h)
    BY <1>4, <2>2 DEF ConnectLogin, clients, hist
  <2> QED BY <1>7, <1>9, <2>1, <2>2 DEF GateStep
<1>10. ASSUME NEW c \in Conn, Client(c) PROVE SelectInv'
  <2>1. CASE Connect(c) \/ Disconnect(c) \/ \E g \in Gate : SelectRefused(c, g)
    BY <1>4, <2>1 DEF Connect, Disconnect, SelectRefused, hist
  <2> QED BY <1>5, <1>6, <1>10, <2>1 DEF Client
<1>11. CASE GateConfList \/ UNCHANGED vars
  BY <1>4, <1>11 DEF GateConfList, vars, clients, hist
<1> QED BY <1>9, <1>10, <1>11 DEF Next

\* Theorem: the answer to an account's latest selection pairs the session
\* code with the gate that holds it, however selections, answers, logins and
\* lost links overtake each other.
THEOREM AnswersHold == Spec => AnswerMatches
<1>1. Init => SelectInv
  BY DEF Init, SelectInv, Ordered
<1>2. SideOK(ag, link, logins) /\ RestOK /\ SelectInv /\ [Next]_vars => SelectInv'
  BY SelectStep
<1>3. RestOK /\ SelectInv /\ [Next]_vars => [AnswerStep]_vars
  <2> SUFFICES ASSUME RestOK, SelectInv, Next, answer' # answer,
                      answer'.n = latest[answer'.account]
               PROVE  /\ answer'.gate = answer'.from
                      /\ session[answer'.gate][answer'.account] = answer'.n
    BY DEF AnswerStep
  <2>1. \A c \in Conn : ~Client(c)
    BY DEF Client, Connect, Disconnect, Login, SelectServer, SelectRefused, hist
  <2>2. ~GateConfList
    BY DEF GateConfList, hist
  <2>3. PICK g \in Gate : GateStep(g)
    BY <2>1, <2>2 DEF Next
  <2>4. SelectedServerResponse(g)
    BY <2>3 DEF GateStep, SelectedServerNotify, GateLost, ConnectLogin, hist
  <2> DEFINE q == Head(fromGate[g])
  <2>5. /\ fromGate[g] # <<>> /\ Answerable(q.account) /\ answer' = Answered(q, g)
    BY <2>4 DEF SelectedServerResponse
  <2>6. 1 \in 1..Len(fromGate[g]) /\ q = fromGate[g][1]
    BY <2>5 DEF RestOK
  <2> HIDE DEF q
  <2>7. /\ answer'.account = q.account /\ answer'.gate = selGate[q.account]
        /\ answer'.from = g /\ answer'.n = q.n
    BY <2>5 DEF Answered
  <2>8. selGate[q.account] # None
    BY <2>5, LoginConstants DEF Answerable, RestOK
  <2>9. q.n = latest[q.account] => selGate[q.account] \in {g, None} /\ session[g][q.account] = q.n
    BY <2>6 DEF SelectInv, Underway
  <2> QED BY <2>7, <2>8, <2>9
<1> QED BY <1>1, <1>2, <1>3, SideAndRest, PTL DEF Spec, AnswerMatches
=============================================================================
