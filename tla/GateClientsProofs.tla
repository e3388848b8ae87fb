------------------------- MODULE GateClientsProofs -------------------------
(***************************************************************************)
(* Proofs about GateClients, for any sets of slots, accounts and           *)
(* connections and for any outcome of the undefined read in BiMap.         *)
(***************************************************************************)
EXTENDS GateClientsInv, TLAPS

\* The part of the inductive invariant that is about ClientManager's data.
MgrOK(x) == x \in Mgr /\ SlotsPartitioned(x) /\ MapsAgree(x)

\* Lemma: the state of a connection does not matter to MgrOK.
LEMMA LinkOK ==
    ASSUME NEW x, MgrOK(x), NEW c \in Conn, NEW s \in LinkState
    PROVE  MgrOK([x EXCEPT !.link[c] = s])
  BY DEF MgrOK, Mgr, SlotsPartitioned, MapsAgree

\* Lemma: removeByConnId keeps MgrOK, whatever the reads of erased nodes give.
LEMMA RemoveByConnIdOK ==
    ASSUME NEW x, MgrOK(x), NEW c \in Conn, NEW y \in RemoveByConnId(x, c)
    PROVE  MgrOK(y)
<1> DEFINE i == x.con1[c]
           a == x.acc2[i]
<1>1. PICK r \in ReadBack \X ReadBack : y = Removed(x, c, r)
  BY DEF RemoveByConnId
<1>2. CASE i \notin x.usedIds \/ ~x.used[i]
  BY <1>1, <1>2 DEF Removed
<1>3. CASE i \in x.usedIds /\ x.used[i]
  <2>1. i \in Slot /\ a \in Account /\ a # None
    BY <1>3, GateConstants DEF MgrOK, Mgr, MapsAgree
  <2>2. y = [Freed(x, i) EXCEPT !.acc1 = Unmapped(@, a, r[1]), !.acc2[i] = None,
                                !.con1[c] = None, !.con2 = Unmapped(@, i, r[2])]
    BY <1>1, <1>3, <2>1 DEF Removed
  <2>3. y \in Mgr
    <3>1. /\ Unmapped(x.acc1, a, r[1]) \in [Account -> Slot \cup {None}]
          /\ Unmapped(x.con2, i, r[2]) \in [Slot -> Conn \cup {None}]
      BY <2>1 DEF MgrOK, Mgr, Unmapped
    <3>2. Freed(x, i) \in Mgr /\ Freed(x, i).acc1 = x.acc1 /\ Freed(x, i).con2 = x.con2
      BY <2>1 DEF MgrOK, Mgr, Freed
    <3>3. \A w \in Mgr, f \in [Account -> Slot \cup {None}], g \in [Slot -> Conn \cup {None}] :
             [w EXCEPT !.acc1 = f, !.acc2[i] = None, !.con1[c] = None, !.con2 = g] \in Mgr
      BY <2>1 DEF Mgr
    <3> QED BY <2>2, <3>1, <3>2, <3>3
  <2>4. SlotsPartitioned(y)
    BY <1>3, <2>1, <2>2 DEF MgrOK, Mgr, Freed, SlotsPartitioned
  <2>5. MapsAgree(y)
    BY <1>3, <2>1, <2>2, GateConstants DEF MgrOK, Mgr, Freed, Unmapped, MapsAgree, SlotsPartitioned
  <2> QED BY <2>3, <2>4, <2>5 DEF MgrOK
<1> QED BY <1>2, <1>3

\* Lemma: force_close on a connection keeps MgrOK.
LEMMA ForceCloseConnOK ==
    ASSUME NEW x, MgrOK(x), NEW c \in Conn, NEW y \in ForceCloseConn(x, c)
    PROVE  MgrOK(y)
<1>1. CASE Up(x, c)
  <2>1. MgrOK([x EXCEPT !.link[c] = "ended"])
    BY LinkOK DEF LinkState
  <2>2. y \in RemoveByConnId([x EXCEPT !.link[c] = "ended"], c)
    BY <1>1 DEF ForceCloseConn
  <2> QED BY <2>1, <2>2, RemoveByConnIdOK
<1>2. CASE ~Up(x, c)
  BY <1>2 DEF ForceCloseConn
<1> QED BY <1>1, <1>2

\* Lemma: what force_close on a connection may change.
LEMMA ForceCloseConnShape ==
    ASSUME NEW x, MgrOK(x), NEW c \in Conn, NEW y \in ForceCloseConn(x, c)
    PROVE  /\ y.conn = x.conn /\ y.account = x.account /\ y.role = x.role
           /\ y.usedIds \subseteq x.usedIds
           /\ ~Up(y, c) /\ \A d \in Conn : y.link[d] = x.link[d] \/ y.link[d] = "ended"
           /\ \A i \in Slot : y.used[i] => x.used[i]
           /\ \A b \in Account : y.acc1[b] = x.acc1[b] \/ y.acc1[b] = None
           /\ \A d \in Conn : y.con1[d] = x.con1[d] \/ y.con1[d] = None
           /\ \A i \in x.usedIds : i \notin y.usedIds => Up(x, c) /\ x.con1[c] = i /\ y.link[c] = "ended"
<1>1. CASE ~Up(x, c)
  BY <1>1 DEF ForceCloseConn
<1>2. CASE Up(x, c)
  <2> DEFINE z == [x EXCEPT !.link[c] = "ended"]
             i == z.con1[c]
             a == z.acc2[i]
  <2>1. /\ z.conn = x.conn /\ z.account = x.account /\ z.usedIds = x.usedIds /\ z.used = x.used
        /\ z.role = x.role /\ z.acc1 = x.acc1 /\ z.con1 = x.con1
        /\ z.link[c] = "ended" /\ \A d \in Conn : d # c => z.link[d] = x.link[d]
    BY DEF MgrOK, Mgr
  <2>2. MgrOK(z)
    BY LinkOK DEF LinkState
  <2>3. PICK r \in ReadBack \X ReadBack : y = Removed(z, c, r)
    BY <1>2 DEF ForceCloseConn, RemoveByConnId
  <2>4. CASE i \notin z.usedIds \/ ~z.used[i]
    BY <1>2, <2>1, <2>3, <2>4 DEF Removed, Up
  <2>5. CASE i \in z.usedIds /\ z.used[i]
    <3>1. i \in Slot /\ a \in Account /\ a # None
      BY <2>2, <2>5, GateConstants DEF MgrOK, Mgr, MapsAgree
    <3>2. y = [Freed(z, i) EXCEPT !.acc1 = Unmapped(@, a, r[1]), !.acc2[i] = None,
                                  !.con1[c] = None, !.con2 = Unmapped(@, i, r[2])]
      BY <2>3, <2>5, <3>1 DEF Removed
    <3>3. /\ y.conn = z.conn /\ y.account = z.account /\ y.role = z.role /\ y.link = z.link
          /\ y.usedIds = z.usedIds \ {i} /\ y.used = [z.used EXCEPT ![i] = FALSE]
          /\ y.con1 = [z.con1 EXCEPT ![c] = None] /\ y.acc1 = Unmapped(z.acc1, a, r[1])
      BY <2>2, <3>2 DEF Freed, MgrOK, Mgr
    <3>4. /\ z.used \in [Slot -> BOOLEAN] /\ z.con1 \in [Conn -> Slot \cup {None}]
          /\ z.acc1 \in [Account -> Slot \cup {None}]
      BY <2>2 DEF MgrOK, Mgr
    <3>5. \A b \in Account : y.acc1[b] = z.acc1[b] \/ y.acc1[b] = None
      BY <3>3, <3>4 DEF Unmapped
    <3> HIDE DEF z, a
    <3> QED BY <1>2, <2>1, <3>1, <3>3, <3>4, <3>5 DEF Up
  <2> QED BY <2>4, <2>5
<1> QED BY <1>1, <1>2

\* Lemma: so does force_close on a client.
LEMMA ForceCloseClientOK ==
    ASSUME NEW x, MgrOK(x), NEW i \in Slot, NEW y \in ForceCloseClient(x, i)
    PROVE  MgrOK(y)
<1>1. CASE x.used[i] /\ x.conn[i] # None
  <2>1. x.conn[i] \in Conn
    BY <1>1 DEF MgrOK, Mgr
  <2> QED BY <1>1, <2>1, ForceCloseConnOK DEF ForceCloseClient
<1>2. CASE ~(x.used[i] /\ x.conn[i] # None)
  BY <1>2 DEF ForceCloseClient
<1> QED BY <1>1, <1>2

\* Lemma: so does the kick of the client that holds an account.
LEMMA KickedOK ==
    ASSUME NEW x, MgrOK(x), NEW a \in Account, NEW y \in Kicked(x, a)
    PROVE  MgrOK(y)
<1>1. CASE ByAccount(x, a) = None
  BY <1>1 DEF Kicked
<1>2. CASE ByAccount(x, a) # None
  <2>1. ByAccount(x, a) \in Slot
    BY <1>2 DEF ByAccount, MgrOK, Mgr
  <2> QED BY <1>2, <2>1, ForceCloseClientOK DEF Kicked
<1> QED BY <1>1, <1>2

\* Lemma: so does close on a client.
LEMMA CloseClientOK ==
    ASSUME NEW x, MgrOK(x), NEW i \in Slot
    PROVE  MgrOK(CloseClient(x, i))
<1> DEFINE c == x.conn[i]
           y == CloseClient(x, i)
<1>1. CASE x.used[i] /\ c # None /\ x.link[c] # "gone"
  <2>1. c \in Conn
    BY <1>1 DEF MgrOK, Mgr
  <2>2. PICK s \in LinkState : y = [x EXCEPT !.used[i] = FALSE, !.link[c] = s]
    BY <1>1, <2>1 DEF CloseClient, MgrOK, Mgr, LinkState
  <2>3. y \in Mgr
    <3>1. [x EXCEPT !.used[i] = FALSE, !.link[c] = s] \in Mgr
      BY <2>1 DEF MgrOK, Mgr
    <3> QED BY <2>2, <3>1
  <2>4. SlotsPartitioned(y) /\ MapsAgree(y)
    BY <2>1, <2>2 DEF MgrOK, Mgr, SlotsPartitioned, MapsAgree
  <2> QED BY <2>3, <2>4 DEF MgrOK
<1>2. CASE ~(x.used[i] /\ c # None /\ x.link[c] # "gone")
  BY <1>2 DEF CloseClient
<1> QED BY <1>1, <1>2

\* Lemma: newClient keeps MgrOK and the slot it returns is in use.
LEMMA NewClientOK ==
    ASSUME NEW x, MgrOK(x), NEW a \in Account, NEW p \in NewClient(x, a)
    PROVE  MgrOK(p[1]) /\ p[2] \in p[1].usedIds /\ p[2] \in Slot
<1>1. CASE x.acc1[a] # None
  <2> DEFINE i == x.acc1[a]
  <2>1. i \in Slot /\ i \in x.usedIds /\ p = <<[x EXCEPT !.account[i] = a], i>>
    BY <1>1 DEF NewClient, MgrOK, Mgr
  <2> DEFINE y == [x EXCEPT !.account[i] = a]
  <2>2. y \in Mgr /\ y.usedIds = x.usedIds
    BY <2>1 DEF MgrOK, Mgr
  <2>3. SlotsPartitioned(y)
    BY <2>1, GateConstants DEF MgrOK, Mgr, SlotsPartitioned
  <2>4. MapsAgree(y)
    BY <2>1 DEF MgrOK, Mgr, MapsAgree
  <2> QED BY <2>1, <2>2, <2>3, <2>4 DEF MgrOK
<1>2. CASE x.acc1[a] = None
  <2>1. PICK i \in x.freeIds :
            p = <<[x EXCEPT !.freeIds = @ \ {i}, !.usedIds = @ \cup {i}, !.used[i] = TRUE,
                            !.acc1[a] = i, !.acc2[i] = a, !.account[i] = a], i>>
    BY <1>2 DEF NewClient
  <2> DEFINE y == [x EXCEPT !.freeIds = @ \ {i}, !.usedIds = @ \cup {i}, !.used[i] = TRUE,
                            !.acc1[a] = i, !.acc2[i] = a, !.account[i] = a]
  <2>2. i \in Slot /\ i \notin x.usedIds /\ a # None
    BY GateConstants DEF MgrOK, Mgr, SlotsPartitioned
  <2>3. y \in Mgr
    BY <2>2 DEF MgrOK, Mgr
  <2>4. SlotsPartitioned(y)
    BY <2>2, GateConstants DEF MgrOK, Mgr, SlotsPartitioned
  <2>5. MapsAgree(y)
    BY <1>2, <2>2, GateConstants DEF MgrOK, Mgr, MapsAgree
  <2>6. i \in y.usedIds
    BY DEF MgrOK, Mgr
  <2> QED BY <2>1, <2>2, <2>3, <2>4, <2>5, <2>6 DEF MgrOK
<1> QED BY <1>1, <1>2

\* Lemma: binding a connection to a slot in use keeps MgrOK.
LEMMA BindOK ==
    ASSUME NEW x, MgrOK(x), NEW c \in Conn, NEW i \in x.usedIds
    PROVE  MgrOK(Bind(x, c, i))
<1>1. i \in Slot
  BY DEF MgrOK, Mgr
<1>2. CASE x.con1[c] = None /\ x.con2[i] = None
  <2> DEFINE y == [x EXCEPT !.con1[c] = i, !.con2[i] = c, !.conn[i] = c]
  <2>1. y \in Mgr
    BY <1>1 DEF MgrOK, Mgr
  <2>2. SlotsPartitioned(y)
    BY DEF MgrOK, Mgr, SlotsPartitioned
  <2>3. MapsAgree(y)
    BY <1>1, <1>2, GateConstants DEF MgrOK, Mgr, MapsAgree
  <2> QED BY <1>2, <2>1, <2>2, <2>3 DEF Bind, MgrOK
<1>3. CASE ~(x.con1[c] = None /\ x.con2[i] = None)
  BY <1>1, <1>3 DEF Bind, MgrOK, Mgr, SlotsPartitioned, MapsAgree
<1> QED BY <1>2, <1>3

\* Lemma: recording a role keeps MgrOK.
LEMMA SetRoleOK ==
    ASSUME NEW x, MgrOK(x), NEW i \in Slot, NEW a \in Account
    PROVE  MgrOK(SetRole(x, i, a))
  BY DEF SetRole, MgrOK, Mgr, SlotsPartitioned, MapsAgree

-----------------------------------------------------------------------------
\* The variables beside m have their types.
RestOK ==
    /\ session \subseteq Account /\ game \in BOOLEAN /\ pending \subseteq Request
    /\ auth \in [Conn -> SUBSET Account]

\* Lemma: RoutingInv in the form the proofs below use.
LEMMA RoutingInvParts == RoutingInv <=> MgrOK(m) /\ RestOK
  BY DEF RoutingInv, TypeOK, MgrOK, RestOK

\* Lemma: after a handler's error ClientManager's data is sound.
LEMMA FailOK ==
    ASSUME NEW x, MgrOK(x), NEW c \in Conn, Fail(x, c)
    PROVE  MgrOK(m')
  BY ForceCloseConnOK DEF Fail

\* Lemma: the initial state.
LEMMA InitOK == Init => RoutingInv
<1> SUFFICES ASSUME Init PROVE RoutingInv
  OBVIOUS
<1>1. m \in Mgr
  BY DEF Init, Mgr, LinkState
<1>2. RestOK
  BY DEF Init, RestOK
<1>3. SlotsPartitioned(m)
  BY DEF Init, SlotsPartitioned
<1>4. MapsAgree(m)
  BY DEF Init, MapsAgree
<1> QED BY <1>1, <1>2, <1>3, <1>4, RoutingInvParts DEF MgrOK

\* Lemma: the handler of GetRole, with a valid session.
LEMMA GetRoleOK ==
    ASSUME MgrOK(m), RestOK, NEW c \in Conn, NEW a \in Account, GetRole(c, a)
    PROVE  MgrOK(m') /\ RestOK'
<1>1. PICK x \in Kicked(m, a) :
        \/ Fail(x, c) /\ UNCHANGED pending
        \/ \E p \in NewClient(x, a) :
            \/ Fail(CloseClient(p[1], p[2]), c) /\ UNCHANGED pending
            \/ /\ m' = Bind(p[1], c, p[2])
               /\ pending' = pending \cup {[kind |-> "get", account |-> a]}
            \/ Fail(Bind(p[1], c, p[2]), c) /\ UNCHANGED pending
  BY DEF GetRole
<1>2. MgrOK(x)
  BY KickedOK
<1>3. MgrOK(m')
  <2>1. CASE Fail(x, c)
    BY <1>2, <2>1, FailOK
  <2>2. ASSUME NEW p \in NewClient(x, a),
               \/ Fail(CloseClient(p[1], p[2]), c)
               \/ m' = Bind(p[1], c, p[2])
               \/ Fail(Bind(p[1], c, p[2]), c)
        PROVE  MgrOK(m')
    <3>1. MgrOK(p[1]) /\ p[2] \in p[1].usedIds /\ p[2] \in Slot
      BY <1>2, NewClientOK
    <3>2. MgrOK(CloseClient(p[1], p[2])) /\ MgrOK(Bind(p[1], c, p[2]))
      BY <3>1, CloseClientOK, BindOK
    <3> QED BY <2>2, <3>2, FailOK
  <2> QED BY <1>1, <2>1, <2>2
<1>4. pending' \subseteq Request
  <2>1. [kind |-> "get", account |-> a] \in Request
    BY DEF Request
  <2> QED BY <1>1, <2>1 DEF RestOK
<1>5. auth' \in [Conn -> SUBSET Account]
  BY DEF GetRole, RestOK
<1>6. session' \subseteq Account /\ game' \in BOOLEAN
  BY DEF GetRole, RestOK
<1> QED BY <1>3, <1>4, <1>5, <1>6 DEF RestOK

\* Lemma: the other steps of a client connection.
LEMMA ClientOK ==
    ASSUME MgrOK(m), RestOK, NEW c \in Conn, Client(c)
    PROVE  MgrOK(m') /\ RestOK'
<1>1. CASE Connect(c) \/ Reopen(c) \/ Forget(c)
  BY <1>1, LinkOK, ZenonT(40) DEF Connect, Reopen, Forget, RestOK, LinkState
<1>2. CASE Disconnect(c)
  BY <1>2, ForceCloseConnOK DEF Disconnect, RestOK
<1>3. CASE CreateRole(c)
  <2>1. MgrOK(m')
    BY <1>3, FailOK DEF CreateRole
  <2>2. pending' \subseteq Request
    <3>1. ASSUME ByConn(m, c) # None PROVE m.account[ByConn(m, c)] \in Account
      BY <3>1 DEF ByConn, MgrOK, Mgr, SlotsPartitioned
    <3> QED BY <1>3, <3>1 DEF CreateRole, RestOK, Request
  <2> QED BY <1>3, <2>1, <2>2 DEF CreateRole, RestOK
<1>4. CASE EnterGame(c)
  BY <1>4, FailOK DEF EnterGame, RestOK
<1>5. CASE LeaveGame(c)
  <2>1. ASSUME ByConn(m, c) # None PROVE MgrOK(CloseClient(m, ByConn(m, c)))
    <3>1. ByConn(m, c) \in Slot
      BY <2>1 DEF ByConn, MgrOK, Mgr
    <3> QED BY <3>1, CloseClientOK
  <2> QED BY <1>5, <2>1, FailOK DEF LeaveGame, RestOK
<1>6. CASE ClientDefault(c)
  BY <1>6, FailOK DEF ClientDefault, RestOK
<1>7. ASSUME NEW a \in Account, GetRoleRefused(c, a) PROVE MgrOK(m') /\ RestOK'
  <2>1. PICK x \in Kicked(m, a) : Fail(x, c)
    BY <1>7 DEF GetRoleRefused
  <2> QED BY <1>7, <2>1, KickedOK, FailOK DEF GetRoleRefused, RestOK
<1>8. ASSUME NEW a \in Account, Reconnect(c, a) PROVE MgrOK(m') /\ RestOK'
  <2> DEFINE i == ByAccount(m, a)
  <2>1. CASE i = None
    BY <1>8, <2>1, FailOK DEF Reconnect, RestOK
  <2>2. CASE i # None
    <3>1. i \in Slot
      BY <2>2 DEF ByAccount, MgrOK, Mgr
    <3>2. PICK x \in IF m.conn[i] = c THEN {m} ELSE ForceCloseClient(m, i) : m' = x \/ Fail(x, c)
      BY <1>8, <2>2 DEF Reconnect
    <3>3. MgrOK(x)
      BY <3>1, <3>2, ForceCloseClientOK
    <3> QED BY <1>8, <3>2, <3>3, FailOK DEF Reconnect, RestOK
  <2> QED BY <2>1, <2>2
<1> QED BY <1>1, <1>2, <1>3, <1>4, <1>5, <1>6, <1>7, <1>8, GetRoleOK DEF Client

\* Lemma: the steps of the game server's connection.
LEMMA GameOK ==
    ASSUME MgrOK(m), RestOK, Game
    PROVE  MgrOK(m') /\ RestOK'
<1>1. CASE \/ ConnectGate \/ GameLost
          \/ (\E r \in pending : RequestLost(r)) \/ (\E i \in Slot : GameDefault(i))
  BY <1>1 DEF ConnectGate, GameLost, RequestLost, GameDefault, RestOK
<1>2. ASSUME NEW a \in Account, GetRoleResponse(a) \/ CreateRoleResponse(a)
      PROVE  MgrOK(m') /\ RestOK'
  <2>1. m' = m \/ (ByAccount(m, a) # None /\ m' = SetRole(m, ByAccount(m, a), a))
    BY <1>2 DEF GetRoleResponse, CreateRoleResponse
  <2>2. ByAccount(m, a) # None => ByAccount(m, a) \in Slot
    BY DEF ByAccount, MgrOK, Mgr
  <2>3. MgrOK(m')
    BY <2>1, <2>2, SetRoleOK
  <2> QED BY <1>2, <2>3 DEF GetRoleResponse, CreateRoleResponse, RestOK
<1> QED BY <1>1, <1>2 DEF Game

\* Lemma: RoutingInv is inductive.
LEMMA RoutingStep ==
    ASSUME RoutingInv, [Next]_vars
    PROVE  RoutingInv'
<1>1. MgrOK(m) /\ RestOK
  BY RoutingInvParts
<1>2. MgrOK(m') /\ RestOK'
  <2>1. CASE UNCHANGED vars
    BY <1>1, <2>1 DEF vars, RestOK
  <2>2. CASE Game
    BY <1>1, <2>2, GameOK
  <2>3. CASE \E c \in Conn : Client(c)
    BY <1>1, <2>3, ClientOK
  <2>4. CASE \E a \in Account : NewAccountSession(a)
    BY <1>1, <2>4 DEF NewAccountSession, RestOK
  <2> QED BY <2>1, <2>2, <2>3, <2>4 DEF Next
<1> QED BY <1>2 DEF RoutingInv, TypeOK, MgrOK, RestOK

\* Theorem: the slots and maps of ClientManager stay consistent in the sense
\* of RoutingInv, through every handler and whatever BiMap's undefined reads
\* yield.
THEOREM RoutingInvariant == Spec => []RoutingInv
  BY InitOK, RoutingStep, PTL DEF Spec

\* Theorem: a connection is routed to one client, which is in use and takes
\* no other connection's messages, and an account holds at most one slot.
THEOREM RoutingHolds == Spec => []Routing
<1>1. RoutingInv => Routing
  BY GateConstants DEF RoutingInv, TypeOK, Mgr, MapsAgree, Routing
<1> QED BY <1>1, RoutingInvariant, PTL

-----------------------------------------------------------------------------
\* Slots in use in x and not in y were released with their connection, which
\* was open in x; nothing else became open.
Released(x, y) ==
    /\ \A d \in Conn : (Up(y, d) => Up(x, d)) /\ (x.link[d] = "ended" => y.link[d] = "ended")
    /\ \A d \in Conn : y.con1[d] = x.con1[d] \/ y.con1[d] = None
    /\ \A i \in x.usedIds : i \notin y.usedIds =>
            \E d \in Conn : Up(x, d) /\ y.link[d] = "ended" /\ x.con1[d] = i

\* Lemma: force_close on a connection releases only its slot.
LEMMA ForceCloseConnReleased ==
    ASSUME NEW x, MgrOK(x), NEW c \in Conn, NEW y \in ForceCloseConn(x, c)
    PROVE  Released(x, y)
<1>1. \A d \in Conn : y.link[d] = x.link[d] \/ y.link[d] = "ended"
  BY ForceCloseConnShape
<1>2. \A d \in Conn : (Up(y, d) => Up(x, d)) /\ (x.link[d] = "ended" => y.link[d] = "ended")
  BY <1>1 DEF Up
<1> QED BY <1>2, ForceCloseConnShape DEF Released

\* Lemma: so does the one on a client.
LEMMA ForceCloseClientReleased ==
    ASSUME NEW x, MgrOK(x), NEW i \in Slot, NEW y \in ForceCloseClient(x, i)
    PROVE  Released(x, y)
<1>1. CASE x.used[i] /\ x.conn[i] # None
  <2>1. x.conn[i] \in Conn
    BY <1>1 DEF MgrOK, Mgr
  <2> QED BY <1>1, <2>1, ForceCloseConnReleased DEF ForceCloseClient
<1>2. CASE ~(x.used[i] /\ x.conn[i] # None)
  BY <1>2 DEF ForceCloseClient, Released
<1> QED BY <1>1, <1>2

\* Lemma: so does the kick.
LEMMA KickedReleased ==
    ASSUME NEW x, MgrOK(x), NEW a \in Account, NEW y \in Kicked(x, a)
    PROVE  Released(x, y)
<1>1. CASE ByAccount(x, a) = None
  BY <1>1 DEF Kicked, Released
<1>2. CASE ByAccount(x, a) # None
  <2>1. ByAccount(x, a) \in Slot
    BY <1>2 DEF ByAccount, MgrOK, Mgr
  <2> QED BY <1>2, <2>1, ForceCloseClientReleased DEF Kicked
<1> QED BY <1>1, <1>2

\* Lemma: two such steps in a row.
LEMMA ReleasedTwice ==
    ASSUME NEW x, NEW y, NEW z, None \notin x.usedIds, Released(x, y), Released(y, z)
    PROVE  Released(x, z)
<1>1. \A d \in Conn : (Up(z, d) => Up(x, d)) /\ (x.link[d] = "ended" => z.link[d] = "ended")
  BY DEF Released
<1>2. \A d \in Conn : z.con1[d] = x.con1[d] \/ z.con1[d] = None
  BY DEF Released
<1>3. ASSUME NEW i \in x.usedIds, i \notin z.usedIds, i # None
      PROVE  \E d \in Conn : Up(x, d) /\ z.link[d] = "ended" /\ x.con1[d] = i
  <2>1. CASE i \notin y.usedIds
    BY <1>3, <2>1 DEF Released
  <2>2. CASE i \in y.usedIds
    <3>1. PICK d \in Conn : Up(y, d) /\ z.link[d] = "ended" /\ y.con1[d] = i
      BY <1>3, <2>2 DEF Released
    <3>2. Up(x, d) /\ x.con1[d] = i
      BY <1>3, <3>1 DEF Released, Up
    <3> QED BY <3>1, <3>2
  <2> QED BY <2>1, <2>2
<1> QED BY <1>1, <1>2, <1>3 DEF Released

\* Lemma: close releases nothing.
LEMMA CloseClientReleased ==
    ASSUME NEW x, MgrOK(x), NEW i \in Slot
    PROVE  Released(x, CloseClient(x, i))
<1> DEFINE c == x.conn[i]
           y == CloseClient(x, i)
<1>1. CASE x.used[i] /\ c # None /\ x.link[c] # "gone"
  <2>1. c \in Conn
    BY <1>1 DEF MgrOK, Mgr
  <2>2. PICK s \in LinkState :
            /\ y = [x EXCEPT !.used[i] = FALSE, !.link[c] = s]
            /\ s = IF x.link[c] = "open" THEN "closing" ELSE x.link[c]
    BY <1>1, <2>1 DEF CloseClient, MgrOK, Mgr, LinkState
  <2>3. y.con1 = x.con1 /\ y.usedIds = x.usedIds /\ y.link = [x.link EXCEPT ![c] = s]
    BY <2>2 DEF MgrOK, Mgr
  <2>4. x.link \in [Conn -> LinkState]
    BY DEF MgrOK, Mgr
  <2> HIDE DEF y, c
  <2> QED BY <2>1, <2>2, <2>3, <2>4 DEF Released, Up, y
<1>2. CASE ~(x.used[i] /\ c # None /\ x.link[c] # "gone")
  BY <1>2 DEF CloseClient, Released
<1> QED BY <1>1, <1>2

\* Lemma: newClient releases nothing.
LEMMA NewClientReleased ==
    ASSUME NEW x, MgrOK(x), NEW a \in Account, NEW p \in NewClient(x, a)
    PROVE  Released(x, p[1])
<1>1. p[1].link = x.link /\ p[1].con1 = x.con1 /\ x.usedIds \subseteq p[1].usedIds
  <2>1. CASE x.acc1[a] # None
    BY <2>1 DEF NewClient, MgrOK, Mgr
  <2>2. CASE x.acc1[a] = None
    <3>1. PICK i \in x.freeIds :
            p = <<[x EXCEPT !.freeIds = @ \ {i}, !.usedIds = @ \cup {i}, !.used[i] = TRUE,
                            !.acc1[a] = i, !.acc2[i] = a, !.account[i] = a], i>>
      BY <2>2 DEF NewClient
    <3> DEFINE y == [x EXCEPT !.freeIds = @ \ {i}, !.usedIds = @ \cup {i}, !.used[i] = TRUE,
                              !.acc1[a] = i, !.acc2[i] = a, !.account[i] = a]
    <3>2. y.link = x.link /\ y.con1 = x.con1 /\ y.usedIds = x.usedIds \cup {i}
      BY DEF MgrOK, Mgr
    <3>3. p[1] = y
      BY <3>1
    <3> HIDE DEF y
    <3> QED BY <3>2, <3>3
  <2> QED BY <2>1, <2>2
<1> QED BY <1>1 DEF Released, Up

\* Lemma: a handler's error after changes that are in order.
LEMMA FailReleased ==
    ASSUME MgrOK(m), NEW x, MgrOK(x), Released(m, x), NEW c \in Conn, Fail(x, c)
    PROVE  ReleaseStep
<1>1. Released(x, m')
  BY ForceCloseConnReleased DEF Fail
<1>2. None \notin m.usedIds
  BY GateConstants DEF MgrOK, Mgr
<1> QED BY <1>1, <1>2, ReleasedTwice DEF Released, ReleaseStep

\* Lemma: GetRole may also release the slot it has just bound.
LEMMA GetRoleReleased ==
    ASSUME MgrOK(m), NEW c \in Conn, NEW a \in Account, GetRole(c, a)
    PROVE  ReleaseStep
<1>1. PICK x \in Kicked(m, a) :
        \/ Fail(x, c)
        \/ \E p \in NewClient(x, a) :
            \/ Fail(CloseClient(p[1], p[2]), c)
            \/ m' = Bind(p[1], c, p[2])
            \/ Fail(Bind(p[1], c, p[2]), c)
  BY DEF GetRole
<1>2. MgrOK(x) /\ Released(m, x) /\ None \notin m.usedIds /\ Up(m, c)
  BY KickedOK, KickedReleased, GateConstants DEF MgrOK, Mgr, GetRole
<1>3. CASE Fail(x, c)
  BY <1>2, <1>3, FailReleased
<1>4. ASSUME NEW p \in NewClient(x, a),
             \/ Fail(CloseClient(p[1], p[2]), c)
             \/ m' = Bind(p[1], c, p[2])
             \/ Fail(Bind(p[1], c, p[2]), c)
      PROVE  ReleaseStep
  <2> DEFINE y == Bind(p[1], c, p[2])
  <2>1. MgrOK(p[1]) /\ p[2] \in p[1].usedIds /\ p[2] \in Slot
    BY <1>2, NewClientOK
  <2>2. Released(m, p[1])
    BY <1>2, NewClientReleased, ReleasedTwice
  <2>3. CASE Fail(CloseClient(p[1], p[2]), c)
    <3>1. MgrOK(CloseClient(p[1], p[2])) /\ Released(m, CloseClient(p[1], p[2]))
      BY <1>2, <2>1, <2>2, CloseClientOK, CloseClientReleased, ReleasedTwice
    <3> QED BY <2>3, <3>1, FailReleased
  <2>4. /\ MgrOK(y) /\ y.usedIds = p[1].usedIds /\ y.link = p[1].link /\ y.conn[p[2]] = c
        /\ y.con1[c] = p[1].con1[c] \/ y.con1[c] = p[2]
    BY <2>1, BindOK, ZenonT(40) DEF Bind, MgrOK, Mgr
  <2> HIDE DEF y
  <2>5. CASE m' = y
    BY <2>2, <2>4, <2>5 DEF Released, ReleaseStep
  <2>6. CASE Fail(y, c)
    <3>1. /\ \A d \in Conn : y.link[d] = "ended" => m'.link[d] = "ended"
          /\ m'.conn = y.conn
          /\ \A i \in y.usedIds : i \notin m'.usedIds => y.con1[c] = i /\ m'.link[c] = "ended"
      BY <2>4, <2>6, ForceCloseConnShape DEF Fail
    <3>2. SUFFICES ASSUME NEW i \in Slot, i \in m.usedIds, i \notin m'.usedIds
                   PROVE  \E d \in Conn : /\ Up(m, d) /\ m'.link[d] = "ended"
                                          /\ m.con1[d] = i \/ m'.conn[i] = d
      BY DEF ReleaseStep
    <3>3. CASE i \notin y.usedIds
      BY <2>2, <2>4, <3>1, <3>2, <3>3 DEF Released
    <3>4. CASE i \in y.usedIds
      <4>1. y.con1[c] = i /\ m'.link[c] = "ended" /\ i # None
        BY <1>2, <3>1, <3>2, <3>4
      <4>2. CASE y.con1[c] = p[2]
        BY <1>2, <2>4, <3>1, <4>1, <4>2
      <4>3. CASE y.con1[c] = p[1].con1[c]
        BY <1>2, <2>2, <4>1, <4>3 DEF Released
      <4> QED BY <2>4, <4>2, <4>3
    <3> QED BY <3>3, <3>4
  <2> QED BY <1>4, <2>3, <2>5, <2>6 DEF y
<1> QED BY <1>1, <1>3, <1>4

\* Theorem: a slot is released only in a step that ends the connection whose
\* messages it took or was about to take; no close, kick of another client
\* or answer of the game server takes it away.
THEOREM ReleaseHolds == Spec => ReleasedByDisconnect
<1>1. RoutingInv /\ [Next]_vars => [ReleaseStep]_vars
  <2> SUFFICES ASSUME RoutingInv, Next PROVE ReleaseStep
    OBVIOUS
  <2>1. MgrOK(m) /\ Released(m, m)
    BY RoutingInvParts DEF Released
  <2>2. CASE Game \/ \E a \in Account : NewAccountSession(a)
    <3>1. m'.usedIds = m.usedIds
      BY <2>1, <2>2 DEF Game, ConnectGate, GameLost, RequestLost, GameDefault, GetRoleResponse,
            CreateRoleResponse, SetRole, NewAccountSession, MgrOK, Mgr
    <3> QED BY <3>1 DEF ReleaseStep
  <2>3. ASSUME NEW c \in Conn, Client(c) PROVE ReleaseStep
    <3>1. CASE Connect(c) \/ Reopen(c) \/ Forget(c)
      <4>1. m'.usedIds = m.usedIds
        BY <2>1, <3>1 DEF Connect, Reopen, Forget, MgrOK, Mgr
      <4> QED BY <4>1 DEF ReleaseStep
    <3>2. CASE Disconnect(c) \/ CreateRole(c) \/ EnterGame(c) \/ ClientDefault(c)
      <4>1. m' = m \/ Fail(m, c)
        <5>1. CASE Disconnect(c) \/ EnterGame(c) \/ ClientDefault(c)
          BY <5>1 DEF Disconnect, EnterGame, ClientDefault, Fail
        <5>2. CASE CreateRole(c)
          BY <5>2 DEF CreateRole
        <5> QED BY <3>2, <5>1, <5>2
      <4> QED BY <2>1, <4>1, FailReleased DEF ReleaseStep
    <3>3. CASE LeaveGame(c)
      <4> DEFINE i == ByConn(m, c)
      <4>1. CASE i = None
        BY <2>1, <3>3, <4>1, FailReleased DEF LeaveGame
      <4>2. CASE i # None
        <5>1. i \in Slot
          BY <2>1, <4>2 DEF ByConn, MgrOK, Mgr
        <5>2. MgrOK(CloseClient(m, i)) /\ Released(m, CloseClient(m, i))
          BY <2>1, <5>1, CloseClientOK, CloseClientReleased
        <5>3. m' = CloseClient(m, i) \/ Fail(CloseClient(m, i), c)
          BY <3>3, <4>2 DEF LeaveGame
        <5> QED BY <2>1, <5>2, <5>3, FailReleased DEF Released, ReleaseStep
      <4> QED BY <4>1, <4>2
    <3>4. ASSUME NEW a \in Account, GetRoleRefused(c, a) PROVE ReleaseStep
      <4>1. PICK x \in Kicked(m, a) : Fail(x, c)
        BY <3>4 DEF GetRoleRefused
      <4>2. MgrOK(x) /\ Released(m, x)
        BY <2>1, KickedOK, KickedReleased
      <4> QED BY <2>1, <4>1, <4>2, FailReleased
    <3>5. ASSUME NEW a \in Account, Reconnect(c, a) PROVE ReleaseStep
      <4> DEFINE i == ByAccount(m, a)
      <4>1. CASE i = None
        BY <2>1, <3>5, <4>1, FailReleased DEF Reconnect
      <4>2. CASE i # None
        <5>1. i \in Slot
          BY <2>1, <4>2 DEF ByAccount, MgrOK, Mgr
        <5>2. PICK x \in IF m.conn[i] = c THEN {m} ELSE ForceCloseClient(m, i) : m' = x \/ Fail(x, c)
          BY <3>5, <4>2 DEF Reconnect
        <5>3. MgrOK(x) /\ Released(m, x)
          BY <2>1, <5>1, <5>2, ForceCloseClientOK, ForceCloseClientReleased
        <5> QED BY <2>1, <5>2, <5>3, FailReleased DEF Released, ReleaseStep
      <4> QED BY <4>1, <4>2
    <3> QED BY <2>1, <2>3, <3>1, <3>2, <3>3, <3>4, <3>5, GetRoleReleased DEF Client
  <2> QED BY <2>2, <2>3 DEF Next
<1> QED BY <1>1, RoutingInvariant, PTL DEF Spec, ReleasedByDisconnect
=============================================================================
