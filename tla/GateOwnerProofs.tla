-------------------------- MODULE GateOwnerProofs --------------------------
(***************************************************************************)
(* ServesOwner for any sets of slots, accounts and connections, whatever   *)
(* BiMap's read of an erased node yields.                                  *)
(***************************************************************************)
EXTENDS GateClientsProofs

\* The inductive invariant, about a record of ClientManager's data and the
\* accounts that passed the session check.
OwnOK(x, au) == MgrOK(x) /\ BoundConns(x) /\ Owned(x, au)

\* Lemma: a connection may open when it is new, and close.
LEMMA LinkOwn ==
    ASSUME NEW x, NEW au, OwnOK(x, au), NEW c \in Conn, NEW s \in LinkState \ {"new"},
           Up([x EXCEPT !.link[c] = s], c) => Up(x, c) \/ x.link[c] = "new"
    PROVE  OwnOK([x EXCEPT !.link[c] = s], au)
<1> DEFINE y == [x EXCEPT !.link[c] = s]
<1>1. MgrOK(x) /\ MgrOK(y)
  BY LinkOK DEF OwnOK
<1>2. /\ y.acc1 = x.acc1 /\ y.acc2 = x.acc2 /\ y.con1 = x.con1 /\ y.con2 = x.con2
      /\ y.usedIds = x.usedIds /\ y.freeIds = x.freeIds /\ y.used = x.used
      /\ y.account = x.account /\ y.conn = x.conn
  BY <1>1 DEF MgrOK, Mgr
<1>3. /\ y.link[c] = s /\ s # "new"
      /\ \A d \in Conn : d # c => y.link[d] = x.link[d]
  BY <1>1 DEF MgrOK, Mgr
<1>4. /\ \A d \in Conn : Up(y, d) => Up(x, d) \/ x.link[d] = "new"
      /\ \A d \in Conn : x.link[d] # "new" => y.link[d] # "new"
  BY <1>3 DEF Up
<1>5. \A i \in Slot : x.conn[i] # None => x.conn[i] \in Conn
  BY <1>1 DEF MgrOK, Mgr
<1>6. x.usedIds \subseteq Slot /\ x.freeIds \subseteq Slot
  BY <1>1 DEF MgrOK, Mgr
<1> HIDE DEF y
<1>7. BoundConns(y)
  BY <1>2, <1>4, <1>5, <1>6 DEF OwnOK, BoundConns
<1>8. Owned(y, au)
  BY <1>2, <1>4, <1>5, <1>6 DEF OwnOK, BoundConns, Owned
<1> QED BY <1>1, <1>7, <1>8 DEF OwnOK, y

\* Lemma: force_close on a connection, with onDisconnect.
LEMMA ForceCloseConnOwn ==
    ASSUME NEW x, NEW au, OwnOK(x, au), NEW c \in Conn,
           NEW y \in ForceCloseConn(x, c)
    PROVE  OwnOK(y, au)
<1>1. CASE ~Up(x, c)
  BY <1>1 DEF ForceCloseConn
<1>2. CASE Up(x, c)
  <2> DEFINE z == [x EXCEPT !.link[c] = "ended"]
             i == z.con1[c]
             a == z.acc2[i]
  <2>1. MgrOK(x) /\ z.link[c] = "ended" /\ z.con1 = x.con1 /\ z.used = x.used /\ z.conn = x.conn
    BY DEF OwnOK, MgrOK, Mgr
  <2>2. OwnOK(z, au) /\ MgrOK(z)
    <3>1. ~Up(z, c)
      BY <2>1 DEF Up
    <3>2. "ended" \in LinkState \ {"new"}
      BY DEF LinkState
    <3> QED BY <3>1, <3>2, LinkOwn DEF OwnOK
  <2>3. PICK r \in ReadBack \X ReadBack : y = Removed(z, c, r)
    BY <1>2 DEF ForceCloseConn, RemoveByConnId
  <2>4. MgrOK(y)
    <3>1. y \in RemoveByConnId(z, c)
      BY <2>3 DEF RemoveByConnId
    <3> QED BY <2>2, <3>1, RemoveByConnIdOK
  <2>5. CASE i \notin z.usedIds \/ ~z.used[i]
    BY <2>2, <2>3, <2>5 DEF Removed
  <2>6. CASE i \in z.usedIds /\ z.used[i]
    <3>1. i \in Slot /\ a \in Account /\ a # None /\ i # None
      BY <2>2, <2>6, GateConstants DEF MgrOK, Mgr, MapsAgree
    <3>2. x.conn[i] = c
      BY <1>2, <2>1, <2>6, <3>1 DEF OwnOK, BoundConns
    <3>3. y = [Freed(z, i) EXCEPT !.acc1 = Unmapped(@, a, r[1]), !.acc2[i] = None,
                                  !.con1[c] = None, !.con2 = Unmapped(@, i, r[2])]
      BY <2>3, <2>6, <3>1 DEF Removed
    <3>4. /\ y.con1 = [z.con1 EXCEPT ![c] = None]
          /\ y.usedIds = z.usedIds \ {i} /\ y.freeIds = z.freeIds \cup {i}
          /\ y.used = [z.used EXCEPT ![i] = FALSE]
          /\ y.account = z.account /\ y.conn = z.conn /\ y.link = z.link
      BY <2>2, <3>3 DEF Freed, MgrOK, Mgr
    <3>5. /\ z.con1 \in [Conn -> Slot \cup {None}]
          /\ z.usedIds \subseteq Slot /\ z.freeIds \subseteq Slot
          /\ z.used \in [Slot -> BOOLEAN] /\ z.conn \in [Slot -> Conn \cup {None}]
      BY <2>2 DEF MgrOK, Mgr
    <3>6. z.conn[i] = c /\ z.link[c] = "ended"
      BY <2>1, <3>2
    <3>7. BoundConns(z) /\ Owned(z, au)
      BY <2>2 DEF OwnOK
    <3> HIDE DEF z, i, a
    <3>8. BoundConns(y)
      BY <3>1, <3>4, <3>5, <3>6, <3>7 DEF BoundConns, Up
    <3>9. Owned(y, au)
      BY <3>1, <3>4, <3>5, <3>7 DEF Owned, Up
    <3> QED BY <2>4, <3>8, <3>9 DEF OwnOK
  <2> QED BY <2>5, <2>6
<1> QED BY <1>1, <1>2

\* A slot's connection, if the slot is in order, is not open.
Calm(x, i) == x.used[i] /\ x.conn[i] # None => ~Up(x, x.conn[i])

\* Lemma: force_close on a client.
LEMMA ForceCloseClientOwn ==
    ASSUME NEW x, NEW au, OwnOK(x, au), NEW i \in Slot,
           NEW y \in ForceCloseClient(x, i)
    PROVE  OwnOK(y, au) /\ Calm(y, i) /\ \A d \in Conn : y.link[d] = x.link[d] \/ y.link[d] = "ended"
<1>1. CASE x.used[i] /\ x.conn[i] # None
  <2>1. x.conn[i] \in Conn /\ MgrOK(x)
    BY <1>1 DEF OwnOK, MgrOK, Mgr
  <2>2. y \in ForceCloseConn(x, x.conn[i])
    BY <1>1 DEF ForceCloseClient
  <2>3. OwnOK(y, au)
    BY <2>1, <2>2, ForceCloseConnOwn
  <2>4. /\ y.conn = x.conn /\ ~Up(y, x.conn[i])
        /\ \A d \in Conn : y.link[d] = x.link[d] \/ y.link[d] = "ended"
    BY <2>1, <2>2, ForceCloseConnShape
  <2> QED BY <2>3, <2>4 DEF Calm
<1>2. CASE ~(x.used[i] /\ x.conn[i] # None)
  BY <1>2 DEF ForceCloseClient, Calm
<1> QED BY <1>1, <1>2

\* Lemma: after the kick no open connection belongs to the account's slot.
LEMMA KickedOwn ==
    ASSUME NEW x, NEW au, OwnOK(x, au), NEW a \in Account,
           NEW y \in Kicked(x, a)
    PROVE  /\ OwnOK(y, au) /\ \A d \in Conn : y.link[d] = x.link[d] \/ y.link[d] = "ended"
           /\ y.acc1[a] \in y.usedIds => Calm(y, y.acc1[a])
<1>1. CASE ByAccount(x, a) = None
  <2>1. y = x
    BY <1>1 DEF Kicked
  <2>2. x.acc1[a] \notin x.usedIds
    BY <1>1, GateConstants DEF ByAccount, OwnOK, MgrOK, Mgr
  <2> QED BY <2>1, <2>2
<1>2. CASE ByAccount(x, a) # None
  <2> DEFINE i == x.acc1[a]
  <2>1. i \in Slot /\ i # None /\ MgrOK(x) /\ y \in ForceCloseClient(x, i)
    BY <1>2, GateConstants DEF ByAccount, Kicked, OwnOK, MgrOK, Mgr
  <2>2. OwnOK(y, au) /\ Calm(y, i) /\ \A d \in Conn : y.link[d] = x.link[d] \/ y.link[d] = "ended"
    BY <2>1, ForceCloseClientOwn
  <2>3. y.acc1[a] = i \/ y.acc1[a] = None
    <3>1. CASE x.used[i] /\ x.conn[i] # None
      <4>1. x.conn[i] \in Conn /\ y \in ForceCloseConn(x, x.conn[i])
        BY <2>1, <3>1 DEF ForceCloseClient, MgrOK, Mgr
      <4> QED BY <2>1, <4>1, ForceCloseConnShape
    <3>2. CASE ~(x.used[i] /\ x.conn[i] # None)
      BY <2>1, <3>2 DEF ForceCloseClient
    <3> QED BY <3>1, <3>2
  <2>4. None \notin y.usedIds
    BY <2>2, GateConstants DEF OwnOK, MgrOK, Mgr
  <2> QED BY <2>2, <2>3, <2>4
<1> QED BY <1>1, <1>2

\* Lemma: newClient; the slot it returns has the account and is calm.
LEMMA NewClientOwn ==
    ASSUME NEW x, NEW au, OwnOK(x, au), NEW a \in Account, NEW p \in NewClient(x, a),
           x.acc1[a] \in x.usedIds => Calm(x, x.acc1[a])
    PROVE  /\ OwnOK(p[1], au) /\ p[2] \in p[1].usedIds /\ p[2] \in Slot
           /\ p[1].account[p[2]] = a /\ p[1].link = x.link /\ Calm(p[1], p[2])
<1>1. MgrOK(x) /\ MgrOK(p[1]) /\ p[2] \in p[1].usedIds /\ p[2] \in Slot
  BY NewClientOK DEF OwnOK
<1>2. CASE x.acc1[a] # None
  <2> DEFINE i == x.acc1[a]
             y == [x EXCEPT !.account[i] = a]
  <2>1. i \in Slot /\ i \in x.usedIds /\ p = <<y, i>>
    BY <1>1, <1>2 DEF NewClient, MgrOK, Mgr
  <2>2. /\ y.con1 = x.con1 /\ y.usedIds = x.usedIds /\ y.freeIds = x.freeIds /\ y.used = x.used
        /\ y.account = [x.account EXCEPT ![i] = a] /\ y.conn = x.conn /\ y.link = x.link
        /\ x.account \in [Slot -> Account \cup {None}] /\ x.usedIds \subseteq Slot
    BY <1>1 DEF MgrOK, Mgr
  <2> HIDE DEF y, i
  <2>3. Calm(x, i) /\ Calm(y, i)
    BY <2>1, <2>2 DEF i, Calm, Up
  <2>4. BoundConns(y)
    BY <2>2 DEF OwnOK, BoundConns, Up
  <2>5. Owned(y, au)
    BY <2>1, <2>2, <2>3 DEF OwnOK, Owned, Calm, Up
  <2> QED BY <1>1, <2>1, <2>2, <2>3, <2>4, <2>5 DEF OwnOK
<1>3. CASE x.acc1[a] = None
  <2>1. PICK i \in x.freeIds :
            p = <<[x EXCEPT !.freeIds = @ \ {i}, !.usedIds = @ \cup {i}, !.used[i] = TRUE,
                            !.acc1[a] = i, !.acc2[i] = a, !.account[i] = a], i>>
    BY <1>3 DEF NewClient
  <2> DEFINE y == [x EXCEPT !.freeIds = @ \ {i}, !.usedIds = @ \cup {i}, !.used[i] = TRUE,
                            !.acc1[a] = i, !.acc2[i] = a, !.account[i] = a]
  <2>2. /\ y.freeIds = x.freeIds \ {i} /\ y.usedIds = x.usedIds \cup {i}
        /\ y.used = [x.used EXCEPT ![i] = TRUE] /\ y.acc1 = [x.acc1 EXCEPT ![a] = i]
        /\ y.acc2 = [x.acc2 EXCEPT ![i] = a] /\ y.account = [x.account EXCEPT ![i] = a]
        /\ y.con1 = x.con1 /\ y.con2 = x.con2 /\ y.conn = x.conn /\ y.link = x.link
    BY <1>1 DEF MgrOK, Mgr
  <2>3. /\ i \in Slot /\ i \notin x.usedIds /\ a # None /\ i # None /\ x.acc2[i] = None
        /\ \A c \in Conn : x.con1[c] # i
    BY <1>1, GateConstants DEF MgrOK, Mgr, SlotsPartitioned, MapsAgree
  <2>4. /\ x.acc1 \in [Account -> Slot \cup {None}] /\ x.acc2 \in [Slot -> Account \cup {None}]
        /\ x.con1 \in [Conn -> Slot \cup {None}] /\ x.conn \in [Slot -> Conn \cup {None}]
        /\ x.usedIds \subseteq Slot /\ x.freeIds \subseteq Slot
        /\ x.used \in [Slot -> BOOLEAN] /\ x.account \in [Slot -> Account \cup {None}]
    BY <1>1 DEF MgrOK, Mgr
  <2>5. p[1] = y /\ p[2] = i
    BY <2>1
  <2>6. ~(x.conn[i] # None /\ Up(x, x.conn[i]))
    BY DEF OwnOK, BoundConns
  <2> HIDE DEF y
  <2>7. BoundConns(y)
    BY <2>2, <2>3, <2>4 DEF OwnOK, BoundConns, Up
  <2>8. Owned(y, au)
    BY <2>2, <2>3, <2>4, <2>6 DEF OwnOK, Owned, Up
  <2>9. Calm(y, i)
    BY <2>2, <2>6 DEF Calm, Up
  <2> QED BY <1>1, <2>2, <2>3, <2>4, <2>5, <2>7, <2>8, <2>9 DEF OwnOK
<1> QED BY <1>2, <1>3

\* Lemma: binding a connection on which the slot's account was checked.
LEMMA BindOwn ==
    ASSUME NEW x, NEW au, OwnOK(x, au), NEW c \in Conn, NEW i \in x.usedIds,
           x.account[i] \in au[c], x.link[c] # "new", Calm(x, i)
    PROVE  OwnOK(Bind(x, c, i), au)
<1> DEFINE y == Bind(x, c, i)
<1>1. MgrOK(x) /\ MgrOK(y) /\ i \in Slot /\ i # None /\ c # None /\ i \notin x.freeIds
  BY BindOK, GateConstants DEF OwnOK, MgrOK, Mgr, SlotsPartitioned
<1>2. /\ y.acc1 = x.acc1 /\ y.acc2 = x.acc2 /\ y.usedIds = x.usedIds /\ y.freeIds = x.freeIds
      /\ y.used = x.used /\ y.account = x.account /\ y.link = x.link
      /\ y.conn = [x.conn EXCEPT ![i] = c]
  BY <1>1 DEF Bind, MgrOK, Mgr
<1>3. \/ /\ x.con1[c] = None /\ x.con2[i] = None
         /\ y.con1 = [x.con1 EXCEPT ![c] = i] /\ y.con2 = [x.con2 EXCEPT ![i] = c]
      \/ y.con1 = x.con1 /\ y.con2 = x.con2
  BY <1>1 DEF Bind, MgrOK, Mgr
<1>4. /\ x.con1 \in [Conn -> Slot \cup {None}] /\ x.con2 \in [Slot -> Conn \cup {None}]
      /\ x.conn \in [Slot -> Conn \cup {None}] /\ x.usedIds \subseteq Slot /\ x.freeIds \subseteq Slot
  BY <1>1 DEF MgrOK, Mgr
<1>5. \A d \in Conn : x.con1[d] = i /\ x.used[i] => ~Up(x, d)
  BY <1>1, GateConstants DEF OwnOK, BoundConns, Calm
<1> HIDE DEF y
<1>6. BoundConns(y)
  <2>1. \A d \in Conn : y.con1[d] # None /\ y.used[y.con1[d]] /\ Up(y, d) => y.conn[y.con1[d]] = d
    BY <1>1, <1>2, <1>3, <1>4, <1>5 DEF OwnOK, BoundConns, Up
  <2>2. \A j \in y.freeIds : y.conn[j] # None => ~Up(y, y.conn[j])
    BY <1>1, <1>2, <1>4 DEF OwnOK, BoundConns, Up
  <2>3. \A j \in Slot : y.conn[j] # None => y.link[y.conn[j]] # "new"
    BY <1>1, <1>2, <1>4 DEF OwnOK, BoundConns
  <2>4. \A d \in Conn : y.con1[d] # None => y.link[d] # "new"
    BY <1>1, <1>2, <1>3, <1>4 DEF OwnOK, BoundConns
  <2> QED BY <2>1, <2>2, <2>3, <2>4 DEF BoundConns
<1>7. Owned(y, au)
  BY <1>1, <1>2, <1>4 DEF OwnOK, Owned, Up
<1> QED BY <1>1, <1>6, <1>7 DEF OwnOK, y

\* Lemma: close on a client.
LEMMA CloseClientOwn ==
    ASSUME NEW x, NEW au, OwnOK(x, au), NEW i \in Slot
    PROVE  OwnOK(CloseClient(x, i), au)
<1> DEFINE c == x.conn[i]
           y == CloseClient(x, i)
<1>1. MgrOK(x) /\ MgrOK(y)
  BY CloseClientOK DEF OwnOK
<1>2. CASE x.used[i] /\ c # None /\ x.link[c] # "gone"
  <2>1. c \in Conn
    BY <1>1, <1>2 DEF MgrOK, Mgr
  <2>2. PICK s \in LinkState :
            /\ y = [x EXCEPT !.used[i] = FALSE, !.link[c] = s]
            /\ s = IF x.link[c] = "open" THEN "closing" ELSE x.link[c]
    BY <1>1, <1>2, <2>1 DEF CloseClient, MgrOK, Mgr, LinkState
  <2>3. /\ y.acc1 = x.acc1 /\ y.acc2 = x.acc2 /\ y.con1 = x.con1 /\ y.con2 = x.con2
        /\ y.usedIds = x.usedIds /\ y.freeIds = x.freeIds /\ y.account = x.account /\ y.conn = x.conn
        /\ y.used = [x.used EXCEPT ![i] = FALSE] /\ y.link = [x.link EXCEPT ![c] = s]
    BY <1>1, <2>2 DEF MgrOK, Mgr
  <2>4. /\ x.used \in [Slot -> BOOLEAN] /\ x.link \in [Conn -> LinkState]
        /\ x.con1 \in [Conn -> Slot \cup {None}] /\ x.conn \in [Slot -> Conn \cup {None}]
        /\ x.usedIds \subseteq Slot /\ x.freeIds \subseteq Slot
    BY <1>1 DEF MgrOK, Mgr
  <2>5. \A d \in Conn : (Up(y, d) <=> Up(x, d)) /\ (y.link[d] = "new" <=> x.link[d] = "new")
    BY <2>1, <2>2, <2>3, <2>4 DEF Up
  <2>6. \A j \in Slot : y.used[j] => x.used[j]
    BY <2>3, <2>4
  <2> HIDE DEF y, c
  <2>7. BoundConns(y)
    BY <2>3, <2>4, <2>5, <2>6 DEF OwnOK, BoundConns
  <2>8. Owned(y, au)
    BY <2>3, <2>4, <2>5, <2>6 DEF OwnOK, Owned
  <2> QED BY <1>1, <2>7, <2>8 DEF OwnOK, y
<1>3. CASE ~(x.used[i] /\ c # None /\ x.link[c] # "gone")
  BY <1>3 DEF CloseClient
<1> QED BY <1>2, <1>3

\* Lemma: recording a role.
LEMMA SetRoleOwn ==
    ASSUME NEW x, NEW au, OwnOK(x, au), NEW i \in Slot, NEW a \in Account
    PROVE  OwnOK(SetRole(x, i, a), au)
<1> DEFINE y == SetRole(x, i, a)
<1>1. MgrOK(x) /\ MgrOK(y)
  BY SetRoleOK DEF OwnOK
<1>2. /\ y.acc1 = x.acc1 /\ y.acc2 = x.acc2 /\ y.con1 = x.con1 /\ y.con2 = x.con2
      /\ y.usedIds = x.usedIds /\ y.freeIds = x.freeIds /\ y.used = x.used
      /\ y.account = x.account /\ y.conn = x.conn /\ y.link = x.link
  BY <1>1 DEF SetRole, MgrOK, Mgr
<1> HIDE DEF y
<1>3. BoundConns(y)
  BY <1>2 DEF OwnOK, BoundConns, Up
<1>4. Owned(y, au)
  BY <1>2 DEF OwnOK, Owned, Up
<1> QED BY <1>1, <1>3, <1>4 DEF OwnOK, y

\* Lemma: more sessions checked.
LEMMA AuthOwn ==
    ASSUME NEW x, NEW au, OwnOK(x, au), NEW c \in Conn, NEW a \in Account,
           au \in [Conn -> SUBSET Account]
    PROVE  OwnOK(x, [au EXCEPT ![c] = @ \cup {a}])
<1>1. \A d \in Conn : au[d] \subseteq [au EXCEPT ![c] = @ \cup {a}][d]
  OBVIOUS
<1>2. \A i \in x.usedIds : x.conn[i] # None => x.conn[i] \in Conn
  BY DEF OwnOK, MgrOK, Mgr
<1>3. Owned(x, [au EXCEPT ![c] = @ \cup {a}])
  BY <1>1, <1>2 DEF OwnOK, Owned
<1> QED BY <1>3 DEF OwnOK

-----------------------------------------------------------------------------
\* Lemma: a handler's error.
LEMMA FailOwn ==
    ASSUME NEW x, NEW au, OwnOK(x, au), NEW c \in Conn, Fail(x, c)
    PROVE  OwnOK(m', au)
  BY ForceCloseConnOwn DEF Fail

\* Lemma: GetRole with a valid session.  The kick has ended the slot's
\* connection before the new one is bound.
LEMMA GetRoleOwn ==
    ASSUME OwnOK(m, auth), RestOK,
           NEW c \in Conn, NEW a \in Account, GetRole(c, a)
    PROVE  OwnOK(m', auth')
<1>1. PICK x \in Kicked(m, a) :
        \/ Fail(x, c)
        \/ \E p \in NewClient(x, a) :
            \/ Fail(CloseClient(p[1], p[2]), c)
            \/ m' = Bind(p[1], c, p[2])
            \/ Fail(Bind(p[1], c, p[2]), c)
  BY DEF GetRole
<1>2. auth' = [auth EXCEPT ![c] = @ \cup {a}] /\ a \in auth'[c]
  BY DEF GetRole, RestOK
<1>3. OwnOK(m, auth')
  BY <1>2, AuthOwn DEF RestOK
<1>4. /\ OwnOK(x, auth') /\ \A d \in Conn : x.link[d] = m.link[d] \/ x.link[d] = "ended"
      /\ x.acc1[a] \in x.usedIds => Calm(x, x.acc1[a])
  BY <1>3, KickedOwn
<1>5. x.link[c] # "new"
  BY <1>4 DEF GetRole, Up
<1>6. CASE Fail(x, c)
  BY <1>4, <1>6, FailOwn
<1>7. ASSUME NEW p \in NewClient(x, a),
             \/ Fail(CloseClient(p[1], p[2]), c)
             \/ m' = Bind(p[1], c, p[2])
             \/ Fail(Bind(p[1], c, p[2]), c)
      PROVE  OwnOK(m', auth')
  <2>1. /\ OwnOK(p[1], auth') /\ p[2] \in p[1].usedIds /\ p[2] \in Slot
        /\ p[1].account[p[2]] = a /\ p[1].link = x.link /\ Calm(p[1], p[2])
    BY <1>4, NewClientOwn
  <2>2. OwnOK(CloseClient(p[1], p[2]), auth')
    BY <2>1, CloseClientOwn
  <2>3. OwnOK(Bind(p[1], c, p[2]), auth')
    BY <1>2, <1>5, <2>1, BindOwn
  <2> QED BY <1>7, <2>2, <2>3, FailOwn
<1> QED BY <1>1, <1>6, <1>7

\* Lemma: the other steps of a client connection.
LEMMA ClientOwn ==
    ASSUME OwnOK(m, auth), RestOK, NEW c \in Conn, Client(c)
    PROVE  OwnOK(m', auth')
<1>1. CASE Connect(c) \/ Reopen(c) \/ Forget(c)
  <2>1. PICK s \in LinkState \ {"new"} :
            /\ m' = [m EXCEPT !.link[c] = s] /\ auth' = auth
            /\ s = "gone" \/ Up(m, c) \/ m.link[c] = "new"
    BY <1>1 DEF Connect, Reopen, Forget, LinkState, Up
  <2>2. Up([m EXCEPT !.link[c] = s], c) => s # "gone"
    BY DEF OwnOK, MgrOK, Mgr, Up
  <2>3. OwnOK([m EXCEPT !.link[c] = s], auth)
    BY <2>1, <2>2, LinkOwn
  <2> QED BY <2>1, <2>3
<1>2. CASE Disconnect(c)
  BY <1>2, ForceCloseConnOwn DEF Disconnect
<1>3. CASE CreateRole(c)
  BY <1>3, FailOwn DEF CreateRole
<1>4. CASE EnterGame(c)
  BY <1>4, FailOwn DEF EnterGame
<1>5. CASE LeaveGame(c)
  <2>1. ASSUME ByConn(m, c) # None PROVE OwnOK(CloseClient(m, ByConn(m, c)), auth)
    <3>1. ByConn(m, c) \in Slot
      BY <2>1 DEF ByConn, OwnOK, MgrOK, Mgr
    <3> QED BY <3>1, CloseClientOwn
  <2> QED BY <1>5, <2>1, FailOwn DEF LeaveGame
<1>6. CASE ClientDefault(c)
  BY <1>6, FailOwn DEF ClientDefault
<1>7. ASSUME NEW a \in Account, GetRoleRefused(c, a) PROVE OwnOK(m', auth')
  <2>1. PICK x \in Kicked(m, a) : Fail(x, c)
    BY <1>7 DEF GetRoleRefused
  <2>2. OwnOK(x, auth)
    BY <2>1, KickedOwn
  <2> QED BY <1>7, <2>1, <2>2, FailOwn DEF GetRoleRefused
<1>8. ASSUME NEW a \in Account, Reconnect(c, a) PROVE OwnOK(m', auth')
  <2> DEFINE i == ByAccount(m, a)
  <2>1. CASE i = None
    BY <1>8, <2>1, FailOwn DEF Reconnect
  <2>2. CASE i # None
    <3>1. i \in Slot
      BY <2>2 DEF ByAccount, OwnOK, MgrOK, Mgr
    <3>2. PICK x \in IF m.conn[i] = c THEN {m} ELSE ForceCloseClient(m, i) : m' = x \/ Fail(x, c)
      BY <1>8, <2>2 DEF Reconnect
    <3>3. OwnOK(x, auth)
      BY <3>1, <3>2, ForceCloseClientOwn
    <3> QED BY <1>8, <3>2, <3>3, FailOwn DEF Reconnect
  <2> QED BY <2>1, <2>2
<1> QED BY <1>1, <1>2, <1>3, <1>4, <1>5, <1>6, <1>7, <1>8, GetRoleOwn DEF Client

\* Lemma: the steps of the game server's connection only record roles.
LEMMA GameOwn ==
    ASSUME OwnOK(m, auth), Game
    PROVE  OwnOK(m', auth')
<1>1. CASE \/ ConnectGate \/ GameLost
          \/ (\E r \in pending : RequestLost(r)) \/ (\E i \in Slot : GameDefault(i))
  BY <1>1 DEF ConnectGate, GameLost, RequestLost, GameDefault
<1>2. ASSUME NEW a \in Account, GetRoleResponse(a) \/ CreateRoleResponse(a)
      PROVE  OwnOK(m', auth')
  <2>1. m' = m \/ (ByAccount(m, a) # None /\ m' = SetRole(m, ByAccount(m, a), a))
    BY <1>2 DEF GetRoleResponse, CreateRoleResponse
  <2>2. ByAccount(m, a) # None => ByAccount(m, a) \in Slot
    BY DEF ByAccount, OwnOK, MgrOK, Mgr
  <2>3. OwnOK(m', auth)
    BY <2>1, <2>2, SetRoleOwn
  <2> QED BY <1>2, <2>3 DEF GetRoleResponse, CreateRoleResponse
<1> QED BY <1>1, <1>2 DEF Game

\* Theorem: whatever BiMap's undefined read yields, a client in use serves
\* only a connection on which its account's session was checked, and a
\* connection that is up sends to no other client in use.
THEOREM OwnerHolds == Spec => []ServesOwner
<1>1. Init => OwnerInv
  BY DEF Init, OwnerInv, BoundConns, Owned
<1>2. RoutingInv /\ OwnerInv /\ [Next]_vars => OwnerInv'
  <2> SUFFICES ASSUME RoutingInv, OwnerInv, [Next]_vars PROVE OwnerInv'
    OBVIOUS
  <2>1. OwnOK(m, auth) /\ RestOK
    BY RoutingInvParts DEF OwnerInv, OwnOK
  <2>2. OwnOK(m', auth')
    <3>1. CASE UNCHANGED vars
      BY <2>1, <3>1 DEF vars
    <3>2. CASE Game
      BY <2>1, <3>2, GameOwn
    <3>3. CASE \E c \in Conn : Client(c)
      BY <2>1, <3>3, ClientOwn
    <3>4. CASE \E a \in Account : NewAccountSession(a)
      BY <2>1, <3>4 DEF NewAccountSession
    <3> QED BY <3>1, <3>2, <3>3, <3>4 DEF Next
  <2> QED BY <2>2 DEF OwnerInv, OwnOK
<1>3. RoutingInv /\ OwnerInv => ServesOwner
  BY GateConstants DEF RoutingInv, TypeOK, Mgr, OwnerInv, BoundConns, Owned, ServesOwner
<1> QED BY <1>1, <1>2, <1>3, RoutingInvariant, PTL DEF Spec
=============================================================================
