--------------------------- MODULE GateGameProofs ---------------------------
(***************************************************************************)
(* Proofs about GateGame: what was proved of the gate holds of the gate    *)
(* with its game server, and the game server's tables are sound, for any   *)
(* sets of slots, accounts and connections, any number of messages in      *)
(* flight and any outcome of the undefined read in BiMap.                  *)
(***************************************************************************)
EXTENDS GateGameInv, GateOwnerProofs

\* Lemma: no message, and one message, are short sequences of messages.
LEMMA OneMessage ==
    /\ <<>> \in Seq(ToGame) /\ Len(<<>>) <= 1
    /\ \A q \in ToGame : <<q>> \in Seq(ToGame) /\ Len(<<q>>) <= 1
  OBVIOUS

\* Lemma: every step of the composition is a step of the gate, or none.
LEMMA GateStep ==
    ASSUME GTypeOK, GNext
    PROVE  [Next]_vars
<1>1. CASE \E c \in Conn : ClientEnters(c) \/ ClientLeaves(c) \/ ClientData(c)
  BY <1>1 DEF ClientEnters, ClientLeaves, ClientData, Next, Client
<1>2. CASE ClientOther
  BY <1>2 DEF ClientOther, Next, Client, Game
<1>3. CASE Answered
  BY <1>3 DEF Answered, Next, Game
<1>4. CASE PassedOn
  <2>1. outbox # <<>> => Head(outbox) \in Slot
    BY DEF GTypeOK
  <2> QED BY <1>4, <2>1 DEF PassedOn, Next, Game
<1>5. CASE Starts \/ Ends \/ ProcessLeaveGame
  BY <1>5 DEF Starts, Ends, ProcessLeaveGame, Next, Game
<1>6. CASE ProcessEnterGame \/ ProcessChat \/ ProcessSetRoleData
  BY <1>6 DEF ProcessEnterGame, ProcessChat, ProcessSetRoleData
<1> QED BY <1>1, <1>2, <1>3, <1>4, <1>5, <1>6 DEF GNext

\* Lemma: sending appends messages of the right type.
LEMMA SendGameType ==
    ASSUME GTypeOK, NEW s \in Seq(ToGame), SendGame(s)
    PROVE  /\ inbox' \in Seq(ToGame) /\ entered' \subseteq Slot
           /\ UNCHANGED <<online, user, outbox>>
  BY DEF GTypeOK, SendGame

\* Lemma: a new game server has no players and no messages.
LEMMA NoPlayersType ==
    ASSUME NoPlayers
    PROVE  /\ online' \in [Slot -> Account \cup {None}] /\ user' \in [Account -> Slot \cup {None}]
           /\ inbox' \in Seq(ToGame) /\ outbox' \in Seq(Slot) /\ entered' \subseteq Slot
  BY DEF NoPlayers

\* Lemma: the message at the head of the inbox.
LEMMA HeadType ==
    ASSUME GTypeOK, inbox # <<>>
    PROVE  /\ Head(inbox) \in ToGame /\ Head(inbox).user \in Slot
           /\ Head(inbox).kind = "enter" => Head(inbox).role \in Account
           /\ Tail(inbox) \in Seq(ToGame)
<1>1. Head(inbox) \in ToGame /\ Tail(inbox) \in Seq(ToGame)
  BY DEF GTypeOK
<1> QED BY <1>1 DEF ToGame

\* Lemma: a client's message for the game server is one message or none.
LEMMA ClientSends ==
    ASSUME RoutingInv, NEW c \in Conn, ClientEnters(c) \/ ClientLeaves(c) \/ ClientData(c)
    PROVE  \E s \in Seq(ToGame) : Len(s) <= 1 /\ SendGame(s)
<1>1. /\ ByConn(m, c) # None => ByConn(m, c) \in Slot
      /\ m.con1[c] # None => m.con1[c] \in Slot
      /\ Entering(c) => ByConn(m, c) \in Slot /\ m.role[ByConn(m, c)] \in Account
  BY DEF RoutingInv, TypeOK, Mgr, ByConn, Entering
<1>2. \A s \in Seq(ToGame) : Len(s) <= 1 /\ SendGame(s)
                                => \E t \in Seq(ToGame) : Len(t) <= 1 /\ SendGame(t)
  OBVIOUS
<1>3. CASE SendGame(<<>>)
  BY <1>2, <1>3, OneMessage
<1>4. CASE \E v \in ToGame : SendGame(<<v>>)
  BY <1>2, <1>4, OneMessage
<1>5. CASE ClientEnters(c)
  <2> DEFINE q == [kind |-> "enter", user |-> ByConn(m, c), role |-> m.role[ByConn(m, c)]]
  <2>1. Entering(c) => q \in ToGame
    BY <1>1 DEF ToGame
  <2>2. (game /\ Entering(c) /\ SendGame(<<q>>)) \/ SendGame(<<>>)
    BY <1>5, Zenon DEF ClientEnters
  <2> QED BY <1>3, <1>4, <2>1, <2>2
<1>6. CASE ClientLeaves(c)
  <2>1. ByConn(m, c) # None => Leave(ByConn(m, c)) \in ToGame
    BY <1>1 DEF ToGame, Leave
  <2>2. (ByConn(m, c) # None /\ SendGame(<<Leave(ByConn(m, c))>>)) \/ SendGame(<<>>)
    BY <1>6, Zenon DEF ClientLeaves
  <2> QED BY <1>3, <1>4, <2>1, <2>2
<1>7. CASE ClientData(c)
  <2>1. m.con1[c] # None => [kind |-> "data", user |-> m.con1[c]] \in ToGame
    BY <1>1 DEF ToGame
  <2> QED BY <1>4, <1>7, <2>1 DEF ClientData
<1> QED BY <1>5, <1>6, <1>7

\* Lemma: each step keeps the types of the game server's state.
LEMMA TypeStep ==
    ASSUME RoutingInv, GTypeOK, [GNext]_allVars
    PROVE  GTypeOK'
<1> DEFINE T == /\ online' \in [Slot -> Account \cup {None}] /\ user' \in [Account -> Slot \cup {None}]
                /\ inbox' \in Seq(ToGame) /\ outbox' \in Seq(Slot) /\ entered' \subseteq Slot
<1>1. CASE UNCHANGED allVars
  BY <1>1 DEF allVars, gameVars, GTypeOK
<1>2. CASE GNext
  <2>1. ASSUME UNCHANGED gameVars PROVE T
    BY <2>1 DEF gameVars, GTypeOK
  <2>2. ASSUME NEW c \in Conn, ClientEnters(c) \/ ClientLeaves(c) \/ ClientData(c) PROVE T
    <3> QED BY <2>2, ClientSends, SendGameType DEF GTypeOK
  <2>3. ASSUME ClientOther PROVE T
    BY <2>1, <2>3 DEF ClientOther
  <2>4. ASSUME Answered \/ Starts \/ Ends PROVE T
    BY <2>1, <2>4, NoPlayersType DEF Answered, Starts, Ends
  <2>5. ASSUME PassedOn PROVE T
    <3>1. ASSUME outbox' = Tail(outbox), outbox # <<>>, UNCHANGED <<online, user, inbox, entered>> PROVE T
      BY <3>1 DEF GTypeOK
    <3> QED BY <2>5, <3>1, NoPlayersType DEF PassedOn
  <2>6. ASSUME ProcessEnterGame PROVE T
    <3>1. inbox # <<>> /\ inbox' = Tail(inbox) /\ Head(inbox).kind = "enter"
      BY <2>6 DEF ProcessEnterGame, Received
    <3>2. outbox' \in Seq(Slot)
      BY <2>6, <3>1, HeadType DEF ProcessEnterGame, SendGate, GTypeOK
    <3>3. online' \in [Slot -> Account \cup {None}] /\ user' \in [Account -> Slot \cup {None}]
      BY <2>6, <3>1, HeadType DEF ProcessEnterGame, Malloc, GTypeOK
    <3> QED BY <2>6, <3>1, <3>2, <3>3, HeadType DEF ProcessEnterGame, GTypeOK
  <2>7. ASSUME ProcessLeaveGame PROVE T
    <3>1. ASSUME Received("leave"), Free(Head(inbox).user), UNCHANGED <<outbox, entered>> PROVE T
      BY <3>1, HeadType DEF Received, Free, GTypeOK
    <3> QED BY <2>7, <3>1, NoPlayersType DEF ProcessLeaveGame, Ends
  <2>8. ASSUME ProcessChat PROVE T
    <3>1. inbox # <<>> /\ inbox' = Tail(inbox)
      BY <2>8 DEF ProcessChat, Received
    <3>2. PICK s \in {<<>>} \cup {<<user[r]>> : r \in {q \in Account : user[q] # None}} :
                SendGate(<<Head(inbox).user>> \o s)
      BY <2>8 DEF ProcessChat
    <3>3. s \in Seq(Slot)
      <4>1. CASE s = <<>>
        BY <4>1
      <4>2. ASSUME NEW r \in Account, user[r] # None, s = <<user[r]>> PROVE s \in Seq(Slot)
        BY <4>2 DEF GTypeOK
      <4> QED BY <3>2, <4>1, <4>2
    <3>4. outbox' \in Seq(Slot)
      BY <3>1, <3>2, <3>3, HeadType DEF SendGate, GTypeOK
    <3> QED BY <2>8, <3>1, <3>4, HeadType DEF ProcessChat, GTypeOK
  <2>9. ASSUME ProcessSetRoleData PROVE T
    BY <2>9, HeadType DEF ProcessSetRoleData, Received, GTypeOK
  <2>10. T
    BY <1>2, <2>2, <2>3, <2>4, <2>5, <2>6, <2>7, <2>8, <2>9 DEF GNext
  <2>11. held' \in [Slot -> SUBSET Account]
    <3>1. RoutingInv'
      BY <1>2, GateStep, RoutingStep
    <3>2. \A u \in Slot : m'.account[u] \in Account \cup {None}
      BY <3>1 DEF RoutingInv, TypeOK, Mgr
    <3> QED BY <1>2, <3>2 DEF GNext, GTypeOK
  <2> QED BY <2>10, <2>11 DEF GTypeOK
<1> QED BY <1>1, <1>2

\* Lemma: the invariant that the theorems below start from.
LEMMA GateAndTypes == GSpec => [](RoutingInv /\ GTypeOK)
<1>1. GInit => RoutingInv /\ GTypeOK
  <2>1. GInit => RoutingInv
    BY InitOK DEF GInit
  <2>2. GInit => GTypeOK
    BY DEF GInit, GTypeOK
  <2> QED BY <2>1, <2>2
<1>2. RoutingInv /\ GTypeOK /\ [GNext]_allVars => RoutingInv' /\ GTypeOK'
  <2> SUFFICES ASSUME RoutingInv, GTypeOK, [GNext]_allVars PROVE RoutingInv' /\ GTypeOK'
    OBVIOUS
  <2>1. [Next]_vars
    BY GateStep DEF allVars
  <2> QED BY <2>1, RoutingStep, TypeStep
<1> QED BY <1>1, <1>2, PTL DEF GSpec

\* Theorem: the types of the game server's tables and of the two queues, whose
\* requests name slots and accounts of the gate.
THEOREM GameTypesHold == GSpec => []GTypeOK
  BY GateAndTypes, PTL

\* Theorem: the gate with its game server implements the gate alone: what the
\* game server sends it is among what GateClients lets any game server send.
THEOREM GateImplemented == GSpec => Spec
<1>1. GInit => Init
  BY DEF GInit
<1>2. RoutingInv /\ GTypeOK /\ [GNext]_allVars => [Next]_vars
  BY GateStep DEF allVars
<1> QED BY <1>1, <1>2, GateAndTypes, PTL DEF GSpec, Spec

-----------------------------------------------------------------------------
(* The game server's two tables.  Only malloc, for a user without a        *)
(* player, changes them; NoPlayers clears both.                            *)

\* What a step does to the tables of players.
TablesStep ==
    \/ UNCHANGED <<online, user>>
    \/ NoPlayers
    \/ /\ Received("enter")
       /\ PlayerOf(Head(inbox).user) = None /\ Malloc(Head(inbox).user, Head(inbox).role)

\* Lemma: every step does one of these.
LEMMA TablesStepOK ==
    ASSUME [GNext]_allVars
    PROVE  TablesStep
<1>1. CASE UNCHANGED allVars
  BY <1>1 DEF allVars, gameVars, TablesStep
<1>2. CASE \E c \in Conn : ClientEnters(c) \/ ClientLeaves(c) \/ ClientData(c)
  BY <1>2 DEF ClientEnters, ClientLeaves, ClientData, SendGame, TablesStep
<1>3. CASE ClientOther
  BY <1>3 DEF ClientOther, gameVars, TablesStep
<1>4. CASE Answered
  BY <1>4 DEF Answered, gameVars, TablesStep
<1>5. CASE PassedOn \/ Starts \/ Ends \/ ProcessLeaveGame
  BY <1>5 DEF PassedOn, Starts, Ends, ProcessLeaveGame, Free, TablesStep
<1>6. CASE ProcessEnterGame \/ ProcessChat \/ ProcessSetRoleData
  BY <1>6 DEF ProcessEnterGame, ProcessChat, ProcessSetRoleData, TablesStep
<1> QED BY <1>1, <1>2, <1>3, <1>4, <1>5, <1>6 DEF GNext

\* Lemma: malloc for a user without a player keeps the tables in agreement,
\* also when the role has a player under another user.
LEMMA MallocAgrees ==
    ASSUME GTypeOK, PlayersAgree, NEW u \in Slot, NEW r \in Account,
           PlayerOf(u) = None, Malloc(u, r)
    PROVE  PlayersAgree'
<1>1. online[u] = None
  BY DEF PlayersAgree, PlayerOf
<1>2. /\ \A v \in Slot : online'[v] = IF v = u THEN r ELSE online[v]
      /\ \A q \in Account : user'[q] = IF q = r /\ user[q] = None THEN u ELSE user[q]
  BY DEF Malloc, GTypeOK
<1>3. None \notin Slot /\ None \notin Account
  BY GateConstants
<1>4. ASSUME NEW v \in Slot, online'[v] # None PROVE user'[online'[v]] # None
  <2>1. online'[v] \in Account
    BY <1>2, <1>4 DEF GTypeOK
  <2>2. v # u => user[online[v]] # None
    BY <1>2, <1>4 DEF PlayersAgree
  <2> QED BY <1>2, <1>3, <2>1, <2>2
<1>5. ASSUME NEW q \in Account, user'[q] # None PROVE online'[user'[q]] = q
  <2>1. CASE user[q] # None
    <3>1. online[user[q]] = q /\ user[q] \in Slot
      BY <2>1 DEF PlayersAgree, GTypeOK
    <3> QED BY <1>1, <1>2, <1>3, <2>1, <3>1
  <2>2. CASE user[q] = None
    BY <1>2, <1>5, <2>2
  <2> QED BY <2>1, <2>2
<1> QED BY <1>4, <1>5 DEF PlayersAgree

\* Lemma: PlayersAgree is inductive, given the types.
LEMMA AgreeStep ==
    ASSUME GTypeOK, PlayersAgree, [GNext]_allVars
    PROVE  PlayersAgree'
<1>1. CASE UNCHANGED <<online, user>>
  BY <1>1 DEF PlayersAgree
<1>2. CASE NoPlayers
  BY <1>2 DEF NoPlayers, PlayersAgree
<1>3. CASE /\ Received("enter")
           /\ PlayerOf(Head(inbox).user) = None /\ Malloc(Head(inbox).user, Head(inbox).role)
  BY <1>3, HeadType, MallocAgrees DEF Received
<1> QED BY <1>1, <1>2, <1>3, TablesStepOK DEF TablesStep

\* Theorem: online_role_ids_ and all_players_ agree, although a role that
\* enters again under another user leaves its first player where it was.
THEOREM PlayersHold == GSpec => []PlayersAgree
<1>1. GInit => PlayersAgree
  BY DEF GInit, PlayersAgree
<1>2. GTypeOK /\ PlayersAgree /\ [GNext]_allVars => PlayersAgree'
  BY AgreeStep
<1> QED BY <1>1, <1>2, GateAndTypes, PTL DEF GSpec

-----------------------------------------------------------------------------
(* Who entered may leave.                                                  *)

\* An enter request of u is on its way, before any leave request of u.
Coming(u, q) ==
    \E k \in 1..Len(q) : /\ q[k].kind = "enter" /\ q[k].user = u
                         /\ \A j \in 1..k : q[j] # Leave(u)

\* Lemma: sending at most one message keeps EnteredMayLeave.
LEMMA SendMayLeave ==
    ASSUME GTypeOK, EnteredMayLeave, NEW s \in Seq(ToGame), Len(s) <= 1, SendGame(s)
    PROVE  EnteredMayLeave'
<1> SUFFICES ASSUME NEW u \in entered', PlayerOf(u)' = None PROVE Coming(u, inbox')
  BY DEF EnteredMayLeave, Coming, Leave
<1>1. /\ inbox \in Seq(ToGame) /\ inbox' \in Seq(ToGame) /\ Len(inbox') = Len(inbox) + Len(s)
      /\ \A j \in 1..Len(inbox) : inbox'[j] = inbox[j]
      /\ \A j \in 1..Len(s) : inbox'[Len(inbox) + j] = s[j]
  BY DEF SendGame, GTypeOK
<1>2. Len(inbox) \in Nat /\ Len(s) \in Nat
  BY <1>1
<1>3. CASE u \in entered
  <2>1. PlayerOf(u) = None
    BY DEF PlayerOf, SendGame
  <2>2. PICK k \in 1..Len(inbox) : /\ inbox[k].kind = "enter" /\ inbox[k].user = u
                                   /\ \A j \in 1..k : inbox[j] # Leave(u)
    BY <1>3, <2>1 DEF EnteredMayLeave
  <2>3. k \in 1..Len(inbox') /\ \A j \in 1..k : j \in 1..Len(inbox)
    BY <1>1, <1>2
  <2> QED BY <1>1, <2>2, <2>3 DEF Coming
<1>4. CASE u \notin entered
  <2>1. PICK k \in 1..Len(s) : s[k].kind = "enter" /\ s[k].user = u
    BY <1>4 DEF SendGame
  <2>2. \A j \in 1..Len(inbox) : inbox[j] # Leave(u)
    BY <1>4 DEF SendGame
  <2>3. k = 1 /\ Len(s) = 1
    <3>1. \A n \in Nat : \A i \in 1..n : n <= 1 => i = 1 /\ n = 1
      OBVIOUS
    <3> QED BY <1>2, <3>1, Zenon
  <2>4. s[1] # Leave(u)
    BY <2>1, <2>3 DEF Leave
  <2>5. Len(inbox) + 1 \in 1..Len(inbox') /\ inbox'[Len(inbox) + 1] = s[1]
    BY <1>1, <1>2, <2>3
  <2>6. \A j \in 1..(Len(inbox) + 1) : inbox'[j] # Leave(u)
    BY <1>1, <1>2, <2>2, <2>4, <2>5
  <2> QED BY <2>1, <2>3, <2>5, <2>6 DEF Coming
<1> QED BY <1>3, <1>4

\* Lemma: so does handling the first message, when players stay and a user
\* whose enter or leave request was handled has a player.
LEMMA ReceiveMayLeave ==
    ASSUME GTypeOK, EnteredMayLeave, inbox # <<>>, inbox' = Tail(inbox), UNCHANGED entered,
           \A u \in Slot : PlayerOf(u) # None => PlayerOf(u)' # None,
           \A u \in Slot : Head(inbox).user = u /\ Head(inbox).kind \in {"enter", "leave"}
                               => PlayerOf(u)' # None
    PROVE  EnteredMayLeave'
<1> SUFFICES ASSUME NEW u \in entered, PlayerOf(u)' = None PROVE Coming(u, inbox')
  BY DEF EnteredMayLeave, Coming, Leave
<1>1. /\ Len(inbox) \in Nat /\ Len(inbox') = Len(inbox) - 1 /\ Head(inbox) = inbox[1]
      /\ \A j \in 1..Len(inbox') : inbox'[j] = inbox[j + 1]
  BY DEF GTypeOK
<1>2. u \in Slot /\ PlayerOf(u) = None
  BY DEF GTypeOK
<1>3. PICK k \in 1..Len(inbox) : /\ inbox[k].kind = "enter" /\ inbox[k].user = u
                                 /\ \A j \in 1..k : inbox[j] # Leave(u)
  BY <1>2 DEF EnteredMayLeave
<1>4. k # 1
  <2>1. inbox[1].user = u /\ inbox[1].kind = "enter" => PlayerOf(u)' # None
    BY <1>1, <1>2
  <2> QED BY <1>3, <2>1, Zenon
<1>5. /\ k - 1 \in 1..Len(inbox') /\ inbox'[k - 1] = inbox[k]
      /\ \A j \in 1..(k - 1) : j \in 1..Len(inbox') /\ j + 1 \in 1..k
  BY <1>1, <1>3, <1>4
<1>6. \A j \in 1..(k - 1) : inbox'[j] # Leave(u)
  BY <1>1, <1>3, <1>5
<1> QED BY <1>3, <1>5, <1>6 DEF Coming

\* Lemma: a user keeps its player, and gets one when its enter request is
\* handled.
LEMMA PlayersStay ==
    ASSUME GTypeOK, PlayersAgree, NEW u \in Slot, NEW r \in Account,
           \/ PlayerOf(u) = None /\ Malloc(u, r)
           \/ PlayerOf(u) # None /\ UNCHANGED <<online, user>>
    PROVE  /\ PlayerOf(u)' # None
           /\ \A v \in Slot : PlayerOf(v) # None => PlayerOf(v)' # None
<1>1. CASE PlayerOf(u) # None /\ UNCHANGED <<online, user>>
  BY <1>1 DEF PlayerOf
<1>2. CASE PlayerOf(u) = None /\ Malloc(u, r)
  <2>1. PlayersAgree'
    BY <1>2, MallocAgrees
  <2>2. \A v \in Slot : online'[v] = IF v = u THEN r ELSE online[v]
    BY <1>2 DEF Malloc, GTypeOK
  <2>3. \A v \in Slot : v = u \/ PlayerOf(v) # None => online'[v] # None
    BY <2>2, GateConstants DEF PlayerOf
  <2> QED BY <2>1, <2>3 DEF PlayersAgree, PlayerOf
<1> QED BY <1>1, <1>2

\* Lemma: EnteredMayLeave is inductive, given the types and PlayersAgree.
LEMMA MayLeaveStep ==
    ASSUME RoutingInv, GTypeOK, PlayersAgree, EnteredMayLeave, [GNext]_allVars
    PROVE  EnteredMayLeave'
<1>1. CASE UNCHANGED <<online, user, inbox, entered>>
  BY <1>1 DEF EnteredMayLeave, PlayerOf, Leave
<1>2. CASE NoPlayers
  BY <1>2 DEF NoPlayers, EnteredMayLeave
<1>3. ASSUME NEW c \in Conn, ClientEnters(c) \/ ClientLeaves(c) \/ ClientData(c)
      PROVE  EnteredMayLeave'
  BY <1>3, ClientSends, SendMayLeave
<1>4. CASE ClientOther
  BY <1>1, <1>4 DEF ClientOther, gameVars
<1>5. CASE Answered
  BY <1>1, <1>2, <1>5 DEF Answered, gameVars
<1>6. CASE PassedOn \/ Starts \/ Ends
  BY <1>1, <1>2, <1>6 DEF PassedOn, Starts, Ends
<1>7. CASE ProcessEnterGame
  <2> DEFINE v == Head(inbox).user
  <2>1. inbox # <<>> /\ inbox' = Tail(inbox) /\ Head(inbox).kind = "enter" /\ UNCHANGED entered
    BY <1>7 DEF ProcessEnterGame, Received
  <2>2. v \in Slot /\ Head(inbox).role \in Account
    BY <2>1, HeadType
  <2>3. \/ PlayerOf(v) = None /\ Malloc(v, Head(inbox).role)
        \/ PlayerOf(v) # None /\ UNCHANGED <<online, user>>
    BY <1>7 DEF ProcessEnterGame
  <2>4. \A u \in Slot : (u = v => PlayerOf(u)' # None) /\ (PlayerOf(u) # None => PlayerOf(u)' # None)
    <3>1. ASSUME NEW w \in Slot, NEW r \in Account,
                 \/ PlayerOf(w) = None /\ Malloc(w, r)
                 \/ PlayerOf(w) # None /\ UNCHANGED <<online, user>>
          PROVE  \A u \in Slot : (u = w => PlayerOf(u)' # None) /\ (PlayerOf(u) # None => PlayerOf(u)' # None)
      BY <3>1, PlayersStay
    <3> QED BY <2>2, <2>3, <3>1
  <2> QED BY <2>1, <2>4, ReceiveMayLeave
<1>8. CASE ProcessLeaveGame
  <2>1. CASE /\ Received("leave") /\ PlayerOf(Head(inbox).user) # None
             /\ UNCHANGED <<online, user, entered>>
    BY <2>1, ReceiveMayLeave DEF Received, PlayerOf
  <2> QED BY <1>2, <1>8, <2>1 DEF ProcessLeaveGame, Free, Ends
<1>9. CASE ProcessChat \/ ProcessSetRoleData
  <2>1. /\ inbox # <<>> /\ inbox' = Tail(inbox) /\ Head(inbox).kind = "data"
        /\ UNCHANGED <<online, user, entered>>
    BY <1>9 DEF ProcessChat, ProcessSetRoleData, Received
  <2> QED BY <2>1, ReceiveMayLeave DEF PlayerOf
<1>10. CASE UNCHANGED allVars
  BY <1>1, <1>10 DEF allVars, gameVars
<1> QED BY <1>3, <1>4, <1>5, <1>6, <1>7, <1>8, <1>9, <1>10 DEF GNext

\* Theorem: a user that entered before it leaves has a player when its leave
\* request is handled, so that the request does not end the game server.
THEOREM MayLeaveHolds == GSpec => []EnteredMayLeave
<1>1. GInit => EnteredMayLeave
  BY DEF GInit, EnteredMayLeave
<1>2. RoutingInv /\ GTypeOK /\ PlayersAgree /\ EnteredMayLeave /\ [GNext]_allVars => EnteredMayLeave'
  BY MayLeaveStep
<1> QED BY <1>1, <1>2, GateAndTypes, PlayersHold, PTL DEF GSpec

-----------------------------------------------------------------------------
(* Users act for accounts that held their slot.                            *)

\* Accounts and roles of the slots stay, and no account is mapped anew.
Keeps(x, y) ==
    /\ y.account = x.account /\ y.role = x.role
    /\ \A b \in Account : y.acc1[b] = x.acc1[b] \/ y.acc1[b] = None

\* Lemma: force_close of a connection or of a client does that.
LEMMA ForceCloseKeeps ==
    ASSUME NEW x, MgrOK(x)
    PROVE  /\ \A c \in Conn : \A y \in ForceCloseConn(x, c) : Keeps(x, y)
           /\ \A i \in Slot : \A y \in ForceCloseClient(x, i) : Keeps(x, y)
<1>1. ASSUME NEW c \in Conn, NEW y \in ForceCloseConn(x, c) PROVE Keeps(x, y)
  BY ForceCloseConnShape DEF Keeps
<1>2. ASSUME NEW i \in Slot, NEW y \in ForceCloseClient(x, i) PROVE Keeps(x, y)
  <2>1. CASE x.used[i] /\ x.conn[i] # None
    <3>1. x.conn[i] \in Conn
      BY <2>1 DEF MgrOK, Mgr
    <3> QED BY <1>1, <2>1, <3>1 DEF ForceCloseClient
  <2>2. CASE ~(x.used[i] /\ x.conn[i] # None)
    BY <2>2 DEF ForceCloseClient, Keeps
  <2> QED BY <2>1, <2>2
<1> QED BY <1>1, <1>2

\* Lemma: so does the kick.
LEMMA KickedKeeps ==
    ASSUME NEW x, MgrOK(x), NEW a \in Account, NEW y \in Kicked(x, a)
    PROVE  Keeps(x, y)
<1>1. CASE ByAccount(x, a) = None
  BY <1>1 DEF Kicked, Keeps
<1>2. CASE ByAccount(x, a) # None
  <2>1. ByAccount(x, a) \in Slot
    BY <1>2 DEF ByAccount, MgrOK, Mgr
  <2> QED BY <1>2, <2>1, ForceCloseKeeps DEF Kicked
<1> QED BY <1>1, <1>2

\* Lemma: so do close, the binding of a connection and the changes of its
\* state.
LEMMA CloseBindKeep ==
    ASSUME NEW x, MgrOK(x)
    PROVE  /\ \A i \in Slot : Keeps(x, CloseClient(x, i))
           /\ \A c \in Conn, i \in Slot : Keeps(x, Bind(x, c, i))
           /\ \A c \in Conn, s \in LinkState : Keeps(x, [x EXCEPT !.link[c] = s])
<1>1. ASSUME NEW i \in Slot PROVE Keeps(x, CloseClient(x, i))
  BY DEF CloseClient, Keeps, MgrOK, Mgr
<1>2. ASSUME NEW c \in Conn, NEW i \in Slot PROVE Keeps(x, Bind(x, c, i))
  BY DEF Bind, Keeps, MgrOK, Mgr
<1>3. ASSUME NEW c \in Conn, NEW s \in LinkState PROVE Keeps(x, [x EXCEPT !.link[c] = s])
  BY DEF Keeps, MgrOK, Mgr
<1> QED BY <1>1, <1>2, <1>3

\* Lemma: two such changes in a row.
LEMMA KeepsTwice ==
    ASSUME NEW x, NEW y, NEW z, Keeps(x, y), Keeps(y, z)
    PROVE  Keeps(x, z)
  BY DEF Keeps

\* What a step of the gate does to the accounts and roles of the slots.
SlotsStep ==
    \/ Keeps(m, m')
    \/ \E x : /\ MgrOK(x) /\ Keeps(m, x)
              /\ \E a \in Account : \E p \in NewClient(x, a) : Keeps(p[1], m')
    \/ \E a \in Account : ByAccount(m, a) # None /\ m' = SetRole(m, ByAccount(m, a), a)

\* Lemma: GetRole may take a slot for the account.
LEMMA GetRoleSlots ==
    ASSUME MgrOK(m), NEW c \in Conn, NEW a \in Account, GetRole(c, a)
    PROVE  SlotsStep
<1>1. PICK x \in Kicked(m, a) :
        \/ Fail(x, c)
        \/ \E p \in NewClient(x, a) :
            \/ Fail(CloseClient(p[1], p[2]), c)
            \/ m' = Bind(p[1], c, p[2])
            \/ Fail(Bind(p[1], c, p[2]), c)
  BY DEF GetRole
<1>2. MgrOK(x) /\ Keeps(m, x)
  BY KickedOK, KickedKeeps
<1>3. CASE Fail(x, c)
  <2>1. Keeps(x, m')
    BY <1>2, <1>3, ForceCloseKeeps DEF Fail
  <2> QED BY <1>2, <2>1, KeepsTwice DEF SlotsStep
<1>4. ASSUME NEW p \in NewClient(x, a),
             \/ Fail(CloseClient(p[1], p[2]), c)
             \/ m' = Bind(p[1], c, p[2])
             \/ Fail(Bind(p[1], c, p[2]), c)
      PROVE  Keeps(p[1], m')
  <2> DEFINE y == p[1]
             i == p[2]
  <2>1. MgrOK(y) /\ i \in y.usedIds /\ i \in Slot
    BY <1>2, NewClientOK
  <2>2. MgrOK(CloseClient(y, i)) /\ MgrOK(Bind(y, c, i))
    BY <2>1, CloseClientOK, BindOK
  <2>3. Keeps(y, CloseClient(y, i)) /\ Keeps(y, Bind(y, c, i))
    BY <2>1, CloseBindKeep
  <2>4. \A z : MgrOK(z) /\ Fail(z, c) => Keeps(z, m')
    BY ForceCloseKeeps DEF Fail
  <2> QED BY <1>4, <2>2, <2>3, <2>4, KeepsTwice
<1> QED BY <1>1, <1>2, <1>3, <1>4 DEF SlotsStep

\* Lemma: and so for every step of the gate.
LEMMA SlotsStepOK ==
    ASSUME RoutingInv, [Next]_vars
    PROVE  SlotsStep
<1>1. MgrOK(m)
  BY RoutingInvParts
<1>2. \A z, c : c \in Conn /\ MgrOK(z) /\ Keeps(m, z) /\ Fail(z, c) => Keeps(m, m')
  <2> SUFFICES ASSUME NEW z, NEW c \in Conn, MgrOK(z), Keeps(m, z), Fail(z, c) PROVE Keeps(m, m')
    OBVIOUS
  <2>1. Keeps(z, m')
    BY ForceCloseKeeps DEF Fail
  <2> QED BY <2>1, KeepsTwice
<1>3. Keeps(m, m)
  BY DEF Keeps
<1>4. CASE m' = m
  BY <1>3, <1>4 DEF SlotsStep
<1>5. CASE Game
  BY <1>4, <1>5 DEF Game, ConnectGate, GameLost, RequestLost, GameDefault, GetRoleResponse,
                    CreateRoleResponse, SlotsStep
<1>6. ASSUME NEW c \in Conn, Client(c) PROVE SlotsStep
  <2>1. CASE Connect(c) \/ Reopen(c) \/ Forget(c)
    BY <1>1, <2>1, CloseBindKeep DEF Connect, Reopen, Forget, LinkState, SlotsStep
  <2>2. CASE Disconnect(c)
    BY <1>1, <2>2, ForceCloseKeeps DEF Disconnect, SlotsStep
  <2>3. CASE CreateRole(c) \/ EnterGame(c) \/ ClientDefault(c)
    <3>1. m' = m \/ Fail(m, c)
      BY <2>3 DEF CreateRole, EnterGame, ClientDefault
    <3> QED BY <1>1, <1>2, <1>3, <1>4, <3>1 DEF SlotsStep
  <2>4. CASE LeaveGame(c)
    <3> DEFINE z == CloseClient(m, ByConn(m, c))
    <3>1. CASE ByConn(m, c) = None
      BY <1>1, <1>2, <1>3, <2>4, <3>1 DEF LeaveGame, SlotsStep
    <3>2. CASE ByConn(m, c) # None
      <4>1. ByConn(m, c) \in Slot
        BY <1>1, <3>2 DEF ByConn, MgrOK, Mgr
      <4>2. MgrOK(z) /\ Keeps(m, z)
        BY <1>1, <4>1, CloseClientOK, CloseBindKeep
      <4>3. m' = z \/ Fail(z, c)
        BY <2>4, <3>2 DEF LeaveGame
      <4> QED BY <1>2, <4>2, <4>3 DEF SlotsStep
    <3> QED BY <3>1, <3>2
  <2>5. ASSUME NEW a \in Account, GetRoleRefused(c, a) PROVE SlotsStep
    <3>1. PICK x \in Kicked(m, a) : Fail(x, c)
      BY <2>5 DEF GetRoleRefused
    <3> QED BY <1>1, <1>2, <3>1, KickedOK, KickedKeeps DEF SlotsStep
  <2>6. ASSUME NEW a \in Account, Reconnect(c, a) PROVE SlotsStep
    <3> DEFINE i == ByAccount(m, a)
    <3>1. CASE i = None
      BY <1>1, <1>2, <1>3, <2>6, <3>1 DEF Reconnect, SlotsStep
    <3>2. CASE i # None
      <4>1. i \in Slot
        BY <1>1, <3>2 DEF ByAccount, MgrOK, Mgr
      <4>2. PICK x \in IF m.conn[i] = c THEN {m} ELSE ForceCloseClient(m, i) : m' = x \/ Fail(x, c)
        BY <2>6, <3>2 DEF Reconnect
      <4>3. MgrOK(x) /\ Keeps(m, x)
        BY <1>1, <1>3, <4>1, <4>2, ForceCloseClientOK, ForceCloseKeeps
      <4> QED BY <1>2, <4>2, <4>3 DEF SlotsStep
    <3> QED BY <3>1, <3>2
  <2> QED BY <1>1, <1>6, <2>1, <2>2, <2>3, <2>4, <2>5, <2>6, GetRoleSlots DEF Client
<1>7. CASE (\E a \in Account : NewAccountSession(a)) \/ UNCHANGED vars
  BY <1>4, <1>7 DEF NewAccountSession, vars
<1> QED BY <1>5, <1>6, <1>7 DEF Next

-----------------------------------------------------------------------------
\* Lemma: the history `held` grows by the accounts now in the slots.
LEMMA HeldGrows ==
    ASSUME GTypeOK, [GNext]_allVars
    PROVE  \A u \in Slot : held[u] \subseteq held'[u]
  BY DEF GNext, allVars, GTypeOK

\* Lemma: SlotHolders is preserved by what a step does to the slots, if the
\* accounts it puts into slots are recorded in h.
LEMMA SlotHoldersStep ==
    ASSUME RoutingInv, RoutingInv', SlotHolders(m, held), SlotsStep, NEW h,
           \A u \in Slot : held[u] \subseteq h[u],
           \A u \in Slot : m'.account[u] # None => m'.account[u] \in h[u]
    PROVE  SlotHolders(m', h)
<1>1. m \in Mgr /\ m' \in Mgr
  BY DEF RoutingInv, TypeOK
<1>2. \A x : x \in Mgr /\ Keeps(m, x) => SlotHolders(x, held)
  <2> SUFFICES ASSUME NEW x \in Mgr, Keeps(m, x) PROVE SlotHolders(x, held)
    OBVIOUS
  <2> QED BY <1>1 DEF Keeps, SlotHolders, Mgr
<1>3. SlotHolders(m, h)
  BY <1>1 DEF SlotHolders, Mgr
<1>4. CASE Keeps(m, m')
  BY <1>1, <1>3, <1>4 DEF Keeps, SlotHolders, Mgr
<1>5. ASSUME NEW x, MgrOK(x), Keeps(m, x), NEW a \in Account, NEW p \in NewClient(x, a), Keeps(p[1], m')
      PROVE  SlotHolders(m', h)
  <2> DEFINE y == p[1]
  <2>1. x \in Mgr /\ SlotHolders(x, held)
    BY <1>2, <1>5 DEF MgrOK
  <2>2. /\ y.role = x.role
        /\ \E i \in Slot : /\ y.account[i] = a
                           /\ \A b \in Account : y.acc1[b] = IF b = a THEN i ELSE x.acc1[b]
    <3>1. CASE x.acc1[a] # None
      <4>1. p = <<[x EXCEPT !.account[x.acc1[a]] = a], x.acc1[a]>> /\ x.acc1[a] \in Slot
        BY <1>5, <2>1, <3>1 DEF NewClient, Mgr
      <4> QED BY <2>1, <4>1 DEF Mgr
    <3>2. CASE x.acc1[a] = None
      <4>1. PICK i \in x.freeIds :
                p = <<[x EXCEPT !.freeIds = @ \ {i}, !.usedIds = @ \cup {i}, !.used[i] = TRUE,
                                !.acc1[a] = i, !.acc2[i] = a, !.account[i] = a], i>>
        BY <1>5, <3>2 DEF NewClient
      <4>2. i \in Slot
        BY <2>1 DEF Mgr
      <4> QED BY <2>1, <4>1, <4>2 DEF Mgr
    <3> QED BY <3>1, <3>2
  <2>3. PICK i \in Slot : y.account[i] = a /\ \A b \in Account : y.acc1[b] = IF b = a THEN i ELSE x.acc1[b]
    BY <2>2
  <2>4. a \in h[i]
    BY <1>5, <2>3, GateConstants DEF Keeps
  <2>5. ASSUME NEW b \in Account, m'.acc1[b] # None PROVE b \in h[m'.acc1[b]]
    <3>1. m'.acc1[b] = y.acc1[b]
      BY <1>5, <2>5 DEF Keeps
    <3>2. CASE b = a
      BY <2>3, <2>4, <3>1, <3>2
    <3>3. CASE b # a
      <4>1. m'.acc1[b] = x.acc1[b] /\ x.acc1[b] \in Slot
        BY <2>1, <2>3, <2>5, <3>1, <3>3 DEF Mgr
      <4> QED BY <2>1, <2>5, <4>1 DEF SlotHolders
    <3> QED BY <3>2, <3>3
  <2>6. ASSUME NEW u \in Slot, m'.role[u] # None PROVE m'.role[u] \in h[u]
    <3>1. m'.role[u] = x.role[u]
      BY <1>5, <2>2 DEF Keeps
    <3> QED BY <2>1, <2>6, <3>1 DEF SlotHolders
  <2> QED BY <2>5, <2>6 DEF SlotHolders
<1>6. ASSUME NEW a \in Account, ByAccount(m, a) # None, m' = SetRole(m, ByAccount(m, a), a)
      PROVE  SlotHolders(m', h)
  <2> DEFINE i == ByAccount(m, a)
  <2>1. i \in Slot /\ m.acc1[a] = i
    BY <1>1, <1>6 DEF ByAccount, Mgr
  <2>2. a \in h[i]
    BY <1>3, <1>6, <2>1 DEF SlotHolders
  <2>3. m'.acc1 = m.acc1 /\ \A u \in Slot : m'.role[u] = IF u = i THEN a ELSE m.role[u]
    BY <1>1, <1>6, <2>1 DEF SetRole, Mgr
  <2> QED BY <1>3, <2>2, <2>3 DEF SlotHolders
<1> QED BY <1>4, <1>5, <1>6 DEF SlotsStep

\* What a step does to the messages for the game server.
InboxStep ==
    \/ inbox' = inbox
    \/ inbox' = <<>>
    \/ inbox # <<>> /\ inbox' = Tail(inbox)
    \/ \E q \in ToGame : /\ inbox' = Append(inbox, q)
                         /\ q.kind = "enter" => q.user \in Slot /\ q.role # None /\ q.role = m.role[q.user]

\* Lemma: every step does one of these.
LEMMA InboxStepOK ==
    ASSUME RoutingInv, GTypeOK, [GNext]_allVars
    PROVE  InboxStep
<1>1. ASSUME NEW c \in Conn, ClientEnters(c) \/ ClientLeaves(c) \/ ClientData(c) PROVE InboxStep
  <2>1. /\ ByConn(m, c) # None => ByConn(m, c) \in Slot
        /\ m.con1[c] # None => m.con1[c] \in Slot
        /\ Entering(c) => /\ ByConn(m, c) \in Slot /\ m.role[ByConn(m, c)] \in Account
                          /\ m.role[ByConn(m, c)] # None
    BY DEF RoutingInv, TypeOK, Mgr, ByConn, Entering
  <2>2. /\ SendGame(<<>>) => inbox' = inbox
        /\ \A q \in ToGame : SendGame(<<q>>) => inbox' = Append(inbox, q)
    BY DEF SendGame, GTypeOK
  <2>3. CASE SendGame(<<>>)
    BY <2>2, <2>3 DEF InboxStep
  <2>4. CASE ClientEnters(c)
    <3> DEFINE q == [kind |-> "enter", user |-> ByConn(m, c), role |-> m.role[ByConn(m, c)]]
    <3>1. Entering(c) => /\ q \in ToGame
                         /\ q.user \in Slot /\ q.role # None /\ q.role = m.role[q.user]
      BY <2>1 DEF ToGame
    <3>2. (Entering(c) /\ SendGame(<<q>>)) \/ SendGame(<<>>)
      BY <2>4, Zenon DEF ClientEnters
    <3> QED BY <2>2, <2>3, <3>1, <3>2 DEF InboxStep
  <2>5. CASE ClientLeaves(c)
    <3> DEFINE q == Leave(ByConn(m, c))
    <3>1. ByConn(m, c) # None => q \in ToGame /\ q.kind # "enter"
      BY <2>1 DEF ToGame, Leave
    <3>2. (ByConn(m, c) # None /\ SendGame(<<q>>)) \/ SendGame(<<>>)
      BY <2>5, Zenon DEF ClientLeaves
    <3> QED BY <2>2, <2>3, <3>1, <3>2 DEF InboxStep
  <2>6. CASE ClientData(c)
    <3> DEFINE q == [kind |-> "data", user |-> m.con1[c]]
    <3>1. m.con1[c] # None => q \in ToGame /\ q.kind # "enter"
      BY <2>1 DEF ToGame
    <3>2. m.con1[c] # None /\ SendGame(<<q>>)
      BY <2>6 DEF ClientData
    <3> QED BY <2>2, <3>1, <3>2 DEF InboxStep
  <2> QED BY <1>1, <2>4, <2>5, <2>6
<1>2. CASE ClientOther \/ Answered \/ PassedOn \/ Starts \/ Ends \/ ProcessLeaveGame
  BY <1>2 DEF ClientOther, Answered, PassedOn, Starts, Ends, ProcessLeaveGame, Received,
              NoPlayers, gameVars, InboxStep
<1>3. CASE ProcessEnterGame \/ ProcessChat \/ ProcessSetRoleData
  BY <1>3 DEF ProcessEnterGame, ProcessChat, ProcessSetRoleData, Received, InboxStep
<1>4. CASE UNCHANGED allVars
  BY <1>4 DEF allVars, gameVars, InboxStep
<1> QED BY <1>1, <1>2, <1>3, <1>4 DEF GNext

\* Lemma: RequestHolders is preserved.
LEMMA RequestHoldersStep ==
    ASSUME GTypeOK, SlotHolders(m, held), RequestHolders(inbox, held), InboxStep,
           \A u \in Slot : held[u] \subseteq held'[u]
    PROVE  RequestHolders(inbox, held)'
<1>1. /\ inbox \in Seq(ToGame) /\ Len(inbox) \in Nat
      /\ \A k \in 1..Len(inbox) : inbox[k] \in ToGame
  BY DEF GTypeOK
<1>2. \A k \in 1..Len(inbox) : inbox[k].user \in Slot
  BY <1>1 DEF ToGame
<1>3. RequestHolders(inbox, held')
  BY <1>2 DEF RequestHolders
<1>4. CASE inbox' = inbox \/ inbox' = <<>>
  BY <1>3, <1>4 DEF RequestHolders
<1>5. CASE inbox # <<>> /\ inbox' = Tail(inbox)
  <2>1. Len(inbox') = Len(inbox) - 1 /\ \A k \in 1..Len(inbox') : inbox'[k] = inbox[k + 1]
    BY <1>1, <1>5
  <2>2. \A k \in 1..Len(inbox') : k + 1 \in 1..Len(inbox)
    BY <1>1, <2>1
  <2> QED BY <1>3, <2>1, <2>2 DEF RequestHolders
<1>6. ASSUME NEW q \in ToGame, inbox' = Append(inbox, q),
             q.kind = "enter" => q.user \in Slot /\ q.role # None /\ q.role = m.role[q.user]
      PROVE  RequestHolders(inbox, held)'
  <2>1. /\ Len(inbox') = Len(inbox) + 1 /\ inbox'[Len(inbox) + 1] = q
        /\ \A k \in 1..Len(inbox) : inbox'[k] = inbox[k]
    BY <1>1, <1>6
  <2>2. q.kind = "enter" => q.role \in held'[q.user]
    BY <1>6 DEF SlotHolders
  <2>3. \A k \in 1..Len(inbox') : k \in 1..Len(inbox) \/ k = Len(inbox) + 1
    BY <1>1, <2>1
  <2> QED BY <1>3, <2>1, <2>2, <2>3 DEF RequestHolders
<1> QED BY <1>4, <1>5, <1>6 DEF InboxStep

\* Lemma: so is ActsForHolder, because malloc takes the role of a request.
LEMMA ActsStep ==
    ASSUME GTypeOK, RequestHolders(inbox, held), ActsForHolder, [GNext]_allVars
    PROVE  ActsForHolder'
<1>1. \A u \in Slot : held[u] \subseteq held'[u]
  BY HeldGrows
<1>2. CASE UNCHANGED <<online, user>>
  BY <1>1, <1>2 DEF ActsForHolder
<1>3. CASE NoPlayers
  BY <1>3 DEF NoPlayers, ActsForHolder
<1>4. CASE Received("enter") /\ Malloc(Head(inbox).user, Head(inbox).role)
  <2> DEFINE v == Head(inbox).user
             r == Head(inbox).role
  <2>1. v \in Slot /\ inbox # <<>> /\ Head(inbox).kind = "enter"
    BY <1>4, HeadType DEF Received
  <2>2. 1 \in 1..Len(inbox) /\ inbox[1] = Head(inbox)
    BY <2>1 DEF GTypeOK
  <2>3. r \in held[v]
    BY <2>1, <2>2 DEF RequestHolders
  <2>4. \A u \in Slot : online'[u] = IF u = v THEN r ELSE online[u]
    BY <1>4 DEF Malloc, GTypeOK
  <2> QED BY <1>1, <2>1, <2>3, <2>4 DEF ActsForHolder
<1> QED BY <1>2, <1>3, <1>4, TablesStepOK DEF TablesStep

\* Theorem: a user of the game server acts for an account that held its slot
\* of the gate, through every reuse of slots, roles and players.
THEOREM HolderHolds == GSpec => []ActsForHolder
<1>1. GInit => HolderInv
  BY DEF GInit, Init, HolderInv, SlotHolders, RequestHolders, ActsForHolder
<1>2. RoutingInv /\ GTypeOK /\ HolderInv /\ [GNext]_allVars => HolderInv'
  <2> SUFFICES ASSUME RoutingInv, GTypeOK, HolderInv, [GNext]_allVars PROVE HolderInv'
    OBVIOUS
  <2>1. [Next]_vars
    BY GateStep DEF allVars
  <2>2. RoutingInv' /\ SlotsStep
    BY <2>1, RoutingStep, SlotsStepOK
  <2>3. \A u \in Slot : held[u] \subseteq held'[u]
    BY HeldGrows
  <2>4. SlotHolders(m', held')
    <3>1. CASE GNext
      <4>1. \A u \in Slot : m'.account[u] # None => m'.account[u] \in held'[u]
        BY <3>1 DEF GNext
      <4> QED BY <2>2, <2>3, <4>1, SlotHoldersStep DEF HolderInv
    <3>2. CASE UNCHANGED allVars
      BY <3>2 DEF allVars, vars, HolderInv
    <3> QED BY <3>1, <3>2
  <2>5. RequestHolders(inbox', held')
    BY <2>3, InboxStepOK, RequestHoldersStep DEF HolderInv, RequestHolders
  <2>6. ActsForHolder'
    BY ActsStep DEF HolderInv
  <2> QED BY <2>4, <2>5, <2>6 DEF HolderInv
<1>3. HolderInv => ActsForHolder
  BY DEF HolderInv
<1> QED BY <1>1, <1>2, <1>3, GateAndTypes, PTL DEF GSpec
=============================================================================
