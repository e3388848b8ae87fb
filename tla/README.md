# TLA+ models of the jmy_game servers

`src/jmy_game/servers` is a small online-game backend in C++: a network library
(`libjmy`, on boost.asio) and five server processes. This directory holds TLA+
models of its core, the TLC runs that check them, and proofs checked by TLAPS.
The rest of the repository (`asio`, `boost`, `curl`, `threadpool`, `docker`) is
exercises and vendored code that the servers do not use. The repository has no
design documents; the source and its comments are the reference.

## Inventory

| Part | State it keeps | Operations | What is hard |
|---|---|---|---|
| libjmy, passive side (`jmy_tcp_server`, `jmy_tcp_connection`, `jmy_connection_buffer`, `jmy_data_handler2`) | pools of connection objects and buffers, list of served connections, per connection a state, a socket, pending read and write, receive and send lists | accept, read, handle, send, close, force_close, time out, recycle | objects are reused while completions captured `this`; closing from handlers while the list is walked; a close protocol with an acknowledgement and a timeout |
| libjmy, active side (`jmy_tcp_client`, `_client_set`) | clients generated, set of clients with reconnect times | generate, connect, reconnect, run, recycle | change of the set while it is walked; ids that are never given back; a client recycled while its connection lives |
| gate_server | client slots, account/slot and connection/slot two-way maps, sessions, the one game server | client messages (get, create, enter, leave, reconnect, other), game server's answers, connects and disconnects | slots reused with old data in them; kicks inside handlers; answers for clients that have gone; `BiMap` reads erased nodes |
| db_server, mysql | loaded records by account and by role id, the states of their fields, command and result queues, `t_player` in MySQL | get, create, change, callbacks of SELECTs, flush, read and write threads | SELECTs in flight against creations; failed queries; rows that are read half way; an UPDATE put together in buffers that take turns; writes nobody waits for; restarts |
| game_server | players by user and by role, items | enter, leave, chat, role data, items | user ids reused by the gate; an error ends the process |
| login_server | agents of clients and gates, the gate each account selected | login, select server, gate's answer | several accounts on a connection; kicks; two selections in flight; links to gates that end |
| config_server, common | configuration, agents by id and connection | register, distribute | a server that comes back before its old link has ended; a read of an erased node |
| db_generator, csv_generator, test_client | none at run time | code generation, load test | |

Interaction: every server runs one thread that alternates handlers
(`JmyTcpServer::run`, `JmyTcpClient::run`) and `io_service::poll`; db_server
adds one thread for reads and one for writes. A client talks to login_server
(session), then to gate_server, which forwards to game_server, which asks
db_server. A handler that returns an error closes the link its message came
from, whoever else uses it.

What makes each part correct: connections are channels (order, no duplicates, no
mixing) and every pool entry comes back; a client's messages go to the client
whose session was checked on its connection; records in memory, queued writes
and the table agree field by field and changes are stored; the game server's indexes of
players agree, and a user acts for an account that held its slot; an agent table
leads to the connection of its key; an answer of the login server fits the gate
that made it; a running login server is linked to the gate in the end.

## Modules

| Module | Content |
|---|---|
| `Channels` | abstract: one direction of the library's connections as independent FIFO channels |
| `TcpServer` | the passive side of libjmy |
| `MCTcpServer` | its properties; the refinement of `Channels` in both directions |
| `TcpServerInv`, `TcpServerProofs`, `TcpChannelsProofs` | its inductive invariant; theorems about it; the proof of the refinement |
| `GateClients` | the gate's client tables and handlers |
| `GateClientsInv`, `MCGateClients` | its properties; symmetry for TLC |
| `GateClientsProofs`, `GateOwnerProofs` | theorems about it |
| `GateGame` | the gate composed with its game server (players and messages in flight) |
| `GateGameInv`, `MCGateGame` | its properties; symmetry for TLC |
| `GateGameProofs` | theorems about it |
| `Agents` | `common/agent.h`: agents by key and by connection, as operators |
| `LoginServer` | the login server with its clients and gates |
| `LoginServerInv`, `MCLoginServer`, `LoginServerProofs` | its properties; symmetry for TLC; theorems about it |
| `GateLinks`, `MCGateLinks` | config server, gate and login servers finding each other, with the active side of libjmy; properties |
| `GateLinksInv`, `GateLinksProofs` | its inductive invariant; theorems about it |
| `DbServer` | the db server with its threads and MySQL |
| `MCDbServer` | its properties |
| `DbServerInv`, `DbServerProofs` | its inductive invariant; theorems about it |

A definition `Bug...` is the definition after it with a plausible slip, which a
property must tell from the real one; nothing uses it. `PROJECT.json` maps every
definition to the lines it models.

### TcpServer

`conn[o]` is a `JmyTcpConnection` object (`st` its state, `rd`/`wr` a pending
read or write on its socket, `sending` = `sending_data_`, `cnt` =
`buff_send_count_`); `buff[b]` holds the two buffer lists of a
`JmyConnectionBuffer`; `conns`, `freeConns`, `usedMap`, `freeBufs` are the
server's list and the pools. `phase` is where the main loop is. In "run" the
pass over `conns_` is cut into one action per connection (`VisitDead`,
`VisitIdle`, `VisitTimeout`, `VisitConnected`) and one per received message
(`Deliver`, `DeliverFail`, `DeliverEnd`), because handlers act on other
connections in between: before a handler returns, and after the pass, `App` may
send, close and kick any number of times, also when the handler then fails.
`Accept` includes `onConnect`, which may close the new connection at once
(`login_server/client_handler.cpp:34`). In "poll" each completion is an action. Closing a
socket queues its pending operations as aborted completions (`posted`), which
run in order; completions from the reactor come behind what was queued before
the poll (`early`, `Reactor`). That is how io_service works, and it is what keeps
a completion of an ended connection from meeting the next user of its object.

The peer is external: an ordered byte stream from the active side of libjmy,
which may break at any time. Left out: heartbeats (they count as packets that
change nothing), limits of the buffer lists (the code sets none), wire lengths,
ids that wrap. A refused accept changes nothing. A handler that force_closes
its *own* connection is excluded: `processData` then goes on over a cleared
`std::list`, which is undefined behaviour.

### GateClients

`m` is `ClientManager` with `ClientArray` (`freeIds`, `usedIds` and the slot
fields) and the halves of both `BiMap`s (`acc1`/`acc2`, `con1`/`con2`);
`m.link` is what TcpServer shows of each client connection. A handler is one
action; an error return includes the synchronous `force_close` and
`onDisconnect`. `BiMap::remove_1/2` read a key from the node they have erased:
`ReadBack` is the set of outcomes (the old key is found, or something that is
no key of the other map), chosen at every removal. The free list is a set (the
choice of slot is free), a role is named by its account, and `auth` records on
which connection which account's session was checked. The game server ends with
its link (`GameServer::run`), so losing the link loses what was pending; the db
server may also never answer (`RequestLost`). A client that kicks itself is
modelled as if the process survived.

### GateGame

Extends `GateClients` by the game server. A user id of the game server is a slot
of the gate. `online` is `online_role_ids_`, `user` the `user_id` of the player
that `all_players_` has for a role; `inbox` and `outbox` are the link, in order.
Requests to get or create a role stay with `GateClients` (`pending`), because the
db server answers them at any time; they may overtake other messages in the
model, which the real link allows only partly. `ClientOther` lists the handlers
of the gate that send the game server nothing. An error in a handler of either
side ends the link and with it the process (`Ends`, `NoPlayers`).

Three facts of the code shape the properties:
- `processLeaveGame` calls `free(request.role_id())`, the gate never sets that
  field, and `PlayerManager::free` (declared with a role id, `player.h:63`, defined
  with a user id, `player.cpp:168`) finds no user 0: nothing is freed. Players
  live until the process ends. `EnteredMayLeave` rests on that: with a working
  `free`, a client that leaves twice would end the game server.
- A user that has a player keeps it (`processEnterGame`), so after the gate gave
  a slot to another account the user still acts for the earlier one.
  `ActsForHolder` is the strongest relation that holds.
- A role that enters from two slots has one player, with the first user id.

`checkClientMaxCount` counts the client that asks, so two slots mean one usable
client at a time, the other being lost to the first refused client.

### LoginServer

`ag` is `ClientManager`'s `AgentManager` (module `Agents`), `selGate` the
`gate_id` in an agent's data, `gateUp` the gates with an agent, `listed` the
configured gates. `toGate`/`fromGate` are selections and answers on the link to a
gate; the gate's handler is `SelectedServerNotify`, its sessions `session`. A code
is named by the number of the selection it was made for. A connection can log in
repeatedly and as several accounts; the id map then keeps the first account.
An answer that cannot be passed on is an error and ends the link to the gate.

### GateLinks

One gate, one config server, several login servers that crash and restart. A
`client` is a `JmyTcpClient` with its connection's state; `set` says whether it is
in `JmyTcpClientSet`, `tracked` is `GlobalData::login_clients_`, `gl` the gate's
agents. A TCP link has two ends which are closed one after the other; a link is
registered by one request and one answer (`msg`). `ConnHandler::onDisconnect`
reads the login id from an erased iterator: `ReadBack` again holds the outcomes.
A login server's process ends when its config link does (`LoginServer::run`).

After a client was recycled with its connection alive (`torn`) the next
`generate()` would hand out that live object; notifications are not handled in the
model from there on.

### DbServer

`cache` and `byRole` are the maps of `mysql_records_manager2` (records are never
dropped, so an account stands for its record), `st` a record's entry in
`state_mgr_`. `readQ`/`resQ` belong to the read connector, `writeQ` to the write
connector (the pool has one of each), `table` is MySQL's `t_player` with its
unique account. `at` is the main loop: handlers, then one callback
(`RunResults`), then `Update`. The columns that change are sex and level
(`SetRoleData`; together the field `base`) and items (`AddItem`); each field is a
number that grows with each change, and `changed` holds the fields in state
CHANGED. `readErr` is `res_err`, which survives a failed query and comes with the
next result. `Restart` loses everything but the table. `lost` and `second` record
for which accounts a write failed and which got a role although one was stored,
`dropped` of which the last change of sex and level was left out of an UPDATE.
Answers are left out; deletes have no caller.

Two paths of the generated code decide what can be promised:
- An UPDATE names the CHANGED fields only. `format_update_field_value_str` writes a
  field to one of three buffers and the text so far, with the field behind it, to
  the next; the index goes on for a field that is not CHANGED too. After sex and
  level, two fields are passed over (`vip_level`, `exp`), so `items` is written over
  the text that has sex and level in it. The UPDATE is then `items=.., items=..`, but
  all three fields become COMMITTING: a `SetRoleData` and an `AddItem` of one role that
  are flushed together lose the first. `FormatUpdate` is the formatting, column by
  column; `WriteCmd` uses `UpdateText`, which says what comes out of it, and
  `TextFormatted` checks one against the other. Items that are too large for the
  text make the UPDATE fail: it is skipped, its state is forgotten, and its fields
  stay CHANGED until the record's next UPDATE.
- The callback of a SELECT puts the record into the map by account first. When
  `res_err` is set nothing is read into it; when a blob does not parse, the columns
  before it have been read, the role id among them. In both cases `remove_record`
  does not find the record by role id and leaves it where it is (`HalfLoad`): from
  then on the account counts as loaded, with a record (`items` = `None`) that no
  role id leads to.

## Runs

| Run | Question | Result |
|---|---|---|
| `tcp_reuse` | two objects, three connections: are pools kept, does an old completion ever meet a new user of its object, does a live connection always have a read pending, is every end reported (once, or twice after a stray read)? | holds |
| `tcp_channels` | one object, two connections, two messages each way: is each direction a channel (`Channels!Spec`)? | holds |
| `tcp_live` | is everything received handled, everything queued written, every ended connection recycled? | holds |
| `tcp_close` | does `close()` end a connection ("active close default timeout", `jmy_const.h:57`)? | violated |
| `game` | gate with game server: are the client tables and players consistent, is a slot released only with its connection, do slots serve only connections on which their account was checked, and act for their holders, does leaving end the server? | holds |
| `gate_role` | is the role checked on entering the game ("check role id is valid", `client_handler.cpp:157`)? | violated |
| `gate_full` | is a client refused by a full gate closed ("close this client", `client_handler.cpp:83`)? | violated |
| `login` | does the agent table lead to the right connections through repeated logins and kicks; where do agents without a connection come from; does the answer to the latest selection fit its gate? | holds |
| `links` | are records of clients and agents never dangling, do both ends agree on the registered link, does no handler disturb the walk over the client set, is a login server linked in the end? | holds |
| `db_store` | do the maps, records, queued writes and table agree through half loaded rows, failures and a restart? | holds |
| `db_live` | what does the text of an UPDATE leave out; is every other change stored, unless the process or a write fails? | holds |
| `db_second` | does an account that has a role never get another ("already exist role", `db_server/game_handler.cpp:178`)? | violated |

The violated ones are findings, described in `PROJECT.json`:
- a packet received during an active close makes a passive connection CONNECTED
  again (`start_recv`), and then neither the acknowledgement nor the timeout
  ends it;
- `curr_role_id` is not reset when a slot is reused, and `processEnterGame`
  only checks that it is not 0;
- `ci->close()` for a refused client runs before the slot knows its connection
  and does nothing, so slot and account stay taken;
- `processCreateRole` looks at loaded records only.

The loss of a change of sex and level that is flushed with one of items is in no
doc or comment of the repository, so it is not a run of its own: `WriteBehind` and
`EventuallyStored` except `dropped`, and `TextFormatted` shows that an UPDATE leaves
out sex and level in that case and nothing in any other.

BiMap's read of an erased node is undefined. `ServesOwner`, `RoutingInv`, `Routing`
and `ReleasedByDisconnect` are proved for every outcome. `RoutedToOwner`, which also
speaks of slots whose `used` is off, holds only when the old key is found, and that
cannot be relied on: the allocator may write to the node as soon as it is freed
(glibc from 2.29 on puts the key of its thread cache there, over the pair of a map
from int to int). With the other outcome an account that has an entry out of date
is taken to a slot that another account has left. The run `game` takes the first
outcome, in which all five hold; with both outcomes and one message in flight
each way TLC finds no error in the other four (1.4 million states).

`EventuallyLinked` has four exceptions, each of which the model reaches and
without which the property fails: the gate's config link is lost (it is in no
client set, nothing reconnects it); `generate()` has no ids left (`recycle` never
gives them back, ten include the config client); a registered link broke while
the login server kept running (its client is recycled and nothing starts a new
one); a client was torn.

### Bounds

- `MaxConn` 1–2 and `MaxId` 2–3: an object is reused with and without a live
  neighbour, which is where reuse goes wrong. `MaxUp`, `MaxDown` 1–2: a second
  message in a list, a batch limit (`SendBatch` 1–2, 100 in the code) reached
  and not reached.
- Two slots, two accounts, two connections, two messages in flight each way
  (`game`): a full gate, a kick, a slot reused by the other account, messages of
  the slot's last user still under way. 2.5 million states. The theorems cover
  larger tables.
- Two accounts, three connections, two gates, two logins per connection, three
  selections (`login`): a kick, a connection with two accounts, two answers of one
  account under way from different gates, a link lost in between.
- Two login servers, two clients to generate, three links, three starts, one
  break (`links`): a restart while the old link is half open, a pool of clients
  that runs out, a client recycled in place of another. The starts and breaks are
  used up in the end, so the system may stop there (no deadlock check).
- Two accounts, one restart, one change of each field, one SELECT at a time, a
  change only while at most one command is queued (`db_store`, 3.9 million
  states): a creation behind a SELECT, a role id led to by a row loaded half way,
  commands of two accounts in either order. One account, one restart, two changes
  of each field, changes while two commands are queued (`db_live`): an UPDATE of
  both fields, then of one, behind an INSERT. `MaxWrites` bounds changes, not the
  flush, so queues get longer than it; the theorems cover every length, two
  SELECTs at a time included. `CounterRange` is the number of creations one life of
  the process can do with these accounts and `TimeRange` exceeds `MaxClock`, so role
  ids do not repeat: the wrap of `gen_unique_role_id` (16 bits of seconds) is outside
  these runs. A restart is taken to last at least one second.

### Fairness

- TcpServer: the main loop never stops (`Visit`, `EndRun`, `RunPosted`, `EndPoll`
  weakly fair); a packet whose header has come is completed or the link breaks,
  and a socket takes what is written to it or breaks (`ReadBody`, `WriteAll`
  strongly fair, since the phases alternate); the clock read by the close timeout
  advances (`VisitTimeout` strongly fair). Peers and handlers need do nothing.
- DbServer: the main loop and the write thread go on. A query may fail.
- GateLinks: the main loops go on and TCP reports a peer that has closed, so every
  step but the starts, crashes and breaks is weakly fair. A login server that is
  up accepts connections.
- GateClients, GateGame and LoginServer: no liveness is claimed; their peers may
  stay silent.

## Proofs

Every safety property that a run checks on a small instance and finds to hold,
but `TextFormatted` and `RoutedToOwner` (see below), is a theorem, for all values of
the constants that the named assumption of the module allows. Each
invariant was checked with TLC before it was proved.

### TcpServer

For every size of the pools and all bounds (`TcpConstants`), `TcpServerProofs`:
- `Serving`: `Spec => []ServeInv`, the inductive invariant, and from it
- `TcpTypes`, `TcpPoolsKept`, `TcpNoStaleCompletion`, `TcpNoDeafConnection`,
  `TcpDisconnectReported`: `TypeOK` and the four properties of `tcp_reuse`.

`ServeInv` has four layers, each proved from the ones below it. `TypeInv`: types,
the sizes of the pools add up (so nothing is taken from an empty pool, which
`PoolsKept` alone does not say), and no two objects had their last connection in
common. `PoolsKept` itself. `LifeInv`: an object with an open socket is served,
has a read pending and no completion queued; one without may be CONNECTED only
until the completions queued for it have run; completions left by the pass are
at the front of the queue; how often the end has been reported follows from
these. The order of the queue is the heart: it is why an object that the pass
freed and the poll accepts again has no old completion left. `BuffersOK`: a freed
buffer is empty, and a late completion finds its old buffer in the pool.

`TcpChannelsProofs`:
- `Carrying`: `Spec => [](ServeInv /\ ChanInv)`;
- `TcpUpIsChannels`, `TcpDownIsChannels`: `Spec => UpIsChannels` and
  `Spec => DownIsChannels`, the refinement of `Channels`.

`ChanInv` says where the messages are: the receive list of an open connection
holds exactly those between the last handled and the last sent (with the ones
handled but not yet cleared at its front), the send list, among close packets and
acknowledgements, those between the last written and the last queued, in order.
Every step of the server then takes each connection's status and histories
through one step of its channel or leaves them alone. A connection that `onConnect`
refuses is opened and ended in one step, which `Channels` allows.

### GateClients and GateGame

The gate, for all sets of slots, accounts and connections and every nonempty set
of outcomes of the erased read (assumption `GateConstants`), `GateClientsProofs`:
- `RoutingInvariant`: `Spec => []RoutingInv`; `RoutingHolds`: `Spec => []Routing`;
- `ReleaseHolds`: `Spec => ReleasedByDisconnect`.

`Routing` is not inductive. What makes it so (`RoutingInv`): types; free and
used slots are a partition, and a slot whose `used` is set is in use; a slot has
an entry in the slot half of the account map exactly while it is in use; and an
entry in the half that `remove` erases first is confirmed by the other half,
while the other half may hold entries out of date. Each operator on the
manager's record (`Removed`, `NewClient`, `Bind`, `CloseClient`, ...) has a lemma
that it keeps `MgrOK`; each handler composes them. `ReleasedByDisconnect` follows
from the invariant step by step.

`GateOwnerProofs`, for every outcome of the erased read as well:
- `OwnerHolds`: `Spec => []ServesOwner`: while a client's `used` is set, an open
  connection that is bound to it is the one it sends to, and its account's session
  was checked on the connection it sends to. `OwnerInv` adds to `RoutingInv` that no
  connection is in a slot or in the map before it is accepted, that a free slot has
  no open connection left in it (`BoundConns`), and the property itself (`Owned` is
  its second half). Entries out of date do no harm here: an account that is led to
  a slot of another by one first kicks it, which closes the slot's connection.

Gate and game server, for every bound on the messages in flight:
- `GateImplemented` (`GateGameProofs`): `GSpec => Spec`, so what is proved of the
  gate holds in the composition;
- `PlayersHold`: `GSpec => []PlayersAgree` and `MayLeaveHolds`:
  `GSpec => []EnteredMayLeave`, each inductive with the types;
- `GameTypesHold`: `GSpec => []GTypeOK`;
- `HolderHolds`: `GSpec => []ActsForHolder`. `HolderInv` adds that mapped
  accounts, slots' roles and roles in enter requests under way belong to accounts
  that held the slot.

### LoginServer

For all sets of accounts, connections and gates and all bounds
(`LoginConstants`), `LoginServerProofs`:
- `IndexHolds`, `OpenHolds`, `GhostsHold`: `IndexSound`, `OpenIndexed` and
  `GhostsOnlyByRelogin`, from `ClientsInv`: the table's halves agree, and an agent's
  connection was accepted, logged in as its account, and is mapped while open;
- `TypesHold`: `TypeOK`;
- `AnswersHold`: `Spec => AnswerMatches`, from `SelectInv`: what a gate has answered
  is older than what it has still to handle, nothing is newer than the account's
  latest selection, and of that one the agent still names the gate, which holds
  its code once it has answered.

### GateLinks

For every finite set of login servers, all bounds and every nonempty set of
outcomes of the erased read (`LinksConstants`), `GateLinksProofs`:
- `Linking`: `Spec => [](ConfigOK /\ LinksInv)`, and from it
- `LinksTypes`, `LinksNoDangling`, `LinksEndsAgree`, `LinksFailsOutsideSet`: the
  safety properties of `links`.

What the properties need besides each other (`GateLinksInv`): a generated client
has its login server; an open end of a link leads to a generated client, the
gate's end to a connected one that has no other, the login server's end to a
running process; the answer to a registration under way between two open ends is
of the link the login server's agent is on; the gate's agent table is exact in
both directions. `ConfigOK` bounds what the config server tells the gate: a login
server is named at most once per message.
The liveness of the run (`EventuallyLinked`) is not proved.

### DbServer

For every finite set of accounts and all bounds (`DbConstants`), `DbServerProofs`:
- `DbTyped`: `Spec => [](TypeOK /\ RecordsOK)`, whatever ids are generated, and
  `DbTypesHold`: `Spec => []TypeOK`;
- `DbIds`: `Spec /\ [][NewIdsUnused]_vars => []IdsInv`: as long as `CreateRole` makes
  no role id that is in use, an id belongs to one account wherever it is
  (records, half loaded ones too, table, queued commands, results under way), a
  whole record is found by its id, and nothing is being written of an account that
  is not loaded;
- `DbMapsAgree` and `DbWriteBehind`: under the same condition `[]MapsAgree` and
  `[]WriteBehind`;
- `DbNewIdsUnused`: `Bounds => (Spec => [][NewIdsUnused]_vars)`, and `DbInBounds`:
  `Bounds => (Spec => []MapsAgree /\ []WriteBehind)`.

The condition is what the code takes `gen_unique_role_id` to give, and it is
needed: with fewer counter values than accounts TLC finds two accounts with one
id, and `MapsAgree` fails. `Bounds` is what the function can promise by itself: the
16 bits of seconds do not come round (18 hours of the wall clock), there is a
counter value for each account, and a restart takes at least a second. `Fresh`
is the invariant for that: every id in use is older than the next one.

`WriteBehind` speaks of `Stored`, the table after all queued commands, which is
defined by recursion over the queue. The proofs need no induction principle with
an operator parameter: `UpTo` is induction over a set of numbers, obtained from
the least element of a set (`WFMin`). From it come the lemmas that `After` takes
the first command first, that queues put together act one after the other, and
that the row of an account depends on its row before only and stays when the
commands spare it (`AfterHead`, `AfterConcat`, `AfterRow`, `RowAfter`). The step that
matters is `Update`: of each record it sends either all, in an INSERT, or what
`UpdateText` says, and `Behind` holds of every field after it, with `dropped` taking
the change of sex and level that was left out. Unique ids
are what makes the commands of one account spare the rows of all others, since
an UPDATE finds its row by role id; and nothing being queued of an account that
is not loaded (`Idle`) makes the row that a SELECT brings the one MySQL will have.

### Only model-checked

Liveness: `EventuallyHandled`, `EventuallyWritten`, `EventuallyRecycled`,
`EventuallyStored`, `EventuallyLinked` (temporal reasoning under fairness is out of
the prover's reach). `TextFormatted`: `FormatUpdate` is a recursion over twelve columns
that TLC evaluates for each set of changed fields and each buffer to begin with;
these are all there are, so nothing is left for a proof. `RoutedToOwner`, for the
outcome of BiMap's read in which it holds. The four violated properties are shown
by their runs.

## Plan

1. Proofs: action properties of DbServer and GateLinks (what a restart and a
   broken link may not change), and lemmas of `Agents` shared by its users.
2. `DbServer`: the agents of the game servers (`Agents`).
3. `GateLinks`: several gates; what follows when a live connection object is
   handed out again.

## Not modelled

Code generators and the test client; curl, asio and thread pool exercises;
legacy libjmy code that the build leaves out (`USE_CONNECTOR_AND_SESSION` 0,
`USE_THREAD` 0, the first packet format); logging, configuration files,
protobuf contents; of SQL the text of INSERTs (built in buffers of their own, every
field each time) and the escaping of values. Of the game server: items (whose
numbers are unsigned and compared as signed, `item.cpp:34`) and gm commands, which
touch nothing else. Of the active side: closing the pool of clients at the end
of a process.
