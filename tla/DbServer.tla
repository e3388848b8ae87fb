------------------------------ MODULE DbServer ------------------------------
(***************************************************************************)
(* db_server: the players' records between the game server and MySQL.      *)
(*   - mysql_records_manager2 keeps the loaded records by account and by   *)
(*     role id; it never drops one.  A record that must be written carries *)
(*     a state, INSERT or UPDATE.                                          *)
(*   - A GetRole for an account that is not loaded queues a SELECT.  The   *)
(*     read thread runs it and queues the result; the main loop calls one  *)
(*     callback per turn, which loads the record.                          *)
(*   - The main loop then turns every record with a state into a command   *)
(*     for the write thread.  Nobody waits for a write.                    *)
(*                                                                         *)
(* Answers to the game server are left out, except that an error closes    *)
(* its link.  The columns that change are those of SetRoleData (sex and    *)
(* level: base) and that of AddItem (items); each of the two is a number   *)
(* that a change increases.  items = None: the blobs of the row were not   *)
(* read.                                                                   *)
(*                                                                         *)
(* Bug... : see TcpServer.                                                 *)
(***************************************************************************)
EXTENDS Naturals, Sequences, FiniteSets, SequencesExt

CONSTANTS
    Account,
    None,
    CounterRange,   \* 2^16 in the code: gen_unique_role_id's counter is a uint16_t
    TimeRange,      \* 2^16 in the code: the seconds that a role id keeps
    MaxClock,       \* bound: seconds that pass
    MaxVal,         \* bound: changes of a field
    MaxReads,       \* bound: SELECTs in flight
    MaxWrites       \* bound: commands queued when a record is changed

Role == (0 .. TimeRange - 1) \X (0 .. CounterRange - 1)
Field == {"base", "items"}
Val == 0 .. MaxVal
Row == [role : Role, base : Val, items : Val]
\* changed: the fields in state CHANGED.
Record == [role : Role \cup {None}, base : Val, items : Val \cup {None},
           changed : SUBSET Field, st : {"-", "INSERT", "UPDATE"}]

ASSUME DbConstants ==
    /\ IsFiniteSet(Account) /\ None \notin Account \cup Role \cup Val \cup Row \cup Record
    /\ CounterRange \in Nat \ {0} /\ TimeRange \in Nat \ {0}
    /\ {MaxClock, MaxVal, MaxReads, MaxWrites} \subseteq Nat

VARIABLES
    at,         \* the main loop: "msgs" (handlers, then one result), "update"
    link,       \* whether the game server is connected
    clock, counter,
    cache,      \* key2_record_map_ and state_mgr_: the record of an account
    byRole,     \* key_record_map_: the account whose record has this role id
    readQ,      \* cmd_list of the read connector: the accounts to select
    readErr,    \* whether res_err of the read connector is set
    resQ,       \* res_list of the read connector
    writeQ,     \* cmd_list of the write connector
    table,      \* t_player in MySQL
    lost,       \* history: the accounts of which a write has failed
    dropped,    \* history: the accounts whose last change of base an UPDATE left out
    second      \* history: the accounts that have got a role though one was stored

vars == <<at, link, clock, counter, cache, byRole, readQ, readErr, resQ, writeQ, table, lost, dropped, second>>
reads == <<readQ, readErr, resQ>>
time == <<clock, counter>>

\* A field that the text of an UPDATE does not name is None.
Cmd ==
    [op : {"INSERT"}, account : Account, role : Role, base : Val, items : Val]
    \cup [op : {"UPDATE"}, account : Account, role : Role, base : Val \cup {None}, items : Val \cup {None}]
Result == [account : Account, row : Row \cup {None}, err : BOOLEAN]

Init ==
    /\ at = "msgs" /\ link = FALSE /\ clock = 0 /\ counter = 0
    /\ cache = [a \in Account |-> None] /\ byRole = [r \in Role |-> None]
    /\ readQ = <<>> /\ readErr = FALSE /\ resQ = <<>> /\ writeQ = <<>>
    /\ table = [a \in Account |-> None]
    /\ lost = {} /\ dropped = {} /\ second = {}

-----------------------------------------------------------------------------
(* MySQL: what a command does to t_player, where account is unique.        *)

Else(x, y) == IF x = None THEN y ELSE x

Inserted(c) == [role |-> c.role, base |-> c.base, items |-> c.items]
Updated(row, c) == [role |-> row.role, base |-> Else(c.base, row.base), items |-> Else(c.items, row.items)]

Apply(t, c) ==
    IF c.op = "INSERT"
    THEN IF t[c.account] = None THEN [t EXCEPT ![c.account] = Inserted(c)] ELSE t
    ELSE [a \in Account |-> IF t[a] # None /\ t[a].role = c.role THEN Updated(t[a], c) ELSE t[a]]

\* The table t after the commands q.
After(t, q) ==
    LET f[n \in 0 .. Len(q)] == IF n = 0 THEN t ELSE Apply(f[n - 1], q[n])
    IN  f[Len(q)]

\* The table once the write thread has done all that is queued.
Stored == After(table, writeQ)

-----------------------------------------------------------------------------
(* mysql_records_manager2.                                                 *)

\* BiMap::insert, as insert_key_record uses it: the first record stays.
ByRoleInserted(r, a) == IF byRole[r] = None THEN [byRole EXCEPT ![r] = a] ELSE byRole

BugCommitUpdate(rec) == [rec EXCEPT !.st = "UPDATE"]

\* commit_update: a record still to be inserted is inserted with its changes.
CommitUpdate(rec) == [rec EXCEPT !.st = IF @ = "-" THEN "UPDATE" ELSE @]

BugNextCounter == counter + 1

\* gen_unique_role_id.
NextCounter == (counter + 1) % CounterRange
NewRoleId == <<clock % TimeRange, counter>>

Created(r) == [role |-> r, base |-> 0, items |-> 0, changed |-> {"base"}, st |-> "INSERT"]

-----------------------------------------------------------------------------
(* GameHandler.                                                            *)

ConnectDB ==
    /\ at = "msgs" /\ ~link
    /\ link' = TRUE
    /\ UNCHANGED <<at, time, cache, byRole, reads, writeQ, table, lost, dropped, second>>

OnDisconnect ==
    /\ at = "msgs" /\ link
    /\ link' = FALSE
    /\ UNCHANGED <<at, time, cache, byRole, reads, writeQ, table, lost, dropped, second>>

\* A loaded account is answered at once: no change.
GetRole(a) ==
    /\ at = "msgs" /\ link /\ cache[a] = None
    /\ Len(readQ) + Len(resQ) < MaxReads
    /\ readQ' = Append(readQ, a)
    /\ UNCHANGED <<at, link, time, cache, byRole, readErr, resQ, writeQ, table, lost, dropped, second>>

\* A loaded account is refused: no change.
CreateRole(a) ==
    /\ at = "msgs" /\ link /\ cache[a] = None
    /\ cache' = [cache EXCEPT ![a] = Created(NewRoleId)]
    /\ byRole' = ByRoleInserted(NewRoleId, a)
    /\ counter' = NextCounter
    /\ second' = IF Stored[a] = None THEN second ELSE second \cup {a}
    /\ UNCHANGED <<at, link, clock, reads, writeQ, table, lost, dropped>>

\* SetRoleData sets sex and level, AddItem adds to items.
BaseSet(rec) == [rec EXCEPT !.base = @ + 1, !.changed = @ \cup {"base"}]
ItemAdded(rec) == [rec EXCEPT !.items = @ + 1, !.changed = @ \cup {"items"}]

\* A role id that is not found is an error.
NotFound(r) ==
    /\ byRole[r] = None
    /\ link' = FALSE /\ UNCHANGED cache

SetRoleData(r) ==
    /\ at = "msgs" /\ link
    /\ \/ NotFound(r)
       \/ /\ byRole[r] # None /\ cache[byRole[r]].base < MaxVal /\ Len(writeQ) < MaxWrites
          /\ cache' = [cache EXCEPT ![byRole[r]] = CommitUpdate(BaseSet(cache[byRole[r]]))]
          /\ UNCHANGED link
    /\ UNCHANGED <<at, time, byRole, reads, writeQ, table, lost, dropped, second>>

AddItem(r) ==
    /\ at = "msgs" /\ link
    /\ \/ NotFound(r)
       \/ /\ byRole[r] # None /\ cache[byRole[r]].items < MaxVal /\ Len(writeQ) < MaxWrites
          /\ cache' = [cache EXCEPT ![byRole[r]] = CommitUpdate(ItemAdded(cache[byRole[r]]))]
          /\ UNCHANGED link
    /\ UNCHANGED <<at, time, byRole, reads, writeQ, table, lost, dropped, second>>

-----------------------------------------------------------------------------
(* MysqlConnectorPool.                                                     *)

\* A query that succeeds leaves res_err as it was, and moves it into the
\* result with the rows.
ReadOK ==
    /\ readQ # <<>>
    /\ readQ' = Tail(readQ)
    /\ resQ' = Append(resQ, [account |-> Head(readQ), row |-> table[Head(readQ)], err |-> readErr])
    /\ readErr' = FALSE
    /\ UNCHANGED <<at, link, time, cache, byRole, writeQ, table, lost, dropped, second>>

\* A query that fails sets res_err, one whose result cannot be stored does
\* not; either way its callback is dropped.
ReadFail ==
    /\ readQ # <<>>
    /\ readQ' = Tail(readQ) /\ readErr' \in {TRUE, readErr}
    /\ UNCHANGED <<at, link, time, cache, byRole, resQ, writeQ, table, lost, dropped, second>>

Read(row) == [role |-> row.role, base |-> row.base, items |-> row.items, changed |-> {}, st |-> "-"]

BugLoad(a, row) ==
    /\ cache' = [cache EXCEPT ![a] = Read(row)]
    /\ UNCHANGED byRole

Load(a, row) ==
    /\ cache' = [cache EXCEPT ![a] = Read(row)]
    /\ byRole' = ByRoleInserted(row.role, a)

\* db_get_result fails, and remove_record does not find the record, which is
\* not in the map by role id: it stays in the map by account.
HalfLoad(a, role, base) ==
    /\ cache' = [cache EXCEPT ![a] = [role |-> role, base |-> base, items |-> None, changed |-> {}, st |-> "-"]]
    /\ UNCHANGED byRole

\* The callback of GetRole.  A row of an account that has been loaded or
\* created meanwhile goes to a record that is in no map.  With res_err
\* nothing is read of the row; a blob may not parse, which is found out when
\* the columns before it have been read.
Callback(x) ==
    IF x.row = None \/ cache[x.account] # None THEN UNCHANGED <<cache, byRole>>
    ELSE IF x.err THEN HalfLoad(x.account, None, 0)
    ELSE Load(x.account, x.row) \/ HalfLoad(x.account, x.row.role, x.row.base)

\* MysqlConnectorPool::run.
RunResults ==
    /\ at = "msgs" /\ at' = "update"
    /\ IF resQ = <<>> THEN UNCHANGED <<cache, byRole, resQ>>
       ELSE Callback(Head(resQ)) /\ resQ' = Tail(resQ)
    /\ UNCHANGED <<link, time, readQ, readErr, writeQ, table, lost, dropped, second>>

Dirty == {a \in Account : cache[a] # None /\ cache[a].st # "-"}

\* The columns of an UPDATE, in the order in which they are formatted.
Columns == <<"account", "role_id", "nick_name", "sex", "level", "vip_level", "exp",
             "items", "skills", "tasks", "daily_tasks", "activities">>
ColumnsOf(fields) ==
    (IF "base" \in fields THEN {"sex", "level"} ELSE {}) \cup (fields \ {"base"})

\* format_update_field_value_str: the columns named in the text of an UPDATE of
\* the columns cols.  A column is written to the next of three buffers, and
\* the text so far (in the buffer head) with it to the one after that; a
\* column that is not CHANGED takes up a buffer too.
FormatUpdate(start, cols) ==
    LET Following(i) == (i + 1) % 3
        Step(s, c) ==
            IF c \notin cols THEN [s EXCEPT !.idx = Following(@)]
            ELSE LET put == [s.buf EXCEPT ![s.idx] = {c}] IN
                 IF s.head = None THEN [buf |-> put, head |-> s.idx, idx |-> Following(s.idx)]
                 ELSE LET n == Following(s.idx) IN
                      [buf |-> [put EXCEPT ![n] = put[s.head] \cup put[s.idx]], head |-> n, idx |-> Following(n)]
        f[n \in 0 .. Len(Columns)] ==
            IF n = 0 THEN [buf |-> [i \in 0 .. 2 |-> {}], head |-> None, idx |-> start]
            ELSE Step(f[n - 1], Columns[n])
        end == f[Len(Columns)]
    IN  end.buf[end.head]

BugUpdateText(changed) == changed \ {"items"}

\* The fields that the text of an UPDATE names (see FormatUpdate): items is
\* written to the buffer that holds sex and level, so that they are not in it.
UpdateText(changed) == IF "items" \in changed THEN {"items"} ELSE changed

Text(rec) == IF rec.st = "INSERT" THEN Field ELSE UpdateText(rec.changed)

WriteCmd(a) ==
    [op |-> cache[a].st, account |-> a, role |-> cache[a].role,
     base |-> IF "base" \in Text(cache[a]) THEN cache[a].base ELSE None,
     items |-> IF "items" \in Text(cache[a]) THEN cache[a].items ELSE None]

\* The records once those of Dirty but the skipped are COMMITTING.
Clean(skipped) ==
    [a \in Account |->
        IF a \notin Dirty THEN cache[a]
        ELSE [cache[a] EXCEPT !.st = "-", !.changed = IF a \in skipped THEN cache[a].changed ELSE {}]]

BaseSent(S) == {a \in S : "base" \in Text(cache[a])}
BaseLeft(S) == {a \in S : "base" \in cache[a].changed \ Text(cache[a])}

BugUpdate ==
    /\ at = "update" /\ at' = "msgs"
    /\ cache' = Clean({})
    /\ UNCHANGED <<link, time, byRole, reads, writeQ, table, lost, dropped, second>>

\* mysql_records_manager2::update: the records in the order of a hash map.
\* An UPDATE of items that are too large for the text is skipped: its fields
\* stay CHANGED, for the next UPDATE of the record.
Update ==
    /\ at = "update" /\ at' = "msgs"
    /\ \E skipped \in SUBSET {a \in Dirty : cache[a].st = "UPDATE" /\ "items" \in cache[a].changed} :
        /\ \E s \in SetToSeqs(Dirty \ skipped) :
            writeQ' = writeQ \o [k \in DOMAIN s |-> WriteCmd(s[k])]
        /\ cache' = Clean(skipped)
        /\ lost' = lost \cup skipped
        /\ dropped' = (dropped \ BaseSent(Dirty \ skipped)) \cup BaseLeft(Dirty \ skipped)
    /\ UNCHANGED <<link, time, byRole, reads, table, second>>

\* The write thread.
WriteOK ==
    /\ writeQ # <<>>
    /\ writeQ' = Tail(writeQ) /\ table' = Apply(table, Head(writeQ))
    /\ UNCHANGED <<at, link, time, cache, byRole, reads, lost, dropped, second>>

WriteFail ==
    /\ writeQ # <<>>
    /\ writeQ' = Tail(writeQ) /\ lost' = lost \cup {Head(writeQ).account}
    /\ UNCHANGED <<at, link, time, cache, byRole, reads, table, dropped, second>>

-----------------------------------------------------------------------------
Tick ==
    /\ clock < MaxClock
    /\ clock' = clock + 1
    /\ UNCHANGED <<at, link, counter, cache, byRole, reads, writeQ, table, lost, dropped, second>>

\* The process ends and is started again, at least a second later.
Restart ==
    /\ clock < MaxClock
    /\ clock' = clock + 1
    /\ at' = "msgs" /\ link' = FALSE /\ counter' = 0
    /\ cache' = [a \in Account |-> None] /\ byRole' = [r \in Role |-> None]
    /\ readQ' = <<>> /\ readErr' = FALSE /\ resQ' = <<>> /\ writeQ' = <<>>
    /\ lost' = {} /\ dropped' = {} /\ second' = {}
    /\ UNCHANGED table

Handlers ==
    \/ ConnectDB \/ OnDisconnect
    \/ \E a \in Account : GetRole(a) \/ CreateRole(a)
    \/ \E r \in Role : SetRoleData(r) \/ AddItem(r)

Next ==
    \/ Handlers \/ RunResults \/ Update
    \/ ReadOK \/ ReadFail \/ WriteOK \/ WriteFail
    \/ Tick \/ Restart

Spec == Init /\ [][Next]_vars

\* The main loop and the write thread go on; a query ends, one way or the other.
Fairness == WF_vars(RunResults) /\ WF_vars(Update) /\ WF_vars(WriteOK \/ WriteFail)

FairSpec == Spec /\ Fairness
=============================================================================
