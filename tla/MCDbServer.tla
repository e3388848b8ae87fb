----------------------------- MODULE MCDbServer -----------------------------
(* DbServer: the properties the runs check. *)
EXTENDS DbServer, TLC

\* The type of every variable.
TypeOK ==
    /\ at \in {"msgs", "update"} /\ link \in BOOLEAN
    /\ clock \in 0 .. MaxClock /\ counter \in 0 .. CounterRange - 1
    /\ cache \in [Account -> Record \cup {None}]
    /\ byRole \in [Role -> Account \cup {None}]
    /\ readQ \in Seq(Account) /\ readErr \in BOOLEAN /\ resQ \in Seq(Result)
    /\ writeQ \in Seq(Cmd) /\ table \in [Account -> Row \cup {None}]
    /\ lost \subseteq Account /\ dropped \subseteq Account /\ second \subseteq Account

\* The record of an account that was created, or read to its end.
Whole(a) == cache[a] # None /\ cache[a].items # None

\* The two maps of mysql_records_manager2 lead to the same records: a record
\* that is whole is found by its role id, and a role id leads to a whole record
\* that has it.  Records get into the maps by CreateRole and by the callback
\* of a SELECT, which may both be under way for an account; the callback may
\* fail half way.
MapsAgree ==
    /\ \A a \in Account : Whole(a) => byRole[cache[a].role] = a
    /\ \A r \in Role : byRole[r] # None => Whole(byRole[r]) /\ cache[byRole[r]].role = r

\* The row that account a is going to have is as its record, but for the fields
\* that are still to be written and are marked in the way that will bring them
\* there, or for a change of sex and level that an UPDATE left out.
Behind(a) ==
    IF cache[a].st = "INSERT" THEN Stored[a] = None
    ELSE /\ Stored[a] # None /\ Stored[a].role = cache[a].role
         /\ cache[a].changed # {} => cache[a].st = "UPDATE"
         /\ "items" \in cache[a].changed \/ Stored[a].items = cache[a].items
         /\ "base" \in cache[a].changed \/ a \in dropped \/ Stored[a].base = cache[a].base

\* Nothing is lost between a record and MySQL but a change of sex and level
\* that is flushed with one of the items.  (For accounts none of whose writes
\* failed and that did not get a second role.)
WriteBehind == \A a \in Account \ (lost \cup second) : Whole(a) => Behind(a)

\* Every change reaches MySQL, by itself or with a later one, unless the
\* process or a write fails first or the change is one of sex and level and is
\* flushed with one of the items.
EventuallyStored ==
    \A a \in Account, v \in Val :
        /\ (Whole(a) /\ cache[a].items = v)
            ~> (cache[a] = None \/ a \in lost \cup second \/ (table[a] # None /\ table[a].items >= v))
        /\ (Whole(a) /\ cache[a].base = v)
            ~> \/ cache[a] = None \/ a \in lost \cup second \cup dropped
               \/ table[a] # None /\ table[a].base >= v

\* The text of an UPDATE names the columns that WriteCmd takes it to name,
\* whichever of the three buffers it is begun in.
TextFormatted ==
    \A a \in Dirty, start \in 0 .. 2 :
        cache[a].st = "UPDATE" =>
            FormatUpdate(start, ColumnsOf(cache[a].changed)) = ColumnsOf(Text(cache[a]))

\* "already exist role" (game_handler.cpp:178): an account that has a role is
\* not given another.
NoSecondRole == second = {}

Symmetry == Permutations(Account)
=============================================================================
