---------------------------- MODULE DbServerInv ----------------------------
(***************************************************************************)
(* The inductive invariant of DbServer.  RecordsOK holds in any case.      *)
(* IdsInv rests on CreateRole never making a role id that is in use, which *)
(* is what gen_unique_role_id is for (NewIdsUnused).  Nothing but a second *)
(* and a counter tells the ids apart, so that can be promised as long as   *)
(* the clock does not come round and there is a counter value for each     *)
(* account (Bounds): then Fresh holds, from which NewIdsUnused follows.    *)
(***************************************************************************)
EXTENDS MCDbServer

Bounds == MaxClock < TimeRange /\ Cardinality(Account) <= CounterRange

\* A record to be written is whole, a whole record has a role, and a role leads
\* to a whole record that has it.
RecordsOK ==
    /\ \A a \in Account : cache[a] # None /\ cache[a].st # "-" => Whole(a)
    /\ \A a \in Account : Whole(a) => cache[a].role # None
    /\ \A r \in Role : byRole[r] # None => Whole(byRole[r]) /\ cache[byRole[r]].role = r

\* Account a has, or is about to have, the role id r somewhere.
Used(a, r) ==
    \/ cache[a] # None /\ cache[a].role = r
    \/ table[a] # None /\ table[a].role = r
    \/ \E i \in DOMAIN writeQ : writeQ[i].account = a /\ writeQ[i].role = r
    \/ \E i \in DOMAIN resQ : /\ resQ[i].account = a /\ resQ[i].row # None
                              /\ resQ[i].row.role = r

Unique == \A a, b \in Account, r \in Role : Used(a, r) /\ Used(b, r) => a = b

\* The id that a CreateRole makes is one that no account uses.
NewIdsUnused == \A a, b \in Account : CreateRole(a) => ~Used(b, NewRoleId)

Loaded == {a \in Account : cache[a] # None}

\* The ids used are older than the next one, as long as one can be wanted.
Fresh ==
    /\ \A a \in Account, r \in Role : Used(a, r) => r[1] <= clock
    /\ Loaded # Account =>
        /\ counter <= Cardinality(Loaded)
        /\ \A a \in Account, r \in Role : Used(a, r) /\ r[1] = clock => r[2] < counter

\* A half loaded record is in the map by account only.
Found == \A a \in Account : Whole(a) => byRole[cache[a].role] = a

\* Nothing is being written of an account that is not loaded, so what was
\* read of it is what MySQL has.
Idle ==
    \A a \in Account : cache[a] = None =>
        /\ \A i \in DOMAIN writeQ : writeQ[i].account # a
        /\ \A i \in DOMAIN resQ : resQ[i].account = a /\ resQ[i].row # None => resQ[i].row = table[a]

IdsInv == Unique /\ Found /\ Idle
=============================================================================
