---------------------------- MODULE GateGameInv ----------------------------
(* GateGame: the properties that the run checks and the proofs use. *)
EXTENDS GateGame, GateClientsInv

\* The type of the game server's variables.
GTypeOK ==
    /\ online \in [Slot -> Account \cup {None}] /\ user \in [Account -> Slot \cup {None}]
    /\ inbox \in Seq(ToGame) /\ outbox \in Seq(Slot)
    /\ entered \subseteq Slot /\ held \in [Slot -> SUBSET Account]

\* online_role_ids_ and all_players_ agree: an online role has a player, and
\* a player's user is online with that role.
PlayersAgree ==
    /\ \A u \in Slot : online[u] # None => user[online[u]] # None
    /\ \A r \in Account : user[r] # None => online[user[r]] = r

\* What a user changes and saves belongs to an account that held its slot,
\* although neither the gate's slot nor the game server's player is cleared
\* between two clients.
ActsForHolder == \A u \in Slot : online[u] # None => online[u] \in held[u]

\* Why ActsForHolder holds: the accounts mapped to a slot, the slot's role and
\* the roles in enter requests on their way all belong to such accounts, also
\* when the slot has been given to another account since.
SlotHolders(x, h) ==
    /\ \A a \in Account : x.acc1[a] # None => a \in h[x.acc1[a]]
    /\ \A u \in Slot : x.role[u] # None => x.role[u] \in h[u]

RequestHolders(q, h) ==
    \A k \in 1..Len(q) : q[k].kind = "enter" => q[k].role \in h[q[k].user]

HolderInv == SlotHolders(m, held) /\ RequestHolders(inbox, held) /\ ActsForHolder

\* processLeaveGame ends the server, for everybody, when the user has no
\* player.  A user that entered before it leaves does not do that: the
\* enter request is handled first and its player is still there.
EnteredMayLeave ==
    \A u \in entered :
        PlayerOf(u) # None \/ \E k \in 1..Len(inbox) :
            /\ inbox[k].kind = "enter" /\ inbox[k].user = u
            /\ \A j \in 1..k : inbox[j] # Leave(u)
=============================================================================
