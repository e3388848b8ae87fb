--------------------------- MODULE MCGateClients ---------------------------
(* GateClients: model values and the properties the runs check. *)
EXTENDS GateClientsInv, TLC

Symmetry == Permutations(Slot) \cup Permutations(Account) \cup Permutations(Conn)
=============================================================================
