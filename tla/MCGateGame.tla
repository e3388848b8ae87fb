----------------------------- MODULE MCGateGame -----------------------------
(* GateGame: model values for TLC. *)
EXTENDS GateGameInv, TLC

Symmetry == Permutations(Slot) \cup Permutations(Account) \cup Permutations(Conn)
=============================================================================
