--------------------------- MODULE MCLoginServer ---------------------------
(* LoginServer: model values for TLC. *)
EXTENDS LoginServerInv, TLC

Symmetry == Permutations(Conn) \cup Permutations(Account) \cup Permutations(Gate)
=============================================================================
