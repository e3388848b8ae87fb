\* The read of an erased BiMap node finds the old key.
SPECIFICATION Spec
CONSTANTS
    Slot = {s1, s2}
    Account = {a1, a2}
    Conn = {c1, c2, c3}
    None = None
    ReadBack = {TRUE}
SYMMETRY Symmetry
INVARIANTS EntersOwnRole
