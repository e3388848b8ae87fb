\* One usable slot and one lost with each refused client; two connections, so
\* that a slot is reused by the other account.  The read of an erased BiMap
\* node finds the old key.
SPECIFICATION GSpec
CONSTANTS
    Slot = {s1, s2}
    Account = {a1, a2}
    Conn = {c1, c2}
    None = None
    ReadBack = {TRUE}
    MaxBox = 2
SYMMETRY Symmetry
INVARIANTS GTypeOK RoutedToOwner ServesOwner Routing RoutingInv ActsForHolder PlayersAgree EnteredMayLeave
PROPERTIES ReleasedByDisconnect
