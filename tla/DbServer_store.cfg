\* Two accounts, a restart, a change after the record was created or loaded.
SPECIFICATION Spec
CONSTANTS
    Account = {a1, a2}
    None = None
    CounterRange = 2
    TimeRange = 2
    MaxClock = 1
    MaxVal = 1
    MaxReads = 1
    MaxWrites = 1
SYMMETRY Symmetry
INVARIANTS TypeOK MapsAgree WriteBehind
