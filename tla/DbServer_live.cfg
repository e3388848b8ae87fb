\* One account, a restart, two changes of each field, changes behind writes.
SPECIFICATION FairSpec
CONSTANTS
    Account = {a1}
    None = None
    CounterRange = 2
    TimeRange = 2
    MaxClock = 1
    MaxVal = 2
    MaxReads = 1
    MaxWrites = 2
INVARIANTS WriteBehind TextFormatted
PROPERTIES EventuallyStored
