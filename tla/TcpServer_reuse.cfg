\* Two objects, three connections: objects and buffers are reused beside a
\* live neighbour.  The handlers close and kick but do not send.
SPECIFICATION Spec
CONSTANTS
    MaxConn = 2
    MaxId = 3
    MaxUp = 1
    MaxDown = 0
    SendBatch = 1
INVARIANTS TypeOK PoolsKept NoStaleCompletion NoDeafConnection DisconnectReported
