\* One connection, one message of the peer.
SPECIFICATION FairSpec
CONSTANTS
    MaxConn = 1
    MaxId = 1
    MaxUp = 1
    MaxDown = 0
    SendBatch = 1
PROPERTIES CloseEnds
