\* One object, two connections, several messages in both directions.
SPECIFICATION Spec
CONSTANTS
    MaxConn = 1
    MaxId = 2
    MaxUp = 2
    MaxDown = 2
    SendBatch = 2
PROPERTIES UpIsChannels DownIsChannels
