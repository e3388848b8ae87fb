\* One object, two connections; every chain of sends stops after one element.
SPECIFICATION FairSpec
CONSTANTS
    MaxConn = 1
    MaxId = 2
    MaxUp = 1
    MaxDown = 1
    SendBatch = 1
PROPERTIES EventuallyHandled EventuallyWritten EventuallyRecycled
