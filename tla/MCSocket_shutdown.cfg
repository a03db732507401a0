CONSTANTS
    Conns <- MCConns
    Requests <- ShutdownRequests
    InCap = 2
    ReaderCap = 2
    MaxWriteErrors = 0
    ShutdownErrors = TRUE
    IterErrors = FALSE
    MaxPushes = 4
    ClientEOF = FALSE
    ConnWriteErrors = FALSE
    MaxShutdowns = 1
    LateConns <- LateC2
    NoChan = NoChan
    NoResp = NoResp
SPECIFICATION Spec
PROPERTY ShutdownCompletes
CHECK_DEADLOCK FALSE
