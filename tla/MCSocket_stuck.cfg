CONSTANTS
    Conns <- MCConns
    Requests <- ValidRequests
    InCap = 2
    ReaderCap = 2
    MaxWriteErrors = 0
    ShutdownErrors = FALSE
    IterErrors = FALSE
    MaxPushes = 4
    ClientEOF = FALSE
    ConnWriteErrors = TRUE
    MaxShutdowns = 0
    LateConns <- NoLateConns
    NoChan = NoChan
    NoResp = NoResp
SPECIFICATION Spec
PROPERTY EveryCommandAnswered
CHECK_DEADLOCK FALSE
