CONSTANTS
    Conns <- MCConns
    Requests <- ValidRequests
    InCap = 2
    ReaderCap = 2
    MaxWriteErrors = 0
    ShutdownErrors = FALSE
    IterErrors = FALSE
    MaxPushes = 4
    ClientEOF = TRUE
    ConnWriteErrors = TRUE
    MaxShutdowns = 0
    LateConns <- NoLateConns
    NoChan = NoChan
    NoResp = NoResp
SPECIFICATION Spec
INVARIANTS TypeOK TailSeesLog
CHECK_DEADLOCK FALSE
