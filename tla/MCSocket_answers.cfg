CONSTANTS
    Conns <- MCConns
    Requests <- AllRequests
    InCap = 2
    ReaderCap = 2
    MaxWriteErrors = 1
    ShutdownErrors = FALSE
    IterErrors = TRUE
    MaxPushes = 3
    ClientEOF = FALSE
    ConnWriteErrors = FALSE
    MaxShutdowns = 0
    LateConns <- NoLateConns
    NoChan = NoChan
    NoResp = NoResp
SPECIFICATION Spec
INVARIANT NoSendOnClosedChannel
PROPERTIES EveryCommandAnswered
CHECK_DEADLOCK FALSE
