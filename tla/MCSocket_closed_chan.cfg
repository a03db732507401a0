CONSTANTS
    Conns <- MCConns
    Requests <- MalformedCloseRequests
    InCap = 2
    ReaderCap = 2
    MaxWriteErrors = 0
    ShutdownErrors = FALSE
    IterErrors = FALSE
    MaxPushes = 4
    ClientEOF = TRUE
    ConnWriteErrors = FALSE
    MaxShutdowns = 0
    LateConns <- NoLateConns
    NoChan = NoChan
    NoResp = NoResp
SPECIFICATION Spec
INVARIANT NoSendOnClosedChannel
