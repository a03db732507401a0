CONSTANTS
    Conns <- MCConns
    Requests <- ValidRequests
    MaxPushes = 4
    MaxWriteErrors = 0
    ShutdownErrors = FALSE
    NoResp = NoResp
SPECIFICATION Spec
INVARIANT SubscriberSeesCommitOrder
