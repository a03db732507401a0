CONSTANTS
    Conns <- MCConns
    Topics <- MCTopics
    MaxRequests = 3
    MaxStalls = 1
    MaxAddErrors = 0
    MaxStartErrors = 1
    Stopper = TRUE
    MaxRestarts = 1
    NoConn = NoConn
SPECIFICATION Spec
PROPERTIES AsyncProceeds StopReturns
CHECK_DEADLOCK FALSE
