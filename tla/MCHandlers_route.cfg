CONSTANTS
    Conns <- MCConns
    Topics <- MCTopics
    MaxRequests = 4
    MaxStalls = 0
    MaxAddErrors = 1
    MaxStartErrors = 0
    Stopper = FALSE
    MaxRestarts = 0
    NoConn = NoConn
SPECIFICATION Spec
INVARIANT TypeOK
PROPERTIES OtherTopicsProceed
CHECK_DEADLOCK FALSE
