CONSTANTS
    Conns <- MCConns
    Topics <- MCTopics
    MaxRequests = 4
    MaxStalls = 1
    MaxAddErrors = 0
    MaxStartErrors = 0
    Stopper = FALSE
    MaxRestarts = 0
    NoConn = NoConn
SPECIFICATION Spec
PROPERTY OtherTopicsProceed
CHECK_DEADLOCK FALSE
