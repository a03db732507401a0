CONSTANTS
    Writers <- MCWriters
    MsgsPerWriter = 2
    BatchSize = 2
    MaxFlushes = 1
    MaxNetErrors = 1
    MaxResets = 1
    CanClose = TRUE
    NoWriter = NoWriter
SPECIFICATION Spec
INVARIANTS TypeOK DeliveredOnceInOrder
PROPERTIES CallsReturnUnlessLockLeaked
CHECK_DEADLOCK FALSE
