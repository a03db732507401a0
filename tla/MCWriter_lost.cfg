CONSTANTS
    Writers <- MCWriters
    MsgsPerWriter = 2
    BatchSize = 2
    MaxFlushes = 1
    MaxNetErrors = 1
    MaxResets = 0
    CanClose = FALSE
    NoWriter = NoWriter
SPECIFICATION Spec
INVARIANT NoAckedWriteLost
