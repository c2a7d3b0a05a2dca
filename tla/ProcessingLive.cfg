SPECIFICATION FairSpec
CONSTANTS
    p1 = p1
    p2 = p2
    Replicas = {p1, p2}
    NoReplica = NoReplica
    Segments = {1}
    Contents = {"loud"}
    Silent <- MCSilent
    Forms = {"valid"}
    RunOf <- MCRunOf
    MaxAttempts = 2
    MaxLog = 2
    MaxOf <- MCOnce
PROPERTY EventuallyCommitted
\* A replica with nothing to consume polls for ever.
CHECK_DEADLOCK FALSE
