SPECIFICATION Spec
CONSTANTS
    p1 = p1
    p2 = p2
    Replicas = {p1}
    NoReplica = NoReplica
    Segments = {1, 2}
    Contents = {"quiet", "loud"}
    Silent <- MCSilent
    Forms = {"valid"}
    RunOf <- MCRunOf
    MaxAttempts = 2
    MaxLog = 3
    MaxOf <- MCLone
INVARIANT TypeOK
INVARIANT StateCoversCommitted
INVARIANT RatioIsReplayStable
INVARIANT SilentFlagIsStable
\* A replica with nothing to consume polls for ever.
CHECK_DEADLOCK FALSE
