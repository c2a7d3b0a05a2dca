SPECIFICATION Spec
CONSTANTS
    p1 = p1
    p2 = p2
    Replicas = {p1, p2}
    NoReplica = NoReplica
    Segments = {1, 2}
    Contents = {"loud"}
    Silent <- MCSilent
    Forms = {"valid"}
    RunOf <- MCRunOf
    MaxAttempts = 1
    MaxLog = 3
    MaxOf <- MCTurns
INVARIANT RatioIsReplayStable
\* A replica with nothing to consume polls for ever.
CHECK_DEADLOCK FALSE
