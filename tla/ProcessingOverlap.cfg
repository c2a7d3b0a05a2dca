SPECIFICATION Spec
CONSTANTS
    p1 = p1
    p2 = p2
    Replicas = {p1, p2}
    NoReplica = NoReplica
    Segments = {1}
    Contents = {"quiet", "loud"}
    Silent <- MCSilent
    Forms = {"valid", "invalid", "undecodable", "misnamed", "misdescribed"}
    RunOf <- MCRunOf
    MaxAttempts = 2
    MaxLog = 2
    MaxOf <- MCOverlap
SYMMETRY Symmetry
INVARIANT CommittedIsPublished
INVARIANT FeaturesMatchChecksum
\* A replica with nothing to consume polls for ever.
CHECK_DEADLOCK FALSE
