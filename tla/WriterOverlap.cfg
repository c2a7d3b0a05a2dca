SPECIFICATION Spec
CONSTANTS
    w1 = w1
    w2 = w2
    Writers = {w1, w2}
    NoWriter = NoWriter
    Keys = {"segment", "segment2"}
    Versions = {1, 2}
    Forms = {"valid"}
    TopicOf <- MCTopicOf
    RunOf <- MCRunOf
    AppendOnly <- MCAppendOnly
    MaxLog = 2
    MaxOf <- MCOverlap
SYMMETRY Symmetry
INVARIANT OneRowPerIdentity
INVARIANT NoLockCycle
INVARIANT CommittedIsPersisted
\* A writer with nothing to consume polls for ever.
CHECK_DEADLOCK FALSE
