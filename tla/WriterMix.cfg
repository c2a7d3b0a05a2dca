SPECIFICATION Spec
CONSTANTS
    w1 = w1
    w2 = w2
    Writers = {w1, w2}
    NoWriter = NoWriter
    Keys = {"total", "sample"}
    Versions = {1}
    Forms = {"valid", "invalid", "undecodable"}
    TopicOf <- MCTopicOf
    RunOf <- MCRunOf
    AppendOnly <- MCAppendOnly
    MaxLog = 2
    MaxOf <- MCOverlap
SYMMETRY Symmetry
INVARIANT TypeOK
INVARIANT CheckpointIsPersisted
INVARIANT AppendOnlyKeepsAll
INVARIANT InvalidBlocks
INVARIANT IndInv
\* A writer with nothing to consume polls for ever.
CHECK_DEADLOCK FALSE
