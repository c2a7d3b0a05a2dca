SPECIFICATION FairSpec
CONSTANTS
    w1 = w1
    w2 = w2
    Writers = {w1, w2}
    NoWriter = NoWriter
    Keys = {"track"}
    Versions = {1}
    Forms = {"valid"}
    TopicOf <- MCTopicOf
    RunOf <- MCRunOf
    AppendOnly <- MCAppendOnly
    MaxLog = 2
    MaxOf <- MCRebalance
PROPERTY EventuallyCommitted
\* A writer with nothing to consume polls for ever.
CHECK_DEADLOCK FALSE
