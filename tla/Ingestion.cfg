SPECIFICATION Spec
CONSTANTS
    Jobs = {j1, j2}
    Tracks = {1, 2}
    Inputs <- MCInputs
    MaxTracks = 2
    MinDuration <- MCMinDuration
    Contents = {"c1", "c2"}
    MaxSegments = 2
    MaxOf <- MCStrikes
    Window <- MCWindow
    Hop <- MCHop
    TailPad <- MCTailPad
    Lengths <- MCLengths
    Bucket = "fma-small-artifacts"
    RunIds <- MCRunIds
    TrackIds = {1, 2}
    Indexes = {0, 1}
    Schemes <- MCSchemes
    Buckets <- MCBuckets
INVARIANTS
    TypeOK
    RejectsAreAnnounceable
    DoneMeansAnnounced
    TotalsCountTheRun
    SegmentsTileTheTrack
    UrisNameOneObject
    BuiltEnvelopesValidate
    KeysNameTheRowsReplaced
PROPERTIES
    RunIsPublished
    JobsRecover
\* Every job may be done.
CHECK_DEADLOCK FALSE
