SPECIFICATION Spec
CONSTANTS
    Tracks = {1, 2, 3}
    MaxSegments = 2
    Contents = {"c1", "c2"}
    Runs <- MCRuns
    ArtistOf <- MCArtistOf
    NoArtist = 0
    MaxExports = 2
    MaxCrashes = 1
    Cases <- MCCases
    RunIds = {1, 2, 3}
    Pinned <- MCPinned
    Requested = {NoLimit, 0, 5}
    NoLimit = NoLimit
    DefaultLimit = 1
    MaxLimit = 2
    MaxRequests = 1
PROPERTY
    ReplacedAtomically
\* Everything may be stored and read, or as much as the bounds allow.
CHECK_DEADLOCK FALSE
