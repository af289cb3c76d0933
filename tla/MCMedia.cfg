SPECIFICATION MediaSpec
CONSTANTS
    Hashes = {"h1", "h2"}
    Keys = {"k1", "k2"}
    Callers = {"c1", "c2"}
    Admin = "admin"
    Pool = {"t1", "t2"}
    Limits = {0, 1}
    None = None
    DlnaRequests = {"r1", "r2"}
    DlnaKinds = {"restart"}
    Ports = {1, 2, 3, 4, 5}
    Nothing = Nothing
    SegmentLength = 2
    FilmLength = 5
    KeyUnits = {0, 3}
    Cues <- MCCues
    Ahead = 1
    EosBackoff = 1
    Segments = {0, 1}
    CueSegments = {1}
    Readers = {"s1"}
    MaxOperations = 3
    MaxFaults = 1
    MaxStores = 2
    Null = Null
    Shapes <- MCShapes
    Buffers = {1, 2}
    Seconds = 2
    Diff = 1
    MaxGop = 2
    MaxTime = 5
    NoValue = None
    Lengths = {0, 3, 4}
    Requests <- PlayerRequests
    MaxRanges = 2
    MaxSize = 3
    Timecodes = {0, 1}
    Clients = {"c1", "c2"}
    Asks <- MCAsks
    Setups <- MCSetups
    Saved <- MCSaved
    LoadedFirst = {1}
    InfoHashes = {1, 2}
    Absent = None
    OpenLists <- MCOpen
    Trusted <- MCTrusted
    BlockedHosts <- MCBlockedHosts
INVARIANTS
    TypesOK
    HlsRight
    MediaContiguous
    DlnaRight
    AnswersRight
    ApiRight
    PagesRight
    BrowsingRight
    PipelineRight
PROPERTY InUseStays
CHECK_DEADLOCK FALSE
