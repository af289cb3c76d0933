SPECIFICATION ServicesSpec
CONSTANTS
    Names = {"/", "a", "f", "g"}
    Root = "/"
    Parent <- MCParent
    Tokens = {"k1", "k2"}
    Requests = {"r1", "r2"}
    None = None
    Torrents = {"t1"}
    Arcs = {"h1"}
    Workers = {w1, w2}
    Length = 3
    PieceLength = 3
    Quiet = TRUE
    Nothing = Nothing
    Options = {"ssl", "force", "dontKill", "readOnly", "fuse"}
    Conns = {"c1", "c2"}
    Handles = {"h1", "h2"}
    Threads = {w1, w2}
    FileSize = 3
    Sizes = {1, 2}
    Faults = {}
    Nil = Nil
    Openers = {"old", "new", "other"}
    Latest <- MCLatest
    Found = {"empty", "foreign"}
    Nobody = Nobody
    MaxData = 2
    MaxNew = 4
    Missing = Missing
    Paths = {"p1", "p2"}
    Contents = {"t1", "t2"}
    MaxStamp = 2
    Untouched = TRUE
    NotThere = NotThere
    Clients = {"c1", "c2"}
    Documents <- MCDocuments
    Defaults <- MCDefaults
    ReadOnly = {TRUE, FALSE}
    FirstCap = 3
    Unset = Unset
    Versions = {0, 1, 2}
    NoCopy = NoCopy
    InfoHashes = {"t1"}
    Memories = {"h1", "h2"}
    Writers = {"w1"}
    Lengths <- MCLengths
    BlockSize = 2
    Values = {1, 2}
    Void = Void
    Hosts <- MCHosts
    Protocols = {"ssdp", "bonjour"}
    Types = {"root"}
    Services = {"torr", "http"}
    Skipped = {"docker"}
    Ports = {1}
    Lifetime = 4
    Silent = Silent
SYMMETRY Symmetry
INVARIANTS
    TypesOK
    CrashSafe
    StoreExact
    LocksHold
    ReadsAtOffset
    SchemaIsRight
    ServerRight
    SettingsRight
    DirRight
    DeletedIsSaved
    RutorRight
    MemoryRight
    LaunchAndSearchRight
    AnnouncedRight
CHECK_DEADLOCK FALSE
