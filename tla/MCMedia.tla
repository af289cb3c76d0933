------------------------------- MODULE MCMedia -------------------------------
(* The components that serve media over HTTP, side by side, as in MCServices: *)
(* a behaviour picks one of them at the start and only that one moves.         *)
EXTENDS GstService, Dlna, Pipeline, Mp4Reader, HttpApi, Playback, TLC

VARIABLES
    moves,
    last, taskRunner, taskInit, taskDisposed, taskRequest, served, \* GstTask
    settings, document, saving, mixed, playing, reply,          \* HlsPages
    gstConfig, cached, probing, asker, size,                    \* Probe
    treeList, active, asked, numbered, stream, treeAnswer, changes, steady, \* TorrentTree
    shelfList, shelfCall, cursor, shelfAnswer, events, shelfChanges, shelfSteady, \* ContentDirectory
    tree, first, url, at, page, hops, trees                     \* FileServer

Inputs == INSTANCE MCInputs

HlsTask == INSTANCE GstTask WITH
    Requests <- {"r1", "r2"}, Segments <- 3, Catchup <- 2, Starts <- {0, 2},
    Faults <- {"timeout", "error", "freeze"}, request <- taskRequest,
    runner <- taskRunner, init <- taskInit, disposed <- taskDisposed

\* Fragments of one sample that starts a group of pictures or does not.
S(d) == [sync |-> TRUE, dur |-> d]
N(d) == [sync |-> FALSE, dur |-> d]

MCShapes == [video |-> {<<S(1)>>, <<S(2)>>, <<N(1)>>, <<S(1), N(1)>>},
             audio |-> {<<S(1), S(1), S(1)>>, <<S(2)>>}]

\* Requests with up to two ranges and no conditions, with three ranges, and with
\* every combination of conditions that concern the range or the whole.
Player(method, route, match, unmodified, noneMatch, modified, ifRange, range) ==
    [method |-> method, route |-> route, match |-> match, unmodified |-> unmodified,
     noneMatch |-> noneMatch, modified |-> modified, ifRange |-> ifRange, range |-> range]

Specs == [from : {None, 0, 2, 3}, to : {None, 0, 1, 3, 5}]
Middle == [from |-> 1, to |-> 1]
Without(method, route, range) ==
    Player(method, route, None, None, None, None, None, range)

PlayerRequests ==
    UNION {
      {Without(method, route, range) :
         method \in {"GET", "HEAD"}, route \in {"play", "content"},
         range \in {None, <<Middle, Middle>>, <<Middle, Middle, Middle>>}},
      {Without("GET", route, <<s>>) : route \in {"play", "content"}, s \in Specs},
      {Without("GET", route, <<s, u>>) : route \in {"play", "content"}, s \in Specs, u \in Specs},
      {Player("GET", route, match, unmodified, noneMatch, modified, given[1], given[2]) :
         route \in {"play", "content"},
         match \in {None, "same", "weak"}, unmodified \in {None, "before", "at"},
         noneMatch \in {None, "other", "weak"}, modified \in {None, "before", "at"},
         given \in {<<None, None>>}
                    \cup ({None, "same", "weak", "before", "at", "after"} \X {<<Middle>>})}}

\* Of the module HttpApi.
MCAsks == [c1 |-> Inputs!ApiRequests, c2 |-> Inputs!ApiOthers]
MCSetups == Inputs!ApiSetups
MCSaved == Inputs!ApiSaved
MCOpen == Inputs!NoLists
MCTrusted == {Inputs!Addr(9)}
MCBlockedHosts == {<<"ads">>}

Pages == INSTANCE HlsPages WITH
    Films <- Inputs!GstFilms, Second <- 2, UnknownLength <- 20,
    Documents <- Inputs!GstDocuments, Bodies <- Inputs!GstBodies, Savers <- {"s1", "s2"},
    Asked <- {-1, 0, 1, 2, 3, 5, 7, 20}, SegmentSize <- 4,
    Ranges <- {None, Inputs!Bytes(None, 2), Inputs!Bytes(0, None), Inputs!Bytes(1, 9),
               Inputs!Bytes(4, 5), Inputs!Bytes(None, 0), Inputs!Bytes(2, 1)}

Prober == INSTANCE Probe WITH
    Callers <- {"c1", "c2"}, Reports <- Inputs!Reports, Sizes <- {None, 5},
    config <- gstConfig,
    Configs <- {[avi |-> TRUE, vp8 |-> FALSE, sdr |-> FALSE],
                [avi |-> FALSE, vp8 |-> TRUE, sdr |-> TRUE]}

Folder == INSTANCE TorrentTree WITH
    Hashes <- 1 .. 2, HashName <- <<<<104>>, <<105>>>>,
    Name <- <<Inputs!LetterA, Inputs!LetterB>>, Files <- Inputs!TreeFiles,
    Sniffed <- Inputs!Sniffed, Catalogs <- Inputs!TreeLists, Titles <- {Inputs!LetterB},
    Asks <- Inputs!TreeAsks, Attempts <- 1, Buffer <- 2, MaxChanges <- 1,
    catalog <- treeList, answer <- treeAnswer

Shelf == INSTANCE ContentDirectory WITH
    Hashes <- 1 .. 3, Name <- <<Inputs!LetterA, Inputs!LetterB, Inputs!LetterA>>,
    Files <- Inputs!ShelfFiles, Catalogs <- Inputs!ShelfLists, Calls <- Inputs!ShelfCalls,
    Subscribers <- Inputs!ShelfSubscribers, MaxChanges <- 2,
    catalog <- shelfList, call <- shelfCall, answer <- shelfAnswer,
    changes <- shelfChanges, steady <- shelfSteady

MCCues == {[start |-> 1, end |-> 2], [start |-> 3, end |-> 5]}

MediaLink == INSTANCE FileServer WITH
    Trees <- Inputs!Trees, Asked <- Inputs!Addresses, Colons <- {"x:y"}, Reserved <- {"q?"},
    MaxTrees <- 1

-----------------------------------------------------------------------------
MediaInit ==
    /\ moves \in {"task", "hls", "muxer", "dlna", "http", "api", "pages", "probe", "tree", "shelf", "pipeline", "files"}
    /\ HlsTask!Init /\ MuxInit
    /\ Init /\ (moves # "hls" => limit = 0)
    /\ DlnaInit /\ (moves # "dlna" => running = Nothing)
    /\ HttpInit /\ (moves # "http" => length = 0)
    /\ ApiInit /\ (moves # "api" => setup.auth)
    /\ Pages!Init /\ (moves # "pages" => document = None)
    /\ Prober!Init /\ (moves # "probe" => ~gstConfig.avi /\ size = None)
    /\ Folder!Init /\ (moves # "tree" => treeList = Inputs!OneTreeList /\ ~active)
    /\ Shelf!Init /\ (moves # "shelf" => shelfList = <<>>)
    /\ PipeInit
    /\ IF moves = "files" THEN MediaLink!Init
       ELSE /\ tree = Inputs!BareTree /\ first = <<"">> /\ url = first /\ at = "open"
            /\ page = MediaLink!NoPage /\ hops = 0 /\ trees = 0

taskVars == <<last, taskRunner, taskInit, taskDisposed, taskRequest, served>>
hlsVars == <<tasks, task, order, idle, limit, caller, creating, sweep>>
pagesVars == <<settings, document, saving, mixed, playing, reply>>
probeVars == <<gstConfig, cached, probing, asker, size>>
treeVars == <<treeList, active, asked, numbered, stream, treeAnswer, changes, steady>>
shelfVars == <<shelfList, shelfCall, cursor, shelfAnswer, events, shelfChanges, shelfSteady>>
filesVars == <<tree, first, url, at, page, hops, trees>>

\* What component c leaves alone.
Others(c) ==
    /\ moves = c /\ moves' = c
    /\ IF c = "task" THEN TRUE ELSE UNCHANGED taskVars
    /\ IF c = "hls" THEN TRUE ELSE UNCHANGED hlsVars
    /\ IF c = "muxer" THEN TRUE ELSE UNCHANGED muxVars
    /\ IF c = "dlna" THEN TRUE ELSE UNCHANGED dlnaVars
    /\ IF c = "http" THEN TRUE ELSE UNCHANGED playbackVars
    /\ IF c = "api" THEN TRUE ELSE UNCHANGED apiVars
    /\ IF c = "pages" THEN TRUE ELSE UNCHANGED pagesVars
    /\ IF c = "probe" THEN TRUE ELSE UNCHANGED probeVars
    /\ IF c = "tree" THEN TRUE ELSE UNCHANGED treeVars
    /\ IF c = "shelf" THEN TRUE ELSE UNCHANGED shelfVars
    /\ IF c = "pipeline" THEN TRUE ELSE UNCHANGED pipeVars
    /\ IF c = "files" THEN TRUE ELSE UNCHANGED filesVars

MediaNext ==
    \/ moves = "task" /\ HlsTask!Next /\ Others("task")
    \/ moves = "hls" /\ Next /\ Others("hls")
    \/ moves = "muxer" /\ MuxNext /\ Others("muxer")
    \/ moves = "dlna" /\ DlnaNext /\ Others("dlna")
    \/ moves = "http" /\ HttpNext /\ Others("http")
    \/ moves = "api" /\ ApiNext /\ Others("api")
    \/ moves = "pages" /\ Pages!Next /\ Others("pages")
    \/ moves = "probe" /\ Prober!Next /\ Others("probe")
    \/ moves = "tree" /\ Folder!Next /\ Others("tree")
    \/ moves = "shelf" /\ Shelf!Next /\ Others("shelf")
    \/ moves = "pipeline" /\ PipeNext /\ Others("pipeline")
    \/ moves = "files" /\ MediaLink!Next /\ Others("files")

allVars == <<moves, taskVars, hlsVars, muxVars, dlnaVars, playbackVars, apiVars, pagesVars, probeVars, treeVars, shelfVars, pipeVars,
      filesVars>>

MediaSpec == MediaInit /\ [][MediaNext]_allVars

-----------------------------------------------------------------------------
(* The properties, each stated and explained in its component's module; those *)
(* of the components that are extended are named there.                       *)

TypesOK ==
    CASE moves = "task" -> HlsTask!TypeOK
      [] moves = "hls" -> TypeOK
      [] moves = "muxer" -> MuxTypeOK
      [] moves = "dlna" -> DlnaTypeOK
      [] moves = "http" -> HttpTypeOK
      [] moves = "api" -> ApiTypeOK
      [] moves = "pages" -> Pages!TypeOK
      [] moves = "probe" -> Prober!TypeOK
      [] moves = "tree" -> Folder!TypeOK
      [] moves = "shelf" -> Shelf!TypeOK
      [] moves = "pipeline" -> PipeTypeOK
      [] moves = "files" -> MediaLink!TypeOK
PagesRight ==
    /\ moves = "pages" => Pages!PagesRight
    /\ moves = "task" => HlsTask!InitIsCurrent
    /\ moves = "probe" => Prober!TracksAreTheirOwn /\ Prober!OneDiscoverer
    /\ moves = "files" => MediaLink!FilesRight
BrowsingRight ==
    /\ moves = "tree" => Folder!TreeRight
    /\ moves = "shelf" => Shelf!ShelfRight
=============================================================================
