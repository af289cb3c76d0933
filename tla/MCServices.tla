----------------------------- MODULE MCServices -----------------------------
(* The components that share no state with one another, side by side: a     *)
(* behaviour picks one of them at the start and only that one moves, so the *)
(* states of the whole are the union of theirs and not the product.         *)
EXTENDS DavLocks, DiskStore, Server, TorrentFuse, Migration, Settings, DataDir, Autoload, Rutor,
        MemoryStore, Announcements, TLC

VARIABLES
    moves,
    given, stage, chosen, log, reached,                         \* Launch
    search, unasked, found, replies                             \* Torznab

Inputs == INSTANCE MCInputs

\* Of the module DavLocks.
MCParent == [n \in {"a", "f", "g"} |-> IF n = "a" THEN "/" ELSE "a"]

\* Of the module Migration.
MCLatest == [old |-> 2, new |-> 3, other |-> 3]

\* Of the module Settings.
MCDocuments == Inputs!SettingsDocuments
MCDefaults == Inputs!SettingsDefaults

\* Of the module MemoryStore.
MCLengths == <<4, 0>>

\* Of the module Announcements.
MCHosts == Inputs!HostNets

Launching == INSTANCE Launch WITH
    Starts <- Inputs!Starts, Width <- 8, Shifts <- [b |-> 0, k |-> 5], LogLimit <- 2,
    config <- chosen

Indexers == INSTANCE Torznab WITH
    Requests <- Inputs!Searches, Replies <- Inputs!Replies, Numbers <- Inputs!Numbers,
    Stamps <- Inputs!Stamps, Magnets <- Inputs!Magnets, left <- unasked

-----------------------------------------------------------------------------
Symmetry == Permutations(Threads)

ServicesInit ==
    /\ moves \in {"disk", "dav", "fuse", "datadir", "schema", "autoload", "server",
                  "launch", "network", "settings", "rutor", "torznab", "memory"}
    /\ DiskInit /\ Init /\ FuseInit /\ DirInit
    /\ MigrationInit /\ (moves # "schema" => file.ours)
    /\ AutoloadInit
    /\ (moves # "autoload" => persists /\ \A p \in DOMAIN torrentFile : torrentFile[p] = NotThere)
    /\ ServerInit /\ (moves # "server" => config = {})
    /\ IF moves = "launch" THEN Launching!Init
       ELSE /\ given = Inputs!Bare /\ stage = "parse"
            /\ chosen = None /\ log = None /\ reached = None
    /\ AnnounceInit /\ (moves # "network" => speaks = "ssdp" /\ host = Inputs!Alone)
    /\ SettingsInit
    /\ (moves # "settings" => ~ readOnly /\ cap = 3)
    /\ RutorInit /\ (moves # "rutor" => site = 0 /\ rutorFile.copy = NoCopy)
    /\ Indexers!Init /\ MemoryInit

launchVars == <<given, stage, chosen, log, reached>>
torznabVars == <<search, unasked, found, replies>>

\* What component c leaves alone.
Others(c) ==
    /\ moves = c /\ moves' = c
    /\ IF c = "disk" THEN TRUE ELSE UNCHANGED diskVars
    /\ IF c = "dav" THEN TRUE ELSE UNCHANGED vars
    /\ IF c = "fuse" THEN TRUE ELSE UNCHANGED fuseVars
    /\ IF c = "datadir" THEN TRUE ELSE UNCHANGED dirVars
    /\ IF c = "schema" THEN TRUE ELSE UNCHANGED migrationVars
    /\ IF c = "autoload" THEN TRUE ELSE UNCHANGED autoloadVars
    /\ IF c = "server" THEN TRUE ELSE UNCHANGED serverVars
    /\ IF c = "launch" THEN TRUE ELSE UNCHANGED launchVars
    /\ IF c = "network" THEN TRUE ELSE UNCHANGED announceVars
    /\ IF c = "settings" THEN TRUE ELSE UNCHANGED settingsVars
    /\ IF c = "rutor" THEN TRUE ELSE UNCHANGED rutorVars
    /\ IF c = "torznab" THEN TRUE ELSE UNCHANGED torznabVars
    /\ IF c = "memory" THEN TRUE ELSE UNCHANGED memoryVars

ServicesNext ==
    \/ moves = "disk" /\ DiskNext /\ Others("disk")
    \/ moves = "dav" /\ Next /\ Others("dav")
    \/ moves = "fuse" /\ FuseNext /\ Others("fuse")
    \/ moves = "datadir" /\ DirNext /\ Others("datadir")
    \/ moves = "schema" /\ MigrationNext /\ Others("schema")
    \/ moves = "autoload" /\ AutoloadNext /\ Others("autoload")
    \/ moves = "server" /\ ServerNext /\ Others("server")
    \/ moves = "launch" /\ Launching!Next /\ Others("launch")
    \/ moves = "network" /\ AnnounceNext /\ Others("network")
    \/ moves = "settings" /\ SettingsNext /\ Others("settings")
    \/ moves = "rutor" /\ RutorNext /\ Others("rutor")
    \/ moves = "torznab" /\ Indexers!Next /\ Others("torznab")
    \/ moves = "memory" /\ MemoryNext /\ Others("memory")

allVars ==
    <<moves, diskVars, vars, fuseVars, dirVars, migrationVars, autoloadVars, serverVars,
      launchVars, announceVars, settingsVars, rutorVars, torznabVars, memoryVars>>

ServicesSpec == ServicesInit /\ [][ServicesNext]_allVars

-----------------------------------------------------------------------------
(* The properties, each stated and explained in its component's module; those *)
(* of the components that are extended are named there.                       *)

TypesOK ==
    CASE moves = "disk" -> DiskTypeOK
      [] moves = "dav" -> TypeOK
      [] moves = "fuse" -> FuseTypeOK
      [] moves = "datadir" -> DirTypeOK
      [] moves = "schema" -> MigrationTypeOK
      [] moves = "autoload" -> AutoloadTypeOK
      [] moves = "server" -> ServerTypeOK
      [] moves = "launch" -> Launching!TypeOK
      [] moves = "network" -> AnnounceTypeOK
      [] moves = "settings" -> SettingsTypeOK
      [] moves = "rutor" -> RutorTypeOK
      [] moves = "torznab" -> Indexers!TypeOK
      [] moves = "memory" -> MemoryTypeOK
LaunchAndSearchRight ==
    /\ moves = "launch" => Launching!LaunchRight
    /\ moves = "torznab" => Indexers!TorznabRight
=============================================================================
