# Rustorr in TLA+

Rustorr is a torrent streaming server: a client adds a torrent, plays a file of
it over HTTP while it downloads, and an on-disk cache keeps what was downloaded
under a soft cap. Around this core stand the ways to reach it (the client API,
WebDAV, DLNA, FUSE, HLS through GStreamer), what finds it (SSDP, Bonjour,
search) and what keeps it running (settings, database, start and stop, backup).
This directory models the core and most of what surrounds it. TLC checks the
modules on small instances; TLAPS proves for every instance every safety property
of the core (the cache with its eviction loop, the coordinator with its
refinement, both piece stores, on disk through crashes, the schema, the settings,
the watched directory) and of ten components around it (WebDAV locks, FUSE
reads, the server's start and stop, the data directory, the Rutor index, the
announcements on the network, the HLS registry, the GStreamer pipeline with its
subtitles, the cutting of its fragments into segments, DLNA's server).

## The system

| Component | State | Operations | Talks to |
|---|---|---|---|
| cache registry, `rustorr-cache/cache.rs` | an entry per open torrent: pieces, stored bytes, pins, last read; the cap | open, read, write, piece_completed, pin and unpin, eviction_candidates, remove, discard_unowned, set_cap_bytes | a piece store, under and outside its mutex |
| piece stores, `disk.rs`, `memory.rs`, `extents.rs` | extents and completed pieces; a manifest on disk | open and restore, write, read, complete, remove, discard_except | the file system |
| engine adapter, `rustorr-engine` | `loaded`: hash to session id; the librqbit session | add, reader, delete; storage calls into the cache | librqbit, the cache |
| lifecycle, `rustorr-lifecycle` | the gate, `live`, `prefetches`, `idle_detaches`, settings | add, play, drop, remove, evict, wipe, set_settings; release task, look-ahead, idle timer; the watched directory | engine, cache, catalog |
| state, `rustorr-state` | SQLite: torrents, settings, viewed | migrations; one transaction per operation; snapshot | the lifecycle |
| client API, `rustorr-http/app.rs` and others | accounts, WAF lists, HLS tasks of a torrent | torrents, stream, play, playlist, upload, viewed, settings, search; a linked directory | the lifecycle, GStreamer, DLNA |
| tree of torrents, `rustorr-vfs`; WebDAV, FUSE | nothing; DAV locks; open handles and inode numbers | open, list, read, load; PROPFIND, LOCK, UNLOCK and writes; lookup, readdir, read | the lifecycle |
| DLNA, `rustorr-http/dlna`, `rustorr-server/discovery.rs` | the running server, its announcement, subscriptions | browse, search, subscribe; start, stop, restart | the lifecycle, SSDP |
| HLS, `rustorr-gstreamer` | tasks by torrent; of each its pipeline, init segment, cues and position; probes; settings | get_or_add, sweep, remove; init, segment, subtitles, freeze; probe; playlists | GStreamer, the stream route |
| announcers, `rustorr-discovery` | interfaces, notices under way | alive, byebye, answers to searches and questions | sockets |
| search, `rustorr-search` | the Rutor file and index; indexers | refresh, search; a Torznab query | the web |
| server, `rustorr-server` | options; listeners; tasks; pid of the run | start, serve, drain, stop; backup, restore, passwd | all of the above |

What is hard here:

- **The gate and everything that does not take it.** Operations on torrents are
  serialised by one tokio mutex, but a drop waits a second inside it, the
  look-ahead pins without it, a release task schedules a timer without it, and a
  client looks files up before it takes it.
- **Several registers of one fact.** That a torrent is running is written in the
  session, in `loaded`, in `live` and in the cache; what the settings are, in the
  database, the cap, a copy in memory, the announcers and the refresher; a
  pipeline, in the runner, the task and the published subtitle store. A failure or
  a cancelled request can stop between two of them.
- **Two critical sections with an await, or a store, in between.** Cache writes,
  disk writes, `get_or_add`, probes, `stop_dlna`, WebDAV requests, a browse that
  waits for a torrent's files, a PROPFIND that opens each path anew.
- **A clock that decides.** Victims of the cache, of the HLS registry and of the
  sweep follow the order of all uses so far; notices and leases run out.
- **Crashes and restarts.** A manifest, a database, a download and a backup are
  written in steps, and the process may die between any two.
- **Arithmetic that is done twice.** Ranges on two routes; segments in the
  playlists, the init request, the subtitles and the pipeline.

What makes each component correct, in a sentence: the *cache* counts every byte,
never takes a byte of a pinned torrent and names the least recently read
torrents first; the *stores* restore only what is there and answer what was
written; the *lifecycle* never deletes under the engine or a viewer, leaves no
bytes without an owner, answers every request and unloads what nobody watches;
a *database* says truly which migrations it has had; *settings* in their five
places agree again after one undisturbed change; a *request* changes what it
says and its answer leads where it says; a *tree* or *shelf* leads back to what
it listed; a *segment* holds the part of the film its number says, whole and
once; what *runs* is announced and what is announced runs; a *stopped server*
leaves nothing behind.

## How the modules are built

Each module models one component: its state as variables, an action per handler
or, where a handler lets go of a lock or awaits, an action per part of it. The
head of each module says what was abstracted. Every definition that stands for
code has its lines in PROJECT.json, "map".

A definition `X_Y` is `X` with one plausible mistake. No action uses it; it is
there so that each property can be seen to fail when it replaces `X`
(PROJECT.json, "mutants").

`Coordinator` extends `Cache`: its processes call the cache's own actions, and a
reader or a look-ahead is one of the cache's views (`Views` is `Readers \cup
Prefetchers` in every configuration). It adds the adapter's registers, the
lifecycle's and the catalog. The components around it share no state with one
another, so `MCServices` and `MCMedia` put them side by side: a behaviour picks
one in its initial state (`moves`) and only that one moves. The states are the
union of theirs, not the product, and an invariant of an instance says of which
component it speaks. The components that theorems speak of are extended, so that the property
a run checks is the very definition that is proved: `DiskStore`, `DavLocks`,
`MemoryStore`, `TorrentFuse`, `Server`, `Migration`, `Settings`, `DataDir`,
`Autoload`, `Rutor` and `Announcements` in `MCServices`, `GstService`, `Dlna`, `Pipeline`,
`Mp4Reader`, `HttpApi` and `Playback` in `MCMedia`.
The others are instances with their constants and variables substituted. Where
two components do meet, the module that needs the other says in its head what it
takes from it: `HttpApi` takes a call of the core as one step (it runs under
`Coordinator`'s gate); `TorrentTree` has the locks `DavLocks` gives it;
`GstTask` takes the pipeline as what it yields next, and `Pipeline` models how
it comes to that.

### The core

| Module | Code | State and actions |
|---|---|---|
| `Cache` | `cache.rs` | An action per method; `write` and `piece_completed` split where the mutex is let go (`WriteCheck`, `WriteStore`, `WriteCredit`; `CompletedStore`, `CompletedMark`). Bytes are chunks, a piece is one chunk; `tick` and `last_read` are the order they induce (`older`). `Restart` loses all but the files. |
| `Coordinator` | lifecycle `lib.rs`, engine `adapter.rs`, `cache_storage.rs` | Every future is a process that stands at the await it waits at: a client, a reader with its release task, a look-ahead, an idle timer. `drop_live` is `GateDrop`, `StopPrefetch`, `Detach`, `GraceEnds`, `Purge`; `Drops`, `Removes` and `Evicts` tell where drop, remove and evict differ. `Faults` names what may go wrong; `Cancel` drops a request at an await, `AbortLands` an aborted look-ahead at one; what a request left behind is in `detached` and `aborted`. |
| `Residency` | the promise of both | Served, has bytes, saved. Bytes arrive only while a torrent is served and go only while it is not; a watched torrent is served. The refinement (`Coordinator!Promise`) maps `serving` to `session \cup loaded`: through the grace of a delete the engine may still write. |
| `Extents`, `DiskStore`, `MemoryStore` | `extents.rs`, `layout.rs`, `disk.rs`, `memory.rs` | Spans as sets of pairs. The disk store's file, manifest and rename are separate steps, with a crash between any two and threads that keep a handle over a removal; the memory store's blocks with their padding. |
| `Migration` | `schema.rs`, `State::open` | The two queries of the check, the transaction, each migration and its commit, for several processes of different builds. |
| `Settings` | `set_settings`, `set_storage_preferences`, start-up, `settings_api.rs` | A request is a sequence of writes to five places, without a lock over them. |
| `Autoload` | `autoload.rs` | Two equal looks at a file, the add, the delete; others write and replace files meanwhile. A server may be read-only, and then `persist` saves nothing. |
| `MCCache`, `MCCoordinator`, `MCInputs` | | instances, symmetry, constraints, inputs |
| `Cache_proofs`, `Coordinator_proofs`, `Stores_proofs` | | theorems about each; those about `Migration`, `Settings` and `Autoload` are in `Services_proofs` |
| `FiniteInduction` | | induction over numbers and finite sets |

### Around the core (`MCServices`)

| Module | Code | State and actions |
|---|---|---|
| `DavLocks` | `webdav/lock.rs`, `webdav/mod.rs` | The lock table by name and by token. A write request confirms or creates locks for the paths it `covers`, awaits, releases; a client may disconnect in between (`Drop`); locks expire. |
| `TorrentFuse` | `rustorr-fuse` open, read, release | A handle's reader and where the handle believes it is; several kernel threads. |
| `DataDir` | `maintenance.rs`, `tls.rs`, `snapshot.rs` | Database and journal, accounts, key pair; a server that writes and is killed beside backup, restore and passwd, file by file. |
| `Server` | `run.rs`, `main.rs`, `listeners.rs` | Start step by step, each of which may fail; sockets, connections, signals, the drain, the stop in reverse order. |
| `Launch` | `config.rs`, `main.rs` | An option in each of its places and what counts; sizes modulo the width of the number; log, proxy, health check. |
| `Announcements` | `ssdp.rs`, `bonjour.rs`, `dns.rs`, `interfaces.rs` | Notices delayed by timers, lost datagrams, and what a listener believes. |
| `Rutor` | `service.rs`, `rutor.rs` | Download to a part file, rename, load, with a task that is aborted and not joined. |
| `Torznab` | `torznab.rs`, `search_api.rs` | Indexers asked one after another, an answer read event by event, dates of both formats. |
| `Services_proofs` | | theorems about `DavLocks`, `TorrentFuse`, `DataDir`, `Server`, `Rutor`, `Announcements` and three modules of the core |

### Media (`MCMedia`)

| Module | Code | State and actions |
|---|---|---|
| `HttpApi`, `Access` | `app.rs`, `web_api.rs`, `client.rs`, `access.rs` | A request goes through the layers (WAF, CORS, account, read-only) and then call by call through its handler, beside another client's. |
| `Playback` | `raw_playback`, `serve_content.rs`, `range.rs` | Size limit, preconditions, ranges and bodies of the two routes that serve files, and what each answers when a call fails; the viewed row. |
| `FileServer` | `file_server.rs` | Redirects, listings and index pages of a directory that changes, and the browser that follows them. |
| `TorrentTree` | `rustorr-vfs`, PROPFIND and the other methods, FUSE's lookup and readdir | A path is opened a name at a time from the list of torrents as it is then. |
| `ContentDirectory` | `dlna/soap.rs`, `content.rs`, `mod.rs` | Ids as escaped paths, pages of a browse, a browse that waits for files, subscriptions. |
| `Dlna` | `discovery.rs` (server) | Start and stop with the lock let go before the join, by requests that overlap. |
| `GstTask`, `GstService` | `service.rs` | A task under init and segment requests, seeks, freezes and errors; the registry with limit, sweep and removal. |
| `Pipeline` | `pipeline.rs`, `subtitles.rs` | Starting, seeking, reading and stopping GStreamer, with its bus and threads, and the subtitle stores requests wait on. Of a seek the probes, the flush and its end are three steps. |
| `Mp4Reader` | `mp4box.rs` `Reader` | Fragments of two tracks pushed in buffers and cut into segments. |
| `HlsPages`, `Probe` | `playlist.rs`, `cue.rs`, `config.rs`, `gstreamer_api.rs`; `probe.rs` | Playlists and the requests their links lead to; Matroska cues; settings, stored and put in force in two steps; the discoverer's report and the cache of reports, with callers that leave. |
| `Media_proofs`, `Mp4Reader_proofs`, `Http_proofs` | | theorems about `GstService`, `Dlna`, `Pipeline`, `GstTask` and `Probe`; about `Mp4Reader`; about `HttpApi` and `Playback` |

## Runs

| Run | Distinct states | Instance | Shows |
|---|---|---|---|
| `cache` | 810 thousand | `MCCache` picks one of two: two torrents of one chunk with two pins and two engine threads and cap 0, or three torrents of two chunks with one of each and caps 0 and 2 | pins, recency, accounting and residency are exact; the eviction loop agrees with the policy stated as a set; a watched torrent keeps its data |
| `coordinator` | 1.27 million | 1 torrent, 2 clients, 2 readers, 1 look-ahead, 2 timers, all single-torrent requests | what is watched is served, a delete happens alone, the registers and the owners of bytes agree, nothing is removed under the engine |
| `coordinator_pair` | 2.33 million | 2 torrents, 1 of each process, cap 1; adds, plays, settings, wipe, restarts | the same between torrents, the sum the cap is compared with, and that `Coordinator` implements `Residency` |
| `coordinator_faults` | 2.86 million | 1 torrent, 2 clients that add, play and remove, 1 reader, 1 look-ahead, 1 timer; store, delete, initialisation and catalog fail, requests are dropped at any await | what is watched is still served; a delete happens beside no pin and no look-ahead but those a dropped request left behind |
| `coordinator_live` | 56 thousand | 1 of each process, all requests, fair | every request is answered; a released torrent is unloaded or watched again |
| `services` | 665 thousand | 13 components, below | below |
| `media` | 1.74 million | 12 components, below | below |

Five runs state what a document or a comment says and find it violated:

| Run | What is said | What happens |
|---|---|---|
| `evict_skips_unloaded` | ADR 0004, decision 4: unpinned entries go until the cache is under its cap | the bytes of a dropped saved torrent are named and never removed: the engine answers `NotLoaded` first |
| `cancelled_add` | `cache.rs:397`: remove only after the engine released the torrent | an add whose client disconnects during initialisation leaves a torrent the adapter does not know; a drop removes its bytes under the engine |
| `never_unloaded` | `docs/deploy.md:197`: a torrent without viewers is unloaded | the reader left while the look-ahead still held its pin: no timer is armed, then or later |
| `fuse_retry` | fuse `lib.rs:441`: reads at `offset`, reusing the reader when it continues there | a read that fails half way leaves the reader ahead of its recorded position, and the retry gets later bytes |
| `wrong_segment` | `service.rs:435`: the segment, in order where possible | the segment before an init request's start counts as sent: a request for it gets the next one |

The properties of `services`:

| Property | Says | Instance |
|---|---|---|
| `CrashSafe` | what a restore accepts has its bytes (`RestoreSound`); a range whose write returned survives a crash, also one in another thread's write (`AckedSurvives`) | 3 bytes, one piece, one handle, two threads, crashes |
| `StoreExact` | a read of the disk store answers what was written (`ReadsData`), a byte is credited once (`CreditedOnce`) | as `CrashSafe` |
| `MemoryRight` | of the memory store the same, and no more blocks than its bytes need | blocks of 2, lengths 4 and 0, two handles, two values |
| `LocksHold` | counts on ancestors are those of the locks, locks do not overlap, two write requests in progress never have locks for the same path, a lock is held while its request runs or because that was dropped | 4 names, 2 tokens, 2 requests, tagged lists and the empty path |
| `ReadsAtOffset` | a FUSE read gets the bytes of its offset, when readers do not fail half way | 2 handles, 2 threads, 3 bytes |
| `DirRight` | a journal never lies beside another database nor a certificate beside another's key; after a restore the directory is the backup, also when an earlier one was cut off | 2 commits, 4 new files |
| `SchemaIsRight` | the version says which migrations a file has had; an open database has those of its build | builds with 2, 3 and 3 migrations |
| `DeletedIsSaved` | a .torrent file is deleted only when its torrent was added, and that one is saved unless the server is read-only | 2 paths, 2 stamps, read-only or not |
| `ServerRight` | however it ends nothing is left running; it stops only when asked; a request finds engine and database until it is through or the grace is over; a plain socket serves nothing when HTTPS is forced | 2 connections, all subsets of options, each step may fail |
| `LaunchAndSearchRight` | the image's variables change nothing that was given elsewhere; the cache has the size asked for and traffic uses the proxy or the start fails; the health check asks an address the server listens on (`LaunchRight`). A Torznab answer is read as it says, dates keep their instant, every usable indexer's finds arrive (`TorznabRight`) | each option in all combinations of its places, numbers of 8 bits; 3 indexers, feeds of up to 2 items, cut and bad documents, 44 dates |
| `AnnouncedRight` | after the goodbyes nobody believes in a server that is gone, but for what was under way or lost; nobody is sent to an address of another network | hosts with one or two interfaces, lifetime 4 |
| `SettingsRight` | one change that meets no other sets all places right, whatever earlier ones left; read-only mode keeps the document | 2 clients, restarts |
| `RutorRight` | switched off it is forgotten, a search works on a copy that decodes and, once the task sleeps, on the stored one, a whole download replaces the old | 3 versions of the file |

And of `media`:

| Property | Says | Instance |
|---|---|---|
| `HlsRight` | every pipeline has an owner that will stop it (`NoOrphans`); once everyone evicted the limit is kept (`LimitKept`) | 2 torrents, 2 callers, limits 0 and 1 |
| `MediaContiguous` | nothing is lost, repeated or put in another order; a segment's media are the samples it lists; fragments follow one another without a gap | groups of 1 or 2 pictures, video and audio fragments up to time 5 |
| `DlnaRight` | once the requests are through SSDP announces the server that runs and nothing else (`ServedIsAnnounced`), and no server is left that nobody can stop (`NoStrayServer`) | 2 restarts that overlap, 5 ports |
| `AnswersRight` | a playback answer is the one RFC 9110 asks for and holds the bytes it names; ranges that exist are refused only by the limit or when a call fails | files of 0, 3 and 4 bytes, a limit of 3, up to 3 ranges, every combination of conditions |
| `ApiRight` | a refused request changes nothing; a listing tells the state; HLS tasks follow their torrent; a played link is served; links lead back to the server the client asked | 2 clients, 2 torrents |
| `PagesRight` | a playlist's links work, its times add up to the film and the subtitles are those of their segment, the bandwidth announced carries the film; settings are those of their document, unless two changes met. The init segment a player has is of the pipeline that runs (`InitIsCurrent`); a track has what its own section of the report says (`TracksAreTheirOwn`); one discoverer runs at a time (`OneDiscoverer`); the linked directory's redirects end and arrive, and its links lead to what they name (`FilesRight`) | films with and without cues, subtitles and duration; 2 savers of settings; 3 segments, catch-up 2, 2 requests with faults; 2 callers of a probe; 1 change of the directory |
| `BrowsingRight` | of the tree (`TreeRight`): if nothing changes a request is answered from that tree, whole and once; whatever changes, a file served has the path asked for; every property asked for is answered once. Of DLNA's shelves (`ShelfRight`): one can walk down from what is shown, pages join to the whole list, and whatever changes the files of an answer are those of the torrent asked for | 2 torrents, 1 change, buffers of 2 entries; 3 torrents, 2 changes |
| `PipelineRight` | between operations the runner, the task and the store agree on whether a pipeline runs; a segment is placed where its first sample is and a store that is ready has every cue of the segment, unless a buffer of before a seek was taken for the first after it; one wake-up of a subtitle request can be lost and no other | subtitles of one segment, film of 5 units, key frames at 0 and 3, 2 stores, 3 operations of which one may be spent on a fault |
| `InUseStays` | a task in use leaves the registry only for another file, for the limit, on a removal or at the end | as `HlsRight` |

`TypesOK` is each component's type invariant.

**Bounds.** Two engine threads and two pins are the least with which two calls
or two viewers overlap; three torrents are needed for a victim in the middle of
the recency order, which does not depend on completions, so the larger instance
has none. In the coordinator, two clients, two readers and two timers give every
pair of operations that overtake one another, including two release tasks that
arm a timer at once; the second look-ahead of a torrent replaces the first. A
torrent beyond the second adds no interaction: operations name one torrent, and
only the cap, the gate and the sweep connect two. Readers, tasks and timers have
a bounded number of slots: a play waits for a free reader slot, a look-ahead
without one is left out, a timer waits. `coordinator_faults` has no second
torrent and no wipe: the faults meet the steps of one delete.

Around the core, two of each process (threads, requests, callers, openers of one
build) give each pair that overlaps, and the races found while modelling need no
third. Counters are bounded where a component would grow without end: `MaxData`,
`MaxNew`, `MaxStamp`, `MaxTime`, `MaxTrees`, `MaxChanges`, `MaxOperations`,
`MaxStores`, `MaxFaults`, each named in its module. Three segments give a repeat, a
next and a jump; two symbols of a name (one of which needs an escape) give names
that are equal, prefixes and neither; one change under a request falls between
any two of its steps. Widths of 8 bits, blocks of two bytes and a piece of
three overflow, straddle and end short as 64 bits and 16 KiB do.

**Fairness** (`coordinator_live`, `never_unloaded`). Weak fairness of each
process: the runtime polls every ready task, the engine's awaits return, a
download ends and a timer fires. Strong fairness of `TakeGate`: tokio's mutex
queues its waiters. Nobody is obliged to send a request, close a reader or stop
the process. The other runs have safety properties only and assume none.

**Deadlock** is checked in every run of the cache and the coordinator: no state
is without a successor. In `services`, `media`, `fuse_retry` and `wrong_segment`
it is not, because components there really stop: a process that ended, a request
that was answered, a film that is over, or a bound that is reached.

## Proofs

A theorem speaks of every value of the constants, a run of one. What a component
assumes of its constants is an `ASSUME` in its module (`CacheConstants`,
`CoordinatorConstants`, `DiskConstants`, `MemoryConstants`, `SettingsAssumption`,
`DirAssumption`, `RutorAssumption`, `AnnouncementConstants`, `GstAssumption`,
`DlnaAssumption`, `PipelineConstants`, `MuxerConstants`, `ApiAssumption`,
`PlaybackAssumption`): sets are
finite where a cardinality is taken, lengths and limits are natural numbers, and
the marks for "nothing" are none of the things they stand for. A theorem that
needs more says so in an `ASSUME` of its own, named below with its reason in the
code. Every proof of an invariant has the same shape: the invariant holds
initially, one lemma or step per action keeps it, and it implies the property.

`FiniteInduction` has the inductions the rest needs, over sets and not over
operators, since the provers cannot instantiate an operator: `Induction` over the
natural numbers and `SetInduction` over finite sets (both from a least element,
by the library's `WFMin`), `FoldIsDefined` (the recursion of `MapThenFoldSet` has a
solution, so what it computes can be stepped through) and `FirstAreEnough` (of a
finite set that is ordered strictly at least k elements have fewer than k before
them).

`Cache_proofs` proves, for all finite sets of torrents, chunks, views and
threads (`CacheConstants`):

- `TypeCorrect` and `PinsAreExact`, from `PinInv == CacheOK /\ PinsExact`.
  `CacheOK` alone is not inductive: `Unpin` subtracts one, and only that the
  count is the number of live pins says that it was positive. One lemma per
  action that touches a pin (`OpenKeepsPins`, `PinKeepsPins`, `UnpinKeepsPins`,
  `RemoveKeepsPins`, `RestartKeepsPins`), `PinsUntouched` for the others.
- `WatchedNeverLosesData`: the action property `WatchedKeepsData`, from `PinInv`
  in the state before the step (`WatchedIsPinned`: a live pin makes `remove`
  refuse).
- `RecencyIsTotal`: the order eviction sorts by is a strict total order. It is
  inductive by itself; `TouchedIsTotal` and `UntimedIsTotal` are the two ways
  it changes.
- `ResidentPiecesHaveBytes`, from `ResidentInv`. The strengthening speaks of the
  calls in progress (`CallsHaveBytes`: what a call is about to list is still in
  the store, unless a removal made the torrent late) and of closed torrents
  (`ClosedListsNothing`: so a clean-up at start takes nothing from the index).
- `AccountingIsExact`, from `CountInv`: of an open torrent, `stored` plus the
  writes between their two critical sections (`Uncredited`, as a cardinality) is
  what the store holds, and more than that only once it is late. Beside it
  `WritesFindEntries`: a write that has stored has its entry, unless a removal ran
  inside it.
- `VictimsAreRight`: the loop of `eviction_candidates` names what the policy says
  (`CandidatesRight`). It follows from `RecencyTotal` and the types, by what the
  operators compute: a sum over entries is the size of a set (`TotalIsCount`), so
  that sums of unions and of single entries follow; a finite set in a strict total
  order can be listed in that order (`CanBeSorted`, by the number of entries before
  each one), so that the `CHOOSE` of the sorted list finds one; the loop has taken
  the first of that list as long as the rest is over the cap (`LoopGoes`, by
  induction over its rounds).

`Coordinator_proofs` proves, for any number of torrents, clients, readers,
look-aheads and timers and whatever `Faults` holds:

- `CoordinatorTypeCorrect`; `CallsTheCache` (`Spec => CacheSpec`: each step is one
  of the cache's or leaves the cache alone), so that the seven theorems about the
  cache hold of the cache inside the coordinator.
- `ServedAloneAlways`: what is watched is served (`WatchedIsServed`), and a delete
  is alone. The invariant is `GateInv`: the cache's `PinInv`, the types of the
  registers (`BooksOK`), `WatchedIsServed`, and `ProcInv`, which says where a
  process may stand and what it has there (`Shapes`), that only the gate's owner
  stands inside (`GateHeld`), that a play has its reader to itself (`Claims`), that
  what is listed as timer or look-ahead of a torrent is one (`TimersListed`,
  `PrefetchListed`), which processes hold a pin (`ViewsHeld`) and that from the
  grace on there is no pin and no look-ahead left (`DeletesAlone`), but for those that
  went astray. `ServedAlone` alone is not inductive: that nobody else pins in the grace
  is because a play needs the gate and a look-ahead that starts is in `prefetches`,
  which the delete emptied, or was left by a dropped request (`Astray`). One of those
  may pin in the middle of a delete: `cache.remove` then refuses, and what the delete
  left behind is the store error's (below, *Lifecycle*). Most actions are shown to be a `Moves(p)`, and `MovesKeeps` does the
  rest.

Its second part adds what the registers of one torrent say together:

- `OwnedAlways` and `NothingGoesUnderEngine`, for `Faults \subseteq {"delete",
  "late"}`. `OwnInv`: the registers agree or an operation inside the gate is about
  to settle them, with the state each of its steps finds (`Registers`); bytes
  belong to a saved or live torrent or to one being added (`Owners`); before the
  start-up code has run nothing does (`NotBooted`).
- `AccountedAlways` and the refinement `KeepsPromise`, for `Faults \subseteq
  {"delete"}`. `CallInv`: an engine call in progress is of a torrent in the session
  or of one whose grace still waits for it, and nothing is ever late.

  The hypotheses on `Faults` are the code's own: with `"cancel"` the registers do
  disagree (finding `cancelled_add`), with a store, initialisation or catalog error
  they stay apart until the next add (below, *Lifecycle*), and a call that
  outlives the grace writes bytes no entry counts. `ServedAlone` holds under all of
  them; the run `coordinator_faults` has all but `"late"`, which the theorem covers.

`Stores_proofs` first proves what `Extents` computes, for any spans: an insertion adds the
range's bytes and keeps the spans sorted and apart (`InsertAdds`), what it returns
is the number of new bytes (`AddedIsNew`), the size of an index is the number of its
bytes (`SizeIsCount`), a range that counts as covered is (`CoversMeans`), and the list in
a manifest is read back as it was written (`FromSpansReads`). The sizes and the
reading are folds, taken step by step with `FoldIsDefined` and `SetInduction`.

It then proves of both stores, for any lengths and any number of torrents,
handles and engine threads:

- `SurvivesCrashes` (`CrashSafe`), `StoreStaysExact` (`StoreExact`) and
  `DiskTypeCorrect`. The invariant speaks of the index in memory, the manifest and
  the bytes: an open torrent's index has its bytes and the manifest says no more
  than the index (`Indexed`), a closed one's manifest has its bytes unless they went
  first (`Resting`), an open that is half done starts from what is there
  (`Reopening`); what is acknowledged is in the manifest and on the disk (`Kept`),
  and what is cleared was not, or no longer counts (`Going`). Of the calls:
  a torrent has a handle of its own and a call has its torrent's (`OwnHandles`), only
  the mutex's owner writes a manifest (`OneWriter`), and each of its places says
  what is stored by then (`CallsKnow`). `Credits` counts what the cache was told and
  what the mutex's owner will tell it; after a failed manifest it may be less.

  The hypothesis is `Quiet`: a removal finds no engine call of its torrent, the
  contract of the trait ("Only valid once the engine no longer uses the torrent's
  storage", `store.rs:41`). `NothingGoesUnderEngine` and the grace in `Coordinator` are
  why the cache keeps it. Without it TLC finds `CrashSafe` violated: a manifest goes
  on vouching for bytes a removal took.
- `MemoryStaysRight` (`MemoryRight`), without a hypothesis: a handle that was
  removed or replaced under a call is still whole. The invariant is about one file
  of one handle (`FileHolds`: extents, blocks, what was written and the sum of what
  was returned), so that a step keeps it, resets it or is a write (`WriteHolds`).
  `BlocksAreBounded` bounds the blocks by the spans: one span by the division of its
  ends, the others by `SetInduction`.

`Services_proofs` proves of components that share no state:

- `SchemaStaysRight` (`SchemaIsRight`), for any processes and builds with any number
  of migrations. The hypothesis `SchemaConstants` is that a build knows a natural
  number of migrations and `Nobody` is not a process. `VersionIsHonest` and
  `OpenIsMigrated` are not inductive: a migration is applied to the version the
  transaction found. The invariant adds that whoever is in a transaction is the
  writer and its step the file's next one (`OneTransaction`), and what a process
  past the check knows of the file (`Reached`).
- `LocksStayRight` (`LocksHold`) and `LocksTypeCorrect`, for any finite tree of paths,
  tokens and requests. The hypothesis `LockConstants` is that every set of paths has
  one whose parent is outside it, or the root (no path is above itself), and that
  `None` is no path or token. The lock table is a value, so the lemmas speak of the
  calls of `MemLs` as functions on it: `RemovedIsSound` and `CreatedIsSound` show
  that they keep `Sound` (the two maps match, each count is the number of locks on
  the entry and below it, locks do not overlap). `RefsExact` counts sets under a
  recursive function; `WalkIsDefined` shows that the function has a solution and
  `WalkIsChain` that of two paths above a third one is above the other. `Claims` says
  what the requests have of the table: no two own the same token or hold the same
  lock (`Apart`), a temporary lock cannot expire and nobody confirms it
  (`Temporary`), held is what a request or a dropped one holds (`Marked`), each path
  a request asked a lock for is under one of its locks (`Covered`). `OneWriter` follows:
  under two locks a path cannot be (`OneCovers`), and one lock has one owner. It speaks
  of the paths locks were asked for, not of those the handler writes: with a tagged
  list these differ (below, *WebDAV, FUSE, tree*).
- `AnswersAtOffset` (`ReadsAtOffset`), for any number of handles and kernel threads
  and files of any length. The invariant says where the reader of a handle is while
  a read has it (`Reading`) and that a reader nobody has is where the handle believes
  it to be (`Resting`). The hypotheses are the types (`FuseConstants`) and that no
  reader fails half way: with that fault the code does answer from another offset
  (`fuse_retry`).
- `ServerStaysRight` (`ServerRight`). The invariant relates each step to what was
  started by then (`Started`) or stopped (`Stopped`), the options to the sockets
  (`Sockets`), and a drain to who asked for it (`Stopping`).
- `SettingsStayRight` (`SettingsRight`), for any documents and any number of requests,
  after whatever overlapping, failed and read-only ones and restarts. That one
  undisturbed change settles everything is not inductive: a request that is alone
  may be half done. `Carried` says for each place it stands at which places have its
  settings by then, `MeetNone` that a request marked as alone is, `OnlyTells` that in
  read-only mode nothing but the announcers is touched.
- `DirStaysRight` (`DirRight`), for any number of commits and of new files. The
  invariant says that a restore runs alone, has cleared every file before its place
  and, once it moves, has moved every file before it (`RestoreIsAlone`), and what a
  server that runs has on the disk (`ServesFiles`).
- `DeletedIsAlwaysSaved` (`DeletedIsSaved`), read-only or not: in read-only mode it says
  that the torrent was added, and no more. The hypothesis is `Untouched`, which the
  run has too: nobody writes or replaces a file while the watcher loads it. The
  code does not exclude it (below, *State and maintenance*).
- `RutorStaysRight` (`RutorRight`). `UpdaterFollows` says what is in memory while the
  refresher is between two of its steps, as long as no aborted one was left running
  (`strayed`, with which the property says less).
- `AnnouncedStaysRight` (`AnnouncedRight`), for any interfaces and any number of types.
  With no server, or one that is stopping, what is still being sent must already be
  excused, and with no server all that is believed (`SsdpExcuses`): the next server
  may start while old notices are on their way, and takes over only the excuses that
  still matter. Of a Bonjour service that is not announced the same holds one by one
  (`BonjourExcuses`).

`Media_proofs` proves of the HLS registry, of DLNA's server, of the pipeline, of one task and
of the probe:

- `InUseAlwaysStays` (`InUseStays`). `get_or_add` decides before it probes and acts
  after it: the invariant says that a request past that point holds `creating`, so
  that what it decided on is still so (`Decided`), and what a built task is until it
  gets its place (`Waits`).
- `HlsStaysRight` (`HlsRight`), for any limits. The first half follows from the same
  invariant. For the limit, `LimitInv` says that the order of uses is a strict order
  of the tasks there are (`Ordered`) and that whoever put one too many in, or lowered
  the limit, has yet to evict for the limit in force (`Evicts`): a request that read
  an older limit does not count, and only the settings request is sure to know the
  last one. That an eviction then leaves no more than the limit is `FirstAreEnough`.
- `NoServerStrays` (`NoStrayServer`), whatever overlaps; and `DlnaStaysRight`
  (`DlnaRight`), while DLNA stays on. The hypothesis `DlnaKinds \subseteq {"restart"}` is
  the code's: a switching off beside a restart ends in a server nobody hears of
  (below, *DLNA and discovery*). The invariant says that a server that runs is the
  one listed or one a request with the lock is about to list (`Kept`), that each
  stopping server is waited for once (`Joined`), and that SSDP announces the server
  that runs or somebody is still to announce it (`Announced`).
- `PipelineStaysRight` (`PipelineRight`), for any film, key frames and cues (a cue ends
  after it starts) and any number of requests. The history variable `strayed` marks that a
  buffer of before a seek passed between the probes and the flush: what it misplaces is
  excused, of a segment until the next seek, of a store as long as that store lasts. `Follows` relates runner, pipeline and
  store in the middle of an operation too. `Samples` is why a segment is placed where it
  is: the samples that wait and those the reader has follow each other (`Consecutive`),
  and the reader stands where the next one is, unless a probe has still to tell it or
  told it of a buffer that is gone (`Reads`); while the pipeline is moved the reader is empty and stands at the place asked
  for (`Moving`), and the first sample after a seek corrects whatever the segment event or
  the position query said (`Flows`). `CuesKept` is why a store that is ready is complete:
  the cues of what was produced wait in the pipeline or are in the store, and none that
  waits is from before the seek, so that `append_vtt` shifts none (`NotBefore`). `CueWaits`
  follows one request through replaced stores: every step raises the version of a store
  whose progress it changes or that it takes away (`StoresGrow`).
- `InitStaysCurrent` (`InitIsCurrent`, a part of `PagesRight`), for any number of requests
  and segments and all faults. `TaskInv` says that a pipeline that plays, or an init segment,
  means that a pipeline runs (`Runs`): each way the runner may end keeps this, a failure too,
  for a failure freezes and takes the init segment back (`OutcomeRight`, through `SeekRight`,
  `ProducedRight` and `PulledRight`). What only the invariant can say is that a request that
  catches up, which holds the mutex between its steps, still has a runner: `Dispose` waits
  for it.
- `OneDiscovererRuns` (`OneDiscoverer`, a part of `PagesRight`), for any number of callers,
  who may leave at any await, and any reports, settings and sizes. The one hypothesis is that the mark for "nobody holds
  `probe_calls`" is no caller; that of `InitStaysCurrent` is that the segments are a number.

`Mp4Reader_proofs` proves `MediaStaysContiguous` (`MediaContiguous`), for any shapes of
fragments, any number of them in a buffer, any segment length and any `segment_diff`.
The hypothesis `MuxerConstants` is that a fragment has a sample, lasts a natural time and
that a buffer has a fragment. The property is not inductive: that nothing is lost says
nothing of times, and that queued fragments follow each other nothing of the ones that are
deferred. The invariant (`MuxInv`) gives each track its places, a number of samples and the
time they last: from the first sample queued to where the reader is along the queue
(`Path`, `Cut`) and on to where the muxer is along what is deferred (`Fed`). A fragment
with a guessed last sample fits between two places all the same (`Fits`): the place says how
long it really lasts, and the next fragment's time corrects the guess (`FitsResolved`).
A split keeps the places and adds one (`PathSplit`), a segment takes the first of them
(`BuildKeeps`) with the payload that lies under them (`Stored`, `MediaIs`), and what
`reclaim_payloads` drops is under none (`ReclaimedKeeps`). `FlattenSeq`, `Duration` and
`Process` are recursions over sequences: `JoinsExist`, `SumsExist` and `ProcessKeeps` show
that each has a solution and step through it with `Induction`.

`Http_proofs` proves of a player's request and of the client API:

- `PlayersAreAnswered` (`AnswersRight`), for files of any length, any limit and requests with
  any list of ranges and any conditions, whichever calls fail. What a failure is answered is
  the route's: 400 by the player's, 500 or 416 by the content route. `SpecsNameBytes`: the arithmetic of `parse` gives the
  bytes a specification names and refuses those that name none. The invariant says what is
  known of the answer at each step of the handler, since ranges are looked at after
  conditions and the answer is sent part by part.
- `ApiKeepsPromises` (`ApiRight`), for any number of clients, torrents and requests. Of its
  seven parts only `ReadOnlyKeeps` and `CategoryKept` are nearly inductive. `ApiInv` adds
  what a request may still do, known from the step it is at (`Path`): which operation stands there; that one
  that changed something is of several calls or has only its side effects left; that a play
  on its way to the body has its torrent loaded or was raced. A task that outlived its
  torrent has a request that will remove it (`Minds`), an untold change one that will tell
  DLNA (`Tells`): with these witnesses in place of the weaker ones of `TasksFollow` and
  `ListingTold`, a step of another client cannot take the last one away. `Turn` is what any
  step does to the requests: one moves, the others stay but for learning that their torrent
  is gone. `StepKeeps` is the obligation of a step, and `TalkKeeps` (only the request
  moves), `StoreKeeps` (nothing is unloaded) and `GoneKeeps` (a torrent is taken away) its
  three kinds.
  `CategoryKept` rests on `AddRight` and `UpdateRight`: an add takes the saved category
  first, and an update writes both copies alike. `ApiAssumption` says which fields a request
  has, as the JSON decoder ensures, and that a hash that parses is one of the torrents.

**Only model-checked.** Liveness (`Answered`, `ReleasedIsUnloaded`) and `ENABLED`
are out of the prover's reach. The five runs that expect a violation
refute what they state. Of the safety properties these stay with TLC: `TypesOK`, which is a
`CASE` over the components; and those whose models read or write a document, a name, a
list or an address step by step, where a proof would have to follow recursive data:
`BrowsingRight`, `LaunchAndSearchRight` and `PagesRight`. Of the last, `InitIsCurrent` and
`OneDiscoverer` are proved (above); `TracksAreTheirOwn` folds over the lines of a report.

## Findings without a run

Met while modelling. Each is in the model as the code has it, or kept out by the
bound or the precondition named.

*Lifecycle.* A store error after the engine's delete leaves the torrent live
(`lib.rs:982`; `docs/r6-plan.md:57`). A request dropped in the grace leaves the
hash in `loaded`: play, drop and evict of that torrent fail until it is added
again. A request dropped while it joins a look-ahead, or after it spawned one and
before it listed it, leaves a look-ahead that nobody stops, though `lib.rs:770-771` has
the coordinator own it (`lib.rs:827, 872-876, 905-911`): a later delete
is refused for its pin, or, if it pins after the engine's delete, fails in `cache.remove`
(`detached` and `aborted` in `Coordinator`). wipe stops at the first torrent that is watched (`lib.rs:1053`).
add_source does not stop an idle timer of an earlier life (`lib.rs:455`). With a
negative disconnect timeout a timer may look itself up before it is listed
(`lib.rs:927`); the model has it positive. Two overlapping `set_settings` or
`set_storage_preferences` leave the places with different settings
(`lib.rs:318-332`, `371-383`) until the next change; so does an error after the
document was stored. In read-only mode the document stays, but DLNA and Bonjour
follow the flags that were asked for (`app.rs:669-683`). A settings document that
cannot be read is overwritten at start, also in read-only mode
(`lib.rs:201-215`); `--cache-size` counts only where there are no settings yet.

*Stores.* After a failed `remove_dir` the handle is gone and a retry answers Ok
with the directory still there (`disk.rs:337-347`). After a failed manifest write
the cache counts too little. `Extents::from_spans` accepts spans that touch,
though its comment (19-21) has none. The memory store has up to two partial
blocks per span, one at each end, where its comment has one. A power loss, after
which what was renamed may not be on the disk, is not modelled.

*State and maintenance.* Between the two queries of the schema check another
process may commit the first migration, and the file is taken for a foreign one
(`schema.rs:79-88`). A machine that stops in the middle of a restore is left
without the old state. A .torrent file that is replaced while it is being added
is deleted unsaved (`Quiet` excludes it); `seen` is never pruned. A server that is
started read-only watches its directory all the same (`run.rs:149-152`), `persist` answers
Ok without saving (`lib.rs:560-563`), and the file is deleted: nothing of the torrent is
left after the drop, where `autoload.rs:1-2` has it "saved to the catalog, unloaded, and
deleted".

*WebDAV, FUSE, tree.* A request whose client disconnects keeps its temporary
locks for ever. A tagged `If` list confirms and locks the path of its tag in place of the
one that is written, and nothing checks that the two agree (`mod.rs:226-248`): two such
requests may change one path at once, and a lock on that path is passed by. An empty path
is locked by nobody (`mod.rs:203-205`). A category lists its torrents in list order, not by name as
`vfs lib.rs:244` has it; of two torrents with one name the second is listed and
cannot be opened. A path below a hash that is another torrent's name loads
nothing. readdir continues at an offset in a list that may have changed. Listing
a torrent may add again one that was just removed, as DLNA's load may.

*HTTP.* One range that exists is answered 416 "cannot seek" on the content route when
its reader cannot be opened (`serve_content.rs:407-409`), so that a player takes a failure
of the engine for the end of the file; a whole file is answered 500 then, and `/play` 400.
touch_viewed puts an older position back (`app.rs:1380-1401`). wipe takes
its list of HLS tasks before it wipes; one that fails half way leaves tasks and
does not tell DLNA. An upload whose second file fails answers 400 with the first
one added. preload and playback after a drop answer 400, as the saved torrent has
no files (`lib.rs:648`, `client.rs:171`). An add with a title for a saved
torrent that is not loaded shows a title nobody saved. Torrents added by an upload
or a stream request do not tell DLNA. A whitelist of bad lines only restricts
nobody. Read-only `rem` removes HLS tasks and not the torrent. One bad range makes
the whole header bad. The linked directory's redirects go out unescaped
(`file_server.rs:51, 59`): one with a reserved character, or a directory whose
name has a colon asked for without its slash, is lost; `//` and `/./`, which
browsers do not send, may lead elsewhere.

*DLNA and discovery.* A change that switches DLNA off beside one that restarts it
ends in a server nobody hears of, or an announcement without a server
(`server/discovery.rs:92`). An alive notice may follow the byebye
(`ssdp.rs:187-221`). When `mount_fuse` fails, `run.rs:194` returns without
stopping the announcers. An object id with a `+` does not come back
(`path_escape` keeps it, `query_unescape` makes it a space). The name of a category is
decoded once more than it was escaped (`content.rs:298-299`, `417`), so that one with a `%41`
in it leads to another. BrowseMetadata of a file calls it a container.

*HLS.* Two overlapping POST /gst/settings store and update one after the other without a
lock over both (`service.rs:634-639`, `659-663`): the document may be the one's and what is in
force the other's, until the next change or restart (`mixed` in `HlsPages`). Between the
probes and the flush of a seek the one-shot probe may take a buffer of the old position for
the first of the new one (`pipeline.rs:945-951`, `1012-1041`): what is read until the next
seek is placed from there (`strayed` in `Pipeline`). A removal while get_or_add builds its task finds nothing, and the task is
inserted after it (`gstreamer_api.rs:90`). A store replaced between the look-up
and the subscription loses its wake-up, and the request waits out its five
seconds (`service.rs:545-556`). After a seek forward, segments that were skipped
count as read, and a list that is "ready" lacks them. Half cues that wait for
their end survive a seek. On a clock that restarts, `append_vtt`'s guess of the
shift is wrong for cues later than twice the seek less a segment; `Pipeline` has
cues on the film's clock only. A start past the end gives an empty playlist or
the last segment; with a cue timeline the init link falls on the segment before
the start. The last item of a film of unknown duration is shorter than its
subtitles' range. Every use of a probe restarts its hour, and a caller that waited
for one may start another (`service.rs:848-853`). The settings request "def"
answers 403 for any failure.

*Search.* The refresher is aborted and not joined; a bad download replaces the
good `rutor.ls` before it is decoded. A Torznab answer cut off after whole items
gives those items, though the comment at 178 rejects a malformed document; an
`<item>` two levels below a root that has no channel rejects the answer;
impossible dates are carried over ("31 Feb" is in March) and named zones are
taken for UTC; only the first topic of a magnet counts.

*Configuration.* `TS_PORT` and `TS_IP` beat `--listen`, though
`config.rs:207-208` has the command line win.

## Abstractions

- In `Cache` bytes are chunks and a write of a chunk is atomic in the store;
  `DiskStore` and `MemoryStore` model what the store does with ranges.
- A request can be dropped (`Cancel`) where it waits for the gate, the engine's add and
  initialisation, the grace, the join of a look-ahead, the map a new look-ahead goes into
  and the maps between the last steps of an add or a delete. Everywhere else a map's
  mutex is held for one operation and is part of the step.
- `discard_unowned` is one step of `Cache`, though it deletes after it let go of the mutex
  (`cache.rs:171-175`): it runs at start-up only, before anything is open.
- Without the fault `"late"`, which no run has and the theorems that name it cover, `GraceEnds` waits for the engine calls in progress:
  that is what the second of grace is for.
- A torrent, a file, a key or a document is a number, a short sequence of
  character codes or a model value; an address is a family and a number. A
  conversion that a property depends on (escapes, prefixes, ranges, sizes, dates,
  segment arithmetic) is modelled by what it does.
- External programs are what the code relies on: librqbit adds, initialises,
  deletes and may write late; GStreamer yields samples, snaps seeks to key frames
  and reports errors; SQLite has transactions; clap takes the last value of a
  flag; the file system renames atomically.

## Not modelled

- `record_demand`, reader ranges, snapshots, peer statistics, echo and status
  routes: read-only views of state that is modelled.
- Magnets, trackers, metainfo and peer hints of a torrent: they do not influence
  which operation does what. `update_torrent` changes metadata only.
- The bytes of XML, JSON, EBML, DNS and MP4 boxes, M3U and VTT text; the grammar of
  WebDAV's `If` header; the patterns that recognise a line of the discoverer.
- The init segment's boxes, pipeline descriptions and hardware probes: each is a
  function of its input, without state.
- MSX and the web UI, value types, the engine port (traits), the certificate's
  contents, the access log, the speed test, Rutor's ranking, the test request of
  Torznab.
- `lifecycle/memory.rs` stands in for the core in tests of the HTTP layer.
- A client API request that is dropped half way (`HttpApi`): between an add and
  `catalog_changed` (`app.rs:546-553`) it would leave the add untold to DLNA.
- `schedule_prefetch`, `Service::dispose` have no caller.

## What is left

As proofs: `TypesOK` component by component (most conjuncts are in the inductive
invariants already), and the properties over recursive data named under *Only
model-checked*, each by an induction of its own over `FiniteInduction`, as `Extents` was done.
