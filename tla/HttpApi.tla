------------------------------ MODULE HttpApi ------------------------------
(***************************************************************************)
(* The client API (crates/rustorr-http/src/app.rs, web_api.rs): requests   *)
(* under way together, each through the layers around the routes and then  *)
(* through its handler, one call of the client core after another          *)
(* (crates/rustorr-lifecycle/src/client.rs, lib.rs).                       *)
(*                                                                         *)
(* A call of the core is one step: it runs under the coordinator's gate    *)
(* (module Coordinator).  Of a torrent the model keeps its title and its   *)
(* category; of the viewed files, one file a torrent.                      *)
(***************************************************************************)
EXTENDS FiniteSets, Access

CONSTANTS
    Clients,     \* each makes one request
    Asks,        \* client -> those it may make
    InfoHashes,  \* numbers from 1; 0 is what does not parse as a hash
    Setups,      \* [auth, frozen, dlna, track]: accounts are needed, read-only
                 \* mode, DLNA is on, TrackTimecode
    Saved,       \* the catalog at the start
    LoadedFirst, \* those of it that are live
    OpenLists    \* WAF lists that let everyone in, those at the start

VARIABLES
    setup,
    catalog,    \* hash -> [title, category], or Absent: saved torrents
    live,       \* hash -> the same, or Absent: TorrentCoordinator.live
    position,   \* hash -> timecode in the table viewed, or Absent
    lists,      \* WAF lists
    players,    \* hashes with an HLS task
    call,       \* client -> its request under way, or Absent
    orphans,    \* hashes whose task outlived a removal or a drop so far
    missed,     \* of them, those a wipe did not list or failed before
    untold      \* /torrents changed the catalog, DLNA was not told yet

apiVars == <<setup, catalog, live, position, lists, players, call, orphans, missed, untold>>

Blank == ""

Asked == UNION {Asks[c] : c \in Clients}

\* A title or a category that may come to be.
Texts ==
    LET named == {h \in InfoHashes : Saved[h] # Absent}
    IN  {Blank, "name"} \cup {r.title : r \in Asked} \cup {r.category : r \in Asked}
          \cup {Saved[h].title : h \in named} \cup {Saved[h].category : h \in named}
Entry == [title : Texts, category : Texts]

Steps == {"gate", "list", "upload", "share", "add", "do", "view", "told", "tasks", "collect",
          "wipe", "preload", "stat", "nothing", "m3u", "touch", "play", "write", "open",
          "body", "done"}

\* Where a playlist may lead.
Bases == {Absent} \cup {PublicBase(r) : r \in Asked}

\* A request under way.
Call == [ask : Asked, at : Steps, doomed : SUBSET InfoHashes, left : SUBSET InfoHashes,
         listed : Int, changed : BOOLEAN, raced : BOOLEAN, status : Int, base : Bases]

\* A hash that parses is that of a torrent of the model; the path of a stream says
\* what is wanted of it.
ASSUME ApiAssumption ==
    /\ InfoHashes \subseteq Nat \ {0}
    /\ Absent \notin Clients \cup Entry \cup Call \cup Int
    /\ Setups \subseteq [auth : BOOLEAN, frozen : BOOLEAN, dlna : BOOLEAN, track : BOOLEAN]
    /\ Saved \in [InfoHashes -> Entry \cup {Absent}]
    /\ DOMAIN Asks = Clients
    /\ \A r \in Asked :
         /\ r.h \in InfoHashes \cup {0} /\ r.files \in Seq(InfoHashes \cup {0})
         /\ r.time \in Int /\ r.url \in BOOLEAN /\ r.save \in BOOLEAN
         /\ r.wants \in {"play", "m3u", "stat", "nothing"}

-----------------------------------------------------------------------------
(* The layers: WAF, CORS, HEAD, and what each handler looks at first. *)

Managed == {"add", "get", "set", "rem", "list", "drop", "wipe", "upload", "viewedSet",
            "viewedRem", "viewedList", "cache", "getWaf", "setWaf", "magnets", "playlistAll"}
HeadRouted == {"stream", "play"}

Authorized(r) == ~ setup.auth \/ r.user = "account"

\* The body is JSON with the fields the action needs.
Malformed(r) ==
    \/ r.op = "nonsense"
    \/ r.op \in {"add", "get", "set", "rem", "drop", "viewedSet", "viewedRem", "cache",
                 "playlist", "stream"} /\ r.h = 0
    \/ r.op = "viewedSet" /\ r.index < 0
    \/ r.op = "viewedRem" /\ r.index < -1

\* 0 lets the handler go on.
Gate(r) ==
    IF Blocks(lists, r) THEN 403
    ELSE IF r.method = "OPTIONS" /\ r.origin # Absent THEN 204
    ELSE IF r.method = "HEAD" /\ r.op \notin HeadRouted THEN 404
    ELSE IF r.op \in Managed /\ ~ Authorized(r) THEN 401
    ELSE IF r.op = "setWaf" /\ setup.frozen THEN 403
    ELSE IF Malformed(r) THEN 400
    ELSE IF r.op = "play" /\ r.h = 0 THEN 500
    ELSE 0

-----------------------------------------------------------------------------
(* Calls of the core. *)

Known(h) == live[h] # Absent \/ catalog[h] # Absent
AllKnown == {h \in InfoHashes : Known(h)}

\* add_source: a torrent that is not loaded takes its title from the request first,
\* its category from the catalog first.
Merged(h, r) ==
    LET entry == IF catalog[h] = Absent THEN [title |-> Blank, category |-> Blank] ELSE catalog[h]
    IN  [title |-> IF r.title # Blank THEN r.title ELSE IF entry.title # Blank THEN entry.title ELSE "name",
         category |-> IF entry.category # Blank THEN entry.category ELSE r.category]

\* One that is loaded stays as it is, and is saved only if it was not.  The
\* hash of a URL is not known before its torrent is.
Add(h, r, url) ==
    LET again == live[h] # Absent /\ ~ url
        entry == IF again THEN live[h] ELSE Merged(h, r)
        saves == r.save /\ ~ setup.frozen /\ ~ (again /\ catalog[h] # Absent)
    IN  /\ live' = [live EXCEPT ![h] = entry]
        /\ catalog' = IF saves THEN [catalog EXCEPT ![h] = entry] ELSE catalog

\* update_torrent.
Update(h, r) ==
    LET entry == [title |-> IF r.title = Blank THEN "name" ELSE r.title, category |-> r.category]
    IN  /\ live' = IF live[h] = Absent THEN live ELSE [live EXCEPT ![h] = entry]
        /\ catalog' = IF catalog[h] = Absent \/ setup.frozen THEN catalog
                      ELSE [catalog EXCEPT ![h] = entry]

\* A body that is being sent keeps its torrent (cache pin).
Pinned(h) == \E c \in Clients : call[c] # Absent /\ call[c].at = "body" /\ call[c].ask.h = h

-----------------------------------------------------------------------------
(* Steps of a request. *)

Request(r) ==
    [ask |-> r, at |-> "gate", doomed |-> {}, left |-> {}, listed |-> 0,
     changed |-> FALSE, raced |-> FALSE, status |-> 0, base |-> Absent]

AtStep(c, at) == call[c] # Absent /\ call[c].at = at
Proceeds(c, at) == call' = [call EXCEPT ![c].at = at]
Answers(c, status) == call' = [call EXCEPT ![c].at = "done", ![c].status = status]
Changes(c, at) == call' = [call EXCEPT ![c].at = at, ![c].changed = TRUE]
EndsChanged(c, status) ==
    call' = [call EXCEPT ![c].at = "done", ![c].status = status, ![c].changed = TRUE]

\* The torrent of another request is gone from under it.
Gone(h, c, mine) ==
    call' = [k \in Clients |->
               IF k = c THEN mine
               ELSE IF call[k] # Absent /\ call[k].ask.h = h THEN [call[k] EXCEPT !.raced = TRUE]
               ELSE call[k]]

Ghosts == <<orphans, missed, untold>>
Stores == <<catalog, live, position, lists, players>>

Receives(c, r) ==
    /\ call[c] = Absent
    /\ call' = [call EXCEPT ![c] = Request(r)]
    /\ UNCHANGED <<setup, Stores, Ghosts>>

FirstStep(r) ==
    CASE r.op = "wipe" -> "list"
      [] r.op = "upload" -> "upload"
      [] r.op = "stream" -> IF setup.auth /\ ~ Authorized(r) THEN "share" ELSE "add"
      [] r.op = "play" -> "share"
      [] r.op = "playlist" -> "add"
      [] OTHER -> "do"

\* The database may fail to give the lists, and then nobody is let in.
Admit(c) ==
    /\ AtStep(c, "gate")
    /\ LET status == Gate(call[c].ask)
       IN  \/ IF status = 0 THEN Proceeds(c, FirstStep(call[c].ask)) ELSE Answers(c, status)
           \/ Answers(c, 500)
    /\ UNCHANGED <<setup, Stores, Ghosts>>

\* Actions that only read: the last two answer 404 where there is no torrent.
Read(c) ==
    /\ AtStep(c, "do")
    /\ LET r == call[c].ask
       IN  \/ /\ r.op \in {"list", "viewedList", "getWaf", "magnets", "playlistAll"}
              /\ Answers(c, 200)
           \/ r.op = "get" /\ Answers(c, IF Known(r.h) THEN 200 ELSE 404)
           \/ r.op = "cache" /\ IF live[r.h] # Absent THEN Proceeds(c, "view") ELSE Answers(c, 404)
    /\ UNCHANGED <<setup, Stores, Ghosts>>

\* cache_view: the torrent is asked for after its snapshot.
CacheView(c) ==
    /\ AtStep(c, "view")
    /\ Answers(c, IF Known(call[c].ask.h) THEN 200 ELSE 404)
    /\ UNCHANGED <<setup, Stores, Ghosts>>

\* The torrent's metadata may never come.
AddTorrent(c) ==
    /\ AtStep(c, "do") /\ call[c].ask.op = "add"
    /\ \/ /\ Add(call[c].ask.h, call[c].ask, call[c].ask.url)
          /\ untold' = setup.dlna
          /\ Changes(c, "told")
       \/ Answers(c, 400) /\ UNCHANGED <<catalog, live, untold>>
    /\ UNCHANGED <<setup, position, lists, players, orphans, missed>>

SetTorrent(c) ==
    /\ AtStep(c, "do") /\ call[c].ask.op = "set"
    /\ Update(call[c].ask.h, call[c].ask)
    /\ EndsChanged(c, 200)
    /\ UNCHANGED <<setup, position, lists, players, Ghosts>>

\* remove_torrent and drop_live refuse a torrent that is being watched.
DropTorrent(c) ==
    LET h == call[c].ask.h IN
    /\ AtStep(c, "do") /\ call[c].ask.op = "drop"
    /\ IF Pinned(h) THEN Answers(c, 400) /\ UNCHANGED <<live, orphans>>
       ELSE /\ live' = [live EXCEPT ![h] = Absent]
            /\ orphans' = orphans \cup ({h} \cap players)
            /\ Gone(h, c, [call[c] EXCEPT !.at = "tasks", !.doomed = {h}, !.changed = TRUE])
    /\ UNCHANGED <<setup, catalog, position, lists, players, missed, untold>>

RemTorrent(c) ==
    LET h == call[c].ask.h
        goes == [call[c] EXCEPT !.at = "tasks", !.doomed = {h}] IN
    /\ AtStep(c, "do") /\ call[c].ask.op = "rem"
    /\ IF setup.frozen
       THEN call' = [call EXCEPT ![c] = goes] /\ UNCHANGED <<catalog, live, orphans, untold>>
       ELSE IF Pinned(h) THEN Answers(c, 400) /\ UNCHANGED <<catalog, live, orphans, untold>>
       ELSE /\ live' = [live EXCEPT ![h] = Absent]
            /\ catalog' = [catalog EXCEPT ![h] = Absent]
            /\ orphans' = orphans \cup ({h} \cap players)
            /\ untold' = setup.dlna
            /\ Gone(h, c, [goes EXCEPT !.changed = TRUE])
    /\ UNCHANGED <<setup, position, lists, players, missed>>

\* A wipe lists the tasks it will remove, then what it will wipe.
ListTasks(c) ==
    /\ AtStep(c, "list")
    /\ call' = [call EXCEPT ![c].at = "collect", ![c].doomed = AllKnown]
    /\ UNCHANGED <<setup, Stores, Ghosts>>

Collect(c) ==
    /\ AtStep(c, "collect")
    /\ call' = [call EXCEPT ![c].at = "wipe", ![c].left = AllKnown]
    /\ UNCHANGED <<setup, Stores, Ghosts>>

\* It removes one torrent after another, in the order of their hashes, and
\* stops at the first it may not remove.
Wipe(c) ==
    /\ AtStep(c, "wipe") /\ call[c].left # {} /\ ~ setup.frozen
    /\ LET h == CHOOSE h \in call[c].left : \A k \in call[c].left : h <= k
       IN  IF Pinned(h)
           THEN /\ Answers(c, 400)
                /\ missed' = missed \cup (call[c].doomed \cap orphans)
                /\ untold' = FALSE
                /\ UNCHANGED <<catalog, live, orphans>>
           ELSE /\ live' = [live EXCEPT ![h] = Absent]
                /\ catalog' = [catalog EXCEPT ![h] = Absent]
                /\ orphans' = orphans \cup ({h} \cap players)
                /\ missed' = missed \cup ({h} \cap (players \ call[c].doomed))
                /\ untold' = setup.dlna
                /\ Gone(h, c, [call[c] EXCEPT !.left = @ \ {h}, !.changed = TRUE])
    /\ UNCHANGED <<setup, position, lists, players>>

Wiped(c) ==
    /\ AtStep(c, "wipe") /\ (call[c].left = {} \/ setup.frozen)
    /\ Proceeds(c, "tasks")
    /\ UNCHANGED <<setup, Stores, Ghosts>>

\* Faulty variant: a drop leaves the task to its idle timeout.
RemoveTasks_NotDropped(c) ==
    LET removed == IF call[c].ask.op = "drop" THEN {} ELSE call[c].doomed IN
    /\ AtStep(c, "tasks")
    /\ players' = players \ removed
    /\ orphans' = orphans \ removed
    /\ missed' = missed \ removed
    /\ IF call[c].ask.op = "drop" THEN Answers(c, 200) ELSE Proceeds(c, "told")
    /\ UNCHANGED <<setup, catalog, live, position, lists, untold>>

RemoveTasks(c) ==
    /\ AtStep(c, "tasks")
    /\ players' = players \ call[c].doomed
    /\ orphans' = orphans \ call[c].doomed
    /\ missed' = missed \ call[c].doomed
    /\ IF call[c].ask.op = "drop" THEN Answers(c, 200) ELSE Proceeds(c, "told")
    /\ UNCHANGED <<setup, catalog, live, position, lists, untold>>

\* Discovery::catalog_changed, where DLNA is on.
Tell(c) ==
    /\ AtStep(c, "told")
    /\ untold' = FALSE
    /\ Answers(c, 200)
    /\ UNCHANGED <<setup, Stores, orphans, missed>>

\* upload adds one file after another and stops at the first that is refused.
Upload(c) ==
    /\ AtStep(c, "upload")
    /\ LET files == call[c].ask.files
           k == call[c].listed + 1
       IN  IF k > Len(files) THEN Answers(c, 200) /\ UNCHANGED <<catalog, live>>
           ELSE \/ /\ files[k] # 0
                   /\ Add(files[k], call[c].ask, FALSE)
                   /\ call' = [call EXCEPT ![c].listed = k, ![c].changed = TRUE]
                \/ Answers(c, 400) /\ UNCHANGED <<catalog, live>>
    /\ UNCHANGED <<setup, position, lists, players, Ghosts>>

-----------------------------------------------------------------------------
(* /stream, /play and /playlist. *)

\* shareable_link_exists, and play's look at the torrent: one that is known is
\* played without an account.
Share(c) ==
    LET r == call[c].ask IN
    /\ AtStep(c, "share")
    /\ IF Known(r.h) /\ (r.op = "play" \/ r.wants \in {"play", "m3u"}) THEN Proceeds(c, "add")
       ELSE Answers(c, IF setup.auth /\ ~ Authorized(r) THEN 401 ELSE 500)
    /\ UNCHANGED <<setup, Stores, Ghosts>>

AfterAdd(r) ==
    CASE r.op = "playlist" -> "m3u"
      [] r.op = "play" -> "touch"
      [] r.op = "stream" /\ r.preload -> "preload"
      [] OTHER -> r.wants

StreamAdd(c) ==
    LET r == call[c].ask IN
    /\ AtStep(c, "add")
    /\ \/ Add(r.h, r, r.url) /\ Changes(c, AfterAdd(r))
       \/ Answers(c, CASE r.op = "play" -> 500 [] r.op = "playlist" -> 404 [] OTHER -> 400)
          /\ UNCHANGED <<catalog, live>>
    /\ UNCHANGED <<setup, position, lists, players, Ghosts>>

\* ClientCore::playback finds the file in the torrent's view, and the view of a
\* torrent that is only saved has no files: it is not loaded again.
Preload(c) ==
    LET r == call[c].ask IN
    /\ AtStep(c, "preload")
    /\ IF live[r.h] # Absent /\ r.index = 1 THEN Proceeds(c, r.wants) ELSE Answers(c, 400)
    /\ UNCHANGED <<setup, Stores, Ghosts>>

\* "stat" answers with the torrent, "nothing" with an empty body.
Finish(c) ==
    /\ call[c] # Absent /\ call[c].at \in {"stat", "nothing"}
    /\ Answers(c, 200)
    /\ UNCHANGED <<setup, Stores, Ghosts>>

\* The playlist's links lead to where the client reached the server.
Playlist(c) ==
    /\ AtStep(c, "m3u")
    /\ call' = [call EXCEPT ![c].at = "done", ![c].status = 200, ![c].base = PublicBase(call[c].ask)]
    /\ UNCHANGED <<setup, Stores, Ghosts>>

\* raw_playback (Playback has its conditions and ranges): touch_viewed lists the
\* torrent's row and writes it back, in a second call of the core.
Touch(c) ==
    LET r == call[c].ask IN
    /\ call[c] # Absent /\ call[c].at \in {"touch", "play"}
    /\ IF r.index # 1 THEN Answers(c, 400)
       ELSE call' = [call EXCEPT ![c].at = "write",
                     ![c].listed = IF position[r.h] = Absent THEN 0 ELSE position[r.h]]
    /\ UNCHANGED <<setup, Stores, Ghosts>>

\* ViewedCommand::Set keeps no time unless TrackTimecode is on.
Stored(h, time) ==
    IF setup.frozen THEN position
    ELSE [position EXCEPT ![h] = IF setup.track THEN time ELSE 0]

Write(c) ==
    /\ AtStep(c, "write")
    /\ position' = Stored(call[c].ask.h, call[c].listed)
    /\ Changes(c, "open")
    /\ UNCHANGED <<setup, catalog, live, lists, players, Ghosts>>

OpenBody(c) ==
    /\ AtStep(c, "open")
    /\ IF live[call[c].ask.h] # Absent THEN Proceeds(c, "body") ELSE Answers(c, 400)
    /\ UNCHANGED <<setup, Stores, Ghosts>>

EndBody(c) ==
    /\ AtStep(c, "body")
    /\ Answers(c, 200)
    /\ UNCHANGED <<setup, Stores, Ghosts>>

-----------------------------------------------------------------------------
(* /viewed and /waf. *)

\* File indices count from 1; the one of Set is checked in read-only mode too.
SetPosition(c) ==
    LET r == call[c].ask IN
    /\ AtStep(c, "do") /\ r.op = "viewedSet"
    /\ IF r.index = 0 THEN Answers(c, 400) /\ UNCHANGED position
       ELSE position' = Stored(r.h, r.time) /\ EndsChanged(c, 200)
    /\ UNCHANGED <<setup, catalog, live, lists, players, Ghosts>>

\* Index -1 removes every file of the torrent.
RemPosition(c) ==
    LET r == call[c].ask IN
    /\ AtStep(c, "do") /\ r.op = "viewedRem"
    /\ IF setup.frozen THEN Answers(c, 200) /\ UNCHANGED position
       ELSE IF r.index = 0 THEN Answers(c, 400) /\ UNCHANGED position
       ELSE position' = [position EXCEPT ![r.h] = Absent] /\ EndsChanged(c, 200)
    /\ UNCHANGED <<setup, catalog, live, lists, players, Ghosts>>

SetWaf(c) ==
    /\ AtStep(c, "do") /\ call[c].ask.op = "setWaf"
    /\ lists' = call[c].ask.lists
    /\ EndsChanged(c, 200)
    /\ UNCHANGED <<setup, catalog, live, position, players, Ghosts>>

-----------------------------------------------------------------------------
(* Around the API. *)

\* A player opens an HLS task on a torrent that is loaded (GstService).
StartPlayer(h) ==
    /\ live[h] # Absent /\ h \notin players
    /\ players' = players \cup {h}
    /\ UNCHANGED <<setup, catalog, live, position, lists, call, Ghosts>>

\* The coordinator unloads a torrent nobody watches (Coordinator).
Unload(h) ==
    /\ live[h] # Absent /\ ~ Pinned(h)
    /\ live' = [live EXCEPT ![h] = Absent]
    /\ Gone(h, Absent, Absent)
    /\ UNCHANGED <<setup, catalog, position, lists, players, Ghosts>>

ApiInit ==
    /\ setup \in Setups
    /\ catalog = Saved
    /\ live = [h \in InfoHashes |-> IF h \in LoadedFirst THEN Saved[h] ELSE Absent]
    /\ position = [h \in InfoHashes |-> Absent]
    /\ lists = OpenLists
    /\ players = {} /\ orphans = {} /\ missed = {} /\ untold = FALSE
    /\ call = [c \in Clients |-> Absent]

ApiNext ==
    \/ \E c \in Clients :
         \/ \E r \in Asks[c] : Receives(c, r)
         \/ Admit(c) \/ Read(c) \/ CacheView(c)
         \/ AddTorrent(c) \/ SetTorrent(c) \/ DropTorrent(c) \/ RemTorrent(c)
         \/ ListTasks(c) \/ Collect(c) \/ Wipe(c) \/ Wiped(c)
         \/ RemoveTasks(c) \/ Tell(c) \/ Upload(c)
         \/ Share(c) \/ StreamAdd(c) \/ Preload(c) \/ Finish(c) \/ Playlist(c)
         \/ Touch(c) \/ Write(c) \/ OpenBody(c) \/ EndBody(c)
         \/ SetPosition(c) \/ RemPosition(c) \/ SetWaf(c)
    \/ \E h \in InfoHashes : StartPlayer(h) \/ Unload(h)

ApiSpec == ApiInit /\ [][ApiNext]_apiVars

-----------------------------------------------------------------------------
(* Properties. *)

ApiTypeOK ==
    /\ setup \in Setups
    /\ DOMAIN catalog = InfoHashes /\ DOMAIN live = InfoHashes
    /\ position \in [InfoHashes -> Int \cup {Absent}]
    /\ \A c \in Clients : call[c] # Absent => call[c].at \in Steps
    /\ players \subseteq InfoHashes /\ untold \in BOOLEAN
    /\ orphans \subseteq players /\ missed \subseteq orphans

\* A torrent that was removed or dropped takes its HLS task with it, but for one a
\* wipe did not list in time or that a wipe that failed had removed (app.rs:514-536).
TasksFollow ==
    \A h \in orphans \ missed :
       \E c \in Clients : call[c] # Absent /\ call[c].at \in {"wipe", "tasks"} /\ h \in call[c].doomed

\* DLNA is told of every change /torrents made to the catalog before the answer,
\* unless a wipe failed half way (app.rs:537-546).
ListingTold == untold => \E c \in Clients : call[c] # Absent /\ call[c].at \in {"wipe", "tasks", "told"}

Refusals == {400, 401, 403, 404}

\* A request that was refused changed nothing, but for those made of several
\* calls: the ones before the call that failed stay done (app.rs:610-625, 1047-1147).
RefusedKeeps ==
    \A c \in Clients :
       AtStep(c, "done") /\ call[c].status \in Refusals /\ call[c].changed =>
         call[c].ask.op \in {"upload", "wipe", "stream", "play"}

\* In read-only mode the database stays as it was (lib.rs:245-251, client.rs).
ReadOnlyKeeps ==
    setup.frozen => /\ catalog = Saved /\ lists = OpenLists
                    /\ \A h \in InfoHashes : position[h] = Absent

\* A torrent that is loaded goes by the category it is saved with, if it is saved
\* with one (lib.rs:505-545, 1058-1099).
CategoryKept ==
    \A h \in InfoHashes :
       live[h] # Absent /\ catalog[h] # Absent /\ ~ setup.frozen =>
         catalog[h].category \in {Blank, live[h].category}

\* A file that exists is served, unless its torrent was unloaded, dropped or removed
\* under the request (app.rs:1159-1205, client.rs:171-205).
PlayIsServed ==
    \A c \in Clients :
       AtStep(c, "done") /\ call[c].ask.op = "play" /\ call[c].ask.index = 1 /\ call[c].status = 400 =>
         call[c].raced

\* Nobody but a trusted proxy changes where a playlist leads (access.rs:131-178).
LinksLeadBack ==
    \A c \in Clients :
       AtStep(c, "done") /\ call[c].base # Absent /\ call[c].ask.peer \notin Trusted =>
         call[c].base[2] \in {call[c].ask.host, "127.0.0.1:8090"}

ApiRight ==
    /\ TasksFollow /\ ListingTold /\ RefusedKeeps /\ ReadOnlyKeeps
    /\ CategoryKept /\ PlayIsServed /\ LinksLeadBack
=============================================================================
