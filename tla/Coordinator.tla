---------------------------- MODULE Coordinator ----------------------------
(***************************************************************************)
(* rustorr-lifecycle's TorrentCoordinator over the cache (module Cache,    *)
(* whose operations its actions call), the engine adapter and the catalog  *)
(* (crates/rustorr-lifecycle/src/lib.rs).                                  *)
(*                                                                         *)
(* Every future that runs coordinator code is a process: a client request, *)
(* the task a dropped PlaybackReader spawns, a prefetch task, an idle      *)
(* timer.  One tokio mutex, the gate, serialises operations; a process may *)
(* be overtaken at each await, and the tasks touch prefetches and          *)
(* idle_detaches without the gate.  An action is what runs between two     *)
(* awaits at which another process can change what this one reads.         *)
(*                                                                         *)
(* A label of a process is written here as the await it stands at:         *)
(*   want      gate.lock()                adding    Session::add_torrent   *)
(*   initing   wait_until_initialized     opening   Engine::reader         *)
(*   stopping  stop_prefetch_locked       grace     the second of sleep in *)
(*   purging   after the delete                     delete_inner           *)
(*   next      between two hashes of wipe or drop_all_live                 *)
(*   sweep     between two victims of evict_to_cap, gate held              *)
(***************************************************************************)
EXTENDS Cache

CONSTANTS
    Clients,        \* requests in flight at once
    Readers,        \* PlaybackReaders alive at once, and their release tasks
    Prefetchers,    \* prefetch tasks at once
    Timers,         \* idle timers at once
    Requests,       \* the commands clients send
    Faults          \* what may go wrong: see FaultKinds

RequestKinds == {"add", "addSave", "play", "drop", "rem", "evict", "wipe", "settings"}

FaultKinds ==
    {"store",       \* PieceStore::remove fails
     "delete",      \* Session::delete fails
     "init",        \* the engine fails to initialise an added torrent
     "persist",     \* save_torrent fails
     "late",        \* an engine write outlives the grace of delete_inner
     "cancel"}      \* a request's future is dropped at an await

Procs == Clients \cup Readers \cup Prefetchers \cup Timers

ASSUME CoordinatorConstants ==
    /\ Requests \subseteq RequestKinds
    /\ Faults \subseteq FaultKinds
    /\ None \notin Procs
    /\ Clients \cap Readers = {} /\ Clients \cap Prefetchers = {} /\ Clients \cap Timers = {}
    /\ Readers \cap Prefetchers = {} /\ Readers \cap Timers = {} /\ Prefetchers \cap Timers = {}
    /\ Views = Readers \cup Prefetchers     \* whoever reads holds one Pin

VARIABLES
    booted,         \* TorrentCoordinator::new has run
    saved,          \* the catalog's hashes
    live,           \* keys of live
    loaded,         \* keys of LibrqbitEngine.loaded
    session,        \* torrents the librqbit session runs
    removeOnDrop,   \* settings.remove_cache_on_drop
    gate,           \* who holds the gate, or None
    prefetches,     \* the registered prefetch task of a torrent, or None
    idles,          \* the registered idle timer of a torrent, or None
    detached,       \* look-ahead tasks spawned by a play that was dropped before it
                    \* listed them
    aborted,        \* look-ahead tasks whose abort nobody waits for any more
    proc            \* the processes

books == <<saved, live, loaded, session>>
lost  == <<detached, aborted>>
tasks == <<prefetches, idles, lost>>
vars  == <<cache, booted, books, removeOnDrop, gate, tasks, proc>>

Rest == [at |-> "idle", kind |-> "none", on |-> None, todo |-> {},
         reader |-> None, home |-> None]

Labels == {"idle", "want", "adding", "initing", "opening", "prefetching", "stopping",
           "grace", "purging", "next", "sweep", "open", "sched", "arming", "sleep",
           "start", "pinning", "reading"}

Process == [at : Labels, kind : RequestKinds \cup {"none", "trim"},
            on : Torrents \cup {None}, todo : SUBSET Torrents,
            reader : Readers \cup {None}, home : Torrents \cup {None}]

TypeOK ==
    /\ CacheOK
    /\ booted \in BOOLEAN
    /\ saved \in SUBSET Torrents /\ live \in SUBSET Torrents
    /\ loaded \in SUBSET Torrents /\ session \in SUBSET Torrents
    /\ removeOnDrop \in BOOLEAN
    /\ gate \in Procs \cup {None}
    /\ prefetches \in [Torrents -> Prefetchers \cup {None}]
    /\ idles \in [Torrents -> Timers \cup {None}]
    /\ detached \in SUBSET Prefetchers /\ aborted \in SUBSET Prefetchers
    /\ proc \in [Procs -> Process]

Init ==
    /\ CacheInit
    /\ booted = TRUE
    /\ saved = {} /\ live = {} /\ loaded = {} /\ session = {}
    /\ removeOnDrop \in BOOLEAN
    /\ gate = None
    /\ prefetches = [t \in Torrents |-> None]
    /\ idles = [t \in Torrents |-> None]
    /\ detached = {} /\ aborted = {}
    /\ proc = [p \in Procs |-> Rest]

-----------------------------------------------------------------------------
(* A definition named X_Y is X with one plausible mistake, which no action      *)
(* uses: the properties are checked to notice when it replaces X.               *)

At(p, label) == proc[p].at = label

Drops   == {"drop", "settings"}     \* drop_live
Removes == {"rem", "wipe"}          \* remove_torrent
Evicts  == {"evict", "trim"}                 \* evict_locked

\* An operation on one torrent returns.  evict_to_cap goes on with the gate in
\* hand whatever the outcome; drop_all_live tolerates a pinned torrent; wipe
\* stops at the first error; a request or a timer is done.
Return(p, outcome) ==
    LET k == proc[p].kind
    IN  /\ gate' = IF k = "trim" THEN p ELSE None
        /\ proc' = [proc EXCEPT ![p] =
             CASE k = "trim" -> [@ EXCEPT !.at = "sweep"]
               [] k = "settings" /\ outcome # "failed" -> [@ EXCEPT !.at = "next"]
               [] k = "wipe" /\ outcome = "ok" -> [@ EXCEPT !.at = "next"]
               [] OTHER -> Rest]

\* The processes once stop_idle_detach_locked(t) has aborted t's timer.
NoTimer(t) == IF idles[t] = None THEN proc ELSE [proc EXCEPT ![idles[t]] = Rest]

\* stop_idle_detach_locked(t), after which p stands at label.
StopIdle(p, t, label) ==
    /\ idles' = [idles EXCEPT ![t] = None]
    /\ proc' = [NoTimer(t) EXCEPT ![p].at = label, ![p].on = t]

Free(r) == At(r, "idle") /\ \A c \in Clients : proc[c].reader # r

-----------------------------------------------------------------------------
(* Requests. *)

Ask(c, k, t, r) ==
    /\ booted /\ At(c, "idle") /\ k \in Requests
    /\ proc' = [proc EXCEPT ![c] =
         [Rest EXCEPT !.at = "want", !.kind = k, !.on = t, !.reader = r]]
    /\ UNCHANGED <<cache, booted, books, removeOnDrop, gate, tasks>>

AskAbout(c, t) == \E k \in {"add", "addSave", "drop", "rem", "evict"} : Ask(c, k, t, None)

\* playback looks the file up in get_view first: only a live torrent has files.
AskPlay(c, t) == t \in live /\ \E r \in Readers : Free(r) /\ Ask(c, "play", t, r)

\* wipe: everything live or saved, one remove_torrent after another.
AskWipe(c) ==
    /\ booted /\ At(c, "idle") /\ "wipe" \in Requests
    /\ proc' = [proc EXCEPT ![c] =
         [Rest EXCEPT !.at = "next", !.kind = "wipe", !.todo = live \cup saved]]
    /\ UNCHANGED <<cache, booted, books, removeOnDrop, gate, tasks>>

\* set_settings: the cap and the flags apply at once; then every live torrent
\* is dropped under them, and the cache is brought under the new cap.
AskSettings(c, n, remove) ==
    /\ booted /\ At(c, "idle") /\ "settings" \in Requests
    /\ SetCap(n)
    /\ removeOnDrop' = remove
    /\ proc' = [proc EXCEPT ![c] =
         [Rest EXCEPT !.at = "next", !.kind = "settings",
                      !.todo = live \cup (saved \cap loaded)]]
    /\ UNCHANGED <<booted, books, gate, tasks>>

\* The next hash of wipe or drop_all_live.  After the last one set_settings
\* goes on to evict_to_cap.
NextHash(c) ==
    /\ At(c, "next")
    /\ \/ \E t \in proc[c].todo :
            proc' = [proc EXCEPT ![c].at = "want", ![c].on = t, ![c].todo = @ \ {t}]
       \/ /\ proc[c].todo = {}
          /\ proc' = [proc EXCEPT ![c] =
               IF @.kind = "wipe" THEN Rest
                                  ELSE [Rest EXCEPT !.at = "want", !.kind = "trim"]]
    /\ UNCHANGED <<cache, booted, books, removeOnDrop, gate, tasks>>

-----------------------------------------------------------------------------
(* Taking the gate. *)

\* Faulty variant: the gate is let go while the engine resolves the source.
GateAdd_WithoutGate(p) ==
    /\ proc[p].kind \in {"add", "addSave"}
    /\ proc' = [proc EXCEPT ![p].at = "adding"]
    /\ gate' = None
    /\ UNCHANGED <<cache, booted, books, removeOnDrop, tasks>>

\* add_source.  A torrent that is already live is only saved, if that was asked
\* for; a URL does not tell its hash, so such a source is always loaded.
GateAdd(p) ==
    /\ proc[p].kind \in {"add", "addSave"}
    /\ LET t == proc[p].on
       IN  \/ /\ t \in live
              /\ saved' = IF proc[p].kind = "addSave" THEN saved \cup {t} ELSE saved
              /\ Return(p, "ok")
           \/ /\ proc' = [proc EXCEPT ![p].at = "adding"]
              /\ gate' = p
              /\ UNCHANGED saved
    /\ UNCHANGED <<cache, booted, live, loaded, session, removeOnDrop, tasks>>

\* play_with_prefetch: stop the idle timer, then load unless loaded.  Only a
\* catalog row can be loaded.
GatePlay(p) ==
    /\ proc[p].kind = "play"
    /\ LET t == proc[p].on
       IN  \/ /\ t \in loaded \cup saved
              /\ StopIdle(p, t, IF t \in loaded THEN "opening" ELSE "adding")
              /\ gate' = p
           \/ /\ t \notin loaded \cup saved
              /\ idles' = [idles EXCEPT ![t] = None]
              /\ proc' = [NoTimer(t) EXCEPT ![p] = Rest]
              /\ gate' = None
    /\ UNCHANGED <<cache, booted, books, removeOnDrop, prefetches, lost>>

\* drop_live, from a request, from set_settings or from an idle timer, and the
\* operator's evict.
GateDrop(p) ==
    /\ proc[p].kind \in Drops \cup {"evict"}
    /\ StopIdle(p, proc[p].on, "stopping")
    /\ gate' = p
    /\ UNCHANGED <<cache, booted, books, removeOnDrop, prefetches, lost>>

\* remove_torrent: a saved torrent is loaded first, so that the bytes of an
\* earlier process are found and removed too.
GateRem(p) ==
    /\ proc[p].kind \in Removes
    /\ LET t == proc[p].on
       IN  StopIdle(p, t, IF t \in saved \ loaded THEN "adding" ELSE "stopping")
    /\ gate' = p
    /\ UNCHANGED <<cache, booted, books, removeOnDrop, prefetches, lost>>

\* evict_to_cap names its victims once, under the gate.
GateTrim(p) ==
    /\ proc[p].kind = "trim"
    /\ LET victims == EvictionCandidates
       IN  proc' = [proc EXCEPT ![p].at = "sweep",
                                ![p].todo = {t \in Torrents : \E i \in DOMAIN victims :
                                                              victims[i] = t}]
    /\ gate' = p
    /\ UNCHANGED <<cache, booted, books, removeOnDrop, tasks>>

TakeGate(p) ==
    /\ At(p, "want") /\ gate = None
    /\ GateAdd(p) \/ GatePlay(p) \/ GateDrop(p) \/ GateRem(p) \/ GateTrim(p)

-----------------------------------------------------------------------------
(* Loading. *)

\* Session::add_torrent: the torrent joins the session and its storage is
\* opened, or it was managed already.  A source may not resolve.
SessionAdd(p) ==
    /\ At(p, "adding")
    /\ LET t == proc[p].on
       IN  \/ /\ session' = session \cup {t}
              /\ IF t \in session \cup entries THEN UNCHANGED cache ELSE Open(t)
              /\ proc' = [proc EXCEPT ![p].at = "initing"]
              /\ UNCHANGED gate
           \/ /\ proc[p].kind \in {"add", "addSave"}
              /\ Return(p, "failed")
              /\ UNCHANGED <<cache, session>>
    /\ UNCHANGED <<booted, saved, live, loaded, removeOnDrop, tasks>>

\* wait_until_initialized returned: the adapter notes the torrent, then
\* add_source saves it if asked to and makes it live; load makes it live.
Initialized(p) ==
    /\ At(p, "initing")
    /\ loaded' = loaded \cup {proc[p].on}
    /\ live' = live \cup {proc[p].on}
    /\ saved' = IF proc[p].kind = "addSave" THEN saved \cup {proc[p].on} ELSE saved
    /\ CASE proc[p].kind \in {"add", "addSave"} -> Return(p, "ok")
         [] proc[p].kind = "play" -> proc' = [proc EXCEPT ![p].at = "opening"]
                                     /\ UNCHANGED gate
         [] OTHER -> proc' = [proc EXCEPT ![p].at = "stopping"] /\ UNCHANGED gate
    /\ UNCHANGED <<cache, booted, session, removeOnDrop, tasks>>

\* The torrent is in the session and the adapter never hears of it.
InitFails(p) ==
    /\ "init" \in Faults /\ At(p, "initing")
    /\ Return(p, "failed")
    /\ UNCHANGED <<cache, booted, books, removeOnDrop, tasks>>

\* save_torrent fails after the engine loaded the torrent: add_source returns
\* before it makes it live.
PersistFails(p) ==
    /\ "persist" \in Faults /\ At(p, "initing") /\ proc[p].kind = "addSave"
    /\ loaded' = loaded \cup {proc[p].on}
    /\ Return(p, "failed")
    /\ UNCHANGED <<cache, booted, saved, live, session, removeOnDrop, tasks>>

-----------------------------------------------------------------------------
(* Playing. *)

\* Faulty variant: the adapter's map is trusted, the session is not asked.
Playable_AsListed(t) == t \in loaded \cap entries

Playable(t) == t \in loaded \cap session \cap entries

\* Engine::reader and pin_range; the reader goes to the client at the end of
\* play_with_prefetch, after a look-ahead task is registered if one is asked for.
\* Until then the request holds it.
OpenReader(p) ==
    /\ At(p, "opening")
    /\ LET t == proc[p].on
           r == proc[p].reader
       IN  IF t \in live /\ Playable(t)
           THEN /\ Pin(r, t)
                /\ \/ /\ proc' = [proc EXCEPT ![r].at = "open", ![r].home = t, ![p] = Rest]
                      /\ gate' = None
                   \/ /\ proc' = [proc EXCEPT ![r].at = "open", ![r].home = t,
                                              ![p].at = "prefetching"]
                      /\ UNCHANGED gate
           ELSE Return(p, "failed") /\ UNCHANGED cache
    /\ UNCHANGED <<booted, books, removeOnDrop, tasks>>

\* Faulty variant: the abort unpins whether or not the task had pinned.
StopPrefetch_AlwaysUnpins(p) ==
    /\ At(p, "prefetching") \/ At(p, "stopping")
    /\ LET t == proc[p].on
           f == prefetches[t]
       IN  /\ f # None
           /\ prefetches' = [prefetches EXCEPT ![t] = None]
           /\ proc' = [proc EXCEPT ![f] = Rest]
           /\ pins' = [pins EXCEPT ![t] = @ - 1]
           /\ view' = [view EXCEPT ![f] = None]
    /\ UNCHANGED <<entries, stored, pieces, older, cap, held, manifest, writer, late,
                   booted, books, removeOnDrop, gate, idles, lost>>

\* stop_prefetch_locked: the task is aborted and joined, so its pin is gone.
StopPrefetch(p) ==
    /\ At(p, "prefetching") \/ At(p, "stopping")
    /\ LET t == proc[p].on
           f == prefetches[t]
       IN  /\ f # None
           /\ prefetches' = [prefetches EXCEPT ![t] = None]
           /\ proc' = [proc EXCEPT ![f] = Rest]
           /\ IF view[f] = None THEN UNCHANGED cache ELSE Unpin(f)
    /\ UNCHANGED <<booted, books, removeOnDrop, gate, idles, lost>>

\* start_prefetch_locked, and play_with_prefetch returns.  Without a free slot
\* the look-ahead is left out.
StartPrefetch(p) ==
    /\ At(p, "prefetching")
    /\ LET t == proc[p].on
           free == {f \in Prefetchers : At(f, "idle")}
       IN  /\ prefetches[t] = None
           /\ \/ \E f \in free :
                   /\ prefetches' = [prefetches EXCEPT ![t] = f]
                   /\ proc' = [proc EXCEPT ![p] = Rest, ![f].at = "start", ![f].on = t]
              \/ /\ free = {}
                 /\ proc' = [proc EXCEPT ![p] = Rest]
                 /\ UNCHANGED prefetches
    /\ gate' = None
    /\ UNCHANGED <<cache, booted, books, removeOnDrop, idles, lost>>

\* Look-ahead tasks nobody stops any more.
Astray == detached \cup aborted

\* The task opens its own reader and pins, without the gate.  Whoever deletes the
\* torrent stops a listed task first, so that nothing comes between the two.
PrefetchBegins(f) ==
    /\ At(f, "start") /\ f \notin Astray /\ Playable(proc[f].on)
    /\ Pin(f, proc[f].on)
    /\ proc' = [proc EXCEPT ![f].at = "reading"]
    /\ UNCHANGED <<booted, books, removeOnDrop, gate, tasks>>

\* Nobody stops a task that went astray: the torrent may go after Engine::reader ...
PrefetchReads(f) ==
    /\ At(f, "start") /\ f \in Astray /\ Playable(proc[f].on)
    /\ proc' = [proc EXCEPT ![f].at = "pinning"]
    /\ UNCHANGED <<cache, booted, books, removeOnDrop, gate, tasks>>

\* ... and Cache::pin asks for nothing but the entry.
PrefetchPins(f) ==
    /\ At(f, "pinning")
    /\ Pin(f, proc[f].on)
    /\ proc' = [proc EXCEPT ![f].at = "reading"]
    /\ UNCHANGED <<booted, books, removeOnDrop, gate, tasks>>

\* It has read its bytes, or has nothing to read: the pin goes, the task leaves
\* the map if it is still the one listed, and the cap is enforced.
PrefetchEnds(f) ==
    /\ proc[f].at \in {"start", "pinning", "reading"}
    /\ IF view[f] = None THEN UNCHANGED cache ELSE Unpin(f)
    /\ prefetches' = [t \in Torrents |-> IF prefetches[t] = f THEN None ELSE prefetches[t]]
    /\ detached' = detached \ {f}
    /\ proc' = [proc EXCEPT ![f] = [Rest EXCEPT !.at = "want", !.kind = "trim"]]
    /\ UNCHANGED <<booted, books, removeOnDrop, gate, idles, aborted>>

\* play_with_prefetch has returned the reader.
Handed(r) == \A c \in Clients : proc[c].reader # r

\* Drop for PlaybackReader: unpin, then a task enforces the cap and arms the
\* idle timer.
Close(r) ==
    /\ At(r, "open") /\ Handed(r)
    /\ Unpin(r)
    /\ proc' = [proc EXCEPT ![r].at = "want", ![r].kind = "trim"]
    /\ UNCHANGED <<booted, books, removeOnDrop, gate, tasks>>

ReadOn(r) ==
    /\ At(r, "open") /\ Handed(r)
    /\ Read(view[r])
    /\ UNCHANGED <<booted, books, removeOnDrop, gate, tasks, proc>>

-----------------------------------------------------------------------------
(* Letting go of a torrent: drop_live, remove_torrent, evict_locked. *)

\* Faulty variant: the engine is told to delete without ensure_unpinned.
Detach_EvenPinned(p) ==
    /\ At(p, "stopping")
    /\ prefetches[proc[p].on] = None
    /\ session' = session \ {proc[p].on}
    /\ proc' = [proc EXCEPT ![p].at = "grace"]
    /\ UNCHANGED <<cache, booted, saved, live, loaded, removeOnDrop, gate, tasks>>

\* Faulty variant: the look-ahead task is not stopped first.
Detach_LeavesPrefetch(p) ==
    /\ At(p, "stopping")
    /\ pins[proc[p].on] = 0
    /\ session' = session \ {proc[p].on}
    /\ proc' = [proc EXCEPT ![p].at = "grace"]
    /\ UNCHANGED <<cache, booted, saved, live, loaded, removeOnDrop, gate, tasks>>

\* ensure_unpinned, then Session::delete.  A torrent the adapter does not know
\* is nothing to do for drop and rem and an error for evict; one the session no
\* longer runs is an error for drop too.
Detach(p) ==
    /\ At(p, "stopping")
    /\ LET t == proc[p].on
           k == proc[p].kind
           purge == proc' = [proc EXCEPT ![p].at = "purging"] /\ UNCHANGED <<session, gate>>
       IN  /\ prefetches[t] = None
           /\ CASE pins[t] > 0 -> Return(p, "pinned") /\ UNCHANGED session
                [] pins[t] = 0 /\ t \in loaded \cap session ->
                     /\ session' = session \ {t}
                     /\ proc' = [proc EXCEPT ![p].at = "grace"]
                     /\ UNCHANGED gate
                [] pins[t] = 0 /\ t \notin loaded /\ k \notin Evicts -> purge
                [] pins[t] = 0 /\ t \in loaded \ session /\ k \in Removes -> purge
                [] OTHER -> Return(p, "failed") /\ UNCHANGED session
    /\ UNCHANGED <<cache, booted, saved, live, loaded, removeOnDrop, tasks>>

\* Faulty variant: the delete is taken for a join of the engine's tasks.
GraceEnds_AtOnce(p) ==
    /\ At(p, "grace")
    /\ loaded' = loaded \ {proc[p].on}
    /\ proc' = [proc EXCEPT ![p].at = "purging"]
    /\ UNCHANGED <<cache, booted, saved, live, session, removeOnDrop, gate, tasks>>

\* Session::delete fails: nothing has changed yet.
DetachFails(p) ==
    /\ "delete" \in Faults /\ At(p, "stopping")
    /\ prefetches[proc[p].on] = None /\ proc[p].on \in loaded \cap session
    /\ pins[proc[p].on] = 0
    /\ Return(p, "failed")
    /\ UNCHANGED <<cache, booted, books, removeOnDrop, tasks>>

\* The grace second of delete_inner is over: by then the engine's cancelled
\* tasks have made their last call, unless one is late.  A task that was aborted
\* does not wake from a sleep.
GraceEnds(p) ==
    /\ At(p, "grace") /\ p \notin aborted
    /\ "late" \in Faults \/ EngineCalls(proc[p].on) = {}
    /\ loaded' = loaded \ {proc[p].on}
    /\ proc' = [proc EXCEPT ![p].at = "purging"]
    /\ UNCHANGED <<cache, booted, saved, live, session, removeOnDrop, gate, tasks>>

\* Faulty variant: an unsaved torrent's bytes are kept like a saved one's.
TakesBytes_SavedOrNot(p) == proc[p].kind \notin Drops \/ removeOnDrop

\* drop keeps the bytes of a saved torrent unless the setting says otherwise.
TakesBytes(p) ==
    \/ proc[p].kind \notin Drops
    \/ removeOnDrop
    \/ proc[p].on \notin saved

\* Bytes, then the catalog row, then the live entry.
Purge(p) ==
    /\ At(p, "purging")
    /\ LET t == proc[p].on
           k == proc[p].kind
       IN  /\ k \in Evicts => t \in entries
           /\ IF TakesBytes(p) /\ t \in entries THEN Remove(t) ELSE UNCHANGED cache
           /\ saved' = IF k \in Removes THEN saved \ {t} ELSE saved
           /\ live' = live \ {t}
           /\ Return(p, "ok")
    /\ UNCHANGED <<booted, loaded, session, removeOnDrop, tasks>>

\* Cache::remove fails in the store or finds a pin, or evict finds no entry: the
\* rest is skipped.
PurgeFails(p) ==
    /\ At(p, "purging")
    /\ LET t == proc[p].on
       IN  \/ "store" \in Faults /\ TakesBytes(p) /\ t \in entries
           \/ TakesBytes(p) /\ t \in entries /\ pins[t] > 0
           \/ proc[p].kind \in Evicts /\ t \notin entries
    /\ Return(p, "failed")
    /\ UNCHANGED <<cache, booted, books, removeOnDrop, tasks>>

\* The next victim of evict_to_cap; evict_locked stops its idle timer.
NextVictim(p) ==
    /\ At(p, "sweep")
    /\ \E t \in proc[p].todo :
         /\ idles' = [idles EXCEPT ![t] = None]
         /\ proc' = [NoTimer(t) EXCEPT ![p].at = "stopping", ![p].on = t,
                                       ![p].todo = @ \ {t}]
    /\ UNCHANGED <<cache, booted, books, removeOnDrop, gate, prefetches, lost>>

\* Faulty variant: the sweep ends with the gate in hand.
SweepEnds_KeepsGate(p) ==
    /\ At(p, "sweep") /\ proc[p].todo = {}
    /\ proc' = [proc EXCEPT ![p] =
         IF p \in Readers THEN [Rest EXCEPT !.at = "sched", !.home = proc[p].home]
                          ELSE Rest]
    /\ UNCHANGED <<cache, booted, books, removeOnDrop, gate, tasks>>

\* evict_to_cap returns.  The release task goes on to schedule_idle_detach.
SweepEnds(p) ==
    /\ At(p, "sweep") /\ proc[p].todo = {}
    /\ gate' = None
    /\ proc' = [proc EXCEPT ![p] =
         IF p \in Readers THEN [Rest EXCEPT !.at = "sched", !.home = proc[p].home] ELSE Rest]
    /\ aborted' = aborted \ {p}
    /\ UNCHANGED <<cache, booted, books, removeOnDrop, prefetches, idles, detached>>

-----------------------------------------------------------------------------
(* Idle timers. *)

\* schedule_idle_detach, without the gate: nothing to do for a torrent that is
\* watched or not loaded, else the timer listed is aborted ...
Schedule(r) ==
    /\ At(r, "sched")
    /\ LET t == proc[r].home
       IN  IF pins[t] = 0 /\ t \in loaded
           THEN /\ idles' = [idles EXCEPT ![t] = None]
                /\ proc' = [NoTimer(t) EXCEPT ![r].at = "arming"]
           ELSE proc' = [proc EXCEPT ![r] = Rest] /\ UNCHANGED idles
    /\ UNCHANGED <<cache, booted, books, removeOnDrop, gate, prefetches, lost>>

\* Faulty variant: the new timer is not listed.
Arm_Unlisted(r) ==
    /\ At(r, "arming")
    /\ \E m \in Timers :
         /\ At(m, "idle")
         /\ proc' = [proc EXCEPT ![r] = Rest, ![m].at = "sleep", ![m].on = proc[r].home]
    /\ UNCHANGED <<cache, booted, books, removeOnDrop, gate, tasks>>

\* ... and a new one listed, in place of one that was listed meanwhile: that one
\* sleeps on unlisted.
Arm(r) ==
    /\ At(r, "arming")
    /\ \E m \in Timers :
         /\ At(m, "idle")
         /\ proc' = [proc EXCEPT ![r] = Rest, ![m].at = "sleep", ![m].on = proc[r].home]
         /\ idles' = [idles EXCEPT ![proc[r].home] = m]
    /\ UNCHANGED <<cache, booted, books, removeOnDrop, gate, prefetches, lost>>

\* The timeout passed: a timer that is no longer listed ends, the others drop
\* the torrent like a client would.
Fire(m) ==
    /\ At(m, "sleep")
    /\ LET t == proc[m].on
       IN  IF idles[t] = m
           THEN /\ idles' = [idles EXCEPT ![t] = None]
                /\ proc' = [proc EXCEPT ![m].at = "want", ![m].kind = "drop"]
           ELSE proc' = [proc EXCEPT ![m] = Rest] /\ UNCHANGED idles
    /\ UNCHANGED <<cache, booted, books, removeOnDrop, gate, prefetches, lost>>

-----------------------------------------------------------------------------
(* A future that is dropped at an await, with the gate guard in it: a request   *)
(* whose client disconnected, or an aborted task.  What it did before the await *)
(* stays done, and what comes after it is left undone.                          *)

\* The reader of a play that is dropped before it returned goes with it.
Held(p) == IF At(p, "prefetching") THEN proc[p].reader ELSE None

Leaves(p) ==
    /\ gate' = IF gate = p THEN None ELSE gate
    /\ IF Held(p) = None THEN UNCHANGED cache ELSE Unpin(Held(p))
    /\ UNCHANGED <<booted, books, removeOnDrop, idles>>

Without(p) == [q \in Procs |-> IF q \in {p, Held(p)} THEN Rest ELSE proc[q]]

GiveUp(p) ==
    /\ \/ proc[p].at \in {"want", "adding", "initing", "opening", "prefetching", "stopping",
                          "grace", "next", "sweep"}
       \/ At(p, "purging") /\ proc[p].kind \notin Removes
    /\ Leaves(p)
    /\ proc' = Without(p)
    /\ aborted' = aborted \ {p}
    /\ UNCHANGED <<prefetches, detached>>

\* At the join of stop_prefetch_locked: the task is out of the map and aborted, and
\* nobody waits until its last poll is over and its pin is gone (lib.rs:905-911).
GiveUpJoin(p) ==
    /\ At(p, "prefetching") \/ At(p, "stopping")
    /\ LET t == proc[p].on
       IN  /\ prefetches[t] # None
           /\ prefetches' = [prefetches EXCEPT ![t] = None]
           /\ aborted' = (aborted \ {p}) \cup {prefetches[t]}
    /\ Leaves(p)
    /\ proc' = Without(p)
    /\ UNCHANGED detached

\* Between spawn and insert of start_prefetch_locked: the task is told to start by
\* the end of the channel as well, and is in no map (lib.rs:827, 872-876).
GiveUpStart(p) ==
    /\ At(p, "prefetching") /\ prefetches[proc[p].on] = None
    /\ \E f \in Prefetchers :
         /\ At(f, "idle")
         /\ detached' = detached \cup {f}
         /\ proc' = [Without(p) EXCEPT ![f].at = "start", ![f].on = proc[p].on]
    /\ Leaves(p)
    /\ UNCHANGED <<prefetches, aborted>>

\* After the engine loaded the torrent, before it is made live; add_source may
\* have saved it.
AddCutShort(p) ==
    /\ At(p, "initing")
    /\ loaded' = loaded \cup {proc[p].on}
    /\ \/ UNCHANGED saved
       \/ proc[p].kind = "addSave" /\ saved' = saved \cup {proc[p].on}
    /\ gate' = IF gate = p THEN None ELSE gate
    /\ proc' = [proc EXCEPT ![p] = Rest]
    /\ UNCHANGED <<cache, booted, live, session, removeOnDrop, tasks>>

\* After bytes and catalog row are gone, before the live entry is.
PurgeCutShort(p) ==
    /\ At(p, "purging")
    /\ LET t == proc[p].on
           k == proc[p].kind
       IN  /\ k \in Evicts => t \in entries
           /\ IF TakesBytes(p) /\ t \in entries THEN Remove(t) ELSE UNCHANGED cache
           /\ saved' = IF k \in Removes THEN saved \ {t} ELSE saved
    /\ gate' = IF gate = p THEN None ELSE gate
    /\ proc' = [proc EXCEPT ![p] = Rest]
    /\ aborted' = aborted \ {p}
    /\ UNCHANGED <<booted, live, loaded, session, removeOnDrop, prefetches, idles, detached>>

Stops(p) ==
    GiveUp(p) \/ GiveUpJoin(p) \/ GiveUpStart(p) \/ AddCutShort(p) \/ PurgeCutShort(p)

\* The client disconnects.
Cancel(c) == "cancel" \in Faults /\ Stops(c)

\* An aborted task ends at an await, with its pin or wherever its last poll took it.
AbortLands(f) ==
    /\ f \in aborted
    /\ \/ Stops(f)
       \/ /\ proc[f].at \in {"start", "pinning", "reading"}
          /\ IF view[f] = None THEN UNCHANGED cache ELSE Unpin(f)
          /\ proc' = [proc EXCEPT ![f] = Rest]
          /\ aborted' = aborted \ {f}
          /\ UNCHANGED <<booted, books, removeOnDrop, gate, prefetches, idles, detached>>

-----------------------------------------------------------------------------
(* The engine, restarts. *)

\* Downloads: the engine writes what it received for a torrent it runs.
Download(w, t, c) ==
    /\ t \in session
    /\ WriteCheck(w, t, c)
    /\ UNCHANGED <<booted, books, removeOnDrop, gate, tasks, proc>>

EngineWrites(w) ==
    /\ WriteStore(w) \/ WriteCredit(w)
    /\ UNCHANGED <<booted, books, removeOnDrop, gate, tasks, proc>>

\* Only the catalog, the settings and the store's files survive the process.
Restart ==
    /\ CacheRestart(cap)
    /\ booted' = FALSE
    /\ live' = {} /\ loaded' = {} /\ session' = {}
    /\ gate' = None
    /\ prefetches' = [t \in Torrents |-> None]
    /\ idles' = [t \in Torrents |-> None]
    /\ detached' = {} /\ aborted' = {}
    /\ proc' = [p \in Procs |-> Rest]
    /\ UNCHANGED <<saved, removeOnDrop>>

\* TorrentCoordinator::new discards the storage of unsaved torrents.
Boot ==
    /\ ~booted /\ booted' = TRUE
    /\ DiscardUnowned(saved)
    /\ UNCHANGED <<books, removeOnDrop, gate, tasks, proc>>

-----------------------------------------------------------------------------
Requested ==
    \E c \in Clients :
      \/ \E t \in Torrents : AskAbout(c, t) \/ AskPlay(c, t)
      \/ AskWipe(c)
      \/ \E n \in Caps, remove \in BOOLEAN : AskSettings(c, n, remove)

\* What p does when it runs.
Step(p) ==
    \/ TakeGate(p) \/ SessionAdd(p) \/ Initialized(p)
    \/ OpenReader(p) \/ StopPrefetch(p) \/ StartPrefetch(p)
    \/ Detach(p) \/ GraceEnds(p) \/ Purge(p) \/ PurgeFails(p)
    \/ NextVictim(p) \/ SweepEnds(p)

Ahead(f) ==
    PrefetchBegins(f) \/ PrefetchReads(f) \/ PrefetchPins(f) \/ PrefetchEnds(f) \/ AbortLands(f)

Background ==
    \/ \E f \in Prefetchers : Ahead(f)
    \/ \E r \in Readers : Close(r) \/ ReadOn(r) \/ Schedule(r) \/ Arm(r)
    \/ \E m \in Timers : Fire(m)
    \/ \E w \in Writers :
         EngineWrites(w) \/ \E t \in Torrents, c \in Chunks : Download(w, t, c)

Disturbed ==
    \/ \E p \in Procs : InitFails(p) \/ PersistFails(p) \/ DetachFails(p)
    \/ \E c \in Clients : Cancel(c)

Next ==
    \/ Requested
    \/ \E c \in Clients : NextHash(c)
    \/ \E p \in Procs : Step(p)
    \/ Background
    \/ Disturbed
    \/ Restart
    \/ Boot

Spec == Init /\ [][Next]_vars

-----------------------------------------------------------------------------
(* Fairness.  The runtime polls every task that can make progress, the engine  *)
(* answers, a download ends and a timer fires; tokio's Mutex is fair, so who   *)
(* asks for the gate again and again gets it.  Nobody has to send a request,   *)
(* stop watching, or restart the process.                                      *)
Fairness ==
    /\ \A p \in Procs : SF_vars(TakeGate(p)) /\ WF_vars(Step(p))
    /\ \A c \in Clients : WF_vars(NextHash(c))
    /\ \A f \in Prefetchers : WF_vars(Ahead(f))
    /\ \A r \in Readers : WF_vars(Schedule(r)) /\ WF_vars(Arm(r))
    /\ \A m \in Timers : WF_vars(Fire(m))
    /\ \A w \in Writers : WF_vars(EngineWrites(w))

FairSpec == Spec /\ Fairness

-----------------------------------------------------------------------------
(* Properties. *)

\* Whoever watches a torrent reads from one that is served: in the session,
\* known to the adapter, live, with its storage open.  No drop, eviction,
\* settings change or timer that began earlier pulls it away (lib.rs:756-797,
\* 959-961, 1101-1103).
WatchedIsServed ==
    \A r \in Readers : At(r, "open") =>
      view[r] \in live \cap loaded \cap session \cap entries

\* Data is never deleted under a torrent the engine still holds, which ADR 0004
\* proves to corrupt reads silently (docs/adr/0004-cache-eviction-seam.md:47-50,
\* cache.rs:80-84).
NoRemovalUnderEngine ==
    [][\A t \in entries : t \in session => t \in entries' \/ ~booted']_vars

\* While one operation deletes a torrent nothing else is left that uses it: no
\* pin, and no look-ahead task, listed or not (lib.rs:970-976).  Only a look-ahead
\* that a dropped play or a dropped stop left behind may still be at it: it goes
\* on, pins if the entry is there, and makes the removal fail.
AloneWhenDeleting ==
    \A p \in Procs : At(p, "grace") \/ At(p, "purging") =>
      LET t == proc[p].on
      IN  /\ prefetches[t] = None
          /\ \A r \in Readers : view[r] # t
          /\ \A f \in Prefetchers : proc[f].on = t => f = p \/ At(f, "want") \/ f \in Astray
          /\ pins[t] > 0 => \E f \in Astray : view[f] = t

\* Nothing goes astray unless a client disconnects.
AstrayByCancel == Astray # {} => "cancel" \in Faults

\* Between operations the four registers of a torrent agree: live, loaded and
\* in the session are the same, and a live torrent has its storage open.
RegistersAgree ==
    gate = None => live = loaded /\ loaded = session /\ live \subseteq entries

\* No byte is left that the cap or a removal would never reach: between
\* operations, what is held belongs to a saved or a live torrent.
BytesAreOwned ==
    gate = None /\ booted =>
      \A t \in Torrents : held[t] # {} => t \in saved \cup live

\* The coordinator keeps what Residency promises: serving is what the session
\* runs or the adapter still lists through the grace of a delete.
Residence == INSTANCE Residency
    WITH Viewers <- Readers \cup Prefetchers,
         serving <- session \cup loaded,
         watching <- view,
         kept <- {t \in Torrents : held[t] # {}}

Promise == Residence!Spec

\* The cap sees every byte, also through removals inside engine calls: the grace
\* of delete_inner keeps Entry.stored exact (adapter.rs:285-289).
CountedExactly == AccountingExact /\ late = {}

\* One run of the coordinator checks each of these: whatever fails, a viewer keeps
\* what it watches and a delete happens alone;
ServedAlone == WatchedIsServed /\ AloneWhenDeleting /\ AstrayByCancel

\* what the registers list and what the catalog owns agree;
Owned == RegistersAgree /\ BytesAreOwned

\* so they do between two torrents, with what the cap counts.
Accounted == Owned /\ CountedExactly

\* evict_to_cap passes over a victim it named only because somebody began to
\* watch it (docs/adr/0004-cache-eviction-seam.md:51-54).
VictimsGoUnlessWatched ==
    [][\A p \in Procs :
         proc[p].kind = "trim" /\ At(p, "stopping") /\ proc'[p].at = "sweep"
           => pins[proc[p].on] > 0]_vars

\* Every request is answered: the gate, the joins of aborted tasks and the tasks'
\* own use of the gate never block one another for good.
Answered == \A c \in Clients : At(c, "want") ~> At(c, "idle")

Watched(t) == \E r \in Readers : At(r, "open") /\ view[r] = t

\* Once the last viewer of a torrent is gone, the torrent is unloaded unless
\* somebody watches it again (docs/deploy.md:197).
UnwatchedIsUnloaded ==
    \A t \in Torrents :
      (\E r \in Readers : proc[r].home = t /\ At(r, "want") /\ ~Watched(t))
        ~> (t \notin session \/ Watched(t))

\* What the code does promise: when the release task of a reader finds the
\* torrent loaded and unpinned, it is unloaded unless it is pinned again.  No
\* operation that stops the timer on the way leaves the torrent without one
\* (lib.rs:921-951).
ReleasedIsUnloaded ==
    \A t \in Torrents :
      (pins[t] = 0 /\ t \in loaded /\ \E r \in Readers : proc[r].home = t /\ At(r, "sched"))
        ~> (t \notin session \/ pins[t] > 0)
=============================================================================
