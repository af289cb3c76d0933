------------------------------- MODULE Cache -------------------------------
(***************************************************************************)
(* rustorr-cache's Cache: a torrent-scoped LRU over a PieceStore, with     *)
(* pins that protect a watched torrent and a residency index of verified   *)
(* pieces (crates/rustorr-cache/src/cache.rs).                             *)
(*                                                                         *)
(* Every operation runs under the State mutex and is one action, except    *)
(* the two the engine's threads make: Cache.write and piece_completed call *)
(* the store outside the mutex, so opens, removals and other engine calls  *)
(* interleave with their steps.  Bytes are counted in chunks, the unit of  *)
(* one engine write, and a piece is one chunk.                             *)
(*                                                                         *)
(* The logical clock (tick, Entry.last_read) is kept as the order it       *)
(* induces: <<a, b>> \in older says a was read before b.  next_tick never  *)
(* repeats a value, so the order is all the clock is used for.             *)
(***************************************************************************)
EXTENDS Naturals, Sequences, FiniteSets, FiniteSetsExt

Seqs == INSTANCE SequencesExt

CONSTANTS
    Torrents,   \* info hashes
    Chunks,     \* the chunks a torrent's data is made of
    Views,      \* identities of Pin values
    Writers,    \* engine threads that may be inside a call of the cache
    Caps,       \* the values cap_bytes may be set to, in chunks
    None        \* no torrent

ASSUME CacheConstants ==
    /\ IsFiniteSet(Torrents) /\ IsFiniteSet(Chunks)
    /\ IsFiniteSet(Views) /\ IsFiniteSet(Writers)
    /\ Caps \subseteq Nat
    /\ None \notin Torrents

VARIABLES
    entries,    \* keys of State.torrents
    stored,     \* Entry.stored, 0 for a torrent without an entry
    pins,       \* Entry.pins, 0 for a torrent without an entry
    pieces,     \* Entry.pieces, {} for a torrent without an entry
    manifest,   \* the store: the pieces it lists as completed
    older,      \* the order of Entry.last_read
    cap,        \* cap_bytes
    view,       \* the torrent of each live Pin, or None
    held,       \* the store: the chunks whose bytes it holds
    writer,     \* the calls of write and piece_completed in progress
    late        \* history: torrents removed inside an engine call on them

cache == <<entries, stored, pins, pieces, older, cap, view, held, manifest,
          writer, late>>

-----------------------------------------------------------------------------
NoWrite == [at |-> "idle"]

WriteStates ==
    {NoWrite}
      \cup [at : {"checked"}, t : Torrents, c : Chunks]
      \cup [at : {"stored"}, t : Torrents, added : {0, 1}]
      \cup [at : {"verified", "marking"}, t : Torrents, c : Chunks]

CacheOK ==
    /\ entries \in SUBSET Torrents
    /\ stored \in [Torrents -> Nat]
    /\ pins \in [Torrents -> Nat]
    /\ pieces \in [Torrents -> SUBSET Chunks]
    /\ older \in SUBSET (Torrents \X Torrents)
    /\ cap \in Caps
    /\ view \in [Views -> Torrents \cup {None}]
    /\ held \in [Torrents -> SUBSET Chunks]
    /\ manifest \in [Torrents -> SUBSET Chunks]
    /\ writer \in [Writers -> WriteStates]
    /\ late \in SUBSET Torrents

CacheInit ==
    /\ entries = {}
    /\ stored = [t \in Torrents |-> 0]
    /\ pins = [t \in Torrents |-> 0]
    /\ pieces = [t \in Torrents |-> {}]
    /\ older = {}
    /\ cap \in Caps
    /\ view = [v \in Views |-> None]
    /\ held = [t \in Torrents |-> {}]
    /\ manifest = [t \in Torrents |-> {}]
    /\ writer = [w \in Writers |-> NoWrite]
    /\ late = {}

-----------------------------------------------------------------------------
(* The clock.  A definition named X_Y is X with one plausible mistake: no      *)
(* action uses it, the properties are checked to notice when it replaces X.    *)

\* The order without t.
Untimed(t) == {e \in older : e[1] # t /\ e[2] # t}

\* Faulty variant: the old place of t in the order is kept.
Touched_KeepsOldPlace(t) == older \cup ((entries \ {t}) \X {t})

\* t becomes the most recently read of the open torrents.
Touched(t) == Untimed(t) \cup ((entries \ {t}) \X {t})

(* What pinning and accounting count. *)

Watchers(t) == {v \in Views : view[v] = t}

\* Writes whose bytes the store has and Entry.stored does not count yet.
Uncredited(t) ==
    {w \in Writers : writer[w].at = "stored" /\ writer[w].t = t
                                             /\ writer[w].added = 1}

EngineCalls(t) == {w \in Writers : writer[w].at # "idle" /\ writer[w].t = t}

-----------------------------------------------------------------------------
(* Opening, reading, writing. *)

\* Registers a torrent.  The store starts empty, or a DiskStore restores what a
\* previous process left: all its manifest lists, or nothing when the manifest
\* does not agree with the files.
Open(t) ==
    /\ t \notin entries
    /\ entries' = entries \cup {t}
    /\ \E restored \in BOOLEAN :
         /\ held' = [held EXCEPT ![t] = IF restored THEN @ ELSE {}]
         /\ manifest' = [manifest EXCEPT ![t] = IF restored THEN @ ELSE {}]
    /\ pieces' = [pieces EXCEPT ![t] = manifest'[t]]
    /\ stored' = [stored EXCEPT ![t] = Cardinality(held'[t])]
    /\ pins' = [pins EXCEPT ![t] = 0]
    /\ older' = Touched(t)
    /\ UNCHANGED <<cap, view, writer, late>>

\* Marks the torrent as read; the bytes come from the store afterwards.
Read(t) ==
    /\ t \in entries
    /\ older' = Touched(t)
    /\ UNCHANGED <<entries, stored, pins, pieces, cap, view, held, manifest,
                   writer, late>>

\* write, first critical section: the torrent has an entry.
WriteCheck(w, t, c) ==
    /\ writer[w].at = "idle"
    /\ t \in entries
    /\ writer' = [writer EXCEPT ![w] = [at |-> "checked", t |-> t, c |-> c]]
    /\ UNCHANGED <<entries, stored, pins, pieces, older, cap, view, held,
                   manifest, late>>

\* Faulty variant: the store reports the chunk's length, not what was new.
WriteStore_CountsOverwrites(w) ==
    /\ writer[w].at = "checked"
    /\ writer[w].t \in entries
    /\ held' = [held EXCEPT ![writer[w].t] = @ \cup {writer[w].c}]
    /\ writer' = [writer EXCEPT ![w] = [at |-> "stored", t |-> writer[w].t, added |-> 1]]
    /\ UNCHANGED <<entries, stored, pins, pieces, older, cap, view, manifest, late>>

\* write, outside the mutex: the store takes the chunk and says how many of its
\* bytes are new, or fails when the torrent was removed meanwhile.
WriteStore(w) ==
    /\ writer[w].at = "checked"
    /\ LET t == writer[w].t
           c == writer[w].c
       IN  IF t \in entries
           THEN /\ held' = [held EXCEPT ![t] = @ \cup {c}]
                /\ writer' = [writer EXCEPT ![w] =
                     [at |-> "stored", t |-> t,
                      added |-> IF c \in held[t] THEN 0 ELSE 1]]
           ELSE /\ writer' = [writer EXCEPT ![w] = NoWrite]
                /\ UNCHANGED held
    /\ UNCHANGED <<entries, stored, pins, pieces, older, cap, view, manifest, late>>

\* write, second critical section: the new bytes are counted if there is an
\* entry, which need not be the one the write began under.
WriteCredit(w) ==
    /\ writer[w].at = "stored"
    /\ LET t == writer[w].t
       IN  stored' = IF t \in entries
                     THEN [stored EXCEPT ![t] = @ + writer[w].added]
                     ELSE stored
    /\ writer' = [writer EXCEPT ![w] = NoWrite]
    /\ UNCHANGED <<entries, pins, pieces, older, cap, view, held, manifest, late>>

\* The engine read a written piece back, verified it, and calls piece_completed.
Verified(w, t, c) ==
    /\ writer[w].at = "idle"
    /\ t \in entries
    /\ c \in held[t]
    /\ writer' = [writer EXCEPT ![w] = [at |-> "verified", t |-> t, c |-> c]]
    /\ UNCHANGED <<entries, stored, pins, pieces, older, cap, view, held,
                   manifest, late>>

\* piece_completed, in the store: an unknown torrent is an error and ends it.
CompletedStore(w) ==
    /\ writer[w].at = "verified"
    /\ LET t == writer[w].t
       IN  IF t \in entries
           THEN /\ manifest' = [manifest EXCEPT ![t] = @ \cup {writer[w].c}]
                /\ writer' = [writer EXCEPT ![w].at = "marking"]
           ELSE /\ writer' = [writer EXCEPT ![w] = NoWrite]
                /\ UNCHANGED manifest
    /\ UNCHANGED <<entries, stored, pins, pieces, older, cap, view, held, late>>

\* piece_completed, under the mutex: the entry lists the piece as resident.
CompletedMark(w) ==
    /\ writer[w].at = "marking"
    /\ LET t == writer[w].t
       IN  pieces' = IF t \in entries
                     THEN [pieces EXCEPT ![t] = @ \cup {writer[w].c}]
                     ELSE pieces
    /\ writer' = [writer EXCEPT ![w] = NoWrite]
    /\ UNCHANGED <<entries, stored, pins, older, cap, view, held, manifest, late>>

-----------------------------------------------------------------------------
(* Pins. *)

Pin(v, t) ==
    /\ view[v] = None
    /\ t \in entries
    /\ pins' = [pins EXCEPT ![t] = @ + 1]
    /\ view' = [view EXCEPT ![v] = t]
    /\ UNCHANGED <<entries, stored, pieces, older, cap, held, manifest,
                   writer, late>>

\* Faulty variant: the Pin stays usable and drops again.
Unpin_KeepsView(v) ==
    /\ view[v] # None
    /\ pins' = [pins EXCEPT ![view[v]] = @ - 1]
    /\ older' = Touched(view[v])
    /\ UNCHANGED <<entries, stored, pieces, cap, view, held, manifest, writer, late>>

\* Pin::drop unpins the torrent and counts as a read.
Unpin(v) ==
    /\ view[v] # None
    /\ LET t == view[v]
       IN  IF t \in entries
           THEN /\ pins' = [pins EXCEPT ![t] = @ - 1]
                /\ older' = Touched(t)
           ELSE UNCHANGED <<pins, older>>
    /\ view' = [view EXCEPT ![v] = None]
    /\ UNCHANGED <<entries, stored, pieces, cap, held, manifest, writer, late>>

-----------------------------------------------------------------------------
(* The cap and eviction. *)

SetCap(n) ==
    /\ cap' = n
    /\ UNCHANGED <<entries, stored, pins, pieces, older, view, held, manifest,
                   writer, late>>

StoredBytes == MapThenSumSet(LAMBDA t : stored[t], entries)

\* saturating_sub
Less(a, b) == IF a > b THEN a - b ELSE 0

Excess == Less(StoredBytes, cap)

\* Faulty variant: a torrent with a single chunk counts as empty.
Idle_SkipsSmall == {t \in entries : pins[t] = 0 /\ stored[t] > 1}

\* Unpinned torrents that hold something.
Idle == {t \in entries : pins[t] = 0 /\ stored[t] > 0}

\* The loop of eviction_candidates: least recently read first, until what the
\* victims hold covers the excess.
EvictionCandidates ==
    LET byLastRead == CHOOSE s \in [1 .. Cardinality(Idle) -> Idle] :
                        \A i, j \in DOMAIN s : i < j => <<s[i], s[j]>> \in older
        visit(acc, t) ==
          IF acc.excess = 0 THEN acc
          ELSE [excess  |-> Less(acc.excess, stored[t]),
                victims |-> Append(acc.victims, t)]
    IN  Seqs!FoldLeft(visit, [excess |-> Excess, victims |-> <<>>], byLastRead).victims

\* Faulty variant: the pin is not looked at.
Remove_EvenWatched(t) ==
    /\ t \in entries
    /\ entries' = entries \ {t}
    /\ held' = [held EXCEPT ![t] = {}]
    /\ manifest' = [manifest EXCEPT ![t] = {}]
    /\ pieces' = [pieces EXCEPT ![t] = {}]
    /\ stored' = [stored EXCEPT ![t] = 0]
    /\ older' = Untimed(t)
    /\ UNCHANGED <<pins, cap, view, writer, late>>

\* Faulty variant: the store deletes the data and leaves its manifest behind.
Remove_KeepsManifest(t) ==
    /\ t \in entries
    /\ pins[t] = 0
    /\ entries' = entries \ {t}
    /\ held' = [held EXCEPT ![t] = {}]
    /\ pieces' = [pieces EXCEPT ![t] = {}]
    /\ stored' = [stored EXCEPT ![t] = 0]
    /\ older' = Untimed(t)
    /\ UNCHANGED <<pins, cap, view, manifest, writer, late>>

\* Refused while the torrent is pinned.  Otherwise the store drops the bytes
\* and the entry goes; a failing store changes nothing.
Remove(t) ==
    /\ t \in entries
    /\ pins[t] = 0
    /\ entries' = entries \ {t}
    /\ held' = [held EXCEPT ![t] = {}]
    /\ manifest' = [manifest EXCEPT ![t] = {}]
    /\ pieces' = [pieces EXCEPT ![t] = {}]
    /\ stored' = [stored EXCEPT ![t] = 0]
    /\ older' = Untimed(t)
    /\ late' = IF EngineCalls(t) # {} THEN late \cup {t} ELSE late \ {t}
    /\ UNCHANGED <<pins, cap, view, writer>>

-----------------------------------------------------------------------------
(* Start-up. *)

\* Faulty variant: only the owned torrents are kept.
DiscardUnowned_ForgetsOpen(owned) ==
    /\ held' = [t \in Torrents |-> IF t \in owned THEN held[t] ELSE {}]
    /\ manifest' = [t \in Torrents |-> IF t \in owned THEN manifest[t] ELSE {}]
    /\ UNCHANGED <<entries, stored, pins, pieces, older, cap, view, writer, late>>

\* discard_unowned: storage of torrents nobody owns goes; open torrents stay.  What
\* to keep is read under the mutex and the rest is deleted after it (cache.rs:171-175).
\* One step stands for both: the only caller is the start-up of the coordinator, before
\* anybody could open a torrent in between (rustorr-lifecycle lib.rs:222).
DiscardUnowned(owned) ==
    /\ LET keep == owned \cup entries
       IN  /\ held' = [t \in Torrents |-> IF t \in keep THEN held[t] ELSE {}]
           /\ manifest' = [t \in Torrents |-> IF t \in keep THEN manifest[t] ELSE {}]
    /\ UNCHANGED <<entries, stored, pins, pieces, older, cap, view, writer, late>>

\* The process ends and a new one starts: the store's files survive, the
\* registry does not.  The new cap comes from the configuration.
CacheRestart(n) ==
    /\ entries' = {}
    /\ stored' = [t \in Torrents |-> 0]
    /\ pins' = [t \in Torrents |-> 0]
    /\ older' = {}
    /\ cap' = n
    /\ view' = [v \in Views |-> None]
    /\ writer' = [w \in Writers |-> NoWrite]
    /\ pieces' = [t \in Torrents |-> {}]
    /\ UNCHANGED <<held, manifest, late>>

-----------------------------------------------------------------------------
CacheNext ==
    \/ \E t \in Torrents :
         \/ Open(t)
         \/ Read(t)
         \/ Remove(t)
         \/ \E v \in Views : Pin(v, t)
         \/ \E w \in Writers, c \in Chunks : WriteCheck(w, t, c) \/ Verified(w, t, c)
    \/ \E w \in Writers :
         \/ WriteStore(w)
         \/ WriteCredit(w)
         \/ CompletedStore(w)
         \/ CompletedMark(w)
    \/ \E v \in Views : Unpin(v)
    \/ \E n \in Caps : SetCap(n) \/ CacheRestart(n)
    \/ \E owned \in SUBSET Torrents : DiscardUnowned(owned)

CacheSpec == CacheInit /\ [][CacheNext]_cache

-----------------------------------------------------------------------------
(* Properties. *)

\* Entry.pins is exactly the number of live Pin values, and a live Pin always
\* has its entry: the count can never reach zero under a viewer or wrap below
\* zero when a Pin outlives the entry it was taken on (cache.rs:275-292, 470-480).
PinsExact ==
    \A t \in Torrents :
      /\ pins[t] = Cardinality(Watchers(t))
      /\ pins[t] > 0 => t \in entries

\* Recency has no ties: the order eviction sorts by is a strict total order on
\* the open torrents (cache.rs:114-119, "so ordering is exact").
RecencyTotal ==
    /\ older \subseteq entries \X entries
    /\ \A a, b \in entries :
         /\ <<a, b>> \in older => <<b, a>> \notin older
         /\ a # b => <<a, b>> \in older \/ <<b, a>> \in older
    /\ \A a, b, c \in entries :
         <<a, b>> \in older /\ <<b, c>> \in older => <<a, c>> \in older

\* What eviction sees is what the store holds: with the writes between the
\* store and the second critical section added, Entry.stored is the number of
\* chunks held.  It overcounts only after a removal ran inside a write, the
\* late chunk of cache.rs:177-191, and it never undercounts, so the cap sees
\* every byte of an open torrent.
AccountingExact ==
    \A t \in entries :
      LET counted == stored[t] + Cardinality(Uncredited(t))
      IN  /\ counted >= Cardinality(held[t])
          /\ t \notin late => counted = Cardinality(held[t])

\* A piece reported resident has its bytes, and so does every piece a restart
\* would restore, unless a removal ran inside an engine call and the call's
\* second half reached the torrent's next life (cache.rs:217-226).
ResidentHasBytes ==
    \A t \in Torrents \ late : pieces[t] \subseteq held[t] /\ manifest[t] \subseteq held[t]

\* The victims in terms of the policy: t is named iff it is unpinned, holds
\* something, and with everything read before it gone the cache is still over.
ShouldEvict ==
    LET evictable  == {t \in entries : pins[t] = 0 /\ stored[t] > 0}
        earlier(t) == {u \in evictable : <<u, t>> \in older}
        bytes(ts)  == MapThenSumSet(LAMBDA t : stored[t], ts)
    IN  {t \in evictable : cap + bytes(earlier(t)) < bytes(entries)}

\* The loop of eviction_candidates names exactly the least recently read
\* torrents that suffice, each once, in order of recency (cache.rs:370-394,
\* "least recently read first, until the cache would be back under its cap").
CandidatesSound ==
    LET victims == EvictionCandidates
    IN  /\ Seqs!ToSet(victims) = ShouldEvict
        /\ Len(victims) = Cardinality(ShouldEvict)
        /\ \A i, j \in 1 .. Len(victims) :
             i < j => <<victims[i], victims[j]>> \in older

\* Removing every victim brings the cache under its cap, or leaves only what
\* is pinned (cache.rs:370-372).
CandidatesSuffice ==
    LET left == entries \ Seqs!ToSet(EvictionCandidates)
    IN  \/ MapThenSumSet(LAMBDA t : stored[t], left) <= cap
        \/ \A t \in left : pins[t] > 0 \/ stored[t] = 0

\* The loop of eviction_candidates names what the policy names, and enough of it
\* (cache.rs:364-394).
CandidatesRight == CandidatesSound /\ CandidatesSuffice

\* A step seen by the viewers who keep their pin over it.
KeepsWatched ==
    \A v \in Views :
      view[v] # None /\ view'[v] = view[v] => /\ view[v] \in entries'
                                             /\ held[view[v]] \subseteq held'[view[v]]

\* While a viewer keeps its pin, nothing it could read goes away: no open,
\* removal, clean-up or cap change takes bytes of a watched torrent
\* (cache.rs:259-262, 396-410).
WatchedKeepsData == [][KeepsWatched]_cache
=============================================================================
