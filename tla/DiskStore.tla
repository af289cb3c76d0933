----------------------------- MODULE DiskStore -----------------------------
(***************************************************************************)
(* The store the cache keeps its bytes in when it has a disk               *)
(* (crates/rustorr-cache/src/disk.rs): a directory per torrent with the    *)
(* data and a manifest that says which bytes and pieces are there.         *)
(*                                                                         *)
(* Opening, removing and the clean-up at start are called by the cache one *)
(* at a time.  The engine's threads write, read and complete pieces at the *)
(* same time; they hold the torrent's handle (an Arc) over their steps,    *)
(* also when the torrent is removed and opened again meanwhile.  The       *)
(* process may die between any two steps; the files stay as they are.      *)
(*                                                                         *)
(* A torrent's data is one file of Length bytes.                           *)
(***************************************************************************)
EXTENDS Extents

CONSTANTS
    Torrents,
    Arcs,           \* identities of Arc<Mutex<Torrent>>
    Workers,        \* engine threads
    Length,         \* bytes of a torrent, at least one
    PieceLength,    \* bytes of a piece, at least one
    Quiet,          \* removals keep clear of engine calls, as store.rs asks
    Nothing         \* no handle, no thread

ASSUME DiskConstants ==
    /\ Length \in Nat \ {0} /\ PieceLength \in Nat \ {0}
    /\ Quiet \in BOOLEAN
    /\ Nothing \notin Arcs \cup Workers

VARIABLES
    disk,       \* per torrent: the directory and what is in it
    torrents,   \* DiskStore.torrents: the handle of an open torrent, or Nothing
    mem,        \* what each handle says: extents and completed pieces
    mutex,      \* the thread that holds a handle's mutex, or Nothing
    thread,     \* the engine's calls in progress
    op,         \* the cache's call in progress: open, remove or clean-up
    entries,    \* the torrents the cache lists
    credited,   \* the bytes the cache was told of, per torrent
    acked,      \* history: bytes whose write returned Ok, per torrent
    erred       \* history: torrents with a failed manifest since they were opened

diskVars == <<disk, torrents, mem, mutex, thread, op, entries, credited, acked, erred>>

-----------------------------------------------------------------------------
Pieces == 0 .. PieceCount(Length, PieceLength) - 1

Record(extents, completed) == [extents |-> extents, completed |-> completed]
Blank == Record({}, {})

\* A manifest or its temporary: absent, cut short, or whole.
NoFile == [state |-> "none"]
CutFile == [state |-> "cut"]
Whole(record) == [state |-> "whole", record |-> record]

\* good: the offsets that hold data; the others up to the last one are holes.
NoDir == [dir |-> FALSE, good |-> {}, manifest |-> NoFile, tmp |-> NoFile]

FileLength(t) == IF disk[t].good = {} THEN 0
                 ELSE (CHOOSE i \in disk[t].good : \A j \in disk[t].good : j <= i) + 1

NoCall == [at |-> "idle"]
Free == [at |-> "free"]

DiskTypeOK ==
    /\ \A t \in Torrents :
         /\ disk[t].dir \in BOOLEAN
         /\ disk[t].good \subseteq 0 .. Length - 1
         /\ ~disk[t].dir => disk[t] = NoDir
    /\ torrents \in [Torrents -> Arcs \cup {Nothing}]
    /\ DOMAIN mem = Arcs
    /\ \A h \in Arcs : Canonical(mem[h].extents) /\ mem[h].completed \subseteq Pieces
    /\ mutex \in [Arcs -> Workers \cup {Nothing}]
    /\ DOMAIN thread = Workers
    /\ entries \subseteq Torrents /\ erred \subseteq Torrents
    /\ credited \in [Torrents -> Nat]
    /\ acked \in [Torrents -> SUBSET (0 .. Length - 1)]

DiskInit ==
    /\ disk = [t \in Torrents |-> NoDir]
    /\ torrents = [t \in Torrents |-> Nothing]
    /\ mem = [h \in Arcs |-> Blank]
    /\ mutex = [h \in Arcs |-> Nothing]
    /\ thread = [w \in Workers |-> NoCall]
    /\ op = [at |-> "boot"]
    /\ entries = {}
    /\ credited = [t \in Torrents |-> 0]
    /\ acked = [t \in Torrents |-> {}]
    /\ erred = {}

Calls(t) == {w \in Workers : thread[w].at # "idle" /\ thread[w].t = t}

InUse == {torrents[t] : t \in Torrents}
           \cup {thread[w].h : w \in {v \in Workers : thread[v].at # "idle"}}
           \cup (IF op.at = "clear" THEN {op.h} ELSE {})

\* A handle's mutex: a thread that writes the manifest holds it, and so does a
\* removal while it clears the directory.
MutexHeld(h) == mutex[h] # Nothing \/ (op.at = "clear" /\ op.kind = "remove" /\ op.h = h)

-----------------------------------------------------------------------------
(* Opening and restoring. *)

\* restore: what a valid manifest vouches for.  One that was cut short, that is
\* not canonical or that speaks of bytes beyond the file is not accepted.
Restored(t) ==
    LET m    == disk[t].manifest
        read == FromSpans(m.record.extents)
    IN  IF /\ m.state = "whole"
           /\ read.ok
           /\ \A s \in read.spans : s[2] <= Length /\ s[2] <= FileLength(t)
        THEN [ok |-> TRUE, record |-> Record(read.spans, m.record.completed)]
        ELSE [ok |-> FALSE]

\* open: an unopened torrent is restored; without an accepted manifest, and for
\* a torrent that is open already, the directory is cleared first.
Open(t) ==
    /\ op = Free
    /\ t \notin entries
    /\ op' = IF torrents[t] = Nothing /\ Restored(t).ok
             THEN [at |-> "create", t |-> t, record |-> Restored(t).record]
             ELSE [at |-> "clear", kind |-> "open", t |-> t, h |-> Nothing]
    /\ UNCHANGED <<disk, torrents, mem, mutex, thread, entries, credited, acked, erred>>

\* open, its end: the directory is there, the new handle replaces any other.
OpenCreate(h) ==
    /\ op.at = "create"
    /\ h \notin InUse
    /\ disk' = [disk EXCEPT ![op.t].dir = TRUE]
    /\ torrents' = [torrents EXCEPT ![op.t] = h]
    /\ mem' = [mem EXCEPT ![h] = op.record]
    /\ entries' = entries \cup {op.t}
    /\ credited' = [credited EXCEPT ![op.t] = Size(op.record.extents)]
    /\ erred' = erred \ {op.t}
    /\ op' = Free
    /\ UNCHANGED <<mutex, thread, acked>>

\* open, when the directory cannot be created.
OpenFails ==
    /\ op.at = "create"
    /\ op' = Free
    /\ UNCHANGED <<disk, torrents, mem, mutex, thread, entries, credited, acked, erred>>

(* Removing. *)

\* remove, first half: the handle leaves the map.  Without one there is nothing
\* to do, and the cache drops its entry.
Remove(t) ==
    /\ op = Free
    /\ t \in entries
    /\ Quiet => Calls(t) = {}
    /\ torrents' = [torrents EXCEPT ![t] = Nothing]
    /\ acked' = [acked EXCEPT ![t] = {}]
    /\ IF torrents[t] = Nothing
       THEN /\ op' = Free
            /\ entries' = entries \ {t}
       ELSE /\ mutex[torrents[t]] = Nothing
            /\ op' = [at |-> "clear", kind |-> "remove", t |-> t, h |-> torrents[t]]
            /\ UNCHANGED entries
    /\ UNCHANGED <<disk, mem, mutex, thread, credited, erred>>

\* remove_dir_all deletes one thing after another, in any order.
Clear ==
    /\ op.at = "clear"
    /\ disk[op.t].dir
    /\ LET d == disk[op.t]
       IN  \/ disk' = [disk EXCEPT ![op.t].good = {}]
           \/ disk' = [disk EXCEPT ![op.t].manifest = NoFile]
           \/ disk' = [disk EXCEPT ![op.t].tmp = NoFile]
           \/ d = [NoDir EXCEPT !.dir = TRUE] /\ disk' = [disk EXCEPT ![op.t] = NoDir]
    /\ UNCHANGED <<torrents, mem, mutex, thread, op, entries, credited, acked, erred>>

\* It fails: an open or a removal ends with an error, the clean-up ends.
ClearFails ==
    /\ op.at = "clear"
    /\ disk[op.t].dir
    /\ op' = Free
    /\ UNCHANGED <<disk, torrents, mem, mutex, thread, entries, credited, acked, erred>>

Cleared ==
    /\ op.at = "clear"
    /\ ~disk[op.t].dir
    /\ op' = CASE op.kind = "open"    -> [at |-> "create", t |-> op.t, record |-> Blank]
               [] op.kind = "remove"  -> Free
               [] op.kind = "discard" -> [at |-> "discard", keep |-> op.keep]
    /\ entries' = IF op.kind = "remove" THEN entries \ {op.t} ELSE entries
    /\ UNCHANGED <<disk, torrents, mem, mutex, thread, credited, acked, erred>>

-----------------------------------------------------------------------------
(* Start-up. *)

\* discard_except: what an earlier process left for torrents outside keep goes.
Boot(keep) ==
    /\ op.at = "boot"
    /\ op' = [at |-> "discard", keep |-> keep]
    /\ acked' = [t \in Torrents |-> IF t \in keep THEN acked[t] ELSE {}]
    /\ UNCHANGED <<disk, torrents, mem, mutex, thread, entries, credited, erred>>

Discard ==
    /\ op.at = "discard"
    /\ LET left == {t \in Torrents : disk[t].dir /\ t \notin op.keep /\ torrents[t] = Nothing}
       IN  IF left = {} THEN op' = Free
           ELSE \E t \in left :
                  op' = [at |-> "clear", kind |-> "discard", t |-> t, h |-> Nothing,
                         keep |-> op.keep]
    /\ UNCHANGED <<disk, torrents, mem, mutex, thread, entries, credited, acked, erred>>

\* The process dies: the files stay.
Crash ==
    /\ torrents' = [t \in Torrents |-> Nothing]
    /\ mem' = [h \in Arcs |-> Blank]
    /\ mutex' = [h \in Arcs |-> Nothing]
    /\ thread' = [w \in Workers |-> NoCall]
    /\ op' = [at |-> "boot"]
    /\ entries' = {}
    /\ credited' = [t \in Torrents |-> 0]
    /\ erred' = {}
    /\ UNCHANGED <<disk, acked>>

-----------------------------------------------------------------------------
(* The engine's calls. *)

\* Faulty variant: the bounds of the file are not checked.
BeginWrite_Unbounded(w, t, a, b) ==
    /\ thread[w] = NoCall
    /\ t \in entries
    /\ torrents[t] # Nothing
    /\ a < b
    /\ thread' = [thread EXCEPT ![w] =
         [at |-> "data", t |-> t, h |-> torrents[t], a |-> a, b |-> b]]
    /\ UNCHANGED <<disk, torrents, mem, mutex, op, entries, credited, acked, erred>>

\* write, first: the handle, the layout and the bounds.
BeginWrite(w, t, a, b) ==
    /\ thread[w] = NoCall
    /\ t \in entries
    /\ torrents[t] # Nothing
    /\ InFile(a, b, Length) /\ a < b
    /\ thread' = [thread EXCEPT ![w] =
         [at |-> "data", t |-> t, h |-> torrents[t], a |-> a, b |-> b]]
    /\ UNCHANGED <<disk, torrents, mem, mutex, op, entries, credited, acked, erred>>

\* The bytes go to the file, all of them, or some and an error; without the
\* directory the file cannot be created.
WriteData(w) ==
    /\ thread[w].at = "data"
    /\ LET t == thread[w].t
           put(k) == disk' = [disk EXCEPT ![t].good = @ \cup Bytes(thread[w].a, k)]
       IN  \/ /\ disk[t].dir
              /\ put(thread[w].b)
              /\ thread' = [thread EXCEPT ![w].at = "index"]
           \/ /\ disk[t].dir
              /\ \E k \in thread[w].a .. thread[w].b : put(k)
              /\ thread' = [thread EXCEPT ![w] = NoCall]
           \/ /\ ~disk[t].dir
              /\ thread' = [thread EXCEPT ![w] = NoCall]
              /\ UNCHANGED disk
    /\ UNCHANGED <<torrents, mem, mutex, op, entries, credited, acked, erred>>

\* write, under the handle's mutex: the range counts as stored from here.
WriteIndex(w) ==
    /\ thread[w].at = "index"
    /\ LET h == thread[w].h
           a == thread[w].a
           b == thread[w].b
       IN  /\ ~MutexHeld(h)
           /\ mem' = [mem EXCEPT ![h].extents = Insert(@, a, b)]
           /\ mutex' = [mutex EXCEPT ![h] = w]
           /\ thread' = [thread EXCEPT ![w] =
                [at |-> "manifest", t |-> thread[w].t, h |-> h, a |-> a, b |-> b,
                 added |-> Added(mem[h].extents, a, b)]]
    /\ UNCHANGED <<disk, torrents, op, entries, credited, acked, erred>>

\* piece_completed: the engine has read the piece back and verified it.
BeginComplete(w, t, p) ==
    /\ thread[w] = NoCall
    /\ t \in entries
    /\ torrents[t] # Nothing
    /\ PieceBytes(p, PieceLength, Length)
         \subseteq disk[t].good \cap Covered(mem[torrents[t]].extents)
    /\ thread' = [thread EXCEPT ![w] = [at |-> "mark", t |-> t, h |-> torrents[t], p |-> p]]
    /\ UNCHANGED <<disk, torrents, mem, mutex, op, entries, credited, acked, erred>>

MarkPiece(w) ==
    /\ thread[w].at = "mark"
    /\ LET h == thread[w].h
       IN  /\ ~MutexHeld(h)
           /\ mem' = [mem EXCEPT ![h].completed = @ \cup {thread[w].p}]
           /\ mutex' = [mutex EXCEPT ![h] = w]
           /\ thread' = [thread EXCEPT ![w] =
                [at |-> "manifest", t |-> thread[w].t, h |-> h, a |-> 0, b |-> 0, added |-> 0]]
    /\ UNCHANGED <<disk, torrents, op, entries, credited, acked, erred>>

\* Another handle of the torrent is writing the same temporary file.
Contended(w) ==
    \E v \in Calls(thread[w].t) \ {w} : thread[v].at \in {"manifest", "rename"}

\* Faulty variant: the manifest itself is created anew and filled.
WriteTemporary_InPlace(w) ==
    /\ thread[w].at = "manifest"
    /\ disk[thread[w].t].dir
    /\ disk' = [disk EXCEPT ![thread[w].t].manifest = CutFile,
                            ![thread[w].t].tmp = Whole(mem[thread[w].h])]
    /\ thread' = [thread EXCEPT ![w].at = "rename"]
    /\ UNCHANGED <<torrents, mem, mutex, op, entries, credited, acked, erred>>

\* write_manifest, up to the sync: the temporary file holds what the handle says.
WriteTemporary(w) ==
    /\ thread[w].at = "manifest"
    /\ LET t == thread[w].t
       IN  /\ disk[t].dir
           /\ \E file \in {Whole(mem[thread[w].h])} \cup (IF Contended(w) THEN {CutFile} ELSE {}) :
                disk' = [disk EXCEPT ![t].tmp = file]
    /\ thread' = [thread EXCEPT ![w].at = "rename"]
    /\ UNCHANGED <<torrents, mem, mutex, op, entries, credited, acked, erred>>

\* write_manifest, the rename: the call returns Ok and the cache counts.
Rename(w) ==
    /\ thread[w].at = "rename"
    /\ LET t == thread[w].t
           c == thread[w]
       IN  /\ disk[t].tmp # NoFile
           /\ disk' = [disk EXCEPT ![t].manifest = disk[t].tmp, ![t].tmp = NoFile]
           /\ credited' = IF t \in entries
                          THEN [credited EXCEPT ![t] = @ + c.added] ELSE credited
           /\ acked' = IF torrents[t] = c.h
                       THEN [acked EXCEPT ![t] = @ \cup Bytes(c.a, c.b)] ELSE acked
           /\ mutex' = [mutex EXCEPT ![c.h] = Nothing]
    /\ thread' = [thread EXCEPT ![w] = NoCall]
    /\ UNCHANGED <<torrents, mem, op, entries, erred>>

\* A step of write_manifest fails: the call returns an error, the extents keep
\* the range and the cache is not told of it.  A temporary file left behind is
\* never read: CutFile stands for it.
ManifestFails(w) ==
    /\ thread[w].at \in {"manifest", "rename"}
    /\ LET t == thread[w].t
       IN  /\ disk' = IF disk[t].dir THEN [disk EXCEPT ![t].tmp = CutFile] ELSE disk
           /\ mutex' = [mutex EXCEPT ![thread[w].h] = Nothing]
           /\ erred' = erred \cup {t}
    /\ thread' = [thread EXCEPT ![w] = NoCall]
    /\ UNCHANGED <<torrents, mem, op, entries, credited, acked>>

\* Faulty variant: the extents are not asked.
BeginRead_Unchecked(w, t, a, b) ==
    /\ thread[w] = NoCall
    /\ t \in entries
    /\ torrents[t] # Nothing
    /\ InFile(a, b, Length) /\ a < b
    /\ thread' = [thread EXCEPT ![w] =
         [at |-> "reading", t |-> t, h |-> torrents[t], a |-> a, b |-> b]]
    /\ UNCHANGED <<disk, torrents, mem, mutex, op, entries, credited, acked, erred>>

\* read, under the handle's mutex: only bytes the extents cover.
BeginRead(w, t, a, b) ==
    /\ thread[w] = NoCall
    /\ t \in entries
    /\ torrents[t] # Nothing
    /\ ~MutexHeld(torrents[t])
    /\ InFile(a, b, Length) /\ a < b
    /\ Covers(mem[torrents[t]].extents, a, b)
    /\ thread' = [thread EXCEPT ![w] =
         [at |-> "reading", t |-> t, h |-> torrents[t], a |-> a, b |-> b]]
    /\ UNCHANGED <<disk, torrents, mem, mutex, op, entries, credited, acked, erred>>

\* The file is opened and read to the range's end, or is too short for it.
EndRead(w) ==
    /\ thread[w].at = "reading"
    /\ thread' = [thread EXCEPT ![w] = NoCall]
    /\ UNCHANGED <<disk, torrents, mem, mutex, op, entries, credited, acked, erred>>

-----------------------------------------------------------------------------
CacheCall ==
    \/ \E t \in Torrents : Open(t) \/ Remove(t)
    \/ \E h \in Arcs : OpenCreate(h)
    \/ \E keep \in SUBSET Torrents : Boot(keep)
    \/ OpenFails
    \/ Clear
    \/ ClearFails
    \/ Cleared
    \/ Discard

EngineCall(w) ==
    \/ \E t \in Torrents, a, b \in 0 .. Length + 1 :
         BeginWrite(w, t, a, b) \/ BeginRead(w, t, a, b)
    \/ \E t \in Torrents, p \in Pieces : BeginComplete(w, t, p)
    \/ WriteData(w)
    \/ WriteIndex(w)
    \/ MarkPiece(w)
    \/ WriteTemporary(w)
    \/ Rename(w)
    \/ ManifestFails(w)
    \/ EndRead(w)

DiskNext ==
    \/ CacheCall
    \/ \E w \in Workers : EngineCall(w)
    \/ Crash

DiskSpec == DiskInit /\ [][DiskNext]_diskVars

-----------------------------------------------------------------------------
(* Properties. *)

\* Whatever the disk looks like, half written or half removed, a manifest that
\* restore accepts speaks only of bytes that are in the file, and lists only
\* pieces all of whose bytes it covers (disk.rs:138-205, "open recovers only
\* what a valid manifest proves").
RestoreSound ==
    \A t \in Torrents :
      Restored(t).ok =>
        LET r == Restored(t).record
        IN  /\ Covered(r.extents) \subseteq disk[t].good
            /\ \A p \in r.completed :
                 PieceBytes(p, PieceLength, Length) \subseteq Covered(r.extents)

\* A range whose write returned Ok is restored after a crash at any later
\* moment, also in the middle of another thread's write, until the torrent is
\* removed (disk.rs:269-305, 197-205).
AckedSurvives ==
    \A t \in Torrents :
      acked[t] \subseteq IF Restored(t).ok THEN Covered(Restored(t).record.extents) ELSE {}

\* A read that passed the check meets data or the end of the file, never a
\* hole that would be returned as zeros (disk.rs:307-335, store.rs:10-12).
ReadsData ==
    \A w \in Workers :
      thread[w].at = "reading" =>
        \/ Bytes(thread[w].a, thread[w].b) \subseteq disk[thread[w].t].good
        \/ thread[w].b > FileLength(thread[w].t)

Pending(h) == {w \in Workers : thread[w].at \in {"manifest", "rename"} /\ thread[w].h = h}

\* The store tells the cache of each byte once: what it reported, with what the
\* running call is about to report, is what the extents count, and less only
\* after a manifest could not be written (disk.rs:301-304, extents.rs:42-76).
CreditedOnce ==
    \A t \in entries :
      torrents[t] # Nothing =>
        LET h       == torrents[t]
            counted == credited[t] + (IF \E w \in Pending(h) : TRUE
                                      THEN thread[CHOOSE w \in Pending(h) : TRUE].added
                                      ELSE 0)
        IN  /\ counted <= Cardinality(Covered(mem[h].extents))
            /\ t \notin erred => counted = Cardinality(Covered(mem[h].extents))

\* A crash at any moment leaves a store whose manifest says what is there, and
\* every acknowledged byte in it (disk.rs:138-205, 269-305).
CrashSafe == RestoreSound /\ AckedSurvives

\* What the running store hands out and reports is what it has (disk.rs:301-335).
StoreExact == ReadsData /\ CreditedOnce
=============================================================================
