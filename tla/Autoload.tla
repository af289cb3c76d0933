------------------------------ MODULE Autoload ------------------------------
(* The watched directory of .torrent files (rustorr-lifecycle: autoload.rs): *)
(* polled, a file that looks the same at two polls is added to the catalog,  *)
(* unloaded and deleted. Others write, replace and remove files meanwhile.   *)
(* A server that was started read-only watches the directory all the same.   *)
EXTENDS Integers

CONSTANTS
    Paths,
    Contents,   \* torrents; a Signature tells writes apart, not torrents
    MaxStamp,   \* bound: signatures that are told apart
    Untouched,  \* nobody touches a file while it is being loaded
    NotThere

VARIABLES
    persists,   \* the server was not started read-only (read_only of the coordinator)
    torrentFile, \* path -> what is there: content, whether it is whole, signature
    stamp,      \* the last signature given to a write
    seen,       \* path -> the signature it was taken with
    sighted,    \* path -> the signature of the poll before
    watcher,    \* the poll loop and the file it loads
    saved,      \* the torrents of the catalog
    admitted,   \* history: the torrents the coordinator added from a file
    lost        \* history: torrents whose file was deleted and that are not saved

autoloadVars == <<persists, torrentFile, stamp, seen, sighted, watcher, saved, admitted, lost>>

Sleeps == [at |-> "sleeps"]
Looks(listed) == [at |-> "looks", listed |-> listed]
Nowhere == [p \in Paths |-> NotThere]
Present(files) == {p \in Paths : files[p] # NotThere}

\* Files that are there at the start are not taken until they change.
AutoloadInit ==
    /\ persists \in BOOLEAN
    /\ torrentFile \in [Paths -> {NotThere} \cup {[content |-> c, whole |-> TRUE, signature |-> 0] : c \in Contents}]
    /\ stamp = 0
    /\ seen = [p \in Paths |-> IF torrentFile[p] = NotThere THEN NotThere ELSE 0]
    /\ sighted = Nowhere
    /\ watcher = Sleeps
    /\ saved = {} /\ admitted = {} /\ lost = {}

AutoloadTypeOK ==
    /\ \A p \in Paths : seen[p] # NotThere => seen[p] \in 0 .. stamp
    /\ \A p \in Paths : sighted[p] # NotThere => sighted[p] \in 1 .. stamp
    /\ persists \in BOOLEAN
    /\ saved \cup admitted \cup lost \subseteq Contents
    /\ watcher.at \in {"sleeps", "looks", "loads", "read", "added"}

-----------------------------------------------------------------------------
(* Whoever puts files there. *)

Loads(p) == watcher.at \in {"loads", "read", "added"} /\ watcher.path = p

\* A write, of all of a file or a part; the last one makes it whole.
Put(p, c, whole) ==
    /\ Untouched => ~ Loads(p)
    /\ stamp < MaxStamp
    /\ stamp' = stamp + 1
    /\ torrentFile' = [torrentFile EXCEPT ![p] = [content |-> c, whole |-> whole, signature |-> stamp']]
    /\ UNCHANGED <<seen, sighted, watcher, saved, admitted, lost, persists>>

TakeAway(p) ==
    /\ Untouched => ~ Loads(p)
    /\ torrentFile[p] # NotThere
    /\ torrentFile' = [torrentFile EXCEPT ![p] = NotThere]
    /\ UNCHANGED <<stamp, seen, sighted, watcher, saved, admitted, lost, persists>>

-----------------------------------------------------------------------------
(* The watcher. *)

Poll ==
    /\ watcher = Sleeps
    /\ watcher' = Looks([p \in Present(torrentFile) |-> torrentFile[p].signature])
    /\ sighted' = [p \in Paths |-> IF torrentFile[p] = NotThere THEN NotThere ELSE sighted[p]]
    /\ UNCHANGED <<torrentFile, stamp, seen, saved, admitted, lost, persists>>

\* What is left of the listing, the file at hand or the sleep.
Continue(listed) == IF DOMAIN listed = {} THEN Sleeps ELSE Looks(listed)
Rest(p) == [q \in DOMAIN watcher.listed \ {p} |-> watcher.listed[q]]

Look(p) ==
    /\ watcher.at = "looks" /\ p \in DOMAIN watcher.listed
    /\ LET signature == watcher.listed[p]
       IN  \/ /\ seen[p] = signature
              /\ watcher' = Continue(Rest(p))
              /\ UNCHANGED <<seen, sighted>>
           \/ /\ seen[p] # signature /\ sighted[p] = signature
              /\ sighted' = [sighted EXCEPT ![p] = NotThere]
              /\ seen' = [seen EXCEPT ![p] = signature]
              /\ watcher' = [at |-> "loads", path |-> p, listed |-> Rest(p)]
           \/ /\ seen[p] # signature /\ sighted[p] # signature
              /\ sighted' = [sighted EXCEPT ![p] = signature]
              /\ watcher' = Continue(Rest(p))
              /\ UNCHANGED seen
    /\ UNCHANGED <<torrentFile, stamp, saved, admitted, lost, persists>>

Wakes ==
    /\ watcher.at = "looks" /\ DOMAIN watcher.listed = {}
    /\ watcher' = Sleeps
    /\ UNCHANGED <<torrentFile, stamp, seen, sighted, saved, admitted, lost, persists>>

ReadFile ==
    /\ watcher.at = "loads"
    /\ watcher' = IF torrentFile[watcher.path] = NotThere THEN Continue(watcher.listed)
                  ELSE [at |-> "read", path |-> watcher.path, listed |-> watcher.listed,
                        bytes |-> torrentFile[watcher.path]]
    /\ UNCHANGED <<torrentFile, stamp, seen, sighted, saved, admitted, lost, persists>>

\* persist does nothing in read-only mode, and says that it went well.
PersistTorrent(c) ==
    /\ admitted' = admitted \cup {c}
    /\ saved' = IF persists THEN saved \cup {c} ELSE saved

\* Faulty variant: a file that cannot be added is removed like the others.
AddMetainfo_AlwaysGoesOn ==
    /\ watcher.at = "read"
    /\ watcher' = [at |-> "added", path |-> watcher.path, listed |-> watcher.listed]
    /\ \/ watcher.bytes.whole /\ PersistTorrent(watcher.bytes.content)
       \/ UNCHANGED <<saved, admitted>>
    /\ UNCHANGED <<torrentFile, stamp, seen, sighted, lost, persists>>

\* Part of a file is no torrent, and the coordinator may refuse a whole one.
AddMetainfo ==
    /\ watcher.at = "read"
    /\ \/ /\ watcher.bytes.whole
          /\ PersistTorrent(watcher.bytes.content)
          /\ watcher' = [at |-> "added", path |-> watcher.path, listed |-> watcher.listed]
       \/ watcher' = Continue(watcher.listed) /\ UNCHANGED <<saved, admitted>>
    /\ UNCHANGED <<torrentFile, stamp, seen, sighted, lost, persists>>

\* The torrent is unloaded, which takes its time; then the file goes.
Delete ==
    /\ watcher.at = "added"
    /\ LET there == torrentFile[watcher.path]
       IN  lost' = IF there = NotThere \/ there.content \in saved THEN lost ELSE lost \cup {there.content}
    /\ torrentFile' = [torrentFile EXCEPT ![watcher.path] = NotThere]
    /\ watcher' = Continue(watcher.listed)
    /\ UNCHANGED <<stamp, seen, sighted, saved, admitted, persists>>

AutoloadNext ==
    \/ \E p \in Paths :
         \/ \E c \in Contents, whole \in BOOLEAN : Put(p, c, whole)
         \/ TakeAway(p) \/ Look(p)
    \/ Poll \/ Wakes \/ ReadFile \/ AddMetainfo \/ Delete

AutoloadSpec == AutoloadInit /\ [][AutoloadNext]_autoloadVars

-----------------------------------------------------------------------------
(* Properties. *)

\* A file the watcher deletes is one whose torrent it has added: a file that
\* could not be read or added stays, and so does one that was not finished; and
\* what it added is saved (autoload.rs:1-2, 45-73: "every .torrent file that
\* appears in a directory is saved to the catalog, unloaded, and deleted"), but
\* not in read-only mode.  There persist returns Ok without saving (lib.rs:560-563)
\* and the file, the only thing left of the torrent, is deleted with the rest.
DeletedIsSaved ==
    /\ lost \subseteq admitted
    /\ persists => lost = {}

=============================================================================
