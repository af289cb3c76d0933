---------------------------- MODULE TorrentFuse ----------------------------
(* The open files of the mounted torrent file system (rustorr-fuse). A      *)
(* handle keeps the reader of its last read and where it believes that      *)
(* reader to be; a read that continues there uses it again, any other read  *)
(* asks the core for a new one. The kernel may have several reads and a     *)
(* release of one handle under way.                                         *)
EXTENDS Integers

CONSTANTS
    Handles,    \* next_handle counts, so a number is never used twice
    Threads,    \* the kernel's reads under way
    FileSize,   \* bytes of the file
    Sizes,      \* how much a read may ask for
    Faults,     \* {"between"}: a reader may fail after part of a read
    Nil

VARIABLES
    open,       \* handle -> OpenFile, Nil until it is opened
    files,      \* the handles TorrentFuse.files lists
    holder,     \* handle -> the read that holds the mutex of its OpenFile
    read        \* thread -> the read it is in, or its answer

fuseVars == <<open, files, holder, read>>

NoRead == [at |-> "idle"]
Ready == [reader |-> Nil]

FuseInit ==
    /\ open = [h \in Handles |-> Nil]
    /\ files = {}
    /\ holder = [h \in Handles |-> Nil]
    /\ read = [w \in Threads |-> NoRead]

FuseTypeOK ==
    /\ files \subseteq {h \in Handles : open[h] # Nil}
    /\ \A h \in Handles : open[h] \notin {Nil, Ready} =>
         /\ open[h].reader.at \in 0 .. FileSize
         /\ open[h].reader.position \in 0 .. FileSize
    /\ \A h \in Handles : holder[h] # Nil => read[holder[h]].handle = h

Least(a, b) == IF a < b THEN a ELSE b

-----------------------------------------------------------------------------
FuseOpen(h) ==
    /\ open[h] = Nil
    /\ open' = [open EXCEPT ![h] = Ready]
    /\ files' = files \cup {h}
    /\ UNCHANGED <<holder, read>>

\* A reply; the mutex is let go with it.
Answered(w, reply) ==
    /\ read' = [read EXCEPT ![w] = reply]
    /\ holder' = [holder EXCEPT ![read[w].handle] = Nil]

Failed(w) == Answered(w, NoRead)

Data(w, from, count) ==
    Answered(w, [at |-> "answered", handle |-> read[w].handle, offset |-> read[w].offset,
                 size |-> read[w].size, from |-> from, count |-> count])

\* The handle is looked up; the read keeps its OpenFile whatever becomes of
\* the entry.
ReadBegins(w, h, offset, size) ==
    /\ read[w].at \in {"idle", "answered"}
    /\ h \in files
    /\ read' = [read EXCEPT ![w] = [at |-> "begun", handle |-> h, offset |-> offset, size |-> size]]
    /\ UNCHANGED <<open, files, holder>>

\* Faulty variant: a reader is used again wherever it is.
Reuses_Any(h, offset) == open[h].reader # Nil

Reuses(h, offset) == open[h].reader # Nil /\ open[h].reader.position = offset

\* read_at up to its first bytes: nothing past the end, else the reader at
\* hand or a new one.
LockReader(w) ==
    LET h == read[w].handle
        offset == read[w].offset
    IN  /\ read[w].at = "begun"
        /\ holder[h] = Nil
        /\ IF offset >= FileSize
             THEN Data(w, offset, 0) /\ UNCHANGED open
             ELSE /\ open' = IF Reuses(h, offset) THEN open
                               ELSE [open EXCEPT ![h].reader = [at |-> offset, position |-> offset]]
                  /\ holder' = [holder EXCEPT ![h] = w]
                  /\ read' = [read EXCEPT ![w] =
                       [at |-> "reads", handle |-> h, offset |-> offset, size |-> read[w].size,
                        from |-> open'[h].reader.at, filled |-> 0]]
        /\ UNCHANGED files

\* The core gives no reader: the one at hand stays.
NoReader(w) ==
    LET h == read[w].handle
    IN  /\ read[w].at = "begun" /\ holder[h] = Nil
        /\ read[w].offset < FileSize /\ ~ Reuses(h, read[w].offset)
        /\ Failed(w)
        /\ UNCHANGED <<open, files>>

WantedBytes(w) == Least(read[w].size, FileSize - read[w].offset)
Stream(w) == open[read[w].handle].reader

\* The reader gives some of the bytes that are missing.
Fill(w, count) ==
    /\ read[w].at = "reads"
    /\ count \in 1 .. Least(WantedBytes(w) - read[w].filled, FileSize - Stream(w).at)
    /\ open' = [open EXCEPT ![read[w].handle].reader.at = @ + count]
    /\ read' = [read EXCEPT ![w].filled = @ + count]
    /\ UNCHANGED <<files, holder>>

\* All there is, or the reader is at its end.
Reply(w) ==
    /\ read[w].at = "reads"
    /\ read[w].filled = WantedBytes(w) \/ Stream(w).at = FileSize
    /\ open' = [open EXCEPT ![read[w].handle].reader.position = @ + read[w].filled]
    /\ Data(w, read[w].from, read[w].filled)
    /\ UNCHANGED files

\* The reader fails: EIO, and what was read is not counted.
Error(w) ==
    /\ read[w].at = "reads"
    /\ read[w].filled < WantedBytes(w)
    /\ read[w].filled = 0 \/ "between" \in Faults
    /\ Failed(w)
    /\ UNCHANGED <<open, files>>

FuseRelease(h) ==
    /\ h \in files
    /\ files' = files \ {h}
    /\ UNCHANGED <<open, holder, read>>

FuseNext ==
    \/ \E h \in Handles : FuseOpen(h) \/ FuseRelease(h)
    \/ \E w \in Threads :
         \/ \E h \in Handles, offset \in 0 .. FileSize, size \in Sizes : ReadBegins(w, h, offset, size)
         \/ LockReader(w) \/ NoReader(w)
         \/ \E count \in 1 .. FileSize : Fill(w, count)
         \/ Reply(w) \/ Error(w)

FuseSpec == FuseInit /\ [][FuseNext]_fuseVars

-----------------------------------------------------------------------------
(* Properties. *)

\* A read is answered with the bytes at its offset, as many as it asked for
\* or the file has left, whatever reads of the handle went before it and
\* however they ended (fuse lib.rs:441-480: "reusing the handle's reader when
\* the read continues where the last one ended").
ReadsAtOffset ==
    \A w \in Threads : read[w].at = "answered" =>
        /\ read[w].count > 0 => read[w].from = read[w].offset
        /\ read[w].count = IF read[w].offset >= FileSize THEN 0 ELSE WantedBytes(w)

=============================================================================
