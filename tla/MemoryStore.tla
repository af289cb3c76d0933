---------------------------- MODULE MemoryStore ----------------------------
(***************************************************************************)
(* The store the cache keeps its bytes in when it has no disk              *)
(* (crates/rustorr-cache/src/memory.rs): blocks of a fixed size, made as   *)
(* bytes arrive and filled with zeros.                                     *)
(*                                                                         *)
(* A call takes the torrent's handle from the map and then works under the *)
(* handle's mutex.  In between the torrent may be removed or opened again: *)
(* the call goes on with the handle it has.                                *)
(***************************************************************************)
EXTENDS Extents, Sequences

CONSTANTS
    InfoHashes,
    Memories,       \* identities of Arc<Mutex<Torrent>>
    Writers,        \* engine threads
    Lengths,        \* the lengths of a torrent's files
    BlockSize,
    Values,         \* what a byte may be, other than zero
    Void            \* no handle, no call

ASSUME MemoryConstants ==
    /\ Lengths \in Seq(Nat)
    /\ BlockSize \in Nat \ {0}
    /\ 0 \notin Values
    /\ Void \notin Memories

VARIABLES
    opened,         \* MemoryStore.torrents: the handle of an open torrent, or Void
    content,        \* what each handle holds, per file: extents and blocks
    call,           \* the handle and arguments of a write in progress, or Void
    written,        \* history: the last value written to each byte of a handle
    told            \* history: the sum of what the writes to a file returned

memoryVars == <<opened, content, call, written, told>>

-----------------------------------------------------------------------------
Files == DOMAIN Lengths

NoBytes == [f \in Files |-> [extents |-> {}, blocks |-> <<>>]]
Unwritten == [f \in Files |-> [i \in Bytes(0, Lengths[f]) |-> 0]]
Untold == [f \in Files |-> 0]

MemoryInit ==
    /\ opened = [t \in InfoHashes |-> Void]
    /\ content = [h \in Memories |-> NoBytes]
    /\ call = [w \in Writers |-> Void]
    /\ written = [h \in Memories |-> Unwritten]
    /\ told = [h \in Memories |-> Untold]

Referred(map, calls) ==
    {map[t] : t \in InfoHashes} \cup {calls[w].h : w \in {v \in Writers : calls[v] # Void}}

MemoryTypeOK ==
    /\ opened \in [InfoHashes -> Memories \cup {Void}]
    /\ DOMAIN call = Writers
    /\ \A h \in Memories, f \in Files :
         /\ Canonical(content[h][f].extents)
         /\ Covered(content[h][f].extents) \subseteq Bytes(0, Lengths[f])
         /\ \A k \in DOMAIN content[h][f].blocks :
              content[h][f].blocks[k] \in [Bytes(0, BlockSize) -> Values \cup {0}]
         /\ told[h][f] \in Nat

\* The last Arc of a handle frees its memory.
Keeping(map, calls, value, empty) ==
    [h \in Memories |-> IF h \in Referred(map, calls) THEN value[h] ELSE empty]

-----------------------------------------------------------------------------
\* open: an empty handle takes the place of any other.
MemoryOpen(t, h) ==
    /\ h \notin Referred(opened, call)
    /\ opened' = [opened EXCEPT ![t] = h]
    /\ content' = Keeping(opened', call, content, NoBytes)
    /\ written' = Keeping(opened', call, written, Unwritten)
    /\ told' = Keeping(opened', call, told, Untold)
    /\ UNCHANGED call

MemoryRemove(t) ==
    /\ opened' = [opened EXCEPT ![t] = Void]
    /\ content' = Keeping(opened', call, content, NoBytes)
    /\ written' = Keeping(opened', call, written, Unwritten)
    /\ told' = Keeping(opened', call, told, Untold)
    /\ UNCHANGED call

\* write, up to the mutex; a torrent that is not open is an error.
MemoryBeginWrite(w, t, f, a, b, v) ==
    /\ call[w] = Void
    /\ opened[t] # Void
    /\ call' = [call EXCEPT ![w] = [h |-> opened[t], f |-> f, a |-> a, b |-> b, v |-> v]]
    /\ UNCHANGED <<opened, content, written, told>>

\* The loop of write: the blocks of the range, those not there made of zeros.
Filled(blocks, a, b, v) ==
    LET touched == {i \div BlockSize : i \in Bytes(a, b)}
    IN  [k \in DOMAIN blocks \cup touched |->
           [i \in Bytes(0, BlockSize) |->
              IF k * BlockSize + i \in Bytes(a, b) THEN v
              ELSE IF k \in DOMAIN blocks THEN blocks[k][i] ELSE 0]]

\* check_range
Valid(f, a, b) == f \in Files /\ InFile(a, b, Lengths[f])

\* write, under the mutex: the bytes and the extents, or an error.
MemoryEndWrite(w) ==
    /\ call[w] # Void
    /\ call' = [call EXCEPT ![w] = Void]
    /\ LET c == call[w]
           stored == content[c.h][c.f]
       IN  IF Valid(c.f, c.a, c.b)
           THEN /\ content' = Keeping(opened, call',
                     [content EXCEPT ![c.h][c.f] =
                        [extents |-> Insert(stored.extents, c.a, c.b),
                         blocks  |-> Filled(stored.blocks, c.a, c.b, c.v)]], NoBytes)
                /\ written' = Keeping(opened, call',
                     [written EXCEPT ![c.h][c.f] =
                        [i \in DOMAIN @ |-> IF i \in Bytes(c.a, c.b) THEN c.v ELSE @[i]]],
                     Unwritten)
                /\ told' = Keeping(opened, call',
                     [told EXCEPT ![c.h][c.f] = @ + Added(stored.extents, c.a, c.b)], Untold)
           ELSE /\ content' = Keeping(opened, call', content, NoBytes)
                /\ written' = Keeping(opened, call', written, Unwritten)
                /\ told' = Keeping(opened, call', told, Untold)
    /\ UNCHANGED opened

\* Faulty variant: a block that is there is taken to hold all its bytes.
MemoryRead_Unchecked(h, f, a, b) ==
    LET stored == content[h][f]
    IN  IF Valid(f, a, b) /\ \A i \in Bytes(a, b) : i \div BlockSize \in DOMAIN stored.blocks
        THEN [ok |-> TRUE,
              bytes |-> [i \in Bytes(a, b) |-> stored.blocks[i \div BlockSize][i % BlockSize]]]
        ELSE [ok |-> FALSE]

\* read, which changes nothing: under the mutex, the bytes or an error.
MemoryRead(h, f, a, b) ==
    LET stored == content[h][f]
    IN  IF /\ Valid(f, a, b)
           /\ Covers(stored.extents, a, b)
           /\ \A i \in Bytes(a, b) : i \div BlockSize \in DOMAIN stored.blocks
        THEN [ok |-> TRUE,
              bytes |-> [i \in Bytes(a, b) |-> stored.blocks[i \div BlockSize][i % BlockSize]]]
        ELSE [ok |-> FALSE]

MemoryNext ==
    \/ \E t \in InfoHashes, h \in Memories : MemoryOpen(t, h)
    \/ \E t \in InfoHashes : MemoryRemove(t)
    \/ \E w \in Writers, t \in InfoHashes, f \in Files, v \in Values :
         \E b \in 0 .. Lengths[f] + 1 : \E a \in 0 .. b : MemoryBeginWrite(w, t, f, a, b, v)
    \/ \E w \in Writers : MemoryEndWrite(w)

MemorySpec == MemoryInit /\ [][MemoryNext]_memoryVars

-----------------------------------------------------------------------------
(* Properties. *)

\* Also through a handle whose torrent was removed or opened again, a read
\* returns what was last written there: all of it when every byte was written,
\* an error when one was not, and never a zero that fills a block
\* (memory.rs:71-91, 94-128).
ReadsWritten ==
    \A h \in Referred(opened, call) \ {Void}, f \in Files :
      \A b \in 0 .. Lengths[f] : \A a \in 0 .. b :
        LET got == MemoryRead(h, f, a, b)
            put == [i \in Bytes(a, b) |-> written[h][f][i]]
        IN  IF \E i \in Bytes(a, b) : put[i] = 0 THEN ~got.ok
            ELSE got.ok /\ got.bytes = put

\* The writes of a handle returned each stored byte once (memory.rs:91).
ToldOnce ==
    \A h \in Memories, f \in Files :
      told[h][f] = Cardinality({i \in DOMAIN written[h][f] : written[h][f][i] # 0})

\* The memory of a file is what was written and, at both ends of each span, the
\* rest of a block (memory.rs:9-14, which speaks of one end).
MemoryBounded ==
    \A h \in Memories, f \in Files :
      LET stored == content[h][f]
      IN  BlockSize * Cardinality(DOMAIN stored.blocks)
            <= Size(stored.extents) + 2 * (BlockSize - 1) * Cardinality(stored.extents)

MemoryRight == ReadsWritten /\ ToldOnce /\ MemoryBounded
=============================================================================
