---------------------------- MODULE Cache_proofs ----------------------------
(***************************************************************************)
(* Theorems about Cache, for any number of torrents, chunks, pins and      *)
(* engine threads.                                                         *)
(***************************************************************************)
EXTENDS Cache, FiniteInduction

-----------------------------------------------------------------------------
(* Pins: CacheOK alone is not inductive, since Unpin needs pins[t] to be         *)
(* positive; PinsExact says why it is.                                          *)

PinInv == CacheOK /\ PinsExact

\* The viewers of a torrent are finitely many.
LEMMA WatchersFinite ==
    ASSUME NEW t
    PROVE  IsFiniteSet(Watchers(t))
BY CacheConstants, FS_Subset DEF Watchers

\* Without entries nobody watches, whatever the views would count.
LEMMA NobodyWatches ==
    ASSUME NEW t \in Torrents, \A v \in Views : view[v] = None
    PROVE  Cardinality(Watchers(t)) = 0
<1>1. Watchers(t) = {}
  BY CacheConstants DEF Watchers
<1> QED  BY <1>1, FS_EmptySet

LEMMA PinInvInit == CacheInit => PinInv
<1> SUFFICES ASSUME CacheInit PROVE PinInv
  OBVIOUS
<1>1. CacheOK
  BY CacheConstants DEF CacheInit, CacheOK, WriteStates, NoWrite
<1>2. PinsExact
  <2> SUFFICES ASSUME NEW t \in Torrents
               PROVE  pins[t] = Cardinality(Watchers(t)) /\ ~(pins[t] > 0)
    BY DEF PinsExact
  <2>1. pins[t] = 0 /\ \A v \in Views : view[v] = None
    BY DEF CacheInit
  <2> QED  BY <2>1, NobodyWatches
<1> QED  BY <1>1, <1>2 DEF PinInv

\* A step that leaves pins, views and entries alone leaves PinsExact alone.
LEMMA PinsUntouched ==
    ASSUME PinsExact, UNCHANGED <<pins, view>>, entries \subseteq entries'
    PROVE  PinsExact'
<1>1. \A t : Watchers(t)' = Watchers(t)
  BY DEF Watchers
<1> QED  BY <1>1 DEF PinsExact

LEMMA OpenKeepsPins ==
    ASSUME PinInv, NEW t \in Torrents, Open(t)
    PROVE  PinInv'
<1> USE DEF PinInv
<1>1. PICK restored \in BOOLEAN :
        /\ held' = [held EXCEPT ![t] = IF restored THEN @ ELSE {}]
        /\ manifest' = [manifest EXCEPT ![t] = IF restored THEN @ ELSE {}]
  BY DEF Open
<1>2. held' \in [Torrents -> SUBSET Chunks] /\ manifest' \in [Torrents -> SUBSET Chunks]
  BY <1>1 DEF CacheOK
<1>3. Cardinality(held'[t]) \in Nat
  <2>1. IsFiniteSet(held'[t])
    BY <1>2, FS_Subset, CacheConstants
  <2> QED  BY <2>1, FS_CardinalityType
<1>4. CacheOK'
  BY <1>2, <1>3 DEF CacheOK, Open, Touched, Untimed
<1>5. pins' = pins
  BY DEF Open, CacheOK, PinsExact
<1>6. PinsExact'
  BY <1>5, PinsUntouched DEF Open
<1> QED  BY <1>4, <1>6

LEMMA PinKeepsPins ==
    ASSUME PinInv, NEW t \in Torrents, NEW v \in Views, Pin(v, t)
    PROVE  PinInv'
<1> USE DEF PinInv
<1>1. CacheOK'
  BY DEF CacheOK, Pin
<1>2. ASSUME NEW u \in Torrents
      PROVE  pins'[u] = Cardinality(Watchers(u)') /\ (pins'[u] > 0 => u \in entries')
  <2>1. CASE u = t
    <3>1. v \notin Watchers(t)
      BY CacheConstants DEF Pin, Watchers
    <3>2. Watchers(t)' = Watchers(t) \cup {v}
      BY DEF Pin, Watchers, CacheOK
    <3>3. Cardinality(Watchers(t)') = Cardinality(Watchers(t)) + 1
      BY <3>1, <3>2, WatchersFinite, FS_AddElement
    <3> QED  BY <2>1, <3>3 DEF Pin, CacheOK, PinsExact
  <2>2. CASE u # t
    <3>1. Watchers(u)' = Watchers(u)
      BY <2>2, CacheConstants DEF Pin, Watchers, CacheOK
    <3> QED  BY <2>2, <3>1 DEF Pin, CacheOK, PinsExact
  <2> QED  BY <2>1, <2>2
<1> QED  BY <1>1, <1>2 DEF PinsExact

LEMMA UnpinKeepsPins ==
    ASSUME PinInv, NEW v \in Views, Unpin(v)
    PROVE  PinInv'
<1> USE DEF PinInv
<1>0. PICK t \in Torrents : t = view[v]
  BY DEF Unpin, CacheOK
<1>1. v \in Watchers(t)
  BY <1>0 DEF Watchers
<1>2. Cardinality(Watchers(t)) \in Nat \ {0}
  <2>1. Cardinality(Watchers(t)) \in Nat
    BY WatchersFinite, FS_CardinalityType
  <2>2. Cardinality(Watchers(t)) # 0
    BY <1>1, WatchersFinite, FS_EmptySet
  <2> QED  BY <2>1, <2>2
<1>3. t \in entries /\ pins[t] \in Nat \ {0} /\ pins[t] = Cardinality(Watchers(t))
  BY <1>1, <1>2 DEF PinsExact, CacheOK
<1>4. pins' = [pins EXCEPT ![t] = @ - 1] /\ older' = Touched(t)
  BY <1>0, <1>3 DEF Unpin
<1>5. CacheOK'
  BY <1>1, <1>3, <1>4 DEF CacheOK, Unpin, Touched, Untimed
<1>6. ASSUME NEW u \in Torrents
      PROVE  pins'[u] = Cardinality(Watchers(u)') /\ (pins'[u] > 0 => u \in entries')
  <2>1. CASE u = t
    <3>1. Watchers(t)' = Watchers(t) \ {v}
      BY <1>0, CacheConstants DEF Unpin, Watchers, CacheOK
    <3>2. Cardinality(Watchers(t)') = Cardinality(Watchers(t)) - 1
      BY <1>1, <3>1, WatchersFinite, FS_RemoveElement
    <3> QED  BY <1>3, <1>4, <2>1, <3>2 DEF Unpin, CacheOK
  <2>2. CASE u # t
    <3>1. Watchers(u)' = Watchers(u)
      BY <1>0, <2>2, CacheConstants DEF Unpin, Watchers, CacheOK
    <3> QED  BY <1>4, <2>2, <3>1 DEF Unpin, CacheOK, PinsExact
  <2> QED  BY <2>1, <2>2
<1> QED  BY <1>5, <1>6 DEF PinsExact

\* A torrent that may be removed has no viewer, so nobody loses its entry.
LEMMA RemoveKeepsPins ==
    ASSUME PinInv, NEW t \in Torrents, Remove(t)
    PROVE  PinInv'
<1> USE DEF PinInv
<1>1. CacheOK'
  BY DEF CacheOK, Remove, Untimed
<1>2. \A u : Watchers(u)' = Watchers(u)
  BY DEF Remove, Watchers
<1> QED  BY <1>1, <1>2 DEF Remove, PinsExact, CacheOK

LEMMA RestartKeepsPins ==
    ASSUME PinInv, NEW n \in Caps, CacheRestart(n)
    PROVE  PinInv'
<1>1. CacheOK'
  BY DEF PinInv, CacheOK, CacheRestart, NoWrite, WriteStates
<1>2. ASSUME NEW u \in Torrents
      PROVE  Cardinality(Watchers(u)') = 0
  <2>1. Watchers(u)' = {}
    BY CacheConstants DEF CacheRestart, Watchers
  <2> QED  BY <2>1, FS_EmptySet
<1> QED  BY <1>1, <1>2 DEF CacheRestart, PinInv, PinsExact

\* The later steps of the engine's calls: none touches a pin, and every state a
\* call goes through is one of WriteStates.
LEMMA EngineKeepsPins ==
    ASSUME PinInv, NEW w \in Writers,
           WriteStore(w) \/ WriteCredit(w) \/ CompletedStore(w) \/ CompletedMark(w)
    PROVE  PinInv'
<1> USE DEF PinInv
<1> DEFINE call == writer[w]
<1>1. call \in WriteStates
  BY DEF CacheOK
<1>2. CASE WriteStore(w)
  <2>1. call.t \in Torrents /\ call.c \in Chunks
    BY <1>1, <1>2 DEF WriteStore, WriteStates, NoWrite
  <2>2. writer' \in [Writers -> WriteStates]
    BY <1>2, <2>1 DEF CacheOK, WriteStore, WriteStates
  <2>3. held' \in [Torrents -> SUBSET Chunks]
    BY <1>2, <2>1 DEF CacheOK, WriteStore
  <2> QED  BY <1>2, <2>2, <2>3, PinsUntouched DEF WriteStore, CacheOK
<1>3. CASE WriteCredit(w)
  <2>1. call.t \in Torrents /\ call.added \in {0, 1}
    BY <1>1, <1>3 DEF WriteCredit, WriteStates, NoWrite
  <2>2. stored' \in [Torrents -> Nat]
    BY <1>3, <2>1 DEF CacheOK, WriteCredit
  <2>3. writer' \in [Writers -> WriteStates]
    BY <1>3 DEF CacheOK, WriteCredit, WriteStates
  <2> QED  BY <1>3, <2>2, <2>3, PinsUntouched DEF WriteCredit, CacheOK
<1>4. CASE CompletedStore(w)
  <2>1. call \in [at : {"verified"}, t : Torrents, c : Chunks]
    BY <1>1, <1>4 DEF CompletedStore, WriteStates, NoWrite
  <2>2. writer' \in [Writers -> WriteStates]
    BY <1>4, <2>1 DEF CacheOK, CompletedStore, WriteStates
  <2>3. manifest' \in [Torrents -> SUBSET Chunks]
    BY <1>4, <2>1 DEF CacheOK, CompletedStore
  <2> QED  BY <1>4, <2>2, <2>3, PinsUntouched DEF CompletedStore, CacheOK
<1>5. CASE CompletedMark(w)
  <2>1. call.t \in Torrents /\ call.c \in Chunks
    BY <1>1, <1>5 DEF CompletedMark, WriteStates, NoWrite
  <2>2. pieces' \in [Torrents -> SUBSET Chunks]
    BY <1>5, <2>1 DEF CacheOK, CompletedMark
  <2>3. writer' \in [Writers -> WriteStates]
    BY <1>5 DEF CacheOK, CompletedMark, WriteStates
  <2> QED  BY <1>5, <2>2, <2>3, PinsUntouched DEF CompletedMark, CacheOK
<1> QED  BY <1>2, <1>3, <1>4, <1>5

\* Every step preserves the invariant.
LEMMA PinInvStep ==
    ASSUME PinInv, [CacheNext]_cache
    PROVE  PinInv'
<1>1. ASSUME NEW t \in Torrents, Read(t)
      PROVE  PinInv'
  <2>1. CacheOK'
    BY <1>1 DEF PinInv, CacheOK, Read, Touched, Untimed
  <2> QED  BY <1>1, <2>1, PinsUntouched DEF PinInv, Read
<1>2. ASSUME NEW n \in Caps, SetCap(n)
      PROVE  PinInv'
  <2>1. CacheOK'
    BY <1>2 DEF PinInv, CacheOK, SetCap
  <2> QED  BY <1>2, <2>1, PinsUntouched DEF PinInv, SetCap
<1>3. ASSUME NEW owned \in SUBSET Torrents, DiscardUnowned(owned)
      PROVE  PinInv'
  <2>1. CacheOK'
    BY <1>3 DEF PinInv, CacheOK, DiscardUnowned
  <2> QED  BY <1>3, <2>1, PinsUntouched DEF PinInv, DiscardUnowned
<1>4. CASE UNCHANGED cache
  <2>1. CacheOK'
    BY <1>4 DEF PinInv, CacheOK, cache
  <2> QED  BY <1>4, <2>1, PinsUntouched DEF PinInv, cache
<1>5. ASSUME NEW w \in Writers, NEW t \in Torrents, NEW c \in Chunks,
             WriteCheck(w, t, c) \/ Verified(w, t, c)
      PROVE  PinInv'
  <2>1. CacheOK'
    BY <1>5 DEF PinInv, CacheOK, WriteCheck, Verified, WriteStates
  <2> QED  BY <1>5, <2>1, PinsUntouched DEF PinInv, WriteCheck, Verified
<1> QED
  BY <1>1, <1>2, <1>3, <1>4, <1>5, OpenKeepsPins, PinKeepsPins, UnpinKeepsPins,
     RemoveKeepsPins, RestartKeepsPins, EngineKeepsPins DEF CacheNext

-----------------------------------------------------------------------------
LEMMA PinInvAlways == CacheSpec => []PinInv
<1> QED  BY PinInvInit, PinInvStep, PTL DEF CacheSpec

\* Type correctness of the whole cache.
THEOREM TypeCorrect == CacheSpec => []CacheOK
<1>1. PinInv => CacheOK
  BY DEF PinInv
<1> QED  BY <1>1, PinInvAlways, PTL

\* The pin count is the number of live Pin values, and none of them outlives
\* the entry it was taken on (cache.rs:275-292, 470-480).
THEOREM PinsAreExact == CacheSpec => []PinsExact
<1>1. PinInv => PinsExact
  BY DEF PinInv
<1> QED  BY <1>1, PinInvAlways, PTL

\* A torrent somebody watches is one that remove refuses.
LEMMA WatchedIsPinned ==
    ASSUME PinInv, NEW v \in Views, view[v] # None
    PROVE  view[v] \in entries /\ pins[view[v]] # 0
<1>1. PICK t \in Torrents : t = view[v]
  BY DEF PinInv, CacheOK
<1>2. v \in Watchers(t)
  BY <1>1 DEF Watchers
<1>3. Cardinality(Watchers(t)) \in Nat
  BY WatchersFinite, FS_CardinalityType
<1>4. Cardinality(Watchers(t)) # 0
  BY <1>2, WatchersFinite, FS_EmptySet
<1> QED  BY <1>1, <1>3, <1>4 DEF PinInv, PinsExact

\* No step takes the entry or bytes of a torrent a viewer keeps pinned.
LEMMA KeepsWatchedStep ==
    ASSUME PinInv, [CacheNext]_cache
    PROVE  KeepsWatched
<1>1. ASSUME PinInv, [CacheNext]_cache, NEW v \in Views, view[v] # None, view'[v] = view[v]
      PROVE  view[v] \in entries' /\ held[view[v]] \subseteq held'[view[v]]
  <2>1. PICK t \in Torrents : t = view[v]
    BY <1>1 DEF PinInv, CacheOK
  <2>2. t \in entries /\ pins[t] # 0
    BY <1>1, <2>1, WatchedIsPinned
  <2>3. ASSUME NEW u \in Torrents, Open(u) \/ Read(u) \/ Remove(u)
        PROVE  t \in entries' /\ held[t] \subseteq held'[t]
    BY <1>1, <2>2, <2>3 DEF Open, Read, Remove, PinInv, CacheOK
  <2>4. ASSUME NEW w \in Writers,
               \/ \E u \in Torrents, c \in Chunks : WriteCheck(w, u, c) \/ Verified(w, u, c)
               \/ WriteStore(w) \/ WriteCredit(w) \/ CompletedStore(w) \/ CompletedMark(w)
        PROVE  t \in entries' /\ held[t] \subseteq held'[t]
    BY <1>1, <2>2, <2>4 DEF WriteCheck, Verified, WriteStore, WriteCredit,
       CompletedStore, CompletedMark, PinInv, CacheOK
  <2>5. ASSUME NEW x \in Views, Unpin(x) \/ \E u \in Torrents : Pin(x, u)
        PROVE  t \in entries' /\ held[t] \subseteq held'[t]
    BY <2>2, <2>5 DEF Unpin, Pin
  <2>6. ASSUME NEW n \in Caps, SetCap(n) \/ CacheRestart(n)
        PROVE  t \in entries' /\ held[t] \subseteq held'[t]
    BY <1>1, <2>1, <2>2, <2>6, CacheConstants DEF SetCap, CacheRestart
  <2>7. ASSUME NEW owned \in SUBSET Torrents, DiscardUnowned(owned)
        PROVE  t \in entries' /\ held[t] \subseteq held'[t]
    BY <2>2, <2>7 DEF DiscardUnowned
  <2>8. CASE UNCHANGED cache
    BY <2>1, <2>2, <2>8 DEF cache
  <2> QED
    BY <1>1, <2>1, <2>3, <2>4, <2>5, <2>6, <2>7, <2>8 DEF CacheNext
<1> QED  BY <1>1 DEF KeepsWatched

\* remove refuses a pinned torrent and nothing else takes its bytes
\* (cache.rs:396-410).
THEOREM WatchedNeverLosesData == CacheSpec => WatchedKeepsData
<1> QED  BY KeepsWatchedStep, PinInvAlways, PTL DEF CacheSpec, WatchedKeepsData

-----------------------------------------------------------------------------
(* Recency.  RecencyTotal is inductive: it relates older to entries only, and   *)
(* the two change together.                                                     *)

\* Touching t keeps the order total on the open torrents, whether t was one of
\* them or is being opened.
LEMMA TouchedIsTotal ==
    ASSUME RecencyTotal, NEW t, entries' = entries \cup {t}, older' = Touched(t)
    PROVE  RecencyTotal'
BY DEF RecencyTotal, Touched, Untimed

LEMMA UntimedIsTotal ==
    ASSUME RecencyTotal, NEW t, entries' = entries \ {t}, older' = Untimed(t)
    PROVE  RecencyTotal'
BY DEF RecencyTotal, Untimed

LEMMA RecencyStep ==
    ASSUME RecencyTotal, [CacheNext]_cache
    PROVE  RecencyTotal'
<1>1. ASSUME UNCHANGED <<entries, older>>
      PROVE  RecencyTotal'
  BY <1>1 DEF RecencyTotal
<1>2. ASSUME NEW t \in Torrents, Open(t) \/ Read(t)
      PROVE  RecencyTotal'
  <2>1. entries' = entries \cup {t} /\ older' = Touched(t)
    BY <1>2 DEF Open, Read
  <2> QED  BY <2>1, TouchedIsTotal
<1>3. ASSUME NEW v \in Views, Unpin(v)
      PROVE  RecencyTotal'
  <2>1. CASE view[v] \in entries
    <3>1. entries' = entries \cup {view[v]} /\ older' = Touched(view[v])
      BY <1>3, <2>1 DEF Unpin
    <3> QED  BY <3>1, TouchedIsTotal
  <2>2. CASE view[v] \notin entries
    BY <1>1, <1>3, <2>2 DEF Unpin
  <2> QED  BY <2>1, <2>2
<1>4. ASSUME NEW t \in Torrents, Remove(t)
      PROVE  RecencyTotal'
  BY <1>4, UntimedIsTotal DEF Remove
<1>5. ASSUME NEW n \in Caps, CacheRestart(n)
      PROVE  RecencyTotal'
  BY <1>5 DEF CacheRestart, RecencyTotal
<1>6. ASSUME NEW t \in Torrents, NEW v \in Views, Pin(v, t)
      PROVE  RecencyTotal'
  BY <1>1, <1>6 DEF Pin
<1>7. ASSUME NEW w \in Writers, NEW t \in Torrents, NEW c \in Chunks,
             WriteCheck(w, t, c) \/ Verified(w, t, c)
      PROVE  RecencyTotal'
  BY <1>1, <1>7 DEF WriteCheck, Verified
<1>8. ASSUME NEW w \in Writers,
             WriteStore(w) \/ WriteCredit(w) \/ CompletedStore(w) \/ CompletedMark(w)
      PROVE  RecencyTotal'
  BY <1>1, <1>8 DEF WriteStore, WriteCredit, CompletedStore, CompletedMark
<1>9. ASSUME NEW n \in Caps, SetCap(n)
      PROVE  RecencyTotal'
  BY <1>1, <1>9 DEF SetCap
<1>10. ASSUME NEW owned \in SUBSET Torrents, DiscardUnowned(owned)
       PROVE  RecencyTotal'
  BY <1>1, <1>10 DEF DiscardUnowned
<1>11. CASE UNCHANGED cache
  BY <1>1, <1>11 DEF cache
<1> QED
  BY <1>2, <1>3, <1>4, <1>5, <1>6, <1>7, <1>8, <1>9, <1>10, <1>11 DEF CacheNext

\* Eviction sorts by a strict total order on the open torrents: there is always
\* one least recently read torrent (cache.rs:114-119).
THEOREM RecencyIsTotal == CacheSpec => []RecencyTotal
<1>1. CacheInit => RecencyTotal
  BY DEF CacheInit, RecencyTotal
<1> QED  BY <1>1, RecencyStep, PTL DEF CacheSpec

-----------------------------------------------------------------------------
(* Residency.  What a call of the engine will write into the manifest and the   *)
(* index must still be in the store when it does, so the invariant also speaks  *)
(* of the calls in progress; and a closed torrent lists nothing, so that        *)
(* dropping its bytes at start-up takes nothing from the index.                 *)

ClosedListsNothing == \A t \in Torrents \ entries : pieces[t] = {}

CallsHaveBytes ==
    \A w \in Writers :
      writer[w].at \in {"verified", "marking"} /\ writer[w].t \notin late
        => writer[w].t \in entries /\ writer[w].c \in held[writer[w].t]

ResidentInv ==
    CacheOK /\ ResidentHasBytes /\ ClosedListsNothing /\ CallsHaveBytes

LEMMA ResidentInit == CacheInit => ResidentInv
<1> SUFFICES ASSUME CacheInit PROVE ResidentInv
  OBVIOUS
<1>1. CacheOK
  BY PinInvInit DEF PinInv
<1>2. ResidentHasBytes /\ ClosedListsNothing /\ CallsHaveBytes
  BY DEF CacheInit, ResidentHasBytes, ClosedListsNothing, CallsHaveBytes, NoWrite
<1> QED  BY <1>1, <1>2 DEF ResidentInv

\* The opener starts from what the store lists, or from nothing.
LEMMA OpenKeepsResident ==
    ASSUME ResidentInv, NEW t \in Torrents, Open(t), CacheOK'
    PROVE  ResidentInv'
<1> USE DEF ResidentInv
<1>1. PICK restored \in BOOLEAN :
        /\ held' = [held EXCEPT ![t] = IF restored THEN @ ELSE {}]
        /\ manifest' = [manifest EXCEPT ![t] = IF restored THEN @ ELSE {}]
        /\ pieces' = [pieces EXCEPT ![t] = manifest'[t]]
  BY DEF Open
<1>2. ResidentHasBytes'
  BY <1>1 DEF Open, ResidentHasBytes, CacheOK
<1>3. ClosedListsNothing'
  BY <1>1 DEF Open, ClosedListsNothing, CacheOK
<1>4. CallsHaveBytes'
  <2> SUFFICES ASSUME NEW w \in Writers,
                      writer[w].at \in {"verified", "marking"}, writer[w].t \notin late
               PROVE  writer[w].t \in entries' /\ writer[w].c \in held'[writer[w].t]
    BY DEF Open, CallsHaveBytes
  <2>1. writer[w].t \in entries /\ writer[w].c \in held[writer[w].t]
    BY DEF CallsHaveBytes
  <2> QED  BY <1>1, <2>1 DEF Open, CacheOK
<1> QED  BY <1>2, <1>3, <1>4

\* A removal inside an engine call on the torrent makes it late; without one no
\* call is left that could still complete a piece of it.
LEMMA RemoveKeepsResident ==
    ASSUME ResidentInv, NEW t \in Torrents, Remove(t), CacheOK'
    PROVE  ResidentInv'
<1> USE DEF ResidentInv
<1>1. ResidentHasBytes'
  BY DEF Remove, ResidentHasBytes, CacheOK
<1>2. ClosedListsNothing'
  BY DEF Remove, ClosedListsNothing, CacheOK
<1>3. CallsHaveBytes'
  <2> SUFFICES ASSUME NEW w \in Writers,
                      writer[w].at \in {"verified", "marking"}, writer[w].t \notin late'
               PROVE  writer[w].t \in entries' /\ writer[w].c \in held'[writer[w].t]
    BY DEF Remove, CallsHaveBytes
  <2>1. writer[w].t # t
    BY DEF Remove, EngineCalls
  <2>2. writer[w].t \notin late
    BY <2>1 DEF Remove
  <2>3. writer[w].t \in entries /\ writer[w].c \in held[writer[w].t]
    BY <2>2 DEF CallsHaveBytes
  <2> QED  BY <2>1, <2>3 DEF Remove, CacheOK
<1> QED  BY <1>1, <1>2, <1>3

\* The store lists only verified pieces, whose bytes it has.
LEMMA EngineKeepsResident ==
    ASSUME ResidentInv, CacheOK', NEW w \in Writers,
           \/ \E t \in Torrents, c \in Chunks : WriteCheck(w, t, c) \/ Verified(w, t, c)
           \/ WriteStore(w) \/ WriteCredit(w) \/ CompletedStore(w) \/ CompletedMark(w)
    PROVE  ResidentInv'
<1> USE DEF ResidentInv
<1> DEFINE call == writer[w]
<1>1. ASSUME NEW t \in Torrents, NEW c \in Chunks, WriteCheck(w, t, c) \/ Verified(w, t, c)
      PROVE  ResidentInv'
  BY <1>1 DEF WriteCheck, Verified, ResidentHasBytes, ClosedListsNothing,
     CallsHaveBytes, CacheOK
<1>2. CASE WriteStore(w)
  <2>1. writer' \in [Writers -> WriteStates] /\ writer'[w].at \notin {"verified", "marking"}
    BY <1>2 DEF WriteStore, CacheOK, NoWrite
  <2>2. \A x \in Writers \ {w} : writer'[x] = writer[x]
    BY <1>2 DEF WriteStore, CacheOK
  <2>3. \A t \in Torrents : held[t] \subseteq held'[t]
    BY <1>2 DEF WriteStore, CacheOK
  <2>4. UNCHANGED <<entries, pieces, manifest, late>>
    BY <1>2 DEF WriteStore
  <2>5. ResidentHasBytes' /\ ClosedListsNothing'
    BY <2>3, <2>4 DEF ResidentHasBytes, ClosedListsNothing
  <2>6. CallsHaveBytes'
    BY <2>1, <2>2, <2>3, <2>4 DEF CallsHaveBytes, CacheOK
  <2> QED  BY <2>5, <2>6
<1>3. CASE WriteCredit(w)
  BY <1>3 DEF WriteCredit, ResidentHasBytes, ClosedListsNothing, CallsHaveBytes,
     CacheOK, NoWrite
<1>4. CASE CompletedStore(w)
  <2>1. CASE call.t \in entries
    <3>1. call.t \in late \/ call.c \in held[call.t]
      BY <1>4 DEF CompletedStore, CallsHaveBytes
    <3>2. ResidentHasBytes'
      BY <1>4, <2>1, <3>1 DEF CompletedStore, ResidentHasBytes, CacheOK
    <3>3. writer' = [writer EXCEPT ![w].at = "marking"]
      BY <1>4, <2>1 DEF CompletedStore
    <3>4. CallsHaveBytes'
      <4> SUFFICES ASSUME NEW x \in Writers, writer'[x].at \in {"verified", "marking"},
                          writer'[x].t \notin late
                   PROVE  writer'[x].t \in entries /\ writer'[x].c \in held[writer'[x].t]
        BY <1>4 DEF CompletedStore, CallsHaveBytes
      <4>1. CASE x = w
        <5>1. writer[w] \in WriteStates
          BY DEF CacheOK
        <5>2. writer[w] \in [at : {"verified"}, t : Torrents, c : Chunks]
          BY <5>1, <1>4 DEF CompletedStore, WriteStates, NoWrite
        <5>3. writer'[w].t = call.t /\ writer'[w].c = call.c
          BY <3>3, <5>2 DEF CacheOK
        <5> QED  BY <2>1, <3>1, <4>1, <5>3
      <4>2. CASE x # w
        BY <3>3, <4>2 DEF CallsHaveBytes, CacheOK
      <4> QED  BY <4>1, <4>2
    <3> QED  BY <1>4, <3>2, <3>4 DEF CompletedStore, ClosedListsNothing
  <2>2. CASE call.t \notin entries
    BY <1>4, <2>2 DEF CompletedStore, ResidentHasBytes, ClosedListsNothing,
       CallsHaveBytes, CacheOK, NoWrite
  <2> QED  BY <2>1, <2>2
<1>5. CASE CompletedMark(w)
  <2>1. CASE call.t \in entries
    <3>1. call.t \in late \/ call.c \in held[call.t]
      BY <1>5 DEF CompletedMark, CallsHaveBytes
    <3>2. pieces' = [pieces EXCEPT ![call.t] = @ \cup {call.c}]
      BY <1>5, <2>1 DEF CompletedMark
    <3>3. ResidentHasBytes'
      BY <1>5, <3>1, <3>2 DEF CompletedMark, ResidentHasBytes, CacheOK
    <3>4. ClosedListsNothing'
      BY <1>5, <2>1, <3>2 DEF CompletedMark, ClosedListsNothing, CacheOK
    <3>5. CallsHaveBytes'
      BY <1>5 DEF CompletedMark, CallsHaveBytes, CacheOK, NoWrite
    <3> QED  BY <3>3, <3>4, <3>5
  <2>2. CASE call.t \notin entries
    BY <1>5, <2>2 DEF CompletedMark, ResidentHasBytes, ClosedListsNothing,
       CallsHaveBytes, CacheOK, NoWrite
  <2> QED  BY <2>1, <2>2
<1> QED  BY <1>1, <1>2, <1>3, <1>4, <1>5

LEMMA ResidentStep ==
    ASSUME ResidentInv, [CacheNext]_cache, CacheOK'
    PROVE  ResidentInv'
<1> USE DEF ResidentInv
<1>1. ASSUME UNCHANGED <<entries, pieces, held, manifest, writer, late>>
      PROVE  ResidentInv'
  BY <1>1 DEF ResidentHasBytes, ClosedListsNothing, CallsHaveBytes
<1>2. ASSUME NEW t \in Torrents, Read(t) \/ \E v \in Views : Pin(v, t)
      PROVE  ResidentInv'
  BY <1>1, <1>2 DEF Read, Pin
<1>3. ASSUME NEW v \in Views, Unpin(v)
      PROVE  ResidentInv'
  BY <1>1, <1>3 DEF Unpin
<1>4. ASSUME NEW n \in Caps, SetCap(n)
      PROVE  ResidentInv'
  BY <1>1, <1>4 DEF SetCap
<1>5. ASSUME NEW n \in Caps, CacheRestart(n)
      PROVE  ResidentInv'
  BY <1>5 DEF CacheRestart, ResidentHasBytes, ClosedListsNothing, CallsHaveBytes, NoWrite
<1>6. ASSUME NEW owned \in SUBSET Torrents, DiscardUnowned(owned)
      PROVE  ResidentInv'
  <2>1. \A t \in entries : held'[t] = held[t] /\ manifest'[t] = manifest[t]
    BY <1>6 DEF DiscardUnowned, CacheOK
  <2>2. \A t \in Torrents : \/ held'[t] = held[t] /\ manifest'[t] = manifest[t]
                            \/ t \notin entries /\ held'[t] = {} /\ manifest'[t] = {}
    BY <1>6 DEF DiscardUnowned
  <2>3. UNCHANGED <<entries, pieces, writer, late>>
    BY <1>6 DEF DiscardUnowned
  <2>4. ResidentHasBytes'
    BY <2>2, <2>3 DEF ResidentHasBytes, ClosedListsNothing
  <2>5. CallsHaveBytes'
    BY <2>1, <2>3 DEF CallsHaveBytes
  <2> QED  BY <2>3, <2>4, <2>5 DEF ClosedListsNothing
<1>7. CASE UNCHANGED cache
  BY <1>1, <1>7 DEF cache
<1> QED
  BY <1>2, <1>3, <1>4, <1>5, <1>6, <1>7, OpenKeepsResident, RemoveKeepsResident,
     EngineKeepsResident DEF CacheNext

\* A piece reported resident has its bytes, and so does every piece a restart
\* would restore, for a torrent no engine call outlived (cache.rs:217-226).
THEOREM ResidentPiecesHaveBytes == CacheSpec => []ResidentHasBytes
<1>1. ResidentInv => ResidentHasBytes
  BY DEF ResidentInv
<1> QED  BY <1>1, ResidentInit, ResidentStep, TypeCorrect, PTL DEF CacheSpec

-----------------------------------------------------------------------------
(* Accounting.  Entry.stored runs behind the store while a write stands between *)
(* the two, so the invariant counts those writes, and says that one of them     *)
(* whose torrent was not removed under it still finds its entry.                *)

\* What AccountingExact says of one torrent.
Counted(t) ==
    /\ stored[t] + Cardinality(Uncredited(t)) >= Cardinality(held[t])
    /\ t \notin late => stored[t] + Cardinality(Uncredited(t)) = Cardinality(held[t])

WritesFindEntries ==
    \A w \in Writers :
      writer[w].at = "stored" /\ writer[w].t \notin late => writer[w].t \in entries

CountInv == CacheOK /\ WritesFindEntries /\ \A t \in entries : Counted(t)

\* The numbers are numbers.
LEMMA CountsAreNumbers ==
    ASSUME CacheOK, NEW t \in Torrents
    PROVE  /\ IsFiniteSet(held[t]) /\ Cardinality(held[t]) \in Nat
           /\ IsFiniteSet(Uncredited(t)) /\ Cardinality(Uncredited(t)) \in Nat
           /\ stored[t] \in Nat
<1>1. held[t] \subseteq Chunks /\ Uncredited(t) \subseteq Writers /\ stored[t] \in Nat
  BY DEF CacheOK, Uncredited
<1>2. IsFiniteSet(held[t]) /\ IsFiniteSet(Uncredited(t))
  BY <1>1, CacheConstants, FS_Subset
<1> QED  BY <1>1, <1>2, FS_CardinalityType

\* Steps that leave a torrent's bytes, its count and its writes alone.
LEMMA CountUntouched ==
    ASSUME NEW t, Counted(t), stored'[t] = stored[t], held'[t] = held[t],
           Uncredited(t)' = Uncredited(t), t \notin late' => t \notin late
    PROVE  Counted(t)'
BY DEF Counted

LEMMA OpenKeepsCount ==
    ASSUME CountInv, CacheOK', NEW t \in Torrents, Open(t)
    PROVE  CountInv'
<1> USE DEF CountInv
<1>1. /\ entries' = entries \cup {t} /\ t \notin entries /\ writer' = writer /\ late' = late
      /\ stored' = [stored EXCEPT ![t] = Cardinality(held'[t])]
      /\ \A u \in Torrents \ {t} : held'[u] = held[u]
  BY DEF Open, CacheOK
<1>2. WritesFindEntries'
  BY <1>1 DEF WritesFindEntries
<1>3. \A u : Uncredited(u)' = Uncredited(u)
  BY <1>1 DEF Uncredited
<1>4. ASSUME NEW u \in entries
      PROVE  Counted(u)'
  <2>1. u \in Torrents \ {t} /\ stored'[u] = stored[u]
    BY <1>1 DEF CacheOK
  <2> QED  BY <1>1, <1>3, <2>1, CountUntouched
<1>5. Counted(t)'
  <2>1. stored'[t] = Cardinality(held'[t]) /\ Cardinality(held'[t]) \in Nat
    BY <1>1, CountsAreNumbers DEF CacheOK
  <2>2. Cardinality(Uncredited(t)) \in Nat
    BY CountsAreNumbers
  <2>3. t \notin late => Cardinality(Uncredited(t)) = 0
    <3>1. t \notin late => Uncredited(t) = {}
      BY <1>1 DEF WritesFindEntries, Uncredited
    <3> QED  BY <3>1, FS_EmptySet
  <2> QED  BY <1>1, <1>3, <2>1, <2>2, <2>3 DEF Counted
<1> QED  BY <1>1, <1>2, <1>4, <1>5

LEMMA RemoveKeepsCount ==
    ASSUME CountInv, CacheOK', NEW t \in Torrents, Remove(t)
    PROVE  CountInv'
<1> USE DEF CountInv
<1>1. /\ entries' = entries \ {t} /\ writer' = writer
      /\ \A u \in Torrents \ {t} : /\ held'[u] = held[u] /\ stored'[u] = stored[u]
                                    /\ (u \in late' <=> u \in late)
  BY DEF Remove, CacheOK
<1>2. \A u : Uncredited(u)' = Uncredited(u)
  BY <1>1 DEF Uncredited
<1>3. ASSUME NEW u \in entries'
      PROVE  Counted(u)'
  <2>1. u \in Torrents \ {t} /\ u \in entries
    BY <1>1 DEF CacheOK
  <2> QED  BY <1>1, <1>2, <2>1, CountUntouched
<1>4. WritesFindEntries'
  <2> SUFFICES ASSUME NEW w \in Writers, writer[w].at = "stored", writer[w].t \notin late'
               PROVE  writer[w].t \in entries'
    BY <1>1 DEF WritesFindEntries
  <2>1. writer[w].t \in Torrents
    BY DEF CacheOK, WriteStates, NoWrite
  <2>2. writer[w].t # t
    BY DEF Remove, EngineCalls
  <2> QED  BY <1>1, <2>1, <2>2 DEF WritesFindEntries
<1> QED  BY <1>3, <1>4

\* The store takes a chunk: what was new waits to be counted.
LEMMA StoreKeepsCount ==
    ASSUME CountInv, CacheOK', NEW w \in Writers, WriteStore(w)
    PROVE  CountInv'
<1> USE DEF CountInv
<1>0. PICK t \in Torrents, c \in Chunks : writer[w] = [at |-> "checked", t |-> t, c |-> c]
  BY DEF WriteStore, CacheOK, WriteStates, NoWrite
<1>1. /\ writer[w].at = "checked" /\ writer[w].t = t /\ writer[w].c = c
      /\ UNCHANGED <<entries, stored, late>>
      /\ \A x \in Writers \ {w} : writer'[x] = writer[x]
  BY <1>0 DEF WriteStore, CacheOK
<1>2. CASE t \notin entries
  <2>1. writer'[w] = NoWrite /\ held' = held
    BY <1>1, <1>2 DEF WriteStore, CacheOK
  <2>2. \A u : Uncredited(u)' = Uncredited(u)
    BY <1>1, <2>1 DEF Uncredited, NoWrite
  <2>3. WritesFindEntries'
    BY <1>1, <2>1 DEF WritesFindEntries, NoWrite
  <2> QED  BY <1>1, <2>1, <2>2, <2>3, CountUntouched
<1>3. CASE t \in entries
  <2>1. /\ held' = [held EXCEPT ![t] = @ \cup {c}]
        /\ writer'[w] = [at |-> "stored", t |-> t, added |-> IF c \in held[t] THEN 0 ELSE 1]
    BY <1>1, <1>3 DEF WriteStore, CacheOK
  <2>2. WritesFindEntries'
    BY <1>1, <1>3, <2>1 DEF WritesFindEntries
  <2>3. ASSUME NEW u \in entries, u # t
        PROVE  Counted(u)'
    <3>1. held'[u] = held[u] /\ Uncredited(u)' = Uncredited(u)
      BY <1>1, <2>1, <2>3 DEF Uncredited, CacheOK
    <3> QED  BY <1>1, <3>1, CountUntouched
  <2>4. CASE c \in held[t]
    <3>1. held'[t] = held[t] /\ Uncredited(t)' = Uncredited(t)
      BY <1>1, <2>1, <2>4 DEF Uncredited, CacheOK
    <3> QED  BY <1>1, <1>3, <2>2, <2>3, <3>1, CountUntouched
  <2>5. CASE c \notin held[t]
    <3>1. held'[t] = held[t] \cup {c} /\ Uncredited(t)' = Uncredited(t) \cup {w}
          /\ w \notin Uncredited(t)
      BY <1>1, <2>1, <2>5 DEF Uncredited, CacheOK
    <3>2. /\ IsFiniteSet(held[t]) /\ IsFiniteSet(Uncredited(t))
      BY CountsAreNumbers
    <3>3. Cardinality(held[t] \cup {c}) = Cardinality(held[t]) + 1
      BY <2>5, <3>2, FS_AddElement
    <3>4. Cardinality(Uncredited(t) \cup {w}) = Cardinality(Uncredited(t)) + 1
      BY <3>1, <3>2, FS_AddElement
    <3>5. Counted(t)'
      BY <1>1, <1>3, <3>1, <3>3, <3>4, CountsAreNumbers DEF Counted
    <3> QED  BY <1>1, <2>2, <2>3, <3>5
  <2> QED  BY <2>4, <2>5
<1> QED  BY <1>2, <1>3

\* The second half of a write counts what was new, if there is an entry.
LEMMA CreditKeepsCount ==
    ASSUME CountInv, CacheOK', NEW w \in Writers, WriteCredit(w)
    PROVE  CountInv'
<1> USE DEF CountInv
<1>0. PICK t \in Torrents : writer[w].t = t
  BY DEF WriteCredit, CacheOK, WriteStates, NoWrite
<1>1. /\ writer[w].at = "stored" /\ writer[w].t = t /\ writer[w].added \in {0, 1}
      /\ UNCHANGED <<entries, held, late>> /\ writer'[w] = NoWrite
      /\ \A x \in Writers \ {w} : writer'[x] = writer[x]
  BY <1>0 DEF WriteCredit, CacheOK, WriteStates, NoWrite
<1>2. WritesFindEntries'
  BY <1>1 DEF WritesFindEntries, NoWrite
<1>3. ASSUME NEW u \in entries, u # t
      PROVE  Counted(u)'
  <2>1. stored'[u] = stored[u] /\ Uncredited(u)' = Uncredited(u)
    BY <1>1, <1>3 DEF Uncredited, CacheOK, WriteCredit, NoWrite
  <2> QED  BY <1>1, <2>1, CountUntouched
<1>4. ASSUME t \in entries
      PROVE  Counted(t)'
  <2>1. stored'[t] = stored[t] + writer[w].added
    BY <1>1, <1>4 DEF WriteCredit, CacheOK
  <2>2. CASE writer[w].added = 0
    <3>1. Uncredited(t)' = Uncredited(t)
      BY <1>1, <2>2 DEF Uncredited, NoWrite
    <3>2. stored'[t] = stored[t]
      BY <2>1, <2>2, CountsAreNumbers, <1>1
    <3> QED  BY <1>1, <1>4, <3>1, <3>2, CountUntouched
  <2>3. CASE writer[w].added = 1
    <3>1. Uncredited(t)' = Uncredited(t) \ {w} /\ w \in Uncredited(t)
      BY <1>1, <2>3 DEF Uncredited, NoWrite
    <3>2. Cardinality(Uncredited(t)') = Cardinality(Uncredited(t)) - 1
      BY <1>1, <3>1, CountsAreNumbers, ZenonT(60), FS_RemoveElement
    <3> QED  BY <1>1, <1>4, <2>1, <2>3, <3>2, CountsAreNumbers DEF Counted
  <2> QED  BY <1>1, <2>2, <2>3
<1> QED  BY <1>1, <1>2, <1>3, <1>4

LEMMA CountStep ==
    ASSUME CountInv, CacheOK', [CacheNext]_cache
    PROVE  CountInv'
<1> USE DEF CountInv
<1>1. ASSUME UNCHANGED <<entries, stored, late>>, \A u \in entries : held'[u] = held[u],
             \A w \in Writers : \/ writer'[w] = writer[w]
                                \/ writer[w].at # "stored" /\ writer'[w].at # "stored"
      PROVE  CountInv'
  <2>1. \A u : Uncredited(u)' = Uncredited(u)
    BY <1>1 DEF Uncredited
  <2>2. WritesFindEntries'
    BY <1>1 DEF WritesFindEntries
  <2>3. ASSUME NEW u \in entries
        PROVE  Counted(u)'
    BY <1>1, <2>1, CountUntouched
  <2> QED  BY <1>1, <2>2, <2>3
<1>2. ASSUME NEW t \in Torrents, Read(t) \/ \E v \in Views : Pin(v, t)
      PROVE  CountInv'
  BY <1>1, <1>2 DEF Read, Pin
<1>3. ASSUME NEW v \in Views, Unpin(v)
      PROVE  CountInv'
  BY <1>1, <1>3 DEF Unpin
<1>4. ASSUME NEW w \in Writers,
             \/ \E t \in Torrents, c \in Chunks : WriteCheck(w, t, c) \/ Verified(w, t, c)
             \/ CompletedStore(w) \/ CompletedMark(w)
      PROVE  CountInv'
  <2>1. \A x \in Writers : \/ writer'[x] = writer[x]
                           \/ writer[x].at # "stored" /\ writer'[x].at # "stored"
    BY <1>4 DEF WriteCheck, Verified, CompletedStore, CompletedMark, CacheOK, NoWrite, WriteStates
  <2>2. UNCHANGED <<entries, stored, held, late>>
    BY <1>4 DEF WriteCheck, Verified, CompletedStore, CompletedMark
  <2> QED  BY <1>1, <2>1, <2>2
<1>5. ASSUME NEW n \in Caps, SetCap(n)
      PROVE  CountInv'
  BY <1>1, <1>5 DEF SetCap
<1>6. ASSUME NEW n \in Caps, CacheRestart(n)
      PROVE  CountInv'
  BY <1>6 DEF CacheRestart, WritesFindEntries, NoWrite
<1>7. ASSUME NEW owned \in SUBSET Torrents, DiscardUnowned(owned)
      PROVE  CountInv'
  <2>1. \A u \in entries : held'[u] = held[u]
    BY <1>7 DEF DiscardUnowned, CacheOK
  <2> QED  BY <1>1, <1>7, <2>1 DEF DiscardUnowned
<1>8. CASE UNCHANGED cache
  BY <1>1, <1>8 DEF cache
<1> QED
  BY <1>2, <1>3, <1>4, <1>5, <1>6, <1>7, <1>8, OpenKeepsCount, RemoveKeepsCount,
     StoreKeepsCount, CreditKeepsCount DEF CacheNext

LEMMA CountInvAlways == CacheSpec => []CountInv
<1>1. CacheInit => CountInv
  BY PinInvInit DEF CacheInit, CountInv, WritesFindEntries, NoWrite, PinInv
<1> QED  BY <1>1, CountStep, TypeCorrect, PTL DEF CacheSpec

\* Eviction sees every byte the store holds: Entry.stored and the writes that are
\* between the store and the second critical section make up what is held, and
\* more than that only after a removal inside a write (cache.rs:177-191).
THEOREM AccountingIsExact == CacheSpec => []AccountingExact
<1>1. CountInv => AccountingExact
  BY DEF CountInv, AccountingExact, Counted
<1> QED  BY <1>1, CountInvAlways, PTL

-----------------------------------------------------------------------------
(* Eviction.  The loop adds stored up from the least recently read torrent; a  *)
(* total is a number of units, so that totals add up like cardinalities.        *)

Total(ts) == MapThenSumSet(LAMBDA t : stored[t], ts)

\* One unit per chunk that Entry.stored counts.
Units(ts) == {u \in ts \X Nat : u[2] < stored[u[1]]}

\* Sets that share nothing count together.
LEMMA CountTogether ==
    ASSUME NEW A, IsFiniteSet(A), NEW B, IsFiniteSet(B), A \cap B = {}
    PROVE  /\ IsFiniteSet(A \cup B)
           /\ Cardinality(A \cup B) = Cardinality(A) + Cardinality(B)
<1>1. Cardinality(A) \in Nat /\ Cardinality(B) \in Nat
  BY FS_CardinalityType
<1>2. IsFiniteSet(A \cup B)
  BY FS_Union
<1>3. Cardinality(A \cup B) = Cardinality(A) + Cardinality(B) - Cardinality(A \cap B)
  BY FS_Union
<1>4. Cardinality(A \cap B) = 0
  BY FS_EmptySet
<1> QED  BY <1>1, <1>2, <1>3, <1>4

\* The units of a torrent are as many as stored says, and those of the others
\* are different ones.
LEMMA UnitsWithout ==
    ASSUME CacheOK, NEW ts \in SUBSET Torrents, NEW t \in ts
    PROVE  /\ Units(ts) = Units(ts \ {t}) \cup Units({t})
           /\ Units(ts \ {t}) \cap Units({t}) = {}
           /\ IsFiniteSet(Units({t})) /\ Cardinality(Units({t})) = stored[t]
<1>1. PICK n \in Nat : n = stored[t]
  BY DEF CacheOK
<1>2. Units({t}) = {t} \X (0 .. n - 1)
  BY <1>1 DEF Units
<1>3. IsFiniteSet(0 .. n - 1) /\ Cardinality(0 .. n - 1) = n
  <2>1. /\ IsFiniteSet(0 .. n - 1)
        /\ Cardinality(0 .. n - 1) = IF 0 > n - 1 THEN 0 ELSE n - 1 - 0 + 1
    BY FS_Interval
  <2> QED  BY <2>1
<1>4. IsFiniteSet({t}) /\ Cardinality({t}) = 1
  BY FS_Singleton
<1>5. Cardinality({t} \X (0 .. n - 1)) = n
  <2>1. Cardinality({t} \X (0 .. n - 1)) = Cardinality({t}) * Cardinality(0 .. n - 1)
    BY <1>3, <1>4, FS_Product
  <2> QED  BY <2>1, <1>3, <1>4
<1>6. IsFiniteSet({t} \X (0 .. n - 1))
  BY <1>3, <1>4, FS_Product
<1>7. Units(ts) = Units(ts \ {t}) \cup Units({t})
  BY DEF Units
<1>8. Units(ts \ {t}) \cap Units({t}) = {}
  BY DEF Units
<1>9. IsFiniteSet(Units({t})) /\ Cardinality(Units({t})) = stored[t]
  BY <1>1, <1>2, <1>5, <1>6, Zenon
<1> QED  BY <1>7, <1>8, <1>9

\* The units of finitely many torrents are finitely many.
LEMMA UnitsFinite ==
    ASSUME CacheOK, NEW ts \in SUBSET Torrents
    PROVE  IsFiniteSet(Units(ts)) /\ Cardinality(Units(ts)) \in Nat
<1> DEFINE G == {T \in SUBSET Torrents : IsFiniteSet(Units(T))}
<1>1. {} \in G
  BY FS_EmptySet DEF Units
<1>2. ASSUME NEW T \in SUBSET Torrents, T # {}, \A x \in T : T \ {x} \in G
      PROVE  T \in G
  <2>1. PICK x \in T : TRUE
    BY <1>2
  <2>2. IsFiniteSet(Units(T \ {x}))
    BY <1>2
  <2>3. Units(T) = Units(T \ {x}) \cup Units({x}) /\ IsFiniteSet(Units({x}))
    BY <2>1, UnitsWithout
  <2>4. IsFiniteSet(Units(T))
    BY <2>2, <2>3, FS_Union
  <2> QED  BY <2>4
<1> HIDE DEF G
<1>3. SUBSET Torrents \subseteq G
  BY <1>1, <1>2, CacheConstants, SetInduction
<1> QED  BY <1>3, FS_CardinalityType DEF G

\* The fold of MapThenSumSet comes to the number of units, whichever order it
\* takes the torrents in.
LEMMA TotalIsCount ==
    ASSUME CacheOK, NEW ts \in SUBSET Torrents
    PROVE  Total(ts) = Cardinality(Units(ts))
<1> DEFINE next(T, n) == LET x == CHOOSE y \in T : TRUE IN stored[x] + n[T \ {x}]
           Sums(g) == g = [T \in SUBSET ts |-> IF T = {} THEN 0 ELSE next(T, g)]
           g == CHOOSE e : Sums(e)
           count == [T \in SUBSET ts |-> Cardinality(Units(T))]
<1>1. Total(ts) = g[ts]
  BY Zenon DEF Total, MapThenSumSet, MapThenFoldSet
<1>2. Cardinality(Units({})) = 0
  BY FS_EmptySet DEF Units
<1>3. ASSUME NEW T \in SUBSET ts, NEW t \in T
      PROVE  Cardinality(Units(T)) = stored[t] + Cardinality(Units(T \ {t}))
  <2>1. T \in SUBSET Torrents /\ T \ {t} \in SUBSET Torrents /\ t \in Torrents
    OBVIOUS
  <2>2. IsFiniteSet(Units(T \ {t})) /\ Cardinality(Units(T \ {t})) \in Nat
    BY <2>1, UnitsFinite
  <2>3. /\ Units(T) = Units(T \ {t}) \cup Units({t})
        /\ Units(T \ {t}) \cap Units({t}) = {}
        /\ IsFiniteSet(Units({t})) /\ Cardinality(Units({t})) = stored[t]
    BY <2>1, UnitsWithout
  <2>4. Cardinality(Units(T)) =
          Cardinality(Units(T \ {t})) + Cardinality(Units({t}))
    BY <2>2, <2>3, CountTogether
  <2>5. stored[t] \in Nat
    BY <2>1 DEF CacheOK
  <2>7. Cardinality(Units(T)) = Cardinality(Units(T \ {t})) + stored[t]
    BY <2>3, <2>4, Zenon
  <2> QED  BY <2>2, <2>5, <2>7
<1>4. \A T \in SUBSET ts : T # {} => (CHOOSE y \in T : TRUE) \in T
  OBVIOUS
<1>5. Sums(count)
  <2>1. ASSUME NEW T \in SUBSET ts
        PROVE  Cardinality(Units(T)) = IF T = {} THEN 0 ELSE next(T, count)
    <3>1. CASE T = {}  BY <3>1, <1>2
    <3>2. CASE T # {}
      <4> DEFINE x == CHOOSE y \in T : TRUE
      <4>1. x \in T  BY <3>2
      <4> HIDE DEF x
      <4>2. count[T \ {x}] = Cardinality(Units(T \ {x}))  OBVIOUS
      <4>3. Cardinality(Units(T)) = stored[x] + count[T \ {x}]  BY <4>1, <4>2, <1>3
      <4> QED  BY <4>3, <3>2 DEF x
    <3> QED  BY <3>1, <3>2
  <2> HIDE DEF next
  <2>2. \A T \in SUBSET ts : count[T] = IF T = {} THEN 0 ELSE next(T, count)
    BY <2>1
  <2> QED  BY <2>2
<1>6. Sums(g)
  BY <1>5
<1>7. \A T \in SUBSET ts : g[T] = IF T = {} THEN 0 ELSE next(T, g)
  <2> HIDE DEF g, next
  <2> QED  BY <1>6
<1> HIDE DEF g, Sums, count
<1> DEFINE G == {T \in SUBSET ts : g[T] = Cardinality(Units(T))}
<1>8. {} \in G
  BY <1>2, <1>7
<1>9. ASSUME NEW T \in SUBSET ts, T # {}, \A x \in T : T \ {x} \in G
      PROVE  T \in G
  <2> DEFINE x == CHOOSE y \in T : TRUE
  <2>1. x \in T  BY <1>9
  <2>2. g[T] = stored[x] + g[T \ {x}]  BY <1>7, <1>9
  <2> HIDE DEF x
  <2>3. g[T \ {x}] = Cardinality(Units(T \ {x}))  BY <2>1, <1>9
  <2> QED  BY <2>1, <2>2, <2>3, <1>3
<1> HIDE DEF G
<1>10. SUBSET ts \subseteq G
  <2>1. IsFiniteSet(ts)  BY CacheConstants, FS_Subset
  <2> QED  BY <1>8, <1>9, <2>1, SetInduction
<1>11. g[ts] = Cardinality(Units(ts))  BY <1>10 DEF G
<1> QED  BY <1>1, <1>11

\* So a total is a number, and totals of different torrents add up.
LEMMA TotalAdds ==
    ASSUME CacheOK, NEW A \in SUBSET Torrents, NEW B \in SUBSET Torrents, A \cap B = {}
    PROVE  /\ Total(A) \in Nat /\ Total(B) \in Nat
           /\ Total(A \cup B) = Total(A) + Total(B)
<1>1. Units(A \cup B) = Units(A) \cup Units(B) /\ Units(A) \cap Units(B) = {}
  BY DEF Units
<1>2. /\ IsFiniteSet(Units(A)) /\ Cardinality(Units(A)) \in Nat
      /\ IsFiniteSet(Units(B)) /\ Cardinality(Units(B)) \in Nat
  BY UnitsFinite
<1>3. Cardinality(Units(A \cup B)) = Cardinality(Units(A)) + Cardinality(Units(B))
  BY <1>1, <1>2, CountTogether
<1>4. /\ Total(A) = Cardinality(Units(A)) /\ Total(B) = Cardinality(Units(B))
      /\ Total(A \cup B) = Cardinality(Units(A \cup B))
  BY TotalIsCount
<1> QED  BY <1>2, <1>3, <1>4

LEMMA TotalOfOne ==
    ASSUME CacheOK, NEW t \in Torrents
    PROVE  Total({t}) = stored[t]
<1>1. Total({t}) = Cardinality(Units({t}))
  BY TotalIsCount
<1> QED  BY <1>1, UnitsWithout

\* The torrents are few, and one that is idle counts something.
LEMMA IdleIs ==
    ASSUME CacheOK
    PROVE  /\ Idle \subseteq entries /\ entries \in SUBSET Torrents
           /\ IsFiniteSet(Idle) /\ Cardinality(Idle) \in Nat
           /\ \A t \in Idle : stored[t] \in Nat \ {0} /\ pins[t] = 0
<1>1. Idle \subseteq entries /\ entries \in SUBSET Torrents
  BY DEF Idle, CacheOK
<1>2. IsFiniteSet(Idle)
  BY <1>1, CacheConstants, FS_Subset
<1>3. \A t \in Idle : stored[t] \in Nat \ {0} /\ pins[t] = 0
  BY DEF Idle, CacheOK
<1> QED  BY <1>1, <1>2, <1>3, FS_CardinalityType

\* The idle torrents in order of recency, as a sequence.
ByLastRead(s) ==
    /\ s \in [1 .. Cardinality(Idle) -> Idle]
    /\ \A i, j \in DOMAIN s : i < j => <<s[i], s[j]>> \in older

\* A sequence in order of recency lists each idle torrent once.
LEMMA ListsAll ==
    ASSUME CacheOK, RecencyTotal, NEW s, ByLastRead(s)
    PROVE  /\ \A i, j \in 1 .. Cardinality(Idle) : s[i] = s[j] => i = j
           /\ \A t \in Idle : \E i \in 1 .. Cardinality(Idle) : s[i] = t
<1> DEFINE n == Cardinality(Idle)
<1>0. n \in Nat /\ IsFiniteSet(Idle) /\ Idle \subseteq entries
  BY IdleIs
<1>1. s \in [1 .. n -> Idle] /\ \A i, j \in 1 .. n : i < j => <<s[i], s[j]>> \in older
  BY DEF ByLastRead
<1>2. \A t \in entries : <<t, t>> \notin older
  BY DEF RecencyTotal
<1> HIDE DEF n
<1>3. ASSUME NEW i \in 1 .. n, NEW j \in 1 .. n, s[i] = s[j]
      PROVE  i = j
  <2>1. s[i] \in entries
    BY <1>0, <1>1
  <2>2. ~(i < j) /\ ~(j < i)
    BY <1>1, <1>2, <1>3, <2>1
  <2> QED  BY <2>2, <1>0
<1>4. s \in Injection(1 .. n, Idle)
  BY <1>1, <1>3 DEF Injection, IsInjective
<1>5. IsFiniteSet(1 .. n) /\ Cardinality(1 .. n) = n
  <2>1. IsFiniteSet(1 .. n) /\ Cardinality(1 .. n) = IF 1 > n THEN 0 ELSE n - 1 + 1
    BY <1>0, FS_Interval
  <2> QED  BY <2>1, <1>0
<1>6. s \in Surjection(1 .. n, Idle)
  <2>1. Cardinality(1 .. n) = Cardinality(Idle)
    BY <1>5 DEF n
  <2> QED  BY <1>0, <1>4, <2>1, FS_Injection
<1>7. \A t \in Idle : \E i \in 1 .. n : s[i] = t
  BY <1>6 DEF Surjection
<1> QED  BY <1>3, <1>7 DEF n

\* There is one: a torrent's place is the number of those read before it.
LEMMA CanBeSorted ==
    ASSUME CacheOK, RecencyTotal
    PROVE  \E s : ByLastRead(s)
<1> DEFINE n == Cardinality(Idle)
           before(t) == {u \in Idle : <<u, t>> \in older}
           rank == [t \in Idle |-> Cardinality(before(t)) + 1]
<1>0. n \in Nat /\ IsFiniteSet(Idle) /\ Idle \subseteq entries
  BY IdleIs
<1>1. ASSUME NEW t \in Idle
      PROVE  /\ IsFiniteSet(before(t)) /\ Cardinality(before(t)) \in Nat
             /\ Cardinality(before(t)) < n
  <2>1. before(t) \in SUBSET Idle /\ t \notin before(t)
    BY <1>0 DEF RecencyTotal
  <2>2. IsFiniteSet(before(t)) /\ Cardinality(before(t)) \in Nat
    BY <2>1, <1>0, FS_Subset, FS_CardinalityType
  <2>3. Cardinality(before(t)) <= n
    BY <2>1, <1>0, FS_Subset
  <2>4. Cardinality(before(t)) # n
    BY <2>1, <1>0, FS_Subset
  <2> QED  BY <2>2, <2>3, <2>4, <1>0
<1>2. ASSUME NEW t \in Idle, NEW u \in Idle, <<t, u>> \in older
      PROVE  Cardinality(before(t)) < Cardinality(before(u))
  <2>1. before(t) \in SUBSET before(u)
    BY <1>0, <1>2 DEF RecencyTotal
  <2>2. t \in before(u) /\ t \notin before(t)
    BY <1>0, <1>2 DEF RecencyTotal
  <2> HIDE DEF before
  <2>3. IsFiniteSet(before(u)) /\ Cardinality(before(u)) \in Nat /\ Cardinality(before(t)) \in Nat
    BY <1>1
  <2>4. Cardinality(before(t)) <= Cardinality(before(u))
    BY <2>1, <2>3, FS_Subset
  <2>5. Cardinality(before(t)) # Cardinality(before(u))
    BY <2>1, <2>2, <2>3, FS_Subset
  <2> QED  BY <2>3, <2>4, <2>5
<1> HIDE DEF before, n
<1>3. rank \in [Idle -> 1 .. n]
  BY <1>0, <1>1
<1>4. ASSUME NEW t \in Idle, NEW u \in Idle, rank[t] < rank[u]
      PROVE  <<t, u>> \in older
  <2>1. t \in entries /\ u \in entries
    BY <1>0
  <2>2. t = u \/ <<t, u>> \in older \/ <<u, t>> \in older
    BY <2>1 DEF RecencyTotal
  <2>3. t # u
    BY <1>3, <1>4
  <2>4. <<u, t>> \notin older
    <3> SUFFICES ASSUME <<u, t>> \in older PROVE FALSE
      OBVIOUS
    <3>1. Cardinality(before(u)) < Cardinality(before(t))
      BY <1>2
    <3>2. Cardinality(before(t)) + 1 < Cardinality(before(u)) + 1
      BY <1>4
    <3> QED  BY <3>1, <3>2, <1>1
  <2> QED  BY <2>2, <2>3, <2>4
<1>5. ASSUME NEW t \in Idle, NEW u \in Idle, rank[t] = rank[u]
      PROVE  t = u
  <2>1. t \in entries /\ u \in entries
    BY <1>0
  <2>2. t = u \/ <<t, u>> \in older \/ <<u, t>> \in older
    BY <2>1 DEF RecencyTotal
  <2>3. Cardinality(before(t)) + 1 = Cardinality(before(u)) + 1
    BY <1>5
  <2>4. Cardinality(before(t)) = Cardinality(before(u))
    BY <2>3, <1>1
  <2> QED  BY <2>2, <2>4, <1>1, <1>2
<1>6. IsFiniteSet(1 .. n) /\ Cardinality(1 .. n) = n
  <2>1. IsFiniteSet(1 .. n) /\ Cardinality(1 .. n) = IF 1 > n THEN 0 ELSE n - 1 + 1
    BY <1>0, FS_Interval
  <2> QED  BY <2>1, <1>0
<1> HIDE DEF rank
<1>7. \A i \in 1 .. n : \E t \in Idle : rank[t] = i
  <2>1. rank \in Injection(Idle, 1 .. n)
    BY <1>3, <1>5 DEF Injection, IsInjective
  <2>2. Cardinality(Idle) = Cardinality(1 .. n)
    BY <1>6 DEF n
  <2>3. rank \in Surjection(Idle, 1 .. n)
    BY <2>1, <2>2, <1>6, FS_Injection
  <2> QED  BY <2>3 DEF Surjection
<1> DEFINE s == [i \in 1 .. n |-> CHOOSE t \in Idle : rank[t] = i]
<1>8. \A i \in 1 .. n : s[i] \in Idle /\ rank[s[i]] = i
  BY <1>7
<1>9. s \in [1 .. n -> Idle]
  BY <1>8
<1>10. \A i, j \in 1 .. n : i < j => <<s[i], s[j]>> \in older
  <2> HIDE DEF s
  <2> QED  BY <1>4, <1>8
<1>11. ByLastRead(s)
  BY <1>9, <1>10 DEF ByLastRead, n
<1> QED  BY <1>11

\* The torrents read first: victims while the excess lasts.
First(s, i) == {s[j] : j \in 1 .. i}

LEMMA FirstAre ==
    ASSUME CacheOK, RecencyTotal, NEW s, ByLastRead(s)
    PROVE  /\ \A i \in 0 .. Cardinality(Idle) : First(s, i) \in SUBSET Idle
           /\ First(s, 0) = {} /\ First(s, Cardinality(Idle)) = Idle
           /\ \A i \in 0 .. Cardinality(Idle) - 1 :
                First(s, i + 1) = First(s, i) \cup {s[i + 1]} /\ s[i + 1] \notin First(s, i)
           /\ \A i \in 1 .. Cardinality(Idle) :
                First(s, i - 1) = {u \in Idle : <<u, s[i]>> \in older}
<1> DEFINE n == Cardinality(Idle)
<1>0. n \in Nat /\ Idle \subseteq entries
  BY IdleIs
<1>1. s \in [1 .. n -> Idle] /\ \A i, j \in 1 .. n : i < j => <<s[i], s[j]>> \in older
  BY DEF ByLastRead
<1>2. /\ \A i, j \in 1 .. n : s[i] = s[j] => i = j
      /\ \A t \in Idle : \E i \in 1 .. n : s[i] = t
  BY ListsAll
<1> HIDE DEF n
<1>3. \A i \in 0 .. n : First(s, i) \in SUBSET Idle
  BY <1>0, <1>1 DEF First
<1>4. First(s, 0) = {}
  BY DEF First
<1>5. First(s, n) = Idle
  BY <1>0, <1>1, <1>2 DEF First
<1>6. ASSUME NEW i \in 0 .. n - 1
      PROVE  First(s, i + 1) = First(s, i) \cup {s[i + 1]} /\ s[i + 1] \notin First(s, i)
  <2>1. i \in Nat /\ i + 1 \in 1 .. n /\ 1 .. i \subseteq 1 .. n
    BY <1>0
  <2>2. 1 .. i + 1 = (1 .. i) \cup {i + 1} /\ i + 1 \notin 1 .. i
    BY <2>1
  <2>3. s[i + 1] \notin First(s, i)
    <3> SUFFICES ASSUME NEW j \in 1 .. i, s[j] = s[i + 1] PROVE FALSE
      BY DEF First
    <3>1. j = i + 1
      BY <1>2, <2>1
    <3> QED  BY <3>1, <2>2
  <2>4. First(s, i + 1) = First(s, i) \cup {s[i + 1]}
    BY <2>2, Zenon DEF First
  <2> QED  BY <2>3, <2>4
<1>7. ASSUME NEW i \in 1 .. n
      PROVE  First(s, i - 1) = {u \in Idle : <<u, s[i]>> \in older}
  <2>1. ASSUME NEW j \in 1 .. i - 1
        PROVE  s[j] \in Idle /\ <<s[j], s[i]>> \in older
    <3>1. j \in 1 .. n /\ j < i
      BY <1>0
    <3> QED  BY <3>1, <1>1
  <2>2. ASSUME NEW u \in Idle, <<u, s[i]>> \in older
        PROVE  \E j \in 1 .. i - 1 : s[j] = u
    <3>1. PICK j \in 1 .. n : s[j] = u
      BY <1>2
    <3>2. u \in entries /\ s[i] \in entries
      BY <1>0, <1>1
    <3>3. <<s[i], u>> \notin older
      BY <2>2, <3>2 DEF RecencyTotal
    <3>4. ~(i < j) /\ j # i
      BY <1>1, <2>2, <3>1, <3>2, <3>3 DEF RecencyTotal
    <3>5. j \in 1 .. i - 1
      BY <3>4, <1>0
    <3> QED  BY <3>1, <3>5
  <2> QED  BY <2>1, <2>2 DEF First
<1> QED  BY <1>3, <1>4, <1>5, <1>6, <1>7 DEF n

\* What they hold adds up, and does not shrink along the sequence.
LEMMA FirstTotals ==
    ASSUME CacheOK, RecencyTotal, NEW s, ByLastRead(s)
    PROVE  /\ \A i \in 0 .. Cardinality(Idle) : Total(First(s, i)) \in Nat
           /\ Total(First(s, 0)) = 0
           /\ \A i \in 0 .. Cardinality(Idle) - 1 :
                Total(First(s, i + 1)) = Total(First(s, i)) + stored[s[i + 1]]
           /\ \A i, j \in 0 .. Cardinality(Idle) :
                i <= j => Total(First(s, i)) <= Total(First(s, j))
<1> DEFINE n == Cardinality(Idle)
<1>0. n \in Nat /\ Idle \subseteq Torrents
  BY IdleIs
<1>1. /\ \A i \in 0 .. n : First(s, i) \in SUBSET Idle
      /\ First(s, 0) = {}
      /\ \A i \in 0 .. n - 1 :
           First(s, i + 1) = First(s, i) \cup {s[i + 1]} /\ s[i + 1] \notin First(s, i)
  BY FirstAre
<1>2. \A i \in 1 .. n : s[i] \in Torrents
  BY <1>0 DEF ByLastRead
<1> HIDE DEF n
<1>3. \A i \in 0 .. n : Total(First(s, i)) \in Nat
  <2> SUFFICES ASSUME NEW i \in 0 .. n PROVE Total(First(s, i)) \in Nat
    OBVIOUS
  <2>1. First(s, i) \in SUBSET Torrents /\ {} \in SUBSET Torrents /\ First(s, i) \cap {} = {}
    BY <1>0, <1>1
  <2> QED  BY <2>1, TotalAdds
<1>4. Total(First(s, 0)) = 0
  <2>1. Total({}) = Cardinality(Units({})) /\ Units({}) = {}
    BY TotalIsCount DEF Units
  <2> QED  BY <1>1, <2>1, FS_EmptySet
<1>5. ASSUME NEW i \in 0 .. n - 1
      PROVE  Total(First(s, i + 1)) = Total(First(s, i)) + stored[s[i + 1]]
  <2>1. i \in 0 .. n /\ i + 1 \in 1 .. n
    BY <1>0
  <2>2. First(s, i) \in SUBSET Torrents /\ s[i + 1] \in Torrents
    BY <2>1, <1>0, <1>1, <1>2
  <2>3. {s[i + 1]} \in SUBSET Torrents /\ First(s, i) \cap {s[i + 1]} = {}
    BY <2>2, <1>1
  <2>4. Total(First(s, i) \cup {s[i + 1]}) = Total(First(s, i)) + Total({s[i + 1]})
    BY <2>2, <2>3, TotalAdds
  <2>5. Total({s[i + 1]}) = stored[s[i + 1]]
    BY <2>2, TotalOfOne
  <2> QED  BY <1>1, <2>4, <2>5
<1>6. ASSUME NEW i \in 0 .. n, NEW j \in 0 .. n, i <= j
      PROVE  Total(First(s, i)) <= Total(First(s, j))
  <2> DEFINE rest == First(s, j) \ First(s, i)
  <2>1. First(s, i) \subseteq First(s, j)
    BY <1>6 DEF First
  <2>2. First(s, i) \in SUBSET Torrents /\ rest \in SUBSET Torrents
    BY <1>0, <1>1
  <2>3. First(s, j) = First(s, i) \cup rest /\ First(s, i) \cap rest = {}
    BY <2>1
  <2> HIDE DEF rest
  <2>4. /\ Total(First(s, i)) \in Nat /\ Total(rest) \in Nat
        /\ Total(First(s, i) \cup rest) = Total(First(s, i)) + Total(rest)
    BY <2>2, <2>3, TotalAdds
  <2> QED  BY <2>3, <2>4
<1> QED  BY <1>3, <1>4, <1>5, <1>6 DEF n

\* One turn of the loop.
Visit(acc, t) ==
    IF acc.excess = 0 THEN acc
    ELSE [excess  |-> Less(acc.excess, stored[t]),
          victims |-> Append(acc.victims, t)]

\* The loop goes through the idle torrents in order of recency.
LEMMA LoopGoes ==
    ASSUME CacheOK, RecencyTotal
    PROVE  \E s, g :
             /\ ByLastRead(s)
             /\ g[{}] = [excess |-> Excess, victims |-> <<>>]
             /\ \A i \in 0 .. Cardinality(Idle) - 1 : g[1 .. i + 1] = Visit(g[1 .. i], s[i + 1])
             /\ EvictionCandidates = g[1 .. Cardinality(Idle)].victims
<1> DEFINE n == Cardinality(Idle)
           base == [excess |-> Excess, victims |-> <<>>]
           s == CHOOSE s \in [1 .. n -> Idle] :
                  \A i, j \in DOMAIN s : i < j => <<s[i], s[j]>> \in older
           next(T, f) == LET x == Seqs!Max(T) IN Visit(f[T \ {x}], s[x])
           Folds(f) == f = [T \in SUBSET DOMAIN s |-> IF T = {} THEN base ELSE next(T, f)]
           g == CHOOSE f : Folds(f)
<1>1. EvictionCandidates = g[DOMAIN s].victims
  BY Zenon DEF EvictionCandidates, Seqs!FoldLeft, Seqs!MapThenFoldSet, Visit
<1>2. ByLastRead(s) /\ n \in Nat
  <2>1. \E e : ByLastRead(e)
    BY CanBeSorted
  <2>2. \E e \in [1 .. n -> Idle] : \A i, j \in DOMAIN e : i < j => <<e[i], e[j]>> \in older
    BY <2>1 DEF ByLastRead
  <2>3. /\ s \in [1 .. n -> Idle]
        /\ \A i, j \in DOMAIN s : i < j => <<s[i], s[j]>> \in older
    BY <2>2
  <2> QED  BY <2>3, IdleIs DEF ByLastRead
<1> HIDE DEF s, n
<1> DEFINE D == 1 .. n
           B == [excess : Nat, victims : Seq(Torrents)]
           op == [i \in D |-> [acc \in B |-> Visit(acc, s[i])]]
           ch == [T \in SUBSET D |-> Seqs!Max(T)]
<1>3. DOMAIN s = D /\ \A i \in D : s[i] \in Torrents /\ stored[s[i]] \in Nat
  <2>1. s \in [D -> Idle]
    BY <1>2 DEF ByLastRead, n
  <2>2. Idle \subseteq Torrents
    BY IdleIs
  <2> QED  BY <2>1, <2>2 DEF CacheOK
<1>4. IsFiniteSet(D)
  BY <1>2, FS_Interval
<1>5. base \in B
  <2>1. entries \in SUBSET Torrents /\ {} \in SUBSET Torrents
    BY IdleIs
  <2>2. Total(entries) \in Nat
    BY <2>1, TotalAdds
  <2>3. StoredBytes \in Nat /\ cap \in Nat
    BY <2>2, CacheConstants DEF StoredBytes, Total, CacheOK
  <2>4. Excess \in Nat
    BY <2>3 DEF Excess, Less
  <2> QED  BY <2>4
<1>6. \A T \in SUBSET D : T # {} => ch[T] \in T
  <2> SUFFICES ASSUME NEW T \in SUBSET D, T # {} PROVE Seqs!Max(T) \in T
    OBVIOUS
  <2>1. \E x \in T : \A y \in T : x >= y
    <3> DEFINE U == {n - y : y \in T}
    <3>1. U \in SUBSET Nat /\ U # {}
      <4>1. \A y \in T : n - y \in Nat
        BY <1>2
      <4> QED  BY <4>1
    <3> HIDE DEF U
    <3>2. PICK u \in U : \A v \in U : u <= v
      BY <3>1, Least
    <3>3. PICK x \in T : u = n - x
      BY <3>2 DEF U
    <3>4. \A y \in T : n - x <= n - y
      BY <3>2, <3>3 DEF U
    <3> QED  BY <1>2, <3>3, <3>4
  <2> QED  BY <2>1 DEF Seqs!Max
<1>7. op \in [D -> [B -> B]]
  <2> SUFFICES ASSUME NEW i \in D, NEW acc \in B PROVE Visit(acc, s[i]) \in B
    OBVIOUS
  <2>1. s[i] \in Torrents /\ stored[s[i]] \in Nat /\ acc.excess \in Nat /\ acc.victims \in Seq(Torrents)
    BY <1>3
  <2>2. Less(acc.excess, stored[s[i]]) \in Nat
    BY <2>1 DEF Less
  <2>3. Append(acc.victims, s[i]) \in Seq(Torrents)
    BY <2>1
  <2> QED  BY <2>2, <2>3 DEF Visit
<1> HIDE DEF base
<1>8. PICK f : IsFold(f, D, B, base, ch, op)
  <2>1. Folding(D, B, base, ch, op)
    BY <1>4, <1>5, <1>6, <1>7 DEF Folding
  <2> HIDE DEF D, B, op, ch
  <2> QED  BY <2>1, FoldIsDefined
<1>9. Folds(f)
  <2> SUFFICES ASSUME NEW T \in SUBSET D, T # {}
               PROVE  op[ch[T]][f[T \ {ch[T]}]] = next(T, f)
    <3>1. f = [T \in SUBSET D |-> f[T]]
      BY <1>8 DEF IsFold
    <3> HIDE DEF next, op, ch
    <3> QED  BY <1>3, <1>8, <3>1 DEF IsFold
  <2>1. ch[T] = Seqs!Max(T) /\ ch[T] \in D /\ T \ {ch[T]} \in SUBSET D
    BY <1>6
  <2>2. f[T \ {ch[T]}] \in B
    BY <1>8, <2>1 DEF IsFold
  <2> QED  BY <2>1, <2>2
<1>10. Folds(g)
  <2> HIDE DEF Folds
  <2> QED  BY <1>9
<1> HIDE DEF g
<1>11. g[{}] = base
  BY <1>10
<1>12. ASSUME NEW i \in 0 .. n - 1
       PROVE  g[1 .. i + 1] = Visit(g[1 .. i], s[i + 1])
  <2>1. 1 .. i + 1 \in SUBSET D /\ 1 .. i + 1 # {}
    <3>1. i + 1 \in 1 .. i + 1 /\ \A y \in 1 .. i + 1 : y \in 1 .. n
      BY <1>2
    <3> QED  BY <3>1
  <2>2. Seqs!Max(1 .. i + 1) = i + 1
    <3>1. i + 1 \in 1 .. i + 1 /\ \A y \in 1 .. i + 1 : i + 1 >= y
      BY <1>2
    <3>2. \A x \in 1 .. i + 1 : (\A y \in 1 .. i + 1 : x >= y) => x = i + 1
      BY <3>1, <1>2
    <3> QED  BY <3>1, <3>2 DEF Seqs!Max
  <2>3. (1 .. i + 1) \ {i + 1} = 1 .. i
    BY <1>2
  <2>4. g[1 .. i + 1] = next(1 .. i + 1, g)
    <3> HIDE DEF next
    <3> QED  BY <1>3, <1>10, <2>1
  <2> QED  BY <2>2, <2>3, <2>4
<1>13. EvictionCandidates = g[1 .. n].victims
  BY <1>1, <1>3
<1> QED
  <2> SUFFICES \A i \in 0 .. n - 1 : g[1 .. i + 1] = Visit(g[1 .. i], s[i + 1])
    BY <1>2, <1>11, <1>13 DEF base, n
  <2> QED  BY <1>12

\* After each turn the victims are the torrents read first, as few of them as
\* cover the excess.
LEMMA LoopTakesTheFirst ==
    ASSUME CacheOK, RecencyTotal
    PROVE  \E s : \E k \in 0 .. Cardinality(Idle) :
             /\ ByLastRead(s)
             /\ EvictionCandidates = [j \in 1 .. k |-> s[j]]
             /\ k < Cardinality(Idle) => Excess <= Total(First(s, k))
             /\ \A j \in 0 .. k - 1 : Total(First(s, j)) < Excess
<1> DEFINE n == Cardinality(Idle)
<1>1. PICK s, g :
        /\ ByLastRead(s)
        /\ g[{}] = [excess |-> Excess, victims |-> <<>>]
        /\ \A i \in 0 .. n - 1 : g[1 .. i + 1] = Visit(g[1 .. i], s[i + 1])
        /\ EvictionCandidates = g[1 .. n].victims
  BY LoopGoes
<1>2. n \in Nat /\ \A i \in 1 .. n : s[i] \in Torrents /\ stored[s[i]] \in Nat
  <2>1. s \in [1 .. n -> Idle]
    BY <1>1 DEF ByLastRead
  <2>2. Idle \subseteq Torrents /\ n \in Nat
    BY IdleIs
  <2> QED  BY <2>1, <2>2 DEF CacheOK
<1> DEFINE T(i) == Total(First(s, i))
<1>3. /\ \A i \in 0 .. n : T(i) \in Nat
      /\ T(0) = 0
      /\ \A i \in 0 .. n - 1 : T(i + 1) = T(i) + stored[s[i + 1]]
  BY <1>1, FirstTotals
<1>4. Excess \in Nat
  <2>1. entries \in SUBSET Torrents /\ {} \in SUBSET Torrents
    BY IdleIs
  <2>2. Total(entries) \in Nat
    BY <2>1, TotalAdds
  <2>3. StoredBytes \in Nat /\ cap \in Nat
    BY <2>2, CacheConstants DEF StoredBytes, Total, CacheOK
  <2> QED  BY <2>3 DEF Excess, Less
<1> HIDE DEF n, T
<1> DEFINE After(i, k) ==
             /\ g[1 .. i].excess = Less(Excess, T(k))
             /\ g[1 .. i].victims = [j \in 1 .. k |-> s[j]]
             /\ k < i => Excess <= T(k)
             /\ \A j \in 0 .. k - 1 : T(j) < Excess
           N == {i \in Nat : i <= n => \E k \in 0 .. i : After(i, k)}
<1>5. 0 \in N
  <2>1. After(0, 0)
    <3>1. 1 .. 0 = {} /\ 0 .. 0 - 1 = {}
      OBVIOUS
    <3>2. g[1 .. 0].excess = Less(Excess, T(0))
      BY <1>1, <1>3, <1>4, <3>1 DEF Less
    <3>3. g[1 .. 0].victims = [j \in 1 .. 0 |-> s[j]]
      <4>1. g[1 .. 0].victims = <<>>
        BY <1>1, <3>1
      <4>2. <<>> = [j \in 1 .. 0 |-> s[j]]
        BY <3>1
      <4> QED  BY <4>1, <4>2
    <3> QED  BY <3>1, <3>2, <3>3
  <2> HIDE DEF After
  <2> QED  BY <2>1
<1>6. ASSUME NEW i \in Nat, i \in N
      PROVE  i + 1 \in N
  <2> HIDE DEF After
  <2> SUFFICES ASSUME i + 1 <= n
               PROVE  \E k \in 0 .. i + 1 : After(i + 1, k)
    OBVIOUS
  <2>1. i <= n /\ i \in 0 .. n - 1 /\ i \in 0 .. n /\ i + 1 \in 1 .. n
    BY <1>2
  <2>2. PICK k \in 0 .. i : After(i, k)
    BY <1>6, <2>1
  <2> USE DEF After
  <2>3. k \in 0 .. n /\ T(k) \in Nat /\ k \in Nat
    BY <1>2, <1>3, <2>1
  <2>4. g[1 .. i + 1] = Visit(g[1 .. i], s[i + 1])
    BY <1>1, <2>1
  <2>5. CASE g[1 .. i].excess = 0
    <3>1. g[1 .. i + 1] = g[1 .. i]
      BY <2>4, <2>5 DEF Visit
    <3>2. Excess <= T(k)
      BY <1>4, <2>2, <2>3, <2>5 DEF Less
    <3>3. After(i + 1, k)
      BY <2>2, <3>1, <3>2
    <3> HIDE DEF After
    <3> QED  BY <2>3, <3>3
  <2>6. CASE g[1 .. i].excess # 0
    <3>1. T(k) < Excess
      BY <1>4, <2>2, <2>3, <2>6 DEF Less
    <3>2. k = i
      BY <1>4, <2>2, <2>3, <3>1
    <3>3. /\ g[1 .. i + 1].excess = Less(g[1 .. i].excess, stored[s[i + 1]])
          /\ g[1 .. i + 1].victims = Append(g[1 .. i].victims, s[i + 1])
      BY <2>4, <2>6 DEF Visit
    <3>4. T(i + 1) = T(i) + stored[s[i + 1]] /\ stored[s[i + 1]] \in Nat
      BY <1>2, <1>3, <2>1
    <3>5. g[1 .. i + 1].excess = Less(Excess, T(i + 1))
      <4>1. g[1 .. i].excess = Less(Excess, T(i))
        BY <2>2, <3>2
      <4>2. \A e, a, b \in Nat : Less(Less(e, a), b) = Less(e, a + b)
        BY DEF Less
      <4>3. Less(Less(Excess, T(i)), stored[s[i + 1]]) = Less(Excess, T(i) + stored[s[i + 1]])
        BY <1>4, <2>3, <3>2, <3>4, <4>2
      <4> QED  BY <3>3, <3>4, <4>1, <4>3, Zenon
    <3>6. g[1 .. i + 1].victims = [j \in 1 .. i + 1 |-> s[j]]
      <4>1. g[1 .. i].victims = [j \in 1 .. i |-> s[j]]
        BY <2>2, <3>2
      <4>2. /\ \A j \in 1 .. i : s[j] \in Torrents
            /\ s[i + 1] \in Torrents
        BY <1>2, <2>1
      <4>3. Append([j \in 1 .. i |-> s[j]], s[i + 1]) = [j \in 1 .. i + 1 |-> s[j]]
        BY <4>2
      <4> QED  BY <3>3, <4>1, <4>3
    <3>7. \A j \in 0 .. (i + 1) - 1 : T(j) < Excess
      <4>1. \A j \in 0 .. (i + 1) - 1 : j \in 0 .. i - 1 \/ j = i
        OBVIOUS
      <4> QED  BY <2>2, <3>1, <3>2, <4>1
    <3>8. After(i + 1, i + 1)
      BY <3>5, <3>6, <3>7
    <3> HIDE DEF After
    <3> QED  BY <2>3, <3>8
  <2> QED  BY <2>5, <2>6
<1>7. n \in N
  <2> HIDE DEF N
  <2> QED  BY <1>2, <1>5, <1>6, Induction
<1>8. PICK k \in 0 .. n : After(n, k)
  <2> HIDE DEF After
  <2> QED  BY <1>2, <1>7
<1>9. EvictionCandidates = [j \in 1 .. k |-> s[j]]
  BY <1>1, <1>8
<1> QED
  <2>1. /\ k < n => Excess <= T(k)
        /\ \A j \in 0 .. k - 1 : T(j) < Excess
    BY <1>8
  <2> QED  BY <1>1, <1>9, <2>1 DEF T, n

\* The victims are those the policy names, in order, and they are enough.
LEMMA CandidatesAre ==
    ASSUME CacheOK, RecencyTotal
    PROVE  CandidatesRight
<1> DEFINE n == Cardinality(Idle)
<1>1. PICK s : \E k \in 0 .. n :
        /\ ByLastRead(s)
        /\ EvictionCandidates = [j \in 1 .. k |-> s[j]]
        /\ k < n => Excess <= Total(First(s, k))
        /\ \A j \in 0 .. k - 1 : Total(First(s, j)) < Excess
  BY LoopTakesTheFirst
<1>2. PICK k \in 0 .. n :
        /\ ByLastRead(s)
        /\ EvictionCandidates = [j \in 1 .. k |-> s[j]]
        /\ k < n => Excess <= Total(First(s, k))
        /\ \A j \in 0 .. k - 1 : Total(First(s, j)) < Excess
  BY <1>1
<1>3. /\ n \in Nat /\ Idle \subseteq entries /\ entries \in SUBSET Torrents
      /\ \A t \in Idle : stored[t] \in Nat \ {0} /\ pins[t] = 0
  BY IdleIs
<1>4. /\ s \in [1 .. n -> Idle] /\ \A i, j \in 1 .. n : i < j => <<s[i], s[j]>> \in older
      /\ \A i, j \in 1 .. n : s[i] = s[j] => i = j
      /\ \A t \in Idle : \E i \in 1 .. n : s[i] = t
  BY <1>2, ListsAll DEF ByLastRead
<1>5. /\ \A i \in 0 .. n : First(s, i) \in SUBSET Idle
      /\ First(s, n) = Idle
      /\ \A i \in 1 .. n : First(s, i - 1) = {u \in Idle : <<u, s[i]>> \in older}
  BY <1>2, FirstAre
<1>6. /\ \A i \in 0 .. n : Total(First(s, i)) \in Nat
      /\ \A i, j \in 0 .. n : i <= j => Total(First(s, i)) <= Total(First(s, j))
  BY <1>2, FirstTotals
<1> HIDE DEF n
<1>7. /\ Total(entries) \in Nat /\ cap \in Nat
      /\ StoredBytes = Total(entries)
      /\ Excess = IF Total(entries) > cap THEN Total(entries) - cap ELSE 0
  <2>1. {} \in SUBSET Torrents /\ entries \cap {} = {}
    OBVIOUS
  <2>2. Total(entries) \in Nat
    BY <1>3, <2>1, TotalAdds
  <2> QED  BY <2>2, CacheConstants DEF StoredBytes, Total, CacheOK, Excess, Less
<1>8. ShouldEvict = {t \in Idle : cap + Total({u \in Idle : <<u, t>> \in older}) < Total(entries)}
  BY DEF ShouldEvict, Idle, Total
<1>9. k \in Nat /\ k <= n /\ 1 .. k \subseteq 1 .. n
  BY <1>3
<1>10. Seqs!ToSet(EvictionCandidates) = First(s, k)
  <2>1. DOMAIN EvictionCandidates = 1 .. k /\ \A i \in 1 .. k : EvictionCandidates[i] = s[i]
    BY <1>2
  <2> QED  BY <2>1 DEF Seqs!ToSet, First
<1>11. First(s, k) = ShouldEvict
  <2>1. ASSUME NEW i \in 1 .. n
        PROVE  s[i] \in ShouldEvict <=> i <= k
    <3>1. i \in Nat /\ i - 1 \in 0 .. n /\ s[i] \in Idle
      BY <1>3, <1>4
    <3>2. s[i] \in ShouldEvict <=> cap + Total(First(s, i - 1)) < Total(entries)
      BY <1>5, <1>8, <3>1
    <3>3. Total(First(s, i - 1)) \in Nat
      BY <1>6, <3>1
    <3>4. s[i] \in ShouldEvict <=> Total(First(s, i - 1)) < Excess
      BY <1>7, <3>2, <3>3
    <3>5. CASE i <= k
      <4>1. i - 1 \in 0 .. k - 1
        BY <1>9, <3>1, <3>5
      <4> QED  BY <1>2, <3>4, <3>5, <4>1
    <3>6. CASE ~(i <= k)
      <4>1. k < n /\ k <= i - 1 /\ k \in 0 .. n
        BY <1>3, <1>9, <3>1, <3>6
      <4>2. Total(First(s, k)) <= Total(First(s, i - 1)) /\ Total(First(s, k)) \in Nat
        BY <1>6, <3>1, <4>1
      <4>3. Excess <= Total(First(s, k)) /\ Excess \in Nat
        BY <1>2, <1>7, <4>1
      <4> QED  BY <3>3, <3>4, <3>6, <4>2, <4>3
    <3> QED  BY <3>5, <3>6
  <2>2. ShouldEvict \subseteq Idle
    BY <1>8
  <2>3. \A i \in 1 .. n : i <= k <=> i \in 1 .. k
    BY <1>9
  <2> QED  BY <1>4, <1>9, <2>1, <2>2, <2>3 DEF First
<1>12. CandidatesSound
  <2>1. Len(EvictionCandidates) = k /\ DOMAIN EvictionCandidates = 1 .. k
    <3>1. EvictionCandidates \in Seq(Idle)
      <4>1. \A j \in 1 .. k : s[j] \in Idle
        BY <1>4, <1>9
      <4> QED  BY <1>2, <1>9, <4>1
    <3> QED  BY <1>2, <1>9, <3>1
  <2>2. Cardinality(ShouldEvict) = k
    <3> DEFINE f == [j \in 1 .. k |-> s[j]]
    <3>1. f \in Bijection(1 .. k, First(s, k))
      <4>1. f \in [1 .. k -> First(s, k)]
        BY DEF First
      <4>2. \A i, j \in 1 .. k : f[i] = f[j] => i = j
        BY <1>4, <1>9
      <4>3. \A t \in First(s, k) : \E i \in 1 .. k : f[i] = t
        BY DEF First
      <4> QED  BY <4>1, <4>2, <4>3 DEF Bijection, Injection, Surjection, IsInjective
    <3>2. ExistsBijection(1 .. k, First(s, k))
      BY <3>1 DEF ExistsBijection
    <3> QED  BY <1>9, <1>11, <3>2, FS_CountingElements
  <2>3. \A i, j \in 1 .. k : i < j => <<EvictionCandidates[i], EvictionCandidates[j]>> \in older
    BY <1>2, <1>4, <1>9
  <2> QED  BY <1>10, <1>11, <2>1, <2>2, <2>3 DEF CandidatesSound
<1>13. CandidatesSuffice
  <2> DEFINE left == entries \ First(s, k)
  <2> SUFFICES Total(left) <= cap \/ \A t \in left : pins[t] > 0 \/ stored[t] = 0
    BY <1>10 DEF CandidatesSuffice, Total
  <2>1. CASE k = n
    <3>1. \A t \in left : t \in Torrents /\ t \in entries /\ t \notin Idle
      BY <1>3, <1>5, <2>1
    <3> QED  BY <3>1 DEF Idle, CacheOK
  <2>2. CASE k # n
    <3>1. Excess <= Total(First(s, k)) /\ Total(First(s, k)) \in Nat
      BY <1>2, <1>3, <1>6, <1>9, <2>2
    <3>2. /\ First(s, k) \in SUBSET Torrents /\ left \in SUBSET Torrents
          /\ First(s, k) \cap left = {} /\ entries = First(s, k) \cup left
      BY <1>3, <1>5
    <3> HIDE DEF left
    <3>3. /\ Total(left) \in Nat
          /\ Total(First(s, k) \cup left) = Total(First(s, k)) + Total(left)
      BY <3>2, TotalAdds
    <3>4. Total(entries) = Total(First(s, k)) + Total(left)
      BY <3>2, <3>3
    <3> QED  BY <1>7, <3>1, <3>3, <3>4
  <2> QED  BY <2>1, <2>2
<1> QED  BY <1>12, <1>13 DEF CandidatesRight

\* eviction_candidates names exactly the least recently read torrents whose
\* removal brings the cache under its cap, each once and in that order, or all
\* that are not pinned when that is not enough (cache.rs:364-394).
THEOREM VictimsAreRight == CacheSpec => []CandidatesRight
<1>1. CacheOK /\ RecencyTotal => CandidatesRight
  BY CandidatesAre
<1> QED  BY <1>1, TypeCorrect, RecencyIsTotal, PTL
=============================================================================
