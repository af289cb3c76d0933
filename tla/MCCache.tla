------------------------------ MODULE MCCache ------------------------------
(* Cache on two small instances, one of which a behaviour picks at the start. *)
EXTENDS Cache, TLC

CONSTANTS t1, t2, t3, c1, c2

VARIABLE instance

Symmetry ==
    Permutations({t1, t2}) \cup Permutations(Views) \cup Permutations(Writers)

Busy == {w \in Writers : writer[w].at # "idle"}

\* The calls the engine's threads interleave: two torrents of one chunk, two
\* pins, two threads.
ManyThreads ==
    /\ t3 \notin entries
    /\ \A t \in Torrents : c2 \notin held[t]
    /\ \A w \in Busy : writer[w].t # t3 /\ (writer[w].at = "checked" => writer[w].c = c1)
    /\ cap = 0

\* The choice of victims: three torrents of up to two chunks, one pin and one
\* thread.  Victims do not depend on which pieces are complete, so none is.
ManyTorrents ==
    /\ Cardinality(Busy) <= 1
    /\ Cardinality({v \in Views : view[v] # None}) <= 1
    /\ \A w \in Busy : writer[w].at # "verified"
    /\ cap # 1

Bounds == IF instance = "threads" THEN ManyThreads ELSE ManyTorrents

MCInit == instance \in {"threads", "torrents"} /\ CacheInit /\ Bounds
MCNext == CacheNext /\ UNCHANGED instance /\ Bounds'
MCSpec == MCInit /\ [][MCNext]_<<cache, instance>>
=============================================================================
