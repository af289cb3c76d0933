--------------------------- MODULE MCCoordinator ---------------------------
(* Coordinator on small instances, one .cfg per question. *)
EXTENDS Coordinator, TLC

Symmetry ==
    Permutations(Torrents) \cup Permutations(Clients) \cup Permutations(Readers)
      \cup Permutations(Prefetchers) \cup Permutations(Timers)
=============================================================================
