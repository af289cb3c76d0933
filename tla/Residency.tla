----------------------------- MODULE Residency -----------------------------
(***************************************************************************)
(* What the torrent lifecycle promises, without the gate, the tasks and    *)
(* the registers that bring it about.  A torrent is served or not, has     *)
(* bytes or not, and is in the catalog or not; viewers come and go.        *)
(*   - Bytes arrive only while the torrent is served, and go only while it *)
(*     is not: nothing is deleted under the engine.                        *)
(*   - A watched torrent is served until its last viewer leaves.           *)
(*   - A catalog row appears only for a torrent that is served, and goes   *)
(*     only together with the bytes.                                       *)
(*   - A start keeps the bytes of saved torrents and no others.            *)
(* Coordinator implements it (Coordinator!Promise).                        *)
(***************************************************************************)
CONSTANTS Torrents, Viewers, None

VARIABLES
    saved,      \* torrents with a catalog row
    serving,    \* torrents the engine may read and write
    watching,   \* the torrent each viewer watches, or None
    kept        \* torrents that have bytes

vars == <<saved, serving, watching, kept>>

Init ==
    /\ saved = {} /\ serving = {} /\ kept = {}
    /\ watching = [v \in Viewers |-> None]

Unwatched(t) == \A v \in Viewers : watching[v] # t

\* Bytes of an earlier process are taken over, or found unusable and dropped.
Serve(t) ==
    /\ t \notin serving
    /\ serving' = serving \cup {t}
    /\ kept' \in {kept, kept \ {t}}
    /\ UNCHANGED <<saved, watching>>

Fill(t) ==
    /\ t \in serving
    /\ kept' = kept \cup {t}
    /\ UNCHANGED <<saved, serving, watching>>

Save(t) ==
    /\ t \in serving
    /\ saved' = saved \cup {t}
    /\ UNCHANGED <<serving, watching, kept>>

Watch(v, t) ==
    /\ watching[v] = None /\ t \in serving
    /\ watching' = [watching EXCEPT ![v] = t]
    /\ UNCHANGED <<saved, serving, kept>>

Unwatch(v) ==
    /\ watching' = [watching EXCEPT ![v] = None]
    /\ UNCHANGED <<saved, serving, kept>>

Release(t) ==
    /\ Unwatched(t)
    /\ serving' = serving \ {t}
    /\ UNCHANGED <<saved, watching, kept>>

\* An eviction or a drop takes the bytes; a removal takes the row as well.
Discard(t) ==
    /\ t \notin serving
    /\ kept' = kept \ {t}
    /\ saved' \in {saved, saved \ {t}}
    /\ UNCHANGED <<serving, watching>>

Stop ==
    /\ serving' = {}
    /\ watching' = [v \in Viewers |-> None]
    /\ UNCHANGED <<saved, kept>>

Start ==
    /\ serving = {}
    /\ kept' = kept \cap saved
    /\ UNCHANGED <<saved, serving, watching>>

Next ==
    \/ \E t \in Torrents :
         \/ Serve(t) \/ Fill(t) \/ Save(t) \/ Release(t) \/ Discard(t)
         \/ \E v \in Viewers : Watch(v, t)
    \/ \E v \in Viewers : Unwatch(v)
    \/ Stop
    \/ Start

Spec == Init /\ [][Next]_vars
=============================================================================
