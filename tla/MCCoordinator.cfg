SPECIFICATION Spec
CONSTANTS
    Torrents = {t1}
    Chunks = {c1}
    Views = {r1, r2, f1}
    Writers = {w1}
    Caps = {0}
    None = None
    Clients = {k1, k2}
    Readers = {r1, r2}
    Prefetchers = {f1}
    Timers = {m1, m2}
    Requests = {"add", "addSave", "play", "drop", "rem", "evict"}
    Faults = {}
SYMMETRY Symmetry
INVARIANTS
    TypeOK
    ServedAlone
    Owned
PROPERTY NoRemovalUnderEngine
