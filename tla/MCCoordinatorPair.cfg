SPECIFICATION Spec
CONSTANTS
    Torrents = {t1, t2}
    Chunks = {c1}
    Views = {r1, f1}
    Writers = {w1}
    Caps = {1}
    None = None
    Clients = {k1}
    Readers = {r1}
    Prefetchers = {f1}
    Timers = {m1}
    Requests = {"add", "addSave", "play", "settings", "wipe"}
    Faults = {}
SYMMETRY Symmetry
INVARIANT Accounted
PROPERTY Promise
