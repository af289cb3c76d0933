SPECIFICATION Spec
CONSTANTS
    Torrents = {t1}
    Chunks = {c1}
    Views = {r1, f1}
    Writers = {w1}
    Caps = {0}
    None = None
    Clients = {k1}
    Readers = {r1}
    Prefetchers = {f1}
    Timers = {m1}
    Requests = {"add", "addSave", "play", "drop", "rem", "evict", "wipe", "settings"}
    Faults = {}
SYMMETRY Symmetry
PROPERTY VictimsGoUnlessWatched
