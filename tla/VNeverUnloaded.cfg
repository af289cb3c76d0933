SPECIFICATION FairSpec
CONSTANTS
    Torrents = {t1}
    Chunks = {c1}
    Views = {r1, f1}
    Writers = {w1}
    Caps = {0}
    None = None
    Clients = {k1}
    Readers = {r1}
    Prefetchers = {f1}
    Timers = {m1}
    Requests = {"addSave", "play"}
    Faults = {}
PROPERTY UnwatchedIsUnloaded
