SPECIFICATION MCSpec
CONSTANTS
    t1 = t1
    t2 = t2
    t3 = t3
    c1 = c1
    c2 = c2
    Torrents = {t1, t2, t3}
    Chunks = {c1, c2}
    Views = {v1, v2}
    Writers = {w1, w2}
    Caps = {0, 1, 2}
    None = None
SYMMETRY Symmetry
INVARIANTS
    CacheOK
    PinsExact
    RecencyTotal
    AccountingExact
    ResidentHasBytes
    CandidatesRight
PROPERTY WatchedKeepsData
