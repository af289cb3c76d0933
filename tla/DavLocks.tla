------------------------------ MODULE DavLocks ------------------------------
(***************************************************************************)
(* The locks of the WebDAV mount (crates/rustorr-http/src/webdav/lock.rs)  *)
(* and the requests that take them (webdav/mod.rs).                        *)
(*                                                                         *)
(* MemLs sits behind a tokio mutex, so each of its calls, with the expired *)
(* locks it collects first, is one step.  A write request confirms or      *)
(* creates locks, awaits the file system and releases them: other requests *)
(* run in between, and a request whose client disconnects is dropped there *)
(* and releases nothing.                                                   *)
(***************************************************************************)
EXTENDS Naturals, FiniteSets, Sequences

CONSTANTS
    Names,      \* paths
    Root,       \* "/"
    Parent,     \* the parent of each path but the root
    Tokens,     \* lock tokens; the code counts, so a new one is never in use
    Requests,
    None

VARIABLES
    byName,     \* MemLs.by_name; Absent for a path without an entry
    byToken,    \* MemLs.by_token: the path of a token, or None
    request,    \* the requests in progress
    known,      \* the tokens clients were given
    left        \* history: the locks that dropped requests still hold

vars == <<byName, byToken, request, known, left>>
locks == <<byName, byToken>>

-----------------------------------------------------------------------------
(* MemLs as values: l.byName and l.byToken. *)

\* walk_to_root: a path and the paths above it.
Walk[n \in Names] == IF n = Root THEN {n} ELSE {n} \cup Walk[Parent[n]]

Absent == [refs |-> 0, token |-> None, zero |-> FALSE, expiry |-> "never", held |-> FALSE]

Now == [byName |-> byName, byToken |-> byToken]
Becomes(l) == byName' = l.byName /\ byToken' = l.byToken

Locked(l) == {n \in Names : l.byName[n].token # None}

\* Faulty variant: only the entry of the lock itself is counted down.
Removed_KeepsAncestors(l, roots) ==
    [byToken |-> [k \in Tokens |-> IF l.byToken[k] \in roots THEN None ELSE l.byToken[k]],
     byName  |-> [n \in Names |->
        IF n \notin roots THEN l.byName[n]
        ELSE IF l.byName[n].refs = 1 THEN Absent
        ELSE [l.byName[n] EXCEPT !.refs = @ - 1, !.token = None, !.expiry = "never"]]]

\* remove: the locks on these paths go, and on the way to the root each entry
\* no other lock counts on.
Removed(l, roots) ==
    [byToken |-> [k \in Tokens |-> IF l.byToken[k] \in roots THEN None ELSE l.byToken[k]],
     byName  |-> [n \in Names |->
        LET through == Cardinality({r \in roots : n \in Walk[r]})
            node    == [l.byName[n] EXCEPT !.refs = @ - through]
        IN  IF through > 0 /\ node.refs = 0 THEN Absent
            ELSE IF n \in roots THEN [node EXCEPT !.token = None, !.expiry = "never"]
            ELSE node]]

Expired(l) == {n \in Locked(l) : l.byName[n].expiry = "past" /\ ~l.byName[n].held}

\* collect_expired, the first thing every call does.
Collected(l) == Removed(l, Expired(l))

\* can_create: no lock on the path, an infinite one only where nothing below is
\* locked, and above it only locks of depth zero.
CanCreate(l, name, zero) ==
    /\ l.byName[name].refs = 0 \/ (l.byName[name].token = None /\ zero)
    /\ \A n \in Walk[name] \ {name} : l.byName[n].token = None \/ l.byName[n].zero

\* create, with the token it returns.
Created(l, name, zero, expiry, token) ==
    [byToken |-> [l.byToken EXCEPT ![token] = name],
     byName  |-> [n \in Names |->
        IF n = name
        THEN [refs |-> l.byName[n].refs + 1, token |-> token, zero |-> zero,
              expiry |-> expiry, held |-> l.byName[n].held]
        ELSE IF n \in Walk[name] THEN [l.byName[n] EXCEPT !.refs = @ + 1]
        ELSE l.byName[n]]]

\* unlock by token, of a lock that no request holds.
CanUnlock(l, token) == l.byToken[token] # None /\ ~l.byName[l.byToken[token]].held
Unlocked(l, token) == Removed(l, {l.byToken[token]})

UnlockedAll(l, tokens) ==
    Removed(l, {l.byToken[k] : k \in {j \in tokens : CanUnlock(l, j)}})

\* lookup: a lock the conditions name that is free and covers the path.  The
\* first in the header's order is taken; any order may be written.
Confirming(l, name, conditions) ==
    {r \in {l.byToken[k] : k \in {j \in conditions : l.byToken[j] # None}} :
       /\ ~l.byName[r].held
       /\ name = r \/ (~l.byName[r].zero /\ r \in Walk[name])}

Held(l, roots) ==
    [l EXCEPT !.byName = [n \in Names |-> IF n \in roots THEN [@[n] EXCEPT !.held = TRUE]
                                          ELSE @[n]]]

Released(l, roots) ==
    [l EXCEPT !.byName = [n \in Names |-> IF n \in roots THEN [@[n] EXCEPT !.held = FALSE]
                                          ELSE @[n]]]

-----------------------------------------------------------------------------
Idle == [at |-> "idle"]

Init ==
    /\ byName = [n \in Names |-> Absent]
    /\ byToken = [k \in Tokens |-> None]
    /\ request = [r \in Requests |-> Idle]
    /\ known = {}
    /\ left = {}

Running == {r \in Requests : request[r].at = "running"}
Checking == {r \in Requests : request[r].at = "checking"}

\* Tokens that some request will give back.
Owned == (UNION {request[r].tokens : r \in Running}) \cup {request[r].token : r \in Checking}

Fresh(l) == {k \in Tokens : l.byToken[k] = None /\ k \notin known \cup Owned}

TypeOK ==
    /\ \A n \in Names :
         /\ byName[n].refs \in Nat
         /\ byName[n].zero \in BOOLEAN /\ byName[n].held \in BOOLEAN
         /\ byName[n].expiry \in {"never", "ahead", "past"}
         /\ byName[n].token # None => byToken[byName[n].token] = n
    /\ \A k \in Tokens : byToken[k] # None => byName[byToken[k]].token = k
    /\ known \subseteq Tokens /\ left \subseteq Names

-----------------------------------------------------------------------------
(* Write requests: DELETE, PUT, MKCOL, PROPPATCH, COPY and MOVE. *)

\* covers: the paths the request asked locks for.  They are the paths it changes,
\* except that nothing is asked for an empty path, which is how the mount's name
\* without its slash comes out, and that a tagged list puts the path of its tag
\* in place of the request's own.
Proceeds(r, covers, tokens, roots) ==
    request' = [request EXCEPT ![r] =
      [at |-> "running", covers |-> covers, tokens |-> tokens, roots |-> roots]]

\* confirm_locks without an If header: a temporary lock on each path the request
\* changes, which is one path, or two for a MOVE; without all of them, none.
WriteUnconditional(r, n, m) ==
    /\ request[r] = Idle
    /\ LET l == Collected(Now)
       IN  IF ~CanCreate(l, n, TRUE) THEN Becomes(l) /\ UNCHANGED request
           ELSE \E k \in Fresh(l) :
                  LET first == Created(l, n, TRUE, "never", k)
                  IN  IF n = m THEN Becomes(first) /\ Proceeds(r, {n}, {k}, {})
                      ELSE IF ~CanCreate(first, m, TRUE)
                      THEN Becomes(Unlocked(first, k)) /\ UNCHANGED request
                      ELSE \E j \in Fresh(first) :
                             /\ Becomes(Created(first, m, TRUE, "never", j))
                             /\ Proceeds(r, {n, m}, {k, j}, {})
    /\ UNCHANGED <<known, left>>

\* The same for an empty path and no destination: no lock, the table is not asked.
WriteUnlocked(r) ==
    /\ request[r] = Idle
    /\ Proceeds(r, {}, {}, {})
    /\ UNCHANGED <<locks, known, left>>

\* confirm_locks with an If header: one of its lists confirms the paths it covers,
\* and the locks it names are held, or the request fails.  They are the request's
\* own path and its destination; a tag takes the place of the own path, or comes
\* on top of the destination of a COPY, and one that names the mount without its
\* slash covers nothing.
WriteConditional(r, covers, conditions) ==
    /\ request[r] = Idle
    /\ conditions \subseteq known
    /\ LET l == Collected(Now)
       IN  IF \A n \in covers : Confirming(l, n, conditions) # {}
           THEN \E roots \in [covers -> Names] :
                  /\ \A n \in covers : roots[n] \in Confirming(l, n, conditions)
                  /\ LET taken == {roots[n] : n \in covers}
                     IN  Becomes(Held(l, taken)) /\ Proceeds(r, covers, {}, taken)
           ELSE Becomes(l) /\ UNCHANGED request
    /\ UNCHANGED <<known, left>>

\* release, after the file system answered: temporary locks are unlocked, with
\* the expired ones collected, confirmed ones are free again.
Release(r) ==
    /\ r \in Running
    /\ LET q == request[r]
       IN  IF q.tokens # {} THEN Becomes(UnlockedAll(Collected(Now), q.tokens))
           ELSE Becomes(Released(Now, q.roots))
    /\ request' = [request EXCEPT ![r] = Idle]
    /\ UNCHANGED <<known, left>>

(* LOCK and UNLOCK. *)

\* LOCK with a body: a new lock, then the path is looked up.
Lock(r, n, zero, expiry) ==
    /\ request[r] = Idle
    /\ LET l == Collected(Now)
       IN  IF CanCreate(l, n, zero)
           THEN \E k \in Fresh(l) :
                  /\ Becomes(Created(l, n, zero, expiry, k))
                  /\ request' = [request EXCEPT ![r] = [at |-> "checking", token |-> k]]
           ELSE Becomes(l) /\ UNCHANGED request
    /\ UNCHANGED <<known, left>>

\* The path exists and the client gets the token, or the lock is undone.
LockEnds(r, exists) ==
    /\ r \in Checking
    /\ LET k == request[r].token
           l == Collected(Now)
       IN  IF exists
           THEN known' = known \cup {k} /\ UNCHANGED locks
           ELSE /\ Becomes(IF CanUnlock(l, k) THEN Unlocked(l, k) ELSE l)
                /\ UNCHANGED known
    /\ request' = [request EXCEPT ![r] = Idle]
    /\ UNCHANGED left

\* LOCK without a body refreshes the lock its If header names.
Refresh(k, expiry) ==
    /\ k \in known
    /\ LET l == Collected(Now)
           n == l.byToken[k]
       IN  IF n # None /\ ~l.byName[n].held
           THEN Becomes([l EXCEPT !.byName[n].expiry = expiry])
           ELSE Becomes(l)
    /\ UNCHANGED <<request, known, left>>

Unlock(k) ==
    /\ k \in known
    /\ LET l == Collected(Now)
       IN  Becomes(IF CanUnlock(l, k) THEN Unlocked(l, k) ELSE l)
    /\ UNCHANGED <<request, known, left>>

(* The world. *)

\* A client forgets a token that names no lock any more.
Forget(k) ==
    /\ k \in known
    /\ byToken[k] = None
    /\ known' = known \ {k}
    /\ UNCHANGED <<locks, request, left>>

\* Time passes a lock's expiry; the lock stays until a call collects it.
Elapse(n) ==
    /\ byName[n].expiry = "ahead"
    /\ byName' = [byName EXCEPT ![n].expiry = "past"]
    /\ UNCHANGED <<byToken, request, known, left>>

\* The client of a request is gone before the file system answered: the request
\* is dropped at that await and gives nothing back.
Drop(r) ==
    /\ request[r] # Idle
    /\ left' = IF r \in Running THEN left \cup request[r].roots ELSE left
    /\ request' = [request EXCEPT ![r] = Idle]
    /\ UNCHANGED <<locks, known>>

OneOrTwo(S) == {{a, b} : a, b \in S}

Next ==
    \/ \E r \in Requests :
         \/ \E n, m \in Names : WriteUnconditional(r, n, m)
         \/ WriteUnlocked(r)
         \/ \E covers \in {{}} \cup OneOrTwo(Names), conditions \in {{}} \cup OneOrTwo(known) :
              WriteConditional(r, covers, conditions)
         \/ \E n \in Names, zero \in BOOLEAN, expiry \in {"never", "ahead"} :
              Lock(r, n, zero, expiry)
         \/ \E exists \in BOOLEAN : LockEnds(r, exists)
         \/ Release(r)
         \/ Drop(r)
    \/ \E k \in known :
         \/ \E expiry \in {"never", "ahead"} : Refresh(k, expiry)
         \/ Unlock(k)
         \/ Forget(k)
    \/ \E n \in Names : Elapse(n)

Spec == Init /\ [][Next]_vars

-----------------------------------------------------------------------------
(* Properties. *)

\* The reference count of an entry is the number of locks on it and below it,
\* and an entry is there exactly while there is one: a leaf that is unlocked or
\* expires never takes the count a sibling still needs (lock.rs:146-183, 216-232).
RefsExact ==
    \A n \in Names :
      /\ byName[n].refs = Cardinality({m \in Locked(Now) : n \in Walk[m]})
      /\ byName[n].refs = 0 => byName[n] = Absent

\* Two locks never cover the same path: above a lock there are only locks of
\* depth zero, whatever was created, refreshed, expired and unlocked in between
\* (lock.rs:133-144).
LocksDisjoint ==
    \A n, m \in Locked(Now) : n # m /\ n \in Walk[m] => byName[n].zero

\* Two write requests in progress never have locks for the same path, also when
\* a lock expires while it is held (mod.rs:194-255, lock.rs:97-123).  Without a
\* tagged list and an empty path that is what they change, and no two change the
\* same path.  A tagged list confirms its own path in place of the one that is
\* changed, and nothing checks that the two agree (mod.rs:226-248), so such a
\* request may change what another one changes, or has locked.
OneWriter ==
    \A r, q \in Running : r # q => request[r].covers \cap request[q].covers = {}

\* A lock is marked as held exactly while a request holds it, or because that
\* request was dropped; a request's locks stay over the paths they were asked for
\* until it gives them back
\* (mod.rs:173-268, "What a write operation holds while it runs").
HeldWhileRunning ==
    /\ {n \in Names : byName[n].held} = left \cup UNION {request[r].roots : r \in Running}
    /\ \A k \in Owned : byToken[k] # None \/ \E r \in Checking : request[r].token = k
    /\ \A r \in Running : \A n \in request[r].covers :
         \E root \in Locked(Now) : root = n \/ (root \in Walk[n] /\ ~byName[root].zero)

\* What the table says of locks is what the requests in progress have.
LocksHold == RefsExact /\ LocksDisjoint /\ OneWriter /\ HeldWhileRunning
=============================================================================
