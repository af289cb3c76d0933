----------------------------- MODULE Media_proofs -----------------------------
(* Theorems about GstService, for any number of torrents, streams, requests *)
(* and tasks and any limits; about Dlna, for any number of requests and     *)
(* ports; about Pipeline, for any film, cues and number of requests; about  *)
(* GstTask, for any number of requests and segments; and about Probe, for   *)
(* any number of callers and any reports.                                   *)
EXTENDS GstService, Dlna, Pipeline, FiniteInduction

(* A request decides that a new task is needed before it has probed and built *)
(* one; the invariant says that what it decided on still holds when it puts    *)
(* the task in the place of another.                                           *)

Types ==
    /\ tasks \in [Hashes -> Pool \cup {None}]
    /\ DOMAIN task = Pool
    /\ DOMAIN caller = Callers \cup {Admin}
    /\ idle \subseteq Pool /\ sweep \subseteq Hashes \X Pool

\* The tasks of the registry run, each for its own torrent.
Registered ==
    \A h \in Hashes : tasks[h] # None =>
      task[tasks[h]].state = "live" /\ task[tasks[h]].hash = h

\* A request past Enter has task_calls, and no task of the registry is for its stream.
Decided ==
    \A c \in Callers :
      /\ caller[c].at \in {"idle", "queued", "probing", "built", "evict", "evicting"}
      /\ caller[c].at # "idle" => caller[c].hash \in Hashes
      /\ caller[c].at \in {"probing", "built", "evict", "evicting"} => creating = c
      /\ caller[c].at \in {"probing", "built"} =>
           LET h == caller[c].hash IN tasks[h] # None => task[tasks[h]].key # caller[c].key

\* A task that is built waits for its place.
Waits ==
    \A c \in Callers : caller[c].at = "built" =>
      /\ caller[c].task \in Pool \ Mapped
      /\ task[caller[c].task].state = "live"
      /\ task[caller[c].task].hash = caller[c].hash
      /\ task[caller[c].task].key = caller[c].key

Administers == caller[Admin].at \in {"idle", "evict", "evicting"}

Inv == Types /\ Registered /\ Decided /\ Waits /\ Administers /\ NoOrphans

-----------------------------------------------------------------------------
LEMMA InvInit == Init => Inv
BY GstAssumption DEF Init, Inv, Types, Registered, Decided, Waits, Administers, NoOrphans, Waiting, Free, Mapped, Built

\* Nobody else is between Enter and Insert.
LEMMA OneCreates ==
    ASSUME Inv, NEW c \in Callers,
           creating = None \/ caller[c].at \in {"probing", "built", "evict", "evicting"}
    PROVE  \A d \in Callers \ {c} : caller[d].at \in {"idle", "queued"}
BY GstAssumption DEF Inv, Decided

\* The tasks and the registry stay, and the requests' tasks with them.
LEMMA RegistryStays ==
    ASSUME Inv, UNCHANGED <<tasks, task>>, DOMAIN caller' = DOMAIN caller,
           idle' \subseteq Pool, sweep' \subseteq Hashes \X Pool,
           Decided', Administers',
           \A c \in Callers : caller'[c].at = "built" <=> caller[c].at = "built",
           \A c \in Callers : caller'[c].at = "built" => caller'[c] = caller[c]
    PROVE  Inv'
<1> USE DEF Inv
<1>1. Types' /\ Registered'
  BY DEF Types, Registered
<1>2. Mapped' = Mapped
  BY DEF Mapped
<1>3. Waits'
  BY <1>2 DEF Waits
<1>4. Built \subseteq Built'
  BY DEF Built
<1>5. NoOrphans'
  BY <1>2, <1>4 DEF NoOrphans
<1> QED  BY <1>1, <1>3, <1>5

\* Requests that neither make a task nor let go of one.
LEMMA CallsKeepInv ==
    ASSUME Inv,
           \/ \E c \in Callers, h \in Hashes, k \in Keys : Ask(c, h, k)
           \/ \E c \in Callers : Enter(c)
           \/ \E c \in Callers \cup {Admin} : ReadLimit(c)
           \/ \E h \in Hashes : Get(h)
           \/ \E l \in Limits : UpdateConfig(l)
           \/ \E t \in Pool : GoesIdle(t)
           \/ Sweep
    PROVE  Inv'
<1> USE DEF Inv, Types
<1>1. ASSUME NEW c \in Callers, NEW h \in Hashes, NEW k \in Keys, Ask(c, h, k) PROVE Inv'
  <2>1. /\ UNCHANGED <<tasks, task, creating, sweep>> /\ idle' \subseteq Pool
        /\ caller[c].at = "idle"
        /\ \/ caller' = caller
           \/ caller' = [caller EXCEPT ![c] = [at |-> "queued", hash |-> h, key |-> k]]
    BY <1>1 DEF Ask, Goes, Waiting, Touched
  <2>2. Decided'
    BY <2>1 DEF Decided
  <2>3. Administers'
    BY <2>1, GstAssumption DEF Administers
  <2> QED  BY <2>1, <2>2, <2>3, RegistryStays
<1>2. ASSUME NEW c \in Callers, Enter(c) PROVE Inv'
  <2>1. /\ UNCHANGED <<tasks, task, sweep>> /\ idle' \subseteq Pool
        /\ caller[c].at = "queued" /\ creating = None
    BY <1>2 DEF Enter, Touched
  <2>2. CASE Matches(caller[c].hash, caller[c].key)
    <3>1. caller' = [caller EXCEPT ![c] = [at |-> "idle"]] /\ creating' = creating
      BY <1>2, <2>2 DEF Enter, Goes, Waiting
    <3>2. Decided'
      BY <2>1, <3>1 DEF Decided
    <3>3. Administers'
      BY <3>1, GstAssumption DEF Administers
    <3> QED  BY <2>1, <3>1, <3>2, <3>3, RegistryStays
  <2>3. CASE ~Matches(caller[c].hash, caller[c].key)
    <3>1. /\ caller' = [caller EXCEPT ![c] = [caller[c] EXCEPT !.at = "probing"]]
          /\ creating' = c
      BY <1>2, <2>3 DEF Enter, Goes
    <3>2. /\ caller'[c].at = "probing" /\ caller'[c].hash = caller[c].hash
          /\ caller'[c].key = caller[c].key
          /\ \A d \in (Callers \cup {Admin}) \ {c} : caller'[d] = caller[d]
      BY <3>1
    <3>3. LET h == caller[c].hash IN
            h \in Hashes /\ (tasks[h] # None => task[tasks[h]].key # caller[c].key)
      BY <2>1, <2>3 DEF Matches, Registered, Decided
    <3>4. Decided'
      BY <2>1, <3>1, <3>2, <3>3, OneCreates DEF Decided
    <3>5. Administers'
      BY <3>2, GstAssumption DEF Administers
    <3> QED  BY <2>1, <3>1, <3>2, <3>4, <3>5, RegistryStays
  <2> QED  BY <2>2, <2>3
<1>3. ASSUME NEW c \in Callers \cup {Admin}, ReadLimit(c) PROVE Inv'
  <2>1. /\ UNCHANGED <<tasks, task, creating, idle, sweep>> /\ caller[c].at = "evict"
        /\ caller' = [caller EXCEPT ![c] =
                        [at |-> "evicting", hash |-> caller[c].hash, limit |-> limit]]
    BY <1>3 DEF ReadLimit, Goes
  <2>2. Decided'
    BY <2>1 DEF Decided
  <2>3. Administers'
    BY <2>1 DEF Administers
  <2> QED  BY <2>1, <2>2, <2>3, RegistryStays
<1>4. ASSUME NEW l \in Limits, UpdateConfig(l) PROVE Inv'
  <2>1. /\ UNCHANGED <<tasks, task, creating, idle, sweep>>
        /\ caller' = [caller EXCEPT ![Admin] = [at |-> "evict", hash |-> None]]
    BY <1>4 DEF UpdateConfig, Goes
  <2>2. \A c \in Callers : caller'[c] = caller[c]
    BY <2>1, GstAssumption
  <2>3. Decided' /\ Administers'
    BY <2>1, <2>2 DEF Decided, Administers
  <2> QED  BY <2>1, <2>2, <2>3, RegistryStays
<1>5. ASSUME Sweep \/ (\E h \in Hashes : Get(h)) \/ (\E t \in Pool : GoesIdle(t)) PROVE Inv'
  <2>1. UNCHANGED <<tasks, task, creating, caller>>
    BY <1>5 DEF Sweep, Get, GoesIdle
  <2>2. idle' \subseteq Pool /\ sweep' \subseteq Hashes \X Pool
    <3>1. CASE Sweep
      <4>1. ASSUME NEW h \in Hashes, tasks[h] \in idle PROVE <<h, tasks[h]>> \in Hashes \X Pool
        BY <4>1
      <4> QED  BY <3>1, <4>1 DEF Sweep
    <3>2. CASE (\E h \in Hashes : Get(h)) \/ (\E t \in Pool : GoesIdle(t))
      BY <3>2 DEF Get, GoesIdle, Touched
    <3> QED  BY <1>5, <3>1, <3>2
  <2>3. Decided' /\ Administers'
    BY <2>1 DEF Decided, Administers
  <2> QED  BY <2>1, <2>2, <2>3, RegistryStays
<1> QED  BY <1>1, <1>2, <1>3, <1>4, <1>5

\* A task is built, or could not be.
LEMMA BuildKeepsInv ==
    ASSUME Inv, NEW c \in Callers, Build(c)
    PROVE  Inv'
<1> USE DEF Inv, Types
<1>1. /\ caller[c].at = "probing" /\ UNCHANGED <<tasks, idle, limit, sweep>>
      /\ caller[c].hash \in Hashes /\ creating = c
      /\ \A d \in Callers \ {c} : caller[d].at \in {"idle", "queued"}
  BY OneCreates DEF Build, Decided
<1>2. CASE UNCHANGED task /\ caller' = [caller EXCEPT ![c] = [at |-> "idle"]] /\ creating' = None
  <2>1. Decided'
    BY <1>1, <1>2 DEF Decided
  <2>2. Administers'
    BY <1>2, GstAssumption DEF Administers
  <2>3. \A d \in Callers : caller[d].at # "built" /\ caller'[d].at # "built"
    BY <1>1, <1>2
  <2> QED  BY <1>1, <1>2, <2>1, <2>2, <2>3, RegistryStays
<1>3. ASSUME NEW t \in Pool, task[t] = Free,
             task' = [task EXCEPT ![t] = [state |-> "live", hash |-> caller[c].hash,
                                          key |-> caller[c].key]],
             caller' = [caller EXCEPT ![c] =
               [at |-> "built", hash |-> caller[c].hash, key |-> caller[c].key, task |-> t]],
             creating' = creating
      PROVE  Inv'
  <2>1. t \notin Mapped
    BY <1>3 DEF Mapped, Registered, Free
  <2>2. Mapped' = Mapped /\ \A h \in Hashes : tasks[h] # None => tasks[h] # t
    BY <1>1, <2>1 DEF Mapped
  <2>3. Types'
    BY <1>1, <1>3
  <2>4. /\ caller'[c] = [at |-> "built", hash |-> caller[c].hash, key |-> caller[c].key, task |-> t]
        /\ \A d \in (Callers \cup {Admin}) \ {c} : caller'[d] = caller[d]
        /\ task'[t] = [state |-> "live", hash |-> caller[c].hash, key |-> caller[c].key]
        /\ \A u \in Pool \ {t} : task'[u] = task[u]
    BY <1>3
  <2>5. Registered'
    BY <1>1, <2>2, <2>4 DEF Registered
  <2>6. Decided'
    BY <1>1, <1>3, <2>2, <2>4 DEF Decided
  <2>7. Waits'
    BY <1>1, <2>1, <2>2, <2>4 DEF Waits
  <2>8. Administers'
    BY <2>4, GstAssumption DEF Administers
  <2>9. Built = {} /\ t \in Built'
    BY <1>1, <2>4 DEF Built
  <2>10. NoOrphans'
    BY <2>2, <2>4, <2>9 DEF NoOrphans
  <2> QED  BY <2>3, <2>5, <2>6, <2>7, <2>8, <2>10
<1> QED  BY <1>1, <1>2, <1>3 DEF Build, Goes, Waiting

\* Tasks leave the registry and are disposed of; a caller may be through with it.
LEMMA LeavingKeepsInv ==
    ASSUME Inv, NEW out \in SUBSET Mapped,
           tasks' = [h \in Hashes |-> IF tasks[h] \in out THEN None ELSE tasks[h]],
           Leaving(out), sweep' \subseteq sweep,
           \/ UNCHANGED <<caller, creating>>
           \/ \E c \in Callers \cup {Admin} :
                /\ caller[c].at = "evicting" /\ caller' = [caller EXCEPT ![c] = Waiting]
                /\ creating' = IF creating = c THEN None ELSE creating
    PROVE  Inv'
<1> USE DEF Inv, Types
<1>1. /\ task' = [t \in Pool |-> IF t \in out THEN [state |-> "leaving"] ELSE task[t]]
      /\ idle' \subseteq Pool /\ None \notin out
  BY DEF Leaving, Mapped
<1>2. \A h \in Hashes : tasks'[h] # None => tasks'[h] = tasks[h] /\ task'[tasks[h]] = task[tasks[h]]
  BY <1>1
<1>3. Types' /\ Registered'
  BY <1>1, <1>2 DEF Registered
<1>4. /\ \A c \in Callers \cup {Admin} : caller'[c] = caller[c] \/ caller'[c].at = "idle"
      /\ \A c \in Callers : caller[c].at = "built" => caller'[c] = caller[c]
  BY GstAssumption DEF Waiting
<1>5. \A c \in Callers : caller'[c].at \in {"probing", "built", "evict", "evicting"} => creating' = c
  BY <1>4, OneCreates, GstAssumption DEF Decided, Waiting
<1>6. Decided'
  BY <1>2, <1>4, <1>5 DEF Decided
<1>7. Mapped' \subseteq Mapped
  BY <1>2 DEF Mapped
<1>8. \A c \in Callers : caller[c].at = "built" => task'[caller[c].task] = task[caller[c].task]
  BY <1>1 DEF Waits
<1>9. Waits'
  BY <1>4, <1>7, <1>8 DEF Waits
<1>10. Administers'
  BY <1>4 DEF Administers
<1>11. Mapped \ out \subseteq Mapped'
  BY DEF Mapped
<1>12. Built \subseteq Built'
  BY <1>4 DEF Built
<1>13. NoOrphans'
  BY <1>1, <1>11, <1>12 DEF NoOrphans
<1> QED  BY <1>3, <1>6, <1>9, <1>10, <1>13

\* The task that is built takes its place; the one that had it is disposed of.
LEMMA InsertKeepsInv ==
    ASSUME Inv, NEW c \in Callers, Insert(c)
    PROVE  Inv'
<1> USE DEF Inv, Types
<1> PICK h \in Hashes : h = caller[c].hash
  BY DEF Insert, Decided
<1> PICK n \in Pool : n = caller[c].task
  BY DEF Insert, Waits
<1>1. /\ tasks' = [tasks EXCEPT ![h] = n] /\ Leaving({tasks[h]})
      /\ caller' = [caller EXCEPT ![c] = [at |-> "evict", hash |-> h]]
      /\ UNCHANGED <<creating, sweep>> /\ caller[c].at = "built"
  BY DEF Insert, Goes
<1>2. /\ task' = [t \in Pool |-> IF t = tasks[h] THEN [state |-> "leaving"] ELSE task[t]]
      /\ idle' \subseteq Pool
  BY <1>1 DEF Leaving
<1>3. n \notin Mapped /\ n # None /\ task[n].state = "live" /\ task[n].hash = h
  BY <1>1, GstAssumption DEF Waits
<1>4. task'[n] = task[n]
  BY <1>2, <1>3 DEF Mapped
<1>5. /\ tasks'[h] = n /\ \A g \in Hashes \ {h} : tasks'[g] = tasks[g]
  BY <1>1
<1>6. \A g \in Hashes \ {h} : tasks[g] # None => tasks[g] # tasks[h] /\ task'[tasks[g]] = task[tasks[g]]
  BY <1>2 DEF Registered
<1>7. Types'
  BY <1>1, <1>2
<1>8. Registered'
  BY <1>3, <1>4, <1>5, <1>6 DEF Registered
<1>9. /\ caller'[c] = [at |-> "evict", hash |-> h]
      /\ \A d \in (Callers \cup {Admin}) \ {c} : caller'[d] = caller[d]
      /\ \A d \in Callers \ {c} : caller[d].at \in {"idle", "queued"}
  BY <1>1, OneCreates
<1>10. Decided'
  BY <1>1, <1>9 DEF Decided
<1>11. Waits' /\ Administers'
  BY <1>9, GstAssumption DEF Waits, Administers
<1>12. n \in Mapped' /\ Mapped \ {tasks[h]} \subseteq Mapped'
  BY <1>3, <1>5 DEF Mapped
<1>13. Built \subseteq {n}
  BY <1>9 DEF Built
<1>14. NoOrphans'
  BY <1>2, <1>12, <1>13 DEF NoOrphans
<1> QED  BY <1>7, <1>8, <1>10, <1>11, <1>14

LEMMA RemovalsKeepInv ==
    ASSUME Inv,
           \/ \E c \in Callers \cup {Admin} : Evict(c)
           \/ \E h \in Hashes : TryRemove(h)
           \/ \E h \in Hashes, t \in Pool : SweepOne(h, t)
    PROVE  Inv'
<1> USE DEF Inv, Types
<1>1. ASSUME NEW c \in Callers \cup {Admin}, Evict(c) PROVE Inv'
  <2>1. PICK out \in SUBSET Mapped :
          /\ tasks' = [h \in Hashes |-> IF tasks[h] \in out THEN None ELSE tasks[h]]
          /\ Leaving(out)
    BY <1>1 DEF Evict, Evicted
  <2>2. /\ caller[c].at = "evicting" /\ caller' = [caller EXCEPT ![c] = Waiting]
        /\ creating' = (IF creating = c THEN None ELSE creating) /\ sweep' = sweep
    BY <1>1 DEF Evict, Goes
  <2> QED  BY <2>1, <2>2, LeavingKeepsInv
<1>2. ASSUME NEW h \in Hashes, TryRemove(h) PROVE Inv'
  <2>1. {tasks[h]} \in SUBSET Mapped
    BY <1>2 DEF TryRemove, Mapped
  <2>2. tasks' = [g \in Hashes |-> IF tasks[g] \in {tasks[h]} THEN None ELSE tasks[g]]
    <3>1. \A g \in Hashes : tasks[g] = tasks[h] => g = h
      BY <1>2 DEF TryRemove, Registered
    <3> QED  BY <1>2, <3>1 DEF TryRemove
  <2>3. Leaving({tasks[h]}) /\ UNCHANGED <<caller, creating, sweep>>
    BY <1>2 DEF TryRemove
  <2> QED  BY <2>1, <2>2, <2>3, LeavingKeepsInv
<1>3. ASSUME NEW h \in Hashes, NEW t \in Pool, SweepOne(h, t) PROVE Inv'
  <2>1. sweep' \subseteq sweep /\ UNCHANGED <<caller, creating>>
    BY <1>3 DEF SweepOne
  <2>2. CASE tasks[h] = t /\ t \in idle
    <3>1. tasks' = [tasks EXCEPT ![h] = None] /\ Leaving({t})
      BY <1>3, <2>2 DEF SweepOne
    <3>2. tasks' = [g \in Hashes |-> IF tasks[g] \in {t} THEN None ELSE tasks[g]]
      <4>1. \A g \in Hashes : tasks[g] = tasks[h] => g = h
        BY <2>2, GstAssumption DEF Registered
      <4> QED  BY <2>2, <3>1, <4>1
    <3>3. {t} \in SUBSET Mapped
      BY <2>2, GstAssumption DEF Mapped
    <3> QED  BY <2>1, <3>1, <3>2, <3>3, LeavingKeepsInv
  <2>3. CASE ~(tasks[h] = t /\ t \in idle)
    <3>1. UNCHANGED <<tasks, task, idle>>
      BY <1>3, <2>3 DEF SweepOne
    <3>2. Decided' /\ Administers'
      BY <2>1, <3>1 DEF Decided, Administers
    <3> QED  BY <2>1, <3>1, <3>2, RegistryStays
  <2> QED  BY <2>2, <2>3
<1> QED  BY <1>1, <1>2, <1>3

LEMMA DisposeKeepsInv ==
    ASSUME Inv, NEW t \in Pool, Dispose(t)
    PROVE  Inv'
<1> USE DEF Inv, Types
<1>1. /\ task[t].state = "leaving" /\ task' = [task EXCEPT ![t] = Free]
      /\ UNCHANGED <<tasks, idle, caller, creating, sweep>>
  BY DEF Dispose
<1>2. \A u \in Pool : u # t => task'[u] = task[u]
  BY <1>1
<1>3. task'[t].state = "free"
  BY <1>1 DEF Free
<1>4. Mapped' = Mapped /\ Built' = Built
  BY <1>1 DEF Mapped, Built
<1>5. \A h \in Hashes : tasks[h] # None => tasks[h] # t
  BY <1>1 DEF Registered
<1>6. Types' /\ Registered' /\ Administers'
  BY <1>1, <1>2, <1>5 DEF Registered, Administers
<1>7. Decided'
  BY <1>1, <1>2, <1>5 DEF Decided
<1>8. Waits'
  BY <1>1, <1>2, <1>4 DEF Waits
<1>9. NoOrphans'
  BY <1>2, <1>3, <1>4 DEF NoOrphans
<1> QED  BY <1>6, <1>7, <1>8, <1>9

LEMMA InvStep == Inv /\ [Next]_vars => Inv'
<1> SUFFICES ASSUME Inv, [Next]_vars PROVE Inv'
  OBVIOUS
<1>1. CASE UNCHANGED vars
  BY <1>1 DEF vars, Inv, Types, Registered, Decided, Waits, Administers, NoOrphans, Mapped, Built
<1>2. CASE Next
  BY <1>2, CallsKeepInv, BuildKeepsInv, InsertKeepsInv, RemovalsKeepInv, DisposeKeepsInv DEF Next
<1> QED  BY <1>1, <1>2

LEMMA InvAlways == Spec => []Inv
<1>1. Init => Inv
  BY InvInit
<1>2. Inv /\ [Next]_vars => Inv'
  BY InvStep
<1> QED  BY <1>1, <1>2, PTL DEF Spec

-----------------------------------------------------------------------------
-----------------------------------------------------------------------------
(* The limit: whoever adds a task or changes the limit is on the way to     *)
(* evicting, and once somebody evicts with the limit that is in force the   *)
(* registry keeps it.  What a request read of an earlier limit may be stale;*)
(* the settings request, the only one that changes it, knows the last.      *)

\* The tasks are ordered strictly by their last use.
Ordered ==
    /\ order \subseteq Live \X Live
    /\ \A t \in Pool : <<t, t>> \notin order
    /\ \A t, u, v \in Pool : <<t, u>> \in order /\ <<u, v>> \in order => <<t, v>> \in order

\* Somebody is going to evict for the limit that is in force.
Evicts(c) == \/ caller[c].at = "evict"
             \/ caller[c].at = "evicting" /\ caller[c].limit = limit

LimitInv ==
    /\ limit \in Limits
    /\ Ordered
    /\ \A c \in Callers \cup {Admin} : caller[c].at = "evicting" => caller[c].limit \in Limits
    /\ caller[Admin].at = "evicting" => caller[Admin].limit = limit
    /\ limit > 0 /\ Cardinality(Mapped) > limit => \E c \in Callers \cup {Admin} : Evicts(c)

LEMMA MappedIsFinite == IsFiniteSet(Mapped) /\ Cardinality(Mapped) \in Nat
<1>1. IsFiniteSet({tasks[h] : h \in Hashes})
  <2> DEFINE f == [h \in Hashes |-> tasks[h]]
  <2>1. f \in Surjection(Hashes, {tasks[h] : h \in Hashes})
    BY DEF Surjection
  <2> QED  BY <2>1, GstAssumption, FS_Surjection
<1> QED  BY <1>1, FS_Subset, FS_CardinalityType DEF Mapped

LEMMA LimitInit == Init => LimitInv
<1> SUFFICES ASSUME Init PROVE LimitInv
  OBVIOUS
<1>1. Mapped = {}
  BY DEF Init, Mapped
<1>2. Cardinality(Mapped) = 0
  BY <1>1, FS_EmptySet
<1> QED  BY <1>2, GstAssumption DEF Init, LimitInv, Ordered, Waiting, Live

\* A task that is used is the last one.
LEMMA TouchedOrders ==
    ASSUME Ordered, NEW t \in Live, Touched(t), UNCHANGED task
    PROVE  Ordered'
BY DEF Ordered, Touched, Live

\* Evicting for a limit leaves no more tasks than it allows.
LEMMA EvictedAreEnough ==
    ASSUME Ordered, Types, NEW lim \in Nat, lim > 0, NEW protected
    PROVE  Cardinality(Mapped \ Evicted(lim, {protected})) <= lim
           /\ Cardinality(Mapped \ Evicted(lim, {})) <= lim
<1>1. ASSUME NEW kept, IsFiniteSet(kept), Cardinality(Mapped \ kept) >= Cardinality(Mapped) - 1
      PROVE  Cardinality(Mapped \ Evicted(lim, kept)) <= lim
  <2> DEFINE over == Cardinality(Mapped) - lim
             S == Mapped \ kept
             out == Evicted(lim, kept)
  <2>1. IsFiniteSet(S) /\ Cardinality(S) \in Nat /\ S \subseteq Mapped
    BY MappedIsFinite, FS_Subset, FS_CardinalityType
  <2>2. S \subseteq Pool
    BY DEF Mapped, Types
  <2>3. out = FirstOf(S, order, over)
    BY DEF Evicted, FirstOf, Before
  <2>4. out \subseteq Mapped
    BY DEF Evicted
  <2>5. Cardinality(Mapped \ out) = Cardinality(Mapped) - Cardinality(out)
        /\ Cardinality(out) \in Nat /\ Cardinality(out) <= Cardinality(Mapped)
    <3>1. IsFiniteSet(out) /\ Cardinality(out) <= Cardinality(Mapped)
      BY <2>4, MappedIsFinite, FS_Subset
    <3>2. Mapped \cap out = out
      BY <2>4
    <3> QED  BY <3>1, <3>2, MappedIsFinite, FS_Difference, FS_CardinalityType
  <2> HIDE DEF out
  <2>6. CASE over < 0
    BY <2>5, <2>6, MappedIsFinite DEF out
  <2>7. CASE over >= 0
    <3>1. over \in Nat /\ over <= Cardinality(S)
      BY <1>1, <2>1, <2>7, MappedIsFinite
    <3>2. \A x \in S : <<x, x>> \notin order
      BY <2>2 DEF Ordered
    <3>3. \A x, y, z \in S : <<x, y>> \in order /\ <<y, z>> \in order => <<x, z>> \in order
      BY <2>2 DEF Ordered
    <3> HIDE DEF S, over
    <3>4. Cardinality(FirstOf(S, order, over)) >= over
      BY <2>1, <3>1, <3>2, <3>3, FirstAreEnough
    <3> QED  BY <2>3, <2>5, <3>4, MappedIsFinite DEF over, out
  <2> QED  BY <2>6, <2>7, MappedIsFinite
<1>2. Cardinality(Mapped \ {}) >= Cardinality(Mapped) - 1
  <2>1. Mapped \ {} = Mapped
    OBVIOUS
  <2> QED  BY <2>1, MappedIsFinite
<1>3. Cardinality(Mapped \ {protected}) >= Cardinality(Mapped) - 1
  <2>1. CASE protected \in Mapped
    BY <2>1, MappedIsFinite, FS_RemoveElement
  <2>2. CASE protected \notin Mapped
    <3>1. Mapped \ {protected} = Mapped
      BY <2>2
    <3> QED  BY <3>1, MappedIsFinite
  <2> QED  BY <2>1, <2>2
<1>4. IsFiniteSet({}) /\ IsFiniteSet({protected})
  BY FS_EmptySet, FS_Singleton
<1> QED  BY <1>1, <1>2, <1>3, <1>4

\* What takes tasks away leaves no more than there were, in the order they had.
LEMMA FewerKeepLimit ==
    ASSUME Inv, LimitInv, NEW out, Leaving(out), limit' = limit,
           tasks' = [h \in Hashes |-> IF tasks[h] \in out THEN None ELSE tasks[h]]
    PROVE  Ordered' /\ Cardinality(Mapped') <= Cardinality(Mapped)
           /\ (out \subseteq Mapped => Mapped' = Mapped \ out)
<1>1. Ordered'
  BY DEF Leaving, Ordered, LimitInv, Live
<1>2. Mapped' \subseteq Mapped
  BY DEF Mapped
<1>3. Cardinality(Mapped') <= Cardinality(Mapped)
  BY <1>2, MappedIsFinite, FS_Subset
<1>4. out \subseteq Mapped => Mapped' = Mapped \ out
  BY DEF Mapped
<1> QED  BY <1>1, <1>3, <1>4

LEMMA LimitStays ==
    ASSUME LimitInv, UNCHANGED <<tasks, task, order, limit, caller>>
    PROVE  LimitInv'
BY DEF LimitInv, Ordered, Live, Evicts, Mapped

\* Every step keeps it.
LEMMA LimitStep == Inv /\ LimitInv /\ [Next]_vars => LimitInv'
<1> SUFFICES ASSUME Inv, LimitInv, [Next]_vars PROVE LimitInv'
  OBVIOUS
<1> USE DEF LimitInv
<1> DEFINE All == Callers \cup {Admin}
<1>0. DOMAIN caller = All /\ Limits \subseteq Nat /\ Admin \notin Callers
  BY GstAssumption DEF Inv, Types
<1>1. CASE UNCHANGED vars
  BY <1>1, LimitStays DEF vars
<1>2. ASSUME NEW c \in Callers, NEW h \in Hashes, NEW k \in Keys, Ask(c, h, k) PROVE LimitInv'
  <2>1. Ordered'
    <3>1. CASE Matches(h, k)
      <4>1. tasks[h] \in Live
        BY <3>1 DEF Matches, Live, Inv, Types
      <4> QED  BY <1>2, <3>1, <4>1, TouchedOrders DEF Ask
    <3>2. CASE ~ Matches(h, k)
      BY <1>2, <3>2 DEF Ask, Ordered, Live
    <3> QED  BY <3>1, <3>2
  <2>2. /\ \/ caller' = caller
           \/ caller' = [caller EXCEPT ![c] = [at |-> "queued", hash |-> h, key |-> k]]
        /\ caller[c].at = "idle" /\ UNCHANGED <<tasks, limit>>
    BY <1>2 DEF Ask, Goes, Waiting
  <2> QED  BY <1>0, <2>1, <2>2 DEF Evicts, Mapped
<1>3. ASSUME NEW c \in Callers, Enter(c) PROVE LimitInv'
  <2> DEFINE h == caller[c].hash
  <2>1. Ordered'
    <3>1. CASE Matches(h, caller[c].key)
      <4>1. tasks[h] \in Live
        BY <1>3, <3>1 DEF Matches, Live, Inv, Types, Decided, Enter
      <4> QED  BY <1>3, <3>1, <4>1, TouchedOrders DEF Enter
    <3>2. CASE ~ Matches(h, caller[c].key)
      BY <1>3, <3>2 DEF Enter, Ordered, Live
    <3> QED  BY <3>1, <3>2
  <2>2. /\ caller'[c].at \in {"idle", "probing", "queued"}
        /\ \A d \in All \ {c} : caller'[d] = caller[d]
    <3> DEFINE idles == [at |-> "idle"]
               probes == [caller[c] EXCEPT !.at = "probing"]
    <3>1. \/ caller' = [caller EXCEPT ![c] = idles]
          \/ caller' = [caller EXCEPT ![c] = probes]
      BY <1>3 DEF Enter, Goes, Waiting
    <3>2. idles.at = "idle"
      OBVIOUS
    <3>3. probes.at \in {"probing", "queued"}
      <4>1. caller[c].at = "queued"
        BY <1>3 DEF Enter
      <4> QED  BY <4>1
    <3> HIDE DEF idles, probes, LimitInv
    <3> QED  BY <1>0, <3>1, <3>2, <3>3
  <2>3. caller[c].at = "queued" /\ UNCHANGED <<tasks, limit>>
    BY <1>3 DEF Enter
  <2> QED  BY <1>0, <2>1, <2>2, <2>3 DEF Evicts, Mapped
<1>4. ASSUME NEW c \in Callers, Build(c) PROVE LimitInv'
  <2>1. Ordered'
    <3>1. CASE UNCHANGED <<task, order>>
      BY <3>1 DEF Ordered, Live
    <3>2. ASSUME NEW t \in Pool, task[t] = Free, order' = order \cup (Live \X {t}),
                 task' = [task EXCEPT ![t] = [state |-> "live", hash |-> caller[c].hash,
                                              key |-> caller[c].key]]
          PROVE  Ordered'
      <4>1. t \notin Live
        BY <3>2 DEF Live, Free
      <4>2. Live' = Live \cup {t}
        BY <3>2 DEF Live, Inv, Types
      <4> QED  BY <3>2, <4>1, <4>2 DEF Ordered
    <3> QED  BY <1>4, <3>1, <3>2 DEF Build
  <2>2. /\ caller'[c].at \in {"idle", "built"}
        /\ \A d \in All \ {c} : caller'[d] = caller[d]
    BY <1>0, <1>4 DEF Build, Goes, Waiting
  <2>3. caller[c].at = "probing" /\ UNCHANGED <<tasks, limit>>
    BY <1>4 DEF Build
  <2> QED  BY <1>0, <2>1, <2>2, <2>3 DEF Evicts, Mapped
<1>5. ASSUME NEW c \in Callers, Insert(c) PROVE LimitInv'
  <2>1. Ordered'
    BY <1>5 DEF Insert, Leaving, Ordered, Live
  <2>2. /\ caller' = [caller EXCEPT ![c] = [at |-> "evict", hash |-> caller[c].hash]]
        /\ limit' = limit /\ caller[c].at = "built"
    BY <1>5 DEF Insert, Goes
  <2>3. Evicts(c)'
    BY <1>0, <2>2 DEF Evicts
  <2> QED  BY <1>0, <2>1, <2>2, <2>3
<1>6. ASSUME NEW c \in All, ReadLimit(c) PROVE LimitInv'
  <2>1. /\ caller' = [caller EXCEPT ![c] = [at |-> "evicting", hash |-> caller[c].hash, limit |-> limit]]
        /\ UNCHANGED <<tasks, task, order, limit>>
    BY <1>6 DEF ReadLimit, Goes
  <2>2. Ordered'
    BY <2>1 DEF Ordered, Live
  <2>3. Evicts(c)'
    BY <1>0, <2>1 DEF Evicts
  <2> QED  BY <1>0, <2>1, <2>2, <2>3
<1>7. ASSUME NEW c \in All, Evict(c) PROVE LimitInv'
  <2> DEFINE protected == IF c = Admin THEN {} ELSE {tasks[caller[c].hash]}
             out == Evicted(caller[c].limit, protected)
  <2>1. /\ tasks' = [h \in Hashes |-> IF tasks[h] \in out THEN None ELSE tasks[h]]
        /\ Leaving(out) /\ limit' = limit /\ caller[c].at = "evicting"
        /\ caller' = [caller EXCEPT ![c] = Waiting]
    BY <1>7 DEF Evict, Goes
  <2>2. out \subseteq Mapped
    BY DEF Evicted
  <2> HIDE DEF out
  <2>3. Ordered' /\ Cardinality(Mapped') <= Cardinality(Mapped) /\ Mapped' = Mapped \ out
    BY <2>1, <2>2, FewerKeepLimit
  <2>4. Cardinality(Mapped') \in Nat
    BY <2>3, MappedIsFinite, FS_Subset, FS_CardinalityType
  <2>5. /\ caller'[c].at = "idle" /\ \A d \in All \ {c} : caller'[d] = caller[d]
    BY <1>0, <2>1 DEF Waiting
  <2>6. CASE caller[c].limit = limit /\ limit > 0
    <3>1. limit \in Nat
      BY <1>0
    <3>2. Cardinality(Mapped \ out) <= limit
      BY <2>6, <3>1, EvictedAreEnough DEF Inv, out
    <3> QED  BY <1>0, <2>1, <2>3, <2>4, <2>5, <3>1, <3>2
  <2>7. CASE ~ (caller[c].limit = limit /\ limit > 0)
    <3>1. ~ Evicts(c) \/ ~ (limit > 0)
      BY <2>1, <2>7 DEF Evicts
    <3>2. \A d \in All \ {c} : Evicts(d) => Evicts(d)'
      BY <2>1, <2>5 DEF Evicts
    <3>3. limit \in Nat
      BY <1>0
    <3>4. (limit > 0 /\ Cardinality(Mapped) > limit => \E d \in All : Evicts(d))'
      BY <2>1, <2>3, <2>4, <3>1, <3>2, <3>3, MappedIsFinite
    <3> QED  BY <1>0, <2>1, <2>3, <2>5, <3>4
  <2> QED  BY <2>6, <2>7
<1>8. ASSUME NEW h \in Hashes, Get(h) PROVE LimitInv'
  <2>1. tasks[h] \in Live /\ Touched(tasks[h]) /\ UNCHANGED <<tasks, task, limit, caller>>
    BY <1>8 DEF Get, Live, Inv, Types
  <2>2. Ordered'
    BY <2>1, TouchedOrders
  <2> QED  BY <2>1, <2>2 DEF Evicts, Mapped
<1>9. ASSUME NEW out, Leaving(out), UNCHANGED <<limit, caller>>,
             tasks' = [h \in Hashes |-> IF tasks[h] \in out THEN None ELSE tasks[h]]
      PROVE  LimitInv'
  <2>1. Ordered' /\ Cardinality(Mapped') <= Cardinality(Mapped)
    BY <1>9, FewerKeepLimit
  <2>2. Mapped' \subseteq Mapped
    BY <1>9 DEF Mapped
  <2>3. Cardinality(Mapped') \in Nat /\ limit \in Nat
    BY <1>0, <2>2, MappedIsFinite, FS_Subset, FS_CardinalityType
  <2> QED  BY <1>9, <2>1, <2>3, MappedIsFinite DEF Evicts
<1>10. ASSUME NEW h \in Hashes, TryRemove(h) PROVE LimitInv'
  <2>1. \A g \in Hashes : tasks[g] = tasks[h] => g = h
    BY <1>10 DEF TryRemove, Inv, Registered
  <2>2. tasks' = [g \in Hashes |-> IF tasks[g] \in {tasks[h]} THEN None ELSE tasks[g]]
    BY <1>10, <2>1 DEF TryRemove, Inv, Types
  <2> QED  BY <1>9, <1>10, <2>2 DEF TryRemove
<1>11. ASSUME NEW l \in Limits, UpdateConfig(l) PROVE LimitInv'
  <2>1. /\ caller' = [caller EXCEPT ![Admin] = [at |-> "evict", hash |-> None]]
        /\ limit' = l /\ UNCHANGED <<tasks, task, order>>
    BY <1>11 DEF UpdateConfig, Goes
  <2>2. Ordered'
    BY <2>1 DEF Ordered, Live
  <2>3. Evicts(Admin)'
    BY <1>0, <2>1 DEF Evicts
  <2> QED  BY <1>0, <2>1, <2>2, <2>3
<1>12. ASSUME NEW h \in Hashes, NEW t \in Pool, SweepOne(h, t) PROVE LimitInv'
  <2>1. UNCHANGED <<limit, caller>>
    BY <1>12 DEF SweepOne
  <2>2. CASE tasks[h] = t /\ t \in idle
    <3>1. tasks' = [tasks EXCEPT ![h] = None] /\ Leaving({t})
      BY <1>12, <2>2 DEF SweepOne
    <3>2. \A g \in Hashes : tasks[g] = t => g = h
      BY <2>2, GstAssumption DEF Inv, Registered
    <3>3. tasks' = [g \in Hashes |-> IF tasks[g] \in {t} THEN None ELSE tasks[g]]
      BY <2>2, <3>1, <3>2 DEF Inv, Types
    <3> QED  BY <1>9, <2>1, <3>1, <3>3
  <2>3. CASE ~ (tasks[h] = t /\ t \in idle)
    BY <1>12, <2>1, <2>3, LimitStays DEF SweepOne
  <2> QED  BY <2>2, <2>3
<1>13. ASSUME NEW t \in Pool, Dispose(t) PROVE LimitInv'
  <2>1. Live' = Live
    BY <1>13 DEF Dispose, Live, Free
  <2> QED  BY <1>13, <2>1 DEF Dispose, Ordered, Evicts, Mapped
<1>14. CASE Sweep \/ \E t \in Pool : GoesIdle(t)
  BY <1>14, LimitStays DEF Sweep, GoesIdle
<1> QED
  BY <1>1, <1>2, <1>3, <1>4, <1>5, <1>6, <1>7, <1>8, <1>10, <1>11, <1>12, <1>13, <1>14 DEF Next

\* Every pipeline has an owner that will stop it, and once everyone who added a
\* task or changed the limit has evicted, the registry holds no more tasks than
\* the limit allows, for any number of torrents, requests and limits
\* (service.rs:658-668, 774-815).
THEOREM HlsStaysRight == Spec => []HlsRight
<1>1. Inv /\ LimitInv => HlsRight
  <2> SUFFICES ASSUME Inv, LimitInv PROVE LimitKept
    BY DEF HlsRight, Inv
  <2>1. limit \in Nat
    BY GstAssumption DEF LimitInv
  <2> QED  BY <2>1, MappedIsFinite DEF LimitInv, LimitKept, Evicts
<1>2. Init => LimitInv
  BY LimitInit
<1>3. Inv /\ LimitInv /\ [Next]_vars => LimitInv'
  BY LimitStep
<1> QED  BY <1>1, <1>2, <1>3, InvAlways, PTL DEF Spec

\* A player is never cut off by another request for its very stream, nor by a
\* sweep that saw its task idle before it came back: a task in use leaves the
\* registry for another stream, for the limit, on a removal or at the end
\* (service.rs:732-735, 774-780, 894-910).
THEOREM InUseAlwaysStays == Spec => InUseStays
<1> DEFINE Stays(h) ==
      LET t == tasks[h] IN
      (t # None /\ tasks'[h] # t)
        => \/ sweep' = sweep /\ (tasks'[h] = None \/ task'[tasks'[h]].key # task[t].key)
           \/ sweep' # sweep /\ t \in idle
<1>1. ASSUME Inv, [Next]_vars, NEW h \in Hashes, tasks[h] # None, tasks'[h] # tasks[h]
      PROVE  Stays(h)
  <2> USE DEF Inv, Types
  <2>1. ASSUME NEW c \in Callers, Insert(c) PROVE Stays(h)
    <3>1. /\ caller[c].at = "built" /\ caller[c].hash \in Hashes
          /\ tasks' = [tasks EXCEPT ![caller[c].hash] = caller[c].task] /\ sweep' = sweep
      BY <1>1, <2>1 DEF Insert, Decided
    <3>2. h = caller[c].hash /\ tasks'[h] = caller[c].task
      BY <1>1, <3>1
    <3>3. /\ caller[c].task \in Pool \ Mapped /\ task[caller[c].task].key = caller[c].key
          /\ task[tasks[h]].key # caller[c].key
      BY <1>1, <3>1, <3>2 DEF Waits, Decided
    <3>4. caller[c].task # tasks[h]
      BY <1>1, <3>3 DEF Mapped
    <3>5. task'[caller[c].task] = task[caller[c].task]
      BY <2>1, <3>2, <3>3, <3>4 DEF Insert, Leaving
    <3> QED  BY <3>1, <3>2, <3>3, <3>5
  <2>2. ASSUME NEW c \in Callers \cup {Admin}, Evict(c) PROVE Stays(h)
    BY <1>1, <2>2 DEF Evict
  <2>3. ASSUME NEW g \in Hashes, TryRemove(g) PROVE Stays(h)
    BY <1>1, <2>3 DEF TryRemove
  <2>4. ASSUME NEW g \in Hashes, NEW t \in Pool, SweepOne(g, t) PROVE Stays(h)
    <3>1. tasks[g] = t /\ t \in idle /\ tasks' = [tasks EXCEPT ![g] = None]
      BY <1>1, <2>4 DEF SweepOne
    <3>2. g = h
      BY <1>1, <3>1
    <3>3. sweep' # sweep
      BY <2>4 DEF SweepOne
    <3> QED  BY <3>1, <3>2, <3>3
  <2>5. \/ \E c \in Callers : Insert(c)
        \/ \E c \in Callers \cup {Admin} : Evict(c)
        \/ \E g \in Hashes : TryRemove(g)
        \/ \E g \in Hashes, t \in Pool : SweepOne(g, t)
    BY <1>1 DEF Next, vars, Ask, Enter, Build, ReadLimit, Get, UpdateConfig, GoesIdle, Dispose, Sweep
  <2> QED  BY <2>1, <2>2, <2>3, <2>4, <2>5
<1>2. Inv /\ [Next]_vars => \A h \in Hashes : Stays(h)
  BY <1>1
<1> QED  BY <1>2, InvAlways, PTL DEF Spec, InUseStays

-----------------------------------------------------------------------------
(* The DLNA server and its announcements. *)

\* The stages of a request, each with its fields.
Stages ==
    {DlnaIdle} \cup [at : {"stop", "goodbye"}, kind : DlnaKinds]
      \cup [at : {"join"}, kind : DlnaKinds, port : Ports]
      \cup {[at |-> "start"]} \cup [at : {"announce", "publish"}, port : Ports]

\* Between binding a server and keeping it.
Starting(r) == dlnaRequest[r].at \in {"announce", "publish"}

DlnaTypes ==
    /\ running \in Ports \cup {Nothing} /\ ssdp \in Ports \cup {Nothing}
    /\ lock \in DlnaRequests \cup {Nothing}
    /\ server \in [Ports -> {"free", "up", "stopping"}]
    /\ dlnaRequest \in [DlnaRequests -> Stages]

\* Who starts a server holds the lock, and a server that is up is kept or about to be.
Kept ==
    /\ \A r \in DlnaRequests : Starting(r) <=> lock = r
    /\ running # Nothing => server[running] = "up"
    /\ \A r \in DlnaRequests : Starting(r) =>
         server[dlnaRequest[r].port] = "up" /\ dlnaRequest[r].port # running
    /\ \A p \in Ports : server[p] = "up" =>
         p = running \/ \E r \in DlnaRequests : Starting(r) /\ dlnaRequest[r].port = p

\* A server that is waited for is stopping, and nobody else waits for it.
Joined ==
    \A r \in DlnaRequests : dlnaRequest[r].at = "join" =>
      /\ server[dlnaRequest[r].port] = "stopping"
      /\ \A q \in DlnaRequests :
           dlnaRequest[q].at = "join" /\ dlnaRequest[q].port = dlnaRequest[r].port => q = r

\* SSDP announces the server that is kept, or somebody is still to announce.
Announced ==
    /\ \/ ssdp = running
       \/ \E r \in DlnaRequests : dlnaRequest[r].at \in {"join", "goodbye", "start", "announce", "publish"}
    /\ \A r \in DlnaRequests : dlnaRequest[r].at = "publish" =>
         \/ ssdp = dlnaRequest[r].port
         \/ \E q \in DlnaRequests : dlnaRequest[q].at = "start"

DlnaInv == DlnaTypes /\ Kept /\ Joined /\ (DlnaKinds \subseteq {"restart"} => Announced)

\* A request's stage tells which fields it has.
LEMMA StagesAre ==
    ASSUME NEW q \in Stages
    PROVE  /\ q.at \in {"idle", "stop", "goodbye", "join", "start", "announce", "publish"}
           /\ q.at = "idle" <=> q = DlnaIdle
           /\ q.at \in {"stop", "goodbye", "join"} => q.kind \in DlnaKinds
           /\ q.at \in {"join", "announce", "publish"} => q.port \in Ports
           /\ q.at = "announce" => [q EXCEPT !.at = "publish"] = [at |-> "publish", port |-> q.port]
<1>1. DlnaIdle.at = "idle"
  BY DEF DlnaIdle
<1>2. CASE q = DlnaIdle
  BY <1>1, <1>2
<1>3. CASE q \in [at : {"stop", "goodbye"}, kind : DlnaKinds]
  BY <1>1, <1>3
<1>4. CASE q \in [at : {"join"}, kind : DlnaKinds, port : Ports]
  BY <1>1, <1>4
<1>5. CASE q = [at |-> "start"]
  BY <1>1, <1>5
<1>6. CASE q \in [at : {"announce", "publish"}, port : Ports]
  BY <1>1, <1>6
<1> QED  BY <1>2, <1>3, <1>4, <1>5, <1>6 DEF Stages

\* What a request is set to is a stage.
LEMMA InStages ==
    /\ DlnaIdle \in Stages /\ [at |-> "start"] \in Stages
    /\ \A k \in DlnaKinds : [at |-> "stop", kind |-> k] \in Stages
                        /\ [at |-> "goodbye", kind |-> k] \in Stages
    /\ \A k \in DlnaKinds, p \in Ports : [at |-> "join", kind |-> k, port |-> p] \in Stages
    /\ \A p \in Ports : [at |-> "announce", port |-> p] \in Stages
                        /\ [at |-> "publish", port |-> p] \in Stages
BY DEF Stages

\* It holds at the start, and every step keeps it.
LEMMA DlnaStarts == DlnaInit => DlnaInv
<1> SUFFICES ASSUME DlnaInit PROVE DlnaInv
  OBVIOUS
<1>1. DlnaTypes
  BY DlnaAssumption, InStages DEF DlnaInit, DlnaTypes
<1>2. \A r \in DlnaRequests : dlnaRequest[r].at = "idle"
  BY DEF DlnaInit, DlnaIdle
<1> QED  BY <1>1, <1>2, DlnaAssumption DEF DlnaInit, DlnaInv, Kept, Joined, Announced, Starting

\* Each step: who starts a server holds the lock, so nobody else touches the
\* server that is kept.
LEMMA DlnaSteps == DlnaInv /\ [DlnaNext]_dlnaVars => DlnaInv'
<1> SUFFICES ASSUME DlnaInv, [DlnaNext]_dlnaVars PROVE DlnaInv'
  OBVIOUS
<1> USE DEF DlnaInv
<1>0. CASE UNCHANGED dlnaVars
  BY <1>0 DEF dlnaVars, DlnaTypes, Kept, Joined, Announced, Starting
<1>1. ASSUME NEW r \in DlnaRequests, NEW kind \in DlnaKinds, Begin(r, kind)
      PROVE  DlnaInv'
  <2> DEFINE q == [at |-> "stop", kind |-> kind]
  <2>1. /\ dlnaRequest' = [dlnaRequest EXCEPT ![r] = q] /\ q \in Stages /\ q.at = "stop"
        /\ dlnaRequest[r].at = "idle" /\ dlnaRequest \in [DlnaRequests -> Stages]
        /\ UNCHANGED <<running, lock, server, ssdp>>
    <3>1. dlnaRequest[r].at = "idle"
      BY <1>1 DEF Begin, DlnaIdle
    <3>2. q \in Stages /\ q.at = "stop"
      BY InStages
    <3> QED  BY <1>1, <3>1, <3>2 DEF Begin, RequestGoes, DlnaTypes
  <2> HIDE DEF q
  <2>2. DlnaTypes'
    BY <2>1 DEF DlnaTypes
  <2> QED  BY <2>1, <2>2 DEF Kept, Joined, Announced, Starting
<1>2. ASSUME NEW r \in DlnaRequests, TakeServer(r)
      PROVE  DlnaInv'
  <2>1. /\ dlnaRequest \in [DlnaRequests -> Stages] /\ dlnaRequest[r].at = "stop" /\ lock = Nothing
        /\ dlnaRequest[r].kind \in DlnaKinds /\ After(r) \in Stages /\ After(r).at \in {"start", "idle"}
        /\ DlnaKinds \subseteq {"restart"} => After(r).at = "start"
        /\ UNCHANGED <<lock, ssdp>>
    BY <1>2, InStages, StagesAre DEF TakeServer, DlnaTypes, After, DlnaIdle
  <2>2. CASE running = Nothing
    <3> DEFINE q == After(r)
    <3>1. dlnaRequest' = [dlnaRequest EXCEPT ![r] = q] /\ UNCHANGED <<running, server>>
      BY <1>2, <2>2 DEF TakeServer, RequestGoes
    <3> HIDE DEF q
    <3>2. q \in Stages /\ q.at \in {"start", "idle"} /\ (DlnaKinds \subseteq {"restart"} => q.at = "start")
      BY <2>1 DEF q
    <3>3. DlnaTypes'
      BY <2>1, <3>1, <3>2 DEF DlnaTypes
    <3> QED  BY <2>1, <3>1, <3>2, <3>3 DEF Kept, Joined, Announced, Starting
  <2>3. CASE running # Nothing
    <3> DEFINE q == [at |-> "join", kind |-> dlnaRequest[r].kind, port |-> running]
    <3>1. /\ dlnaRequest' = [dlnaRequest EXCEPT ![r] = q] /\ q.at = "join" /\ q.port = running
          /\ running' = Nothing /\ server' = [server EXCEPT ![running] = "stopping"]
          /\ running \in Ports /\ q \in Stages
      BY <1>2, <2>1, <2>3, InStages DEF TakeServer, RequestGoes, DlnaTypes
    <3> HIDE DEF q
    <3>2. DlnaTypes'
      BY <2>1, <3>1 DEF DlnaTypes
    <3>3. Kept'
      BY <2>1, <3>1, DlnaAssumption, StagesAre DEF Kept, Starting, DlnaTypes
    <3>4. Joined'
      <4>1. server[running] = "up" /\ server \in [Ports -> {"free", "up", "stopping"}]
        BY <2>3 DEF Kept, DlnaTypes
      <4>2. \A o \in DlnaRequests : dlnaRequest[o].at = "join" => dlnaRequest[o].port # running
        BY <4>1 DEF Joined
      <4>3. \A o \in DlnaRequests : /\ o # r => dlnaRequest'[o] = dlnaRequest[o]
                               /\ o = r => dlnaRequest'[o] = q
        BY <2>1, <3>1
      <4>4. \A o \in DlnaRequests : o # r /\ dlnaRequest[o].at = "join" =>
              dlnaRequest[o].port \in Ports /\ server'[dlnaRequest[o].port] = "stopping"
        BY <2>1, <3>1, <4>1, <4>2, StagesAre DEF Joined
      <4>5. server'[running] = "stopping"
        BY <3>1, <4>1
      <4> QED  BY <3>1, <4>2, <4>3, <4>4, <4>5 DEF Joined
    <3>5. (DlnaKinds \subseteq {"restart"} => Announced)'
      BY <2>1, <3>1 DEF Announced
    <3> QED  BY <3>2, <3>3, <3>4, <3>5
  <2> QED  BY <2>2, <2>3
<1>3. ASSUME NEW r \in DlnaRequests, Join(r)
      PROVE  DlnaInv'
  <2> DEFINE q == [at |-> "goodbye", kind |-> dlnaRequest[r].kind]
             p == dlnaRequest[r].port
  <2>1. /\ dlnaRequest \in [DlnaRequests -> Stages] /\ dlnaRequest[r].at = "join" /\ p \in Ports
        /\ dlnaRequest' = [dlnaRequest EXCEPT ![r] = q] /\ q \in Stages /\ q.at = "goodbye"
        /\ server' = [server EXCEPT ![p] = "free"] /\ UNCHANGED <<running, lock, ssdp>>
        /\ server[p] = "stopping"
    BY <1>3, InStages, StagesAre DEF Join, DlnaTypes, RequestGoes, Joined
  <2> HIDE DEF q
  <2>2. DlnaTypes'
    BY <2>1 DEF DlnaTypes
  <2>3. Kept'
    BY <2>1 DEF Kept, Starting, DlnaTypes
  <2>4. Joined'
    BY <2>1 DEF Joined, DlnaTypes
  <2>5. (DlnaKinds \subseteq {"restart"} => Announced)'
    BY <2>1 DEF Announced
  <2> QED  BY <2>2, <2>3, <2>4, <2>5
<1>4. ASSUME NEW r \in DlnaRequests, Goodbye(r)
      PROVE  DlnaInv'
  <2> DEFINE q == After(r)
  <2>1. /\ dlnaRequest \in [DlnaRequests -> Stages] /\ dlnaRequest[r].at = "goodbye"
        /\ dlnaRequest' = [dlnaRequest EXCEPT ![r] = q]
        /\ ssdp' = Nothing /\ UNCHANGED <<running, lock, server>>
        /\ q \in Stages /\ q.at \in {"start", "idle"} /\ (DlnaKinds \subseteq {"restart"} => q.at = "start")
    BY <1>4, InStages, StagesAre DEF Goodbye, DlnaTypes, RequestGoes, After, DlnaIdle
  <2> HIDE DEF q
  <2>2. DlnaTypes'
    BY <2>1 DEF DlnaTypes
  <2> QED  BY <2>1, <2>2 DEF Kept, Joined, Announced, Starting
<1>5. ASSUME NEW r \in DlnaRequests, Bind(r)
      PROVE  DlnaInv'
  <2>1. PICK p \in Ports : /\ server[p] = "free" /\ server' = [server EXCEPT ![p] = "up"]
                           /\ RequestGoes(r, [at |-> "announce", port |-> p])
    BY <1>5 DEF Bind
  <2> DEFINE q == [at |-> "announce", port |-> p]
  <2>2. /\ dlnaRequest \in [DlnaRequests -> Stages] /\ dlnaRequest[r].at = "start" /\ lock = Nothing
        /\ dlnaRequest' = [dlnaRequest EXCEPT ![r] = q] /\ q \in Stages
        /\ q.at = "announce" /\ q.port = p
        /\ lock' = r /\ UNCHANGED <<running, ssdp>>
    BY <1>5, <2>1, InStages DEF Bind, DlnaTypes, RequestGoes
  <2> HIDE DEF q
  <2>3. DlnaTypes'
    BY <2>1, <2>2 DEF DlnaTypes
  <2>4. Kept'
    BY <2>1, <2>2, DlnaAssumption DEF Kept, Starting, DlnaTypes
  <2>5. Joined'
    BY <2>1, <2>2, StagesAre DEF Joined, DlnaTypes
  <2>6. (DlnaKinds \subseteq {"restart"} => Announced)'
    BY <2>2, DlnaAssumption DEF Announced, Kept, Starting
  <2> QED  BY <2>3, <2>4, <2>5, <2>6
<1>6. ASSUME NEW r \in DlnaRequests, Announce(r)
      PROVE  DlnaInv'
  <2> DEFINE q == [at |-> "publish", port |-> dlnaRequest[r].port]
  <2>1. /\ dlnaRequest \in [DlnaRequests -> Stages] /\ dlnaRequest[r].at = "announce"
        /\ dlnaRequest[r].port \in Ports
        /\ dlnaRequest' = [dlnaRequest EXCEPT ![r] = q] /\ q \in Stages
        /\ q.at = "publish" /\ q.port = dlnaRequest[r].port
        /\ ssdp' = q.port /\ UNCHANGED <<running, lock, server>>
    BY <1>6, InStages, StagesAre DEF Announce, DlnaTypes, RequestGoes
  <2> HIDE DEF q
  <2>2. DlnaTypes'
    BY <2>1 DEF DlnaTypes
  <2>3. Kept'
    BY <2>1 DEF Kept, Starting, DlnaTypes
  <2>4. Joined'
    BY <2>1 DEF Joined, DlnaTypes
  <2>5. (DlnaKinds \subseteq {"restart"} => Announced)'
    BY <2>1 DEF Announced, Kept, Starting
  <2> QED  BY <2>2, <2>3, <2>4, <2>5
<1>7. ASSUME NEW r \in DlnaRequests, Publish(r)
      PROVE  DlnaInv'
  <2> DEFINE p == dlnaRequest[r].port
  <2>1. /\ dlnaRequest \in [DlnaRequests -> Stages] /\ dlnaRequest[r].at = "publish"
        /\ p \in Ports /\ lock = r /\ p # running /\ server[p] = "up"
        /\ dlnaRequest' = [dlnaRequest EXCEPT ![r] = DlnaIdle] /\ DlnaIdle \in Stages
        /\ DlnaIdle.at = "idle" /\ lock' = Nothing /\ running' = p /\ ssdp' = ssdp
        /\ server' = IF running = Nothing THEN server ELSE [server EXCEPT ![running] = "stopping"]
    BY <1>7, InStages, StagesAre DEF Publish, DlnaTypes, RequestGoes, Kept, Starting, DlnaIdle
  <2>2. DlnaTypes'
    BY <2>1 DEF DlnaTypes
  <2>3. Kept'
    BY <2>1, DlnaAssumption DEF Kept, Starting, DlnaTypes
  <2>4. Joined'
    BY <2>1 DEF Joined, Kept, DlnaTypes
  <2>5. (DlnaKinds \subseteq {"restart"} => Announced)'
    BY <2>1, DlnaAssumption DEF Announced, Kept, Starting
  <2> QED  BY <2>2, <2>3, <2>4, <2>5
<1>8. ASSUME NEW p \in Ports, Ends(p)
      PROVE  DlnaInv'
  <2>1. /\ server[p] = "stopping" /\ server' = [server EXCEPT ![p] = "free"]
        /\ \A r \in DlnaRequests : dlnaRequest[r].at = "join" => dlnaRequest[r].port # p
        /\ UNCHANGED <<running, lock, ssdp, dlnaRequest>>
    BY <1>8 DEF Ends
  <2>2. DlnaTypes'
    BY <2>1 DEF DlnaTypes
  <2>3. Kept'
    BY <2>1 DEF Kept, Starting, DlnaTypes
  <2>4. Joined'
    BY <2>1, StagesAre DEF Joined, DlnaTypes
  <2> QED  BY <2>1, <2>2, <2>3, <2>4 DEF Announced
<1> QED
  BY <1>0, <1>1, <1>2, <1>3, <1>4, <1>5, <1>6, <1>7, <1>8 DEF DlnaNext

\* So it always holds.
LEMMA DlnaAlways == DlnaSpec => []DlnaInv
BY DlnaStarts, DlnaSteps, PTL DEF DlnaSpec

\* However the restarts of the DLNA server interleave, and whether some of them
\* only switch it off, no server is left that nobody can stop any more, for any
\* number of requests and ports (discovery.rs:137-155).
THEOREM NoServerStrays == DlnaSpec => []NoStrayServer
<1>1. DlnaInv => NoStrayServer
  BY DEF DlnaInv, Kept, NoStrayServer, Settled, Starting, DlnaIdle
<1> QED  BY <1>1, DlnaAlways, PTL

\* As long as DLNA stays on, SSDP announces the server that runs and nothing
\* else once the requests are through (discovery.rs:92, 143).
THEOREM DlnaStaysRight ==
    ASSUME DlnaKinds \subseteq {"restart"} PROVE DlnaSpec => []DlnaRight
<1>1. DlnaInv => DlnaRight
  <2>1. DlnaInv => NoStrayServer
    BY DEF DlnaInv, Kept, NoStrayServer, Settled, Starting, DlnaIdle
  <2>2. DlnaInv => ServedIsAnnounced
    BY DEF DlnaInv, Announced, ServedIsAnnounced, Settled, DlnaIdle
  <2> QED  BY <2>1, <2>2 DEF DlnaRight
<1> QED  BY <1>1, DlnaAlways, PTL

-----------------------------------------------------------------------------
(* The GStreamer pipeline. *)

Runners ==
    [playing : BOOLEAN, frozen : BOOLEAN, index : Int, ready : MediaSegment \cup {Null},
     position : Nat, seekAt : Nat, probe : Probe \cup {Null}, reader : Reader \cup {Null},
     gone : BOOLEAN]
Stores == [cues : SUBSET [start : Nat, end : Nat], readTo : Nat, version : Nat]
CueRequests ==
    [at : {"idle"}] \cup [at : {"answered"}, cues : SUBSET [start : Int, end : Int]]
    \cup [at : {"subscribe"}, segment : Segments, store : Nat]
    \cup [at : {"render", "wait"}, segment : Segments, store : Nat, seen : Nat, late : BOOLEAN]

PipelineTypes ==
    /\ runner \in Runners
    /\ gst \in State \cup {Null} /\ init \in BOOLEAN
    /\ op \in Operation \cup {Null}
    /\ stores \in Seq(Stores) /\ published \in 0 .. Len(stores)
    /\ yielded \in MediaSegment \cup {Null} /\ strayed \in {"never", "before", "now"}
    /\ cueRequest \in [Readers -> CueRequests]

\* What runs, between the steps of an operation too.
Follows ==
    /\ published = 0 <=> runner.reader = Null
    /\ gst = Null => runner.probe = Null /\ ~init
    /\ op # Null => published # 0
    /\ runner.gone => published = 0
    /\ IF op = Null THEN /\ runner.playing <=> gst # Null
                         /\ runner.frozen => published = 0
       ELSE /\ gst = Null <=> op.at = "launch"
            /\ op.at = "pull" \/ op.via = "start" => runner.playing /\ ~runner.frozen
    /\ gst # Null => published # 0

Consecutive(units, start) == \A i \in 1 .. Len(units) : units[i] = start + i - 1

NextUnit(g) == g.at - Len(g.out)

\* The last seek told the truth, and every one since the store was made.
Straight == strayed # "now"
Whole == strayed = "never"

\* The samples that wait follow each other, up to the unit that is read next.
Flows(g) ==
    /\ Len(g.out) <= g.at /\ g.at <= FilmLength
    /\ Consecutive(g.out, NextUnit(g))

\* Once the pipeline has been moved, the first sample told the probe where it is.
Noted(rn, g) ==
    rn.probe # Null => IF rn.probe.first THEN Straight => rn.probe.actual \in {Null, NextUnit(g)}
                       ELSE rn.probe.actual # Null /\ g.out = <<>> /\ g.subs = {}

\* The reader is where the next sample is, or takes its place from the probe.
Reads(rn, g) ==
    IF rn.probe = Null \/ rn.probe.actual = Null
    THEN rn.reader.offset + Len(rn.reader.got) = NextUnit(g)
    ELSE rn.reader.got = <<>>

\* While the pipeline is moved the reader waits where it should come to.
Moving ==
    /\ runner.reader = [offset |-> op.to, got |-> <<>>]
    /\ op.via \in {"seek", "start"}
    /\ op.via = "start" => runner.seekAt = op.to
    /\ op.via = "start" /\ op.to = 0 => op.at \notin {"seek", "flush"} /\ runner.probe = Null
    /\ op.at = "flush" =>
         runner.probe # Null /\ (runner.probe.first => runner.probe.actual # Null)
    /\ op.at = "arrive" => IF runner.probe = Null THEN op.to = 0 /\ NextUnit(gst) = 0
                           ELSE runner.probe.actual # Null

\* What was read lies where it is said to.
InPlace ==
    /\ runner.reader # Null => Consecutive(runner.reader.got, runner.reader.offset)
    /\ runner.ready # Null => Consecutive(runner.ready.content, runner.ready.start)
    /\ yielded # Null => Consecutive(yielded.content, yielded.start)
    /\ (gst # Null /\ (op = Null \/ op.at = "pull")) => Reads(runner, gst)

Samples ==
    /\ Straight => InPlace
    /\ gst # Null => Flows(gst)
    /\ (gst # Null /\ (op = Null \/ op.at \in {"arrive", "pull"})) => Noted(runner, gst)
    /\ (op # Null /\ op.at # "pull") => Moving
    /\ (op = Null /\ ~runner.playing /\ ~runner.frozen /\ ~runner.gone)
         => runner.reader = NoReader /\ runner.seekAt = 0 /\ runner.ready = Null

\* Cues that wait, and those to come, are not from before a place.
NotBefore(g, place) ==
    /\ \A c \in g.subs : c.start >= place
    /\ g.at < FilmLength => g.at >= place

AllCues ==
    /\ (gst # Null /\ (op = Null \/ op.at = "pull")) => NotBefore(gst, runner.seekAt)
    /\ (gst # Null /\ op # Null /\ op.at = "arrive") =>
         /\ NotBefore(gst, op.to)
         /\ runner.probe # Null => NotBefore(gst, Landing(op.to))
    /\ (/\ gst # Null /\ (op = Null \/ op.at \in {"arrive", "pull"})
        /\ runner.probe # Null /\ runner.probe.actual # Null /\ runner.probe.first)
         => NotBefore(gst, runner.probe.actual)
    /\ published # 0 => /\ Current.cues \subseteq Cues
                        /\ \A c \in Cues : c.start \in reads => c \in Current.cues
    /\ gst # Null => \A c \in Cues :
         c.start \in NextUnit(gst) .. gst.at - 1 => c \in gst.subs \cup Current.cues

CuesKept == Whole => AllCues

\* A request that has subscribed and was told nothing since.
Untold(r) == ~ cueRequest[r].late /\ stores[cueRequest[r].store].version = cueRequest[r].seen

CueWaits(r) ==
    LET q == cueRequest[r]
    IN  /\ q.at \in {"subscribe", "render", "wait"} => q.store \in 1 .. Len(stores)
        /\ q.at \in {"render", "wait"} =>
             /\ q.seen <= stores[q.store].version
             /\ Untold(r) => q.store = published
             /\ Untold(r) /\ q.at = "wait" => ~ ReadyFor(stores[q.store], q.segment)

PipelineInv ==
    PipelineTypes /\ Follows /\ Samples /\ CuesKept /\ \A r \in Readers : CueWaits(r)

LEMMA NullIs ==
    /\ Null \notin Reader /\ Null \notin Probe /\ Null \notin MediaSegment
    /\ Null \notin State /\ Null \notin Operation
    /\ \A n \in Nat : n # Null
BY PipelineConstants

LEMMA SpansAre ==
    ASSUME NEW index \in Segments
    PROVE  /\ index \in Nat /\ Start(index) \in Nat /\ From(index) \in Nat /\ To(index) \in Nat
           /\ From(index) = Start(index)
<1>1. index \in Nat /\ SegmentLength \in Nat /\ FilmLength \in Nat
  BY PipelineConstants
<1>2. index * SegmentLength \in Nat
  BY <1>1
<1> QED  BY <1>1, <1>2 DEF Start, From, To, Lesser

(* Sequences of units. *)

LEMMA AppendedUnit ==
    ASSUME NEW units \in Seq(Nat), NEW start \in Nat, Consecutive(units, start)
    PROVE  LET longer == Append(units, start + Len(units))
           IN  /\ longer \in Seq(Nat) /\ Len(longer) = Len(units) + 1
               /\ Consecutive(longer, start)
<1> DEFINE longer == Append(units, start + Len(units))
<1>1. start + Len(units) \in Nat
  OBVIOUS
<1>2. longer \in Seq(Nat) /\ Len(longer) = Len(units) + 1
  BY <1>1
<1>3. ASSUME NEW i \in 1 .. Len(longer)
      PROVE  longer[i] = start + i - 1
  <2>1. CASE i = Len(units) + 1
    BY <2>1, <1>1
  <2>2. CASE i \in 1 .. Len(units)
    BY <2>2, <1>1 DEF Consecutive
  <2> QED  BY <1>2, <2>1, <2>2
<1> QED  BY <1>2, <1>3 DEF Consecutive

LEMMA TakenUnit ==
    ASSUME NEW units \in Seq(Nat), NEW start \in Nat, Consecutive(units, start), units # <<>>
    PROVE  /\ Head(units) = start
           /\ Tail(units) \in Seq(Nat) /\ Len(Tail(units)) = Len(units) - 1
           /\ Consecutive(Tail(units), start + 1)
<1>1. Len(units) \in Nat /\ Len(units) > 0
  OBVIOUS
<1>2. Head(units) = start
  BY <1>1 DEF Consecutive
<1>3. Tail(units) \in Seq(Nat) /\ Len(Tail(units)) = Len(units) - 1
  BY <1>1
<1>4. ASSUME NEW i \in 1 .. Len(Tail(units))
      PROVE  Tail(units)[i] = start + 1 + i - 1
  <2>1. Tail(units)[i] = units[i + 1] /\ i + 1 \in 1 .. Len(units)
    BY <1>1, <1>3
  <2> QED  BY <2>1 DEF Consecutive
<1> QED  BY <1>2, <1>3, <1>4 DEF Consecutive

(* The store of subtitles: what is done to it either leaves what a reader of it
   goes by or raises its version. *)

Moved(s, t) == s.version <= t.version /\ (t.version = s.version => t.readTo = s.readTo)

LEMMA MovedIsOrder ==
    ASSUME NEW s \in Stores, NEW t \in Stores, NEW u \in Stores
    PROVE  Moved(s, s) /\ (Moved(s, t) /\ Moved(t, u) => Moved(s, u))
BY DEF Moved, Stores

LEMMA SetReadToIs ==
    ASSUME NEW s \in Stores, NEW value \in Nat
    PROVE  /\ SetReadTo(s, value) \in Stores /\ SetReadTo(s, value).cues = s.cues
           /\ Moved(s, SetReadTo(s, value))
<1>1. CASE s.readTo = value
  BY <1>1, MovedIsOrder DEF SetReadTo
<1>2. CASE s.readTo # value
  <2> DEFINE t == [cues |-> s.cues, readTo |-> value, version |-> s.version + 1]
  <2>1. SetReadTo(s, value) = t
    BY <1>2 DEF SetReadTo, Stores
  <2>2. t \in Stores /\ t.cues = s.cues /\ Moved(s, t)
    BY DEF Stores, Moved
  <2> QED  BY <2>1, <2>2
<1> QED  BY <1>1, <1>2

LEMMA AdvanceIs ==
    ASSUME NEW s \in Stores, NEW value \in Nat
    PROVE  /\ Advance(s, value) \in Stores /\ Advance(s, value).cues = s.cues
           /\ Moved(s, Advance(s, value))
<1>1. CASE value > s.readTo
  BY <1>1, SetReadToIs DEF Advance
<1>2. CASE ~ (value > s.readTo)
  BY <1>2, MovedIsOrder DEF Advance
<1> QED  BY <1>1, <1>2

LEMMA AppendAllIs ==
    ASSUME NEW s \in Stores, NEW cues \in SUBSET Cues, NEW seek \in Nat
    PROVE  /\ AppendAll(s, cues, seek) \in Stores
           /\ (\A c \in cues : c.start >= seek) => AppendAll(s, cues, seek).cues = s.cues \cup cues
           /\ Moved(s, AppendAll(s, cues, seek))
<1>1. CASE cues = {}
  BY <1>1, MovedIsOrder DEF AppendAll
<1>2. CASE cues # {}
  <2> DEFINE put == {Placed(c, seek) : c \in cues}
  <2>1. (\A c \in cues : c.start >= seek) => put = cues
    <3>1. \A c \in cues : c.start >= seek => Placed(c, seek) = c
      BY PipelineConstants DEF Placed
    <3> QED  BY <3>1
  <2>2. put \in SUBSET [start : Nat, end : Nat]
    <3>1. \A c \in Cues : c \in [start : Nat, end : Nat]
      BY PipelineConstants
    <3>2. \A c \in [start : Nat, end : Nat] : Placed(c, seek) \in [start : Nat, end : Nat]
      BY DEF Placed
    <3> QED  BY <3>1, <3>2
  <2>3. Cardinality(cues) \in Nat /\ Cardinality(cues) # 0
    BY <1>2, PipelineConstants, FS_Subset, FS_CardinalityType, FS_EmptySet
  <2> DEFINE t == [cues |-> s.cues \cup put, readTo |-> s.readTo,
                   version |-> s.version + Cardinality(cues)]
  <2>4. AppendAll(s, cues, seek) = t
    BY <1>2 DEF AppendAll, Stores
  <2> HIDE DEF put
  <2>5. t \in Stores /\ t.cues = s.cues \cup put /\ Moved(s, t)
    BY <2>2, <2>3 DEF Stores, Moved
  <2> HIDE DEF t
  <2> QED  BY <2>1, <2>4, <2>5
<1> QED  BY <1>1, <1>2

LEMMA ReplacedStore ==
    ASSUME NEW list \in Seq(Stores), NEW n \in 1 .. Len(list), NEW t \in Stores
    PROVE  /\ [list EXCEPT ![n] = t] \in Seq(Stores)
           /\ Len([list EXCEPT ![n] = t]) = Len(list)
           /\ \A k \in 1 .. Len(list) : [list EXCEPT ![n] = t][k] = IF k = n THEN t ELSE list[k]
OBVIOUS

\* What a step does to the stores: none is lost, and who waits on one that changes,
\* or that is published no more, is told.
StoresGrow ==
    /\ Len(stores) <= Len(stores')
    /\ \A k \in 1 .. Len(stores) :
         /\ Moved(stores[k], stores'[k])
         /\ k = published /\ stores'[k].version = stores[k].version => published' = published

LEMMA WaitsKept ==
    ASSUME PipelineInv, stores' \in Seq(Stores), StoresGrow, UNCHANGED cueRequest,
           NEW r \in Readers
    PROVE  CueWaits(r)'
<1> DEFINE q == cueRequest[r]
<1>1. q \in CueRequests /\ q' = q /\ CueWaits(r)
  BY DEF PipelineInv, PipelineTypes
<1>2. ASSUME q.at \in {"subscribe", "render", "wait"}
      PROVE  q.store \in 1 .. Len(stores')
  BY <1>1, <1>2 DEF CueWaits, StoresGrow, PipelineInv, PipelineTypes
<1>3. ASSUME q.at \in {"render", "wait"}
      PROVE  /\ q.seen <= stores'[q.store].version
             /\ Untold(r)' => q.store = published' /\ Untold(r)
             /\ Untold(r)' /\ q.at = "wait" => ~ ReadyFor(stores'[q.store], q.segment)
  <2>1. q.store \in 1 .. Len(stores) /\ q.seen <= stores[q.store].version
    BY <1>1, <1>3 DEF CueWaits
  <2>2. q.seen \in Nat
    BY <1>1, <1>3 DEF CueRequests
  <2>3. stores[q.store] \in Stores /\ stores'[q.store] \in Stores
    BY <2>1 DEF StoresGrow, PipelineInv, PipelineTypes
  <2>4. stores[q.store].version \in Nat /\ stores'[q.store].version \in Nat
    BY <2>3 DEF Stores
  <2>5. Moved(stores[q.store], stores'[q.store])
    BY <2>1 DEF StoresGrow
  <2>6. q.seen <= stores'[q.store].version
    BY <2>1, <2>2, <2>4, <2>5 DEF Moved
  <2>7. ASSUME Untold(r)'
        PROVE  Untold(r) /\ stores'[q.store].version = stores[q.store].version
    <3>1. ~ q.late /\ stores'[q.store].version = q.seen
      BY <1>1, <2>7 DEF Untold
    <3>2. stores'[q.store].version = stores[q.store].version
      BY <2>1, <2>2, <2>4, <2>5, <3>1 DEF Moved
    <3> QED  BY <3>1, <3>2 DEF Untold
  <2>8. ASSUME Untold(r)'
        PROVE  q.store = published'
    <3>1. q.store = published
      BY <1>1, <1>3, <2>7, <2>8 DEF CueWaits
    <3> QED  BY <2>1, <2>7, <2>8, <3>1 DEF StoresGrow
  <2>9. ASSUME Untold(r)', q.at = "wait"
        PROVE  ~ ReadyFor(stores'[q.store], q.segment)
    <3>1. ~ ReadyFor(stores[q.store], q.segment)
      BY <1>1, <2>7, <2>9 DEF CueWaits
    <3>2. stores'[q.store].readTo = stores[q.store].readTo
      BY <2>5, <2>7, <2>9 DEF Moved
    <3> QED  BY <3>1, <3>2 DEF ReadyFor
  <2> QED  BY <2>6, <2>7, <2>8, <2>9
<1> QED  BY <1>1, <1>2, <1>3 DEF CueWaits

(* Requests for subtitles touch nothing but themselves. *)

LEMMA OthersSame ==
    ASSUME PipelineInv,
           UNCHANGED <<runner, gst, init, op, stores, published, yielded, reads, strayed>>
    PROVE  /\ Follows' /\ Samples' /\ CuesKept'
           /\ cueRequest' \in [Readers -> CueRequests] => PipelineTypes'
<1>1. Follows'
  BY DEF PipelineInv, Follows
<1>2. Samples'
  BY DEF PipelineInv, Samples, InPlace, Noted, Straight, Flows, Reads, Moving, NextUnit, Consecutive
<1>3. CuesKept'
  BY DEF PipelineInv, CuesKept, AllCues, Whole, NotBefore, NextUnit, Current
<1> QED  BY <1>1, <1>2, <1>3 DEF PipelineInv, PipelineTypes

LEMMA OneRequest ==
    ASSUME PipelineInv, NEW r \in Readers, NEW q \in CueRequests,
           UNCHANGED <<runner, gst, init, op, stores, published, yielded, reads, strayed>>,
           cueRequest' = [cueRequest EXCEPT ![r] = q],
           q.at \in {"subscribe", "render", "wait"} => q.store \in 1 .. Len(stores),
           q.at \in {"render", "wait"} =>
             /\ q.seen <= stores[q.store].version
             /\ (~ q.late /\ stores[q.store].version = q.seen) =>
                  q.store = published /\ (q.at = "wait" => ~ ReadyFor(stores[q.store], q.segment))
    PROVE  PipelineInv'
<1>1. cueRequest' \in [Readers -> CueRequests]
  BY DEF PipelineInv, PipelineTypes
<1>2. cueRequest'[r] = q /\ \A x \in Readers \ {r} : cueRequest'[x] = cueRequest[x]
  BY DEF PipelineInv, PipelineTypes
<1>3. ASSUME NEW x \in Readers
      PROVE  CueWaits(x)'
  <2>1. CASE x = r
    BY <1>2, <2>1 DEF CueWaits, Untold
  <2>2. CASE x # r
    <3>1. CueWaits(x) /\ cueRequest'[x] = cueRequest[x]
      BY <1>2, <2>2 DEF PipelineInv
    <3> QED  BY <3>1 DEF CueWaits, Untold, ReadyFor
  <2> QED  BY <2>1, <2>2
<1> QED  BY <1>1, <1>3, OthersSame DEF PipelineInv

LEMMA RenderedIs ==
    ASSUME NEW store \in Stores, NEW segment \in Segments
    PROVE  Render(store, segment) \in SUBSET [start : Int, end : Int]
<1>1. \A c \in store.cues : c.start \in Nat /\ c.end \in Nat
  BY DEF Stores
<1>2. From(segment) \in Nat /\ To(segment) \in Nat
  BY SpansAre
<1> QED  BY <1>1, <1>2 DEF Render, Greater, Lesser

LEMMA LookKeepsInv ==
    ASSUME PipelineInv, NEW r \in Readers, NEW segment \in Segments, Look(r, segment),
           UNCHANGED <<runner, gst, init, op, stores, published, yielded, reads, strayed>>
    PROVE  PipelineInv'
<1>1. CASE NoStore
  <2> DEFINE q == [at |-> "answered", cues |-> {}]
  <2>1. q \in CueRequests
    BY DEF CueRequests
  <2> QED  BY <1>1, <2>1, OneRequest DEF Look, Answered
<1>2. CASE ~ NoStore
  <2> DEFINE q == [at |-> "subscribe", segment |-> segment, store |-> published]
  <2>1. published \in 1 .. Len(stores) /\ published \in Nat
    BY <1>2 DEF NoStore, PipelineInv, PipelineTypes
  <2>2. q \in CueRequests
    BY <2>1 DEF CueRequests
  <2> QED  BY <1>2, <2>1, <2>2, OneRequest DEF Look
<1> QED  BY <1>1, <1>2

LEMMA RequestsKeepInv ==
    ASSUME PipelineInv, NEW r \in Readers, NEW segment \in Segments,
           \/ AskSubtitles(r, segment) \/ Subscribe(r) \/ RenderOrWait(r) \/ Wakes(r) \/ GivesUp(r)
    PROVE  PipelineInv'
<1> DEFINE q == cueRequest[r]
<1>0. q \in CueRequests /\ CueWaits(r)
  BY DEF PipelineInv, PipelineTypes
<1>t. \A k \in 1 .. Len(stores) : stores[k] \in Stores /\ stores[k].version \in Nat
  <2>1. \A k \in 1 .. Len(stores) : stores[k] \in Stores
    BY DEF PipelineInv, PipelineTypes
  <2> QED  BY <2>1 DEF Stores
<1>1. CASE AskSubtitles(r, segment)
  BY <1>1, LookKeepsInv DEF AskSubtitles, historyVars
<1>2. CASE Subscribe(r)
  <2> DEFINE n == [at |-> "render", segment |-> q.segment, store |-> q.store,
                   seen |-> stores[q.store].version, late |-> q.store # published]
  <2>1. q.at = "subscribe" /\ q.segment \in Segments /\ q.store \in Nat
    BY <1>0, <1>2 DEF Subscribe, CueRequests
  <2>2. q.store \in 1 .. Len(stores)
    BY <1>0, <2>1 DEF CueWaits
  <2>3. n \in CueRequests
    BY <2>1, <2>2, <1>t DEF CueRequests
  <2>4. n.at = "render" /\ n.store = q.store /\ n.seen = stores[q.store].version
        /\ n.late = (q.store # published)
    OBVIOUS
  <2>5. cueRequest' = [cueRequest EXCEPT ![r] = n]
    BY <1>2 DEF Subscribe
  <2>6. UNCHANGED <<runner, gst, init, op, stores, published, yielded, reads, strayed>>
    BY <1>2 DEF Subscribe, historyVars
  <2> HIDE DEF n
  <2>7. n.seen <= stores[n.store].version
    BY <2>2, <2>4, <1>t
  <2> QED  BY <2>2, <2>3, <2>4, <2>5, <2>6, <2>7, OneRequest
<1>3. CASE RenderOrWait(r)
  <2>1. q.at = "render" /\ q.segment \in Segments /\ q.store \in Nat /\ q.seen \in Nat
        /\ q.late \in BOOLEAN
    BY <1>0, <1>3 DEF RenderOrWait, CueRequests
  <2>2. q.store \in 1 .. Len(stores)
    BY <1>0, <2>1 DEF CueWaits
  <2>u. UNCHANGED <<runner, gst, init, op, stores, published, yielded, reads, strayed>>
    BY <1>3 DEF RenderOrWait, historyVars
  <2>3. CASE ReadyFor(stores[q.store], q.segment)
    <3> DEFINE n == [at |-> "answered", cues |-> Render(stores[q.store], q.segment)]
    <3>1. n \in CueRequests
      BY <2>1, <2>2, <1>t, RenderedIs DEF CueRequests
    <3>2. n.at = "answered"
      OBVIOUS
    <3>3. cueRequest' = [cueRequest EXCEPT ![r] = n]
      BY <1>3, <2>3 DEF RenderOrWait, Answered
    <3> HIDE DEF n
    <3> QED  BY <2>u, <3>1, <3>2, <3>3, OneRequest
  <2>4. CASE ~ ReadyFor(stores[q.store], q.segment)
    <3> DEFINE n == [at |-> "wait", segment |-> q.segment, store |-> q.store,
                     seen |-> q.seen, late |-> q.late]
    <3>1. n \in CueRequests
      BY <2>1 DEF CueRequests
    <3>2. n = [q EXCEPT !.at = "wait"]
      BY <1>0, <2>1 DEF CueRequests
    <3>3. cueRequest' = [cueRequest EXCEPT ![r] = n]
      BY <1>3, <2>4, <3>2 DEF RenderOrWait
    <3>4. n.at = "wait" /\ n.segment = q.segment /\ n.store = q.store /\ n.seen = q.seen
          /\ n.late = q.late
      OBVIOUS
    <3> HIDE DEF n
    <3>5. n.seen <= stores[n.store].version
      BY <1>0, <2>1, <3>4 DEF CueWaits
    <3>6. (~ n.late /\ stores[n.store].version = n.seen) => n.store = published
      BY <1>0, <2>1, <3>4 DEF CueWaits, Untold
    <3> QED  BY <2>2, <2>4, <2>u, <3>1, <3>3, <3>4, <3>5, <3>6, OneRequest
  <2> QED  BY <2>3, <2>4
<1>4. CASE Wakes(r)
  <2>1. q.segment \in Segments
    BY <1>0, <1>4 DEF Wakes, CueRequests
  <2> QED  BY <1>4, <2>1, LookKeepsInv DEF Wakes, historyVars
<1>5. CASE GivesUp(r)
  <2> DEFINE cues == IF NoStore THEN {} ELSE Render(Current, q.segment)
             n == [at |-> "answered", cues |-> cues]
  <2>1. q.segment \in Segments
    BY <1>0, <1>5 DEF GivesUp, CueRequests
  <2>2. ~ NoStore => published \in 1 .. Len(stores)
    BY DEF NoStore, PipelineInv, PipelineTypes
  <2>3. cues \in SUBSET [start : Int, end : Int]
    BY <1>t, <2>1, <2>2, RenderedIs DEF Current
  <2>4. cueRequest' = [cueRequest EXCEPT ![r] = n]
    BY <1>5 DEF GivesUp, Answered
  <2> HIDE DEF cues
  <2>5. n \in CueRequests /\ n.at = "answered"
    BY <2>3 DEF CueRequests
  <2> HIDE DEF n
  <2> QED  BY <1>5, <2>4, <2>5, OneRequest DEF GivesUp, historyVars
<1> QED  BY <1>1, <1>2, <1>3, <1>4, <1>5

(* The runner, field by field. *)

LEMMA DiscardedIs ==
    ASSUME NEW rn \in Runners
    PROVE  /\ Discarded(rn) \in Runners
           /\ Discarded(rn).index = -1 /\ Discarded(rn).ready = Null
           /\ Discarded(rn).playing = rn.playing /\ Discarded(rn).frozen = rn.frozen
           /\ Discarded(rn).position = rn.position /\ Discarded(rn).seekAt = rn.seekAt
           /\ Discarded(rn).probe = rn.probe /\ Discarded(rn).reader = rn.reader
           /\ Discarded(rn).gone = rn.gone
<1> DEFINE t == [playing |-> rn.playing, frozen |-> rn.frozen, index |-> -1, ready |-> Null,
                 position |-> rn.position, seekAt |-> rn.seekAt, probe |-> rn.probe,
                 reader |-> rn.reader, gone |-> rn.gone]
<1>0. Discarded(rn) = [rn EXCEPT !.index = -1, !.ready = Null]
  BY DEF Discarded
<1>1. Discarded(rn) = t
  BY <1>0 DEF Runners
<1>2. t \in Runners
  BY DEF Runners
<1> QED  BY <1>1, <1>2

LEMMA AtIs ==
    ASSUME NEW rn \in Runners, NEW position \in Nat
    PROVE  LET t == At(rn, position)
           IN  /\ t \in Runners
               /\ t.reader = [offset |-> position, got |-> <<>>]
               /\ t.seekAt = position /\ t.position = position
               /\ t.playing = rn.playing /\ t.frozen = rn.frozen /\ t.index = rn.index
               /\ t.ready = rn.ready /\ t.probe = rn.probe /\ t.gone = rn.gone
<1> DEFINE rd == [offset |-> position, got |-> <<>>]
           t == [playing |-> rn.playing, frozen |-> rn.frozen, index |-> rn.index,
                 ready |-> rn.ready, position |-> position, seekAt |-> position,
                 probe |-> rn.probe, reader |-> rd, gone |-> rn.gone]
<1>1. [NoReader EXCEPT !.offset = position] = rd
  BY DEF NoReader
<1>2. rd \in Reader
  BY DEF Reader
<1> HIDE DEF rd
<1>0. At(rn, position)
        = [rn EXCEPT !.reader = rd, !.seekAt = position, !.position = position]
  BY <1>1 DEF At
<1>3. At(rn, position) = t
  BY <1>0 DEF Runners
<1>4. t \in Runners
  BY <1>2 DEF Runners
<1>5. t.reader = rd /\ t.seekAt = position /\ t.position = position
      /\ t.playing = rn.playing /\ t.frozen = rn.frozen /\ t.index = rn.index
      /\ t.ready = rn.ready /\ t.probe = rn.probe /\ t.gone = rn.gone
  OBVIOUS
<1> HIDE DEF t
<1> QED  BY <1>3, <1>4, <1>5 DEF rd

LEMMA EnsuredIs ==
    ASSUME NEW rn \in Runners
    PROVE  LET t == Ensured(rn)
           IN  /\ t \in Runners
               /\ t.reader = IF rn.reader = Null THEN NoReader ELSE rn.reader
               /\ t.reader # Null
               /\ t.playing = rn.playing /\ t.frozen = rn.frozen /\ t.index = rn.index
               /\ t.ready = rn.ready /\ t.position = rn.position /\ t.seekAt = rn.seekAt
               /\ t.probe = rn.probe /\ t.gone = rn.gone
<1>1. NoReader \in Reader
  BY DEF NoReader, Reader
<1>2. CASE rn.reader = Null
  <2> DEFINE t == [playing |-> rn.playing, frozen |-> rn.frozen, index |-> rn.index,
                   ready |-> rn.ready, position |-> rn.position, seekAt |-> rn.seekAt,
                   probe |-> rn.probe, reader |-> NoReader, gone |-> rn.gone]
  <2>1. Ensured(rn) = t
    BY <1>2 DEF Ensured, Runners
  <2>2. t \in Runners
    BY <1>1 DEF Runners
  <2> QED  BY <1>1, <1>2, <2>1, <2>2, NullIs
<1>3. CASE rn.reader # Null
  BY <1>3 DEF Ensured
<1> QED  BY <1>2, <1>3

LEMMA PlacedReader ==
    ASSUME NEW rn \in Runners, NEW to \in Nat
    PROVE  LET t == [rn EXCEPT !.reader = [NoReader EXCEPT !.offset = to]]
           IN  /\ t \in Runners
               /\ t.reader = [offset |-> to, got |-> <<>>]
               /\ t.playing = rn.playing /\ t.frozen = rn.frozen /\ t.index = rn.index
               /\ t.ready = rn.ready /\ t.position = rn.position /\ t.seekAt = rn.seekAt
               /\ t.probe = rn.probe /\ t.gone = rn.gone
<1>1. [NoReader EXCEPT !.offset = to] = [offset |-> to, got |-> <<>>]
  BY DEF NoReader
<1>2. [offset |-> to, got |-> <<>>] \in Reader
  BY DEF Reader
<1> QED  BY <1>1, <1>2 DEF Runners

LEMMA AppliedIs ==
    ASSUME NEW rn \in Runners, rn.reader # Null
    PROVE  LET t == Applied(rn)
           IN  /\ t \in Runners
               /\ t.playing = rn.playing /\ t.frozen = rn.frozen /\ t.index = rn.index
               /\ t.ready = rn.ready /\ t.gone = rn.gone
               /\ IF rn.probe = Null \/ rn.probe.actual = Null
                  THEN t.reader = rn.reader /\ t.probe = rn.probe /\ t.seekAt = rn.seekAt
                  ELSE /\ t.reader = [offset |-> rn.probe.actual, got |-> rn.reader.got]
                       /\ t.probe = [actual |-> Null, first |-> rn.probe.first]
                       /\ t.seekAt = rn.probe.actual
<1>1. CASE rn.probe = Null \/ rn.probe.actual = Null
  BY <1>1 DEF Applied
<1>2. CASE ~ (rn.probe = Null \/ rn.probe.actual = Null)
  <2> DEFINE a == rn.probe.actual
             rd == [offset |-> a, got |-> rn.reader.got]
             pb == [actual |-> Null, first |-> rn.probe.first]
             t == [playing |-> rn.playing, frozen |-> rn.frozen, index |-> rn.index,
                   ready |-> rn.ready, position |-> a, seekAt |-> a,
                   probe |-> pb, reader |-> rd, gone |-> rn.gone]
  <2>1. rn.probe \in Probe /\ rn.reader \in Reader /\ a \in Nat
    BY <1>2 DEF Runners, Probe
  <2>2. [rn.reader EXCEPT !.offset = a] = rd /\ rd \in Reader
    BY <2>1 DEF Reader
  <2>3. [rn.probe EXCEPT !.actual = Null] = pb /\ pb \in Probe
    BY <2>1 DEF Probe
  <2>4. Applied(rn) = [rn EXCEPT !.reader.offset = a, !.seekAt = a, !.position = a,
                                 !.probe.actual = Null]
    BY <1>2 DEF Applied
  <2>5. Applied(rn) = [rn EXCEPT !.reader = rd, !.seekAt = a, !.position = a, !.probe = pb]
    BY <2>2, <2>3, <2>4 DEF Runners
  <2> HIDE DEF rd, pb
  <2>6. Applied(rn) = t
    BY <2>5 DEF Runners
  <2>7. t \in Runners
    BY <2>1, <2>2, <2>3 DEF Runners
  <2>8. /\ t.playing = rn.playing /\ t.frozen = rn.frozen /\ t.index = rn.index
        /\ t.ready = rn.ready /\ t.gone = rn.gone
        /\ t.reader = rd /\ t.probe = pb /\ t.seekAt = a
    OBVIOUS
  <2> HIDE DEF t
  <2> QED  BY <1>2, <2>6, <2>7, <2>8 DEF rd, pb
<1> QED  BY <1>1, <1>2

LEMMA MadeIs ==
    ASSUME NEW rn \in Runners, rn.reader # Null, NEW got \in Seq(Nat)
    PROVE  LET t == Made(rn, got)
           IN  /\ t \in Runners
               /\ t.playing = rn.playing /\ t.frozen = rn.frozen /\ t.index = rn.index
               /\ t.gone = rn.gone /\ t.probe = rn.probe /\ t.seekAt = rn.seekAt
               /\ t.reader = [offset |-> rn.reader.offset + Len(got), got |-> <<>>]
               /\ t.ready = [start |-> rn.reader.offset, content |-> got]
<1> DEFINE o == rn.reader.offset + Len(got)
           rd == [offset |-> o, got |-> <<>>]
           sg == [start |-> rn.reader.offset, content |-> got]
           t == [playing |-> rn.playing, frozen |-> rn.frozen, index |-> rn.index,
                 ready |-> sg, position |-> o, seekAt |-> rn.seekAt,
                 probe |-> rn.probe, reader |-> rd, gone |-> rn.gone]
<1>1. rn.reader \in Reader /\ rn.reader.offset \in Nat /\ o \in Nat
  BY DEF Runners, Reader
<1>2. rd \in Reader /\ sg \in MediaSegment
  BY <1>1 DEF Reader, MediaSegment
<1>3. Made(rn, got) = [rn EXCEPT !.reader = rd, !.position = o, !.ready = sg]
  BY DEF Made, Segment
<1> HIDE DEF rd, sg
<1>4. Made(rn, got) = t
  BY <1>3 DEF Runners
<1>5. t \in Runners
  BY <1>1, <1>2 DEF Runners
<1>6. /\ t.playing = rn.playing /\ t.frozen = rn.frozen /\ t.index = rn.index
      /\ t.gone = rn.gone /\ t.probe = rn.probe /\ t.seekAt = rn.seekAt
      /\ t.reader = rd /\ t.ready = sg
  OBVIOUS
<1> HIDE DEF t
<1> QED  BY <1>4, <1>5, <1>6 DEF rd, sg

(* GStreamer, and an operation on its way. *)

LEMMA LandingIs ==
    ASSUME NEW to \in Nat
    PROVE  /\ Landing(to) \in Nat /\ Landing(to) <= FilmLength
           /\ Landing(to) < FilmLength => Landing(to) >= to
<1>1. KeyUnits \subseteq Nat /\ \A k \in KeyUnits : k <= FilmLength
  BY PipelineConstants
<1>2. CASE \E k \in KeyUnits : k >= to
  <2> DEFINE L == {k \in KeyUnits : k >= to}
  <2>1. L \in SUBSET Nat /\ L # {}
    BY <1>1, <1>2
  <2>2. \E k \in L : \A j \in L : k <= j
    BY <2>1, Least
  <2>3. \E k \in KeyUnits : k >= to /\ \A j \in KeyUnits : j >= to => k <= j
    BY <2>2
  <2>4. Landing(to) \in KeyUnits /\ Landing(to) >= to
    BY <1>2, <2>3 DEF Landing
  <2> QED  BY <1>1, <2>4
<1>3. CASE ~ \E k \in KeyUnits : k >= to
  BY <1>3, PipelineConstants DEF Landing
<1> QED  BY <1>2, <1>3

LEMMA QuietWaits ==
    ASSUME PipelineInv, UNCHANGED <<stores, published, cueRequest>>
    PROVE  \A r \in Readers : CueWaits(r)'
<1>1. \A k \in 1 .. Len(stores) : stores[k] \in Stores
  BY DEF PipelineInv, PipelineTypes
<1>2. StoresGrow
  BY <1>1, MovedIsOrder DEF StoresGrow
<1>3. stores' \in Seq(Stores)
  BY DEF PipelineInv, PipelineTypes
<1> QED  BY <1>2, <1>3, WaitsKept

LEMMA OpIs ==
    ASSUME PipelineInv, op # Null
    PROVE  /\ op \in Operation /\ op.to \in Nat /\ op.index \in Segments
           /\ op.at \in {"launch", "seek", "flush", "arrive", "pull"}
           /\ op.is \in {"init", "segment", "seek"}
BY DEF PipelineInv, PipelineTypes, Operation

LEMMA GstIs ==
    ASSUME PipelineInv, gst # Null
    PROVE  /\ gst \in State /\ gst.playing \in BOOLEAN /\ gst.at \in Nat /\ gst.out \in Seq(Nat)
           /\ gst.subs \in SUBSET Cues /\ gst.bus \in SUBSET {"async", "eos", "error"}
           /\ gst.eos \in BOOLEAN /\ Len(gst.out) \in Nat /\ NextUnit(gst) \in Nat
<1>1. gst \in State
  BY DEF PipelineInv, PipelineTypes
<1>2. Len(gst.out) <= gst.at
  BY DEF PipelineInv, Samples, Flows
<1>3. gst.playing \in BOOLEAN /\ gst.at \in Nat /\ gst.out \in Seq(Nat)
      /\ gst.subs \in SUBSET Cues /\ gst.bus \in SUBSET {"async", "eos", "error"}
      /\ gst.eos \in BOOLEAN
  BY <1>1 DEF State
<1> QED  BY <1>1, <1>2, <1>3 DEF NextUnit

LEMMA TimeoutKeepsInv ==
    ASSUME PipelineInv, PullTimesOut
    PROVE  PipelineInv'
<1> USE DEF PullTimesOut, Doing, historyVars
<1>1. PipelineTypes'
  BY DEF PipelineInv, PipelineTypes
<1>2. Follows'
  BY DEF PipelineInv, Follows
<1>3. Samples'
  BY DEF PipelineInv, Samples, InPlace, Noted, Straight, Follows, Flows, Reads, NextUnit, Consecutive
<1>4. CuesKept'
  BY DEF PipelineInv, CuesKept, AllCues, Whole, NotBefore, NextUnit, Current
<1> QED  BY <1>1, <1>2, <1>3, <1>4, QuietWaits DEF PipelineInv

LEMMA BusKeepsInv ==
    ASSUME PipelineInv, ProduceEnd \/ BreaksDown
    PROVE  PipelineInv'
<1>1. gst # Null /\ UNCHANGED <<runner, init, op, stores, published, cueRequest, yielded, reads, strayed>>
  BY DEF ProduceEnd, BreaksDown, historyVars
<1>2. gst' \in State /\ gst' # Null /\ gst'.at = gst.at /\ gst'.out = gst.out
      /\ gst'.subs = gst.subs
  <2>1. CASE ProduceEnd
    <3>1. gst' = [gst EXCEPT !.eos = TRUE, !.bus = @ \cup {"eos"}]
      BY <2>1 DEF ProduceEnd
    <3>2. gst' = [playing |-> gst.playing, at |-> gst.at, out |-> gst.out, subs |-> gst.subs,
                  bus |-> gst.bus \cup {"eos"}, eos |-> TRUE]
      BY <1>1, <3>1, GstIs DEF State
    <3>3. gst' \in State
      BY <1>1, <3>2, GstIs DEF State
    <3> QED  BY <3>2, <3>3, NullIs
  <2>2. CASE BreaksDown
    <3>1. gst' = [gst EXCEPT !.bus = @ \cup {"error"}]
      BY <2>2 DEF BreaksDown
    <3>2. gst' = [playing |-> gst.playing, at |-> gst.at, out |-> gst.out, subs |-> gst.subs,
                  bus |-> gst.bus \cup {"error"}, eos |-> gst.eos]
      BY <1>1, <3>1, GstIs DEF State
    <3>3. gst' \in State
      BY <1>1, <3>2, GstIs DEF State
    <3> QED  BY <3>2, <3>3, NullIs
  <2> QED  BY <2>1, <2>2
<1>3. PipelineTypes'
  BY <1>1, <1>2 DEF PipelineInv, PipelineTypes
<1>4. Follows'
  BY <1>1, <1>2 DEF PipelineInv, Follows
<1>5. Samples'
  BY <1>1, <1>2
  DEF PipelineInv, Samples, InPlace, Noted, Straight, Flows, Reads, Moving, NextUnit, Consecutive
<1>6. CuesKept'
  BY <1>1, <1>2 DEF PipelineInv, CuesKept, AllCues, Whole, NotBefore, NextUnit, Current
<1> QED  BY <1>1, <1>3, <1>4, <1>5, <1>6, QuietWaits DEF PipelineInv

LEMMA OpMoves ==
    ASSUME PipelineInv, op # Null, NEW at \in {"seek", "flush", "arrive", "pull"}
    PROVE  LET t == [op EXCEPT !.at = at]
           IN  /\ t \in Operation /\ t # Null /\ t.at = at /\ t.is = op.is /\ t.index = op.index
               /\ t.to = op.to /\ t.via = op.via
<1>1. op \in Operation
  BY OpIs
<1>2. [op EXCEPT !.at = at] \in Operation
  BY <1>1 DEF Operation
<1> QED  BY <1>1, <1>2, NullIs DEF Operation

LEMMA LaunchKeepsInv ==
    ASSUME PipelineInv, Launch
    PROVE  PipelineInv'
<1>1. op # Null /\ op.at = "launch" /\ gst = Null /\ runner.probe = Null
      /\ UNCHANGED <<runner, init, stores, published, cueRequest, yielded, reads, strayed>>
  BY DEF Launch, Doing, historyVars, PipelineInv, Follows
<1>2. /\ op' \in Operation /\ op' # Null /\ op'.to = op.to /\ op'.via = op.via
      /\ op'.at = IF op.to = 0 THEN "arrive" ELSE "seek"
  BY <1>1, OpMoves DEF Launch
<1>3. gst' \in State /\ gst' # Null /\ gst'.at = 0 /\ gst'.out = <<>> /\ gst'.subs = {}
  <2>1. BuiltPipeline \in State
    BY DEF BuiltPipeline, State
  <2> QED  BY <2>1, NullIs DEF Launch, BuiltPipeline
<1>4. PipelineTypes'
  BY <1>1, <1>2, <1>3 DEF PipelineInv, PipelineTypes
<1>5. Follows'
  BY <1>1, <1>2, <1>3 DEF PipelineInv, Follows
<1>6. Samples'
  <2>1. Flows(gst')
    BY <1>1, <1>3, PipelineConstants DEF Flows, NextUnit, Consecutive
  <2>2. Moving'
    <3>1. Moving
      BY <1>1 DEF PipelineInv, Samples
    <3>0. NextUnit(gst') = 0
      <4>1. Len(gst'.out) = 0 /\ gst'.at = 0
        BY <1>3
      <4>2. NextUnit(gst') = gst'.at - Len(gst'.out)
        BY DEF NextUnit
      <4>3. gst'.at - Len(gst'.out) = 0 - 0
        BY <4>1
      <4> QED  BY <4>2, <4>3
    <3>2. op'.at = "arrive" => op'.to = 0 /\ NextUnit(gst)' = 0
      BY <1>2, <3>0 DEF NextUnit
    <3>3. (op'.to = 0 => op'.at # "seek") /\ op'.at # "flush"
      BY <1>2
    <3> QED  BY <1>1, <1>2, <3>1, <3>2, <3>3 DEF Moving
  <2>3. Straight => InPlace'
    BY <1>1, <1>2 DEF PipelineInv, Samples, InPlace, Consecutive
  <2>4. Straight' = Straight /\ Noted(runner, gst)'
    BY <1>1 DEF Straight, Noted
  <2> QED  BY <1>1, <1>2, <1>3, <2>1, <2>2, <2>3, <2>4 DEF Samples, Flows, Consecutive, NextUnit
<1>7. CuesKept'
  BY <1>1, <1>2, <1>3, OpIs
  DEF PipelineInv, CuesKept, AllCues, Whole, NotBefore, NextUnit, Current
<1> QED  BY <1>1, <1>4, <1>5, <1>6, <1>7, QuietWaits DEF PipelineInv

LEMMA InstallProbesKeepsInv ==
    ASSUME PipelineInv, InstallProbes
    PROVE  PipelineInv'
<1>1. op # Null /\ op.at = "seek" /\ gst # Null
      /\ UNCHANGED <<init, stores, published, cueRequest, yielded, reads, strayed>>
  BY DEF InstallProbes, Doing, historyVars, PipelineInv, Follows
<1>2. /\ op' \in Operation /\ op' # Null /\ op'.to = op.to /\ op'.via = op.via
      /\ op'.at = "flush"
  BY <1>1, OpMoves DEF InstallProbes
<1>3. gst' \in State /\ gst' # Null /\ gst'.at = gst.at /\ gst'.out = <<>>
      /\ gst'.subs = gst.subs
  <2>1. gst' = [gst EXCEPT !.out = <<>>, !.bus = @ \ {"async", "eos"}]
    BY DEF InstallProbes
  <2>2. gst' = [playing |-> gst.playing, at |-> gst.at, out |-> <<>>, subs |-> gst.subs,
                bus |-> gst.bus \ {"async", "eos"}, eos |-> gst.eos]
    BY <1>1, <2>1, GstIs DEF State
  <2>3. gst' \in State
    BY <1>1, <2>2, GstIs DEF State
  <2> QED  BY <2>2, <2>3, NullIs
<1>4. /\ runner' \in Runners /\ runner'.probe # Null /\ runner'.probe.first = FALSE
      /\ runner'.playing = runner.playing /\ runner'.frozen = runner.frozen
      /\ runner'.ready = runner.ready /\ runner'.reader = runner.reader
      /\ runner'.seekAt = runner.seekAt /\ runner'.gone = runner.gone
  <2> DEFINE pb == [actual |-> Null, first |-> FALSE]
  <2>1. pb \in Probe /\ pb.first = FALSE
    BY DEF Probe
  <2>2. runner \in Runners
    BY DEF PipelineInv, PipelineTypes
  <2>3. runner' = [runner EXCEPT !.probe = pb]
    BY DEF InstallProbes
  <2> HIDE DEF pb
  <2>4. /\ runner' \in Runners /\ runner'.probe = pb
        /\ runner'.playing = runner.playing /\ runner'.frozen = runner.frozen
        /\ runner'.ready = runner.ready /\ runner'.reader = runner.reader
        /\ runner'.seekAt = runner.seekAt /\ runner'.gone = runner.gone
    BY <2>1, <2>2, <2>3 DEF Runners
  <2> QED  BY <2>1, <2>4, NullIs
<1>5. PipelineTypes'
  BY <1>1, <1>2, <1>3, <1>4 DEF PipelineInv, PipelineTypes
<1>6. Follows'
  BY <1>1, <1>2, <1>3, <1>4 DEF PipelineInv, Follows
<1>7. Samples'
  <2>1. Flows(gst')
    <3>1. Len(gst'.out) = 0 /\ gst.at \in Nat /\ gst.at <= FilmLength
      BY <1>1, <1>3, GstIs DEF PipelineInv, Samples, Flows
    <3> QED  BY <1>3, <3>1 DEF Flows, Consecutive
  <2>2. Moving'
    BY <1>1, <1>2, <1>4 DEF PipelineInv, Samples, Moving
  <2>3. Straight' => InPlace'
    BY <1>1, <1>2, <1>4 DEF PipelineInv, Samples, Straight, InPlace, Consecutive
  <2> QED  BY <1>2, <1>3, <2>1, <2>2, <2>3 DEF Samples, Flows, Consecutive, NextUnit
<1>8. CuesKept'
  <2>1. ASSUME Whole
        PROVE  /\ published # 0 => /\ Current.cues \subseteq Cues
                                   /\ \A c \in Cues : c.start \in reads => c \in Current.cues
    BY <2>1 DEF PipelineInv, CuesKept, AllCues
  <2>2. NextUnit(gst') = gst.at /\ gst.at \in Nat
    <3>1. Len(gst'.out) = 0 /\ gst.at \in Nat
      BY <1>1, <1>3, GstIs
    <3> QED  BY <1>3, <3>1 DEF NextUnit
  <2>3. NextUnit(gst') .. gst'.at - 1 = {}
    BY <1>3, <2>2
  <2> QED  BY <1>1, <1>2, <2>1, <2>3 DEF CuesKept, AllCues, Whole, Current, NextUnit
<1> QED  BY <1>1, <1>5, <1>6, <1>7, <1>8, QuietWaits DEF PipelineInv

LEMMA SendSeekKeepsInv ==
    ASSUME PipelineInv, SendSeek
    PROVE  PipelineInv'
<1>1. op # Null /\ op.at = "flush" /\ gst # Null
      /\ UNCHANGED <<init, stores, published, cueRequest, yielded, reads>>
  BY DEF SendSeek, Doing, PipelineInv, Follows
<1>m. Moving /\ runner.probe # Null /\ (runner.probe.first => runner.probe.actual # Null)
  BY <1>1 DEF PipelineInv, Samples, Moving
<1>2. /\ op' \in Operation /\ op' # Null /\ op'.to = op.to /\ op'.via = op.via
      /\ op'.at = "arrive"
  BY <1>1, OpMoves DEF SendSeek
<1>l. Landing(op.to) \in Nat /\ Landing(op.to) <= FilmLength
      /\ (Landing(op.to) < FilmLength => Landing(op.to) >= op.to) /\ op.to \in Nat
  BY <1>1, LandingIs, OpIs
<1>3. gst' \in State /\ gst' # Null /\ gst'.at = Landing(op.to) /\ gst'.out = <<>>
      /\ gst'.subs = {}
  <2>1. gst' = [gst EXCEPT !.at = Landing(op.to), !.out = <<>>, !.subs = {}, !.eos = FALSE,
                           !.bus = @ \ {"async"}]
    BY DEF SendSeek
  <2>2. gst' = [playing |-> gst.playing, at |-> Landing(op.to), out |-> <<>>, subs |-> {},
                bus |-> gst.bus \ {"async"}, eos |-> FALSE]
    BY <1>1, <2>1, GstIs DEF State
  <2>3. gst' \in State
    BY <1>1, <1>l, <2>2, GstIs DEF State
  <2> QED  BY <2>2, <2>3, NullIs
<1>4. NextUnit(gst') = Landing(op.to)
  <2>1. Len(gst'.out) = 0
    BY <1>3
  <2> QED  BY <1>3, <1>l, <2>1 DEF NextUnit
<1>5. /\ runner' \in Runners
      /\ runner'.probe # Null /\ runner'.probe.actual # Null
      /\ runner'.probe.first = runner.probe.first
      /\ runner.probe.first => runner'.probe.actual = runner.probe.actual
      /\ runner'.playing = runner.playing /\ runner'.frozen = runner.frozen
      /\ runner'.ready = runner.ready /\ runner'.reader = runner.reader
      /\ runner'.seekAt = runner.seekAt /\ runner'.gone = runner.gone
  <2>0. runner \in Runners
    BY DEF PipelineInv, PipelineTypes
  <2>1. CASE runner.probe.first
    <3>1. runner' = runner
      BY <2>1 DEF SendSeek
    <3> QED  BY <1>m, <2>0, <2>1, <3>1
  <2>2. CASE ~ runner.probe.first
    <3>1. PICK told \in {op.to, Landing(op.to)} :
            runner' = [runner EXCEPT !.probe.actual = told]
      BY <2>2 DEF SendSeek
    <3> DEFINE pb == [actual |-> told, first |-> runner.probe.first]
    <3>2. told \in Nat /\ runner.probe \in Probe
      BY <1>l, <1>m, <2>0, <3>1 DEF Runners
    <3>3. pb \in Probe /\ pb.actual = told /\ pb.first = runner.probe.first
          /\ [runner.probe EXCEPT !.actual = told] = pb
      BY <3>2 DEF Probe
    <3>4. runner' = [runner EXCEPT !.probe = pb]
      BY <2>0, <3>1, <3>3 DEF Runners
    <3> HIDE DEF pb
    <3>5. /\ runner' \in Runners /\ runner'.probe = pb
          /\ runner'.playing = runner.playing /\ runner'.frozen = runner.frozen
          /\ runner'.ready = runner.ready /\ runner'.reader = runner.reader
          /\ runner'.seekAt = runner.seekAt /\ runner'.gone = runner.gone
      BY <2>0, <3>3, <3>4 DEF Runners
    <3> QED  BY <2>2, <3>2, <3>3, <3>5, NullIs
  <2> QED  BY <2>1, <2>2
<1>6. /\ strayed' \in {strayed, "now"}
      /\ (Straight' /\ runner'.probe.first) => runner'.probe.actual = Landing(op.to)
      /\ (Straight' => Straight) /\ (Whole' => Whole)
  <2>1. strayed' = IF runner.probe.first /\ runner.probe.actual # Landing(op.to) THEN "now"
                   ELSE strayed
    BY DEF SendSeek
  <2> QED  BY <1>5, <2>1 DEF Straight, Whole
<1>7. PipelineTypes'
  BY <1>1, <1>2, <1>3, <1>5, <1>6 DEF PipelineInv, PipelineTypes
<1>8. Follows'
  BY <1>1, <1>2, <1>3, <1>5 DEF PipelineInv, Follows
<1>9. Samples'
  <2>1. Flows(gst')
    BY <1>3, <1>l DEF Flows, NextUnit, Consecutive
  <2>2. Moving'
    BY <1>1, <1>2, <1>5, <1>m DEF Moving
  <2>3. Straight' => InPlace'
    BY <1>1, <1>2, <1>5, <1>6 DEF PipelineInv, Samples, InPlace, Consecutive
  <2>4. Noted(runner, gst)'
    <3>1. CASE runner'.probe.first
      BY <1>4, <1>5, <1>6, <3>1 DEF Noted, NextUnit
    <3>2. CASE ~ runner'.probe.first
      BY <1>3, <1>5, <3>2 DEF Noted
    <3> QED  BY <3>1, <3>2
  <2> QED  BY <1>2, <1>3, <2>1, <2>2, <2>3, <2>4 DEF Samples, Flows, Consecutive, NextUnit
<1>10. CuesKept'
  <2> SUFFICES ASSUME Whole'
               PROVE  AllCues'
    BY DEF CuesKept
  <2>1. Whole /\ Straight'
    BY <1>6 DEF Whole, Straight
  <2>2. /\ published # 0 => /\ Current.cues \subseteq Cues
                            /\ \A c \in Cues : c.start \in reads => c \in Current.cues
    BY <2>1 DEF PipelineInv, CuesKept, AllCues
  <2>3. NextUnit(gst') .. gst'.at - 1 = {}
    BY <1>3, <1>4, <1>l
  <2>4. NotBefore(gst', op.to) /\ NotBefore(gst', Landing(op.to))
    BY <1>3, <1>l DEF NotBefore
  <2>5. runner'.probe.first => NotBefore(gst', runner'.probe.actual)
    BY <1>6, <2>1, <2>4
  <2> QED  BY <1>1, <1>2, <2>2, <2>3, <2>4, <2>5 DEF AllCues, NotBefore, Current, NextUnit, Landing
<1> QED  BY <1>1, <1>7, <1>8, <1>9, <1>10, QuietWaits DEF PipelineInv

LEMMA ProduceKeepsInv ==
    ASSUME PipelineInv, Produce
    PROVE  PipelineInv'
<1> DEFINE fresh == {c \in Cues : c.start = gst.at}
           told == Notes
           moved == op = Null \/ op.at \in {"arrive", "pull"}
<1>1. gst # Null /\ gst.at < FilmLength
      /\ UNCHANGED <<init, op, stores, published, cueRequest, yielded, reads, strayed>>
  BY DEF Produce, historyVars
<1>g. gst.at \in Nat /\ gst.out \in Seq(Nat) /\ NextUnit(gst) \in Nat /\ gst.subs \in SUBSET Cues
      /\ gst.at = NextUnit(gst) + Len(gst.out) /\ Len(gst.out) \in Nat
  BY <1>1, GstIs DEF NextUnit
<1>f. Flows(gst) /\ (moved => Noted(runner, gst))
  BY <1>1 DEF PipelineInv, Samples
<1>2. /\ gst' \in State /\ gst' # Null /\ gst'.at = gst.at + 1
      /\ gst'.out = Append(gst.out, gst.at) /\ gst'.subs = gst.subs \cup fresh
  <2> DEFINE bus == IF gst.playing THEN gst.bus ELSE gst.bus \cup {"async"}
  <2>1. gst' = [gst EXCEPT !.at = @ + 1, !.out = Append(@, gst.at), !.subs = @ \cup fresh,
                           !.bus = bus]
    BY DEF Produce
  <2>2. bus \in SUBSET {"async", "eos", "error"}
    BY <1>1, GstIs
  <2> HIDE DEF bus
  <2>3. gst' = [playing |-> gst.playing, at |-> gst.at + 1, out |-> Append(gst.out, gst.at),
                subs |-> gst.subs \cup fresh, bus |-> bus, eos |-> gst.eos]
    BY <1>1, <2>1, GstIs DEF State
  <2>4. gst' \in State
    BY <1>1, <1>g, <2>2, <2>3, GstIs DEF State
  <2> QED  BY <2>3, <2>4, NullIs
<1>3. Append(gst.out, gst.at) \in Seq(Nat) /\ Len(gst'.out) = Len(gst.out) + 1
      /\ Consecutive(gst'.out, NextUnit(gst)) /\ gst'.out # <<>>
  <2>1. Consecutive(gst.out, NextUnit(gst)) /\ gst.at = NextUnit(gst) + Len(gst.out)
    BY <1>f, <1>g DEF Flows
  <2> DEFINE longer == Append(gst.out, gst.at)
  <2>2. longer \in Seq(Nat) /\ Len(longer) = Len(gst.out) + 1
        /\ Consecutive(longer, NextUnit(gst))
    BY <1>g, <2>1, AppendedUnit
  <2> HIDE DEF longer
  <2>3. longer # <<>>
    BY <1>g, <2>2
  <2>4. gst'.out = longer
    BY <1>2 DEF longer
  <2> QED  BY <2>2, <2>3, <2>4 DEF longer
<1>4. NextUnit(gst') = NextUnit(gst)
  BY <1>2, <1>3, <1>g DEF NextUnit
<1>5. /\ runner' \in Runners
      /\ runner'.playing = runner.playing /\ runner'.frozen = runner.frozen
      /\ runner'.ready = runner.ready /\ runner'.reader = runner.reader
      /\ runner'.seekAt = runner.seekAt /\ runner'.gone = runner.gone
      /\ ~ told => runner'.probe = runner.probe
      /\ told => runner'.probe # Null /\ runner'.probe.actual = gst.at /\ runner'.probe.first = TRUE
  <2>1. runner \in Runners
    BY DEF PipelineInv, PipelineTypes
  <2>2. CASE ~ told
    BY <2>1, <2>2 DEF Produce
  <2>3. CASE told
    <3> DEFINE pb == [actual |-> gst.at, first |-> TRUE]
    <3>1. pb \in Probe /\ pb.actual = gst.at /\ pb.first = TRUE
      BY <1>g DEF Probe
    <3>2. runner' = [runner EXCEPT !.probe = pb]
      BY <2>3 DEF Produce
    <3> HIDE DEF pb
    <3>3. runner'.probe = pb /\ runner' \in Runners
          /\ runner'.playing = runner.playing /\ runner'.frozen = runner.frozen
          /\ runner'.ready = runner.ready /\ runner'.reader = runner.reader
          /\ runner'.seekAt = runner.seekAt /\ runner'.gone = runner.gone
      BY <2>1, <3>1, <3>2 DEF Runners
    <3> QED  BY <2>3, <3>1, <3>3, NullIs
  <2> QED  BY <2>2, <2>3
<1>6. /\ told => runner.probe # Null
      /\ told /\ moved => /\ gst.out = <<>> /\ gst.subs = {} /\ runner.probe.actual # Null
                         /\ NextUnit(gst) = gst.at
      /\ ~ told /\ moved /\ runner.probe # Null => runner.probe.first
  <2>1. told => runner.probe # Null /\ ~ runner.probe.first
    BY DEF Notes
  <2>2. told /\ moved => gst.out = <<>> /\ gst.subs = {} /\ runner.probe.actual # Null
    BY <1>f, <2>1 DEF Noted
  <2>3. told /\ moved => NextUnit(gst) = gst.at
    BY <1>g, <2>2
  <2>4. moved => ~ Doing("flush")
    BY DEF Doing
  <2>5. ~ told /\ moved /\ runner.probe # Null => runner.probe.first
    BY <2>4 DEF Notes
  <2> HIDE DEF told, moved
  <2> QED  BY <2>1, <2>2, <2>3, <2>5
<1> HIDE DEF told
<1>n. gst.at # Null
  BY <1>g, NullIs
<1>7. PipelineTypes'
  BY <1>1, <1>2, <1>5 DEF PipelineInv, PipelineTypes
<1>8. Follows'
  <2>1. runner'.probe = Null <=> runner.probe = Null
    BY <1>5, <1>6
  <2> QED  BY <1>1, <1>2, <1>5, <2>1 DEF PipelineInv, Follows
<1>9. Samples'
  <2>1. Flows(gst')
    <3>1. Len(gst'.out) <= gst'.at /\ gst'.at <= FilmLength
      BY <1>1, <1>2, <1>3, <1>g, <1>f, PipelineConstants DEF Flows
    <3> QED  BY <1>3, <1>4, <3>1 DEF Flows
  <2>n. moved => Noted(runner', gst')
    <3>1. CASE told
      BY <1>4, <1>5, <1>6, <3>1 DEF Noted
    <3>2. CASE ~ told
      BY <1>4, <1>5, <1>6, <1>f, <3>2 DEF Noted
    <3> QED  BY <3>1, <3>2
  <2>2. moved /\ Reads(runner, gst) => Reads(runner', gst')
    <3>1. CASE told
      BY <1>5, <1>6, <1>n, <3>1 DEF Reads
    <3>2. CASE ~ told
      BY <1>4, <1>5, <3>2 DEF Reads
    <3> QED  BY <3>1, <3>2
  <2>3. Moving => Moving'
    <3>1. runner'.probe = Null <=> runner.probe = Null
      BY <1>5, <1>6
    <3>2. /\ runner'.probe # Null /\ runner.probe.actual # Null => runner'.probe.actual # Null
          /\ (runner.probe.first => runner.probe.actual # Null)
                => (runner'.probe.first => runner'.probe.actual # Null)
      BY <1>5, <1>n
    <3>3. NextUnit(gst)' = NextUnit(gst)
      BY <1>4 DEF NextUnit
    <3> QED  BY <1>1, <1>5, <3>1, <3>2, <3>3 DEF Moving
  <2>4. Straight' = Straight
    BY <1>1 DEF Straight
  <2>5. Straight => InPlace'
    BY <1>1, <1>2, <1>5, <2>2 DEF PipelineInv, Samples, InPlace, Consecutive, Reads, NextUnit
  <2>6. moved => Noted(runner, gst)'
    BY <2>n, <2>4 DEF Noted, NextUnit
  <2>7. op' = op
    BY <1>1
  <2> QED  BY <1>1, <1>2, <1>5, <2>1, <2>3, <2>4, <2>5, <2>6, <2>7
           DEF PipelineInv, Samples, Consecutive, Flows, NextUnit
<1>10. CuesKept'
  <2> SUFFICES ASSUME AllCues
               PROVE  AllCues'
    BY <1>1 DEF PipelineInv, CuesKept, Whole
  <2>1. ASSUME NEW place \in Nat, NotBefore(gst, place)
        PROVE  NotBefore(gst', place)
    BY <1>1, <1>2, <1>g, <2>1 DEF NotBefore
  <2>2. told /\ moved => NotBefore(gst', gst.at)
    BY <1>2, <1>6, <1>g DEF NotBefore
  <2>3. runner.seekAt \in Nat /\ runner'.seekAt = runner.seekAt
    BY <1>5 DEF PipelineInv, PipelineTypes, Runners
  <2>4. op # Null => op.to \in Nat /\ Landing(op.to) \in Nat
    BY OpIs, LandingIs
  <2>5. (op = Null \/ op.at = "pull") => NotBefore(gst', runner'.seekAt)
    BY <1>1, <2>1, <2>3 DEF AllCues
  <2>6. (op # Null /\ op.at = "arrive") =>
          NotBefore(gst', op.to) /\ (runner'.probe # Null => NotBefore(gst', Landing(op.to)))
    BY <1>1, <1>5, <1>6, <2>1, <2>4 DEF AllCues
  <2>7. (moved /\ runner'.probe # Null /\ runner'.probe.actual # Null /\ runner'.probe.first) =>
          NotBefore(gst', runner'.probe.actual)
    <3>1. CASE told
      BY <1>5, <2>2, <3>1
    <3>2. CASE ~ told
      <4>1. runner.probe # Null /\ runner.probe.actual # Null => runner.probe.actual \in Nat
        <5>1. runner.probe \in Probe \cup {Null}
          BY DEF PipelineInv, PipelineTypes, Runners
        <5> QED  BY <5>1 DEF Probe
      <4> QED  BY <1>1, <1>5, <2>1, <3>2, <4>1 DEF AllCues
    <3> QED  BY <3>1, <3>2
  <2>8. ASSUME NEW c \in Cues, c.start \in NextUnit(gst') .. gst'.at - 1
        PROVE  c \in gst'.subs \cup Current.cues
    <3>1. c.start = gst.at \/ c.start \in NextUnit(gst) .. gst.at - 1
      BY <1>2, <1>4, <1>g, <2>8, PipelineConstants
    <3> QED  BY <1>1, <1>2, <3>1 DEF AllCues
  <2>9. /\ Current' = Current
        /\ published # 0 => /\ Current.cues \subseteq Cues
                            /\ \A c \in Cues : c.start \in reads => c \in Current.cues
    BY <1>1 DEF AllCues, Current
  <2> QED  BY <1>1, <1>2, <2>5, <2>6, <2>7, <2>8, <2>9 DEF AllCues, NotBefore, NextUnit, Landing
<1> QED  BY <1>1, <1>7, <1>8, <1>9, <1>10, QuietWaits DEF PipelineInv

(* What releases everything. *)

LEMMA ReleaseIs ==
    ASSUME PipelineInv, Release
    PROVE  /\ published' = 0 /\ stores' \in Seq(Stores) /\ StoresGrow
           /\ published' \in 0 .. Len(stores')
<1>0. stores \in Seq(Stores) /\ published \in 0 .. Len(stores) /\ published' = 0
  BY DEF PipelineInv, PipelineTypes, Release
<1>t. \A k \in 1 .. Len(stores) : stores[k] \in Stores
  BY <1>0
<1>1. CASE published = 0
  <2>1. stores' = stores
    BY <1>1 DEF Release
  <2> QED  BY <1>0, <1>1, <1>t, <2>1, MovedIsOrder DEF StoresGrow
<1>2. CASE published # 0
  <2> DEFINE t == [stores[published] EXCEPT !.version = @ + 1]
  <2>0. published \in 1 .. Len(stores)
    BY <1>0, <1>2
  <2>1. t \in Stores /\ Moved(stores[published], t) /\ t.version # stores[published].version
    <3>1. stores[published] \in Stores
      BY <1>t, <2>0
    <3> QED  BY <3>1 DEF Stores, Moved
  <2> HIDE DEF t
  <2>2. stores' = [stores EXCEPT ![published] = t]
    BY <1>2 DEF Release, t
  <2>3. /\ stores' \in Seq(Stores) /\ Len(stores') = Len(stores)
        /\ \A k \in 1 .. Len(stores) : stores'[k] = IF k = published THEN t ELSE stores[k]
    BY <1>0, <2>0, <2>1, <2>2, ReplacedStore
  <2>4. StoresGrow
    BY <1>0, <1>t, <2>0, <2>1, <2>3, MovedIsOrder DEF StoresGrow
  <2> QED  BY <1>0, <2>3, <2>4
<1>3. published' \in 0 .. Len(stores')
  <2>1. Len(stores') \in Nat
    BY <1>1, <1>2
  <2> QED  BY <1>0, <2>1
<1> QED  BY <1>1, <1>2, <1>3

LEMMA FreezeAtKeepsInv ==
    ASSUME PipelineInv, NEW position \in Nat, FreezeAt(position), UNCHANGED cueRequest
    PROVE  PipelineInv'
<1> DEFINE t == [playing |-> FALSE, frozen |-> TRUE, index |-> -1, ready |-> Null,
                 position |-> position, seekAt |-> position, probe |-> Null, reader |-> Null,
                 gone |-> FALSE]
<1>1. runner' = t
  <2> DEFINE d == Discarded(New)
  <2>1. New \in Runners
    BY DEF New, Runners
  <2>2. d \in Runners /\ d.index = -1 /\ d.ready = Null /\ d.playing = New.playing
        /\ d.probe = New.probe /\ d.reader = New.reader /\ d.gone = New.gone
    BY <2>1, DiscardedIs
  <2>3. New.playing = FALSE /\ New.probe = Null /\ New.reader = Null /\ New.gone = FALSE
    BY DEF New
  <2> HIDE DEF d
  <2>4. runner' = [d EXCEPT !.frozen = TRUE, !.position = position, !.seekAt = position]
    BY DEF FreezeAt, d
  <2>5. runner' = [playing |-> d.playing, frozen |-> TRUE, index |-> d.index, ready |-> d.ready,
                   position |-> position, seekAt |-> position, probe |-> d.probe,
                   reader |-> d.reader, gone |-> d.gone]
    BY <2>2, <2>4 DEF Runners
  <2> QED  BY <2>2, <2>3, <2>5
<1>2. t \in Runners
  BY DEF Runners
<1>3. /\ gst' = Null /\ init' = FALSE /\ op' = Null
      /\ published' = 0 /\ stores' \in Seq(Stores) /\ StoresGrow
      /\ published' \in 0 .. Len(stores')
      /\ UNCHANGED <<yielded, reads, strayed>>
  BY ReleaseIs DEF FreezeAt, historyVars
<1>4. PipelineTypes'
  BY <1>1, <1>2, <1>3 DEF PipelineInv, PipelineTypes
<1>5. Follows'
  BY <1>1, <1>3 DEF Follows
<1>6. Samples'
  BY <1>1, <1>3 DEF PipelineInv, Samples, InPlace, Straight, Consecutive
<1>7. CuesKept'
  BY <1>1, <1>3 DEF CuesKept, AllCues
<1> QED  BY <1>3, <1>4, <1>5, <1>6, <1>7, WaitsKept DEF PipelineInv

LEMMA FreezingKeepsInv ==
    ASSUME PipelineInv, Freeze \/ MoveFails \/ PullFails
    PROVE  PipelineInv'
<1>1. CASE Freeze
  <2>1. runner.position \in Nat
    BY DEF PipelineInv, PipelineTypes, Runners
  <2> QED  BY <1>1, <2>1, FreezeAtKeepsInv DEF Freeze
<1>2. CASE MoveFails
  BY <1>2, OpIs, FreezeAtKeepsInv DEF MoveFails
<1>3. CASE PullFails
  <2>1. Start(op.index) \in Nat
    BY <1>3, OpIs, SpansAre DEF PullFails, Doing
  <2> QED  BY <1>3, <2>1, FreezeAtKeepsInv DEF PullFails
<1> QED  BY <1>1, <1>2, <1>3

LEMMA DisposeKeepsPipeline ==
    ASSUME PipelineInv, DisposeRunner
    PROVE  PipelineInv'
<1>1. /\ gst' = Null /\ init' = FALSE /\ op' = Null
      /\ published' = 0 /\ stores' \in Seq(Stores) /\ StoresGrow
      /\ published' \in 0 .. Len(stores')
      /\ UNCHANGED <<yielded, reads, strayed, cueRequest>>
  BY ReleaseIs DEF DisposeRunner, historyVars
<1>2. /\ runner' \in Runners /\ runner'.playing = FALSE /\ runner'.reader = Null
      /\ runner'.probe = Null /\ runner'.gone = TRUE /\ runner'.ready = Null
  <2> DEFINE d == Discarded(runner)
  <2>1. d \in Runners /\ d.ready = Null
    BY DiscardedIs DEF PipelineInv, PipelineTypes
  <2> HIDE DEF d
  <2>2. runner' = [d EXCEPT !.playing = FALSE, !.reader = Null, !.probe = Null, !.gone = TRUE]
    BY DEF DisposeRunner, d
  <2>3. runner' = [playing |-> FALSE, frozen |-> d.frozen, index |-> d.index, ready |-> d.ready,
                   position |-> d.position, seekAt |-> d.seekAt, probe |-> Null, reader |-> Null,
                   gone |-> TRUE]
    BY <2>1, <2>2 DEF Runners
  <2> QED  BY <2>1, <2>3 DEF Runners
<1>3. PipelineTypes'
  BY <1>1, <1>2 DEF PipelineInv, PipelineTypes
<1>4. Follows'
  BY <1>1, <1>2 DEF Follows
<1>5. Samples'
  BY <1>1, <1>2 DEF PipelineInv, Samples, InPlace, Straight, Consecutive
<1>6. CuesKept'
  BY <1>1, <1>2 DEF CuesKept, AllCues
<1> QED  BY <1>1, <1>3, <1>4, <1>5, <1>6, WaitsKept DEF PipelineInv

(* An operation begins, and goes on once the pipeline is where it should be. *)

\* What a list of stores may become: their cues stay, and who waits is told.
Becomes(before, after) ==
    /\ after \in Seq(Stores) /\ Len(before) <= Len(after)
    /\ \A k \in 1 .. Len(before) :
         Moved(before[k], after[k]) /\ after[k].cues = before[k].cues

LEMMA ChangedStore ==
    ASSUME NEW list \in Seq(Stores), NEW n \in 1 .. Len(list), NEW t \in Stores,
           Moved(list[n], t), t.cues = list[n].cues
    PROVE  Becomes(list, [list EXCEPT ![n] = t]) /\ Len([list EXCEPT ![n] = t]) = Len(list)
<1> DEFINE after == [list EXCEPT ![n] = t]
<1>1. /\ after \in Seq(Stores) /\ Len(after) = Len(list)
      /\ \A k \in 1 .. Len(list) : after[k] = IF k = n THEN t ELSE list[k]
  BY ReplacedStore
<1>2. \A k \in 1 .. Len(list) : list[k] \in Stores
  OBVIOUS
<1> HIDE DEF after
<1>3. \A k \in 1 .. Len(list) : Moved(list[k], after[k]) /\ after[k].cues = list[k].cues
  BY <1>1, <1>2, MovedIsOrder
<1> QED  BY <1>1, <1>3 DEF Becomes, after

LEMMA BecomesIsOrder ==
    ASSUME NEW a \in Seq(Stores), NEW b \in Seq(Stores), NEW c \in Seq(Stores)
    PROVE  Becomes(a, a) /\ (Becomes(a, b) /\ Becomes(b, c) => Becomes(a, c))
<1>1. \A k \in 1 .. Len(a) : a[k] \in Stores
  OBVIOUS
<1>2. Becomes(a, a)
  BY <1>1, MovedIsOrder DEF Becomes
<1>3. ASSUME Becomes(a, b), Becomes(b, c)
      PROVE  Becomes(a, c)
  <2>1. Len(a) <= Len(c) /\ Len(a) <= Len(b)
    BY <1>3 DEF Becomes
  <2>2. ASSUME NEW k \in 1 .. Len(a)
        PROVE  Moved(a[k], c[k]) /\ c[k].cues = a[k].cues
    <3>1. k \in 1 .. Len(b) /\ k \in 1 .. Len(c)
      BY <2>1
    <3>2. a[k] \in Stores /\ b[k] \in Stores /\ c[k] \in Stores
      BY <3>1
    <3> QED  BY <1>3, <3>1, <3>2, MovedIsOrder DEF Becomes
  <2> QED  BY <2>1, <2>2 DEF Becomes
<1> QED  BY <1>2, <1>3

LEMMA ProgressIs ==
    ASSUME NEW list \in Seq(Stores), NEW n \in 1 .. Len(list), NEW position \in Nat
    PROVE  /\ Becomes(list, ProgressAt(list, n, position))
           /\ Len(ProgressAt(list, n, position)) = Len(list)
<1>1. list[n] \in Stores
  OBVIOUS
<1> QED  BY <1>1, SetReadToIs, ChangedStore DEF ProgressAt

LEMMA CompletedIs ==
    ASSUME NEW list \in Seq(Stores), NEW n \in 1 .. Len(list), NEW index \in Segments,
           NEW rn, rn.ready \in MediaSegment
    PROVE  /\ Becomes(list, Completed(list, n, rn, index))
           /\ Len(Completed(list, n, rn, index)) = Len(list)
<1> DEFINE value == Greater(To(index), rn.ready.start + Len(rn.ready.content))
<1>1. value \in Nat
  <2>1. rn.ready.start \in Nat /\ Len(rn.ready.content) \in Nat
    BY DEF MediaSegment
  <2> QED  BY <2>1, SpansAre DEF Greater
<1>2. list[n] \in Stores
  OBVIOUS
<1> HIDE DEF value
<1>3. Completed(list, n, rn, index) = [list EXCEPT ![n] = Advance(list[n], value)]
  BY DEF Completed, value
<1> DEFINE t == Advance(list[n], value)
<1>4. t \in Stores /\ t.cues = list[n].cues /\ Moved(list[n], t)
  BY <1>1, <1>2, AdvanceIs
<1>5. Completed(list, n, rn, index) = [list EXCEPT ![n] = t]
  BY <1>3
<1> HIDE DEF t
<1>6. Becomes(list, [list EXCEPT ![n] = t]) /\ Len([list EXCEPT ![n] = t]) = Len(list)
  BY <1>4, ChangedStore
<1> QED  BY <1>5, <1>6

LEMMA KeptIs ==
    ASSUME PipelineInv
    PROVE  /\ KeptStores \in Seq(Stores) /\ KeptNumber \in 1 .. Len(KeptStores)
           /\ Becomes(stores, KeptStores)
           /\ published # 0 => KeptNumber = published /\ KeptStores = stores
           /\ published = 0 => KeptStores[KeptNumber].cues = {}
<1>0. stores \in Seq(Stores) /\ published \in 0 .. Len(stores)
  BY DEF PipelineInv, PipelineTypes
<1>t. \A k \in 1 .. Len(stores) : stores[k] \in Stores
  BY <1>0
<1>1. CASE published # 0
  BY <1>0, <1>1, BecomesIsOrder DEF KeptStores, KeptNumber
<1>2. CASE published = 0
  <2> DEFINE longer == Append(stores, NewStore)
  <2>1. NewStore \in Stores /\ NewStore.cues = {}
    BY DEF NewStore, Stores
  <2>2. longer \in Seq(Stores) /\ Len(longer) = Len(stores) + 1
        /\ longer[Len(stores) + 1] = NewStore
        /\ \A k \in 1 .. Len(stores) : longer[k] = stores[k]
    BY <1>0, <2>1
  <2>3. KeptStores = longer /\ KeptNumber = Len(stores) + 1
    BY <1>2 DEF KeptStores, KeptNumber
  <2> HIDE DEF longer
  <2>4. Becomes(stores, longer)
    BY <1>0, <1>t, <2>2, MovedIsOrder DEF Becomes
  <2>5. Len(stores) + 1 \in 1 .. Len(longer)
    BY <1>0, <2>2
  <2> QED  BY <1>2, <2>1, <2>2, <2>3, <2>4, <2>5
<1> QED  BY <1>1, <1>2

LEMMA BecomingGrows ==
    ASSUME PipelineInv, Becomes(stores, stores'), published # 0 => published' = published
    PROVE  StoresGrow /\ stores' \in Seq(Stores)
<1>1. published \in Nat
  BY DEF PipelineInv, PipelineTypes
<1> QED  BY <1>1 DEF Becomes, StoresGrow

LEMMA ContinuesIs ==
    ASSUME NEW rn \in Runners, NEW list \in Seq(Stores), NEW n \in 1 .. Len(list),
           NEW is \in {"init", "segment", "seek"}, NEW index \in Segments,
           Continues(rn, list, n, is, index)
    PROVE  /\ runner' \in Runners /\ runner'.ready \in {rn.ready, Null}
           /\ runner'.playing = rn.playing /\ runner'.frozen = rn.frozen
           /\ runner'.gone = rn.gone /\ runner'.probe = rn.probe
           /\ runner'.reader = rn.reader /\ runner'.seekAt = rn.seekAt
           /\ op' = Null \/ (op' \in Operation /\ op' # Null /\ op'.at = "pull")
           /\ Becomes(list, stores') /\ Len(stores') = Len(list)
<1>s. Becomes(list, list)
  BY BecomesIsOrder
<1>1. CASE runner' = rn /\ op' = Null /\ stores' = list
  BY <1>1, <1>s
<1>2. CASE /\ is = "init" /\ init /\ rn.ready # Null
           /\ runner' = [rn EXCEPT !.index = index] /\ op' = Null
           /\ stores' = Completed(list, n, rn, index)
  <2>1. rn.ready \in MediaSegment
    BY <1>2 DEF Runners
  <2>2. index \in Int
    BY SpansAre
  <2>3. /\ runner' \in Runners /\ runner'.ready = rn.ready
        /\ runner'.playing = rn.playing /\ runner'.frozen = rn.frozen
        /\ runner'.gone = rn.gone /\ runner'.probe = rn.probe
        /\ runner'.reader = rn.reader /\ runner'.seekAt = rn.seekAt
    BY <1>2, <2>2 DEF Runners
  <2> QED  BY <1>2, <2>1, <2>3, CompletedIs
<1>3. CASE /\ runner' \in {rn, Discarded(rn)} /\ stores' = list
           /\ op' = [is |-> is, index |-> index, to |-> 0, via |-> "", at |-> "pull"]
  <2>1. op' \in Operation /\ op'.at = "pull"
    BY <1>3 DEF Operation
  <2>2. /\ runner' \in Runners /\ runner'.ready \in {rn.ready, Null}
        /\ runner'.playing = rn.playing /\ runner'.frozen = rn.frozen
        /\ runner'.gone = rn.gone /\ runner'.probe = rn.probe
        /\ runner'.reader = rn.reader /\ runner'.seekAt = rn.seekAt
    BY <1>3, DiscardedIs
  <2> QED  BY <1>3, <1>s, <2>1, <2>2, NullIs
<1>4. CASE is = "seek"
  BY <1>1, <1>4 DEF Continues
<1>5. CASE is = "init" /\ init /\ rn.ready # Null
  BY <1>2, <1>5 DEF Continues
<1>6. CASE is = "init" /\ init /\ rn.ready = Null
  BY <1>1, <1>6 DEF Continues
<1>7. CASE is = "segment" /\ rn.index = index /\ rn.ready # Null
  BY <1>1, <1>7 DEF Continues
<1>8. CASE /\ is # "seek" /\ ~ (is = "init" /\ init)
           /\ ~ (is = "segment" /\ rn.index = index /\ rn.ready # Null)
  BY <1>3, <1>8 DEF Continues
<1> QED  BY <1>4, <1>5, <1>6, <1>7, <1>8

LEMMA GoesOn ==
    ASSUME PipelineInv, NEW rn \in Runners, NEW list \in Seq(Stores),
           NEW is \in {"init", "segment", "seek"}, NEW index \in Segments,
           Continues(rn, list, published, is, index), Becomes(stores, list),
           gst # Null, gst' \in State, gst' # Null,
           gst'.at = gst.at, gst'.out = gst.out, gst'.subs = gst.subs,
           UNCHANGED <<init, published, cueRequest, yielded, reads, strayed>>,
           op = Null \/ op.at = "arrive",
           rn.playing, ~ rn.frozen, ~ rn.gone, rn.reader # Null, rn.probe = runner.probe,
           Straight => Consecutive(rn.reader.got, rn.reader.offset),
           Straight => (rn.ready # Null => Consecutive(rn.ready.content, rn.ready.start)),
           Straight => Reads(rn, gst), Whole => NotBefore(gst, rn.seekAt)
    PROVE  PipelineInv'
<1>0. published # 0 /\ published \in 1 .. Len(stores) /\ stores \in Seq(Stores)
      /\ published \in 1 .. Len(list)
  BY DEF PipelineInv, PipelineTypes, Follows, Becomes
<1>1. /\ runner' \in Runners /\ runner'.ready \in {rn.ready, Null}
      /\ runner'.playing = rn.playing /\ runner'.frozen = rn.frozen
      /\ runner'.gone = rn.gone /\ runner'.probe = rn.probe
      /\ runner'.reader = rn.reader /\ runner'.seekAt = rn.seekAt
      /\ op' = Null \/ (op' \in Operation /\ op' # Null /\ op'.at = "pull")
      /\ Becomes(list, stores') /\ Len(stores') = Len(list)
  BY <1>0, ContinuesIs
<1>2. Becomes(stores, stores') /\ stores' \in Seq(Stores)
  <2>1. stores' \in Seq(Stores)
    BY <1>1 DEF Becomes
  <2> QED  BY <1>0, <1>1, <2>1, BecomesIsOrder
<1>3. published \in 1 .. Len(stores') /\ stores'[published].cues = stores[published].cues
  BY <1>0, <1>2 DEF Becomes
<1>4. PipelineTypes'
  BY <1>1, <1>2, <1>3 DEF PipelineInv, PipelineTypes
<1>5. Follows'
  BY <1>0, <1>1 DEF PipelineInv, Follows
<1>f. Flows(gst) /\ Noted(runner, gst)
  BY DEF PipelineInv, Samples
<1>s. Straight' = Straight /\ Whole' = Whole
  BY DEF Straight, Whole
<1>6. Samples'
  <2>1. Flows(gst') /\ Noted(runner, gst)'
    BY <1>1, <1>f, <1>s DEF Flows, Noted, NextUnit
  <2>2. Straight => InPlace'
    <3> SUFFICES ASSUME Straight
                 PROVE  InPlace'
      OBVIOUS
    <3>1. Reads(runner', gst')
      BY <1>1 DEF Reads, NextUnit
    <3>2. runner'.reader # Null => Consecutive(runner'.reader.got, runner'.reader.offset)
      BY <1>1
    <3>3. runner'.ready # Null => Consecutive(runner'.ready.content, runner'.ready.start)
      BY <1>1
    <3>4. yielded' # Null => Consecutive(yielded'.content, yielded'.start)
      BY DEF PipelineInv, Samples, InPlace
    <3> QED  BY <3>1, <3>2, <3>3, <3>4 DEF InPlace, Reads, Consecutive, NextUnit
  <2> QED  BY <1>1, <1>s, <2>1, <2>2 DEF Samples, Flows, Consecutive, NextUnit
<1>7. CuesKept'
  <2> SUFFICES ASSUME Whole, AllCues
               PROVE  AllCues'
    BY <1>s DEF PipelineInv, CuesKept
  <2>1. NotBefore(gst', runner'.seekAt)
    BY <1>1 DEF NotBefore
  <2>2. (runner'.probe # Null /\ runner'.probe.actual # Null /\ runner'.probe.first)
          => NotBefore(gst', runner'.probe.actual)
    BY <1>1 DEF AllCues, NotBefore
  <2>3. /\ stores'[published].cues \subseteq Cues
        /\ \A c \in Cues : c.start \in reads' => c \in stores'[published].cues
    BY <1>0, <1>3 DEF AllCues, Current
  <2>4. \A c \in Cues : c.start \in NextUnit(gst') .. gst'.at - 1
                          => c \in gst'.subs \cup stores'[published].cues
    BY <1>3 DEF AllCues, Current, NextUnit
  <2> QED  BY <1>1, <2>1, <2>2, <2>3, <2>4 DEF AllCues, NotBefore, Current, NextUnit
<1>8. \A r \in Readers : CueWaits(r)'
  BY <1>2, BecomingGrows, WaitsKept
<1> QED  BY <1>4, <1>5, <1>6, <1>7, <1>8 DEF PipelineInv

LEMMA ArriveKeepsInv ==
    ASSUME PipelineInv, Arrive
    PROVE  PipelineInv'
<1>1. op # Null /\ op.at = "arrive" /\ gst # Null /\ published # 0 /\ ~ runner.gone
      /\ UNCHANGED <<init, published, cueRequest, yielded, reads, strayed>>
  BY DEF Arrive, Doing, PipelineInv, Follows, historyVars
<1>2. PICK actual \in IF runner.probe = Null THEN {op.to} ELSE {op.to, Landing(op.to)} :
        LET rn == IF op.via = "seek"
                  THEN [At(runner, actual) EXCEPT !.playing = TRUE, !.frozen = FALSE]
                  ELSE IF op.to > 0 THEN At(runner, actual) ELSE runner
        IN  Continues(rn, ProgressAt(stores, published, actual), published, op.is, op.index)
  BY DEF Arrive
<1> DEFINE rn == IF op.via = "seek"
                 THEN [At(runner, actual) EXCEPT !.playing = TRUE, !.frozen = FALSE]
                 ELSE IF op.to > 0 THEN At(runner, actual) ELSE runner
           list == ProgressAt(stores, published, actual)
<1>c. Continues(rn, list, published, op.is, op.index)
  BY <1>2
<1>3. actual \in Nat /\ op.to \in Nat /\ op.index \in Segments /\ op.is \in {"init", "segment", "seek"}
      /\ runner \in Runners /\ stores \in Seq(Stores) /\ published \in 1 .. Len(stores)
  BY <1>1, <1>2, OpIs, LandingIs DEF PipelineInv, PipelineTypes
<1>4. list \in Seq(Stores) /\ Becomes(stores, list)
  BY <1>3, ProgressIs DEF Becomes
<1>m. Moving
  BY <1>1 DEF PipelineInv, Samples
<1>5. /\ rn \in Runners /\ rn.playing /\ ~ rn.frozen /\ ~ rn.gone /\ rn.probe = runner.probe
      /\ rn.ready = runner.ready
      /\ rn.reader = [offset |-> rn.seekAt, got |-> <<>>]
      /\ rn.seekAt = actual
  <2> DEFINE a == At(runner, actual)
  <2>1. /\ a \in Runners /\ a.reader = [offset |-> actual, got |-> <<>>] /\ a.seekAt = actual
        /\ a.playing = runner.playing /\ a.frozen = runner.frozen /\ a.ready = runner.ready
        /\ a.probe = runner.probe /\ a.gone = runner.gone
    BY <1>3, AtIs
  <2>2. op.via = "seek" \/ op.via = "start"
    BY <1>m DEF Moving
  <2> HIDE DEF a
  <2>3. CASE op.via = "seek"
    <3> DEFINE b == [a EXCEPT !.playing = TRUE, !.frozen = FALSE]
    <3>0. b = [a EXCEPT !.playing = TRUE, !.frozen = FALSE]
      OBVIOUS
    <3>3. rn = b
      BY <2>3 DEF a
    <3> HIDE DEF b, rn
    <3>1. b = [playing |-> TRUE, frozen |-> FALSE, index |-> a.index, ready |-> a.ready,
               position |-> a.position, seekAt |-> a.seekAt, probe |-> a.probe,
               reader |-> a.reader, gone |-> a.gone]
      BY <2>1, <3>0 DEF Runners
    <3>2. b \in Runners
      BY <2>1, <3>1 DEF Runners
    <3> QED  BY <1>1, <2>1, <3>1, <3>2, <3>3
  <2>4. CASE op.via = "start"
    <3>1. runner.playing /\ ~ runner.frozen
      BY <1>1, <2>4 DEF PipelineInv, Follows
    <3>2. CASE op.to > 0
      <4>1. rn = a
        BY <2>4, <3>2 DEF a
      <4> HIDE DEF rn
      <4> QED  BY <1>1, <2>1, <3>1, <4>1
    <3>3. CASE ~ (op.to > 0)
      <4>1. op.to = 0 /\ runner.seekAt = 0 /\ runner.probe = Null
            /\ runner.reader = [offset |-> 0, got |-> <<>>]
        BY <1>3, <1>m, <2>4, <3>3 DEF Moving
      <4>2. actual = 0
        BY <1>2, <4>1
      <4>3. rn = runner
        BY <2>4, <3>3
      <4> HIDE DEF rn
      <4> QED  BY <1>1, <1>3, <3>1, <4>1, <4>2, <4>3
    <3> QED  BY <3>2, <3>3
  <2> QED  BY <2>2, <2>3, <2>4
<1>6. gst' \in State /\ gst' # Null /\ gst'.at = gst.at /\ gst'.out = gst.out
      /\ gst'.subs = gst.subs
  <2>1. gst' = [gst EXCEPT !.playing = TRUE]
    BY DEF Arrive
  <2>2. gst' = [playing |-> TRUE, at |-> gst.at, out |-> gst.out, subs |-> gst.subs,
                bus |-> gst.bus, eos |-> gst.eos]
    BY <1>1, <2>1, GstIs DEF State
  <2>3. gst' \in State
    BY <1>1, <2>2, GstIs DEF State
  <2> QED  BY <2>2, <2>3, NullIs
<1> HIDE DEF rn, list
<1>7. rn.reader # Null /\ Consecutive(rn.reader.got, rn.reader.offset)
  <2>1. [offset |-> actual, got |-> <<>>] \in Reader
    BY <1>3 DEF Reader
  <2> QED  BY <1>5, <2>1, NullIs DEF Consecutive
<1>8. Reads(rn, gst)
  <2>1. CASE runner.probe = Null
    <3>1. op.to = 0 /\ NextUnit(gst) = 0 /\ actual = 0
      BY <1>1, <1>2, <1>m, <2>1 DEF Moving
    <3>2. rn.reader.offset = 0 /\ rn.reader.got = <<>> /\ Len(rn.reader.got) = 0
      BY <1>5, <3>1
    <3>3. rn.reader.offset + Len(rn.reader.got) = 0 + 0
      BY <3>2
    <3> QED  BY <1>5, <2>1, <3>1, <3>3 DEF Reads
  <2>2. CASE runner.probe # Null
    <3>1. runner.probe.actual # Null
      BY <1>1, <1>m, <2>2 DEF Moving
    <3> QED  BY <1>5, <2>2, <3>1 DEF Reads
  <2> QED  BY <2>1, <2>2
<1>9. Whole => NotBefore(gst, rn.seekAt)
  BY <1>1, <1>2, <1>5 DEF PipelineInv, CuesKept, AllCues
<1>10. Straight => (rn.ready # Null => Consecutive(rn.ready.content, rn.ready.start))
  BY <1>5 DEF PipelineInv, Samples, InPlace
<1> QED  BY <1>c, <1>1, <1>3, <1>4, <1>5, <1>6, <1>7, <1>8, <1>9, <1>10, GoesOn

LEMMA MovedRunnerIs ==
    ASSUME PipelineInv, op = Null, ~ runner.gone,
           NEW is \in {"init", "segment", "seek"}, NEW index \in Segments, NEW to \in Nat,
           NEW via \in {"seek", "start"}, via = "start" => ~ runner.playing /\ ~ runner.frozen,
           Moves(Ensured(runner), is, index, to, via)
    PROVE  /\ runner' \in Runners /\ runner'.ready = Null /\ ~ runner'.gone
           /\ runner'.reader = [offset |-> to, got |-> <<>>] /\ runner'.probe = runner.probe
           /\ via = "start" => runner'.playing /\ ~ runner'.frozen /\ runner'.seekAt = to
<1> DEFINE rn == Ensured(runner)
<1>0. runner \in Runners
  BY DEF PipelineInv, PipelineTypes
<1>1. /\ rn \in Runners /\ rn.ready = runner.ready /\ rn.gone = runner.gone
      /\ rn.frozen = runner.frozen
      /\ rn.probe = runner.probe /\ rn.seekAt = runner.seekAt
      /\ rn.reader = IF runner.reader = Null THEN NoReader ELSE runner.reader
  BY <1>0, EnsuredIs
<1>m. Moves(rn, is, index, to, via)
  OBVIOUS
<1>r. via = "start" => runner.reader = NoReader /\ runner.seekAt = 0 /\ runner.ready = Null
  BY DEF PipelineInv, Samples
<1> HIDE DEF rn
<1>2. CASE via = "seek"
  <2> DEFINE d == Discarded(rn)
  <2>1. /\ d \in Runners /\ d.ready = Null /\ d.gone = rn.gone /\ d.probe = rn.probe
    BY <1>1, DiscardedIs
  <2>2. runner' = IF gst # Null THEN At(d, to)
                  ELSE [d EXCEPT !.reader = [NoReader EXCEPT !.offset = to]]
    BY <1>2, <1>m DEF Moves
  <2> HIDE DEF d
  <2>3. CASE gst # Null
    BY <1>1, <1>2, <2>1, <2>2, <2>3, AtIs
  <2>4. CASE gst = Null
    BY <1>1, <1>2, <2>1, <2>2, <2>4, PlacedReader
  <2> QED  BY <2>3, <2>4
<1>3. CASE via = "start"
  <2> DEFINE p == [rn EXCEPT !.playing = TRUE]
  <2>1. /\ p \in Runners /\ p.ready = rn.ready /\ p.gone = rn.gone /\ p.probe = rn.probe
        /\ p.playing = TRUE /\ p.frozen = rn.frozen /\ p.reader = rn.reader
        /\ p.seekAt = rn.seekAt
    BY <1>1 DEF Runners
  <2>2. runner' = IF to > 0 THEN At(p, to) ELSE p
    BY <1>3, <1>m DEF Moves
  <2> HIDE DEF p
  <2>3. CASE to > 0
    BY <1>1, <1>3, <1>r, <2>1, <2>2, <2>3, AtIs
  <2>4. CASE ~ (to > 0)
    <3>1. to = 0
      BY <2>4
    <3>2. runner.reader = NoReader /\ runner.seekAt = 0
      BY <1>3, <1>r
    <3> QED  BY <1>1, <1>3, <1>r, <2>1, <2>2, <2>4, <3>1, <3>2 DEF NoReader
  <2> QED  BY <2>3, <2>4
<1> QED  BY <1>2, <1>3

LEMMA MovesKeepInv ==
    ASSUME PipelineInv, op = Null, ~ runner.gone,
           NEW is \in {"init", "segment", "seek"}, NEW index \in Segments, NEW to \in Nat,
           NEW via \in {"seek", "start"}, via = "start" => ~ runner.playing /\ ~ runner.frozen,
           Moves(Ensured(runner), is, index, to, via),
           published' = KeptNumber, reads' = IF published = 0 THEN {} ELSE reads,
           UNCHANGED <<init, cueRequest>>
    PROVE  PipelineInv'
<1> DEFINE at == IF gst = Null THEN "launch" ELSE "seek"
<1>h. /\ yielded' = Null
      /\ strayed' = IF published = 0 THEN "never" ELSE IF strayed = "now" THEN "before" ELSE strayed
  BY DEF Moves
<1>1. /\ runner' \in Runners /\ runner'.ready = Null /\ ~ runner'.gone
      /\ runner'.reader = [offset |-> to, got |-> <<>>] /\ runner'.probe = runner.probe
      /\ via = "start" => runner'.playing /\ ~ runner'.frozen /\ runner'.seekAt = to
  BY MovedRunnerIs
<1>2. /\ op' \in Operation /\ op' # Null /\ op'.at = at /\ op'.to = to /\ op'.via = via
  <2> DEFINE o == [is |-> is, index |-> index, to |-> to, via |-> via, at |-> at]
  <2>1. o \in Operation /\ o.at = at /\ o.to = to /\ o.via = via
    BY DEF Operation
  <2>2. op' = o
    BY DEF Moves
  <2> HIDE DEF o
  <2> QED  BY <2>1, <2>2, NullIs
<1>3. IF gst = Null THEN gst' = Null
      ELSE gst' \in State /\ gst' # Null /\ gst'.at = gst.at /\ gst'.out = gst.out
           /\ gst'.subs = gst.subs
  <2>1. CASE gst # Null
    <3>1. gst' = [gst EXCEPT !.playing = FALSE]
      BY <2>1 DEF Moves
    <3>2. gst' = [playing |-> FALSE, at |-> gst.at, out |-> gst.out, subs |-> gst.subs,
                  bus |-> gst.bus, eos |-> gst.eos]
      BY <2>1, <3>1, GstIs DEF State
    <3>3. gst' \in State
      BY <2>1, <3>2, GstIs DEF State
    <3> QED  BY <2>1, <3>2, <3>3, NullIs
  <2>2. CASE gst = Null
    BY <2>2 DEF Moves
  <2> QED  BY <2>1, <2>2
<1>4. /\ KeptStores \in Seq(Stores) /\ KeptNumber \in 1 .. Len(KeptStores)
      /\ Becomes(stores, KeptStores)
      /\ published # 0 => KeptNumber = published /\ KeptStores = stores
      /\ published = 0 => KeptStores[KeptNumber].cues = {}
      /\ stores \in Seq(Stores) /\ published \in 0 .. Len(stores)
  BY KeptIs DEF PipelineInv, PipelineTypes
<1>5. Becomes(KeptStores, stores') /\ Len(stores') = Len(KeptStores)
  <2>1. CASE via = "seek"
    <3>1. stores' = ProgressAt(KeptStores, KeptNumber, to)
      BY <2>1 DEF Moves
    <3> QED  BY <1>4, <3>1, ProgressIs
  <2>2. CASE via # "seek"
    <3>1. stores' = KeptStores
      BY <2>2 DEF Moves
    <3> QED  BY <1>4, <3>1, BecomesIsOrder
  <2> QED  BY <2>1, <2>2
<1>6. Becomes(stores, stores') /\ stores' \in Seq(Stores)
  <2>1. stores' \in Seq(Stores)
    BY <1>5 DEF Becomes
  <2> QED  BY <1>4, <1>5, <2>1, BecomesIsOrder
<1>7. published' # 0 /\ published' \in 1 .. Len(stores')
      /\ (published # 0 => published' = published)
  BY <1>4, <1>5
<1>8. /\ [offset |-> to, got |-> <<>>] # Null
      /\ Consecutive(<<>>, to)
  <2>1. [offset |-> to, got |-> <<>>] \in Reader
    BY DEF Reader
  <2> QED  BY <2>1, NullIs DEF Consecutive
<1>f. /\ gst = Null => runner.probe = Null /\ ~ init
      /\ runner.playing <=> gst # Null
      /\ gst # Null => published # 0
  BY DEF PipelineInv, Follows
<1>9. PipelineTypes'
  <2>1. gst' \in State \cup {Null}
    BY <1>3
  <2>2. strayed' \in {"never", "before", "now"}
    BY <1>h DEF PipelineInv, PipelineTypes
  <2> QED  BY <1>1, <1>2, <1>6, <1>7, <1>h, <2>1, <2>2 DEF PipelineInv, PipelineTypes
<1>10. Follows'
  BY <1>1, <1>2, <1>3, <1>7, <1>8, <1>f DEF Follows
<1>11. Samples'
  <2>1. runner'.reader # Null => Consecutive(runner'.reader.got, runner'.reader.offset)
    BY <1>1, <1>8
  <2>2. op' # Null /\ op'.at # "pull" /\ op'.at # "arrive" /\ op'.at # "flush"
    BY <1>2
  <2>3. gst' # Null => Flows(gst')
    <3>1. gst # Null => Flows(gst)
      BY DEF PipelineInv, Samples
    <3> QED  BY <1>3, <3>1 DEF Flows, NextUnit
  <2>4. Moving'
    BY <1>1, <1>2, <1>f, <2>2 DEF Moving
  <2>5. InPlace'
    BY <1>1, <1>h, <2>1, <2>2 DEF InPlace, Consecutive
  <2> QED  BY <2>2, <2>3, <2>4, <2>5 DEF Samples, Flows, Consecutive, NextUnit
<1>12. CuesKept'
  <2> SUFFICES ASSUME Whole'
               PROVE  AllCues'
    BY DEF CuesKept
  <2>1. op' # Null /\ op'.at # "pull" /\ op'.at # "arrive"
    BY <1>2
  <2>2. CASE published = 0
    <3>1. gst' = Null /\ reads' = {}
      BY <1>3, <1>f, <2>2
    <3>2. stores'[published'].cues = {}
      BY <1>4, <1>5, <2>2 DEF Becomes
    <3> QED  BY <3>1, <3>2 DEF AllCues, Current
  <2>3. CASE published # 0
    <3>1. AllCues
      BY <1>h, <2>3 DEF Whole, PipelineInv, CuesKept
    <3>2. stores'[published'].cues = Current.cues /\ reads' = reads
      BY <1>4, <1>6, <1>7, <2>3 DEF Becomes, Current
    <3>3. gst' # Null => \A c \in Cues : c.start \in NextUnit(gst') .. gst'.at - 1
                            => c \in gst'.subs \cup stores'[published'].cues
      BY <1>3, <3>1, <3>2 DEF AllCues, NextUnit
    <3> QED  BY <2>1, <2>3, <3>1, <3>2, <3>3 DEF AllCues, Current, NextUnit
  <2> QED  BY <2>2, <2>3
<1>13. \A r \in Readers : CueWaits(r)'
  BY <1>6, <1>7, BecomingGrows, WaitsKept
<1> QED  BY <1>9, <1>10, <1>11, <1>12, <1>13 DEF PipelineInv

LEMMA BeginKeepsInv ==
    ASSUME PipelineInv, NEW is \in {"init", "segment", "seek"}, NEW index \in Segments,
           BeginOperation(is, index)
    PROVE  PipelineInv'
<1> DEFINE rn == Ensured(runner)
<1>0. /\ op = Null /\ ~ runner.gone /\ published' = KeptNumber
      /\ reads' = IF published = 0 THEN {} ELSE reads
      /\ UNCHANGED <<init, cueRequest>>
  BY DEF BeginOperation
<1>t. runner \in Runners /\ Start(index) \in Nat
  BY SpansAre DEF PipelineInv, PipelineTypes
<1>1. /\ rn \in Runners /\ rn.ready = runner.ready /\ rn.gone = runner.gone
      /\ rn.frozen = runner.frozen /\ rn.playing = runner.playing
      /\ rn.position = runner.position
      /\ rn.probe = runner.probe /\ rn.seekAt = runner.seekAt
      /\ rn.reader = IF runner.reader = Null THEN NoReader ELSE runner.reader
  BY <1>t, EnsuredIs
<1>p. rn.position \in Nat
  BY <1>1 DEF Runners
<1>2. CASE Moves(rn, is, index, Start(index), "seek")
  BY <1>0, <1>2, <1>t, MovesKeepInv
<1>3. CASE Moves(rn, is, index, rn.position, "seek")
  BY <1>0, <1>3, <1>p, MovesKeepInv
<1>4. CASE ~ rn.playing /\ ~ rn.frozen /\ Moves(rn, is, index, Start(index), "start")
  BY <1>0, <1>1, <1>4, <1>t, MovesKeepInv
<1>5. CASE /\ rn.playing /\ ~ rn.frozen
           /\ Continues(rn, KeptStores, KeptNumber, is, index)
           /\ UNCHANGED <<gst, yielded, strayed>>
  <2>1. gst # Null /\ published # 0
    BY <1>0, <1>1, <1>5 DEF PipelineInv, Follows
  <2>2. KeptStores = stores /\ KeptNumber = published /\ reads' = reads /\ published' = published
    BY <1>0, <2>1, KeptIs
  <2>3. rn = runner /\ runner.reader # Null
    BY <2>1 DEF Ensured, PipelineInv, Follows
  <2>4. stores \in Seq(Stores) /\ Becomes(stores, stores)
    BY BecomesIsOrder DEF PipelineInv, PipelineTypes
  <2>5. /\ Straight => /\ Consecutive(runner.reader.got, runner.reader.offset)
                       /\ runner.ready # Null => Consecutive(runner.ready.content, runner.ready.start)
                       /\ Reads(runner, gst)
        /\ Whole => NotBefore(gst, runner.seekAt)
    BY <1>0, <2>1, <2>3 DEF PipelineInv, Samples, InPlace, CuesKept, AllCues
  <2>6. gst' \in State /\ gst' = gst
    BY <1>5, <2>1, GstIs
  <2>7. Continues(runner, stores, published, is, index)
    BY <1>5, <2>2, <2>3
  <2>8. runner.playing /\ ~ runner.frozen
    BY <1>1, <1>5
  <2> HIDE DEF rn
  <2>9. UNCHANGED <<init, published, cueRequest, yielded, reads, strayed>>
    BY <1>0, <1>5, <2>2
  <2>a. /\ gst'.at = gst.at /\ gst'.out = gst.out /\ gst'.subs = gst.subs /\ gst' # Null
        /\ op = Null \/ op.at = "arrive"
    BY <1>0, <2>1, <2>6
  <2>b. /\ Straight => Consecutive(runner.reader.got, runner.reader.offset)
        /\ Straight => (runner.ready # Null => Consecutive(runner.ready.content, runner.ready.start))
        /\ Straight => Reads(runner, gst)
    BY <2>5
  <2> HIDE DEF rn
  <2> QED
    BY <1>0, <1>t, <2>1, <2>3, <2>4, <2>5, <2>6, <2>7, <2>8, <2>9, <2>a, <2>b, GoesOn
<1>6. \/ Moves(rn, is, index, Start(index), "seek")
      \/ Moves(rn, is, index, rn.position, "seek")
      \/ ~ rn.playing /\ ~ rn.frozen /\ Moves(rn, is, index, Start(index), "start")
      \/ /\ rn.playing /\ ~ rn.frozen
         /\ Continues(rn, KeptStores, KeptNumber, is, index)
         /\ UNCHANGED <<gst, yielded, strayed>>
  BY DEF BeginOperation
<1> QED  BY <1>2, <1>3, <1>4, <1>5, <1>6

(* Reading from the pipeline. *)

LEMMA DrainedIs ==
    ASSUME PipelineInv, op # Null, op.at = "pull"
    PROVE  /\ gst # Null /\ published \in 1 .. Len(stores) /\ published # 0
           /\ Drained \in Seq(Stores) /\ Len(Drained) = Len(stores)
           /\ \A k \in 1 .. Len(stores) : Moved(stores[k], Drained[k])
           /\ Whole => Drained[published].cues = stores[published].cues \cup gst.subs
<1>1. /\ gst # Null /\ published \in 1 .. Len(stores) /\ published # 0 /\ stores \in Seq(Stores)
      /\ runner.seekAt \in Nat
  BY DEF PipelineInv, PipelineTypes, Follows, Runners
<1>2. \A k \in 1 .. Len(stores) : stores[k] \in Stores
  BY <1>1
<1>3. gst.subs \in SUBSET Cues /\ (Whole => \A c \in gst.subs : c.start >= runner.seekAt)
  BY <1>1, GstIs DEF PipelineInv, CuesKept, AllCues, NotBefore
<1> DEFINE t == AppendAll(stores[published], gst.subs, runner.seekAt)
<1>4. /\ t \in Stores /\ Moved(stores[published], t)
      /\ Whole => t.cues = stores[published].cues \cup gst.subs
  BY <1>1, <1>2, <1>3, AppendAllIs
<1>5. Drained = [stores EXCEPT ![published] = t]
  BY DEF Drained
<1> HIDE DEF t
<1>6. /\ Drained \in Seq(Stores) /\ Len(Drained) = Len(stores)
      /\ \A k \in 1 .. Len(stores) : Drained[k] = IF k = published THEN t ELSE stores[k]
  BY <1>1, <1>4, <1>5, ReplacedStore
<1>7. \A k \in 1 .. Len(stores) : Moved(stores[k], Drained[k])
  BY <1>2, <1>4, <1>6, MovedIsOrder
<1> QED  BY <1>1, <1>4, <1>6, <1>7

LEMMA PulledKeepsInv ==
    ASSUME PipelineInv, op # Null, op.at = "pull", op' \in {op, Null},
           runner' \in Runners, runner'.playing = runner.playing,
           runner'.frozen = runner.frozen, runner'.gone = runner.gone, runner'.reader # Null,
           Straight => Consecutive(runner'.reader.got, runner'.reader.offset),
           Straight => (runner'.ready # Null => Consecutive(runner'.ready.content, runner'.ready.start)),
           yielded' \in MediaSegment \cup {Null},
           Straight => (yielded' # Null => Consecutive(yielded'.content, yielded'.start)),
           gst' \in State, gst' # Null, gst'.at = gst.at, gst'.subs = {},
           NextUnit(gst) <= NextUnit(gst'), Flows(gst'), Noted(runner', gst'),
           Straight => Reads(runner', gst'),
           Whole => NotBefore(gst', runner'.seekAt),
           Whole => ((runner'.probe # Null /\ runner'.probe.actual # Null /\ runner'.probe.first)
                       => NotBefore(gst', runner'.probe.actual)),
           reads' \subseteq reads \cup (NextUnit(gst) .. gst.at - 1),
           init' \in BOOLEAN, Becomes(Drained, stores'), UNCHANGED <<published, cueRequest, strayed>>
    PROVE  PipelineInv'
<1>1. /\ gst # Null /\ published \in 1 .. Len(stores) /\ published # 0
      /\ Drained \in Seq(Stores) /\ Len(Drained) = Len(stores)
      /\ \A k \in 1 .. Len(stores) : Moved(stores[k], Drained[k])
      /\ Whole => Drained[published].cues = stores[published].cues \cup gst.subs
  BY DrainedIs
<1>2. stores \in Seq(Stores) /\ stores' \in Seq(Stores) /\ Len(stores) <= Len(stores')
  BY <1>1 DEF Becomes, PipelineInv, PipelineTypes
<1>3. ASSUME NEW k \in 1 .. Len(stores)
      PROVE  Moved(stores[k], stores'[k])
  <2>1. k \in 1 .. Len(Drained) /\ k \in 1 .. Len(stores')
    BY <1>1, <1>2
  <2>2. stores[k] \in Stores /\ Drained[k] \in Stores /\ stores'[k] \in Stores
    BY <1>1, <1>2, <2>1
  <2>3. Moved(stores[k], Drained[k]) /\ Moved(Drained[k], stores'[k])
    BY <1>1, <2>1 DEF Becomes
  <2> QED  BY <2>2, <2>3, MovedIsOrder
<1>4. StoresGrow
  BY <1>2, <1>3 DEF StoresGrow
<1>5. published' \in 1 .. Len(stores')
      /\ (Whole => stores'[published'].cues = stores[published].cues \cup gst.subs)
  <2>1. published \in 1 .. Len(Drained)
    BY <1>1
  <2>2. stores'[published].cues = Drained[published].cues
    BY <2>1 DEF Becomes
  <2> QED  BY <1>1, <1>2, <2>2
<1>6. PipelineTypes'
  BY <1>2, <1>5 DEF PipelineInv, PipelineTypes
<1>7. Follows'
  BY <1>1 DEF PipelineInv, Follows
<1>s. Straight' = Straight /\ Whole' = Whole
  BY DEF Straight, Whole
<1>8. Samples'
  <2>1. (gst' # Null => Flows(gst'))  /\ Noted(runner, gst)'
    BY <1>s DEF Noted, NextUnit
  <2>2. Straight => InPlace'
    BY DEF InPlace, Reads, Consecutive, NextUnit
  <2>3. op' = Null \/ op'.at = "pull"
    OBVIOUS
  <2>4. runner.playing
    BY DEF PipelineInv, Follows
  <2> QED  BY <1>s, <2>1, <2>2, <2>3, <2>4 DEF Samples, Flows, Consecutive, NextUnit
<1>9. CuesKept'
  <2> SUFFICES ASSUME Whole, AllCues
               PROVE  AllCues'
    BY <1>s DEF PipelineInv, CuesKept
  <2> DEFINE before == stores[published].cues
             after == stores'[published'].cues
  <2>a. /\ after = before \cup gst.subs /\ gst.subs \subseteq Cues /\ before \subseteq Cues
        /\ \A c \in Cues : c.start \in reads => c \in before
        /\ \A c \in Cues : c.start \in NextUnit(gst) .. gst.at - 1 => c \in gst.subs \cup before
    <3>1. after = before \cup gst.subs
      BY <1>5
    <3>2. gst.subs \subseteq Cues
      BY <1>1, GstIs
    <3>3. /\ before \subseteq Cues
          /\ \A c \in Cues : c.start \in reads => c \in before
          /\ \A c \in Cues : c.start \in NextUnit(gst) .. gst.at - 1 => c \in gst.subs \cup before
      BY <1>1 DEF AllCues, Current
    <3> HIDE DEF before, after
    <3> QED  BY <3>1, <3>2, <3>3
  <2> HIDE DEF before, after
  <2>1. \A c \in Cues : c.start \in NextUnit(gst) .. gst.at - 1 => c \in after
    BY <2>a
  <2>2. after \subseteq Cues /\ \A c \in Cues : c.start \in reads' => c \in after
    BY <2>a, <2>1
  <2>3. \A c \in Cues : c.start \in NextUnit(gst') .. gst'.at - 1
          => c \in gst'.subs \cup after
    <3>1. NextUnit(gst) \in Int /\ NextUnit(gst') \in Int /\ gst.at \in Int
      <4>1. gst'.at \in Nat /\ Len(gst'.out) \in Nat
        BY DEF State
      <4> QED  BY <1>1, <4>1, GstIs DEF NextUnit
    <3>2. NextUnit(gst') .. gst'.at - 1 \subseteq NextUnit(gst) .. gst.at - 1
      BY <3>1
    <3> QED  BY <2>1, <3>2
  <2>4. op' = Null \/ op'.at # "arrive"
    OBVIOUS
  <2> QED  BY <2>2, <2>3, <2>4 DEF AllCues, NotBefore, Current, NextUnit, after
<1>10. \A r \in Readers : CueWaits(r)'
  BY <1>2, <1>4, WaitsKept
<1> QED  BY <1>6, <1>7, <1>8, <1>9, <1>10 DEF PipelineInv

LEMMA CompletesIs ==
    ASSUME PipelineInv, op # Null, op.at = "pull", NEW rn \in Runners, rn.ready # Null,
           Completes(rn, Drained)
    PROVE  /\ runner' \in Runners /\ runner'.playing = rn.playing /\ runner'.frozen = rn.frozen
           /\ runner'.ready = rn.ready /\ runner'.gone = rn.gone /\ runner'.probe = rn.probe
           /\ runner'.reader = rn.reader /\ runner'.seekAt = rn.seekAt
           /\ op' = Null /\ yielded' = rn.ready /\ yielded' \in MediaSegment
           /\ Becomes(Drained, stores')
<1>1. op.index \in Segments /\ op.index \in Int
  BY OpIs, SpansAre
<1>2. runner' = [rn EXCEPT !.index = op.index]
  BY DEF Completes
<1>3. /\ runner' \in Runners /\ runner'.playing = rn.playing /\ runner'.frozen = rn.frozen
      /\ runner'.ready = rn.ready /\ runner'.gone = rn.gone /\ runner'.probe = rn.probe
      /\ runner'.reader = rn.reader /\ runner'.seekAt = rn.seekAt
  BY <1>1, <1>2 DEF Runners
<1>4. rn.ready \in MediaSegment
  BY DEF Runners
<1>5. Drained \in Seq(Stores) /\ published \in 1 .. Len(Drained)
  BY DrainedIs
<1>6. Becomes(Drained, stores')
  BY <1>1, <1>4, <1>5, CompletedIs DEF Completes
<1> QED  BY <1>3, <1>4, <1>6 DEF Completes

LEMMA PullEndKeepsInv ==
    ASSUME PipelineInv, PullEnd
    PROVE  PipelineInv'
<1>1. /\ op # Null /\ op.at = "pull" /\ gst # Null /\ gst.out = <<>> /\ op' = Null
      /\ UNCHANGED <<init, published, cueRequest, reads, strayed>>
  <2>1. op # Null /\ op.at = "pull"
    BY DEF PullEnd, Doing
  <2> QED  BY <2>1, DrainedIs DEF PullEnd, Ended, Completes
<1>2. /\ Flows(gst) /\ Noted(runner, gst)
      /\ runner \in Runners /\ runner.reader # Null
      /\ yielded \in MediaSegment \cup {Null} /\ init \in BOOLEAN
  BY <1>1 DEF PipelineInv, PipelineTypes, Follows, Samples
<1>s. Straight => /\ Reads(runner, gst)
                  /\ Consecutive(runner.reader.got, runner.reader.offset)
                  /\ runner.ready # Null => Consecutive(runner.ready.content, runner.ready.start)
                  /\ yielded # Null => Consecutive(yielded.content, yielded.start)
  BY <1>1, <1>2 DEF PipelineInv, Samples, InPlace
<1>w. Whole => /\ NotBefore(gst, runner.seekAt)
               /\ (runner.probe # Null /\ runner.probe.actual # Null /\ runner.probe.first)
                    => NotBefore(gst, runner.probe.actual)
  BY <1>1 DEF PipelineInv, CuesKept, AllCues
<1>3. /\ gst' \in State /\ gst' # Null /\ gst'.at = gst.at /\ gst'.subs = {}
      /\ gst'.out = gst.out
  <2>1. gst' = [gst EXCEPT !.subs = {}]
    BY DEF PullEnd
  <2>2. gst' = [playing |-> gst.playing, at |-> gst.at, out |-> gst.out, subs |-> {},
                bus |-> gst.bus, eos |-> gst.eos]
    BY <1>1, <2>1, GstIs DEF State
  <2>3. gst' \in State
    BY <1>1, <2>2, GstIs DEF State
  <2> QED  BY <2>2, <2>3, NullIs
<1>4. NextUnit(gst') = NextUnit(gst) /\ NextUnit(gst) <= NextUnit(gst')
  BY <1>1, <1>3, GstIs DEF NextUnit
<1>5. \A place : NotBefore(gst, place) => NotBefore(gst', place)
  BY <1>3 DEF NotBefore
<1>6. CASE runner.reader.got # <<>>
  <2> DEFINE m == Made(runner, runner.reader.got)
  <2>0. runner.reader.got \in Seq(Nat) /\ runner.reader.offset \in Nat
        /\ Len(runner.reader.got) \in Nat
    <3>1. runner.reader \in Reader
      BY <1>2 DEF Runners
    <3> QED  BY <3>1 DEF Reader
  <2>1. /\ m \in Runners
        /\ m.playing = runner.playing /\ m.frozen = runner.frozen
        /\ m.gone = runner.gone /\ m.probe = runner.probe /\ m.seekAt = runner.seekAt
        /\ m.reader = [offset |-> runner.reader.offset + Len(runner.reader.got), got |-> <<>>]
        /\ m.ready = [start |-> runner.reader.offset, content |-> runner.reader.got]
    BY <1>2, <2>0, MadeIs
  <2>2. Completes(m, Drained)
    BY <1>6 DEF PullEnd
  <2> HIDE DEF m
  <2>3. m.ready # Null /\ m.reader # Null /\ (Straight => Consecutive(m.ready.content, m.ready.start))
        /\ Consecutive(m.reader.got, m.reader.offset)
    <3>1. [start |-> runner.reader.offset, content |-> runner.reader.got] \in MediaSegment
      BY <2>0 DEF MediaSegment
    <3>2. [offset |-> runner.reader.offset + Len(runner.reader.got), got |-> <<>>] \in Reader
      BY <2>0 DEF Reader
    <3> QED  BY <1>s, <2>1, <3>1, <3>2, NullIs DEF Consecutive
  <2>4. /\ runner' \in Runners /\ runner'.playing = m.playing /\ runner'.frozen = m.frozen
        /\ runner'.ready = m.ready /\ runner'.gone = m.gone /\ runner'.probe = m.probe
        /\ runner'.reader = m.reader /\ runner'.seekAt = m.seekAt
        /\ op' = Null /\ yielded' = m.ready /\ yielded' \in MediaSegment
        /\ Becomes(Drained, stores')
    BY <1>1, <2>1, <2>2, <2>3, CompletesIs
  <2>5. Flows(gst') /\ Noted(runner', gst')
    BY <1>2, <1>3, <1>4, <2>1, <2>4 DEF Flows, Noted
  <2>6. Straight => Reads(runner', gst')
    <3> SUFFICES ASSUME Straight
                 PROVE  Reads(runner', gst')
      OBVIOUS
    <3>1. runner.probe = Null \/ runner.probe.actual = Null
      BY <1>s, <1>6 DEF Reads
    <3>2. runner.reader.offset + Len(runner.reader.got) = NextUnit(gst')
      BY <1>s, <1>4, <3>1 DEF Reads
    <3>3. runner'.reader.offset = NextUnit(gst') /\ runner'.reader.got = <<>>
          /\ NextUnit(gst') \in Nat /\ Len(runner'.reader.got) = 0
      BY <1>1, <1>4, <2>1, <2>4, <3>2, GstIs
    <3>4. runner'.reader.offset + Len(runner'.reader.got) = NextUnit(gst')
      BY <3>3
    <3> QED  BY <2>1, <2>4, <3>1, <3>4 DEF Reads
  <2>7. Whole => NotBefore(gst', runner'.seekAt)
    BY <1>w, <1>5, <2>1, <2>4
  <2>8. Whole => ((runner'.probe # Null /\ runner'.probe.actual # Null /\ runner'.probe.first)
                    => NotBefore(gst', runner'.probe.actual))
    BY <1>w, <1>5, <2>1, <2>4
  <2> QED  BY <1>1, <1>2, <1>3, <1>4, <2>1, <2>3, <2>4, <2>5, <2>6, <2>7, <2>8, PulledKeepsInv
<1>7. CASE runner.reader.got = <<>>
  <2>1. stores' = Drained /\ UNCHANGED <<runner, yielded>>
    BY <1>7 DEF PullEnd
  <2>2. Becomes(Drained, stores')
    BY <1>1, <2>1, DrainedIs, BecomesIsOrder
  <2>3. Flows(gst') /\ Noted(runner', gst') /\ (Straight => Reads(runner', gst'))
    BY <1>2, <1>s, <1>3, <1>4, <2>1 DEF Flows, Noted, Reads
  <2>4. Whole => /\ NotBefore(gst', runner'.seekAt)
                 /\ (runner'.probe # Null /\ runner'.probe.actual # Null /\ runner'.probe.first)
                      => NotBefore(gst', runner'.probe.actual)
    BY <1>w, <1>5, <2>1
  <2> QED  BY <1>1, <1>2, <1>s, <1>3, <1>4, <2>1, <2>2, <2>3, <2>4, PulledKeepsInv
<1> QED  BY <1>6, <1>7

LEMMA PushedIs ==
    ASSUME NEW rn \in Runners, rn.reader # Null,
           NEW sample \in Nat, NEW good \in BOOLEAN,
           good => /\ Consecutive(rn.reader.got, rn.reader.offset)
                   /\ rn.ready # Null => Consecutive(rn.ready.content, rn.ready.start)
                   /\ rn.reader.offset + Len(rn.reader.got) = sample
    PROVE  LET t == Pushed(rn, sample)
           IN  /\ t \in Runners
               /\ t.playing = rn.playing /\ t.frozen = rn.frozen /\ t.gone = rn.gone
               /\ t.probe = rn.probe /\ t.seekAt = rn.seekAt /\ t.reader # Null
               /\ good => /\ Consecutive(t.reader.got, t.reader.offset)
                          /\ t.reader.offset + Len(t.reader.got) = sample + 1
                          /\ t.ready # Null => Consecutive(t.ready.content, t.ready.start)
<1> DEFINE got == Append(rn.reader.got, sample)
<1>1. rn.reader \in Reader /\ rn.reader.got \in Seq(Nat) /\ rn.reader.offset \in Nat
  BY DEF Runners, Reader
<1>2. got \in Seq(Nat) /\ Len(got) = Len(rn.reader.got) + 1
      /\ (good => Consecutive(got, rn.reader.offset))
  <2>1. got \in Seq(Nat) /\ Len(got) = Len(rn.reader.got) + 1
    BY <1>1
  <2>2. good => Consecutive(got, rn.reader.offset)
    BY <1>1, AppendedUnit
  <2> QED  BY <2>1, <2>2
<1>3. Pushed(rn, sample) = IF Len(got) < SegmentLength THEN [rn EXCEPT !.reader.got = got]
                           ELSE Made(rn, got)
  BY DEF Pushed
<1> HIDE DEF got
<1>4. (good => rn.reader.offset + Len(got) = sample + 1) /\ Len(got) \in Nat
  <2>1. Len(rn.reader.got) \in Nat /\ Len(got) = Len(rn.reader.got) + 1 /\ rn.reader.offset \in Nat
    BY <1>1, <1>2
  <2> DEFINE k == Len(rn.reader.got)
             m == Len(got)
             o == rn.reader.offset
  <2>2. k \in Nat /\ m = k + 1 /\ o \in Nat /\ (good => o + k = sample)
    BY <2>1
  <2>3. m \in Nat /\ (good => o + m = sample + 1)
    <3> HIDE DEF k, m, o
    <3> QED  BY <2>2
  <2> QED  BY <2>3
<1>5. CASE Len(got) < SegmentLength
  <2> DEFINE rd == [offset |-> rn.reader.offset, got |-> got]
  <2>1. [rn.reader EXCEPT !.got = got] = rd /\ rd \in Reader
    BY <1>1, <1>2 DEF Reader
  <2>2. rd.offset = rn.reader.offset /\ rd.got = got
    OBVIOUS
  <2> HIDE DEF rd
  <2>3. Pushed(rn, sample) = [rn EXCEPT !.reader = rd]
    BY <1>3, <1>5, <2>1
  <2> DEFINE t == Pushed(rn, sample)
  <2> HIDE DEF t
  <2>4. t = [rn EXCEPT !.reader = rd]
    BY <2>3 DEF t
  <2>5. /\ t \in Runners
        /\ t.playing = rn.playing /\ t.frozen = rn.frozen /\ t.gone = rn.gone
        /\ t.probe = rn.probe /\ t.seekAt = rn.seekAt /\ t.reader = rd /\ t.ready = rn.ready
    BY <2>1, <2>4 DEF Runners
  <2>6. rd # Null
    BY <2>1, NullIs
  <2> QED  BY <1>2, <1>4, <2>2, <2>5, <2>6 DEF t
<1>6. CASE ~ (Len(got) < SegmentLength)
  <2> DEFINE t == Made(rn, got)
             rd == [offset |-> rn.reader.offset + Len(got), got |-> <<>>]
             sg == [start |-> rn.reader.offset, content |-> got]
  <2>1. /\ t \in Runners
        /\ t.playing = rn.playing /\ t.frozen = rn.frozen
        /\ t.gone = rn.gone /\ t.probe = rn.probe /\ t.seekAt = rn.seekAt
        /\ t.reader = rd /\ t.ready = sg
    BY <1>2, MadeIs
  <2>2. /\ (good => rd.offset = sample + 1) /\ rd.got = <<>>
        /\ sg.start = rn.reader.offset /\ sg.content = got
    BY <1>4
  <2>3. rd # Null
    <3>1. rd \in Reader
      BY <1>1, <1>4 DEF Reader
    <3> QED  BY <3>1, NullIs
  <2>4. Pushed(rn, sample) = t
    BY <1>3, <1>6
  <2> HIDE DEF t, rd, sg
  <2>5. good => /\ Consecutive(t.reader.got, t.reader.offset)
                /\ t.reader.offset + Len(t.reader.got) = sample + 1
    <3>1. /\ Len(t.reader.got) = 0 /\ t.reader.got = <<>>
          /\ good => t.reader.offset = sample + 1
      BY <2>1, <2>2
    <3> QED  BY <3>1 DEF Consecutive
  <2> QED  BY <1>2, <2>1, <2>2, <2>3, <2>4, <2>5
<1> QED  BY <1>5, <1>6

LEMMA PullKeepsInv ==
    ASSUME PipelineInv, Pull
    PROVE  PipelineInv'
<1> DEFINE n == NextUnit(gst)
           a == Applied(runner)
           rn == Pushed(a, Head(gst.out))
<1>1. /\ op # Null /\ op.at = "pull" /\ gst # Null /\ gst.out # <<>>
      /\ init' = TRUE /\ reads' = reads \cup {Head(gst.out)}
      /\ UNCHANGED <<published, cueRequest, strayed>>
  <2>1. op # Null /\ op.at = "pull"
    BY DEF Pull, Doing
  <2> QED  BY <2>1, DrainedIs DEF Pull
<1>2. /\ Flows(gst) /\ Noted(runner, gst)
      /\ runner \in Runners /\ runner.reader # Null
      /\ yielded \in MediaSegment \cup {Null} /\ Straight \in BOOLEAN
  BY <1>1 DEF PipelineInv, PipelineTypes, Follows, Samples, Straight
<1>s. Straight => /\ Reads(runner, gst)
                  /\ Consecutive(runner.reader.got, runner.reader.offset)
                  /\ runner.ready # Null => Consecutive(runner.ready.content, runner.ready.start)
                  /\ yielded # Null => Consecutive(yielded.content, yielded.start)
  BY <1>1, <1>2 DEF PipelineInv, Samples, InPlace
<1>w. Whole => /\ NotBefore(gst, runner.seekAt)
               /\ (runner.probe # Null /\ runner.probe.actual # Null /\ runner.probe.first)
                    => NotBefore(gst, runner.probe.actual)
  BY <1>1 DEF PipelineInv, CuesKept, AllCues
<1>g. /\ gst.at \in Nat /\ gst.out \in Seq(Nat) /\ Len(gst.out) \in Nat /\ Len(gst.out) > 0
      /\ n \in Nat /\ n + Len(gst.out) = gst.at
  BY <1>1, GstIs DEF NextUnit
<1>3. /\ Head(gst.out) = n /\ Tail(gst.out) \in Seq(Nat)
      /\ Len(Tail(gst.out)) = Len(gst.out) - 1 /\ Consecutive(Tail(gst.out), n + 1)
  <2>1. Consecutive(gst.out, n)
    BY <1>2 DEF Flows
  <2> QED  BY <1>1, <1>g, <2>1, TakenUnit
<1>4. /\ gst' \in State /\ gst' # Null /\ gst'.at = gst.at /\ gst'.subs = {}
      /\ gst'.out = Tail(gst.out)
  <2>1. gst' = [gst EXCEPT !.out = Tail(@), !.subs = {}]
    BY DEF Pull
  <2>2. gst' = [playing |-> gst.playing, at |-> gst.at, out |-> Tail(gst.out), subs |-> {},
                bus |-> gst.bus, eos |-> gst.eos]
    BY <1>1, <2>1, GstIs DEF State
  <2>3. gst' \in State
    BY <1>1, <1>3, <2>2, GstIs DEF State
  <2> QED  BY <2>2, <2>3, NullIs
<1>5. NextUnit(gst') = n + 1
  BY <1>g, <1>3, <1>4 DEF NextUnit
<1>6. /\ a \in Runners
      /\ a.playing = runner.playing /\ a.frozen = runner.frozen /\ a.index = runner.index
      /\ a.ready = runner.ready /\ a.gone = runner.gone
      /\ IF runner.probe = Null \/ runner.probe.actual = Null
         THEN a.reader = runner.reader /\ a.probe = runner.probe /\ a.seekAt = runner.seekAt
         ELSE /\ a.reader = [offset |-> runner.probe.actual, got |-> runner.reader.got]
              /\ a.probe = [actual |-> Null, first |-> runner.probe.first]
              /\ a.seekAt = runner.probe.actual
  BY <1>2, AppliedIs
<1>7. runner.probe # Null => /\ runner.probe.first
                             /\ Straight => runner.probe.actual \in {Null, n}
  BY <1>1, <1>2 DEF Noted
<1> HIDE DEF n, a
<1>o. a.reader \in Reader /\ a.reader # Null
  <2>1. CASE runner.probe = Null \/ runner.probe.actual = Null
    BY <1>2, <1>6, <2>1 DEF Runners
  <2>2. CASE ~ (runner.probe = Null \/ runner.probe.actual = Null)
    <3> DEFINE rd == [offset |-> runner.probe.actual, got |-> runner.reader.got]
    <3>1. runner.reader \in Reader /\ runner.probe \in Probe
      BY <1>2, <2>2 DEF Runners
    <3>2. rd \in Reader
      BY <2>2, <3>1 DEF Reader, Probe
    <3>3. a.reader = rd
      BY <1>6, <2>2
    <3> HIDE DEF rd
    <3> QED  BY <3>2, <3>3, NullIs
  <2> QED  BY <2>1, <2>2
<1>8. /\ a.probe # Null => a.probe.actual = Null /\ a.probe.first
      /\ Straight => /\ Consecutive(a.reader.got, a.reader.offset)
                     /\ a.reader.offset + Len(a.reader.got) = n
      /\ Whole => NotBefore(gst, a.seekAt)
  <2>1. CASE runner.probe = Null \/ runner.probe.actual = Null
    BY <1>s, <1>w, <1>6, <1>7, <2>1 DEF Reads, n
  <2>2. CASE ~ (runner.probe = Null \/ runner.probe.actual = Null)
    <3> DEFINE rd == [offset |-> n, got |-> <<>>]
    <3>1. runner.probe.first
          /\ (Straight => runner.probe.actual = n /\ runner.reader.got = <<>>)
      BY <1>s, <1>7, <2>2 DEF Reads
    <3>2. rd.offset = n /\ rd.got = <<>>
      OBVIOUS
    <3>3. /\ Straight => a.reader = rd
          /\ a.probe = [actual |-> Null, first |-> runner.probe.first]
          /\ a.seekAt = runner.probe.actual
      BY <1>6, <2>2, <3>1
    <3> HIDE DEF rd
    <3>4. Straight => Len(a.reader.got) = 0 /\ a.reader.offset = n /\ a.reader.got = <<>>
      BY <3>2, <3>3
    <3>5. Straight => /\ Consecutive(a.reader.got, a.reader.offset)
                      /\ a.reader.offset + Len(a.reader.got) = n
      BY <1>g, <3>4 DEF Consecutive
    <3>6. Whole => NotBefore(gst, a.seekAt)
      BY <1>w, <2>2, <3>1, <3>3
    <3> QED  BY <3>1, <3>3, <3>5, <3>6
  <2> QED  BY <2>1, <2>2
<1>9. /\ rn \in Runners
      /\ rn.playing = a.playing /\ rn.frozen = a.frozen /\ rn.gone = a.gone
      /\ rn.probe = a.probe /\ rn.seekAt = a.seekAt /\ rn.reader # Null
      /\ Straight => /\ Consecutive(rn.reader.got, rn.reader.offset)
                     /\ rn.reader.offset + Len(rn.reader.got) = n + 1
                     /\ rn.ready # Null => Consecutive(rn.ready.content, rn.ready.start)
  <2>1. Straight => (a.ready # Null => Consecutive(a.ready.content, a.ready.start))
    BY <1>s, <1>6
  <2>2. Straight => /\ Consecutive(a.reader.got, a.reader.offset)
                    /\ a.ready # Null => Consecutive(a.ready.content, a.ready.start)
                    /\ a.reader.offset + Len(a.reader.got) = n
    BY <1>8, <2>1
  <2> QED  BY <1>2, <1>g, <1>o, <1>3, <1>6, <2>2, PushedIs
<1>10. IF rn.ready # Null THEN Completes(rn, Drained)
       ELSE /\ runner' = rn /\ stores' = Drained
            /\ op' = (IF op.is = "init" THEN Null ELSE op)
            /\ UNCHANGED yielded
  BY DEF Pull, a
<1> HIDE DEF rn
<1>11. /\ runner' \in Runners /\ runner'.playing = rn.playing /\ runner'.frozen = rn.frozen
       /\ runner'.ready = rn.ready /\ runner'.gone = rn.gone /\ runner'.probe = rn.probe
       /\ runner'.reader = rn.reader /\ runner'.seekAt = rn.seekAt
       /\ op' \in {op, Null}
       /\ yielded' \in MediaSegment \cup {Null}
       /\ Straight => (yielded' # Null => Consecutive(yielded'.content, yielded'.start))
       /\ Becomes(Drained, stores')
  <2>1. CASE rn.ready # Null
    <3>1. Completes(rn, Drained)
      BY <1>10, <2>1
    <3> QED  BY <1>1, <1>9, <2>1, <3>1, CompletesIs
  <2>2. CASE rn.ready = Null
    <3>1. Becomes(Drained, Drained)
      BY <1>1, DrainedIs, BecomesIsOrder
    <3> QED  BY <1>2, <1>s, <1>9, <1>10, <2>2, <3>1
  <2> QED  BY <2>1, <2>2
<1>12. Flows(gst') /\ Noted(runner', gst')
  <2>1. Len(gst'.out) <= gst'.at /\ gst'.at <= FilmLength
    <3>1. gst.at <= FilmLength
      BY <1>2 DEF Flows
    <3> QED  BY <1>g, <1>3, <1>4, <3>1
  <2>2. Consecutive(gst'.out, NextUnit(gst'))
    BY <1>3, <1>4, <1>5
  <2> QED  BY <1>8, <1>9, <1>11, <2>1, <2>2 DEF Flows, Noted
<1>13. Straight => Reads(runner', gst')
  BY <1>5, <1>8, <1>9, <1>11 DEF Reads
<1>14. Whole => NotBefore(gst', runner'.seekAt)
  BY <1>4, <1>8, <1>9, <1>11 DEF NotBefore
<1>15. NextUnit(gst) <= NextUnit(gst')
       /\ reads' \subseteq reads \cup (NextUnit(gst) .. gst.at - 1)
  <2>1. n \in n .. gst.at - 1
    BY <1>g
  <2> QED  BY <1>1, <1>3, <1>5, <1>g, <2>1 DEF n
<1>16. ~ (runner'.probe # Null /\ runner'.probe.actual # Null)
  BY <1>8, <1>9, <1>11
<1>17. /\ Straight => Consecutive(runner'.reader.got, runner'.reader.offset)
       /\ Straight => (runner'.ready # Null => Consecutive(runner'.ready.content, runner'.ready.start))
  BY <1>9, <1>11
<1> QED
  BY <1>1, <1>4, <1>6, <1>9, <1>11, <1>12, <1>13, <1>14, <1>15, <1>16, <1>17, PulledKeepsInv

(* The specification. *)

LEMMA PipelineStarts ==
    ASSUME PipeInit
    PROVE  PipelineInv
<1>1. /\ gst = Null /\ init = FALSE /\ op = Null /\ stores = <<NewStore>> /\ published = 1
      /\ yielded = Null /\ reads = {} /\ strayed = "never"
      /\ cueRequest = [r \in Readers |-> [at |-> "idle"]]
  BY DEF PipeInit
<1>2. /\ runner \in Runners /\ ~ runner.playing /\ ~ runner.frozen /\ ~ runner.gone
      /\ runner.ready = Null /\ runner.probe = Null /\ runner.reader = NoReader
      /\ runner.seekAt = 0
  <2>1. NoReader \in Reader
    BY DEF NoReader, Reader
  <2>2. runner = [playing |-> FALSE, frozen |-> FALSE, index |-> 0, ready |-> Null,
                  position |-> 0, seekAt |-> 0, probe |-> Null, reader |-> NoReader,
                  gone |-> FALSE]
    BY DEF PipeInit, New
  <2> QED  BY <2>1, <2>2 DEF Runners
<1>3. NoReader \in Reader /\ NoReader # Null /\ NoReader.got = <<>>
  <2>1. NoReader \in Reader
    BY DEF NoReader, Reader
  <2> QED  BY <2>1, NullIs DEF NoReader
<1>4. stores \in Seq(Stores) /\ Len(stores) = 1 /\ stores[1] = NewStore
  <2>1. NewStore \in Stores
    BY DEF NewStore, Stores
  <2> QED  BY <1>1, <2>1
<1>5. PipelineTypes
  <2>1. [at |-> "idle"] \in CueRequests
    BY DEF CueRequests
  <2>2. cueRequest \in [Readers -> CueRequests]
    BY <1>1, <2>1
  <2>3. published \in 0 .. Len(stores)
    <3>1. 1 \in 0 .. 1
      OBVIOUS
    <3> QED  BY <1>1, <1>4, <3>1
  <2>4. gst \in State \cup {Null} /\ init \in BOOLEAN /\ op \in Operation \cup {Null}
        /\ yielded \in MediaSegment \cup {Null} /\ strayed \in {"never", "before", "now"}
    BY <1>1
  <2> QED  BY <1>2, <1>4, <2>2, <2>3, <2>4 DEF PipelineTypes
<1>6. Follows
  BY <1>1, <1>2, <1>3 DEF Follows
<1>7. Samples
  BY <1>1, <1>2, <1>3 DEF Samples, InPlace, Consecutive
<1>8. CuesKept
  <2>1. Current.cues = {}
    BY <1>1, <1>4 DEF Current, NewStore
  <2> QED  BY <1>1, <2>1 DEF CuesKept, AllCues
<1>9. \A r \in Readers : CueWaits(r)
  <2>1. \A r \in Readers : cueRequest[r] = [at |-> "idle"]
    BY <1>1
  <2> QED  BY <2>1 DEF CueWaits
<1> QED  BY <1>5, <1>6, <1>7, <1>8, <1>9 DEF PipelineInv

LEMMA PipelineSteps ==
    ASSUME PipelineInv, [PipeNext]_pipeVars
    PROVE  PipelineInv'
<1>1. CASE Mark \/ UNCHANGED pipeVars
  <2>1. UNCHANGED <<runner, gst, init, op, stores, published, yielded, reads, strayed, cueRequest>>
    BY <1>1 DEF Mark, pipeVars, historyVars
  <2>2. cueRequest' \in [Readers -> CueRequests]
    BY <2>1 DEF PipelineInv, PipelineTypes
  <2> QED  BY <2>1, <2>2, OthersSame, QuietWaits DEF PipelineInv
<1>2. CASE \E is \in {"init", "segment", "seek"}, index \in Segments : BeginOperation(is, index)
  BY <1>2, BeginKeepsInv
<1>3. CASE \E r \in Readers :
             \/ \E segment \in CueSegments : AskSubtitles(r, segment)
             \/ Subscribe(r) \/ RenderOrWait(r) \/ Wakes(r) \/ GivesUp(r)
  <2>1. PICK r \in Readers :
             \/ \E segment \in CueSegments : AskSubtitles(r, segment)
             \/ Subscribe(r) \/ RenderOrWait(r) \/ Wakes(r) \/ GivesUp(r)
    BY <1>3
  <2>2. ASSUME NEW segment \in CueSegments, AskSubtitles(r, segment)
        PROVE  PipelineInv'
    BY <2>2, RequestsKeepInv, PipelineConstants
  <2>3. CASE Subscribe(r) \/ RenderOrWait(r) \/ Wakes(r) \/ GivesUp(r)
    <3>1. cueRequest[r] \in CueRequests
      BY DEF PipelineInv, PipelineTypes
    <3>2. cueRequest[r].segment \in Segments
      BY <2>3, <3>1 DEF CueRequests, Subscribe, RenderOrWait, Wakes, GivesUp
    <3> QED  BY <2>3, <3>2, RequestsKeepInv
  <2> QED  BY <2>1, <2>2, <2>3
<1> QED
  BY <1>1, <1>2, <1>3, FreezingKeepsInv, DisposeKeepsPipeline, LaunchKeepsInv,
     InstallProbesKeepsInv, SendSeekKeepsInv, ArriveKeepsInv, PullKeepsInv, PullEndKeepsInv, TimeoutKeepsInv, ProduceKeepsInv, BusKeepsInv
  DEF PipeNext

LEMMA RenderedCue ==
    ASSUME NEW store \in Stores, NEW s \in Segments, NEW c \in Cues, c \in store.cues,
           c.start \in From(s) .. To(s) - 1
    PROVE  [start |-> c.start - From(s), end |-> Lesser(c.end, To(s)) - From(s)]
             \in Render(store, s)
<1>1. c \in Cues /\ c.start \in Nat /\ c.end \in Nat /\ c.start < c.end
  BY PipelineConstants DEF Stores
<1>2. From(s) \in Nat /\ To(s) \in Nat
  BY SpansAre
<1>3. c.end > From(s) /\ c.start < To(s) /\ Greater(c.start, From(s)) = c.start
  BY <1>1, <1>2 DEF Greater
<1> QED  BY <1>3 DEF Render

LEMMA PipelineIsRight ==
    ASSUME PipelineInv
    PROVE  PipelineRight
<1>1. RunnerSettled
  BY DEF PipelineInv, Follows, RunnerSettled
<1>2. PlacedWhereItIs
  <2>1. yielded # Null => yielded.content \in Seq(Nat)
    BY DEF PipelineInv, PipelineTypes, MediaSegment
  <2>2. yielded # Null => DOMAIN yielded.content = 1 .. Len(yielded.content)
    BY <2>1
  <2> QED  BY <2>2 DEF PipelineInv, Samples, InPlace, Straight, Consecutive, PlacedWhereItIs
<1>3. NoneWaitsInVain
  BY DEF PipelineInv, CueWaits, Untold, NoneWaitsInVain, Current
<1>4. ReadyIsComplete
  <2> SUFFICES ASSUME published # 0, strayed = "never"
               PROVE  /\ Current.cues \subseteq Cues
                      /\ \A s \in Segments :
                           (ReadyFor(Current, s) /\ From(s) .. To(s) - 1 \subseteq reads) =>
                             \A c \in Cues :
                               c.start \in From(s) .. To(s) - 1 =>
                                 [start |-> c.start - From(s),
                                  end |-> Lesser(c.end, To(s)) - From(s)] \in Render(Current, s)
    BY DEF ReadyIsComplete
  <2>1. Current \in Stores
    BY DEF PipelineInv, PipelineTypes, Current
  <2>2. AllCues /\ Current.cues \subseteq Cues
    BY DEF PipelineInv, CuesKept, AllCues, Whole
  <2>3. ASSUME NEW s \in Segments, From(s) .. To(s) - 1 \subseteq reads,
               NEW c \in Cues, c.start \in From(s) .. To(s) - 1
        PROVE  [start |-> c.start - From(s), end |-> Lesser(c.end, To(s)) - From(s)]
                 \in Render(Current, s)
    <3>1. c \in Current.cues
      BY <2>2, <2>3 DEF AllCues
    <3> QED  BY <2>1, <2>3, <3>1, RenderedCue
  <2> QED  BY <2>2, <2>3
<1> QED  BY <1>1, <1>2, <1>3, <1>4 DEF PipelineRight

\* Whatever operations, faults of GStreamer and requests for subtitles interleave: a
\* segment is placed where its samples are, a store that is ready for a segment that
\* was read has every cue of it, and no request waits on a store that nobody will
\* tell it about, but for the one wake-up the code can lose.  The first two are
\* claimed where no buffer of before a seek was taken for the first after it, which
\* the code allows: of a segment, by the last seek; of a store, by any since it was
\* made (pipeline.rs:945-951, 1012-1041, 1106-1196, 1320-1366, subtitles.rs:104-206,
\* service.rs:545-570).
THEOREM PipelineStaysRight == PipeSpec => []PipelineRight
<1>1. PipeInit => PipelineInv
  BY PipelineStarts
<1>2. PipelineInv /\ [PipeNext]_pipeVars => PipelineInv'
  BY PipelineSteps
<1>3. PipelineInv => PipelineRight
  BY PipelineIsRight
<1> QED  BY <1>1, <1>2, <1>3, PTL DEF PipeSpec

-----------------------------------------------------------------------------
(* GstTask: an init segment is there only while a pipeline runs.               *)

CONSTANTS TaskRequests, TaskSegments, Catchup, TaskStarts, TaskFaults

VARIABLES lastSent, taskRunner, taskInit, taskDisposed, taskRequest, served

HlsTask == INSTANCE GstTask WITH
    Requests <- TaskRequests, Segments <- TaskSegments, Starts <- TaskStarts,
    Faults <- TaskFaults, last <- lastSent,
    runner <- taskRunner, init <- taskInit, disposed <- taskDisposed, request <- taskRequest

HlsRunner == [gone : {FALSE}, playing : BOOLEAN, frozen : BOOLEAN, running : BOOLEAN,
              pos : Int, ready : [index : Int, content : Int]]

\* A pipeline that was started and not frozen runs; an init segment is its own.
Runs(rn, has) ==
    /\ rn \in HlsRunner /\ has \in BOOLEAN
    /\ rn.playing \/ has => rn.running

OutcomeRight(o) == Runs(o.rn, o.init) /\ o.ok \in BOOLEAN /\ o.content \in Int

LEMMA FrozenRight ==
    ASSUME NEW rn \in HlsRunner, NEW pos \in Int
    PROVE  Runs(HlsTask!FrozenAt(rn, pos), FALSE)
<1> DEFINE n == [rn EXCEPT !.playing = FALSE, !.frozen = TRUE, !.running = FALSE]
           m == [n EXCEPT !.pos = pos]
           notReady == HlsTask!NotReady
           q == [m EXCEPT !.ready = notReady]
<1>1. n \in HlsRunner /\ ~ n.playing BY DEF HlsRunner
<1> HIDE DEF n
<1>2. m \in HlsRunner /\ ~ m.playing BY <1>1 DEF HlsRunner
<1> HIDE DEF m
<1>3. notReady \in [index : Int, content : Int] BY DEF HlsTask!NotReady
<1> HIDE DEF notReady
<1>4. q \in HlsRunner /\ ~ q.playing BY <1>2, <1>3 DEF HlsRunner
<1>5. HlsTask!FrozenAt(rn, pos) = q BY DEF HlsTask!FrozenAt, n, m, notReady
<1> HIDE DEF q
<1> QED BY <1>4, <1>5 DEF Runs

LEMMA FailedRight ==
    ASSUME NEW rn \in HlsRunner, NEW pos \in Int, NEW o \in HlsTask!Failed(rn, pos)
    PROVE  OutcomeRight(o) /\ ~ o.ok
<1>1. o = HlsTask!Ends(FALSE, HlsTask!FrozenAt(rn, pos), FALSE, -1) BY DEF HlsTask!Failed
<1>2. Runs(HlsTask!FrozenAt(rn, pos), FALSE) BY FrozenRight
<1>3. ~ o.ok BY <1>1 DEF HlsTask!Ends
<1> QED BY <1>1, <1>2, <1>3 DEF HlsTask!Ends, OutcomeRight, Runs

\* A pipeline is moved, or started: then it runs.
LEMMA SeekRight ==
    ASSUME NEW rn, NEW has, Runs(rn, has), NEW pos \in Int,
           NEW o \in HlsTask!Seek(rn, has, pos) \cup HlsTask!StartAt(rn, has, pos)
    PROVE  OutcomeRight(o) /\ (o.ok => o.rn.running)
<1>0. rn \in HlsRunner /\ has \in BOOLEAN BY DEF Runs
<1>1. CASE o \in HlsTask!Failed(rn, pos) BY <1>0, <1>1, FailedRight
<1>2. CASE o \notin HlsTask!Failed(rn, pos)
  <2> DEFINE notReady == HlsTask!NotReady
             n == [rn EXCEPT !.playing = TRUE, !.frozen = FALSE, !.running = TRUE]
             m == [n EXCEPT !.pos = pos]
             q == [m EXCEPT !.ready = notReady]
             k == [rn EXCEPT !.playing = TRUE, !.running = TRUE]
             s == [k EXCEPT !.pos = pos]
  <2>1. o = HlsTask!Ends(TRUE, q, has, -1) \/ o = HlsTask!Ends(TRUE, s, has, -1)
    BY <1>2 DEF HlsTask!Seek, HlsTask!StartAt
  <2>2. n \in HlsRunner /\ n.running BY <1>0 DEF HlsRunner
  <2>3. k \in HlsRunner /\ k.running BY <1>0 DEF HlsRunner
  <2> HIDE DEF n, k
  <2>4. m \in HlsRunner /\ m.running BY <2>2 DEF HlsRunner
  <2>5. s \in HlsRunner /\ s.running BY <2>3 DEF HlsRunner
  <2>6. notReady \in [index : Int, content : Int] BY DEF HlsTask!NotReady
  <2> HIDE DEF m, notReady
  <2>7. q \in HlsRunner /\ q.running BY <2>4, <2>6 DEF HlsRunner
  <2> HIDE DEF q, s
  <2>8. Runs(q, has) /\ Runs(s, has) BY <1>0, <2>5, <2>7 DEF Runs
  <2>9. o.ok /\ o.rn \in {q, s} BY <2>1 DEF HlsTask!Ends
  <2> QED BY <2>1, <2>5, <2>7, <2>8, <2>9 DEF HlsTask!Ends, OutcomeRight, Runs
<1> QED BY <1>1, <1>2

LEMMA WaitedRight ==
    ASSUME NEW rn, NEW has, Runs(rn, has), NEW index \in Int, NEW o \in HlsTask!Waited(rn, has, index)
    PROVE  OutcomeRight(o)
<1>0. rn \in HlsRunner BY DEF Runs
<1>1. o = HlsTask!Ends(FALSE, rn, has, -1) \/ o \in HlsTask!Failed(rn, index) BY DEF HlsTask!Waited
<1>2. CASE o = HlsTask!Ends(FALSE, rn, has, -1) BY <1>2 DEF HlsTask!Ends, OutcomeRight, Runs
<1> QED BY <1>0, <1>1, <1>2, FailedRight

LEMMA ProducedRight ==
    ASSUME NEW rn, NEW has, Runs(rn, has), rn.running, NEW index \in Int,
           NEW o \in HlsTask!Produced(rn, has, index)
    PROVE  OutcomeRight(o)
<1>0. rn \in HlsRunner /\ has \in BOOLEAN BY DEF Runs
<1> DEFINE n == [rn EXCEPT !.ready.index = index]
<1>1. n \in HlsRunner /\ n.running BY <1>0 DEF HlsRunner
<1> HIDE DEF n
<1>2. Runs(n, has) /\ Runs(rn, TRUE) BY <1>0, <1>1 DEF Runs
<1>3. \/ o = HlsTask!Ends(TRUE, n, has, -1) \/ o = HlsTask!Ends(TRUE, rn, has, -1)
      \/ o = HlsTask!Ends(TRUE, rn, TRUE, -1) \/ o \in HlsTask!Waited(rn, has, index)
  BY DEF HlsTask!Produced, n
<1>4. CASE o \in HlsTask!Waited(rn, has, index) BY <1>4, WaitedRight
<1>5. CASE o = HlsTask!Ends(TRUE, n, has, -1) BY <1>2, <1>5 DEF HlsTask!Ends, OutcomeRight, Runs
<1>6. CASE o = HlsTask!Ends(TRUE, rn, has, -1) BY <1>6 DEF HlsTask!Ends, OutcomeRight, Runs
<1>7. CASE o = HlsTask!Ends(TRUE, rn, TRUE, -1) BY <1>0, <1>7 DEF HlsTask!Ends, OutcomeRight, Runs
<1> QED BY <1>3, <1>4, <1>5, <1>6, <1>7

\* GstRunner::ensure_init.
LEMMA RunnerInitRight ==
    ASSUME NEW rn, NEW has, Runs(rn, has), NEW index \in Int, NEW o \in HlsTask!RunnerInit(rn, has, index)
    PROVE  OutcomeRight(o)
<1>1. PICK p : /\ \/ p \in HlsTask!Seek(rn, has, index) \cup HlsTask!StartAt(rn, has, index)
                  \/ p = HlsTask!Ends(TRUE, rn, has, -1) /\ rn.playing
               /\ o \in IF p.ok THEN HlsTask!Produced(p.rn, p.init, index) ELSE {p}
  BY DEF HlsTask!RunnerInit
<1>2. OutcomeRight(p) /\ (p.ok => p.rn.running)
  <2>1. CASE p \in HlsTask!Seek(rn, has, index) \cup HlsTask!StartAt(rn, has, index) BY <2>1, SeekRight
  <2>2. CASE p = HlsTask!Ends(TRUE, rn, has, -1) /\ rn.playing
    <3>1. p.rn = rn BY <2>2 DEF HlsTask!Ends
    <3> QED BY <2>2, <3>1 DEF HlsTask!Ends, OutcomeRight, Runs
  <2> QED BY <1>1, <2>1, <2>2
<1> QED BY <1>1, <1>2, ProducedRight DEF OutcomeRight

LEMMA PulledRight ==
    ASSUME TaskSegments \in Nat, NEW rn, NEW has, Runs(rn, has), rn.running, NEW index \in Int,
           NEW o \in HlsTask!Pulled(rn, has, index)
    PROVE  OutcomeRight(o)
<1>0. rn \in HlsRunner /\ has \in BOOLEAN /\ rn.ready.content \in Int /\ rn.pos \in Int BY DEF Runs, HlsRunner
<1> DEFINE notReady == HlsTask!NotReady
           kept == [index |-> index, content |-> rn.pos]
           k == [rn EXCEPT !.ready = kept]
           next == rn.pos + 1
           n == [k EXCEPT !.pos = next]
           m == [rn EXCEPT !.ready = notReady]
<1>1. notReady \in [index : Int, content : Int] /\ kept \in [index : Int, content : Int]
  BY <1>0 DEF HlsTask!NotReady
<1>2. \/ o = HlsTask!Ends(TRUE, rn, has, rn.ready.content)
      \/ o = HlsTask!Ends(TRUE, n, TRUE, rn.pos)
      \/ o \in HlsTask!Waited(m, has, index)
      \/ o = HlsTask!Ends(FALSE, m, has, -1)
  <2>1. n = [rn EXCEPT !.ready = kept, !.pos = @ + 1] OBVIOUS
  <2> HIDE DEF n
  <2> QED BY <2>1 DEF HlsTask!Pulled
<1> HIDE DEF notReady, kept
<1>2a. k \in HlsRunner /\ k.running BY <1>0, <1>1 DEF HlsRunner
<1>2b. next \in Int BY <1>0
<1> HIDE DEF k, next
<1>3. n \in HlsRunner /\ n.running BY <1>2a, <1>2b DEF HlsRunner
<1>4. m \in HlsRunner /\ m.running BY <1>0, <1>1 DEF HlsRunner
<1> HIDE DEF n, m
<1>5. Runs(n, TRUE) /\ Runs(m, has) BY <1>0, <1>3, <1>4 DEF Runs
<1>6. CASE o \in HlsTask!Waited(m, has, index) BY <1>5, <1>6, WaitedRight
<1>7. CASE o = HlsTask!Ends(TRUE, rn, has, rn.ready.content) BY <1>0, <1>7 DEF HlsTask!Ends, OutcomeRight, Runs
<1>8. CASE o = HlsTask!Ends(TRUE, n, TRUE, rn.pos) BY <1>0, <1>3, <1>8 DEF HlsTask!Ends, OutcomeRight, Runs
<1>9. CASE o = HlsTask!Ends(FALSE, m, has, -1) BY <1>5, <1>9 DEF HlsTask!Ends, OutcomeRight, Runs
<1> QED BY <1>2, <1>6, <1>7, <1>8, <1>9

\* GstRunner::get_segment.
LEMMA RunnerSegmentRight ==
    ASSUME TaskSegments \in Nat, NEW rn, NEW has, Runs(rn, has), NEW index \in Int,
           NEW o \in HlsTask!RunnerSegment(rn, has, index)
    PROVE  OutcomeRight(o)
<1>0. rn \in HlsRunner /\ rn.pos \in Int BY DEF Runs, HlsRunner
<1>1. PICK p : /\ \/ p \in HlsTask!Seek(rn, has, rn.pos) \cup HlsTask!StartAt(rn, has, index)
                  \/ p = HlsTask!Ends(TRUE, rn, has, -1) /\ rn.playing
               /\ o \in IF p.ok THEN HlsTask!Pulled(p.rn, p.init, index) ELSE {p}
  BY DEF HlsTask!RunnerSegment
<1>2. OutcomeRight(p) /\ (p.ok => p.rn.running)
  <2>1. CASE p \in HlsTask!Seek(rn, has, rn.pos) BY <1>0, <2>1, SeekRight
  <2>2. CASE p \in HlsTask!StartAt(rn, has, index) BY <2>2, SeekRight
  <2>3. CASE p = HlsTask!Ends(TRUE, rn, has, -1) /\ rn.playing
    <3>1. p.rn = rn BY <2>3 DEF HlsTask!Ends
    <3> QED BY <2>3, <3>1 DEF HlsTask!Ends, OutcomeRight, Runs
  <2> QED BY <1>1, <2>1, <2>2, <2>3
<1> QED BY <1>1, <1>2, PulledRight DEF OutcomeRight

RunnerRight ==
    \/ taskRunner = HlsTask!Gone /\ taskInit = FALSE
    \/ Runs(taskRunner, taskInit)

\* A request knows what it asks for; one that catches up holds a task with a pipeline.
WellPlaced(q) ==
    /\ q.at = "init" => q.index \in Int
    /\ q.at \in {"segment", "catch up"} => q \in [at : {"segment", "catch up"}, index : Int]

RequestsRight ==
    /\ DOMAIN taskRequest = TaskRequests
    /\ \A r \in TaskRequests :
         /\ WellPlaced(taskRequest[r])
         /\ taskRequest[r].at = "catch up" => taskRunner # HlsTask!Gone

LastRight == lastSent \in Int

TaskInv == RunnerRight /\ RequestsRight /\ LastRight

\* The request r moves.
LEMMA TaskMoves ==
    ASSUME TaskInv, NEW r \in TaskRequests, NEW q, taskRequest' = [taskRequest EXCEPT ![r] = q],
           WellPlaced(q),
           q.at = "catch up" => taskRunner' # HlsTask!Gone,
           taskRunner' # HlsTask!Gone \/ HlsTask!Unlocked \/ taskRunner' = taskRunner,
           lastSent' \in Int,
           \/ taskRunner' = taskRunner /\ taskInit' = taskInit
           \/ Runs(taskRunner', taskInit')
    PROVE  TaskInv'
<1>1. taskRequest'[r] = q /\ \A k \in TaskRequests \ {r} : taskRequest'[k] = taskRequest[k]
  BY DEF TaskInv, RequestsRight
<1>2. DOMAIN taskRequest' = TaskRequests BY DEF TaskInv, RequestsRight
<1>3. ASSUME NEW k \in TaskRequests
      PROVE  /\ WellPlaced(taskRequest'[k])
             /\ taskRequest'[k].at = "catch up" => taskRunner' # HlsTask!Gone
  <2>1. CASE k = r BY <1>1, <2>1
  <2>2. CASE k # r BY <1>1, <2>2 DEF TaskInv, RequestsRight, HlsTask!Unlocked
  <2> QED BY <2>1, <2>2
<1>4. RunnerRight' BY DEF TaskInv, RunnerRight
<1>5. RequestsRight' BY <1>2, <1>3 DEF RequestsRight, WellPlaced
<1> QED BY <1>4, <1>5 DEF TaskInv, LastRight

LEMMA IdleIsPlaced == WellPlaced(HlsTask!Idle) /\ HlsTask!Idle.at = "idle"
BY DEF WellPlaced, HlsTask!Idle

LEMMA NotGone ==
    ASSUME NEW rn, NEW has, Runs(rn, has)
    PROVE  rn # HlsTask!Gone
BY DEF Runs, HlsRunner, HlsTask!Gone

\* A segment is fetched for the request r, which then ends.
LEMMA AnswerKeeps ==
    ASSUME TaskInv, TaskSegments \in Nat, NEW r \in TaskRequests, NEW rn, NEW has, Runs(rn, has),
           NEW index \in Int, HlsTask!Answer(rn, has, index), HlsTask!Ended(r)
    PROVE  TaskInv'
<1>1. PICK o \in HlsTask!RunnerSegment(rn, has, index) :
        HlsTask!Becomes(o) /\ lastSent' = IF o.ok THEN index ELSE lastSent
  BY DEF HlsTask!Answer
<1>2. OutcomeRight(o) BY <1>1, RunnerSegmentRight
<1>3. taskRunner' = o.rn /\ taskInit' = o.init BY <1>1 DEF HlsTask!Becomes
<1>4. Runs(taskRunner', taskInit') BY <1>2, <1>3 DEF OutcomeRight
<1>5. taskRequest' = [taskRequest EXCEPT ![r] = HlsTask!Idle] BY DEF HlsTask!Ended
<1>6. lastSent' \in Int BY <1>1 DEF TaskInv, LastRight
<1> QED BY <1>4, <1>5, <1>6, IdleIsPlaced, NotGone, TaskMoves

LEMMA RequestKeeps ==
    ASSUME TaskInv, NEW r \in TaskRequests, NEW index \in HlsTask!Indexes,
           HlsTask!InitRequest(r, index) \/ HlsTask!SegmentRequest(r, index)
    PROVE  TaskInv'
<1> DEFINE a == [at |-> "init", index |-> index, segment |-> FALSE]
           b == [at |-> "init", index |-> index, segment |-> TRUE]
           c == [at |-> "segment", index |-> index]
<1>1. index \in Int BY DEF HlsTask!Indexes
<1>2. WellPlaced(a) /\ WellPlaced(b) /\ WellPlaced(c) /\ a.at # "catch up" /\ b.at # "catch up" /\ c.at # "catch up"
  BY <1>1 DEF WellPlaced
<1>3. \/ taskRequest' = [taskRequest EXCEPT ![r] = a]
      \/ taskRequest' = [taskRequest EXCEPT ![r] = b]
      \/ taskRequest' = [taskRequest EXCEPT ![r] = c]
  BY DEF HlsTask!InitRequest, HlsTask!SegmentRequest
<1>4. taskRunner' = taskRunner /\ taskInit' = taskInit /\ lastSent' = lastSent
  BY DEF HlsTask!InitRequest, HlsTask!SegmentRequest
<1>5. lastSent' \in Int BY <1>4 DEF TaskInv, LastRight
<1> HIDE DEF a, b, c
<1> QED BY <1>2, <1>3, <1>4, <1>5, TaskMoves

LEMMA EnsureInitKeeps ==
    ASSUME TaskInv, NEW r \in TaskRequests, HlsTask!EnsureInit(r)
    PROVE  TaskInv'
<1> DEFINE index == taskRequest[r].index
           goes == [at |-> "segment", index |-> index]
           stays == {HlsTask!Ends(TRUE, taskRunner, taskInit, -1), HlsTask!Ends(FALSE, taskRunner, taskInit, -1)}
<1>1. taskRequest[r].at = "init" /\ HlsTask!Unlocked BY DEF HlsTask!EnsureInit
<1>2. index \in Int BY <1>1 DEF TaskInv, RequestsRight, WellPlaced
<1>3. PICK o : /\ \/ o \in stays
                  \/ taskRunner # HlsTask!Gone /\ o \in HlsTask!RunnerInit(taskRunner, taskInit, index)
               /\ taskRunner' = o.rn /\ taskInit' = o.init
               /\ lastSent' = IF o.ok /\ index > 0 /\ lastSent = -1 THEN index - 1 ELSE lastSent
               /\ \/ taskRequest' = [taskRequest EXCEPT ![r] = goes]
                  \/ taskRequest' = [taskRequest EXCEPT ![r] = HlsTask!Idle]
  BY DEF HlsTask!EnsureInit, HlsTask!Becomes
<1>4. WellPlaced(goes) /\ goes.at # "catch up" BY <1>2 DEF WellPlaced
<1> HIDE DEF goes, index
<1>5. (taskRunner' = taskRunner /\ taskInit' = taskInit) \/ Runs(taskRunner', taskInit')
  <2>1. CASE o \in stays BY <1>3, <2>1 DEF HlsTask!Ends
  <2>2. CASE taskRunner # HlsTask!Gone /\ o \in HlsTask!RunnerInit(taskRunner, taskInit, index)
    <3>1. Runs(taskRunner, taskInit) BY <2>2 DEF TaskInv, RunnerRight
    <3>2. OutcomeRight(o) BY <1>2, <2>2, <3>1, RunnerInitRight
    <3> QED BY <1>3, <3>2 DEF OutcomeRight
  <2> QED BY <1>3, <2>1, <2>2
<1>6. lastSent' \in Int BY <1>2, <1>3 DEF TaskInv, LastRight
<1>7. CASE taskRequest' = [taskRequest EXCEPT ![r] = goes]
  BY <1>1, <1>4, <1>5, <1>6, <1>7, TaskMoves
<1>8. CASE taskRequest' = [taskRequest EXCEPT ![r] = HlsTask!Idle]
  BY <1>1, <1>5, <1>6, <1>8, IdleIsPlaced, TaskMoves
<1> QED BY <1>3, <1>7, <1>8

LEMMA SegmentKeeps ==
    ASSUME TaskInv, TaskSegments \in Nat, NEW r \in TaskRequests, HlsTask!Segment(r)
    PROVE  TaskInv'
<1> DEFINE index == taskRequest[r].index
<1>1. taskRequest[r].at = "segment" /\ HlsTask!Unlocked BY DEF HlsTask!Segment
<1>2. taskRequest[r] \in [at : {"segment", "catch up"}, index : Int] /\ index \in Int
  BY <1>1 DEF TaskInv, RequestsRight, WellPlaced
<1>3. taskRunner # HlsTask!Gone => Runs(taskRunner, taskInit) BY DEF TaskInv, RunnerRight
<1>4. CASE HlsTask!Ended(r) /\ UNCHANGED <<lastSent, taskRunner, taskInit>>
  <2>1. taskRequest' = [taskRequest EXCEPT ![r] = HlsTask!Idle] BY <1>4 DEF HlsTask!Ended
  <2>2. lastSent' \in Int BY <1>4 DEF TaskInv, LastRight
  <2> QED BY <1>1, <1>4, <2>1, <2>2, IdleIsPlaced, TaskMoves
<1>5. CASE taskRunner # HlsTask!Gone /\ HlsTask!Answer(taskRunner, taskInit, index) /\ HlsTask!Ended(r)
  BY <1>2, <1>3, <1>5, AnswerKeeps
<1>6. CASE /\ taskRunner # HlsTask!Gone
           /\ \E o \in HlsTask!Seek(taskRunner, taskInit, index) :
                IF o.ok THEN HlsTask!Answer(o.rn, o.init, index)
                ELSE HlsTask!Becomes(o) /\ UNCHANGED <<lastSent, served>>
           /\ HlsTask!Ended(r)
  <2>1. PICK o \in HlsTask!Seek(taskRunner, taskInit, index) :
          IF o.ok THEN HlsTask!Answer(o.rn, o.init, index)
          ELSE HlsTask!Becomes(o) /\ UNCHANGED <<lastSent, served>>
    BY <1>6
  <2>2. OutcomeRight(o) BY <1>2, <1>3, <1>6, <2>1, SeekRight
  <2>3. Runs(o.rn, o.init) BY <2>2 DEF OutcomeRight
  <2>4. CASE o.ok BY <1>2, <1>6, <2>1, <2>3, <2>4, AnswerKeeps
  <2>5. CASE ~ o.ok
    <3>1. taskRunner' = o.rn /\ taskInit' = o.init /\ lastSent' = lastSent BY <2>1, <2>5 DEF HlsTask!Becomes
    <3>2. taskRequest' = [taskRequest EXCEPT ![r] = HlsTask!Idle] BY <1>6 DEF HlsTask!Ended
    <3>3. lastSent' \in Int BY <3>1 DEF TaskInv, LastRight
    <3> QED BY <1>1, <2>3, <3>1, <3>2, <3>3, IdleIsPlaced, TaskMoves
  <2> QED BY <2>4, <2>5
<1>7. CASE /\ taskRunner # HlsTask!Gone /\ taskRequest' = [taskRequest EXCEPT ![r].at = "catch up"]
           /\ UNCHANGED <<lastSent, taskRunner, taskInit>>
  <2> DEFINE q == [taskRequest[r] EXCEPT !.at = "catch up"]
  <2>1. q \in [at : {"segment", "catch up"}, index : Int] /\ q.at = "catch up" BY <1>2
  <2>2. taskRequest' = [taskRequest EXCEPT ![r] = q] BY <1>7
  <2> HIDE DEF q
  <2>3. WellPlaced(q) BY <2>1 DEF WellPlaced
  <2>4. lastSent' \in Int BY <1>7 DEF TaskInv, LastRight
  <2> QED BY <1>1, <1>7, <2>2, <2>3, <2>4, TaskMoves
<1> QED BY <1>4, <1>5, <1>6, <1>7 DEF HlsTask!Segment

LEMMA CatchUpKeeps ==
    ASSUME TaskInv, TaskSegments \in Nat, NEW r \in TaskRequests, HlsTask!CatchUp(r)
    PROVE  TaskInv'
<1> DEFINE next == lastSent + 1
           index == taskRequest[r].index
<1>1. taskRequest[r].at = "catch up" BY DEF HlsTask!CatchUp
<1>2. index \in Int /\ Runs(taskRunner, taskInit)
  BY <1>1 DEF TaskInv, RequestsRight, WellPlaced, RunnerRight
<1>3. lastSent \in Int /\ next \in Int BY DEF TaskInv, LastRight
<1>4. \/ HlsTask!Answer(taskRunner, taskInit, index) /\ HlsTask!Ended(r)
      \/ \E o \in HlsTask!RunnerSegment(taskRunner, taskInit, next) :
           /\ HlsTask!Becomes(o)
           /\ lastSent' = IF o.ok THEN next ELSE lastSent
           /\ IF o.ok THEN taskRequest' = taskRequest ELSE HlsTask!Ended(r)
  BY DEF HlsTask!CatchUp
<1> HIDE DEF next, index
<1>5. CASE HlsTask!Answer(taskRunner, taskInit, index) /\ HlsTask!Ended(r)
  BY <1>2, <1>5, AnswerKeeps
<1>6. CASE \E o \in HlsTask!RunnerSegment(taskRunner, taskInit, next) :
             /\ HlsTask!Becomes(o)
             /\ lastSent' = IF o.ok THEN next ELSE lastSent
             /\ IF o.ok THEN taskRequest' = taskRequest ELSE HlsTask!Ended(r)
  <2>1. PICK o \in HlsTask!RunnerSegment(taskRunner, taskInit, next) :
             /\ HlsTask!Becomes(o)
             /\ lastSent' = IF o.ok THEN next ELSE lastSent
             /\ IF o.ok THEN taskRequest' = taskRequest ELSE HlsTask!Ended(r)
    BY <1>6
  <2>2. OutcomeRight(o) BY <1>2, <1>3, <2>1, RunnerSegmentRight
  <2>3. taskRunner' = o.rn /\ taskInit' = o.init BY <2>1 DEF HlsTask!Becomes
  <2>4. Runs(taskRunner', taskInit') BY <2>2, <2>3 DEF OutcomeRight
  <2>5. lastSent' \in Int BY <1>3, <2>1
  <2>6. taskRunner' # HlsTask!Gone BY <2>4, NotGone
  <2>7. CASE taskRequest' = taskRequest
    BY <2>4, <2>5, <2>6, <2>7 DEF TaskInv, RunnerRight, RequestsRight, WellPlaced, LastRight
  <2>8. CASE HlsTask!Ended(r)
    <3>1. taskRequest' = [taskRequest EXCEPT ![r] = HlsTask!Idle] BY <2>8 DEF HlsTask!Ended
    <3> QED BY <2>4, <2>5, <2>6, <3>1, IdleIsPlaced, TaskMoves
  <2> QED BY <2>1, <2>7, <2>8
<1> QED BY <1>4, <1>5, <1>6

LEMMA FreezeKeeps ==
    ASSUME TaskInv, HlsTask!Freeze
    PROVE  TaskInv'
<1>1. taskRunner # HlsTask!Gone /\ taskRunner' = HlsTask!FrozenAt(taskRunner, taskRunner.pos)
      /\ taskInit' = FALSE /\ lastSent' = lastSent /\ taskRequest' = taskRequest
  BY DEF HlsTask!Freeze
<1>2. taskRunner \in HlsRunner BY <1>1 DEF TaskInv, RunnerRight, Runs
<1>3. taskRunner.pos \in Int BY <1>2 DEF HlsRunner
<1>4. Runs(taskRunner', FALSE) BY <1>1, <1>2, <1>3, FrozenRight
<1>5. Runs(taskRunner', taskInit') BY <1>1, <1>4
<1>6. taskRunner' # HlsTask!Gone BY <1>5, NotGone
<1> QED BY <1>1, <1>5, <1>6 DEF TaskInv, RunnerRight, RequestsRight, WellPlaced, LastRight

LEMMA DisposeKeeps ==
    ASSUME TaskInv, HlsTask!Dispose
    PROVE  TaskInv'
<1>1. /\ taskRunner' = HlsTask!Gone /\ taskInit' = FALSE /\ lastSent' = lastSent /\ taskRequest' = taskRequest
      /\ \A r \in TaskRequests : taskRequest[r].at # "catch up"
  BY DEF HlsTask!Dispose, HlsTask!Unlocked
<1> QED BY <1>1 DEF TaskInv, RunnerRight, RequestsRight, WellPlaced, LastRight

LEMMA TaskStep ==
    ASSUME TaskInv, TaskSegments \in Nat, [HlsTask!Next]_(HlsTask!vars)
    PROVE  TaskInv'
<1>1. CASE UNCHANGED HlsTask!vars
  BY <1>1 DEF HlsTask!vars, TaskInv, RunnerRight, RequestsRight, WellPlaced, LastRight
<1>2. CASE HlsTask!MarkDisposed
  BY <1>2 DEF HlsTask!MarkDisposed, TaskInv, RunnerRight, RequestsRight, WellPlaced, LastRight
<1>3. CASE HlsTask!Freeze BY <1>3, FreezeKeeps
<1>4. CASE HlsTask!Dispose BY <1>4, DisposeKeeps
<1>5. CASE \E r \in TaskRequests :
             \/ \E index \in HlsTask!Indexes : HlsTask!InitRequest(r, index) \/ HlsTask!SegmentRequest(r, index)
             \/ HlsTask!EnsureInit(r)
             \/ HlsTask!Segment(r)
             \/ HlsTask!CatchUp(r)
  BY <1>5, RequestKeeps, EnsureInitKeeps, SegmentKeeps, CatchUpKeeps
<1> QED BY <1>1, <1>2, <1>3, <1>4, <1>5 DEF HlsTask!Next

\* Whatever stops a task's pipeline - a freeze, an error, a disposal - takes its init
\* segment back, in whatever order requests for the init segment and for segments, seeks
\* and catching up come between (service.rs:509-538, pipeline.rs:1337-1357).
THEOREM InitStaysCurrent ==
    ASSUME TaskSegments \in Nat
    PROVE  HlsTask!Spec => []HlsTask!InitIsCurrent
<1>1. HlsTask!Init => TaskInv
  <2> SUFFICES ASSUME HlsTask!Init PROVE TaskInv OBVIOUS
  <2>1. /\ lastSent = -1 /\ taskRunner = HlsTask!New /\ taskInit = FALSE
        /\ taskRequest = [r \in TaskRequests |-> HlsTask!Idle]
    BY DEF HlsTask!Init
  <2>2. HlsTask!New \in HlsRunner /\ ~ HlsTask!New.playing
    BY DEF HlsTask!New, HlsTask!NotReady, HlsRunner
  <2>3. RunnerRight BY <2>1, <2>2 DEF RunnerRight, Runs
  <2>4. RequestsRight BY <2>1, IdleIsPlaced DEF RequestsRight
  <2>5. LastRight BY <2>1 DEF LastRight
  <2> QED BY <2>3, <2>4, <2>5 DEF TaskInv
<1>2. TaskInv /\ [HlsTask!Next]_(HlsTask!vars) => TaskInv' BY TaskStep
<1>3. TaskInv => HlsTask!InitIsCurrent BY NotGone DEF TaskInv, RunnerRight, HlsTask!InitIsCurrent, Runs
<1> QED BY <1>1, <1>2, <1>3, PTL DEF HlsTask!Spec
-----------------------------------------------------------------------------
(* Probe: the callers of one file's probe and the discoverer.                  *)

CONSTANTS ProbeCallers, Reports, ProbeConfigs, Sizes, NoProbe

VARIABLES probeConfig, cached, probing, asker, size

Prober == INSTANCE Probe WITH
    Callers <- ProbeCallers, Configs <- ProbeConfigs, None <- NoProbe, config <- probeConfig

\* The caller that runs the discoverer holds probe_calls, and whoever holds it does.
ProbeInv ==
    /\ DOMAIN asker = ProbeCallers /\ probing \in ProbeCallers \cup {NoProbe}
    /\ Prober!OneDiscoverer

\* A caller moves to a place where it runs no discoverer, and no other loses probe_calls.
LEMMA AskerMoves ==
    ASSUME ProbeInv, NEW c \in ProbeCallers, NEW at, asker' = [asker EXCEPT ![c] = at],
           NoProbe \notin ProbeCallers,
           \/ at.at = "discovering" /\ probing = NoProbe /\ probing' = c
           \/ at.at # "discovering" /\ probing = c /\ probing' = NoProbe
           \/ at.at # "discovering" /\ probing # c /\ probing' = probing
    PROVE  ProbeInv'
<1>1. asker'[c] = at /\ \A k \in ProbeCallers \ {c} : asker'[k] = asker[k] BY DEF ProbeInv
<1>2. DOMAIN asker' = ProbeCallers BY DEF ProbeInv
<1>3. ASSUME NEW k \in ProbeCallers, asker'[k].at = "discovering" PROVE probing' = k
  <2>1. CASE k = c BY <1>1, <1>3, <2>1
  <2>2. CASE k # c BY <1>1, <1>3, <2>2 DEF ProbeInv, Prober!OneDiscoverer
  <2> QED BY <2>1, <2>2
<1>4. ASSUME probing' # NoProbe PROVE asker'[probing'].at = "discovering"
  <2>1. CASE probing' = c BY <1>1, <1>4, <2>1
  <2>2. CASE probing' # c
    <3>1. probing' = probing /\ asker[probing].at = "discovering"
      BY <1>4, <2>2 DEF ProbeInv, Prober!OneDiscoverer
    <3>2. probing \in ProbeCallers \ {c} BY <1>4, <2>2, <3>1 DEF ProbeInv
    <3> QED BY <1>1, <3>1, <3>2
  <2> QED BY <2>1, <2>2
<1>5. probing' \in ProbeCallers \cup {NoProbe} BY DEF ProbeInv
<1> QED BY <1>2, <1>3, <1>4, <1>5 DEF ProbeInv, Prober!OneDiscoverer

\* A caller that runs no discoverer holds nothing, and may go anywhere but there.
LEMMA OthersMove ==
    ASSUME ProbeInv, NoProbe \notin ProbeCallers, NEW c \in ProbeCallers, NEW at,
           asker[c].at # "discovering", asker' = [asker EXCEPT ![c] = at],
           at.at # "discovering", probing' = probing
    PROVE  ProbeInv'
<1>1. probing # c BY DEF ProbeInv, Prober!OneDiscoverer
<1> QED BY <1>1, AskerMoves

LEMMA FoundKeeps ==
    ASSUME ProbeInv, NoProbe \notin ProbeCallers, NEW c \in ProbeCallers,
           asker[c].at # "discovering", Prober!Found(c), probing' = probing
    PROVE  ProbeInv'
<1> DEFINE at == [at |-> "found", probe |-> cached, report |-> NoProbe]
<1>1. asker' = [asker EXCEPT ![c] = at] BY DEF Prober!Found, Prober!Goes
<1>2. at.at # "discovering" OBVIOUS
<1> HIDE DEF at
<1> QED BY <1>1, <1>2, OthersMove

LEMMA AskKeeps ==
    ASSUME ProbeInv, NoProbe \notin ProbeCallers, NEW c \in ProbeCallers, Prober!Ask(c)
    PROVE  ProbeInv'
<1> DEFINE at == [at |-> "queued"]
<1>1. /\ asker[c].at # "discovering" /\ probing' = probing
      /\ Prober!Found(c) \/ asker' = [asker EXCEPT ![c] = at]
  BY DEF Prober!Ask, Prober!Goes
<1>2. at.at # "discovering" OBVIOUS
<1> HIDE DEF at
<1> QED BY <1>1, <1>2, OthersMove, FoundKeeps

\* probe_calls is free, and the caller that takes it runs the discoverer.
LEMMA EnterKeeps ==
    ASSUME ProbeInv, NoProbe \notin ProbeCallers, NEW c \in ProbeCallers, Prober!Enter(c)
    PROVE  ProbeInv'
<1> DEFINE at == [at |-> "discovering"]
<1>1. asker[c].at # "discovering" /\ probing = NoProbe BY DEF Prober!Enter
<1>2. \/ Prober!Found(c) /\ probing' = probing
      \/ asker' = [asker EXCEPT ![c] = at] /\ probing' = c
  BY DEF Prober!Enter, Prober!Goes
<1>3. at.at = "discovering" OBVIOUS
<1> HIDE DEF at
<1> QED BY <1>1, <1>2, <1>3, AskerMoves, FoundKeeps

LEMMA DiscoverKeeps ==
    ASSUME ProbeInv, NoProbe \notin ProbeCallers, NEW c \in ProbeCallers, NEW report,
           Prober!Discover(c, report)
    PROVE  ProbeInv'
<1> DEFINE a == [at |-> "done", probe |-> NoProbe]
           b == [at |-> "found", probe |-> Prober!FromDiscoverer(report), report |-> report]
<1>1. asker[c].at = "discovering" /\ probing' = NoProbe BY DEF Prober!Discover
<1>2. probing = c BY <1>1 DEF ProbeInv, Prober!OneDiscoverer
<1>3. asker' = [asker EXCEPT ![c] = a] \/ asker' = [asker EXCEPT ![c] = b]
  BY DEF Prober!Discover, Prober!Goes
<1>4. a.at # "discovering" /\ b.at # "discovering" OBVIOUS
<1> HIDE DEF a, b
<1> QED BY <1>1, <1>2, <1>3, <1>4, AskerMoves

LEMMA FinishKeeps ==
    ASSUME ProbeInv, NoProbe \notin ProbeCallers, NEW c \in ProbeCallers, Prober!Finish(c)
    PROVE  ProbeInv'
<1>1. PICK p : asker' = [asker EXCEPT ![c] = [at |-> "done", probe |-> p]]
  BY DEF Prober!Finish, Prober!Goes
<1> DEFINE at == [at |-> "done", probe |-> p]
<1>2. at.at # "discovering" OBVIOUS
<1>3. asker[c].at # "discovering" /\ probing' = probing BY DEF Prober!Finish
<1> HIDE DEF at
<1> QED BY <1>1, <1>2, <1>3, OthersMove DEF at

\* Who gives up while its discoverer runs gives up probe_calls with it.
LEMMA GiveUpKeeps ==
    ASSUME ProbeInv, NoProbe \notin ProbeCallers, NEW c \in ProbeCallers, Prober!GiveUp(c)
    PROVE  ProbeInv'
<1>1. asker' = [asker EXCEPT ![c] = Prober!Idle] BY DEF Prober!GiveUp, Prober!Goes
<1>2. Prober!Idle.at # "discovering" BY DEF Prober!Idle
<1>3. CASE probing = c
  <2>1. probing' = NoProbe BY <1>3 DEF Prober!GiveUp
  <2> QED BY <1>1, <1>2, <1>3, <2>1, AskerMoves
<1>4. CASE probing # c
  <2>1. probing' = probing BY <1>4 DEF Prober!GiveUp
  <2> QED BY <1>1, <1>2, <1>4, <2>1, AskerMoves
<1> QED BY <1>3, <1>4

\* However many requests ask for a file's probe at once, one discoverer runs for it: the
\* cache that is looked at before and after the wait, the entry that expires, the caller
\* that leaves, and the lock that is given up before the probe is stored let no second
\* one in, and nobody who runs none holds the lock (service.rs:831-845).
THEOREM OneDiscovererRuns ==
    ASSUME NoProbe \notin ProbeCallers
    PROVE  Prober!Spec => []Prober!OneDiscoverer
<1>1. Prober!Init => ProbeInv
  <2>1. Prober!Idle.at # "discovering" BY DEF Prober!Idle
  <2> QED BY <2>1 DEF Prober!Init, ProbeInv, Prober!OneDiscoverer
<1>2. ASSUME ProbeInv, [Prober!Next]_(Prober!vars) PROVE ProbeInv'
  <2>1. CASE UNCHANGED <<probing, asker>> BY <1>2, <2>1 DEF ProbeInv, Prober!OneDiscoverer
  <2>2. CASE \E c \in ProbeCallers :
               \/ Prober!Ask(c) \/ Prober!Enter(c) \/ Prober!Finish(c) \/ Prober!GiveUp(c)
               \/ \E report \in Reports : Prober!Discover(c, report)
    BY <1>2, <2>2, AskKeeps, EnterKeeps, FinishKeeps, DiscoverKeeps, GiveUpKeeps
  <2> QED BY <1>2, <2>1, <2>2
       DEF Prober!Next, Prober!vars, Prober!Expire, Prober!Configure, Prober!Resize
<1> QED BY <1>1, <1>2, PTL DEF Prober!Spec, ProbeInv
=============================================================================
