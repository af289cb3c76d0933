----------------------------- MODULE GstService -----------------------------
(***************************************************************************)
(* The registry of HLS tasks: at most one per torrent, made on demand by   *)
(* requests that run side by side, limited in number, swept when idle      *)
(* (crates/rustorr-gstreamer/src/service.rs Service).                      *)
(*                                                                         *)
(* A step is what runs under one lock or between two awaits.  A task's     *)
(* times of last use are the order they induce, `order`; `idle` holds the  *)
(* tasks unused for longer than the sweep's cutoff.  Service::dispose has no caller in  *)
(* the program and is left out.                                            *)
(***************************************************************************)
EXTENDS Integers, FiniteSets

CONSTANTS
    Hashes,     \* torrents
    Keys,       \* a file and an audio track
    Callers,    \* requests that need a task (get_or_add)
    Admin,      \* the settings request (update_config)
    Pool,       \* names for the tasks that exist together
    Limits,     \* values of max_tasks; 0 is no limit
    None

ASSUME GstAssumption ==
    /\ None \notin Pool \cup Callers /\ Admin \notin Callers
    /\ IsFiniteSet(Hashes) /\ Limits \subseteq Nat

VARIABLES
    tasks,      \* Service.tasks: hash -> task
    task,       \* task -> [hash, key, state]
    order,      \* pairs of tasks: the first was last used before the second
    idle,       \* tasks unused since the cutoff
    limit,      \* Config.max_tasks
    caller,     \* caller -> where its call is
    creating,   \* who holds task_calls
    sweep       \* what a sweep under way still has to look at

vars == <<tasks, task, order, idle, limit, caller, creating, sweep>>

Free == [state |-> "free"]
Waiting == [at |-> "idle"]

Init ==
    /\ tasks = [h \in Hashes |-> None]
    /\ task = [t \in Pool |-> Free]
    /\ order = {}
    /\ idle = {}
    /\ limit \in Limits
    /\ caller = [c \in Callers \cup {Admin} |-> Waiting]
    /\ creating = None
    /\ sweep = {}

Live == {t \in Pool : task[t].state = "live"}
Mapped == {tasks[h] : h \in Hashes} \ {None}

\* Made and not yet in the registry.
Built == {caller[c].task : c \in {d \in Callers : caller[d].at = "built"}}

TypeOK ==
    /\ \A h \in Hashes : tasks[h] # None => task[tasks[h]].hash = h
    /\ \A t \in Pool : task[t].state \in {"free", "live", "leaving"}
    /\ limit \in Limits
    /\ order \subseteq Live \X Live
    /\ \A t, u \in Live : t = u <=> <<t, u>> \notin order /\ <<u, t>> \notin order
    /\ \A t, u, v \in Live : <<t, u>> \in order /\ <<u, v>> \in order => <<t, v>> \in order

\* update_last_active.
Touched(t) == /\ order' = {p \in order : t \notin {p[1], p[2]}} \cup ((Live \ {t}) \X {t})
              /\ idle' = idle \ {t}

\* matching_task: this torrent's task is for this file and audio track.
Matches(h, k) == tasks[h] # None /\ task[tasks[h]].key = k /\ task[tasks[h]].state = "live"

\* dispose_blocking: the disposal is queued, and the time of use says no more.
Leaving(set) ==
    /\ task' = [t \in Pool |-> IF t \in set THEN [state |-> "leaving"] ELSE task[t]]
    /\ order' = {p \in order : p[1] \notin set /\ p[2] \notin set}
    /\ idle' = idle \ set

Goes(c, at) == caller' = [caller EXCEPT ![c] = at]

-----------------------------------------------------------------------------
(* get_or_add. *)

\* A task that matches is the answer; otherwise the caller queues for task_calls.
Ask(c, h, k) ==
    /\ caller[c] = Waiting
    /\ IF Matches(h, k)
       THEN Touched(tasks[h]) /\ UNCHANGED caller
       ELSE /\ Goes(c, [at |-> "queued", hash |-> h, key |-> k])
            /\ UNCHANGED <<order, idle>>
    /\ UNCHANGED <<tasks, task, limit, creating, sweep>>

\* Faulty variant: what was created during the wait is not looked at.
Enter_NoRecheck(c) ==
    /\ caller[c].at = "queued"
    /\ creating = None
    /\ creating' = c
    /\ Goes(c, [caller[c] EXCEPT !.at = "probing"])
    /\ UNCHANGED <<order, idle, tasks, task, limit, sweep>>

\* task_calls is taken; the task may have been made meanwhile.
Enter(c) ==
    /\ caller[c].at = "queued"
    /\ creating = None
    /\ IF Matches(caller[c].hash, caller[c].key)
       THEN /\ Touched(tasks[caller[c].hash])
            /\ Goes(c, Waiting)
            /\ UNCHANGED creating
       ELSE /\ creating' = c
            /\ Goes(c, [caller[c] EXCEPT !.at = "probing"])
            /\ UNCHANGED <<order, idle>>
    /\ UNCHANGED <<tasks, task, limit, sweep>>

\* The probe, the cue timeline and the runner; any of them may fail, and so does
\* the probe of a closed service.
Build(c) ==
    /\ caller[c].at = "probing"
    /\ \/ \E t \in Pool :
            /\ task[t] = Free
            /\ task' = [task EXCEPT ![t] = [state |-> "live", hash |-> caller[c].hash,
                                            key |-> caller[c].key]]
            /\ order' = order \cup (Live \X {t})
            /\ Goes(c, [at |-> "built", hash |-> caller[c].hash, key |-> caller[c].key, task |-> t])
            /\ UNCHANGED creating
       \/ /\ Goes(c, Waiting)
          /\ creating' = None
          /\ UNCHANGED <<task, order>>
    /\ UNCHANGED <<tasks, idle, limit, sweep>>

\* Faulty variant: the task that was there before is forgotten.
Insert_ForgetsReplaced(c) ==
    /\ caller[c].at = "built"
    /\ tasks' = [tasks EXCEPT ![caller[c].hash] = caller[c].task]
    /\ Goes(c, [at |-> "evict", hash |-> caller[c].hash])
    /\ UNCHANGED <<task, order, idle, limit, creating, sweep>>

\* The task enters the registry; the one it replaces is disposed of.
Insert(c) ==
    /\ caller[c].at = "built"
    /\ tasks' = [tasks EXCEPT ![caller[c].hash] = caller[c].task]
    /\ Leaving({tasks[caller[c].hash]})
    /\ Goes(c, [at |-> "evict", hash |-> caller[c].hash])
    /\ UNCHANGED <<limit, creating, sweep>>

\* evict_for_limit, first: the limit is read before the registry is locked.
ReadLimit(c) ==
    /\ caller[c].at = "evict"
    /\ Goes(c, [at |-> "evicting", hash |-> caller[c].hash, limit |-> limit])
    /\ UNCHANGED <<tasks, task, order, idle, limit, creating, sweep>>

\* The tasks that go: the ones used longest ago, never the protected one.
Evicted(lim, protected) ==
    LET candidates == Mapped \ protected
        over == Cardinality(Mapped) - lim
    IN  {t \in candidates :
           lim # 0 /\ Cardinality({u \in candidates : <<u, t>> \in order}) < over}

\* evict_for_limit, then: the registry is cut to the limit that was read.
Evict(c) ==
    /\ caller[c].at = "evicting"
    /\ LET out == Evicted(caller[c].limit, IF c = Admin THEN {} ELSE {tasks[caller[c].hash]}) IN
       /\ tasks' = [h \in Hashes |-> IF tasks[h] \in out THEN None ELSE tasks[h]]
       /\ Leaving(out)
    /\ Goes(c, Waiting)
    /\ creating' = IF creating = c THEN None ELSE creating
    /\ UNCHANGED <<limit, sweep>>

-----------------------------------------------------------------------------
(* The other operations. *)

\* get: any request of a player.
Get(h) ==
    /\ tasks[h] # None
    /\ task[tasks[h]].state = "live"
    /\ Touched(tasks[h])
    /\ UNCHANGED <<tasks, task, limit, caller, creating, sweep>>

\* Faulty variant: the removed task is not shut down.
TryRemove_KeepsRunning(h) ==
    /\ tasks[h] # None
    /\ tasks' = [tasks EXCEPT ![h] = None]
    /\ task' = [task EXCEPT ![tasks[h]] = Free]
    /\ UNCHANGED <<order, idle, limit, caller, creating, sweep>>

\* try_remove: /gst/remove, and the torrent's removal, drop or wipe.
TryRemove(h) ==
    /\ tasks[h] # None
    /\ tasks' = [tasks EXCEPT ![h] = None]
    /\ Leaving({tasks[h]})
    /\ UNCHANGED <<limit, caller, creating, sweep>>

\* update_config: the new limit, then evict_for_limit.
UpdateConfig(l) ==
    /\ caller[Admin] = Waiting
    /\ limit' = l
    /\ Goes(Admin, [at |-> "evict", hash |-> None])
    /\ UNCHANGED <<tasks, task, order, idle, creating, sweep>>

\* Time passes: a task is unused for longer than the cutoff.
GoesIdle(t) ==
    /\ task[t].state = "live" /\ t \notin idle
    /\ idle' = idle \cup {t}
    /\ UNCHANGED <<tasks, task, order, limit, caller, creating, sweep>>

\* cleanup_inactive: a snapshot of the idle tasks.
Sweep ==
    /\ sweep = {}
    /\ sweep' = {<<h, tasks[h]>> : h \in {g \in Hashes : tasks[g] \in idle}}
    /\ sweep' # {}
    /\ UNCHANGED <<tasks, task, order, idle, limit, caller, creating>>

\* Each is removed if it is still the registry's task and still idle.
SweepOne(h, t) ==
    /\ <<h, t>> \in sweep
    /\ sweep' = sweep \ {<<h, t>>}
    /\ IF tasks[h] = t /\ t \in idle
       THEN tasks' = [tasks EXCEPT ![h] = None] /\ Leaving({t})
       ELSE UNCHANGED <<tasks, task, order, idle>>
    /\ UNCHANGED <<limit, caller, creating>>

\* Task::dispose where it was queued; then the last reference goes.
Dispose(t) ==
    /\ task[t].state = "leaving"
    /\ \A h \in Hashes : <<h, t>> \notin sweep
    /\ task' = [task EXCEPT ![t] = Free]
    /\ UNCHANGED <<tasks, order, idle, limit, caller, creating, sweep>>

Next ==
    \/ \E c \in Callers :
         \/ \E h \in Hashes, k \in Keys : Ask(c, h, k)
         \/ Enter(c)
         \/ Build(c)
         \/ Insert(c)
    \/ \E c \in Callers \cup {Admin} : ReadLimit(c) \/ Evict(c)
    \/ \E h \in Hashes : Get(h) \/ TryRemove(h)
    \/ \E l \in Limits : UpdateConfig(l)
    \/ \E t \in Pool : GoesIdle(t) \/ Dispose(t)
    \/ Sweep
    \/ \E h \in Hashes, t \in Pool : SweepOne(h, t)

Spec == Init /\ [][Next]_vars

-----------------------------------------------------------------------------
(* Properties. *)

\* Every pipeline has an owner that will stop it: a task that is neither in the
\* registry nor on its way out is still in the hands of the request that made it
\* (service.rs:774-780, 794-815).
NoOrphans ==
    \A t \in Pool : task[t].state = "live" => t \in Mapped \cup Built

\* No more tasks than the limit once everyone who added one or changed it has
\* evicted (service.rs:658-668, 774-815).
LimitKept ==
    (limit > 0 /\ \A c \in Callers \cup {Admin} : caller[c].at \notin {"evict", "evicting"})
      => Cardinality(Mapped) <= limit

\* Every pipeline has an owner, and no more of them are kept than are allowed.
HlsRight == NoOrphans /\ LimitKept

\* A player is never cut off by another request for the very stream it watches,
\* nor by a sweep that saw its task idle before it came back: a task in use leaves
\* the registry for another file, for the limit, on a removal or at the end
\* (service.rs:732-735, 894-910).
InUseStays ==
    [][\A h \in Hashes :
         LET t == tasks[h] IN
         (t # None /\ tasks'[h] # t)
           => \/ sweep' = sweep /\ (tasks'[h] = None \/ task'[tasks'[h]].key # task[t].key)
              \/ sweep' # sweep /\ t \in idle]_vars
=============================================================================
