------------------------- MODULE Coordinator_proofs -------------------------
(***************************************************************************)
(* Theorems about Coordinator, for any number of torrents, requests,       *)
(* readers, tasks and timers: the gate, whatever Faults holds; and the     *)
(* owners of bytes, for the faults the code keeps in order.                *)
(***************************************************************************)
EXTENDS Coordinator, Cache_proofs

-----------------------------------------------------------------------------
(* The inductive invariant.  *)

\* Labels at which a process has the gate in hand.
Inside == {"adding", "initing", "opening", "prefetching", "stopping", "grace",
           "purging", "sweep"}

\* Labels of an operation on the torrent in the on field.
Working == (Inside \ {"sweep"}) \cup {"start", "pinning", "reading", "sleep"}

Loading == {"want", "adding", "initing", "opening"}
Deleting == {"stopping", "grace", "purging"}

\* Labels of a look-ahead task before it asks for the gate, and of who uses a torrent.
Looking == {"start", "pinning", "reading"}
Using == Looking \cup {"open"}

\* What a process of each kind may stand at, and what its fields hold there.
WellFormed(p, s) ==
    /\ s \in Process
    /\ s.at = "idle" => s = Rest
    /\ s.at \in Working => s.on \in Torrents
    /\ s.at = "want" => s.kind = "trim" \/ (s.kind \in RequestKinds /\ s.on \in Torrents)
    /\ s.at \in {"adding", "initing"} => s.kind \in {"add", "addSave", "play"} \cup Removes
    /\ s.at \in {"opening", "prefetching"} => s.kind = "play"
    /\ s.at \in Deleting => s.kind \in Drops \cup Removes \cup Evicts
    /\ s.at = "sweep" => s.kind = "trim"
    /\ s.at = "next" => s.kind \in {"wipe", "settings"}
    /\ s.reader # None <=> s.kind = "play" /\ s.at \in Loading \cup {"prefetching"}
    /\ p \in Clients =>
         s.at \in Inside \cup {"idle", "want", "next"}
    /\ p \in Readers =>
         /\ s.at \in Deleting \cup {"idle", "open", "want", "sweep", "sched", "arming"}
         /\ s.at # "idle" => s.home \in Torrents
         /\ s.at \in Deleting \cup {"want"} => s.kind = "trim"
    /\ p \in Prefetchers =>
         /\ s.at \in Deleting \cup Looking \cup {"idle", "want", "sweep"}
         /\ s.at \in Deleting \cup {"want"} => s.kind = "trim"
         /\ s.at = "want" => s.on = None
    /\ p \in Timers =>
         /\ s.at \in Deleting \cup {"idle", "sleep", "want"}
         /\ s.at \in Deleting \cup {"want"} => s.kind = "drop"

Shapes == \A p \in Procs : WellFormed(p, proc[p])

\* The gate is with the process that stands inside it, if any.
GateHeld == \A p \in Procs : proc[p].at \in Inside <=> gate = p

\* A play request has its reader to itself until it returns it.
Claims ==
    \A p \in Procs : proc[p].reader # None =>
      /\ At(proc[p].reader, IF At(p, "prefetching") THEN "open" ELSE "idle")
      /\ \A q \in Procs : proc[q].reader = proc[p].reader => p = q

\* The timers and the tasks that are listed are running.
TimersListed ==
    \A t \in Torrents : idles[t] # None => At(idles[t], "sleep") /\ proc[idles[t]].on = t

PrefetchListed ==
    /\ \A t \in Torrents : prefetches[t] # None =>
         /\ proc[prefetches[t]].at \in {"start", "reading"} /\ proc[prefetches[t]].on = t
         /\ prefetches[t] \notin Astray
    /\ \A f \in Prefetchers :
         proc[f].at \in {"start", "reading"} /\ f \notin Astray => prefetches[proc[f].on] = f

\* A task that went astray is still at it, and only a disconnecting client left it so.
LostOK ==
    /\ detached \in SUBSET Prefetchers /\ aborted \in SUBSET Prefetchers
    /\ detached \cap aborted = {}
    /\ \A f \in detached : proc[f].at \in Looking
    /\ \A f \in aborted : proc[f].at # "idle"
    /\ \A f \in Prefetchers : proc[f].at = "pinning" => f \in Astray
    /\ AstrayByCancel

\* Who holds a Pin.
ViewsHeld ==
    /\ \A r \in Readers : view[r] # None <=> At(r, "open")
    /\ \A f \in Prefetchers :
         /\ view[f] # None <=> At(f, "reading")
         /\ view[f] # None => view[f] = proc[f].on

\* Past ensure_unpinned nothing is left that uses the torrent but what is astray.
Alone(t) == prefetches[t] = None /\ \A v \in Views : view[v] = t => v \in Astray

DeletesAlone == \A p \in Procs : proc[p].at \in {"grace", "purging"} => Alone(proc[p].on)

BooksOK ==
    /\ booted \in BOOLEAN
    /\ saved \in SUBSET Torrents /\ live \in SUBSET Torrents
    /\ loaded \in SUBSET Torrents /\ session \in SUBSET Torrents
    /\ removeOnDrop \in BOOLEAN

TasksOK ==
    /\ gate \in Procs \cup {None}
    /\ prefetches \in [Torrents -> Prefetchers \cup {None}]
    /\ idles \in [Torrents -> Timers \cup {None}]
    /\ proc \in [Procs -> Process]

ProcInv ==
    /\ TasksOK /\ Shapes /\ GateHeld /\ Claims /\ TimersListed /\ PrefetchListed
    /\ LostOK /\ ViewsHeld /\ DeletesAlone

GateInv == PinInv /\ BooksOK /\ ProcInv /\ WatchedIsServed

\* One process p moves on, perhaps with timers aborted.
Moves(p) ==
    /\ proc' \in [Procs -> Process] /\ WellFormed(p, proc'[p])
    /\ \A q \in Procs \ {p} :
         \/ proc'[q] = proc[q]
         \/ q \in Timers /\ At(q, "sleep") /\ proc'[q] = Rest
                         /\ \A t \in Torrents : idles'[t] # q
    /\ idles' \in [Torrents -> Timers \cup {None}]
    /\ \A t \in Torrents : idles'[t] \in {idles[t], None} /\ idles'[t] # p
    /\ gate' = IF proc'[p].at \in Inside THEN p ELSE IF gate = p THEN None ELSE gate
    /\ gate' = p => gate \in {p, None}
    /\ p \in Readers => ~At(p, "idle")
    /\ proc'[p].reader \in {proc[p].reader, None}
    /\ proc'[p].reader = None \/ "prefetching" \notin {proc[p].at, proc'[p].at}
    /\ proc[p].at \notin Using /\ proc'[p].at \notin Using
    /\ proc'[p].at \in {"grace", "purging"} => Alone(proc'[p].on)
    /\ aborted' \in {aborted, aborted \ {p}} /\ (p \in aborted' => proc'[p].at # "idle")
    /\ UNCHANGED <<prefetches, detached, view>>

LEMMA RestFits == \A p \in Procs : WellFormed(p, Rest)
BY DEF WellFormed, Rest, Process, Labels, Working, Inside, Loading, Looking, Deleting

\* A record keeps its other fields when its label changes.
LEMMA Relabel ==
    ASSUME NEW s \in Process, NEW label \in Labels
    PROVE  LET u == [s EXCEPT !.at = label]
           IN  u \in Process /\ u.at = label /\ u.kind = s.kind /\ u.on = s.on
               /\ u.todo = s.todo /\ u.reader = s.reader /\ u.home = s.home
BY DEF Process

LEMMA MovesKeeps ==
    ASSUME ProcInv, NEW p \in Procs, Moves(p)
    PROVE  ProcInv'
<1> USE DEF ProcInv, Moves
<1>1. TasksOK'
  BY DEF TasksOK
<1>2. Shapes'
  BY RestFits DEF Shapes
<1>3. GateHeld'
  BY CoordinatorConstants DEF GateHeld, TasksOK, Rest, Inside, At
<1>4. Claims'
  <2>1. \A q \in Procs : proc'[q].reader \in {proc[q].reader, None}
    BY DEF Rest
  <2>2. ASSUME NEW q \in Procs, proc[q].reader # None
        PROVE  proc'[proc[q].reader] = proc[proc[q].reader]
    <3>1. proc[q].reader \in Readers
      BY <2>2 DEF TasksOK, Process
    <3>2. proc[q].reader # p /\ proc[q].reader \notin Timers /\ proc[q].reader \in Procs
      BY <2>2, <3>1, CoordinatorConstants DEF Claims, Procs, At, Using
    <3> QED  BY <3>2
  <2>3. ASSUME NEW q \in Procs, proc'[q].reader # None
        PROVE  proc[q].reader = proc'[q].reader /\ (At(q, "prefetching")' <=> At(q, "prefetching"))
    BY <2>1, <2>3 DEF Rest, At
  <2> QED  BY <2>1, <2>2, <2>3 DEF Claims, At
<1>5. TimersListed'
  BY CoordinatorConstants DEF TimersListed, TasksOK, At, Procs
<1>6. PrefetchListed'
  BY CoordinatorConstants DEF PrefetchListed, TasksOK, At, Procs, Astray, Using, Looking
<1>7. ViewsHeld'
  BY CoordinatorConstants DEF ViewsHeld, TasksOK, At, Procs, Using, Looking
<1>8. LostOK'
  BY CoordinatorConstants DEF LostOK, AstrayByCancel, Astray, Using, Looking, TasksOK, Procs
<1>9. DeletesAlone'
  <2>1. \A v \in Views : view[v] # None => v # p
    BY CoordinatorConstants DEF ViewsHeld, At, Using, Looking
  <2>2. ASSUME NEW t \in Torrents, Alone(t)
        PROVE  Alone(t)'
    BY <2>1, <2>2, CacheConstants DEF Alone, Astray
  <2>3. ASSUME NEW q \in Procs, proc'[q].at \in {"grace", "purging"}
        PROVE  proc'[q].on \in Torrents /\ Alone(proc'[q].on)
    BY <1>2, <2>3 DEF DeletesAlone, Rest, Shapes, WellFormed, Working, Inside
  <2> QED  BY <2>2, <2>3 DEF DeletesAlone
<1> QED  BY <1>1, <1>2, <1>3, <1>4, <1>5, <1>6, <1>7, <1>8, <1>9

\* An operation on one torrent returns.
LEMMA ReturnMoves ==
    ASSUME ProcInv, NEW p \in Procs, NEW outcome,
           proc[p].at \in Inside \/ (At(p, "want") /\ gate = None /\ proc[p].kind # "trim"),
           Return(p, outcome), UNCHANGED <<tasks, view>>
    PROVE  Moves(p)
<1> USE DEF ProcInv, TasksOK
<1> DEFINE s == proc[p]
<1>1. WellFormed(p, s) /\ s \in Process /\ (s.at \in Inside <=> gate = p)
  BY DEF Shapes, GateHeld
<1> DEFINE u == IF s.kind = "trim" THEN [s EXCEPT !.at = "sweep"]
                 ELSE IF \/ s.kind = "settings" /\ outcome # "failed"
                         \/ s.kind = "wipe" /\ outcome = "ok"
                      THEN [s EXCEPT !.at = "next"]
                      ELSE Rest
<1>2. proc' = [proc EXCEPT ![p] = u]
  BY DEF Return
<1>3. WellFormed(p, u)
  <2>1. CASE s.kind = "trim"
    <3>1. u \in Process /\ u.at = "sweep" /\ u.kind = "trim" /\ u.reader = s.reader /\ u.home = s.home
      BY <1>1, <2>1 DEF Labels, Process
    <3>2. s.reader = None /\ p \notin Timers /\ (p \in Readers => s.home \in Torrents)
      BY <1>1, <2>1 DEF WellFormed, Inside, Deleting, At
    <3> HIDE DEF u
    <3> QED  BY <3>1, <3>2 DEF WellFormed, Inside, Working, Deleting, Loading, Looking
  <2>2. CASE s.kind \in {"settings", "wipe"} /\ u # Rest
    <3>0. u = [s EXCEPT !.at = "next"] /\ "next" \in Labels
      BY <2>2 DEF Labels
    <3>1. u \in Process /\ u.at = "next" /\ u.kind = s.kind /\ u.reader = s.reader
      <4> HIDE DEF u, s
      <4> QED  BY <1>1, <3>0, Relabel
    <3>2. s.reader = None /\ p \notin Readers \cup Prefetchers \cup Timers
      BY <1>1, <2>2 DEF WellFormed, Inside, Deleting, Looking, At
    <3> HIDE DEF u
    <3> QED  BY <2>2, <3>1, <3>2 DEF WellFormed, Inside, Working, Deleting, Loading, Looking
  <2> QED  BY <2>1, <2>2, RestFits
<1>4. proc'[p] = u /\ proc' \in [Procs -> Process] /\ \A q \in Procs \ {p} : proc'[q] = proc[q]
  BY <1>2, <1>3 DEF WellFormed
<1>5. u.at \in {"idle", "next", "sweep"} /\ (u.at = "sweep" <=> s.kind = "trim")
  BY <1>1 DEF Rest, Process
<1>6. u.reader \in {s.reader, None}
  BY <1>1 DEF Rest, Process
<1>7. gate' = IF u.at \in Inside THEN p ELSE None
  BY <1>5 DEF Return, Inside
<1>8. \A t \in Torrents : idles'[t] # p
  BY CoordinatorConstants DEF TimersListed, At, Inside, tasks
<1>10. u.reader = None /\ (p \in aborted => u.at # "idle")
  <2>1. p \in aborted => p \in Prefetchers /\ p \notin Clients
    BY CoordinatorConstants DEF LostOK
  <2>2. p \in Prefetchers => s.kind = "trim"
    BY <1>1 DEF WellFormed, Inside, Deleting, Looking, At
  <2>3. u.reader = None
    BY <1>1, <1>3, <1>5 DEF WellFormed, Loading
  <2> QED  BY <1>5, <2>1, <2>2, <2>3
<1> HIDE DEF u
<1>9. s.at \notin Using \cup {"idle"} /\ gate \in {p, None}
  BY <1>1 DEF At, Inside, Using, Looking
<1> QED
  BY <1>1, <1>3, <1>4, <1>5, <1>6, <1>7, <1>8, <1>9, <1>10
     DEF Moves, At, Inside, Using, Looking, tasks, lost

\* Standing inside the gate, or about to.
Enters(p) == proc[p].at \in Inside \/ (At(p, "want") /\ gate = None)

LEMMA LabelMoves ==
    ASSUME ProcInv, NEW p \in Procs, NEW label \in Inside \ {"sweep", "prefetching"}, Enters(p),
           ~At(p, "prefetching"),
           proc' = [proc EXCEPT ![p].at = label],
           gate' = p, UNCHANGED <<tasks, view>>,
           proc[p].on \in Torrents,
           label \in {"adding", "initing"} =>
             proc[p].kind \in {"add", "addSave", "play"} \cup Removes,
           label = "opening" => proc[p].kind = "play",
           label \in Deleting => proc[p].kind \in Drops \cup Removes \cup Evicts,
           label \in Loading => proc[p].at \in Loading,
           label \in Deleting \/ p \in Clients,
           label \in {"grace", "purging"} => Alone(proc[p].on)
    PROVE  Moves(p)
<1> USE DEF ProcInv, TasksOK, Enters
<1> DEFINE s == proc[p]
           u == [s EXCEPT !.at = label]
<1>1. WellFormed(p, s) /\ s \in Process /\ (s.at \in Inside <=> gate = p)
  BY DEF Shapes, GateHeld
<1>2. /\ u \in Process /\ u.at = label /\ u.kind = s.kind /\ u.on = s.on
      /\ u.reader = s.reader /\ u.home = s.home
  <2>1. label \in Labels
    BY DEF Inside, Labels
  <2> QED  BY <1>1, <2>1, Relabel
<1>3. proc'[p] = u /\ proc' \in [Procs -> Process] /\ \A q \in Procs \ {p} : proc'[q] = proc[q]
  BY <1>2
<1> HIDE DEF u
<1>4. WellFormed(p, u)
  BY <1>1, <1>2
     DEF WellFormed, Inside, Working, Deleting, Loading, Looking, At, Drops, Removes, Evicts
<1>5. \A t \in Torrents : idles'[t] # p
  BY <1>1, CoordinatorConstants DEF TimersListed, At, Inside, tasks
<1>6. s.at \notin Using \cup {"idle"} /\ gate \in {p, None}
  BY <1>1 DEF At, Inside, Using, Looking
<1> QED
  BY <1>1, <1>2, <1>3, <1>4, <1>5, <1>6 DEF Moves, At, Inside, Using, Looking, tasks, lost

\* stop_idle_detach_locked ends at most the timer that is listed.
LEMMA TimerAborted ==
    ASSUME ProcInv, NEW p \in Procs, NEW t \in Torrents, NEW u \in Process,
           ~At(p, "sleep"),
           idles' = [idles EXCEPT ![t] = None],
           proc' = [NoTimer(t) EXCEPT ![p] = u]
    PROVE  /\ proc'[p] = u /\ proc' \in [Procs -> Process]
           /\ \A q \in Procs \ {p} :
                \/ proc'[q] = proc[q]
                \/ q \in Timers /\ At(q, "sleep") /\ proc'[q] = Rest
                                /\ \A x \in Torrents : idles'[x] # q
           /\ idles' \in [Torrents -> Timers \cup {None}]
           /\ \A x \in Torrents : idles'[x] \in {idles[x], None} /\ idles'[x] # p
<1> USE DEF ProcInv, TasksOK
<1>1. idles' \in [Torrents -> Timers \cup {None}]
  OBVIOUS
<1>2. \A x \in Torrents : idles'[x] \in {idles[x], None} /\ idles'[x] # p
  BY CoordinatorConstants DEF TimersListed
<1>3. CASE idles[t] = None
  BY <1>1, <1>2, <1>3 DEF NoTimer
<1>4. CASE idles[t] # None
  <2>1. idles[t] \in Timers /\ At(idles[t], "sleep") /\ idles[t] # p /\ idles[t] \in Procs
    BY <1>4 DEF TimersListed, Procs
  <2>2. \A x \in Torrents : idles'[x] # idles[t]
    BY <2>1, CoordinatorConstants DEF TimersListed, Procs
  <2>3. Rest \in Process
    BY RestFits DEF WellFormed
  <2>4. proc' = [[proc EXCEPT ![idles[t]] = Rest] EXCEPT ![p] = u]
    BY <1>4 DEF NoTimer
  <2>5. proc'[p] = u /\ proc'[idles[t]] = Rest /\ proc' \in [Procs -> Process]
    BY <2>1, <2>3, <2>4, ZenonT(60)
  <2>6. \A q \in Procs \ {p} : proc'[q] = proc[q] \/ q = idles[t]
    BY <2>3, <2>4
  <2> QED  BY <1>1, <1>2, <2>1, <2>2, <2>5, <2>6
<1> QED  BY <1>3, <1>4

-----------------------------------------------------------------------------
(* Requests. *)

LEMMA AskKeeps ==
    ASSUME ProcInv, NEW c \in Clients, NEW k \in RequestKinds, NEW t \in Torrents,
           NEW r \in Readers \cup {None}, k = "play" <=> r # None, r # None => Free(r),
           Ask(c, k, t, r), UNCHANGED view
    PROVE  ProcInv'
<1> USE DEF ProcInv, TasksOK
<1> DEFINE u == [Rest EXCEPT !.at = "want", !.kind = k, !.on = t, !.reader = r]
<1>1. c \in Procs /\ proc[c] = Rest
  BY DEF Ask, Procs, Shapes, WellFormed, At
<1>2. /\ u \in Process /\ u.at = "want" /\ u.kind = k /\ u.on = t /\ u.reader = r
  BY DEF Rest, Process, Labels
<1>3. proc'[c] = u /\ proc' \in [Procs -> Process] /\ \A q \in Procs \ {c} : proc'[q] = proc[q]
  BY <1>1, <1>2 DEF Ask
<1> HIDE DEF u
<1>4. WellFormed(c, u)
  BY <1>2, CoordinatorConstants
     DEF WellFormed, Inside, Working, Deleting, Loading, Looking, RequestKinds
<1>5. Shapes'
  BY <1>1, <1>3, <1>4 DEF Shapes
<1>6. GateHeld'
  BY <1>1, <1>2, <1>3 DEF GateHeld, Ask, Inside, Rest
<1>7. Claims'
  <2>1. ASSUME NEW q \in Procs, proc[q].reader # None
        PROVE  q \in Clients /\ proc[q].reader \in Readers /\ proc[q].reader # c
               /\ proc[q].reader \in Procs /\ proc[q].reader # r /\ q # c
    <3>1. q \in Clients /\ proc[q].reader \in Readers
      BY <2>1 DEF Shapes, WellFormed, Process, Procs, Loading, Deleting, Looking
    <3>2. proc[q].reader # c /\ proc[q].reader \in Procs
      BY <3>1, CoordinatorConstants DEF Procs
    <3>3. proc[q].reader # r /\ q # c
      BY <1>1, <2>1, <3>1 DEF Free, Rest
    <3> QED  BY <3>1, <3>2, <3>3
  <2>2. r # None => r \in Readers /\ r # c /\ r \in Procs /\ At(r, "idle")
    BY CoordinatorConstants DEF Free, Procs
  <2> QED  BY <1>1, <1>2, <1>3, <2>1, <2>2 DEF Claims, At
<1>8. TimersListed' /\ PrefetchListed' /\ ViewsHeld'
  BY <1>1, <1>2, <1>3, CoordinatorConstants
     DEF TimersListed, PrefetchListed, ViewsHeld, Ask, tasks, lost, Astray, At, Rest, Procs
<1>9. DeletesAlone' /\ TasksOK'
  BY <1>1, <1>2, <1>3 DEF DeletesAlone, Alone, Ask, tasks, lost, Astray, At, Rest
<1>10. LostOK'
  BY <1>1, <1>2, <1>3, CoordinatorConstants
     DEF LostOK, AstrayByCancel, Ask, tasks, lost, Astray, Procs, Looking, Rest
<1> QED  BY <1>5, <1>6, <1>7, <1>8, <1>9, <1>10

LEMMA NextHashMoves ==
    ASSUME ProcInv, NEW c \in Clients, NextHash(c)
    PROVE  Moves(c)
<1> USE DEF ProcInv, TasksOK
<1> DEFINE s == proc[c]
<1>1. WellFormed(c, s) /\ c \in Procs /\ s.at = "next" /\ s.reader = None
  BY DEF NextHash, Shapes, WellFormed, At, Procs, Loading
<1>2. PICK u \in Process :
        /\ proc' = [proc EXCEPT ![c] = u]
        /\ \/ u = Rest
           \/ u.at = "want" /\ u.kind = s.kind /\ u.on \in Torrents /\ u.reader = None
           \/ u.at = "want" /\ u.kind = "trim" /\ u.reader = None
  <2>1. CASE \E t \in s.todo : proc' = [proc EXCEPT ![c].at = "want", ![c].on = t, ![c].todo = @ \ {t}]
    <3>1. PICK t \in s.todo : proc' = [proc EXCEPT ![c].at = "want", ![c].on = t, ![c].todo = @ \ {t}]
      BY <2>1
    <3> DEFINE u == [[[s EXCEPT !.at = "want"] EXCEPT !.on = t] EXCEPT !.todo = @ \ {t}]
    <3>2. u \in Process /\ u.at = "want" /\ u.kind = s.kind /\ u.on \in Torrents /\ u.reader = None
      BY <1>1, ZenonT(120) DEF Process, Labels
    <3>3. proc' = [proc EXCEPT ![c] = u]
      BY <1>1, <3>1
    <3> QED  BY <3>2, <3>3
  <2>2. CASE proc' = [proc EXCEPT ![c] = IF @.kind = "wipe" THEN Rest
                                         ELSE [Rest EXCEPT !.at = "want", !.kind = "trim"]]
    <3> DEFINE v == [Rest EXCEPT !.at = "want", !.kind = "trim"]
    <3>1. Rest \in Process /\ v \in Process /\ v.at = "want" /\ v.kind = "trim" /\ v.reader = None
      BY DEF Rest, Process, Labels
    <3>2. proc' = [proc EXCEPT ![c] = IF s.kind = "wipe" THEN Rest ELSE v]
      BY <2>2
    <3> HIDE DEF v
    <3> QED  BY <3>1, <3>2
  <2> QED  BY <2>1, <2>2 DEF NextHash
<1>3. WellFormed(c, u)
  BY <1>1, <1>2, RestFits, CoordinatorConstants, ZenonT(120)
     DEF WellFormed, Working, Inside, Deleting, Loading, Looking, RequestKinds
<1>4. u.at \in {"idle", "want"} /\ u.reader = None
  BY <1>2 DEF Rest
<1>5. \A t \in Torrents : idles'[t] \in {idles[t], None} /\ idles'[t] # c
  BY <1>1, CoordinatorConstants, ZenonT(60) DEF NextHash, tasks
<1>6. gate # c /\ gate' = gate
  BY <1>1 DEF GateHeld, NextHash, Inside
<1> QED
  BY <1>1, <1>2, <1>3, <1>4, <1>5, <1>6, CoordinatorConstants
     DEF Moves, At, Inside, Using, Looking, NextHash, tasks, lost, LostOK, cache

-----------------------------------------------------------------------------
(* Taking the gate, loading. *)

LEMMA GateAddMoves ==
    ASSUME ProcInv, NEW p \in Procs, At(p, "want"), gate = None, GateAdd(p)
    PROVE  Moves(p)
<1> USE DEF ProcInv
<1>1. WellFormed(p, proc[p])
  BY DEF Shapes
<1>2. p \in Clients /\ proc[p].on \in Torrents
  BY <1>1 DEF GateAdd, WellFormed, Deleting, Looking, Procs, At, RequestKinds
<1>3. CASE Return(p, "ok")
  BY <1>3, ReturnMoves DEF GateAdd, cache
<1>4. CASE proc' = [proc EXCEPT ![p].at = "adding"] /\ gate' = p
  BY <1>1, <1>2, <1>4, LabelMoves DEF GateAdd, cache, Enters, Inside, Deleting, Loading, At
<1> QED  BY <1>3, <1>4 DEF GateAdd

LEMMA StopIdleMoves ==
    ASSUME ProcInv, NEW p \in Procs, NEW t \in Torrents,
           NEW label \in {"adding", "opening", "stopping"},
           At(p, "want"), gate = None, gate' = p, proc[p].on = t,
           StopIdle(p, t, label), UNCHANGED <<prefetches, lost, view>>,
           label = "adding" => proc[p].kind \in {"play"} \cup Removes,
           label = "opening" => proc[p].kind = "play",
           label = "stopping" => proc[p].kind \in Drops \cup Removes \cup Evicts
    PROVE  Moves(p)
<1> USE DEF ProcInv, TasksOK
<1> DEFINE s == proc[p]
           v == [s EXCEPT !.at = label]
           u == [v EXCEPT !.on = t]
<1>1. WellFormed(p, s) /\ s \in Process
  BY DEF Shapes
<1>2. /\ u \in Process /\ u.at = label /\ u.kind = s.kind /\ u.on = t
      /\ u.reader = s.reader /\ u.home = s.home
  <2>1. label \in Labels
    BY DEF Labels
  <2> QED  BY <1>1, <2>1 DEF Process
<1>3. NoTimer(t)[p] = s
  BY CoordinatorConstants DEF NoTimer, TimersListed, At
<1>4. proc' = [NoTimer(t) EXCEPT ![p] = u]
  BY <1>3 DEF StopIdle
<1> HIDE DEF u
<1>5. WellFormed(p, u)
  BY <1>1, <1>2, CoordinatorConstants
     DEF WellFormed, Inside, Working, Deleting, Loading, Looking, At, Drops, Removes, Evicts, Procs
<1>6. /\ ~At(p, "sleep") /\ idles' = [idles EXCEPT ![t] = None]
      /\ label \in Inside /\ label \notin Using \cup {"idle", "grace", "purging", "prefetching"}
      /\ proc[p].at \notin Using \cup {"idle", "prefetching"}
  BY DEF At, Inside, StopIdle, Using, Looking
<1>7. /\ proc'[p] = u /\ proc' \in [Procs -> Process]
      /\ \A q \in Procs \ {p} :
           \/ proc'[q] = proc[q]
           \/ q \in Timers /\ At(q, "sleep") /\ proc'[q] = Rest
                           /\ \A x \in Torrents : idles'[x] # q
      /\ idles' \in [Torrents -> Timers \cup {None}]
      /\ \A x \in Torrents : idles'[x] \in {idles[x], None} /\ idles'[x] # p
  BY <1>2, <1>4, <1>6, TimerAborted
<1> QED
  BY <1>1, <1>2, <1>5, <1>6, <1>7 DEF Moves, At, lost

LEMMA GatePlayMoves ==
    ASSUME ProcInv, NEW p \in Procs, At(p, "want"), gate = None, GatePlay(p)
    PROVE  Moves(p)
<1> USE DEF ProcInv
<1> DEFINE t == proc[p].on
<1>1. WellFormed(p, proc[p]) /\ t \in Torrents
  BY DEF Shapes, WellFormed, GatePlay, At
<1>2. CASE t \in loaded \cup saved
  <2>1. PICK label \in {"adding", "opening"} : StopIdle(p, t, label) /\ gate' = p
    BY <1>2 DEF GatePlay
  <2> QED  BY <1>1, <2>1, StopIdleMoves DEF GatePlay, cache
<1>3. CASE t \notin loaded \cup saved
  <2>1. proc' = [NoTimer(t) EXCEPT ![p] = Rest] /\ idles' = [idles EXCEPT ![t] = None]
        /\ gate' = None
    BY <1>3 DEF GatePlay
  <2>2. WellFormed(p, Rest) /\ Rest \in Process
    BY RestFits DEF WellFormed
  <2>3. UNCHANGED <<prefetches, lost, view>> /\ p \notin aborted
    <3>1. p \in Clients
      BY <1>1 DEF GatePlay, WellFormed, Deleting, Looking, Procs, At
    <3> QED  BY <3>1, CoordinatorConstants DEF GatePlay, cache, LostOK
  <2> HIDE DEF t
  <2>4. ~At(p, "sleep") /\ Rest.at = "idle" /\ Rest.reader = None
    BY DEF At, Rest
  <2>5. /\ proc'[p] = Rest /\ proc' \in [Procs -> Process]
        /\ \A q \in Procs \ {p} :
             \/ proc'[q] = proc[q]
             \/ q \in Timers /\ At(q, "sleep") /\ proc'[q] = Rest
                             /\ \A x \in Torrents : idles'[x] # q
        /\ idles' \in [Torrents -> Timers \cup {None}]
        /\ \A x \in Torrents : idles'[x] \in {idles[x], None} /\ idles'[x] # p
    BY <1>1, <2>1, <2>2, <2>4, TimerAborted
  <2> QED  BY <2>1, <2>2, <2>3, <2>4, <2>5 DEF Moves, At, Inside, Using, Looking, lost
<1> QED  BY <1>2, <1>3

LEMMA GateDropRemMoves ==
    ASSUME ProcInv, NEW p \in Procs, At(p, "want"), gate = None, GateDrop(p) \/ GateRem(p)
    PROVE  Moves(p)
<1> USE DEF ProcInv
<1> DEFINE t == proc[p].on
<1>1. t \in Torrents
  BY DEF Shapes, WellFormed, GateDrop, GateRem, At, Drops, Removes
<1>2. CASE GateDrop(p)
  BY <1>1, <1>2, StopIdleMoves DEF GateDrop, cache, Evicts
<1>3. CASE GateRem(p)
  <2>1. PICK label \in {"adding", "stopping"} : StopIdle(p, t, label)
    BY <1>3 DEF GateRem
  <2> QED  BY <1>1, <1>3, <2>1, StopIdleMoves DEF GateRem, cache
<1> QED  BY <1>2, <1>3

LEMMA GateTrimMoves ==
    ASSUME ProcInv, NEW p \in Procs, At(p, "want"), gate = None, GateTrim(p)
    PROVE  Moves(p)
<1> USE DEF ProcInv, TasksOK
<1> DEFINE s == proc[p]
<1>1. WellFormed(p, s) /\ s \in Process
  BY DEF Shapes
<1>2. PICK victims \in SUBSET Torrents :
        proc' = [proc EXCEPT ![p].at = "sweep", ![p].todo = victims]
  BY DEF GateTrim
<1> DEFINE u == [[s EXCEPT !.at = "sweep"] EXCEPT !.todo = victims]
<1>3. /\ u \in Process /\ u.at = "sweep" /\ u.kind = "trim" /\ u.reader = s.reader
      /\ u.home = s.home
  BY <1>1 DEF Process, Labels, GateTrim
<1>4. proc' = [proc EXCEPT ![p] = u]
  BY <1>2
<1> HIDE DEF u
<1>5. proc'[p] = u /\ proc' \in [Procs -> Process] /\ \A q \in Procs \ {p} : proc'[q] = proc[q]
  BY <1>3, <1>4
<1>6. WellFormed(p, u)
  BY <1>1, <1>3 DEF WellFormed, Inside, Working, Deleting, Loading, Looking, At, GateTrim
<1>7. \A t \in Torrents : idles'[t] \in {idles[t], None} /\ idles'[t] # p
  BY CoordinatorConstants DEF TimersListed, At, GateTrim, tasks
<1> QED
  BY <1>1, <1>3, <1>5, <1>6, <1>7 DEF Moves, At, Inside, Using, Looking, GateTrim, tasks, lost, cache

\* add_torrent, its initialisation and what follows it, with the failures.
LEMMA LoadMoves ==
    ASSUME ProcInv, BooksOK, NEW p \in Procs,
           SessionAdd(p) \/ Initialized(p) \/ InitFails(p) \/ PersistFails(p),
           UNCHANGED view
    PROVE  Moves(p)
<1> USE DEF ProcInv
<1>1. /\ WellFormed(p, proc[p]) /\ proc[p].on \in Torrents /\ gate = p
      /\ proc[p].at \in {"adding", "initing"} /\ p \in Clients /\ Enters(p)
  BY DEF Shapes, WellFormed, GateHeld, SessionAdd, Initialized, InitFails, PersistFails,
     At, Inside, Working, Deleting, Looking, Procs, Enters
<1>2. UNCHANGED tasks
  BY DEF SessionAdd, Initialized, InitFails, PersistFails
<1>3. ASSUME NEW outcome, Return(p, outcome)
      PROVE  Moves(p)
  BY <1>1, <1>2, <1>3, ReturnMoves DEF Inside
<1>4. ASSUME NEW label \in {"initing", "opening", "stopping"},
             proc' = [proc EXCEPT ![p].at = label], gate' = gate,
             label = "opening" => proc[p].kind = "play",
             label = "stopping" => proc[p].kind \notin {"add", "addSave", "play"}
      PROVE  Moves(p)
  <2>1. proc[p].kind \in {"add", "addSave", "play"} \cup Removes
    BY <1>1 DEF WellFormed
  <2> QED  BY <1>1, <1>2, <1>4, <2>1, LabelMoves DEF Inside, Deleting, Loading, At
<1>5. CASE SessionAdd(p)
  BY <1>3, <1>4, <1>5 DEF SessionAdd
<1>6. CASE Initialized(p)
  BY <1>3, <1>4, <1>6 DEF Initialized
<1>7. CASE InitFails(p) \/ PersistFails(p)
  BY <1>3, <1>7 DEF InitFails, PersistFails
<1> QED  BY <1>5, <1>6, <1>7

-----------------------------------------------------------------------------
(* Letting go. *)

LEMMA DetachMoves ==
    ASSUME ProcInv, PinInv, NEW p \in Procs, Detach(p) \/ DetachFails(p)
    PROVE  Moves(p)
<1> USE DEF ProcInv
<1> DEFINE t == proc[p].on
<1>1. /\ WellFormed(p, proc[p]) /\ t \in Torrents /\ gate = p
      /\ At(p, "stopping") /\ Enters(p) /\ proc[p].kind \in Drops \cup Removes \cup Evicts
      /\ prefetches[t] = None
  BY DEF Shapes, WellFormed, GateHeld, Detach, DetachFails, At, Inside, Working, Deleting, Enters
<1>2. UNCHANGED <<tasks, view>>
  BY DEF Detach, DetachFails, cache
<1>3. ASSUME NEW outcome, Return(p, outcome)
      PROVE  Moves(p)
  BY <1>1, <1>2, <1>3, ReturnMoves DEF Enters, Inside, At
<1>4. ASSUME NEW label \in {"grace", "purging"}, pins[t] = 0,
             proc' = [proc EXCEPT ![p].at = label], gate' = gate
      PROVE  Moves(p)
  <2>1. Alone(t)
    <3>1. \A v \in Views : view[v] # t
      BY <1>1, <1>4, WatchedIsPinned, CacheConstants
    <3> QED  BY <1>1, <3>1 DEF Alone
  <2> QED  BY <1>1, <1>2, <1>4, <2>1, LabelMoves DEF Inside, Deleting, Loading, At
<1>5. CASE Detach(p)
  <2>1. \/ \E outcome : Return(p, outcome)
        \/ \E label \in {"grace", "purging"} :
             pins[t] = 0 /\ proc' = [proc EXCEPT ![p].at = label] /\ gate' = gate
    BY <1>5 DEF Detach
  <2> QED  BY <1>3, <1>4, <2>1
<1>6. CASE DetachFails(p)
  BY <1>3, <1>6 DEF DetachFails
<1> QED  BY <1>5, <1>6

LEMMA GraceEndsMoves ==
    ASSUME ProcInv, NEW p \in Procs, GraceEnds(p)
    PROVE  Moves(p)
<1> USE DEF ProcInv
<1>1. /\ WellFormed(p, proc[p]) /\ proc[p].on \in Torrents /\ gate = p
      /\ Enters(p) /\ proc[p].kind \in Drops \cup Removes \cup Evicts
      /\ Alone(proc[p].on)
  BY DEF Shapes, WellFormed, GateHeld, GraceEnds, At, Inside, Working, Deleting, Enters,
     DeletesAlone
<1> QED
  BY <1>1, LabelMoves DEF GraceEnds, Inside, Deleting, Loading, cache, At

LEMMA PurgeMoves ==
    ASSUME ProcInv, NEW p \in Procs, Purge(p) \/ PurgeFails(p)
    PROVE  Moves(p)
<1> USE DEF ProcInv
<1>1. UNCHANGED <<tasks, view>>
  BY DEF Purge, PurgeFails, Remove, cache
<1>2. proc[p].at \in Inside
  BY DEF Purge, PurgeFails, At, Inside
<1> QED  BY <1>1, <1>2, ReturnMoves DEF Purge, PurgeFails

LEMMA NextVictimMoves ==
    ASSUME ProcInv, NEW p \in Procs, NextVictim(p)
    PROVE  Moves(p)
<1> USE DEF ProcInv, TasksOK
<1> DEFINE s == proc[p]
<1>1. WellFormed(p, s) /\ s \in Process /\ s.at = "sweep" /\ s.kind = "trim" /\ gate = p
      /\ s.reader = None /\ p \notin Timers
  BY DEF Shapes, WellFormed, NextVictim, At, GateHeld, Inside, Deleting, Loading, Looking
<1>2. PICK t \in s.todo :
        /\ idles' = [idles EXCEPT ![t] = None]
        /\ proc' = [NoTimer(t) EXCEPT ![p].at = "stopping", ![p].on = t, ![p].todo = @ \ {t}]
  BY DEF NextVictim
<1> DEFINE u == [[[s EXCEPT !.at = "stopping"] EXCEPT !.on = t] EXCEPT !.todo = @ \ {t}]
<1>3. t \in Torrents
  BY <1>1 DEF Process
<1>4. /\ u \in Process /\ u.at = "stopping" /\ u.kind = "trim" /\ u.on = t
      /\ u.reader = None /\ u.home = s.home
  BY <1>1, <1>3 DEF Process, Labels
<1>5. NoTimer(t)[p] = s
  BY <1>1, <1>3, CoordinatorConstants DEF NoTimer, TimersListed, At
<1>6. proc' = [NoTimer(t) EXCEPT ![p] = u]
  BY <1>2, <1>5
<1> HIDE DEF u
<1>7. WellFormed(p, u)
  BY <1>1, <1>3, <1>4 DEF WellFormed, Inside, Working, Deleting, Loading, Looking, Evicts
<1>8. UNCHANGED <<prefetches, detached, aborted, view, gate>>
  BY DEF NextVictim, cache, lost
<1> QED
  <2>1. ~At(p, "sleep") /\ s.at \notin Using \cup {"idle"}
    BY <1>1 DEF At, Using, Looking
  <2>2. /\ proc'[p] = u /\ proc' \in [Procs -> Process]
        /\ \A q \in Procs \ {p} :
             \/ proc'[q] = proc[q]
             \/ q \in Timers /\ At(q, "sleep") /\ proc'[q] = Rest
                             /\ \A x \in Torrents : idles'[x] # q
        /\ idles' \in [Torrents -> Timers \cup {None}]
        /\ \A x \in Torrents : idles'[x] \in {idles[x], None} /\ idles'[x] # p
    <3>1. idles' = [idles EXCEPT ![t] = None] /\ u \in Process
      BY <1>2, <1>4
    <3> QED  BY ONLY ProcInv, <1>3, <1>6, <2>1, <3>1, TimerAborted
  <2> HIDE DEF s
  <2>3. proc'[p].reader \in {proc[p].reader, None} /\ gate' = gate
    BY <1>4, <1>8, <2>2
  <2> QED  BY <1>1, <1>4, <1>7, <1>8, <2>1, <2>2, <2>3
      DEF Moves, At, Inside, Using, Looking, s

LEMMA SweepEndsMoves ==
    ASSUME ProcInv, NEW p \in Procs, SweepEnds(p)
    PROVE  Moves(p)
<1> USE DEF ProcInv, TasksOK
<1> DEFINE s == proc[p]
           v == [[Rest EXCEPT !.at = "sched"] EXCEPT !.home = s.home]
<1>1. WellFormed(p, s) /\ s \in Process /\ s.at = "sweep" /\ gate = p /\ p \notin Timers
  BY DEF Shapes, WellFormed, SweepEnds, At, GateHeld, Inside, Deleting, Looking
<1>2. /\ v \in Process /\ v.at = "sched" /\ v.reader = None /\ v.home = s.home
  BY <1>1 DEF Process, Labels, Rest
<1>3. proc' = [proc EXCEPT ![p] = IF p \in Readers THEN v ELSE Rest]
  BY DEF SweepEnds
<1> HIDE DEF v
<1>4. p \in Readers => WellFormed(p, v)
  BY <1>1, <1>2, CoordinatorConstants DEF WellFormed, Inside, Working, Deleting, Loading, Looking
<1>5. \A t \in Torrents : idles'[t] \in {idles[t], None} /\ idles'[t] # p
  BY <1>1, CoordinatorConstants DEF SweepEnds
<1>8. UNCHANGED <<prefetches, detached, view>> /\ aborted' = aborted \ {p}
  BY DEF SweepEnds, cache
<1>6. CASE p \in Readers
  <2>1. /\ proc'[p] = v /\ proc' \in [Procs -> Process]
        /\ \A q \in Procs \ {p} : proc'[q] = proc[q]
    BY <1>2, <1>3, <1>6
  <2>2. gate' = None /\ idles' \in [Torrents -> Timers \cup {None}]
    BY DEF SweepEnds
  <2> QED
    BY <1>1, <1>2, <1>4, <1>5, <1>6, <1>8, <2>1, <2>2, CoordinatorConstants
       DEF Moves, At, Inside, Using, Looking
<1>7. CASE p \notin Readers
  <2>1. WellFormed(p, Rest) /\ Rest \in Process
    BY RestFits DEF WellFormed
  <2> QED
    BY <1>1, <1>3, <1>5, <1>7, <1>8, <2>1 DEF Moves, At, Inside, Using, Looking, SweepEnds, Rest
<1> QED  BY <1>6, <1>7

-----------------------------------------------------------------------------
(* Idle timers. *)

LEMMA ScheduleMoves ==
    ASSUME ProcInv, NEW r \in Readers, Schedule(r)
    PROVE  Moves(r)
<1> USE DEF ProcInv, TasksOK
<1> DEFINE s == proc[r]
           t == s.home
           u == [s EXCEPT !.at = "arming"]
<1>1. /\ WellFormed(r, s) /\ s \in Process /\ s.at = "sched" /\ r \in Procs /\ t \in Torrents
      /\ gate # r /\ s.reader = None
  BY DEF Shapes, WellFormed, Schedule, At, Procs, GateHeld, Inside, Loading
<1>2. UNCHANGED <<prefetches, detached, aborted, view, gate>> /\ r \notin aborted
  BY CoordinatorConstants DEF Schedule, cache, lost, LostOK
<1>3. CASE idles' = [idles EXCEPT ![t] = None] /\ proc' = [NoTimer(t) EXCEPT ![r].at = "arming"]
  <2>1. u \in Process /\ u.at = "arming" /\ u.reader = s.reader /\ u.home = s.home
    BY <1>1, Relabel, ZenonT(60) DEF Labels
  <2>2. NoTimer(t)[r] = s
    BY <1>1, CoordinatorConstants DEF NoTimer, TimersListed, At
  <2>3. proc' = [NoTimer(t) EXCEPT ![r] = u]
    BY <1>3, <2>2
  <2> HIDE DEF u
  <2>4. WellFormed(r, u)
    BY <1>1, <2>1, CoordinatorConstants DEF WellFormed, Inside, Working, Deleting, Loading, Looking
  <2> HIDE DEF t
  <2>5. ~At(r, "sleep")
    BY <1>1 DEF At
  <2>6. /\ proc'[r] = u /\ proc' \in [Procs -> Process]
        /\ \A q \in Procs \ {r} :
             \/ proc'[q] = proc[q]
             \/ q \in Timers /\ At(q, "sleep") /\ proc'[q] = Rest
                             /\ \A x \in Torrents : idles'[x] # q
        /\ idles' \in [Torrents -> Timers \cup {None}]
        /\ \A x \in Torrents : idles'[x] \in {idles[x], None} /\ idles'[x] # r
    BY <1>1, <1>3, <2>1, <2>3, <2>5, TimerAborted
  <2> QED
    BY <1>1, <1>2, <2>1, <2>4, <2>6 DEF Moves, At, Inside, Using, Looking
<1>4. CASE UNCHANGED idles /\ proc' = [proc EXCEPT ![r] = Rest]
  <2>1. WellFormed(r, Rest) /\ Rest \in Process
    BY <1>1, RestFits DEF WellFormed
  <2>2. \A x \in Torrents : idles'[x] \in {idles[x], None} /\ idles'[x] # r
    BY <1>4, CoordinatorConstants DEF Procs
  <2> QED  BY <1>1, <1>2, <1>4, <2>1, <2>2 DEF Moves, At, Inside, Using, Looking, Rest
<1> QED  BY <1>3, <1>4 DEF Schedule

LEMMA FireMoves ==
    ASSUME ProcInv, NEW m \in Timers, Fire(m)
    PROVE  Moves(m)
<1> USE DEF ProcInv, TasksOK
<1> DEFINE s == proc[m]
           t == s.on
           u == [[s EXCEPT !.at = "want"] EXCEPT !.kind = "drop"]
<1>1. /\ WellFormed(m, s) /\ s \in Process /\ s.at = "sleep" /\ m \in Procs /\ t \in Torrents
      /\ gate # m /\ s.reader = None
  BY DEF Shapes, WellFormed, Fire, At, Procs, GateHeld, Inside, Loading, Working
<1>2. UNCHANGED <<prefetches, detached, aborted, view, gate>> /\ m \notin aborted
  BY CoordinatorConstants DEF Fire, cache, lost, LostOK
<1>3. CASE /\ idles[t] = m /\ idles' = [idles EXCEPT ![t] = None]
           /\ proc' = [proc EXCEPT ![m].at = "want", ![m].kind = "drop"]
  <2>1. u \in Process /\ u.at = "want" /\ u.kind = "drop" /\ u.reader = None /\ u.on = t
    BY <1>1 DEF Process, Labels, RequestKinds
  <2>2. proc' = [proc EXCEPT ![m] = u]
    BY <1>1, <1>3
  <2> HIDE DEF u
  <2>3. WellFormed(m, u)
    BY <1>1, <2>1, CoordinatorConstants
       DEF WellFormed, Inside, Working, Deleting, Loading, Looking, RequestKinds
  <2>4. \A x \in Torrents : idles'[x] \in {idles[x], None} /\ idles'[x] # m
    BY <1>1, <1>3, CoordinatorConstants DEF TimersListed, Procs
  <2>5. /\ proc'[m] = u /\ proc' \in [Procs -> Process]
        /\ \A q \in Procs \ {m} : proc'[q] = proc[q]
    BY <1>1, <2>1, <2>2
  <2>6. idles' \in [Torrents -> Timers \cup {None}] /\ m \notin Readers
    BY <1>3, CoordinatorConstants
  <2> QED
    BY <1>1, <1>2, <2>1, <2>3, <2>4, <2>5, <2>6 DEF Moves, At, Inside, Using, Looking
<1>4. CASE idles[t] # m /\ UNCHANGED idles /\ proc' = [proc EXCEPT ![m] = Rest]
  <2>1. WellFormed(m, Rest) /\ Rest \in Process
    BY <1>1, RestFits DEF WellFormed
  <2>2. \A x \in Torrents : idles'[x] \in {idles[x], None} /\ idles'[x] # m
    BY <1>1, <1>4, CoordinatorConstants DEF TimersListed, Procs
  <2> QED
    BY <1>1, <1>2, <1>4, <2>1, <2>2, CoordinatorConstants
       DEF Moves, At, Inside, Using, Looking, Rest
<1> QED  BY <1>3, <1>4 DEF Fire

-----------------------------------------------------------------------------
(* Watching and looking ahead: the steps that pin and unpin. *)

\* Nobody watches what is being deleted.
LEMMA NobodyWatchesDeleted ==
    ASSUME GateInv, NEW p \in Procs, proc[p].at \in {"grace", "purging"}
    PROVE  \A r \in Readers : view[r] # proc[p].on
BY CoordinatorConstants DEF GateInv, ProcInv, DeletesAlone, Alone, LostOK, Astray

\* The reader goes from idle to open, and its client is done or goes on to the look-ahead.
LEMMA OpenReaderKeeps ==
    ASSUME GateInv, NEW p \in Procs, OpenReader(p)
    PROVE  ProcInv'
<1> USE DEF ProcInv, TasksOK
<1> DEFINE t == proc[p].on
           r == proc[p].reader
           s == proc[p]
<1>1. /\ WellFormed(p, s) /\ s \in Process /\ t \in Torrents /\ s.at = "opening" /\ gate = p
      /\ r \in Readers /\ r \in Procs /\ p \in Clients /\ r # p /\ proc[r] = Rest
  <2>1. /\ WellFormed(p, s) /\ s \in Process /\ t \in Torrents /\ s.at = "opening" /\ gate = p
        /\ s.kind = "play" /\ p \in Clients /\ ~At(p, "prefetching")
    BY DEF GateInv, Shapes, WellFormed, OpenReader, At, GateHeld, Inside, Working, Deleting,
       Looking, Procs
  <2>2. r # None /\ r \in Readers /\ At(r, "idle")
    BY <2>1 DEF GateInv, Claims, WellFormed, Loading, Process
  <2> QED  BY <2>1, <2>2, CoordinatorConstants DEF GateInv, Shapes, WellFormed, At, Procs
<1>2. CASE ~(t \in live /\ Playable(t))
  <2>1. Return(p, "failed") /\ UNCHANGED cache
    BY <1>2 DEF OpenReader
  <2> QED
    BY <1>1, <2>1, ReturnMoves, MovesKeeps DEF GateInv, OpenReader, cache, Inside
<1>3. CASE t \in live /\ Playable(t)
  <2> DEFINE o == [[Rest EXCEPT !.at = "open"] EXCEPT !.home = t]
             g == [s EXCEPT !.at = "prefetching"]
  <2>1. PICK u \in {Rest, g} : /\ proc' = [[proc EXCEPT ![r] = o] EXCEPT ![p] = u]
                               /\ gate' = IF u = Rest THEN None ELSE p
    <3>1. CASE proc' = [proc EXCEPT ![r].at = "open", ![r].home = t, ![p] = Rest] /\ gate' = None
      BY <1>1, <3>1
    <3>2. CASE /\ proc' = [proc EXCEPT ![r].at = "open", ![r].home = t,
                                       ![p].at = "prefetching"]
               /\ gate' = gate
      <4>1. g # Rest
        BY <1>1 DEF Rest, Process
      <4>2. proc' = [[proc EXCEPT ![r] = o] EXCEPT ![p] = g]
        BY <1>1, <3>2
      <4> QED  BY <1>1, <3>2, <4>1, <4>2
    <3> QED  BY <1>3, <3>1, <3>2 DEF OpenReader
  <2>2. /\ o \in Process /\ o.at = "open" /\ o.home = t /\ o.reader = None
    BY <1>1 DEF Process, Labels, Rest
  <2>3. g \in Process /\ g.at = "prefetching" /\ g.kind = "play" /\ g.reader = r /\ g.on = t
    BY <1>1 DEF Process, Labels, WellFormed
  <2>4. /\ u \in Process /\ u.at \in {"idle", "prefetching"}
        /\ u.reader # None => u.reader = r /\ u.at = "prefetching"
    BY <2>3, RestFits, <1>1 DEF WellFormed, Rest
  <2>5. gate' = p <=> u.at = "prefetching"
    <3>1. p # None
      BY CoordinatorConstants
    <3>2. CASE u = Rest
      BY <2>1, <3>1, <3>2 DEF Rest
    <3>3. CASE u # Rest
      BY <2>1, <2>3, <3>3
    <3> QED  BY <3>2, <3>3
  <2>6. WellFormed(p, u)
    BY <1>1, <2>1, <2>3, RestFits, CoordinatorConstants
       DEF WellFormed, Inside, Working, Deleting, Loading, Looking
  <2> HIDE DEF o, g
  <2>7. WellFormed(r, o)
    BY <1>1, <2>2, CoordinatorConstants DEF WellFormed, Inside, Working, Deleting, Loading, Looking
  <2>8. /\ proc'[r] = o /\ proc'[p] = u /\ proc' \in [Procs -> Process]
        /\ \A q \in Procs \ {p, r} : proc'[q] = proc[q]
    BY <1>1, <2>1, <2>2, <2>4 DEF GateInv
  <2>9. /\ view' = [view EXCEPT ![r] = t] /\ UNCHANGED <<prefetches, idles, detached, aborted>>
        /\ view[r] = None /\ view \in [Readers \cup Prefetchers -> Torrents \cup {None}]
    BY <1>3, CoordinatorConstants DEF OpenReader, Pin, tasks, lost, GateInv, PinInv, CacheOK
  <2>10. TasksOK' /\ Shapes'
    BY <1>1, <2>1, <2>6, <2>7, <2>8, <2>9 DEF GateInv, Shapes
  <2>11. GateHeld' /\ DeletesAlone'
    <3>1. GateHeld'
      BY <1>1, <2>1, <2>2, <2>4, <2>5, <2>8, CoordinatorConstants DEF GateInv, GateHeld, Inside
    <3>2. \A q \in Procs : proc'[q].at \notin {"grace", "purging"}
      BY <1>1, <2>2, <2>4, <2>8 DEF GateInv, GateHeld, Inside
    <3> QED  BY <3>1, <3>2 DEF DeletesAlone
  <2>12. Claims'
    <3>1. ASSUME NEW q \in Procs, proc[q].reader # None, q # p
          PROVE  proc[q].reader \in Procs /\ proc[q].reader # p /\ proc[q].reader # r
      BY <1>1, <3>1, CoordinatorConstants DEF GateInv, Claims, Process, Procs
    <3>2. ASSUME NEW q \in Procs, proc'[q].reader # None
          PROVE  proc'[proc'[q].reader].at = IF proc'[q].at = "prefetching" THEN "open" ELSE "idle"
      <4>1. CASE q = p
        BY <1>1, <2>2, <2>4, <2>8, <3>2, <4>1 DEF At
      <4>2. CASE q # p
        <5>1. q # r /\ proc'[q] = proc[q] /\ proc[q].reader # None
          BY <1>1, <2>2, <2>8, <3>2, <4>2
        <5>2. proc'[proc[q].reader] = proc[proc[q].reader]
          BY <2>8, <3>1, <4>2, <5>1
        <5> QED  BY <5>1, <5>2 DEF GateInv, Claims, At
      <4> QED  BY <4>1, <4>2
    <3>3. ASSUME NEW q \in Procs, NEW x \in Procs, proc'[q].reader # None,
                 proc'[x].reader = proc'[q].reader
          PROVE  q = x
      <4>1. \A y \in Procs \ {p} : proc'[y].reader # None =>
              proc'[y].reader = proc[y].reader /\ proc[y].reader # r
        BY <1>1, <2>2, <2>8, <3>1
      <4> QED  BY <2>4, <2>8, <3>3, <4>1 DEF GateInv, Claims
    <3> QED  BY <3>2, <3>3 DEF Claims, At
  <2>13. TimersListed' /\ PrefetchListed'
    BY <1>1, <2>8, <2>9, CoordinatorConstants
       DEF GateInv, TimersListed, PrefetchListed, Astray, At, Procs
  <2>15. LostOK'
    BY <1>1, <2>8, <2>9, CoordinatorConstants
       DEF GateInv, LostOK, AstrayByCancel, Astray, Looking, Procs
  <2>14. ViewsHeld'
    BY <1>1, <2>2, <2>4, <2>8, <2>9, CoordinatorConstants, CacheConstants
       DEF GateInv, ViewsHeld, At, Procs
  <2> QED  BY <2>10, <2>11, <2>12, <2>13, <2>14, <2>15
<1> QED  BY <1>2, <1>3

\* Giving a Pin back.
LEMMA UnpinView ==
    ASSUME GateInv, NEW v \in Views,
           IF view[v] = None THEN UNCHANGED cache ELSE Unpin(v)
    PROVE  /\ view' = [view EXCEPT ![v] = None]
           /\ view \in [Views -> Torrents \cup {None}]
<1>1. view \in [Views -> Torrents \cup {None}]
  BY DEF GateInv, PinInv, CacheOK
<1> QED  BY <1>1 DEF cache, Unpin

\* The processes of D end at once, with what they hold: an abort that is joined, a
\* future that is dropped.  A task taken out of the map goes on only if it is aborted.
Ends(D) ==
    /\ D \subseteq Procs /\ D \cap Timers = {} /\ D \cap detached = {}
    /\ \A q \in Procs : proc[q].reader \in D => q \in D
    /\ proc' = [q \in Procs |-> IF q \in D THEN Rest ELSE proc[q]]
    /\ gate' = IF gate \in D THEN None ELSE gate
    /\ view' = [v \in Views |-> IF v \in D THEN None ELSE view[v]]
    /\ UNCHANGED <<idles, detached>>
    /\ prefetches' \in [Torrents -> Prefetchers \cup {None}]
    /\ \A t \in Torrents :
         /\ prefetches'[t] \in {prefetches[t], None} \ D
         /\ prefetches'[t] # prefetches[t] => prefetches[t] \in D \cup aborted'
    /\ aborted' \in SUBSET Prefetchers /\ aborted' \cap D = {}
    /\ \A f \in aborted \ D : f \in aborted'
    /\ \A f \in aborted' \ aborted :
         \E t \in Torrents : prefetches[t] = f /\ prefetches'[t] # f
    /\ aborted' # {} => "cancel" \in Faults

LEMMA EndsKeeps ==
    ASSUME GateInv, NEW D, Ends(D)
    PROVE  ProcInv'
<1> USE DEF GateInv, ProcInv, TasksOK
<1>1. /\ Rest \in Process /\ None \notin D
      /\ \A q \in Procs : proc'[q] = IF q \in D THEN Rest ELSE proc[q]
  <2>1. None \notin D
    BY CoordinatorConstants DEF Ends
  <2>2. Rest \in Process
    BY DEF Rest, Process, Labels
  <2> QED  BY <2>1, <2>2 DEF Ends
<1>2. TasksOK' /\ Shapes'
  BY <1>1, RestFits DEF Ends, Shapes
<1>3. GateHeld'
  BY <1>1, CoordinatorConstants DEF Ends, GateHeld, Inside, Rest
<1>4. Claims'
  <2>1. ASSUME NEW q \in Procs, proc'[q].reader # None
        PROVE  proc'[q] = proc[q] /\ proc'[proc[q].reader] = proc[proc[q].reader]
    <3>1. q \notin D
      BY <1>1, <2>1 DEF Rest
    <3>2. proc[q].reader \in Readers /\ proc[q].reader \notin D
      BY <1>1, <2>1, <3>1 DEF Ends, Process
    <3> QED  BY <1>1, <3>1, <3>2 DEF Procs
  <2> QED  BY <2>1 DEF Claims, At
<1>5. TimersListed'
  BY <1>1, CoordinatorConstants DEF Ends, TimersListed, At, Procs
<1>6. PrefetchListed'
  <2>1. ASSUME NEW t \in Torrents, prefetches'[t] # None
        PROVE  /\ proc'[prefetches'[t]].at \in {"start", "reading"}
               /\ proc'[prefetches'[t]].on = t /\ prefetches'[t] \notin Astray'
    <3> DEFINE f == prefetches[t]
    <3>1. /\ prefetches'[t] = f /\ f \notin D /\ f \in Prefetchers /\ f \in Procs
          /\ proc[f].at \in {"start", "reading"} /\ proc[f].on = t /\ f \notin Astray
      BY <2>1 DEF Ends, PrefetchListed, Procs
    <3>2. f \notin aborted'
      <4>1. ASSUME NEW x \in Torrents, prefetches[x] = f, prefetches'[x] # f
            PROVE  FALSE
        BY <3>1, <4>1, CoordinatorConstants DEF PrefetchListed, Procs
      <4> QED  BY <3>1, <4>1 DEF Ends, Astray
    <3> QED  BY <1>1, <3>1, <3>2 DEF Ends, Astray
  <2>2. ASSUME NEW f \in Prefetchers, proc'[f].at \in {"start", "reading"}, f \notin Astray'
        PROVE  prefetches'[proc'[f].on] = f
    <3>1. f \in Procs /\ f \notin D /\ proc'[f] = proc[f]
      BY <1>1, <2>2 DEF Procs, Rest
    <3>2. f \notin Astray
      BY <2>2, <3>1 DEF Ends, Astray
    <3>3. prefetches[proc[f].on] = f /\ proc[f].on \in Torrents
      BY <2>2, <3>1, <3>2 DEF PrefetchListed, Shapes, WellFormed, Working
    <3> QED  BY <2>2, <3>1, <3>3 DEF Ends, Astray
  <2> QED  BY <2>1, <2>2 DEF PrefetchListed
<1>7. LostOK'
  <2>1. \A f \in aborted' \ aborted : proc[f].at \in {"start", "reading"} /\ f \notin detached
    BY CoordinatorConstants DEF Ends, PrefetchListed, Procs, Astray
  <2>2. \A f \in aborted' : proc'[f].at # "idle" /\ f \notin detached
    BY <1>1, <2>1 DEF Ends, LostOK, Procs
  <2>3. \A f \in detached' : proc'[f].at \in Looking
    BY <1>1 DEF Ends, LostOK, Procs
  <2>4. \A f \in Prefetchers : proc'[f].at = "pinning" => f \in Astray'
    BY <1>1 DEF Ends, LostOK, Procs, Rest, Astray
  <2>5. AstrayByCancel'
    BY DEF Ends, LostOK, AstrayByCancel, Astray
  <2> QED  BY <2>2, <2>3, <2>4, <2>5 DEF Ends, LostOK
<1>8. ViewsHeld'
  BY <1>1, CoordinatorConstants DEF Ends, ViewsHeld, At, Procs, Rest
<1>9. DeletesAlone'
  <2>1. ASSUME NEW q \in Procs, proc'[q].at \in {"grace", "purging"}
        PROVE  /\ prefetches'[proc'[q].on] = None
               /\ \A v \in Views : view'[v] = proc'[q].on => v \in Astray'
    <3>1. proc'[q] = proc[q] /\ proc[q].on \in Torrents /\ Alone(proc[q].on)
      BY <1>1, <2>1 DEF Rest, DeletesAlone, Shapes, WellFormed, Working, Inside
    <3>2. prefetches'[proc[q].on] = None
      BY <3>1 DEF Ends, Alone
    <3>3. ASSUME NEW v \in Views, view'[v] = proc[q].on
          PROVE  v \in Astray'
      BY <3>1, <3>3, CacheConstants DEF Ends, Alone, Astray
    <3> QED  BY <3>1, <3>2, <3>3 DEF Alone
  <2> QED  BY <2>1 DEF DeletesAlone, Alone
<1> QED  BY <1>2, <1>3, <1>4, <1>5, <1>6, <1>7, <1>8, <1>9

LEMMA StopPrefetchKeeps ==
    ASSUME GateInv, NEW p \in Procs, StopPrefetch(p)
    PROVE  ProcInv'
<1> USE DEF GateInv, ProcInv, TasksOK
<1> DEFINE t == proc[p].on
           f == prefetches[t]
<1>1. /\ t \in Torrents /\ gate = p
      /\ f \in Prefetchers /\ f \in Procs /\ f \in Views /\ f # p
      /\ proc[f].at \in {"start", "reading"} /\ proc[f].on = t /\ f \notin Astray
  BY CoordinatorConstants DEF StopPrefetch, Shapes, WellFormed, At, GateHeld, Inside, Working,
     PrefetchListed, Procs
<1>2. /\ prefetches' = [prefetches EXCEPT ![t] = None] /\ UNCHANGED <<gate, idles, detached, aborted>>
      /\ proc' = [proc EXCEPT ![f] = Rest]
      /\ IF view[f] = None THEN UNCHANGED cache ELSE Unpin(f)
  BY DEF StopPrefetch, lost
<1>3. view' = [view EXCEPT ![f] = None] /\ view \in [Views -> Torrents \cup {None}]
  BY <1>1, <1>2, UnpinView
<1>4. ASSUME NEW x \in Torrents, prefetches[x] = f
      PROVE  x = t
  BY <1>1, <1>4, CoordinatorConstants DEF PrefetchListed
<1> HIDE DEF f
<1>5. Ends({f})
  <2>1. {f} \subseteq Procs /\ {f} \cap Timers = {} /\ {f} \cap detached = {} /\ gate \notin {f}
    BY <1>1, CoordinatorConstants DEF Astray
  <2>2. \A q \in Procs : proc[q].reader \notin {f}
    BY <1>1, CoordinatorConstants DEF Process, Procs
  <2>3. proc' = [q \in Procs |-> IF q \in {f} THEN Rest ELSE proc[q]]
    BY <1>1, <1>2
  <2>4. view' = [v \in Views |-> IF v \in {f} THEN None ELSE view[v]]
    BY <1>1, <1>3
  <2>5. /\ prefetches' \in [Torrents -> Prefetchers \cup {None}]
        /\ \A x \in Torrents :
             /\ prefetches'[x] \in {prefetches[x], None} \ {f}
             /\ prefetches'[x] # prefetches[x] => prefetches[x] \in {f} \cup aborted'
    BY <1>1, <1>2, <1>4, CoordinatorConstants DEF f, Procs
  <2>6. /\ aborted' \in SUBSET Prefetchers /\ aborted' \cap {f} = {} /\ aborted' = aborted
        /\ aborted' # {} => "cancel" \in Faults
    BY <1>1, <1>2 DEF LostOK, AstrayByCancel, Astray
  <2> QED  BY <1>2, <2>1, <2>2, <2>3, <2>4, <2>5, <2>6 DEF Ends
<1> QED  BY <1>5, EndsKeeps

LEMMA StartPrefetchKeeps ==
    ASSUME GateInv, NEW p \in Procs, StartPrefetch(p)
    PROVE  ProcInv'
<1> USE DEF GateInv, ProcInv, TasksOK
<1> DEFINE t == proc[p].on
<1>1. /\ t \in Torrents /\ gate = p /\ At(p, "prefetching") /\ p \in Clients /\ p \in Procs
      /\ gate' = None /\ UNCHANGED <<idles, view, detached, aborted>> /\ prefetches[t] = None
  BY DEF StartPrefetch, Shapes, WellFormed, At, GateHeld, Inside, Working, Deleting, Loading,
     Looking, Procs, cache, lost
<1>2. CASE UNCHANGED prefetches /\ proc' = [proc EXCEPT ![p] = Rest]
  <2>1. WellFormed(p, Rest) /\ Rest \in Process
    BY RestFits DEF WellFormed
  <2>2. \A x \in Torrents : idles'[x] \in {idles[x], None} /\ idles'[x] # p
    BY <1>1, CoordinatorConstants DEF Procs
  <2>3. Moves(p)
    BY <1>1, <1>2, <2>1, <2>2, CoordinatorConstants
       DEF Moves, At, Inside, Using, Looking, Rest, LostOK
  <2> QED  BY <2>3, MovesKeeps
<1>3. ASSUME NEW f \in Prefetchers, At(f, "idle"),
             prefetches' = [prefetches EXCEPT ![t] = f],
             proc' = [proc EXCEPT ![p] = Rest, ![f].at = "start", ![f].on = t]
      PROVE  ProcInv'
  <2> DEFINE u == [[Rest EXCEPT !.at = "start"] EXCEPT !.on = t]
  <2>1. proc[f] = Rest /\ f \in Procs /\ f # p
    BY <1>1, <1>3, CoordinatorConstants DEF Shapes, WellFormed, At, Procs
  <2>2. u \in Process /\ u.at = "start" /\ u.on = t /\ u.reader = None
    BY <1>1 DEF Process, Labels, Rest
  <2>3. proc' = [[proc EXCEPT ![p] = Rest] EXCEPT ![f] = u]
    BY <1>3, <2>1
  <2>4. WellFormed(p, Rest) /\ Rest \in Process
    BY RestFits DEF WellFormed
  <2> HIDE DEF u, t
  <2>5. WellFormed(f, u)
    BY <1>1, <2>2, CoordinatorConstants DEF WellFormed, Inside, Working, Deleting, Loading, Looking
  <2>6. /\ proc'[f] = u /\ proc'[p] = Rest /\ proc' \in [Procs -> Process]
        /\ \A q \in Procs \ {p, f} : proc'[q] = proc[q]
    BY <2>1, <2>2, <2>3, <2>4
  <2>7. TasksOK' /\ Shapes'
    BY <1>1, <1>3, <2>4, <2>5, <2>6 DEF Shapes
  <2>8. GateHeld' /\ DeletesAlone'
    <3>1. GateHeld'
      BY <1>1, <2>2, <2>6, CoordinatorConstants DEF GateHeld, Inside, Rest, At
    <3>2. \A q \in Procs : proc'[q].at \notin {"grace", "purging"}
      BY <1>1, <2>2, <2>6 DEF GateHeld, Inside, Rest
    <3> QED  BY <3>1, <3>2 DEF DeletesAlone
  <2>9. Claims'
    <3>1. \A q \in Procs : proc[q].reader # f /\ proc[q].reader # p
      BY <1>1, CoordinatorConstants DEF Process, Procs
    <3>2. ASSUME NEW q \in Procs, proc'[q].reader # None
          PROVE  proc'[q] = proc[q] /\ proc'[proc[q].reader] = proc[proc[q].reader]
      <4>1. q # p /\ q # f /\ proc'[q] = proc[q]
        BY <2>2, <2>6, <3>2 DEF Rest
      <4>2. proc[q].reader \in Procs \ {p, f}
        BY <3>1, <3>2, <4>1 DEF Process, Procs
      <4> QED  BY <2>6, <4>1, <4>2
    <3> QED  BY <3>2 DEF Claims, At
  <2>10. TimersListed'
    BY <1>1, <2>6, CoordinatorConstants DEF TimersListed, At, Procs
  <2>13. f \notin Astray
    BY <2>1 DEF LostOK, Astray, Looking, Rest
  <2>11. PrefetchListed'
    BY <1>1, <1>3, <2>1, <2>2, <2>6, <2>13, CoordinatorConstants
       DEF PrefetchListed, Astray, Rest, Procs, At, t
  <2>12. ViewsHeld'
    BY <1>1, <2>1, <2>2, <2>6, CoordinatorConstants DEF ViewsHeld, At, Rest, Procs
  <2>14. LostOK'
    BY <1>1, <2>2, <2>6, <2>13, CoordinatorConstants
       DEF LostOK, AstrayByCancel, Astray, Looking, Procs
  <2> QED  BY <2>7, <2>8, <2>9, <2>10, <2>11, <2>12, <2>14
<1> QED  BY <1>2, <1>3 DEF StartPrefetch

\* Nobody deletes the torrent of a listed task: its operation would have waited
\* for the task (StopPrefetch).  A task that pins otherwise is astray.
LEMMA PrefetchBeginsKeeps ==
    ASSUME GateInv, NEW f \in Prefetchers,
           PrefetchBegins(f) \/ PrefetchReads(f) \/ PrefetchPins(f)
    PROVE  ProcInv'
<1> USE DEF GateInv, ProcInv, TasksOK
<1> DEFINE t == proc[f].on
           s == proc[f]
<1>1. /\ t \in Torrents /\ s.at \in {"start", "pinning"} /\ f \in Procs /\ f \in Views
      /\ s \in Process /\ WellFormed(f, s) /\ s.reader = None /\ f # None /\ view[f] = None
  BY CoordinatorConstants DEF PrefetchBegins, PrefetchReads, PrefetchPins, Shapes, WellFormed, At,
     Working, Loading, Procs, ViewsHeld
<1>2. PICK label \in {"pinning", "reading"} :
        /\ proc' = [proc EXCEPT ![f].at = label]
        /\ IF label = "reading" THEN Pin(f, t) ELSE UNCHANGED cache
        /\ label = "pinning" => f \in Astray
  BY DEF PrefetchBegins, PrefetchReads, PrefetchPins
<1> DEFINE u == [s EXCEPT !.at = label]
<1>3. u \in Process /\ u.at = label /\ u.on = t /\ u.reader = None
  <2>1. label \in Labels
    BY DEF Labels
  <2>2. u \in Process /\ u.at = label /\ u.on = s.on /\ u.reader = s.reader
    <3> HIDE DEF u, s
    <3> QED  BY ONLY <1>1, <2>1, Relabel DEF u
  <2> QED  BY <1>1, <2>2
<1>4. proc' = [proc EXCEPT ![f] = u]
  BY <1>2
<1> HIDE DEF u
<1>5. WellFormed(f, u)
  BY <1>1, <1>3, CoordinatorConstants DEF WellFormed, Inside, Working, Deleting, Loading, Looking
<1>6. proc'[f] = u /\ proc' \in [Procs -> Process] /\ \A q \in Procs \ {f} : proc'[q] = proc[q]
  BY <1>1, <1>3, <1>4
<1>7. /\ view' = IF label = "reading" THEN [view EXCEPT ![f] = t] ELSE view
      /\ view \in [Views -> Torrents \cup {None}]
      /\ UNCHANGED <<gate, prefetches, idles, detached, aborted>>
  BY <1>2 DEF PrefetchBegins, PrefetchReads, PrefetchPins, Pin, PinInv, CacheOK, tasks, lost, cache
<1>8. f \in Astray \/ (prefetches[t] = f /\ s.at = "start" /\ label = "reading")
  <2>1. CASE PrefetchBegins(f)
    <3>1. s.at = "start" /\ f \notin Astray /\ proc'[f].at = "reading"
      BY <1>1, <2>1 DEF PrefetchBegins, At
    <3> QED  BY <1>3, <1>6, <3>1 DEF PrefetchListed
  <2>2. CASE PrefetchReads(f) \/ PrefetchPins(f)
    BY <2>2 DEF PrefetchReads, PrefetchPins, LostOK, At
  <2> QED  BY <2>1, <2>2
<1>9. TasksOK' /\ Shapes'
  BY <1>5, <1>6, <1>7 DEF Shapes
<1>10. GateHeld'
  BY <1>1, <1>3, <1>6, <1>7 DEF GateHeld, Inside
<1>11. DeletesAlone'
  <2>1. ASSUME NEW p \in Procs, proc'[p].at \in {"grace", "purging"}
        PROVE  /\ prefetches'[proc'[p].on] = None
               /\ \A v \in Views : view'[v] = proc'[p].on => v \in Astray'
    <3>1. p # f /\ proc'[p] = proc[p]
      BY <1>3, <1>6, <2>1
    <3>2. proc[p].on \in Torrents /\ Alone(proc[p].on)
      BY <2>1, <3>1 DEF DeletesAlone, Shapes, WellFormed, Working, Inside
    <3>3. proc[p].on = t => f \in Astray
      BY <1>1, <1>8, <3>2 DEF Alone
    <3> QED  BY <1>1, <1>7, <3>1, <3>2, <3>3 DEF Alone, Astray
  <2> QED  BY <2>1 DEF DeletesAlone, Alone
<1>12. Claims'
  <2>1. \A q \in Procs : proc[q].reader # f
    BY <1>1, CoordinatorConstants DEF Process, Procs
  <2>2. ASSUME NEW q \in Procs, proc'[q].reader # None
        PROVE  proc'[q] = proc[q] /\ proc'[proc[q].reader] = proc[proc[q].reader]
    <3>1. proc'[q] = proc[q] /\ proc[q].reader \in Procs
      BY <1>3, <1>6, <2>2 DEF Process, Procs
    <3> QED  BY <1>6, <2>1, <3>1
  <2> QED  BY <2>2 DEF Claims, At
<1>13. TimersListed'
  BY <1>1, <1>3, <1>6, <1>7, CoordinatorConstants DEF TimersListed, At, Procs
<1>14. PrefetchListed' /\ LostOK'
  <2>1. \A x \in Torrents : prefetches[x] = f => label = "reading"
    BY <1>2, <1>1 DEF PrefetchListed
  <2>2. PrefetchListed'
    BY <1>1, <1>3, <1>6, <1>7, <1>8, <2>1, CoordinatorConstants DEF PrefetchListed, Astray, Procs
  <2>3. LostOK'
    BY <1>2, <1>3, <1>6, <1>7, CoordinatorConstants
       DEF LostOK, AstrayByCancel, Astray, Looking, Procs
  <2> QED  BY <2>2, <2>3
<1>15. ViewsHeld'
  BY <1>1, <1>3, <1>6, <1>7, CoordinatorConstants, CacheConstants DEF ViewsHeld, At, Procs
<1> QED  BY <1>9, <1>10, <1>11, <1>12, <1>13, <1>14, <1>15

LEMMA PrefetchEndsKeeps ==
    ASSUME GateInv, NEW f \in Prefetchers, PrefetchEnds(f)
    PROVE  ProcInv'
<1> USE DEF GateInv, ProcInv, TasksOK
<1> DEFINE u == [[Rest EXCEPT !.at = "want"] EXCEPT !.kind = "trim"]
<1>1. /\ proc[f].at \in Looking /\ f \in Procs /\ f \in Views
      /\ proc[f].reader = None /\ f # None
  BY CoordinatorConstants DEF PrefetchEnds, Shapes, WellFormed, At, Looking, Loading, Procs
<1>2. u \in Process /\ u.at = "want" /\ u.kind = "trim" /\ u.on = None /\ u.reader = None
  BY DEF Rest, Process, Labels
<1>3. /\ proc' = [proc EXCEPT ![f] = u] /\ UNCHANGED <<gate, idles, aborted>>
      /\ prefetches' = [x \in Torrents |-> IF prefetches[x] = f THEN None ELSE prefetches[x]]
      /\ IF view[f] = None THEN UNCHANGED cache ELSE Unpin(f)
      /\ detached' = detached \ {f}
  BY DEF PrefetchEnds
<1> HIDE DEF u
<1>4. WellFormed(f, u)
  BY <1>1, <1>2, CoordinatorConstants DEF WellFormed, Inside, Working, Deleting, Loading, Looking
<1>5. proc'[f] = u /\ proc' \in [Procs -> Process] /\ \A q \in Procs \ {f} : proc'[q] = proc[q]
  BY <1>1, <1>2, <1>3
<1>6. view' = [view EXCEPT ![f] = None] /\ view \in [Views -> Torrents \cup {None}]
  BY <1>1, <1>3, UnpinView
<1>7. TasksOK' /\ Shapes'
  BY <1>3, <1>4, <1>5 DEF Shapes
<1>8. GateHeld'
  BY <1>1, <1>2, <1>3, <1>5 DEF GateHeld, Inside, Looking
<1>9. DeletesAlone'
  <2>1. ASSUME NEW p \in Procs, proc'[p].at \in {"grace", "purging"}
        PROVE  /\ prefetches'[proc'[p].on] = None
               /\ \A v \in Views : view'[v] = proc'[p].on => v \in Astray'
    <3>1. proc'[p] = proc[p]
      BY <1>2, <1>5, <2>1
    <3>2. proc[p].on \in Torrents /\ Alone(proc[p].on)
      BY <2>1, <3>1 DEF DeletesAlone, Shapes, WellFormed, Working, Inside
    <3> QED  BY <1>1, <1>3, <1>6, <3>1, <3>2, CacheConstants DEF Alone, Astray
  <2> QED  BY <2>1 DEF DeletesAlone, Alone
<1>10. Claims'
  <2>1. \A q \in Procs : proc[q].reader # f
    BY <1>1, CoordinatorConstants DEF Process, Procs
  <2>2. ASSUME NEW q \in Procs, proc'[q].reader # None
        PROVE  proc'[q] = proc[q] /\ proc'[proc[q].reader] = proc[proc[q].reader]
    <3>1. proc'[q] = proc[q] /\ proc[q].reader \in Procs
      BY <1>2, <1>5, <2>2 DEF Process, Procs
    <3> QED  BY <1>5, <2>1, <3>1
  <2> QED  BY <2>2 DEF Claims, At
<1>11. TimersListed' /\ PrefetchListed'
  <2>1. TimersListed'
    BY <1>1, <1>3, <1>5, CoordinatorConstants DEF TimersListed, At, Procs, Looking
  <2>2. ASSUME NEW x \in Torrents, prefetches'[x] # None
        PROVE  /\ proc'[prefetches'[x]].at \in {"start", "reading"}
               /\ proc'[prefetches'[x]].on = x /\ prefetches'[x] \notin Astray'
    <3>1. prefetches'[x] = prefetches[x] /\ prefetches[x] # f /\ prefetches[x] \in Procs
      BY <1>3, <2>2 DEF Procs
    <3> QED  BY <1>3, <1>5, <2>2, <3>1 DEF PrefetchListed, Astray
  <2>3. ASSUME NEW g \in Prefetchers, proc'[g].at \in {"start", "reading"}, g \notin Astray'
        PROVE  prefetches'[proc'[g].on] = g
    <3>1. g # f /\ g \in Procs /\ proc'[g] = proc[g] /\ g \notin Astray
      BY <1>2, <1>3, <1>5, <2>3 DEF Procs, Astray
    <3>2. proc[g].on \in Torrents /\ prefetches[proc[g].on] = g
      BY <2>3, <3>1 DEF PrefetchListed, Shapes, WellFormed, Working
    <3> QED  BY <1>3, <3>1, <3>2
  <2>4. PrefetchListed'
    BY ONLY <2>2, <2>3 DEF PrefetchListed
  <2> QED  BY <2>1, <2>4
<1>12. ViewsHeld'
  BY <1>1, <1>2, <1>5, <1>6, CoordinatorConstants DEF ViewsHeld, At, Procs
<1>13. LostOK'
  BY <1>2, <1>3, <1>5, CoordinatorConstants DEF LostOK, AstrayByCancel, Astray, Looking, Procs
<1> QED  BY <1>7, <1>8, <1>9, <1>10, <1>11, <1>12, <1>13

LEMMA CloseKeeps ==
    ASSUME GateInv, NEW r \in Readers, Close(r)
    PROVE  ProcInv'
<1> USE DEF GateInv, ProcInv, TasksOK
<1> DEFINE s == proc[r]
           u == [[s EXCEPT !.at = "want"] EXCEPT !.kind = "trim"]
<1>1. /\ s \in Process /\ s.at = "open" /\ s.home \in Torrents /\ s.reader = None
      /\ r \in Procs /\ r \in Views
  BY CoordinatorConstants DEF Close, Shapes, WellFormed, At, Loading, Procs
<1>2. u \in Process /\ u.at = "want" /\ u.kind = "trim" /\ u.home = s.home /\ u.reader = None
  BY <1>1 DEF Process, Labels
<1>3. /\ proc' = [proc EXCEPT ![r] = u] /\ UNCHANGED <<gate, prefetches, idles, detached, aborted>>
      /\ Unpin(r)
  BY <1>1 DEF Close, tasks, lost
<1> HIDE DEF u
<1>4. WellFormed(r, u)
  BY <1>1, <1>2, CoordinatorConstants DEF WellFormed, Inside, Working, Deleting, Loading, Looking
<1>5. proc'[r] = u /\ proc' \in [Procs -> Process] /\ \A q \in Procs \ {r} : proc'[q] = proc[q]
  BY <1>1, <1>2, <1>3
<1>6. view' = [view EXCEPT ![r] = None] /\ view \in [Views -> Torrents \cup {None}]
  <2>1. view[r] # None
    BY <1>3 DEF Unpin
  <2> QED  BY <1>1, <1>3, <2>1, UnpinView
<1>7. TasksOK' /\ Shapes'
  BY <1>3, <1>4, <1>5 DEF Shapes
<1>8. GateHeld' /\ DeletesAlone'
  <2>1. GateHeld'
    BY <1>1, <1>2, <1>3, <1>5 DEF GateHeld, Inside
  <2>2. ASSUME NEW p \in Procs, proc'[p].at \in {"grace", "purging"}
        PROVE  /\ prefetches'[proc'[p].on] = None
               /\ \A v \in Views : view'[v] = proc'[p].on => v \in Astray'
    <3>1. proc'[p] = proc[p] /\ proc[p].on \in Torrents /\ Alone(proc[p].on)
      BY <1>2, <1>5, <2>2 DEF DeletesAlone, Shapes, WellFormed, Working, Inside
    <3> QED  BY <1>1, <1>3, <1>6, <3>1, CacheConstants DEF Alone, Astray
  <2> QED  BY <2>1, <2>2 DEF DeletesAlone, Alone
<1>9. Claims'
  <2>1. \A q \in Procs : proc[q].reader # r
    <3>1. ASSUME NEW q \in Procs, proc[q].reader # None
          PROVE  q \in Clients
      BY <3>1 DEF Shapes, WellFormed, Procs, Loading, Deleting, Looking
    <3> QED  BY <1>1, <3>1, CoordinatorConstants DEF Close, Handed
  <2>2. ASSUME NEW q \in Procs, proc'[q].reader # None
        PROVE  proc'[q] = proc[q] /\ proc'[proc[q].reader] = proc[proc[q].reader]
    <3>1. proc'[q] = proc[q] /\ proc[q].reader \in Procs
      BY <1>2, <1>5, <2>2 DEF Process, Procs
    <3> QED  BY <1>5, <2>1, <3>1
  <2> QED  BY <2>2 DEF Claims, At
<1>10. TimersListed' /\ PrefetchListed'
  <2>1. TimersListed'
    BY <1>1, <1>3, <1>5, CoordinatorConstants DEF TimersListed, At, Procs
  <2>2. PrefetchListed'
    BY <1>1, <1>2, <1>3, <1>5, CoordinatorConstants DEF PrefetchListed, Astray, Procs
  <2> QED  BY <2>1, <2>2
<1>11. ViewsHeld'
  BY <1>1, <1>2, <1>5, <1>6, CoordinatorConstants DEF ViewsHeld, At, Procs
<1>12. LostOK'
  BY <1>1, <1>3, <1>5, CoordinatorConstants DEF LostOK, AstrayByCancel, Astray, Looking, Procs
<1> QED  BY <1>7, <1>8, <1>9, <1>10, <1>11, <1>12

LEMMA ArmKeeps ==
    ASSUME GateInv, NEW r \in Readers, Arm(r)
    PROVE  ProcInv'
<1> USE DEF GateInv, ProcInv, TasksOK
<1> DEFINE t == proc[r].home
           u == [[Rest EXCEPT !.at = "sleep"] EXCEPT !.on = t]
<1>1. /\ proc[r].at = "arming" /\ t \in Torrents /\ proc[r].reader = None /\ r \in Procs
  BY CoordinatorConstants DEF Arm, Shapes, WellFormed, At, Loading, Procs
<1>2. PICK m \in Timers :
        /\ At(m, "idle")
        /\ proc' = [proc EXCEPT ![r] = Rest, ![m].at = "sleep", ![m].on = t]
        /\ idles' = [idles EXCEPT ![t] = m]
  BY DEF Arm
<1>3. m \in Procs /\ m # r /\ proc[m] = Rest
  BY <1>1, <1>2, CoordinatorConstants DEF Shapes, WellFormed, At, Procs
<1>4. u \in Process /\ u.at = "sleep" /\ u.on = t /\ u.reader = None
  BY <1>1 DEF Process, Labels, Rest
<1>5. proc' = [[proc EXCEPT ![r] = Rest] EXCEPT ![m] = u]
  BY <1>1, <1>2, <1>3
<1> HIDE DEF u
<1>6. WellFormed(m, u) /\ WellFormed(r, Rest) /\ Rest \in Process
  BY <1>1, <1>4, RestFits, CoordinatorConstants
     DEF WellFormed, Inside, Working, Deleting, Loading, Looking
<1>7. /\ proc'[m] = u /\ proc'[r] = Rest /\ proc' \in [Procs -> Process]
      /\ \A q \in Procs \ {m, r} : proc'[q] = proc[q]
  BY <1>1, <1>3, <1>4, <1>5, <1>6
<1>8. UNCHANGED <<gate, prefetches, detached, aborted, view>>
  BY DEF Arm, cache, lost
<1>9. TasksOK' /\ Shapes'
  BY <1>1, <1>2, <1>6, <1>7, <1>8 DEF Shapes
<1>10. GateHeld' /\ DeletesAlone'
  <2>1. GateHeld'
    BY <1>1, <1>2, <1>4, <1>7, <1>8 DEF GateHeld, Inside, Rest, At
  <2>2. ASSUME NEW p \in Procs, proc'[p].at \in {"grace", "purging"}
        PROVE  proc'[p] = proc[p]
    BY <1>4, <1>7, <2>2 DEF Rest
  <2> QED  BY <1>8, <2>1, <2>2 DEF DeletesAlone, Alone, Astray
<1>11. Claims'
  <2>1. \A q \in Procs : proc[q].reader # None => proc[q].reader \notin {r, m}
    BY <1>1, CoordinatorConstants DEF Claims, At, Process, Procs
  <2> QED  BY <1>1, <1>4, <1>7, <2>1 DEF Claims, At, Process, Procs, Rest
<1>12. TimersListed'
  BY <1>1, <1>2, <1>3, <1>4, <1>7, CoordinatorConstants DEF TimersListed, At, Procs, Rest
<1>13. PrefetchListed' /\ ViewsHeld'
  BY <1>1, <1>2, <1>4, <1>7, <1>8, CoordinatorConstants, SMTT(60)
     DEF PrefetchListed, ViewsHeld, Astray, At, Procs, Rest
<1>14. LostOK'
  BY <1>1, <1>7, <1>8, CoordinatorConstants DEF LostOK, AstrayByCancel, Astray, Looking, Procs
<1> QED  BY <1>9, <1>10, <1>11, <1>12, <1>13, <1>14

LEMMA RestartKeeps ==
    ASSUME Restart
    PROVE  ProcInv'
<1> USE DEF ProcInv
<1>1. /\ proc' = [p \in Procs |-> Rest] /\ gate' = None
      /\ prefetches' = [t \in Torrents |-> None] /\ idles' = [t \in Torrents |-> None]
      /\ view' = [v \in Views |-> None] /\ detached' = {} /\ aborted' = {}
  BY DEF Restart, CacheRestart
<1>2. TasksOK' /\ Shapes'
  BY <1>1, RestFits DEF TasksOK, Shapes, WellFormed
<1>3. GateHeld' /\ Claims' /\ TimersListed' /\ DeletesAlone'
  BY <1>1, CoordinatorConstants DEF GateHeld, Claims, TimersListed, DeletesAlone, Rest, Inside
<1>4. PrefetchListed' /\ ViewsHeld' /\ LostOK'
  BY <1>1, CoordinatorConstants
     DEF PrefetchListed, ViewsHeld, LostOK, AstrayByCancel, Astray, Rest, At, Procs
<1> QED  BY <1>2, <1>3, <1>4

\* What the engine does, a read, and the start leave the processes alone.
LEMMA ProcUntouched ==
    ASSUME ProcInv, UNCHANGED <<gate, tasks, proc, view>>
    PROVE  ProcInv'
BY DEF ProcInv, TasksOK, Shapes, GateHeld, Claims, TimersListed, PrefetchListed, ViewsHeld,
   LostOK, AstrayByCancel, Astray, DeletesAlone, Alone, tasks, lost, At

-----------------------------------------------------------------------------
(* A future that is dropped. *)

\* The process that is dropped, with the reader of a play that had not returned.
Going(p) == {p, Held(p)} \ {None}

LEMMA LeavesEnds ==
    ASSUME GateInv, NEW p \in Clients \cup Prefetchers, proc[p].at \notin Looking, Leaves(p)
    PROVE  /\ Going(p) \subseteq Procs /\ Going(p) \cap Timers = {}
           /\ Going(p) \cap detached = {} /\ Going(p) \cap Prefetchers \subseteq {p}
           /\ \A q \in Procs : proc[q].reader \in Going(p) => q \in Going(p)
           /\ Without(p) = [q \in Procs |-> IF q \in Going(p) THEN Rest ELSE proc[q]]
           /\ gate' = IF gate \in Going(p) THEN None ELSE gate
           /\ view' = [v \in Views |-> IF v \in Going(p) THEN None ELSE view[v]]
           /\ UNCHANGED idles
           /\ \A t \in Torrents : prefetches[t] \notin Going(p)
<1> USE DEF GateInv, ProcInv, TasksOK
<1> DEFINE r == Held(p)
           D == Going(p)
<1>1. p \in Procs /\ p \notin Readers \cup Timers /\ p # None
  BY CoordinatorConstants DEF Procs
<1>2. r = None \/ (r \in Readers /\ r \in Procs /\ proc[r].at = "open" /\ proc[p].reader = r
                   /\ proc[p].at = "prefetching" /\ view[r] # None)
  <2>1. CASE proc[p].at = "prefetching"
    <3>1. proc[p].kind = "play" /\ proc[p].reader # None
      BY <1>1, <2>1 DEF Shapes, WellFormed
    <3>2. proc[p].reader \in Readers /\ proc[p].reader \in Procs
      BY <1>1, <3>1 DEF Process, Procs
    <3>3. proc[proc[p].reader].at = "open"
      BY <1>1, <2>1, <3>1 DEF Claims, At
    <3> QED  BY <2>1, <3>1, <3>2, <3>3 DEF Held, At, ViewsHeld
  <2> QED  BY <2>1 DEF Held, At
<1>3. D = IF r = None THEN {p} ELSE {p, r}
  BY <1>1 DEF Going
<1>4. view' = [v \in Views |-> IF v \in D THEN None ELSE view[v]]
  <2>1. view \in [Views -> Torrents \cup {None}]
    BY DEF PinInv, CacheOK
  <2>2. p \in Views => view[p] = None
    BY <1>1, CoordinatorConstants DEF ViewsHeld, At, Looking
  <2>3. CASE r = None
    BY <1>3, <2>1, <2>2, <2>3 DEF Leaves, cache
  <2>4. CASE r # None
    <3>1. view' = [view EXCEPT ![r] = None]
      BY <1>2, <2>4 DEF Leaves, Unpin
    <3> QED  BY <1>2, <1>3, <2>1, <2>2, <2>4, <3>1
  <2> QED  BY <2>3, <2>4
<1>5. gate' = IF gate \in D THEN None ELSE gate
  <2>1. r # None => gate # r
    BY <1>2 DEF GateHeld, Inside
  <2> QED  BY <1>1, <1>2, <1>3, <2>1 DEF Leaves
<1>6. Without(p) = [q \in Procs |-> IF q \in D THEN Rest ELSE proc[q]]
  <2>1. \A q \in Procs : q \in {p, r} <=> q \in D
    BY <1>3, CoordinatorConstants
  <2> QED  BY <2>1 DEF Without
<1>7. D \cap detached = {}
  BY <1>2, <1>3, CoordinatorConstants DEF LostOK
<1>8. \A q \in Procs : proc[q].reader \in D => q \in D
  <2>1. ASSUME NEW q \in Procs, proc[q].reader \in D
        PROVE  q = p
    <3>1. proc[q].reader \in Readers \cup {None} /\ proc[q].reader # p
      BY <1>1 DEF Process
    <3>2. proc[q].reader = r /\ r # None
      BY <1>3, <2>1, <3>1
    <3> QED  BY <1>1, <1>2, <2>1, <3>2 DEF Claims
  <2> QED  BY <1>3, <2>1
<1>9. \A t \in Torrents : prefetches[t] \notin D
  BY <1>1, <1>2, <1>3, CoordinatorConstants DEF PrefetchListed, Looking
<1>10. UNCHANGED idles
  BY DEF Leaves
<1>11. D \subseteq Procs /\ D \cap Timers = {} /\ D \cap Prefetchers \subseteq {p}
  BY <1>1, <1>2, <1>3, CoordinatorConstants
<1> QED  BY <1>4, <1>5, <1>6, <1>7, <1>8, <1>9, <1>10, <1>11

LEMMA GiveUpKeeps ==
    ASSUME GateInv, NEW p \in Clients \cup Prefetchers,
           GiveUp(p) \/ (GiveUpJoin(p) /\ "cancel" \in Faults)
    PROVE  ProcInv'
<1> USE DEF GateInv, ProcInv, TasksOK
<1>1. Leaves(p) /\ proc' = Without(p) /\ UNCHANGED detached /\ proc[p].at \notin Looking
  BY DEF GiveUp, GiveUpJoin, At, Looking
<1> DEFINE D == Going(p)
<1>2. /\ D \subseteq Procs /\ D \cap Timers = {}
      /\ D \cap detached = {} /\ D \cap Prefetchers \subseteq {p}
      /\ \A q \in Procs : proc[q].reader \in D => q \in D
      /\ proc' = [q \in Procs |-> IF q \in D THEN Rest ELSE proc[q]]
      /\ gate' = IF gate \in D THEN None ELSE gate
      /\ view' = [v \in Views |-> IF v \in D THEN None ELSE view[v]]
      /\ UNCHANGED idles
      /\ \A t \in Torrents : prefetches[t] \notin D
  BY <1>1, LeavesEnds
<1>3. aborted \in SUBSET Prefetchers /\ (aborted # {} => "cancel" \in Faults)
  BY DEF LostOK, AstrayByCancel, Astray
<1>4. p \in D
  BY CoordinatorConstants DEF Going, Procs
<1> HIDE DEF D
<1>5. CASE GiveUp(p)
  <2>1. UNCHANGED prefetches /\ aborted' = aborted \ {p}
    BY <1>5 DEF GiveUp
  <2>2. Ends(D)
    BY <1>1, <1>2, <1>3, <1>4, <2>1 DEF Ends
  <2> QED  BY <2>2, EndsKeeps
<1>6. CASE GiveUpJoin(p) /\ "cancel" \in Faults
  <2> DEFINE t == proc[p].on
             f == prefetches[t]
  <2>1. /\ f # None /\ prefetches' = [prefetches EXCEPT ![t] = None]
        /\ aborted' = (aborted \ {p}) \cup {f}
    BY <1>6 DEF GiveUpJoin
  <2>2. t \in Torrents /\ f \in Prefetchers /\ f \notin D
    <3>1. proc[p].at \in {"prefetching", "stopping"} /\ p \in Procs
      BY <1>6 DEF GiveUpJoin, At, Procs
    <3>2. t \in Torrents
      BY <3>1 DEF Shapes, WellFormed, Working, Inside
    <3> QED  BY <1>2, <2>1, <3>2
  <2> HIDE DEF f, t
  <2>3. /\ prefetches' \in [Torrents -> Prefetchers \cup {None}]
        /\ \A x \in Torrents :
             /\ prefetches'[x] \in {prefetches[x], None} \ D
             /\ prefetches'[x] # prefetches[x] => x = t /\ prefetches[x] = f
        /\ prefetches[t] = f /\ prefetches'[t] # f
    <3>1. None \notin D
      BY <1>2, CoordinatorConstants
    <3> QED  BY <1>2, <2>1, <2>2, <3>1 DEF f
  <2>4. /\ aborted' \in SUBSET Prefetchers /\ aborted' \cap D = {}
        /\ \A g \in aborted \ D : g \in aborted'
        /\ \A g \in aborted' \ aborted : g = f
        /\ f \in aborted'
    BY <1>2, <1>3, <1>4, <2>1, <2>2
  <2>5. Ends(D)
    BY <1>1, <1>2, <1>6, <2>2, <2>3, <2>4 DEF Ends
  <2> QED  BY <2>5, EndsKeeps
<1> QED  BY <1>5, <1>6

\* The task of a play that was dropped before it listed it is on its own.
LEMMA GiveUpStartKeeps ==
    ASSUME GateInv, NEW p \in Clients \cup Prefetchers, GiveUpStart(p), "cancel" \in Faults
    PROVE  ProcInv'
<1> USE DEF GateInv, ProcInv, TasksOK
<1> DEFINE t == proc[p].on
           r == proc[p].reader
           u == [[Rest EXCEPT !.at = "start"] EXCEPT !.on = t]
<1>1. /\ p \in Procs /\ p \in Clients /\ proc[p].at = "prefetching" /\ proc[p].kind = "play"
      /\ t \in Torrents /\ prefetches[t] = None /\ gate = p /\ gate' = None
      /\ UNCHANGED <<prefetches, idles, aborted>>
  BY DEF GiveUpStart, Leaves, Shapes, WellFormed, At, GateHeld, Inside, Working, Deleting,
     Looking, Procs
<1>2. r \in Readers /\ r \in Procs /\ proc[r].at = "open" /\ r # p /\ r # None
  <2>1. r # None
    BY <1>1 DEF Shapes, WellFormed
  <2>2. r \in Readers /\ r \in Procs
    BY <1>1, <2>1 DEF Process, Procs
  <2> QED  BY <1>1, <2>1, <2>2, CoordinatorConstants DEF Claims, At
<1>3. /\ view' = [view EXCEPT ![r] = None]
      /\ view \in [Readers \cup Prefetchers -> Torrents \cup {None}]
  <2>1. Held(p) = r
    BY <1>1 DEF Held, At
  <2>2. Unpin(r)
    BY <1>2, <2>1 DEF GiveUpStart, Leaves
  <2> QED  BY <2>2, CoordinatorConstants DEF Unpin, PinInv, CacheOK
<1>4. PICK f \in Prefetchers :
        /\ proc[f].at = "idle"
        /\ detached' = detached \cup {f}
        /\ proc' = [Without(p) EXCEPT ![f].at = "start", ![f].on = t]
  BY DEF GiveUpStart, At
<1>5. proc[f] = Rest /\ f \in Procs /\ f # p /\ f # r /\ f # None
  BY <1>1, <1>2, <1>4, CoordinatorConstants DEF Shapes, WellFormed, Procs
<1>6. u \in Process /\ u.at = "start" /\ u.on = t /\ u.reader = None
  BY <1>1 DEF Process, Labels, Rest
<1>7. /\ proc'[p] = Rest /\ proc'[r] = Rest /\ proc'[f] = u /\ proc' \in [Procs -> Process]
      /\ \A q \in Procs \ {p, r, f} : proc'[q] = proc[q]
  <2>1. Without(p) = [q \in Procs |-> IF q \in {p, r} THEN Rest ELSE proc[q]]
    BY <1>1 DEF Without, Held, At
  <2>2. Without(p)[f] = Rest
    BY <1>5, <2>1
  <2>3. proc' = [Without(p) EXCEPT ![f] = u]
    BY <1>4, <2>2
  <2>4. Rest \in Process
    BY DEF Rest, Process, Labels
  <2> HIDE DEF u, t, r
  <2> QED  BY <1>1, <1>2, <1>5, <1>6, <2>1, <2>3, <2>4
<1> HIDE DEF u, r
<1>8. WellFormed(f, u) /\ WellFormed(p, Rest) /\ WellFormed(r, Rest)
  <2>1. WellFormed(f, u)
    BY <1>1, <1>6, CoordinatorConstants
       DEF WellFormed, Inside, Working, Deleting, Loading, Looking
  <2> QED  BY <1>1, <1>2, <2>1, RestFits
<1>9. TasksOK' /\ Shapes'
  BY <1>1, <1>7, <1>8 DEF Shapes
<1>10. GateHeld'
  BY <1>1, <1>2, <1>5, <1>6, <1>7, CoordinatorConstants DEF GateHeld, Inside, Rest
<1>11. DeletesAlone'
  <2>1. \A q \in Procs : proc'[q].at \notin {"grace", "purging"}
    BY <1>1, <1>6, <1>7 DEF GateHeld, Inside, Rest
  <2> QED  BY <2>1 DEF DeletesAlone
<1>12. Claims'
  <2>1. ASSUME NEW q \in Procs, proc'[q].reader # None
        PROVE  proc'[q] = proc[q] /\ proc'[proc[q].reader] = proc[proc[q].reader]
    <3>1. q \notin {p, r, f} /\ proc'[q] = proc[q]
      BY <1>6, <1>7, <2>1 DEF Rest
    <3>2. proc[q].reader \in Readers /\ proc[q].reader \in Procs /\ proc[q].reader # r
      BY <1>1, <1>2, <2>1, <3>1 DEF Process, Procs, Claims, r
    <3> QED  BY <1>1, <1>7, <3>1, <3>2, CoordinatorConstants
  <2> QED  BY <2>1 DEF Claims, At
<1>13. TimersListed'
  BY <1>1, <1>2, <1>7, CoordinatorConstants DEF TimersListed, At, Procs
<1>14. f \notin Astray
  BY <1>5 DEF LostOK, Astray, Looking, Rest
<1>15. PrefetchListed'
  BY <1>1, <1>2, <1>4, <1>5, <1>6, <1>7, <1>14, CoordinatorConstants
     DEF PrefetchListed, Astray, Rest, Procs
<1>16. ViewsHeld'
  BY <1>1, <1>2, <1>3, <1>5, <1>6, <1>7, CoordinatorConstants DEF ViewsHeld, At, Rest, Procs
<1>17. LostOK'
  BY <1>1, <1>2, <1>4, <1>6, <1>7, <1>14, CoordinatorConstants
     DEF LostOK, AstrayByCancel, Astray, Looking, Procs, Rest
<1> QED  BY <1>9, <1>10, <1>11, <1>12, <1>13, <1>15, <1>16, <1>17

\* Cut short between two of its steps, an operation lets go of the gate.
LEMMA CutShortMoves ==
    ASSUME GateInv, NEW p \in Procs, AddCutShort(p) \/ PurgeCutShort(p)
    PROVE  Moves(p)
<1> USE DEF GateInv, ProcInv, TasksOK
<1>1. /\ proc[p].at \in {"initing", "purging"} /\ proc' = [proc EXCEPT ![p] = Rest]
      /\ gate' = IF gate = p THEN None ELSE gate
      /\ UNCHANGED <<prefetches, idles, detached, view>>
  BY DEF AddCutShort, PurgeCutShort, At, tasks, lost, cache, Remove
<1>2. aborted' \in {aborted, aborted \ {p}} /\ p \notin aborted'
  <2>1. CASE AddCutShort(p)
    <3>1. p \in Clients
      BY <2>1 DEF AddCutShort, At, Shapes, WellFormed, Deleting, Looking, Procs
    <3> QED  BY <2>1, <3>1, CoordinatorConstants DEF AddCutShort, tasks, lost, LostOK
  <2> QED  BY <2>1 DEF PurgeCutShort
<1>3. WellFormed(p, Rest) /\ Rest \in Process
  BY RestFits DEF WellFormed
<1>4. \A t \in Torrents : idles'[t] \in {idles[t], None} /\ idles'[t] # p
  BY <1>1, CoordinatorConstants DEF TimersListed, At
<1> QED  BY <1>1, <1>2, <1>3, <1>4 DEF Moves, At, Inside, Using, Looking, Rest

LEMMA StopsKeeps ==
    ASSUME GateInv, NEW p \in Clients \cup Prefetchers, Stops(p), "cancel" \in Faults
    PROVE  ProcInv'
<1>1. p \in Procs
  BY DEF Procs
<1>2. CASE AddCutShort(p) \/ PurgeCutShort(p)
  BY <1>1, <1>2, CutShortMoves, MovesKeeps DEF GateInv
<1>3. CASE GiveUp(p) \/ GiveUpJoin(p)
  BY <1>3, GiveUpKeeps
<1>4. CASE GiveUpStart(p)
  BY <1>4, GiveUpStartKeeps
<1> QED  BY <1>2, <1>3, <1>4 DEF Stops

LEMMA AbortLandsKeeps ==
    ASSUME GateInv, NEW f \in Prefetchers, AbortLands(f)
    PROVE  ProcInv'
<1> USE DEF GateInv, ProcInv, TasksOK
<1>1. f \in aborted /\ "cancel" \in Faults /\ f \notin detached /\ f \in Procs /\ f \in Views
      /\ aborted \in SUBSET Prefetchers
  BY CoordinatorConstants DEF AbortLands, LostOK, AstrayByCancel, Astray, Procs
<1>2. CASE Stops(f)
  BY <1>1, <1>2, StopsKeeps
<1>3. CASE /\ proc[f].at \in Looking
           /\ IF view[f] = None THEN UNCHANGED cache ELSE Unpin(f)
           /\ proc' = [proc EXCEPT ![f] = Rest]
           /\ aborted' = aborted \ {f}
           /\ UNCHANGED <<gate, prefetches, idles, detached>>
  <2>1. view' = [view EXCEPT ![f] = None] /\ view \in [Views -> Torrents \cup {None}]
    BY <1>1, <1>3, UnpinView
  <2>2. {f} \subseteq Procs /\ {f} \cap Timers = {} /\ {f} \cap detached = {} /\ gate \notin {f}
    BY <1>1, <1>3, CoordinatorConstants DEF GateHeld, Inside, Looking
  <2>3. \A q \in Procs : proc[q].reader \notin {f}
    BY <1>1, CoordinatorConstants DEF Process, Procs
  <2>4. /\ proc' = [q \in Procs |-> IF q \in {f} THEN Rest ELSE proc[q]]
        /\ view' = [v \in Views |-> IF v \in {f} THEN None ELSE view[v]]
    BY <1>1, <1>3, <2>1
  <2>5. \A t \in Torrents : prefetches[t] \notin {f}
    BY <1>1, CoordinatorConstants DEF PrefetchListed, Astray, Procs
  <2>6. None \notin {f}
    BY <1>1, CoordinatorConstants
  <2>7. Ends({f})
    BY <1>1, <1>3, <2>2, <2>3, <2>4, <2>5, <2>6 DEF Ends
  <2> QED  BY <2>7, EndsKeeps
<1> QED  BY <1>2, <1>3 DEF AbortLands, Looking

-----------------------------------------------------------------------------
(* Every step of the coordinator is a step of the cache, or leaves it alone.   *)

LEMMA StopsCache ==
    ASSUME GateInv, NEW p \in Clients \cup Prefetchers, Stops(p)
    PROVE  [CacheNext]_cache
<1> USE DEF GateInv, ProcInv, TasksOK
<1>1. p \in Procs
  BY DEF Procs
<1>2. ASSUME Leaves(p)
      PROVE  [CacheNext]_cache
  <2>1. CASE Held(p) # None
    <3>1. Held(p) \in Readers
      BY <1>1, <2>1 DEF Held, Process
    <3>2. Held(p) \in Views
      BY <3>1, CoordinatorConstants
    <3> QED  BY <1>2, <2>1, <3>2 DEF Leaves, CacheNext
  <2> QED  BY <1>2, <2>1 DEF Leaves
<1>3. CASE GiveUp(p) \/ GiveUpJoin(p) \/ GiveUpStart(p)
  BY <1>2, <1>3 DEF GiveUp, GiveUpJoin, GiveUpStart
<1>4. CASE AddCutShort(p)
  BY <1>4 DEF AddCutShort
<1>5. CASE PurgeCutShort(p)
  <2>1. proc[p].on \in Torrents
    BY <1>1, <1>5 DEF PurgeCutShort, At, Shapes, WellFormed, Working, Inside
  <2> QED  BY <1>5, <2>1 DEF PurgeCutShort, CacheNext
<1> QED  BY <1>3, <1>4, <1>5 DEF Stops

LEMMA CacheStep ==
    ASSUME GateInv, [Next]_vars
    PROVE  [CacheNext]_cache
<1> USE DEF GateInv, ProcInv, TasksOK, BooksOK
<1>1. cap \in Caps /\ view \in [Views -> Torrents \cup {None}] /\ Views = Readers \cup Prefetchers
      /\ \A p \in Procs : proc[p].at \in Working => proc[p].on \in Torrents
  BY CoordinatorConstants DEF PinInv, CacheOK, Shapes, WellFormed
<1>2. CASE Requested \/ \E c \in Clients : NextHash(c)
  BY <1>2 DEF Requested, AskAbout, AskPlay, AskWipe, AskSettings, Ask, NextHash, CacheNext
<1>3. ASSUME NEW p \in Procs, TakeGate(p)
      PROVE  UNCHANGED cache
  BY <1>3 DEF TakeGate, GateAdd, GatePlay, GateDrop, GateRem, GateTrim
<1>4. ASSUME NEW p \in Procs, SessionAdd(p)
      PROVE  [CacheNext]_cache
  <2>1. proc[p].on \in Torrents
    BY <1>1, <1>4 DEF SessionAdd, At, Working, Inside
  <2> QED  BY <1>4, <2>1 DEF SessionAdd, CacheNext
<1>5. ASSUME NEW p \in Procs, OpenReader(p)
      PROVE  [CacheNext]_cache
  <2>1. proc[p].on \in Torrents
    BY <1>1, <1>5 DEF OpenReader, At, Working, Inside
  <2>2. proc[p].reader \in Readers
    BY <1>5 DEF OpenReader, At, Loading, Shapes, WellFormed, Process
  <2> QED  BY <1>1, <1>5, <2>1, <2>2 DEF OpenReader, CacheNext
<1>6. ASSUME NEW p \in Procs, StopPrefetch(p)
      PROVE  [CacheNext]_cache
  <2>1. proc[p].on \in Torrents
    BY <1>1, <1>6 DEF StopPrefetch, At, Working, Inside
  <2>2. prefetches[proc[p].on] \in Views
    BY <1>1, <1>6, <2>1 DEF StopPrefetch
  <2> QED  BY <1>6, <2>2 DEF StopPrefetch, CacheNext
<1>7. ASSUME NEW p \in Procs, Purge(p)
      PROVE  [CacheNext]_cache
  <2>1. proc[p].on \in Torrents
    BY <1>1, <1>7 DEF Purge, At, Working, Inside
  <2> QED  BY <1>7, <2>1 DEF Purge, CacheNext
<1>8. ASSUME NEW p \in Procs,
             \/ Initialized(p) \/ StartPrefetch(p) \/ Detach(p) \/ GraceEnds(p)
             \/ PurgeFails(p) \/ NextVictim(p) \/ SweepEnds(p)
             \/ InitFails(p) \/ PersistFails(p) \/ DetachFails(p)
      PROVE  UNCHANGED cache
  BY <1>8 DEF Initialized, StartPrefetch, Detach, GraceEnds, PurgeFails, NextVictim, SweepEnds,
     InitFails, PersistFails, DetachFails
<1>9. ASSUME NEW f \in Prefetchers, Ahead(f)
      PROVE  [CacheNext]_cache
  <2>1. f \in Views /\ (proc[f].at \in Looking => proc[f].on \in Torrents)
    BY <1>1 DEF Working, Looking, Procs
  <2>2. CASE PrefetchBegins(f) \/ PrefetchReads(f) \/ PrefetchPins(f) \/ PrefetchEnds(f)
    BY <2>1, <2>2 DEF PrefetchBegins, PrefetchReads, PrefetchPins, PrefetchEnds, At, Looking,
       CacheNext
  <2>3. CASE AbortLands(f)
    BY <2>1, <2>3, StopsCache DEF AbortLands, CacheNext
  <2> QED  BY <1>9, <2>2, <2>3 DEF Ahead
<1>10. ASSUME NEW r \in Readers, Close(r) \/ ReadOn(r) \/ Schedule(r) \/ Arm(r)
       PROVE  [CacheNext]_cache
  <2>1. r \in Views /\ (At(r, "open") => view[r] \in Torrents)
    BY <1>1, CoordinatorConstants DEF ViewsHeld
  <2> QED  BY <1>10, <2>1 DEF Close, ReadOn, Schedule, Arm, CacheNext
<1>11. ASSUME NEW m \in Timers, Fire(m)
       PROVE  UNCHANGED cache
  BY <1>11 DEF Fire
<1>15. ASSUME NEW c \in Clients, Cancel(c)
       PROVE  [CacheNext]_cache
  BY <1>15, StopsCache DEF Cancel
<1>12. ASSUME NEW w \in Writers,
              EngineWrites(w) \/ \E t \in Torrents, c \in Chunks : Download(w, t, c)
       PROVE  [CacheNext]_cache
  BY <1>12 DEF EngineWrites, Download, CacheNext
<1>13. CASE Restart \/ Boot
  BY <1>1, <1>13 DEF Restart, Boot, CacheNext
<1>14. CASE UNCHANGED vars
  BY <1>14 DEF vars
<1> QED
  BY <1>2, <1>3, <1>4, <1>5, <1>6, <1>7, <1>8, <1>9, <1>10, <1>11, <1>12, <1>13, <1>14, <1>15
     DEF Next, Step, Background, Disturbed

\* An operation cut short in its initialisation or its removal.
CutShort ==
    \E p \in Clients \cup Prefetchers :
      (AddCutShort(p) \/ PurgeCutShort(p)) /\ "cancel" \in Faults

\* The books change in nine actions.
BookChange ==
    \/ \E p \in Procs : GateAdd(p) \/ SessionAdd(p) \/ Initialized(p) \/ PersistFails(p)
                        \/ Detach(p) \/ GraceEnds(p) \/ Purge(p)
    \/ CutShort
    \/ Restart

LEMMA StopsBooks ==
    ASSUME NEW p, Stops(p)
    PROVE  /\ UNCHANGED <<booted, removeOnDrop>>
           /\ AddCutShort(p) \/ PurgeCutShort(p) \/ UNCHANGED books
BY DEF Stops, GiveUp, GiveUpJoin, GiveUpStart, Leaves, AddCutShort, PurgeCutShort

LEMMA AheadBooks ==
    ASSUME GateInv, NEW f \in Prefetchers, Ahead(f)
    PROVE  UNCHANGED <<booted, removeOnDrop>> /\ (CutShort \/ UNCHANGED books)
<1>1. CASE PrefetchBegins(f) \/ PrefetchReads(f) \/ PrefetchPins(f) \/ PrefetchEnds(f)
  BY <1>1 DEF PrefetchBegins, PrefetchReads, PrefetchPins, PrefetchEnds
<1>2. CASE AbortLands(f)
  <2>1. "cancel" \in Faults
    BY <1>2 DEF AbortLands, GateInv, ProcInv, LostOK, AstrayByCancel, Astray
  <2>2. CASE Stops(f)
    BY <2>1, <2>2, StopsBooks DEF CutShort
  <2> QED  BY <1>2, <2>2 DEF AbortLands
<1> QED  BY <1>1, <1>2 DEF Ahead

LEMMA BooksChange ==
    ASSUME GateInv, [Next]_vars
    PROVE  BookChange \/ UNCHANGED books
<1> USE DEF BookChange
<1>1. CASE Requested \/ \E c \in Clients : NextHash(c) \/ Cancel(c)
  <2>1. ASSUME NEW c \in Clients, Cancel(c)
        PROVE  CutShort \/ UNCHANGED books
    BY <2>1, StopsBooks DEF Cancel, CutShort
  <2> QED
    BY <1>1, <2>1 DEF Requested, AskAbout, AskPlay, AskWipe, AskSettings, Ask, NextHash
<1>2. ASSUME NEW p \in Procs, TakeGate(p)
      PROVE  GateAdd(p) \/ UNCHANGED books
  BY <1>2 DEF TakeGate, GatePlay, GateDrop, GateRem, GateTrim
<1>3. ASSUME NEW p \in Procs,
             \/ OpenReader(p) \/ StopPrefetch(p) \/ StartPrefetch(p) \/ PurgeFails(p)
             \/ NextVictim(p) \/ SweepEnds(p) \/ InitFails(p) \/ DetachFails(p)
      PROVE  UNCHANGED books
  BY <1>3 DEF OpenReader, StopPrefetch, StartPrefetch, PurgeFails, NextVictim, SweepEnds,
     InitFails, DetachFails
<1>4. CASE Background
  BY <1>4, AheadBooks DEF Background, Close, ReadOn, Schedule, Arm, Fire, EngineWrites, Download
<1>5. CASE Boot \/ UNCHANGED vars
  BY <1>5 DEF Boot, vars
<1> QED
  BY <1>1, <1>2, <1>3, <1>4, <1>5 DEF Next, Step, Disturbed

LEMMA BooksStep ==
    ASSUME GateInv, [Next]_vars
    PROVE  BooksOK'
<1> USE DEF GateInv, BooksOK
<1>1. booted' \in BOOLEAN /\ removeOnDrop' \in BOOLEAN
  <2>1. CASE Requested \/ \E c \in Clients : NextHash(c) \/ Cancel(c)
    BY <2>1, StopsBooks
       DEF Requested, AskAbout, AskPlay, AskWipe, AskSettings, Ask, NextHash, Cancel
  <2>2. ASSUME NEW p \in Procs, Step(p) \/ InitFails(p) \/ PersistFails(p) \/ DetachFails(p)
        PROVE  UNCHANGED <<booted, removeOnDrop>>
    BY <2>2 DEF Step, TakeGate, GateAdd, GatePlay, GateDrop, GateRem, GateTrim, SessionAdd,
       Initialized, OpenReader, StopPrefetch, StartPrefetch, Detach, GraceEnds, Purge, PurgeFails,
       NextVictim, SweepEnds, InitFails, PersistFails, DetachFails
  <2>3. CASE Background
    BY <2>3, AheadBooks
       DEF Background, Close, ReadOn, Schedule, Arm, Fire, EngineWrites, Download
  <2>4. CASE Restart \/ Boot \/ UNCHANGED vars
    BY <2>4 DEF Restart, Boot, vars
  <2> QED  BY <2>1, <2>2, <2>3, <2>4 DEF Next, Disturbed
<1>2. ASSUME NEW p \in Procs,
             \/ GateAdd(p) \/ SessionAdd(p) \/ Initialized(p) \/ PersistFails(p)
             \/ Detach(p) \/ GraceEnds(p) \/ Purge(p)
      PROVE  /\ saved' \in SUBSET Torrents /\ live' \in SUBSET Torrents
             /\ loaded' \in SUBSET Torrents /\ session' \in SUBSET Torrents
  <2>1. (GateAdd(p) => proc[p].on \in live) => proc[p].on \in Torrents
    BY <1>2 DEF ProcInv, Shapes, WellFormed, Working, Inside, At, SessionAdd, Initialized,
       PersistFails, Detach, GraceEnds, Purge
  <2> QED
    BY <1>2, <2>1 DEF books, GateAdd, SessionAdd, Initialized, PersistFails, Detach,
       GraceEnds, Purge
<1>5. ASSUME NEW p \in Procs,
             \/ GateAdd(p) \/ SessionAdd(p) \/ Initialized(p) \/ PersistFails(p)
             \/ Detach(p) \/ GraceEnds(p) \/ Purge(p)
      PROVE  BooksOK'
  <2>1. /\ saved' \in SUBSET Torrents /\ live' \in SUBSET Torrents
        /\ loaded' \in SUBSET Torrents /\ session' \in SUBSET Torrents
    BY <1>2, <1>5
  <2> QED  BY ONLY <1>1, <2>1 DEF BooksOK
<1>3. ASSUME NEW p \in Procs, AddCutShort(p) \/ PurgeCutShort(p)
      PROVE  BooksOK'
  <2>1. proc[p].on \in Torrents
    BY <1>3 DEF ProcInv, Shapes, WellFormed, Working, Inside, At, AddCutShort, PurgeCutShort
  <2>2. /\ saved' \in SUBSET Torrents /\ live' \in SUBSET Torrents
        /\ loaded' \in SUBSET Torrents /\ session' \in SUBSET Torrents
    BY <1>3, <2>1 DEF AddCutShort, PurgeCutShort
  <2> QED  BY ONLY <1>1, <2>2 DEF BooksOK
<1>4. CutShort => BooksOK'
  BY <1>3 DEF CutShort, Procs
<1>6. CASE UNCHANGED books \/ Restart
  <2>1. /\ saved' \in SUBSET Torrents /\ live' \in SUBSET Torrents
        /\ loaded' \in SUBSET Torrents /\ session' \in SUBSET Torrents
    BY <1>6 DEF books, Restart
  <2> QED  BY ONLY <1>1, <2>1 DEF BooksOK
<1>7. BookChange \/ UNCHANGED books
  BY BooksChange
<1> QED  BY ONLY <1>4, <1>5, <1>6, <1>7 DEF BookChange

-----------------------------------------------------------------------------
(* The invariant. *)

LEMMA ProcStep ==
    ASSUME GateInv, [Next]_vars
    PROVE  ProcInv'
<1> USE DEF GateInv
<1>1. ASSUME NEW p \in Procs, Moves(p)
      PROVE  ProcInv'
  BY <1>1, MovesKeeps
<1>2. CASE Requested
  <2>1. ASSUME NEW c \in Clients, NEW t \in Torrents, AskAbout(c, t)
        PROVE  ProcInv'
    <3>1. PICK k \in {"add", "addSave", "drop", "rem", "evict"} : Ask(c, k, t, None)
      BY <2>1 DEF AskAbout
    <3>2. UNCHANGED view
      BY <3>1 DEF Ask, cache
    <3> QED  BY <3>1, <3>2, AskKeeps DEF RequestKinds
  <2>2. ASSUME NEW c \in Clients, NEW t \in Torrents, AskPlay(c, t)
        PROVE  ProcInv'
    <3>1. PICK r \in Readers : Free(r) /\ Ask(c, "play", t, r)
      BY <2>2 DEF AskPlay
    <3>2. UNCHANGED view /\ r # None
      BY <3>1, CoordinatorConstants DEF Ask, cache, Procs
    <3> QED  BY <3>1, <3>2, AskKeeps DEF RequestKinds
  <2>3. ASSUME NEW c \in Clients,
               \/ AskWipe(c)
               \/ \E n \in Caps, remove \in BOOLEAN : AskSettings(c, n, remove)
        PROVE  Moves(c)
    <3> USE DEF ProcInv, TasksOK
    <3>1. PICK k \in {"wipe", "settings"}, todo \in SUBSET Torrents :
            proc' = [proc EXCEPT ![c] = [Rest EXCEPT !.at = "next", !.kind = k, !.todo = todo]]
      BY <2>3 DEF AskWipe, AskSettings, BooksOK
    <3> DEFINE u == [[[Rest EXCEPT !.at = "next"] EXCEPT !.kind = k] EXCEPT !.todo = todo]
    <3>2. u \in Process /\ u.at = "next" /\ u.kind = k /\ u.reader = None
      BY DEF Rest, Process, Labels, RequestKinds
    <3>3. proc' = [proc EXCEPT ![c] = u] /\ c \in Procs
      BY <3>1 DEF Procs
    <3> HIDE DEF u
    <3>4. proc'[c] = u /\ proc' \in [Procs -> Process] /\ \A q \in Procs \ {c} : proc'[q] = proc[q]
      BY <3>2, <3>3
    <3>5. WellFormed(c, u)
      BY <3>2, CoordinatorConstants DEF WellFormed, Inside, Working, Deleting, Loading, Looking
    <3>6. At(c, "idle") /\ UNCHANGED <<gate, prefetches, idles, detached, aborted, view>>
      BY <2>3 DEF AskWipe, AskSettings, SetCap, tasks, lost, cache
    <3>7. gate # c
      BY <3>6, <3>3 DEF GateHeld, Inside, At
    <3>8. \A t \in Torrents : idles'[t] \in {idles[t], None} /\ idles'[t] # c
      BY <3>6, CoordinatorConstants DEF Procs
    <3> QED
      BY <3>2, <3>3, <3>4, <3>5, <3>6, <3>7, <3>8, CoordinatorConstants
         DEF Moves, At, Inside, Using, Looking
  <2> QED  BY <1>1, <1>2, <2>1, <2>2, <2>3 DEF Requested, Procs
<1>3. ASSUME NEW c \in Clients, NextHash(c) \/ Cancel(c)
      PROVE  ProcInv'
  BY <1>1, <1>3, NextHashMoves, StopsKeeps DEF Procs, Cancel
<1>4. ASSUME NEW p \in Procs, TakeGate(p)
      PROVE  ProcInv'
  BY <1>1, <1>4, GateAddMoves, GatePlayMoves, GateDropRemMoves, GateTrimMoves DEF TakeGate
<1>5. ASSUME NEW p \in Procs, SessionAdd(p) \/ Initialized(p) \/ InitFails(p) \/ PersistFails(p)
      PROVE  ProcInv'
  <2>1. UNCHANGED view
    BY <1>5 DEF SessionAdd, Initialized, InitFails, PersistFails, cache, Open
  <2> QED  BY <1>1, <1>5, <2>1, LoadMoves
<1>6. ASSUME NEW p \in Procs, OpenReader(p) \/ StopPrefetch(p) \/ StartPrefetch(p)
      PROVE  ProcInv'
  BY <1>6, OpenReaderKeeps, StopPrefetchKeeps, StartPrefetchKeeps
<1>7. ASSUME NEW p \in Procs,
             \/ Detach(p) \/ DetachFails(p) \/ GraceEnds(p) \/ Purge(p) \/ PurgeFails(p)
             \/ NextVictim(p) \/ SweepEnds(p)
      PROVE  ProcInv'
  BY <1>1, <1>7, DetachMoves, GraceEndsMoves, PurgeMoves, NextVictimMoves, SweepEndsMoves
<1>8. ASSUME NEW f \in Prefetchers, Ahead(f)
      PROVE  ProcInv'
  BY <1>8, PrefetchBeginsKeeps, PrefetchEndsKeeps, AbortLandsKeeps DEF Ahead
<1>9. ASSUME NEW r \in Readers, Close(r) \/ Schedule(r) \/ Arm(r)
      PROVE  ProcInv'
  BY <1>1, <1>9, CloseKeeps, ScheduleMoves, ArmKeeps DEF Procs
<1>10. ASSUME NEW m \in Timers, Fire(m)
       PROVE  ProcInv'
  BY <1>1, <1>10, FireMoves DEF Procs
<1>11. CASE \/ \E r \in Readers : ReadOn(r)
            \/ \E w \in Writers : EngineWrites(w)
                                  \/ \E t \in Torrents, c \in Chunks : Download(w, t, c)
            \/ Boot \/ UNCHANGED vars
  <2>1. UNCHANGED <<gate, tasks, proc, view>>
    BY <1>11 DEF ReadOn, Read, EngineWrites, WriteStore, WriteCredit, Download, WriteCheck, Boot,
       DiscardUnowned, vars, cache
  <2> QED  BY <2>1, ProcUntouched
<1>12. CASE Restart
  BY <1>12, RestartKeeps
<1> QED
  BY <1>2, <1>3, <1>4, <1>5, <1>6, <1>7, <1>8, <1>9, <1>10, <1>11, <1>12
     DEF Next, Step, Background, Disturbed

-----------------------------------------------------------------------------
(* Watching: what is watched stays served. *)

\* The views change where a reader or a look-ahead task comes or goes.
LEMMA ViewsChange ==
    ASSUME GateInv, [Next]_vars
    PROVE  \/ UNCHANGED view
           \/ \E p \in Procs : OpenReader(p) \/ StopPrefetch(p)
           \/ \E f \in Prefetchers : PrefetchBegins(f) \/ PrefetchPins(f) \/ PrefetchEnds(f)
           \/ \E r \in Readers : Close(r)
           \/ \E x \in Views : view' = [view EXCEPT ![x] = None]
           \/ Restart
<1>1. CASE Requested \/ \E c \in Clients : NextHash(c)
  BY <1>1 DEF Requested, AskAbout, AskPlay, AskWipe, AskSettings, SetCap, Ask, NextHash, cache
<1>6. ASSUME NEW p \in Clients \cup Prefetchers, Stops(p)
      PROVE  UNCHANGED view \/ \E x \in Views : view' = [view EXCEPT ![x] = None]
  <2>1. CASE Leaves(p)
    <3>1. Held(p) = None \/ Held(p) \in Views
      BY CoordinatorConstants DEF Held, GateInv, ProcInv, TasksOK, Process, Procs
    <3> QED  BY <2>1, <3>1 DEF Leaves, Unpin, cache
  <2>2. CASE AddCutShort(p) \/ PurgeCutShort(p)
    BY <2>2 DEF AddCutShort, PurgeCutShort, Remove, cache
  <2> QED  BY <1>6, <2>1, <2>2 DEF Stops, GiveUp, GiveUpJoin, GiveUpStart
<1>7. ASSUME NEW f \in Prefetchers, PrefetchReads(f) \/ AbortLands(f)
      PROVE  UNCHANGED view \/ \E x \in Views : view' = [view EXCEPT ![x] = None]
  <2>1. f \in Views
    BY CoordinatorConstants
  <2> QED  BY <1>6, <1>7, <2>1 DEF PrefetchReads, AbortLands, Unpin, cache
<1>2. ASSUME NEW p \in Procs, TakeGate(p) \/ SessionAdd(p) \/ Initialized(p)
      PROVE  UNCHANGED view
  BY <1>2 DEF TakeGate, GateAdd, GatePlay, GateDrop, GateRem, GateTrim, SessionAdd, Open,
     Initialized, cache
<1>3. ASSUME NEW p \in Procs,
             \/ StartPrefetch(p) \/ Detach(p) \/ GraceEnds(p) \/ Purge(p) \/ PurgeFails(p)
             \/ NextVictim(p) \/ SweepEnds(p) \/ InitFails(p) \/ PersistFails(p) \/ DetachFails(p)
      PROVE  UNCHANGED view
  BY <1>3 DEF StartPrefetch, Detach, GraceEnds, Purge, Remove, PurgeFails, NextVictim, SweepEnds,
     InitFails, PersistFails, DetachFails, cache
<1>4. ASSUME NEW r \in Readers, ReadOn(r) \/ Schedule(r) \/ Arm(r)
      PROVE  UNCHANGED view
  BY <1>4 DEF ReadOn, Read, Schedule, Arm, cache
<1>5. CASE \/ \E m \in Timers : Fire(m)
           \/ \E w \in Writers : EngineWrites(w)
                                 \/ \E t \in Torrents, c \in Chunks : Download(w, t, c)
           \/ Boot \/ UNCHANGED vars
  BY <1>5 DEF Fire, EngineWrites, WriteStore, WriteCredit, Download, WriteCheck, Boot,
     DiscardUnowned, vars, cache
<1> QED
  BY <1>1, <1>2, <1>3, <1>4, <1>5, <1>6, <1>7
     DEF Next, Step, Background, Disturbed, Ahead, Cancel

\* Who comes to watch comes to a torrent that is served.
LEMMA WatchBegins ==
    ASSUME GateInv, [Next]_vars, NEW r \in Readers, view'[r] # None, view'[r] # view[r]
    PROVE  view'[r] \in live' \cap loaded' \cap session' \cap entries'
<1> USE DEF GateInv, ProcInv, TasksOK
<1>0. view \in [Views -> Torrents \cup {None}] /\ Views = Readers \cup Prefetchers
  BY CoordinatorConstants DEF PinInv, CacheOK
<1>1. ASSUME NEW p \in Procs, OpenReader(p)
      PROVE  view'[r] \in live' \cap loaded' \cap session' \cap entries'
  BY <1>0, <1>1, SMTT(60) DEF OpenReader, Playable, Pin, books, cache
<1>2. ASSUME NEW x \in Views, Unpin(x)
      PROVE  view'[r] \in {view[r], None}
  BY <1>0, <1>2 DEF Unpin
<1>3. ASSUME NEW p \in Procs, StopPrefetch(p)
      PROVE  FALSE
  <2>1. proc[p].on \in Torrents
    BY <1>3 DEF StopPrefetch, At, Shapes, WellFormed, Working, Inside
  <2>2. prefetches[proc[p].on] \in Views
    BY <1>0, <1>3, <2>1 DEF StopPrefetch
  <2> QED  BY <1>2, <1>3, <2>2 DEF StopPrefetch, cache
<1>4. ASSUME NEW f \in Prefetchers, PrefetchBegins(f) \/ PrefetchPins(f) \/ PrefetchEnds(f)
      PROVE  FALSE
  <2>1. f # r /\ f \in Views
    BY <1>0, CoordinatorConstants
  <2>2. CASE PrefetchBegins(f) \/ PrefetchPins(f)
    BY <1>0, <2>1, <2>2 DEF PrefetchBegins, PrefetchPins, Pin
  <2>3. CASE PrefetchEnds(f)
    BY <1>2, <2>1, <2>3 DEF PrefetchEnds, cache
  <2> QED  BY <1>4, <2>2, <2>3
<1>5. ASSUME NEW x \in Readers, Close(x)
      PROVE  FALSE
  BY <1>0, <1>2, <1>5 DEF Close
<1>6. CASE Restart
  BY <1>0, <1>6 DEF Restart, CacheRestart
<1>7. ASSUME NEW x \in Views, view' = [view EXCEPT ![x] = None]
      PROVE  FALSE
  BY <1>0, <1>7
<1> QED
  BY <1>1, <1>3, <1>4, <1>5, <1>6, <1>7, ViewsChange

\* Who goes on watching goes on being served: ensure_unpinned refuses.
LEMMA WatchGoesOn ==
    ASSUME GateInv, [Next]_vars, NEW r \in Readers, view[r] # None, view'[r] = view[r]
    PROVE  view[r] \in live' \cap loaded' \cap session' \cap entries'
<1> USE DEF GateInv, ProcInv, TasksOK
<1> DEFINE t == view[r]
<1>1. /\ t \in live \cap loaded \cap session \cap entries /\ t \in Torrents
      /\ pins[t] # 0 /\ r \in Views
  BY WatchedIsPinned, CoordinatorConstants DEF WatchedIsServed, ViewsHeld, BooksOK
<1>2. t \in entries'
  BY <1>1, CacheStep, KeepsWatchedStep DEF KeepsWatched
<1>3. ASSUME NEW p \in Procs,
             GateAdd(p) \/ SessionAdd(p) \/ Initialized(p) \/ PersistFails(p)
      PROVE  t \in live' \cap loaded' \cap session'
  BY <1>1, <1>3 DEF GateAdd, SessionAdd, Initialized, PersistFails, books
<1>4. ASSUME NEW p \in Procs, Detach(p)
      PROVE  t \in live' \cap loaded' \cap session'
  BY <1>1, <1>4 DEF Detach
<1>5. ASSUME NEW p \in Procs, GraceEnds(p) \/ Purge(p)
      PROVE  t \in live' \cap loaded' \cap session'
  <2>1. t # proc[p].on
    BY <1>1, <1>5, NobodyWatchesDeleted DEF GraceEnds, Purge, At
  <2> QED  BY <1>1, <1>5, <2>1 DEF GraceEnds, Purge
<1>6. ~Restart
  BY <1>1 DEF Restart, CacheRestart
<1>10. CutShort => t \in live' \cap loaded' \cap session'
  BY <1>1 DEF CutShort, AddCutShort, PurgeCutShort
<1>7. UNCHANGED books => t \in live' \cap loaded' \cap session'
  BY <1>1 DEF books
<1>8. BookChange \/ UNCHANGED books
  BY BooksChange
<1>9. t \in live' \cap loaded' \cap session'
  BY ONLY <1>3, <1>4, <1>5, <1>6, <1>7, <1>8, <1>10 DEF BookChange
<1> QED  BY <1>2, <1>9

LEMMA ServedStep ==
    ASSUME GateInv, [Next]_vars, ProcInv'
    PROVE  WatchedIsServed'
<1>1. ASSUME NEW r \in Readers, proc'[r].at = "open"
      PROVE  view'[r] \in live' \cap loaded' \cap session' \cap entries'
  <2>1. view'[r] # None
    BY <1>1 DEF ProcInv, ViewsHeld, At
  <2> QED  BY <2>1, WatchBegins, WatchGoesOn
<1> QED  BY <1>1 DEF WatchedIsServed, At

-----------------------------------------------------------------------------
(* The theorems. *)

LEMMA GateInvInit == Init => GateInv
<1> SUFFICES ASSUME Init PROVE GateInv
  OBVIOUS
<1>1. PinInv
  BY PinInvInit DEF Init
<1>2. TasksOK /\ Shapes /\ BooksOK
  BY RestFits DEF Init, TasksOK, Shapes, BooksOK, WellFormed
<1>3. GateHeld /\ Claims /\ TimersListed /\ PrefetchListed /\ DeletesAlone /\ WatchedIsServed
  BY CoordinatorConstants DEF Init, GateHeld, Claims, TimersListed, PrefetchListed, DeletesAlone,
     WatchedIsServed, Rest, At, Inside, Procs
<1>4. ViewsHeld
  BY CoordinatorConstants DEF Init, CacheInit, ViewsHeld, Rest, At, Procs
<1>5. LostOK
  BY DEF Init, LostOK, AstrayByCancel, Astray, Rest, Procs
<1> QED  BY <1>1, <1>2, <1>3, <1>4, <1>5 DEF GateInv, ProcInv

LEMMA GateInvStep == GateInv /\ [Next]_vars => GateInv'
<1> SUFFICES ASSUME GateInv, [Next]_vars PROVE GateInv'
  OBVIOUS
<1>1. PinInv'
  BY CacheStep, PinInvStep DEF GateInv
<1>2. ProcInv' /\ BooksOK'
  BY ProcStep, BooksStep
<1>3. WatchedIsServed'
  BY <1>2, ServedStep
<1> QED  BY <1>1, <1>2, <1>3 DEF GateInv

LEMMA GateInvAlways == Spec => []GateInv
<1> QED  BY GateInvInit, GateInvStep, PTL DEF Spec

\* Type correctness of the coordinator and of the cache inside it.
THEOREM CoordinatorTypeCorrect == Spec => []TypeOK
<1>1. GateInv => TypeOK
  BY DEF GateInv, PinInv, ProcInv, LostOK, TasksOK, BooksOK, TypeOK
<1> QED  BY <1>1, GateInvAlways, PTL

\* The coordinator uses the cache as the cache's own clients may (its calls are
\* those of crates/rustorr-lifecycle/src/lib.rs and adapter.rs), so that all that
\* is proved of the cache holds of the cache inside it.
THEOREM CallsTheCache == Spec => CacheSpec
<1>1. Init => CacheInit
  BY DEF Init
<1> QED  BY <1>1, CacheStep, GateInvAlways, PTL DEF Spec, CacheSpec

\* A pin is somebody's.
LEMMA PinnedIsWatched ==
    ASSUME PinInv, NEW t \in Torrents, pins[t] > 0
    PROVE  \E v \in Views : view[v] = t
<1>1. CASE Watchers(t) = {}
  <2>1. Cardinality(Watchers(t)) = 0
    BY <1>1, FS_EmptySet
  <2>2. pins[t] = 0
    BY <2>1 DEF PinInv, PinsExact
  <2> QED  BY <2>2
<1>2. CASE Watchers(t) # {}
  BY <1>2 DEF Watchers
<1> QED  BY <1>1, <1>2

\* Whatever fails, whoever watches reads from a torrent that is served, and a
\* delete happens alone: between ensure_unpinned and the end of the operation no
\* pin and no look-ahead task is left on the torrent but those of a play or a drop
\* that a disconnecting client cut short at the join or the insert of a look-ahead
\* (lib.rs:756-797, 872-876, 905-911, 959-976, 1101-1103).
THEOREM ServedAloneAlways == Spec => []ServedAlone
<1>1. ASSUME GateInv, NEW p \in Procs, At(p, "grace") \/ At(p, "purging"),
             NEW f \in Prefetchers, proc[f].on = proc[p].on
      PROVE  f = p \/ At(f, "want") \/ f \in Astray
  <2> USE DEF GateInv, ProcInv
  <2>1. WellFormed(f, proc[f]) /\ WellFormed(p, proc[p]) /\ f \in Procs
    <3>1. f \in Procs
      BY DEF Procs
    <3> QED  BY <1>1, <3>1 DEF Shapes
  <2>2. proc[p].on \in Torrents /\ prefetches[proc[p].on] = None /\ gate = p
    BY <1>1, <2>1 DEF WellFormed, Working, Inside, DeletesAlone, Alone, GateHeld, At
  <2>3. proc[f].at \in Looking => f \in Astray
    BY <1>1, <2>1, <2>2, CoordinatorConstants DEF PrefetchListed, LostOK, Looking, Procs
  <2>4. ~At(f, "idle")
    BY <1>1, <2>1, <2>2, CacheConstants DEF WellFormed, At, Rest
  <2>5. proc[f].at \in Inside => f = p
    <3>1. proc[f].at \in Inside <=> gate = f
      BY <1>1, <2>1 DEF GateHeld
    <3> QED  BY <2>2, <3>1
  <2> QED  BY <2>1, <2>3, <2>4, <2>5 DEF WellFormed, Inside, Deleting, At
<1>2. ASSUME GateInv, NEW p \in Procs, At(p, "grace") \/ At(p, "purging")
      PROVE  LET t == proc[p].on
             IN  /\ prefetches[t] = None
                 /\ \A r \in Readers : view[r] # t
                 /\ pins[t] > 0 => \E f \in Astray : view[f] = t
  <2> DEFINE t == proc[p].on
  <2>1. t \in Torrents /\ prefetches[t] = None /\ \A v \in Views : view[v] = t => v \in Astray
    BY <1>2 DEF GateInv, ProcInv, DeletesAlone, Alone, At, Shapes, WellFormed, Working, Inside
  <2>2. \A r \in Readers : view[r] # t
    BY <1>2, NobodyWatchesDeleted DEF At
  <2>3. pins[t] > 0 => \E v \in Views : view[v] = t
    BY <1>2, <2>1, PinnedIsWatched DEF GateInv
  <2> QED  BY <2>1, <2>2, <2>3
<1>3. GateInv => AloneWhenDeleting
  BY <1>1, <1>2 DEF AloneWhenDeleting
<1>4. GateInv => ServedAlone
  BY <1>3 DEF ServedAlone, GateInv, ProcInv, LostOK
<1> QED  BY <1>4, GateInvAlways, PTL

-----------------------------------------------------------------------------
(* Ownership.  What the coordinator keeps in order between operations as long  *)
(* as only Session::delete fails and engine calls outlive their grace: the     *)
(* registers agree, every byte has an owner and nothing is removed under the   *)
(* engine; and, when no call is late either, the cap counts every byte and the *)
(* coordinator implements Residency.                                           *)

-----------------------------------------------------------------------------
(* The inductive invariant.  RegistersAgree and BytesAreOwned speak of the     *)
(* moments the gate is free; what holds of the torrent of an operation that is *)
(* between two of its awaits makes them inductive.                             *)

\* Labels at which the registers of the torrent may differ.
Unsettled == {"initing", "grace", "purging"}

Settles(t) == \E p \in Procs : proc[p].on = t /\ proc[p].at \in Unsettled

Agree(t) ==
    /\ t \in live <=> t \in loaded
    /\ t \in loaded <=> t \in session
    /\ t \in live => t \in entries

\* What holds of the torrent of an operation by the label it stands at.
Settling(s) ==
    /\ s.at = "initing" => s.on \in session \cap entries /\ (s.on \in live <=> s.on \in loaded)
    /\ s.at = "grace" => s.on \in loaded \cap live \cap entries /\ s.on \notin session
    /\ s.at = "purging" =>
         /\ s.on \notin session \cup loaded
         /\ s.kind \in Evicts \/ s.on \in live => s.on \in entries

\* A removal that found a row loaded the torrent first, so that its bytes go too.
Finds(s) == s.kind \in Removes /\ s.at \in Deleting => s.on \notin saved \/ s.on \in entries

Registers ==
    /\ \A t \in Torrents : Agree(t) \/ Settles(t)
    /\ \A p \in Procs : Settling(proc[p]) /\ Finds(proc[p])

Owners ==
    booted => \A t \in Torrents :
      held[t] # {} \/ t \in entries =>
        \/ t \in saved \cup live
        \/ \E p \in Procs : At(p, "initing") /\ proc[p].on = t

\* Before TorrentCoordinator::new nothing runs.
NotBooted ==
    ~booted =>
      /\ entries = {} /\ live = {} /\ loaded = {} /\ session = {} /\ gate = None
      /\ \A p \in Procs : proc[p] = Rest
      /\ \A w \in Writers : writer[w] = NoWrite

OwnInv == Registers /\ Owners /\ NotBooted

OnlyDeletesFail == Faults \subseteq {"delete", "late"}

\* Without disconnecting clients no look-ahead goes astray, and nobody has a pin on
\* what is being deleted.
LEMMA NobodyAstray ==
    ASSUME GateInv, "cancel" \notin Faults
    PROVE  /\ \A f \in Prefetchers : Ahead(f) => PrefetchBegins(f) \/ PrefetchEnds(f)
           /\ \A c \in Clients : ~Cancel(c)
           /\ \A p \in Procs : proc[p].at \in {"grace", "purging"} =>
                proc[p].on \in Torrents /\ pins[proc[p].on] = 0
                /\ \A v \in Views : view[v] # proc[p].on
<1> USE DEF GateInv, ProcInv
<1>1. detached = {} /\ aborted = {}
  BY DEF LostOK, AstrayByCancel, Astray
<1>2. \A f \in Prefetchers : Ahead(f) => PrefetchBegins(f) \/ PrefetchEnds(f)
  BY <1>1 DEF Ahead, PrefetchReads, PrefetchPins, AbortLands, LostOK, Astray, At
<1>3. ASSUME NEW p \in Procs, proc[p].at \in {"grace", "purging"}
      PROVE  proc[p].on \in Torrents /\ pins[proc[p].on] = 0
             /\ \A v \in Views : view[v] # proc[p].on
  <2>1. proc[p].on \in Torrents /\ \A v \in Views : view[v] # proc[p].on
    BY <1>1, <1>3 DEF DeletesAlone, Alone, Astray, Shapes, WellFormed, Working, Inside
  <2>2. pins[proc[p].on] \in Nat
    BY <2>1 DEF PinInv, CacheOK
  <2> QED  BY <2>1, <2>2, PinnedIsWatched
<1> QED  BY <1>2, <1>3 DEF Cancel

-----------------------------------------------------------------------------
(* Steps that settle nothing. *)

Quiet ==
    /\ UNCHANGED <<booted, saved, live, loaded, session, entries, held>>
    /\ \A q \in Procs :
         \/ proc'[q] = proc[q]
         \/ /\ proc[q].at \notin Unsettled /\ proc'[q].at \notin Unsettled
            /\ Finds(proc'[q])

LEMMA QuietKeeps ==
    ASSUME OwnInv, booted, Quiet
    PROVE  OwnInv'
<1> USE DEF OwnInv
<1>1. ASSUME NEW t \in Torrents
      PROVE  Agree(t)' \/ Settles(t)'
  <2>1. Agree(t) => Agree(t)'
    BY DEF Quiet, Agree
  <2>2. Settles(t) => Settles(t)'
    BY DEF Quiet, Settles
  <2> QED  BY <2>1, <2>2 DEF Registers
<1>2. ASSUME NEW p \in Procs
      PROVE  Settling(proc[p])' /\ Finds(proc[p])'
  <2>1. CASE proc'[p] = proc[p]
    BY <2>1 DEF Quiet, Registers, Settling, Finds
  <2>2. CASE proc'[p].at \notin Unsettled /\ Finds(proc'[p])
    BY <2>2 DEF Quiet, Settling, Finds, Unsettled
  <2> QED  BY <2>1, <2>2 DEF Quiet
<1>3. Owners'
  <2>1. \A p \in Procs : At(p, "initing") => proc'[p] = proc[p]
    BY DEF Quiet, At, Unsettled
  <2> QED  BY <2>1 DEF Quiet, Owners, At
<1>4. NotBooted'
  BY DEF NotBooted, Quiet
<1> QED  BY <1>1, <1>2, <1>3, <1>4 DEF Registers

\* Between two operations the registers of every torrent agree.
LEMMA FreeGateAgrees ==
    ASSUME GateInv, OwnInv, gate = None, NEW t \in Torrents
    PROVE  Agree(t) /\ ~Settles(t)
<1>1. \A p \in Procs : proc[p].at \notin Inside
  BY CoordinatorConstants DEF GateInv, ProcInv, GateHeld
<1> QED  BY <1>1 DEF OwnInv, Registers, Settles, Unsettled, Inside

\* The gate has one holder.
LEMMA OneInside ==
    ASSUME GateInv, NEW p \in Procs, proc[p].at \in Inside
    PROVE  \A q \in Procs \ {p} : proc[q].at \notin Inside
BY DEF GateInv, ProcInv, GateHeld

\* While p has the gate, only the torrent p works on may be unsettled.
LEMMA OthersAgree ==
    ASSUME GateInv, OwnInv, NEW p \in Procs, proc[p].at \in Inside, NEW t \in Torrents,
           t # proc[p].on \/ proc[p].at \notin Unsettled
    PROVE  Agree(t)
<1>1. \A q \in Procs \ {p} : proc[q].at \notin Inside
  BY OneInside
<1>2. ~Settles(t)
  BY <1>1 DEF Settles, Unsettled, Inside
<1> QED  BY <1>1, <1>2 DEF OwnInv, Registers

LEMMA ReturnLabels ==
    ASSUME GateInv, NEW p \in Procs, NEW outcome, Return(p, outcome)
    PROVE  /\ proc'[p].at \in {"idle", "next", "sweep"}
           /\ \A q \in Procs \ {p} : proc'[q] = proc[q]
<1>1. proc \in [Procs -> Process]
  BY DEF GateInv, ProcInv, TasksOK
<1> DEFINE s == proc[p]
           u == IF s.kind = "trim" THEN [s EXCEPT !.at = "sweep"]
                 ELSE IF \/ s.kind = "settings" /\ outcome # "failed"
                         \/ s.kind = "wipe" /\ outcome = "ok"
                      THEN [s EXCEPT !.at = "next"]
                      ELSE Rest
<1>2. proc' = [proc EXCEPT ![p] = u]
  BY DEF Return
<1>3. u.at \in {"idle", "next", "sweep"}
  BY <1>1 DEF Rest, Process
<1> HIDE DEF u
<1> QED  BY <1>1, <1>2, <1>3

\* An operation that returns settles nothing, unless its torrent was unsettled.
LEMMA ReturnQuiet ==
    ASSUME GateInv, NEW p \in Procs, NEW outcome, Return(p, outcome),
           proc[p].at \notin Unsettled,
           UNCHANGED <<booted, saved, live, loaded, session, entries, held>>
    PROVE  Quiet
BY ReturnLabels DEF Quiet, Unsettled, Finds, Deleting

LEMMA RequestsQuiet ==
    ASSUME GateInv, Requested \/ \E c \in Clients : NextHash(c)
    PROVE  Quiet
<1>1. proc \in [Procs -> Process] /\ Clients \subseteq Procs
  BY DEF GateInv, ProcInv, TasksOK, Procs
<1>2. ASSUME NEW c \in Clients, NEW k, NEW t, NEW r, Ask(c, k, t, r)
      PROVE  Quiet
  BY <1>1, <1>2 DEF Quiet, Ask, At, Unsettled, Finds, Deleting, Rest, books, cache
<1>3. ASSUME NEW c \in Clients, NextHash(c)
      PROVE  Quiet
  <2>1. proc[c].at = "next" /\ proc'[c].at \in {"want", "idle"}
        /\ \A q \in Procs \ {c} : proc'[q] = proc[q]
    <3>1. proc[c].at = "next" /\ proc[c] \in Process /\ c \in Procs
      BY <1>1, <1>3 DEF NextHash, At
    <3>2. ASSUME NEW t,
                 proc' = [proc EXCEPT ![c].at = "want", ![c].on = t, ![c].todo = @ \ {t}]
          PROVE  proc'[c].at = "want" /\ \A q \in Procs \ {c} : proc'[q] = proc[q]
      BY <1>1, <3>1, <3>2 DEF Process
    <3>3. ASSUME proc' = [proc EXCEPT ![c] =
                            IF @.kind = "wipe" THEN Rest
                                               ELSE [Rest EXCEPT !.at = "want", !.kind = "trim"]]
          PROVE  /\ proc'[c].at \in {"want", "idle"}
                 /\ \A q \in Procs \ {c} : proc'[q] = proc[q]
      BY <1>1, <3>1, <3>3 DEF Rest
    <3> QED  BY <1>3, <3>1, <3>2, <3>3 DEF NextHash
  <2>2. UNCHANGED <<booted, saved, live, loaded, session, entries, held>>
    BY <1>3 DEF NextHash, books, cache
  <2> QED  BY <2>1, <2>2 DEF Quiet, Unsettled, Finds, Deleting
<1>4. ASSUME NEW c \in Clients, AskWipe(c)
      PROVE  Quiet
  BY <1>1, <1>4 DEF Quiet, AskWipe, At, Unsettled, Finds, Deleting, Rest, books, cache
<1>5. ASSUME NEW c \in Clients, NEW n, NEW remove, AskSettings(c, n, remove)
      PROVE  Quiet
  BY <1>1, <1>5 DEF Quiet, AskSettings, SetCap, At, Unsettled, Finds, Deleting, Rest, books
<1> QED
  BY <1>2, <1>3, <1>4, <1>5 DEF Requested, AskAbout, AskPlay

\* The torrent an operation starts on, with its idle timer aborted.
LEMMA StopIdleLabels ==
    ASSUME GateInv, NEW p \in Procs, NEW t \in Torrents, NEW label \in Labels, At(p, "want"),
           StopIdle(p, t, label)
    PROVE  /\ proc'[p].at = label /\ proc'[p].kind = proc[p].kind /\ proc'[p].on = t
           /\ \A q \in Procs \ {p} :
                proc'[q] = proc[q] \/ (At(q, "sleep") /\ proc'[q] = Rest)
<1> USE DEF GateInv, ProcInv, TasksOK
<1> DEFINE v == [proc[p] EXCEPT !.at = label]
           u == [v EXCEPT !.on = t]
<1>1. u \in Process /\ u.at = label /\ u.kind = proc[p].kind /\ u.on = t
  BY DEF Process
<1>2. NoTimer(t)[p] = proc[p]
  BY CoordinatorConstants DEF NoTimer, TimersListed, At
<1>3. proc' = [NoTimer(t) EXCEPT ![p] = u]
  BY <1>2 DEF StopIdle
<1> HIDE DEF u
<1>4. ~At(p, "sleep")
  BY DEF At
<1> QED  BY <1>1, <1>3, <1>4, TimerAborted DEF StopIdle

LEMMA TakeGateQuiet ==
    ASSUME GateInv, NEW p \in Procs, At(p, "want"), GatePlay(p) \/ GateDrop(p) \/ GateTrim(p)
    PROVE  Quiet
<1> USE DEF GateInv, ProcInv, TasksOK
<1>1. WellFormed(p, proc[p]) /\ proc \in [Procs -> Process]
  BY DEF Shapes
<1>2. UNCHANGED <<booted, saved, live, loaded, session, entries, held>>
  BY DEF GatePlay, GateDrop, GateTrim, books, cache
<1>3. CASE GatePlay(p)
  <2>1. proc[p].on \in Torrents
    BY <1>1, <1>3 DEF GatePlay, WellFormed, At
  <2>2. ASSUME NEW label \in {"opening", "adding"}, StopIdle(p, proc[p].on, label)
        PROVE  Quiet
    <3>1. label \in Labels
      BY DEF Labels
    <3> QED
      BY <1>2, <2>1, <2>2, <3>1, StopIdleLabels DEF Quiet, At, Unsettled, Finds, Deleting, Rest
  <2>3. CASE proc' = [NoTimer(proc[p].on) EXCEPT ![p] = Rest]
             /\ idles' = [idles EXCEPT ![proc[p].on] = None]
    <3>1. ~At(p, "sleep") /\ Rest \in Process
      BY <1>3, RestFits DEF WellFormed, At
    <3>2. /\ proc'[p] = Rest
          /\ \A q \in Procs \ {p} : proc'[q] = proc[q] \/ (At(q, "sleep") /\ proc'[q] = Rest)
      BY <2>1, <2>3, <3>1, TimerAborted
    <3> QED  BY <1>2, <3>2 DEF Quiet, At, Unsettled, Finds, Deleting, Rest
  <2> QED  BY <1>3, <2>2, <2>3 DEF GatePlay
<1>4. CASE GateDrop(p)
  <2>1. proc[p].on \in Torrents /\ proc[p].kind \notin Removes /\ "stopping" \in Labels
    BY <1>1, <1>4 DEF GateDrop, WellFormed, At, Drops, Removes, Labels
  <2> QED
    BY <1>2, <1>4, <2>1, StopIdleLabels
       DEF GateDrop, Quiet, At, Unsettled, Finds, Rest, Deleting
<1>5. CASE GateTrim(p)
  <2>1. proc'[p].at = "sweep" /\ \A q \in Procs \ {p} : proc'[q] = proc[q]
    BY <1>1, <1>5 DEF GateTrim
  <2> QED  BY <1>2, <2>1 DEF Quiet, At, Unsettled, Finds, Deleting
<1> QED  BY <1>3, <1>4, <1>5

LEMMA PlayQuiet ==
    ASSUME GateInv, NEW p \in Procs, OpenReader(p) \/ StopPrefetch(p) \/ StartPrefetch(p)
    PROVE  Quiet
<1> USE DEF GateInv, ProcInv, TasksOK
<1>1. WellFormed(p, proc[p]) /\ proc \in [Procs -> Process]
  BY DEF Shapes
<1>2. UNCHANGED <<booted, saved, live, loaded, session, entries, held>>
  BY DEF OpenReader, StopPrefetch, StartPrefetch, Pin, Unpin, books, cache
<1>3. CASE OpenReader(p)
  <2>1. ASSUME NEW outcome, Return(p, outcome)
        PROVE  Quiet
    BY <1>2, <1>3, <2>1, ReturnQuiet DEF OpenReader, At, Unsettled
  <2>2. ASSUME NEW r \in Readers, At(r, "idle"), r # p,
               \/ proc' = [proc EXCEPT ![r].at = "open", ![r].home = proc[p].on, ![p] = Rest]
               \/ proc' = [proc EXCEPT ![r].at = "open", ![r].home = proc[p].on,
                                       ![p].at = "prefetching"]
        PROVE  Quiet
    <3>1. r \in Procs
      BY DEF Procs
    <3>2. /\ proc'[r].at = "open" /\ proc'[p].at \in {"idle", "prefetching"}
          /\ \A q \in Procs \ {p, r} : proc'[q] = proc[q]
      BY <1>1, <2>2, <3>1 DEF Rest, Process
    <3> QED
      BY <1>2, <1>3, <2>2, <3>2 DEF Quiet, OpenReader, At, Unsettled, Finds, Deleting
  <2>3. proc[p].reader \in Readers /\ At(proc[p].reader, "idle") /\ proc[p].reader # p
    BY <1>1, <1>3 DEF OpenReader, WellFormed, Claims, At, Loading, Process
  <2> QED  BY <1>3, <2>1, <2>2, <2>3 DEF OpenReader
<1>4. CASE StopPrefetch(p)
  <2>1. proc[p].on \in Torrents
    BY <1>1, <1>4 DEF StopPrefetch, WellFormed, Working, Inside, At
  <2>2. PICK f \in Prefetchers : f = prefetches[proc[p].on]
    BY <1>4, <2>1 DEF StopPrefetch
  <2>3. proc[f].at \in {"start", "reading"} /\ f \in Procs
    BY <1>4, <2>1, <2>2 DEF StopPrefetch, PrefetchListed, Procs
  <2>4. proc'[f] = Rest /\ \A q \in Procs \ {f} : proc'[q] = proc[q]
    BY <1>1, <1>4, <2>2, <2>3 DEF StopPrefetch
  <2> QED  BY <1>2, <2>3, <2>4 DEF Quiet, Unsettled, Finds, Deleting, Rest
<1>5. CASE StartPrefetch(p)
  <2>1. CASE proc' = [proc EXCEPT ![p] = Rest]
    BY <1>1, <1>2, <1>5, <2>1 DEF StartPrefetch, Quiet, At, Unsettled, Finds, Deleting, Rest
  <2>2. ASSUME NEW f \in Prefetchers, At(f, "idle"),
               proc' = [proc EXCEPT ![p] = Rest, ![f].at = "start", ![f].on = proc[p].on]
        PROVE  Quiet
    <3>1. f \in Procs /\ f # p
      BY <1>5, <2>2 DEF Procs, StartPrefetch, At
    <3>2. /\ proc'[p].at = "idle" /\ proc'[f].at = "start"
          /\ \A q \in Procs \ {p, f} : proc'[q] = proc[q]
      BY <1>1, <2>2, <3>1 DEF Rest, Process
    <3> QED
      BY <1>2, <1>5, <2>2, <3>2 DEF Quiet, StartPrefetch, At, Unsettled, Finds, Deleting
  <2> QED  BY <1>5, <2>1, <2>2 DEF StartPrefetch
<1> QED  BY <1>3, <1>4, <1>5

LEMMA DeleteQuiet ==
    ASSUME GateInv, NEW p \in Procs,
           DetachFails(p) \/ NextVictim(p) \/ SweepEnds(p)
    PROVE  Quiet
<1> USE DEF GateInv, ProcInv, TasksOK
<1>1. WellFormed(p, proc[p]) /\ proc \in [Procs -> Process]
  BY DEF Shapes
<1>2. UNCHANGED <<booted, saved, live, loaded, session, entries, held>>
  BY DEF DetachFails, NextVictim, SweepEnds, books, cache
<1>3. CASE DetachFails(p)
  BY <1>2, <1>3, ReturnQuiet DEF DetachFails, At, Unsettled
<1>4. CASE NextVictim(p)
  <2>1. PICK t \in proc[p].todo :
          proc' = [NoTimer(t) EXCEPT ![p].at = "stopping", ![p].on = t, ![p].todo = @ \ {t}]
          /\ idles' = [idles EXCEPT ![t] = None]
    BY <1>4 DEF NextVictim
  <2> DEFINE v == [[proc[p] EXCEPT !.at = "stopping"] EXCEPT !.on = t]
             u == [v EXCEPT !.todo = @ \ {t}]
  <2>2. t \in Torrents /\ u \in Process /\ u.at = "stopping" /\ u.kind = proc[p].kind
    BY <1>1, ZenonT(60) DEF Process, Labels
  <2>3. NoTimer(t)[p] = proc[p] /\ ~At(p, "sleep")
    BY <1>4, <2>2, CoordinatorConstants DEF NoTimer, TimersListed, At, NextVictim
  <2>4. proc' = [NoTimer(t) EXCEPT ![p] = u]
    BY <2>1, <2>3
  <2> HIDE DEF u
  <2>5. /\ proc'[p] = u
        /\ \A q \in Procs \ {p} : proc'[q] = proc[q] \/ (At(q, "sleep") /\ proc'[q] = Rest)
    BY <2>1, <2>2, <2>3, <2>4, TimerAborted
  <2>6. u.kind \notin Removes /\ At(p, "sweep")
    BY <1>1, <1>4, <2>2 DEF NextVictim, WellFormed, At, Removes
  <2> QED
    BY <1>2, <2>2, <2>5, <2>6 DEF Quiet, At, Unsettled, Finds, Deleting, Rest
<1>5. CASE SweepEnds(p)
  <2>1. proc'[p].at \in {"sched", "idle"} /\ \A q \in Procs \ {p} : proc'[q] = proc[q]
    BY <1>1, <1>5 DEF SweepEnds, Rest
  <2> QED  BY <1>2, <1>5, <2>1 DEF SweepEnds, Quiet, At, Unsettled, Finds, Deleting
<1> QED  BY <1>3, <1>4, <1>5

LEMMA TasksQuiet ==
    ASSUME GateInv,
           \/ \E f \in Prefetchers : PrefetchBegins(f) \/ PrefetchEnds(f)
           \/ \E r \in Readers : Close(r) \/ ReadOn(r) \/ Schedule(r) \/ Arm(r)
           \/ \E m \in Timers : Fire(m)
    PROVE  Quiet
<1> USE DEF GateInv, ProcInv, TasksOK
<1>1. /\ proc \in [Procs -> Process]
      /\ Prefetchers \subseteq Procs /\ Readers \subseteq Procs /\ Timers \subseteq Procs
  BY DEF Procs
<1>2. UNCHANGED <<booted, saved, live, loaded, session, entries, held>>
  BY DEF PrefetchBegins, PrefetchEnds, Close, ReadOn, Schedule, Arm, Fire, Pin, Unpin, Read,
     books, cache
<1>3. ASSUME NEW f \in Prefetchers, PrefetchBegins(f) \/ PrefetchEnds(f)
      PROVE  Quiet
  <2>1. proc'[f].at \in {"reading", "want"} /\ proc[f].at \in Looking
        /\ \A q \in Procs \ {f} : proc'[q] = proc[q]
    <3>1. CASE PrefetchBegins(f)
      BY <1>1, <3>1 DEF PrefetchBegins, At, Process, Looking
    <3>2. CASE PrefetchEnds(f)
      BY <1>1, <3>2 DEF PrefetchEnds, At, Rest, Looking
    <3> QED  BY <1>3, <3>1, <3>2
  <2> QED  BY <1>2, <2>1 DEF Quiet, Unsettled, Finds, Deleting, Looking
<1>4. ASSUME NEW r \in Readers, Close(r) \/ ReadOn(r)
      PROVE  Quiet
  <2>1. CASE ReadOn(r)
    BY <1>2, <2>1 DEF ReadOn, Quiet
  <2>2. CASE Close(r)
    <3>1. proc'[r].at = "want" /\ proc[r].at = "open"
          /\ \A q \in Procs \ {r} : proc'[q] = proc[q]
      BY <1>1, <2>2 DEF Close, At, Process
    <3> QED  BY <1>2, <3>1 DEF Quiet, Unsettled, Finds, Deleting
  <2> QED  BY <1>4, <2>1, <2>2
<1>5. ASSUME NEW r \in Readers, Schedule(r)
      PROVE  Quiet
  <2>1. CASE proc' = [proc EXCEPT ![r] = Rest]
    BY <1>1, <1>2, <1>5, <2>1 DEF Schedule, Quiet, At, Unsettled, Finds, Deleting, Rest
  <2>2. CASE proc' = [NoTimer(proc[r].home) EXCEPT ![r].at = "arming"]
             /\ idles' = [idles EXCEPT ![proc[r].home] = None]
    <3>0. WellFormed(r, proc[r]) /\ At(r, "sched")
      BY <1>1, <1>5 DEF Schedule, Shapes
    <3>1. PICK t \in Torrents : t = proc[r].home
      BY <3>0 DEF WellFormed, At
    <3> DEFINE u == [proc[r] EXCEPT !.at = "arming"]
    <3>2. u \in Process /\ u.at = "arming"
      BY <1>1 DEF Process, Labels
    <3>3. NoTimer(t)[r] = proc[r]
      BY <3>0, CoordinatorConstants DEF NoTimer, TimersListed, At
    <3>4. proc' = [NoTimer(t) EXCEPT ![r] = u] /\ idles' = [idles EXCEPT ![t] = None]
      BY <2>2, <3>1, <3>3
    <3> HIDE DEF u
    <3>5. /\ proc'[r] = u
          /\ \A q \in Procs \ {r} : proc'[q] = proc[q] \/ (At(q, "sleep") /\ proc'[q] = Rest)
      BY <1>1, <3>0, <3>2, <3>4, TimerAborted DEF At
    <3> QED  BY <1>2, <3>0, <3>2, <3>5 DEF Quiet, At, Unsettled, Finds, Deleting, Rest
  <2> QED  BY <1>5, <2>1, <2>2 DEF Schedule
<1>6. ASSUME NEW r \in Readers, Arm(r)
      PROVE  Quiet
  <2>1. PICK m \in Timers :
          /\ At(m, "idle")
          /\ proc' = [proc EXCEPT ![r] = Rest, ![m].at = "sleep", ![m].on = proc[r].home]
    BY <1>6 DEF Arm
  <2>2. m # r /\ m \in Procs /\ r \in Procs
    BY <1>1, CoordinatorConstants
  <2>3. /\ proc'[r].at = "idle" /\ proc'[m].at = "sleep"
        /\ \A q \in Procs \ {r, m} : proc'[q] = proc[q]
    BY <1>1, <2>1, <2>2 DEF Rest, Process
  <2> QED  BY <1>2, <1>6, <2>1, <2>3 DEF Arm, Quiet, At, Unsettled, Finds, Deleting
<1>7. ASSUME NEW m \in Timers, Fire(m)
      PROVE  Quiet
  <2>1. proc'[m].at \in {"want", "idle"} /\ proc[m].at = "sleep"
        /\ \A q \in Procs \ {m} : proc'[q] = proc[q]
    BY <1>1, <1>7 DEF Fire, At, Rest, Process
  <2> QED  BY <1>2, <2>1 DEF Quiet, Unsettled, Finds, Deleting
<1> QED  BY <1>3, <1>4, <1>5, <1>6, <1>7

-----------------------------------------------------------------------------
(* Steps that start, settle or unsettle a torrent. *)

\* Before the start-up code has run, only it can run.
LEMMA OnlyBoots ==
    ASSUME GateInv, NotBooted, ~booted, [Next]_vars
    PROVE  Restart \/ Boot \/ UNCHANGED vars
<1> USE DEF GateInv, ProcInv, TasksOK
<1>1. /\ entries = {} /\ live = {} /\ loaded = {} /\ session = {} /\ gate = None
      /\ \A p \in Procs : proc[p].at = "idle"
      /\ \A w \in Writers : writer[w].at = "idle"
  BY DEF NotBooted, Rest, NoWrite
<1>2. /\ Clients \subseteq Procs /\ Prefetchers \subseteq Procs /\ Readers \subseteq Procs
      /\ Timers \subseteq Procs
  BY DEF Procs
<1>3. ~Requested
  BY DEF Requested, AskAbout, AskPlay, AskWipe, AskSettings, Ask
<1>8. \A p \in Procs : ~Stops(p)
  BY <1>1 DEF Stops, GiveUp, GiveUpJoin, GiveUpStart, AddCutShort, PurgeCutShort, At
<1>4. \A c \in Clients : ~NextHash(c) /\ ~Cancel(c)
  BY <1>1, <1>2, <1>8 DEF NextHash, Cancel, At
<1>5. \A p \in Procs : ~Step(p)
  BY <1>1, ZenonT(60) DEF Step, TakeGate, SessionAdd, Initialized, OpenReader, StopPrefetch, StartPrefetch,
     Detach, GraceEnds, Purge, PurgeFails, NextVictim, SweepEnds, At
<1>6. \A p \in Procs : ~InitFails(p) /\ ~PersistFails(p) /\ ~DetachFails(p)
  BY <1>1 DEF InitFails, PersistFails, DetachFails, At
<1>7. ~Background
  BY <1>1, <1>2, <1>8
     DEF Background, Ahead, PrefetchBegins, PrefetchReads, PrefetchPins, PrefetchEnds, AbortLands,
     Close, ReadOn, Schedule, Arm, Fire, EngineWrites, WriteStore, WriteCredit, Download, At
<1> QED  BY <1>3, <1>4, <1>5, <1>6, <1>7 DEF Next, Disturbed

LEMMA GateAddOwns ==
    ASSUME GateInv, OwnInv, booted, gate = None, NEW p \in Procs, At(p, "want"), GateAdd(p)
    PROVE  OwnInv'
<1> USE DEF GateInv, ProcInv, TasksOK, OwnInv
<1>1. \A q \in Procs : proc[q].at \notin Inside
  BY CoordinatorConstants DEF GateHeld
<1>2. /\ proc'[p].at \in {"idle", "next", "sweep", "adding"}
      /\ \A q \in Procs \ {p} : proc'[q] = proc[q]
  <2>1. CASE Return(p, "ok")
    BY <2>1, ReturnLabels
  <2>2. CASE proc' = [proc EXCEPT ![p].at = "adding"]
    BY <2>2
  <2> QED  BY <2>1, <2>2 DEF GateAdd
<1>3. /\ UNCHANGED <<booted, live, loaded, session, entries, held>> /\ saved \subseteq saved'
  BY DEF GateAdd, cache
<1>4. \A q \in Procs : proc'[q].at \notin Unsettled \cup Deleting
  BY <1>1, <1>2 DEF Unsettled, Deleting, Inside
<1>5. \A t \in Torrents : Agree(t)'
  BY <1>3, FreeGateAgrees DEF Agree
<1>6. Registers'
  BY <1>4, <1>5 DEF Registers, Settling, Finds, Unsettled
<1>7. Owners'
  BY <1>1, <1>3 DEF Owners, At, Inside
<1>8. NotBooted'
  BY <1>3 DEF NotBooted
<1> QED  BY <1>6, <1>7, <1>8

\* remove_torrent loads a saved torrent first.
LEMMA GateRemOwns ==
    ASSUME GateInv, OwnInv, booted, gate = None, NEW p \in Procs, At(p, "want"), GateRem(p)
    PROVE  OwnInv'
<1> USE DEF GateInv, ProcInv, TasksOK
<1> DEFINE label == IF proc[p].on \in saved \ loaded THEN "adding" ELSE "stopping"
<1>1. proc[p].on \in Torrents /\ label \in Labels
  BY DEF GateRem, Shapes, WellFormed, At, Removes, Labels
<1>2. /\ proc'[p].at = label /\ proc'[p].on = proc[p].on
      /\ \A q \in Procs \ {p} : proc'[q] = proc[q] \/ (At(q, "sleep") /\ proc'[q] = Rest)
  BY <1>1, StopIdleLabels DEF GateRem
<1>3. Agree(proc[p].on)
  BY <1>1, FreeGateAgrees
<1>4. proc[p].on \notin saved \/ proc[p].on \in entries \/ label = "adding"
  BY <1>3 DEF Agree
<1>5. UNCHANGED <<booted, saved, live, loaded, session, entries, held>>
  BY DEF GateRem, books, cache
<1>6. Quiet
  BY <1>2, <1>4, <1>5 DEF Quiet, At, Unsettled, Finds, Deleting, Rest
<1> QED  BY <1>6, QuietKeeps

\* The torrent joins the session, with its storage open, and is not settled yet.
LEMMA SessionAddOwns ==
    ASSUME GateInv, OwnInv, booted, NEW p \in Procs, SessionAdd(p)
    PROVE  OwnInv'
<1> USE DEF GateInv, ProcInv, TasksOK
<1> DEFINE s == proc[p]
<1>1. PICK t \in Torrents : t = proc[p].on
  BY DEF SessionAdd, Shapes, WellFormed, Working, Inside, At
<1>2. /\ proc[p].at = "adding" /\ proc[p].at \in Inside
      /\ \A u \in Torrents : Agree(u)
      /\ \A q \in Procs \ {p} : proc[q].at \notin Inside
  BY OneInside, OthersAgree DEF SessionAdd, At, Inside, Unsettled
<1>3. ASSUME Return(p, "failed"), UNCHANGED <<cache, session>>
      PROVE  OwnInv'
  <2>1. Quiet
    BY <1>2, <1>3, ReturnQuiet DEF SessionAdd, cache, Unsettled
  <2> QED  BY <2>1, QuietKeeps
<1>4. ASSUME session' = session \cup {t}, proc' = [proc EXCEPT ![p].at = "initing"],
             IF t \in session \cup entries THEN UNCHANGED cache ELSE Open(t)
      PROVE  OwnInv'
  <2>1. /\ proc'[p].at = "initing" /\ proc'[p].on = t
        /\ \A q \in Procs \ {p} : proc'[q] = proc[q]
    BY <1>1, <1>4
  <2>2. /\ entries' = entries \cup {t} /\ \A u \in Torrents \ {t} : held'[u] = held[u]
        /\ UNCHANGED <<booted, saved, live, loaded>>
    <3>1. t \in session => t \in entries
      BY <1>2 DEF Agree
    <3> QED  BY <1>1, <1>4, <3>1 DEF SessionAdd, Open, PinInv, CacheOK, cache
  <2>3. \A u \in Torrents \ {t} : Agree(u)'
    BY <1>2, <1>4, <2>2 DEF Agree
  <2>4. Settles(t)'
    BY <2>1 DEF Settles, Unsettled
  <2>5. ASSUME NEW q \in Procs
        PROVE  Settling(proc[q])' /\ Finds(proc[q])'
    <3>1. CASE q = p
      <4>1. t \in live <=> t \in loaded
        BY <1>2 DEF Agree
      <4> QED  BY <1>4, <2>1, <2>2, <3>1, <4>1 DEF Settling, Finds, Deleting
    <3>2. CASE q # p
      BY <1>2, <2>1, <3>2 DEF Settling, Finds, Deleting, Inside
    <3> QED  BY <3>1, <3>2
  <2>6. Owners'
    BY <1>2, <2>1, <2>2 DEF OwnInv, Owners, At, Inside
  <2>7. NotBooted'
    BY <2>2 DEF NotBooted
  <2> QED  BY <2>3, <2>4, <2>5, <2>6, <2>7 DEF OwnInv, Registers
<1> QED  BY <1>1, <1>3, <1>4 DEF SessionAdd

\* The adapter notes the torrent and it becomes live: its registers agree.
LEMMA InitializedOwns ==
    ASSUME GateInv, OwnInv, booted, NEW p \in Procs, Initialized(p)
    PROVE  OwnInv'
<1> USE DEF GateInv, ProcInv, TasksOK
<1>1. PICK t \in Torrents : t = proc[p].on
  BY DEF Initialized, Shapes, WellFormed, Working, Inside, At
<1>2. /\ proc[p].at = "initing" /\ t \in session \cap entries
      /\ \A q \in Procs \ {p} : proc[q].at \notin Inside
      /\ \A u \in Torrents \ {t} : Agree(u)
  <2>1. proc[p].at = "initing" /\ proc[p].at \in Inside
    BY DEF Initialized, At, Inside
  <2>2. Settling(proc[p])
    BY DEF OwnInv, Registers
  <2> QED  BY <1>1, <2>1, <2>2, OneInside, OthersAgree DEF Settling
<1>3. /\ proc'[p].at \in {"idle", "next", "sweep", "opening", "stopping"}
      /\ proc'[p].at = "stopping" => proc'[p].on = t
      /\ \A q \in Procs \ {p} : proc'[q] = proc[q]
  <2>1. CASE Return(p, "ok")
    BY <2>1, ReturnLabels
  <2>2. CASE \/ proc' = [proc EXCEPT ![p].at = "opening"]
             \/ proc' = [proc EXCEPT ![p].at = "stopping"]
    BY <1>1, <1>2, <2>2 DEF Process
  <2> QED  BY <2>1, <2>2 DEF Initialized
<1>4. /\ loaded' = loaded \cup {t} /\ live' = live \cup {t} /\ saved \subseteq saved'
      /\ UNCHANGED <<booted, session, entries, held>>
  BY <1>1 DEF Initialized, cache
<1>5. \A u \in Torrents : Agree(u)'
  BY <1>2, <1>4 DEF Agree
<1>6. ASSUME NEW q \in Procs
      PROVE  Settling(proc[q])' /\ Finds(proc[q])'
  <2>1. CASE q = p
    BY <1>2, <1>3, <1>4, <2>1 DEF Settling, Finds, Deleting
  <2>2. CASE q # p
    BY <1>2, <1>3, <2>2 DEF Settling, Finds, Deleting, Inside
  <2> QED  BY <2>1, <2>2
<1>7. Owners'
  <2>1. \A q \in Procs : At(q, "initing") => proc[q].on = t
    BY <1>1, <1>2 DEF At, Inside
  <2> QED  BY <1>4, <2>1 DEF OwnInv, Owners
<1>8. NotBooted'
  BY <1>4 DEF NotBooted
<1> QED  BY <1>5, <1>6, <1>7, <1>8 DEF OwnInv, Registers

\* Session::delete takes the torrent out of the session; what the adapter does
\* not know is already out of it.
LEMMA DetachOwns ==
    ASSUME GateInv, OwnInv, booted, NEW p \in Procs, Detach(p)
    PROVE  OwnInv'
<1> USE DEF GateInv, ProcInv, TasksOK
<1>1. PICK t \in Torrents : t = proc[p].on
  BY DEF Detach, Shapes, WellFormed, Working, Inside, At
<1>2. /\ proc[p].at = "stopping" /\ proc[p].at \in Inside
      /\ \A q \in Procs \ {p} : proc[q].at \notin Inside
      /\ \A u \in Torrents : Agree(u)
  BY OneInside, OthersAgree DEF Detach, At, Inside, Unsettled
<1>3. UNCHANGED <<booted, saved, live, loaded, entries, held>>
  BY DEF Detach, cache
<1>4. ASSUME NEW outcome, Return(p, outcome), UNCHANGED session
      PROVE  OwnInv'
  <2>1. Quiet
    BY <1>2, <1>3, <1>4, ReturnQuiet DEF Unsettled
  <2> QED  BY <2>1, QuietKeeps
<1>5. ASSUME NEW label \in {"grace", "purging"}, proc' = [proc EXCEPT ![p].at = label],
             label = "grace" => t \in loaded \cap session /\ session' = session \ {t},
             label = "purging" => session' = session /\ t \notin loaded /\ proc[p].kind \notin Evicts
      PROVE  OwnInv'
  <2>1. /\ proc'[p].at = label /\ proc'[p].on = t /\ proc'[p].kind = proc[p].kind
        /\ \A q \in Procs \ {p} : proc'[q] = proc[q]
    BY <1>1, <1>5
  <2>2. Settles(t)' /\ \A u \in Torrents \ {t} : Agree(u)'
    BY <1>2, <1>3, <1>5, <2>1 DEF Settles, Unsettled, Agree
  <2>3. ASSUME NEW q \in Procs
        PROVE  Settling(proc[q])' /\ Finds(proc[q])'
    <3>1. CASE q = p
      <4>1. Finds(proc[p])
        BY DEF OwnInv, Registers
      <4>2. Finds(proc[p])'
        BY <1>1, <1>2, <1>3, <2>1, <4>1 DEF Finds, Deleting
      <4>3. Agree(t)
        BY <1>2
      <4>4. Settling(proc[p])'
        BY <1>3, <1>5, <2>1, <4>3 DEF Settling, Agree
      <4> QED  BY <3>1, <4>2, <4>4
    <3>2. CASE q # p
      BY <1>2, <2>1, <3>2 DEF Settling, Finds, Deleting, Inside
    <3> QED  BY <3>1, <3>2
  <2>4. Owners'
    BY <1>2, <1>3, <2>1 DEF OwnInv, Owners, At, Inside
  <2>5. NotBooted'
    BY <1>3 DEF NotBooted
  <2> QED  BY <2>2, <2>3, <2>4, <2>5 DEF OwnInv, Registers
<1>6. CASE pins[t] = 0 /\ t \in loaded \cap session
  BY <1>1, <1>5, <1>6 DEF Detach
<1>7. CASE pins[t] = 0 /\ t \notin loaded /\ proc[p].kind \notin Evicts
  BY <1>1, <1>5, <1>7 DEF Detach
<1>8. CASE /\ ~(pins[t] = 0 /\ t \in loaded \cap session)
           /\ ~(pins[t] = 0 /\ t \notin loaded /\ proc[p].kind \notin Evicts)
  <2>1. ~(t \in loaded \ session)
    BY <1>2 DEF Agree
  <2>2. pins[t] \in Nat
    BY DEF PinInv, CacheOK
  <2> QED  BY <1>1, <1>4, <1>8, <2>1, <2>2 DEF Detach
<1> QED  BY <1>6, <1>7, <1>8

LEMMA GraceEndsOwns ==
    ASSUME GateInv, OwnInv, booted, NEW p \in Procs, GraceEnds(p)
    PROVE  OwnInv'
<1> USE DEF GateInv, ProcInv, TasksOK
<1>1. PICK t \in Torrents : t = proc[p].on
  BY DEF GraceEnds, Shapes, WellFormed, Working, Inside, At
<1>2. /\ proc[p].at = "grace" /\ t \in live \cap entries /\ t \notin session
      /\ \A q \in Procs \ {p} : proc[q].at \notin Inside
      /\ \A u \in Torrents \ {t} : Agree(u)
  <2>1. proc[p].at = "grace" /\ proc[p].at \in Inside
    BY DEF GraceEnds, At, Inside
  <2>2. Settling(proc[p])
    BY DEF OwnInv, Registers
  <2> QED  BY <1>1, <2>1, <2>2, OneInside, OthersAgree DEF Settling
<1>3. /\ UNCHANGED <<booted, saved, live, session, entries, held>> /\ loaded' = loaded \ {t}
      /\ proc'[p].at = "purging" /\ proc'[p].on = t /\ proc'[p].kind = proc[p].kind
      /\ \A q \in Procs \ {p} : proc'[q] = proc[q]
  BY <1>1 DEF GraceEnds, cache
<1>4. Settles(t)' /\ \A u \in Torrents \ {t} : Agree(u)'
  BY <1>2, <1>3 DEF Settles, Unsettled, Agree
<1>5. ASSUME NEW q \in Procs
      PROVE  Settling(proc[q])' /\ Finds(proc[q])'
  <2>1. CASE q = p
    BY <1>2, <1>3, <2>1 DEF Settling, Finds, Deleting
  <2>2. CASE q # p
    BY <1>2, <1>3, <2>2 DEF Settling, Finds, Deleting, Inside
  <2> QED  BY <2>1, <2>2
<1>6. Owners'
  BY <1>2, <1>3 DEF OwnInv, Owners, At, Inside
<1>7. NotBooted'
  BY <1>3 DEF NotBooted
<1> QED  BY <1>4, <1>5, <1>6, <1>7 DEF OwnInv, Registers

\* The end of a drop, an eviction or a removal: bytes go with the last owner.
LEMMA PurgeOwns ==
    ASSUME GateInv, OwnInv, booted, NEW p \in Procs, Purge(p)
    PROVE  OwnInv'
<1> USE DEF GateInv, ProcInv, TasksOK
<1>1. PICK t \in Torrents : t = proc[p].on
  BY DEF Purge, Shapes, WellFormed, Working, Inside, At
<1>2. /\ proc[p].at = "purging" /\ t \notin session \cup loaded
      /\ \A q \in Procs \ {p} : proc[q].at \notin Inside
      /\ \A u \in Torrents \ {t} : Agree(u)
      /\ t \in live => t \in entries
      /\ proc[p].kind \in Removes => t \notin saved \/ t \in entries
  <2>1. proc[p].at = "purging" /\ proc[p].at \in Inside
    BY DEF Purge, At, Inside
  <2>2. Settling(proc[p]) /\ Finds(proc[p])
    BY DEF OwnInv, Registers
  <2> QED  BY <1>1, <2>1, <2>2, OneInside, OthersAgree DEF Settling, Finds, Deleting
<1>3. /\ proc'[p].at \in {"idle", "next", "sweep"}
      /\ \A q \in Procs \ {p} : proc'[q] = proc[q]
  BY ReturnLabels DEF Purge
<1>4. /\ UNCHANGED <<booted, loaded, session>> /\ live' = live \ {t}
      /\ saved' = IF proc[p].kind \in Removes THEN saved \ {t} ELSE saved
      /\ \A u \in Torrents \ {t} : held'[u] = held[u] /\ (u \in entries' <=> u \in entries)
  <2>1. CASE Remove(t)
    BY <1>1, <2>1 DEF Purge, Remove, PinInv, CacheOK
  <2>2. CASE UNCHANGED cache
    BY <1>1, <2>2 DEF Purge, cache
  <2> QED  BY <1>1, <2>1, <2>2 DEF Purge
<1>5. \A u \in Torrents : Agree(u)'
  BY <1>2, <1>4 DEF Agree
<1>6. \A q \in Procs : proc'[q].at \notin Unsettled \cup Deleting
  BY <1>2, <1>3 DEF Unsettled, Deleting, Inside
<1>7. Registers'
  BY <1>5, <1>6 DEF Registers, Settling, Finds, Unsettled
<1>8. ASSUME NEW u \in Torrents, held'[u] # {} \/ u \in entries'
      PROVE  u \in saved' \cup live'
  <2>1. ~\E q \in Procs : At(q, "initing")
    BY <1>2 DEF At, Inside
  <2>2. CASE u # t
    BY <1>4, <1>8, <2>1, <2>2 DEF OwnInv, Owners
  <2>3. CASE u = t /\ TakesBytes(p) /\ t \in entries
    BY <1>1, <1>8, <2>3 DEF Purge, Remove, PinInv, CacheOK
  <2>4. CASE u = t /\ ~(TakesBytes(p) /\ t \in entries)
    <3>1. held' = held /\ entries' = entries
      BY <1>1, <2>4 DEF Purge, cache
    <3>2. t \in saved \cup live
      BY <1>8, <2>1, <2>4, <3>1 DEF OwnInv, Owners
    <3>3. CASE ~TakesBytes(p)
      BY <1>1, <1>4, <2>4, <3>3 DEF TakesBytes, Drops, Removes
    <3>4. CASE t \notin entries
      BY <1>2, <1>4, <2>4, <3>2, <3>4
    <3> QED  BY <2>4, <3>3, <3>4
  <2> QED  BY <2>2, <2>3, <2>4
<1>9. Owners' /\ NotBooted'
  BY <1>4, <1>8 DEF Owners, NotBooted
<1> QED  BY <1>7, <1>9 DEF OwnInv

\* Bytes arrive for an open torrent.
LEMMA WriteOwns ==
    ASSUME GateInv, OwnInv, booted, NEW w \in Writers,
           EngineWrites(w) \/ \E t \in Torrents, c \in Chunks : Download(w, t, c)
    PROVE  OwnInv'
<1> USE DEF GateInv, ProcInv, TasksOK
<1>1. UNCHANGED <<booted, saved, live, loaded, session, entries, proc>>
  BY DEF EngineWrites, WriteStore, WriteCredit, Download, WriteCheck, books
<1>2. \A t \in Torrents : held'[t] = held[t] \/ t \in entries
  BY DEF EngineWrites, WriteStore, WriteCredit, Download, WriteCheck, PinInv, CacheOK
<1>3. Registers'
  BY <1>1 DEF OwnInv, Registers, Agree, Settles, Settling, Finds
<1>4. Owners' /\ NotBooted'
  BY <1>1, <1>2 DEF OwnInv, Owners, NotBooted, At
<1> QED  BY <1>3, <1>4 DEF OwnInv

LEMMA RestartOwns ==
    ASSUME GateInv, OwnInv, Restart \/ Boot
    PROVE  OwnInv'
<1>1. CASE Restart
  BY <1>1 DEF Restart, CacheRestart, OwnInv, Registers, Agree, Settling, Finds, Owners, NotBooted,
     Deleting, Rest
<1>2. CASE Boot
  <2>1. /\ UNCHANGED <<saved, live, loaded, session, entries, proc>> /\ booted' /\ ~booted
        /\ \A t \in Torrents : held'[t] # {} => t \in saved \cup entries
    BY <1>2 DEF Boot, DiscardUnowned, books
  <2>2. Registers'
    BY <2>1 DEF OwnInv, Registers, Agree, Settles, Settling, Finds
  <2> QED  BY <2>1, <2>2 DEF OwnInv, NotBooted, Owners
<1> QED  BY <1>1, <1>2

\* Purge meets neither of the reasons for which it is skipped.
LEMMA PurgeGoesThrough ==
    ASSUME GateInv, OwnInv, OnlyDeletesFail, NEW p \in Procs
    PROVE  ~PurgeFails(p)
BY NobodyAstray DEF PurgeFails, At, OwnInv, Registers, Settling, OnlyDeletesFail

LEMMA OwnInvStep ==
    ASSUME GateInv, OwnInv, OnlyDeletesFail, [Next]_vars
    PROVE  OwnInv'
<1>1. CASE Restart \/ Boot
  BY <1>1, RestartOwns
<1>2. CASE UNCHANGED vars
  BY <1>2 DEF vars, cache, books, OwnInv, Registers, Agree, Settles, Settling, Finds, Owners,
     NotBooted, At
<1>3. CASE booted /\ (Requested \/ \E c \in Clients : NextHash(c))
  BY <1>3, RequestsQuiet, QuietKeeps
<1>4. ASSUME booted, NEW p \in Procs, TakeGate(p)
      PROVE  OwnInv'
  BY <1>4, TakeGateQuiet, QuietKeeps, GateAddOwns, GateRemOwns DEF TakeGate
<1>5. ASSUME booted, NEW p \in Procs,
             \/ SessionAdd(p) \/ Initialized(p) \/ Detach(p) \/ GraceEnds(p) \/ Purge(p)
      PROVE  OwnInv'
  BY <1>5, SessionAddOwns, InitializedOwns, DetachOwns, GraceEndsOwns, PurgeOwns
<1>6. ASSUME booted, NEW p \in Procs,
             \/ OpenReader(p) \/ StopPrefetch(p) \/ StartPrefetch(p)
             \/ NextVictim(p) \/ SweepEnds(p) \/ DetachFails(p)
      PROVE  OwnInv'
  BY <1>6, PlayQuiet, DeleteQuiet, QuietKeeps
<1>7. ASSUME booted, Background
      PROVE  OwnInv'
  <2>1. "cancel" \notin Faults
    BY DEF OnlyDeletesFail
  <2> QED  BY <1>7, <2>1, NobodyAstray, TasksQuiet, QuietKeeps, WriteOwns DEF Background
<1>8. \A p \in Procs : ~InitFails(p) /\ ~PersistFails(p) /\ ~PurgeFails(p)
  BY PurgeGoesThrough DEF InitFails, PersistFails, OnlyDeletesFail
<1>9. \A c \in Clients : ~Cancel(c)
  BY DEF Cancel, OnlyDeletesFail
<1>10. booted \/ Restart \/ Boot \/ UNCHANGED vars
  BY OnlyBoots DEF OwnInv
<1> QED
  BY <1>1, <1>2, <1>3, <1>4, <1>5, <1>6, <1>7, <1>8, <1>9, <1>10 DEF Next, Step, Disturbed

LEMMA OwnInvInit == Init => OwnInv
BY DEF Init, CacheInit, OwnInv, Registers, Agree, Settling, Finds, Owners, NotBooted, Deleting,
   Rest

LEMMA OwnInvAlways ==
    ASSUME OnlyDeletesFail
    PROVE  Spec => [](GateInv /\ OwnInv)
<1>1. Init => GateInv /\ OwnInv
  BY GateInvInit, OwnInvInit
<1>2. (GateInv /\ OwnInv) /\ [Next]_vars => (GateInv /\ OwnInv)'
  BY GateInvStep, OwnInvStep
<1> QED  BY <1>1, <1>2, PTL DEF Spec

-----------------------------------------------------------------------------
(* The theorems on order. *)

\* Between two operations live, loaded and the session list the same torrents,
\* each with its storage open, and every byte belongs to a saved or a live
\* torrent: no sequence of adds, plays, drops, evictions, removals, settings
\* changes, idle timers and restarts leaves one behind (lib.rs:756-797,
\* 1000-1103; adapter.rs:262-289).
THEOREM OwnedAlways ==
    ASSUME Faults \subseteq {"delete", "late"}
    PROVE  Spec => []Owned
<1>1. OnlyDeletesFail
  BY DEF OnlyDeletesFail
<1>2. ASSUME GateInv, OwnInv, gate = None
      PROVE  \A t \in Torrents : Agree(t) /\ ~Settles(t)
  BY <1>2, FreeGateAgrees
<1>3. GateInv /\ OwnInv => RegistersAgree
  BY <1>2 DEF RegistersAgree, Agree, GateInv, BooksOK
<1>4. GateInv /\ OwnInv => BytesAreOwned
  BY <1>2 DEF BytesAreOwned, OwnInv, Owners, Settles, Unsettled, At
<1>5. GateInv /\ OwnInv => Owned
  BY <1>3, <1>4 DEF Owned
<1> QED  BY <1>1, <1>5, OwnInvAlways, PTL

\* Entries go at the end of a delete and with the process.
LEMMA EntriesStay ==
    ASSUME GateInv, "cancel" \notin Faults, [Next]_vars
    PROVE  entries \subseteq entries' \/ Restart \/ \E p \in Procs : Purge(p)
<1>1. CASE Requested \/ \E c \in Clients : NextHash(c) \/ Cancel(c)
  BY <1>1 DEF Requested, AskAbout, AskPlay, AskWipe, AskSettings, SetCap, Ask, NextHash, Cancel,
     cache
<1>2. ASSUME NEW p \in Procs,
             TakeGate(p) \/ SessionAdd(p) \/ Initialized(p) \/ OpenReader(p) \/ StopPrefetch(p)
      PROVE  entries \subseteq entries'
  BY <1>2 DEF TakeGate, GateAdd, GatePlay, GateDrop, GateRem, GateTrim, SessionAdd, Open,
     Initialized, OpenReader, Pin, StopPrefetch, Unpin, cache
<1>3. ASSUME NEW p \in Procs,
             \/ StartPrefetch(p) \/ Detach(p) \/ GraceEnds(p) \/ PurgeFails(p) \/ NextVictim(p)
             \/ SweepEnds(p) \/ InitFails(p) \/ PersistFails(p) \/ DetachFails(p)
      PROVE  UNCHANGED entries
  BY <1>3 DEF StartPrefetch, Detach, GraceEnds, PurgeFails, NextVictim, SweepEnds, InitFails,
     PersistFails, DetachFails, cache
<1>4. CASE Background
  BY <1>4, NobodyAstray
     DEF Background, PrefetchBegins, Pin, PrefetchEnds, Unpin, Close, ReadOn, Read, Schedule,
     Arm, Fire, EngineWrites, WriteStore, WriteCredit, Download, WriteCheck, cache
<1>5. CASE Boot \/ UNCHANGED vars
  BY <1>5 DEF Boot, DiscardUnowned, vars, cache
<1> QED  BY <1>1, <1>2, <1>3, <1>4, <1>5 DEF Next, Step, Disturbed

\* The entry of a torrent goes only when the engine does not run the torrent
\* (docs/adr/0004-cache-eviction-seam.md:47-50, cache.rs:80-84).
THEOREM NothingGoesUnderEngine ==
    ASSUME Faults \subseteq {"delete", "late"}
    PROVE  Spec => NoRemovalUnderEngine
<1>1. OnlyDeletesFail
  BY DEF OnlyDeletesFail
<1> DEFINE Keeps == \A t \in entries : t \in session => t \in entries' \/ ~booted'
<1>2. ASSUME GateInv, OwnInv, [Next]_vars
      PROVE  Keeps
  <2>1. ASSUME NEW p \in Procs, Purge(p)
        PROVE  Keeps
    <3>1. proc[p].on \in Torrents /\ proc[p].on \notin session
      BY <1>2, <2>1 DEF GateInv, ProcInv, Shapes, WellFormed, Working, Inside, Purge, At, OwnInv,
         Registers, Settling
    <3> QED  BY <2>1, <3>1 DEF Purge, Remove, cache
  <2>2. CASE Restart
    BY <2>2 DEF Restart
  <2>3. "cancel" \notin Faults
    BY <1>1 DEF OnlyDeletesFail
  <2> QED  BY <1>2, <2>1, <2>2, <2>3, EntriesStay
<1> QED  BY <1>1, <1>2, OwnInvAlways, PTL DEF Spec, NoRemovalUnderEngine

-----------------------------------------------------------------------------
(* Calls of the engine.  Without late ones a call is only made on a torrent the  *)
(* engine runs, or is waited for in the grace of its delete, so that no removal  *)
(* finds one.                                                                    *)

Awaited(t) == \E p \in Procs : At(p, "grace") /\ proc[p].on = t

Calls ==
    \A w \in Writers : writer[w].at # "idle" => writer[w].t \in session \/ Awaited(writer[w].t)

CallInv == Calls /\ late = {}

OnlyDeleteFails == Faults \subseteq {"delete"}

\* Steps after which no call is new, no torrent left the session, and no wait ended.
CallsFrame ==
    /\ session \subseteq session' /\ late' = late
    /\ \A w \in Writers : writer'[w].at # "idle" =>
         /\ writer[w].at # "idle" /\ writer'[w].t = writer[w].t
    /\ \A p \in Procs : At(p, "grace") => proc'[p] = proc[p]

LEMMA FrameKeepsCalls ==
    ASSUME CallInv, CallsFrame
    PROVE  CallInv'
BY DEF CallInv, Calls, CallsFrame, Awaited, At

\* While p has the gate and is not in its grace, nobody waits.
LEMMA NobodyAwaits ==
    ASSUME GateInv, NEW p \in Procs, proc[p].at \in Inside, ~At(p, "grace"), NEW t
    PROVE  ~Awaited(t)
BY OneInside DEF Awaited, At, Inside

LEMMA DetachKeepsCalls ==
    ASSUME GateInv, CallInv, NEW p \in Procs, Detach(p)
    PROVE  CallInv'
<1> USE DEF GateInv, ProcInv, TasksOK
<1>1. PICK t \in Torrents : t = proc[p].on
  BY DEF Detach, Shapes, WellFormed, Working, Inside, At
<1>2. /\ proc[p].at = "stopping" /\ ~At(p, "grace")
      /\ \A w \in Writers : writer[w].at # "idle" => writer[w].t \in session
  BY NobodyAwaits DEF Detach, At, Inside, CallInv, Calls
<1>3. UNCHANGED <<writer, late>>
  BY DEF Detach, cache
<1>4. CASE session' = session
  BY <1>2, <1>3, <1>4 DEF CallInv, Calls
<1>5. CASE session' = session \ {t} /\ proc' = [proc EXCEPT ![p].at = "grace"]
  <2>1. Awaited(t)'
    BY <1>1, <1>5 DEF Awaited, At
  <2> QED  BY <1>2, <1>3, <1>5, <2>1 DEF CallInv, Calls
<1>6. \/ UNCHANGED session
      \/ session' = session \ {t} /\ proc' = [proc EXCEPT ![p].at = "grace"]
  <2>1. pins[t] \in Nat
    BY DEF PinInv, CacheOK
  <2> QED  BY <1>1, <2>1 DEF Detach
<1> QED  BY <1>4, <1>5, <1>6

\* The grace ends when the calls have.
LEMMA GraceEndsKeepsCalls ==
    ASSUME GateInv, CallInv, OnlyDeleteFails, NEW p \in Procs, GraceEnds(p)
    PROVE  CallInv'
<1> USE DEF GateInv, ProcInv, TasksOK
<1>1. \A w \in Writers : writer[w].at # "idle" => writer[w].t # proc[p].on
  BY DEF GraceEnds, OnlyDeleteFails, EngineCalls
<1>2. \A q \in Procs : At(q, "grace") => q = p
  BY OneInside DEF GraceEnds, At, Inside
<1>3. UNCHANGED <<writer, late, session>>
  BY DEF GraceEnds, cache
<1> QED  BY <1>1, <1>2, <1>3 DEF CallInv, Calls, Awaited

\* What is removed is out of the session, and nobody waits for it any more.
LEMMA PurgeKeepsCalls ==
    ASSUME GateInv, OwnInv, CallInv, NEW p \in Procs, Purge(p)
    PROVE  CallInv'
<1> USE DEF GateInv, ProcInv, TasksOK
<1>1. PICK t \in Torrents : t = proc[p].on
  BY DEF Purge, Shapes, WellFormed, Working, Inside, At
<1>2. proc[p].at = "purging" /\ t \notin session
  BY <1>1 DEF Purge, At, OwnInv, Registers, Settling
<1>3. \A w \in Writers : writer[w].at # "idle" => writer[w].t \in session
  BY <1>2, NobodyAwaits DEF At, Inside, CallInv, Calls
<1>4. EngineCalls(t) = {}
  BY <1>2, <1>3 DEF EngineCalls
<1>5. late' = {} /\ UNCHANGED <<writer, session>>
  <2>1. CASE Remove(t)
    BY <1>4, <2>1 DEF Remove, CallInv, Purge
  <2>2. CASE UNCHANGED cache
    BY <2>2 DEF cache, CallInv, Purge
  <2> QED  BY <1>1, <2>1, <2>2 DEF Purge
<1> QED  BY <1>3, <1>5 DEF CallInv, Calls

LEMMA GateStepKeepsCalls ==
    ASSUME GateInv, CallInv, NEW p \in Procs,
           \/ TakeGate(p) \/ SessionAdd(p) \/ Initialized(p) \/ OpenReader(p) \/ StopPrefetch(p)
           \/ StartPrefetch(p) \/ PurgeFails(p) \/ NextVictim(p) \/ SweepEnds(p)
           \/ DetachFails(p)
    PROVE  CallInv'
<1> USE DEF GateInv, ProcInv, TasksOK
<1>1. session \subseteq session' /\ UNCHANGED <<writer, late>>
  <2>1. CASE TakeGate(p)
    BY <2>1 DEF TakeGate, GateAdd, GatePlay, GateDrop, GateRem, GateTrim, books, cache
  <2>2. CASE SessionAdd(p) \/ Initialized(p) \/ OpenReader(p) \/ StopPrefetch(p)
    BY <2>2 DEF SessionAdd, Open, Initialized, OpenReader, Pin, StopPrefetch, Unpin, books, cache
  <2>3. CASE \/ StartPrefetch(p) \/ PurgeFails(p) \/ NextVictim(p) \/ SweepEnds(p)
             \/ DetachFails(p)
    BY <2>3 DEF StartPrefetch, PurgeFails, NextVictim, SweepEnds, DetachFails, books, cache
  <2> QED  BY <2>1, <2>2, <2>3
<1>2. \A q \in Procs : ~At(q, "grace")
  <2>1. gate = None \/ (proc[p].at \in Inside /\ ~At(p, "grace"))
    BY DEF TakeGate, SessionAdd, Initialized, OpenReader, StopPrefetch, StartPrefetch,
       PurgeFails, NextVictim, SweepEnds, DetachFails, At, Inside
  <2>2. gate = None => \A q \in Procs : proc[q].at \notin Inside
    BY CoordinatorConstants DEF GateHeld
  <2> QED  BY <2>1, <2>2, OneInside DEF At, Inside
<1> QED  BY <1>1, <1>2, FrameKeepsCalls DEF CallsFrame

LEMMA TasksKeepCalls ==
    ASSUME GateInv, CallInv, OnlyDeleteFails,
           Requested \/ (\E c \in Clients : NextHash(c)) \/ Background
    PROVE  CallInv'
<1> USE DEF GateInv, ProcInv, TasksOK
<1>1. CASE Requested \/ \E c \in Clients : NextHash(c)
  <2>1. Quiet
    BY <1>1, RequestsQuiet
  <2>2. UNCHANGED <<writer, late>>
    BY <1>1 DEF Requested, AskAbout, AskPlay, AskWipe, AskSettings, SetCap, Ask, NextHash, cache
  <2> QED  BY <2>1, <2>2, FrameKeepsCalls DEF Quiet, CallsFrame, At, Unsettled
<1>2. CASE \/ \E f \in Prefetchers : PrefetchBegins(f) \/ PrefetchEnds(f)
           \/ \E r \in Readers : Close(r) \/ ReadOn(r) \/ Schedule(r) \/ Arm(r)
           \/ \E m \in Timers : Fire(m)
  <2>1. Quiet
    BY <1>2, TasksQuiet
  <2>2. UNCHANGED <<writer, late>>
    BY <1>2 DEF PrefetchBegins, Pin, PrefetchEnds, Unpin, Close, ReadOn, Read, Schedule, Arm, Fire,
       cache
  <2> QED  BY <2>1, <2>2, FrameKeepsCalls DEF Quiet, CallsFrame, At, Unsettled
<1>3. ASSUME NEW w \in Writers, EngineWrites(w)
      PROVE  CallInv'
  <2>1. UNCHANGED <<session, late, proc>>
    BY <1>3 DEF EngineWrites, WriteStore, WriteCredit, books
  <2>2. \A x \in Writers : writer'[x].at # "idle" =>
          writer[x].at # "idle" /\ writer'[x].t = writer[x].t
    BY <1>3 DEF EngineWrites, WriteStore, WriteCredit, NoWrite, PinInv, CacheOK
  <2> QED  BY <2>1, <2>2, FrameKeepsCalls DEF CallsFrame
<1>4. ASSUME NEW w \in Writers, NEW t \in Torrents, NEW c \in Chunks, Download(w, t, c)
      PROVE  CallInv'
  <2>1. UNCHANGED <<session, late, proc>> /\ t \in session
    BY <1>4 DEF Download, WriteCheck, books
  <2>2. writer'[w].t = t /\ \A x \in Writers \ {w} : writer'[x] = writer[x]
    BY <1>4 DEF Download, WriteCheck, PinInv, CacheOK
  <2> QED  BY <2>1, <2>2 DEF CallInv, Calls, Awaited, At
<1> QED
  <2>1. "cancel" \notin Faults
    BY DEF OnlyDeleteFails
  <2> QED  BY <1>1, <1>2, <1>3, <1>4, <2>1, NobodyAstray DEF Background

LEMMA CallInvStep ==
    ASSUME GateInv, OwnInv, CallInv, OnlyDeleteFails, [Next]_vars
    PROVE  CallInv'
<1>1. CASE Restart
  BY <1>1 DEF Restart, CacheRestart, CallInv, Calls, NoWrite
<1>2. CASE Boot \/ UNCHANGED vars
  BY <1>2 DEF Boot, DiscardUnowned, vars, cache, books, CallInv, Calls, Awaited, At
<1>3. \A p \in Procs : ~InitFails(p) /\ ~PersistFails(p)
  BY DEF InitFails, PersistFails, OnlyDeleteFails
<1>4. \A c \in Clients : ~Cancel(c)
  BY DEF Cancel, OnlyDeleteFails
<1> QED
  BY <1>1, <1>2, <1>3, <1>4, DetachKeepsCalls, GraceEndsKeepsCalls, PurgeKeepsCalls,
     GateStepKeepsCalls, TasksKeepCalls DEF Next, Step, Disturbed

OrderInv == GateInv /\ OwnInv /\ CallInv

LEMMA OrderInvAlways ==
    ASSUME OnlyDeleteFails
    PROVE  Spec => []OrderInv
<1>1. OnlyDeletesFail
  BY DEF OnlyDeleteFails, OnlyDeletesFail
<1>2. Init => OrderInv
  BY GateInvInit, OwnInvInit DEF OrderInv, Init, CacheInit, CallInv, Calls, NoWrite
<1>3. OrderInv /\ [Next]_vars => OrderInv'
  BY <1>1, GateInvStep, OwnInvStep, CallInvStep DEF OrderInv
<1> QED  BY <1>2, <1>3, PTL DEF Spec

\* The grace of delete_inner keeps the accounting exact, so that between two
\* operations the cap sees every byte (adapter.rs:285-289, cache.rs:177-191).
THEOREM AccountedAlways ==
    ASSUME Faults \subseteq {"delete"}
    PROVE  Spec => []Accounted
<1>1. OnlyDeleteFails /\ Faults \subseteq {"delete", "late"}
  BY DEF OnlyDeleteFails
<1>2. OrderInv => late = {}
  BY DEF OrderInv, CallInv
<1>3. AccountingExact /\ late = {} /\ Owned => Accounted
  BY DEF Accounted, CountedExactly
<1> QED
  BY <1>1, <1>2, <1>3, OrderInvAlways, OwnedAlways, CallsTheCache, AccountingIsExact, PTL

-----------------------------------------------------------------------------
(* The coordinator implements Residency. *)

Serving == session \cup loaded
Kept == {t \in Torrents : held[t] # {}}

\* What Residency sees of a step.
Unseen == saved' = saved /\ Serving' = Serving /\ view' = view /\ Kept' = Kept

LEMMA UnseenStutters ==
    ASSUME Unseen
    PROVE  UNCHANGED Residence!vars
BY DEF Unseen, Serving, Kept, Residence!vars

\* A process that changes nothing but its place and, perhaps, who watches.
LEMMA QuietUnseen ==
    ASSUME Quiet, UNCHANGED view
    PROVE  Unseen
BY DEF Quiet, Unseen, Serving, Kept

LEMMA Unwatches ==
    ASSUME Quiet, NEW v \in Views, UNCHANGED cache \/ Unpin(v)
    PROVE  [Residence!Next]_(Residence!vars)
<1>1. CASE UNCHANGED cache
  BY <1>1, QuietUnseen, UnseenStutters DEF cache
<1>2. CASE Unpin(v)
  <2>1. Residence!Unwatch(v)
    BY <1>2 DEF Quiet, Unpin, Residence!Unwatch
  <2> QED  BY <2>1, CoordinatorConstants DEF Residence!Next
<1> QED  BY <1>1, <1>2

LEMMA Watches ==
    ASSUME Quiet, NEW v \in Views, NEW t \in Torrents, Pin(v, t), t \in session
    PROVE  [Residence!Next]_(Residence!vars)
<1>1. Residence!Watch(v, t)
  BY DEF Quiet, Pin, Residence!Watch
<1> QED  BY <1>1, CoordinatorConstants DEF Residence!Next

LEMMA RequestsRefine ==
    ASSUME GateInv, Requested \/ \E c \in Clients : NextHash(c)
    PROVE  Unseen
<1>1. UNCHANGED view
  BY DEF Requested, AskAbout, AskPlay, AskWipe, AskSettings, SetCap, Ask, NextHash, cache
<1> QED  BY <1>1, RequestsQuiet, QuietUnseen

\* add_source saves a torrent that is live already.
LEMMA TakeGateRefines ==
    ASSUME OrderInv, NEW p \in Procs, TakeGate(p)
    PROVE  [Residence!Next]_(Residence!vars)
<1> USE DEF OrderInv
<1>1. CASE GatePlay(p) \/ GateDrop(p) \/ GateTrim(p) \/ GateRem(p)
  <2>1. UNCHANGED <<saved, session, loaded, view, held>>
    BY <1>1 DEF GatePlay, GateDrop, GateTrim, GateRem, books, cache
  <2> QED  BY <2>1, UnseenStutters DEF Unseen, Serving, Kept
<1>2. CASE GateAdd(p)
  <2>1. UNCHANGED <<session, loaded, view, held>>
    BY <1>2 DEF GateAdd, cache
  <2>2. CASE saved' = saved
    BY <2>1, <2>2, UnseenStutters DEF Unseen, Serving, Kept
  <2>3. CASE saved' # saved
    <3>1. PICK t \in Torrents : t = proc[p].on /\ t \in live /\ saved' = saved \cup {t}
      BY <1>2, <2>3 DEF GateAdd, GateInv, BooksOK
    <3>2. t \in session
      BY <3>1, FreeGateAgrees DEF TakeGate, Agree
    <3>3. Residence!Save(t)
      BY <2>1, <3>1, <3>2 DEF Residence!Save
    <3> QED  BY <3>3 DEF Residence!Next
  <2> QED  BY <2>2, <2>3
<1> QED  BY <1>1, <1>2 DEF TakeGate

\* A torrent is served from the moment it joins the session.
LEMMA SessionAddRefines ==
    ASSUME OrderInv, NEW p \in Procs, SessionAdd(p)
    PROVE  [Residence!Next]_(Residence!vars)
<1> USE DEF OrderInv, GateInv, ProcInv, TasksOK
<1>1. PICK t \in Torrents : t = proc[p].on
  BY DEF SessionAdd, Shapes, WellFormed, Working, Inside, At
<1>2. Agree(t)
  BY OthersAgree DEF SessionAdd, At, Inside, Unsettled
<1>3. CASE UNCHANGED <<cache, session>>
  BY <1>3, UnseenStutters DEF SessionAdd, Unseen, Serving, Kept, cache
<1>4. CASE /\ session' = session \cup {t}
           /\ IF t \in session \cup entries THEN UNCHANGED cache ELSE Open(t)
  <2>1. UNCHANGED <<saved, loaded, view>>
    BY <1>4 DEF SessionAdd, Open, cache
  <2>2. CASE t \in session
    <3>1. session' = session /\ UNCHANGED held
      BY <1>4, <2>2 DEF cache
    <3> QED  BY <2>1, <3>1, UnseenStutters DEF Unseen, Serving, Kept
  <2>3. CASE t \notin session
    <3>1. t \notin session \cup loaded /\ session' \cup loaded' = (session \cup loaded) \cup {t}
      BY <1>2, <1>4, <2>1, <2>3 DEF Agree
    <3>2. Kept' = Kept \/ Kept' = Kept \ {t}
      <4>1. CASE UNCHANGED held
        BY <4>1 DEF Kept
      <4>2. CASE Open(t)
        <5>1. /\ held'[t] \in {held[t], {}}
              /\ \A u \in Torrents \ {t} : held'[u] = held[u]
          BY <4>2 DEF Open, PinInv, CacheOK
        <5> QED  BY <5>1 DEF Kept
      <4> QED  BY <1>4, <4>1, <4>2 DEF cache
    <3>3. Residence!Serve(t)
      BY <2>1, <3>1, <3>2 DEF Residence!Serve, Kept
    <3> QED  BY <3>3 DEF Residence!Next
  <2> QED  BY <2>2, <2>3
<1> QED  BY <1>1, <1>3, <1>4 DEF SessionAdd

\* The adapter lists what the session runs already; a row is saved with it.
LEMMA InitializedRefines ==
    ASSUME OrderInv, NEW p \in Procs, Initialized(p)
    PROVE  [Residence!Next]_(Residence!vars)
<1> USE DEF OrderInv, GateInv, ProcInv, TasksOK
<1>1. PICK t \in Torrents : t = proc[p].on
  BY DEF Initialized, Shapes, WellFormed, Working, Inside, At
<1>2. t \in session
  BY <1>1 DEF Initialized, At, OwnInv, Registers, Settling
<1>3. /\ session' \cup loaded' = session \cup loaded /\ UNCHANGED <<view, held>>
      /\ saved' \in {saved, saved \cup {t}}
  BY <1>1, <1>2 DEF Initialized, cache
<1>4. CASE saved' = saved
  BY <1>3, <1>4, UnseenStutters DEF Unseen, Serving, Kept
<1>5. CASE saved' = saved \cup {t}
  <2>1. Residence!Save(t)
    BY <1>2, <1>3, <1>5 DEF Residence!Save
  <2> QED  BY <2>1 DEF Residence!Next
<1> QED  BY <1>3, <1>4, <1>5

\* Playing: a viewer comes, a look-ahead task is stopped or started.
LEMMA PlayRefines ==
    ASSUME OrderInv, NEW p \in Procs, OpenReader(p) \/ StopPrefetch(p) \/ StartPrefetch(p)
    PROVE  [Residence!Next]_(Residence!vars)
<1> USE DEF OrderInv, GateInv, ProcInv, TasksOK
<1>1. Quiet /\ WellFormed(p, proc[p])
  BY PlayQuiet DEF Shapes
<1>2. CASE OpenReader(p)
  <2>1. /\ proc[p].on \in Torrents /\ proc[p].reader \in Readers
    BY <1>1, <1>2 DEF OpenReader, WellFormed, Working, Inside, Loading, At, Process
  <2>2. \/ UNCHANGED cache
        \/ Pin(proc[p].reader, proc[p].on) /\ proc[p].on \in session
    BY <1>2 DEF OpenReader, Playable
  <2>3. CASE UNCHANGED cache
    BY <1>1, <2>3, QuietUnseen, UnseenStutters DEF cache
  <2> QED  BY <1>1, <2>1, <2>2, <2>3, Watches, CoordinatorConstants
<1>3. CASE StopPrefetch(p)
  <2>1. prefetches[proc[p].on] \in Views
    BY <1>1, <1>3, CoordinatorConstants DEF StopPrefetch, WellFormed, Working, Inside, At
  <2> QED  BY <1>1, <1>3, <2>1, Unwatches DEF StopPrefetch
<1>4. CASE StartPrefetch(p)
  BY <1>1, <1>4, QuietUnseen, UnseenStutters DEF StartPrefetch, cache
<1> QED  BY <1>2, <1>3, <1>4

\* Deleting: the torrent leaves the session first, and is served no more when the
\* adapter forgets it; its bytes go after that.
LEMMA DeleteRefines ==
    ASSUME OrderInv, OnlyDeleteFails, NEW p \in Procs, Detach(p) \/ GraceEnds(p) \/ Purge(p)
    PROVE  [Residence!Next]_(Residence!vars)
<1> USE DEF OrderInv, GateInv, ProcInv, TasksOK
<1>1. PICK t \in Torrents : t = proc[p].on
  BY DEF Detach, GraceEnds, Purge, Shapes, WellFormed, Working, Inside, At
<1>2. Settling(proc[p]) /\ Finds(proc[p])
  BY DEF OwnInv, Registers
<1>3. CASE Detach(p)
  <2>1. \/ UNCHANGED session
        \/ t \in loaded /\ session' = session \ {t}
    <3>1. pins[t] \in Nat
      BY DEF PinInv, CacheOK
    <3> QED  BY <1>1, <1>3, <3>1 DEF Detach
  <2>2. UNCHANGED <<saved, loaded, view, held>>
    BY <1>3 DEF Detach, cache
  <2>3. session' \cup loaded' = session \cup loaded
    BY <2>1, <2>2
  <2> QED  BY <2>2, <2>3, UnseenStutters DEF Unseen, Serving, Kept
<1>4. CASE GraceEnds(p)
  <2>1. t \notin session /\ proc[p].at = "grace"
    BY <1>1, <1>2, <1>4 DEF GraceEnds, At, Settling
  <2>2. /\ session' \cup loaded' = (session \cup loaded) \ {t}
        /\ UNCHANGED <<saved, view, held>>
    BY <1>1, <1>4, <2>1 DEF GraceEnds, cache
  <2>3. Residence!Unwatched(t)
    <3>1. "cancel" \notin Faults
      BY DEF OnlyDeleteFails
    <3> QED
      BY <1>1, <2>1, <3>1, NobodyAstray, CoordinatorConstants DEF Residence!Unwatched
  <2>4. Residence!Release(t)
    BY <2>2, <2>3 DEF Residence!Release
  <2> QED  BY <2>4 DEF Residence!Next
<1>5. CASE Purge(p)
  <2>1. t \notin session \cup loaded /\ (proc[p].kind \in Removes => t \notin saved \/ t \in entries)
    BY <1>1, <1>2, <1>5 DEF Purge, At, Settling, Finds, Deleting
  <2>2. UNCHANGED <<session, loaded, view>>
    BY <1>5 DEF Purge, Remove, cache
  <2>3. saved' = IF proc[p].kind \in Removes THEN saved \ {t} ELSE saved
    BY <1>1, <1>5 DEF Purge
  <2>4. CASE TakesBytes(p) /\ t \in entries
    <3>1. held' = [held EXCEPT ![t] = {}] /\ held \in [Torrents -> SUBSET Chunks]
      BY <1>1, <1>5, <2>4 DEF Purge, Remove, PinInv, CacheOK
    <3>2. Kept' = Kept \ {t}
      BY <3>1 DEF Kept
    <3>3. Residence!Discard(t)
      BY <2>1, <2>2, <2>3, <3>2 DEF Residence!Discard, Kept
    <3> QED  BY <3>3 DEF Residence!Next
  <2>5. CASE ~(TakesBytes(p) /\ t \in entries)
    <3>1. UNCHANGED held
      BY <1>1, <1>5, <2>5 DEF Purge, cache
    <3>2. proc[p].kind \in Removes => TakesBytes(p)
      BY DEF TakesBytes, Drops, Removes
    <3>3. saved' = saved
      BY <2>1, <2>3, <2>5, <3>2
    <3> QED  BY <2>2, <3>1, <3>3, UnseenStutters DEF Unseen, Serving, Kept
  <2> QED  BY <2>4, <2>5
<1> QED  BY <1>3, <1>4, <1>5

LEMMA BackgroundRefines ==
    ASSUME OrderInv, OnlyDeleteFails, Background
    PROVE  [Residence!Next]_(Residence!vars)
<1> USE DEF OrderInv, GateInv, ProcInv, TasksOK
<1>1. Readers \subseteq Views /\ Prefetchers \subseteq Views
  BY CoordinatorConstants
<1>2. ASSUME NEW f \in Prefetchers, PrefetchBegins(f) \/ PrefetchEnds(f)
      PROVE  [Residence!Next]_(Residence!vars)
  <2>1. Quiet
    BY <1>2, TasksQuiet
  <2>2. CASE PrefetchBegins(f)
    <3>1. proc[f].on \in Torrents
      BY <2>2 DEF PrefetchBegins, At, Shapes, WellFormed, Working, Procs
    <3> QED  BY <1>1, <2>1, <2>2, <3>1, Watches DEF PrefetchBegins, Playable
  <2>3. CASE PrefetchEnds(f)
    BY <1>1, <2>1, <2>3, Unwatches DEF PrefetchEnds
  <2> QED  BY <1>2, <2>2, <2>3
<1>3. ASSUME NEW r \in Readers, Close(r) \/ ReadOn(r) \/ Schedule(r) \/ Arm(r)
      PROVE  [Residence!Next]_(Residence!vars)
  <2>1. Quiet
    BY <1>3, TasksQuiet
  <2>2. CASE Close(r)
    BY <1>1, <2>1, <2>2, Unwatches DEF Close
  <2>3. CASE ReadOn(r) \/ Schedule(r) \/ Arm(r)
    <3>1. UNCHANGED view
      BY <2>3 DEF ReadOn, Read, Schedule, Arm, cache
    <3> QED  BY <2>1, <3>1, QuietUnseen, UnseenStutters
  <2> QED  BY <1>3, <2>2, <2>3
<1>4. ASSUME NEW m \in Timers, Fire(m)
      PROVE  [Residence!Next]_(Residence!vars)
  <2>1. Quiet /\ UNCHANGED view
    BY <1>4, TasksQuiet DEF Fire, cache
  <2> QED  BY <2>1, QuietUnseen, UnseenStutters
<1>5. ASSUME NEW w \in Writers,
             (WriteCredit(w) /\ EngineWrites(w))
               \/ \E t \in Torrents, c \in Chunks : Download(w, t, c)
      PROVE  [Residence!Next]_(Residence!vars)
  <2>1. UNCHANGED <<saved, session, loaded, view, held>>
    BY <1>5 DEF WriteCredit, EngineWrites, Download, WriteCheck, books
  <2> QED  BY <2>1, UnseenStutters DEF Unseen, Serving, Kept
<1>6. ASSUME NEW w \in Writers, WriteStore(w), EngineWrites(w)
      PROVE  [Residence!Next]_(Residence!vars)
  <2>1. PICK t \in Torrents : t = writer[w].t
    BY <1>6 DEF WriteStore, PinInv, CacheOK, WriteStates, NoWrite
  <2>2. t \in session \cup loaded
    <3>1. t \in session \/ Awaited(t)
      BY <1>6, <2>1 DEF WriteStore, CallInv, Calls
    <3>2. Awaited(t) => t \in loaded
      BY DEF Awaited, At, OwnInv, Registers, Settling
    <3> QED  BY <3>1, <3>2
  <2>3. UNCHANGED <<saved, session, loaded, view>>
    BY <1>6 DEF WriteStore, EngineWrites, books
  <2>4. Kept' = Kept \/ Kept' = Kept \cup {t}
    BY <1>6, <2>1 DEF WriteStore, Kept, PinInv, CacheOK
  <2>5. CASE Kept' = Kept
    BY <2>3, <2>5, UnseenStutters DEF Unseen, Serving
  <2>6. CASE Kept' = Kept \cup {t}
    <3>1. Residence!Fill(t)
      BY <2>2, <2>3, <2>6 DEF Residence!Fill, Kept
    <3> QED  BY <3>1 DEF Residence!Next
  <2> QED  BY <2>4, <2>5, <2>6
<1> QED
  <2>1. "cancel" \notin Faults
    BY DEF OnlyDeleteFails
  <2> QED
    BY <1>2, <1>3, <1>4, <1>5, <1>6, <2>1, NobodyAstray DEF Background, EngineWrites

\* The end of the process, and the clean-up of the next one.
LEMMA RestartRefines ==
    ASSUME OrderInv, Restart \/ Boot
    PROVE  [Residence!Next]_(Residence!vars)
<1>1. CASE Restart
  <2>1. Residence!Stop
    BY <1>1, CoordinatorConstants DEF Restart, CacheRestart, Residence!Stop
  <2> QED  BY <2>1 DEF Residence!Next
<1>2. CASE Boot
  <2>1. entries = {} /\ session = {} /\ loaded = {}
    BY <1>2 DEF Boot, OrderInv, OwnInv, NotBooted
  <2>2. Kept' = Kept \cap saved
    BY <1>2, <2>1 DEF Boot, DiscardUnowned, Kept
  <2>3. UNCHANGED <<saved, session, loaded, view>>
    BY <1>2 DEF Boot, DiscardUnowned, books
  <2>4. Residence!Start
    BY <2>1, <2>2, <2>3 DEF Residence!Start, Kept
  <2> QED  BY <2>4 DEF Residence!Next
<1> QED  BY <1>1, <1>2

\* The step of the refinement, and the theorem.
LEMMA ResidenceStep ==
    ASSUME OrderInv, OnlyDeleteFails, [Next]_vars
    PROVE  [Residence!Next]_(Residence!vars)
<1>1. ASSUME NEW p \in Procs, NextVictim(p) \/ SweepEnds(p) \/ DetachFails(p)
      PROVE  [Residence!Next]_(Residence!vars)
  <2>1. Quiet /\ UNCHANGED view
    BY <1>1, DeleteQuiet DEF OrderInv, NextVictim, SweepEnds, DetachFails, cache
  <2> QED  BY <2>1, QuietUnseen, UnseenStutters
<1>2. CASE Requested \/ \E c \in Clients : NextHash(c)
  BY <1>2, RequestsRefine, UnseenStutters DEF OrderInv
<1>3. CASE UNCHANGED vars
  BY <1>3, UnseenStutters DEF vars, cache, books, Unseen, Serving, Kept
<1>4. \A p \in Procs : ~InitFails(p) /\ ~PersistFails(p) /\ ~PurgeFails(p)
  BY PurgeGoesThrough DEF InitFails, PersistFails, OnlyDeleteFails, OnlyDeletesFail, OrderInv
<1>5. \A c \in Clients : ~Cancel(c)
  BY DEF Cancel, OnlyDeleteFails
<1> QED
  BY <1>1, <1>2, <1>3, <1>4, <1>5, TakeGateRefines, SessionAddRefines, InitializedRefines,
     PlayRefines, DeleteRefines, BackgroundRefines, RestartRefines DEF Next, Step, Disturbed

\* The coordinator keeps what Residency promises: whatever requests, viewers,
\* tasks and timers do to one another, and whichever deletes fail, bytes come only
\* to a torrent that is served and go only from one that is not, a watched
\* torrent is served until its last viewer leaves, and rows and bytes go together
\* (lib.rs:756-1103, adapter.rs:262-289).
THEOREM KeepsPromise ==
    ASSUME Faults \subseteq {"delete"}
    PROVE  Spec => Promise
<1>1. OnlyDeleteFails
  BY DEF OnlyDeleteFails
<1>2. Init => Residence!Init
  BY CoordinatorConstants DEF Init, CacheInit, Residence!Init
<1> QED
  BY <1>1, <1>2, ResidenceStep, OrderInvAlways, PTL DEF Spec, Promise, Residence!Spec
=============================================================================
