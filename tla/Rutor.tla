------------------------------- MODULE Rutor -------------------------------
(***************************************************************************)
(* The Rutor database: a file that a background task keeps fresh, and the  *)
(* index in memory that searches use (crates/rustorr-search/src/service.rs *)
(* set_rutor_enabled; rutor.rs; search_api.rs rutor).                      *)
(*                                                                         *)
(* The task is aborted when the switch is used and nobody waits for it: it *)
(* ends at its next await, but a file operation or a load it has begun goes *)
(* on.  A copy is known by its number; 0 is one that does not decode.      *)
(***************************************************************************)
EXTENDS Integers

CONSTANTS
    Versions,   \* what the site may serve over time: numbers from 0
    NoCopy

ASSUME RutorAssumption == Versions \subseteq Nat /\ NoCopy \notin Int

VARIABLES
    on,         \* what set_rutor_enabled was last told
    site,       \* the copy the site serves
    rutorFile,  \* rutor.ls: [copy, fresh], copy NoCopy when there is none
    part,       \* rutor.tmp: a copy, Cut, or NoCopy
    loaded,     \* the copy in memory, or NoCopy
    updater,    \* the task: where it is and what it has
    stray,      \* the step an aborted task had begun: where it is, what it has
    strayed     \* one has been under way since the switch was last used

rutorVars == <<on, site, rutorFile, part, loaded, updater, stray, strayed>>

Cut == -1
Copies == Versions \cup {Cut, NoCopy}
NoTask == [at |-> "none", first |-> FALSE, has |-> NoCopy]

RutorTypeOK ==
    /\ rutorFile \in [copy : Copies, fresh : BOOLEAN]
    /\ part \in Copies /\ loaded \in Copies \ {Cut}
    /\ updater \in [at : {"none", "check", "write", "rename", "load", "sleep"},
                 first : BOOLEAN, has : Copies]
    /\ stray \in [at : {"none", "write", "part", "file", "rename", "load"},
                  first : BOOLEAN, has : Copies]
    /\ on <=> updater.at # "none"

RutorInit ==
    /\ on = FALSE /\ site \in Versions
    /\ rutorFile \in [copy : {NoCopy}, fresh : {FALSE}] \cup [copy : Versions, fresh : BOOLEAN]
    /\ part = NoCopy /\ loaded = NoCopy /\ updater = NoTask
    /\ stray = NoTask /\ strayed = FALSE

\* load: a copy that does not decode leaves the index as it is.
Loaded(copy) == IF copy \in {NoCopy, Cut, 0} THEN loaded ELSE copy

-----------------------------------------------------------------------------
\* set_rutor_enabled: the task is aborted, the index forgotten, a new task made.
\* What it has begun goes on (one such step at a time is followed).
Switch(enabled) ==
    LET begun == updater.at \in {"write", "rename", "load"} IN
    /\ begun => stray = NoTask
    /\ on' = enabled
    /\ \/ stray' = stray
       \/ begun /\ stray' = updater
    /\ strayed' = (stray' # NoTask)
    /\ loaded' = NoCopy
    /\ updater' = IF enabled THEN [NoTask EXCEPT !.at = "check", !.first = TRUE] ELSE NoTask
    /\ UNCHANGED <<site, rutorFile, part>>

\* The write of an aborted task: it empties rutor.tmp, and fills what it has
\* open, whichever name that has by now.
StrayWrite ==
    /\ \/ /\ stray.at = "write" /\ part' = Cut /\ stray' = [stray EXCEPT !.at = "part"]
          /\ UNCHANGED rutorFile
       \/ /\ stray.at = "part" /\ part' = stray.has /\ stray' = NoTask
          /\ UNCHANGED rutorFile
       \/ /\ stray.at = "file" /\ rutorFile' = [rutorFile EXCEPT !.copy = stray.has]
          /\ stray' = NoTask /\ UNCHANGED part
    /\ UNCHANGED <<on, site, loaded, updater, strayed>>

StrayRename ==
    /\ stray.at = "rename"
    /\ IF part = NoCopy THEN UNCHANGED <<rutorFile, part>>
                      ELSE rutorFile' = [copy |-> part, fresh |-> TRUE] /\ part' = NoCopy
    /\ stray' = NoTask
    /\ UNCHANGED <<on, site, loaded, updater, strayed>>

\* The load of the aborted task ends: its index is installed all the same.
StrayLoad ==
    /\ stray.at = "load"
    /\ loaded' = Loaded(rutorFile.copy)
    /\ stray' = NoTask
    /\ UNCHANGED <<on, site, rutorFile, part, updater, strayed>>

\* After an update that loaded nothing the first round reads the local copy, a
\* later one sleeps.
Otherwise == [updater EXCEPT !.at = IF updater.first THEN "load" ELSE "sleep", !.has = NoCopy]

\* update: nothing to do for a fresh copy, for a failed download and for what is
\* here already.
CheckSite ==
    /\ updater.at = "check"
    /\ \/ updater' = Otherwise
       \/ /\ ~ rutorFile.fresh
          /\ updater' = IF site = rutorFile.copy THEN Otherwise
                     ELSE [updater EXCEPT !.at = "write", !.has = site]
    /\ UNCHANGED <<on, site, rutorFile, part, loaded, stray, strayed>>

\* Faulty variant: a temporary file that could not be written is taken for one.
WritePart_GoesOn ==
    /\ updater.at = "write"
    /\ part' \in {updater.has, Cut}
    /\ updater' = [updater EXCEPT !.at = "rename"]
    /\ UNCHANGED <<on, site, rutorFile, loaded, stray, strayed>>

\* The temporary file: whole, or cut or not begun when that fails.
WritePart ==
    /\ updater.at = "write"
    /\ \/ part' = updater.has /\ updater' = [updater EXCEPT !.at = "rename"]
       \/ part' \in {part, Cut} /\ updater' = Otherwise
    /\ UNCHANGED <<on, site, rutorFile, loaded, stray, strayed>>

\* A write an aborted task still does to rutor.tmp follows the file.
RenamePart ==
    /\ updater.at = "rename"
    /\ \/ /\ part # NoCopy
          /\ rutorFile' = [copy |-> part, fresh |-> TRUE] /\ part' = NoCopy
          /\ updater' = [updater EXCEPT !.at = "load", !.first = FALSE]
          /\ stray' = IF stray.at = "part" THEN [stray EXCEPT !.at = "file"] ELSE stray
       \/ updater' = Otherwise /\ UNCHANGED <<rutorFile, part, stray>>
    /\ UNCHANGED <<on, site, loaded, strayed>>

Load ==
    /\ updater.at = "load"
    /\ loaded' = Loaded(rutorFile.copy)
    /\ updater' = [NoTask EXCEPT !.at = "sleep"]
    /\ UNCHANGED <<on, site, rutorFile, part, stray, strayed>>

\* Three hours later.
Wake ==
    /\ updater.at = "sleep"
    /\ updater' = [NoTask EXCEPT !.at = "check"]
    /\ rutorFile' \in {rutorFile, [rutorFile EXCEPT !.fresh = FALSE]}
    /\ UNCHANGED <<on, site, part, loaded, stray, strayed>>

Publish(copy) ==
    /\ site' = copy
    /\ UNCHANGED <<on, rutorFile, part, loaded, updater, stray, strayed>>

\* The server ends at any point; the settings switch the task on again.
ServerRestarts ==
    /\ on' = FALSE /\ loaded' = NoCopy /\ updater' = NoTask
    /\ stray' = NoTask /\ strayed' = FALSE
    /\ part' \in {part} \cup (IF updater.at = "write" THEN {Cut} ELSE {})
    /\ UNCHANGED <<site, rutorFile>>

RutorNext ==
    \/ \E enabled \in BOOLEAN : Switch(enabled)
    \/ StrayWrite \/ StrayRename \/ StrayLoad
    \/ CheckSite \/ WritePart \/ RenamePart \/ Load \/ Wake \/ ServerRestarts
    \/ \E copy \in Versions : Publish(copy)

RutorSpec == RutorInit /\ [][RutorNext]_rutorVars

-----------------------------------------------------------------------------
(* Properties.  All but the last hold only while no step of an aborted task *)
(* has been under way since the switch: that exception is the race of       *)
(* service.rs:58-60.                                                        *)

\* Switched off, the index is forgotten (service.rs:18-20, 61).
Forgotten == ~ on /\ ~ strayed => loaded = NoCopy

\* Once the task sleeps, searches find what the file holds; a bad copy in it is
\* the one exception (rutor.rs:57-106).
LoadedIsStored ==
    updater.at = "sleep" /\ ~ strayed /\ rutorFile.copy \notin {NoCopy, Cut, 0} => loaded = rutorFile.copy

\* What is about to take the old database's place is whole, whatever was cut off
\* before (rutor.rs:95-105).
RenamesWhole == updater.at = "rename" /\ ~ strayed => part = updater.has

\* A search never works on a copy that does not decode (rutor.rs:57-66).
FoundIsWhole == loaded \notin {Cut, 0}

RutorRight == Forgotten /\ LoadedIsStored /\ RenamesWhole /\ FoundIsWhole
=============================================================================
