----------------------------- MODULE Migration -----------------------------
(* Opening the state database (rustorr-state: State::open, schema.rs). The  *)
(* builds of Openers know different numbers of migrations and may open one  *)
(* file at the same time; each migration is one transaction, and a process  *)
(* may stop at any point of it.                                             *)
EXTENDS Integers, Sequences

CONSTANTS
    Openers,    \* processes that call State::open
    Latest,     \* opener -> MIGRATIONS.len() of its build
    Found,      \* what the file may hold at first: subset of {"empty", "foreign"}
    Nobody      \* no process

VARIABLES
    file,       \* the database: whose it is, user_version, the steps applied
    writer,     \* who is in an immediate transaction, or Nobody
    opener      \* opener -> where its open is

migrationVars == <<file, writer, opener>>

\* Where an open is, and the step it takes next.
At(place, target) == [at |-> place, target |-> target]
Closed == At("closed", 1)

MigrationInit ==
    /\ file \in {[ours |-> kind # "foreign", version |-> 0, applied |-> <<>>] : kind \in Found}
    /\ writer = Nobody
    /\ opener = [p \in Openers |-> Closed]

MigrationTypeOK ==
    /\ file.version \in 0 .. Len(file.applied)
    /\ writer # Nobody => opener[writer].at \in {"begun", "applied"}

-----------------------------------------------------------------------------
Moved(p, state) == opener' = [opener EXCEPT ![p] = state]

\* check reads the version first: a file of another program, or of a newer build,
\* is refused.  A file without a version is looked at again.
Check(p) ==
    /\ opener[p] = Closed
    /\ Moved(p, IF file.version = 0 THEN At("inspects", 1)
                ELSE IF file.ours /\ file.version <= Latest[p]
                THEN At("checked", file.version + 1)
                ELSE At("refused", 1))
    /\ UNCHANGED <<file, writer>>

\* check, then: nobody may have made tables in it.
Inspect(p) ==
    /\ opener[p].at = "inspects"
    /\ Moved(p, IF file.ours /\ file.applied = <<>>
                THEN At("checked", 1)
                ELSE At("refused", 1))
    /\ UNCHANGED <<file, writer>>

Begin(p) ==
    /\ opener[p].at = "checked" /\ opener[p].target <= Latest[p]
    /\ writer = Nobody
    /\ writer' = p
    /\ Moved(p, At("begun", opener[p].target))
    /\ UNCHANGED file

\* BEGIN IMMEDIATE gives up after the busy timeout: open fails.
Busy(p) ==
    /\ opener[p].at = "checked" /\ opener[p].target <= Latest[p]
    /\ writer # Nobody
    /\ Moved(p, Closed)
    /\ UNCHANGED <<file, writer>>

\* Another process applied the step while this one waited.
Skip(p) ==
    /\ opener[p].at = "begun" /\ file.version >= opener[p].target
    /\ writer' = Nobody
    /\ Moved(p, At("checked", opener[p].target + 1))
    /\ UNCHANGED file

\* Faulty variant: the version is not read again inside the transaction.
Apply_Unchecked(p) ==
    /\ opener[p].at = "begun"
    /\ Moved(p, At("applied", opener[p].target))
    /\ UNCHANGED <<file, writer>>

Apply(p) ==
    /\ opener[p].at = "begun" /\ file.version < opener[p].target
    /\ Moved(p, At("applied", opener[p].target))
    /\ UNCHANGED <<file, writer>>

\* The step and the version it leads to become visible together.
Commit(p) ==
    /\ opener[p].at = "applied"
    /\ file' = [file EXCEPT !.version = opener[p].target,
                            !.applied = Append(@, opener[p].target)]
    /\ writer' = Nobody
    /\ Moved(p, At("checked", opener[p].target + 1))

\* Every step is in place: the journal is switched to WAL and State made.
Opened(p) ==
    /\ opener[p].at = "checked" /\ opener[p].target > Latest[p]
    /\ Moved(p, At("open", opener[p].target))
    /\ UNCHANGED <<file, writer>>

\* The process ends, or a statement fails and the open with it: SQLite rolls
\* the transaction back.
Ends(p) ==
    /\ opener[p] # Closed
    /\ writer' = IF writer = p THEN Nobody ELSE writer
    /\ Moved(p, Closed)
    /\ UNCHANGED file

MigrationNext ==
    \E p \in Openers :
        \/ Check(p) \/ Inspect(p) \/ Begin(p) \/ Busy(p) \/ Skip(p)
        \/ Apply(p) \/ Commit(p) \/ Opened(p) \/ Ends(p)

MigrationSpec == MigrationInit /\ [][MigrationNext]_migrationVars

-----------------------------------------------------------------------------
(* Properties. *)

\* The recorded version says exactly which migrations the file has had, each
\* once and in order, whoever opens it meanwhile and wherever a process stops
\* (schema.rs:9-11, 107-127).
VersionIsHonest == file.applied = [i \in 1 .. file.version |-> i]

\* A file that is not Rustorr's is never written, and an open State has every
\* migration its build knows (state.rs:25-27).
OpenIsMigrated ==
    /\ ~ file.ours => file.applied = <<>>
    /\ \A p \in Openers : opener[p].at = "open" => file.version >= Latest[p]

\* Both: what the steps of schema.rs leave in the file, and what State::open
\* promises of it.
SchemaIsRight == VersionIsHonest /\ OpenIsMigrated

=============================================================================
