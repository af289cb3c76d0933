------------------------------ MODULE DataDir ------------------------------
(* The data directory: the server that writes the database and its          *)
(* journal, makes its HTTPS pair and may be killed, and the service         *)
(* commands backup, restore and passwd (rustorr-server: maintenance.rs,     *)
(* tls.rs; snapshot.rs). backup and passwd may run beside the server; a     *)
(* restore asks for a stopped one. A step of a command may fail, and the    *)
(* machine may stop between any two.                                        *)
EXTENDS Integers, Sequences

CONSTANTS
    MaxData,    \* bound: commits of a database
    MaxNew,     \* bound: databases, account files and key pairs that are made
    Missing

\* What stands in a database or a journal, see DirTypeOK.
Commits == [life : Nat, data : Nat]
ASSUME DirAssumption == Missing \notin Nat \cup Commits

\* Of STATE_FILES, those that are not copies of one another's case.
StateFiles == <<"accs.db", "server.pem", "server.key">>

Database == "rustorr.db"
Journal == "rustorr.db-wal"
FileNames == {Database, Journal} \cup {StateFiles[i] : i \in DOMAIN StateFiles}

\* The order in which restore removes the old state and moves the new in.
ClearOrder == <<Database, Journal>> \o StateFiles
MoveOrder == <<Database>> \o StateFiles

VARIABLES
    dir,        \* name -> what the file holds, or Missing
    server,     \* "down", "opened", "certified" or "up"
    command,    \* the service command in progress
    backup,     \* the file under the name that was asked for, or Missing
    restored,   \* history: the backup the directory was restored from, until
                \* somebody changes it
    made        \* counts the databases, accounts and pairs there were

dirVars == <<dir, server, command, backup, restored, made>>

NoCommand == [at |-> "none"]
NoFiles == [n \in FileNames |-> Missing]

DirInit ==
    /\ dir = NoFiles
    /\ server = "down" /\ command = NoCommand
    /\ backup = Missing /\ restored = Missing /\ made = 0

\* A database file and its journal name the life of the file they belong to:
\* a copy is a file of its own. data counts the commits one can read.
DirTypeOK ==
    /\ \A n \in FileNames : dir[n] # Missing =>
         IF n \in {Database, Journal} THEN dir[n] \in [life : 0 .. MaxNew, data : 0 .. MaxData]
         ELSE dir[n] \in 0 .. MaxNew
    /\ server \in {"down", "opened", "certified", "up"}
    /\ made \in 0 .. MaxNew
    /\ command.at \in {"copying", "clearing", "moving"} => command.next \in 1 .. Len(ClearOrder) + 1

-----------------------------------------------------------------------------
(* The server. *)

Restoring == command.at \in {"clearing", "moving"}
Readable == IF dir[Journal] # Missing THEN dir[Journal].data ELSE dir[Database].data

Write(changes) == dir' = [n \in FileNames |-> IF n \in DOMAIN changes THEN changes[n] ELSE dir[n]]
File(name, content) == [n \in {name} |-> content]

\* State::open. SQLite drops the journal beside a database that is not there
\* and replays the one beside a database that is.
OpenState ==
    /\ server = "down" /\ ~ Restoring
    /\ IF dir[Database] = Missing
         THEN /\ made < MaxNew
              /\ made' = made + 1
              /\ Write([n \in {Database, Journal} |->
                          IF n = Database THEN [life |-> made', data |-> 0] ELSE Missing])
         ELSE UNCHANGED <<dir, made>>
    /\ server' = "opened"
    /\ restored' = Missing
    /\ UNCHANGED <<command, backup>>

\* load: the key must be the certificate's own.
Usable == dir["server.pem"] # Missing /\ dir["server.pem"] = dir["server.key"]

LoadPair ==
    /\ server = "opened" /\ Usable
    /\ server' = "up"
    /\ UNCHANGED <<dir, command, backup, restored, made>>

\* self_signed writes the certificate, then the key.
WriteCertificate ==
    /\ server = "opened" /\ ~ Usable /\ made < MaxNew
    /\ made' = made + 1
    /\ Write(File("server.pem", made'))
    /\ server' = "certified"
    /\ UNCHANGED <<command, backup, restored>>

WriteKey ==
    /\ server = "certified"
    /\ Write(File("server.key", dir["server.pem"]))
    /\ server' = "up"
    /\ UNCHANGED <<command, backup, restored, made>>

CommitData ==
    /\ server = "up" /\ Readable < MaxData
    /\ Write(File(Journal, [life |-> dir[Database].life, data |-> Readable + 1]))
    /\ UNCHANGED <<server, command, backup, restored, made>>

\* The journal's pages go into the database; the last connection to close
\* removes the journal.
Checkpoint ==
    /\ server = "up" /\ dir[Journal] # Missing
    /\ \/ Write(File(Database, [dir[Database] EXCEPT !.data = Readable])) /\ server' = "up"
       \/ /\ Write([n \in {Database, Journal} |->
                      IF n = Database THEN [dir[Database] EXCEPT !.data = Readable] ELSE Missing])
          /\ server' = "down"
    /\ UNCHANGED <<command, backup, restored, made>>

Killed ==
    /\ server # "down"
    /\ server' = "down"
    /\ UNCHANGED <<dir, command, backup, restored, made>>

-----------------------------------------------------------------------------
(* backup *)

\* VACUUM INTO: one consistent copy, a file of its own.
Snapshot ==
    /\ command = NoCommand /\ dir[Database] # Missing
    /\ command' = [at |-> "copying", next |-> 1,
                   staged |-> [NoFiles EXCEPT ![Database] = [life |-> 0, data |-> Readable]]]
    /\ UNCHANGED <<dir, server, backup, restored, made>>

CopyFile ==
    /\ command.at = "copying" /\ command.next <= Len(StateFiles)
    /\ LET name == StateFiles[command.next]
       IN  command' = [command EXCEPT !.next = @ + 1, !.staged[name] = dir[name]]
    /\ UNCHANGED <<dir, server, backup, restored, made>>

\* The archive is written aside and renamed.
Persist ==
    /\ command.at = "copying" /\ command.next > Len(StateFiles)
    /\ backup' = command.staged
    /\ command' = NoCommand
    /\ UNCHANGED <<dir, server, restored, made>>

-----------------------------------------------------------------------------
(* restore *)

\* The archive is unpacked and checked beside the old state first.
Unpack(force) ==
    /\ command = NoCommand /\ server = "down" /\ backup # Missing
    /\ dir[Database] = Missing \/ force
    /\ command' = [at |-> "clearing", next |-> 1, staged |-> backup]
    /\ restored' = Missing
    /\ UNCHANGED <<dir, server, backup, made>>

\* Faulty variant: only the names of the backup are cleared.
ClearFile_LeavesJournal ==
    /\ command.at = "clearing"
    /\ IF command.next <= Len(ClearOrder)
         THEN /\ Write(IF ClearOrder[command.next] = Journal THEN <<>> ELSE File(ClearOrder[command.next], Missing))
              /\ command' = [command EXCEPT !.next = @ + 1]
         ELSE UNCHANGED dir /\ command' = [command EXCEPT !.at = "moving", !.next = 1]
    /\ UNCHANGED <<server, backup, restored, made>>

ClearFile ==
    /\ command.at = "clearing"
    /\ IF command.next <= Len(ClearOrder)
         THEN /\ Write(File(ClearOrder[command.next], Missing))
              /\ command' = [command EXCEPT !.next = @ + 1]
         ELSE UNCHANGED dir /\ command' = [command EXCEPT !.at = "moving", !.next = 1]
    /\ UNCHANGED <<server, backup, restored, made>>

\* A file of the backup is moved in; the database is a file of its own now.
MoveIn ==
    /\ command.at = "moving" /\ command.next <= Len(MoveOrder)
    /\ LET name == MoveOrder[command.next]
           file == command.staged[name]
       IN  IF file # Missing /\ name = Database
             THEN /\ made < MaxNew
                  /\ made' = made + 1
                  /\ Write(File(name, [file EXCEPT !.life = made']))
             ELSE /\ Write(IF file = Missing THEN <<>> ELSE File(name, file))
                  /\ UNCHANGED made
    /\ command' = [command EXCEPT !.next = @ + 1]
    /\ UNCHANGED <<server, backup, restored>>

RestoreDone ==
    /\ command.at = "moving" /\ command.next > Len(MoveOrder)
    /\ restored' = command.staged
    /\ command' = NoCommand
    /\ UNCHANGED <<dir, server, backup, made>>

-----------------------------------------------------------------------------
\* passwd writes the accounts aside and renames the file.
SetPassword ==
    /\ ~ Restoring /\ made < MaxNew
    /\ made' = made + 1
    /\ Write(File("accs.db", made'))
    /\ restored' = Missing
    /\ UNCHANGED <<server, command, backup>>

\* A step of a command fails, or the command is killed.
CommandFails ==
    /\ command # NoCommand
    /\ command' = NoCommand
    /\ UNCHANGED <<dir, server, backup, restored, made>>

DirNext ==
    \/ OpenState \/ LoadPair \/ WriteCertificate \/ WriteKey \/ CommitData \/ Checkpoint \/ Killed
    \/ Snapshot \/ CopyFile \/ Persist
    \/ \E force \in BOOLEAN : Unpack(force)
    \/ ClearFile \/ MoveIn \/ RestoreDone \/ SetPassword \/ CommandFails

DirSpec == DirInit /\ [][DirNext]_dirVars

-----------------------------------------------------------------------------
(* Properties. *)

\* A journal never lies beside a database that is not its own, and a server
\* that is up has a key that belongs to its certificate, wherever it, a
\* restore or a backup was cut off before (maintenance.rs:182-198,
\* tls.rs:78-93).
Coherent ==
    /\ dir[Database] # Missing /\ dir[Journal] # Missing => dir[Journal].life = dir[Database].life
    /\ server = "up" => dir["server.pem"] = dir["server.key"] /\ dir[Database] # Missing

\* After a restore the directory is the backup and nothing else, also when
\* an earlier one stopped half way (maintenance.rs:133-200: "Replaces the
\* state in data_dir with the backup").
RestoredIsBackup ==
    restored # Missing =>
        /\ \A i \in DOMAIN StateFiles : dir[StateFiles[i]] = restored[StateFiles[i]]
        /\ dir[Database] # Missing /\ Readable = restored[Database].data

DirRight == Coherent /\ RestoredIsBackup

=============================================================================
