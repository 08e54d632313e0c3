------------------------------- MODULE Database -------------------------------
(***************************************************************************)
(* The database file and the processes that open it: migrations with the   *)
(* snapshot before them (db/migrations.py), the runs that then write, and  *)
(* the server that refuses a schema behind its release (db/connection.py,  *)
(* mcp_server/server.py).                                                  *)
(*                                                                         *)
(* DuckDB is external: one process has the file open for writing, or any   *)
(* number for reading; a commit goes to a log beside the file, the log is  *)
(* folded into the file when the writer closes, and outlives a crash.      *)
(* A migration is its version and the checksum of its text.                *)
(***************************************************************************)
EXTENDS Integers, FiniteSets, Sequences, FiniteSetsExt

CONSTANTS
  Migrators,   \* processes that call MigrationRunner.run: migrate, sync, the scheduler
  Servers,     \* processes that call MigrationRunner.verify
  Shas,        \* checksums of migration files
  NVersions,   \* bound: migrations of a release
  Releases,    \* what schema/ may hold: checksums by version, without gaps
  MaxWrites,   \* bound: transactions of sync runs
  None         \* nobody, not applied

Versions  == 1 .. NVersions
Processes == Migrators \cup Servers

ASSUME ProcessesAssumption == Migrators \cap Servers = {} /\ None \notin Processes
ASSUME VersionsAssumption  == NVersions \in Nat \ {0} /\ None \notin Shas /\ MaxWrites \in Nat
ASSUME ReleasesAssumption  ==
  /\ Releases # {}
  /\ Releases \subseteq UNION {[1 .. n -> Shas] : n \in Versions}

VARIABLES
  release,   \* the migrations of the installed version
  db,        \* what is committed
  main,      \* what the file itself says: db as it was when a writer last closed
  wal,       \* whether a log lies beside the file
  writer,    \* the process that has the file open for writing
  readers,   \* the processes that have it open for reading
  pc,        \* where each process is
  pending,   \* the migrations it means to apply
  snapshots, \* the files in pre_migration_backup_dir, by the version in their name
  before,    \* history: what was committed when the last batch from a version on began
  raced      \* history: versions for which another process opened the file for
             \* writing while one was between its check and its change

vars == <<release, db, main, wal, writer, readers, pc, pending, snapshots, before, raced>>

\* "applied" is schema_migrations; "schema" the migrations whose SQL has been
\* executed, in order; "writes" the runs since.
Contents == [table : BOOLEAN, applied : [Versions -> Shas \cup {None}],
             schema : UNION {[1 .. n -> Shas] : n \in 0 .. NVersions},
             writes : 0 .. MaxWrites]

Fresh   == [table |-> FALSE, applied |-> [v \in Versions |-> None], schema |-> <<>>, writes |-> 0]
NoLog   == [base |-> Fresh, top |-> Fresh, there |-> FALSE]
NoCopy  == [readable |-> FALSE, main |-> Fresh, log |-> NoLog]

\* A log is what it applies to and what it makes of it.
Logs   == [base : Contents, top : Contents, there : BOOLEAN]
Copies == [readable : BOOLEAN, main : Contents, log : Logs]

TypeOK ==
  /\ release \in Releases
  /\ db \in Contents
  /\ main \in Contents
  /\ wal \in BOOLEAN
  /\ wal \/ main = db
  /\ writer \in Migrators \cup {None}
  /\ readers \in SUBSET Servers
  /\ writer = None \/ readers = {}
  /\ pc \in [Processes -> {"down", "check", "copy file", "copy log", "reopen", "apply",
                           "sync", "write", "serve", "query"}]
  /\ pending \in [Migrators -> SUBSET Versions]
  /\ snapshots \in [Versions -> Copies]
  /\ before \in [Versions -> Contents]
  /\ raced \in SUBSET Versions

Init ==
  /\ release \in Releases
  /\ db = Fresh
  /\ main = Fresh
  /\ wal = FALSE
  /\ writer = None
  /\ readers = {}
  /\ pc = [p \in Processes |-> "down"]
  /\ pending = [p \in Migrators |-> {}]
  /\ snapshots = [v \in Versions |-> NoCopy]
  /\ before = [v \in Versions |-> Fresh]
  /\ raced = {}

-------------------------------------------------------------------------------
(* The file *)

Goto(p, place) == pc' = [pc EXCEPT ![p] = place]

Between(p) == pc[p] \in {"copy file", "copy log", "reopen"}

CanWrite == writer = None /\ readers = {}
CanRead  == writer = None

OpenToWrite(p) ==
  /\ CanWrite
  /\ writer' = p
  /\ raced' = raced \cup {Min(pending[q]) : q \in {r \in Migrators \ {p} : Between(r)}}

Commit(content) == db' = content /\ wal' = TRUE

\* The writer closes: what is committed is in the file, the log is gone.
CloseWriter ==
  /\ writer' = None
  /\ main' = db
  /\ wal' = FALSE

-------------------------------------------------------------------------------
(* MigrationRunner.run *)

Known(v)  == v \in DOMAIN release

\* _verify_applied_integrity: an applied migration is on disk, unchanged.
Intact == \A v \in Versions : db.applied[v] # None => Known(v) /\ release[v] = db.applied[v]

Unapplied == {v \in DOMAIN release : db.applied[v] = None}

\* The first connection; schema_migrations is created.
Check(p) ==
  /\ pc[p] = "down"
  /\ OpenToWrite(p)
  /\ IF db.table THEN UNCHANGED <<db, wal>> ELSE Commit([db EXCEPT !.table = TRUE])
  /\ Goto(p, "check")
  /\ UNCHANGED <<release, main, readers, pending, snapshots, before>>

\* What is applied is read and compared; the connection is closed in any case.
Checked(p) ==
  /\ pc[p] = "check"
  /\ CloseWriter
  /\ pending' = [pending EXCEPT ![p] = IF Intact THEN Unapplied ELSE {}]
  /\ Goto(p, IF ~Intact THEN "down" ELSE IF Unapplied = {} THEN "sync" ELSE "copy file")
  /\ UNCHANGED <<release, db, readers, snapshots, before, raced>>

\* Mutant: the snapshot bears the name of the last migration of the batch.
NameByLast(p) == Max(pending[p])

Name(p) == Min(pending[p])

\* The file is copied while no connection of this process is open.  If another
\* one writes to it, the copy may be of no use.
CopyFile(p) ==
  /\ pc[p] = "copy file"
  /\ \E good \in {TRUE} \cup {writer = None} :
       snapshots' = [snapshots EXCEPT ![Name(p)] =
                       [readable |-> good, main |-> main, log |-> snapshots[Name(p)].log]]
  /\ Goto(p, "copy log")
  /\ UNCHANGED <<release, db, main, wal, writer, readers, pending, before, raced>>

\* The log is copied if there is one; a copy from an earlier attempt stays.
CopyLog(p) ==
  /\ pc[p] = "copy log"
  /\ snapshots' = IF wal
                  THEN [snapshots EXCEPT ![Name(p)] =
                          [@ EXCEPT !.log = [base |-> main, top |-> db, there |-> TRUE]]]
                  ELSE snapshots
  /\ Goto(p, "reopen")
  /\ UNCHANGED <<release, db, main, wal, writer, readers, pending, before, raced>>

\* The second connection.
Reopen(p) ==
  /\ pc[p] = "reopen"
  /\ OpenToWrite(p)
  /\ Goto(p, "apply")
  /\ before' = LET first == Min(pending[p])
               IN  IF db.applied[first] = None THEN [before EXCEPT ![first] = db] ELSE before
  /\ UNCHANGED <<release, db, main, wal, readers, pending, snapshots>>

\* The file cannot be opened a second time: the error ends the process.
ReopenFails(p) ==
  /\ pc[p] = "reopen"
  /\ ~CanWrite
  /\ Goto(p, "down")
  /\ pending' = [pending EXCEPT ![p] = {}]
  /\ UNCHANGED <<release, db, main, wal, writer, readers, snapshots, before, raced>>

\* Mutant: schema_migrations has no primary key.
NeverTaken(v) == FALSE

\* The primary key of schema_migrations.
Taken(v) == db.applied[v] # None

\* One migration in one transaction: its SQL, and its row.
Apply(p) ==
  /\ pc[p] = "apply"
  /\ pending[p] # {}
  /\ LET v == Min(pending[p])
     IN  /\ ~Taken(v)
         /\ Commit([db EXCEPT !.applied = [@ EXCEPT ![v] = release[v]],
                              !.schema = Append(@, release[v])])
         /\ pending' = [pending EXCEPT ![p] = @ \ {v}]
  /\ UNCHANGED <<release, main, writer, readers, pc, snapshots, before, raced>>

\* The SQL fails, or the row is there already: a rollback, and the process ends.
ApplyFails(p) ==
  /\ pc[p] = "apply"
  /\ pending[p] # {}
  /\ CloseWriter
  /\ pending' = [pending EXCEPT ![p] = {}]
  /\ Goto(p, "down")
  /\ UNCHANGED <<release, db, readers, snapshots, before, raced>>

Applied(p) ==
  /\ pc[p] = "apply"
  /\ pending[p] = {}
  /\ CloseWriter
  /\ Goto(p, "sync")
  /\ UNCHANGED <<release, db, readers, pending, snapshots, before, raced>>

-------------------------------------------------------------------------------
(* What a migrated database is for *)

\* A run opens a writer for each of its steps, and commits.
Write(p) ==
  /\ pc[p] = "sync"
  /\ OpenToWrite(p)
  /\ db.writes < MaxWrites
  /\ Commit([db EXCEPT !.writes = @ + 1])
  /\ Goto(p, "write")
  /\ UNCHANGED <<release, main, readers, pending, snapshots, before>>

Written(p) ==
  /\ pc[p] = "write"
  /\ CloseWriter
  /\ Goto(p, "sync")
  /\ UNCHANGED <<release, db, readers, pending, snapshots, before, raced>>

\* The command is done, or the run could not open the file.
Leave(p) ==
  /\ pc[p] = "sync"
  /\ Goto(p, "down")
  /\ UNCHANGED <<release, db, main, wal, writer, readers, pending, snapshots, before, raced>>

\* Mutant: the server only compares checksums.
MigratedIfIntact == db.table /\ Intact

\* MigrationRunner.verify.
Migrated == db.table /\ Intact /\ Unapplied = {}

Serve(s) ==
  /\ pc[s] = "down"
  /\ CanRead
  /\ Migrated
  /\ Goto(s, "serve")
  /\ UNCHANGED <<release, db, main, wal, writer, readers, pending, snapshots, before, raced>>

\* A tool opens a connection of its own, and closes it when it has its answer.
Query(s) ==
  /\ pc[s] = "serve"
  /\ CanRead
  /\ readers' = readers \cup {s}
  /\ Goto(s, "query")
  /\ UNCHANGED <<release, db, main, wal, writer, pending, snapshots, before, raced>>

Answer(s) ==
  /\ pc[s] = "query"
  /\ readers' = readers \ {s}
  /\ Goto(s, "serve")
  /\ UNCHANGED <<release, db, main, wal, writer, pending, snapshots, before, raced>>

-------------------------------------------------------------------------------
(* Processes die, the container is replaced *)

\* The system takes the lock off the file; the log stays.
Crash(p) ==
  /\ pc[p] # "down"
  /\ writer' = IF writer = p THEN None ELSE writer
  /\ readers' = readers \ {p}
  /\ pending' = [q \in Migrators |-> IF q = p THEN {} ELSE pending[q]]
  /\ Goto(p, "down")
  /\ UNCHANGED <<release, db, main, wal, snapshots, before, raced>>

\* Another version, newer or older, whose files may have been edited.
Deploy ==
  /\ \A p \in Processes : pc[p] = "down"
  /\ release' \in Releases
  /\ UNCHANGED <<db, main, wal, writer, readers, pc, pending, snapshots, before, raced>>

MigratorStep(p) ==
  \/ Check(p) \/ Checked(p) \/ CopyFile(p) \/ CopyLog(p) \/ Reopen(p) \/ ReopenFails(p)
  \/ Apply(p) \/ ApplyFails(p) \/ Applied(p) \/ Write(p) \/ Written(p) \/ Leave(p)

ServerStep(s) == Serve(s) \/ Query(s) \/ Answer(s)

Next ==
  \/ \E p \in Migrators : MigratorStep(p)
  \/ \E s \in Servers : ServerStep(s)
  \/ \E p \in Processes : Crash(p)
  \/ Deploy

Spec == Init /\ [][Next]_vars

-------------------------------------------------------------------------------
(* Properties *)

\* However many processes migrate at once, with lists of pending migrations that
\* others have worked off meanwhile, and wherever they die: the SQL of each
\* migration is committed once, in order and without gaps, and schema_migrations
\* says exactly that.
SchemaIsApplied ==
  \A v \in Versions :
    db.applied[v] = (IF v \in DOMAIN db.schema THEN db.schema[v] ELSE None)

\* A server that answers does so on the schema of its own release, whatever the
\* other processes do to the file after its check.
ServedIsMigrated ==
  \A s \in Servers :
    pc[s] \in {"serve", "query"} =>
      \A v \in Versions : db.applied[v] = (IF Known(v) THEN release[v] ELSE None)

Restored(copy) ==
  IF copy.log.there /\ copy.readable
  THEN {content \in {copy.log.top} : copy.log.base = copy.main}
  ELSE {content \in {copy.main} : copy.readable}

\* The snapshot named after the first migration of a batch gives back the database
\* as it was before the batch, through crashes, failures, repeated attempts and
\* changes of release; only where another process opened the file between the
\* check and the change it may not.
SnapshotRestores ==
  \A v \in Versions \ raced :
    db.applied[v] # None /\ before[v] # Fresh => Restored(snapshots[v]) = {before[v]}
===============================================================================
