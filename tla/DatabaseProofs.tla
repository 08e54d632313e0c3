---------------------------- MODULE DatabaseProofs ----------------------------
(***************************************************************************)
(* Proofs about Database for any processes, releases and number of         *)
(* migrations: what schema_migrations says has been executed, a server     *)
(* answers on the schema of its release, and snapshots restore.            *)
(***************************************************************************)
EXTENDS Database, NaturalsInduction, WellFoundedInduction, TLAPS

\* A set of numbers has a least one, and Min is it.
LEMMA MinIsLeast ==
  ASSUME NEW T \in SUBSET Nat, T # {}
  PROVE  Min(T) \in T /\ \A j \in T : Min(T) <= j
<1> DEFINE R == {ss \in Nat \X Nat : ss[1] < ss[2]}
<1>1. IsWellFoundedOn(R, Nat)
  BY NatLessThanWellFounded DEF OpToRel
<1>2. PICK k \in T : \A j \in T : ~(<<j, k>> \in R)
  <2> HIDE DEF R
  <2> QED BY <1>1, WFMin
<1>3. \A j \in T : ~(j < k)
  BY <1>2
<1>4. \E i \in T : \A j \in T : i <= j
  BY <1>3
<1> QED BY <1>4 DEF Min

\* Versions are numbers.
LEMMA VersionsNat == Versions \subseteq Nat
BY DEF Versions

USE ProcessesAssumption, VersionsAssumption, ReleasesAssumption

-------------------------------------------------------------------------------
(* The inductive invariant *)

\* The writer is at a place where it has the file open.
WriterWrites ==
  \A p \in Migrators : pc[p] \in {"check", "apply", "write"} <=> writer = p

\* What a process means to apply is what is left of the release, or less: others may
\* have applied some of it.
PendingIsRest ==
  \A p \in Migrators :
    /\ Between(p) \/ pc[p] = "apply" =>
         /\ pending[p] \subseteq DOMAIN release
         /\ \A v \in DOMAIN release \ pending[p] : db.applied[v] # None
    /\ Between(p) => pending[p] # {}

\* Between its check and its change nobody has touched the file, or the version is raced.
Quiet ==
  \A p \in Migrators : Between(p) /\ Name(p) \notin raced =>
    writer = None /\ ~wal /\ db.applied[Name(p)] = None

\* Logs are copied in races only.
NoLogCopied == \A v \in Versions \ raced : ~snapshots[v].log.there

Holds(v, content) == snapshots[v].readable /\ snapshots[v].main = content

\* A copy that was just made is the database.
Copied ==
  \A p \in Migrators :
    pc[p] \in {"copy log", "reopen"} /\ Name(p) \notin raced => Holds(Name(p), db)

\* A batch begins where everything before it is applied.
PriorApplied ==
  \A v \in Versions : before[v] # Fresh => \A u \in Versions : u < v => db.applied[u] # None

\* Some process is about to apply v.
Due(v) == \E p \in Migrators : pc[p] = "apply" /\ pending[p] # {} /\ v = Name(p)

\* The snapshot stays what it was from the time the batch begins.
Kept ==
  \A v \in Versions \ raced :
    before[v] # Fresh /\ (db.applied[v] # None \/ Due(v)) => Holds(v, before[v])

Basics == TypeOK /\ WriterWrites /\ PendingIsRest /\ SchemaIsApplied

IInv ==
  /\ Basics
  /\ ServedIsMigrated
  /\ Quiet
  /\ NoLogCopied
  /\ Copied
  /\ PriorApplied
  /\ Kept

-------------------------------------------------------------------------------
(* Lemmas about releases and contents *)

\* A release has its migrations without gaps, each with a checksum.
LEMMA ReleaseType ==
  ASSUME NEW r \in Releases
  PROVE  /\ \E n \in Versions : r \in [1 .. n -> Shas] /\ DOMAIN r = 1 .. n
         /\ DOMAIN r \subseteq Versions
         /\ \A v \in DOMAIN r : r[v] \in Shas
<1>1. PICK n \in Versions : r \in [1 .. n -> Shas]
  OBVIOUS
<1> QED BY <1>1 DEF Versions

\* What the parts of the contents are.
LEMMA DbParts ==
  ASSUME TypeOK
  PROVE  /\ db.table \in BOOLEAN
         /\ db.applied \in [Versions -> Shas \cup {None}]
         /\ \E n \in 0 .. NVersions : db.schema \in [1 .. n -> Shas]
         /\ db.writes \in 0 .. MaxWrites
<1>1. db.schema \in UNION {[1 .. n -> Shas] : n \in 0 .. NVersions}
  BY DEF TypeOK, Contents
<1>2. \E n \in 0 .. NVersions : db.schema \in [1 .. n -> Shas]
  BY <1>1, Zenon
<1> QED BY <1>2 DEF TypeOK, Contents

\* A new file, and a snapshot nobody has taken.
LEMMA FreshType == Fresh \in Contents /\ NoCopy \in Copies /\ ~NoCopy.log.there
<1>1. <<>> \in [1 .. 0 -> Shas] /\ 0 \in 0 .. NVersions
  OBVIOUS
<1>2. Fresh.schema \in UNION {[1 .. n -> Shas] : n \in 0 .. NVersions}
  BY <1>1 DEF Fresh
<1>3. Fresh \in Contents
  BY <1>2 DEF Fresh, Contents
<1>4. NoLog \in Logs /\ ~NoLog.there
  BY <1>3 DEF NoLog, Logs
<1> QED BY <1>3, <1>4 DEF NoCopy, Copies

\* The name of the snapshot is the first pending version.
LEMMA PendingMin ==
  ASSUME Basics, NEW p \in Migrators, pending[p] # {}
  PROVE  /\ Name(p) \in pending[p] /\ Name(p) \in Versions
         /\ \A v \in pending[p] : Name(p) <= v
<1>1. pending[p] \subseteq Versions
  BY DEF Basics, TypeOK
<1>2. pending[p] \in SUBSET Nat
  BY <1>1, VersionsNat
<1> QED BY <1>1, <1>2, MinIsLeast DEF Name

\* The migration that is applied is the next one.
LEMMA ApplyIsNext ==
  ASSUME Basics, NEW p \in Migrators, Apply(p)
  PROVE  LET v == Name(p)
         IN  /\ v \in Versions /\ v \in pending[p] /\ v \in DOMAIN release
             /\ db.applied[v] = None
             /\ db'.applied[v] # None
             /\ \A u \in Versions : u < v => db.applied[u] # None
             /\ db'.applied = [db.applied EXCEPT ![v] = release[v]]
             /\ db'.schema = Append(db.schema, release[v])
             /\ db' \in Contents
             /\ Len(db.schema) = v - 1
<1> DEFINE v == Name(p)
<1> USE DEF Basics
<1>1. v \in Versions /\ v \in pending[p] /\ v \in DOMAIN release /\ release[v] \in Shas
  <2>1. pending[p] # {} /\ pending[p] \subseteq DOMAIN release /\ release \in Releases
    BY DEF Apply, PendingIsRest, TypeOK
  <2> QED BY <2>1, PendingMin, ReleaseType
<1>2. db.applied[v] = None
  BY DEF Apply, Taken, Name
<1>3. ASSUME NEW u \in Versions, u < v PROVE db.applied[u] # None
  <2>1. u \in DOMAIN release
    <3>1. PICK n \in Versions : DOMAIN release = 1 .. n
      BY ReleaseType DEF TypeOK
    <3> QED BY <1>1, <1>3, <3>1 DEF Versions
  <2>2. u \notin pending[p]
    BY <1>1, <1>3, PendingMin DEF Versions
  <2> QED BY <2>1, <2>2 DEF PendingIsRest, Apply
<1>4. PICK n \in 0 .. NVersions : db.schema \in [1 .. n -> Shas]
  BY DbParts
<1>5. db.schema \in Seq(Shas) /\ Len(db.schema) = n /\ DOMAIN db.schema = 1 .. n
  BY <1>4
<1>6. n = v - 1
  <2>1. v \notin DOMAIN db.schema
    BY <1>1, <1>2, <1>4, <1>5 DEF SchemaIsApplied
  <2>2. \A u \in Versions : u < v => u \in DOMAIN db.schema
    BY <1>3 DEF SchemaIsApplied
  <2>3. v - 1 \in DOMAIN db.schema \/ v = 1
    BY <1>1, <2>2 DEF Versions
  <2> QED BY <1>1, <1>5, <2>1, <2>3 DEF Versions
<1>7. db' = [db EXCEPT !.applied = [@ EXCEPT ![v] = release[v]],
                       !.schema = Append(@, release[v])]
  BY DEF Apply, Commit, Name
<1>8. /\ db'.applied = [db.applied EXCEPT ![v] = release[v]]
      /\ db'.schema = Append(db.schema, release[v])
      /\ db'.table = db.table /\ db'.writes = db.writes
      /\ db' = [table |-> db'.table, applied |-> db'.applied, schema |-> db'.schema,
                writes |-> db'.writes]
  BY <1>7 DEF TypeOK, Contents
<1>9. db'.schema \in [1 .. v -> Shas] /\ v \in 0 .. NVersions
  <2>1. db'.schema \in Seq(Shas) /\ Len(db'.schema) = v
    BY <1>1, <1>5, <1>6, <1>8 DEF Versions
  <2>2. v \in 0 .. NVersions
    BY <1>1 DEF Versions
  <2> QED BY <2>1, <2>2
<1>10. db'.schema \in UNION {[1 .. m -> Shas] : m \in 0 .. NVersions}
  BY <1>9
<1>11. db' \in Contents
  <2>1. db'.applied \in [Versions -> Shas \cup {None}]
    BY <1>1, <1>8, DbParts
  <2> QED BY <1>8, <1>10, <2>1, DbParts DEF Contents
<1>12. db'.applied[v] # None
  BY <1>1, <1>8, DbParts
<1> QED BY <1>1, <1>2, <1>3, <1>5, <1>6, <1>8, <1>11, <1>12

\* Whoever opens the file makes the versions of those in between raced ones.
LEMMA OpenRaces ==
  ASSUME Basics, NEW q \in Migrators, OpenToWrite(q)
  PROVE  /\ raced \subseteq raced' /\ raced' \in SUBSET Versions
         /\ \A p \in Migrators \ {q} : Between(p) => Name(p) \in raced'
<1>1. \A p \in Migrators : Between(p) => Name(p) \in Versions
  BY PendingMin DEF Basics, PendingIsRest
<1> QED BY <1>1 DEF OpenToWrite, Name, Basics, TypeOK

-------------------------------------------------------------------------------
(* Types, the writer and what is pending *)

\* The types, to begin with.
LEMMA TypeInit == Init => TypeOK
BY FreshType DEF Init, TypeOK, Processes

\* The types, from step to step.
LEMMA TypeStep == Basics /\ [Next]_vars => TypeOK'
<1> SUFFICES ASSUME Basics, [Next]_vars PROVE TypeOK'
  OBVIOUS
<1> USE DEF Basics, Goto
<1>0. TypeOK
  OBVIOUS
<1>1. CASE UNCHANGED vars
  BY <1>0, <1>1 DEF vars, TypeOK
<1>2. ASSUME NEW p \in Migrators, MigratorStep(p) PROVE TypeOK'
  <2>0. p \in Processes
    BY DEF Processes
  <2>1. CASE Check(p)
    <3>1. db' \in Contents /\ wal' \in BOOLEAN /\ (wal' \/ main' = db')
      BY <1>0, <2>1 DEF Check, Commit, TypeOK, Contents
    <3> QED BY <1>0, <2>0, <2>1, <3>1, OpenRaces DEF Check, OpenToWrite, CanWrite, TypeOK
  <2>2. CASE Checked(p)
    <3>1. Unapplied \subseteq Versions
      BY <1>0, ReleaseType DEF TypeOK, Unapplied
    <3> QED BY <1>0, <2>0, <2>2, <3>1 DEF Checked, CloseWriter, TypeOK
  <2>3. CASE CopyFile(p)
    <3>1. Name(p) \in Versions
      BY <2>3, PendingMin DEF CopyFile, PendingIsRest, Between
    <3>2. PICK good \in {TRUE} \cup {writer = None} :
            snapshots' = [snapshots EXCEPT ![Name(p)] =
                            [readable |-> good, main |-> main, log |-> snapshots[Name(p)].log]]
      BY <2>3 DEF CopyFile
    <3>3. [readable |-> good, main |-> main, log |-> snapshots[Name(p)].log] \in Copies
      BY <1>0, <3>1 DEF TypeOK, Copies
    <3>4. snapshots' \in [Versions -> Copies]
      BY <1>0, <3>1, <3>2, <3>3 DEF TypeOK
    <3> QED BY <1>0, <2>0, <2>3, <3>4 DEF CopyFile, TypeOK
  <2>4. CASE CopyLog(p)
    <3>1. Name(p) \in Versions
      BY <2>4, PendingMin DEF CopyLog, PendingIsRest, Between
    <3>2. [base |-> main, top |-> db, there |-> TRUE] \in Logs
      BY <1>0 DEF TypeOK, Logs
    <3>3. [snapshots[Name(p)] EXCEPT !.log = [base |-> main, top |-> db, there |-> TRUE]] \in Copies
      BY <1>0, <3>1, <3>2 DEF TypeOK, Copies
    <3>4. snapshots' \in [Versions -> Copies]
      BY <1>0, <2>4, <3>1, <3>3 DEF CopyLog, TypeOK
    <3> QED BY <1>0, <2>0, <2>4, <3>4 DEF CopyLog, TypeOK
  <2>5. CASE Reopen(p)
    <3>1. before' \in [Versions -> Contents]
      BY <1>0, <2>5 DEF Reopen, TypeOK
    <3> QED BY <1>0, <2>0, <2>5, <3>1, OpenRaces DEF Reopen, OpenToWrite, CanWrite, TypeOK
  <2>6. CASE ReopenFails(p)
    BY <1>0, <2>0, <2>6 DEF ReopenFails, TypeOK
  <2>7. CASE Apply(p)
    <3>1. db' \in Contents
      BY <2>7, ApplyIsNext
    <3>2. wal' = TRUE
      BY <2>7 DEF Apply, Commit
    <3>3. pending' \in [Migrators -> SUBSET Versions]
      BY <1>0, <2>7 DEF Apply, TypeOK
    <3> QED BY <1>0, <2>7, <3>1, <3>2, <3>3 DEF Apply, TypeOK
  <2>8. CASE ApplyFails(p)
    BY <1>0, <2>0, <2>8 DEF ApplyFails, CloseWriter, TypeOK
  <2>9. CASE Applied(p)
    BY <1>0, <2>0, <2>9 DEF Applied, CloseWriter, TypeOK
  <2>10. CASE Write(p)
    <3>0. db.writes < MaxWrites /\ db \in Contents
      BY <1>0, <2>10 DEF Write, TypeOK
    <3>1. db.writes + 1 \in 0 .. MaxWrites
      BY <1>0, <3>0, DbParts
    <3>2. db' = [db EXCEPT !.writes = db.writes + 1] /\ wal' = TRUE
      BY <2>10 DEF Write, Commit
    <3>3. db' \in Contents
      BY <3>0, <3>1, <3>2 DEF Contents
    <3> QED BY <1>0, <2>0, <2>10, <3>2, <3>3, OpenRaces DEF Write, OpenToWrite, CanWrite, TypeOK
  <2>11. CASE Written(p)
    BY <1>0, <2>0, <2>11 DEF Written, CloseWriter, TypeOK
  <2>12. CASE Leave(p)
    BY <1>0, <2>0, <2>12 DEF Leave, TypeOK
  <2> QED BY <1>2, <2>1, <2>2, <2>3, <2>4, <2>5, <2>6, <2>7, <2>8, <2>9, <2>10, <2>11, <2>12
          DEF MigratorStep
<1>3. ASSUME NEW s \in Servers, ServerStep(s) PROVE TypeOK'
  BY <1>0, <1>3 DEF ServerStep, Serve, Query, Answer, CanRead, TypeOK, Processes
<1>4. ASSUME NEW p \in Processes, Crash(p) PROVE TypeOK'
  BY <1>0, <1>4 DEF Crash, TypeOK
<1>5. CASE Deploy
  BY <1>0, <1>5 DEF Deploy, TypeOK
<1> QED BY <1>1, <1>2, <1>3, <1>4, <1>5 DEF Next

\* Every open and every close takes its process where it should.
LEMMA WriterStep == Basics /\ [Next]_vars => WriterWrites'
<1> SUFFICES ASSUME Basics, [Next]_vars, NEW p \in Migrators
             PROVE  pc'[p] \in {"check", "apply", "write"} <=> writer' = p
  BY DEF WriterWrites
<1> USE DEF Basics, WriterWrites, TypeOK, Goto, Processes
<1>1. CASE UNCHANGED vars
  BY <1>1 DEF vars
<1>2. ASSUME NEW q \in Migrators,
             Check(q) \/ Reopen(q) \/ Write(q)
      PROVE  pc'[p] \in {"check", "apply", "write"} <=> writer' = p
  BY <1>2 DEF Check, Reopen, Write, OpenToWrite, CanWrite
<1>3. ASSUME NEW q \in Migrators,
             Checked(q) \/ ApplyFails(q) \/ Applied(q) \/ Written(q)
      PROVE  pc'[p] \in {"check", "apply", "write"} <=> writer' = p
  BY <1>3 DEF Checked, ApplyFails, Applied, Written, CloseWriter
<1>4. ASSUME NEW q \in Migrators,
             CopyFile(q) \/ CopyLog(q) \/ ReopenFails(q) \/ Apply(q) \/ Leave(q)
      PROVE  pc'[p] \in {"check", "apply", "write"} <=> writer' = p
  BY <1>4 DEF CopyFile, CopyLog, ReopenFails, Apply, Leave
<1>5. ASSUME NEW s \in Servers, ServerStep(s)
      PROVE  pc'[p] \in {"check", "apply", "write"} <=> writer' = p
  BY <1>5 DEF ServerStep, Serve, Query, Answer
<1>6. ASSUME NEW q \in Processes, Crash(q)
      PROVE  pc'[p] \in {"check", "apply", "write"} <=> writer' = p
  BY <1>6 DEF Crash
<1>7. CASE Deploy
  BY <1>7 DEF Deploy
<1> QED BY <1>1, <1>2, <1>3, <1>4, <1>5, <1>6, <1>7 DEF Next, MigratorStep

\* Only Apply touches what is applied, and it only adds.
LEMMA AppliedGrows ==
  ASSUME Basics, [Next]_vars
  PROVE  /\ \/ db'.applied = db.applied /\ db'.schema = db.schema
            \/ \E p \in Migrators : Apply(p)
         /\ \A v \in Versions : db.applied[v] # None => db'.applied[v] # None
<1> USE DEF Basics
<1>0. db \in Contents
  BY DEF TypeOK
<1>1. ASSUME NEW p \in Migrators, Apply(p)
      PROVE  \A v \in Versions : db.applied[v] # None => db'.applied[v] # None
  BY <1>1, ApplyIsNext, DbParts
<1>2. ASSUME NEW p \in Migrators, Check(p)
      PROVE  db'.applied = db.applied /\ db'.schema = db.schema
  BY <1>0, <1>2 DEF Check, Commit, Contents
<1>3. ASSUME NEW p \in Migrators, Write(p)
      PROVE  db'.applied = db.applied /\ db'.schema = db.schema
  BY <1>0, <1>3 DEF Write, Commit, Contents
<1>4. ASSUME db' = db
      PROVE  db'.applied = db.applied /\ db'.schema = db.schema
  BY <1>4
<1> QED
  BY <1>1, <1>2, <1>3, <1>4 DEF Next, MigratorStep, ServerStep, vars, Checked, CopyFile, CopyLog,
     Reopen, ReopenFails, ApplyFails, Applied, Written, Leave, Serve, Query, Answer, Crash, Deploy

\* Pending migrations are worked off from the first on.
LEMMA PendingStep == Basics /\ [Next]_vars => PendingIsRest'
<1> DEFINE Rest(p) ==
      /\ pc'[p] \in {"copy file", "copy log", "reopen", "apply"} =>
           /\ pending'[p] \subseteq DOMAIN release'
           /\ \A v \in DOMAIN release' \ pending'[p] : db'.applied[v] # None
      /\ pc'[p] \in {"copy file", "copy log", "reopen"} => pending'[p] # {}
<1> SUFFICES ASSUME Basics, [Next]_vars, NEW p \in Migrators PROVE Rest(p)
  BY DEF PendingIsRest, Between
<1> USE DEF Basics, Goto, Processes
<1>0. pc \in [Processes -> {"down", "check", "copy file", "copy log", "reopen", "apply", "sync",
                            "write", "serve", "query"}]
      /\ pending \in [Migrators -> SUBSET Versions] /\ release \in Releases
  BY DEF TypeOK
<1>a. DOMAIN release \subseteq Versions
  BY <1>0, ReleaseType
<1>1. CASE release' = release /\ pending'[p] = pending[p] /\ pc'[p] = pc[p]
  BY <1>1, <1>a, AppliedGrows DEF PendingIsRest, Between
<1>2. CASE pc'[p] \in {"down", "check", "sync", "write"}
  BY <1>2
<1>3. CASE Checked(p)
  <2>1. pc'[p] = "copy file" => pending'[p] = Unapplied /\ Unapplied # {}
    BY <1>0, <1>3 DEF Checked
  <2>2. pc'[p] \in {"copy file", "down", "sync"}
    BY <1>0, <1>3 DEF Checked
  <2> QED BY <1>2, <1>3, <2>1, <2>2 DEF Checked, Unapplied
<1>4. CASE CopyFile(p) \/ CopyLog(p) \/ Reopen(p)
  BY <1>0, <1>4 DEF CopyFile, CopyLog, Reopen, PendingIsRest, Between
<1>5. CASE Apply(p)
  <2>1. pc' = pc /\ release' = release /\ pending'[p] = pending[p] \ {Name(p)} /\ pc[p] = "apply"
    BY <1>0, <1>5 DEF Apply, Name
  <2>2. db'.applied[Name(p)] # None
    BY <1>5, ApplyIsNext
  <2>3. \A v \in DOMAIN release \ pending'[p] : db'.applied[v] # None
    BY <1>a, <2>1, <2>2, AppliedGrows DEF PendingIsRest
  <2> QED BY <2>1, <2>3 DEF PendingIsRest
<1>6. CASE Deploy
  BY <1>6, <1>2 DEF Deploy
<1>7. CASE UNCHANGED vars
  BY <1>1, <1>7 DEF vars
<1>8. CASE \/ Check(p) \/ ReopenFails(p) \/ ApplyFails(p) \/ Applied(p)
           \/ Write(p) \/ Written(p) \/ Leave(p)
  BY <1>0, <1>2, <1>8 DEF Check, ReopenFails, ApplyFails, Applied, Write, Written, Leave
<1>9. ASSUME NEW q \in Migrators \ {p}, MigratorStep(q) PROVE Rest(p)
  <2>1. pc'[p] = pc[p] /\ pending'[p] = pending[p] /\ release' = release
    BY <1>0, <1>9 DEF MigratorStep, Check, Checked, CopyFile, CopyLog, Reopen, ReopenFails, Apply,
       ApplyFails, Applied, Write, Written, Leave
  <2> QED BY <1>1, <2>1
<1>10. ASSUME NEW s \in Servers, ServerStep(s) PROVE Rest(p)
  <2>1. pc'[p] = pc[p] /\ pending'[p] = pending[p] /\ release' = release
    BY <1>0, <1>10 DEF ServerStep, Serve, Query, Answer
  <2> QED BY <1>1, <2>1
<1>11. ASSUME NEW q \in Processes, Crash(q) PROVE Rest(p)
  <2>1. CASE q = p
    BY <1>0, <1>2, <1>11, <2>1 DEF Crash
  <2>2. CASE q # p
    BY <1>0, <1>1, <1>11, <2>2 DEF Crash
  <2> QED BY <2>1, <2>2
<1> HIDE DEF Rest
<1> QED BY <1>3, <1>4, <1>5, <1>6, <1>7, <1>8, <1>9, <1>10, <1>11 DEF Next, MigratorStep

\* SQL and row of a migration are one transaction, in order.
LEMMA SchemaStep == Basics /\ [Next]_vars => SchemaIsApplied'
<1> SUFFICES ASSUME Basics, [Next]_vars PROVE SchemaIsApplied'
  OBVIOUS
<1> USE DEF Basics
<1>1. CASE db'.applied = db.applied /\ db'.schema = db.schema
  BY <1>1 DEF SchemaIsApplied
<1>2. ASSUME NEW p \in Migrators, Apply(p) PROVE SchemaIsApplied'
  <2> DEFINE v == Name(p)
  <2>1. /\ v \in Versions /\ db.applied[v] = None
        /\ db'.applied = [db.applied EXCEPT ![v] = release[v]]
        /\ db'.schema = Append(db.schema, release[v]) /\ Len(db.schema) = v - 1
    BY <1>2, ApplyIsNext
  <2>2. db.applied \in [Versions -> Shas \cup {None}]
    BY DbParts
  <2>3. db.schema \in Seq(Shas) /\ DOMAIN db.schema = 1 .. v - 1
    <3>1. PICK n \in 0 .. NVersions : db.schema \in [1 .. n -> Shas]
      BY DbParts
    <3> QED BY <2>1, <3>1
  <2>4. DOMAIN db'.schema = 1 .. v
    BY <2>1, <2>3 DEF Versions
  <2> SUFFICES ASSUME NEW u \in Versions
               PROVE  db'.applied[u] = (IF u \in DOMAIN db'.schema THEN db'.schema[u] ELSE None)
    BY DEF SchemaIsApplied
  <2>5. CASE u = v
    BY <2>1, <2>2, <2>3, <2>4, <2>5 DEF Versions
  <2>6. CASE u # v
    <3>1. db'.applied[u] = db.applied[u]
      BY <2>1, <2>2, <2>6
    <3>2. u \in DOMAIN db'.schema <=> u \in DOMAIN db.schema
      BY <2>1, <2>3, <2>4, <2>6 DEF Versions
    <3>3. u \in DOMAIN db.schema => db'.schema[u] = db.schema[u]
      BY <2>1, <2>3 DEF Versions
    <3> QED BY <3>1, <3>2, <3>3 DEF SchemaIsApplied
  <2> QED BY <2>5, <2>6
<1> QED BY <1>1, <1>2, AppliedGrows

\* The basic part of the invariant, to begin with.
LEMMA BasicsInit == Init => Basics
BY TypeInit DEF Init, Basics, WriterWrites, PendingIsRest, Between, SchemaIsApplied, Fresh,
   Processes

\* The basic part of the invariant, from step to step.
LEMMA BasicsStep == Basics /\ [Next]_vars => Basics'
BY TypeStep, WriterStep, PendingStep, SchemaStep DEF Basics

-------------------------------------------------------------------------------
(* What servers see *)

\* Nothing is left to apply while a server has found its release applied.
LEMMA ServedStep == Basics /\ ServedIsMigrated /\ [Next]_vars => ServedIsMigrated'
<1> DEFINE Same(s) == \A v \in Versions :
                        db'.applied[v] = (IF v \in DOMAIN release' THEN release'[v] ELSE None)
<1> SUFFICES ASSUME Basics, ServedIsMigrated, [Next]_vars,
                    NEW s \in Servers, pc'[s] \in {"serve", "query"}
             PROVE  Same(s)
  BY DEF ServedIsMigrated, Known
<1> USE DEF Basics, Goto, Processes
<1>0. /\ pc \in [Processes -> {"down", "check", "copy file", "copy log", "reopen", "apply", "sync",
                               "write", "serve", "query"}]
      /\ release \in Releases
  BY DEF TypeOK
<1>1. CASE pc[s] \in {"serve", "query"} /\ release' = release
  <2>1. \A v \in Versions :
          db.applied[v] = (IF v \in DOMAIN release THEN release[v] ELSE None)
    BY <1>1 DEF ServedIsMigrated, Known
  <2>2. \A p \in Migrators : ~Apply(p)
    <3> SUFFICES ASSUME NEW p \in Migrators, Apply(p) PROVE FALSE
      OBVIOUS
    <3>1. Name(p) \in Versions /\ Name(p) \in DOMAIN release /\ db.applied[Name(p)] = None
      BY ApplyIsNext
    <3> QED BY <1>0, <2>1, <3>1, ReleaseType
  <2> QED BY <1>1, <2>1, <2>2, AppliedGrows
<1>2. CASE Serve(s)
  <2>1. Intact /\ Unapplied = {} /\ db' = db /\ release' = release
    BY <1>2 DEF Serve, Migrated
  <2> SUFFICES ASSUME NEW v \in Versions
               PROVE  db.applied[v] = (IF v \in DOMAIN release THEN release[v] ELSE None)
    BY <2>1
  <2>2. CASE v \in DOMAIN release
    BY <2>1, <2>2 DEF Unapplied, Intact
  <2>3. CASE v \notin DOMAIN release
    BY <2>1, <2>3 DEF Intact, Known
  <2> QED BY <2>2, <2>3
<1>3. ASSUME NEW p \in Migrators, MigratorStep(p) PROVE Same(s)
  <2>1. pc'[s] = pc[s] /\ release' = release
    BY <1>0, <1>3 DEF MigratorStep, Check, Checked, CopyFile, CopyLog, Reopen, ReopenFails, Apply,
       ApplyFails, Applied, Write, Written, Leave
  <2> QED BY <1>1, <2>1
<1>4. ASSUME NEW t \in Servers, ServerStep(t) PROVE Same(s)
  <2>1. release' = release /\ (Serve(s) \/ pc[s] \in {"serve", "query"})
    BY <1>0, <1>4 DEF ServerStep, Serve, Query, Answer
  <2> QED BY <1>1, <1>2, <2>1
<1>5. ASSUME NEW p \in Processes, Crash(p) PROVE Same(s)
  <2>1. pc[s] = pc'[s] /\ release' = release
    BY <1>0, <1>5 DEF Crash
  <2> QED BY <1>1, <2>1
<1>6. CASE Deploy
  BY <1>0, <1>6 DEF Deploy
<1>7. CASE UNCHANGED vars
  BY <1>1, <1>7 DEF vars
<1> HIDE DEF Same
<1> QED BY <1>3, <1>4, <1>5, <1>6, <1>7 DEF Next

-------------------------------------------------------------------------------
(* What snapshots hold *)

\* Whoever disturbs the quiet leaves a raced version behind.
LEMMA QuietStep == IInv /\ [Next]_vars => Quiet'
<1> DEFINE Calm(p) == writer' = None /\ ~wal' /\ db'.applied[Name(p)'] = None
<1> SUFFICES ASSUME IInv, [Next]_vars, NEW p \in Migrators,
                    pc'[p] \in {"copy file", "copy log", "reopen"}, Name(p)' \notin raced'
             PROVE  Calm(p)
  BY DEF Quiet, Between
<1> USE DEF IInv, Basics, Goto, Processes
<1>0. /\ pc \in [Processes -> {"down", "check", "copy file", "copy log", "reopen", "apply", "sync",
                               "write", "serve", "query"}]
      /\ pending \in [Migrators -> SUBSET Versions]
      /\ None \notin Migrators
  BY DEF TypeOK
<1>a. release \in Releases
  BY DEF TypeOK
<1>1. CASE Between(p) /\ pending'[p] = pending[p] /\ raced' = raced
           /\ UNCHANGED <<writer, wal, db>>
  BY <1>1 DEF Quiet, Name
<1>2. ASSUME NEW q \in Migrators, Check(q) \/ Reopen(q) \/ Write(q) PROVE Calm(p)
  <2>1. q # p /\ Between(p) /\ pending'[p] = pending[p]
    BY <1>0, <1>2 DEF Check, Reopen, Write, Between
  <2>2. OpenToWrite(q)
    BY <1>2 DEF Check, Reopen, Write
  <2> QED BY <2>1, <2>2, OpenRaces DEF Name
<1>3. ASSUME NEW q \in Migrators,
             Checked(q) \/ ApplyFails(q) \/ Applied(q) \/ Written(q)
      PROVE  Calm(p)
  <2>1. writer' = None /\ wal' = FALSE /\ db' = db /\ raced' = raced
    BY <1>3 DEF Checked, ApplyFails, Applied, Written, CloseWriter
  <2>2. CASE q = p
    <3>1. pending'[p] = Unapplied /\ Unapplied # {}
      BY <1>0, <1>3, <2>2 DEF Checked, ApplyFails, Applied, Written
    <3>2. Unapplied \in SUBSET Nat
      <4>1. Unapplied \subseteq Versions
        BY <1>a, ReleaseType DEF Unapplied
      <4> QED BY <4>1, VersionsNat
    <3>3. Name(p)' \in Unapplied
      BY <3>1, <3>2, MinIsLeast DEF Name
    <3> QED BY <2>1, <3>3 DEF Unapplied
  <2>3. CASE q # p
    <3>1. Between(p) /\ pending'[p] = pending[p]
      BY <1>0, <1>3, <2>3 DEF Checked, ApplyFails, Applied, Written, Between
    <3> QED BY <2>1, <3>1 DEF Quiet, Name
  <2> QED BY <2>2, <2>3
<1>4. ASSUME NEW q \in Migrators, CopyFile(q) \/ CopyLog(q) \/ ReopenFails(q) \/ Leave(q)
      PROVE  Calm(p)
  BY <1>0, <1>1, <1>4 DEF CopyFile, CopyLog, ReopenFails, Leave, Between
<1>5. ASSUME NEW q \in Migrators, Apply(q) PROVE Calm(p)
  <2>1. q # p /\ Between(p) /\ pending'[p] = pending[p] /\ raced' = raced /\ writer = q
    BY <1>0, <1>5 DEF Apply, Between, WriterWrites
  <2> QED BY <1>0, <2>1 DEF Quiet, Name
<1>6. ASSUME NEW s \in Servers, ServerStep(s) PROVE Calm(p)
  BY <1>0, <1>1, <1>6 DEF ServerStep, Serve, Query, Answer, Between
<1>7. ASSUME NEW q \in Processes, Crash(q) PROVE Calm(p)
  <2>1. q # p /\ Between(p) /\ pending'[p] = pending[p] /\ raced' = raced
        /\ wal' = wal /\ db' = db /\ writer' \in {writer, None}
    BY <1>0, <1>7 DEF Crash, Between
  <2> QED BY <2>1 DEF Quiet, Name
<1>8. CASE Deploy
  BY <1>0, <1>8 DEF Deploy
<1>9. CASE UNCHANGED vars
  BY <1>1, <1>9 DEF vars, Between
<1> HIDE DEF Calm
<1> QED BY <1>2, <1>3, <1>4, <1>5, <1>6, <1>7, <1>8, <1>9 DEF Next, MigratorStep

\* A copy that is made while all is quiet is the database.
LEMMA CopyIsDb ==
  ASSUME IInv, NEW p \in Migrators, CopyFile(p)
  PROVE  /\ Name(p) \in Versions
         /\ Name(p) \notin raced =>
              snapshots'[Name(p)].readable /\ snapshots'[Name(p)].main = db
         /\ snapshots'[Name(p)].log = snapshots[Name(p)].log
         /\ \A v \in Versions \ {Name(p)} : snapshots'[v] = snapshots[v]
<1> USE DEF IInv, Basics
<1>1. pc[p] = "copy file" /\ Between(p)
  BY DEF CopyFile, Between
<1>2. Name(p) \in Versions
  BY <1>1, PendingMin DEF PendingIsRest
<1>3. snapshots \in [Versions -> Copies]
  BY DEF TypeOK
<1>4. PICK good \in {TRUE} \cup {writer = None} :
        snapshots' = [snapshots EXCEPT ![Name(p)] =
                        [readable |-> good, main |-> main, log |-> snapshots[Name(p)].log]]
  BY DEF CopyFile
<1>5. snapshots'[Name(p)].main = main /\ snapshots'[Name(p)].readable = good
      /\ snapshots'[Name(p)].log = snapshots[Name(p)].log
      /\ \A v \in Versions \ {Name(p)} : snapshots'[v] = snapshots[v]
  BY <1>2, <1>3, <1>4
<1>6. Name(p) \notin raced => good /\ main = db
  BY <1>1 DEF Quiet, TypeOK
<1> QED BY <1>2, <1>5, <1>6

\* A log is copied only where somebody writes.
LEMMA NoLogStep == IInv /\ [Next]_vars => NoLogCopied'
<1> SUFFICES ASSUME IInv, [Next]_vars, NEW v \in Versions \ raced'
             PROVE  ~snapshots'[v].log.there
  BY DEF NoLogCopied
<1> USE DEF IInv, Basics
<1>0. snapshots \in [Versions -> Copies] /\ v \in Versions
  BY DEF TypeOK
<1>1. CASE snapshots' = snapshots /\ raced' = raced
  BY <1>1 DEF NoLogCopied
<1>2. ASSUME NEW p \in Migrators, Check(p) \/ Reopen(p) \/ Write(p)
      PROVE  ~snapshots'[v].log.there
  <2>1. snapshots' = snapshots /\ raced \subseteq raced'
    BY <1>2, OpenRaces DEF Check, Reopen, Write
  <2> QED BY <2>1 DEF NoLogCopied
<1>3. ASSUME NEW p \in Migrators, CopyFile(p) PROVE ~snapshots'[v].log.there
  <2>1. raced' = raced
    BY <1>3 DEF CopyFile
  <2>2. snapshots'[v].log = snapshots[v].log
    BY <1>0, <1>3, CopyIsDb
  <2> QED BY <2>1, <2>2 DEF NoLogCopied
<1>4. ASSUME NEW p \in Migrators, CopyLog(p) PROVE ~snapshots'[v].log.there
  <2>1. raced' = raced
    BY <1>4 DEF CopyLog
  <2>2. CASE v = Name(p)
    BY <1>1, <1>4, <2>1, <2>2 DEF CopyLog, Quiet, Between
  <2>3. CASE v # Name(p)
    <3>1. snapshots'[v] = snapshots[v]
      BY <1>0, <1>4, <2>3 DEF CopyLog
    <3> QED BY <2>1, <3>1 DEF NoLogCopied
  <2> QED BY <2>2, <2>3
<1> QED
  BY <1>1, <1>2, <1>3, <1>4 DEF Next, MigratorStep, ServerStep, vars, Checked, ReopenFails, Apply,
     ApplyFails, Applied, Written, Leave, Serve, Query, Answer, Crash, Deploy

\* The database does not change under a fresh copy, or the version is raced.
LEMMA CopiedStep == IInv /\ [Next]_vars => Copied'
<1> DEFINE Good(p) == snapshots'[Name(p)'].readable /\ snapshots'[Name(p)'].main = db'
<1> SUFFICES ASSUME IInv, [Next]_vars, NEW p \in Migrators,
                    pc'[p] \in {"copy log", "reopen"}, Name(p)' \notin raced'
             PROVE  Good(p)
  BY DEF Copied, Holds
<1> USE DEF IInv, Basics, Goto, Processes
<1>0. /\ pc \in [Processes -> {"down", "check", "copy file", "copy log", "reopen", "apply", "sync",
                               "write", "serve", "query"}]
      /\ pending \in [Migrators -> SUBSET Versions]
      /\ None \notin Migrators
  BY DEF TypeOK
<1>1. CASE /\ pc[p] \in {"copy log", "reopen"} /\ pending'[p] = pending[p] /\ raced' = raced
           /\ UNCHANGED <<snapshots, db>>
  BY <1>1 DEF Copied, Holds, Name
<1>2. ASSUME NEW q \in Migrators, Check(q) \/ Reopen(q) \/ Write(q) PROVE Good(p)
  <2>1. q # p /\ Between(p) /\ pending'[p] = pending[p]
    BY <1>0, <1>2 DEF Check, Reopen, Write, Between
  <2>2. OpenToWrite(q)
    BY <1>2 DEF Check, Reopen, Write
  <2> QED BY <2>1, <2>2, OpenRaces DEF Name
<1>3. ASSUME NEW q \in Migrators,
             Checked(q) \/ ApplyFails(q) \/ Applied(q) \/ Written(q) \/ Leave(q) \/ ReopenFails(q)
      PROVE  Good(p)
  <2>1. q # p
    BY <1>0, <1>3 DEF Checked, ApplyFails, Applied, Written, Leave, ReopenFails
  <2> QED BY <1>0, <1>1, <1>3, <2>1 DEF Checked, ApplyFails, Applied, Written, Leave, ReopenFails
<1>4. ASSUME NEW q \in Migrators, CopyFile(q) PROVE Good(p)
  <2>1. Name(p)' = Name(p) /\ Name(q)' = Name(q) /\ raced' = raced /\ db' = db
    BY <1>4 DEF CopyFile, Name
  <2>2. CASE Name(p) = Name(q)
    BY <1>4, <2>1, <2>2, CopyIsDb
  <2>3. CASE Name(p) # Name(q)
    <3>1. pc[p] \in {"copy log", "reopen"}
      BY <1>0, <1>4, <2>3 DEF CopyFile
    <3>2. Name(p) \in Versions
      BY <3>1, PendingMin DEF PendingIsRest, Between
    <3>3. snapshots'[Name(p)] = snapshots[Name(p)]
      BY <1>4, <2>3, <3>2, CopyIsDb
    <3> QED BY <2>1, <3>1, <3>3 DEF Copied, Holds
  <2> QED BY <2>2, <2>3
<1>5. ASSUME NEW q \in Migrators, CopyLog(q) PROVE Good(p)
  <2>1. pc[p] \in {"copy log", "reopen"} /\ Name(p)' = Name(p) /\ raced' = raced /\ db' = db
    BY <1>0, <1>5 DEF CopyLog, Name
  <2>2. ~wal
    BY <2>1 DEF Quiet, Between
  <2>3. snapshots' = snapshots
    BY <1>5, <2>2 DEF CopyLog
  <2> QED BY <2>1, <2>3 DEF Copied, Holds
<1>6. ASSUME NEW q \in Migrators, Apply(q) PROVE Good(p)
  <2>1. q # p /\ Between(p) /\ pending'[p] = pending[p] /\ raced' = raced /\ writer = q
    BY <1>0, <1>6 DEF Apply, Between, WriterWrites
  <2> QED BY <1>0, <2>1 DEF Quiet, Name
<1>7. ASSUME NEW s \in Servers, ServerStep(s) PROVE Good(p)
  BY <1>0, <1>1, <1>7 DEF ServerStep, Serve, Query, Answer
<1>8. ASSUME NEW q \in Processes, Crash(q) PROVE Good(p)
  <2>1. q # p
    BY <1>0, <1>8 DEF Crash
  <2> QED BY <1>0, <1>1, <1>8, <2>1 DEF Crash
<1>9. CASE Deploy
  BY <1>0, <1>9 DEF Deploy
<1>10. CASE UNCHANGED vars
  BY <1>1, <1>10 DEF vars
<1> HIDE DEF Good
<1> QED BY <1>2, <1>3, <1>4, <1>5, <1>6, <1>7, <1>8, <1>9, <1>10 DEF Next, MigratorStep

\* What comes before a batch is applied, and stays so.
LEMMA PriorStep == IInv /\ [Next]_vars => PriorApplied'
<1> SUFFICES ASSUME IInv, [Next]_vars, NEW v \in Versions, before'[v] # Fresh,
                    NEW u \in Versions, u < v
             PROVE  db'.applied[u] # None
  BY DEF PriorApplied
<1> USE DEF IInv, Basics
<1>1. CASE before'[v] = before[v]
  BY <1>1, AppliedGrows DEF PriorApplied
<1>2. ASSUME NEW p \in Migrators, Reopen(p), before'[v] # before[v] PROVE db'.applied[u] # None
  <2>1. pc[p] = "reopen" /\ v = Name(p)
    BY <1>2 DEF Reopen, Name, TypeOK
  <2>2. Between(p) /\ pending[p] # {} /\ pending[p] \subseteq DOMAIN release
    BY <2>1 DEF Between, PendingIsRest
  <2>3. v \in DOMAIN release /\ u \notin pending[p]
    BY <2>1, <2>2, PendingMin DEF Versions
  <2>4. u \in DOMAIN release
    <3>1. PICK n \in Versions : DOMAIN release = 1 .. n
      BY ReleaseType DEF TypeOK
    <3> QED BY <2>3, <3>1 DEF Versions
  <2> QED BY <2>2, <2>3, <2>4, AppliedGrows DEF PendingIsRest
<1> QED
  BY <1>1, <1>2 DEF Next, MigratorStep, ServerStep, vars, Check, Checked, CopyFile, CopyLog,
     ReopenFails, Apply, ApplyFails, Applied, Write, Written, Leave, Serve, Query, Answer, Crash,
     Deploy

\* A snapshot is not replaced once its batch has begun.
LEMMA KeptStep == IInv /\ [Next]_vars => Kept'
<1> DEFINE Good(v) == snapshots'[v].readable /\ snapshots'[v].main = before'[v]
<1> SUFFICES ASSUME IInv, [Next]_vars, NEW v \in Versions \ raced', before'[v] # Fresh,
                    db'.applied[v] # None \/ Due(v)'
             PROVE  Good(v)
  BY DEF Kept, Holds
<1> USE DEF IInv, Basics, Goto, Processes
<1>0. /\ pc \in [Processes -> {"down", "check", "copy file", "copy log", "reopen", "apply", "sync",
                               "write", "serve", "query"}]
      /\ pending \in [Migrators -> SUBSET Versions]
      /\ None \notin Migrators
      /\ v \in Versions
  BY DEF TypeOK
<1>1. CASE /\ UNCHANGED <<snapshots, before, db>>
           /\ v \notin raced
           /\ Due(v)' => Due(v)
  BY <1>1 DEF Kept, Holds
<1>2. ASSUME NEW q \in Migrators, Check(q) \/ Write(q) PROVE Good(v)
  <2>1. v \notin raced
    BY <1>2, OpenRaces DEF Check, Write
  <2>2. Due(v)' => Due(v)
    BY <1>0, <1>2 DEF Check, Write, Due, Name
  <2>3. snapshots' = snapshots /\ before' = before /\ db'.applied = db.applied
    BY <1>2, DbParts DEF Check, Write, Commit, TypeOK, Contents
  <2> QED BY <2>1, <2>2, <2>3 DEF Kept, Holds
<1>3. ASSUME NEW q \in Migrators,
             Checked(q) \/ ApplyFails(q) \/ Applied(q) \/ Written(q) \/ Leave(q) \/ ReopenFails(q)
      PROVE  Good(v)
  <2>1. Due(v)' => Due(v)
    BY <1>0, <1>3 DEF Checked, ApplyFails, Applied, Written, Leave, ReopenFails, Due, Name
  <2>2. UNCHANGED <<snapshots, before, db, raced>>
    BY <1>3 DEF Checked, ApplyFails, Applied, Written, Leave, ReopenFails
  <2> QED BY <1>1, <2>1, <2>2
<1>4. ASSUME NEW q \in Migrators, CopyFile(q) PROVE Good(v)
  <2>1. UNCHANGED <<before, db, raced>> /\ v \notin raced /\ (Due(v)' => Due(v))
    BY <1>0, <1>4 DEF CopyFile, Due, Name
  <2>2. CASE v # Name(q)
    <3>1. snapshots'[v] = snapshots[v]
      BY <1>0, <1>4, <2>2, CopyIsDb
    <3> QED BY <2>1, <3>1 DEF Kept, Holds
  <2>3. CASE v = Name(q)
    <3>1. writer = None /\ db.applied[v] = None
      BY <1>4, <2>1, <2>3 DEF CopyFile, Quiet, Between
    <3>2. ~Due(v)
      BY <1>0, <3>1 DEF Due, WriterWrites
    <3> QED BY <2>1, <3>1, <3>2
  <2> QED BY <2>2, <2>3
<1>5. ASSUME NEW q \in Migrators, CopyLog(q) PROVE Good(v)
  <2>1. UNCHANGED <<before, db, raced>> /\ v \notin raced /\ (Due(v)' => Due(v))
    BY <1>0, <1>5 DEF CopyLog, Due, Name
  <2>2. snapshots'[v] = snapshots[v]
    <3>1. CASE v = Name(q)
      BY <1>5, <2>1, <3>1 DEF CopyLog, Quiet, Between
    <3>2. CASE v # Name(q)
      BY <1>0, <1>5, <3>2 DEF CopyLog, TypeOK
    <3> QED BY <3>1, <3>2
  <2> QED BY <2>1, <2>2 DEF Kept, Holds
<1>6. ASSUME NEW q \in Migrators, Reopen(q) PROVE Good(v)
  <2>1. v \notin raced /\ db' = db /\ snapshots' = snapshots /\ pending' = pending
    BY <1>6, OpenRaces DEF Reopen
  <2>2. CASE v = Name(q)
    <3>1. Holds(v, db)
      BY <1>6, <2>1, <2>2 DEF Copied, Reopen
    <3>2. db.applied[v] = None
      BY <1>6, <2>1, <2>2 DEF Quiet, Reopen, Between
    <3>3. before'[v] = db
      BY <1>0, <1>6, <2>2, <3>2 DEF Reopen, Name, TypeOK
    <3> QED BY <2>1, <3>1, <3>3 DEF Holds
  <2>3. CASE v # Name(q)
    <3>1. before'[v] = before[v]
      BY <1>0, <1>6, <2>3 DEF Reopen, Name, TypeOK
    <3>2. Due(v)' => Due(v)
      BY <1>0, <1>6, <2>1, <2>3 DEF Reopen, Due, Name
    <3> QED BY <2>1, <3>1, <3>2 DEF Kept, Holds
  <2> QED BY <2>2, <2>3
<1>7. ASSUME NEW q \in Migrators, Apply(q) PROVE Good(v)
  <2> DEFINE u == Name(q)
  <2>1. /\ UNCHANGED <<before, snapshots, raced, pc>>
        /\ pending' = [pending EXCEPT ![q] = pending[q] \ {u}]
        /\ pc[q] = "apply" /\ pending[q] # {}
    BY <1>0, <1>7 DEF Apply, Name
  <2>2. Due(u)
    BY <2>1 DEF Due
  <2>3. CASE v = u
    BY <2>1, <2>2, <2>3 DEF Kept, Holds
  <2>4. CASE v # u /\ db'.applied[v] # None
    <3>1. db.applied[v] # None
      BY <1>0, <1>7, <2>4, ApplyIsNext, DbParts
    <3> QED BY <2>1, <3>1 DEF Kept, Holds
  <2>5. CASE v # u /\ Due(v)'
    <3>1. PICK p \in Migrators : pc'[p] = "apply" /\ pending'[p] # {} /\ v = Min(pending'[p])
      BY <2>5 DEF Due, Name
    <3>2. p = q
      BY <2>1, <3>1 DEF WriterWrites
    <3>3. pending'[q] \in SUBSET Versions /\ pending'[q] \subseteq pending[q] /\ u \in Versions
      BY <1>0, <1>7, <2>1, ApplyIsNext
    <3>4. pending'[q] \in SUBSET Nat
      BY <3>3, VersionsNat
    <3>5. v \in pending[q]
      BY <3>1, <3>2, <3>3, <3>4, MinIsLeast
    <3>6. u < v
      <4>1. u <= v
        BY <2>1, <3>5, PendingMin
      <4>2. u \in Nat /\ v \in Nat
        BY <1>0, <3>3, VersionsNat
      <4>3. u # v
        BY <2>5
      <4> HIDE DEF u
      <4> QED BY <4>1, <4>2, <4>3
    <3>7. db.applied[u] # None
      BY <1>0, <2>1, <3>3, <3>6 DEF PriorApplied
    <3> QED BY <1>7, <3>7, ApplyIsNext
  <2> QED BY <2>3, <2>4, <2>5
<1>8. ASSUME NEW s \in Servers, ServerStep(s) PROVE Good(v)
  <2>1. UNCHANGED <<snapshots, before, db, raced>> /\ (Due(v)' => Due(v))
    BY <1>0, <1>8 DEF ServerStep, Serve, Query, Answer, Due, Name
  <2> QED BY <1>1, <2>1
<1>9. ASSUME NEW q \in Processes, Crash(q) PROVE Good(v)
  <2>1. UNCHANGED <<snapshots, before, db, raced>> /\ (Due(v)' => Due(v))
    BY <1>0, <1>9 DEF Crash, Due, Name
  <2> QED BY <1>1, <2>1
<1>10. CASE Deploy
  BY <1>1, <1>10 DEF Deploy, Due, Name
<1>11. CASE UNCHANGED vars
  BY <1>1, <1>11 DEF vars, Due, Name
<1> HIDE DEF Good
<1> QED BY <1>2, <1>3, <1>4, <1>5, <1>6, <1>7, <1>8, <1>9, <1>10, <1>11 DEF Next, MigratorStep

-------------------------------------------------------------------------------
(* Theorems *)

\* The invariant, to begin with.
LEMMA InvInit == Init => IInv
<1> SUFFICES ASSUME Init PROVE IInv
  OBVIOUS
<1>1. pc = [p \in Processes |-> "down"]
  BY DEF Init
<1>2. ServedIsMigrated /\ Quiet /\ Copied
  BY <1>1 DEF ServedIsMigrated, Quiet, Copied, Between, Processes
<1>3. NoLogCopied
  BY FreshType DEF Init, NoLogCopied
<1>4. PriorApplied /\ Kept
  BY DEF Init, PriorApplied, Kept
<1> QED BY <1>2, <1>3, <1>4, BasicsInit DEF IInv

\* The invariant, from step to step.
LEMMA InvStep == IInv /\ [Next]_vars => IInv'
BY BasicsStep, ServedStep, QuietStep, NoLogStep, CopiedStep, PriorStep, KeptStep DEF IInv

\* The parts of the invariant hold together at all times.
THEOREM Invariant == Spec => []IInv
BY InvInit, InvStep, PTL DEF Spec

\* Every variable keeps its type; a file without a log is what is committed, and
\* nobody reads while another writes.
THEOREM TypeCorrect == Spec => []TypeOK
BY Invariant, PTL DEF IInv, Basics

\* schema_migrations says what has been executed, in order and without gaps, with any
\* number of processes in MigrationRunner.run at once.
THEOREM SchemaApplied == Spec => []SchemaIsApplied
BY Invariant, PTL DEF IInv, Basics

\* A server that passed MigrationRunner.verify stays on the schema of its release.
THEOREM ServedMigrated == Spec => []ServedIsMigrated
BY Invariant, PTL DEF IInv

\* The snapshot before a batch of migrations gives back what was there.
THEOREM SnapshotsRestore == Spec => []SnapshotRestores
<1>1. IInv => SnapshotRestores
  <2> SUFFICES ASSUME IInv, NEW v \in Versions \ raced, db.applied[v] # None, before[v] # Fresh
               PROVE  Restored(snapshots[v]) = {before[v]}
    BY DEF SnapshotRestores
  <2>1. snapshots[v].readable /\ snapshots[v].main = before[v] /\ ~snapshots[v].log.there
    BY DEF IInv, Kept, Holds, NoLogCopied
  <2> QED BY <2>1 DEF Restored
<1> QED BY <1>1, Invariant, PTL
===============================================================================
