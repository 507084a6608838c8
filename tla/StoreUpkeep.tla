---- MODULE StoreUpkeep ----
(***************************************************************************)
(* Keeping the document store itself: init, with and without --force       *)
(* (lib/doc-store/lifecycle.mjs), and the migration of the store's format  *)
(* (migration-engine.mjs), beside writers that commit documents. How a     *)
(* commit is journalled and recovered is DocStore's: here it is one step,  *)
(* under the store's lock, on one document. The journal keeps its commits  *)
(* and whether it has a migrate entry. Plans only, dry runs and the other  *)
(* fields of the configuration are left out.                               *)
(***************************************************************************)
EXTENDS Naturals

CONSTANTS
  Sessions,     \* processes that work on the store
  Roots,        \* the managed roots a configuration may name ...
  DefaultRoots, \* ... and the four of a new store, designs to archive
  MaxCommands,  \* bound: inits and migrations
  MaxCommits,   \* bound: commits
  MaxFaults     \* bound: deaths, failing writes, files the user removes or damages

\* What the constants must be; the harness assumes it of its instance.
UpkeepAssumption == DefaultRoots \in Roots /\ "none" \notin Roots \cup Sessions

VARIABLES
  index,    \* INDEX.json: readable or not, format version, the document's revision, roots
  config,   \* store.config.json
  schema,   \* .schema-version, 0 if there is none
  journal,  \* the revisions it has committed entries of, and if it has a migrate entry
  file,     \* the document's artifact: its revision and the format it is written in
  lock,     \* the session that holds .lock
  sess,     \* the sessions
  report,   \* how the last command ended, until anything else happens
  past,     \* history: commits, those made at a bad moment, and entries --force discarded
  used      \* the bounds' counters

store == <<index, config, schema, journal, file>>
vars == <<store, lock, sess, report, past, used>>

Nobody == "none"
OldFormat == 1
Supported == 2
Versions == {OldFormat, Supported}

NoIndex == [st |-> "missing", ver |-> 0, rev |-> 0, roots |-> "none"]
NoConfig == [st |-> "missing", roots |-> "none"]
BootstrapIndex == [st |-> "ok", ver |-> Supported, rev |-> 0, roots |-> DefaultRoots]
Ended == [end |-> "none", before |-> <<>>]
Idle == [pc |-> "idle", mem |-> NoIndex, roots |-> "none", force |-> FALSE, snap |-> <<>>, before |-> <<>>, clean |-> TRUE]

\* The steps of a session: between its reading of the index and its lock or its write,
\* under the lock, and after it.
InitReading == {"look", "read"}
InitWriting == {"index", "config", "schema"}
Reading == {"snapshot", "copy", "migrator", "acquire"}
Locked == {"writeIndex", "logMigrate", "writeSchema", "release", "restoreLocked", "restoreRestLocked", "drop"}
Checking == {"verify", "restore", "restoreRest"}

Readable(i) == i.st = "ok"
Configured == config.st = "ok"
Indexes == [st : {"ok", "missing", "corrupt"}, ver : Versions \cup {0}, rev : 0..MaxCommits, roots : Roots \cup {"none"}]

TypeOK ==
  /\ index \in Indexes
  /\ config \in [st : {"ok", "missing", "corrupt"}, roots : Roots \cup {"none"}]
  /\ schema \in Versions \cup {0}
  /\ journal.revs \subseteq 1..MaxCommits /\ journal.migrated \in BOOLEAN
  /\ file.rev \in 0..MaxCommits /\ file.ver \in Versions
  /\ lock \in Sessions \cup {Nobody}
  /\ \A s \in Sessions :
       /\ sess[s].pc \in {"idle"} \cup InitReading \cup InitWriting \cup Reading \cup Locked \cup Checking
       /\ sess[s].mem \in Indexes
  /\ report.end \in {"none", "initialized", "migrated", "rolledBack"}
  /\ past.committed \subseteq 1..MaxCommits /\ past.unguarded \subseteq past.committed

\* A store in use, of either format; none; or one opened without init, whose index has
\* the roots' old names and which has neither a configuration nor a schema version.
Init ==
  /\ \/ \E v \in Versions, r \in Roots :
          /\ index = [st |-> "ok", ver |-> v, rev |-> 0, roots |-> r]
          /\ config = [st |-> "ok", roots |-> r] /\ schema = v
          /\ file = [rev |-> 0, ver |-> v]
     \/ /\ index \in {NoIndex, [BootstrapIndex EXCEPT !.roots = "none"]}
        /\ config = NoConfig /\ schema = 0 /\ file = [rev |-> 0, ver |-> Supported]
  /\ journal = [revs |-> {}, migrated |-> FALSE]
  /\ lock = Nobody /\ sess = [s \in Sessions |-> Idle] /\ report = Ended
  /\ past = [committed |-> {}, unguarded |-> {}, discarded |-> FALSE]
  /\ used = [commands |-> 0, commits |-> 0, faults |-> 0]

-----------------------------------------------------------------------------
(* Sessions. *)

Alone(s) == \A t \in Sessions \ {s} : sess[t].pc = "idle"

\* Somebody else works on the store while a command does.
Disturbed ==
  [s \in Sessions |-> IF sess[s].pc = "idle" THEN Idle ELSE [sess[s] EXCEPT !.clean = FALSE, !.before = <<>>]]

Begin(s, step) ==
  /\ sess[s].pc = "idle" /\ used.commands < MaxCommands
  /\ sess' = [t \in Sessions |->
       IF t # s THEN Disturbed[t]
       ELSE IF Alone(s) THEN [step EXCEPT !.before = store] ELSE [step EXCEPT !.clean = FALSE]]
  /\ used' = [used EXCEPT !.commands = @ + 1]
  /\ report' = Ended

At(s, pc) == sess[s].pc = pc
Goto(s, pc) == sess' = [sess EXCEPT ![s].pc = pc] /\ UNCHANGED report

End(s, end) ==
  /\ sess' = [sess EXCEPT ![s] = Idle]
  /\ report' = IF sess[s].clean THEN [end |-> end, before |-> sess[s].before] ELSE Ended

Take(s) == lock \in {Nobody, s} /\ lock' = s

-----------------------------------------------------------------------------
(* A writer. *)

\* Some session has read what it will write over the commit, or may still restore what
\* was before it.
Unguarded == \E s \in Sessions : sess[s].pc \in {"index"} \cup Reading \cup Checking

\* runMutation: under the lock, on the index of that moment; dead owners' locks are
\* reaped (PilotFileLock).
Commit ==
  /\ lock = Nobody /\ Readable(index) /\ used.commits < MaxCommits
  /\ LET rev == used.commits + 1 IN
       /\ index' = [index EXCEPT !.rev = rev]
       /\ file' = [rev |-> rev, ver |-> index.ver]
       /\ journal' = [journal EXCEPT !.revs = @ \cup {rev}]
       /\ past' = [past EXCEPT !.committed = @ \cup {rev},
                               !.unguarded = IF Unguarded THEN @ \cup {rev} ELSE @]
  /\ sess' = Disturbed
  /\ report' = Ended
  /\ used' = [used EXCEPT !.commits = @ + 1]
  /\ UNCHANGED <<config, schema, lock>>

-----------------------------------------------------------------------------
(* initStore. *)

Complete == Configured /\ Readable(index) /\ schema # 0

\* Without --force a corrupt index is an error, and a complete store is only examined.
InitBegins(s) ==
  \E force \in BOOLEAN, given \in Roots \cup {"none"} :
    /\ force \/ (index.st # "corrupt" /\ ~Complete)
    /\ Begin(s, [Idle EXCEPT !.pc = "look", !.force = force, !.roots = given])
    /\ UNCHANGED <<store, lock, past>>

\* ensureFreshStore, ensureRepairableStore: a missing index is made, as for a new store.
EnsureStore(s) ==
  /\ At(s, "look") /\ Goto(s, "read")
  /\ index' = IF index.st = "missing" THEN [BootstrapIndex EXCEPT !.roots = "none"] ELSE index
  /\ UNCHANGED <<config, schema, journal, file, lock, past, used>>

\* buildConfigForInit: the roots asked for, or the configuration's, or the index's.
RootsFor(given, of) ==
  IF given # "none" THEN given
  ELSE IF Configured /\ config.roots # "none" THEN config.roots
  ELSE IF of.roots # "none" THEN of.roots ELSE DefaultRoots

\* --force rebuilds a corrupt index without its entries.
InitReads(s) ==
  LET read == IF Readable(index) THEN index ELSE BootstrapIndex IN
  /\ At(s, "read")
  /\ IF index.st = "corrupt" /\ ~sess[s].force
     THEN sess' = [sess EXCEPT ![s] = Idle] /\ UNCHANGED report
     ELSE /\ sess' = [sess EXCEPT ![s].pc = "index", ![s].mem = [read EXCEPT !.roots = RootsFor(sess[s].roots, read)]]
          /\ UNCHANGED report
  /\ UNCHANGED <<store, lock, past, used>>

InitWritesIndex(s) ==
  /\ At(s, "index") /\ Goto(s, "config")
  /\ index' = sess[s].mem
  /\ past' = [past EXCEPT !.discarded = @ \/ (sess[s].force /\ sess[s].mem.rev = 0)]
  /\ UNCHANGED <<config, schema, journal, file, lock, used>>

InitWritesConfig(s) ==
  /\ At(s, "config") /\ Goto(s, "schema")
  /\ config' = [st |-> "ok", roots |-> sess[s].mem.roots]
  /\ UNCHANGED <<index, schema, journal, file, lock, past, used>>

\* Mutant: a store that was kept is called one of the supported format.
FormatSupported(s) == Supported

Format(s) == sess[s].mem.ver

InitWritesSchema(s) ==
  /\ At(s, "schema") /\ End(s, "initialized")
  /\ schema' = Format(s)
  /\ UNCHANGED <<index, config, journal, file, lock, past, used>>

-----------------------------------------------------------------------------
(* runMigration. *)

\* The index is read, and the lock looked at, without taking it.
MigrateBegins(s) ==
  /\ Readable(index) /\ index.ver = OldFormat /\ lock = Nobody
  /\ Begin(s, [Idle EXCEPT !.pc = "snapshot", !.mem = index])
  /\ UNCHANGED <<store, lock, past>>

\* createLightweightSnapshot: first the index, if it is still there ...
SnapshotIndex(s) ==
  /\ At(s, "snapshot")
  /\ sess' = IF index.st = "missing" THEN [sess EXCEPT ![s] = Idle]
             ELSE [sess EXCEPT ![s].pc = "copy", ![s].snap = <<index, config, schema, journal, file>>]
  /\ UNCHANGED <<store, lock, report, past, used>>

\* ... then the artifacts, the journal, the configuration and the schema version.
SnapshotRest(s) ==
  /\ At(s, "copy")
  /\ sess' = [sess EXCEPT ![s].pc = "migrator",
                          ![s].snap = <<sess[s].snap[1], config, schema, journal, file>>]
  /\ UNCHANGED <<store, lock, report, past, used>>

\* The migrator may write artifacts anew, from the records that were read, and may fail.
Migrate(s) ==
  /\ At(s, "migrator")
  /\ file' \in {file, [rev |-> sess[s].mem.rev, ver |-> Supported]}
  /\ \E pc \in {"acquire", "restore"} : Goto(s, pc)
  /\ UNCHANGED <<index, config, schema, journal, lock, past, used>>

\* Mutant: the store is written without waiting for its lock.
AcquireNothing(s) == lock' = lock

Acquire(s) == Take(s)

AcquireLock(s) ==
  /\ At(s, "acquire") /\ Acquire(s)
  /\ Goto(s, "writeIndex")
  /\ UNCHANGED <<store, past, used>>

LockTimesOut(s) ==
  /\ At(s, "acquire") /\ lock \notin {Nobody, s}
  /\ Goto(s, "restore")
  /\ UNCHANGED <<store, lock, past, used>>

MigrateIndex(s) ==
  /\ At(s, "writeIndex") /\ Goto(s, "logMigrate")
  /\ index' = [sess[s].mem EXCEPT !.ver = Supported]
  /\ UNCHANGED <<config, schema, journal, file, lock, past, used>>

LogMigrate(s) ==
  /\ At(s, "logMigrate") /\ Goto(s, "writeSchema")
  /\ journal' = [journal EXCEPT !.migrated = TRUE]
  /\ UNCHANGED <<index, config, schema, file, lock, past, used>>

MigrateSchema(s) ==
  /\ At(s, "writeSchema") /\ Goto(s, "release")
  /\ schema' = Supported
  /\ UNCHANGED <<index, config, journal, file, lock, past, used>>

Free(s) == lock' = IF lock = s THEN Nobody ELSE lock

ReleaseLock(s) ==
  /\ At(s, "release") /\ Goto(s, "verify") /\ Free(s)
  /\ UNCHANGED <<store, past, used>>

Verified(s) ==
  /\ Readable(index) /\ index.ver = Supported /\ schema = Supported
  /\ index.rev = sess[s].mem.rev /\ journal.migrated

Verify(s) ==
  /\ At(s, "verify")
  /\ IF Verified(s) THEN End(s, "migrated") ELSE Goto(s, "restore")
  /\ UNCHANGED <<store, lock, past, used>>

\* A write under the lock, or reading to verify, fails: the first is rolled back before
\* the lock goes.
AccessFails(s) ==
  /\ used.faults < MaxFaults
  /\ \/ sess[s].pc \in {"writeIndex", "logMigrate", "writeSchema"} /\ Goto(s, "restoreLocked")
     \/ At(s, "verify") /\ Goto(s, "restore")
  /\ used' = [used EXCEPT !.faults = @ + 1]
  /\ UNCHANGED <<store, lock, past>>

\* restoreSnapshot: the index, then journal, configuration, schema version and artifacts;
\* what the snapshot does not have stays.
RestoreIndex(s) ==
  /\ \/ At(s, "restore") /\ Goto(s, "restoreRest")
     \/ At(s, "restoreLocked") /\ Goto(s, "restoreRestLocked")
  /\ index' = sess[s].snap[1]
  /\ UNCHANGED <<config, schema, journal, file, lock, past, used>>

RestoredSchema(s) == IF sess[s].snap[3] # 0 THEN sess[s].snap[3] ELSE schema

RestoreRest(s) ==
  /\ \/ At(s, "restoreRest") /\ End(s, "rolledBack")
     \/ At(s, "restoreRestLocked") /\ Goto(s, "drop")
  /\ config' = IF sess[s].snap[2].st # "missing" THEN sess[s].snap[2] ELSE config
  /\ schema' = RestoredSchema(s)
  /\ journal' = sess[s].snap[4]
  /\ file' = sess[s].snap[5]
  /\ UNCHANGED <<index, lock, past, used>>

DropLock(s) ==
  /\ At(s, "drop") /\ Free(s) /\ End(s, "rolledBack")
  /\ UNCHANGED <<store, past, used>>

-----------------------------------------------------------------------------
(* Faults. *)

\* Only copying the index back is not atomic: it may be left torn.
Die(s) ==
  /\ sess[s].pc # "idle" /\ used.faults < MaxFaults
  /\ sess' = [sess EXCEPT ![s] = Idle]
  /\ lock' = IF lock = s THEN Nobody ELSE lock
  /\ index' \in IF sess[s].pc \in {"restore", "restoreLocked"} THEN {index, [index EXCEPT !.st = "corrupt"]}
                ELSE {index}
  /\ used' = [used EXCEPT !.faults = @ + 1]
  /\ report' = Ended
  /\ UNCHANGED <<config, schema, journal, file, past>>

\* The user, a merge or a checkout removes or damages one of the store's own files.
Damage ==
  /\ used.faults < MaxFaults
  /\ \/ index.st = "ok" /\ index' \in {NoIndex, [index EXCEPT !.st = "corrupt"]}
        /\ past' = [past EXCEPT !.discarded = TRUE] /\ UNCHANGED <<config, schema>>
     \/ config.st = "ok" /\ config' \in {NoConfig, [config EXCEPT !.st = "corrupt"]}
        /\ UNCHANGED <<index, schema, past>>
     \/ schema # 0 /\ schema' = 0 /\ UNCHANGED <<index, config, past>>
  /\ sess' = Disturbed
  /\ report' = Ended
  /\ used' = [used EXCEPT !.faults = @ + 1]
  /\ UNCHANGED <<journal, file, lock>>

InitStep(s) ==
  InitBegins(s) \/ EnsureStore(s) \/ InitReads(s) \/ InitWritesIndex(s) \/ InitWritesConfig(s) \/ InitWritesSchema(s)

MigrationStep(s) ==
  \/ MigrateBegins(s) \/ SnapshotIndex(s) \/ SnapshotRest(s) \/ Migrate(s) \/ AcquireLock(s) \/ LockTimesOut(s)
  \/ MigrateIndex(s) \/ LogMigrate(s) \/ MigrateSchema(s) \/ ReleaseLock(s) \/ Verify(s)
  \/ AccessFails(s) \/ RestoreIndex(s) \/ RestoreRest(s) \/ DropLock(s)

Next == Commit \/ Damage \/ \E s \in Sessions : InitStep(s) \/ MigrationStep(s) \/ Die(s)

Spec == Init /\ [][Next]_vars

-----------------------------------------------------------------------------
(* Properties. *)

\* A new index names its roots in the old way until an init has written it.
Drift == Configured /\ Readable(index) /\ config.roots # index.roots

\* What runDoctor says of the store's own files.
Findings ==
  (IF ~Configured THEN {"config"} ELSE {})
    \cup (IF ~Readable(index) THEN {"index"} ELSE {})
    \cup (IF Drift THEN {"drift"} ELSE {})
    \cup (IF schema = 0 THEN {"schema"} ELSE IF Readable(index) /\ schema # index.ver THEN {"schema"} ELSE {})

\* A command that nobody else disturbed does what it reports: after an init the doctor has
\* no complaint about the store's own files, whatever dead sessions or the user had left of
\* them; a migration that succeeded kept the document and made everything of the new
\* format; one that was rolled back, for whatever failed, left everything as it was, but
\* for a schema version that was not there.
UpkeepSound ==
  LET was == report.before IN
  /\ report.end = "initialized" => Findings = {}
  /\ report.end = "migrated" =>
       index = [was[1] EXCEPT !.ver = Supported] /\ schema = Supported /\ config = was[2] /\ journal.migrated
  /\ report.end = "rolledBack" =>
       index = was[1] /\ config = was[2] /\ (was[3] # 0 => schema = was[3]) /\ journal = was[4] /\ file = was[5]

\* A commit stays in the index, or a later one does, and in the journal, whatever inits and
\* migrations do, die at or roll back, unless it came between what one of them read and
\* wrote or before it was verified, or the index was lost and made anew.
CommitsSurvive ==
  \A rev \in past.committed \ past.unguarded :
    ~past.discarded => index.rev >= rev /\ rev \in journal.revs
====
