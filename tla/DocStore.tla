---- MODULE DocStore ----
(***************************************************************************)
(* The managed document store (lib/doc-store): INDEX.json, one file per    *)
(* document, and a journal. A process opens the store, which recovers      *)
(* pending transactions, and then mutates it under the store's lock        *)
(* (PilotFileLock; a dead owner's lock is taken as reaped). Every file is  *)
(* written atomically (temporary file, fsync, rename), one after the       *)
(* other: a process may die, or a write fail, between any two of them.     *)
(*                                                                         *)
(* A mutation and a recovery are a list of writes to do ("jobs"), decided  *)
(* when it starts and done one per step.                                   *)
(***************************************************************************)
EXTENDS DocRecords, Sequences, SequencesExt

CONSTANTS
  Handles,     \* processes that may hold a handle on the store
  RawText,     \* the content of a legacy file, not yet a document
  Initial,     \* the stores a behaviour may start with, as their entries
  Refs,        \* the refs a caller may give a document
  MaxTx,       \* bound: journalled transactions
  MaxFaults    \* bound: deaths, failing writes and reads during a mutation

ASSUME StoreAssumption ==
  /\ IsFiniteSet(Docs) /\ Nothing \notin Handles
  /\ Nothing \notin Record /\ RawText \notin Record \union {Nothing}
  /\ Initial \subseteq Entries /\ Refs \subseteq SUBSET Relations
  /\ MaxTx \in Nat /\ MaxFaults \in Nat

VARIABLES
  index,     \* INDEX.json
  file,      \* the document files: at the live and at the archived path
  source,    \* the documents whose legacy source file is (still) there
  journal,   \* the transactions in the order of their first entry, with their latest status
  lock,      \* the handle that holds .lock
  han,       \* the handles
  faults,
  spoilt     \* history: the weaknesses of the store met so far (see Weaknesses)

vars == <<index, file, source, journal, lock, han, faults, spoilt>>

(***************************************************************************)
(* What the store does not defend itself against:                          *)
(*   "refused"  a refused create removed the file of the document that has *)
(*              the id already                                             *)
(*   "read"     a read through a mutating handle replaced its entries      *)
(*   "overlap"  a store was opened, and recovered, while another process   *)
(*              mutated it: recovery takes no lock                         *)
(*   "stale"    a mutation began while a dead process's transaction was    *)
(*              still pending: its handle had been opened before           *)
(*   "half"     a create was left half undone by a rollback or a recovery  *)
(*              that died: the next recovery does not see what is left     *)
(***************************************************************************)
Weaknesses == {"refused", "read", "overlap", "stale", "half"}

Ops == {"create", "adopt", "update", "archive", "link"}
Paths == {"live", "archived"}
Status == {"pending", "committed", "aborted"}
Tx == [op: Ops, d: Docs, to: Docs, rev: Nat, toRev: Nat, mirrored: SUBSET Docs, status: Status]
Job == [do: {"write", "mirror", "remove", "move", "return"}, d: Docs,
        rec: Record \union {Nothing}, at: Paths, st: Status]
         \union [do: {"index", "revert", "log"}, d: {Nothing}, rec: {Nothing}, at: Paths, st: Status]
Phase == {"closed", "recovering", "open", "mutating", "revoking"}
Handle == [pc: Phase, mem: Entries, before: Entries, tx: 0..MaxTx, queue: SUBSET (1..MaxTx), todo: Seq(Job)]
Content == Record \union {Nothing, RawText}

TypeOK ==
  /\ index \in Entries
  /\ file \in [Docs -> [Paths -> Content]] /\ \A d \in Docs : file[d].archived # RawText
  /\ source \in SUBSET Docs
  /\ journal \in Seq(Tx) /\ Len(journal) <= MaxTx
  /\ lock \in Handles \union {Nothing}
  /\ han \in [Handles -> Handle]
  /\ faults \in 0..MaxFaults
  /\ spoilt \subseteq Weaknesses

Closed == [pc |-> "closed", mem |-> NoEntries, before |-> NoEntries, tx |-> 0,
           queue |-> {}, todo |-> <<>>]

PathOf(rec) == IF rec.arch THEN "archived" ELSE "live"

\* The file an entry should have, at its path and at no other.
FileOf(entry) == [path \in Paths |->
                    IF entry # Nothing /\ path = PathOf(entry) THEN entry ELSE Nothing]

Init ==
  /\ index \in Initial
  /\ file = [d \in Docs |-> FileOf(index[d])]
  /\ source \in SUBSET {d \in Docs : index[d] = Nothing}
  /\ journal = <<>>
  /\ lock = Nothing
  /\ han = [h \in Handles |-> Closed]
  /\ faults = 0
  /\ spoilt = {}

-----------------------------------------------------------------------------
(* Jobs. *)

JobOf(do, d, rec, path, st) == [do |-> do, d |-> d, rec |-> rec, at |-> path, st |-> st]
FileJob(do, d, path) == JobOf(do, d, Nothing, path, "pending")

Write(d, rec)   == JobOf("write", d, rec, PathOf(rec), "pending")
Mirror(d)       == FileJob("mirror", d, "live")      \* the handle's entry, as it is by then
RemoveFile(d, path) == FileJob("remove", d, path)
Move(d)         == FileJob("move", d, "live")
Return(d)       == FileJob("return", d, "live")
PersistIndex    == FileJob("index", Nothing, "live")
RevertIndex     == FileJob("revert", Nothing, "live")
Log(st)         == JobOf("log", Nothing, Nothing, "live", st)

\* Some order of the mirrored targets.
Each(S, job) == LET order == SetToSeq(S) IN [i \in DOMAIN order |-> job[order[i]]]

\* restoreRecordArtifact: the entry's file, or none.
Restore(ents, d, path) == IF ents[d] # Nothing THEN Write(d, ents[d]) ELSE RemoveFile(d, path)

\* restoreMirroredTargets. Mutant: only the source of a change is rolled back.
RestoreSource(ents, S) == <<>>

RestoreMirrored(ents, S) == LET kept == {d \in S : ents[d] # Nothing}
                            IN Each(kept, [d \in kept |-> Write(d, ents[d])])

DoJob(h, job) ==
  /\ file' = CASE job.do = "write"  -> [file EXCEPT ![job.d][job.at] = job.rec]
               [] job.do = "mirror" -> IF han[h].mem[job.d] = Nothing THEN file
                                       ELSE [file EXCEPT ![job.d][PathOf(han[h].mem[job.d])] = han[h].mem[job.d]]
               [] job.do = "remove" -> [file EXCEPT ![job.d][job.at] = Nothing]
               [] job.do = "move"   -> [file EXCEPT ![job.d].live = RawText]
               [] OTHER             -> file
  /\ source' = CASE job.do = "move"   -> source \ {job.d}
                 [] job.do = "return" -> source \union {job.d}
                 [] OTHER             -> source
  /\ index' = CASE job.do = "index"  -> han[h].mem
                [] job.do = "revert" -> han[h].before
                [] OTHER             -> index
  /\ journal' = IF job.do = "log" THEN [journal EXCEPT ![han[h].tx].status = job.st] ELSE journal

-----------------------------------------------------------------------------
(* Mutations. *)

Pending(i) == journal[i].status = "pending"

\* Some live handle works on transaction i.
Owned(i) == \E h \in Handles : han[h].pc \in {"mutating", "revoking"} /\ han[h].tx = i

Recovering(h) == han[h].pc = "recovering"

\* What is done wrong by starting a mutation now.
StartWeakness ==
  (IF \E h \in Handles : Recovering(h) THEN {"overlap"} ELSE {})
    \union (IF \E i \in DOMAIN journal : Pending(i) THEN {"stale"} ELSE {})

\* runMutation: take the lock, reload the index, journal the pending transaction
\* (its payload computed from the index), then do the jobs.
Begin(h, tx, after, jobs, pc, weakness) ==
  /\ han[h].pc = "open" /\ lock = Nothing
  /\ Len(journal) < MaxTx
  /\ lock' = h
  /\ journal' = Append(journal, tx)
  /\ han' = [han EXCEPT ![h] = [pc |-> pc, mem |-> after, before |-> index,
                                tx |-> Len(journal) + 1, queue |-> {}, todo |-> jobs]]
  /\ spoilt' = spoilt \union StartWeakness \union weakness
  /\ UNCHANGED <<index, file, source, faults>>

Entry(op, d, after) == [op |-> op, d |-> d, to |-> d, rev |-> after[d].rev, toRev |-> after[d].rev,
                        mirrored |-> Mirrored(index, after, d), status |-> "pending"]

Commit(d, after) == LET targets == Mirrored(index, after, d)
                    IN Each(targets, [t \in targets |-> Mirror(t)]) \o <<PersistIndex, Log("committed")>>

NextId == Len(journal) + 1

\* createDocument and importLegacyDocument; adoptDocument moves the source first.
Create(h, op, d, out) ==
  /\ op = "adopt" => d \in source
  /\ CanCreate(index, d, out)
  /\ LET after == Created(index, d, out, NextId)
     IN Begin(h, Entry(op, d, after), after,
              (IF op = "adopt" THEN <<Move(d)>> ELSE <<>>) \o <<Write(d, after[d])>> \o Commit(d, after),
              "mutating", {})

\* The id is taken: found out after the transaction is journalled, so that the
\* rollback of a create runs, and removes the file at the path of the id.
CreateRefused(h, op, d, out) ==
  /\ op = "adopt" => d \in source
  /\ index[d] # Nothing /\ TargetsLive(index, {}, out)
  /\ Begin(h, [op |-> op, d |-> d, to |-> d, rev |-> 1, toRev |-> 1, status |-> "pending",
               mirrored |-> Mirrored(index, WithMirrors(index, d, NewRecord(out, NextId), {}), d)],
           index, <<RemoveFile(d, "live"), RevertIndex, Log("aborted")>>, "revoking",
           IF IsLive(index, d) THEN {"refused"} ELSE {})

\* An update of the content only leaves the relations alone.
Update(h, d, out) ==
  /\ CanUpdate(index, d, out)
  /\ LET after == Updated(index, d, out, NextId)
     IN Begin(h, Entry("update", d, after), after, <<Write(d, after[d])>> \o Commit(d, after),
              "mutating", {})

\* Mutant: an archive in spite of live documents that refer to d.
ArchiveAnyway(h, d) ==
  /\ IsLive(index, d)
  /\ LET after == Archived(index, d)
     IN Begin(h, Entry("archive", d, after), after,
              <<Write(d, after[d]), RemoveFile(d, "live"), PersistIndex, Log("committed")>>, "mutating", {})

Archive(h, d) ==
  /\ CanArchive(index, d)
  /\ LET after == Archived(index, d)
     IN Begin(h, Entry("archive", d, after), after,
              <<Write(d, after[d]), RemoveFile(d, "live"), PersistIndex, Log("committed")>>, "mutating", {})

Link(h, d, t) ==
  /\ CanLink(index, d, t)
  /\ LET after == Linked(index, d, t)
         tx    == [Entry("link", d, after) EXCEPT !.to = t, !.rev = index[d].rev + 1,
                                                  !.toRev = index[t].rev + 1]
     IN Begin(h, tx, after, IF after = index THEN <<Log("committed")>>
                            ELSE <<Write(d, after[d])>> \o Commit(d, after), "mutating", {})

\* A job of a mutation; after the last one the lock is released.
Work(h) ==
  /\ han[h].pc \in {"mutating", "revoking"} /\ han[h].todo # <<>>
  /\ DoJob(h, Head(han[h].todo))
  /\ han' = [han EXCEPT ![h].todo = Tail(@)]
  /\ UNCHANGED <<lock, faults, spoilt>>

Finish(h) ==
  /\ han[h].pc \in {"mutating", "revoking"} /\ han[h].todo = <<>>
  /\ lock' = Nothing
  /\ han' = [han EXCEPT ![h] = [Closed EXCEPT !.pc = "open"]]
  /\ UNCHANGED <<index, file, source, journal, faults, spoilt>>

-----------------------------------------------------------------------------
(* What goes wrong: a write that fails, a read of the same handle, a death.   *)

\* The rollback of an operation restores the files first, the index last.
Rollback(h) ==
  LET tx  == journal[han[h].tx]
      old == han[h].before
      done == <<RevertIndex, Log("aborted")>>
  IN CASE tx.op \in {"create", "adopt"} ->
            RestoreMirrored(old, tx.mirrored) \o <<RemoveFile(tx.d, "live")>>
              \o (IF tx.op = "adopt" /\ tx.d \notin source THEN <<Return(tx.d)>> ELSE <<>>) \o done
       [] tx.op = "update"  -> <<Write(tx.d, old[tx.d])>> \o RestoreMirrored(old, tx.mirrored) \o done
       [] tx.op = "link"    -> <<Write(tx.d, old[tx.d]), Write(tx.to, old[tx.to])>> \o done
       [] tx.op = "archive" -> <<RemoveFile(tx.d, "archived"), Write(tx.d, old[tx.d])>> \o done

Fault == faults < MaxFaults /\ faults' = faults + 1

WriteFails(h) ==
  /\ han[h].pc = "mutating" /\ han[h].todo # <<>>
  /\ Fault
  /\ han' = [han EXCEPT ![h].pc = "revoking", ![h].mem = han[h].before, ![h].todo = Rollback(h)]
  /\ UNCHANGED <<index, file, source, journal, lock, spoilt>>

\* resolveDocumentRef, query, getIndex and validate reload the handle's entries,
\* and what the mutation under way changed in them is gone.
Read(h) ==
  /\ han[h].pc = "mutating" /\ han[h].mem # index
  /\ \E i \in DOMAIN han[h].todo : han[h].todo[i].do = "index"
  /\ Fault
  /\ han' = [han EXCEPT ![h].mem = index]
  /\ spoilt' = spoilt \union {"read"}
  /\ UNCHANGED <<index, file, source, journal, lock>>

Die(h) ==
  /\ han[h].pc \notin {"closed", "open"}
  /\ Fault
  /\ han' = [han EXCEPT ![h] = Closed]
  /\ lock' = IF lock = h THEN Nothing ELSE lock
  /\ spoilt' = spoilt \union
       (IF /\ han[h].pc \in {"revoking", "recovering"} /\ han[h].todo # <<>>
           /\ journal[han[h].tx].op \in {"create", "adopt"}
        THEN {"half"} ELSE {})
  /\ UNCHANGED <<index, file, source, journal>>

-----------------------------------------------------------------------------
(* open: recovery reads journal and index once, and takes no lock.            *)

Open(h) ==
  /\ han[h].pc = "closed"
  /\ han' = [han EXCEPT ![h] = [Closed EXCEPT !.pc = "recovering", !.mem = index,
                                  !.queue = {i \in DOMAIN journal : Pending(i)}]]
  /\ spoilt' = spoilt \union (IF \E i \in DOMAIN journal : Pending(i) /\ Owned(i) THEN {"overlap"} ELSE {})
  /\ UNCHANGED <<index, file, source, journal, lock, faults>>

\* What recovery makes of a pending transaction: the entries it leaves and the jobs.
CreateRecovery(ents, tx) ==
  LET matches == IsLive(ents, tx.d)
      exists  == file[tx.d].live # Nothing
      mirrors == RestoreMirrored(ents, tx.mirrored)
  IN CASE matches /\ exists   -> [mem |-> ents, todo |-> mirrors \o <<Log("committed")>>]
       [] ~matches /\ exists  -> [mem |-> ents, todo |-> <<RemoveFile(tx.d, "live")>> \o mirrors \o <<Log("aborted")>>]
       [] matches /\ ~exists  -> [mem |-> [ents EXCEPT ![tx.d] = Nothing],
                                  todo |-> <<PersistIndex>> \o mirrors \o <<Log("aborted")>>]
       [] ~matches /\ ~exists -> [mem |-> ents, todo |-> <<Log("aborted")>>]

Reached(ents, d, rev) == ents[d] # Nothing /\ ents[d].rev >= rev

\* Mutant: an update is taken for committed without a look at the index.
UpdateTrusted(ents, tx) ==
  [mem |-> ents, todo |-> <<Restore(ents, tx.d, "live")>> \o RestoreMirrored(ents, tx.mirrored)
                            \o <<Log("committed")>>]

UpdateRecovery(ents, tx) ==
  [mem |-> ents,
   todo |-> <<Restore(ents, tx.d, "live")>> \o RestoreMirrored(ents, tx.mirrored)
              \o <<Log(IF Reached(ents, tx.d, tx.rev) THEN "committed" ELSE "aborted")>>]

LinkRecovery(ents, tx) ==
  [mem |-> ents,
   todo |-> <<Restore(ents, tx.d, "live"), Restore(ents, tx.to, "live")>> \o RestoreMirrored(ents, tx.mirrored)
              \o <<Log(IF Reached(ents, tx.d, tx.rev) /\ Reached(ents, tx.to, tx.toRev)
                       THEN "committed" ELSE "aborted")>>]

\* A complete archived copy rolls the archive forward, whatever the index says of it.
ArchiveRecovery(ents, tx) ==
  LET copy == file[tx.d].archived
  IN CASE Reached(ents, tx.d, tx.rev) /\ ents[tx.d].arch ->
            [mem |-> ents, todo |-> <<Write(tx.d, ents[tx.d]), RemoveFile(tx.d, "live"), Log("committed")>>]
       [] ~(Reached(ents, tx.d, tx.rev) /\ ents[tx.d].arch) /\ copy # Nothing /\ copy.rev >= tx.rev ->
            [mem |-> [ents EXCEPT ![tx.d] = copy],
             todo |-> <<PersistIndex, RemoveFile(tx.d, "live"), Log("committed")>>]
       [] OTHER ->
            [mem |-> ents, todo |-> <<Restore(ents, tx.d, "live"), RemoveFile(tx.d, "archived"), Log("aborted")>>]

Recovery(ents, tx) ==
  CASE tx.op \in {"create", "adopt"} -> CreateRecovery(ents, tx)
    [] tx.op = "update"  -> UpdateRecovery(ents, tx)
    [] tx.op = "link"    -> LinkRecovery(ents, tx)
    [] tx.op = "archive" -> ArchiveRecovery(ents, tx)

\* The pending transactions are recovered in the order of the journal.
RecoverNext(h) ==
  /\ Recovering(h) /\ han[h].todo = <<>>
  /\ \E i \in han[h].queue :
       /\ \A j \in han[h].queue : i <= j
       /\ LET rec == Recovery(han[h].mem, journal[i])
          IN han' = [han EXCEPT ![h].queue = @ \ {i}, ![h].tx = i, ![h].mem = rec.mem, ![h].todo = rec.todo]
  /\ UNCHANGED <<index, file, source, journal, lock, faults, spoilt>>

RecoverWork(h) ==
  /\ Recovering(h) /\ han[h].todo # <<>>
  /\ DoJob(h, Head(han[h].todo))
  /\ han' = [han EXCEPT ![h].todo = Tail(@)]
  /\ UNCHANGED <<lock, faults, spoilt>>

\* The handle is handed out. What it knows of the index it reloads before use.
Opened(h) ==
  /\ Recovering(h) /\ han[h].todo = <<>> /\ han[h].queue = {}
  /\ han' = [han EXCEPT ![h] = [Closed EXCEPT !.pc = "open"]]
  /\ UNCHANGED <<index, file, source, journal, lock, faults, spoilt>>

Close(h) ==
  /\ han[h].pc = "open"
  /\ han' = [han EXCEPT ![h] = Closed]
  /\ UNCHANGED <<index, file, source, journal, lock, faults, spoilt>>

-----------------------------------------------------------------------------
Mutate(h) ==
  \E d \in Docs :
    \/ \E out \in Refs : Create(h, "create", d, out) \/ CreateRefused(h, "create", d, out)
                                       \/ Update(h, d, out)
    \/ Create(h, "adopt", d, {}) \/ CreateRefused(h, "adopt", d, {})
    \/ Archive(h, d)
    \/ \E t \in Docs : Link(h, d, t)

Advance(h) == Work(h) \/ Finish(h) \/ RecoverNext(h) \/ RecoverWork(h) \/ Opened(h)

Next == \E h \in Handles : Mutate(h) \/ Advance(h) \/ Open(h) \/ Close(h)
                             \/ WriteFails(h) \/ Read(h) \/ Die(h)

Spec == Init /\ [][Next]_vars

-----------------------------------------------------------------------------
(* Properties. *)

Quiet == /\ \A h \in Handles : han[h].pc \in {"closed", "open"}
         /\ \A i \in DOMAIN journal : ~Pending(i)

\* validateStore finds nothing to say of d, and d's file is what the index has.
Sound(d) == file[d] = FileOf(index[d])

\* Once every transaction is settled, every entry has its file, with the content
\* and the mirrors the index gives it, and no other file is left, wherever a
\* process died and however often recovery itself died.
FilesFollowIndex == Quiet /\ spoilt = {} => \A d \in Docs : Sound(d)

\* A transaction is settled as committed only when the index has its effect: no
\* acknowledged change is lost, none is called committed that did not happen.
Applied(i) == LET tx == journal[i] IN
  /\ index[tx.d] # Nothing
  /\ tx.op \in {"create", "adopt", "update"} => index[tx.d].by = i
  /\ tx.op = "archive" => index[tx.d].arch
  /\ tx.op = "link" => <<tx.to, "strong">> \in index[tx.d].out
CommittedApplied ==
  [][\A i \in DOMAIN journal :
       Pending(i) /\ journal'[i].status = "committed" /\ spoilt = {} => Applied(i)']_vars

\* What the store promises, as a whole (AtomicDocStore): the entries change by one
\* whole operation at a time. An operation under way may still be revoked.
LockHolder == {h \in Handles : lock = h}
Undo == IF \E h \in LockHolder : han[h].pc \in {"mutating", "revoking"} /\ Pending(han[h].tx)
        THEN han[lock].before ELSE index
Promised == INSTANCE AtomicDocStore WITH ents <- index, undo <- Undo
AtomicUnlessSpoilt == [][spoilt' = {} => Promised!Next(1..MaxTx)]_<<index, Undo>>

\* "idempotent recovery" (doc-store-api-draft.md:784) and "every managed record's
\* body must exist with a matching checksum" (1468): what FilesFollowIndex says
\* should hold as well after a recovery that died half way through a create.
RecoveryRepeatable == Quiet /\ spoilt \subseteq {"half"} => \A d \in Docs : Sound(d)
====
