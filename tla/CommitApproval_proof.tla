------------------------ MODULE CommitApproval_proof ------------------------
(***************************************************************************)
(* Proofs about CommitApproval, for any sessions, tasks and bounds: the    *)
(* types, that no live session commits a task after halt-run returned,     *)
(* that a task's commit holds what was approved and is made on the HEAD    *)
(* that was approved, and that a run is not committed before its tasks.    *)
(***************************************************************************)
EXTENDS CommitApproval, SequenceTheorems, TLAPS

(* What a session staged rests on a commit that is in the history.         *)
ParentKnown == \A s \in Sessions : mem[s].parent <= Len(log)

(* A session in the middle of a commit has rebuilt the manifest, and works *)
(* on tasks the manifest lists.                                            *)
Batch == {"next", "check", "merge", "stage", "update", "unlock", "fail", "refuse", "observe"}

Known(label, m) ==
  /\ label \in Batch => m.current \in Manifests /\ m.todo \subseteq DOMAIN m.current.files
  /\ label \in Batch \ {"next"} => m.task \in DOMAIN m.current.files

ManifestKnown == \A s \in Sessions : Known(at[s], mem[s])

TypeInv == TypeOK /\ ParentKnown /\ ManifestKnown

USE DEF HEAD

LEMMA TreeTyped ==
  ASSUME TypeOK, NEW n \in 0 .. Len(log)
  PROVE  TreeAt(n) \in Trees
<1>1. CASE n = 0
  BY <1>1, BoundsAssumption DEF TreeAt, Trees, Versions
<1>2. CASE n # 0
  <2>1. log[n] \in Entries
    BY <1>2, ElementOfSeq DEF TypeOK
  <2> QED
    BY <1>2, <2>1 DEF TreeAt, Entries
<1> QED
  BY <1>1, <1>2

LEMMA ManifestTyped ==
  ASSUME TypeOK, NEW ts \in SUBSET Tasks
  PROVE  Manifest(ts) \in Manifests
<1>1. [t \in ts |-> IF t \in Isolated THEN result[t] ELSE work[t]] \in [ts -> Versions]
  BY DEF TypeOK, Trees
<1>2. [ts -> Versions] \in {[us -> Versions] : us \in SUBSET Tasks}
  OBVIOUS
<1>3. Len(log) \in 0 .. MaxCommits
  BY LenProperties DEF TypeOK
<1> QED
  BY <1>1, <1>2, <1>3 DEF Manifest, Manifests, Files

LEMMA MemoryTyped ==
  /\ StartRun \in Runs
  /\ NoMemory \in Memories
  /\ NoMemory.parent = 0
<1>1. StartRun \in Runs
  BY BoundsAssumption DEF StartRun, Runs, Phases
<1> QED
  BY <1>1, BoundsAssumption DEF NoMemory, Memories, Versions

LEMMA RacedTyped ==
  ASSUME TypeOK, NEW c
  PROVE  /\ Raced(c) \in [Sessions -> Memories]
         /\ \A s \in Sessions : Raced(c)[s].parent = mem[s].parent
  BY ZenonT(60) DEF TypeOK, Raced, Memories

LEMMA TouchedTyped ==
  ASSUME NEW m \in [Sessions -> Memories], NEW ts
  PROVE  /\ Touched(m, ts) \in [Sessions -> Memories]
         /\ \A s \in Sessions : Touched(m, ts)[s].parent = m[s].parent
  BY DEF Touched, Memories, Runs

(* What is noted of other sessions touches neither manifest nor task.      *)
LEMMA RacedKnown ==
  ASSUME TypeInv, NEW c, NEW s \in Sessions
  PROVE  Known(at[s], Raced(c)[s])
<1>1. mem[s] \in Memories /\ Known(at[s], mem[s])
  BY DEF TypeInv, TypeOK, ManifestKnown
<1>2. Raced(c)[s] \in {mem[s], [mem[s] EXCEPT !.raced = TRUE]}
  BY DEF Raced
<1> QED
  BY <1>1, <1>2 DEF Known, Memories

LEMMA TouchedKnown ==
  ASSUME NEW m \in [Sessions -> Memories], NEW ts, NEW s \in Sessions,
         NEW label, Known(label, m[s])
  PROVE  Known(label, Touched(m, ts)[s])
<1>1. Touched(m, ts)[s] = [m[s] EXCEPT !.touched = @ \cup (ts \cap m[s].snap.tasks)]
  BY DEF Touched
<1> QED
  BY <1>1 DEF Known, Memories

LEMMA TaskEntryTyped ==
  ASSUME TypeInv, NEW s \in Sessions
  PROVE  /\ TaskEntry(s) \in Entries
         /\ TaskEntry(s).by = "task"
<1>1. mem[s] \in Memories
  BY DEF TypeInv, TypeOK
<1>2. mem[s].parent \in 0 .. Len(log)
  BY <1>1, LenProperties DEF TypeInv, ParentKnown, TypeOK, Memories
<1>3. TreeAt(mem[s].parent) \in Trees
  BY <1>2, TreeTyped DEF TypeInv
<1>4. [TreeAt(mem[s].parent) EXCEPT ![mem[s].task] = mem[s].staged] \in Trees
  BY <1>1, <1>3 DEF Trees, Memories
<1> QED
  BY <1>1, <1>4 DEF TaskEntry, Entries, Memories, Runs

LEMMA ControlEntryTyped ==
  ASSUME TypeInv, NEW s \in Sessions
  PROVE  /\ ControlEntry(s) \in Entries
         /\ ControlEntry(s).by = "control"
<1>1. mem[s] \in Memories
  BY DEF TypeInv, TypeOK
<1>2. mem[s].parent \in 0 .. Len(log)
  BY <1>1, LenProperties DEF TypeInv, ParentKnown, TypeOK, Memories
<1>3. TreeAt(mem[s].parent) \in Trees
  BY <1>2, TreeTyped DEF TypeInv
<1> QED
  BY <1>3 DEF ControlEntry, Entries

LEMMA WriteTyped ==
  ASSUME TypeOK, NEW r \in Runs, WriteRun(r)
  PROVE  run' \in Runs
<1>1. run.stamp \in 0 .. MaxStamp
  BY DEF TypeOK, Runs
<1>2. run.stamp + 1 \in 0 .. MaxStamp
  BY <1>1, BoundsAssumption DEF WriteRun
<1>3. run' = [r EXCEPT !.stamp = run.stamp + 1]
  BY DEF WriteRun, Stamped
<1> QED
  BY <1>2, <1>3 DEF Runs

LEMMA TransitionTyped ==
  ASSUME TypeOK, NEW s, NEW r \in Runs, TransitionIfUnchanged(s, r)
  PROVE  run' \in Runs
  BY WriteTyped DEF TransitionIfUnchanged, TypeOK

LEMMA AppendTyped ==
  ASSUME TypeOK, NEW e \in Entries, Len(log) < MaxCommits, log' = Append(log, e)
  PROVE  /\ log' \in Seq(Entries)
         /\ Len(log') = Len(log) + 1
         /\ Len(log') <= MaxCommits
         /\ log'[Len(log')] = e
<1>1. log \in Seq(Entries) /\ Len(log) \in Nat
  BY LenProperties DEF TypeOK
<1>2. log' \in Seq(Entries) /\ Len(log') = Len(log) + 1 /\ log'[Len(log) + 1] = e
  BY <1>1, AppendProperties
<1> QED
  BY <1>1, <1>2, BoundsAssumption

LEMMA TaskKnown ==
  ASSUME TypeInv, NEW s \in Sessions, at[s] \in Batch \ {"next"}
  PROVE  mem[s].task \in Tasks /\ mem[s].current.files[mem[s].task] \in Versions
<1>1. mem[s].task \in DOMAIN mem[s].current.files /\ mem[s].current \in Manifests
  BY DEF TypeInv, ManifestKnown, Known
<1>2. mem[s].current.files \in Files
  BY <1>1 DEF Manifests
<1>3. PICK ts \in SUBSET Tasks : mem[s].current.files \in [ts -> Versions]
  BY <1>2 DEF Files
<1> QED
  BY <1>1, <1>3

(* A step of one session that leaves HEAD alone.                           *)
Memory == at' \in [Sessions -> Labels] /\ mem' \in [Sessions -> Memories] /\ ParentKnown' /\ ManifestKnown'

LEMMA SessionStep ==
  ASSUME TypeInv, log' = log, NEW s \in Sessions, NEW from, NEW to \in Labels, Goto(s, from, to),
         NEW m \in Memories, m.parent <= Len(log), Remember(s, m), Known(to, m)
  PROVE  Memory
<1>1. mem' = [mem EXCEPT ![s] = m] /\ mem \in [Sessions -> Memories]
  BY DEF TypeInv, TypeOK, Remember
<1>2. at' = [at EXCEPT ![s] = to] /\ at \in [Sessions -> Labels]
  BY DEF TypeInv, TypeOK, Goto
<1>3. \A z \in Sessions : /\ mem'[z] = IF z = s THEN m ELSE mem[z]
                          /\ at'[z] = IF z = s THEN to ELSE at[z]
  BY <1>1, <1>2
<1>4. ParentKnown'
  BY <1>3 DEF TypeInv, ParentKnown
<1>5. ManifestKnown'
  <2> SUFFICES ASSUME NEW z \in Sessions PROVE Known(at'[z], mem'[z])
    BY DEF ManifestKnown
  <2>1. CASE z = s
    BY <2>1, <1>3
  <2>2. CASE z # s
    BY <2>2, <1>3 DEF TypeInv, ManifestKnown
  <2> QED
    BY <2>1, <2>2
<1> QED
  BY <1>1, <1>2, <1>4, <1>5 DEF Memory

(* ... and what the session remembers.                                     *)
LEMMA StayStep ==
  ASSUME TypeInv, log' = log, NEW s \in Sessions, NEW from, NEW to \in Labels, Goto(s, from, to),
         mem' = mem, Known(to, mem[s])
  PROVE  Memory
<1>1. mem[s] \in Memories /\ mem[s].parent <= Len(log)
  BY DEF TypeInv, TypeOK, ParentKnown
<1>2. Remember(s, mem[s])
  BY DEF Remember, TypeInv, TypeOK
<1> QED
  BY <1>1, <1>2, SessionStep

LEMMA LeaveStep ==
  ASSUME TypeInv, log' = log, NEW s \in Sessions, NEW from, Leave(s, from)
  PROVE  Memory
<1>1. NoMemory.parent <= Len(log)
  BY MemoryTyped, LenProperties DEF TypeInv, TypeOK
<1>2. "idle" \in Labels /\ Known("idle", NoMemory)
  BY DEF Labels, Known, Batch
<1> QED
  BY <1>1, <1>2, MemoryTyped, SessionStep DEF Leave

LEMMA ForgetStep ==
  ASSUME TypeInv, log' = log, NEW s \in Sessions, NEW from, NEW to \in {"idle", "reset"},
         Goto(s, from, to), Remember(s, NoMemory)
  PROVE  Memory
<1>1. NoMemory.parent <= Len(log)
  BY MemoryTyped, LenProperties DEF TypeInv, TypeOK
<1>2. to \in Labels /\ Known(to, NoMemory)
  BY DEF Labels, Known, Batch
<1> QED
  BY <1>1, <1>2, MemoryTyped, SessionStep

LEMMA AppendKnown ==
  ASSUME TypeInv, NEW e \in Entries, Len(log) < MaxCommits, log' = Append(log, e),
         mem' \in [Sessions -> Memories],
         \A s \in Sessions : mem'[s].parent \in {mem[s].parent, 0}
  PROVE  log' \in Seq(Entries) /\ Len(log') <= MaxCommits /\ ParentKnown'
<1>1. Len(log) \in Nat /\ Len(log') = Len(log) + 1
  BY AppendTyped, LenProperties DEF TypeInv, TypeOK
<1>2. \A s \in Sessions : mem[s].parent \in Nat /\ mem[s].parent <= Len(log)
  BY DEF TypeInv, TypeOK, ParentKnown, Memories
<1>3. ParentKnown'
  BY <1>1, <1>2 DEF ParentKnown
<1> QED
  BY <1>3, AppendTyped DEF TypeInv

LEMMA Resets ==
  ASSUME TypeOK
  PROVE  ResetRun \in Runs
  BY DEF TypeOK, ResetRun, Runs, Phases

----------------------------------------------------------------------------
(* approve-commit                                                          *)
LEMMA ApproveTyped ==
  ASSUME TypeInv, NEW s \in Sessions, ApproveCommit(s) \/ PublishApproval(s)
  PROVE  TypeInv'
<1>0. TypeOK
  BY DEF TypeInv
<1>1. CASE ApproveCommit(s)
  <2>1. PICK ts \in SUBSET Tasks :
          Remember(s, [NoMemory EXCEPT !.snap = run, !.todo = ts, !.current = Manifest(ts)])
    BY <1>0, <1>1 DEF ApproveCommit, TypeOK, Runs
  <2> DEFINE m == [NoMemory EXCEPT !.snap = run, !.todo = ts, !.current = Manifest(ts)]
  <2>2. m \in Memories /\ m.parent = 0
    BY <1>0, MemoryTyped, ManifestTyped DEF TypeOK, Memories
  <2>3. 0 <= Len(log)
    BY <1>0, LenProperties DEF TypeOK
  <2> log' = log
    BY <1>1 DEF ApproveCommit
  <2>4. Goto(s, "idle", "approve") /\ "approve" \in Labels /\ Known("approve", m)
    BY <1>1 DEF ApproveCommit, Labels, Known, Batch
  <2>5. Memory
    <3> HIDE DEF m
    <3> QED BY <2>1, <2>2, <2>3, <2>4, SessionStep DEF m
  <2> QED
    BY <1>0, <1>1, <2>5 DEF ApproveCommit, TypeInv, TypeOK, Others, Memory
<1>2. CASE PublishApproval(s)
  <2> DEFINE r == [run EXCEPT !.phase = "commit-approved", !.tasks = mem[s].todo, !.manifest = mem[s].current]
  <2>1. r \in Runs
    BY <1>0 DEF TypeOK, Runs, Memories, Phases
  <2>2. run' \in Runs
    BY <1>0, <1>2, <2>1, TransitionTyped DEF PublishApproval
  <2>3. Memory
    BY <1>2, LeaveStep DEF PublishApproval
  <2> QED
    BY <1>0, <1>2, <2>2, <2>3 DEF PublishApproval, TypeInv, TypeOK, Others, Memory
<1> QED
  BY <1>1, <1>2

(* commit, up to the lock                                                  *)
LEMMA StartTyped ==
  ASSUME TypeInv, NEW s \in Sessions, StartCommit(s) \/ ResetStale(s) \/ TakeCommitLock(s)
  PROVE  TypeInv'
<1>0. TypeOK
  BY DEF TypeInv
<1>1. CASE StartCommit(s)
  <2> DEFINE m == [NoMemory EXCEPT !.snap = run, !.current = Manifest(run.tasks), !.todo = run.tasks,
                                   !.expected = Len(log)]
  <2>1. run.tasks \in SUBSET Tasks /\ Len(log) \in 0 .. MaxCommits
    BY <1>0, LenProperties DEF TypeOK, Runs
  <2>2. Manifest(run.tasks) \in Manifests /\ DOMAIN Manifest(run.tasks).files = run.tasks
    BY <1>0, <2>1, ManifestTyped DEF Manifest
  <2>3. m \in Memories /\ m.parent = 0
    BY <1>0, <2>1, <2>2, MemoryTyped DEF TypeOK, Memories
  <2>4. Remember(s, m) /\ log' = log /\ 0 <= Len(log)
    BY <1>1, <2>1 DEF StartCommit
  <2>5. PICK to \in {"next", "stale"} : Goto(s, "idle", to)
    BY <1>1 DEF StartCommit
  <2>6. m.current = Manifest(run.tasks) /\ m.todo = run.tasks
    BY DEF NoMemory
  <2>7. Memory
    <3> HIDE DEF m
    <3>1. to \in Labels /\ Known(to, m)
      BY <2>2, <2>6 DEF Labels, Known, Batch
    <3> QED BY <2>3, <2>4, <2>5, <3>1, SessionStep
  <2> QED
    BY <1>0, <1>1, <2>7 DEF StartCommit, TypeInv, TypeOK, Others, Memory
<1>2. CASE ResetStale(s)
  <2>1. run' \in Runs
    BY <1>0, <1>2, Resets, TransitionTyped DEF ResetStale
  <2>2. Memory
    BY <1>2, LeaveStep DEF ResetStale
  <2> QED
    BY <1>0, <1>2, <2>1, <2>2 DEF ResetStale, TypeInv, TypeOK, Others, Memory
<1>3. CASE TakeCommitLock(s)
  <2>1. PICK t \in mem[s].todo : Remember(s, [mem[s] EXCEPT !.task = t])
    BY <1>3 DEF TakeCommitLock
  <2>2. mem[s] \in Memories /\ mem[s].parent <= Len(log) /\ Known("next", mem[s])
    BY <1>3 DEF TakeCommitLock, Goto, TypeInv, TypeOK, ParentKnown, ManifestKnown
  <2> DEFINE m == [mem[s] EXCEPT !.task = t]
  <2>3. m \in Memories /\ m.parent = mem[s].parent /\ m.current = mem[s].current /\ m.todo = mem[s].todo /\ m.task = t
    BY <2>1, <2>2 DEF Memories
  <2>4. log' = log /\ Goto(s, "next", "check") /\ Remember(s, m)
    BY <1>3, <2>1 DEF TakeCommitLock
  <2>5. Memory
    <3> HIDE DEF m
    <3>1. "check" \in Labels /\ Known("check", m)
      BY <2>1, <2>2, <2>3 DEF Labels, Known, Batch
    <3> QED BY <2>2, <2>3, <2>4, <3>1, SessionStep
  <2> QED
    BY <1>0, <1>3, <2>5 DEF TakeCommitLock, TypeInv, TypeOK, Others, Memory
<1> QED
  BY <1>1, <1>2, <1>3

(* ... under the lock, up to the commit                                    *)
LEMMA LockedTyped ==
  ASSUME TypeInv, NEW s \in Sessions,
         CheckApproval(s) \/ SquashMerge(s) \/ MergeFails(s) \/ Stage(s) \/ Unapproved(s)
  PROVE  TypeInv'
<1>0. /\ TypeOK
      /\ mem[s] \in Memories /\ mem[s].parent <= Len(log) /\ Known(at[s], mem[s])
      /\ Len(log) \in 0 .. MaxCommits
  BY LenProperties DEF TypeInv, TypeOK, ParentKnown, ManifestKnown
<1>1. CASE CheckApproval(s)
  <2>1. log' = log /\ Goto(s, "check", Verdict(s)) /\ at[s] = "check"
    BY <1>1 DEF CheckApproval, Goto
  <2>2. CASE Verdict(s) \in {"idle", "reset"}
    <3>1. Memory
      BY <1>1, <2>1, <2>2, ForgetStep DEF CheckApproval
    <3> QED
      BY <1>0, <1>1, <2>2, <3>1 DEF CheckApproval, TypeInv, TypeOK, Others, Memory
  <2>3. CASE Verdict(s) \in {"merge", "stage"}
    <3>1. Verdict(s) \in Labels /\ Known(Verdict(s), mem[s])
      BY <1>0, <2>1, <2>3 DEF Labels, Known, Batch
    <3>2. mem' = [mem EXCEPT ![s] = mem[s]] /\ lock' = lock
      BY <1>1, <2>3 DEF CheckApproval, Remember
    <3>3. mem' = mem
      BY <1>0, <3>2 DEF TypeOK
    <3>4. Memory
      BY <2>1, <3>1, <3>3, StayStep
    <3> QED
      BY <1>0, <1>1, <3>2, <3>4 DEF CheckApproval, TypeInv, TypeOK, Others, Memory
  <2> QED
    BY <2>2, <2>3 DEF Verdict
<1>2. CASE SquashMerge(s)
  <2>4. mem[s].task \in Tasks /\ mem[s].current.files[mem[s].task] \in Versions
    BY <1>2, TaskKnown DEF SquashMerge, Goto, Batch
  <2>5. PICK v \in Versions :
          /\ work' = [work EXCEPT ![mem[s].task] = v]
          /\ Remember(s, IF v = work[mem[s].task] THEN [mem[s] EXCEPT !.touched = @ \cup {mem[s].task}] ELSE mem[s])
    BY <1>2, <2>4 DEF SquashMerge
  <2>6. work' \in Trees
    BY <1>0, <2>5 DEF TypeOK, Trees
  <2> DEFINE n == [mem[s] EXCEPT !.touched = @ \cup {mem[s].task}]
             m == IF v = work[mem[s].task] THEN n ELSE mem[s]
  <2>7. n \in Memories /\ n.parent = mem[s].parent /\ n.current = mem[s].current /\ n.todo = mem[s].todo /\ n.task = mem[s].task
    BY <1>0, <2>4 DEF Memories
  <2>8. m \in Memories /\ m.parent = mem[s].parent /\ m.current = mem[s].current /\ m.todo = mem[s].todo
        /\ m.task = mem[s].task
    <3> HIDE DEF n
    <3> QED BY <1>0, <2>7
  <2>9. Remember(s, m) /\ log' = log /\ Goto(s, "merge", "stage") /\ at[s] = "merge"
    BY <1>2, <2>5 DEF SquashMerge, Goto
  <2>10. Memory
    <3> HIDE DEF m
    <3>1. "stage" \in Labels /\ Known("stage", m)
      BY <1>0, <2>8, <2>9 DEF Labels, Known, Batch
    <3> QED BY <1>0, <2>8, <2>9, <3>1, SessionStep
  <2> QED
    BY <1>0, <1>2, <2>6, <2>10 DEF SquashMerge, TypeInv, TypeOK, Others, Memory
<1>3. CASE MergeFails(s)
  <2>1. Memory
    BY <1>3, LeaveStep DEF MergeFails
  <2> QED
    BY <1>0, <1>3, <2>1 DEF MergeFails, TypeInv, TypeOK, Others, Memory
<1>4. CASE Stage(s)
  <2> DEFINE to == StagedVerdict(s, Len(log), work[mem[s].task])
             m == [mem[s] EXCEPT !.parent = Len(log), !.staged = work[mem[s].task]]
  <2>1. log' = log /\ Goto(s, "stage", to) /\ at[s] = "stage" /\ Remember(s, m)
    BY <1>4 DEF Stage, Goto
  <2>2. to \in {"unlock", "refuse", "update"}
    BY DEF StagedVerdict
  <2>3. mem[s].task \in Tasks
    BY <2>1, TaskKnown DEF Batch
  <2>4. m \in Memories /\ m.parent = Len(log) /\ m.current = mem[s].current /\ m.todo = mem[s].todo
        /\ m.task = mem[s].task
    BY <1>0, <2>3 DEF Memories, TypeOK, Trees
  <2>5. Memory
    <3> HIDE DEF m, to
    <3>1. to \in Labels /\ Known(to, m)
      BY <1>0, <2>1, <2>2, <2>4 DEF Labels, Known, Batch
    <3> QED BY <1>0, <2>1, <2>4, <3>1, SessionStep
  <2> QED
    BY <1>0, <1>4, <2>5 DEF Stage, TypeInv, TypeOK, Others, Memory
<1>5. CASE Unapproved(s)
  <2>1. log' = log /\ mem' = mem /\ Goto(s, "stage", "refuse") /\ at[s] = "stage"
    BY <1>5 DEF Unapproved, Goto
  <2>2. "refuse" \in Labels /\ Known("refuse", mem[s])
    BY <1>0, <2>1 DEF Labels, Known, Batch
  <2>3. Memory
    BY <2>1, <2>2, StayStep
  <2> QED
    BY <1>0, <1>5, <2>3 DEF Unapproved, TypeInv, TypeOK, Others, Memory
<1> QED
  BY <1>1, <1>2, <1>3, <1>4, <1>5

(* ... and from the commit on                                              *)
LEMMA LandedTyped ==
  ASSUME TypeInv, NEW s \in Sessions,
         UpdateRef(s) \/ GitFails(s) \/ FailTask(s) \/ RefuseTask(s) \/ Unlock(s) \/ ObserveHead(s)
  PROVE  TypeInv'
<1>0. /\ TypeOK
      /\ mem[s] \in Memories /\ mem[s].parent <= Len(log) /\ Known(at[s], mem[s])
      /\ Len(log) \in 0 .. MaxCommits
  BY LenProperties DEF TypeInv, TypeOK, ParentKnown, ManifestKnown
<1>1. CASE UpdateRef(s)
  <2>1. log' = Append(log, TaskEntry(s)) /\ Len(log) < MaxCommits /\ mem' = Raced(mem[s].snap.manifest)
        /\ Goto(s, "update", "unlock") /\ at[s] = "update"
    BY <1>1 DEF UpdateRef, Goto
  <2>2. mem' \in [Sessions -> Memories] /\ \A z \in Sessions : mem'[z].parent = mem[z].parent
    BY <1>0, <2>1, RacedTyped
  <2>3. log' \in Seq(Entries) /\ Len(log') <= MaxCommits /\ ParentKnown'
    BY <2>1, <2>2, TaskEntryTyped, AppendKnown
  <2>4. at' = [at EXCEPT ![s] = "unlock"] /\ at' \in [Sessions -> Labels]
    BY <1>0, <2>1 DEF Goto, TypeOK, Labels
  <2>5. \A z \in Sessions : Known(at[z], mem'[z])
    BY <2>1, RacedKnown
  <2>6. Known("unlock", mem'[s])
    BY <2>1, <2>5 DEF Known, Batch
  <2>7. ManifestKnown'
    BY <1>0, <2>4, <2>5, <2>6 DEF ManifestKnown, TypeOK
  <2> QED
    BY <1>0, <1>1, <2>2, <2>3, <2>4, <2>7 DEF UpdateRef, TypeInv, TypeOK, Others
<1>2. CASE GitFails(s)
  <2>1. log' = log /\ mem' = mem /\ Goto(s, at[s], "fail") /\ at[s] \in {"stage", "update"}
    BY <1>2 DEF GitFails, Goto
  <2>2. "fail" \in Labels /\ Known("fail", mem[s])
    BY <1>0, <2>1 DEF Labels, Known, Batch
  <2>3. Memory
    BY <2>1, <2>2, StayStep
  <2> QED
    BY <1>0, <1>2, <2>3 DEF GitFails, TypeInv, TypeOK, Others, Memory
<1>3. Unmerged(s) \in Trees
  <2>1. TreeAt(Len(log)) \in Trees
    BY <1>0, TreeTyped
  <2>2. CASE mem[s].task \in Isolated
    BY <1>0, <2>1, <2>2, IsolatedAssumption DEF Unmerged, Trees, TypeOK
  <2>3. CASE mem[s].task \notin Isolated
    BY <1>0, <2>3 DEF Unmerged, TypeOK
  <2> QED
    BY <2>2, <2>3
<1>4. CASE FailTask(s)
  <2>1. Memory
    BY <1>4, ForgetStep DEF FailTask
  <2>2. work' \in Trees
    BY <1>3, <1>4 DEF FailTask
  <2>3. state' \in [Tasks -> {"Backlog", "Failed", "Done"}]
    BY <1>0, <1>4 DEF FailTask, TypeOK
  <2> QED
    BY <1>0, <1>4, <2>1, <2>2, <2>3 DEF FailTask, TypeInv, TypeOK, Others, Memory
<1>5. CASE RefuseTask(s)
  <2>1. Memory
    BY <1>5, ForgetStep DEF RefuseTask
  <2>2. work' \in Trees
    BY <1>3, <1>5 DEF RefuseTask
  <2> QED
    BY <1>0, <1>5, <2>1, <2>2 DEF RefuseTask, TypeInv, TypeOK, Others, Memory
<1>6. CASE Unlock(s)
  <2>1. log' = log /\ mem' = mem /\ Goto(s, "unlock", "observe") /\ at[s] = "unlock"
    BY <1>6 DEF Unlock, Goto
  <2>2. "observe" \in Labels /\ Known("observe", mem[s])
    BY <1>0, <2>1 DEF Labels, Known, Batch
  <2>3. Memory
    BY <2>1, <2>2, StayStep
  <2> QED
    BY <1>0, <1>6, <2>3 DEF Unlock, TypeInv, TypeOK, Others, Memory
<1>7. CASE ObserveHead(s)
  <2> DEFINE m == [mem[s] EXCEPT !.expected = Len(log), !.todo = @ \ {mem[s].task}]
  <2>1. log' = log /\ Remember(s, m) /\ Goto(s, "observe", "next") /\ at[s] = "observe"
    BY <1>7 DEF ObserveHead, Goto
  <2>2. m \in Memories /\ m.parent = mem[s].parent /\ m.current = mem[s].current /\ m.todo \subseteq mem[s].todo
    BY <1>0 DEF Memories
  <2>3. Memory
    <3> HIDE DEF m
    <3>1. "next" \in Labels /\ Known("next", m)
      BY <1>0, <2>1, <2>2 DEF Labels, Known, Batch
    <3> QED BY <1>0, <2>1, <2>2, <3>1, SessionStep
  <2> QED
    BY <1>0, <1>7, <2>3 DEF ObserveHead, TypeInv, TypeOK, Others, Memory
<1> QED
  BY <1>1, <1>2, <1>4, <1>5, <1>6, <1>7

LEMMA EndedTyped ==
  ASSUME TypeInv, NEW s \in Sessions, ResetAny(s) \/ CompleteCommit(s)
  PROVE  TypeInv'
<1>0. TypeOK
  BY DEF TypeInv
<1>1. CASE ResetAny(s)
  <2>1. run' \in Runs
    BY <1>0, <1>1, Resets, WriteTyped DEF ResetAny, TypeOK
  <2>2. Memory
    BY <1>1, LeaveStep DEF ResetAny
  <2> QED
    BY <1>0, <1>1, <2>1, <2>2 DEF ResetAny, TypeInv, TypeOK, Others, Memory
<1>2. CASE CompleteCommit(s)
  <2>1. [run EXCEPT !.phase = "committed", !.manifest = None] \in Runs
    BY <1>0 DEF TypeOK, Runs, Phases
  <2>2. run' \in Runs
    BY <1>0, <1>2, <2>1, TransitionTyped DEF CompleteCommit
  <2>3. Memory
    BY <1>2, LeaveStep DEF CompleteCommit
  <2> QED
    BY <1>0, <1>2, <2>2, <2>3 DEF CompleteCommit, TypeInv, TypeOK, Others, Memory
<1> QED
  BY <1>1, <1>2

LEMMA JournalTyped ==
  ASSUME TypeInv, NEW s \in Sessions, JournalStep(s)
  PROVE  TypeInv'
<1>0. /\ TypeOK
      /\ mem[s] \in Memories /\ mem[s].parent <= Len(log)
      /\ Len(log) \in 0 .. MaxCommits
  BY LenProperties DEF TypeInv, TypeOK, ParentKnown
<1>1. CASE StartJournal(s)
  <2> DEFINE m == [NoMemory EXCEPT !.snap = run]
  <2>1. m \in Memories /\ m.parent = 0
    BY <1>0, MemoryTyped DEF TypeOK, Memories
  <2>2. log' = log /\ Goto(s, "idle", "journal") /\ Remember(s, m)
    BY <1>1 DEF StartJournal
  <2>3. Memory
    <3> HIDE DEF m
    <3>1. "journal" \in Labels /\ Known("journal", m)
      BY DEF Labels, Known, Batch
    <3> QED BY <1>0, <2>1, <2>2, <3>1, SessionStep
  <2> QED
    BY <1>0, <1>1, <2>3 DEF StartJournal, TypeInv, TypeOK, Others, Memory
<1>2. CASE CloseCycle(s)
  <2>1. [run EXCEPT !.phase = "cycle-closed"] \in Runs
    BY <1>0 DEF TypeOK, Runs, Phases
  <2>2. run' \in Runs
    BY <1>0, <1>2, <2>1, TransitionTyped DEF CloseCycle
  <2>3. log' = log
    BY <1>2 DEF CloseCycle
  <2>4. CASE Unchanged(s)
    <3>1. Goto(s, "journal", "control") /\ mem' = mem
      BY <1>2, <2>4 DEF CloseCycle
    <3>2. "control" \in Labels /\ Known("control", mem[s])
      BY DEF Labels, Known, Batch
    <3>3. Memory
      BY <2>3, <3>1, <3>2, StayStep
    <3> QED
      BY <1>0, <1>2, <2>2, <3>3 DEF CloseCycle, TypeInv, TypeOK, Others, Memory
  <2>5. CASE ~Unchanged(s)
    <3>1. Memory
      BY <1>2, <2>3, <2>5, LeaveStep DEF CloseCycle
    <3> QED
      BY <1>0, <1>2, <2>2, <3>1 DEF CloseCycle, TypeInv, TypeOK, Others, Memory
  <2> QED
    BY <2>4, <2>5
<1>3. CASE ControlLock(s)
  <2> DEFINE m == [mem[s] EXCEPT !.parent = Len(log)]
  <2>1. m \in Memories /\ m.parent = Len(log)
    BY <1>0 DEF Memories
  <2>2. log' = log /\ Goto(s, "control", "controlUpdate") /\ Remember(s, m)
    BY <1>3 DEF ControlLock
  <2>3. Memory
    <3> HIDE DEF m
    <3>1. "controlUpdate" \in Labels /\ Known("controlUpdate", m)
      BY DEF Labels, Known, Batch
    <3> QED BY <1>0, <2>1, <2>2, <3>1, SessionStep
  <2> QED
    BY <1>0, <1>3, <2>3 DEF ControlLock, TypeInv, TypeOK, Others, Memory
<1>4. CASE CommitControlFiles(s)
  <2>1. CASE UNCHANGED log /\ Remember(s, NoMemory)
    <3>1. Memory
      BY <1>4, <2>1, ForgetStep DEF CommitControlFiles
    <3> QED
      BY <1>0, <1>4, <2>1, <3>1 DEF CommitControlFiles, TypeInv, TypeOK, Others, Memory
  <2>2. CASE /\ Len(log) < MaxCommits
             /\ log' = Append(log, ControlEntry(s))
             /\ mem' = [Raced(None) EXCEPT ![s] = NoMemory]
    <3>1. Raced(None) \in [Sessions -> Memories]
      BY <1>0, RacedTyped
    <3>2. mem' \in [Sessions -> Memories]
      BY <2>2, <3>1, MemoryTyped
    <3>3. \A z \in Sessions : mem'[z] = IF z = s THEN NoMemory ELSE Raced(None)[z]
      BY <2>2, <3>1
    <3>4. \A z \in Sessions : mem'[z].parent \in {mem[z].parent, 0}
      BY <1>0, <3>3, RacedTyped, MemoryTyped
    <3>5. log' \in Seq(Entries) /\ Len(log') <= MaxCommits /\ ParentKnown'
      BY <2>2, <3>2, <3>4, ControlEntryTyped, AppendKnown
    <3>6. at' = [at EXCEPT ![s] = "idle"] /\ at' \in [Sessions -> Labels]
      BY <1>0, <1>4 DEF CommitControlFiles, Goto, TypeOK, Labels
    <3>7. ManifestKnown'
      BY <1>0, <3>3, <3>6, RacedKnown DEF ManifestKnown, TypeOK, Known, Batch
    <3> QED
      BY <1>0, <1>4, <3>2, <3>5, <3>6, <3>7 DEF CommitControlFiles, TypeInv, TypeOK, Others
  <2> QED
    BY <1>4, <2>1, <2>2 DEF CommitControlFiles
<1> QED
  BY <1>1, <1>2, <1>3, <1>4 DEF JournalStep

(* Crashes, interventions, the settlement and the user.                    *)
LEMMA CrashTyped ==
  ASSUME TypeInv, NEW s \in Sessions, Crash(s)
  PROVE  TypeInv'
<1>0. TypeOK /\ mem[s] \in Memories
  BY DEF TypeInv, TypeOK
<1>1. Memory
  BY LeaveStep DEF Crash
<1>2. late' \subseteq [parent : 0 .. MaxCommits, entry : Entries]
  <2>1. mem[s].parent \in 0 .. MaxCommits
    BY <1>0 DEF Memories
  <2>2. /\ [parent |-> mem[s].parent, entry |-> TaskEntry(s)] \in [parent : 0 .. MaxCommits, entry : Entries]
        /\ [parent |-> mem[s].parent, entry |-> ControlEntry(s)] \in [parent : 0 .. MaxCommits, entry : Entries]
    BY <2>1, TaskEntryTyped, ControlEntryTyped
  <2> QED
    BY <1>0, <2>2 DEF Crash, TypeOK
<1> QED
  BY <1>0, <1>1, <1>2 DEF Crash, TypeInv, TypeOK, Board, Memory

LEMMA LateTyped ==
  ASSUME TypeInv, NEW c \in late, LateUpdateRef(c)
  PROVE  TypeInv'
<1>0. TypeOK /\ c.entry \in Entries
  BY DEF TypeInv, TypeOK
<1> DEFINE m == Raced(c.entry.manifest)
           ts == {c.entry.task}
<1>1. m \in [Sessions -> Memories] /\ (\A s \in Sessions : m[s].parent = mem[s].parent) /\ mem' = Touched(m, ts)
  BY <1>0, RacedTyped DEF LateUpdateRef
<1>2. \A s \in Sessions : Known(at[s], m[s])
  BY RacedKnown
<1> HIDE DEF m, ts
<1>3. mem' \in [Sessions -> Memories] /\ \A s \in Sessions : mem'[s].parent = mem[s].parent
  BY <1>1, TouchedTyped
<1>4. log' \in Seq(Entries) /\ Len(log') <= MaxCommits /\ ParentKnown'
  BY <1>0, <1>3, AppendKnown DEF LateUpdateRef
<1>5. ManifestKnown'
  BY <1>1, <1>2, TouchedKnown DEF LateUpdateRef, ManifestKnown
<1> QED
  BY <1>0, <1>3, <1>4, <1>5 DEF LateUpdateRef, TypeInv, TypeOK, Board

LEMMA HaltTyped ==
  ASSUME TypeInv, HaltDirective \/ HaltRun \/ HaltBarrier
  PROVE  TypeInv'
<1>0. TypeOK
  BY DEF TypeInv
<1>1. CASE HaltDirective
  BY <1>0, <1>1 DEF HaltDirective, TypeInv, TypeOK, ParentKnown, ManifestKnown, Board
<1>2. CASE HaltRun
  <2>1. [run EXCEPT !.phase = "halted", !.tasks = {}, !.manifest = None] \in Runs
    BY <1>0 DEF TypeOK, Runs, Phases
  <2>2. run' \in Runs
    BY <1>0, <1>2, <2>1, WriteTyped DEF HaltRun
  <2> QED
    BY <1>0, <1>2, <2>2 DEF HaltRun, TypeInv, TypeOK, ParentKnown, ManifestKnown, Board
<1>3. CASE HaltBarrier
  BY <1>0, <1>3 DEF HaltBarrier, TypeInv, TypeOK, ParentKnown, ManifestKnown, Board
<1> QED
  BY <1>1, <1>2, <1>3

LEMMA ActTyped ==
  ASSUME TypeOK, Act
  PROVE  acts' \in 0 .. MaxActs
  BY BoundsAssumption DEF TypeOK, Act

LEMMA PlanTyped ==
  ASSUME TypeInv, SupersedePlan \/ \E t \in Tasks : Replan(t)
  PROVE  TypeInv'
<1>0. TypeOK
  BY DEF TypeInv
<1>1. Replanned \in Runs
  BY <1>0 DEF TypeOK, Replanned, Runs, Phases
<1>2. CASE SupersedePlan
  <2>1. run' \in Runs /\ acts' \in 0 .. MaxActs
    BY <1>0, <1>1, <1>2, WriteTyped, ActTyped DEF SupersedePlan
  <2> QED
    BY <1>0, <1>2, <2>1 DEF SupersedePlan, TypeInv, TypeOK, ParentKnown, ManifestKnown, Board
<1>3. ASSUME NEW t \in Tasks, Replan(t)
      PROVE  TypeInv'
  <2>1. run' \in Runs /\ acts' \in 0 .. MaxActs
    BY <1>0, <1>1, <1>3, WriteTyped, ActTyped DEF Replan
  <2>2. state' \in [Tasks -> {"Backlog", "Failed", "Done"}]
    BY <1>0, <1>3 DEF Replan, TypeOK
  <2> QED
    BY <1>0, <1>3, <2>1, <2>2 DEF Replan, TypeInv, TypeOK, ParentKnown, ManifestKnown
<1> QED
  BY <1>2, <1>3

LEMMA SettleTyped ==
  ASSUME TypeInv, NEW plan \in SUBSET Tasks, NEW version \in Versions, NEW auto \in BOOLEAN,
         Settle(plan, version, auto)
  PROVE  TypeInv'
<1>0. TypeOK /\ Len(log) \in 0 .. MaxCommits
  BY LenProperties DEF TypeInv, TypeOK
<1> DEFINE r == [run EXCEPT !.plan = plan,
                  !.phase = IF auto THEN "commit-approved" ELSE "awaiting-commit-approval",
                  !.tasks = IF auto THEN plan ELSE @,
                  !.manifest = IF auto THEN [base |-> Len(log), files |-> [t \in plan |-> version]] ELSE None]
<1>1. [t \in plan |-> version] \in Files
  <2>1. [plan -> Versions] \in {[us -> Versions] : us \in SUBSET Tasks}
    OBVIOUS
  <2> QED
    BY <2>1 DEF Files
<1>2. [base |-> Len(log), files |-> [t \in plan |-> version]] \in Manifests
  BY <1>0, <1>1 DEF Manifests
<1>3. r \in Runs
  <2>1. run \in Runs
    BY <1>0 DEF TypeOK
  <2> QED
    BY <1>2, <2>1 DEF Runs, Phases
<1>4. WriteRun(r)
  BY DEF Settle
<1>5. run' \in Runs
  BY <1>0, <1>3, <1>4, WriteTyped
<1>6. state' \in [Tasks -> {"Backlog", "Failed", "Done"}] /\ result' \in Trees /\ work' \in Trees
  BY <1>0 DEF Settle, TypeOK, Trees
<1> QED
  BY <1>0, <1>5, <1>6 DEF Settle, TypeInv, TypeOK, ParentKnown, ManifestKnown

LEMMA UserTyped ==
  ASSUME TypeInv, (\E t \in Tasks, v \in Versions : UserEdit(t, v)) \/ \E ts \in SUBSET Tasks : UserCommit(ts)
  PROVE  TypeInv'
<1>0. TypeOK /\ Len(log) \in 0 .. MaxCommits
  BY LenProperties DEF TypeInv, TypeOK
<1>1. ASSUME NEW t \in Tasks, NEW v \in Versions, UserEdit(t, v)
      PROVE  TypeInv'
  <2>1. mem' = Touched(mem, {t}) /\ mem \in [Sessions -> Memories]
    BY <1>0, <1>1 DEF UserEdit, TypeOK
  <2>2. mem' \in [Sessions -> Memories] /\ \A s \in Sessions : mem'[s].parent = mem[s].parent
    BY <2>1, TouchedTyped
  <2>3. ManifestKnown'
    BY <1>1, <2>1, TouchedKnown DEF UserEdit, TypeInv, ManifestKnown
  <2>4. work' \in Trees /\ acts' \in 0 .. MaxActs
    BY <1>0, <1>1, ActTyped DEF UserEdit, TypeOK, Trees
  <2>5. ParentKnown'
    BY <1>1, <2>2 DEF UserEdit, TypeInv, ParentKnown
  <2> QED
    BY <1>0, <1>1, <2>2, <2>3, <2>4, <2>5 DEF UserEdit, TypeInv, TypeOK
<1>2. ASSUME NEW ts \in SUBSET Tasks, UserCommit(ts)
      PROVE  TypeInv'
  <2> DEFINE e == [by |-> "user", task |-> None,
                   tree |-> [t \in Tasks |-> IF t \in ts THEN work[t] ELSE TreeAt(Len(log))[t]],
                   manifest |-> None, raced |-> FALSE]
  <2>1. TreeAt(Len(log)) \in Trees
    BY <1>0, TreeTyped
  <2>2. e \in Entries
    BY <1>0, <2>1 DEF Entries, Trees, TypeOK
  <2>3. Raced(None) \in [Sessions -> Memories] /\ \A s \in Sessions : Raced(None)[s].parent = mem[s].parent
    BY <1>0, RacedTyped
  <2>4. mem' = Touched(Raced(None), ts) /\ log' = Append(log, e) /\ Len(log) < MaxCommits /\ at' = at
    BY <1>2 DEF UserCommit
  <2>5. mem' \in [Sessions -> Memories] /\ \A s \in Sessions : mem'[s].parent = mem[s].parent
    BY <2>3, <2>4, TouchedTyped
  <2>6. log' \in Seq(Entries) /\ Len(log') <= MaxCommits /\ ParentKnown'
    <3> HIDE DEF e
    <3> QED BY <2>2, <2>4, <2>5, AppendKnown
  <2>7. ManifestKnown'
    <3> SUFFICES ASSUME NEW s \in Sessions PROVE Known(at[s], Touched(Raced(None), ts)[s])
      BY <2>4 DEF ManifestKnown
    <3> QED
      BY <2>3, RacedKnown, TouchedKnown
  <2>8. acts' \in 0 .. MaxActs
    BY <1>0, <1>2, ActTyped DEF UserCommit
  <2> QED
    BY <1>0, <1>2, <2>5, <2>6, <2>7, <2>8 DEF UserCommit, TypeInv, TypeOK, Board
<1> QED
  BY <1>1, <1>2

LEMMA InitTyped == Init => TypeInv
<1> SUFFICES ASSUME Init PROVE TypeInv
  OBVIOUS
<1>1. run \in Runs /\ mem \in [Sessions -> Memories] /\ \A s \in Sessions : mem[s].parent = 0
  BY MemoryTyped DEF Init
<1>2. result \in Trees /\ work \in Trees
  <2>1. 0 \in Versions /\ 1 \in Versions
    BY BoundsAssumption DEF Versions
  <2> QED
    BY <2>1 DEF Init, Trees
<1>3. log \in Seq(Entries) /\ Len(log) = 0 /\ Len(log) <= MaxCommits
  BY EmptySeq, BoundsAssumption DEF Init
<1>4. ManifestKnown
  BY DEF Init, ManifestKnown, Known, Batch
<1>5. ParentKnown
  <2> SUFFICES ASSUME NEW s \in Sessions PROVE mem[s].parent <= Len(log)
    BY DEF ParentKnown
  <2>1. mem[s].parent = Len(log)
    BY <1>1, <1>3
  <2>2. Len(log) \in Nat
    BY <1>3
  <2> QED
    BY <2>1, <2>2
<1>6. at \in [Sessions -> Labels] /\ acts \in 0 .. MaxActs
  BY BoundsAssumption DEF Init, Labels
<1> QED
  BY <1>1, <1>2, <1>3, <1>4, <1>5, <1>6 DEF Init, TypeInv, TypeOK

LEMMA NextTyped ==
  ASSUME TypeInv, [Next]_vars
  PROVE  TypeInv'
<1>1. ASSUME NEW s \in Sessions,
             ApproveCommit(s) \/ PublishApproval(s) \/ CommitStep(s) \/ JournalStep(s) \/ Crash(s)
      PROVE  TypeInv'
  BY <1>1, ApproveTyped, StartTyped, LockedTyped, LandedTyped, EndedTyped, JournalTyped, CrashTyped DEF CommitStep
<1>2. CASE UNCHANGED vars
  BY <1>2 DEF vars, TypeInv, TypeOK, ParentKnown, ManifestKnown
<1> QED
  BY <1>1, <1>2, LateTyped, HaltTyped, PlanTyped, SettleTyped, UserTyped DEF Next

(* Every variable keeps its type: the manifests, the memories of the       *)
(* sessions and the commits of dead ones included.                         *)
THEOREM TypeCorrect == Spec => []TypeOK
<1>1. TypeInv => TypeOK
  BY DEF TypeInv
<1> QED
  BY <1>1, InitTyped, NextTyped, PTL DEF Spec

----------------------------------------------------------------------------
(* halt-run.  A session past the check of its approval holds commit.lock,  *)
(* which halt-run has waited for, and nobody passes the check afterwards.  *)
UnderLock == {"check", "merge", "stage", "update", "unlock", "fail", "refuse", "controlUpdate"}
PastCheck == {"merge", "stage", "update"}

HaltInv ==
  /\ \A s \in Sessions : at[s] \in UnderLock => lock = s
  /\ halter # "idle" => halt
  /\ halter = "returned" => \A s \in Sessions : at[s] \notin PastCheck

LEMMA HaltInit == Init => HaltInv
  BY DEF Init, HaltInv, UnderLock

LEMMA HaltNext ==
  ASSUME TypeInv, HaltInv, [Next]_vars
  PROVE  HaltInv'
<1>0. /\ at \in [Sessions -> Labels]
      /\ \A s \in Sessions : at[s] \in UnderLock => lock = s
      /\ halter # "idle" => halt
      /\ halter = "returned" => \A s \in Sessions : at[s] \notin PastCheck
      /\ None \notin Sessions
  BY NoneAssumption DEF TypeInv, TypeOK, HaltInv
<1> USE DEF UnderLock, PastCheck, Goto, Leave, Others, Board
<1>1. ASSUME NEW s \in Sessions, ApproveCommit(s) \/ PublishApproval(s)
      PROVE  HaltInv'
  BY <1>0, <1>1 DEF ApproveCommit, PublishApproval, HaltInv
<1>2. ASSUME NEW s \in Sessions, StartCommit(s) \/ ResetStale(s) \/ TakeCommitLock(s)
      PROVE  HaltInv'
  BY <1>0, <1>2 DEF StartCommit, ResetStale, TakeCommitLock, HaltInv
<1>3. ASSUME NEW s \in Sessions, CheckApproval(s)
      PROVE  HaltInv'
  BY <1>0, <1>3 DEF CheckApproval, Verdict, Superseded, HaltInv
<1>4. ASSUME NEW s \in Sessions, SquashMerge(s) \/ MergeFails(s) \/ Stage(s) \/ Unapproved(s)
      PROVE  HaltInv'
  BY <1>0, <1>4 DEF SquashMerge, MergeFails, Stage, StagedVerdict, Unapproved, HaltInv
<1>5. ASSUME NEW s \in Sessions, UpdateRef(s) \/ GitFails(s) \/ FailTask(s) \/ RefuseTask(s) \/ Unlock(s)
      PROVE  HaltInv'
  BY <1>0, <1>5 DEF UpdateRef, GitFails, FailTask, RefuseTask, Unlock, HaltInv
<1>6. ASSUME NEW s \in Sessions, ObserveHead(s) \/ ResetAny(s) \/ CompleteCommit(s)
      PROVE  HaltInv'
  BY <1>0, <1>6 DEF ObserveHead, ResetAny, CompleteCommit, HaltInv
<1>7. ASSUME NEW s \in Sessions, JournalStep(s)
      PROVE  HaltInv'
  BY <1>0, <1>7 DEF JournalStep, StartJournal, CloseCycle, ControlLock, CommitControlFiles, HaltInv
<1>8. ASSUME NEW s \in Sessions, Crash(s)
      PROVE  HaltInv'
  BY <1>0, <1>8 DEF Crash, HaltInv
<1>9. CASE HaltDirective \/ HaltRun \/ HaltBarrier
  BY <1>0, <1>9 DEF HaltDirective, HaltRun, HaltBarrier, HaltInv
<1>10. CASE \/ \E c \in late : LateUpdateRef(c)
            \/ SupersedePlan \/ \E t \in Tasks : Replan(t)
            \/ \E ts \in SUBSET Tasks : UserCommit(ts)
            \/ \E plan \in SUBSET Tasks, v \in Versions, auto \in BOOLEAN : Settle(plan, v, auto)
            \/ \E t \in Tasks, v \in Versions : UserEdit(t, v)
            \/ UNCHANGED vars
  <2>1. UNCHANGED <<at, lock, halt, halter>>
    BY <1>10 DEF LateUpdateRef, SupersedePlan, Replan, UserCommit, Settle, UserEdit, vars
  <2> QED
    BY <1>0, <2>1 DEF HaltInv
<1> QED
  BY <1>1, <1>2, <1>3, <1>4, <1>5, <1>6, <1>7, <1>8, <1>9, <1>10 DEF Next, CommitStep

(* Once halt-run has returned, no live session commits a task any more:    *)
(* only journal, the user and the update-refs of dead sessions move HEAD.  *)
THEOREM HaltHolds == Spec => HaltStopsTasks
<1> DEFINE Stops == halter = "returned" /\ log' # log => log'[Len(log')].by # "task" \/ late' # late
<1>1. ASSUME TypeInv, HaltInv, [Next]_vars
      PROVE  Stops
  <2> SUFFICES ASSUME halter = "returned", log' # log, late' = late
               PROVE  log'[Len(log')].by # "task"
    OBVIOUS
  <2>1. ~UNCHANGED vars
    BY DEF vars
  <2>2. ASSUME NEW s \in Sessions, UpdateRef(s)
        PROVE  FALSE
    BY <1>1, <2>2 DEF HaltInv, UpdateRef, Goto, PastCheck
  <2>3. ASSUME NEW s \in Sessions, CommitControlFiles(s)
        PROVE  log'[Len(log')].by # "task"
    BY <1>1, <2>3, ControlEntryTyped, AppendTyped DEF CommitControlFiles, TypeInv
  <2>4. ASSUME NEW c \in late, LateUpdateRef(c)
        PROVE  FALSE
    BY <2>4 DEF LateUpdateRef
  <2>5. ASSUME NEW ts \in SUBSET Tasks, UserCommit(ts)
        PROVE  log'[Len(log')].by # "task"
    <3> DEFINE e == [by |-> "user", task |-> None,
                     tree |-> [t \in Tasks |-> IF t \in ts THEN work[t] ELSE TreeAt(Len(log))[t]],
                     manifest |-> None, raced |-> FALSE]
    <3>1. TypeOK /\ Len(log) \in 0 .. Len(log)
      BY <1>1, LenProperties DEF TypeInv, TypeOK
    <3>2. TreeAt(Len(log)) \in Trees
      BY <3>1, TreeTyped
    <3>3. e \in Entries /\ e.by = "user"
      BY <3>1, <3>2 DEF Entries, Trees, TypeOK
    <3>4. log' = Append(log, e) /\ Len(log) < MaxCommits
      BY <2>5 DEF UserCommit
    <3> HIDE DEF e
    <3> QED
      BY <3>1, <3>3, <3>4, AppendTyped
  <2>6. ASSUME NEW s \in Sessions, ApproveCommit(s) \/ PublishApproval(s) \/ Crash(s)
        PROVE  FALSE
    BY <2>6 DEF ApproveCommit, PublishApproval, Crash
  <2>7. ASSUME NEW s \in Sessions, CommitStep(s), ~UpdateRef(s)
        PROVE  FALSE
    BY <2>7 DEF CommitStep, StartCommit, ResetStale, TakeCommitLock, CheckApproval, SquashMerge, MergeFails,
       Stage, Unapproved, GitFails, FailTask, RefuseTask, Unlock, ObserveHead, ResetAny, CompleteCommit
  <2>8. ASSUME NEW s \in Sessions, JournalStep(s), ~CommitControlFiles(s)
        PROVE  FALSE
    BY <2>8 DEF JournalStep, StartJournal, CloseCycle, ControlLock
  <2>9. ~HaltDirective /\ ~HaltRun /\ ~HaltBarrier /\ ~SupersedePlan /\ ~\E t \in Tasks : Replan(t)
    BY DEF HaltDirective, HaltRun, HaltBarrier, SupersedePlan, Replan
  <2>10. ~\E plan \in SUBSET Tasks, v \in Versions, auto \in BOOLEAN : Settle(plan, v, auto)
    BY DEF Settle
  <2>11. ~\E t \in Tasks, v \in Versions : UserEdit(t, v)
    BY DEF UserEdit
  <2> QED
    BY <1>1, <2>1, <2>2, <2>3, <2>4, <2>5, <2>6, <2>7, <2>8, <2>9, <2>10, <2>11 DEF Next
<1> HIDE DEF Stops
<1>2. Spec => [][Stops]_vars
  BY <1>1, InitTyped, NextTyped, HaltInit, HaltNext, PTL DEF Spec
<1> QED
  BY <1>2 DEF HaltStopsTasks, Stops

----------------------------------------------------------------------------
(* What is committed.  A session works from the approval it found, stages  *)
(* what that approval lists, and so does a commit it leaves behind; what   *)
(* journal leaves behind changes no task's files.                          *)
Approved(label, m) ==
  /\ label \in Batch => m.current = m.snap.manifest
  /\ label = "update" => m.staged = m.current.files[m.task]

SessionsApproved == \A s \in Sessions : Approved(at[s], mem[s])

LateApproved ==
  \A c \in late :
    /\ c.parent <= Len(log)
    /\ c.entry.by = "task" =>
         c.entry.tree = [TreeAt(c.parent) EXCEPT ![c.entry.task] = c.entry.manifest.files[c.entry.task]]
    /\ c.entry.by # "task" => c.entry.tree = TreeAt(c.parent) /\ c.entry.manifest = None

ApprovedInv == SessionsApproved /\ LateApproved /\ CommittedAsApproved

LEMMA ApprovedInit == Init => ApprovedInv
<1> SUFFICES ASSUME Init PROVE ApprovedInv
  OBVIOUS
<1>1. Len(log) = 0
  BY EmptySeq DEF Init
<1>2. CommittedAsApproved
  BY <1>1 DEF CommittedAsApproved
<1>3. SessionsApproved
  BY DEF Init, SessionsApproved, Approved, Batch
<1> QED
  BY <1>2, <1>3 DEF Init, ApprovedInv, LateApproved

LEMMA TreesStay ==
  ASSUME TypeOK, NEW e \in Entries, Len(log) < MaxCommits, log' = Append(log, e)
  PROVE  \A n \in 0 .. Len(log) : TreeAt(n)' = TreeAt(n) /\ (n # 0 => log'[n] = log[n])
<1>1. Len(log) \in Nat /\ \A n \in 1 .. Len(log) : log'[n] = log[n]
  BY AppendProperties, LenProperties DEF TypeOK
<1> QED
  BY <1>1 DEF TreeAt

LEMMA AppendApproved ==
  ASSUME TypeOK, CommittedAsApproved, NEW e \in Entries, Len(log) < MaxCommits, log' = Append(log, e),
         e.by = "task" => e.tree = [TreeAt(Len(log)) EXCEPT ![e.task] = e.manifest.files[e.task]]
  PROVE  CommittedAsApproved'
<1>1. Len(log) \in Nat /\ Len(log') = Len(log) + 1 /\ log'[Len(log')] = e
  BY AppendTyped, LenProperties DEF TypeOK
<1> SUFFICES ASSUME NEW n \in 1 .. Len(log'), log'[n].by = "task"
             PROVE  log'[n].tree = [TreeAt(n - 1)' EXCEPT ![log'[n].task] = log'[n].manifest.files[log'[n].task]]
  BY DEF CommittedAsApproved
<1>2. CASE n = Len(log')
  <2>1. TreeAt(n - 1)' = TreeAt(Len(log))
    BY <1>1, <1>2, TreesStay
  <2> QED
    BY <1>1, <1>2, <2>1
<1>3. CASE n # Len(log')
  <2>1. n \in 1 .. Len(log) /\ n - 1 \in 0 .. Len(log)
    BY <1>1, <1>3
  <2>2. log'[n] = log[n] /\ TreeAt(n - 1)' = TreeAt(n - 1)
    BY <2>1, TreesStay
  <2> QED
    BY <2>1, <2>2 DEF CommittedAsApproved
<1> QED
  BY <1>2, <1>3

LEMMA AppendLate ==
  ASSUME TypeOK, LateApproved, NEW e \in Entries, Len(log) < MaxCommits, log' = Append(log, e),
         late' \subseteq late
  PROVE  LateApproved'
<1> SUFFICES ASSUME NEW c \in late'
             PROVE  /\ c.parent <= Len(log')
                    /\ c.entry.by = "task" =>
                         c.entry.tree = [TreeAt(c.parent)' EXCEPT ![c.entry.task] = c.entry.manifest.files[c.entry.task]]
                    /\ c.entry.by # "task" => c.entry.tree = TreeAt(c.parent)' /\ c.entry.manifest = None
  BY DEF LateApproved
<1>1. Len(log) \in Nat /\ Len(log') = Len(log) + 1
  BY AppendTyped, LenProperties DEF TypeOK
<1>2. c \in late /\ c.parent \in Nat
  BY DEF TypeOK
<1>3. c.parent <= Len(log)
  BY <1>2 DEF LateApproved
<1>4. TreeAt(c.parent)' = TreeAt(c.parent)
  BY <1>1, <1>2, <1>3, TreesStay
<1> QED
  BY <1>1, <1>2, <1>3, <1>4 DEF LateApproved

LEMMA TaskEntryApproved ==
  ASSUME TypeInv, SessionsApproved, NEW s \in Sessions, at[s] = "update"
  PROVE  TaskEntry(s).tree =
           [TreeAt(mem[s].parent) EXCEPT ![TaskEntry(s).task] = TaskEntry(s).manifest.files[TaskEntry(s).task]]
<1>1. mem[s].staged = mem[s].snap.manifest.files[mem[s].task]
  BY DEF SessionsApproved, Approved, Batch
<1> QED
  BY <1>1 DEF TaskEntry

LEMMA StepApproved ==
  ASSUME TypeInv, SessionsApproved, NEW s \in Sessions, NEW from, NEW to, Goto(s, from, to),
         NEW m, mem' = [mem EXCEPT ![s] = m], Approved(to, m)
  PROVE  SessionsApproved'
<1>1. \A z \in Sessions : /\ mem'[z] = IF z = s THEN m ELSE mem[z]
                          /\ at'[z] = IF z = s THEN to ELSE at[z]
  BY DEF TypeInv, TypeOK, Goto
<1> SUFFICES ASSUME NEW z \in Sessions PROVE Approved(at'[z], mem'[z])
  BY DEF SessionsApproved
<1>2. CASE z = s
  BY <1>1, <1>2
<1>3. CASE z # s
  BY <1>1, <1>3 DEF SessionsApproved
<1> QED
  BY <1>2, <1>3

(* The steps that leave HEAD and what dead sessions left alone.            *)
LEMMA QuietApproved ==
  ASSUME TypeInv, ApprovedInv, UNCHANGED <<log, late>>, SessionsApproved'
  PROVE  ApprovedInv'
  BY DEF ApprovedInv, LateApproved, CommittedAsApproved, TreeAt

LEMMA RacedApproved ==
  ASSUME TypeInv, SessionsApproved, NEW c, NEW s \in Sessions
  PROVE  Approved(at[s], Raced(c)[s])
<1>1. mem[s] \in Memories /\ Approved(at[s], mem[s])
  BY DEF TypeInv, TypeOK, SessionsApproved
<1>2. Raced(c)[s] \in {mem[s], [mem[s] EXCEPT !.raced = TRUE]}
  BY DEF Raced
<1> QED
  BY <1>1, <1>2 DEF Approved, Memories

LEMMA SessionApproved ==
  ASSUME TypeInv, ApprovedInv, NEW s \in Sessions, ApproveCommit(s) \/ PublishApproval(s) \/ CommitStep(s)
  PROVE  ApprovedInv'
<1>0. /\ TypeOK
      /\ mem[s] \in Memories /\ mem[s].parent <= Len(log)
      /\ SessionsApproved /\ Approved(at[s], mem[s])
      /\ mem \in [Sessions -> Memories]
  BY DEF TypeInv, TypeOK, ParentKnown, ApprovedInv, SessionsApproved
<1>1. ASSUME NEW from, NEW to \in {"idle", "reset"}, Goto(s, from, to), Remember(s, NoMemory),
             UNCHANGED <<log, late>>
      PROVE  ApprovedInv'
  <2>1. Approved(to, NoMemory)
    BY DEF Approved, Batch
  <2> QED
    BY <1>0, <1>1, <2>1, StepApproved, QuietApproved DEF Remember
<1>2. ASSUME NEW from, NEW to, Goto(s, from, to), mem' = mem, UNCHANGED <<log, late>>, Approved(to, mem[s])
      PROVE  ApprovedInv'
  <2>1. mem' = [mem EXCEPT ![s] = mem[s]]
    BY <1>0, <1>2
  <2> QED
    BY <1>0, <1>2, <2>1, StepApproved, QuietApproved
<1>3. ASSUME NEW from, NEW to, Goto(s, from, to), NEW m, Remember(s, m), UNCHANGED <<log, late>>, Approved(to, m)
      PROVE  ApprovedInv'
  BY <1>0, <1>3, StepApproved, QuietApproved DEF Remember
<1>4. CASE ApproveCommit(s)
  <2>1. PICK ts : Remember(s, [NoMemory EXCEPT !.snap = run, !.todo = ts, !.current = Manifest(ts)])
    BY <1>4 DEF ApproveCommit
  <2>2. \A m : Approved("approve", m)
    BY DEF Approved, Batch
  <2> QED
    BY <1>3, <1>4, <2>1, <2>2 DEF ApproveCommit, Others
<1>5. CASE PublishApproval(s) \/ ResetStale(s) \/ MergeFails(s) \/ ResetAny(s) \/ CompleteCommit(s)
  BY <1>1, <1>5 DEF PublishApproval, ResetStale, MergeFails, ResetAny, CompleteCommit, Leave, Others
<1>6. CASE StartCommit(s)
  <2> DEFINE m == [NoMemory EXCEPT !.snap = run, !.current = Manifest(run.tasks), !.todo = run.tasks,
                                   !.expected = Len(log)]
  <2>1. Remember(s, m) /\ UNCHANGED <<log, late>>
    BY <1>6 DEF StartCommit, Others
  <2>2. m.current = Manifest(run.tasks) /\ m.snap = run
    BY DEF NoMemory
  <2> HIDE DEF m
  <2>3. CASE Goto(s, "idle", "next") /\ Manifest(run.tasks) = run.manifest
    BY <1>3, <2>1, <2>2, <2>3 DEF Approved
  <2>4. CASE Goto(s, "idle", "stale")
    BY <1>3, <2>1, <2>4 DEF Approved, Batch
  <2> QED
    BY <1>6, <2>3, <2>4 DEF StartCommit
<1>7. CASE TakeCommitLock(s)
  <2>1. PICK t : Remember(s, [mem[s] EXCEPT !.task = t])
    BY <1>7 DEF TakeCommitLock
  <2>2. Goto(s, "next", "check") /\ at[s] = "next" /\ UNCHANGED <<log, late>>
    BY <1>7 DEF TakeCommitLock, Goto, Others
  <2>3. Approved("check", [mem[s] EXCEPT !.task = t])
    BY <1>0, <2>2 DEF Approved, Batch, Memories
  <2> QED
    BY <1>3, <2>1, <2>2, <2>3
<1>8. CASE CheckApproval(s)
  <2>1. Goto(s, "check", Verdict(s)) /\ at[s] = "check" /\ UNCHANGED <<log, late>>
    BY <1>8 DEF CheckApproval, Goto, Others
  <2>2. CASE Verdict(s) \in {"idle", "reset"}
    BY <1>1, <1>8, <2>1, <2>2 DEF CheckApproval
  <2>3. CASE Verdict(s) \in {"merge", "stage"}
    <3>1. Remember(s, mem[s])
      BY <1>8, <2>3 DEF CheckApproval
    <3>2. Approved(Verdict(s), mem[s])
      BY <1>0, <2>1, <2>3 DEF Approved, Batch
    <3> QED
      BY <1>3, <2>1, <3>1, <3>2
  <2> QED
    BY <2>2, <2>3 DEF Verdict
<1>9. CASE SquashMerge(s)
  <2> DEFINE n == [mem[s] EXCEPT !.touched = @ \cup {mem[s].task}]
  <2>1. Goto(s, "merge", "stage") /\ at[s] = "merge" /\ UNCHANGED <<log, late>>
    BY <1>9 DEF SquashMerge, Goto, Others
  <2>2. Remember(s, n) \/ Remember(s, mem[s])
    BY <1>9 DEF SquashMerge
  <2>3. Approved("stage", n) /\ Approved("stage", mem[s])
    BY <1>0, <2>1 DEF Approved, Batch, Memories
  <2> HIDE DEF n
  <2> QED
    BY <1>3, <2>1, <2>2, <2>3
<1>10. CASE Stage(s)
  <2> DEFINE to == StagedVerdict(s, Len(log), work[mem[s].task])
             m == [mem[s] EXCEPT !.parent = Len(log), !.staged = work[mem[s].task]]
  <2>1. Goto(s, "stage", to) /\ at[s] = "stage" /\ Remember(s, m) /\ UNCHANGED <<log, late>>
    BY <1>10 DEF Stage, Goto, Others
  <2>2. to = "update" => work[mem[s].task] = mem[s].current.files[mem[s].task]
    BY DEF StagedVerdict
  <2>3. /\ m.current = mem[s].current /\ m.snap = mem[s].snap /\ m.task = mem[s].task
        /\ m.staged = work[mem[s].task]
    BY <1>0 DEF Memories
  <2> HIDE DEF m, to
  <2>4. Approved(to, m)
    BY <1>0, <2>1, <2>2, <2>3 DEF Approved, Batch
  <2> QED
    BY <1>3, <2>1, <2>4
<1>11. CASE Unapproved(s) \/ GitFails(s) \/ Unlock(s)
  <2>1. PICK to \in {"refuse", "fail", "observe"} : Goto(s, at[s], to)
    BY <1>11 DEF Unapproved, GitFails, Unlock, Goto
  <2>2. at[s] \in {"stage", "update", "unlock"} /\ mem' = mem /\ UNCHANGED <<log, late>>
    BY <1>11 DEF Unapproved, GitFails, Unlock, Goto, Others
  <2>3. Approved(to, mem[s])
    BY <1>0, <2>2 DEF Approved, Batch
  <2> QED
    BY <1>2, <2>1, <2>2, <2>3
<1>12. CASE UpdateRef(s)
  <2>1. /\ at' = [at EXCEPT ![s] = "unlock"] /\ at[s] = "update" /\ mem' = Raced(mem[s].snap.manifest) /\ late' = late
        /\ Len(log) = mem[s].parent /\ Len(log) < MaxCommits /\ log' = Append(log, TaskEntry(s))
    BY <1>0, <1>12 DEF UpdateRef, Goto, Others
  <2>2. \A z \in Sessions : Approved(at[z], mem'[z])
    BY <1>0, <2>1, RacedApproved
  <2>6. Approved("unlock", mem'[s])
    BY <2>1, <2>2 DEF Approved, Batch
  <2>3. SessionsApproved'
    BY <1>0, <2>1, <2>2, <2>6 DEF SessionsApproved, TypeOK
  <2>4. CommittedAsApproved'
    BY <1>0, <2>1, TaskEntryTyped, TaskEntryApproved, AppendApproved DEF ApprovedInv
  <2>5. LateApproved'
    BY <1>0, <2>1, TaskEntryTyped, AppendLate DEF ApprovedInv
  <2> QED
    BY <2>3, <2>4, <2>5 DEF ApprovedInv
<1>13. CASE FailTask(s) \/ RefuseTask(s)
  BY <1>1, <1>13 DEF FailTask, RefuseTask, Others
<1>14. CASE ObserveHead(s)
  <2> DEFINE m == [mem[s] EXCEPT !.expected = Len(log), !.todo = @ \ {mem[s].task}]
  <2>1. Goto(s, "observe", "next") /\ at[s] = "observe" /\ Remember(s, m) /\ UNCHANGED <<log, late>>
    BY <1>14 DEF ObserveHead, Goto, Others
  <2>2. m.current = mem[s].current /\ m.snap = mem[s].snap
    BY <1>0 DEF Memories
  <2> HIDE DEF m
  <2>3. Approved("next", m)
    BY <1>0, <2>1, <2>2 DEF Approved, Batch
  <2> QED
    BY <1>3, <2>1, <2>3
<1> QED
  BY <1>4, <1>5, <1>6, <1>7, <1>8, <1>9, <1>10, <1>11, <1>12, <1>13, <1>14 DEF CommitStep

(* Steps outside a commit, whose sessions are in no batch.                 *)
LEMMA ApprovedOutside ==
  \A m : Approved("idle", m) /\ Approved("journal", m) /\ Approved("control", m) /\ Approved("controlUpdate", m)
  BY DEF Approved, Batch

LEMMA TouchedApproved ==
  ASSUME NEW m \in [Sessions -> Memories], NEW ts, NEW s \in Sessions,
         NEW label, Approved(label, m[s])
  PROVE  Approved(label, Touched(m, ts)[s])
<1>1. Touched(m, ts)[s] = [m[s] EXCEPT !.touched = @ \cup (ts \cap m[s].snap.tasks)]
  BY DEF Touched
<1> QED
  BY <1>1 DEF Approved, Memories

LEMMA JournalApproved ==
  ASSUME TypeInv, ApprovedInv, NEW s \in Sessions, JournalStep(s)
  PROVE  ApprovedInv'
<1>0. TypeOK /\ mem \in [Sessions -> Memories] /\ SessionsApproved
  BY DEF TypeInv, TypeOK, ApprovedInv
<1>1. CASE StartJournal(s)
  BY <1>0, <1>1, ApprovedOutside, StepApproved, QuietApproved DEF StartJournal, Remember, Others
<1>2. CASE CloseCycle(s)
  <2>1. PICK to, m : to \in {"control", "idle"} /\ Goto(s, "journal", to) /\ mem' = [mem EXCEPT ![s] = m]
    <3>1. mem = [mem EXCEPT ![s] = mem[s]]
      BY <1>0
    <3> QED
      BY <1>2, <3>1 DEF CloseCycle, Leave, Remember
  <2> QED
    BY <1>0, <1>2, <2>1, ApprovedOutside, StepApproved, QuietApproved DEF CloseCycle, Others
<1>3. CASE ControlLock(s)
  BY <1>0, <1>3, ApprovedOutside, StepApproved, QuietApproved DEF ControlLock, Remember, Others
<1>4. CASE CommitControlFiles(s) /\ log' = log
  <2>1. \A z \in Sessions : Approved(at'[z], mem'[z])
    <3> SUFFICES ASSUME NEW z \in Sessions PROVE Approved(at'[z], mem'[z])
      OBVIOUS
    <3>1. at'[z] = IF z = s THEN "idle" ELSE at[z]
      BY <1>4 DEF CommitControlFiles, Goto, TypeInv, TypeOK
    <3>2. z # s => mem'[z] \in {mem[z], Raced(None)[z]}
      <4>1. Raced(None) \in [Sessions -> Memories]
        BY <1>0, RacedTyped
      <4> QED
        BY <1>0, <1>4, <4>1 DEF CommitControlFiles, Remember
    <3>3. Approved(at[z], mem[z]) /\ Approved(at[z], Raced(None)[z])
      BY <1>0, RacedApproved DEF SessionsApproved
    <3> QED
      BY <3>1, <3>2, <3>3, ApprovedOutside
  <2> QED
    BY <1>4, <2>1, QuietApproved DEF CommitControlFiles, Others, SessionsApproved
<1>5. CASE CommitControlFiles(s) /\ log' # log
  <2>1. /\ Len(log) < MaxCommits /\ log' = Append(log, ControlEntry(s)) /\ late' = late
        /\ mem' = [Raced(None) EXCEPT ![s] = NoMemory] /\ at' = [at EXCEPT ![s] = "idle"]
    BY <1>5 DEF CommitControlFiles, Goto, Others
  <2>2. SessionsApproved'
    <3> SUFFICES ASSUME NEW z \in Sessions PROVE Approved(at'[z], mem'[z])
      BY DEF SessionsApproved
    <3>1. at'[z] = IF z = s THEN "idle" ELSE at[z]
      BY <2>1 DEF TypeInv, TypeOK
    <3>2. z # s => mem'[z] = Raced(None)[z]
      BY <1>0, <2>1, RacedTyped
    <3> QED
      BY <1>0, <3>1, <3>2, RacedApproved, ApprovedOutside
  <2>3. CommittedAsApproved' /\ LateApproved'
    BY <1>0, <2>1, ControlEntryTyped, AppendApproved, AppendLate DEF ApprovedInv
  <2> QED
    BY <2>2, <2>3 DEF ApprovedInv
<1> QED
  BY <1>1, <1>2, <1>3, <1>4, <1>5 DEF JournalStep

LEMMA CrashApproved ==
  ASSUME TypeInv, ApprovedInv, NEW s \in Sessions, Crash(s)
  PROVE  ApprovedInv'
<1>0. TypeOK /\ SessionsApproved /\ mem[s].parent <= Len(log)
  BY DEF TypeInv, ParentKnown, ApprovedInv
<1>1. SessionsApproved'
  BY <1>0, ApprovedOutside, StepApproved DEF Crash, Leave, Remember
<1>2. log' = log /\ \A n : TreeAt(n)' = TreeAt(n)
  BY DEF Crash, TreeAt
<1>3. LateApproved'
  <2> DEFINE Good(c) ==
        /\ c.parent <= Len(log)
        /\ c.entry.by = "task" =>
             c.entry.tree = [TreeAt(c.parent) EXCEPT ![c.entry.task] = c.entry.manifest.files[c.entry.task]]
        /\ c.entry.by # "task" => c.entry.tree = TreeAt(c.parent) /\ c.entry.manifest = None
  <2>1. \A c \in late : Good(c)
    BY DEF ApprovedInv, LateApproved
  <2>2. at[s] = "update" => Good([parent |-> mem[s].parent, entry |-> TaskEntry(s)])
    BY <1>0, TaskEntryTyped, TaskEntryApproved
  <2>3. Good([parent |-> mem[s].parent, entry |-> ControlEntry(s)])
    BY <1>0, ControlEntryTyped DEF ControlEntry
  <2>4. \A c \in late' : Good(c)
    <3> HIDE DEF Good
    <3> QED BY <2>1, <2>2, <2>3 DEF Crash
  <2> QED
    BY <1>2, <2>4 DEF LateApproved
<1>4. CommittedAsApproved'
  BY <1>2 DEF ApprovedInv, CommittedAsApproved
<1> QED
  BY <1>1, <1>3, <1>4 DEF ApprovedInv

LEMMA LateRefApproved ==
  ASSUME TypeInv, ApprovedInv, NEW c \in late, LateUpdateRef(c)
  PROVE  ApprovedInv'
<1>0. TypeOK /\ SessionsApproved /\ c.entry \in Entries
  BY DEF TypeInv, TypeOK, ApprovedInv
<1>1. Len(log) = c.parent /\ Len(log) < MaxCommits /\ log' = Append(log, c.entry)
      /\ late' \subseteq late /\ mem' = Touched(Raced(c.entry.manifest), {c.entry.task}) /\ at' = at
  BY DEF LateUpdateRef
<1>2. SessionsApproved'
  <2> SUFFICES ASSUME NEW s \in Sessions
               PROVE  Approved(at[s], Touched(Raced(c.entry.manifest), {c.entry.task})[s])
    BY <1>1 DEF SessionsApproved
  <2> QED
    BY <1>0, RacedTyped, RacedApproved, TouchedApproved
<1>3. CommittedAsApproved'
  BY <1>0, <1>1, AppendApproved DEF ApprovedInv, LateApproved
<1>4. LateApproved'
  BY <1>0, <1>1, AppendLate DEF ApprovedInv
<1> QED
  BY <1>2, <1>3, <1>4 DEF ApprovedInv

LEMMA UserApproved ==
  ASSUME TypeInv, ApprovedInv,
         (\E t \in Tasks, v \in Versions : UserEdit(t, v)) \/ \E ts \in SUBSET Tasks : UserCommit(ts)
  PROVE  ApprovedInv'
<1>0. TypeOK /\ SessionsApproved /\ mem \in [Sessions -> Memories] /\ Len(log) \in 0 .. Len(log)
  BY LenProperties DEF TypeInv, TypeOK, ApprovedInv
<1>1. ASSUME NEW t \in Tasks, NEW v \in Versions, UserEdit(t, v)
      PROVE  ApprovedInv'
  <2>1. mem' = Touched(mem, {t}) /\ at' = at /\ UNCHANGED <<log, late>>
    BY <1>1 DEF UserEdit
  <2>2. SessionsApproved'
    <3> SUFFICES ASSUME NEW s \in Sessions PROVE Approved(at[s], Touched(mem, {t})[s])
      BY <2>1 DEF SessionsApproved
    <3> QED
      BY <1>0, TouchedApproved DEF SessionsApproved
  <2> QED
    BY <2>1, <2>2, QuietApproved
<1>2. ASSUME NEW ts \in SUBSET Tasks, UserCommit(ts)
      PROVE  ApprovedInv'
  <2> DEFINE e == [by |-> "user", task |-> None,
                   tree |-> [t \in Tasks |-> IF t \in ts THEN work[t] ELSE TreeAt(Len(log))[t]],
                   manifest |-> None, raced |-> FALSE]
  <2>1. TreeAt(Len(log)) \in Trees
    BY <1>0, TreeTyped
  <2>2. e \in Entries /\ e.by = "user"
    BY <1>0, <2>1 DEF Entries, Trees, TypeOK
  <2>3. mem' = Touched(Raced(None), ts) /\ log' = Append(log, e) /\ Len(log) < MaxCommits /\ UNCHANGED <<at, late>>
    BY <1>2 DEF UserCommit
  <2> HIDE DEF e
  <2>4. SessionsApproved'
    <3> SUFFICES ASSUME NEW s \in Sessions PROVE Approved(at[s], Touched(Raced(None), ts)[s])
      BY <2>3 DEF SessionsApproved
    <3> QED
      BY <1>0, RacedTyped, RacedApproved, TouchedApproved
  <2>5. CommittedAsApproved'
    BY <1>0, <2>2, <2>3, AppendApproved DEF ApprovedInv
  <2>6. LateApproved'
    BY <1>0, <2>2, <2>3, AppendLate DEF ApprovedInv
  <2> QED
    BY <2>4, <2>5, <2>6 DEF ApprovedInv
<1> QED
  BY <1>1, <1>2

LEMMA ApprovedNext ==
  ASSUME TypeInv, ApprovedInv, [Next]_vars
  PROVE  ApprovedInv'
<1>1. CASE \/ HaltDirective \/ HaltRun \/ HaltBarrier \/ SupersedePlan \/ \E t \in Tasks : Replan(t)
           \/ \E plan \in SUBSET Tasks, v \in Versions, auto \in BOOLEAN : Settle(plan, v, auto)
           \/ UNCHANGED vars
  <2>1. UNCHANGED <<log, late, at, mem>>
    BY <1>1 DEF HaltDirective, HaltRun, HaltBarrier, SupersedePlan, Replan, Settle, vars
  <2> QED
    BY <2>1, QuietApproved DEF ApprovedInv, SessionsApproved
<1> QED
  BY <1>1, SessionApproved, JournalApproved, CrashApproved, LateRefApproved, UserApproved DEF Next

(* Whatever is edited, merged or committed after the approval, and however *)
(* sessions die, a task's commit holds exactly what was approved.          *)
THEOREM OnlyApproved == Spec => []CommittedAsApproved
<1>1. ApprovedInv => CommittedAsApproved
  BY DEF ApprovedInv
<1> QED
  BY <1>1, InitTyped, NextTyped, ApprovedInit, ApprovedNext, PTL DEF Spec
----------------------------------------------------------------------------
(* On which HEAD a task is committed.  What a session takes for the HEAD   *)
(* of its approval is the one approved or a commit of the same approval:   *)
(* the one it expects before it looks, HEAD itself while it holds the      *)
(* lock and until it has looked again, the parent of its commit.  Where    *)
(* that fails, another commit came between, and the session is marked.     *)
Rests(history, manifest, n) ==
  \/ n = manifest.base
  \/ n \in 1 .. Len(history) /\ history[n].by = "task" /\ history[n].manifest = manifest

HeadFollowed(history, label, m) ==
  ~m.raced =>
    /\ label \in {"next", "check"} => Rests(history, m.snap.manifest, m.expected)
    /\ label \in {"merge", "stage", "unlock", "observe"} => Rests(history, m.snap.manifest, Len(history))
    /\ label = "update" => Rests(history, m.snap.manifest, m.parent)

SessionsFollow == \A s \in Sessions : HeadFollowed(log, at[s], mem[s])

LateFollows ==
  \A c \in late : c.entry.by = "task" /\ ~c.entry.raced => Rests(log, c.entry.manifest, c.parent)

HeadInv == SessionsFollow /\ LateFollows /\ HeadBoundUnlessRaced

LEMMA HeadInit == Init => HeadInv
<1> SUFFICES ASSUME Init PROVE HeadInv
  OBVIOUS
<1>1. Len(log) = 0
  BY EmptySeq DEF Init
<1>2. HeadBoundUnlessRaced
  BY <1>1 DEF HeadBoundUnlessRaced
<1>3. SessionsFollow
  BY DEF Init, SessionsFollow, HeadFollowed
<1> QED
  BY <1>2, <1>3 DEF Init, HeadInv, LateFollows

(* What rested on the history still does when the history grows.           *)
LEMMA RestStays ==
  ASSUME TypeOK, NEW e \in Entries, Len(log) < MaxCommits, log' = Append(log, e)
  PROVE  \A m, n : Rests(log, m, n) => Rests(log', m, n)
<1>1. /\ Len(log) \in Nat /\ Len(log') = Len(log) + 1
      /\ \A n \in 1 .. Len(log) : log'[n] = log[n]
  BY AppendProperties, LenProperties DEF TypeOK
<1> QED
  BY <1>1 DEF Rests

LEMMA AppendHead ==
  ASSUME TypeOK, HeadBoundUnlessRaced, NEW e \in Entries, Len(log) < MaxCommits, log' = Append(log, e),
         e.by = "task" /\ ~e.raced => Rests(log, e.manifest, Len(log))
  PROVE  HeadBoundUnlessRaced'
<1>1. /\ Len(log) \in Nat /\ Len(log') = Len(log) + 1 /\ log'[Len(log')] = e
      /\ \A n \in 1 .. Len(log) : log'[n] = log[n]
  BY AppendTyped, AppendProperties, LenProperties DEF TypeOK
<1> SUFFICES ASSUME NEW n \in 1 .. Len(log'), log'[n].by = "task", ~log'[n].raced
             PROVE  \/ n - 1 = log'[n].manifest.base
                    \/ n > 1 /\ log'[n - 1].by = "task" /\ log'[n - 1].manifest = log'[n].manifest
  BY DEF HeadBoundUnlessRaced, OnApprovedHead
<1>2. CASE n = Len(log')
  <2>1. log'[n] = e /\ n - 1 = Len(log)
    BY <1>1, <1>2
  <2>2. Rests(log, e.manifest, n - 1)
    BY <2>1
  <2>3. CASE n - 1 = e.manifest.base
    BY <2>1, <2>3
  <2>4. CASE n - 1 \in 1 .. Len(log) /\ log[n - 1].by = "task" /\ log[n - 1].manifest = e.manifest
    BY <1>1, <2>1, <2>4
  <2> QED
    BY <2>2, <2>3, <2>4 DEF Rests
<1>3. CASE n # Len(log')
  <2>1. n \in 1 .. Len(log) /\ log'[n] = log[n]
    BY <1>1, <1>3
  <2>2. OnApprovedHead(n)
    BY <2>1 DEF HeadBoundUnlessRaced
  <2>3. n > 1 => log'[n - 1] = log[n - 1]
    BY <1>1, <2>1
  <2> QED
    BY <2>1, <2>2, <2>3 DEF OnApprovedHead
<1> QED
  BY <1>2, <1>3

LEMMA AppendLateHead ==
  ASSUME TypeOK, LateFollows, NEW e \in Entries, Len(log) < MaxCommits, log' = Append(log, e),
         late' \subseteq late
  PROVE  LateFollows'
  BY RestStays DEF LateFollows

(* A commit leaves every session that it does not mark where it was.       *)
LEMMA AppendFollowed ==
  ASSUME TypeInv, SessionsApproved, SessionsFollow, NEW e \in Entries, e.by # "task" => e.manifest = None,
         Len(log) < MaxCommits, log' = Append(log, e), NEW s \in Sessions
  PROVE  HeadFollowed(log', at[s], Raced(e.manifest)[s])
<1>1. /\ TypeOK /\ mem[s] \in Memories /\ HeadFollowed(log, at[s], mem[s])
      /\ Known(at[s], mem[s]) /\ Approved(at[s], mem[s])
  BY DEF TypeInv, TypeOK, ManifestKnown, SessionsApproved, SessionsFollow
<1>2. \A m, n : Rests(log, m, n) => Rests(log', m, n)
  BY <1>1, RestStays
<1>3. CASE Raced(e.manifest)[s] = [mem[s] EXCEPT !.raced = TRUE]
  BY <1>1, <1>3 DEF HeadFollowed, Memories
<1>4. CASE Raced(e.manifest)[s] = mem[s] /\ at[s] \in {"merge", "stage", "unlock", "observe"}
           /\ mem[s].snap.manifest = e.manifest
  <2>1. mem[s].snap.manifest \in Manifests
    BY <1>1, <1>4 DEF Known, Approved, Batch
  <2>2. e.by = "task"
    BY <1>4, <2>1, NoneAssumption
  <2>3. Len(log) \in Nat /\ Len(log') = Len(log) + 1 /\ log'[Len(log')] = e
    BY <1>1, AppendTyped, LenProperties DEF TypeOK
  <2>4. Rests(log', mem[s].snap.manifest, Len(log'))
    BY <1>4, <2>2, <2>3 DEF Rests
  <2> QED
    BY <1>4, <2>4 DEF HeadFollowed
<1>5. CASE Raced(e.manifest)[s] = mem[s] /\ at[s] \notin {"merge", "stage", "unlock", "observe"}
  BY <1>1, <1>2, <1>5 DEF HeadFollowed
<1> QED
  BY <1>3, <1>4, <1>5 DEF Raced

LEMMA StepFollowed ==
  ASSUME TypeInv, SessionsFollow, log' = log, NEW s \in Sessions, NEW from, NEW to, Goto(s, from, to),
         NEW m, mem' = [mem EXCEPT ![s] = m], HeadFollowed(log, to, m)
  PROVE  SessionsFollow'
<1>1. \A z \in Sessions : /\ mem'[z] = IF z = s THEN m ELSE mem[z]
                          /\ at'[z] = IF z = s THEN to ELSE at[z]
  BY DEF TypeInv, TypeOK, Goto
<1> SUFFICES ASSUME NEW z \in Sessions PROVE HeadFollowed(log, at'[z], mem'[z])
  BY DEF SessionsFollow
<1>2. CASE z = s
  BY <1>1, <1>2
<1>3. CASE z # s
  BY <1>1, <1>3 DEF SessionsFollow
<1> QED
  BY <1>2, <1>3

LEMMA QuietFollowed ==
  ASSUME HeadInv, UNCHANGED <<log, late>>, SessionsFollow'
  PROVE  HeadInv'
  BY DEF HeadInv, LateFollows, HeadBoundUnlessRaced, OnApprovedHead

(* Where a session stands for no approval.                                 *)
LEMMA FollowedOutside ==
  ASSUME NEW label \in Labels \ (Batch \ {"fail", "refuse"}), NEW m
  PROVE  HeadFollowed(log, label, m)
  BY DEF HeadFollowed, Batch

(* Other sessions' files are noted, which no HEAD depends on.              *)
LEMMA TouchedFollowed ==
  ASSUME NEW m \in [Sessions -> Memories], NEW ts, NEW s \in Sessions, NEW history, NEW label,
         HeadFollowed(history, label, m[s])
  PROVE  HeadFollowed(history, label, Touched(m, ts)[s])
<1> DEFINE n == Touched(m, ts)[s]
<1>1. n = [m[s] EXCEPT !.touched = @ \cup (ts \cap m[s].snap.tasks)]
  BY DEF Touched
<1>2. n.raced = m[s].raced /\ n.snap = m[s].snap /\ n.expected = m[s].expected /\ n.parent = m[s].parent
  BY <1>1 DEF Memories
<1> HIDE DEF n
<1> QED
  BY <1>2 DEF HeadFollowed, n

LEMMA SessionFollows ==
  ASSUME TypeInv, ApprovedInv, HeadInv, NEW s \in Sessions,
         ApproveCommit(s) \/ PublishApproval(s) \/ CommitStep(s)
  PROVE  HeadInv'
<1>0. /\ TypeOK /\ mem \in [Sessions -> Memories] /\ mem[s] \in Memories
      /\ SessionsApproved /\ SessionsFollow /\ HeadFollowed(log, at[s], mem[s])
  BY DEF TypeInv, TypeOK, ApprovedInv, HeadInv, SessionsFollow
<1>1. ASSUME NEW from, NEW to \in Labels \ (Batch \ {"fail", "refuse"}), Goto(s, from, to),
             NEW m, mem' = [mem EXCEPT ![s] = m], UNCHANGED <<log, late>>
      PROVE  HeadInv'
  BY <1>0, <1>1, FollowedOutside, StepFollowed, QuietFollowed
<1>2. ASSUME NEW from, NEW to, Goto(s, from, to), NEW m, mem' = [mem EXCEPT ![s] = m],
             UNCHANGED <<log, late>>, HeadFollowed(log, to, m)
      PROVE  HeadInv'
  BY <1>0, <1>2, StepFollowed, QuietFollowed
<1>3. mem = [mem EXCEPT ![s] = mem[s]]
  BY <1>0
<1>4. CASE ApproveCommit(s)
  <2>1. PICK m : mem' = [mem EXCEPT ![s] = m]
    BY <1>4 DEF ApproveCommit, Remember
  <2>2. Goto(s, "idle", "approve") /\ UNCHANGED <<log, late>>
    BY <1>4 DEF ApproveCommit, Others
  <2>3. "approve" \in Labels \ (Batch \ {"fail", "refuse"})
    BY DEF Labels, Batch
  <2> QED
    BY <1>1, <2>1, <2>2, <2>3
<1>5. CASE PublishApproval(s) \/ ResetStale(s) \/ MergeFails(s) \/ ResetAny(s) \/ CompleteCommit(s)
  <2>1. PICK from : Leave(s, from)
    BY <1>5 DEF PublishApproval, ResetStale, MergeFails, ResetAny, CompleteCommit
  <2>2. UNCHANGED <<log, late>>
    BY <1>5 DEF PublishApproval, ResetStale, MergeFails, ResetAny, CompleteCommit, Others
  <2>3. "idle" \in Labels \ (Batch \ {"fail", "refuse"})
    BY DEF Labels, Batch
  <2> QED
    BY <1>1, <2>1, <2>2, <2>3 DEF Leave, Remember
<1>6. CASE StartCommit(s)
  <2> DEFINE m == [NoMemory EXCEPT !.snap = run, !.current = Manifest(run.tasks), !.todo = run.tasks,
                                   !.expected = Len(log)]
  <2>1. mem' = [mem EXCEPT ![s] = m] /\ UNCHANGED <<log, late>>
    BY <1>6 DEF StartCommit, Remember, Others
  <2>2. m.snap = run /\ m.expected = Len(log)
    BY DEF NoMemory
  <2>3. CASE Goto(s, "idle", "next") /\ Manifest(run.tasks) = run.manifest
    <3>1. run.manifest.base = Len(log)
      BY <2>3 DEF Manifest
    <3> HIDE DEF m
    <3>2. HeadFollowed(log, "next", m)
      BY <2>2, <3>1 DEF HeadFollowed, Rests
    <3> QED
      BY <1>2, <2>1, <2>3, <3>2
  <2>4. CASE Goto(s, "idle", "stale")
    <3> HIDE DEF m
    <3>1. "stale" \in Labels \ (Batch \ {"fail", "refuse"})
      BY DEF Labels, Batch
    <3> QED
      BY <1>1, <2>1, <2>4, <3>1
  <2> QED
    BY <1>6, <2>3, <2>4 DEF StartCommit
<1>7. CASE TakeCommitLock(s)
  <2>1. PICK t : mem' = [mem EXCEPT ![s] = [mem[s] EXCEPT !.task = t]]
    BY <1>7 DEF TakeCommitLock, Remember
  <2> DEFINE m == [mem[s] EXCEPT !.task = t]
  <2>2. m.raced = mem[s].raced /\ m.snap = mem[s].snap /\ m.expected = mem[s].expected
    BY <1>0 DEF Memories
  <2>3. Goto(s, "next", "check") /\ at[s] = "next" /\ UNCHANGED <<log, late>> /\ mem' = [mem EXCEPT ![s] = m]
    BY <1>7, <2>1 DEF TakeCommitLock, Goto, Others
  <2> HIDE DEF m
  <2>4. HeadFollowed(log, "check", m)
    BY <1>0, <2>2, <2>3 DEF HeadFollowed
  <2> QED
    BY <1>2, <2>3, <2>4
<1>8. CASE CheckApproval(s)
  <2>1. Goto(s, "check", Verdict(s)) /\ at[s] = "check" /\ UNCHANGED <<log, late>>
    BY <1>8 DEF CheckApproval, Goto, Others
  <2>2. CASE Verdict(s) \in {"idle", "reset"}
    <3>1. Verdict(s) \in Labels \ (Batch \ {"fail", "refuse"})
      BY <2>2 DEF Labels, Batch
    <3>2. mem' = [mem EXCEPT ![s] = NoMemory]
      BY <1>8, <2>2 DEF CheckApproval, Remember
    <3> QED
      BY <1>1, <2>1, <3>1, <3>2
  <2>3. CASE Verdict(s) \in {"merge", "stage"}
    <3>1. mem' = [mem EXCEPT ![s] = mem[s]]
      BY <1>8, <2>3 DEF CheckApproval, Remember
    <3>2. Len(log) = mem[s].expected
      BY <2>3 DEF Verdict
    <3>3. HeadFollowed(log, Verdict(s), mem[s])
      BY <1>0, <2>1, <2>3, <3>2 DEF HeadFollowed
    <3> QED
      BY <1>2, <2>1, <3>1, <3>3
  <2> QED
    BY <2>2, <2>3 DEF Verdict
<1>9. CASE SquashMerge(s)
  <2> DEFINE n == [mem[s] EXCEPT !.touched = @ \cup {mem[s].task}]
  <2>1. Goto(s, "merge", "stage") /\ at[s] = "merge" /\ UNCHANGED <<log, late>>
    BY <1>9 DEF SquashMerge, Goto, Others
  <2>2. mem' = [mem EXCEPT ![s] = n] \/ mem' = [mem EXCEPT ![s] = mem[s]]
    BY <1>9 DEF SquashMerge, Remember
  <2>3. n.raced = mem[s].raced /\ n.snap = mem[s].snap
    BY <1>0 DEF Memories
  <2> HIDE DEF n
  <2>4. HeadFollowed(log, "stage", mem[s]) /\ HeadFollowed(log, "stage", n)
    BY <1>0, <2>1, <2>3 DEF HeadFollowed
  <2> QED
    BY <1>2, <2>1, <2>2, <2>4
<1>10. CASE Stage(s)
  <2> DEFINE to == StagedVerdict(s, Len(log), work[mem[s].task])
             m == [mem[s] EXCEPT !.parent = Len(log), !.staged = work[mem[s].task]]
  <2>1. Goto(s, "stage", to) /\ at[s] = "stage" /\ mem' = [mem EXCEPT ![s] = m] /\ UNCHANGED <<log, late>>
    BY <1>10 DEF Stage, Goto, Remember, Others
  <2>2. to \in {"unlock", "refuse", "update"}
    BY DEF StagedVerdict
  <2>3. m.raced = mem[s].raced /\ m.snap = mem[s].snap /\ m.parent = Len(log)
    BY <1>0 DEF Memories
  <2> HIDE DEF m, to
  <2>4. HeadFollowed(log, to, m)
    BY <1>0, <2>1, <2>2, <2>3 DEF HeadFollowed
  <2> QED
    BY <1>2, <2>1, <2>4
<1>11. CASE Unapproved(s) \/ GitFails(s)
  <2>1. PICK to \in {"refuse", "fail"} : Goto(s, at[s], to)
    BY <1>11 DEF Unapproved, GitFails, Goto
  <2>2. mem' = [mem EXCEPT ![s] = mem[s]] /\ UNCHANGED <<log, late>>
    BY <1>3, <1>11 DEF Unapproved, GitFails, Others
  <2>3. to \in Labels \ (Batch \ {"fail", "refuse"})
    BY DEF Labels, Batch
  <2> QED
    BY <1>1, <2>1, <2>2, <2>3
<1>12. CASE UpdateRef(s)
  <2> DEFINE e == TaskEntry(s)
             m == mem[s].snap.manifest
  <2>1. /\ at' = [at EXCEPT ![s] = "unlock"] /\ at[s] = "update" /\ mem' = Raced(m) /\ late' = late
        /\ Len(log) = mem[s].parent /\ Len(log) < MaxCommits /\ log' = Append(log, e)
    BY <1>12 DEF UpdateRef, Goto, Others
  <2>2. e \in Entries /\ e.by = "task" /\ e.manifest = m /\ e.raced = mem[s].raced
    BY TaskEntryTyped DEF TaskEntry
  <2>3. ~mem[s].raced => Rests(log, m, Len(log))
    BY <1>0, <2>1 DEF HeadFollowed
  <2> HIDE DEF e
  <2>4. HeadBoundUnlessRaced' /\ LateFollows'
    BY <1>0, <2>1, <2>2, <2>3, AppendHead, AppendLateHead DEF HeadInv
  <2>5. \A z \in Sessions : HeadFollowed(log', at[z], mem'[z])
    BY <1>0, <2>1, <2>2, AppendFollowed
  <2>6. HeadFollowed(log', "unlock", mem'[s])
    <3>1. mem'[s] = mem[s]
      BY <2>1 DEF Raced
    <3>2. Len(log) \in Nat /\ Len(log') = Len(log) + 1 /\ log'[Len(log')] = e
      BY <1>0, <2>1, <2>2, AppendTyped, LenProperties DEF TypeOK
    <3>3. Rests(log', m, Len(log'))
      BY <2>2, <3>2 DEF Rests
    <3> QED
      BY <3>1, <3>3 DEF HeadFollowed
  <2>7. SessionsFollow'
    BY <1>0, <2>1, <2>5, <2>6 DEF SessionsFollow, TypeOK
  <2> QED
    BY <2>4, <2>7 DEF HeadInv
<1>13. CASE FailTask(s) \/ RefuseTask(s)
  <2>1. PICK from : Goto(s, from, "reset")
    BY <1>13 DEF FailTask, RefuseTask
  <2>2. mem' = [mem EXCEPT ![s] = NoMemory] /\ UNCHANGED <<log, late>>
    BY <1>13 DEF FailTask, RefuseTask, Remember, Others
  <2>3. "reset" \in Labels \ (Batch \ {"fail", "refuse"})
    BY DEF Labels, Batch
  <2> QED
    BY <1>1, <2>1, <2>2, <2>3
<1>14. CASE Unlock(s)
  <2>1. Goto(s, "unlock", "observe") /\ at[s] = "unlock" /\ UNCHANGED <<log, late>>
        /\ mem' = [mem EXCEPT ![s] = mem[s]]
    BY <1>3, <1>14 DEF Unlock, Goto, Others
  <2>2. HeadFollowed(log, "observe", mem[s])
    BY <1>0, <2>1 DEF HeadFollowed
  <2> QED
    BY <1>2, <2>1, <2>2
<1>15. CASE ObserveHead(s)
  <2> DEFINE m == [mem[s] EXCEPT !.expected = Len(log), !.todo = @ \ {mem[s].task}]
  <2>1. Goto(s, "observe", "next") /\ at[s] = "observe" /\ UNCHANGED <<log, late>> /\ mem' = [mem EXCEPT ![s] = m]
    BY <1>15 DEF ObserveHead, Goto, Remember, Others
  <2>2. m.raced = mem[s].raced /\ m.snap = mem[s].snap /\ m.expected = Len(log)
    BY <1>0 DEF Memories
  <2> HIDE DEF m
  <2>3. HeadFollowed(log, "next", m)
    BY <1>0, <2>1, <2>2 DEF HeadFollowed
  <2> QED
    BY <1>2, <2>1, <2>3
<1> QED
  BY <1>4, <1>5, <1>6, <1>7, <1>8, <1>9, <1>10, <1>11, <1>12, <1>13, <1>14, <1>15 DEF CommitStep

LEMMA JournalFollows ==
  ASSUME TypeInv, ApprovedInv, HeadInv, NEW s \in Sessions, JournalStep(s)
  PROVE  HeadInv'
<1>0. /\ TypeOK /\ mem \in [Sessions -> Memories] /\ SessionsApproved /\ SessionsFollow
      /\ {"journal", "control", "controlUpdate", "idle"} \subseteq Labels \ (Batch \ {"fail", "refuse"})
  BY DEF TypeInv, TypeOK, ApprovedInv, HeadInv, Labels, Batch
<1>1. ASSUME NEW from, NEW to \in {"journal", "control", "controlUpdate", "idle"}, Goto(s, from, to),
             NEW m, mem' = [mem EXCEPT ![s] = m], UNCHANGED <<log, late>>
      PROVE  HeadInv'
  BY <1>0, <1>1, FollowedOutside, StepFollowed, QuietFollowed
<1>2. CASE StartJournal(s)
  BY <1>1, <1>2 DEF StartJournal, Remember, Others
<1>3. CASE CloseCycle(s)
  <2>1. PICK to, m : to \in {"control", "idle"} /\ Goto(s, "journal", to) /\ mem' = [mem EXCEPT ![s] = m]
    <3>1. mem = [mem EXCEPT ![s] = mem[s]]
      BY <1>0
    <3> QED
      BY <1>3, <3>1 DEF CloseCycle, Leave, Remember
  <2>2. UNCHANGED <<log, late>>
    BY <1>3 DEF CloseCycle, Others
  <2> QED
    BY <1>1, <2>1, <2>2
<1>4. CASE ControlLock(s)
  BY <1>1, <1>4 DEF ControlLock, Remember, Others
<1>5. CASE CommitControlFiles(s)
  <2>1. at' = [at EXCEPT ![s] = "idle"] /\ Goto(s, "controlUpdate", "idle") /\ late' = late
    BY <1>5 DEF CommitControlFiles, Goto, Others
  <2>2. CASE log' = log /\ Remember(s, NoMemory)
    BY <1>1, <2>1, <2>2 DEF Remember
  <2>3. CASE /\ Len(log) < MaxCommits /\ log' = Append(log, ControlEntry(s))
             /\ mem' = [Raced(None) EXCEPT ![s] = NoMemory]
    <3> DEFINE e == ControlEntry(s)
    <3>1. e \in Entries /\ e.by = "control" /\ e.manifest = None
      BY ControlEntryTyped DEF ControlEntry
    <3>2. log' = Append(log, e)
      BY <2>3
    <3> HIDE DEF e
    <3>3. HeadBoundUnlessRaced' /\ LateFollows'
      BY <1>0, <2>1, <2>3, <3>1, <3>2, AppendHead, AppendLateHead DEF HeadInv
    <3>4. \A z \in Sessions : HeadFollowed(log', at[z], Raced(None)[z])
      BY <1>0, <2>3, <3>1, <3>2, AppendFollowed
    <3>5. \A z \in Sessions : z # s => at'[z] = at[z] /\ mem'[z] = Raced(None)[z]
      BY <1>0, <2>1, <2>3, RacedTyped DEF TypeOK
    <3>6. HeadFollowed(log', at'[s], mem'[s])
      <4>1. at'[s] = "idle"
        BY <1>0, <2>1 DEF TypeOK
      <4> QED
        BY <4>1 DEF HeadFollowed
    <3>7. SessionsFollow'
      BY <3>4, <3>5, <3>6 DEF SessionsFollow
    <3> QED
      BY <3>3, <3>7 DEF HeadInv
  <2> QED
    BY <1>5, <2>2, <2>3 DEF CommitControlFiles
<1> QED
  BY <1>2, <1>3, <1>4, <1>5 DEF JournalStep

LEMMA CrashFollows ==
  ASSUME TypeInv, HeadInv, NEW s \in Sessions, Crash(s)
  PROVE  HeadInv'
<1>0. SessionsFollow /\ HeadFollowed(log, at[s], mem[s]) /\ log' = log
  BY DEF HeadInv, SessionsFollow, Crash
<1>1. SessionsFollow'
  <2>1. HeadFollowed(log, "idle", NoMemory)
    BY DEF HeadFollowed
  <2> QED
    BY <1>0, <2>1, StepFollowed DEF Crash, Leave, Remember
<1>2. LateFollows'
  <2> DEFINE Good(c) == c.entry.by = "task" /\ ~c.entry.raced => Rests(log, c.entry.manifest, c.parent)
  <2>1. \A c \in late : Good(c)
    BY DEF HeadInv, LateFollows
  <2>2. at[s] = "update" => Good([parent |-> mem[s].parent, entry |-> TaskEntry(s)])
    BY <1>0 DEF TaskEntry, HeadFollowed
  <2>3. Good([parent |-> mem[s].parent, entry |-> ControlEntry(s)])
    BY DEF ControlEntry
  <2>4. \A c \in late' : Good(c)
    <3> HIDE DEF Good
    <3> QED BY <2>1, <2>2, <2>3 DEF Crash
  <2> QED
    BY <1>0, <2>4 DEF LateFollows
<1> QED
  BY <1>0, <1>1, <1>2 DEF HeadInv, HeadBoundUnlessRaced, OnApprovedHead

LEMMA LateRefFollows ==
  ASSUME TypeInv, ApprovedInv, HeadInv, NEW c \in late, LateUpdateRef(c)
  PROVE  HeadInv'
<1> DEFINE e == c.entry
<1>0. TypeOK /\ SessionsApproved /\ SessionsFollow /\ e \in Entries
  BY DEF TypeInv, TypeOK, ApprovedInv, HeadInv
<1>1. /\ Len(log) = c.parent /\ Len(log) < MaxCommits /\ log' = Append(log, e) /\ late' \subseteq late
      /\ mem' = Touched(Raced(e.manifest), {e.task}) /\ at' = at
  BY DEF LateUpdateRef
<1>2. e.by = "task" /\ ~e.raced => Rests(log, e.manifest, Len(log))
  BY <1>1 DEF HeadInv, LateFollows
<1>6. e.by # "task" => e.manifest = None
  BY DEF ApprovedInv, LateApproved
<1> HIDE DEF e
<1>3. HeadBoundUnlessRaced' /\ LateFollows'
  BY <1>0, <1>1, <1>2, AppendHead, AppendLateHead DEF HeadInv
<1>4. \A z \in Sessions : HeadFollowed(log', at[z], Raced(e.manifest)[z])
  BY <1>0, <1>1, <1>6, AppendFollowed
<1>5. SessionsFollow'
  <2> SUFFICES ASSUME NEW z \in Sessions
               PROVE  HeadFollowed(log', at[z], Touched(Raced(e.manifest), {e.task})[z])
    BY <1>1 DEF SessionsFollow
  <2> QED
    BY <1>0, <1>4, RacedTyped, TouchedFollowed
<1> QED
  BY <1>3, <1>5 DEF HeadInv

LEMMA UserFollows ==
  ASSUME TypeInv, ApprovedInv, HeadInv,
         (\E t \in Tasks, v \in Versions : UserEdit(t, v)) \/ \E ts \in SUBSET Tasks : UserCommit(ts)
  PROVE  HeadInv'
<1>0. /\ TypeOK /\ SessionsApproved /\ SessionsFollow /\ mem \in [Sessions -> Memories]
      /\ Len(log) \in 0 .. Len(log)
  BY LenProperties DEF TypeInv, TypeOK, ApprovedInv, HeadInv
<1>1. ASSUME NEW t \in Tasks, NEW v \in Versions, UserEdit(t, v)
      PROVE  HeadInv'
  <2>1. mem' = Touched(mem, {t}) /\ at' = at /\ UNCHANGED <<log, late>>
    BY <1>1 DEF UserEdit
  <2>2. SessionsFollow'
    <3> SUFFICES ASSUME NEW s \in Sessions PROVE HeadFollowed(log, at[s], Touched(mem, {t})[s])
      BY <2>1 DEF SessionsFollow
    <3> QED
      BY <1>0, TouchedFollowed DEF SessionsFollow
  <2> QED
    BY <2>1, <2>2, QuietFollowed
<1>2. ASSUME NEW ts \in SUBSET Tasks, UserCommit(ts)
      PROVE  HeadInv'
  <2> DEFINE e == [by |-> "user", task |-> None,
                   tree |-> [t \in Tasks |-> IF t \in ts THEN work[t] ELSE TreeAt(Len(log))[t]],
                   manifest |-> None, raced |-> FALSE]
  <2>1. TreeAt(Len(log)) \in Trees
    BY <1>0, TreeTyped
  <2>2. e \in Entries /\ e.by = "user" /\ e.manifest = None
    BY <1>0, <2>1 DEF Entries, Trees, TypeOK
  <2>3. mem' = Touched(Raced(None), ts) /\ log' = Append(log, e) /\ Len(log) < MaxCommits /\ UNCHANGED <<at, late>>
    BY <1>2 DEF UserCommit
  <2> HIDE DEF e
  <2>4. HeadBoundUnlessRaced' /\ LateFollows'
    BY <1>0, <2>2, <2>3, AppendHead, AppendLateHead DEF HeadInv
  <2>5. \A s \in Sessions : HeadFollowed(log', at[s], Raced(None)[s])
    BY <1>0, <2>2, <2>3, AppendFollowed
  <2>6. SessionsFollow'
    <3> SUFFICES ASSUME NEW s \in Sessions PROVE HeadFollowed(log', at[s], Touched(Raced(None), ts)[s])
      BY <2>3 DEF SessionsFollow
    <3> QED
      BY <1>0, <2>5, RacedTyped, TouchedFollowed
  <2> QED
    BY <2>4, <2>6 DEF HeadInv
<1> QED
  BY <1>1, <1>2

LEMMA FollowsNext ==
  ASSUME TypeInv, ApprovedInv, HeadInv, [Next]_vars
  PROVE  HeadInv'
<1>1. CASE \/ HaltDirective \/ HaltRun \/ HaltBarrier \/ SupersedePlan \/ \E t \in Tasks : Replan(t)
           \/ \E plan \in SUBSET Tasks, v \in Versions, auto \in BOOLEAN : Settle(plan, v, auto)
           \/ UNCHANGED vars
  <2>1. UNCHANGED <<log, late, at, mem>>
    BY <1>1 DEF HaltDirective, HaltRun, HaltBarrier, SupersedePlan, Replan, Settle, vars
  <2> QED
    BY <2>1, QuietFollowed DEF HeadInv, SessionsFollow
<1> QED
  BY <1>1, SessionFollows, JournalFollows, CrashFollows, LateRefFollows, UserFollows DEF Next

(* A task is committed on the approved HEAD or on commits of the same      *)
(* approval, for as long as no other commit comes between two looks the    *)
(* session takes at HEAD.                                                  *)
THEOREM OnApprovedHeads == Spec => []HeadBoundUnlessRaced
<1>1. HeadInv => HeadBoundUnlessRaced
  BY DEF HeadInv
<1> QED
  BY <1>1, InitTyped, NextTyped, ApprovedInit, ApprovedNext, HeadInit, FollowsNext, PTL DEF Spec

----------------------------------------------------------------------------
(* What a committed run holds.  Until run.json is written again, a batch   *)
(* accounts for every task of its approval: its files are still the        *)
(* approved ones, or its commit is in HEAD, unless others changed them.    *)
Accounted(tree, files, r, label, m) ==
  label \in Batch =>
    /\ m.snap.stamp <= r.stamp
    /\ m.todo \subseteq m.snap.tasks
    /\ label # "next" => m.task \in m.todo
    /\ label = "merge" => m.task \in Isolated
    /\ m.snap.stamp = r.stamp =>
         /\ m.snap = r
         /\ \A t \in m.snap.tasks :
              \/ t \in m.touched
              \/ /\ t \notin Isolated => files[t] = m.snap.manifest.files[t]
                 /\ t \notin m.todo \/ (t = m.task /\ label \in {"unlock", "observe"})
                      => tree[t] = m.snap.manifest.files[t]
                 /\ t = m.task /\ label = "stage" /\ t \in Isolated => files[t] # tree[t]

SessionsAccount == \A s \in Sessions : Accounted(TreeAt(HEAD), work, run, at[s], mem[s])

(* A session that passed the check of an earlier approval holds the lock,  *)
(* so no session has committed anything for the present one.               *)
EarlierFirst ==
  \A z, s \in Sessions :
    at[z] \in PastCheck /\ mem[z].snap.manifest # run.manifest /\ at[s] \in Batch /\ mem[s].snap.stamp = run.stamp
      => at[s] = "next" /\ mem[s].todo = mem[s].snap.tasks

AccountInv == SessionsAccount /\ EarlierFirst

LEMMA AccountInit == Init => AccountInv
  BY DEF Init, AccountInv, SessionsAccount, EarlierFirst, Accounted, Batch, PastCheck

(* A batch stays accounted for as long as what others change is noted.     *)
LEMMA Drift ==
  ASSUME NEW tree, NEW files, NEW tree2, NEW files2, NEW r, NEW label, NEW m, NEW m2,
         Accounted(tree, files, r, label, m),
         m2.snap = m.snap, m2.todo = m.todo, m2.task = m.task, m.touched \subseteq m2.touched,
         label \in Batch /\ m.snap = r =>
           \A t \in m.snap.tasks :
             \/ t \in m2.touched
             \/ /\ files2[t] = files[t] \/ (t \in Isolated /\ label # "stage")
                /\ \/ tree2[t] = tree[t]
                   \/ label # "stage" /\ tree2[t] = m.snap.manifest.files[t]
                   \/ label = "next" /\ m.todo = m.snap.tasks
  PROVE  Accounted(tree2, files2, r, label, m2)
<1> SUFFICES ASSUME label \in Batch
             PROVE  /\ m.snap.stamp <= r.stamp
                    /\ m.todo \subseteq m.snap.tasks
                    /\ label # "next" => m.task \in m.todo
                    /\ label = "merge" => m.task \in Isolated
                    /\ m.snap.stamp = r.stamp =>
                         /\ m.snap = r
                         /\ \A t \in m.snap.tasks :
                              \/ t \in m2.touched
                              \/ /\ t \notin Isolated => files2[t] = m.snap.manifest.files[t]
                                 /\ t \notin m.todo \/ (t = m.task /\ label \in {"unlock", "observe"})
                                      => tree2[t] = m.snap.manifest.files[t]
                                 /\ t = m.task /\ label = "stage" /\ t \in Isolated => files2[t] # tree2[t]
  BY DEF Accounted
<1>1. /\ m.snap.stamp <= r.stamp
      /\ m.todo \subseteq m.snap.tasks
      /\ label # "next" => m.task \in m.todo
      /\ label = "merge" => m.task \in Isolated
      /\ m.snap.stamp = r.stamp => m.snap = r
  BY DEF Accounted
<1> SUFFICES ASSUME m.snap.stamp = r.stamp, NEW t \in m.snap.tasks, t \notin m2.touched
             PROVE  /\ t \notin Isolated => files2[t] = m.snap.manifest.files[t]
                    /\ t \notin m.todo \/ (t = m.task /\ label \in {"unlock", "observe"})
                         => tree2[t] = m.snap.manifest.files[t]
                    /\ t = m.task /\ label = "stage" /\ t \in Isolated => files2[t] # tree2[t]
  BY <1>1
<1>2. /\ t \notin Isolated => files[t] = m.snap.manifest.files[t]
      /\ t \notin m.todo \/ (t = m.task /\ label \in {"unlock", "observe"})
           => tree[t] = m.snap.manifest.files[t]
      /\ t = m.task /\ label = "stage" /\ t \in Isolated => files[t] # tree[t]
  BY DEF Accounted
<1>3. /\ files2[t] = files[t] \/ (t \in Isolated /\ label # "stage")
      /\ \/ tree2[t] = tree[t]
         \/ label # "stage" /\ tree2[t] = m.snap.manifest.files[t]
         \/ label = "next" /\ m.todo = m.snap.tasks
  BY <1>1
<1> QED
  BY <1>2, <1>3

(* Any later write of run.json ends what the batch has to account for.     *)
LEMMA Outdated ==
  ASSUME NEW tree, NEW files, NEW tree2, NEW files2, NEW r, NEW r2, NEW label, NEW m \in Memories,
         Accounted(tree, files, r, label, m), r \in Runs, r2.stamp = r.stamp + 1
  PROVE  Accounted(tree2, files2, r2, label, m) /\ (label \in Batch => m.snap.stamp # r2.stamp)
<1>1. m.snap.stamp \in Nat /\ r.stamp \in Nat
  BY DEF Memories, Runs
<1> QED
  BY <1>1 DEF Accounted

LEMMA AccountedOutside ==
  ASSUME NEW tree, NEW files, NEW r, NEW label \in Labels \ Batch, NEW m
  PROVE  Accounted(tree, files, r, label, m)
  BY DEF Accounted

LEMMA Writes ==
  ASSUME NEW r \in Runs, WriteRun(r)
  PROVE  run'.stamp = run.stamp + 1 /\ run'.phase = r.phase
  BY DEF WriteRun, Stamped, Runs

LEMMA WriteAccounted ==
  ASSUME TypeInv, AccountInv, run'.stamp = run.stamp + 1,
         \A s \in Sessions : at'[s] \in Labels /\ (at'[s] \in Batch => at'[s] = at[s] /\ mem'[s] = mem[s])
  PROVE  AccountInv'
<1>1. \A s \in Sessions :
        /\ Accounted(TreeAt(HEAD)', work', run', at'[s], mem'[s])
        /\ at'[s] \in Batch => mem'[s].snap.stamp # run'.stamp
  <2> SUFFICES ASSUME NEW s \in Sessions
               PROVE  /\ Accounted(TreeAt(HEAD)', work', run', at'[s], mem'[s])
                      /\ at'[s] \in Batch => mem'[s].snap.stamp # run'.stamp
    OBVIOUS
  <2>1. CASE at'[s] \in Batch
    <3>1. mem[s] \in Memories /\ run \in Runs /\ Accounted(TreeAt(HEAD), work, run, at[s], mem[s])
      BY DEF TypeInv, TypeOK, AccountInv, SessionsAccount
    <3>2. at'[s] = at[s] /\ mem'[s] = mem[s] /\ at[s] \in Batch
      BY <2>1
    <3> QED
      BY <3>1, <3>2, Outdated, ZenonT(60)
  <2>2. CASE at'[s] \notin Batch
    BY <2>2, AccountedOutside
  <2> QED
    BY <2>1, <2>2
<1> QED
  BY <1>1 DEF AccountInv, SessionsAccount, EarlierFirst

(* How a session moves without leaving anybody the lock too early.         *)
InTurn(s) ==
  \/ at'[s] \notin Batch
  \/ /\ at[s] \in Batch /\ mem'[s].snap = mem[s].snap
     /\ at'[s] \in PastCheck => at[s] \in PastCheck \/ mem[s].snap.manifest = run.manifest
     /\ \/ at'[s] = at[s] /\ mem'[s].todo = mem[s].todo
        \/ at[s] # "next"
        \/ lock = None
  \/ at'[s] = "next" /\ mem'[s].todo = mem'[s].snap.tasks

LEMMA TurnsKept ==
  ASSUME HaltInv, EarlierFirst, run' = run, \A s \in Sessions : InTurn(s)
  PROVE  EarlierFirst'
<1> SUFFICES ASSUME NEW z \in Sessions, NEW s \in Sessions,
                    at'[z] \in PastCheck, mem'[z].snap.manifest # run.manifest,
                    at'[s] \in Batch, mem'[s].snap.stamp = run.stamp
             PROVE  at'[s] = "next" /\ mem'[s].todo = mem'[s].snap.tasks
  BY DEF EarlierFirst
<1>1. at[z] \in PastCheck /\ mem[z].snap.manifest # run.manifest
  BY DEF InTurn, PastCheck, Batch
<1>2. lock = z /\ lock # None
  BY <1>1, NoneAssumption DEF HaltInv, PastCheck, UnderLock
<1>3. CASE at[s] \in Batch /\ mem'[s].snap = mem[s].snap
  <2>1. at[s] = "next" /\ mem[s].todo = mem[s].snap.tasks
    BY <1>1, <1>3 DEF EarlierFirst
  <2> QED
    BY <1>2, <1>3, <2>1 DEF InTurn
<1>4. CASE at'[s] = "next" /\ mem'[s].todo = mem'[s].snap.tasks
  BY <1>4
<1> QED
  BY <1>3, <1>4 DEF InTurn

(* A step of one session, with or without a commit, changed files or notes *)
(* in what the others remember.                                            *)
LEMMA StepAccounted ==
  ASSUME TypeInv, HaltInv, AccountInv, run' = run, NEW s \in Sessions,
         at' = [at EXCEPT ![s] = at'[s]],
         InTurn(s), Accounted(TreeAt(HEAD)', work', run, at'[s], mem'[s]),
         \A z \in Sessions \ {s} :
           /\ mem'[z].snap = mem[z].snap /\ mem'[z].todo = mem[z].todo
           /\ Accounted(TreeAt(HEAD)', work', run, at[z], mem'[z])
  PROVE  AccountInv'
<1>1. \A z \in Sessions \ {s} : at'[z] = at[z] /\ at[z] \in Labels
  BY DEF TypeInv, TypeOK
<1>2. SessionsAccount'
  BY <1>1 DEF SessionsAccount
<1>3. \A z \in Sessions \ {s} : InTurn(z)
  BY <1>1 DEF InTurn
<1>4. EarlierFirst'
  BY <1>3, TurnsKept DEF AccountInv
<1> QED
  BY <1>2, <1>4 DEF AccountInv

(* ... when it changes nothing but what the session remembers.             *)
LEMMA QuietAccounted ==
  ASSUME TypeInv, HaltInv, AccountInv, UNCHANGED <<run, log, work>>,
         NEW s \in Sessions, NEW from, NEW to, Goto(s, from, to), NEW m, mem' = [mem EXCEPT ![s] = m],
         Accounted(TreeAt(HEAD), work, run, to, m),
         \/ to \notin Batch
         \/ /\ at[s] \in Batch /\ m.snap = mem[s].snap
            /\ to \in PastCheck => at[s] \in PastCheck \/ m.snap.manifest = run.manifest
            /\ at[s] # "next" \/ lock = None
         \/ to = "next" /\ m.todo = m.snap.tasks
  PROVE  AccountInv'
<1>1. /\ at' = [at EXCEPT ![s] = at'[s]] /\ at'[s] = to /\ mem'[s] = m
      /\ \A z \in Sessions \ {s} : mem'[z] = mem[z]
  BY DEF TypeInv, TypeOK, Goto
<1>2. TreeAt(HEAD)' = TreeAt(HEAD)
  BY DEF TreeAt
<1>3. InTurn(s)
  BY <1>1 DEF InTurn
<1>4. \A z \in Sessions \ {s} : Accounted(TreeAt(HEAD)', work', run, at[z], mem'[z])
  BY <1>1, <1>2 DEF AccountInv, SessionsAccount
<1>5. Accounted(TreeAt(HEAD)', work', run, at'[s], mem'[s])
  BY <1>1, <1>2
<1> QED
  BY <1>1, <1>3, <1>4, <1>5, StepAccounted

(* A session writes run.json, or finds it changed, and leaves.             *)
LEMMA LeaveAccounted ==
  ASSUME TypeInv, HaltInv, AccountInv, NEW s \in Sessions, NEW from, Leave(s, from), UNCHANGED <<log, work>>,
         run' = run \/ (\E r \in Runs : WriteRun(r))
  PROVE  AccountInv'
<1>1. "idle" \in Labels \ Batch /\ at' = [at EXCEPT ![s] = "idle"] /\ mem' = [mem EXCEPT ![s] = NoMemory]
  BY DEF Leave, Goto, Remember, Labels, Batch
<1>2. CASE run' = run
  BY <1>1, <1>2, AccountedOutside, QuietAccounted DEF Leave
<1>3. CASE run'.stamp = run.stamp + 1
  <2>1. \A z \in Sessions : at'[z] \in Labels /\ (at'[z] \in Batch => at'[z] = at[z] /\ mem'[z] = mem[z])
    BY <1>1 DEF TypeInv, TypeOK
  <2> QED
    BY <1>3, <2>1, WriteAccounted
<1> QED
  BY <1>2, <1>3, Writes

LEMMA TransitionWrites ==
  ASSUME NEW s, NEW r \in Runs, TransitionIfUnchanged(s, r)
  PROVE  run' = run \/ (\E q \in Runs : WriteRun(q))
  BY DEF TransitionIfUnchanged

LEMMA SessionLeaves ==
  ASSUME TypeInv, HaltInv, AccountInv, NEW s \in Sessions,
         \/ PublishApproval(s) \/ ResetStale(s) \/ MergeFails(s) \/ ResetAny(s) \/ CompleteCommit(s) \/ Crash(s)
  PROVE  AccountInv'
<1>0. TypeOK /\ run \in Runs /\ mem[s] \in Memories
  BY DEF TypeInv, TypeOK
<1>1. PICK from : Leave(s, from)
  BY DEF PublishApproval, ResetStale, MergeFails, ResetAny, CompleteCommit, Crash
<1>2. UNCHANGED <<log, work>>
  BY DEF PublishApproval, ResetStale, MergeFails, ResetAny, CompleteCommit, Crash, Board
<1>3. run' = run \/ (\E r \in Runs : WriteRun(r))
  <2>1. CASE MergeFails(s) \/ Crash(s)
    BY <2>1 DEF MergeFails, Crash
  <2>2. CASE PublishApproval(s)
    <3>1. [run EXCEPT !.phase = "commit-approved", !.tasks = mem[s].todo, !.manifest = mem[s].current] \in Runs
      BY <1>0 DEF Runs, Memories, Phases
    <3> QED
      BY <2>2, <3>1, TransitionWrites DEF PublishApproval
  <2>3. CASE ResetStale(s) \/ ResetAny(s)
    BY <1>0, <2>3, Resets, TransitionWrites DEF ResetStale, ResetAny
  <2>4. CASE CompleteCommit(s)
    <3>1. [run EXCEPT !.phase = "committed", !.manifest = None] \in Runs
      BY <1>0 DEF Runs, Phases
    <3> QED
      BY <2>4, <3>1, TransitionWrites DEF CompleteCommit
  <2> QED
    BY <2>1, <2>2, <2>3, <2>4
<1> QED
  BY <1>1, <1>2, <1>3, LeaveAccounted

LEMMA SessionAccounts ==
  ASSUME TypeInv, HaltInv, AccountInv, NEW s \in Sessions,
         \/ ApproveCommit(s) \/ StartCommit(s) \/ TakeCommitLock(s) \/ CheckApproval(s) \/ Stage(s)
         \/ Unapproved(s) \/ GitFails(s) \/ Unlock(s) \/ ObserveHead(s)
  PROVE  AccountInv'
<1> DEFINE tree == TreeAt(HEAD)
<1>0. /\ TypeOK /\ mem[s] \in Memories /\ run \in Runs
      /\ Accounted(tree, work, run, at[s], mem[s])
      /\ {"approve", "stale", "idle", "reset"} \subseteq Labels \ Batch
  BY DEF TypeInv, TypeOK, AccountInv, SessionsAccount, Labels, Batch
<1> HIDE DEF tree
<1>1. ASSUME NEW from, NEW to, Goto(s, from, to), NEW m, mem' = [mem EXCEPT ![s] = m],
             UNCHANGED <<run, log, work>>, Accounted(tree, work, run, to, m),
             \/ to \notin Batch
             \/ /\ at[s] \in Batch /\ m.snap = mem[s].snap
                /\ to \in PastCheck => at[s] \in PastCheck \/ m.snap.manifest = run.manifest
                /\ at[s] # "next" \/ lock = None
             \/ to = "next" /\ m.todo = m.snap.tasks
      PROVE  AccountInv'
  BY <1>1, QuietAccounted DEF tree
<1>2. mem = [mem EXCEPT ![s] = mem[s]]
  BY DEF TypeInv, TypeOK
<1>3. CASE ApproveCommit(s)
  <2>1. PICK m : mem' = [mem EXCEPT ![s] = m]
    BY <1>3 DEF ApproveCommit, Remember
  <2>2. Goto(s, "idle", "approve") /\ UNCHANGED <<run, log, work>>
    BY <1>3 DEF ApproveCommit
  <2> QED
    BY <1>0, <1>1, <2>1, <2>2, AccountedOutside
<1>4. CASE StartCommit(s)
  <2> DEFINE m == [NoMemory EXCEPT !.snap = run, !.current = Manifest(run.tasks), !.todo = run.tasks,
                                   !.expected = Len(log)]
  <2>1. mem' = [mem EXCEPT ![s] = m] /\ UNCHANGED <<run, log, work>>
    BY <1>4 DEF StartCommit, Remember
  <2>2. m.snap = run /\ m.todo = run.tasks
    BY DEF NoMemory
  <2> HIDE DEF m
  <2>3. CASE Goto(s, "idle", "next") /\ Manifest(run.tasks) = run.manifest
    <3>1. \A t \in run.tasks \ Isolated : run.manifest.files[t] = work[t]
      BY <2>3 DEF Manifest
    <3>2. run.stamp \in Nat
      BY <1>0 DEF Runs
    <3>3. Accounted(tree, work, run, "next", m)
      BY <2>2, <3>1, <3>2 DEF Accounted
    <3> QED
      BY <1>1, <2>1, <2>2, <2>3, <3>3
  <2>4. CASE Goto(s, "idle", "stale")
    BY <1>0, <1>1, <2>1, <2>4, AccountedOutside
  <2> QED
    BY <1>4, <2>3, <2>4 DEF StartCommit
<1>5. CASE TakeCommitLock(s)
  <2>1. PICK t \in mem[s].todo : mem' = [mem EXCEPT ![s] = [mem[s] EXCEPT !.task = t]]
    BY <1>5 DEF TakeCommitLock, Remember
  <2> DEFINE m == [mem[s] EXCEPT !.task = t]
  <2>2. /\ m.snap = mem[s].snap /\ m.todo = mem[s].todo /\ m.touched = mem[s].touched /\ m.task = t
        /\ mem' = [mem EXCEPT ![s] = m]
    BY <1>0, <2>1 DEF Memories
  <2>3. Goto(s, "next", "check") /\ at[s] = "next" /\ UNCHANGED <<run, log, work>> /\ lock = None
    BY <1>5 DEF TakeCommitLock, Goto
  <2> HIDE DEF m
  <2>4. Accounted(tree, work, run, "check", m)
    BY <1>0, <2>1, <2>2, <2>3 DEF Accounted, Batch
  <2> QED
    BY <1>1, <2>2, <2>3, <2>4 DEF Batch, PastCheck
<1>6. CASE CheckApproval(s)
  <2>1. Goto(s, "check", Verdict(s)) /\ at[s] = "check" /\ UNCHANGED <<run, log, work>>
    BY <1>6 DEF CheckApproval, Goto
  <2>2. CASE Verdict(s) \in {"idle", "reset"}
    <3>1. mem' = [mem EXCEPT ![s] = NoMemory]
      BY <1>6, <2>2 DEF CheckApproval, Remember
    <3> QED
      BY <1>0, <1>1, <2>1, <2>2, <3>1, AccountedOutside
  <2>3. CASE Verdict(s) \in {"merge", "stage"}
    <3>1. mem' = [mem EXCEPT ![s] = mem[s]]
      BY <1>6, <2>3 DEF CheckApproval, Remember
    <3>2. run.manifest = mem[s].snap.manifest /\ (Verdict(s) = "merge" <=> mem[s].task \in Isolated)
      BY <2>3 DEF Verdict, Superseded
    <3>3. Accounted(tree, work, run, Verdict(s), mem[s])
      BY <1>0, <2>1, <2>3, <3>2 DEF Accounted, Batch
    <3> QED
      BY <1>1, <2>1, <3>1, <3>2, <3>3 DEF Batch
  <2> QED
    BY <2>2, <2>3 DEF Verdict
<1>7. CASE Stage(s)
  <2> DEFINE to == StagedVerdict(s, Len(log), work[mem[s].task])
             m == [mem[s] EXCEPT !.parent = Len(log), !.staged = work[mem[s].task]]
  <2>1. /\ Goto(s, "stage", to) /\ at[s] = "stage" /\ mem' = [mem EXCEPT ![s] = m]
        /\ UNCHANGED <<run, log, work>>
    BY <1>7 DEF Stage, Goto, Remember
  <2>2. to \in {"unlock", "refuse", "update"} /\ (to = "unlock" => work[mem[s].task] = tree[mem[s].task])
    BY DEF StagedVerdict, tree
  <2>3. m.snap = mem[s].snap /\ m.todo = mem[s].todo /\ m.touched = mem[s].touched /\ m.task = mem[s].task
    BY <1>0 DEF Memories
  <2> HIDE DEF m, to
  <2>4. Accounted(tree, work, run, to, m)
    BY <1>0, <2>1, <2>2, <2>3 DEF Accounted, Batch
  <2> QED
    BY <1>1, <2>1, <2>2, <2>3, <2>4 DEF Batch, PastCheck
<1>8. CASE Unapproved(s) \/ GitFails(s) \/ Unlock(s)
  <2>1. PICK to \in {"refuse", "fail", "observe"} : /\ Goto(s, at[s], to)
                                                    /\ to = "observe" => at[s] = "unlock"
    BY <1>8 DEF Unapproved, GitFails, Unlock, Goto
  <2>2. mem' = [mem EXCEPT ![s] = mem[s]] /\ UNCHANGED <<run, log, work>> /\ at[s] \in {"stage", "update", "unlock"}
    BY <1>2, <1>8 DEF Unapproved, GitFails, Unlock, Goto
  <2>3. Accounted(tree, work, run, to, mem[s])
    BY <1>0, <2>1, <2>2 DEF Accounted, Batch
  <2> QED
    BY <1>1, <2>1, <2>2, <2>3 DEF Batch, PastCheck
<1>9. CASE ObserveHead(s)
  <2> DEFINE m == [mem[s] EXCEPT !.expected = Len(log), !.todo = @ \ {mem[s].task}]
  <2>1. Goto(s, "observe", "next") /\ at[s] = "observe" /\ UNCHANGED <<run, log, work>> /\ mem' = [mem EXCEPT ![s] = m]
    BY <1>9 DEF ObserveHead, Goto, Remember
  <2>2. m.snap = mem[s].snap /\ m.todo = mem[s].todo \ {mem[s].task} /\ m.touched = mem[s].touched
    BY <1>0 DEF Memories
  <2> HIDE DEF m
  <2>3. Accounted(tree, work, run, "next", m)
    BY <1>0, <2>1, <2>2 DEF Accounted, Batch
  <2> QED
    BY <1>1, <2>1, <2>2, <2>3 DEF Batch, PastCheck
<1> QED
  BY <1>3, <1>4, <1>5, <1>6, <1>7, <1>8, <1>9

LEMMA AppendTree ==
  ASSUME TypeOK, NEW e \in Entries, Len(log) < MaxCommits, log' = Append(log, e)
  PROVE  TreeAt(HEAD)' = e.tree
<1>1. Len(log) \in Nat /\ Len(log') = Len(log) + 1 /\ log'[Len(log')] = e
  BY AppendTyped, LenProperties DEF TypeOK
<1> QED
  BY <1>1 DEF TreeAt

LEMMA RacedSame ==
  ASSUME TypeOK, NEW c, NEW s \in Sessions
  PROVE  /\ Raced(c)[s] \in Memories
         /\ Raced(c)[s].snap = mem[s].snap /\ Raced(c)[s].todo = mem[s].todo
         /\ Raced(c)[s].task = mem[s].task /\ Raced(c)[s].touched = mem[s].touched
  BY DEF TypeOK, Raced, Memories

LEMMA TouchedSame ==
  ASSUME NEW m \in [Sessions -> Memories], NEW ts, NEW s \in Sessions
  PROVE  /\ Touched(m, ts)[s].snap = m[s].snap /\ Touched(m, ts)[s].todo = m[s].todo
         /\ Touched(m, ts)[s].task = m[s].task
         /\ Touched(m, ts)[s].touched = m[s].touched \cup (ts \cap m[s].snap.tasks)
  BY DEF Touched, Memories

(* Whoever is under the lock, nobody else is staging.                      *)
LEMMA AloneUnderLock ==
  ASSUME HaltInv, NEW s \in Sessions, at[s] \in UnderLock, NEW z \in Sessions \ {s}
  PROVE  at[z] # "stage"
  BY DEF HaltInv, UnderLock

(* The merge of a worktree's result, and taking it out again.              *)
LEMMA MergeAccounts ==
  ASSUME TypeInv, HaltInv, AccountInv, NEW s \in Sessions, SquashMerge(s) \/ FailTask(s) \/ RefuseTask(s)
  PROVE  AccountInv'
<1> DEFINE tree == TreeAt(HEAD)
<1>0. /\ TypeOK /\ mem[s] \in Memories /\ work \in [Tasks -> Versions] /\ at \in [Sessions -> Labels]
      /\ mem \in [Sessions -> Memories]
      /\ \A z \in Sessions : Accounted(tree, work, run, at[z], mem[z])
  BY DEF TypeInv, TypeOK, AccountInv, SessionsAccount, Trees
<1>1. run' = run /\ log' = log
  BY DEF SquashMerge, FailTask, RefuseTask
<1>2. TreeAt(HEAD)' = tree
  BY <1>1 DEF TreeAt
<1> HIDE DEF tree
<1>3. at[s] \in UnderLock /\ at' = [at EXCEPT ![s] = at'[s]]
  BY <1>0 DEF SquashMerge, FailTask, RefuseTask, Goto, UnderLock
<1>4. \A z \in Sessions \ {s} : mem'[z] = mem[z]
  BY DEF SquashMerge, FailTask, RefuseTask, Remember, TypeInv, TypeOK
<1>5. \A t \in Tasks : work'[t] = work[t] \/ t \in Isolated
  <2>1. CASE SquashMerge(s)
    <3>1. mem[s].task \in Isolated
      BY <1>0, <2>1 DEF SquashMerge, Goto, Accounted, Batch
    <3> QED
      BY <1>0, <2>1, <3>1 DEF SquashMerge
  <2>2. CASE FailTask(s) \/ RefuseTask(s)
    BY <1>0, <2>2 DEF FailTask, RefuseTask, Unmerged
  <2> QED
    BY <2>1, <2>2
<1>6. ASSUME NEW z \in Sessions \ {s}
      PROVE  Accounted(tree, work', run, at[z], mem[z])
  <2>1. at[z] # "stage" /\ mem[z].snap.tasks \subseteq Tasks
    BY <1>0, <1>3, AloneUnderLock DEF Memories, Runs
  <2> QED
    BY <1>0, <1>5, <2>1, Drift
<1>7. Accounted(tree, work', run, at'[s], mem'[s]) /\ InTurn(s)
  <2>1. CASE SquashMerge(s)
    <3> DEFINE n == [mem[s] EXCEPT !.touched = @ \cup {mem[s].task}]
    <3>1. at[s] = "merge" /\ at'[s] = "stage" /\ work = tree
      BY <1>0, <2>1 DEF SquashMerge, Goto, tree
    <3>2. /\ n.snap = mem[s].snap /\ n.todo = mem[s].todo /\ n.task = mem[s].task
          /\ n.touched = mem[s].touched \cup {mem[s].task}
      BY <1>0 DEF Memories
    <3>3. mem[s].task \in Tasks
      BY <3>1, TaskKnown DEF Batch
    <3>4. PICK v : /\ work' = [work EXCEPT ![mem[s].task] = v]
                   /\ mem'[s] = IF v = work[mem[s].task] THEN n ELSE mem[s]
      BY <1>0, <2>1 DEF SquashMerge, Remember
    <3> HIDE DEF n
    <3>5. work'[mem[s].task] = v /\ \A t \in Tasks : t # mem[s].task => work'[t] = work[t]
      BY <1>0, <3>3, <3>4
    <3>6. mem[s].snap.tasks \subseteq Tasks
      BY <1>0 DEF Memories, Runs
    <3>7. InTurn(s)
      BY <3>1, <3>2, <3>4 DEF InTurn, Batch, PastCheck
    <3>8. Accounted(tree, work', run, "stage", mem'[s])
      <4>1. CASE v = work[mem[s].task]
        <5>1. mem'[s] = n /\ work' = work
          BY <1>0, <3>4, <4>1
        <5> QED
          BY <1>0, <3>1, <3>2, <5>1 DEF Accounted, Batch
      <4>2. CASE v # work[mem[s].task]
        <5>1. mem'[s] = mem[s] /\ Accounted(tree, work, run, "merge", mem[s])
          BY <1>0, <3>1, <3>4, <4>2
        <5> QED
          BY <1>0, <1>5, <3>1, <3>5, <3>6, <4>2, <5>1 DEF Accounted, Batch
      <4> QED
        BY <4>1, <4>2
    <3> QED
      BY <3>1, <3>7, <3>8
  <2>2. CASE FailTask(s) \/ RefuseTask(s)
    <3>1. at'[s] = "reset" /\ "reset" \in Labels \ Batch
      BY <1>0, <2>2 DEF FailTask, RefuseTask, Goto, Labels, Batch
    <3> QED
      BY <3>1, AccountedOutside DEF InTurn
  <2> QED
    BY <2>1, <2>2
<1> QED
  BY <1>1, <1>2, <1>3, <1>4, <1>6, <1>7, StepAccounted

(* A commit of the same approval is what the others account for; one of an *)
(* earlier approval finds them waiting for the lock.                       *)
LEMMA CommitAccounts ==
  ASSUME TypeInv, HaltInv, ApprovedInv, AccountInv, NEW s \in Sessions, UpdateRef(s)
  PROVE  AccountInv'
<1> DEFINE tree == TreeAt(HEAD)
           k == mem[s].task
           M == mem[s].snap.manifest
           tree2 == [tree EXCEPT ![k] = M.files[k]]
<1>0. /\ TypeOK /\ mem[s] \in Memories /\ at \in [Sessions -> Labels] /\ SessionsApproved
      /\ mem \in [Sessions -> Memories]
      /\ \A z \in Sessions : Accounted(tree, work, run, at[z], mem[z])
  BY DEF TypeInv, TypeOK, AccountInv, SessionsAccount, ApprovedInv
<1>1. /\ run' = run /\ work' = work /\ at[s] = "update" /\ at' = [at EXCEPT ![s] = "unlock"]
      /\ Len(log) = mem[s].parent /\ Len(log) < MaxCommits /\ log' = Append(log, TaskEntry(s)) /\ mem' = Raced(M)
  BY DEF UpdateRef, Goto
<1>2. tree \in Trees /\ k \in Tasks
  <2>1. Len(log) \in 0 .. Len(log)
    BY LenProperties DEF TypeInv, TypeOK
  <2> QED
    BY <1>0, <1>1, <2>1, TreeTyped, TaskKnown DEF Batch
<1>3. TreeAt(HEAD)' = tree2
  <2>1. TreeAt(HEAD)' = TaskEntry(s).tree
    BY <1>0, <1>1, TaskEntryTyped, AppendTree
  <2>2. TaskEntry(s).tree = [TreeAt(mem[s].parent) EXCEPT ![TaskEntry(s).task] = TaskEntry(s).manifest.files[TaskEntry(s).task]]
    BY <1>0, <1>1, TaskEntryApproved
  <2> QED
    BY <1>1, <2>1, <2>2 DEF TaskEntry
<1>4. tree2[k] = M.files[k] /\ \A t \in Tasks : t # k => tree2[t] = tree[t]
  BY <1>2 DEF Trees
<1>5. at[s] \in UnderLock /\ at[s] \in PastCheck /\ mem'[s] = mem[s]
  BY <1>1 DEF UnderLock, PastCheck, Raced
<1> HIDE DEF tree, tree2, M
<1>6. ASSUME NEW z \in Sessions \ {s}
      PROVE  /\ mem'[z].snap = mem[z].snap /\ mem'[z].todo = mem[z].todo
             /\ Accounted(tree2, work, run, at[z], mem'[z])
  <2>1. /\ mem'[z].snap = mem[z].snap /\ mem'[z].todo = mem[z].todo /\ mem'[z].task = mem[z].task
        /\ mem'[z].touched = mem[z].touched
    BY <1>0, <1>1, RacedSame
  <2>2. at[z] # "stage" /\ mem[z].snap.tasks \subseteq Tasks
    BY <1>0, <1>5, AloneUnderLock DEF Memories, Runs
  <2>3. CASE M = run.manifest
    BY <1>0, <1>4, <2>1, <2>2, <2>3, Drift
  <2>4. CASE M # run.manifest
    <3>1. at[z] \in Batch /\ mem[z].snap = run => at[z] = "next" /\ mem[z].todo = mem[z].snap.tasks
      BY <1>5, <2>4 DEF AccountInv, EarlierFirst, M
    <3> QED
      BY <1>0, <1>4, <2>1, <2>2, <3>1, Drift
  <2> QED
    BY <2>1, <2>3, <2>4
<1>7. Accounted(tree2, work, run, "unlock", mem[s])
  <2>1. mem[s].snap.tasks \subseteq Tasks /\ Accounted(tree, work, run, "update", mem[s])
    BY <1>0, <1>1 DEF Memories, Runs
  <2> QED
    BY <1>4, <2>1 DEF Accounted, Batch, M
<1>8. InTurn(s)
  BY <1>0, <1>1, <1>5 DEF InTurn, Batch, PastCheck
<1>9. at' = [at EXCEPT ![s] = at'[s]] /\ at'[s] = "unlock"
  BY <1>0, <1>1
<1> QED
  BY <1>1, <1>3, <1>5, <1>6, <1>7, <1>8, <1>9, StepAccounted

LEMMA JournalAccounts ==
  ASSUME TypeInv, HaltInv, AccountInv, NEW s \in Sessions, JournalStep(s)
  PROVE  AccountInv'
<1> DEFINE tree == TreeAt(HEAD)
<1>0. /\ TypeOK /\ mem[s] \in Memories /\ run \in Runs /\ at \in [Sessions -> Labels]
      /\ mem \in [Sessions -> Memories]
      /\ \A z \in Sessions : Accounted(tree, work, run, at[z], mem[z])
      /\ {"journal", "control", "controlUpdate", "idle"} \subseteq Labels \ Batch
  BY DEF TypeInv, TypeOK, AccountInv, SessionsAccount, Labels, Batch
<1> HIDE DEF tree
<1>1. ASSUME NEW from, NEW to \in {"journal", "control", "controlUpdate", "idle"}, Goto(s, from, to),
             NEW m, mem' = [mem EXCEPT ![s] = m], UNCHANGED <<run, log, work>>
      PROVE  AccountInv'
  BY <1>0, <1>1, AccountedOutside, QuietAccounted
<1>2. CASE StartJournal(s)
  BY <1>1, <1>2 DEF StartJournal, Remember
<1>3. CASE CloseCycle(s)
  <2>1. [run EXCEPT !.phase = "cycle-closed"] \in Runs
    BY <1>0 DEF Runs, Phases
  <2>2. run' = run \/ (\E r \in Runs : WriteRun(r))
    BY <1>3, <2>1, TransitionWrites DEF CloseCycle
  <2>3. UNCHANGED <<log, work>>
    BY <1>3 DEF CloseCycle
  <2>4. CASE Goto(s, "journal", "control") /\ mem' = mem
    <3>1. CASE run' = run
      <4>1. mem' = [mem EXCEPT ![s] = mem[s]]
        BY <1>0, <2>4
      <4> QED
        BY <1>1, <2>3, <2>4, <3>1, <4>1
    <3>2. CASE \E r \in Runs : WriteRun(r)
      <4>1. run'.stamp = run.stamp + 1
        BY <3>2, Writes
      <4>2. at' = [at EXCEPT ![s] = "control"]
        BY <2>4 DEF Goto
      <4>3. \A z \in Sessions : at'[z] \in Labels /\ (at'[z] \in Batch => at'[z] = at[z] /\ mem'[z] = mem[z])
        BY <1>0, <2>4, <4>2
      <4> QED
        BY <4>1, <4>3, WriteAccounted
    <3> QED
      BY <2>2, <3>1, <3>2
  <2>5. CASE Leave(s, "journal")
    BY <2>2, <2>3, <2>5, LeaveAccounted
  <2> QED
    BY <1>3, <2>4, <2>5 DEF CloseCycle
<1>4. CASE ControlLock(s)
  BY <1>1, <1>4 DEF ControlLock, Remember
<1>5. CASE CommitControlFiles(s)
  <2>1. at' = [at EXCEPT ![s] = "idle"] /\ at[s] = "controlUpdate" /\ Goto(s, "controlUpdate", "idle")
        /\ run' = run /\ work' = work
    BY <1>5 DEF CommitControlFiles, Goto
  <2>2. CASE log' = log /\ Remember(s, NoMemory)
    BY <1>1, <2>1, <2>2 DEF Remember
  <2>3. CASE /\ Len(log) = mem[s].parent /\ Len(log) < MaxCommits /\ log' = Append(log, ControlEntry(s))
             /\ mem' = [Raced(None) EXCEPT ![s] = NoMemory]
    <3>1. TreeAt(HEAD)' = tree
      BY <1>0, <2>3, ControlEntryTyped, AppendTree DEF ControlEntry, tree
    <3>2. \A z \in Sessions \ {s} : /\ mem'[z].snap = mem[z].snap /\ mem'[z].todo = mem[z].todo
                                    /\ mem'[z].task = mem[z].task /\ mem'[z].touched = mem[z].touched
      <4>1. \A z \in Sessions \ {s} : mem'[z] = Raced(None)[z]
        BY <1>0, <2>3, RacedTyped
      <4> QED
        BY <1>0, <4>1, RacedSame
    <3>3. ASSUME NEW z \in Sessions \ {s}
          PROVE  Accounted(tree, work, run, at[z], mem'[z])
      BY <1>0, <3>2, Drift
    <3>4. at'[s] = "idle" /\ at' = [at EXCEPT ![s] = at'[s]]
      BY <1>0, <2>1
    <3>5. Accounted(tree, work, run, at'[s], mem'[s]) /\ InTurn(s)
      BY <1>0, <3>4, AccountedOutside DEF InTurn
    <3> QED
      BY <2>1, <3>1, <3>2, <3>3, <3>4, <3>5, StepAccounted
  <2> QED
    BY <1>5, <2>2, <2>3 DEF CommitControlFiles
<1> QED
  BY <1>2, <1>3, <1>4, <1>5 DEF JournalStep

(* Files and commits that change behind the sessions' back, and are noted. *)
LEMMA NotedAccounted ==
  ASSUME TypeInv, HaltInv, AccountInv, UNCHANGED <<run, at>>,
         \A s \in Sessions :
           /\ mem'[s].snap = mem[s].snap /\ mem'[s].todo = mem[s].todo /\ mem'[s].task = mem[s].task
           /\ mem[s].touched \subseteq mem'[s].touched
           /\ \A t \in mem[s].snap.tasks :
                t \in mem'[s].touched \/ (work'[t] = work[t] /\ TreeAt(HEAD)'[t] = TreeAt(HEAD)[t])
  PROVE  AccountInv'
<1> DEFINE tree == TreeAt(HEAD)
           tree2 == TreeAt(HEAD)'
<1>1. \A s \in Sessions : Accounted(tree, work, run, at[s], mem[s])
  BY DEF AccountInv, SessionsAccount
<1>2. \A s \in Sessions :
        /\ mem'[s].snap = mem[s].snap /\ mem'[s].todo = mem[s].todo /\ mem'[s].task = mem[s].task
        /\ mem[s].touched \subseteq mem'[s].touched
        /\ \A t \in mem[s].snap.tasks : t \in mem'[s].touched \/ (work'[t] = work[t] /\ tree2[t] = tree[t])
  OBVIOUS
<1> HIDE DEF tree, tree2
<1>3. ASSUME NEW s \in Sessions
      PROVE  Accounted(tree2, work', run, at[s], mem'[s])
  BY <1>1, <1>2, Drift
<1>4. SessionsAccount'
  BY <1>3 DEF SessionsAccount, tree2
<1>5. \A s \in Sessions : InTurn(s)
  BY DEF InTurn
<1> QED
  BY <1>4, <1>5, TurnsKept DEF AccountInv

LEMMA LateAccounts ==
  ASSUME TypeInv, HaltInv, ApprovedInv, AccountInv, NEW c \in late, LateUpdateRef(c)
  PROVE  AccountInv'
<1> DEFINE e == c.entry
           m == Raced(e.manifest)
<1>0. TypeOK /\ e \in Entries /\ Len(log) \in 0 .. Len(log) /\ mem \in [Sessions -> Memories]
  BY LenProperties DEF TypeInv, TypeOK
<1>1. /\ Len(log) = c.parent /\ Len(log) < MaxCommits /\ log' = Append(log, e)
      /\ mem' = Touched(m, {e.task}) /\ UNCHANGED <<run, at, work>>
  BY DEF LateUpdateRef, Board
<1>2. TreeAt(HEAD) \in Trees
  BY <1>0, TreeTyped
<1>3. \A t \in Tasks : t = e.task \/ TreeAt(HEAD)'[t] = TreeAt(HEAD)[t]
  <2>1. TreeAt(HEAD)' = e.tree
    BY <1>0, <1>1, AppendTree
  <2>2. CASE e.by = "task"
    <3>1. e.tree = [TreeAt(HEAD) EXCEPT ![e.task] = e.manifest.files[e.task]]
      BY <1>1, <2>2 DEF ApprovedInv, LateApproved
    <3> QED
      BY <1>2, <2>1, <3>1 DEF Trees
  <2>3. CASE e.by # "task"
    BY <1>1, <2>1, <2>3 DEF ApprovedInv, LateApproved
  <2> QED
    BY <2>2, <2>3
<1>4. ASSUME NEW s \in Sessions
      PROVE  /\ mem'[s].snap = mem[s].snap /\ mem'[s].todo = mem[s].todo /\ mem'[s].task = mem[s].task
             /\ mem'[s].touched = mem[s].touched \cup ({e.task} \cap mem[s].snap.tasks)
             /\ mem[s].snap.tasks \subseteq Tasks
  <2>1. m \in [Sessions -> Memories]
    BY <1>0, RacedTyped
  <2>2. /\ m[s].snap = mem[s].snap /\ m[s].todo = mem[s].todo /\ m[s].task = mem[s].task
        /\ m[s].touched = mem[s].touched
    BY <1>0, RacedSame
  <2> HIDE DEF m, e
  <2>3. /\ mem'[s].snap = m[s].snap /\ mem'[s].todo = m[s].todo /\ mem'[s].task = m[s].task
        /\ mem'[s].touched = m[s].touched \cup ({e.task} \cap m[s].snap.tasks)
    BY <1>1, <2>1, TouchedSame
  <2>4. mem[s].snap.tasks \subseteq Tasks
    BY <1>0 DEF Memories, Runs
  <2> QED
    BY <2>2, <2>3, <2>4
<1> HIDE DEF m, e
<1> QED
  BY <1>1, <1>3, <1>4, NotedAccounted

LEMMA UserAccounts ==
  ASSUME TypeInv, HaltInv, AccountInv,
         (\E t \in Tasks, v \in Versions : UserEdit(t, v)) \/ \E ts \in SUBSET Tasks : UserCommit(ts)
  PROVE  AccountInv'
<1>0. /\ TypeOK /\ mem \in [Sessions -> Memories] /\ Len(log) \in 0 .. Len(log) /\ work \in [Tasks -> Versions]
      /\ \A s \in Sessions : mem[s].snap.tasks \subseteq Tasks
  BY LenProperties DEF TypeInv, TypeOK, Memories, Runs, Trees
<1>1. ASSUME NEW t \in Tasks, NEW v \in Versions, UserEdit(t, v)
      PROVE  AccountInv'
  <2>1. /\ mem' = Touched(mem, {t}) /\ UNCHANGED <<run, at, log>> /\ work' = [work EXCEPT ![t] = v]
    BY <1>1 DEF UserEdit
  <2>2. TreeAt(HEAD)' = TreeAt(HEAD) /\ \A k \in Tasks : k = t \/ work'[k] = work[k]
    BY <1>0, <2>1 DEF TreeAt
  <2>3. \A s \in Sessions : /\ mem'[s].snap = mem[s].snap /\ mem'[s].todo = mem[s].todo
                            /\ mem'[s].task = mem[s].task
                            /\ mem'[s].touched = mem[s].touched \cup ({t} \cap mem[s].snap.tasks)
    BY <1>0, <2>1, TouchedSame
  <2> QED
    BY <1>0, <2>1, <2>2, <2>3, NotedAccounted
<1>2. ASSUME NEW ts \in SUBSET Tasks, UserCommit(ts)
      PROVE  AccountInv'
  <2> DEFINE e == [by |-> "user", task |-> None,
                   tree |-> [t \in Tasks |-> IF t \in ts THEN work[t] ELSE TreeAt(Len(log))[t]],
                   manifest |-> None, raced |-> FALSE]
             m == Raced(None)
  <2>1. TreeAt(Len(log)) \in Trees
    BY <1>0, TreeTyped
  <2>2. e \in Entries /\ \A t \in Tasks : t \in ts \/ e.tree[t] = TreeAt(HEAD)[t]
    BY <1>0, <2>1 DEF Entries, Trees, TypeOK
  <2>3. /\ mem' = Touched(m, ts) /\ log' = Append(log, e) /\ Len(log) < MaxCommits
        /\ UNCHANGED <<run, at, work>>
    BY <1>2 DEF UserCommit, Board
  <2> HIDE DEF e
  <2>4. TreeAt(HEAD)' = e.tree
    BY <1>0, <2>2, <2>3, AppendTree
  <2>5. ASSUME NEW s \in Sessions
        PROVE  /\ mem'[s].snap = mem[s].snap /\ mem'[s].todo = mem[s].todo /\ mem'[s].task = mem[s].task
               /\ mem'[s].touched = mem[s].touched \cup (ts \cap mem[s].snap.tasks)
    <3>1. m \in [Sessions -> Memories]
      BY <1>0, RacedTyped
    <3>2. /\ m[s].snap = mem[s].snap /\ m[s].todo = mem[s].todo /\ m[s].task = mem[s].task
          /\ m[s].touched = mem[s].touched
      BY <1>0, RacedSame
    <3> HIDE DEF m
    <3> QED
      BY <2>3, <3>1, <3>2, TouchedSame
  <2> HIDE DEF m
  <2> QED
    BY <1>0, <2>2, <2>3, <2>4, <2>5, NotedAccounted
<1> QED
  BY <1>1, <1>2

(* Interventions and the settlement write run.json.                        *)
LEMMA WriterAccounts ==
  ASSUME TypeInv, HaltInv, AccountInv,
         \/ HaltDirective \/ HaltRun \/ HaltBarrier \/ SupersedePlan \/ \E t \in Tasks : Replan(t)
         \/ \E plan \in SUBSET Tasks, v \in Versions, auto \in BOOLEAN : Settle(plan, v, auto)
  PROVE  AccountInv'
<1>0. run \in Runs /\ at \in [Sessions -> Labels]
  BY DEF TypeInv, TypeOK
<1>1. UNCHANGED <<at, mem>>
  BY DEF HaltDirective, HaltRun, HaltBarrier, SupersedePlan, Replan, Settle
<1>2. CASE HaltDirective \/ HaltBarrier
  <2>1. UNCHANGED <<run, log, work>>
    BY <1>2 DEF HaltDirective, HaltBarrier, Board
  <2>2. TreeAt(HEAD)' = TreeAt(HEAD)
    BY <2>1 DEF TreeAt
  <2> QED
    BY <1>1, <2>1, <2>2, NotedAccounted
<1>3. CASE run'.stamp = run.stamp + 1
  BY <1>0, <1>1, <1>3, WriteAccounted
<1>4. HaltRun => run'.stamp = run.stamp + 1
  BY <1>0 DEF HaltRun, WriteRun, Stamped, Runs
<1>5. SupersedePlan \/ (\E t \in Tasks : Replan(t)) => run'.stamp = run.stamp + 1
  BY <1>0 DEF SupersedePlan, Replan, Replanned, WriteRun, Stamped, Runs
<1>6. (\E plan \in SUBSET Tasks, v \in Versions, auto \in BOOLEAN : Settle(plan, v, auto))
        => run'.stamp = run.stamp + 1
  BY <1>0 DEF Settle, WriteRun, Stamped, Runs
<1> QED
  BY <1>2, <1>3, <1>4, <1>5, <1>6

LEMMA AccountNext ==
  ASSUME TypeInv, HaltInv, ApprovedInv, AccountInv, [Next]_vars
  PROVE  AccountInv'
<1>1. ASSUME NEW s \in Sessions,
             ApproveCommit(s) \/ PublishApproval(s) \/ CommitStep(s) \/ JournalStep(s) \/ Crash(s)
      PROVE  AccountInv'
  BY <1>1, SessionLeaves, SessionAccounts, MergeAccounts, CommitAccounts, JournalAccounts DEF CommitStep
<1>2. CASE UNCHANGED vars
  <2>1. UNCHANGED <<run, log, work, at, mem>>
    BY <1>2 DEF vars
  <2>2. TreeAt(HEAD)' = TreeAt(HEAD)
    BY <2>1 DEF TreeAt
  <2> QED
    BY <2>1, <2>2, NotedAccounted
<1> QED
  BY <1>1, <1>2, LateAccounts, UserAccounts, WriterAccounts DEF Next

(* A run is committed when every approved task is in HEAD in its approved  *)
(* version, unless the user or a dead session's late update-ref changed    *)
(* its files meanwhile: no failure, reset, crash or second session makes a *)
(* commit skip a task.                                                     *)
THEOREM NothingSkipped == Spec => CompletedIsCommitted
<1> DEFINE Complete ==
      \A s \in Sessions :
        at[s] = "next" /\ run.phase # "committed" /\ run'.phase = "committed" /\ at'[s] = "idle" =>
          \A t \in mem[s].snap.tasks :
            t \in mem[s].touched \/ TreeAt(HEAD)[t] = mem[s].snap.manifest.files[t]
<1>1. ASSUME TypeInv, AccountInv, [Next]_vars
      PROVE  Complete
  <2> SUFFICES ASSUME NEW s \in Sessions, at[s] = "next", run.phase # "committed", run'.phase = "committed",
                      at'[s] = "idle"
               PROVE  \A t \in mem[s].snap.tasks :
                        t \in mem[s].touched \/ TreeAt(HEAD)[t] = mem[s].snap.manifest.files[t]
    OBVIOUS
  <2>0. run \in Runs /\ at \in [Sessions -> Labels] /\ run' # run
    BY <1>1 DEF TypeInv, TypeOK
  <2>1. ASSUME NEW r \in Runs, WriteRun(r), r.phase # "committed"
        PROVE  FALSE
    BY <2>1, Writes
  <2>2. ASSUME NEW z, NEW r \in Runs, TransitionIfUnchanged(z, r), r.phase # "committed"
        PROVE  FALSE
    BY <2>0, <2>1, <2>2 DEF TransitionIfUnchanged
  <2>3. ASSUME NEW z \in Sessions, CompleteCommit(z)
        PROVE  z = s /\ Unchanged(s) /\ mem[s].todo = {}
    <3>1. at' = [at EXCEPT ![z] = "idle"]
      BY <2>3 DEF CompleteCommit, Leave, Goto
    <3> QED
      BY <2>0, <2>3, <3>1 DEF CompleteCommit, TransitionIfUnchanged
  <2>4. ASSUME NEW z \in Sessions, PublishApproval(z) \/ ResetStale(z) \/ ResetAny(z) \/ CloseCycle(z)
        PROVE  FALSE
    <3>1. /\ ResetRun \in Runs /\ ResetRun.phase # "committed"
          /\ mem[z] \in Memories
      BY <1>1, Resets, <2>0 DEF TypeInv, TypeOK, ResetRun, Runs
    <3>2. [run EXCEPT !.phase = "commit-approved", !.tasks = mem[z].todo, !.manifest = mem[z].current] \in Runs
      BY <2>0, <3>1 DEF Runs, Memories, Phases
    <3>3. [run EXCEPT !.phase = "cycle-closed"] \in Runs
      BY <2>0 DEF Runs, Phases
    <3>4. CASE PublishApproval(z)
      BY <2>0, <2>2, <3>2, <3>4 DEF PublishApproval, Runs
    <3>5. CASE ResetStale(z) \/ ResetAny(z)
      BY <2>0, <2>1, <2>2, <3>1, <3>5 DEF ResetStale, ResetAny
    <3>6. CASE CloseCycle(z)
      BY <2>0, <2>2, <3>3, <3>6 DEF CloseCycle, Runs
    <3> QED
      BY <2>4, <3>4, <3>5, <3>6
  <2>5. ~HaltRun /\ ~SupersedePlan /\ ~\E t \in Tasks : Replan(t)
    BY <2>0 DEF HaltRun, SupersedePlan, Replan, Replanned, WriteRun, Stamped, Runs
  <2>6. ~\E plan \in SUBSET Tasks, v \in Versions, auto \in BOOLEAN : Settle(plan, v, auto)
    BY <2>0 DEF Settle, WriteRun, Stamped, Runs
  <2>7. \E z \in Sessions : CompleteCommit(z)
    <3>1. ASSUME NEW z \in Sessions, ApproveCommit(z) \/ CommitStep(z) \/ JournalStep(z) \/ Crash(z),
                 ~CompleteCommit(z), ~ResetStale(z), ~ResetAny(z), ~CloseCycle(z)
          PROVE  FALSE
      BY <2>0, <3>1 DEF ApproveCommit, CommitStep, JournalStep, Crash, StartCommit, TakeCommitLock, CheckApproval,
         SquashMerge, MergeFails, Stage, Unapproved, UpdateRef, GitFails, FailTask, RefuseTask, Unlock, ObserveHead,
         StartJournal, ControlLock, CommitControlFiles
    <3>2. ~(\E c \in late : LateUpdateRef(c)) /\ ~HaltDirective /\ ~HaltBarrier
      BY <2>0 DEF LateUpdateRef, HaltDirective, HaltBarrier
    <3>3. ~(\E ts \in SUBSET Tasks : UserCommit(ts)) /\ ~(\E t \in Tasks, v \in Versions : UserEdit(t, v))
      BY <2>0 DEF UserCommit, UserEdit
    <3>4. ~UNCHANGED vars
      BY <2>0 DEF vars
    <3> QED
      BY <1>1, <2>4, <2>5, <2>6, <3>1, <3>2, <3>3, <3>4 DEF Next
  <2>8. mem[s].snap.stamp = run.stamp /\ mem[s].todo = {}
    BY <2>3, <2>7 DEF Unchanged
  <2>9. Accounted(TreeAt(HEAD), work, run, "next", mem[s])
    BY <1>1 DEF AccountInv, SessionsAccount
  <2> QED
    BY <2>8, <2>9 DEF Accounted, Batch
<1> HIDE DEF Complete
<1>2. Spec => [][Complete]_vars
  BY <1>1, InitTyped, NextTyped, HaltInit, HaltNext, ApprovedInit, ApprovedNext, AccountInit, AccountNext, PTL DEF Spec
<1> QED
  BY <1>2 DEF CompletedIsCommitted, Complete

=============================================================================
