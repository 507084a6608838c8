# TLA+ models of va-auto-pilot

va-auto-pilot drives coding agents over a sprint board: a manager plans a run,
a person approves the plan, workers are dispatched, their results are gated and
approved, and the pilot commits them. Everything it knows is in files under
`.va-auto-pilot/` that several short-lived processes read and write, each of
which may be killed at any time. This directory holds TLA+ specifications of
that machinery, TLC configurations that check them on small instances, and
proofs, checked by TLAPS, of all the safety properties among them.

Contents: [inventory](#1-inventory), [modules](#2-modules-and-how-they-map-to-the-code),
[runs and bounds](#3-runs-bounds-and-what-they-show), [fairness](#4-fairness),
[proofs](#5-proofs), [what the models found](#6-what-the-models-found),
[abstractions](#7-abstractions), [what is not modelled](#8-not-modelled-and-the-plan).

## 1. Inventory

Paths are relative to `src/scripts/`.

| Component | State it keeps | Operations | Hard behaviour | What makes it correct | Modules |
|---|---|---|---|---|---|
| **File lock** `lib/doc-store/locking.mjs`, `lib/pilot-state.mjs` | `<file>.lock`, `<file>.lock.reap` | acquire with retries and a timeout, release, reap a dead owner's lock, recover a dead reaper's marker | every file-system call of several processes interleaves; owners and reapers die; unlink is by path, ownership by content | one live holder; a live owner's lock stays; a dead one's goes away | PilotFileLock |
| **Run/tracks transaction** `lib/orchestration-state.mjs` | `run.json`, `tracks.json`, the transaction record, directives, active-runs index | `updateRunAndTracksAtomic`, `updateRunAtomic`, `updateTrackAtomic`, recovery, initialisation, lease | a writer dies between its four writes; single-file writers and halts come in between | both files change as one; a pending record can be resolved; a halt is never undone | AtomicRunState, RunTracksTransaction |
| **Orchestrate commands** `auto-pilot-orchestrate.mjs`, `lib/orchestration-cli.mjs` | the phase of a run, its plan, checkpoint, approved manifest | init, plan, review-plan, approve-plan, dispatch, await-workers, recover, approve-commit, commit, journal, close, sweep | minutes pass between reading a run and writing it; executors and commits run beside halts and replans; executors die | phases move along the protocol; what runs was approved; no run is stuck for ever, no task lost to an ended run | RunPhases, CommitApproval |
| **Worker launch and supervision** `lib/colony-bridge.mjs`, `lib/worker-launcher.mjs`, `lib/bounded-spawn.mjs` | heartbeat file, launcher process, worker process group, identity on the track | READY, persist, GO; heartbeat; stop with force timer; settlement; recovery; re-dispatch; a colony's callbacks and timers | manager, launcher, halting process, colony and worker die or race independently | a live command is known; a stop ends it; every dispatch settles, once, with its own result | WorkerLifecycle, ParallelRunner |
| **Interventions** `auto-pilot-intervene.mjs` | directives, halted run or tracks | halt-run, halt-track, replan, supersede-plan, notes | halts concurrent with everything else, incl. a commit | after a halt nothing of it starts, and no commit of a task follows | RunTracksTransaction, CommitApproval, RunPhases |
| **Task state machine and git commits** `auto-pilot-loop.mjs` | sprint state of a task, baselines, working tree, git HEAD and index, `va-auto-pilot-index-recovery-*` | cycle, dispatch, gate, review, fix, sync, commit; isolated-index commit with recovery | tracks share a working tree; a user edits, stages and commits meanwhile; crash on either side of `update-ref`; a late `update-ref` | failures are bounded; what is committed is what the gates saw; the user's staging and edits survive; nothing is reverted | TaskLoop, GitIndexCommit |
| **Sprint board** `sprint-board.mjs`, `lib/sprint-board/core.mjs`, `lib/sprint-utils.mjs` | `sprint-state.json`, the rendered board | plan-and-claim, release, transitions, pitfalls, render | several runs claim tasks of one board; claims lapse | a task is worked on for the run that claims it | SprintTasks |
| **Document store** `lib/doc-store/*` | documents, index, journal, configuration, schema version | create, adopt, update, link, archive, recover; init, doctor, migrate | a transaction dies between journal, document and index; a migration reads before it locks | all or nothing; committed means applied; upkeep loses nothing | DocRecords, AtomicDocStore, DocStore, StoreUpkeep |
| **Constraints and pitfalls** `sprint-board.mjs`, `lib/constraint-bridge.mjs`, `lib/adaptive-gates.mjs` | pitfalls, learned rules, gates of `config.yaml` | record, resolve, promote, retire, inject, maintain | a resolve writes four files, dies between them and is repeated | a lesson is published whole, once, and never injected when retired or in conflict | Lessons |
| **Quality gates** `lib/project-gates.mjs`, `lib/adaptive-gates.mjs`, `lib/gate-trust.mjs`, `lib/review-parser.mjs` | the gate events of a run, evidence bundles | select, run, parse verdicts, bundle, bind | code and configuration change between gates; several attempts share a log | what is called proven was proven on the code it is about | GateEvidence |
| **Plan review, goals** `lib/plan-review.mjs`, `lib/goal-backlog.mjs`, `lib/human-board.mjs` | review record, candidate plan, intents, tasks | review, bind, approve; plan from goal | reviews overlap; the bound file is edited; planners read without a lock | what is dispatched was reviewed; a goal gets one task, none is dropped | PlanReview, IntentBacklog |
| **Policies** `lib/approval-policy.mjs`, `lib/permission-scope.mjs`, `lib/budget-guardrails.mjs`, `lib/error-recovery.mjs` | counters in the run | decide, spend | limits | a limit is not exceeded | in TaskLoop, PlanReview |
| **Worktree isolation** `lib/worktree-isolation.mjs` | worktrees and branches of tasks | create, merge, drop | failure between merge and cleanup | nothing half-merged | in CommitApproval, PlanReview |
| **Parallel runner** `va-parallel-runner.mjs`, `lib/workspace.mjs` | flights of one pool, the board afterwards | dispatch, collect, apply | agents outlive timers and processes; others move tasks | results overrule nobody | ParallelRunner |
| **Observability** `auto-pilot-observe.mjs`, `lib/observability.mjs`, `lib/manager-world.mjs`, `lib/mcp-readonly-resources.mjs` | none (projections) | recovery plan, readiness, risk, next commands | computed table by table from files of half-finished commands | the tables agree, and following them gets a run on | Cockpit |
| **Installer** `../bin/va-auto-pilot.mjs` | scaffolded files, `version.json`, the upgrade sentinel | init, upgrade | dies at any file, is repeated by another version, renames fail | `version.json` is true, nothing is lost | Installer |
| **CLI shells** `auto-pilot.mjs`, `auto-pilot-meta.mjs`, ... | none | dispatch to the above | – | – | – |

How they interact: all commands are separate processes. They share state only
through the files above, each guarded by its own **file lock**; locks nest in
the order transaction, run, tracks, with the executor lock taken first by
commands that run workers and the board's lock before `commit.lock`. The
manager (`await-workers`) talks to a launcher over a Node IPC channel, and
recovery and interventions talk to it through signals and its heartbeat file.
Commits reach Git through child processes, which may outlive the pilot.

The concrete hazards, with file and line, are listed under `hazards` in
`PROJECT.json`, each with the properties that speak of it.

## 2. Modules and how they map to the code

`PROJECT.json` maps every definition to the lines it models. In every module an
action is one atomic step of the code: what happens between two awaits, file
operations or messages that another process can get in between. Several
components meet in more than one module, at different grain: where one looks
inside a step, the other takes the step as one.

### PilotFileLock
`acquireLock`, `releaseLock` and what they call, one action per file-system
call. `lock` and `marker` are the two paths; a file is identified by the actor
that linked it. `pc` follows one call through the loop: recover a stale marker
(`RecoverStaleReaper`, `RecheckMarker`, `UnlinkMarker`), `LinkLock`,
`InspectLock`, and the reaping of a stale owner. `reapStaleLock` returns the
promise of `unlinkOwnedSnapshot` without awaiting it, so its `finally` block
and the removal run side by side: `unlinking` and `dropping` are two program
counters of one actor. `Crash(p)` kills a process with all its actors; `Age`
lets the grace period of an empty lock file pass. `overlapped` is a history
variable used to say exactly when exclusion can be lost. All other modules
take a locked section as one step, or as exclusive.

### AtomicRunState and RunTracksTransaction
`AtomicRunState` is the abstract store: phase, plan and tracks are one value,
changed by whole operations (plan, approve, dispatch, preview, close, ...).
`RunTracksTransaction` is the implementation: a publisher writes the intent
(the transaction record), `tracks.json`, `run.json`, and removes the intent, in
four actions; every command first recovers what a dead one left
(`Recovery`: conflict check, replay, discard). Commands that write only one
file (plan and approve compare-and-swaps, supersede-plan, halt-run, halt-track,
await-workers) take only that file's lock and so may run against a pending
intent of a dead writer. The refinement mapping takes a publication to happen
at the write of `tracks.json`: `LogicalRun` is the announced run from then on.
`clock` stands for fresh timestamps and dispatch ids.

### SprintTasks, RunPhases, Cockpit
`SprintTasks` has the board's pure functions: claims and who may take them,
releases, `NextTask`, dependency waves and cycles, transitions.

`RunPhases` is the life of runs over one board, from init to done and the next
init. `sess[s]` is one process in one command: `PlanStart` reads, `PlanClaim`
claims on the board, `PlanPublish` is the compare-and-swap, and so on for
review, approve, dispatch, the executor (`await-workers`), recover, sweep,
approve-commit, commit, close, halt-run, replan. Between the steps other
sessions and workers move, and `Die` may end a session at any of them. `lease`
is the run's entry in the active-runs index, `cp` its checkpoint (which binds
an approval to a plan), `track` the states of `tracks.json` with `stubborn` for
a worker that ignores its stop. The transaction underneath is one step here.

`Cockpit` extends it by what an observing manager is told: `View` is
`buildCockpit`, and the tables under it (`Mutations` of the recovery plan,
`CommitReadiness`, `Approval`, `Progress`, `Risk`, `NextCommands`) are
transcribed one by one, as the code computes them one by one. `Surroundings`
is what the cockpit reads besides the runs (unplanned intents, gate trust,
pitfalls, proof). `Accepts` says what the commands themselves would accept.

### TaskLoop
`auto-pilot-loop.mjs` without orchestration: a cycle plans, starts up to
`MaxParallel` tracks, and every track takes its task through worker, build and
review, acceptance, sync and commit, or into failure, retry and fix tasks. All
tracks share one working tree: a file's content is the number of the edit that
wrote it. Under the commit lock, `BeginCommit` puts the contents of the task's
baseline back into the tree, `SyncCommit` commits them, `Restore` puts the task's
contents there again and `CommitTask` commits those, each a step of its own. The loop may be killed and
restarted (its workers live on as `orphans`), commits fail, users edit, commit,
and move tasks.

### GitIndexCommit
`commitPaths`: recovery of a pending commit (`recoverPendingRealIndex`,
`Classify` being its decision table), then the isolated-index commit: read the
parent, build the commit, create the recovery file, link it to `index.lock`,
copy the index, write the candidate through the locked inode, `update-ref`,
rename. `evidence` are the recovery files, `lock` the inode at `index.lock`,
`index.inode` the inode of the index, so that the code's hard-link identity
checks are comparisons of inodes. `update-ref` is a child process
(`RunChild`) that may outlive a killed session (`RunOrphan`). The user stages
(`UserAdd`), commits (`UserCommit`) and may remove a leftover lock
(`RemoveLockByHand`); these actions and `update-ref` are Git's, modelled from
how the code relies on them.

### CommitApproval
approve-commit, commit and journal of several sessions, with halt-run,
supersede-plan, replan, the user and crashes beside them. `at` is where a
session stands between two awaits, `mem` what it read there: the run as it found
it (`snap`), the rebuilt manifest (`current`), the HEAD it expects. A commit is
`StartCommit` (rebuild and compare the manifest), then for each task
`TakeCommitLock`, `CheckApproval`, `SquashMerge` for a task done in a worktree,
`Stage`, `UpdateRef`, `Unlock`, `ObserveHead`, then `CompleteCommit`; failures
lead to `FailTask` or `RefuseTask` and `ResetAny`. How a commit is made atomic is
`GitIndexCommit`'s subject; what remains here is that a commit a dead session
left behind (`late`) may still reach HEAD. `Settle` stands for everything from
planning to the settlement of the workers, as far as commits notice it.

### WorkerLifecycle
One task's track and up to `MaxLaunches` launches of it. A launch is the
launcher process (`launcher`, `beat` its heartbeat file, `term` a pending
SIGTERM, `ipc` the channel) and the worker command it starts (`target`), which
lives in its own process group. `manager` is `dispatchViaSpawn` under
await-workers: start the launcher, wait for READY, persist pid and token on the
track, send GO, await, settle. `halter` is halt-track: signal, wait, clear the
identity. `RecoverTrack` and `Redispatch` act on a track whose manager died.
Every process may be killed between two steps.

### ParallelRunner
The bridge to agents and its two users: the runner's pool (dispatch, collect,
then one update of the board) and the loop, which dispatches again over the same
bridge. `flight` is the dispatch a process has under way for a task, `pending`
the bridge's map from tasks to waiting colony dispatches, `timers` the armed
timers, `agents` every agent and launcher alive, of whichever dispatch. A
colony's callbacks know the task only, so a late word of a dispatch that ran out
of time can settle a later one (`Overtaken`). `Die` is a crash, and equally a
rejected dispatch, on which the code leaves without touching the board.

### DocRecords, AtomicDocStore, DocStore, StoreUpkeep
`DocRecords` has the entries of the index and what create, update, link and
archive make of them, with mirrors (`inboundRefs`). `AtomicDocStore` is the
promise: whole operations, revocable until acknowledged. `DocStore` is the
implementation: a mutation is a list of writes (journal, document, mirrors,
index, journal) decided when it starts and done one per step; opening a handle
recovers pending transactions forwards or backwards, also one write per step. A
process may die and a write fail between any two. `spoilt` records which of the
store's weaknesses a behaviour has met (section 6), after which the properties
promise nothing.

`StoreUpkeep` is the store's own upkeep on one document: init with and without
`--force`, the doctor's findings, and a migration from its unlocked read and
snapshot over its writes under the lock to the verification and rollback after
it, beside commits, damage and deaths.

### IntentBacklog, Lessons, GateEvidence, PlanReview, Installer
* `IntentBacklog`: the intent board's lines and `planFromGoal`, a step for each
  of read, write candidate, look up, add, mark.
* `Lessons`: `pitfall` add, resolve, promote, retire, conflict, and `gates
  maintain`; a resolve is a step per file, and may die between them.
* `GateEvidence`: one task's attempts through build, review, acceptance and
  eval; `log` are the gate events, `bundle` the evidence, `manifest` what
  approve-commit binds. `Passes` and `Blocks` are the review parser on what a
  reviewer printed; `TrustedProof` is what the cockpit calls verified.
* `PlanReview`: review-plan with its reviewer's output, approve-plan, dispatch
  into a worktree with the bound file; `review`, `cp` and `tracks` are the
  three files they leave.
* `Installer`: init and upgrade as lists of files, one write each.

### MC modules
`MCPilotFileLock`, `MCRunTracksTransaction`, `MCCommitApproval`, `MCRunPhases`,
`MCDocStore` and `MCTaskLoop` give TLC function-valued constants and symmetry
sets; `WorkerLifecycle` has plain constants and is checked as it is. `Governance`
composes the eight parts around a run (`IntentBacklog`, `Lessons`, `GateEvidence`,
`PlanReview`, `Installer`, `ParallelRunner`, `StoreUpkeep`, `GitIndexCommit`), which
share no state: a behaviour picks one of `Components` and stays with it, so that one
run covers several and one theorem of the composition is one of the part. It has the
parts' constants for its own, to which `MCGovernance` gives small values.
`Governance.cfg` checks seven of the parts, `Governance_git.cfg` the Git index,
`Governance_rework.cfg` a statement about the gates. Remove names from `Components`
to look at one part alone.

## 3. Runs, bounds and what they show

| Run | Instance | Shows |
|---|---|---|
| `lock` | 2 processes with a caller each, fair | exclusion until two removals overlap; a dead owner's lock is removed, also after a reaper died |
| `tx_safety` | 2 commands of any kind, 2 tasks, clock 7 | pending intents are resolvable unless a single-file writer came first, halts win |
| `tx_refinement` | 2 commands, 2 tasks, clock 6 | the two files implement the one-value store |
| `worker` | 2 launches, 2 dispatches, fair | a live command is the track's, stops end |
| `git` | the Git index alone: 2 tasks, 3 commits, 1 staging | staging kept, index follows HEAD, nothing reverted |
| `commit` | 2 sessions, 2 tasks (one in a worktree), 2 commits, 3 run writes, 1 user act | only approved content is committed, on the approved HEAD unless another commit raced, no task after a halt, a committed run is complete |
| `phases` | 1 run, 1 task, 2 sessions, 2 faults, fair | tasks come back, an interrupted run recovers |
| `phases_shared` | 2 runs, 1 task, 2 sessions, 1 fault, 6 surroundings | a live worker's task is its run's, what is dispatched was approved; the cockpit tells one story and its advice suffices |
| `docstore` | 2 processes, 2 documents, 2 transactions, 2 faults | files follow the index, committed is applied, whole operations only |
| `loop` | 2 or 3 tasks, 2 files, 2 tracks, 2 cycles, 3 edits, 1 fault | failures bounded, edits kept, done is committed, committed is verified |
| `governance` | 7 components, see `MCGovernance` | see section 2; 13 properties, one to three for each component |
| `gates_rework` | the gates alone | reworked tasks cannot be approved (section 6) |

Why these bounds are enough to meet the hard cases. The lock's races need two
reapers, one of which goes on to take the lock; `lock` starts with a lock that
may be orphaned, so two callers suffice. A transaction
conflict needs one dying writer, one command that acts on its leftovers, and
enough clock for a publication, a halt and a re-dispatch (7 ticks); a second
task lets tracks be halted independently. Two launches give a re-dispatch that
races the first launch's late processes. Three commits give a pilot commit that
is pending, a second that recovers it and a user commit in between; in `commit`,
two commits are the two tasks, or one of them and the commit of the user, of
journal or of a dead session in between, and three run writes are an approval, a
reset and a second approval. In `phases` two faults are the death of an executor
and of the session that recovers it, or a lapse and a halt; in `phases_shared`
the second run plans, claims and ends but does not dispatch (`FirstDispatches`),
which is what the first run's worker needs for a rival. Two document
transactions and two faults give a death, and another in its recovery. In `loop`
three edits are two workers and the user, or a worker, its rework and another;
the boards are two independent tasks, a task one failure from its limit with one
that depends on it, and a dependency cycle. In `governance` two planners read
around three lines; two reviews overlap; two upgrades by different packages
follow each other; a bridge's second dispatch follows a first that timed out (in a pool for
both tasks; the theorems are for any pool); a
migration and an init meet one commit and one fault. TLC's runtime sets the
limits: `loop` has 5.6 million distinct states, `governance` takes about three minutes
with two workers.

Commands, sessions, handles and processes are symmetric (`SYMMETRY`) where no
liveness is checked. Every bound is a constant named `Max...`. Behaviours end
when they are used up, hence `CHECK_DEADLOCK FALSE`; in the lock runs every
process may die. `MCDocStore` cuts behaviours off after the first weakness
(`CONSTRAINT Interesting`), from where the properties say nothing.

Every property has a mutant of the code that breaks it (`mutants` in
`PROJECT.json`); mutants are defined next to the definition they change.

More configurations are kept beside the runs, for statements that a document,
comment or test makes and the code does not keep, each ending in the
counterexample explained in section 6: `PilotFileLock_replaced.cfg`
(`ReplacementOwnerKept`), `RunTracksTransaction_wedge.cfg`
(`AlwaysRecoverable`), `WorkerLifecycle_identity.cfg`
(`IdentityClearedAfterExit`), `GitIndexCommit_lock.cfg`
(`OwnedLockRecovered`), `CommitApproval_head.cfg` (`HeadBound`),
`CommitApproval_halt.cfg` (`HaltIsBarrier`), `RunPhases_settled.cfg`
(`SettledBeforeCommit`), `DocStore_recovery.cfg` (`RecoveryRepeatable`). Type
invariants (`TypeOK` in most modules) and some further properties
(`PairConsistent`, `LiveWorkerTracked`, `HaltedTrackStays`, `LiveLockKept`,
`ReaperExclusion`, `CancelledStaysCancelled`, `LauncherNotOrphaned`,
`IndexComplete`, `LockResolvable`, `ForeignLockKept`, and `NothingLost` of the
harness) hold as well and can be added to a cfg; they are not run every time.

## 4. Fairness

Safety and refinement runs assume none. Three runs check liveness:

* `lock`: a call that is waiting keeps being scheduled while its process
  lives (its loop is driven by `setTimeout`, and the two promise chains of a
  reap are independent of it, hence a fairness condition each), and time
  passes. Nothing makes a process start, crash, time out or release.
* `worker`: each live launcher's event loop handles its messages, signals and
  timers. Nothing makes a worker command end, or a manager or a halting process
  continue.
* `phases`: a live session goes on (`Continue`), workers exit in the end, a dead
  executor's lease expires (each enabled until taken: weak fairness), and
  somebody runs `recover --apply`, which also sweeps the claims of runs whose
  lease expired, again and again, as the protocol tells a manager to after an
  interruption. It starts only when a session is free, which comes and goes:
  strong fairness. Nothing makes anyone plan, approve or dispatch.

## 5. Proofs

Checked by TLAPS for every value of the constants, under the constants'
named assumptions (distinctness of model values, naturals as bounds).

**PilotFileLock_proof.** `TypeCorrect`; `Exclusion` and `OwnerKeepsLock` from
the inductive invariant `LockInv`, which adds to exclusion what each label
knows of the lock path (a holder, a releaser and a verifier find their own file
there) and that a pending unlink aims at a file whose owner is dead as long as
no two removals have overlapped. The invariant must speak of `overlapped`,
since exclusion is false without it (section 6). `OneReaper` needs
`MarkerInv`, the same for the marker, conditional on no reaper having died
while holding it, and the lemmas that a dead holder stays one.

**RunTracksTransaction_proof.** `TypeCorrect` and `HaltWins` from `HaltInv`:
the types; that a writer in the middle of a publication holds the transaction
locks; that the intent's `beforeRun` or `afterRun` is what `run.json` holds
while its writer lives; and that an intent never takes a halted run out of
halt. Without the last part a replay could reopen the run.

`PendingIsRecoverable` needs `RecoveryInv`, which ties an intent to the files it
was prepared from: as long as no single-file writer came between, `run.json` is
the intent's before or after, and so is `tracks.json`. `PublicationIsAtomic` is
the refinement: assuming `Patient` (single-file run writers wait while an intent is
pending; without it the store is not atomic, section 6 item 3), every step of the protocol is one operation of
`AtomicRunState` or none. Its invariant `StoreInv` says at which write the pair
becomes visible: `Stamped` and `Staged` (what a publication has written so far),
`OneOperation` (an intent's after is one operation applied to its before),
`Unpublished` and `Announced` (before and after that write), `Awaited` (what a
caller was told is what the store will hold) and `PreviewHolds`. The first replay
of an intent is the operation and any later one a stutter (`FirstReplay`,
`LaterReplay`).

**CommitApproval_proof.** `TypeCorrect` from `TypeInv`, which adds that the
parent a session staged on is in the history and that a session in a batch holds
a manifest that lists its task; without them the trees of commits to come have
no type. `HaltHolds` from `HaltInv`: a session past the check of its approval
holds `commit.lock`, and once halt-run has had that lock nobody is past the check
any more, since the directive came first. `OnlyApproved` from `ApprovedInv`: in a
batch the rebuilt manifest is the approved one, what is about to be committed is
what it lists, and the same holds of every commit a dead session left, wherever
HEAD has gone. `OnApprovedHeads` from `HeadInv`: what each label of a commit
knows about how far HEAD is from the approved one, and which race explains the
rest. `NothingSkipped` from `AccountInv`: a task a session has passed over is in
HEAD, and stays there.

**WorkerLifecycle_proof.** `TypeCorrect` and `WorkersTracked` from `WorkerInv`:
a heartbeat names the command of its own launch (`BeatFollows`), manager,
launcher and command of one dispatch know the same dispatch at each phase of the
handshake (`ManagerKnows`), a queued GO names nobody (`QueuedUnnamed`), and a
command that was released is tracked unless its launch was ambiguous
(`ReleasedTracked`). `LiveTargetTracked` alone is not inductive: it says nothing of
the command that READY and GO are about to start.

**TaskLoop_proof.** `TypeCorrect`, `FailuresStopTheLoop`, `NoEditLost`,
`DoneStaysCommitted` and `GatesCoverTheCommit`, for any boards, files, owners and
bounds, from `LoopInv`. A board starts a sprint with no task at the failure limit
(`BoardsAssumption`). The parts: `Placed` (a commit belongs to a track at its
commit, a sync to a task with a baseline); `Counted`, in which a track that may
still fail its task is one below the limit (`MayFail`), since a bound on `fails`
alone breaks as soon as a gate fails; `ContentHeld`, the latest content of a file
is in the tree or, during a sync, in what the commit will put back; `Aged`, no
content anybody may put back or has accepted is newer than the latest, which is
why a commit of the present tree backs every Done task; `Standing`, a track knows
the board's state of its task; `Backed`, `DoneIsCommitted` with HEAD replaced by
what HEAD falls back to if the commit under way fails (`Fallback`), since between
the sync and the end of the commit HEAD itself may be taken back; and `Verified`,
the gates of a task that is judged and not committed have seen its latest
content. `Least`, that a set of numbers has a least one, gives that a plan names
tasks of the board without induction (`FirstIsIn`, `PlanOnBoard`).

**DocStore_proof.** `TypeCorrect`, `FilesFollow`, `CommittedIsApplied` and the
refinement `AtomicSteps`, for any documents, processes, refs and bounds
(`StoreAssumption`), from `DocInv`: while `spoilt` is empty, `Sane`. A settled
store says nothing of how it got there, so the invariant is about the
transaction under way, or the one a dead process left: at most the latest one is
pending and one handle has the jobs (`OneAtATime`, `Placed`); what it plans leads
from its `before` to its `mem` (`Planned`, `UnderWay`, `Recovers`), the entries
being on either side of it (`Fits`, `LastFits`); every file that is not as the
handle's entries have it is in the handle's list of jobs, or in that of another
recovery (`Covers`, `Held`); and, for the case that all of them die, every such
file is one that the *next* recovery will find (`Recoverable`, `Coverable`), by an
argument of its own for each operation. `Goal` is where a recovery goes: the
index, but for an archive whose complete copy is there already, which is rolled
forward, so that recoveries that read the index at different moments still agree
(`Behind`). `AtomicSteps` is the step-by-step implementation of
`AtomicDocStore`: of all jobs only the index write changes the entries, by one
operation from the entries the mutation began with; its reversal is a
revocation; and a recovery's index write is an archiving by itself. No value of
`spoilt` can be left out (section 6): admitting `"half"`, `"overlap"` or `"stale"` alone,
TLC finds a step of more than one operation; `"refused"`, `"read"`, `"half"` or
`"overlap"`, a settled store with a wrong file; `"read"`, `"overlap"` or `"stale"`, a
commit without its effect.

**RunPhases_proof.** `TypeCorrect`, `WorkersClaimed` and `ApprovedOnly`, for any
runs, tasks, sessions and bounds, from `Invariant` (`PhaseInv`), and from it the
cockpit's `StoryIsOne` and `AdviceLeadsOn`, which are about one state each. That a
live worker's task is claimed by its run is not inductive by far: commands read a
run, work for minutes and write. `RunKnown` says what a run under way rests on: no
session is about to write a checkpoint for its approval any more (`Spent`), and if
the checkpoint is fresh and of that approval, every task of the plan is `Held`, that
is claimed, or lost in a way that is excused (`Vouched`). `Knows` says the same of
the copies that a dispatcher, an executor, a launcher, a recovery, a sweep and a
planner hold between two of their steps: an executor's covers what it has started,
whatever has become of the run. With `AskedOnce` (an approval writes one checkpoint) and
`OneExecutor` (a run's executor lock has one holder) these are preserved, by lemmas
on what an action may do to a session, a checkpoint and a run it is not about.

**Governance_proof.** One inductive invariant for each part, guarded by `which`;
`Apart` is the lemma that a step of the composition is a step of the part chosen.

* *Intents* (`IntentInv`): `GoalsHaveOneTask` and `NoGoalLost`. All that a planner has
  read is carried by the source it made of it (`ReadCarried`), and before it marks, a
  task has that source (`SourceAdded`). The reading, the marking and the list of
  notes are computed line by line, by recursive functions over the length of a
  list. Induction over it is done on sets of naturals: `Least` (a non-empty set of
  naturals has a least one), from the library's well-founded order, gives
  `Induction` for a set as a first-order fact, and `Recursion` its use for a function
  that is defined by the value before. From these come what `Kept` keeps (`KeptSet`)
  and that a marking changes no text and marks no line but those whose text was
  read (`MarkedAlike`).
* *Lessons* (`LessonInv`): `LessonsTyped`, `RetiredStaysOut`, `LessonsToldOnce` and
  `LessonsCommittedWhole`. What a resolve knows of its pitfall, rule and gate at each
  of its steps (`ResolveKnows`), of HEAD's pitfalls while their file is clean
  (`HeadKnows`), and that what governance said of a rule is in the rule whoever
  writes it again (`Remembered`).
* *Gates* (`GateInv`): `ApprovedIsGated`. In the full sequence, a gate that is not
  left to run has passed since it began (`SequenceKnown`, `PassedSince`); a pass
  in the log was one (`LogTellsPasses`); no pass is on later code than there is
  (`PassesKnown`); and what a manifest binds had passed by then (`ManifestKnown`).
* *Plans* (`PlanInv`): `OnlyReviewedIsDispatched`. The plan a session approves, writes a
  checkpoint for or dispatches has passed a review or is waived, at each step between
  two of its reads and writes (`PlanKnown`), and so has that of each of the three files.
* *Installer* (`InstallInv`): `VersionTellsScripts`. A command that began alone
  (`OneIsClean`) has written each script or has it among what is left to write
  (`ToBeWritten`), and writes one only under a sentinel, where no version was, or
  under one of the named excuses (`Warned`).
* *Store upkeep* (`UpkeepInv`): `ReportsAreTrue` and `CommitsAreKept`. What a session has
  read or set aside is no older than any commit made while nobody held such a copy
  (`RevKnown`); a session that nobody disturbed is alone, and knows how the store
  it found compares with the one that is there, label by label (`Soloist`).
* *Git index* (`IndexInv`): `IndexTyped`, `StagedStays`, `NothingHalfPublished`,
  `HeadKeepsTasks`. Commits are numbered in the order in which they are made, one
  pending at a time (`CommitsNumbered`); what a live session knows about HEAD, its
  lock and its candidate at each label (`PilotKnows`); an `update-ref` that outlived
  its session is of a complete candidate whose commit is still pending, or comes too
  late to matter (`OrphansKnown`); a candidate that is complete is the index plus
  the task (`CandidateWhole`), which is what makes the rename harmless to the user's
  stagings; and the index lacks what HEAD has only while the pending commit is
  HEAD and owns the lock (`Following`).
* *Agents* (`RunnerInv`): `DispatchesEnd`, `ResultsAreOwn`, `CommandsEnd`. That a
  dispatch under way can settle needs to know whose each timer (`TimersKnown`), each
  entry of the bridge's map (`FlightsKnown`) and each agent (`AgentsKnown`) is, and
  that a success is the task's own needs `LateKnown`: a colony's agent at work is
  either the one waited for, or belongs to a task one of whose dispatches its timer
  ended. `SpawnSettles`, `ColonySettles` and `GoneKeeps` are the three ways in which
  anything ends; each action is one of them, or moves a dispatch on.

With these, every invariant, action property and refinement that a passing run
checks is a theorem. Only model-checked are the liveness properties: `StopHonoured`,
`StaleLockReaped`, `TasksComeBack` and `InterruptedRunRecovers`. They rest on
fairness, whose definition is by `ENABLED`, and neither is in the provers' reach. The
properties that section 3 names beside the runs are model-checked too, as far as
section 5 does not name them. No module that is proved about uses recursive operators.

## 6. What the models found

Statements of the repository's text that the code does not keep. The first is a
run and a finding; each of the others has a cfg that ends in the counterexample.

1. `auto-pilot-loop.mjs:279` – a bundle takes the gate events of every attempt,
   so a task whose required gate failed once can not be approved in that run,
   however well its rework passes (`gates_rework`).
2. `locking.mjs:190` – a missing `await` lets a reaper remove the lock of a
   live replacement owner (`PilotFileLock_replaced.cfg`), against 71-73: "A
   replacement owner is never removed".
3. `orchestration-state.mjs:311` – a single-file run writer changes `run.json`
   under a dead writer's pending transaction; every later command then reports a
   conflict (`RunTracksTransaction_wedge.cfg`), against 488: "one recoverable
   logical transaction". `RecoverableUntilOverwritten` shows it is the only way.
4. `auto-pilot-orchestrate.mjs:2145` – settling a halted track drops the
   identity of a command whose launch was ambiguous
   (`WorkerLifecycle_identity.cfg`), against `auto-pilot-intervene.mjs:143-145`.
5. `auto-pilot-loop.mjs:2214` – HEAD is read long before `index.lock` is held;
   after a user commit in between, a leftover lock is not recovered
   (`GitIndexCommit_lock.cfg`). `LockResolvable` shows that is the only way.
6. `auto-pilot-orchestrate.mjs:2771` – a commit of the user between a look at
   HEAD and the commit's own reading of it becomes the base of an approved task
   (`CommitApproval_head.cfg`). `HeadBoundUnlessRaced` shows these windows are
   the only way.
7. `auto-pilot-orchestrate.mjs:2885` – journal commits without looking for a
   halt, also after halt-run returned (`CommitApproval_halt.cfg`).
   `HaltStopsTasks` shows that tasks are not committed then.
8. `auto-pilot-orchestrate.mjs:2777` – the reset after a failed or stale commit
   is no compare-and-swap: it takes a run that was replanned and dispatched
   meanwhile back to awaiting-commit-approval with workers alive
   (`RunPhases_settled.cfg`), against the protocol's "required after workers settle".
9. `lib/doc-store/store-recovery.mjs:251` – a recovery of a half-made create that
   dies itself leaves it half undone, and the next recovery does not see what is
   left, against "idempotent recovery" (`DocStore_recovery.cfg`).
10. Through the harness, by naming the property in `Governance.cfg`:
    `ForceContinues` (an upgrade that dies between `version.json` and the removal
    of the sentinel says "Already up to date" when re-run with `--force`, and
    leaves the sentinel for ever).

What attempts at a proof found, when an invariant turned out not to be inductive:

* `CompletedIsCommitted` said too much: a run may be marked completed although a
  task it lists is not in HEAD any more, when a dead session's late `update-ref`
  lands after the task was looked for. The late commit is now a race of the
  manifest (`Raced`), in `HeadBoundUnlessRaced` as well, where another session may
  also commit between the unlock and `ObserveHead`.
* `DoneIsCommitted` was false: while a sync has earlier contents in the tree a
  user's commit puts those at HEAD, also of a file whose task is Done, and when
  the sync or the task's commit then fails nothing takes them back
  (`auto-pilot-loop.mjs:2706`). TLC finds it with two faults, the run allows one;
  it is a named excuse now (`"committed-in-sync"`).
* `CommittedAsVerified` held in the run only because no two of its tasks share a
  file at the wrong moment. Tracks share one tree, so that another task's worker
  may edit a file between its acceptance gate and its commit, which takes
  the edit along (`auto-pilot-loop.mjs:2726`); named `"shared"`.
* A rolled-back commit goes to the sync commit's parent
  (`auto-pilot-loop.mjs:2628-2644`), not to the HEAD the commit began with, which a
  user's commit may have left behind; the model had the latter.
* A worker was started for a run that had ended: `RunPhases` lacked the second look
  at the run that `runTrack` takes before each track
  (`auto-pilot-orchestrate.mjs:2308-2317`), and no bound of a run had let it matter.
* `AdviceSuffices` needed one more dead end: a queue emptied by a halt that outlived
  a new init of the run has no track to await and none to halt.
* `GateEvidence`, `Installer` and `IntentBacklog` have been put in other words, with
  the same states (TLC counts as many): the gates left to run are a set with an
  order, a template an upgrade skips is passed over by a step of its own, lists
  are filtered and folded by recursive functions. The folds of the libraries give
  the provers nothing to unfold.

Corners that the properties have to except, each named in the module:

* **Run phases.** A claim that lapses while a worker runs, and a halt-run that
  outlives a new init and releases the new life's claims (`excused`). A dispatch
  from dry-run-preview always ends in DISPATCH_CONTEXT_CHANGED. After the death
  of an executor that had settled its tracks, Done tasks drop out of the commit;
  a run whose tasks others finished stays in running (the excuse of
  `InterruptedRunRecovers`). supersede-plan leaves the manifest hash behind.
* **Cockpit.** `DeadEnd` lists where following the list alone leads nowhere:
  after replan or supersede-plan, awaiting-plan-approval lists review-plan and
  approve-plan, both refused without a plan, and not plan, which is accepted;
  plan-reviewed lists approve-plan alone also when the review failed or was never
  written; a lapsed claim is read by no table before dispatch; an invalid approval
  lists approve-commit, which refuses in commit-approved; a run that settled
  without a result lists nothing. Beyond these, harmless but misleading: a
  finished cycle with Done tasks is "needs-approval" (no case for cycle-closed);
  dry-run-preview lists await-workers, which refuses; STALE_RUN_PHASE can not be
  raised; an extra file in a bundle's directory makes approve-commit refuse while
  the cockpit says verified; before a commit phase "trusted proof" speaks of the
  gates' configuration alone.
* **Task loop.** Edits and gates while another track's sync has the baseline in
  the tree (`"edited-in-sync"`, `"gated-in-sync"`), a user's commit of those
  (`"committed-in-sync"`), a kill there, an edit by another task's worker after the
  gates (`"shared"`), workers a dead loop left, tasks moved by users. A task's commit takes every changed file,
  other tracks' half-done work included; after a restart a worker's own files
  may be taken for the baseline. A commit that keeps failing resets the failure
  count through Done, so the three-failures stop never stops it. A dependency
  cycle gives empty cycles up to the maximum. The permission scope may blame a
  task for another track's files.
* **Document store.** `spoilt`: the rollback of a duplicate create removes the
  existing file; a read through the same handle during a mutation loses the
  change; recovery at open takes no lock; a transaction that begins over a dead
  one's is then recovered from stale entries; a create, or an adopt with its
  legacy file, whose rollback or recovery dies stays half undone. In upkeep, `unguarded` commits:
  made between what a migration or init read and wrote, or before a migration
  verified (which then rolls the commit back, journal included), and `discarded`
  ones (`--force` over a damaged index).
* **Parallel runner.** A rejected dispatch leaves other tracks' workers behind
  with no word on the board, so that the plan, started again, puts a second worker
  on a task; a late word of an overtaken colony dispatch settles the next one;
  READY's timeout sends SIGTERM only.
* **Intents.** Of several open objectives the oldest is planned but all are
  marked handled (`superseded`); a goal asked for again in the same words finds
  its old, even Done, task; a constraint appended between a dead planner's add
  and its retry changes the hash, and a second task is made; constraints without
  an objective block planning.
* **Lessons.** A resolve that is repeated adds a gate again that maintenance had
  removed; the journal is searched by substring (PF-100 in PF-1000); after a
  death the artefacts stay uncommitted until somebody commits.
* **Gates.** The first status line wins; a fallback reviewer that exits 0 without
  a status passes; `FallbackHonoured` does not hold in Review, where
  `auto-pilot-loop.mjs:3042` hands on only the build and review commands.
* **Plans.** A plan changed by hand in `run.json` under a review that approves at
  once is dispatched unreviewed (`past.mixed`); without a worktree the bound file is
  not looked at again; a failed re-review does not take an approval back
  (`LastReviewStands` is violated).
* **Installer.** An interrupted upgrade resumes only with `--force`, which
  overwrites local changes of templates; init without it leaves a partial
  scaffold at the first existing file, whose user-state files an upgrade never
  creates; nothing is locked.
* **Git index.** Evidence that nothing can apply stays until removed by hand
  (fail closed, as intended), and a foreign `index.lock` is waited for and left.

## 7. Abstractions

* Process ids are not reused while somebody remembers them; tokens make the
  code robust against reuse, which the models do not exercise.
* `updatedAt` is the identity of a version of `run.json`; the code's hash and
  timestamp comparisons are equality of that identity. (Two writes in the same
  millisecond would be one version: not modelled.)
* In `RunTracksTransaction` a run has one life; `RunPhases` has its new inits.
* Locked sections are exclusive steps outside `PilotFileLock`, and a dead owner's
  lock is reaped at once.
* In `RunPhases` a task's claim expiry is whether it has passed; board commands
  and run/tracks updates are one step; the commit is one step, since
  `CommitApproval` looks inside.
* `WorkerLifecycle` models the spawn path that orchestrate uses (with
  `onProcessStarted`); the bridge's other paths are `ParallelRunner`'s, at the
  grain of dispatches.
* In `TaskLoop` a file's content is the number of its last edit, each task
  works on one file, which tasks may share, a commit is one step, and the budget
  may stop the loop after any cycle.
* In `GitIndexCommit` the content of a tree is the set of tasks whose approved
  files it has, plus a count of the user's stagings. The user does not stage the
  very files of a task, switch branches or rewrite history, and removes a
  leftover lock only when no session is at work. Sessions exclude one another,
  as `commit.lock` promises.
* In `CommitApproval` a task's files are one version, tasks have files of their
  own, and the board, journal and evidence files committed with a task are left
  out (a change of theirs makes a manifest stale, which `StartCommit` may always
  find).
* In `DocStore` relations have one type; extension types, their modes and
  queries are left out. `StoreUpkeep` has one document and a commit in one step;
  nothing in the repository registers a migration, so the one from the old format
  is external.
* In `Lessons` any set of rules may be selected for a prompt or have decayed. In
  `GateEvidence` code is the number of its last edit and what a gate answers is
  any verdict; worktree runs are left out. In `IntentBacklog` a line is known by
  its text. In `Installer` what a package ships for a path is its number.
* Durable writes are atomic (write, fsync, rename), as the code makes them.

## 8. Not modelled, and the plan

Not modelled: argument parsing, prompts, reports and rendering; journal and
metrics, which nothing reads back to decide; `lib/meta-problems.mjs`, a list only
reports read (its unlocked read-modify-write may drop an entry when two are added
at once); `progress-iteration.mjs`, which assesses a repository and suggests a
goal; `lib/state-architecture.mjs` and `lib/isolation-evidence.mjs`, tables and a
test's log; MCP resources, which only read; the accept command's external
confirmation; per-kind document schemas; the website and demo files. Classifiers
over text (`error-recovery.mjs`, `permission-scope.mjs`'s command rules) have no
state; what depends on their outcome takes any outcome.

What would come next:

1. **AtomicCommit** – the commit step of `CommitApproval` as a specification of
   its own that `GitIndexCommit` is shown to implement.
2. **Crash handling in Lessons' document index** and the registration of document
   kinds in `DocStore`.
3. A composition of `TaskLoop` with `RunPhases`' claims, for a loop and an
   orchestrated run over one board.
4. The properties kept beside the runs (section 3) as theorems, first `NothingLost`
   of the installer and `PairConsistent`, and the liveness properties by their
   safety halves: what helps a step along is never disabled for good.
