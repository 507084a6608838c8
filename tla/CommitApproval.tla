--------------------------- MODULE CommitApproval ---------------------------
(***************************************************************************)
(* From settled tasks to commits: approve-commit binds the tasks, their    *)
(* files and HEAD in a manifest, commit commits task by task under         *)
(* commit.lock, journal closes the cycle (auto-pilot-orchestrate.mjs),     *)
(* while halt-run, supersede-plan and replan (auto-pilot-intervene.mjs),   *)
(* other sessions and the user go on.                                      *)
(*                                                                         *)
(* One run is modelled.  The content of a task's files is a version, 0 the *)
(* one the repository starts from.  Planning, dispatch and the workers'    *)
(* work are one step (Settle).  The commit itself is atomic here; how it   *)
(* is made so is GitIndexCommit's.  A session that dies in it leaves a     *)
(* commit that a late update-ref, or a later recovery, may still publish.  *)
(***************************************************************************)
EXTENDS Naturals, Sequences

CONSTANTS
  Sessions,    \* processes running approve-commit, commit or journal
  Tasks,
  Isolated,    \* the tasks whose workers have worktrees of their own
  MaxVersion,  \* bound on the versions of a task's files
  MaxCommits,  \* bound on the length of the history
  MaxStamp,    \* bound on the writes of run.json
  MaxActs,     \* bound on the user's edits, commits and interventions
  None

ASSUME IsolatedAssumption == Isolated \subseteq Tasks
ASSUME BoundsAssumption == MaxVersion \in Nat \ {0} /\ MaxCommits \in Nat /\ MaxStamp \in Nat /\ MaxActs \in Nat

Versions == 0 .. MaxVersion
Trees == [Tasks -> Versions]
Files == UNION {[ts -> Versions] : ts \in SUBSET Tasks}
Manifests == [base : 0 .. MaxCommits, files : Files]
ASSUME NoneAssumption == None \notin Sessions /\ None \notin Tasks /\ None \notin Manifests

Phases == {"awaiting-plan-approval", "awaiting-commit-approval", "commit-approved", "committed",
           "cycle-closed", "halted"}
Runs == [phase : Phases, plan : SUBSET Tasks, tasks : SUBSET Tasks,
         manifest : Manifests \cup {None}, stamp : 0 .. MaxStamp]
Entries == [by : {"task", "control", "user"}, task : Tasks \cup {None}, tree : Trees,
            manifest : Manifests \cup {None}, raced : BOOLEAN]

VARIABLES
  run,     \* run.json; stamp is updatedAt
  halt,    \* a halt-run directive was appended
  state,   \* the tasks' states on the sprint board
  result,  \* the version a worker committed in its worktree
  work,    \* the integration working tree
  log,     \* the commits from the initial one to HEAD
  lock,    \* holder of commit.lock
  at, mem, \* where each session stands, and what it remembers
  late,    \* commits of dead sessions that may still reach HEAD
  halter,  \* the halt-run command
  acts     \* how often the user acted

vars == <<run, halt, state, result, work, log, lock, at, mem, late, halter, acts>>

Labels == {"idle", "approve", "stale", "next", "check", "merge", "stage", "update", "unlock", "fail",
           "refuse", "observe", "reset", "journal", "control", "controlUpdate"}

HEAD == Len(log)
TreeAt(n) == IF n = 0 THEN [t \in Tasks |-> 0] ELSE log[n].tree
Terminal(phase) == phase = "halted"

StartRun == [phase |-> "awaiting-commit-approval", plan |-> Tasks, tasks |-> {}, manifest |-> None, stamp |-> 0]
NoMemory == [snap |-> StartRun, current |-> None, todo |-> {}, expected |-> 0, task |-> None,
             parent |-> 0, staged |-> 0,
             raced |-> FALSE,    \* history: another commit came between two looks at HEAD
             touched |-> {}]     \* history: tasks others changed, or merges found in HEAD, since

Init ==
  /\ run = StartRun
  /\ halt = FALSE
  /\ state = [t \in Tasks |-> "Done"]
  /\ result = [t \in Tasks |-> IF t \in Isolated THEN 1 ELSE 0]
  /\ work = [t \in Tasks |-> IF t \in Isolated THEN 0 ELSE 1]
  /\ log = <<>>
  /\ lock = None
  /\ at = [s \in Sessions |-> "idle"]
  /\ mem = [s \in Sessions |-> NoMemory]
  /\ late = {}
  /\ halter = "idle" /\ acts = 0

Goto(s, from, to) == at[s] = from /\ at' = [at EXCEPT ![s] = to]
Remember(s, m) == mem' = [mem EXCEPT ![s] = m]
Leave(s, from) ==
  /\ Goto(s, from, "idle")
  /\ Remember(s, NoMemory)

(* buildCommitApprovalManifest                                             *)
Manifest(ts) == [base |-> HEAD, files |-> [t \in ts |-> IF t \in Isolated THEN result[t] ELSE work[t]]]

(* transitionRunIfUnchanged                                                *)
Unchanged(s) ==
  /\ run.phase = mem[s].snap.phase /\ run.stamp = mem[s].snap.stamp
  /\ ~Terminal(run.phase) /\ ~halt

Stamped(r) == [r EXCEPT !.stamp = run.stamp + 1]
WriteRun(r) == run.stamp < MaxStamp /\ run' = Stamped(r)
ResetRun == [run EXCEPT !.phase = "awaiting-commit-approval", !.tasks = {}, !.manifest = None]

TransitionIfUnchanged(s, r) == IF Unchanged(s) THEN WriteRun(r) ELSE UNCHANGED run

Board == <<state, result, work>>
Others == <<halt, result, late, halter, acts>>

(* A commit that is not of the approval a session works on comes between   *)
(* the approval's HEAD check and the commit's own reading of HEAD, or      *)
(* between its commit and the next reading.                                *)
Raced(manifest) ==
  [s \in Sessions |->
     IF at[s] \in {"merge", "stage", "unlock", "observe"} /\ mem[s].snap.manifest # manifest
     THEN [mem[s] EXCEPT !.raced = TRUE] ELSE mem[s]]

(* Files of tasks that a session works on are changed by others.           *)
Touched(m, ts) == [s \in Sessions |-> [m[s] EXCEPT !.touched = @ \cup (ts \cap m[s].snap.tasks)]]

----------------------------------------------------------------------------
(* approve-commit                                                          *)

ApproveCommit(s) ==
  /\ Goto(s, "idle", "approve") /\ run.phase = "awaiting-commit-approval"
  /\ \E ts \in SUBSET {t \in run.plan : state[t] = "Done"} \ {{}} :
       Remember(s, [NoMemory EXCEPT !.snap = run, !.todo = ts, !.current = Manifest(ts)])
  /\ UNCHANGED <<run, state, work, log, lock, Others>>

PublishApproval(s) ==
  /\ Leave(s, "approve")
  /\ TransitionIfUnchanged(s, [run EXCEPT !.phase = "commit-approved", !.tasks = mem[s].todo,
                                          !.manifest = mem[s].current])
  /\ UNCHANGED <<state, work, log, lock, Others>>

----------------------------------------------------------------------------
(* commit                                                                  *)

(* The manifest is rebuilt and compared; evidence and board files may have *)
(* changed as well.                                                        *)
StartCommit(s) ==
  /\ at[s] = "idle" /\ run.phase = "commit-approved" /\ run.tasks # {}
  /\ \A t \in run.tasks : state[t] = "Done"
  /\ Remember(s, [NoMemory EXCEPT !.snap = run, !.current = Manifest(run.tasks), !.todo = run.tasks,
                                  !.expected = HEAD])
  /\ \/ Goto(s, "idle", "next") /\ Manifest(run.tasks) = run.manifest
     \/ Goto(s, "idle", "stale")
  /\ UNCHANGED <<run, state, work, log, lock, Others>>

ResetStale(s) ==
  /\ Leave(s, "stale")
  /\ TransitionIfUnchanged(s, ResetRun)
  /\ UNCHANGED <<state, work, log, lock, Others>>

TakeCommitLock(s) ==
  /\ Goto(s, "next", "check") /\ lock = None
  /\ \E t \in mem[s].todo : Remember(s, [mem[s] EXCEPT !.task = t])
  /\ lock' = s
  /\ UNCHANGED <<run, state, work, log, Others>>

Superseded(s) == halt \/ Terminal(run.phase) \/ run.manifest # mem[s].snap.manifest

(* Mutant: the integration HEAD is not looked at.                          *)
VerdictOnRun(s) == IF Superseded(s) THEN "idle" ELSE IF mem[s].task \in Isolated THEN "merge" ELSE "stage"

(* COMMIT_SUPERSEDED, COMMIT_CONTEXT_STALE, or on with the task.           *)
Verdict(s) ==
  IF Superseded(s) THEN "idle"
  ELSE IF HEAD # mem[s].expected THEN "reset"
  ELSE IF mem[s].task \in Isolated THEN "merge" ELSE "stage"

CheckApproval(s) ==
  /\ Goto(s, "check", Verdict(s))
  /\ Remember(s, IF Verdict(s) \in {"idle", "reset"} THEN NoMemory ELSE mem[s])
  /\ lock' = IF Verdict(s) \in {"idle", "reset"} THEN None ELSE lock
  /\ UNCHANGED <<run, state, work, log, Others>>

(* The result of the worktree is merged into a clean integration tree.     *)
(* Where HEAD went on, that may give something else, or nothing to commit. *)
SquashMerge(s) ==
  /\ Goto(s, "merge", "stage") /\ work = TreeAt(HEAD)
  /\ LET t == mem[s].task
         theirs == mem[s].current.files[t]
     IN \E v \in IF work[t] = 0 THEN {theirs} ELSE Versions :
          /\ work' = [work EXCEPT ![t] = v]
          /\ Remember(s, IF v = work[t] THEN [mem[s] EXCEPT !.touched = @ \cup {t}] ELSE mem[s])
  /\ UNCHANGED <<run, state, log, lock, Others>>

(* WORKTREE_MERGE_FAILED: a dirty tree, or conflicts in every attempt.     *)
MergeFails(s) ==
  /\ Leave(s, "merge")
  /\ lock' = None
  /\ UNCHANGED <<run, state, work, log, Others>>

(* Mutant: what is staged is not compared with the approved hashes.        *)
StagedAny(s, parent, staged) ==
  IF staged = TreeAt(parent)[mem[s].task] THEN "unlock" ELSE "update"

(* Nothing to commit, not the approved content, or on to update-ref.       *)
StagedVerdict(s, parent, staged) ==
  IF staged = TreeAt(parent)[mem[s].task] THEN "unlock"
  ELSE IF staged # mem[s].current.files[mem[s].task] THEN "refuse" ELSE "update"

(* commitPaths reads the parent and stages the task's files on top of it.  *)
Stage(s) ==
  /\ Goto(s, "stage", StagedVerdict(s, HEAD, work[mem[s].task]))
  /\ Remember(s, [mem[s] EXCEPT !.parent = HEAD, !.staged = work[mem[s].task]])
  /\ UNCHANGED <<run, state, work, log, lock, Others>>

(* Files that were not approved have changed, or a hook adds some.         *)
Unapproved(s) ==
  /\ Goto(s, "stage", "refuse")
  /\ UNCHANGED <<run, state, work, log, lock, mem, Others>>

TaskEntry(s) ==
  [by |-> "task", task |-> mem[s].task, tree |-> [TreeAt(mem[s].parent) EXCEPT ![mem[s].task] = mem[s].staged],
   manifest |-> mem[s].snap.manifest, raced |-> mem[s].raced]

UpdateRef(s) ==
  /\ Goto(s, "update", "unlock") /\ HEAD = mem[s].parent /\ HEAD < MaxCommits
  /\ log' = Append(log, TaskEntry(s))
  /\ mem' = Raced(mem[s].snap.manifest)
  /\ UNCHANGED <<run, state, work, lock, Others>>

(* The ref moved, a hook rejected the commit, the index stayed locked, ... *)
GitFails(s) ==
  /\ at[s] \in {"stage", "update"} /\ at' = [at EXCEPT ![s] = "fail"]
  /\ UNCHANGED <<run, state, work, log, lock, mem, Others>>

(* rollbackSquashMergedFiles                                               *)
Unmerged(s) == IF mem[s].task \in Isolated THEN [work EXCEPT ![mem[s].task] = TreeAt(HEAD)[mem[s].task]] ELSE work

(* Mutant: the batch goes on after a task that could not be committed.     *)
FailAndContinue(s) ==
  /\ Goto(s, "fail", "observe")
  /\ state' = [state EXCEPT ![mem[s].task] = "Failed"]
  /\ work' = Unmerged(s)
  /\ lock' = None
  /\ UNCHANGED <<run, log, mem, Others>>

FailTask(s) ==
  /\ Goto(s, "fail", "reset") /\ Remember(s, NoMemory)
  /\ state' = [state EXCEPT ![mem[s].task] = "Failed"]
  /\ work' = Unmerged(s)
  /\ lock' = None
  /\ UNCHANGED <<run, log, Others>>

RefuseTask(s) ==
  /\ Goto(s, "refuse", "reset") /\ Remember(s, NoMemory)
  /\ work' = Unmerged(s)
  /\ lock' = None
  /\ UNCHANGED <<run, state, log, Others>>

Unlock(s) ==
  /\ Goto(s, "unlock", "observe")
  /\ lock' = None
  /\ UNCHANGED <<run, state, work, log, mem, Others>>

(* expectedIntegrationHead is read anew, after the lock is released.       *)
ObserveHead(s) ==
  /\ Goto(s, "observe", "next")
  /\ Remember(s, [mem[s] EXCEPT !.expected = HEAD, !.todo = @ \ {mem[s].task}])
  /\ UNCHANGED <<run, state, work, log, lock, Others>>

(* Not a compare-and-swap: whatever run is there goes back to approval.    *)
ResetAny(s) ==
  /\ Leave(s, "reset")
  /\ IF Terminal(run.phase) THEN UNCHANGED run ELSE WriteRun(ResetRun)
  /\ UNCHANGED <<state, work, log, lock, Others>>

CompleteCommit(s) ==
  /\ Leave(s, "next") /\ mem[s].todo = {}
  /\ TransitionIfUnchanged(s, [run EXCEPT !.phase = "committed", !.manifest = None])
  /\ UNCHANGED <<state, work, log, lock, Others>>

----------------------------------------------------------------------------
(* journal                                                                 *)

StartJournal(s) ==
  /\ Goto(s, "idle", "journal") /\ run.phase = "committed"
  /\ Remember(s, [NoMemory EXCEPT !.snap = run])
  /\ UNCHANGED <<run, state, work, log, lock, Others>>

CloseCycle(s) ==
  /\ IF Unchanged(s) THEN Goto(s, "journal", "control") /\ UNCHANGED mem ELSE Leave(s, "journal")
  /\ TransitionIfUnchanged(s, [run EXCEPT !.phase = "cycle-closed"])
  /\ UNCHANGED <<state, work, log, lock, Others>>

ControlLock(s) ==
  /\ Goto(s, "control", "controlUpdate") /\ lock = None
  /\ lock' = s
  /\ Remember(s, [mem[s] EXCEPT !.parent = HEAD])
  /\ UNCHANGED <<run, state, work, log, Others>>

ControlEntry(s) ==
  [by |-> "control", task |-> None, tree |-> TreeAt(mem[s].parent), manifest |-> None, raced |-> FALSE]

CommitControlFiles(s) ==
  /\ Goto(s, "controlUpdate", "idle")
  /\ lock' = None
  /\ \/ UNCHANGED log /\ Remember(s, NoMemory)
     \/ /\ HEAD = mem[s].parent /\ HEAD < MaxCommits
        /\ log' = Append(log, ControlEntry(s))
        /\ mem' = [Raced(None) EXCEPT ![s] = NoMemory]
  /\ UNCHANGED <<run, state, work, Others>>

----------------------------------------------------------------------------
(* A dead session's lock is reaped by whoever wants it (PilotFileLock).    *)

Crash(s) ==
  /\ at[s] # "idle" /\ Leave(s, at[s])
  /\ lock' = IF lock = s THEN None ELSE lock
  /\ late' = CASE at[s] = "update" -> late \cup {[parent |-> mem[s].parent, entry |-> TaskEntry(s)]}
               [] at[s] = "controlUpdate" -> late \cup {[parent |-> mem[s].parent, entry |-> ControlEntry(s)]}
               [] OTHER -> late
  /\ UNCHANGED <<run, halt, Board, log, halter, acts>>

LateUpdateRef(c) ==
  /\ HEAD = c.parent /\ HEAD < MaxCommits
  /\ log' = Append(log, c.entry)
  /\ late' = late \ {c}
  /\ mem' = Touched(Raced(c.entry.manifest), {c.entry.task})
  /\ UNCHANGED <<run, halt, Board, lock, at, halter, acts>>

----------------------------------------------------------------------------
(* intervene                                                               *)

HaltDirective ==
  /\ halter = "idle" /\ halter' = "directive" /\ ~Terminal(run.phase)
  /\ halt' = TRUE
  /\ UNCHANGED <<run, Board, log, lock, at, mem, late, acts>>

HaltRun ==
  /\ halter = "directive" /\ halter' = "barrier"
  /\ WriteRun([run EXCEPT !.phase = "halted", !.tasks = {}, !.manifest = None])
  /\ UNCHANGED <<halt, Board, log, lock, at, mem, late, acts>>

(* Mutant: halt-run returns without waiting for commit.lock.               *)
ReturnAtOnce ==
  /\ halter = "barrier" /\ halter' = "returned"
  /\ UNCHANGED <<run, halt, Board, log, lock, at, mem, late, acts>>

HaltBarrier ==
  /\ halter = "barrier" /\ halter' = "returned" /\ lock = None
  /\ UNCHANGED <<run, halt, Board, log, lock, at, mem, late, acts>>

Act == acts < MaxActs /\ acts' = acts + 1

(* supersede-plan, and replan of a task.  The commit approval stays.       *)
Replanned == [run EXCEPT !.phase = "awaiting-plan-approval", !.plan = {}]

SupersedePlan ==
  /\ Act /\ ~Terminal(run.phase)
  /\ WriteRun(Replanned)
  /\ UNCHANGED <<halt, Board, log, lock, at, mem, late, halter>>

Replan(t) ==
  /\ Act /\ ~Terminal(run.phase)
  /\ state' = [state EXCEPT ![t] = "Backlog"]
  /\ WriteRun(Replanned)
  /\ UNCHANGED <<halt, result, work, log, lock, at, mem, late, halter>>

(* Plan, approve, dispatch and await-workers up to the settlement, which   *)
(* an approval policy may approve at once.  Its last write does not look   *)
(* for a halt directive.                                                   *)
Settle(plan, version, auto) ==
  /\ run.phase \in {"awaiting-plan-approval", "cycle-closed"}
  /\ plan # {} /\ \A t \in plan : state[t] # "Done"
  /\ state' = [t \in Tasks |-> IF t \in plan THEN "Done" ELSE state[t]]
  /\ result' = [t \in Tasks |-> IF t \in plan \cap Isolated THEN version ELSE result[t]]
  /\ work' = [t \in Tasks |-> IF t \in plan \ Isolated THEN version ELSE work[t]]
  /\ WriteRun([run EXCEPT !.plan = plan,
       !.phase = IF auto THEN "commit-approved" ELSE "awaiting-commit-approval",
       !.tasks = IF auto THEN plan ELSE @,
       !.manifest = IF auto THEN [base |-> HEAD, files |-> [t \in plan |-> version]] ELSE None])
  /\ UNCHANGED <<halt, log, lock, at, mem, late, halter, acts>>

----------------------------------------------------------------------------
(* The user edits files, and commits some or none of them.                 *)

UserEdit(t, v) ==
  /\ Act /\ work[t] # v
  /\ work' = [work EXCEPT ![t] = v]
  /\ mem' = Touched(mem, {t})
  /\ UNCHANGED <<run, halt, state, result, log, lock, at, late, halter>>

UserCommit(ts) ==
  /\ Act /\ HEAD < MaxCommits
  /\ log' = Append(log, [by |-> "user", task |-> None,
                         tree |-> [t \in Tasks |-> IF t \in ts THEN work[t] ELSE TreeAt(HEAD)[t]],
                         manifest |-> None, raced |-> FALSE])
  /\ mem' = Touched(Raced(None), ts)
  /\ UNCHANGED <<run, halt, Board, lock, at, late, halter>>

CommitStep(s) ==
  \/ StartCommit(s) \/ ResetStale(s) \/ TakeCommitLock(s) \/ CheckApproval(s) \/ SquashMerge(s) \/ MergeFails(s)
  \/ Stage(s) \/ Unapproved(s) \/ UpdateRef(s) \/ GitFails(s) \/ FailTask(s) \/ RefuseTask(s)
  \/ Unlock(s) \/ ObserveHead(s) \/ ResetAny(s) \/ CompleteCommit(s)

JournalStep(s) == StartJournal(s) \/ CloseCycle(s) \/ ControlLock(s) \/ CommitControlFiles(s)

Next ==
  \/ \E s \in Sessions : ApproveCommit(s) \/ PublishApproval(s) \/ CommitStep(s) \/ JournalStep(s) \/ Crash(s)
  \/ \E c \in late : LateUpdateRef(c)
  \/ HaltDirective \/ HaltRun \/ HaltBarrier
  \/ SupersedePlan \/ \E t \in Tasks : Replan(t)
  \/ \E ts \in SUBSET Tasks : UserCommit(ts)
  \/ \E plan \in SUBSET Tasks, v \in Versions, auto \in BOOLEAN : Settle(plan, v, auto)
  \/ \E t \in Tasks, v \in Versions : UserEdit(t, v)

Spec == Init /\ [][Next]_vars

----------------------------------------------------------------------------
Memories == [snap : Runs, current : Manifests \cup {None}, todo : SUBSET Tasks, expected : 0 .. MaxCommits,
             task : Tasks \cup {None}, parent : 0 .. MaxCommits, staged : Versions,
             raced : BOOLEAN, touched : SUBSET Tasks]

(* Every variable stays in its type.                                       *)
TypeOK ==
  /\ run \in Runs
  /\ halt \in BOOLEAN
  /\ state \in [Tasks -> {"Backlog", "Failed", "Done"}]
  /\ result \in Trees /\ work \in Trees
  /\ log \in Seq(Entries) /\ Len(log) <= MaxCommits
  /\ lock \in Sessions \cup {None}
  /\ at \in [Sessions -> Labels]
  /\ mem \in [Sessions -> Memories]
  /\ late \subseteq [parent : 0 .. MaxCommits, entry : Entries]
  /\ acts \in 0 .. MaxActs
  /\ halter \in {"idle", "directive", "barrier", "returned"}

(* A commit of a task changes that task's files, to the approved version,  *)
(* and nothing else, whatever was edited, merged or committed after the    *)
(* approval, and also when it lands after its session died.                *)
CommittedAsApproved ==
  \A n \in 1 .. HEAD :
    log[n].by = "task" =>
      log[n].tree = [TreeAt(n - 1) EXCEPT ![log[n].task] = log[n].manifest.files[log[n].task]]

(* Once halt-run has returned, no live session commits a task any more.    *)
HaltStopsTasks ==
  [][halter = "returned" /\ log' # log => log'[Len(log')].by # "task" \/ late' # late]_vars

(* A run is committed when every approved task is in HEAD in its approved  *)
(* version: failures, resets, retries after a crash and second sessions    *)
(* never skip one, unless the user or a dead session's late update-ref     *)
(* changed its files meanwhile: HEAD is not looked at before the run is    *)
(* marked.                                                                 *)
CompletedIsCommitted ==
  [][\A s \in Sessions :
       at[s] = "next" /\ run.phase # "committed" /\ run'.phase = "committed" /\ at'[s] = "idle" =>
         \A t \in mem[s].snap.tasks :
           t \in mem[s].touched \/ TreeAt(HEAD)[t] = mem[s].snap.manifest.files[t]]_vars

(* A task is committed on the approved HEAD, or on commits of the same     *)
(* approval.                                                               *)
OnApprovedHead(n) ==
  \/ n - 1 = log[n].manifest.base
  \/ n > 1 /\ log[n - 1].by = "task" /\ log[n - 1].manifest = log[n].manifest

(* Only a commit that comes between two looks a session takes at HEAD      *)
(* slips under an approved task.                                           *)
HeadBoundUnlessRaced == \A n \in 1 .. HEAD : log[n].by = "task" /\ ~log[n].raced => OnApprovedHead(n)

(* README.md: "Commit approval is bound to the selected tasks, approved    *)
(* file set [...] and the current integration `HEAD`.  If any of that      *)
(* context changes, the run returns to approval instead of committing      *)
(* stale or unrelated work."                                               *)
HeadBound == \A n \in 1 .. HEAD : log[n].by = "task" => OnApprovedHead(n)

(* auto-pilot-intervene.mjs: "Returning from halt-run is the barrier: no   *)
(* in-flight commit can update HEAD after the user observes success":      *)
(* then no live session commits anything.                                  *)
HaltIsBarrier ==
  [][halter = "returned" /\ log' # log => log'[Len(log')].by = "user" \/ late' # late]_vars
=============================================================================
