---- MODULE TaskLoop ----
(***************************************************************************)
(* The autonomous loop of auto-pilot-loop.mjs: cycles of a plan and of one *)
(* track per planned task, each of which takes its task from one board     *)
(* state to the next until it is Done and committed, or Failed. All tracks *)
(* work in one working tree. A file's content is named by the number of    *)
(* the edit that wrote it. A git commit is one step here (GitIndexCommit   *)
(* looks inside), the commit of a task is several.                         *)
(***************************************************************************)
EXTENDS SprintTasks

CONSTANTS
  Boards,       \* the boards a sprint may start with
  Files,
  Own,          \* the file a task's worker edits
  Scoped,       \* the tasks whose permission policy admits no other file
  UserStates,   \* the states users move a task to
  FixPrios,     \* the priorities of the tasks a failed review may create
  MaxParallel,  \* --max-parallel (0: --no-parallel)
  MaxCycles,    \* --max-cycles
  MaxEdits,     \* bound: edits of files
  MaxFaults,    \* bound: kills, restarts, commits that fail, and what users do
  Nothing

ASSUME LoopAssumption == /\ Own \in [TaskIds -> Files]
                         /\ UserStates \subseteq TaskStates /\ FixPrios \subseteq 0..3
                         /\ {MaxParallel, MaxCycles, MaxEdits, MaxFaults} \subseteq Nat

\* A sprint starts with no task at the failure limit.
ASSUME BoardsAssumption ==
  \A b \in Boards : /\ DOMAIN b \subseteq TaskIds
                    /\ \A t \in DOMAIN b : b[t] \in TaskType /\ b[t].fails <= 2

VARIABLES
  board,        \* sprint-state.json
  tree, head,   \* the content of every file in the working tree and at HEAD
  loop,         \* the loop process
  track,        \* its tracks
  base,         \* its taskBaselines
  commit,       \* the holder of the commit lock and what it remembers
  orphans,      \* the workers a dead loop left running
  count,        \* the edits, starts and faults so far
  seen,         \* history: the edit of each file, of each task's file at its gates
  excused       \* history: what happened that no gate can answer for

vars == <<board, tree, head, loop, track, base, commit, orphans, count, seen, excused>>

Versions == 0..MaxEdits
Content == [Files -> Versions]
Free == Nothing

At(pc) == [pc |-> pc, fixes |-> 0, made |-> {}]
Idle == At("none")
TrackPc == {"none", "first", "again", "work", "review", "accept", "fix", "commit", "end"}

TrackType == [pc: TrackPc, fixes: Nat, made: SUBSET TaskIds]
Baselines == [dirty: SUBSET Files, tree: Content, head: Content]
Commits == [t: TaskIds, pc: {"sync", "undone", "synced", "task"},
            final: Content, undo: Content, synced: BOOLEAN, moved: BOOLEAN]

ASSUME NothingAssumption == Nothing \notin Baselines \union Commits

BoardType(b) == DOMAIN b \subseteq TaskIds /\ \A t \in DOMAIN b : b[t] \in TaskType

TypeOK ==
  /\ BoardType(board)
  /\ tree \in Content /\ head \in Content
  /\ loop \in [pc: {"dead", "plan", "tracks", "review", "over"}, cycle: 0..MaxCycles, last: BOOLEAN]
  /\ track \in [TaskIds -> TrackType]
  /\ base \in [TaskIds -> Baselines \union {Nothing}]
  /\ commit \in Commits \union {Free}
  /\ orphans \subseteq TaskIds
  /\ count \in [edits: Versions, starts: Nat, faults: 0..MaxFaults]
  /\ seen \in [latest: Content, reviewed: [TaskIds -> Versions],
               accepted: [TaskIds -> Versions], moves: Nat]

Init ==
  /\ board \in Boards
  /\ tree = [f \in Files |-> 0] /\ head = tree
  /\ loop = [pc |-> "dead", cycle |-> 0, last |-> FALSE]
  /\ track = [t \in TaskIds |-> Idle]
  /\ base = [t \in TaskIds |-> Nothing]
  /\ commit = Free
  /\ orphans = {}
  /\ count = [edits |-> 0, starts |-> 0, faults |-> 0]
  /\ seen = [latest |-> tree, reviewed |-> [t \in TaskIds |-> 0],
             accepted |-> [t \in TaskIds |-> 0], moves |-> 0]
  /\ excused = {}

-----------------------------------------------------------------------------
(* The working tree. *)

Changed == {f \in Files : tree[f] # head[f]}

\* listTaskDeltaFiles: against the snapshots of the files that were dirty, every
\* other dirty file, and what was committed since.
Delta(t) ==
  {f \in Files : \/ base[t].head[f] # head[f]
                 \/ f \in base[t].dirty /\ tree[f] # base[t].tree[f]
                 \/ f \in Changed \ base[t].dirty}

Written(f, v) == [seen EXCEPT !.latest[f] = v]

EditFile(f) ==
  /\ count.edits < MaxEdits
  /\ count' = [count EXCEPT !.edits = @ + 1]
  /\ tree' = [tree EXCEPT ![f] = count.edits + 1]
  /\ seen' = Written(f, count.edits + 1)

Syncing == commit # Free /\ commit.pc \in {"sync", "undone", "synced"}

\* A file that a commit has put an earlier content into for the moment: an edit of it is
\* overwritten when the commit puts its content back, a gate that reads it judges the past.
PutBack(f) == Syncing /\ f \in base[commit.t].dirty
LostBySync(f) == IF PutBack(f) THEN {"edited-in-sync"} ELSE {}
GatedInSync(f) == IF PutBack(f) THEN {"gated-in-sync"} ELSE {}

\* A file whose content the gates of its task have judged, until the task's track ends:
\* a worker of another task that edits it spoils the verdict.
Judged(t) == \/ board[t].state = "Testing"
             \/ board[t].state = "Done" /\ track[t].pc \notin {"none", "end"}
SpoiltBy(t) == IF \E s \in DOMAIN board \ {t} : Judged(s) /\ Own[s] = Own[t] THEN {"shared"} ELSE {}

-----------------------------------------------------------------------------
(* Cycles. *)

Start ==
  /\ loop.pc \in {"dead", "over"}
  /\ loop.pc = "over" => count.faults < MaxFaults
  /\ loop' = [pc |-> "plan", cycle |-> 0, last |-> FALSE]
  /\ count' = [count EXCEPT !.starts = @ + 1, !.faults = IF loop.pc = "over" THEN @ + 1 ELSE @]
  /\ UNCHANGED <<board, tree, head, track, base, commit, orphans, seen, excused>>

\* A plan the board refuses (a dependency cycle) makes a cycle of no track.
Plan ==
  /\ loop.pc = "plan" /\ loop.cycle < MaxCycles
  /\ ~HasCycle(board) => Actionable(board, NoRun) # {}
  /\ LET planned == IF HasCycle(board) THEN {} ELSE PlanTasks(board, NoRun, MaxParallel, 0)
     IN track' = [t \in TaskIds |-> IF t \in planned THEN At("first") ELSE Idle]
  /\ loop' = [loop EXCEPT !.pc = "tracks", !.cycle = @ + 1]
  /\ UNCHANGED <<board, tree, head, base, commit, orphans, count, seen, excused>>

NothingToDo ==
  /\ loop.pc = "plan" /\ loop.cycle < MaxCycles
  /\ ~HasCycle(board) /\ Actionable(board, NoRun) = {}
  /\ loop' = [loop EXCEPT !.pc = "review", !.last = TRUE]
  /\ UNCHANGED <<board, tree, head, track, base, commit, orphans, count, seen, excused>>

CyclesUsedUp ==
  /\ loop.pc = "plan" /\ loop.cycle = MaxCycles
  /\ loop' = [loop EXCEPT !.pc = "over"]
  /\ UNCHANGED <<board, tree, head, track, base, commit, orphans, count, seen, excused>>

\* Mutant: a limit that a restarted loop has already passed.
FailLimitExact(b) == \E t \in DOMAIN b : b[t].state # "Done" /\ b[t].fails = 3

FailLimit(b) == \E t \in DOMAIN b : b[t].state # "Done" /\ b[t].fails >= 3

\* Promise.allSettled, detectStopCondition, the budget (which may stop any cycle).
CycleEnds ==
  /\ loop.pc = "tracks" /\ \A t \in TaskIds : track[t].pc \in {"none", "end"}
  /\ \E budgetStop \in BOOLEAN :
       loop' = [loop EXCEPT !.pc = CASE FailLimit(board) \/ budgetStop -> "over"
                                     [] ~FailLimit(board) /\ ~budgetStop /\ Pending(board) = {} -> "review"
                                     [] OTHER -> "plan"]
  /\ track' = [t \in TaskIds |-> Idle]
  /\ UNCHANGED <<board, tree, head, base, commit, orphans, count, seen, excused>>

NewId(b) == 1 + CHOOSE m \in DOMAIN b \union {0} : \A t \in DOMAIN b : t <= m

CanAdd == NewId(board) \in TaskIds
Added(b, prio) == [t \in DOMAIN b \union {NewId(b)} |-> IF t \in DOMAIN b THEN b[t] ELSE NewTask(prio, {})]

\* handleSprintCompletionReview: cleared, or blocked by findings that become tasks.
ReviewClears ==
  /\ loop.pc = "review"
  /\ loop' = [loop EXCEPT !.pc = "over"]
  /\ UNCHANGED <<board, tree, head, track, base, commit, orphans, count, seen, excused>>

ReviewBlocks ==
  /\ loop.pc = "review" /\ CanAdd
  /\ board' = Added(board, 1)
  /\ loop' = [loop EXCEPT !.pc = IF loop.last THEN "over" ELSE "plan"]
  /\ UNCHANGED <<tree, head, track, base, commit, orphans, count, seen, excused>>

-----------------------------------------------------------------------------
(* Tracks: executeSingleTask. *)

Go(t, rec) == track' = [track EXCEPT ![t] = rec]

\* An update of the board with --if-state; a conflict ends the track.
Update(t, from, to, rec) ==
  IF board[t].state = from
  THEN board' = SetState(board, t, to) /\ Go(t, rec)
  ELSE Go(t, At("end")) /\ UNCHANGED board

\* What the state of its task makes a track do. Only a task's first action may start from
\* Failed. A dispatch begins with the baseline, taken once per task and process, and moves
\* the task to InProgress.
Dispatch(t) ==
  /\ board[t].state \in {"Backlog", "InProgress"} \/ (board[t].state = "Failed" /\ track[t].pc = "first")
  /\ base' = IF base[t] # Nothing THEN base
             ELSE [base EXCEPT ![t] = [dirty |-> Changed, tree |-> tree, head |-> head]]
  /\ board' = IF board[t].state = "InProgress" THEN board ELSE SetState(board, t, "InProgress")
  /\ Go(t, At("work"))

Select(t) ==
  /\ track[t].pc \in {"first", "again"}
  /\ \/ Dispatch(t)
     \/ /\ \/ board[t].state = "Review" /\ Go(t, At("review"))
           \/ board[t].state = "Testing" /\ Go(t, At("accept"))
           \/ board[t].state = "Done" /\ Go(t, At("commit"))
           \/ board[t].state = "Failed" /\ track[t].pc = "again" /\ Go(t, At("end"))
        /\ UNCHANGED <<board, base>>
  /\ UNCHANGED <<tree, head, loop, commit, orphans, count, seen, excused>>

Work(t) ==
  /\ track[t].pc = "work" \/ t \in orphans
  /\ EditFile(Own[t])
  /\ excused' = excused \union LostBySync(Own[t]) \union SpoiltBy(t)
                       \union (IF t \in orphans THEN {"orphan"} ELSE {})
  /\ UNCHANGED <<board, head, loop, track, base, commit, orphans>>

\* A worker that exits non-zero has landed its work if files changed and it shows
\* evidence of a passing build and passing tests.
PartialSuccess(t, evidence) == evidence /\ Delta(t) # {}

OutOfScope(t) == IF t \in Scoped THEN Delta(t) \ {Own[t]} ELSE {}

WorkerReports(t) ==
  /\ track[t].pc = "work"
  /\ \E success, evidence \in BOOLEAN :
       LET landed == success \/ PartialSuccess(t, evidence)
       IN Update(t, "InProgress", IF landed /\ OutOfScope(t) = {} THEN "Review" ELSE "Failed", At("again"))
  /\ UNCHANGED <<tree, head, loop, base, commit, orphans, count, seen, excused>>

\* runGateSequence for a review: a failed review gate leaves findings to fix.
ReviewGates(t) ==
  /\ track[t].pc = "review"
  /\ \/ /\ Update(t, "Review", "Testing", At("again"))
        /\ seen' = [seen EXCEPT !.reviewed[t] = tree[Own[t]]]
     \/ Update(t, "Review", "Failed", At("again")) /\ UNCHANGED seen
     \/ Update(t, "Review", "Failed", [At("fix") EXCEPT !.fixes = 1]) /\ UNCHANGED seen
  /\ excused' = excused \union GatedInSync(Own[t])
  /\ UNCHANGED <<tree, head, loop, base, commit, orphans, count>>

AcceptanceGates(t) ==
  /\ track[t].pc = "accept"
  /\ \/ /\ Update(t, "Testing", "Done", At("again"))
        /\ seen' = [seen EXCEPT !.accepted[t] = tree[Own[t]]]
     \/ Update(t, "Testing", "Failed", At("again")) /\ UNCHANGED seen
  /\ excused' = excused \union GatedInSync(Own[t])
  /\ UNCHANGED <<tree, head, loop, base, commit, orphans, count>>

\* createReviewFixTasks: a task per finding, then the dependencies are replaced.
AddFix(t) ==
  /\ track[t].pc = "fix" /\ track[t].fixes > 0
  /\ IF CanAdd
     THEN \E p \in FixPrios : /\ board' = Added(board, p)
                              /\ Go(t, [track[t] EXCEPT !.fixes = @ - 1, !.made = @ \union {NewId(board)}])
     ELSE Go(t, At("again")) /\ UNCHANGED board
  /\ UNCHANGED <<tree, head, loop, base, commit, orphans, count, seen, excused>>

DependOnFixes(t) ==
  /\ track[t].pc = "fix" /\ track[t].fixes = 0
  /\ board' = [board EXCEPT ![t].deps = track[t].made]
  /\ Go(t, At("again"))
  /\ UNCHANGED <<tree, head, loop, base, commit, orphans, count, seen, excused>>

-----------------------------------------------------------------------------
(* The commit of a task that is Done: autoCommitTask, under the commit lock. *)

Onto(content, S, over) == [f \in Files |-> IF f \in S THEN over[f] ELSE content[f]]
Committed(S) == head' = Onto(head, S, tree)

BaselineFiles(t) == IF base[t] = Nothing THEN {} ELSE base[t].dirty

NothingChanged(t) ==
  /\ track[t].pc = "commit" /\ commit = Free
  /\ Changed = {}
  /\ Go(t, At("end"))
  /\ UNCHANGED <<board, tree, head, loop, base, commit, orphans, count, seen, excused>>

\* The files that were dirty before the task get their earlier content back first.
BeginCommit(t) ==
  /\ track[t].pc = "commit" /\ commit = Free
  /\ Changed # {}
  /\ commit' = [t |-> t, pc |-> IF BaselineFiles(t) = {} THEN "task" ELSE "sync",
                final |-> tree, undo |-> head, synced |-> FALSE, moved |-> FALSE]
  /\ tree' = IF BaselineFiles(t) = {} THEN tree ELSE Onto(tree, BaselineFiles(t), base[t].tree)
  /\ UNCHANGED <<board, head, loop, track, base, orphans, count, seen, excused>>

CommitStep(t, pc) == commit # Free /\ commit.t = t /\ commit.pc = pc

Fault == count.faults < MaxFaults /\ count' = [count EXCEPT !.faults = @ + 1]

\* "chore: sync pending changes": committed, nothing to commit, or failed.
SyncCommit(t) ==
  /\ CommitStep(t, "sync")
  /\ Committed(BaselineFiles(t))
  /\ commit' = [commit EXCEPT !.pc = "synced", !.synced = Changed \intersect BaselineFiles(t) # {},
                              !.undo = head, !.moved = FALSE]
  /\ UNCHANGED <<board, tree, loop, track, base, orphans, count, seen, excused>>

SyncFails(t) ==
  /\ CommitStep(t, "sync")
  /\ Fault
  /\ commit' = [commit EXCEPT !.pc = "undone"]
  /\ UNCHANGED <<board, tree, head, loop, track, base, orphans, seen, excused>>

\* Mutant: the edits are put back after a successful sync only.
RestoreSynced(t) ==
  /\ CommitStep(t, "synced") \/ CommitStep(t, "undone")
  /\ tree' = IF commit.pc = "synced" THEN Onto(tree, BaselineFiles(t), commit.final) ELSE tree
  /\ IF commit.pc = "synced"
     THEN commit' = [commit EXCEPT !.pc = "task"] /\ UNCHANGED <<board, track>>
     ELSE commit' = Free /\ Update(t, "Done", "Failed", At("end"))
  /\ UNCHANGED <<head, loop, base, orphans, count, seen, excused>>

\* Mutant: the edits are put back when the sync had something to commit.
RestoreCommitted(t) ==
  /\ CommitStep(t, "synced") \/ CommitStep(t, "undone")
  /\ tree' = IF commit.synced THEN Onto(tree, BaselineFiles(t), commit.final) ELSE tree
  /\ IF commit.pc = "synced"
     THEN commit' = [commit EXCEPT !.pc = "task"] /\ UNCHANGED <<board, track>>
     ELSE commit' = Free /\ Update(t, "Done", "Failed", At("end"))
  /\ UNCHANGED <<head, loop, base, orphans, count, seen, excused>>

\* finally: what the tree held before the sync is put back.
Restore(t) ==
  /\ CommitStep(t, "synced") \/ CommitStep(t, "undone")
  /\ tree' = Onto(tree, BaselineFiles(t), commit.final)
  /\ IF commit.pc = "synced"
     THEN commit' = [commit EXCEPT !.pc = "task"] /\ UNCHANGED <<board, track>>
     ELSE commit' = Free /\ Update(t, "Done", "Failed", At("end"))
  /\ UNCHANGED <<head, loop, base, orphans, count, seen, excused>>

CommitTask(t) ==
  /\ CommitStep(t, "task")
  /\ Committed(Changed)
  /\ commit' = Free
  /\ Go(t, At("end"))
  /\ UNCHANGED <<board, tree, loop, base, orphans, count, seen, excused>>

\* Mutant: the failure is reported and the task stays Done.
CommitFailsQuietly(t) ==
  /\ CommitStep(t, "task")
  /\ Fault
  /\ head' = IF commit.synced /\ ~commit.moved THEN commit.undo ELSE head
  /\ commit' = Free
  /\ Go(t, At("end"))
  /\ UNCHANGED <<board, tree, loop, base, orphans, seen, excused>>

\* A failed commit goes back to the sync commit's parent, if HEAD is still that, and the task is Failed.
CommitFails(t) ==
  /\ CommitStep(t, "task")
  /\ Fault
  /\ head' = IF commit.synced /\ ~commit.moved THEN commit.undo ELSE head
  /\ commit' = Free
  /\ Update(t, "Done", "Failed", At("end"))
  /\ UNCHANGED <<tree, loop, base, orphans, seen, excused>>

-----------------------------------------------------------------------------
(* What the loop does not control. *)

\* A kill of the loop: its workers go on, its baselines are gone, the lock is reaped.
Die ==
  /\ Fault
  /\ loop.pc \notin {"dead", "over"}
  /\ loop' = [loop EXCEPT !.pc = "dead"]
  /\ orphans' = orphans \union {t \in TaskIds : track[t].pc = "work"}
  /\ excused' = excused \union {"died"} \union (IF Syncing THEN {"died-in-sync"} ELSE {})
  /\ track' = [t \in TaskIds |-> Idle]
  /\ base' = [t \in TaskIds |-> Nothing]
  /\ commit' = Free
  /\ UNCHANGED <<board, tree, head, seen>>

OrphanEnds(t) ==
  /\ t \in orphans
  /\ orphans' = orphans \ {t}
  /\ UNCHANGED <<board, tree, head, loop, track, base, commit, count, seen, excused>>

UserEdits(f) ==
  /\ count.edits < MaxEdits /\ count.faults < MaxFaults
  /\ count' = [count EXCEPT !.edits = @ + 1, !.faults = @ + 1]
  /\ tree' = [tree EXCEPT ![f] = count.edits + 1]
  /\ seen' = Written(f, count.edits + 1)
  /\ excused' = excused \union {"user"} \union LostBySync(f)
  /\ UNCHANGED <<board, head, loop, track, base, commit, orphans>>

UserCommits ==
  /\ Fault
  /\ Changed # {}
  /\ Committed(Changed)
  /\ commit' = IF commit = Free THEN Free ELSE [commit EXCEPT !.moved = TRUE]
  /\ excused' = excused \union (IF Syncing THEN {"committed-in-sync"} ELSE {})
  /\ UNCHANGED <<board, tree, loop, track, base, orphans, seen>>

UserMoves(t) ==
  /\ Fault
  /\ t \in DOMAIN board
  /\ \E s \in UserStates \ {board[t].state} : board' = SetState(board, t, s)
  /\ seen' = [seen EXCEPT !.moves = @ + 1]
  /\ excused' = excused \union {"moved"}
  /\ UNCHANGED <<tree, head, loop, track, base, commit, orphans>>

-----------------------------------------------------------------------------
Cycle == Start \/ Plan \/ NothingToDo \/ CyclesUsedUp \/ CycleEnds \/ ReviewClears \/ ReviewBlocks

Track(t) ==
  \/ Select(t) \/ WorkerReports(t) \/ ReviewGates(t) \/ AcceptanceGates(t)
  \/ AddFix(t) \/ DependOnFixes(t)
  \/ NothingChanged(t) \/ BeginCommit(t) \/ SyncCommit(t) \/ Restore(t) \/ CommitTask(t)

Environment ==
  \/ Die \/ UserCommits
  \/ \E t \in TaskIds : Work(t) \/ OrphanEnds(t) \/ UserMoves(t) \/ SyncFails(t) \/ CommitFails(t)
  \/ \E f \in Files : UserEdits(f)

Next == Cycle \/ (\E t \in TaskIds : Track(t)) \/ Environment

Spec == Init /\ [][Next]_vars

-----------------------------------------------------------------------------
(* Properties. *)

\* "Same task failed three times" stops the loop: a start of the loop adds at most one
\* failure to a task that had its three, whatever cycles, reviews and commits fail.
FailuresBounded ==
  \A t \in DOMAIN board : board[t].fails <= 2 + count.starts + seen.moves

\* What a task's commit says of its file is what review and acceptance gates saw.
CommittedAsVerified ==
  [][\A t \in TaskIds :
       CommitTask(t) /\ excused = {} =>
         tree[Own[t]] = seen.accepted[t] /\ seen.accepted[t] = seen.reviewed[t]]_vars

\* No edit is lost from the working tree by the exchange of contents around the sync commit.
EditsKept ==
  ~Syncing /\ excused \intersect {"edited-in-sync", "died-in-sync"} = {} => tree = seen.latest

\* A task stays Done only with the work its gates accepted committed.
DoneIsCommitted ==
  commit = Free /\ excused \intersect {"died", "moved", "edited-in-sync", "committed-in-sync"} = {} =>
    \A t \in DOMAIN board :
      board[t].state = "Done" /\ track[t].pc \in {"none", "end"} =>
        head[Own[t]] >= seen.accepted[t]
====
