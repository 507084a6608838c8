---- MODULE RunPhases ----
(***************************************************************************)
(* Orchestration runs over one shared sprint board: the phases of a run    *)
(* from init to done, its claims, checkpoint, plan review, tracks and its  *)
(* entry in the active-runs index (auto-pilot-orchestrate.mjs,             *)
(* auto-pilot-intervene.mjs, lib/orchestration-state.mjs).                 *)
(*                                                                         *)
(* A session is one process running one command: between the command's     *)
(* reads, its compare-and-swap and the writes that follow, other sessions  *)
(* and the workers move, and a session may die anywhere. A board command   *)
(* is one step (it holds the board's lock), and so is an update of a run   *)
(* and its tracks (RunTracksTransaction). The commit itself is             *)
(* CommitApproval's, the launch of a worker WorkerLifecycle's.             *)
(***************************************************************************)
EXTENDS SprintTasks

CONSTANTS
  Sessions,      \* processes that run commands
  MaxPlans,      \* bound: the number of plans each run begins
  MaxApprovals,  \* bound: the number of plan approvals each run begins
  MaxFaults      \* bound: deaths of sessions, lapses of claims and leases, halts, replans,
                 \* moves of tasks by hand and new inits in one behaviour

VARIABLES
  board,    \* the sprint board
  run,      \* run.json of every run
  halt,     \* whether directives.json holds a halt
  track,    \* tracks.json: the state of every task's track
  cp,       \* the checkpoint: the approval and plan it binds; id 0: no file
  review,   \* the plan a PASS review file names; 0: no file
  lease,    \* the active-runs index: "none", "live" or "expired" heartbeat
  sess,     \* what every session is doing
  used,     \* the bounds' counters
  excused   \* history: the tasks a run may lose while it works on them: their
            \* claim lapsed, or a halt-run released them that outlived a new init

vars == <<board, run, halt, track, cp, review, lease, sess, used, excused>>

Phases == {"initialized", "awaiting-plan-approval", "plan-reviewed", "plan-approved",
           "dispatch-queued", "dry-run-preview", "running", "awaiting-commit-approval",
           "commit-approved", "committed", "cycle-closed", "error", "halted", "done"}
TerminalPhases == {"error", "halted", "done"}
TrackStates == {"none", "queued", "preview", "running", "ended", "done", "failed", "settled", "halted",
                "stubborn"}   \* halted, but the worker could not be stopped
Steps == {"idle", "publish", "compensate", "dropReview", "reviewing", "recordReview", "approving",
          "recordCheckpoint", "dispatching", "acquired", "launching", "awaiting", "concluding",
          "freeing", "committing", "halting", "stopping", "disclaiming", "replanning", "closing",
          "recovering", "unbinding", "releasing", "clearing", "deindexing", "sweeping",
          "initializing", "indexing"}

\* The steps of the commands that hold the run's executor lock.
LockedSteps == {"dispatching", "acquired", "launching", "awaiting", "concluding", "freeing",
                "replanning", "closing", "recovering", "unbinding", "releasing", "clearing",
                "deindexing", "sweeping"}

Idle == [step |-> "idle", r |-> NoRun, valid |-> FALSE, id |-> 0, gen |-> 0, fresh |-> FALSE,
         tasks |-> {}]

Count == [plans: [Runs -> Nat], approvals: [Runs -> Nat], faults: Nat]

SessionType == [step: Steps, r: Runs \union {NoRun}, valid: BOOLEAN, id: Nat, gen: Nat,
                fresh: BOOLEAN, tasks: SUBSET TaskIds]
RunType == [phase: Phases, plan: SUBSET TaskIds, gen: Nat, approved: Nat, exec: {"none", "live", "dead"}]
CheckpointType == [id: Nat, gen: Nat, fresh: BOOLEAN]
BoardType == [TaskIds -> TaskType]

TypeOK ==
  /\ board \in BoardType
  /\ run \in [Runs -> RunType]
  /\ halt \in [Runs -> BOOLEAN]
  /\ track \in [Runs -> [TaskIds -> TrackStates]]
  /\ cp \in [Runs -> CheckpointType]
  /\ review \in [Runs -> Nat]
  /\ lease \in [Runs -> {"none", "live", "expired"}]
  /\ sess \in [Sessions -> SessionType]
  /\ used \in Count
  /\ excused \in [Runs -> SUBSET TaskIds]

-----------------------------------------------------------------------------
(* Shared conditions and writes. *)

NewRun == [phase |-> "initialized", plan |-> {}, gen |-> 0, approved |-> 0, exec |-> "none"]
NoTracks == [t \in TaskIds |-> "none"]
NoCheckpoint == [id |-> 0, gen |-> 0, fresh |-> FALSE]

\* The executor lock of run r is free (PilotFileLock).
ExecutorFree(r) == \A s \in Sessions : sess[s].r = r => sess[s].step \notin LockedSteps

LiveWorker(r) == \E t \in TaskIds : track[r][t] \in {"running", "stubborn"}

\* findShutdownBlockingTrack: an exited worker's track blocks until its heartbeat is
\* old; RunPhases takes it for old as soon as the worker is gone.
Blocked(r) == LiveWorker(r)

\* isCheckpointStale.
CheckpointValid(r) == cp[r].id # 0 /\ cp[r].fresh /\ cp[r].id = run[r].approved
                      /\ cp[r].gen = run[r].gen

\* The session goes on with its command at another step, or ends it.
Goto(s, step) == sess' = [sess EXCEPT ![s].step = step]
End(s) == sess' = [sess EXCEPT ![s] = Idle]

\* The compare-and-swap of transitionRunIfUnchanged would succeed.
Unchanged(s) == LET r == sess[s].r
                IN sess[s].valid /\ run[r].phase \notin TerminalPhases /\ ~halt[r]

\* The steps before a compare-and-swap of the run as the session read it.
Unpublished == {"recordReview", "committing", "closing"}

\* run.json is written: what the others read of it is out of date. The writer
\* ends (step "idle") or goes on; what it wrote is what it knows of the run.
Writes(s, r, new, step) ==
  /\ run' = [run EXCEPT ![r] = new]
  /\ sess' = [x \in Sessions |->
                IF x = s THEN IF step = "idle" THEN Idle
                              ELSE [sess[s] EXCEPT !.step = step, !.valid = step \in Unpublished]
                ELSE IF sess[x].r = r THEN [sess[x] EXCEPT !.valid = FALSE] ELSE sess[x]]

\* The board is written: no checkpoint's hash matches it any more, a checkpoint
\* under construction included. A command that changes nothing rewrites the same.
BoardWritten(new) ==
  /\ board' = new
  /\ cp' = IF new = board THEN cp ELSE [r \in Runs |-> [cp[r] EXCEPT !.fresh = FALSE]]

\* Sessions building a checkpoint hold the hash of the board they read.
Outdated(ss, changed) ==
  IF changed THEN [x \in Sessions |-> [ss[x] EXCEPT !.fresh = FALSE]] ELSE ss

\* A command that starts refreshes its run's lease, unless the run is terminal.
Heartbeat(r) == lease' = IF run[r].phase \in TerminalPhases THEN lease ELSE [lease EXCEPT ![r] = "live"]

Begin(s, r, step) ==
  /\ sess[s].step = "idle"
  /\ sess' = [sess EXCEPT ![s] = [Idle EXCEPT !.step = step, !.r = r, !.valid = step \in Unpublished]]

Fault == used.faults < MaxFaults /\ used' = [used EXCEPT !.faults = @ + 1]
CountRun(field, r) == used' = [used EXCEPT ![field][r] = @ + 1]

-----------------------------------------------------------------------------
(* plan: claim on the board, publish, compensate after a halt, drop the review. *)

PlanPhases == {"initialized", "awaiting-plan-approval", "plan-reviewed", "plan-approved",
               "dry-run-preview", "cycle-closed"}

\* The claim budget in a shared workspace: claimable Backlog over active runs.
Budget(r) ==
  LET claimable == Cardinality({t \in DOMAIN board :
                     board[t].state = "Backlog" /\ ~ActiveClaim(board, t)})
      active    == Cardinality({q \in Runs : lease'[q] # "none"})
  IN IF claimable > 0 /\ active > 1 THEN (claimable + active - 1) \div active ELSE 0

PlanClaim(s, r) ==
  /\ sess[s].step = "idle"
  /\ run[r].phase \in PlanPhases
  /\ used.plans[r] < MaxPlans[r]
  /\ Heartbeat(r)
  /\ ~HasCycle(board) /\ Actionable(board, r) # {}
  /\ LET tasks   == PlanTasks(board, r, Cardinality(TaskIds), Budget(r))
         claimed == Claim(board, r, ClaimableByName(board, r, tasks))
     IN /\ tasks \subseteq ClaimableByName(board, r, tasks)
        /\ board' = claimed
        /\ cp' = [q \in Runs |-> [cp[q] EXCEPT !.fresh = FALSE]]
        /\ sess' = Outdated([sess EXCEPT ![s] = [Idle EXCEPT !.step = "publish", !.r = r,
                              !.valid = TRUE, !.gen = used.plans[r] + 1, !.tasks = tasks]], TRUE)
        /\ excused' = [excused EXCEPT ![r] = @ \ tasks]
  /\ CountRun("plans", r)
  /\ UNCHANGED <<run, halt, track, review>>

PlanPublish(s) ==
  LET r == sess[s].r IN
  /\ sess[s].step = "publish"
  /\ IF Unchanged(s)
     THEN Writes(s, r, [run[r] EXCEPT !.phase = "awaiting-plan-approval", !.approved = 0,
                          !.plan = sess[s].tasks, !.gen = sess[s].gen], "dropReview")
     ELSE sess' = [sess EXCEPT ![s] = [Idle EXCEPT !.step = "compensate", !.r = r]] /\ UNCHANGED run
  /\ UNCHANGED <<board, halt, track, cp, review, lease, used, excused>>

\* Only a plan superseded by a persisted halt gives its claims back.
PlanCompensate(s) ==
  LET r == sess[s].r IN
  /\ sess[s].step = "compensate"
  /\ BoardWritten(IF run[r].phase = "halted" /\ halt[r] /\ ~LiveWorker(r)
                  THEN Release(board, r) ELSE board)
  /\ sess' = Outdated([sess EXCEPT ![s] = Idle], board' # board)
  /\ UNCHANGED <<run, halt, track, review, lease, used, excused>>

PlanDropReview(s) ==
  /\ sess[s].step = "dropReview"
  /\ review' = [review EXCEPT ![sess[s].r] = 0]
  /\ End(s)
  /\ UNCHANGED <<board, run, halt, track, cp, lease, used, excused>>

-----------------------------------------------------------------------------
(* review-plan and approve-plan. *)

ReviewPhases == {"awaiting-plan-approval", "plan-reviewed", "plan-approved"}

\* The old review goes first; an approval does not outlive the request.
ReviewStart(s, r) ==
  /\ sess[s].step = "idle"
  /\ run[r].phase \in ReviewPhases /\ run[r].plan # {}
  /\ Heartbeat(r)
  /\ review' = [review EXCEPT ![r] = 0]
  /\ IF run[r].phase = "plan-approved" /\ ~halt[r]
     THEN /\ run' = [run EXCEPT ![r].phase = "awaiting-plan-approval", ![r].approved = 0]
          /\ sess' = [x \in Sessions |->
                        IF x = s THEN [Idle EXCEPT !.step = "reviewing", !.r = r, !.valid = TRUE,
                                                   !.gen = run[r].gen]
                        ELSE IF sess[x].r = r THEN [sess[x] EXCEPT !.valid = FALSE] ELSE sess[x]]
          /\ cp' = [cp EXCEPT ![r] = NoCheckpoint]
     ELSE /\ run[r].phase # "plan-approved"
          /\ sess[s].step = "idle"
          /\ sess' = [sess EXCEPT ![s] = [Idle EXCEPT !.step = "reviewing", !.r = r, !.valid = TRUE,
                                                      !.gen = run[r].gen]]
          /\ UNCHANGED <<run, cp>>
  /\ UNCHANGED <<board, halt, track, used, excused>>

\* A failed review is recorded too; its file names no PASS.
ReviewFails(s) ==
  /\ sess[s].step = "reviewing"
  /\ review' = [review EXCEPT ![sess[s].r] = 0]
  /\ End(s)
  /\ UNCHANGED <<board, run, halt, track, cp, lease, used, excused>>

ReviewPasses(s) ==
  LET r == sess[s].r IN
  /\ sess[s].step = "reviewing"
  /\ IF Unchanged(s)
     THEN Writes(s, r, [run[r] EXCEPT !.phase = "plan-reviewed"], "recordReview")
     ELSE End(s) /\ UNCHANGED run
  /\ UNCHANGED <<board, halt, track, cp, review, lease, used, excused>>

\* The review file, and what the approval policy makes of the review: approve
\* at once, or leave the decision to a person.
ReviewRecord(s, auto) ==
  LET r == sess[s].r IN
  /\ sess[s].step = "recordReview"
  /\ review' = [review EXCEPT ![r] = sess[s].gen]
  /\ IF auto THEN /\ used.approvals[r] < MaxApprovals[r]
                  /\ sess' = [sess EXCEPT ![s].step = "approving", ![s].fresh = TRUE,
                                          ![s].id = used.approvals[r] + 1]
                  /\ CountRun("approvals", r)
             ELSE End(s) /\ UNCHANGED used
  /\ UNCHANGED <<board, run, halt, track, cp, lease, excused>>

\* approve-plan validates the review (or is given a waiver) and builds the
\* checkpoint from the board as it is before the compare-and-swap.
ApproveStart(s, r, waived) ==
  /\ run[r].phase \in ReviewPhases /\ run[r].plan # {}
  /\ used.approvals[r] < MaxApprovals[r]
  /\ waived \/ review[r] = run[r].gen
  /\ Heartbeat(r)
  /\ sess[s].step = "idle"
  /\ sess' = [sess EXCEPT ![s] = [Idle EXCEPT !.step = "approving", !.r = r, !.valid = TRUE,
                        !.id = used.approvals[r] + 1, !.gen = run[r].gen, !.fresh = TRUE]]
  /\ CountRun("approvals", r)
  /\ UNCHANGED <<board, run, halt, track, cp, review, excused>>

ApprovePublish(s) ==
  LET r == sess[s].r IN
  /\ sess[s].step = "approving"
  /\ IF Unchanged(s)
     THEN Writes(s, r, [run[r] EXCEPT !.phase = "plan-approved", !.approved = sess[s].id],
                 "recordCheckpoint")
     ELSE End(s) /\ UNCHANGED run
  /\ UNCHANGED <<board, halt, track, cp, review, lease, used, excused>>

ApproveRecord(s) ==
  /\ sess[s].step = "recordCheckpoint"
  /\ cp' = [cp EXCEPT ![sess[s].r] = [id |-> sess[s].id, gen |-> sess[s].gen, fresh |-> sess[s].fresh]]
  /\ End(s)
  /\ UNCHANGED <<board, run, halt, track, review, lease, used, excused>>

-----------------------------------------------------------------------------
(* dispatch and await-workers, under the executor lock. *)

\* validatePreDispatch: approval, checkpoint, and an active claim on every planned task.
Dispatchable(r) ==
  /\ run[r].phase \in {"plan-approved", "dry-run-preview"} /\ ~halt[r]
  /\ run[r].approved # 0 /\ CheckpointValid(r)
  /\ \A t \in run[r].plan : board[t].by = r /\ ~board[t].lapsed

DispatchStart(s, r) ==
  /\ ExecutorFree(r)
  /\ Dispatchable(r)
  /\ sess[s].step = "idle"
  /\ sess' = [sess EXCEPT ![s] = [Idle EXCEPT !.step = "dispatching", !.r = r,
                                              !.gen = run[r].gen, !.id = run[r].approved]]
  /\ Heartbeat(r)
  /\ UNCHANGED <<board, run, halt, track, cp, review, used, excused>>

\* The transaction accepts plan-approved only, whatever validatePreDispatch accepted.
DispatchPublish(s) ==
  LET r == sess[s].r IN
  /\ sess[s].step = "dispatching"
  /\ IF /\ run[r].phase = "plan-approved" /\ ~halt[r] /\ ~LiveWorker(r)
        /\ run[r].approved = sess[s].id /\ run[r].gen = sess[s].gen
     THEN /\ Writes(s, r, [run[r] EXCEPT !.phase = "dispatch-queued"], "idle")
          /\ track' = [track EXCEPT ![r] = [t \in TaskIds |->
                         IF t \in run[r].plan THEN "queued" ELSE "none"]]
     ELSE End(s) /\ UNCHANGED <<run, track>>
  /\ UNCHANGED <<board, halt, cp, review, lease, used, excused>>

Queued(r) == {t \in TaskIds : track[r][t] = "queued"}

\* The executor's pid is written into run.json; the executor keeps its copy of
\* the run (plan, approval) to the end.
AwaitAcquire(s, r) ==
  /\ sess[s].step = "idle" /\ ExecutorFree(r)
  /\ run[r].phase = "dispatch-queued" /\ ~halt[r]
  /\ Heartbeat(r)
  /\ run' = [run EXCEPT ![r].exec = "live"]
  /\ sess' = [x \in Sessions |->
       IF x = s THEN [Idle EXCEPT !.step = "acquired", !.r = r, !.tasks = run[r].plan,
                                  !.id = run[r].approved, !.gen = run[r].gen]
       ELSE IF sess[x].r = r THEN [sess[x] EXCEPT !.valid = FALSE] ELSE sess[x]]
  /\ UNCHANGED <<board, halt, track, cp, review, used, excused>>

\* Approval, checkpoint and queue are validated; then the run is marked running,
\* or (dry run) its tracks are marked as previewed.
AwaitRun(s, dry) ==
  LET r == sess[s].r IN
  /\ sess[s].step = "acquired"
  /\ IF run[r].phase = "dispatch-queued" /\ ~halt[r] /\ run[r].approved # 0
        /\ CheckpointValid(r) /\ Queued(r) # {}
     THEN IF dry
          THEN /\ Writes(s, r, [run[r] EXCEPT !.phase = "dry-run-preview"], "freeing")
               /\ track' = [track EXCEPT ![r] = [t \in TaskIds |->
                              IF track[r][t] = "queued" THEN "preview" ELSE track[r][t]]]
          ELSE /\ Writes(s, r, [run[r] EXCEPT !.phase = "running"], "launching")
               /\ UNCHANGED track
     ELSE ~dry /\ Goto(s, "freeing") /\ UNCHANGED <<run, track>>
  /\ UNCHANGED <<board, halt, cp, review, lease, used, excused>>

\* One track starts its worker, unless the run ended before (a halt that an init has
\* withdrawn already); a Backlog or Failed task becomes InProgress.
LaunchTrack(s, t) ==
  LET r == sess[s].r
      started == run[r].phase \notin TerminalPhases
      moved == IF started /\ board[t].state \in {"Backlog", "Failed"}
               THEN SetState(board, t, "InProgress") ELSE board
  IN
  /\ sess[s].step = "launching"
  /\ track[r][t] = "queued" /\ ~halt[r]
  /\ track' = [track EXCEPT ![r][t] = IF started THEN "running" ELSE "ended"]
  /\ BoardWritten(moved)
  /\ sess' = Outdated(sess, board' # board)
  /\ UNCHANGED <<run, halt, review, lease, used, excused>>

\* The run was initialized anew under its executor: its tracks are gone.
Missing(s) == \A t \in TaskIds : track[sess[s].r][t] = "none"

Launched(s) ==
  LET r == sess[s].r IN
  /\ sess[s].step = "launching"
  /\ Queued(r) = {} \/ halt[r]
  /\ Goto(s, IF Missing(s) THEN "freeing" ELSE "awaiting")
  /\ UNCHANGED <<board, run, halt, track, cp, review, lease, used, excused>>

\* A worker's end reaches its executor, which runs the gates, moves the task and
\* releases the run's claim on it, two board commands the second of which may
\* fail (outcome "none": a state conflict or an exception before any move).
WorkerReports(s, t, outcome, released) ==
  LET r == sess[s].r IN
  /\ sess[s].step = "awaiting"
  /\ track[r][t] = "running"
  /\ track' = [track EXCEPT ![r][t] = "ended"]
  /\ IF outcome = "none" THEN ~released /\ BoardWritten(board)
     ELSE /\ board[t].state = "InProgress"
          /\ BoardWritten(LET moved == SetState(board, t, outcome)
                          IN IF released THEN ReleaseTasks(moved, r, {t}) ELSE moved)
  /\ sess' = Outdated(sess, board' # board)
  /\ UNCHANGED <<run, halt, review, lease, used, excused>>

\* A worker without an executor ends and nobody looks at its result.
WorkerExits(r, t) ==
  /\ \/ /\ track[r][t] = "running"
        /\ \A s \in Sessions : sess[s].r = r => sess[s].step \notin {"launching", "awaiting"}
        /\ track' = [track EXCEPT ![r][t] = "ended"]
     \/ /\ track[r][t] = "stubborn"
        /\ track' = [track EXCEPT ![r][t] = "halted"]
  /\ UNCHANGED <<board, run, halt, cp, review, lease, sess, used, excused>>

\* All tracks ended: their outcomes are persisted, a halted track stays halted.
AwaitSettle(s, errored) ==
  LET r == sess[s].r IN
  /\ sess[s].step = "awaiting"
  /\ \A t \in TaskIds : track[r][t] # "running"
  /\ errored \subseteq {t \in TaskIds : track[r][t] = "ended" /\ board[t].state \notin {"Done", "Failed"}}
  /\ track' = [track EXCEPT ![r] = [t \in TaskIds |->
                 IF track[r][t] # "ended" THEN track[r][t]
                 ELSE IF board[t].state = "Done" THEN "done"
                 ELSE IF board[t].state = "Failed" \/ t \in errored THEN "failed"
                 ELSE "settled"]]
  /\ Goto(s, IF Missing(s) THEN "freeing" ELSE "concluding")
  /\ UNCHANGED <<board, run, halt, cp, review, lease, used, excused>>

CommitReady(r, plan) == {t \in plan : board[t].state = "Done" /\ track[r][t] = "done"}

\* The executor's copy of the run, with the phase it computed, is written over
\* anything but a terminal phase.
AwaitConclude(s, auto) ==
  LET r     == sess[s].r
      ready == IF halt[r] THEN {} ELSE CommitReady(r, sess[s].tasks)
      phase == IF ready # {} THEN IF auto THEN "commit-approved" ELSE "awaiting-commit-approval"
               ELSE IF \E t \in TaskIds : track[r][t] = "failed" THEN "error" ELSE "running"
  IN
  /\ sess[s].step = "concluding"
  /\ auto => ready # {}
  /\ IF run[r].phase \in TerminalPhases THEN Goto(s, "freeing") /\ UNCHANGED run
     ELSE Writes(s, r, [phase |-> phase, plan |-> sess[s].tasks, gen |-> sess[s].gen,
                        approved |-> sess[s].id, exec |-> "live"], "freeing")
  /\ UNCHANGED <<board, halt, track, cp, review, lease, used, excused>>

AwaitFree(s) ==
  LET r == sess[s].r IN
  /\ sess[s].step = "freeing"
  /\ IF run[r].exec = "live" THEN Writes(s, r, [run[r] EXCEPT !.exec = "none"], "idle")
                            ELSE End(s) /\ UNCHANGED run
  /\ UNCHANGED <<board, halt, track, cp, review, lease, used, excused>>

-----------------------------------------------------------------------------
(* approve-commit, commit, journal: CommitApproval models what they commit. *)

ApproveCommit(s, r) ==
  /\ sess[s].step = "idle"
  /\ run[r].phase = "awaiting-commit-approval" /\ ~halt[r] /\ CommitReady(r, run[r].plan) # {}
  /\ Heartbeat(r)
  /\ Writes(s, r, [run[r] EXCEPT !.phase = "commit-approved"], "idle")
  /\ UNCHANGED <<board, halt, track, cp, review, used, excused>>

CommitStart(s, r) ==
  /\ run[r].phase = "commit-approved" /\ ~halt[r]
  /\ Begin(s, r, "committing")
  /\ Heartbeat(r)
  /\ UNCHANGED <<board, run, halt, track, cp, review, used, excused>>

CommitDone(s) ==
  LET r == sess[s].r IN
  /\ sess[s].step = "committing"
  /\ IF Unchanged(s) THEN Writes(s, r, [run[r] EXCEPT !.phase = "committed"], "idle")
                     ELSE End(s) /\ UNCHANGED run
  /\ UNCHANGED <<board, halt, track, cp, review, lease, used, excused>>

\* A failed or stale commit asks for approval again; this is no compare-and-swap.
CommitReset(s) ==
  LET r == sess[s].r IN
  /\ sess[s].step = "committing"
  /\ IF run[r].phase \in TerminalPhases THEN End(s) /\ UNCHANGED run
     ELSE Writes(s, r, [run[r] EXCEPT !.phase = "awaiting-commit-approval"], "idle")
  /\ UNCHANGED <<board, halt, track, cp, review, lease, used, excused>>

Journal(s, r) ==
  /\ sess[s].step = "idle"
  /\ run[r].phase = "committed" /\ ~halt[r]
  /\ Heartbeat(r)
  /\ Writes(s, r, [run[r] EXCEPT !.phase = "cycle-closed"], "idle")
  /\ UNCHANGED <<board, halt, track, cp, review, used, excused>>

-----------------------------------------------------------------------------
(* intervene: halt-run, replan, supersede-plan. *)

\* The directive comes first: from here on no compare-and-swap succeeds.
HaltStart(s, r) ==
  /\ run[r].phase \notin {"error", "done"}
  /\ Begin(s, r, "halting")
  /\ halt' = [halt EXCEPT ![r] = TRUE]
  /\ Fault
  /\ UNCHANGED <<board, run, track, cp, review, lease, excused>>

HaltRun(s) ==
  LET r == sess[s].r IN
  /\ sess[s].step = "halting"
  /\ IF run[r].phase \in {"error", "done"} THEN End(s) /\ UNCHANGED run
     ELSE Writes(s, r, [run[r] EXCEPT !.phase = "halted"], "stopping")
  /\ UNCHANGED <<board, halt, track, cp, review, lease, used, excused>>

\* The tracks are halted and their workers stopped, except those that resist.
HaltTracks(s, resisting) ==
  LET r == sess[s].r IN
  /\ sess[s].step = "stopping"
  /\ resisting \subseteq {t \in TaskIds : track[r][t] = "running"}
  /\ track' = [track EXCEPT ![r] = [t \in TaskIds |->
                 IF t \in resisting THEN "stubborn"
                 ELSE IF track[r][t] \in {"queued", "running", "ended"} THEN "halted"
                 ELSE track[r][t]]]
  /\ Goto(s, "disclaiming")
  /\ UNCHANGED <<board, run, halt, cp, review, lease, used, excused>>

\* Mutant: the claims go although a worker could not be stopped.
HaltReleaseAnyway(s) ==
  LET r == sess[s].r IN
  /\ sess[s].step = "disclaiming"
  /\ BoardWritten(Release(board, r))
  /\ sess' = Outdated([sess EXCEPT ![s] = Idle], board' # board)
  /\ UNCHANGED <<run, halt, track, review, lease, used, excused>>

HaltRelease(s) ==
  LET r == sess[s].r IN
  /\ sess[s].step = "disclaiming"
  /\ BoardWritten(IF LiveWorker(r) THEN board ELSE Release(board, r))
  /\ sess' = Outdated([sess EXCEPT ![s] = Idle], board' # board)
  /\ excused' = IF run[r].phase = "halted" THEN excused
                ELSE [excused EXCEPT ![r] = @ \union (Claimed(board, r) \ Claimed(board', r))]
  /\ UNCHANGED <<run, halt, track, review, lease, used>>

\* replan moves a task of the run back to Backlog; supersede-plan (t = 0) moves
\* none. Both then drop the plan, from the error phase too.
ReplanStart(s, r, t) ==
  /\ run[r].phase \notin {"halted", "done"}
  /\ ExecutorFree(r) /\ ~LiveWorker(r)
  /\ sess[s].step = "idle"
  /\ BoardWritten(IF t = 0 THEN board ELSE SetState(board, t, "Backlog"))
  /\ sess' = Outdated([sess EXCEPT ![s] = [Idle EXCEPT !.step = "replanning", !.r = r]], board' # board)
  /\ Fault
  /\ UNCHANGED <<run, halt, track, review, lease, excused>>

ReplanPublish(s) ==
  LET r == sess[s].r IN
  /\ sess[s].step = "replanning"
  /\ IF run[r].phase \in {"halted", "done"} THEN End(s) /\ UNCHANGED run
     ELSE Writes(s, r, [run[r] EXCEPT !.phase = "awaiting-plan-approval",
                          !.approved = 0, !.plan = {}, !.gen = 0], "idle")
  /\ UNCHANGED <<board, halt, track, cp, review, lease, used, excused>>

-----------------------------------------------------------------------------
(* close, and the shutdown tail that close and recover share: release the     *)
(* claims, clear checkpoint and review, leave the index last.                 *)

CloseStart(s, r) ==
  /\ ExecutorFree(r) /\ ~Blocked(r)
  /\ Begin(s, r, "closing")
  /\ Heartbeat(r)
  /\ UNCHANGED <<board, run, halt, track, cp, review, used, excused>>

Closed(r) == [run[r] EXCEPT !.phase = "done", !.exec = "none", !.plan = {}, !.gen = 0, !.approved = 0]

ClosePublish(s) ==
  LET r == sess[s].r IN
  /\ sess[s].step = "closing"
  /\ IF sess[s].valid /\ ~Blocked(r)
     THEN /\ Writes(s, r, Closed(r), "releasing")
          /\ track' = [track EXCEPT ![r] = NoTracks]
     ELSE End(s) /\ UNCHANGED <<run, track>>
  /\ UNCHANGED <<board, halt, cp, review, lease, used, excused>>

TailRelease(s) ==
  LET r == sess[s].r IN
  /\ sess[s].step = "releasing"
  /\ IF Blocked(r) THEN End(s) /\ UNCHANGED <<board, cp>>
     ELSE /\ BoardWritten(Release(board, r))
          /\ sess' = Outdated([sess EXCEPT ![s].step = "clearing"], board' # board)
  /\ UNCHANGED <<run, halt, track, review, lease, used, excused>>

TailClear(s) ==
  LET r == sess[s].r IN
  /\ sess[s].step = "clearing"
  /\ cp' = [cp EXCEPT ![r] = NoCheckpoint]
  /\ review' = [review EXCEPT ![r] = 0]
  /\ Goto(s, "deindexing")
  /\ UNCHANGED <<board, run, halt, track, lease, used, excused>>

TailDeindex(s) ==
  /\ sess[s].step = "deindexing"
  /\ lease' = [lease EXCEPT ![sess[s].r] = "none"]
  /\ End(s)
  /\ UNCHANGED <<board, run, halt, track, cp, review, used, excused>>

-----------------------------------------------------------------------------
(* recover --apply: a plan from what is on disk, applied in one transaction. *)

\* The plan is built before the transaction; it remembers whether the
\* checkpoint was stale, and which tracks to requeue or settle.
RecoverStart(s, r) ==
  /\ sess[s].step = "idle" /\ ExecutorFree(r)
  /\ IF run[r].phase = "done" THEN sess' = [sess EXCEPT ![s] = [Idle EXCEPT !.step = "releasing", !.r = r]]
     ELSE /\ run[r].phase \notin TerminalPhases /\ ~halt[r]
          /\ sess' = [sess EXCEPT ![s] = [Idle EXCEPT !.step = "recovering", !.r = r,
                        !.id = IF CheckpointValid(r) \/ LiveWorker(r) THEN 0 ELSE 1,
                        !.tasks = {t \in TaskIds : track[r][t] = "ended"}]]
  /\ UNCHANGED <<board, run, halt, track, cp, review, lease, used, excused>>

\* The phases whose stale approval recover takes back. Mutant: not a running one.
ReturnQueued == {"plan-approved", "dispatch-queued"}
ReturnPhases == {"plan-approved", "dispatch-queued", "running"}

\* A run goes back to its queue only from running. Mutant: from everywhere.
RequeuedAnyway(phase) == IF phase \in Phases THEN "dispatch-queued" ELSE phase
Requeued(phase) == IF phase = "running" THEN "dispatch-queued" ELSE phase

\* What the plan does to the run: a dead executor is cleared, a stale approval
\* taken back, lost tracks requeued (or settled when their task is), a run with
\* nothing left to do closed.
RecoverApply(s) ==
  LET r      == sess[s].r
      lost   == sess[s].tasks
      back   == sess[s].id = 1 /\ ~Blocked(r)
                /\ run[r].phase \in ReturnPhases
      again  == {t \in lost : board[t].state \notin {"Done", "Failed"}}
      close  == Pending(board) = {} /\ run[r].phase = "cycle-closed" /\ ~Blocked(r)
      phase1 == IF back THEN "awaiting-plan-approval" ELSE run[r].phase
      phase2 == IF again # {} THEN Requeued(phase1) ELSE phase1
      exec   == IF run[r].exec = "dead" \/ again # {} THEN "none" ELSE run[r].exec
      new    == IF close THEN Closed(r)
                ELSE [run[r] EXCEPT !.phase = phase2, !.exec = exec,
                                    !.approved = IF back THEN 0 ELSE run[r].approved]
  IN
  /\ sess[s].step = "recovering"
  /\ IF run[r].phase \in TerminalPhases \/ halt[r]
        \/ ~(back \/ lost # {} \/ close \/ run[r].exec = "dead")
     THEN End(s) /\ UNCHANGED <<run, track>>
     ELSE /\ Writes(s, r, new, IF back THEN "unbinding" ELSE IF close THEN "releasing" ELSE "idle")
          /\ track' = [track EXCEPT ![r] = [t \in TaskIds |->
                 IF close THEN "none"
                 ELSE IF t \in lost THEN IF t \in again THEN "queued" ELSE "settled"
                 ELSE track[r][t]]]
  /\ UNCHANGED <<board, halt, cp, review, lease, used, excused>>

RecoverUnbind(s) ==
  LET r == sess[s].r IN
  /\ sess[s].step = "unbinding"
  /\ cp' = [cp EXCEPT ![r] = NoCheckpoint]
  /\ review' = [review EXCEPT ![r] = 0]
  /\ End(s)
  /\ UNCHANGED <<board, run, halt, track, lease, used, excused>>

\* The runs whose claims recover may sweep: not a done run's, its tail does that.
\* Mutant: terminal runs are left alone.
SweepableActive(r) == run[r].phase \notin TerminalPhases /\ lease[r] = "expired"
Sweepable(r) == run[r].phase # "done" /\ lease[r] = "expired"

\* recoverDeadRunClaims: under the dead run's executor lock its claims are
\* released; a done run still in the index finishes its shutdown instead.
SweepStart(s, r) ==
  /\ sess[s].step = "idle" /\ ExecutorFree(r) /\ ~Blocked(r)
  /\ lease[r] # "none"
  /\ \/ run[r].phase = "done"
     \/ Sweepable(r) /\ \E t \in Claimed(board, r) : board[t].state \notin {"Done", "Failed"}
  /\ sess' = [sess EXCEPT ![s] = [Idle EXCEPT !.r = r,
                 !.step = IF run[r].phase = "done" THEN "releasing" ELSE "sweeping"]]
  /\ UNCHANGED <<board, run, halt, track, cp, review, lease, used, excused>>

SweepRelease(s) ==
  /\ sess[s].step = "sweeping"
  /\ BoardWritten(Release(board, sess[s].r))
  /\ sess' = Outdated([sess EXCEPT ![s] = Idle], board' # board)
  /\ UNCHANGED <<run, halt, track, review, lease, used, excused>>

-----------------------------------------------------------------------------
(* init over a terminal run: directives first, then the run, then the rest. *)

InitStart(s, r) ==
  /\ run[r].phase \in TerminalPhases /\ ~LiveWorker(r)
  /\ \A x \in Sessions : sess[x].step \notin {"initializing", "indexing"}   \* the init lock
  /\ Begin(s, r, "initializing")
  /\ halt' = [halt EXCEPT ![r] = FALSE]
  /\ Fault
  /\ UNCHANGED <<board, run, track, cp, review, lease, excused>>

InitPublish(s) ==
  LET r == sess[s].r IN
  /\ sess[s].step = "initializing"
  /\ IF run[r].phase \in TerminalPhases
     THEN /\ Writes(s, r, NewRun, "indexing")
          /\ track' = [track EXCEPT ![r] = NoTracks]
     ELSE End(s) /\ UNCHANGED <<run, track>>
  /\ UNCHANGED <<board, halt, cp, review, lease, used, excused>>

InitIndex(s) ==
  LET r == sess[s].r IN
  /\ sess[s].step = "indexing"
  /\ cp' = [cp EXCEPT ![r] = NoCheckpoint]
  /\ review' = [review EXCEPT ![r] = 0]
  /\ lease' = [lease EXCEPT ![r] = "live"]
  /\ End(s)
  /\ UNCHANGED <<board, run, halt, track, used, excused>>

-----------------------------------------------------------------------------
(* The environment. *)

Die(s) ==
  LET r == sess[s].r IN
  /\ sess[s].step # "idle"
  /\ Fault
  /\ End(s)
  /\ run' = IF sess[s].step \in {"acquired", "launching", "awaiting", "concluding", "freeing"}
               /\ run[r].exec = "live"
            THEN [run EXCEPT ![r].exec = "dead"] ELSE run
  /\ UNCHANGED <<board, halt, track, cp, review, lease, excused>>

\* The claim's expiry time passes. Nobody writes the board.
ClaimLapses(t) ==
  /\ ActiveClaim(board, t)
  /\ board' = Lapse(board, t)
  /\ excused' = [excused EXCEPT ![board[t].by] = @ \union {t}]
  /\ Fault
  /\ UNCHANGED <<run, halt, track, cp, review, lease, sess>>

\* The lease of a run without claims matters to nobody.
LeaseExpires(r) ==
  /\ lease[r] = "live" /\ Claimed(board, r) # {}
  /\ lease' = [lease EXCEPT ![r] = "expired"]
  /\ UNCHANGED <<board, run, halt, track, cp, review, sess, used, excused>>

UserMoves(t, state) ==
  /\ board[t].state # state
  /\ BoardWritten(SetState(board, t, state))
  /\ sess' = Outdated(sess, TRUE)
  /\ Fault
  /\ UNCHANGED <<run, halt, track, review, lease, excused>>

-----------------------------------------------------------------------------
Init ==
  /\ board \in [TaskIds -> {NewTask(0, {})}]
  /\ run = [r \in Runs |-> NewRun]
  /\ halt = [r \in Runs |-> FALSE]
  /\ track = [r \in Runs |-> NoTracks]
  /\ cp = [r \in Runs |-> NoCheckpoint]
  /\ review = [r \in Runs |-> 0]
  /\ lease = [r \in Runs |-> "live"]
  /\ sess = [s \in Sessions |-> Idle]
  /\ used = [plans |-> [r \in Runs |-> 0], approvals |-> [r \in Runs |-> 0],
             faults |-> 0]
  /\ excused = [r \in Runs |-> {}]

\* The steps by which a command under way goes on.
Continue(s) ==
  \/ PlanPublish(s) \/ PlanCompensate(s) \/ PlanDropReview(s)
  \/ ReviewFails(s) \/ ReviewPasses(s) \/ \E auto \in BOOLEAN : ReviewRecord(s, auto)
  \/ ApprovePublish(s) \/ ApproveRecord(s)
  \/ DispatchPublish(s)
  \/ \E b \in BOOLEAN : AwaitRun(s, b) \/ AwaitConclude(s, b)
  \/ \E t \in TaskIds : LaunchTrack(s, t)
  \/ Launched(s)
  \/ \E t \in TaskIds, o \in {"Done", "Failed", "none"}, b \in BOOLEAN : WorkerReports(s, t, o, b)
  \/ \E S \in SUBSET TaskIds : AwaitSettle(s, S) \/ HaltTracks(s, S)
  \/ AwaitFree(s)
  \/ CommitDone(s) \/ CommitReset(s)
  \/ HaltRun(s) \/ HaltRelease(s) \/ ReplanPublish(s)
  \/ ClosePublish(s) \/ TailRelease(s) \/ TailClear(s) \/ TailDeindex(s)
  \/ RecoverApply(s) \/ RecoverUnbind(s) \/ SweepRelease(s)
  \/ InitPublish(s) \/ InitIndex(s)

Recover(s, r) == RecoverStart(s, r) \/ SweepStart(s, r)

\* The commands of the manager and its user.
Command(s, r) ==
  \/ PlanClaim(s, r) \/ ReviewStart(s, r) \/ \E b \in BOOLEAN : ApproveStart(s, r, b)
  \/ DispatchStart(s, r) \/ AwaitAcquire(s, r)
  \/ ApproveCommit(s, r) \/ CommitStart(s, r) \/ Journal(s, r)
  \/ HaltStart(s, r) \/ \E t \in TaskIds \union {0} : ReplanStart(s, r, t)
  \/ CloseStart(s, r) \/ InitStart(s, r)

Next ==
  \/ \E s \in Sessions : Continue(s) \/ Die(s)
  \/ \E s \in Sessions, r \in Runs : Command(s, r) \/ Recover(s, r)
  \/ \E r \in Runs, t \in TaskIds : WorkerExits(r, t)
  \/ \E t \in TaskIds : ClaimLapses(t) \/ \E state \in {"Backlog", "Done"} : UserMoves(t, state)
  \/ \E r \in Runs : LeaseExpires(r)

\* A command under way goes on, a worker ends (its launcher has a deadline), leases
\* run out, and somebody runs recover --apply again and again.
Fairness ==
  /\ \A s \in Sessions : WF_vars(Continue(s))
  /\ \A r \in Runs : \A t \in TaskIds : WF_vars(WorkerExits(r, t))
  /\ \A r \in Runs : WF_vars(LeaseExpires(r))
  /\ \A r \in Runs : /\ SF_vars(\E s \in Sessions : RecoverStart(s, r))
                    /\ SF_vars(\E s \in Sessions : SweepStart(s, r))

Spec == Init /\ [][Next]_vars
FairSpec == Spec /\ Fairness

-----------------------------------------------------------------------------
(* Properties. *)

\* A worker works on a task only for the run that holds its claim, unless that
\* claim lapsed in the run's hands (the only way another run may take it): no
\* release, whoever issues it, frees a task somebody still works on.
LiveWorkerClaimed ==
  \A r \in Runs, t \in TaskIds :
    track[r][t] \in {"running", "stubborn"} => board[t].by = r \/ t \in excused[r]

\* What is queued or runs is the approved plan, in every interleaving of replans,
\* new reviews and recoveries with dispatch and its executor.
DispatchedAsApproved ==
  \A r \in Runs :
    run[r].phase \in {"dispatch-queued", "running"} =>
      /\ run[r].approved # 0
      /\ {t \in TaskIds : track[r][t] \in {"queued", "running"}} \subseteq run[r].plan

\* "approve-commit: required after workers settle" (va-auto-pilot-protocol.md:59):
\* no worker runs while a run waits for a commit's approval, commits or has
\* committed. The reset of a commit that was overtaken by a replan breaks it.
SettledBeforeCommit ==
  \A r \in Runs :
    run[r].phase \in {"awaiting-commit-approval", "commit-approved", "committed", "cycle-closed"} =>
      ~LiveWorker(r)

\* The unfinished tasks of a run that ended, however it ended, come back.
TasksComeBack ==
  \A r \in Runs :
    run[r].phase \in TerminalPhases ~>
      \/ run[r].phase \notin TerminalPhases
      \/ \A t \in Claimed(board, r) : board[t].state \in {"Done", "Failed"}

\* A run whose executor dies, even between the write of "running" and its first
\* worker, leaves that phase: recover requeues it or takes its stale approval
\* back, at the latest when its lease ran out and its claims are swept. What
\* stays is a run with a halt persisted but not carried out, and one whose tasks
\* were all finished by others: its tracks are settled and nothing is stale.
InterruptedRunRecovers ==
  \A r \in Runs :
    run[r].phase = "running" ~>
      \/ run[r].phase # "running" \/ halt[r]
      \/ \A t \in run[r].plan : board[t].state \in {"Done", "Failed"}
====
