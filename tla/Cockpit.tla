---- MODULE Cockpit ----
(***************************************************************************)
(* What the cockpit tells a manager about a run (auto-pilot-observe.mjs,   *)
(* lib/manager-world.mjs, buildRecoveryPlan of lib/orchestration-state.mjs):*)
(* four tables - the recovery plan, the commit readiness, the approval and *)
(* progress states with their risk level, and the commands to follow next  *)
(* - computed one by one from the files of RunPhases. Nothing here writes. *)
(* Wording, journal summaries and the sizes of lists are left out.         *)
(***************************************************************************)
EXTENDS RunPhases

CONSTANTS
  FailLimit,     \* the failures that stop the sprint: 3 in the code
  Surroundings   \* what the cockpit reads besides: see SurroundingType

TrustStates == {"configured", "missing-required-gates", "needs-agent-attention", "not-configured"}

\* unchecked: intents nobody has planned; trust, risky: the audit of the configured
\* gates; proven: whether the evidence bundles of the finished tasks verify.
SurroundingType == [unchecked: BOOLEAN, trust: TrustStates, risky: BOOLEAN,
                    pitfalls: BOOLEAN, proven: BOOLEAN]

ASSUME CockpitAssumption == FailLimit \in Nat \ {0} /\ Surroundings \subseteq SurroundingType

ApprovalPhases == {"plan-approved", "dispatch-queued", "running"}   \* DISPATCH_APPROVAL_PHASES
CommitPhases == {"awaiting-commit-approval", "commit-approved"}
PlanningPhases == {"initialized", "cycle-closed"}
Ended(r) == run[r].phase \in TerminalPhases

-----------------------------------------------------------------------------
(* The checkpoint, the stop condition, the recovery plan, the anomalies. *)

\* Mutant: a run without a checkpoint file is never stale.
FileStale(r) == cp[r].id # 0 /\ ~CheckpointValid(r)

\* An approval whose checkpoint was never written counts as stale too.
Stale(r) == IF cp[r].id # 0 THEN ~CheckpointValid(r)
            ELSE run[r].approved # 0 /\ run[r].phase \in ApprovalPhases

BlocksDispatch(r) == Stale(r) /\ run[r].phase \in ApprovalPhases

\* detectStopCondition.
Stop == \E t \in DOMAIN board : board[t].state # "Done" /\ board[t].fails >= FailLimit

\* What recover --apply would do; nothing for a run that ended.
Mutations(r) ==
  IF Ended(r) THEN {}
  ELSE {m \in {"clear-executor-lock", "return-to-plan-approval", "settle-track", "requeue-track", "close-run"} :
    CASE m = "clear-executor-lock" -> run[r].exec = "dead"
      [] m = "return-to-plan-approval" -> BlocksDispatch(r) /\ run[r].exec # "live" /\ ~LiveWorker(r)
      [] m = "settle-track" ->
           run[r].exec # "live" /\ \E t \in TaskIds : track[r][t] \in {"running", "ended"}
                                                      /\ board[t].state \in {"Done", "Failed"}
      [] m = "requeue-track" ->
           run[r].exec # "live" /\ \E t \in TaskIds : track[r][t] = "ended"
                                                      /\ board[t].state \notin {"Done", "Failed"}
      [] m = "close-run" -> Pending(board) = {} /\ run[r].phase = "cycle-closed"}

\* The one critical issue a recovery plan knows; it closes the run's plan.ok.
Critical(r) == ~Ended(r) /\ BlocksDispatch(r)

\* A running track whose task is finished, a settled one whose task is not begun, a
\* run with nothing to do: the last can not happen, a stop needs an unfinished task.
Anomalies(r) ==
  (IF \E t \in TaskIds : track[r][t] \in {"running", "ended"} /\ board[t].state \in {"Done", "Failed"}
   THEN {"STALE_TRACK_RUNNING"} ELSE {}) \union
  (IF \E t \in TaskIds : track[r][t] \in {"settled", "done"} /\ board[t].state = "Backlog"
   THEN {"TRACK_SETTLED_SPRINT_BACKLOG"} ELSE {}) \union
  (IF Pending(board) = {} /\ Stop /\ ~Ended(r) THEN {"STALE_RUN_PHASE"} ELSE {})

-----------------------------------------------------------------------------
(* Commit readiness, evidence, approval, progress, risk. *)

\* The tasks approve-commit approves: those whose worker succeeded.
Approved(r) == {t \in run[r].plan : track[r][t] = "done"}
Invalid(r) == run[r].phase = "commit-approved" /\ \E t \in Approved(r) : board[t].state # "Done"

DonePlanned(r) == {t \in run[r].plan : board[t].state = "Done"}
Unsettled(r) == \E t \in TaskIds : track[r][t] \in {"queued", "running", "ended"}

CommitReadiness(r) ==
  CASE run[r].phase = "awaiting-commit-approval" -> "needs-approval"
    [] run[r].phase = "commit-approved" -> IF Invalid(r) THEN "invalid-approval" ELSE "ready-to-commit"
    [] run[r].phase = "committed" -> "committed"
    [] OTHER -> IF Unsettled(r) THEN "waiting-for-workers"
                ELSE IF DonePlanned(r) # {} THEN "done-work-waiting" ELSE "not-ready"

\* buildEvidenceTrust.
Unproven(r, in) == run[r].phase \in CommitPhases /\ ~in.proven
BlocksAcceptance(r, in) == in.trust \in {"missing-required-gates", "not-configured"} \/ Unproven(r, in)
Trusted(r, in) == in.trust = "configured" /\ ~in.risky /\ ~Unproven(r, in)

\* buildApprovalState: the first of these that applies.
Approval(r, in) ==
  LET commit == run[r].phase = "awaiting-commit-approval"
                \/ CommitReadiness(r) \in {"needs-approval", "done-work-waiting"}
  IN IF BlocksDispatch(r) THEN "plan-reapproval"
     ELSE IF run[r].phase = "awaiting-plan-approval" THEN "plan-review-and-approval"
     ELSE IF run[r].phase = "plan-reviewed" THEN "plan-approval"
     ELSE IF commit THEN IF BlocksAcceptance(r, in) THEN "commit-evidence-remediation" ELSE "commit-approval"
     ELSE IF in.unchecked THEN "manager-intent-processing" ELSE "none"

ApprovalRequired(r, in) == Approval(r, in) \notin {"manager-intent-processing", "none"}
ApprovalBlocks(r, in) ==
  Approval(r, in) \in {"plan-reapproval", "plan-review-and-approval", "plan-approval", "manager-intent-processing"}

\* The conditions under which a manager may not go on at all.
BlockedWork(r) == BlocksDispatch(r) \/ Critical(r) \/ halt[r] \/ Stop
BlockedCommit(r, in) == Invalid(r) \/ (run[r].phase \in CommitPhases /\ BlocksAcceptance(r, in))

\* The status of a run by its phase alone.
PhaseStatus(r) ==
  CASE run[r].phase \in PlanningPhases -> IF Pending(board) # {} THEN "ready-to-plan" ELSE "needs-goal"
    [] run[r].phase \in {"awaiting-plan-approval", "plan-reviewed", "awaiting-commit-approval"} -> "needs-approval"
    [] run[r].phase = "plan-approved" -> "ready-to-dispatch"
    [] run[r].phase \in {"dispatch-queued", "running"} -> "in-progress"
    [] run[r].phase = "dry-run-preview" -> "ready"
    [] run[r].phase = "commit-approved" -> "ready-to-commit"
    [] OTHER -> "needs-manager-action"

\* buildProgressState.
Progress(r, in) ==
  IF BlockedWork(r) \/ BlockedCommit(r, in) THEN "blocked"
  ELSE IF ApprovalRequired(r, in) THEN "needs-approval"
  ELSE IF in.unchecked \/ "STALE_RUN_PHASE" \in Anomalies(r) THEN "needs-manager-action"
  ELSE IF Ended(r) THEN IF Pending(board) # {} THEN "ready" ELSE "needs-goal"
  ELSE PhaseStatus(r)

ProgressBlocksDispatch(r, in) ==
  \/ BlockedWork(r)
  \/ /\ ~BlockedCommit(r, in)
     /\ ApprovalBlocks(r, in) \/ (~ApprovalRequired(r, in) /\ in.unchecked)

\* riskLevelFromSnapshot.
Risk(r, in) ==
  IF \/ BlocksDispatch(r) \/ Critical(r) \/ halt[r] \/ Stop
     \/ Anomalies(r) \intersect {"STALE_TRACK_RUNNING", "STALE_RUN_PHASE"} # {}
     \/ in.trust = "missing-required-gates" \/ Invalid(r) \/ Unproven(r, in)
  THEN "high"
  ELSE IF \/ in.trust # "configured" \/ in.risky \/ in.pitfalls \/ in.unchecked
          \/ run[r].phase \in {"awaiting-plan-approval", "plan-reviewed", "awaiting-commit-approval"}
          \/ Pending(board) # {}
  THEN "medium" ELSE "low"

\* buildEvidenceStatus: the question put to the person who judges.
EvidenceStatus(r, in) ==
  IF BlocksDispatch(r) \/ Critical(r) THEN "blocked"
  ELSE IF run[r].phase \in CommitPhases /\ BlocksAcceptance(r, in) THEN "invalid-completion-evidence"
  ELSE IF run[r].phase = "awaiting-commit-approval" THEN "needs-human-trust-check"
  ELSE IF in.trust = "missing-required-gates" THEN "missing-required-evidence"
  ELSE IF ~Trusted(r, in) THEN "evidence-risk"
  ELSE IF in.pitfalls THEN "needs-review"
  ELSE IF Pending(board) = {} THEN "idle" ELSE "collecting"

-----------------------------------------------------------------------------
(* The commands to follow next. *)

\* buildDistractionRuns: the other runs of the active index.
Distractions(r) == {q \in Runs \ {r} : lease[q] # "none"}

PhaseCommands(r, in) ==
  CASE run[r].phase \in PlanningPhases -> {"plan"}
    [] run[r].phase = "awaiting-plan-approval" -> {"review-plan", "approve-plan"}
    [] run[r].phase = "plan-reviewed" -> {"approve-plan"}
    [] run[r].phase = "plan-approved" -> {"dispatch"}
    [] run[r].phase = "dispatch-queued" -> {"await-workers"}
    [] run[r].phase = "dry-run-preview" -> {"await-workers", "close"}
    [] run[r].phase = "awaiting-commit-approval" -> {IF in.proven THEN "approve-commit" ELSE "observe"}
    [] run[r].phase = "commit-approved" -> {IF in.proven THEN "commit" ELSE "observe"}
    [] run[r].phase = "committed" -> {"journal"}
    [] OTHER -> {}

\* Only a goal from outside helps: nothing is pending and nothing unplanned.
NeedsGoal(in) == Pending(board) = {} /\ ~in.unchecked

\* buildNextCommands: two situations replace the commands of the phase.
NextCommands(r, in) ==
  (IF in.trust # "configured" \/ in.risky THEN {"gates"} ELSE {}) \union
  (IF BlocksDispatch(r) THEN {"recover", "review-plan", "approve-plan"}
   ELSE
    (IF Mutations(r) # {} THEN {"recover"} ELSE {}) \union
    (IF Invalid(r) THEN {"cockpit", "approve-commit"}
     ELSE
      (IF "STALE_RUN_PHASE" \in Anomalies(r) THEN {"close"} ELSE {}) \union
      (IF in.unchecked THEN {"plan-from-goal"} ELSE {}) \union
      (IF halt[r] THEN {"observe"} ELSE {}) \union
      (IF Stop THEN {"plan"} ELSE {}) \union
      (IF Ended(r) THEN {"init"} \union
         (IF Pending(board) # {} THEN {"plan"} ELSE IF in.unchecked THEN {} ELSE {"goal"})
       ELSE (IF NeedsGoal(in) /\ run[r].phase \in PlanningPhases THEN {"goal"} ELSE {})
            \union PhaseCommands(r, in))))

\* prioritizeManagerWorldCommands puts the other runs before everything.
ListedCommands(r, in) ==
  NextCommands(r, in) \union (IF Distractions(r) # {} THEN {"list-runs", "init-fresh"} ELSE {})

\* buildRecommendedActions: the same advice in words, from tables of its own.
RecommendedActions(r, in) ==
  (IF Critical(r) THEN {"recover"} ELSE {}) \union
  (IF Ended(r) THEN {"init"} \union (IF Pending(board) # {} THEN {"plan"}
                                     ELSE IF in.unchecked THEN {"plan-from-goal"} ELSE {"goal"})
   ELSE
    (IF "STALE_RUN_PHASE" \in Anomalies(r) THEN {"close"} ELSE {}) \union
    (IF in.unchecked THEN {"plan-from-goal"} ELSE {}) \union
    (IF halt[r] THEN {"observe"} ELSE {}) \union
    (IF BlocksDispatch(r) THEN {}
     ELSE (IF NeedsGoal(in) /\ run[r].phase \in PlanningPhases THEN {"goal"} ELSE {})
          \union PhaseCommands(r, in)))

-----------------------------------------------------------------------------
\* buildCockpit: the tables of a run, side by side, each from the files as they are.
View(r, in) ==
  [progress |-> Progress(r, in), approval |-> Approval(r, in), risk |-> Risk(r, in),
   evidence |-> EvidenceStatus(r, in), next |-> NextCommands(r, in),
   actions |-> RecommendedActions(r, in)]

-----------------------------------------------------------------------------
(* What the commands accept, and the properties. *)

\* The commands that would get the run on now; observe, list-runs, gates and the start
\* of another run change nothing of it, and a goal is for a person to give.
Accepts(r, c) ==
  CASE c = "plan" -> run[r].phase \in PlanPhases /\ ~HasCycle(board) /\ Actionable(board, r) # {}
    [] c = "review-plan" -> run[r].phase \in ReviewPhases /\ run[r].plan # {}
    [] c = "approve-plan" -> run[r].phase \in ReviewPhases /\ run[r].plan # {} /\ review[r] = run[r].gen
    [] c = "dispatch" -> Dispatchable(r)
    [] c = "await-workers" -> run[r].phase = "dispatch-queued" /\ run[r].approved # 0
                              /\ CheckpointValid(r) /\ Queued(r) # {}
    [] c = "approve-commit" -> run[r].phase = "awaiting-commit-approval" /\ CommitReady(r, run[r].plan) # {}
    [] c = "commit" -> run[r].phase = "commit-approved"
    [] c = "journal" -> run[r].phase = "committed"
    [] c = "close" -> ~Blocked(r)
    [] c = "recover" -> Mutations(r) # {}
    [] c \in {"goal", "plan-from-goal"} -> TRUE
    [] OTHER -> FALSE

Quiet == \A s \in Sessions : sess[s].step = "idle"
ClaimsHeld(r) == \A t \in run[r].plan : board[t].by = r /\ ~board[t].lapsed

\* The tables tell one story, whatever died half-way: a dispatch the progress table
\* permits is listed and accepted (but for a claim that lapsed, which no table reads),
\* no table that calls a run blocked leaves its risk below high for another reason than
\* the gates' audit, a dispatch is listed against the progress table only where nobody
\* but a person can clear what blocks it, what is recommended in words is in the list unless
\* the list was cut short, and nothing in need of a new approval is offered for execution.
OneStory ==
  Quiet => \A r \in Runs, in \in Surroundings : LET view == View(r, in) IN
    /\ view.progress = "ready-to-dispatch" =>
         /\ "dispatch" \in view.next
         /\ ClaimsHeld(r) => Accepts(r, "dispatch")
    /\ view.progress = "blocked" => view.risk = "high" \/ in.trust = "not-configured"
    /\ view.evidence = "blocked" => view.progress = "blocked"
    /\ "dispatch" \in view.next /\ ProgressBlocksDispatch(r, in) =>
         halt[r] \/ Stop \/ in.unchecked
    /\ view.actions \subseteq view.next \/ BlocksDispatch(r) \/ Invalid(r)
    /\ view.approval = "plan-reapproval" =>
         view.next \intersect {"dispatch", "await-workers", "approve-commit", "commit"} = {}

\* The states in which following the list alone leads nowhere: a plan that was dropped
\* by an intervention, a plan-reviewed run whose review failed or was never written,
\* claims that lapsed before the dispatch, work that others claimed or finished, proof
\* that is missing, a queue that a halt emptied after a new init, and a run that settled
\* without a result and stayed running.
DeadEnd(r, in) ==
  \/ run[r].phase \in {"awaiting-plan-approval", "plan-reviewed"} /\ run[r].plan = {}
  \/ run[r].phase = "plan-reviewed" /\ review[r] # run[r].gen
  \/ run[r].phase = "plan-approved" /\ ~ClaimsHeld(r)
  \/ run[r].phase \in PlanningPhases /\ Actionable(board, r) = {} /\ Pending(board) # {}
  \/ run[r].phase \in CommitPhases /\ (~in.proven \/ CommitReady(r, run[r].plan) = {} \/ Invalid(r))
  \/ run[r].phase = "dispatch-queued" /\ Queued(r) = {} /\ \E t \in TaskIds : track[r][t] = "halted"
  \/ run[r].phase = "running" /\ Mutations(r) = {}

\* A manager who only follows the list gets on: when nothing of a run is at work, and it
\* has not ended or been halted, some listed command is one the program then accepts and
\* which changes the run - outside the dead ends named above, and after any crash.
AdviceSuffices ==
  Quiet => \A r \in Runs, in \in Surroundings :
    \/ Ended(r) \/ halt[r] \/ LiveWorker(r) \/ DeadEnd(r, in)
    \/ \E c \in ListedCommands(r, in) : Accepts(r, c)
====
