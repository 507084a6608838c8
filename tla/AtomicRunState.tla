--------------------------- MODULE AtomicRunState ---------------------------
(***************************************************************************)
(* What publishing run.json and tracks.json together promises: a store in  *)
(* which the run's phase and plan and its tracks are one value, changed by *)
(* whole operations.  RunTracksTransaction implements it.                  *)
(***************************************************************************)
EXTENDS Naturals

CONSTANT Tasks

VARIABLES phase, plan, tracks, halt, live

vars == <<phase, plan, tracks, halt, live>>

Terminal(ph) == ph \in {"done", "error", "halted"}
Alive(t) == <<t, tracks[t].dispatchId>> \in live
NoLiveWorker == \A t \in DOMAIN tracks : ~Alive(t)

Init ==
  /\ phase = "awaiting-plan-approval"
  /\ plan \in SUBSET Tasks
  /\ tracks = [t \in {} |-> 0]
  /\ halt = FALSE
  /\ live = {}

Move(from, to) == phase \in from /\ phase' = to
KeepPlan == plan' = plan

Plan ==
  /\ Move({"awaiting-plan-approval", "plan-approved", "dry-run-preview", "awaiting-commit-approval"},
          "awaiting-plan-approval")
  /\ plan' \in SUBSET Tasks
  /\ UNCHANGED <<tracks, halt, live>>

Approve ==
  /\ Move({"awaiting-plan-approval"}, "plan-approved") /\ plan # {}
  /\ UNCHANGED <<plan, tracks, halt, live>>

SupersedePlan ==
  /\ phase \notin {"done", "halted"} /\ phase' = "awaiting-plan-approval" /\ plan' = {}
  /\ UNCHANGED <<tracks, halt, live>>

(* Every planned task gets a queued track under a dispatch id no track of  *)
(* the task had, except one that is halted already and stays so.           *)
Dispatch ==
  /\ Move({"plan-approved"}, "dispatch-queued") /\ NoLiveWorker
  /\ DOMAIN tracks' = plan
  /\ \A t \in plan :
       \/ /\ tracks'[t].state = "queued"
          /\ t \in DOMAIN tracks => tracks'[t].dispatchId > tracks[t].dispatchId
       \/ t \in DOMAIN tracks /\ tracks[t].state = "halted" /\ tracks'[t] = tracks[t]
  /\ UNCHANGED <<plan, halt, live>>

(* A dry run turns queued tracks into previews, which nothing runs.        *)
Preview ==
  /\ Move({"dispatch-queued"}, "dry-run-preview")
  /\ DOMAIN tracks' = DOMAIN tracks
  /\ \A t \in DOMAIN tracks :
       \/ tracks'[t] = tracks[t]
       \/ tracks[t].state \in {"queued", "halted"} /\ tracks'[t] = [tracks[t] EXCEPT !.state = "preview"]
  /\ UNCHANGED <<plan, halt, live>>

StartWorkers ==
  /\ Move({"dispatch-queued"}, "running")
  /\ UNCHANGED <<plan, tracks, halt, live>>

ChangeTrack(t, from, to) ==
  /\ t \in DOMAIN tracks /\ tracks[t].state \in from
  /\ tracks' = [tracks EXCEPT ![t].state = to]
  /\ UNCHANGED <<phase, plan, halt>>

StartTrack(t) ==
  ChangeTrack(t, {"queued"}, "running") /\ live' = live \cup {<<t, tracks[t].dispatchId>>} /\ ~Terminal(phase)
SettleTrack(t) == ChangeTrack(t, {"queued", "running"}, "settled") /\ ~Alive(t) /\ UNCHANGED live
HaltTrack(t) == ChangeTrack(t, {"queued", "running"}, "halted") /\ UNCHANGED live

FinishWorkers ==
  /\ ~Terminal(phase) /\ phase' \in {"awaiting-commit-approval", "error", "running"}
  /\ UNCHANGED <<plan, tracks, halt, live>>

(* Recovery puts dead running tracks back in the queue or settles them; it *)
(* takes the run back to its plan only when no worker is left.             *)
Recover ==
  /\ ~Terminal(phase)
  /\ \/ phase' \in {phase, "dispatch-queued"}
     \/ Move({"plan-approved", "dispatch-queued", "running"}, "awaiting-plan-approval") /\ NoLiveWorker
  /\ DOMAIN tracks' = DOMAIN tracks
  /\ \A t \in DOMAIN tracks :
       \/ tracks'[t] = tracks[t]
       \/ /\ tracks[t].state = "running" /\ ~Alive(t)
          /\ tracks'[t] \in {[tracks[t] EXCEPT !.state = s] : s \in {"queued", "settled"}}
  /\ UNCHANGED <<plan, halt, live>>

Close ==
  /\ phase' = "done" /\ plan' = {} /\ NoLiveWorker
  /\ tracks' = [t \in {} |-> 0]
  /\ UNCHANGED <<halt, live>>

AppendHalt == halt' = TRUE /\ UNCHANGED <<phase, plan, tracks, live>>

(* A halt also wins over a close whose author died before reporting it.    *)
HaltRun ==
  /\ phase' = "halted" /\ plan' = {}
  /\ UNCHANGED <<tracks, halt, live>>

WorkerExit ==
  /\ \E w \in live : live' = live \ {w}
  /\ UNCHANGED <<phase, plan, tracks, halt>>

Next ==
  \/ Plan \/ Approve \/ SupersedePlan \/ Dispatch \/ Preview \/ StartWorkers \/ FinishWorkers
  \/ Recover \/ Close \/ AppendHalt \/ HaltRun \/ WorkerExit
  \/ \E t \in Tasks : StartTrack(t) \/ SettleTrack(t) \/ HaltTrack(t)

Spec == Init /\ [][Next]_vars
=============================================================================
