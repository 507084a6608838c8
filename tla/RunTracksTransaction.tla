------------------------ MODULE RunTracksTransaction ------------------------
(***************************************************************************)
(* Publication of run.json and tracks.json as one recoverable logical      *)
(* transaction (scripts/lib/orchestration-state.mjs), with the commands    *)
(* that publish through it (dispatch, await-workers --dry-run, close,      *)
(* recover --apply) and the commands that write one of the two files on    *)
(* their own (plan approval compare-and-swaps, supersede-plan,             *)
(* await-workers, halt-run, halt-track).  One life of a run is modelled,   *)
(* from its initialisation until it is done or halted.                     *)
(*                                                                         *)
(* Each file write is a step; a command may die before any of them, which  *)
(* frees its locks (PilotFileLock reaps them) and leaves the files as they *)
(* are.  The transaction, run and tracks locks are always taken in that    *)
(* order and are held together by `tx`; a single-file writer needs only    *)
(* its own file's lock, so its read-modify-write is one step enabled while *)
(* `tx` is free.                                                           *)
(***************************************************************************)
EXTENDS Naturals

CONSTANTS
  Commands,    \* command processes; a finished or dead one may be started again
  Tasks,
  MaxClock,    \* bound on the run writes and dispatches of a behaviour
  Patient,     \* environment: single-file run writers wait while an intent is pending
  NoCommand,
  NoIntent

ASSUME ClockAssumption == MaxClock \in Nat
ASSUME NoCommandAssumption == NoCommand \notin Commands
ASSUME PatientAssumption == Patient \in BOOLEAN

(* The run phases this protocol tells apart; the commit and journal phases *)
(* are one.                                                                *)
Phases == {"awaiting-plan-approval", "plan-approved", "dispatch-queued", "dry-run-preview",
           "running", "awaiting-commit-approval", "done", "error", "halted"}
Terminal(phase) == phase \in {"done", "error", "halted"}

TrackStates == {"queued", "preview", "running", "settled", "halted"}

(* updatedAt stands for the identity of a version of run.json (its hash).  *)
Runs == [phase : Phases, plan : SUBSET Tasks, updatedAt : Nat]
Tracks == [state : TrackStates, dispatchId : Nat]
IsTracksDoc(doc) == DOMAIN doc \subseteq Tasks /\ doc \in [DOMAIN doc -> Tracks]
TracksDocs == UNION {[ids -> Tracks] : ids \in SUBSET Tasks}
NoTracks == [t \in {} |-> 0]
Intents == [beforeRun : Runs, afterRun : Runs, beforeTracks : TracksDocs, afterTracks : TracksDocs]
IsIntent(i) ==
  /\ i.beforeRun \in Runs /\ i.afterRun \in Runs
  /\ IsTracksDoc(i.beforeTracks) /\ IsTracksDoc(i.afterTracks)

ASSUME NoIntentAssumption == NoIntent \notin Intents

VARIABLES
  run,          \* run.json
  tracks,       \* tracks.json: one track per task id
  intent,       \* the durable transaction record, or NoIntent
  halt,         \* a halt-run directive was appended
  live,         \* <<task, dispatchId>> of worker processes that are alive
  tx,           \* holder of the transaction, run and tracks locks
  exec,         \* holder of the executor lock
  pc, job,      \* control state and transaction body of each command
  snap,         \* the run.json a command read before its compare-and-swap
  todo,         \* tracks a command has read and still has to handle
  clock,        \* source of fresh timestamps and dispatch ids
  published,    \* history: the pending intent's tracks.json has been written
  overwritten   \* history: a file was changed against a dead writer's pending intent

vars == <<run, tracks, intent, halt, live, tx, exec, pc, job, snap, todo, clock,
          published, overwritten>>
files == <<run, tracks, intent, published, overwritten>>
locals == <<job, snap, todo>>

Jobs == {"entry", "dispatch", "preview", "close", "recover"}
Labels == {"idle", "tx", "locked", "replayTracks", "replayRun", "replayDone", "callback",
           "pubTracks", "pubRun", "pubDone", "ready", "cas", "exec", "awaiting",
           "haltRun", "readTracks", "haltTracks"}

Goto(p, label) == pc' = [pc EXCEPT ![p] = label]
Tick == clock < MaxClock /\ clock' = clock + 1

(* What an ended command has read is gone with it.                         *)
Unread == [phase |-> "done", plan |-> {}, updatedAt |-> 0]
Forget(p) ==
  /\ job' = [job EXCEPT ![p] = "entry"]
  /\ snap' = [snap EXCEPT ![p] = Unread]
  /\ todo' = [todo EXCEPT ![p] = {}]
End(p) == Goto(p, "idle") /\ Forget(p)

Init ==
  /\ \E plan \in SUBSET Tasks :
       run = [phase |-> "awaiting-plan-approval", plan |-> plan, updatedAt |-> 0]
  /\ tracks = NoTracks
  /\ intent = NoIntent
  /\ halt = FALSE
  /\ live = {}
  /\ tx = NoCommand
  /\ exec = NoCommand
  /\ pc = [p \in Commands |-> "idle"]
  /\ job = [p \in Commands |-> "entry"]
  /\ snap = [p \in Commands |-> Unread]
  /\ todo = [p \in Commands |-> {}]
  /\ clock = 1
  /\ published = FALSE
  /\ overwritten = FALSE

(* isTrackWorkerAlive, and findLiveTrackedWorker over a tracks document.   *)
Alive(doc, t) == <<t, doc[t].dispatchId>> \in live

NoLiveWorker(doc) == \A t \in DOMAIN doc : ~Alive(doc, t)

----------------------------------------------------------------------------
(* recoverRunTracksTransactionLocked                                       *)

RunKnown == run \in {intent.beforeRun, intent.afterRun}

(* A track the replay takes from the intent, and one it keeps because a    *)
(* halt-track won after the writer died.                                   *)
FromIntent(t) ==
  \/ t \in DOMAIN intent.beforeTracks /\ tracks[t] = intent.beforeTracks[t]
  \/ tracks[t] = intent.afterTracks[t]

(* Mutant: a halt after the crash is not recognised.                       *)
NeverHalted(t) == FALSE

HaltedSince(t) ==
  /\ tracks[t].state = "halted"
  /\ \/ t \in DOMAIN intent.beforeTracks /\ tracks[t].dispatchId = intent.beforeTracks[t].dispatchId
     \/ tracks[t].dispatchId = intent.afterTracks[t].dispatchId

Mergeable ==
  /\ DOMAIN tracks = DOMAIN intent.afterTracks
  /\ \A t \in DOMAIN tracks : FromIntent(t) \/ HaltedSince(t)

(* A close intent replays over any tracks without a live worker.           *)
Closeable ==
  /\ RunKnown
  /\ intent.afterRun.phase = "done"
  /\ intent.afterTracks = NoTracks
  /\ NoLiveWorker(tracks)

SameTracks == tracks \in {intent.beforeTracks, intent.afterTracks}
TracksKnown == SameTracks \/ Mergeable \/ Closeable

RecoveredTracks ==
  IF SameTracks \/ ~Mergeable THEN intent.afterTracks
  ELSE [t \in DOMAIN tracks |-> IF FromIntent(t) THEN intent.afterTracks[t] ELSE tracks[t]]

Superseded == ~RunKnown /\ Terminal(run.phase)

(* Mutant: the run's side of the conflict check is dropped.                *)
RecoverableAnyRun == TracksKnown

Recoverable == RunKnown /\ TracksKnown

DropIntent == intent' = NoIntent /\ published' = FALSE /\ overwritten' = FALSE

(* Every command starts by recovering a pending transaction.               *)
Enter(p) ==
  /\ pc[p] = "idle"
  /\ Goto(p, "tx")
  /\ UNCHANGED <<files, halt, live, tx, exec, locals, clock>>

LockTransaction(p) ==
  /\ pc[p] = "tx" /\ tx = NoCommand
  /\ tx' = p
  /\ Goto(p, "locked")
  /\ UNCHANGED <<files, halt, live, exec, locals, clock>>

NothingToRecover(p) ==
  /\ pc[p] = "locked" /\ intent = NoIntent
  /\ Goto(p, "callback")
  /\ UNCHANGED <<files, halt, live, tx, exec, locals, clock>>

(* Mutant: the replay writes only run.json.                                *)
ReplayRunOnly(p) ==
  /\ pc[p] = "locked" /\ intent # NoIntent /\ Recoverable
  /\ Goto(p, "replayRun")
  /\ UNCHANGED <<files, halt, live, tx, exec, locals, clock>>

BeginReplay(p) ==
  /\ pc[p] = "locked" /\ intent # NoIntent /\ Recoverable
  /\ Goto(p, "replayTracks")
  /\ UNCHANGED <<files, halt, live, tx, exec, locals, clock>>

Supersede(p) ==
  /\ pc[p] = "locked" /\ intent # NoIntent /\ Superseded
  /\ DropIntent
  /\ Goto(p, "callback")
  /\ UNCHANGED <<run, tracks, halt, live, tx, exec, locals, clock>>

(* The executor lock, when the command holds it, goes with the command.    *)
ReleaseAll(p) ==
  /\ tx' = IF tx = p THEN NoCommand ELSE tx
  /\ exec' = IF exec = p THEN NoCommand ELSE exec
  /\ End(p)

(* ORCHESTRATION_TRANSACTION_CONFLICT: the command fails.                  *)
Conflict(p) ==
  /\ pc[p] = "locked" /\ intent # NoIntent /\ ~Superseded /\ ~Recoverable
  /\ ReleaseAll(p)
  /\ UNCHANGED <<files, halt, live, clock>>

ReplayTracks(p) ==
  /\ pc[p] = "replayTracks"
  /\ tracks' = RecoveredTracks
  /\ published' = TRUE
  /\ Goto(p, "replayRun")
  /\ UNCHANGED <<run, intent, overwritten, halt, live, tx, exec, locals, clock>>

ReplayRun(p) ==
  /\ pc[p] = "replayRun"
  /\ run' = intent.afterRun
  /\ Goto(p, "replayDone")
  /\ UNCHANGED <<tracks, intent, published, overwritten, halt, live, tx, exec, locals, clock>>

ReplayDone(p) ==
  /\ pc[p] = "replayDone"
  /\ DropIntent
  /\ Goto(p, "callback")
  /\ UNCHANGED <<run, tracks, halt, live, tx, exec, locals, clock>>

Recovered(p) ==
  /\ pc[p] = "callback" /\ job[p] = "entry"
  /\ tx' = NoCommand
  /\ Goto(p, "ready")
  /\ UNCHANGED <<files, halt, live, exec, locals, clock>>

----------------------------------------------------------------------------
(* updateRunAndTracksAtomic: the bodies its callers pass, then the durable *)
(* intent, tracks.json, run.json and the removal of the intent, in order.  *)

(* The intent records both sides of both files.                            *)
Publish(p, nextRun, nextTracks) ==
  /\ Tick
  /\ intent' = [beforeRun |-> run, afterRun |-> nextRun, beforeTracks |-> tracks, afterTracks |-> nextTracks]
  /\ Goto(p, "pubTracks")
  /\ UNCHANGED <<run, tracks, published, overwritten, halt, live, tx, exec, locals>>

(* orchestrateDispatch: one queued track, under a fresh dispatch id, for   *)
(* every task of the plan that was approved.                               *)
MayDispatch(p) ==
  /\ run.phase = "plan-approved" /\ run.plan = snap[p].plan
  /\ ~halt /\ NoLiveWorker(tracks)

PublishDispatch(p) ==
  /\ pc[p] = "callback" /\ job[p] = "dispatch" /\ MayDispatch(p)
  /\ Publish(p, [run EXCEPT !.phase = "dispatch-queued", !.updatedAt = clock],
                [t \in run.plan |-> [state |-> "queued", dispatchId |-> clock]])

(* orchestrateClose                                                        *)
MayClose(p) == run = snap[p] /\ NoLiveWorker(tracks)

PublishClose(p) ==
  /\ pc[p] = "callback" /\ job[p] = "close" /\ MayClose(p)
  /\ Publish(p, [phase |-> "done", plan |-> {}, updatedAt |-> clock], NoTracks)

(* await-workers --dry-run: the tracks it read as queued become previews.   *)
MayPreview(p) == run = snap[p] /\ run.phase = "dispatch-queued" /\ ~halt

PublishPreview(p) ==
  /\ pc[p] = "callback" /\ job[p] = "preview" /\ MayPreview(p)
  /\ Publish(p, [run EXCEPT !.phase = "dry-run-preview", !.updatedAt = clock],
                [t \in DOMAIN tracks |-> IF t \in todo[p] THEN [tracks[t] EXCEPT !.state = "preview"] ELSE tracks[t]])

(* applyRecoveryPlan: running tracks whose worker is gone are settled or   *)
(* put back in the queue; a stale checkpoint returns the run to plan       *)
(* approval when no worker has to be waited for; a closed cycle ends it.   *)
DeadRunning == {t \in DOMAIN tracks : tracks[t].state = "running" /\ ~Alive(tracks, t)}
MayRecover == ~Terminal(run.phase) /\ ~halt
MayReturn == NoLiveWorker(tracks) /\ run.phase \in {"plan-approved", "dispatch-queued", "running"}

PublishRequeue(p) ==
  /\ pc[p] = "callback" /\ job[p] = "recover" /\ MayRecover
  /\ \E settled \in SUBSET DeadRunning : \E requeued \in SUBSET (DeadRunning \ settled) :
     \E next \in {run.phase} \cup (IF MayReturn THEN {"awaiting-plan-approval"} ELSE {}) :
       Publish(p, [run EXCEPT !.updatedAt = clock,
                              !.phase = IF requeued # {} /\ next = "running" THEN "dispatch-queued" ELSE next],
                  [t \in DOMAIN tracks |->
                     IF t \in requeued THEN [tracks[t] EXCEPT !.state = "queued"]
                     ELSE IF t \in settled THEN [tracks[t] EXCEPT !.state = "settled"]
                     ELSE tracks[t]])

PublishCloseRun(p) ==
  /\ pc[p] = "callback" /\ job[p] = "recover" /\ MayRecover
  /\ run.phase = "awaiting-commit-approval" /\ NoLiveWorker(tracks)
  /\ Publish(p, [phase |-> "done", plan |-> {}, updatedAt |-> clock], NoTracks)

(* The callback returns null: nothing is written.                          *)
Reject(p) ==
  /\ pc[p] = "callback"
  /\ \/ job[p] = "dispatch" /\ ~MayDispatch(p)
     \/ job[p] = "close" /\ ~MayClose(p)
     \/ job[p] = "preview" /\ ~MayPreview(p)
     \/ job[p] = "recover" /\ ~MayRecover
  /\ ReleaseAll(p)
  /\ UNCHANGED <<files, halt, live, clock>>

WriteTracks(p) ==
  /\ pc[p] = "pubTracks"
  /\ tracks' = intent.afterTracks
  /\ published' = TRUE
  /\ Goto(p, "pubRun")
  /\ UNCHANGED <<run, intent, overwritten, halt, live, tx, exec, locals, clock>>

WriteRun(p) ==
  /\ pc[p] = "pubRun"
  /\ run' = intent.afterRun
  /\ Goto(p, "pubDone")
  /\ UNCHANGED <<tracks, intent, published, overwritten, halt, live, tx, exec, locals, clock>>

RemoveIntent(p) ==
  /\ pc[p] = "pubDone"
  /\ DropIntent
  /\ ReleaseAll(p)
  /\ UNCHANGED <<run, tracks, halt, live, clock>>

----------------------------------------------------------------------------
(* Commands that publish: the executor lock, a read of run.json, then the  *)
(* transaction.                                                            *)

TakeExecutor(p) ==
  /\ pc[p] = "ready" /\ exec = NoCommand
  /\ exec' = p
  /\ Goto(p, "exec")
  /\ UNCHANGED <<files, halt, live, tx, locals, clock>>

Queued == {t \in DOMAIN tracks : tracks[t].state = "queued"}

(* dispatch and the preview assert the phase, close the absence of         *)
(* workers, recover reads on; each asserts again inside the transaction.   *)
BeginTransaction(p) ==
  /\ pc[p] = "exec"
  /\ \E j \in Jobs \ {"entry"} :
       /\ j = "dispatch" => run.phase \in {"plan-approved", "dry-run-preview"}
       /\ j = "preview" => run.phase = "dispatch-queued" /\ Queued # {}
       /\ j = "close" => NoLiveWorker(tracks)
       /\ j = "recover" => ~Terminal(run.phase)
       /\ job' = [job EXCEPT ![p] = j]
       /\ todo' = [todo EXCEPT ![p] = IF j = "preview" THEN Queued ELSE {}]
  /\ snap' = [snap EXCEPT ![p] = run]
  /\ Goto(p, "tx")
  /\ UNCHANGED <<files, halt, live, tx, exec, clock>>

----------------------------------------------------------------------------
(* Commands that write one file (updateRunAtomic, updateTrackAtomic) do    *)
(* not look at the transaction record.                                     *)

(* A write to run.json while a dead command's intent is pending.           *)
WriteRunFile(next) ==
  /\ tx = NoCommand
  /\ Patient => intent = NoIntent
  /\ Tick
  /\ run' = [next EXCEPT !.updatedAt = clock]
  /\ overwritten' = (overwritten \/ intent # NoIntent)

(* transitionRunIfUnchanged: plan, review-plan and approve-plan, and the   *)
(* commit and journal steps.  A review may take minutes between the two.   *)
ReadRun(p) ==
  /\ pc[p] = "ready"
  /\ snap' = [snap EXCEPT ![p] = run]
  /\ Goto(p, "cas")
  /\ UNCHANGED <<files, halt, live, tx, exec, job, todo, clock>>

Unchanged(p) == run = snap[p] /\ ~Terminal(run.phase) /\ ~halt

Transition(p) ==
  /\ pc[p] = "cas" /\ Unchanged(p)
  /\ \/ /\ run.phase \in {"awaiting-plan-approval", "plan-approved", "dry-run-preview", "awaiting-commit-approval"}
        /\ \E plan \in SUBSET Tasks \ {{}} :
             WriteRunFile([run EXCEPT !.phase = "awaiting-plan-approval", !.plan = plan])
     \/ /\ run.phase = "awaiting-plan-approval" /\ run.plan # {}
        /\ WriteRunFile([run EXCEPT !.phase = "plan-approved"])
  /\ End(p)
  /\ UNCHANGED <<tracks, intent, published, halt, live, tx, exec>>

(* RUN_STATE_CHANGED, or a phase the action does not accept.               *)
TransitionFails(p) ==
  /\ pc[p] = "cas" /\ tx = NoCommand
  /\ ~Unchanged(p) \/ run.phase \in {"dispatch-queued", "running"}
  /\ End(p)
  /\ UNCHANGED <<files, halt, live, tx, exec, clock>>

(* intervene replan / supersede-plan: under the idle executor's lock, no   *)
(* compare-and-swap, only a mutable run or one that ended in an error.     *)
SupersedePlan(p) ==
  /\ pc[p] = "exec" /\ run.phase \notin {"done", "halted"}
  /\ WriteRunFile([run EXCEPT !.phase = "awaiting-plan-approval", !.plan = {}])
  /\ exec' = NoCommand
  /\ End(p)
  /\ UNCHANGED <<tracks, intent, published, halt, live, tx>>

(* await-workers starts: dispatch-queued becomes running.  The executor    *)
(* goes on with the run it wrote and the queued tracks it read.            *)
StartWorkers(p) ==
  /\ pc[p] = "exec" /\ run.phase = "dispatch-queued" /\ Queued # {} /\ ~halt
  /\ WriteRunFile([run EXCEPT !.phase = "running"])
  /\ snap' = [snap EXCEPT ![p] = run']
  /\ todo' = [todo EXCEPT ![p] = Queued]
  /\ Goto(p, "awaiting")
  /\ UNCHANGED <<tracks, intent, published, halt, live, tx, exec, job>>

(* A queued track is marked running and its worker released; the READY,    *)
(* persist, GO handshake in between belongs to the worker's own model.     *)
StartTrack(p, t) ==
  /\ pc[p] = "awaiting" /\ tx = NoCommand
  /\ t \in todo[p] \cap Queued
  /\ ~halt /\ ~Terminal(run.phase)
  /\ tracks' = [tracks EXCEPT ![t].state = "running"]
  /\ live' = live \cup {<<t, tracks[t].dispatchId>>}
  /\ UNCHANGED <<run, intent, published, overwritten, halt, tx, exec, pc, locals, clock>>

(* persistSettledWorkerTrack; a track that a halt kept from starting is    *)
(* settled as well.                                                        *)
SettleTrack(p, t) ==
  /\ pc[p] = "awaiting" /\ tx = NoCommand
  /\ t \in todo[p] /\ ~Alive(tracks, t)
  /\ tracks[t].state = "running" \/ (tracks[t].state = "queued" /\ halt)
  /\ tracks' = [tracks EXCEPT ![t].state = "settled"]
  /\ UNCHANGED <<run, intent, published, overwritten, halt, live, tx, exec, pc, locals, clock>>

(* Every worker has come to an end; a task that is not finished, or an     *)
(* ambiguous launch, leaves its track running.  The executor writes the    *)
(* run it holds, with work to commit, a failed track or neither; a halt    *)
(* that came first keeps the run on disk.                                  *)
FinishWorkers(p) ==
  /\ pc[p] = "awaiting"
  /\ \A t \in todo[p] : tracks[t].state # "queued"
  /\ \E outcome \in {"awaiting-commit-approval", "error", "running"} :
       WriteRunFile(IF Terminal(run.phase) THEN run ELSE [snap[p] EXCEPT !.phase = outcome])
  /\ exec' = NoCommand
  /\ End(p)
  /\ UNCHANGED <<tracks, intent, published, halt, live, tx>>

(* intervene halt-run: the directive, then the phase, then every track.    *)
AppendHalt(p) ==
  /\ pc[p] = "ready" /\ run.phase \notin {"done", "error"}
  /\ halt' = TRUE
  /\ Goto(p, IF run.phase = "halted" THEN "readTracks" ELSE "haltRun")
  /\ UNCHANGED <<files, live, tx, exec, locals, clock>>

HaltRun(p) ==
  /\ pc[p] = "haltRun" /\ tx = NoCommand
  /\ \/ /\ ~Terminal(run.phase) /\ Tick
        /\ run' = [run EXCEPT !.phase = "halted", !.updatedAt = clock]
        /\ Goto(p, "readTracks") /\ UNCHANGED locals
     \/ /\ Terminal(run.phase)
        /\ UNCHANGED <<run, clock>>
        /\ End(p)
  /\ UNCHANGED <<tracks, intent, published, overwritten, halt, live, tx, exec>>

ReadTracks(p) ==
  /\ pc[p] = "readTracks"
  /\ todo' = [todo EXCEPT ![p] = DOMAIN tracks]
  /\ Goto(p, "haltTracks")
  /\ UNCHANGED <<files, halt, live, tx, exec, job, snap, clock>>

(* haltTrack's first update.  Terminating the worker is WorkerExit.        *)
MarkHalted(t) ==
  /\ tx = NoCommand
  /\ IF t \in DOMAIN tracks /\ tracks[t].state \in {"queued", "running"}
     THEN /\ tracks' = [tracks EXCEPT ![t].state = "halted"]
          /\ overwritten' = (overwritten \/ (/\ intent # NoIntent
                                             /\ intent.afterRun.phase # "done"
                                             /\ DOMAIN tracks # DOMAIN intent.afterTracks))
     ELSE UNCHANGED <<tracks, overwritten>>

HaltTracks(p) ==
  /\ pc[p] = "haltTracks"
  /\ \E t \in todo[p] : MarkHalted(t) /\ todo' = [todo EXCEPT ![p] = @ \ {t}]
  /\ UNCHANGED <<run, intent, published, halt, live, tx, exec, pc, job, snap, clock>>

EndHalt(p) ==
  /\ pc[p] = "haltTracks" /\ todo[p] = {}
  /\ End(p)
  /\ UNCHANGED <<files, halt, live, tx, exec, clock>>

(* intervene halt-track                                                    *)
HaltTrack(p, t) ==
  /\ pc[p] = "ready" /\ ~Terminal(run.phase)
  /\ MarkHalted(t)
  /\ End(p)
  /\ UNCHANGED <<run, intent, published, halt, live, tx, exec, clock>>

(* A command that only reads, or that fails its preconditions.             *)
Leave(p) ==
  /\ pc[p] \in {"ready", "exec"}
  /\ ReleaseAll(p)
  /\ UNCHANGED <<files, halt, live, clock>>

----------------------------------------------------------------------------
(* A worker ends, or is terminated by halt-track; a command dies.          *)
WorkerExit(w) ==
  /\ w \in live
  /\ live' = live \ {w}
  /\ UNCHANGED <<files, halt, tx, exec, pc, locals, clock>>

Crash(p) ==
  /\ pc[p] # "idle"
  /\ ReleaseAll(p)
  /\ UNCHANGED <<files, halt, live, clock>>

Recovery(p) ==
  \/ LockTransaction(p) \/ NothingToRecover(p) \/ BeginReplay(p) \/ Supersede(p) \/ Conflict(p)
  \/ ReplayTracks(p) \/ ReplayRun(p) \/ ReplayDone(p) \/ Recovered(p)

Publication(p) ==
  \/ PublishDispatch(p) \/ PublishPreview(p) \/ PublishClose(p) \/ PublishRequeue(p) \/ PublishCloseRun(p)
  \/ Reject(p)
  \/ WriteTracks(p) \/ WriteRun(p) \/ RemoveIntent(p)

SingleFile(p) ==
  \/ ReadRun(p) \/ Transition(p) \/ TransitionFails(p) \/ SupersedePlan(p)
  \/ StartWorkers(p) \/ FinishWorkers(p)
  \/ AppendHalt(p) \/ HaltRun(p) \/ ReadTracks(p) \/ HaltTracks(p) \/ EndHalt(p)
  \/ \E t \in Tasks : StartTrack(p, t) \/ SettleTrack(p, t) \/ HaltTrack(p, t)

Next ==
  \/ \E p \in Commands :
       \/ Enter(p) \/ TakeExecutor(p) \/ BeginTransaction(p) \/ Leave(p)
       \/ Recovery(p) \/ Publication(p) \/ SingleFile(p) \/ Crash(p)
  \/ \E w \in live : WorkerExit(w)

Spec == Init /\ [][Next]_vars

----------------------------------------------------------------------------
(* Every variable stays in its type.                                       *)
TypeOK ==
  /\ run \in Runs
  /\ IsTracksDoc(tracks)
  /\ intent # NoIntent => IsIntent(intent)
  /\ halt \in BOOLEAN
  /\ live \subseteq Tasks \X Nat
  /\ tx \in Commands \cup {NoCommand}
  /\ exec \in Commands \cup {NoCommand}
  /\ pc \in [Commands -> Labels]
  /\ job \in [Commands -> Jobs]
  /\ snap \in [Commands -> Runs]
  /\ todo \in [Commands -> SUBSET Tasks]
  /\ clock \in Nat
  /\ published \in BOOLEAN
  /\ overwritten \in BOOLEAN

(* A pending intent whose writer died can always be resolved by the next   *)
(* command, whichever write it died at and whichever halts came after,     *)
(* unless a single-file writer changed a file underneath it.               *)
Pending == tx = NoCommand /\ intent # NoIntent
RecoverableUntilOverwritten == Pending /\ ~overwritten => Recoverable \/ Superseded

(* A halted run is never reopened; only close moves it, to done.           *)
HaltedRunStays == [][run.phase = "halted" => run'.phase \in {"halted", "done"}]_vars

(* A publication takes effect when tracks.json is written: from then until *)
(* run.json follows, the run is the one the intent announces.              *)
LogicalRun == IF intent # NoIntent /\ published /\ run = intent.beforeRun THEN intent.afterRun ELSE run

(* Both files change at once, or not at all, whatever dies in between: the *)
(* protocol implements the store in which run and tracks are one value.    *)
Store == INSTANCE AtomicRunState WITH
           phase <- LogicalRun.phase,
           plan <- IF LogicalRun.phase \in {"done", "halted"} THEN {} ELSE LogicalRun.plan
ImplementsStore == Store!Spec

(* orchestration-state.mjs: "Publish run.json and tracks.json as one       *)
(* recoverable logical transaction": a pending intent can be resolved.     *)
AlwaysRecoverable == Pending => Recoverable \/ Superseded
=============================================================================
