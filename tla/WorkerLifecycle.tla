--------------------------- MODULE WorkerLifecycle ---------------------------
(***************************************************************************)
(* The life of the worker processes of one track: the READY, persist, GO   *)
(* handshake between the manager (dispatchViaSpawn in lib/colony-bridge.mjs *)
(* under await-workers) and the launcher (lib/worker-launcher.mjs), the    *)
(* heartbeat file, the durable identity on the track, halt-track, recovery *)
(* of a dead manager's track, and re-dispatch.                             *)
(*                                                                         *)
(* A launch is one launcher process and the worker command (the target,    *)
(* with its descendants) it may start; launches are numbered, and a track  *)
(* names one by its pid and token.  The target runs in a process group of  *)
(* its own, so it survives its launcher.  Any process may be killed        *)
(* between any two steps.  Process ids are not reused.                     *)
(***************************************************************************)
EXTENDS Naturals

CONSTANTS
  MaxLaunches,    \* bound on the launches of a behaviour
  MaxDispatches   \* bound on the dispatches of the task

ASSUME BoundsAssumption == MaxLaunches \in Nat \ {0} /\ MaxDispatches \in Nat \ {0}

Launches == 1 .. MaxLaunches
NoLaunch == 0

VARIABLES
  track,     \* the task's entry in tracks.json
  launcher,  \* control state of each launch's launcher process
  beat,      \* state in each launch's heartbeat file
  target,    \* each launch's worker command
  term,      \* a SIGTERM for the launcher is pending
  ipc,       \* the channel from the manager to the launcher
  manager,   \* the await-workers process
  halter,    \* an intervene halt-track process
  lost       \* history: a settlement dropped the identity of a live worker

vars == <<track, launcher, beat, target, term, ipc, manager, halter, lost>>

TrackStates == {"queued", "running", "settled", "halted"}
LauncherLabels ==
  {"none", "boot", "ready", "launching", "spawned", "running", "stopping", "finished", "gone"}
Beats == {"none", "ready", "launching", "running", "stopping", "terminal"}
ManagerLabels ==
  {"idle", "check", "launch", "waitReady", "persist", "go", "await", "closing", "settle"}

NoManager == [at |-> "idle", launch |-> NoLaunch, goAttempted |-> FALSE, retry |-> FALSE, ambiguous |-> FALSE]
NoHalter == [at |-> "idle", launch |-> NoLaunch, dispatchId |-> 0]

Init ==
  /\ track = [state |-> "queued", dispatchId |-> 1, worker |-> NoLaunch]
  /\ launcher = [w \in Launches |-> "none"]
  /\ beat = [w \in Launches |-> "none"]
  /\ target = [w \in Launches |-> "none"]
  /\ term = [w \in Launches |-> FALSE]
  /\ ipc = [w \in Launches |-> "open"]
  /\ manager = NoManager
  /\ halter = NoHalter
  /\ lost = FALSE

LauncherUp(w) == launcher[w] \notin {"none", "gone"}

(* The heartbeat names the target's pid.                                   *)
ChildRecorded(w) == beat[w] \in {"running", "stopping", "terminal"}
ChildAlive(w) == ChildRecorded(w) /\ target[w] = "alive"

(* Mutant: a launcher that died while launching is taken for dead.         *)
AliveUnlessGone(w) ==
  /\ w # NoLaunch
  /\ IF beat[w] = "terminal" THEN ChildAlive(w) ELSE LauncherUp(w) \/ ChildAlive(w)

(* isTrackWorkerAlive                                                      *)
Alive(w) ==
  /\ w # NoLaunch
  /\ \/ beat[w] = "launching"
     \/ beat[w] \in {"none", "ready", "running", "stopping"} /\ LauncherUp(w)
     \/ ChildAlive(w)

----------------------------------------------------------------------------
(* worker-launcher.mjs: one action per event-loop turn, except that the GO *)
(* handler is cut at its three effects, between which it can be killed.    *)

Move(w, from, to) == launcher[w] \in from /\ launcher' = [launcher EXCEPT ![w] = to]
Beat(w, state) == beat' = [beat EXCEPT ![w] = state]
Finish(w, from) == Move(w, from, "finished") /\ Beat(w, "terminal")

(* main: the heartbeat, the handlers, READY.                               *)
Boot(w) ==
  /\ Move(w, {"boot"}, "ready") /\ Beat(w, "ready")
  /\ UNCHANGED <<track, target, term, ipc, manager, halter, lost>>

(* GO: neither finished nor released; the launch window is made durable    *)
(* before the command is spawned ...                                       *)
ReceiveGo(w) ==
  /\ ipc[w] = "go" /\ ipc' = [ipc EXCEPT ![w] = "received"]
  /\ Move(w, {"ready"}, "launching") /\ Beat(w, "launching")
  /\ UNCHANGED <<track, target, term, manager, halter, lost>>

(* ... then it is spawned ...                                              *)
SpawnTarget(w) ==
  /\ Move(w, {"launching"}, "spawned")
  /\ target' = [target EXCEPT ![w] = "alive"]
  /\ UNCHANGED <<track, beat, term, ipc, manager, halter, lost>>

(* (or cannot be: finish(127))                                             *)
SpawnError(w) ==
  /\ Finish(w, {"launching"})
  /\ UNCHANGED <<track, target, term, ipc, manager, halter, lost>>

(* ... and its pid recorded.                                               *)
RecordChild(w) ==
  /\ Move(w, {"spawned"}, "running") /\ Beat(w, "running")
  /\ UNCHANGED <<track, target, term, ipc, manager, halter, lost>>

(* The manager is gone before GO: no command runs.                         *)
Disconnect(w) ==
  /\ ipc[w] = "closed" /\ Finish(w, {"ready"})
  /\ UNCHANGED <<track, target, term, ipc, manager, halter, lost>>

(* READY_TIMEOUT_MS without GO: the launcher closes the channel itself.    *)
ReadyTimeout(w) ==
  /\ ipc[w] \in {"open", "go"} /\ ipc' = [ipc EXCEPT ![w] = "closed"]
  /\ Finish(w, {"ready"})
  /\ UNCHANGED <<track, target, term, manager, halter, lost>>

(* requestStop, on SIGTERM or at the deadline; a SIGTERM that comes before *)
(* the handler is installed ends the process.                              *)
HandleTerm(w) ==
  /\ term[w] /\ term' = [term EXCEPT ![w] = FALSE]
  /\ \/ Finish(w, {"ready"})
     \/ Move(w, {"running", "stopping"}, "stopping") /\ Beat(w, "stopping")
     \/ Move(w, {"boot"}, "gone") /\ UNCHANGED beat
     \/ Move(w, {"finished"}, "finished") /\ UNCHANGED beat
  /\ UNCHANGED <<track, target, ipc, manager, halter, lost>>

Deadline(w) ==
  /\ Move(w, {"running"}, "stopping") /\ Beat(w, "stopping")
  /\ UNCHANGED <<track, target, term, ipc, manager, halter, lost>>

(* Mutant: the stop is never enforced.                                     *)
NeverForce(w) == FALSE /\ UNCHANGED vars

ForceKill(w) ==
  /\ launcher[w] = "stopping" /\ target[w] = "alive"
  /\ target' = [target EXCEPT ![w] = "dead"]
  /\ UNCHANGED <<track, launcher, beat, term, ipc, manager, halter, lost>>

(* The command closed; descendants it left behind are killed with it.      *)
TargetClosed(w) ==
  /\ Finish(w, {"running", "stopping"})
  /\ target' = [target EXCEPT ![w] = "dead"]
  /\ UNCHANGED <<track, term, ipc, manager, halter, lost>>

Exit(w) ==
  /\ Move(w, {"finished"}, "gone")
  /\ UNCHANGED <<track, beat, target, term, ipc, manager, halter, lost>>

LauncherStep(w) ==
  \/ Boot(w) \/ ReceiveGo(w) \/ SpawnTarget(w) \/ SpawnError(w) \/ RecordChild(w)
  \/ Disconnect(w) \/ Exit(w)
  \/ TargetClosed(w) /\ target[w] = "dead"

----------------------------------------------------------------------------
(* The manager: await-workers, under the executor lock, and                *)
(* dispatchViaSpawn for the launch it has under way.                       *)

Continue(label) == manager' = [manager EXCEPT !.at = label]
Current == manager.launch

StartTrack ==
  /\ manager.at = "idle" /\ track.state = "queued"
  /\ track' = [track EXCEPT !.state = "running"]
  /\ Continue("check")
  /\ UNCHANGED <<launcher, beat, target, term, ipc, halter, lost>>

(* runTrack looks at the track once more before it goes to work.           *)
RunTrack ==
  /\ manager.at = "check"
  /\ Continue(IF track.state = "running" THEN "launch" ELSE "settle")
  /\ UNCHANGED <<track, launcher, beat, target, term, ipc, halter, lost>>

SpawnLauncher(w) ==
  /\ manager.at = "launch"
  /\ Move(w, {"none"}, "boot") /\ \A v \in Launches : v < w => launcher[v] # "none"
  /\ manager' = [manager EXCEPT !.at = "waitReady", !.launch = w, !.goAttempted = FALSE]
  /\ UNCHANGED <<track, beat, target, term, ipc, halter, lost>>

(* The task fails before a worker is started.                              *)
GiveUp ==
  /\ manager.at = "launch"
  /\ Continue("settle")
  /\ UNCHANGED <<track, launcher, beat, target, term, ipc, halter, lost>>

LauncherReady ==
  /\ manager.at = "waitReady" /\ beat[Current] # "none"
  /\ Continue("persist")
  /\ UNCHANGED <<track, launcher, beat, target, term, ipc, halter, lost>>

Terminate(w) == term' = [term EXCEPT ![w] = term[w] \/ LauncherUp(w)]

(* waitForLauncherReady times out or sees the launcher close.              *)
LauncherNotReady ==
  /\ manager.at = "waitReady"
  /\ Terminate(Current)
  /\ manager' = [manager EXCEPT !.at = "closing", !.retry = TRUE]
  /\ UNCHANGED <<track, launcher, beat, target, ipc, halter, lost>>

(* onProcessStarted: updateRunningTrackLiveness names the launch on the    *)
(* track, if it is still running ...                                       *)
PersistWorker ==
  /\ manager.at = "persist" /\ track.state = "running"
  /\ track' = [track EXCEPT !.worker = Current]
  /\ Continue("go")
  /\ UNCHANGED <<launcher, beat, target, term, ipc, halter, lost>>

(* ... and refuses, or fails, otherwise: the launcher is not released.     *)
RefuseWorker ==
  /\ manager.at = "persist"
  /\ Terminate(Current)
  /\ Continue("closing")
  /\ UNCHANGED <<track, launcher, beat, target, ipc, halter, lost>>

(* releaseWorkerLauncher: the deadline runs from here.                     *)
SendGo ==
  /\ manager.at = "go"
  /\ LET connected == LauncherUp(Current) /\ ipc[Current] = "open"
     IN /\ manager' = [manager EXCEPT !.at = "await", !.goAttempted = TRUE, !.retry = connected]
        /\ ipc' = [ipc EXCEPT ![Current] = IF connected THEN "go" ELSE @]
  /\ UNCHANGED <<track, launcher, beat, target, term, halter, lost>>

(* The manager's own timeout; what it forces after is a launcher killed.   *)
ManagerTimeout ==
  /\ manager.at = "await" /\ LauncherUp(Current) /\ ~term[Current]
  /\ Terminate(Current)
  /\ UNCHANGED <<track, launcher, beat, target, ipc, manager, halter, lost>>

(* The launcher closed.  What the heartbeat names is killed; after GO, a   *)
(* heartbeat that cannot tell whether the command started is ambiguous.  A *)
(* task that failed its gates may be given to another launch, one whose    *)
(* launch was refused or is ambiguous may not.                             *)
LauncherClosed ==
  /\ manager.at \in {"await", "closing"} /\ launcher[Current] = "gone"
  /\ target' = [target EXCEPT ![Current] = IF ChildAlive(Current) THEN "dead" ELSE @]
  /\ LET ambiguous == manager.goAttempted /\ beat[Current] \in {"none", "ready", "launching"}
     IN \E next \in {"launch", "settle"} :
          /\ next = "launch" => manager.retry /\ ~ambiguous
          /\ manager' = [manager EXCEPT !.at = next, !.ambiguous = ambiguous, !.retry = FALSE]
  /\ UNCHANGED <<track, launcher, beat, term, ipc, halter, lost>>

(* settleWorkerTrackOutcome: an ambiguous launch keeps the track running   *)
(* under its identity, as a task that is not finished yet does; any other  *)
(* outcome settles the track.                                              *)
Outcomes ==
  {track} \cup (IF manager.ambiguous THEN {} ELSE {[track EXCEPT !.state = "settled", !.worker = NoLaunch]})

(* persistSettledWorkerTrack: a halted track stays so, without identity.   *)
SettleTrack ==
  /\ manager.at = "settle"
  /\ track' \in IF track.state = "halted" THEN {[track EXCEPT !.worker = NoLaunch]} ELSE Outcomes
  /\ lost' = (lost \/ \E w \in Launches : target[w] = "alive" /\ track.worker = w /\ track'.worker # w)
  /\ manager' = NoManager
  /\ UNCHANGED <<launcher, beat, target, term, ipc, halter>>

ManagerStep ==
  \/ StartTrack \/ RunTrack \/ GiveUp \/ LauncherReady \/ LauncherNotReady \/ PersistWorker
  \/ RefuseWorker \/ SendGo \/ ManagerTimeout \/ LauncherClosed \/ SettleTrack
  \/ \E w \in Launches : SpawnLauncher(w)

----------------------------------------------------------------------------
(* Commands that need the executor lock, free when no manager runs.        *)

(* applyRecoveryPlan: requeue-track, settle-track                          *)
RecoverTrack ==
  /\ manager.at = "idle" /\ track.state = "running" /\ ~Alive(track.worker)
  /\ \E state \in {"queued", "settled"} : track' = [track EXCEPT !.state = state, !.worker = NoLaunch]
  /\ UNCHANGED <<launcher, beat, target, term, ipc, manager, halter, lost>>

(* orchestrateDispatch of a new plan with the task, or orchestrateClose    *)
(* and a new run.                                                          *)
Redispatch ==
  /\ manager.at = "idle" /\ ~Alive(track.worker)
  /\ track.dispatchId < MaxDispatches
  /\ track' = [state |-> "queued", dispatchId |-> track.dispatchId + 1, worker |-> NoLaunch]
  /\ UNCHANGED <<launcher, beat, target, term, ipc, manager, halter, lost>>

----------------------------------------------------------------------------
(* haltTrack, with terminatePersistedWorker                                *)

(* A fresh halt, or the retry of one that could not be completed.          *)
MarkHalted ==
  /\ halter.at = "idle"
  /\ track.state \in {"queued", "running"} \/ (track.state = "halted" /\ track.worker # NoLaunch)
  /\ track' = [track EXCEPT !.state = "halted"]
  /\ halter' = [at |-> "signal", launch |-> track.worker, dispatchId |-> track.dispatchId]
  /\ UNCHANGED <<launcher, beat, target, term, ipc, manager, lost>>

(* isTrackWorkerSignalSafe                                                 *)
SignalSafe(w) == Alive(w) /\ LauncherUp(w) /\ beat[w] \in {"ready", "launching", "running", "stopping"}

(* SIGTERM to the launcher, and to the target the heartbeat names (which   *)
(* may ignore it).                                                         *)
SignalWorker ==
  /\ halter.at = "signal"
  /\ \/ /\ SignalSafe(halter.launch)
        /\ Terminate(halter.launch)
        /\ halter' = [halter EXCEPT !.at = "wait"]
     \/ /\ ~SignalSafe(halter.launch)
        /\ UNCHANGED term
        /\ halter' = [halter EXCEPT !.at = "clear"]
  /\ UNCHANGED <<track, launcher, beat, target, ipc, manager, lost>>

(* The worker is seen to have gone, or is killed after the grace period    *)
(* (and is looked at once more).                                           *)
WaitForWorker ==
  /\ halter.at = "wait"
  /\ halter' = [halter EXCEPT !.at = "clear"]
  /\ \/ ~Alive(halter.launch) /\ UNCHANGED <<launcher, target>>
     \/ /\ Alive(halter.launch)
        /\ launcher' = [launcher EXCEPT ![halter.launch] = "gone"]
        /\ target' = [target EXCEPT ![halter.launch] = IF ChildRecorded(halter.launch) /\ @ = "alive" THEN "dead" ELSE @]
  /\ UNCHANGED <<track, beat, term, ipc, manager, lost>>

ClearIdentity ==
  /\ halter.at = "clear"
  /\ track' = IF /\ track.state = "halted" /\ track.dispatchId = halter.dispatchId
                 /\ ~Alive(track.worker)
              THEN [track EXCEPT !.worker = NoLaunch] ELSE track
  /\ halter' = NoHalter
  /\ UNCHANGED <<launcher, beat, target, term, ipc, manager, lost>>

HalterStep == MarkHalted \/ SignalWorker \/ WaitForWorker \/ ClearIdentity

----------------------------------------------------------------------------
(* The environment: the command ends, processes are killed.                *)

TargetDies(w) ==
  /\ target[w] = "alive" /\ target' = [target EXCEPT ![w] = "dead"]
  /\ UNCHANGED <<track, launcher, beat, term, ipc, manager, halter, lost>>

LauncherDies(w) ==
  /\ LauncherUp(w) /\ launcher' = [launcher EXCEPT ![w] = "gone"]
  /\ UNCHANGED <<track, beat, target, term, ipc, manager, halter, lost>>

(* A GO the manager had queued may or may not have left it.                *)
ManagerDies ==
  /\ manager.at # "idle" /\ manager' = NoManager
  /\ IF Current = NoLaunch THEN UNCHANGED ipc
     ELSE \E c \in {"closed", ipc[Current]} \ {"open"} : ipc' = [ipc EXCEPT ![Current] = c]
  /\ UNCHANGED <<track, launcher, beat, target, term, halter, lost>>

HalterDies ==
  /\ halter.at # "idle" /\ halter' = NoHalter
  /\ UNCHANGED <<track, launcher, beat, target, term, ipc, manager, lost>>

Environment(w) == TargetDies(w) \/ LauncherDies(w) \/ ReadyTimeout(w) \/ Deadline(w) \/ TargetClosed(w)

Next ==
  \/ \E w \in Launches : LauncherStep(w) \/ HandleTerm(w) \/ ForceKill(w) \/ Environment(w)
  \/ ManagerStep \/ RecoverTrack \/ Redispatch \/ HalterStep
  \/ ManagerDies \/ HalterDies

Spec == Init /\ [][Next]_vars

(* Each turn of a launcher's event loop serves its messages and children,  *)
(* its signals and its timers; nothing makes a command end, or a manager   *)
(* or a halt go on.                                                        *)
FairSpec ==
  /\ Spec
  /\ \A w \in Launches :
       WF_vars(LauncherStep(w)) /\ WF_vars(HandleTerm(w)) /\ WF_vars(ForceKill(w))

----------------------------------------------------------------------------
(* Every variable stays in its type.                                       *)
TypeOK ==
  /\ track \in [state : TrackStates, dispatchId : 1 .. MaxDispatches, worker : Launches \cup {NoLaunch}]
  /\ launcher \in [Launches -> LauncherLabels]
  /\ beat \in [Launches -> Beats]
  /\ target \in [Launches -> {"none", "alive", "dead"}]
  /\ term \in [Launches -> BOOLEAN]
  /\ ipc \in [Launches -> {"open", "go", "received", "closed"}]
  /\ manager \in [at : ManagerLabels, launch : Launches \cup {NoLaunch},
                  goAttempted : BOOLEAN, retry : BOOLEAN, ambiguous : BOOLEAN]
  /\ halter \in [at : {"idle", "signal", "wait", "clear"}, launch : Launches \cup {NoLaunch},
                 dispatchId : 0 .. MaxDispatches]
  /\ lost \in BOOLEAN

(* A worker command that runs is named by its track and judged alive, so   *)
(* there is never a second one: whichever process is killed between READY, *)
(* persist, GO, spawn and heartbeat, and however halt, recovery and        *)
(* re-dispatch fall in between, until a settlement drops an identity.      *)
LiveTargetTracked ==
  ~lost => \A w \in Launches : target[w] = "alive" => track.worker = w /\ Alive(w)

(* A stop that reaches a launcher ends its command, whatever the command   *)
(* does about it, unless the launcher is killed first.                     *)
StopHonoured ==
  \A w \in Launches : (term[w] /\ LauncherUp(w)) ~> (target[w] # "alive" \/ ~LauncherUp(w))

(* auto-pilot-intervene.mjs: "PID/token identity is cleared only after     *)
(* observed exit. This invariant also covers signal delivery failures".    *)
IdentityClearedAfterExit ==
  [][\A w \in Launches : track.worker = w /\ track'.worker # w => target[w] # "alive"]_vars
=============================================================================
