---- MODULE WorkerLifecycle_proof ----
(***************************************************************************)
(* Every running worker command is named by its track and judged alive,    *)
(* for any number of launches and dispatches. What has to be kept is more: *)
(* it holds of a launch from the moment its GO is under way, because the   *)
(* command may run at any time after.                                      *)
(***************************************************************************)
EXTENDS WorkerLifecycle, TLAPS

\* A command runs, or can still be started without another word of the manager.
Released(w) ==
  \/ target[w] = "alive"
  \/ launcher[w] = "launching"
  \/ launcher[w] = "ready" /\ ipc[w] = "go"

\* What the heartbeat file says follows the launcher, and stays when it is killed.
BeatFollows ==
  \A w \in Launches :
    /\ launcher[w] \in {"none", "boot"} => beat[w] = "none" /\ ipc[w] # "go"
    /\ launcher[w] = "ready" => beat[w] = "ready"
    /\ launcher[w] \in {"launching", "spawned"} => beat[w] = "launching"
    /\ launcher[w] = "running" => beat[w] = "running"
    /\ launcher[w] = "stopping" => beat[w] = "stopping"
    /\ target[w] = "alive" => /\ launcher[w] \in {"spawned", "running", "stopping", "gone"}
                              /\ beat[w] \in {"launching", "running", "stopping"}

\* Where the manager stands with its launch.
ManagerKnows ==
  /\ manager.at \in {"waitReady", "persist", "go", "await", "closing"} => manager.launch \in Launches
  /\ manager.at \in {"persist", "go"} => beat[manager.launch] # "none"
  /\ manager.at = "go" /\ launcher[manager.launch] = "ready" => track.worker = manager.launch
  /\ manager.at = "await" => manager.goAttempted
  /\ manager.at = "settle" /\ manager.launch # NoLaunch => launcher[manager.launch] = "gone"
  /\ manager.at = "launch" /\ manager.launch # NoLaunch => launcher[manager.launch] = "gone"
  /\ manager.at \in {"idle", "check"} => manager.launch = NoLaunch

\* A queued track names nobody.
QueuedUnnamed == track.state = "queued" => track.worker = NoLaunch

\* A released launch is the track's, and that of the manager that works on the track.
ReleasedTracked ==
  \A w \in Launches : Released(w) =>
    /\ track.worker = w
    /\ manager.at # "idle" => manager.launch = w /\ manager.at \in {"await", "settle"}

WorkerInv == TypeOK /\ BeatFollows /\ ManagerKnows /\ QueuedUnnamed /\ (~lost => ReleasedTracked)

-----------------------------------------------------------------------------
LEMMA InitInv == Init => WorkerInv
<1> SUFFICES ASSUME Init PROVE WorkerInv
  OBVIOUS
<1> USE DEF Init, NoManager, NoHalter
<1>1. TypeOK
  <2>1. 1 \in 1 .. MaxDispatches /\ 0 \in 0 .. MaxDispatches
    BY BoundsAssumption
  <2> QED BY <2>1 DEF TypeOK, TrackStates, LauncherLabels, Beats, ManagerLabels
<1>2. BeatFollows /\ QueuedUnnamed /\ ReleasedTracked
  BY DEF BeatFollows, QueuedUnnamed, ReleasedTracked, Released
<1>3. ManagerKnows
  BY DEF ManagerKnows
<1> QED BY <1>1, <1>2, <1>3 DEF WorkerInv

\* The launcher's own steps: they touch neither track nor manager.
LEMMA LauncherKeeps ==
  ASSUME WorkerInv, NEW w \in Launches,
         LauncherStep(w) \/ HandleTerm(w) \/ ForceKill(w) \/ Environment(w)
  PROVE  WorkerInv'
<1> USE DEF WorkerInv
<1>1. TypeOK'
  <2>1. CASE Boot(w)
    BY <2>1 DEF Boot, TypeOK, Finish, Move, Beat, LauncherLabels, Beats, LauncherUp
  <2>2. CASE ReceiveGo(w)
    BY <2>2 DEF ReceiveGo, TypeOK, Finish, Move, Beat, LauncherLabels, Beats, LauncherUp
  <2>3. CASE SpawnTarget(w)
    BY <2>3 DEF SpawnTarget, TypeOK, Finish, Move, Beat, LauncherLabels, Beats, LauncherUp
  <2>4. CASE SpawnError(w)
    BY <2>4 DEF SpawnError, TypeOK, Finish, Move, Beat, LauncherLabels, Beats, LauncherUp
  <2>5. CASE RecordChild(w)
    BY <2>5 DEF RecordChild, TypeOK, Finish, Move, Beat, LauncherLabels, Beats, LauncherUp
  <2>6. CASE Disconnect(w)
    BY <2>6 DEF Disconnect, TypeOK, Finish, Move, Beat, LauncherLabels, Beats, LauncherUp
  <2>7. CASE Exit(w)
    BY <2>7 DEF Exit, TypeOK, Finish, Move, Beat, LauncherLabels, Beats, LauncherUp
  <2>8. CASE TargetClosed(w)
    BY <2>8 DEF TargetClosed, TypeOK, Finish, Move, Beat, LauncherLabels, Beats, LauncherUp
  <2>9. CASE HandleTerm(w)
    BY <2>9 DEF HandleTerm, TypeOK, Finish, Move, Beat, LauncherLabels, Beats, LauncherUp
  <2>10. CASE ForceKill(w)
    BY <2>10 DEF ForceKill, TypeOK, Finish, Move, Beat, LauncherLabels, Beats, LauncherUp
  <2>11. CASE TargetDies(w)
    BY <2>11 DEF TargetDies, TypeOK, Finish, Move, Beat, LauncherLabels, Beats, LauncherUp
  <2>12. CASE LauncherDies(w)
    BY <2>12 DEF LauncherDies, TypeOK, Finish, Move, Beat, LauncherLabels, Beats, LauncherUp
  <2>13. CASE ReadyTimeout(w)
    BY <2>13 DEF ReadyTimeout, TypeOK, Finish, Move, Beat, LauncherLabels, Beats, LauncherUp
  <2>14. CASE Deadline(w)
    BY <2>14 DEF Deadline, TypeOK, Finish, Move, Beat, LauncherLabels, Beats, LauncherUp
  <2> QED BY <2>1, <2>2, <2>3, <2>4, <2>5, <2>6, <2>7, <2>8, <2>9, <2>10, <2>11, <2>12, <2>13, <2>14 DEF LauncherStep, Environment
<1>2. /\ UNCHANGED <<track, manager, lost>>
      /\ \A v \in Launches \ {w} : /\ launcher'[v] = launcher[v] /\ beat'[v] = beat[v]
                                   /\ target'[v] = target[v] /\ ipc'[v] = ipc[v]
  <2>1. CASE Boot(w)
    BY <2>1 DEF Boot, TypeOK, Finish, Move, Beat
  <2>2. CASE ReceiveGo(w)
    BY <2>2 DEF ReceiveGo, TypeOK, Finish, Move, Beat
  <2>3. CASE SpawnTarget(w)
    BY <2>3 DEF SpawnTarget, TypeOK, Finish, Move, Beat
  <2>4. CASE SpawnError(w)
    BY <2>4 DEF SpawnError, TypeOK, Finish, Move, Beat
  <2>5. CASE RecordChild(w)
    BY <2>5 DEF RecordChild, TypeOK, Finish, Move, Beat
  <2>6. CASE Disconnect(w)
    BY <2>6 DEF Disconnect, TypeOK, Finish, Move, Beat
  <2>7. CASE Exit(w)
    BY <2>7 DEF Exit, TypeOK, Finish, Move, Beat
  <2>8. CASE TargetClosed(w)
    BY <2>8 DEF TargetClosed, TypeOK, Finish, Move, Beat
  <2>9. CASE HandleTerm(w)
    BY <2>9 DEF HandleTerm, TypeOK, Finish, Move, Beat
  <2>10. CASE ForceKill(w)
    BY <2>10 DEF ForceKill, TypeOK, Finish, Move, Beat
  <2>11. CASE TargetDies(w)
    BY <2>11 DEF TargetDies, TypeOK, Finish, Move, Beat
  <2>12. CASE LauncherDies(w)
    BY <2>12 DEF LauncherDies, TypeOK, Finish, Move, Beat
  <2>13. CASE ReadyTimeout(w)
    BY <2>13 DEF ReadyTimeout, TypeOK, Finish, Move, Beat
  <2>14. CASE Deadline(w)
    BY <2>14 DEF Deadline, TypeOK, Finish, Move, Beat
  <2> QED BY <2>1, <2>2, <2>3, <2>4, <2>5, <2>6, <2>7, <2>8, <2>9, <2>10, <2>11, <2>12, <2>13, <2>14 DEF LauncherStep, Environment
\* What happens to this launch.
<1>3. /\ BeatFollows' /\ (Released(w)' => Released(w)) /\ (beat[w] # "none" => beat'[w] # "none")
      /\ launcher[w] = "gone" => launcher'[w] = "gone"
      /\ launcher'[w] = "ready" => launcher[w] \in {"boot", "ready"}
  <2>1. CASE Boot(w)
    BY <2>1 DEF Boot, TypeOK, Finish, Move, Beat, BeatFollows, Released, LauncherUp
  <2>2. CASE ReceiveGo(w)
    BY <2>2 DEF ReceiveGo, TypeOK, Finish, Move, Beat, BeatFollows, Released, LauncherUp
  <2>3. CASE SpawnTarget(w)
    BY <2>3 DEF SpawnTarget, TypeOK, Finish, Move, Beat, BeatFollows, Released, LauncherUp
  <2>4. CASE SpawnError(w)
    BY <2>4 DEF SpawnError, TypeOK, Finish, Move, Beat, BeatFollows, Released, LauncherUp
  <2>5. CASE RecordChild(w)
    BY <2>5 DEF RecordChild, TypeOK, Finish, Move, Beat, BeatFollows, Released, LauncherUp
  <2>6. CASE Disconnect(w)
    BY <2>6 DEF Disconnect, TypeOK, Finish, Move, Beat, BeatFollows, Released, LauncherUp
  <2>7. CASE Exit(w)
    BY <2>7 DEF Exit, TypeOK, Finish, Move, Beat, BeatFollows, Released, LauncherUp
  <2>8. CASE TargetClosed(w)
    BY <2>8 DEF TargetClosed, TypeOK, Finish, Move, Beat, BeatFollows, Released, LauncherUp
  <2>9. CASE HandleTerm(w)
    BY <2>9 DEF HandleTerm, TypeOK, Finish, Move, Beat, BeatFollows, Released, LauncherUp
  <2>10. CASE ForceKill(w)
    BY <2>10 DEF ForceKill, TypeOK, Finish, Move, Beat, BeatFollows, Released, LauncherUp
  <2>11. CASE TargetDies(w)
    BY <2>11 DEF TargetDies, TypeOK, Finish, Move, Beat, BeatFollows, Released, LauncherUp
  <2>12. CASE LauncherDies(w)
    BY <2>12 DEF LauncherDies, TypeOK, Finish, Move, Beat, BeatFollows, Released, LauncherUp
  <2>13. CASE ReadyTimeout(w)
    BY <2>13 DEF ReadyTimeout, TypeOK, Finish, Move, Beat, BeatFollows, Released, LauncherUp
  <2>14. CASE Deadline(w)
    BY <2>14 DEF Deadline, TypeOK, Finish, Move, Beat, BeatFollows, Released, LauncherUp
  <2> QED BY <2>1, <2>2, <2>3, <2>4, <2>5, <2>6, <2>7, <2>8, <2>9, <2>10, <2>11, <2>12, <2>13, <2>14 DEF LauncherStep, Environment
<1>4. ManagerKnows'
  BY <1>2, <1>3 DEF ManagerKnows, BeatFollows, TypeOK
<1>5. ~lost' => ReleasedTracked'
  BY <1>2, <1>3 DEF ReleasedTracked, Released
<1> QED BY <1>1, <1>2, <1>3, <1>4, <1>5 DEF QueuedUnnamed

\* A track names a worker that is alive as long as it is released.
LEMMA ReleasedAlive ==
  ASSUME WorkerInv, NEW w \in Launches, Released(w)
  PROVE  Alive(w)
  BY DEF WorkerInv, TypeOK, BeatFollows, Released, Alive, ChildAlive, ChildRecorded, LauncherUp, Launches, NoLaunch

\* The manager's steps.
LEMMA ManagerKeeps ==
  ASSUME WorkerInv, ManagerStep
  PROVE  WorkerInv'
<1> USE DEF WorkerInv
<1> DEFINE w == manager.launch
<1>1. CASE StartTrack
  <2> USE <1>1 DEF StartTrack, Continue, Current, Terminate, LauncherUp, NoLaunch
  <2>1. TypeOK'
    BY DEF TypeOK, ManagerLabels, TrackStates, Launches
  <2>2. BeatFollows'
    BY DEF TypeOK, BeatFollows
  <2>3. ManagerKnows' /\ QueuedUnnamed'
    BY DEF TypeOK, BeatFollows, ManagerKnows, QueuedUnnamed
  <2>4. ~lost' => ReleasedTracked'
    BY DEF TypeOK, BeatFollows, ManagerKnows, QueuedUnnamed, ReleasedTracked, Released, Launches
  <2> QED BY <2>1, <2>2, <2>3, <2>4
<1>2. CASE RunTrack
  <2> USE <1>2 DEF RunTrack, Continue, Current, Terminate, LauncherUp
  <2>1. TypeOK'
    BY DEF TypeOK, ManagerLabels, TrackStates, Launches
  <2>2. BeatFollows'
    BY DEF TypeOK, BeatFollows
  <2>3. ManagerKnows' /\ QueuedUnnamed'
    BY DEF TypeOK, BeatFollows, ManagerKnows, QueuedUnnamed
  <2>4. ~lost' => ReleasedTracked'
    BY DEF TypeOK, BeatFollows, ManagerKnows, QueuedUnnamed, ReleasedTracked, Released
  <2> QED BY <2>1, <2>2, <2>3, <2>4
<1>3. CASE GiveUp
  <2> USE <1>3 DEF GiveUp, Continue, Current, Terminate, LauncherUp
  <2>1. TypeOK'
    BY DEF TypeOK, ManagerLabels, TrackStates, Launches
  <2>2. BeatFollows'
    BY DEF TypeOK, BeatFollows
  <2>3. ManagerKnows' /\ QueuedUnnamed'
    BY DEF TypeOK, BeatFollows, ManagerKnows, QueuedUnnamed
  <2>4. ~lost' => ReleasedTracked'
    BY DEF TypeOK, BeatFollows, ManagerKnows, QueuedUnnamed, ReleasedTracked, Released
  <2> QED BY <2>1, <2>2, <2>3, <2>4
<1>4. CASE LauncherReady
  <2> USE <1>4 DEF LauncherReady, Continue, Current, Terminate, LauncherUp
  <2>1. TypeOK'
    BY DEF TypeOK, ManagerLabels, TrackStates, Launches
  <2>2. BeatFollows'
    BY DEF TypeOK, BeatFollows
  <2>3. ManagerKnows' /\ QueuedUnnamed'
    BY DEF TypeOK, BeatFollows, ManagerKnows, QueuedUnnamed
  <2>4. ~lost' => ReleasedTracked'
    BY DEF TypeOK, BeatFollows, ManagerKnows, QueuedUnnamed, ReleasedTracked, Released
  <2> QED BY <2>1, <2>2, <2>3, <2>4
<1>5. CASE LauncherNotReady
  <2> USE <1>5 DEF LauncherNotReady, Continue, Current, Terminate, LauncherUp
  <2>1. TypeOK'
    BY DEF TypeOK, ManagerLabels, TrackStates, Launches
  <2>2. BeatFollows'
    BY DEF TypeOK, BeatFollows
  <2>3. ManagerKnows' /\ QueuedUnnamed'
    BY DEF TypeOK, BeatFollows, ManagerKnows, QueuedUnnamed
  <2>4. ~lost' => ReleasedTracked'
    BY DEF TypeOK, BeatFollows, ManagerKnows, QueuedUnnamed, ReleasedTracked, Released
  <2> QED BY <2>1, <2>2, <2>3, <2>4
<1>6. CASE PersistWorker
  <2> USE <1>6 DEF PersistWorker, Continue, Current, Terminate, LauncherUp
  <2>1. TypeOK'
    BY DEF TypeOK, ManagerLabels, TrackStates, Launches
  <2>2. BeatFollows'
    BY DEF TypeOK, BeatFollows
  <2>3. ManagerKnows' /\ QueuedUnnamed'
    BY DEF TypeOK, BeatFollows, ManagerKnows, QueuedUnnamed
  <2>4. ~lost' => ReleasedTracked'
    BY DEF TypeOK, BeatFollows, ManagerKnows, QueuedUnnamed, ReleasedTracked, Released
  <2> QED BY <2>1, <2>2, <2>3, <2>4
<1>7. CASE RefuseWorker
  <2> USE <1>7 DEF RefuseWorker, Continue, Current, Terminate, LauncherUp
  <2>1. TypeOK'
    BY DEF TypeOK, ManagerLabels, TrackStates, Launches
  <2>2. BeatFollows'
    BY DEF TypeOK, BeatFollows
  <2>3. ManagerKnows' /\ QueuedUnnamed'
    BY DEF TypeOK, BeatFollows, ManagerKnows, QueuedUnnamed
  <2>4. ~lost' => ReleasedTracked'
    BY DEF TypeOK, BeatFollows, ManagerKnows, QueuedUnnamed, ReleasedTracked, Released
  <2> QED BY <2>1, <2>2, <2>3, <2>4
<1>8. CASE SendGo
  <2> USE <1>8 DEF SendGo, Continue, Current, Terminate, LauncherUp
  <2>1. TypeOK'
    BY DEF TypeOK, ManagerLabels, TrackStates, Launches
  <2>2. BeatFollows'
    <3>1. \A v \in Launches : ipc'[v] = "go" => ipc[v] = "go" \/ v = w
      BY DEF TypeOK
    <3>2. launcher[w] \notin {"none", "boot"}
      BY DEF TypeOK, BeatFollows, ManagerKnows
    <3> QED BY <3>1, <3>2 DEF BeatFollows
  <2>3. ManagerKnows' /\ QueuedUnnamed'
    BY DEF TypeOK, BeatFollows, ManagerKnows, QueuedUnnamed
  <2>4. ~lost' => ReleasedTracked'
    BY DEF TypeOK, BeatFollows, ManagerKnows, QueuedUnnamed, ReleasedTracked, Released
  <2> QED BY <2>1, <2>2, <2>3, <2>4
<1>9. CASE ManagerTimeout
  <2> USE <1>9 DEF ManagerTimeout, Continue, Current, Terminate, LauncherUp
  <2>1. TypeOK'
    <3>1. w \in Launches
      BY DEF ManagerKnows
    <3>2. term' \in [Launches -> BOOLEAN]
      BY <3>1 DEF TypeOK
    <3> QED BY <3>2 DEF TypeOK
  <2>2. BeatFollows'
    BY DEF TypeOK, BeatFollows
  <2>3. ManagerKnows' /\ QueuedUnnamed'
    BY DEF TypeOK, BeatFollows, ManagerKnows, QueuedUnnamed
  <2>4. ~lost' => ReleasedTracked'
    BY DEF TypeOK, BeatFollows, ManagerKnows, QueuedUnnamed, ReleasedTracked, Released
  <2> QED BY <2>1, <2>2, <2>3, <2>4
<1>10. CASE LauncherClosed
  <2> USE <1>10 DEF LauncherClosed, Continue, Current, Terminate, LauncherUp, ChildAlive, ChildRecorded
  <2>1. TypeOK'
    <3>1. w \in Launches
      BY DEF ManagerKnows
    <3>2. target' \in [Launches -> {"none", "alive", "dead"}]
      BY <3>1 DEF TypeOK
    <3>3. PICK next \in {"launch", "settle"}, ambiguous \in BOOLEAN :
            manager' = [manager EXCEPT !.at = next, !.ambiguous = ambiguous, !.retry = FALSE]
      BY Zenon
    <3>4. manager' \in [at : ManagerLabels, launch : Launches \cup {NoLaunch},
                        goAttempted : BOOLEAN, retry : BOOLEAN, ambiguous : BOOLEAN]
      BY <3>3 DEF TypeOK, ManagerLabels
    <3> QED BY <3>2, <3>4 DEF TypeOK
  <2>2. BeatFollows'
    <3>1. \A v \in Launches : target'[v] = "alive" => target[v] = "alive"
      BY DEF TypeOK
    <3> QED BY <3>1 DEF BeatFollows
  <2>3. ManagerKnows' /\ QueuedUnnamed'
    BY DEF TypeOK, BeatFollows, ManagerKnows, QueuedUnnamed
  <2>4. ~lost' => ReleasedTracked'
    BY DEF TypeOK, BeatFollows, ManagerKnows, QueuedUnnamed, ReleasedTracked, Released
  <2> QED BY <2>1, <2>2, <2>3, <2>4
<1>11. CASE SettleTrack
  <2> USE <1>11 DEF SettleTrack, Continue, Current, Terminate, LauncherUp, Outcomes, NoManager, NoLaunch
  <2>1. TypeOK'
    BY DEF TypeOK, ManagerLabels, TrackStates, Launches
  <2>2. BeatFollows'
    BY DEF TypeOK, BeatFollows
  <2>3. ManagerKnows' /\ QueuedUnnamed'
    BY DEF TypeOK, BeatFollows, ManagerKnows, QueuedUnnamed
  <2>4. ~lost' => ReleasedTracked'
    <3> SUFFICES ASSUME ~lost', NEW v \in Launches, Released(v)' PROVE track'.worker = v
      BY DEF ReleasedTracked
    <3>1. ~lost /\ Released(v)
      BY DEF TypeOK, Released
    <3>2. track.worker = v /\ manager.launch = v /\ launcher[v] = "gone"
      BY <3>1 DEF ReleasedTracked, ManagerKnows, Launches
    <3>3. target[v] = "alive"
      BY <3>1, <3>2 DEF Released
    <3> QED BY <3>2, <3>3
  <2> QED BY <2>1, <2>2, <2>3, <2>4
<1>12. CASE \E v \in Launches : SpawnLauncher(v)
  <2> PICK v \in Launches : SpawnLauncher(v)
    BY <1>12
  <2> USE DEF SpawnLauncher, Move
  <2>1. TypeOK'
    BY DEF TypeOK, ManagerLabels, LauncherLabels
  <2>2. BeatFollows'
    BY DEF TypeOK, BeatFollows
  <2>3. ManagerKnows' /\ QueuedUnnamed'
    BY DEF TypeOK, BeatFollows, ManagerKnows, QueuedUnnamed
  <2>4. ~lost' => ReleasedTracked'
    BY DEF TypeOK, BeatFollows, ManagerKnows, QueuedUnnamed, ReleasedTracked, Released
  <2> QED BY <2>1, <2>2, <2>3, <2>4
<1> QED BY <1>1, <1>2, <1>3, <1>4, <1>5, <1>6, <1>7, <1>8, <1>9, <1>10, <1>11, <1>12 DEF ManagerStep

\* Recovery and re-dispatch, halts, and the deaths of managers and halts.
LEMMA OthersKeep ==
  ASSUME WorkerInv, RecoverTrack \/ Redispatch \/ HalterStep \/ ManagerDies \/ HalterDies
  PROVE  WorkerInv'
<1> USE DEF WorkerInv
<1> DEFINE w == manager.launch
<1>1. CASE RecoverTrack
  <2> USE <1>1 DEF RecoverTrack
  <2>1. TypeOK'
    BY BoundsAssumption DEF TypeOK, ManagerLabels, TrackStates, LauncherLabels, Launches
  <2>2. BeatFollows'
    BY DEF TypeOK, BeatFollows
  <2>3. ManagerKnows' /\ QueuedUnnamed'
    BY ReleasedAlive DEF TypeOK, BeatFollows, ManagerKnows, QueuedUnnamed
  <2>4. ~lost' => ReleasedTracked'
    BY ReleasedAlive DEF TypeOK, ReleasedTracked, Released
  <2> QED BY <2>1, <2>2, <2>3, <2>4
<1>2. CASE Redispatch
  <2> USE <1>2 DEF Redispatch
  <2>1. TypeOK'
    BY BoundsAssumption DEF TypeOK, ManagerLabels, TrackStates, LauncherLabels, Launches
  <2>2. BeatFollows'
    BY DEF TypeOK, BeatFollows
  <2>3. ManagerKnows' /\ QueuedUnnamed'
    BY ReleasedAlive DEF TypeOK, BeatFollows, ManagerKnows, QueuedUnnamed
  <2>4. ~lost' => ReleasedTracked'
    BY ReleasedAlive DEF TypeOK, ReleasedTracked, Released
  <2> QED BY <2>1, <2>2, <2>3, <2>4
<1>3. CASE MarkHalted
  <2> USE <1>3 DEF MarkHalted
  <2>1. TypeOK'
    <3>1. track.dispatchId \in 0 .. MaxDispatches
      BY BoundsAssumption DEF TypeOK
    <3> QED BY <3>1 DEF TypeOK, TrackStates
  <2>2. BeatFollows'
    BY DEF TypeOK, BeatFollows
  <2>3. ManagerKnows' /\ QueuedUnnamed'
    BY ReleasedAlive DEF TypeOK, BeatFollows, ManagerKnows, QueuedUnnamed
  <2>4. ~lost' => ReleasedTracked'
    BY ReleasedAlive DEF TypeOK, ReleasedTracked, Released
  <2> QED BY <2>1, <2>2, <2>3, <2>4
<1>4. CASE SignalWorker
  <2> USE <1>4 DEF SignalWorker, Terminate, LauncherUp
  <2>1. TypeOK'
    <3>1. SignalSafe(halter.launch) => halter.launch \in Launches
      BY DEF TypeOK, SignalSafe, Alive
    <3> QED BY <3>1 DEF TypeOK
  <2>2. BeatFollows'
    BY DEF TypeOK, BeatFollows
  <2>3. ManagerKnows' /\ QueuedUnnamed'
    BY ReleasedAlive DEF TypeOK, BeatFollows, ManagerKnows, QueuedUnnamed
  <2>4. ~lost' => ReleasedTracked'
    BY ReleasedAlive DEF TypeOK, ReleasedTracked, Released
  <2> QED BY <2>1, <2>2, <2>3, <2>4
<1>5. CASE WaitForWorker
  <2> USE <1>5 DEF WaitForWorker
  <2>1. TypeOK'
    <3>1. Alive(halter.launch) => halter.launch \in Launches
      BY DEF TypeOK, Alive
    <3> QED BY <3>1 DEF TypeOK, LauncherLabels
  <2>2. BeatFollows'
    BY DEF TypeOK, BeatFollows
  <2>3. ManagerKnows' /\ QueuedUnnamed'
    BY ReleasedAlive DEF TypeOK, BeatFollows, ManagerKnows, QueuedUnnamed
  <2>4. ~lost' => ReleasedTracked'
    BY ReleasedAlive DEF TypeOK, ReleasedTracked, Released
  <2> QED BY <2>1, <2>2, <2>3, <2>4
<1>6. CASE ClearIdentity
  <2> USE <1>6 DEF ClearIdentity, NoHalter
  <2>1. TypeOK'
    <3>1. track' \in [state : TrackStates, dispatchId : 1 .. MaxDispatches, worker : Launches \cup {NoLaunch}]
      BY DEF TypeOK
    <3>2. 0 \in 0 .. MaxDispatches
      BY BoundsAssumption
    <3> QED BY <3>1, <3>2 DEF TypeOK
  <2>2. BeatFollows'
    BY DEF TypeOK, BeatFollows
  <2>3. ManagerKnows' /\ QueuedUnnamed'
    <3>1. manager.at = "go" /\ launcher[w] = "ready" => Alive(w) /\ track.worker = w
      BY DEF TypeOK, BeatFollows, ManagerKnows, Alive, LauncherUp, Launches, NoLaunch
    <3> QED BY <3>1 DEF TypeOK, BeatFollows, ManagerKnows, QueuedUnnamed
  <2>4. ~lost' => ReleasedTracked'
    BY ReleasedAlive DEF TypeOK, ReleasedTracked, Released
  <2> QED BY <2>1, <2>2, <2>3, <2>4
<1>7. CASE ManagerDies
  <2> USE <1>7 DEF ManagerDies, NoManager, Current
  <2>1. TypeOK'
    BY BoundsAssumption DEF TypeOK, ManagerLabels, TrackStates, LauncherLabels, Launches
  <2>2. BeatFollows'
    BY DEF TypeOK, BeatFollows
  <2>3. ManagerKnows' /\ QueuedUnnamed'
    BY ReleasedAlive DEF TypeOK, BeatFollows, ManagerKnows, QueuedUnnamed
  <2>4. ~lost' => ReleasedTracked'
    BY ReleasedAlive DEF TypeOK, ReleasedTracked, Released
  <2> QED BY <2>1, <2>2, <2>3, <2>4
<1>8. CASE HalterDies
  <2> USE <1>8 DEF HalterDies, NoHalter
  <2>1. TypeOK'
    BY BoundsAssumption DEF TypeOK, ManagerLabels, TrackStates, LauncherLabels, Launches
  <2>2. BeatFollows'
    BY DEF TypeOK, BeatFollows
  <2>3. ManagerKnows' /\ QueuedUnnamed'
    BY ReleasedAlive DEF TypeOK, BeatFollows, ManagerKnows, QueuedUnnamed
  <2>4. ~lost' => ReleasedTracked'
    BY ReleasedAlive DEF TypeOK, ReleasedTracked, Released
  <2> QED BY <2>1, <2>2, <2>3, <2>4
<1> QED BY <1>1, <1>2, <1>3, <1>4, <1>5, <1>6, <1>7, <1>8 DEF HalterStep

-----------------------------------------------------------------------------
LEMMA StepInv == WorkerInv /\ [Next]_vars => WorkerInv'
<1> SUFFICES ASSUME WorkerInv, [Next]_vars PROVE WorkerInv'
  OBVIOUS
<1>1. CASE UNCHANGED vars
  BY <1>1 DEF vars, WorkerInv, TypeOK, BeatFollows, ManagerKnows, QueuedUnnamed, ReleasedTracked, Released
<1> QED BY <1>1, LauncherKeeps, ManagerKeeps, OthersKeep DEF Next

\* Every variable keeps its type in every launch, halt, recovery and death of a
\* process.
THEOREM TypeCorrect == Spec => []TypeOK
<1>1. Spec => []WorkerInv
  BY InitInv, StepInv, PTL DEF Spec
<1> QED BY <1>1, PTL DEF WorkerInv

\* There is never a worker command that its track does not name or that would be taken
\* for dead, however the handshake, the halt, the recovery and the re-dispatch of the
\* track interleave and whichever processes die, until a settlement drops an identity.
THEOREM WorkersTracked == Spec => []LiveTargetTracked
<1>1. Spec => []WorkerInv
  BY InitInv, StepInv, PTL DEF Spec
<1>2. WorkerInv => LiveTargetTracked
  BY ReleasedAlive DEF WorkerInv, LiveTargetTracked, ReleasedTracked, Released
<1> QED BY <1>1, <1>2, PTL
====
