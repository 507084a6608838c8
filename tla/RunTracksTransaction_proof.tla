--------------------- MODULE RunTracksTransaction_proof ---------------------
(***************************************************************************)
(* Types; that a halt wins over every transaction; that a pending intent   *)
(* can always be resolved; and that the protocol implements the store in   *)
(* which run and tracks are one value, for every set of commands and tasks *)
(* and every bound on the clock.                                           *)
(***************************************************************************)
EXTENDS RunTracksTransaction, TLAPS

InTransaction == {"locked", "replayTracks", "replayRun", "replayDone", "callback",
                  "pubTracks", "pubRun", "pubDone"}
Writing == InTransaction \ {"locked", "callback"}

(* Whoever is inside a transaction holds its locks; whoever writes has an  *)
(* intent whose run.json is on one of the intent's two sides; no intent    *)
(* leads out of halted but to done, and none leads into it.                *)
Locked == \A p \in Commands : pc[p] \in InTransaction => tx = p
WriterKnowsRun == \A p \in Commands : pc[p] \in Writing => intent # NoIntent /\ RunKnown
IntentRespectsHalt ==
  intent # NoIntent =>
    /\ intent.beforeRun.phase = "halted" => intent.afterRun.phase = "done"
    /\ intent.afterRun.phase # "halted"

HaltInv == TypeOK /\ Locked /\ WriterKnowsRun /\ IntentRespectsHalt

(* Changing the state of a track keeps a tracks document one.              *)
LEMMA TrackUpdate ==
  ASSUME NEW doc, IsTracksDoc(doc), NEW t \in DOMAIN doc, NEW s \in TrackStates
  PROVE  IsTracksDoc([doc EXCEPT ![t].state = s])
  BY DEF IsTracksDoc, Tracks

LEMMA NoTracksIsDoc == IsTracksDoc(NoTracks)
  BY DEF IsTracksDoc, NoTracks

(* The intent of a publication is one and is not the missing one.          *)
LEMMA IntentOfPublication ==
  ASSUME NEW b \in Runs, NEW a \in Runs, NEW x, NEW y, IsTracksDoc(x), IsTracksDoc(y)
  PROVE  LET i == [beforeRun |-> b, afterRun |-> a, beforeTracks |-> x, afterTracks |-> y]
         IN  i # NoIntent /\ IsIntent(i)
  <1>1. x \in TracksDocs /\ y \in TracksDocs  BY DEF IsTracksDoc, TracksDocs
  <1>2. QED  BY <1>1, NoIntentAssumption DEF Intents, IsIntent

LEMMA InitHolds == Init => HaltInv
  <1> SUFFICES ASSUME Init PROVE HaltInv  OBVIOUS
  <1>1. run \in Runs  BY DEF Init, Runs, Phases
  <1>2. Unread \in Runs  BY DEF Unread, Runs, Phases
  <1>3. TypeOK  BY <1>1, <1>2, NoTracksIsDoc DEF Init, TypeOK, Labels, Jobs
  <1>4. QED  BY <1>3 DEF Init, HaltInv, Locked, WriterKnowsRun, IntentRespectsHalt, InTransaction, Writing

(* What a command's control state is after a step of it.                   *)
LEMMA Moved ==
  ASSUME TypeOK, NEW p \in Commands, NEW label \in Labels, Goto(p, label)
  PROVE  /\ pc' \in [Commands -> Labels] /\ pc'[p] = label
         /\ \A q \in Commands \ {p} : pc'[q] = pc[q]
  BY DEF TypeOK, Goto

LEMMA Ended ==
  ASSUME TypeOK, NEW p \in Commands, End(p)
  PROVE  /\ pc' \in [Commands -> Labels] /\ pc'[p] = "idle"
         /\ \A q \in Commands \ {p} : pc'[q] = pc[q]
         /\ job' \in [Commands -> Jobs] /\ snap' \in [Commands -> Runs]
         /\ todo' \in [Commands -> SUBSET Tasks]
  <1>1. Unread \in Runs  BY DEF Unread, Runs, Phases
  <1>2. QED  BY <1>1 DEF TypeOK, End, Goto, Forget, Labels, Jobs

LEMMA Released ==
  ASSUME TypeOK, NEW p \in Commands, ReleaseAll(p)
  PROVE  /\ tx' \in Commands \cup {NoCommand} /\ exec' \in Commands \cup {NoCommand}
         /\ tx # p => tx' = tx
         /\ End(p)
  BY DEF TypeOK, ReleaseAll

(* A publication records run.json and the next one in an intent.           *)
LEMMA Published ==
  ASSUME TypeOK, NEW p \in Commands, NEW r \in Runs, NEW d, IsTracksDoc(d), Publish(p, r, d)
  PROVE  /\ intent' # NoIntent /\ IsIntent(intent')
         /\ intent'.beforeRun = run /\ intent'.afterRun = r
         /\ clock' \in Nat
         /\ Goto(p, "pubTracks")
         /\ UNCHANGED <<run, tracks, published, overwritten, halt, live, tx, exec, locals>>
  BY IntentOfPublication DEF TypeOK, Publish, Tick

(* What the four transaction bodies publish.                               *)
Publishes(p) ==
  PublishDispatch(p) \/ PublishPreview(p) \/ PublishClose(p) \/ PublishRequeue(p) \/ PublishCloseRun(p)

LEMMA Bodies ==
  ASSUME TypeOK, NEW p \in Commands, Publishes(p)
  PROVE  \E r \in Runs : \E d :
           /\ pc[p] = "callback"
           /\ IsTracksDoc(d)
           /\ Publish(p, r, d)
           /\ r.phase # "halted" /\ (run.phase = "halted" => r.phase = "done")
  <1>1. CASE PublishDispatch(p)
    <2> DEFINE r == [run EXCEPT !.phase = "dispatch-queued", !.updatedAt = clock]
               d == [t \in run.plan |-> [state |-> "queued", dispatchId |-> clock]]
    <2>1. r \in Runs /\ r.phase = "dispatch-queued"  BY DEF TypeOK, Runs, Phases
    <2>2. IsTracksDoc(d)  BY DEF TypeOK, Runs, IsTracksDoc, Tracks, TrackStates
    <2>3. QED  BY <1>1, <2>1, <2>2 DEF PublishDispatch, MayDispatch
  <1>2. CASE PublishClose(p) \/ PublishCloseRun(p)
    <2> DEFINE r == [phase |-> "done", plan |-> {}, updatedAt |-> clock]
    <2>1. r \in Runs /\ r.phase = "done"  BY DEF TypeOK, Runs, Phases
    <2>2. QED  BY <1>2, <2>1, NoTracksIsDoc DEF PublishClose, PublishCloseRun
  <1>3. CASE PublishRequeue(p)
    <2> DEFINE r(requeued, next) ==
                 [run EXCEPT !.updatedAt = clock,
                             !.phase = IF requeued # {} /\ next = "running" THEN "dispatch-queued" ELSE next]
               d(requeued, settled) ==
                 [t \in DOMAIN tracks |->
                    IF t \in requeued THEN [tracks[t] EXCEPT !.state = "queued"]
                    ELSE IF t \in settled THEN [tracks[t] EXCEPT !.state = "settled"]
                    ELSE tracks[t]]
    <2>1. PICK settled \in SUBSET DeadRunning, requeued \in SUBSET DeadRunning,
               next \in {run.phase, "awaiting-plan-approval"} :
            Publish(p, r(requeued, next), d(requeued, settled))
      BY <1>3 DEF PublishRequeue
    <2>2. /\ r(requeued, next) \in Runs
          /\ r(requeued, next).phase \in {run.phase, "dispatch-queued", "awaiting-plan-approval"}
      BY DEF TypeOK, Runs, Phases
    <2>3. IsTracksDoc(d(requeued, settled))  BY DEF TypeOK, IsTracksDoc, Tracks, TrackStates
    <2>4. pc[p] = "callback" /\ run.phase # "halted"  BY <1>3 DEF PublishRequeue, MayRecover, Terminal
    <2>5. r(requeued, next).phase # "halted"  BY <2>2, <2>4
    <2> HIDE DEF r, d
    <2>6. QED  BY <2>1, <2>2, <2>3, <2>4, <2>5
  <1>4. CASE PublishPreview(p)
    <2> DEFINE r == [run EXCEPT !.phase = "dry-run-preview", !.updatedAt = clock]
               d == [t \in DOMAIN tracks |-> IF t \in todo[p] THEN [tracks[t] EXCEPT !.state = "preview"] ELSE tracks[t]]
    <2>1. r \in Runs /\ r.phase = "dry-run-preview"  BY DEF TypeOK, Runs, Phases
    <2>2. IsTracksDoc(d)  BY DEF TypeOK, IsTracksDoc, Tracks, TrackStates
    <2>3. QED  BY <1>4, <2>1, <2>2 DEF PublishPreview, MayPreview
  <1>5. QED  BY <1>1, <1>2, <1>3, <1>4 DEF Publishes

(* A write to run.json alone happens outside every transaction.            *)
LEMMA RunWritten ==
  ASSUME TypeOK, NEW next \in Runs, WriteRunFile(next)
  PROVE  /\ tx = NoCommand
         /\ run' \in Runs /\ run'.phase = next.phase
         /\ clock' \in Nat /\ overwritten' \in BOOLEAN
  <1>1. overwritten' \in BOOLEAN  BY Zenon DEF TypeOK, WriteRunFile
  <1>2. QED  BY <1>1 DEF TypeOK, WriteRunFile, Tick, Runs

LEMMA TrackHalted ==
  ASSUME TypeOK, NEW t, MarkHalted(t)
  PROVE  tx = NoCommand /\ IsTracksDoc(tracks') /\ overwritten' \in BOOLEAN
  <1>1. overwritten' \in BOOLEAN  BY Zenon DEF TypeOK, MarkHalted
  <1>2. CASE t \in DOMAIN tracks /\ tracks[t].state \in {"queued", "running"}
    <2>1. IsTracksDoc([tracks EXCEPT ![t].state = "halted"])  BY <1>2, TrackUpdate DEF TypeOK, TrackStates
    <2>2. QED  BY <1>1, <1>2, <2>1 DEF MarkHalted
  <1>3. CASE ~(t \in DOMAIN tracks /\ tracks[t].state \in {"queued", "running"})
    BY <1>1, <1>3 DEF MarkHalted, TypeOK
  <1>4. QED  BY <1>2, <1>3

(* The tracks a replay writes are a tracks document.                       *)
LEMMA RecoveredIsDoc ==
  ASSUME TypeOK, intent # NoIntent PROVE IsTracksDoc(RecoveredTracks)
  <1>1. CASE SameTracks \/ ~Mergeable  BY <1>1 DEF RecoveredTracks, TypeOK, IsIntent
  <1>2. CASE ~SameTracks /\ Mergeable
    BY <1>2 DEF RecoveredTracks, TypeOK, IsIntent, IsTracksDoc, Mergeable
  <1>3. QED  BY <1>1, <1>2

LEMMA StepHolds == HaltInv /\ [Next]_vars => HaltInv'
  <1> SUFFICES ASSUME HaltInv, [Next]_vars PROVE HaltInv'  OBVIOUS
  <1> USE NoCommandAssumption
      DEF HaltInv, Locked, WriterKnowsRun, IntentRespectsHalt, RunKnown, InTransaction, Writing,
          TypeOK, Labels, Jobs, files, locals
  <1>1. ASSUME NEW p \in Commands, Enter(p) PROVE HaltInv'
    BY <1>1, Moved DEF Enter
  <1>2. ASSUME NEW p \in Commands, LockTransaction(p) PROVE HaltInv'
    BY <1>2, Moved DEF LockTransaction
  <1>3. ASSUME NEW p \in Commands, NothingToRecover(p) PROVE HaltInv'
    BY <1>3, Moved DEF NothingToRecover
  <1>4. ASSUME NEW p \in Commands, BeginReplay(p) PROVE HaltInv'
    BY <1>4, Moved DEF BeginReplay, Recoverable
  <1>5. ASSUME NEW p \in Commands, Supersede(p) PROVE HaltInv'
    BY <1>5, Moved, ZenonT(60) DEF Supersede, DropIntent
  <1>6. ASSUME NEW p \in Commands, Conflict(p) PROVE HaltInv'
    BY <1>6, Ended, Released DEF Conflict
  <1>7. ASSUME NEW p \in Commands, ReplayTracks(p) PROVE HaltInv'
    BY <1>7, Moved, RecoveredIsDoc DEF ReplayTracks
  <1>8. ASSUME NEW p \in Commands, ReplayRun(p) PROVE HaltInv'
    BY <1>8, Moved DEF ReplayRun, IsIntent
  <1>9. ASSUME NEW p \in Commands, ReplayDone(p) PROVE HaltInv'
    BY <1>9, Moved, ZenonT(60) DEF ReplayDone, DropIntent
  <1>10. ASSUME NEW p \in Commands, Recovered(p) PROVE HaltInv'
    BY <1>10, Moved DEF Recovered
  <1>11. ASSUME NEW p \in Commands, Publishes(p) PROVE HaltInv'
    <2>1. PICK r \in Runs :
            \E d :
              /\ pc[p] = "callback"
              /\ IsTracksDoc(d)
              /\ Publish(p, r, d)
              /\ r.phase # "halted" /\ (run.phase = "halted" => r.phase = "done")
      BY <1>11, Bodies
    <2>2. QED  BY <2>1, Published, Moved
  <1>12. ASSUME NEW p \in Commands, Reject(p) PROVE HaltInv'
    BY <1>12, Ended, Released DEF Reject
  <1>13. ASSUME NEW p \in Commands, WriteTracks(p) PROVE HaltInv'
    BY <1>13, Moved DEF WriteTracks, IsIntent
  <1>14. ASSUME NEW p \in Commands, WriteRun(p) PROVE HaltInv'
    BY <1>14, Moved DEF WriteRun, IsIntent
  <1>15. ASSUME NEW p \in Commands, RemoveIntent(p) PROVE HaltInv'
    <2>1. intent' = NoIntent /\ published' = FALSE /\ overwritten' = FALSE /\ tx = p
      BY <1>15 DEF RemoveIntent, DropIntent
    <2>2. \A q \in Commands : pc'[q] \notin InTransaction
      BY <1>15, <2>1, Ended, Released DEF RemoveIntent
    <2>3. QED  BY <1>15, <2>1, <2>2, Ended, Released DEF RemoveIntent
  <1>16. ASSUME NEW p \in Commands, TakeExecutor(p) PROVE HaltInv'
    BY <1>16, Moved DEF TakeExecutor
  <1>17. ASSUME NEW p \in Commands, BeginTransaction(p) PROVE HaltInv'
    <2>1. Queued \in SUBSET Tasks  BY DEF Queued, IsTracksDoc
    <2>2. job' \in [Commands -> Jobs] /\ todo' \in [Commands -> SUBSET Tasks] /\ snap' \in [Commands -> Runs]
      BY <1>17, <2>1 DEF BeginTransaction
    <2>3. QED  BY <1>17, <2>2, Moved DEF BeginTransaction
  <1>18. ASSUME NEW p \in Commands, ReadRun(p) PROVE HaltInv'
    BY <1>18, Moved DEF ReadRun
  <1>19. ASSUME NEW p \in Commands, Transition(p) PROVE HaltInv'
    <2>1. PICK next \in Runs : WriteRunFile(next) /\ next.phase # "halted"
      <3>1. CASE \E plan \in SUBSET Tasks \ {{}} :
                   WriteRunFile([run EXCEPT !.phase = "awaiting-plan-approval", !.plan = plan])
        <4>1. PICK plan \in SUBSET Tasks :
                WriteRunFile([run EXCEPT !.phase = "awaiting-plan-approval", !.plan = plan])
          BY <3>1
        <4>2. /\ [run EXCEPT !.phase = "awaiting-plan-approval", !.plan = plan] \in Runs
              /\ [run EXCEPT !.phase = "awaiting-plan-approval", !.plan = plan].phase # "halted"
          BY DEF Runs, Phases
        <4>3. QED  BY <4>1, <4>2
      <3>2. CASE WriteRunFile([run EXCEPT !.phase = "plan-approved"])
        BY <3>2 DEF Runs, Phases
      <3>3. QED  BY <1>19, <3>1, <3>2 DEF Transition
    <2>2. tx = NoCommand /\ run' \in Runs /\ clock' \in Nat /\ overwritten' \in BOOLEAN  BY <2>1, RunWritten
    <2>3. End(p) /\ UNCHANGED <<tracks, intent, published, halt, live, tx, exec>>  BY <1>19 DEF Transition
    <2>4. QED  BY <2>2, <2>3, Ended
  <1>20. ASSUME NEW p \in Commands, TransitionFails(p) PROVE HaltInv'
    BY <1>20, Ended DEF TransitionFails
  <1>21. ASSUME NEW p \in Commands, SupersedePlan(p) PROVE HaltInv'
    <2>1. [run EXCEPT !.phase = "awaiting-plan-approval", !.plan = {}] \in Runs
      BY DEF Runs, Phases
    <2>2. QED  BY <1>21, <2>1, RunWritten, Ended DEF SupersedePlan
  <1>22. ASSUME NEW p \in Commands, StartWorkers(p) PROVE HaltInv'
    <2>1. [run EXCEPT !.phase = "running"] \in Runs  BY DEF Runs, Phases
    <2>2. Queued \in SUBSET Tasks  BY DEF Queued, IsTracksDoc
    <2>3. run' \in Runs /\ tx = NoCommand /\ clock' \in Nat /\ overwritten' \in BOOLEAN
      BY <1>22, <2>1, RunWritten DEF StartWorkers
    <2>4. todo' \in [Commands -> SUBSET Tasks] /\ snap' \in [Commands -> Runs]
      BY <1>22, <2>2, <2>3 DEF StartWorkers
    <2>5. QED  BY <1>22, <2>3, <2>4, Moved DEF StartWorkers
  <1>23. ASSUME NEW p \in Commands, FinishWorkers(p) PROVE HaltInv'
    <2>1. PICK next \in Runs : WriteRunFile(next)
      <3>1. \A outcome \in Phases : [snap[p] EXCEPT !.phase = outcome] \in Runs  BY DEF Runs
      <3>2. QED  BY <1>23, <3>1 DEF FinishWorkers, Phases
    <2>2. QED  BY <1>23, <2>1, RunWritten, Ended DEF FinishWorkers
  <1>24. ASSUME NEW p \in Commands, AppendHalt(p) PROVE HaltInv'
    BY <1>24, Moved DEF AppendHalt
  <1>25. ASSUME NEW p \in Commands, HaltRun(p) PROVE HaltInv'
    <2>1. run' \in Runs /\ clock' \in Nat
      <3>1. [run EXCEPT !.phase = "halted", !.updatedAt = clock] \in Runs
        BY DEF Runs, Phases
      <3>2. QED  BY <1>25, <3>1 DEF HaltRun, Tick
    <2>2. CASE Goto(p, "readTracks") /\ UNCHANGED locals
      BY <1>25, <2>1, <2>2, Moved DEF HaltRun
    <2>3. CASE End(p)  BY <1>25, <2>1, <2>3, Ended DEF HaltRun
    <2>4. QED  BY <1>25, <2>2, <2>3 DEF HaltRun
  <1>26. ASSUME NEW p \in Commands, ReadTracks(p) PROVE HaltInv'
    BY <1>26, Moved DEF ReadTracks, IsTracksDoc
  <1>27. ASSUME NEW p \in Commands, HaltTracks(p) PROVE HaltInv'
    BY <1>27, TrackHalted DEF HaltTracks
  <1>28. ASSUME NEW p \in Commands, EndHalt(p) PROVE HaltInv'
    BY <1>28, Ended DEF EndHalt
  <1>29. ASSUME NEW p \in Commands, Leave(p) PROVE HaltInv'
    BY <1>29, Ended, Released DEF Leave
  <1>30. ASSUME NEW p \in Commands, Crash(p) PROVE HaltInv'
    BY <1>30, Ended, Released DEF Crash
  <1>31. ASSUME NEW p \in Commands, NEW t \in Tasks, StartTrack(p, t) PROVE HaltInv'
    BY <1>31, TrackUpdate DEF StartTrack, Queued, TrackStates, IsTracksDoc, Tracks
  <1>32. ASSUME NEW p \in Commands, NEW t \in Tasks, SettleTrack(p, t) PROVE HaltInv'
    <2>1. IsTracksDoc([tracks EXCEPT ![t].state = "settled"])
      BY DEF IsTracksDoc, Tracks, TrackStates
    <2>2. QED  BY <1>32, <2>1 DEF SettleTrack
  <1>33. ASSUME NEW p \in Commands, NEW t \in Tasks, HaltTrack(p, t) PROVE HaltInv'
    BY <1>33, TrackHalted, Ended DEF HaltTrack
  <1>34. ASSUME NEW w \in live, WorkerExit(w) PROVE HaltInv'
    BY <1>34 DEF WorkerExit
  <1>35. CASE UNCHANGED vars  BY <1>35 DEF vars
  <1>36. QED
    BY <1>1, <1>2, <1>3, <1>4, <1>5, <1>6, <1>7, <1>8, <1>9, <1>10, <1>11, <1>12, <1>13, <1>14, <1>15, <1>16, <1>17, <1>18,
       <1>19, <1>20, <1>21, <1>22, <1>23, <1>24, <1>25, <1>26, <1>27, <1>28, <1>29, <1>30, <1>31, <1>32, <1>33, <1>34, <1>35
    DEF Next, Recovery, Publication, SingleFile, Publishes

(* Every variable stays in its type.                                       *)
THEOREM TypeCorrect == Spec => []TypeOK
  <1>1. HaltInv => TypeOK  BY DEF HaltInv
  <1>2. QED  BY InitHolds, StepHolds, <1>1, PTL DEF Spec

(* No plan, dispatch, recovery, replay or compare-and-swap, finished late  *)
(* or interrupted by a crash, reopens a run that was halted.               *)
THEOREM HaltWins == Spec => HaltedRunStays
  <1>1. ASSUME HaltInv, [Next]_vars PROVE run.phase = "halted" => run'.phase \in {"halted", "done"}
    <2> SUFFICES ASSUME run.phase = "halted" PROVE run'.phase \in {"halted", "done"}  OBVIOUS
    <2>1. ASSUME NEW p \in Commands, ReplayRun(p) \/ WriteRun(p) PROVE run'.phase \in {"halted", "done"}
      BY <1>1, <2>1 DEF ReplayRun, WriteRun, HaltInv, WriterKnowsRun, RunKnown, IntentRespectsHalt, Writing, InTransaction
    <2>2. ASSUME NEW p \in Commands, Transition(p) \/ SupersedePlan(p) \/ StartWorkers(p)
          PROVE  FALSE
      BY <1>1, <2>2 DEF Transition, Unchanged, SupersedePlan, StartWorkers, Terminal
    <2>3. ASSUME NEW p \in Commands, FinishWorkers(p) PROVE run'.phase \in {"halted", "done"}
      BY <1>1, <2>3 DEF FinishWorkers, WriteRunFile, Terminal, HaltInv, TypeOK, Runs
    <2>4. ASSUME NEW p \in Commands, HaltRun(p) PROVE run'.phase \in {"halted", "done"}
      BY <1>1, <2>4 DEF HaltRun, Terminal
    <2>5. ASSUME run' = run PROVE run'.phase \in {"halted", "done"}  BY <2>5
    <2>6. QED
      BY <1>1, <2>1, <2>2, <2>3, <2>4, <2>5, ZenonT(60) DEF Next, Recovery, Publication, SingleFile, vars, files,
         Enter, LockTransaction, NothingToRecover, BeginReplay, Supersede, Conflict, ReplayTracks, ReplayDone,
         Recovered, PublishDispatch, PublishClose, PublishPreview, PublishRequeue, PublishCloseRun, Publish, Reject, WriteTracks,
         RemoveIntent, TakeExecutor, BeginTransaction, ReadRun, TransitionFails, AppendHalt, ReadTracks,
         HaltTracks, EndHalt, StartTrack, SettleTrack, HaltTrack, Leave, Crash, WorkerExit
  <1>2. QED  BY InitHolds, StepHolds, <1>1, PTL DEF Spec, HaltedRunStays

----------------------------------------------------------------------------
(* Whoever publishes holds the executor lock, so no executor starts or     *)
(* settles workers under a pending intent, short of one that wrote run.json *)
(* over it.                                                                *)
ExecutorHeld ==
  \A p \in Commands : pc[p] \in {"exec", "awaiting"} \/ job[p] # "entry" => exec = p

CallbackClean == \A p \in Commands : pc[p] = "callback" => intent = NoIntent
NothingPending == intent = NoIntent => ~published /\ ~overwritten

(* A close leaves no worker behind whose track it removes.                 *)
ClosesIdle ==
  intent # NoIntent /\ ~overwritten /\ intent.afterRun.phase = "done" =>
    intent.afterTracks = NoTracks /\ NoLiveWorker(intent.beforeTracks)

(* The two files stay on the intent's sides, but for halts.                *)
RunSided == RunKnown \/ Terminal(run.phase)
TracksSided ==
  \/ SameTracks
  \/ Mergeable
  \/ intent.afterRun.phase = "done" /\ intent.afterTracks = NoTracks /\ NoLiveWorker(tracks)

Sided ==
  intent # NoIntent /\ ~overwritten =>
    /\ RunSided /\ TracksSided
    /\ \A p \in Commands : pc[p] # "awaiting"

RecoveryInv == ExecutorHeld /\ CallbackClean /\ NothingPending /\ ClosesIdle /\ Sided

LEMMA RecoveryInit == Init => RecoveryInv
  BY DEF Init, RecoveryInv, ExecutorHeld, CallbackClean, NothingPending, ClosesIdle, Sided

(* The steps that leave the files and the workers to whoever has them.     *)
LEMMA FilesKept ==
  ASSUME RecoveryInv, UNCHANGED <<run, tracks, intent, overwritten>>, live' \subseteq live,
         \A p \in Commands : pc'[p] = "awaiting" => pc[p] = "awaiting"
  PROVE  ClosesIdle' /\ Sided'
  <1>1. /\ RunKnown' <=> RunKnown
        /\ SameTracks' <=> SameTracks
        /\ Mergeable' <=> Mergeable
    BY DEF RunKnown, SameTracks, Mergeable, FromIntent, HaltedSince
  <1>2. \A doc : NoLiveWorker(doc) => NoLiveWorker(doc)'
    BY DEF NoLiveWorker, Alive
  <1>3. NoLiveWorker(tracks) => NoLiveWorker(tracks)'
    BY DEF NoLiveWorker, Alive
  <1>4. ClosesIdle'  BY <1>2 DEF RecoveryInv, ClosesIdle, NoLiveWorker, Alive
  <1>5. Sided'  BY <1>1, <1>3 DEF RecoveryInv, Sided, RunSided, TracksSided
  <1>6. QED  BY <1>4, <1>5

(* A halt of a track keeps what the replay can merge.                      *)
LEMMA HaltKeepsSides ==
  ASSUME TypeOK, RecoveryInv, NEW t, MarkHalted(t), UNCHANGED <<run, intent, live, published>>,
         \A p \in Commands : pc'[p] = "awaiting" => pc[p] = "awaiting"
  PROVE  ClosesIdle' /\ Sided' /\ NothingPending'
  <1>1. CASE UNCHANGED <<tracks, overwritten>>
    <2>1. NothingPending'  BY <1>1 DEF RecoveryInv, NothingPending
    <2>2. QED  BY <1>1, <2>1, FilesKept
  <1>2. CASE /\ t \in DOMAIN tracks /\ tracks[t].state \in {"queued", "running"}
             /\ tracks' = [tracks EXCEPT ![t].state = "halted"]
             /\ overwritten' = (overwritten \/ (/\ intent # NoIntent
                                                /\ intent.afterRun.phase # "done"
                                                /\ DOMAIN tracks # DOMAIN intent.afterTracks))
    <2>1. NothingPending'
      <3> SUFFICES ASSUME intent = NoIntent PROVE ~published /\ ~overwritten'  BY DEF NothingPending
      <3>1. ~published /\ ~overwritten  BY DEF RecoveryInv, NothingPending
      <3>2. ~overwritten'  BY <1>2, <3>1
      <3>3. QED  BY <3>1, <3>2
    <2>2. ClosesIdle'
      BY <1>2 DEF RecoveryInv, ClosesIdle, NoLiveWorker, Alive
    <2>3. SUFFICES ASSUME intent # NoIntent, ~overwritten'
                   PROVE  RunSided' /\ TracksSided' /\ \A p \in Commands : pc'[p] # "awaiting"
      BY <2>1, <2>2 DEF Sided
    <2>4. /\ ~overwritten /\ RunSided /\ TracksSided
          /\ intent.afterRun.phase = "done" \/ DOMAIN tracks = DOMAIN intent.afterTracks
      <3>1. ~overwritten /\ (intent.afterRun.phase = "done" \/ DOMAIN tracks = DOMAIN intent.afterTracks)
        BY <1>2, <2>3
      <3>2. QED  BY <2>3, <3>1 DEF RecoveryInv, Sided
    <2>5. RunSided' /\ \A p \in Commands : pc'[p] # "awaiting"
      BY <2>3, <2>4 DEF RecoveryInv, Sided, RunSided, RunKnown
    <2>6. /\ IsTracksDoc(tracks)
          /\ DOMAIN tracks' = DOMAIN tracks
          /\ tracks'[t].state = "halted" /\ tracks'[t].dispatchId = tracks[t].dispatchId
          /\ \A u \in DOMAIN tracks : u # t => tracks'[u] = tracks[u]
      BY <1>2 DEF TypeOK, IsTracksDoc, Tracks
    <2>7. CASE intent.afterRun.phase = "done"
      <3>1. intent.afterTracks = NoTracks /\ NoLiveWorker(intent.beforeTracks)
        BY <2>3, <2>4, <2>7 DEF RecoveryInv, ClosesIdle
      <3>2. NoLiveWorker(tracks)
        <4>1. CASE tracks = intent.beforeTracks  BY <3>1, <4>1
        <4>2. CASE DOMAIN tracks = DOMAIN NoTracks  BY <1>2, <4>2 DEF NoTracks
        <4>3. QED  BY <2>4, <3>1, <4>1, <4>2 DEF TracksSided, SameTracks, Mergeable
      <3>3. NoLiveWorker(tracks)'  BY <2>6, <3>2 DEF NoLiveWorker, Alive
      <3>4. QED  BY <2>5, <2>7, <3>1, <3>3 DEF TracksSided
    <2>8. CASE intent.afterRun.phase # "done"
      <3>1. DOMAIN tracks = DOMAIN intent.afterTracks  BY <2>4, <2>8
      <3>2. \A u \in DOMAIN tracks : FromIntent(u) \/ HaltedSince(u)
        BY <2>4, <2>8, <3>1 DEF TracksSided, SameTracks, Mergeable, FromIntent
      <3>3. \A u \in DOMAIN tracks : u # t => FromIntent(u)' \/ HaltedSince(u)'
        BY <2>6, <3>2 DEF FromIntent, HaltedSince
      <3>4. HaltedSince(t)'
        BY <1>2, <2>6, <3>1, <3>2 DEF FromIntent, HaltedSince
      <3>5. Mergeable'  BY <2>6, <3>1, <3>3, <3>4 DEF Mergeable
      <3>6. QED  BY <2>5, <3>5 DEF TracksSided
    <2>9. QED  BY <2>7, <2>8
  <1>3. QED  BY <1>1, <1>2 DEF MarkHalted

(* A write to run.json alone marks the intent it is written over.          *)
LEMMA WriteMarks ==
  ASSUME TypeOK, RecoveryInv, NEW next, WriteRunFile(next), UNCHANGED <<intent, published>>
  PROVE  ClosesIdle' /\ Sided' /\ NothingPending'
  <1>1. overwritten' = (overwritten \/ intent # NoIntent)  BY DEF WriteRunFile
  <1>2. CASE intent = NoIntent
    BY <1>1, <1>2 DEF RecoveryInv, NothingPending, ClosesIdle, Sided
  <1>3. CASE intent # NoIntent
    BY <1>1, <1>3 DEF NothingPending, ClosesIdle, Sided
  <1>4. QED  BY <1>2, <1>3

(* What is published removes tracks only when a run ends without workers.  *)
LEMMA ClosingBodies ==
  ASSUME TypeOK, NEW p \in Commands, Publishes(p)
  PROVE  /\ intent'.beforeRun = run /\ intent'.beforeTracks = tracks
         /\ intent'.afterRun.phase = "done" => intent'.afterTracks = NoTracks /\ NoLiveWorker(tracks)
         /\ job[p] # "entry" /\ pc[p] = "callback"
         /\ Goto(p, "pubTracks")
         /\ UNCHANGED <<run, tracks, published, overwritten, halt, live, tx, exec, locals>>
  <1>1. ASSUME NEW r, NEW d, Publish(p, r, d), pc[p] = "callback", job[p] # "entry",
               r.phase = "done" => d = NoTracks /\ NoLiveWorker(tracks)
        PROVE  /\ intent'.beforeRun = run /\ intent'.beforeTracks = tracks
               /\ intent'.afterRun.phase = "done" => intent'.afterTracks = NoTracks /\ NoLiveWorker(tracks)
               /\ job[p] # "entry" /\ pc[p] = "callback"
               /\ Goto(p, "pubTracks")
               /\ UNCHANGED <<run, tracks, published, overwritten, halt, live, tx, exec, locals>>
    BY <1>1 DEF Publish
  <1>2. CASE PublishDispatch(p)
    <2>1. [run EXCEPT !.phase = "dispatch-queued", !.updatedAt = clock].phase # "done"  BY DEF TypeOK, Runs
    <2>2. QED  BY <1>1, <1>2, <2>1 DEF PublishDispatch
  <1>3. CASE PublishPreview(p)
    <2>1. [run EXCEPT !.phase = "dry-run-preview", !.updatedAt = clock].phase # "done"  BY DEF TypeOK, Runs
    <2>2. QED  BY <1>1, <1>3, <2>1 DEF PublishPreview
  <1>4. CASE PublishClose(p) \/ PublishCloseRun(p)
    BY <1>1, <1>4 DEF PublishClose, PublishCloseRun, MayClose
  <1>5. CASE PublishRequeue(p)
    <2>1. PICK settled \in SUBSET DeadRunning, requeued \in SUBSET DeadRunning,
               next \in {run.phase} \cup (IF MayReturn THEN {"awaiting-plan-approval"} ELSE {}) :
            Publish(p, [run EXCEPT !.updatedAt = clock,
                                   !.phase = IF requeued # {} /\ next = "running" THEN "dispatch-queued" ELSE next],
                       [t \in DOMAIN tracks |->
                          IF t \in requeued THEN [tracks[t] EXCEPT !.state = "queued"]
                          ELSE IF t \in settled THEN [tracks[t] EXCEPT !.state = "settled"]
                          ELSE tracks[t]])
      BY <1>5 DEF PublishRequeue
    <2>2. pc[p] = "callback" /\ job[p] = "recover" /\ run.phase # "done"
      BY <1>5 DEF PublishRequeue, MayRecover, Terminal
    <2>3. [run EXCEPT !.updatedAt = clock,
                      !.phase = IF requeued # {} /\ next = "running" THEN "dispatch-queued" ELSE next].phase # "done"
      BY <2>2 DEF TypeOK, Runs
    <2>4. QED  BY <1>1, <2>1, <2>2, <2>3
  <1>6. QED  BY <1>2, <1>3, <1>4, <1>5 DEF Publishes

(* A command that ended or gave up holds nothing.                          *)
LEMMA ExecutorGivenUp ==
  ASSUME TypeOK, ExecutorHeld, NEW p \in Commands, End(p),
         exec' # exec => exec' = NoCommand /\ exec = p
  PROVE  ExecutorHeld'
  <1>1. pc'[p] = "idle" /\ job'[p] = "entry"  BY DEF End, Goto, Forget, TypeOK
  <1>2. \A q \in Commands \ {p} : pc'[q] = pc[q] /\ job'[q] = job[q]  BY DEF End, Goto, Forget, TypeOK
  <1>3. QED  BY <1>1, <1>2 DEF ExecutorHeld

LEMMA Ending ==
  ASSUME TypeOK, NEW p \in Commands, End(p)
  PROVE  \A q \in Commands :
           /\ pc'[q] = "awaiting" => pc[q] = "awaiting"
           /\ pc'[q] = "callback" => pc[q] = "callback"
  BY Ended

LEMMA Moving ==
  ASSUME TypeOK, NEW p \in Commands, NEW label \in Labels, Goto(p, label)
  PROVE  /\ label # "awaiting" => \A q \in Commands : pc'[q] = "awaiting" => pc[q] = "awaiting"
         /\ label # "callback" => \A q \in Commands : pc'[q] = "callback" => pc[q] = "callback"
  BY Moved

(* A step of a command that moves on within what it holds.                 *)
LEMMA ExecutorMoves ==
  ASSUME TypeOK, ExecutorHeld, NEW p \in Commands, NEW label \in Labels \ {"exec", "awaiting"},
         Goto(p, label), UNCHANGED <<exec, job>>
  PROVE  ExecutorHeld'
  BY Moved DEF ExecutorHeld

(* Steps that change no file, no intent and release no worker.             *)
LEMMA Quiet ==
  ASSUME RecoveryInv, ExecutorHeld', UNCHANGED files, live' \subseteq live,
         \A q \in Commands : /\ pc'[q] = "awaiting" => pc[q] = "awaiting"
                             /\ pc'[q] = "callback" => pc[q] = "callback"
  PROVE  RecoveryInv'
  <1>1. ClosesIdle' /\ Sided'  BY FilesKept DEF files
  <1>2. CallbackClean'  BY DEF files, RecoveryInv, CallbackClean
  <1>3. NothingPending'  BY DEF files, RecoveryInv, NothingPending
  <1>4. QED  BY <1>1, <1>2, <1>3 DEF RecoveryInv

(* The tracks a replay writes are still a side of the intent.              *)
LEMMA ReplayKeepsSides ==
  ASSUME HaltInv, RecoveryInv, NEW p \in Commands, ReplayTracks(p)
  PROVE  Sided'
  <1>1. /\ intent # NoIntent /\ RunKnown
        /\ tracks' = RecoveredTracks /\ UNCHANGED <<run, intent, overwritten>>
        /\ \A q \in Commands : pc'[q] = "awaiting" => pc[q] = "awaiting"
    BY Moving DEF ReplayTracks, HaltInv, WriterKnowsRun, Writing, InTransaction, Labels
  <1>2. RunKnown'  BY <1>1 DEF RunKnown
  <1>3. SameTracks' \/ Mergeable'
    <2>1. CASE SameTracks \/ ~Mergeable  BY <1>1, <2>1 DEF RecoveredTracks, SameTracks
    <2>2. CASE ~SameTracks /\ Mergeable
      <3>1. tracks' = [t \in DOMAIN tracks |-> IF FromIntent(t) THEN intent.afterTracks[t] ELSE tracks[t]]
        BY <1>1, <2>2 DEF RecoveredTracks
      <3>2. DOMAIN tracks' = DOMAIN intent'.afterTracks  BY <1>1, <2>2, <3>1 DEF Mergeable
      <3>3. ASSUME NEW t \in DOMAIN tracks PROVE FromIntent(t)' \/ HaltedSince(t)'
        <4>1. CASE FromIntent(t)  BY <1>1, <3>1, <3>3, <4>1 DEF FromIntent
        <4>2. CASE ~FromIntent(t)
          <5>1. HaltedSince(t)  BY <2>2, <3>3, <4>2 DEF Mergeable
          <5>2. tracks'[t] = tracks[t]  BY <3>1, <3>3, <4>2
          <5>3. QED  BY <1>1, <5>1, <5>2 DEF HaltedSince
        <4>3. QED  BY <4>1, <4>2
      <3>4. QED  BY <3>1, <3>2, <3>3 DEF Mergeable
    <2>3. QED  BY <2>1, <2>2
  <1>4. QED  BY <1>1, <1>2, <1>3 DEF RecoveryInv, Sided, RunSided, TracksSided

LEMMA RecoveryNext == HaltInv /\ RecoveryInv /\ [Next]_vars => RecoveryInv'
  <1> SUFFICES ASSUME HaltInv, RecoveryInv, [Next]_vars PROVE RecoveryInv'  OBVIOUS
  <1>0. /\ TypeOK /\ Locked /\ WriterKnowsRun
        /\ ExecutorHeld /\ CallbackClean /\ NothingPending /\ ClosesIdle /\ Sided
    BY DEF HaltInv, RecoveryInv
  <1>a. ASSUME NEW p \in Commands, NEW label \in Labels \ {"exec", "awaiting", "callback"},
               Goto(p, label), UNCHANGED <<files, live, exec, job>>
        PROVE  RecoveryInv'
    <2>1. ExecutorHeld'  BY <1>0, <1>a, ExecutorMoves
    <2>2. \A q \in Commands : /\ pc'[q] = "awaiting" => pc[q] = "awaiting"
                              /\ pc'[q] = "callback" => pc[q] = "callback"
      BY <1>0, <1>a, Moving
    <2>3. QED  BY <1>a, <2>1, <2>2, Quiet
  <1>b. ASSUME NEW p \in Commands, End(p), exec' # exec => exec' = NoCommand /\ exec = p,
               UNCHANGED <<files, live>>
        PROVE  RecoveryInv'
    <2>1. ExecutorHeld'  BY <1>0, <1>b, ExecutorGivenUp
    <2>2. QED  BY <1>0, <1>b, <2>1, Ending, Quiet
  <1>c. ASSUME NEW p \in Commands, ReleaseAll(p), UNCHANGED <<files, live>> PROVE RecoveryInv'
    BY <1>b, <1>c DEF ReleaseAll
  <1>d. ASSUME NEW next, WriteRunFile(next), UNCHANGED <<intent, published>>, ExecutorHeld',
               \A q \in Commands : pc'[q] = "callback" => pc[q] = "callback"
        PROVE  RecoveryInv'
    <2>1. ClosesIdle' /\ Sided' /\ NothingPending'  BY <1>0, <1>d, WriteMarks
    <2>2. CallbackClean'  BY <1>0, <1>d DEF CallbackClean
    <2>3. QED  BY <1>d, <2>1, <2>2 DEF RecoveryInv
  <1>e. ASSUME NEW p \in Commands, DropIntent, Goto(p, "callback"), UNCHANGED <<exec, job>>
        PROVE  RecoveryInv'
    <2>1. intent' = NoIntent /\ ~published' /\ ~overwritten'  BY <1>e DEF DropIntent
    <2>2. ExecutorHeld'  BY <1>0, <1>e, ExecutorMoves DEF Labels
    <2>3. QED  BY <2>1, <2>2 DEF RecoveryInv, CallbackClean, NothingPending, ClosesIdle, Sided
  <1>f. ASSUME NEW p \in Commands, NEW label \in Labels \ {"exec", "awaiting", "callback"},
               Goto(p, label), run' = intent.afterRun, intent # NoIntent,
               UNCHANGED <<tracks, intent, published, overwritten, live, exec, job>>
        PROVE  RecoveryInv'
    <2>1. ExecutorHeld'  BY <1>0, <1>f, ExecutorMoves
    <2>2. \A q \in Commands : /\ pc'[q] = "awaiting" => pc[q] = "awaiting"
                              /\ pc'[q] = "callback" => pc[q] = "callback"
      BY <1>0, <1>f, Moving
    <2>3. RunKnown'  BY <1>f DEF RunKnown
    <2>4. TracksSided' <=> TracksSided
      BY <1>f DEF TracksSided, SameTracks, Mergeable, FromIntent, HaltedSince, NoLiveWorker, Alive
    <2>5. Sided'  BY <1>0, <1>f, <2>2, <2>3, <2>4 DEF Sided, RunSided
    <2>6. ClosesIdle'  BY <1>0, <1>f DEF ClosesIdle, NoLiveWorker, Alive
    <2>7. QED  BY <1>0, <1>f, <2>1, <2>2, <2>5, <2>6 DEF RecoveryInv, CallbackClean, NothingPending
  <1>1. ASSUME NEW p \in Commands, Enter(p) PROVE RecoveryInv'
    BY <1>1, <1>a DEF Enter, locals, Labels
  <1>2. ASSUME NEW p \in Commands, LockTransaction(p) PROVE RecoveryInv'
    BY <1>2, <1>a DEF LockTransaction, locals, Labels
  <1>3. ASSUME NEW p \in Commands, NothingToRecover(p) PROVE RecoveryInv'
    <2>1. ExecutorHeld'  BY <1>0, <1>3, ExecutorMoves DEF NothingToRecover, locals, Labels
    <2>2. intent' = NoIntent /\ ~published' /\ ~overwritten'
      BY <1>0, <1>3 DEF NothingToRecover, files, NothingPending
    <2>3. QED  BY <2>1, <2>2 DEF RecoveryInv, CallbackClean, NothingPending, ClosesIdle, Sided
  <1>4. ASSUME NEW p \in Commands, BeginReplay(p) PROVE RecoveryInv'
    BY <1>4, <1>a DEF BeginReplay, locals, Labels
  <1>5. ASSUME NEW p \in Commands, Supersede(p) PROVE RecoveryInv'
    BY <1>5, <1>e DEF Supersede, locals
  <1>6. ASSUME NEW p \in Commands, Conflict(p) PROVE RecoveryInv'
    BY <1>6, <1>c DEF Conflict
  <1>7. ASSUME NEW p \in Commands, ReplayTracks(p) PROVE RecoveryInv'
    <2>1. ExecutorHeld'  BY <1>0, <1>7, ExecutorMoves DEF ReplayTracks, locals, Labels
    <2>2. \A q \in Commands : pc'[q] = "callback" => pc[q] = "callback"
      BY <1>0, <1>7, Moving DEF ReplayTracks, Labels
    <2>3. intent # NoIntent  BY <1>0, <1>7 DEF ReplayTracks, WriterKnowsRun, Writing, InTransaction
    <2>4. UNCHANGED <<intent, overwritten, live>>  BY <1>7 DEF ReplayTracks
    <2>5. ClosesIdle'  BY <1>0, <2>4 DEF ClosesIdle, NoLiveWorker, Alive
    <2>6. QED
      BY <1>0, <1>7, <2>1, <2>2, <2>3, <2>4, <2>5, ReplayKeepsSides DEF RecoveryInv, CallbackClean, NothingPending
  <1>8. ASSUME NEW p \in Commands, ReplayRun(p) PROVE RecoveryInv'
    BY <1>0, <1>8, <1>f DEF ReplayRun, WriterKnowsRun, Writing, InTransaction, locals, Labels
  <1>9. ASSUME NEW p \in Commands, ReplayDone(p) PROVE RecoveryInv'
    BY <1>9, <1>e DEF ReplayDone, locals
  <1>10. ASSUME NEW p \in Commands, Recovered(p) PROVE RecoveryInv'
    BY <1>10, <1>a DEF Recovered, locals, Labels
  <1>11. ASSUME NEW p \in Commands, Publishes(p) PROVE RecoveryInv'
    <2>1. /\ intent'.beforeRun = run /\ intent'.beforeTracks = tracks
          /\ intent'.afterRun.phase = "done" => intent'.afterTracks = NoTracks /\ NoLiveWorker(tracks)
          /\ job[p] # "entry" /\ pc[p] = "callback"
          /\ Goto(p, "pubTracks")
          /\ UNCHANGED <<run, tracks, published, overwritten, halt, live, tx, exec, locals>>
      BY <1>0, <1>11, ClosingBodies
    <2>2. intent' # NoIntent
      <3>1. PICK r \in Runs : \E d : IsTracksDoc(d) /\ Publish(p, r, d)  BY <1>0, <1>11, Bodies
      <3>2. QED  BY <1>0, <3>1, Published
    <2>3. intent = NoIntent /\ tx = p /\ exec = p
      BY <1>0, <2>1 DEF CallbackClean, Locked, InTransaction, ExecutorHeld
    <2>4. ExecutorHeld'  BY <1>0, <2>1, ExecutorMoves DEF locals, Labels
    <2>5. \A q \in Commands : pc'[q] # "callback" /\ pc'[q] # "awaiting"
      <3>1. pc'[p] = "pubTracks" /\ \A q \in Commands \ {p} : pc'[q] = pc[q]
        BY <1>0, <2>1, Moved DEF Labels
      <3>2. \A q \in Commands \ {p} : pc[q] # "callback" /\ pc[q] # "awaiting"
        BY <1>0, <2>3 DEF Locked, InTransaction, ExecutorHeld
      <3>3. QED  BY <3>1, <3>2
    <2>6. ClosesIdle'  BY <2>1 DEF ClosesIdle, NoLiveWorker, Alive
    <2>7. Sided'  BY <2>1, <2>5 DEF Sided, RunSided, TracksSided, RunKnown, SameTracks
    <2>8. QED  BY <2>2, <2>4, <2>5, <2>6, <2>7 DEF RecoveryInv, CallbackClean, NothingPending
  <1>12. ASSUME NEW p \in Commands, Reject(p) PROVE RecoveryInv'
    BY <1>12, <1>c DEF Reject
  <1>13. ASSUME NEW p \in Commands, WriteTracks(p) PROVE RecoveryInv'
    <2>1. ExecutorHeld'  BY <1>0, <1>13, ExecutorMoves DEF WriteTracks, locals, Labels
    <2>2. \A q \in Commands : /\ pc'[q] = "callback" => pc[q] = "callback"
                              /\ pc'[q] = "awaiting" => pc[q] = "awaiting"
      BY <1>0, <1>13, Moving DEF WriteTracks, Labels
    <2>3. intent # NoIntent  BY <1>0, <1>13 DEF WriteTracks, WriterKnowsRun, Writing, InTransaction
    <2>4. UNCHANGED <<run, intent, overwritten, live>> /\ tracks' = intent.afterTracks  BY <1>13 DEF WriteTracks
    <2>5. ClosesIdle'  BY <1>0, <2>4 DEF ClosesIdle, NoLiveWorker, Alive
    <2>6. Sided'  BY <1>0, <2>2, <2>4 DEF Sided, RunSided, RunKnown, TracksSided, SameTracks
    <2>7. QED  BY <1>0, <2>1, <2>2, <2>3, <2>4, <2>5, <2>6 DEF RecoveryInv, CallbackClean, NothingPending
  <1>14. ASSUME NEW p \in Commands, WriteRun(p) PROVE RecoveryInv'
    BY <1>0, <1>14, <1>f DEF WriteRun, WriterKnowsRun, Writing, InTransaction, locals, Labels
  <1>15. ASSUME NEW p \in Commands, RemoveIntent(p) PROVE RecoveryInv'
    <2>1. intent' = NoIntent /\ ~published' /\ ~overwritten'  BY <1>15 DEF RemoveIntent, DropIntent
    <2>2. ExecutorHeld'  BY <1>0, <1>15, ExecutorGivenUp DEF RemoveIntent, ReleaseAll
    <2>3. QED  BY <2>1, <2>2 DEF RecoveryInv, CallbackClean, NothingPending, ClosesIdle, Sided
  <1>16. ASSUME NEW p \in Commands, TakeExecutor(p) PROVE RecoveryInv'
    <2>1. /\ exec = NoCommand /\ exec' = p /\ UNCHANGED <<files, live, job>>
          /\ pc[p] = "ready" /\ Goto(p, "exec")
      BY <1>16 DEF TakeExecutor, locals
    <2>2. \A q \in Commands : pc[q] \notin {"exec", "awaiting"} /\ job[q] = "entry"
      BY <1>0, <2>1, NoCommandAssumption DEF ExecutorHeld
    <2>3. pc'[p] = "exec" /\ \A q \in Commands \ {p} : pc'[q] = pc[q]  BY <1>0, <2>1, Moved DEF Labels
    <2>4. ExecutorHeld'  BY <2>1, <2>2, <2>3 DEF ExecutorHeld
    <2>5. QED  BY <2>1, <2>3, <2>4, Quiet
  <1>17. ASSUME NEW p \in Commands, BeginTransaction(p) PROVE RecoveryInv'
    <2>1. /\ pc[p] = "exec" /\ Goto(p, "tx") /\ UNCHANGED <<files, live, exec>>
          /\ \A q \in Commands \ {p} : job'[q] = job[q]
      BY <1>0, <1>17 DEF BeginTransaction, TypeOK
    <2>2. pc'[p] = "tx" /\ \A q \in Commands \ {p} : pc'[q] = pc[q]  BY <1>0, <2>1, Moved DEF Labels
    <2>3. ExecutorHeld'  BY <1>0, <2>1, <2>2 DEF ExecutorHeld
    <2>4. QED  BY <2>1, <2>2, <2>3, Quiet
  <1>18. ASSUME NEW p \in Commands, ReadRun(p) PROVE RecoveryInv'
    BY <1>18, <1>a DEF ReadRun, Labels
  <1>19. ASSUME NEW p \in Commands, Transition(p) PROVE RecoveryInv'
    <2>1. ExecutorHeld'  BY <1>0, <1>19, ExecutorGivenUp DEF Transition
    <2>2. (\E next : WriteRunFile(next)) /\ UNCHANGED <<intent, published>>  BY <1>19 DEF Transition
    <2>3. \A q \in Commands : pc'[q] = "callback" => pc[q] = "callback"
      BY <1>0, <1>19, Ending DEF Transition
    <2>4. QED  BY <1>d, <2>1, <2>2, <2>3
  <1>20. ASSUME NEW p \in Commands, TransitionFails(p) PROVE RecoveryInv'
    BY <1>20, <1>b DEF TransitionFails
  <1>21. ASSUME NEW p \in Commands, SupersedePlan(p) PROVE RecoveryInv'
    <2>0. exec = p  BY <1>0, <1>21 DEF SupersedePlan, ExecutorHeld
    <2>1. ExecutorHeld'  BY <1>0, <1>21, <2>0, ExecutorGivenUp DEF SupersedePlan
    <2>2. (\E next : WriteRunFile(next)) /\ UNCHANGED <<intent, published>>  BY <1>21 DEF SupersedePlan
    <2>3. \A q \in Commands : pc'[q] = "callback" => pc[q] = "callback"
      BY <1>0, <1>21, Ending DEF SupersedePlan
    <2>4. QED  BY <1>d, <2>1, <2>2, <2>3
  <1>22. ASSUME NEW p \in Commands, StartWorkers(p) PROVE RecoveryInv'
    <2>1. /\ pc[p] = "exec" /\ Goto(p, "awaiting") /\ UNCHANGED <<intent, published, exec, job>>
          /\ \E next : WriteRunFile(next)
      BY <1>22 DEF StartWorkers
    <2>2. pc'[p] = "awaiting" /\ \A q \in Commands \ {p} : pc'[q] = pc[q]  BY <1>0, <2>1, Moved DEF Labels
    <2>3. ExecutorHeld'  BY <1>0, <2>1, <2>2 DEF ExecutorHeld
    <2>4. QED  BY <1>d, <2>1, <2>2, <2>3
  <1>23. ASSUME NEW p \in Commands, FinishWorkers(p) PROVE RecoveryInv'
    <2>0. exec = p  BY <1>0, <1>23 DEF FinishWorkers, ExecutorHeld
    <2>1. ExecutorHeld'  BY <1>0, <1>23, <2>0, ExecutorGivenUp DEF FinishWorkers
    <2>2. (\E next : WriteRunFile(next)) /\ UNCHANGED <<intent, published>>  BY <1>23 DEF FinishWorkers
    <2>3. \A q \in Commands : pc'[q] = "callback" => pc[q] = "callback"
      BY <1>0, <1>23, Ending DEF FinishWorkers
    <2>4. QED  BY <1>d, <2>1, <2>2, <2>3
  <1>24. ASSUME NEW p \in Commands, AppendHalt(p) PROVE RecoveryInv'
    BY <1>24, <1>a DEF AppendHalt, locals, Labels
  <1>25. ASSUME NEW p \in Commands, HaltRun(p) PROVE RecoveryInv'
    <2>1. CASE Terminal(run.phase)
      BY <1>25, <1>b, <2>1 DEF HaltRun, files
    <2>2. CASE ~Terminal(run.phase)
      <3>1. /\ Goto(p, "readTracks") /\ UNCHANGED <<tracks, intent, published, overwritten, live, exec, job>>
            /\ run' = [run EXCEPT !.phase = "halted", !.updatedAt = clock]
        BY <1>25, <2>2 DEF HaltRun, locals
      <3>2. Terminal(run'.phase)  BY <1>0, <3>1 DEF TypeOK, Runs, Terminal
      <3>3. ExecutorHeld'  BY <1>0, <3>1, ExecutorMoves DEF Labels
      <3>4. \A q \in Commands : /\ pc'[q] = "awaiting" => pc[q] = "awaiting"
                                /\ pc'[q] = "callback" => pc[q] = "callback"
        BY <1>0, <3>1, Moving DEF Labels
      <3>5. TracksSided' <=> TracksSided
        BY <3>1 DEF TracksSided, SameTracks, Mergeable, FromIntent, HaltedSince, NoLiveWorker, Alive
      <3>6. Sided'  BY <1>0, <3>1, <3>2, <3>4, <3>5 DEF Sided, RunSided
      <3>7. ClosesIdle'  BY <1>0, <3>1 DEF ClosesIdle, NoLiveWorker, Alive
      <3>8. QED  BY <1>0, <3>1, <3>3, <3>4, <3>6, <3>7 DEF RecoveryInv, CallbackClean, NothingPending
    <2>3. QED  BY <2>1, <2>2
  <1>26. ASSUME NEW p \in Commands, ReadTracks(p) PROVE RecoveryInv'
    BY <1>26, <1>a DEF ReadTracks, Labels
  <1>27. ASSUME NEW p \in Commands, HaltTracks(p) PROVE RecoveryInv'
    <2>1. (\E t : MarkHalted(t)) /\ UNCHANGED <<run, intent, live, published, exec, pc, job>>
      BY <1>27 DEF HaltTracks
    <2>2. ClosesIdle' /\ Sided' /\ NothingPending'  BY <1>0, <2>1, HaltKeepsSides
    <2>3. ExecutorHeld' /\ CallbackClean'  BY <1>0, <2>1 DEF ExecutorHeld, CallbackClean
    <2>4. QED  BY <2>2, <2>3 DEF RecoveryInv
  <1>28. ASSUME NEW p \in Commands, EndHalt(p) PROVE RecoveryInv'
    BY <1>28, <1>b DEF EndHalt
  <1>29. ASSUME NEW p \in Commands, Leave(p) PROVE RecoveryInv'
    BY <1>29, <1>c DEF Leave
  <1>30. ASSUME NEW p \in Commands, Crash(p) PROVE RecoveryInv'
    BY <1>30, <1>c DEF Crash
  <1>31. ASSUME NEW p \in Commands, NEW t \in Tasks, StartTrack(p, t) \/ SettleTrack(p, t)
         PROVE  RecoveryInv'
    <2>1. pc[p] = "awaiting" /\ UNCHANGED <<run, intent, published, overwritten, exec, pc, job>>
      BY <1>31 DEF StartTrack, SettleTrack, locals
    <2>2. intent = NoIntent \/ overwritten  BY <1>0, <2>1 DEF Sided
    <2>3. ExecutorHeld' /\ CallbackClean' /\ NothingPending'
      BY <1>0, <2>1 DEF ExecutorHeld, CallbackClean, NothingPending
    <2>4. ClosesIdle' /\ Sided'  BY <2>1, <2>2 DEF ClosesIdle, Sided
    <2>5. QED  BY <2>3, <2>4 DEF RecoveryInv
  <1>32. ASSUME NEW p \in Commands, NEW t \in Tasks, HaltTrack(p, t) PROVE RecoveryInv'
    <2>1. MarkHalted(t) /\ End(p) /\ UNCHANGED <<run, intent, live, published, exec>>
      BY <1>32 DEF HaltTrack
    <2>2. ClosesIdle' /\ Sided' /\ NothingPending'  BY <1>0, <2>1, HaltKeepsSides, Ending
    <2>3. ExecutorHeld'  BY <1>0, <2>1, ExecutorGivenUp
    <2>4. CallbackClean'  BY <1>0, <2>1, Ending DEF CallbackClean
    <2>5. QED  BY <2>2, <2>3, <2>4 DEF RecoveryInv
  <1>33. ASSUME NEW w \in live, WorkerExit(w) PROVE RecoveryInv'
    <2>1. live' \subseteq live /\ UNCHANGED <<files, exec, pc, job>>  BY <1>33 DEF WorkerExit, locals
    <2>2. ExecutorHeld'  BY <1>0, <2>1 DEF ExecutorHeld
    <2>3. QED  BY <2>1, <2>2, Quiet
  <1>34. CASE UNCHANGED vars
    <2>1. UNCHANGED <<files, live, exec, pc, job>>  BY <1>34 DEF vars, files
    <2>2. ExecutorHeld'  BY <1>0, <2>1 DEF ExecutorHeld
    <2>3. QED  BY <2>1, <2>2, Quiet
  <1>35. QED
    BY <1>1, <1>2, <1>3, <1>4, <1>5, <1>6, <1>7, <1>8, <1>9, <1>10, <1>11, <1>12, <1>13, <1>14, <1>15, <1>16, <1>17, <1>18,
       <1>19, <1>20, <1>21, <1>22, <1>23, <1>24, <1>25, <1>26, <1>27, <1>28, <1>29, <1>30, <1>31, <1>32, <1>33, <1>34
    DEF Next, Recovery, Publication, SingleFile, Publishes

(* Whatever command died between which two writes, and whichever tracks and *)
(* run were halted since, the next command can replay the intent or drop   *)
(* it: a pending transaction never blocks the run for good.                *)
THEOREM PendingIsRecoverable == Spec => []RecoverableUntilOverwritten
  <1>1. RecoveryInv => RecoverableUntilOverwritten
    <2> SUFFICES ASSUME RecoveryInv, intent # NoIntent, ~overwritten PROVE Recoverable \/ Superseded
      BY DEF RecoverableUntilOverwritten, Pending
    <2>1. RunSided /\ TracksSided  BY DEF RecoveryInv, Sided
    <2>2. CASE RunKnown  BY <2>1, <2>2 DEF TracksSided, Recoverable, TracksKnown, Closeable
    <2>3. CASE ~RunKnown  BY <2>1, <2>3 DEF RunSided, Superseded
    <2>4. QED  BY <2>2, <2>3
  <1>2. QED  BY InitHolds, StepHolds, RecoveryInit, RecoveryNext, <1>1, PTL DEF Spec

----------------------------------------------------------------------------
(* The protocol implements the atomic store, when single-file writers of   *)
(* run.json wait for a pending intent.                                     *)

(* Every version of run.json and every dispatch has a stamp of its own.    *)
Older(doc) == \A t \in DOMAIN doc : doc[t].dispatchId < clock
Stamped ==
  /\ run.updatedAt < clock
  /\ \A p \in Commands : snap[p].updatedAt < clock
  /\ Older(tracks)
  /\ intent # NoIntent =>
       /\ intent.beforeRun.updatedAt < clock
       /\ 0 < intent.afterRun.updatedAt /\ intent.afterRun.updatedAt < clock
       /\ Older(intent.afterTracks)

(* A command has a transaction body only on its way through a transaction, *)
(* and the writes of a publication follow one another.                     *)
Writes == {"pubTracks", "pubRun", "pubDone"}
StagedAt(p) ==
  /\ job[p] # "entry" => pc[p] \in InTransaction \cup {"tx"}
  /\ pc[p] \in Writes => job[p] # "entry"
  /\ pc[p] \in {"pubRun", "pubDone", "replayRun", "replayDone"} => published
  /\ pc[p] = "pubTracks" => ~published /\ tracks = intent.beforeTracks
  /\ pc[p] \in {"pubDone", "replayDone"} => run = intent.afterRun
  /\ pc[p] = "replayTracks" => TracksKnown
Staged == \A p \in Commands : StagedAt(p)

(* What an intent takes the store from and to: one of its operations.      *)
DispatchIntent(i) ==
  /\ i.beforeRun.phase = "plan-approved" /\ i.afterRun.phase = "dispatch-queued"
  /\ i.afterRun.plan = i.beforeRun.plan
  /\ NoLiveWorker(i.beforeTracks)
  /\ DOMAIN i.afterTracks = i.beforeRun.plan
  /\ \A t \in DOMAIN i.afterTracks :
       /\ i.afterTracks[t].state = "queued"
       /\ t \in DOMAIN i.beforeTracks => i.afterTracks[t].dispatchId > i.beforeTracks[t].dispatchId

PreviewIntent(i) ==
  /\ i.beforeRun.phase = "dispatch-queued" /\ i.afterRun.phase = "dry-run-preview"
  /\ i.afterRun.plan = i.beforeRun.plan
  /\ DOMAIN i.afterTracks = DOMAIN i.beforeTracks
  /\ \A t \in DOMAIN i.afterTracks :
       \/ i.afterTracks[t] = i.beforeTracks[t]
       \/ /\ i.beforeTracks[t].state \in {"queued", "halted"}
          /\ i.afterTracks[t] = [i.beforeTracks[t] EXCEPT !.state = "preview"]

RecoverIntent(i) ==
  /\ ~Terminal(i.beforeRun.phase)
  /\ i.afterRun.plan = i.beforeRun.plan
  /\ \/ i.afterRun.phase \in {i.beforeRun.phase, "dispatch-queued"}
     \/ /\ i.beforeRun.phase \in {"plan-approved", "dispatch-queued", "running"}
        /\ i.afterRun.phase = "awaiting-plan-approval"
        /\ NoLiveWorker(i.beforeTracks)
  /\ DOMAIN i.afterTracks = DOMAIN i.beforeTracks
  /\ \A t \in DOMAIN i.afterTracks :
       \/ i.afterTracks[t] = i.beforeTracks[t]
       \/ /\ i.beforeTracks[t].state = "running" /\ ~Alive(i.beforeTracks, t)
          /\ \E s \in {"queued", "settled"} : i.afterTracks[t] = [i.beforeTracks[t] EXCEPT !.state = s]

CloseIntent(i) ==
  i.afterRun.phase = "done" /\ i.afterTracks = NoTracks /\ NoLiveWorker(i.beforeTracks)

OneOperation ==
  intent # NoIntent =>
    DispatchIntent(intent) \/ PreviewIntent(intent) \/ RecoverIntent(intent) \/ CloseIntent(intent)

(* Under an intent tracks are only halted: before its tracks.json is        *)
(* written, and after, when what the replay kept differs from both sides.  *)
HaltOf(old, new) == old.state \in {"queued", "running"} /\ new = [old EXCEPT !.state = "halted"]
Unpublished ==
  intent # NoIntent /\ ~published =>
    /\ run = intent.beforeRun \/ run.phase = "halted"
    /\ run # intent.afterRun
    /\ \A p \in Commands : snap[p] # intent.afterRun
    /\ DOMAIN tracks = DOMAIN intent.beforeTracks
    /\ \A t \in DOMAIN tracks :
         tracks[t] = intent.beforeTracks[t] \/ HaltOf(intent.beforeTracks[t], tracks[t])
Announced ==
  intent # NoIntent /\ published =>
    /\ DOMAIN tracks = DOMAIN intent.afterTracks
    /\ \A t \in DOMAIN tracks :
         \/ tracks[t] = intent.afterTracks[t]
         \/ HaltedSince(t) /\ (t \in DOMAIN intent.beforeTracks => tracks[t] # intent.beforeTracks[t])

(* An executor waits for workers over its own run, unless it was halted.   *)
AwaitedAt(p) ==
  pc[p] = "awaiting" => intent = NoIntent /\ (Terminal(run.phase) \/ (run = snap[p] /\ run.phase = "running"))
Awaited == \A p \in Commands : AwaitedAt(p)

(* The tracks a preview read as queued are that, or halted, as long as the *)
(* run is the one it read.                                                 *)
PreviewAt(p) ==
  pc[p] \notin Writes /\ job[p] = "preview" /\ LogicalRun = snap[p] =>
    \A t \in todo[p] \cap DOMAIN tracks : tracks[t].state \in {"queued", "halted"}
PreviewHolds == \A p \in Commands : PreviewAt(p)

StoreInv ==
  /\ Stamped /\ Staged /\ OneOperation /\ Unpublished /\ Announced /\ Awaited /\ PreviewHolds

LEMMA StoreInitially == Init => StoreInv
  <1> SUFFICES ASSUME Init PROVE StoreInv  OBVIOUS
  <1>1. Stamped  BY DEF Init, Stamped, Unread, Older, NoTracks
  <1>2. Staged  BY DEF Init, Staged, StagedAt, Writes
  <1>3. OneOperation /\ Unpublished /\ Announced  BY DEF Init, OneOperation, Unpublished, Announced
  <1>4. Awaited /\ PreviewHolds  BY DEF Init, Awaited, AwaitedAt, PreviewHolds, PreviewAt
  <1>5. QED  BY <1>1, <1>2, <1>3, <1>4 DEF StoreInv

(* What an intent does stays possible while workers only end.              *)
LEMMA OperationStays ==
  ASSUME OneOperation, UNCHANGED intent, live' \subseteq live
  PROVE  OneOperation'
  <1> SUFFICES ASSUME intent # NoIntent PROVE OneOperation'  BY DEF OneOperation
  <1>1. \A doc : NoLiveWorker(doc) => NoLiveWorker(doc)'  BY DEF NoLiveWorker, Alive
  <1>2. \A doc, t : ~Alive(doc, t) => ~Alive(doc, t)'  BY DEF Alive
  <1>3. NoLiveWorker(intent.beforeTracks) => NoLiveWorker(intent.beforeTracks)'
    BY DEF NoLiveWorker, Alive
  <1>4. CASE DispatchIntent(intent)
    BY <1>3, <1>4 DEF DispatchIntent, OneOperation
  <1>5. CASE PreviewIntent(intent)
    BY <1>5 DEF PreviewIntent, OneOperation
  <1>6. CASE RecoverIntent(intent)
    <2>1. \A t : ~Alive(intent.beforeTracks, t) => ~Alive(intent.beforeTracks, t)'  BY DEF Alive
    <2>2. RecoverIntent(intent)'  BY <1>3, <1>6, <2>1 DEF RecoverIntent
    <2>3. QED  BY <2>2 DEF OneOperation
  <1>7. CASE CloseIntent(intent)
    BY <1>3, <1>7 DEF CloseIntent, OneOperation
  <1>8. QED  BY <1>4, <1>5, <1>6, <1>7 DEF OneOperation

LEMMA KnownStays ==
  ASSUME TracksKnown, UNCHANGED <<run, tracks, intent>>, live' \subseteq live
  PROVE  TracksKnown'
  BY DEF TracksKnown, SameTracks, Mergeable, FromIntent, HaltedSince, Closeable, RunKnown, NoLiveWorker, Alive

(* Where the commands stand that a step does not move.                     *)
LEMMA StagedStill ==
  ASSUME NEW q, StagedAt(q), pc'[q] = pc[q], job'[q] = job[q],
         UNCHANGED <<run, tracks, intent, published>>, live' \subseteq live
  PROVE  StagedAt(q)'
  BY KnownStays DEF StagedAt

LEMMA StagedOutside ==
  ASSUME NEW q, StagedAt(q), pc'[q] = pc[q], job'[q] = job[q], pc[q] \notin InTransaction
  PROVE  StagedAt(q)'
  BY DEF StagedAt, InTransaction, Writes

(* A step that changes neither files nor clock and lets workers only end.  *)
Reads(q) ==
  /\ snap'[q] \in {snap[q], Unread, run}
  /\ pc'[q] = "awaiting" => pc[q] = "awaiting" /\ snap'[q] = snap[q]
  /\ job'[q] = "preview" /\ pc'[q] \notin Writes =>
       \/ job[q] = "preview" /\ pc[q] \notin Writes /\ snap'[q] = snap[q] /\ todo'[q] = todo[q]
       \/ todo'[q] \subseteq Queued

LEMMA QuietKeepsStore ==
  ASSUME TypeOK, StoreInv, UNCHANGED <<files, clock>>, live' \subseteq live, Staged',
         \A q \in Commands : Reads(q)
  PROVE  StoreInv'
  <1>1. UNCHANGED <<run, tracks, intent, published, overwritten>>  BY DEF files
  <1>2. Stamped'
    <2>1. 0 < clock  BY DEF TypeOK, StoreInv, Stamped, Runs
    <2>2. ASSUME NEW q \in Commands PROVE snap'[q].updatedAt < clock
      <3>1. snap[q].updatedAt < clock /\ run.updatedAt < clock /\ Unread.updatedAt = 0
        BY DEF StoreInv, Stamped, Unread
      <3>2. QED  BY <2>1, <2>2, <3>1 DEF Reads
    <2>3. QED  BY <1>1, <2>2 DEF StoreInv, Stamped, Older
  <1>3. OneOperation'  BY <1>1, OperationStays DEF StoreInv
  <1>4. Unpublished'
    <2> SUFFICES ASSUME intent # NoIntent, ~published, NEW q \in Commands PROVE snap'[q] # intent.afterRun
      BY <1>1 DEF StoreInv, Unpublished
    <2>1. 0 < intent.afterRun.updatedAt /\ run # intent.afterRun /\ snap[q] # intent.afterRun
      BY DEF StoreInv, Stamped, Unpublished
    <2>2. Unread.updatedAt = 0  BY DEF Unread
    <2>3. QED  BY <2>1, <2>2 DEF Reads
  <1>5. Announced'  BY <1>1 DEF StoreInv, Announced, HaltedSince
  <1>6. Awaited'  BY <1>1 DEF StoreInv, Awaited, AwaitedAt, Reads
  <1>7. PreviewHolds'
    <2> SUFFICES ASSUME NEW q \in Commands PROVE PreviewAt(q)'  BY DEF PreviewHolds
    <2>1. LogicalRun' = LogicalRun  BY <1>1 DEF LogicalRun
    <2>2. CASE job[q] = "preview" /\ pc[q] \notin Writes /\ snap'[q] = snap[q] /\ todo'[q] = todo[q]
      BY <1>1, <2>1, <2>2 DEF StoreInv, PreviewHolds, PreviewAt
    <2>3. CASE todo'[q] \subseteq Queued
      BY <1>1, <2>3 DEF PreviewAt, Queued
    <2>4. QED  BY <2>2, <2>3 DEF Reads, PreviewAt
  <1>8. QED  BY <1>2, <1>3, <1>4, <1>5, <1>6, <1>7 DEF StoreInv

(* What a step of one command leaves to the others.                        *)
LEMMA OthersRead ==
  ASSUME NEW q, pc'[q] = pc[q], UNCHANGED <<job[q], snap[q], todo[q]>>
  PROVE  Reads(q)
  BY DEF Reads

(* A command that moves on within what it holds, without a new read.       *)
LEMMA MoveKeepsStore ==
  ASSUME TypeOK, StoreInv, NEW p \in Commands, NEW label \in Labels \ ({"awaiting"} \cup Writes),
         Goto(p, label), pc[p] \notin Writes, UNCHANGED <<files, locals, clock>>, live' \subseteq live,
         job[p] # "entry" => label \in InTransaction \cup {"tx"},
         label \notin {"replayRun", "replayDone"},
         label = "replayTracks" => TracksKnown
  PROVE  StoreInv'
  <1>1. pc'[p] = label /\ \A q \in Commands \ {p} : pc'[q] = pc[q]  BY Moved
  <1>2. UNCHANGED <<run, tracks, intent, published, job, snap, todo>>  BY DEF files, locals
  <1>3. \A q \in Commands : Reads(q)
    <2>1. Reads(p)  BY <1>1, <1>2 DEF Reads
    <2>2. QED  BY <1>1, <1>2, <2>1, OthersRead
  <1>4. ASSUME NEW q \in Commands PROVE StagedAt(q)'
    <2>1. CASE q = p
      <3>1. label = "replayTracks" => TracksKnown'  BY <1>2, KnownStays
      <3>2. QED  BY <1>1, <1>2, <2>1, <3>1 DEF StagedAt, Writes
    <2>2. CASE q # p  BY <1>1, <1>2, <1>4, <2>2, StagedStill DEF StoreInv, Staged
    <2>3. QED  BY <2>1, <2>2
  <1>5. Staged'  BY <1>4 DEF Staged
  <1>6. QED  BY <1>3, <1>5, QuietKeepsStore

LEMMA EndKeepsStore ==
  ASSUME TypeOK, StoreInv, NEW p \in Commands, End(p), UNCHANGED <<files, live, clock>>
  PROVE  StoreInv'
  <1>1. /\ pc'[p] = "idle" /\ job'[p] = "entry" /\ snap'[p] = Unread /\ todo'[p] = {}
        /\ \A q \in Commands \ {p} : pc'[q] = pc[q] /\ UNCHANGED <<job[q], snap[q], todo[q]>>
    BY DEF TypeOK, End, Goto, Forget
  <1>2. UNCHANGED <<run, tracks, intent, published>>  BY DEF files
  <1>3. \A q \in Commands : Reads(q)
    <2>1. Reads(p)  BY <1>1 DEF Reads
    <2>2. QED  BY <1>1, <2>1, OthersRead
  <1>4. ASSUME NEW q \in Commands PROVE StagedAt(q)'
    <2>1. CASE q = p  BY <1>1, <2>1 DEF StagedAt, Writes
    <2>2. CASE q # p  BY <1>1, <1>2, <1>4, <2>2, StagedStill DEF StoreInv, Staged
    <2>3. QED  BY <2>1, <2>2
  <1>5. Staged'  BY <1>4 DEF Staged
  <1>6. QED  BY <1>3, <1>5, QuietKeepsStore

(* Single-file writers of run.json that wait for a pending intent.         *)
LEMMA RunWriteKeepsStore ==
  ASSUME Patient, HaltInv, NothingPending, StoreInv, NEW next \in Runs, WriteRunFile(next),
         UNCHANGED <<tracks, intent, published, live>>,
         NEW p \in Commands, pc[p] \in {"cas", "exec", "awaiting"},
         \A q \in Commands \ {p} : pc'[q] = pc[q] /\ UNCHANGED <<job[q], snap[q], todo[q]>>,
         job'[p] = "entry", pc'[p] \in {"idle", "awaiting"},
         snap'[p] \in {Unread, run'},
         pc'[p] = "awaiting" => snap'[p] = run' /\ run'.phase = "running",
         \A q \in Commands \ {p} : pc[q] # "awaiting"
  PROVE  StoreInv'
  <1>1. /\ intent = NoIntent /\ intent' = NoIntent /\ ~published /\ ~published'
        /\ tx = NoCommand /\ clock' = clock + 1
        /\ run' \in Runs /\ run'.updatedAt = clock
    BY DEF WriteRunFile, Tick, NothingPending, HaltInv, TypeOK, Runs
  <1>2. clock \in Nat /\ 0 < clock  BY DEF HaltInv, TypeOK, StoreInv, Stamped, Runs
  <1>3. Stamped'
    <2>1. ASSUME NEW q \in Commands PROVE snap'[q].updatedAt < clock'
      <3>1. snap[q].updatedAt < clock /\ snap[q].updatedAt \in Nat /\ Unread.updatedAt = 0
        BY DEF StoreInv, Stamped, Unread, HaltInv, TypeOK, Runs
      <3>2. QED  BY <1>1, <1>2, <3>1
    <2>2. ASSUME NEW t \in DOMAIN tracks PROVE tracks[t].dispatchId < clock'
      <3>1. tracks[t].dispatchId < clock /\ tracks[t].dispatchId \in Nat
        BY <2>2 DEF StoreInv, Stamped, Older, HaltInv, TypeOK, IsTracksDoc, Tracks
      <3>2. QED  BY <1>1, <1>2, <3>1
    <2>3. QED  BY <1>1, <1>2, <2>1, <2>2 DEF Stamped, Older
  <1>4. Staged'
    <2>1. \A q \in Commands : pc[q] \notin InTransaction
      BY <1>1, NoCommandAssumption DEF HaltInv, Locked
    <2>2. QED  BY <2>1, StagedOutside DEF StoreInv, Staged, StagedAt, Writes
  <1>5. OneOperation' /\ Unpublished' /\ Announced'  BY <1>1 DEF OneOperation, Unpublished, Announced
  <1>6. Awaited'  BY <1>1 DEF Awaited, AwaitedAt
  <1>7. PreviewHolds'
    <2> SUFFICES ASSUME NEW q \in Commands, job'[q] = "preview", LogicalRun' = snap'[q] PROVE FALSE
      BY DEF PreviewHolds, PreviewAt
    <2>1. LogicalRun' = run'  BY <1>1 DEF LogicalRun
    <2>2. snap'[q].updatedAt < clock
      BY DEF StoreInv, Stamped
    <2>3. QED  BY <1>1, <1>2, <2>1, <2>2
  <1>8. QED  BY <1>3, <1>4, <1>5, <1>6, <1>7 DEF StoreInv

(* The end of a publication, a replay or a superseded transaction.         *)
LEMMA DropKeepsStore ==
  ASSUME HaltInv, StoreInv, NEW p \in Commands, DropIntent, pc[p] \in InTransaction, pc[p] \notin {"pubTracks", "pubRun"},
         UNCHANGED <<run, tracks, live, clock>>, LogicalRun = run,
         \/ Goto(p, "callback") /\ UNCHANGED locals /\ pc[p] \notin Writes
         \/ End(p)
  PROVE  StoreInv'
  <1>1. intent' = NoIntent /\ ~published'  BY DEF DropIntent
  <1>2. /\ pc'[p] \in {"callback", "idle"}
        /\ \A q \in Commands \ {p} : pc'[q] = pc[q] /\ UNCHANGED <<job[q], snap[q], todo[q]>>
        /\ pc'[p] = "callback" => pc[p] \notin Writes /\ UNCHANGED <<job[p], snap[p], todo[p]>>
        /\ pc'[p] = "idle" => job'[p] = "entry" /\ snap'[p] = Unread
    BY DEF HaltInv, TypeOK, End, Goto, Forget, locals
  <1>3. Stamped'
    <2>1. 0 < clock  BY DEF HaltInv, TypeOK, StoreInv, Stamped, Runs
    <2>2. Unread.updatedAt = 0  BY DEF Unread
    <2>3. QED  BY <1>1, <1>2, <2>1, <2>2 DEF StoreInv, Stamped, Older
  <1>4. Staged'
    <2>1. StagedAt(p)'  BY <1>2 DEF StagedAt, InTransaction, Writes
    <2>2. \A q \in Commands \ {p} : pc[q] \notin InTransaction  BY DEF HaltInv, Locked
    <2>3. QED  BY <1>2, <2>1, <2>2, StagedOutside DEF StoreInv, Staged
  <1>5. OneOperation' /\ Unpublished' /\ Announced'  BY <1>1 DEF OneOperation, Unpublished, Announced
  <1>6. Awaited'  BY <1>1, <1>2 DEF StoreInv, Awaited, AwaitedAt
  <1>7. PreviewHolds'
    <2> SUFFICES ASSUME NEW q \in Commands PROVE PreviewAt(q)'  BY DEF PreviewHolds
    <2>1. LogicalRun' = LogicalRun  BY <1>1 DEF LogicalRun
    <2>2. QED  BY <1>2, <2>1 DEF StoreInv, PreviewHolds, PreviewAt
  <1>8. QED  BY <1>3, <1>4, <1>5, <1>6, <1>7 DEF StoreInv

(* The write of run.json, by the author or by a replay.                    *)
LEMMA RunPublishedKeepsStore ==
  ASSUME HaltInv, StoreInv, ExecutorHeld, NEW p \in Commands,
         NEW to, <<pc[p], to>> \in {<<"pubRun", "pubDone">>, <<"replayRun", "replayDone">>},
         run' = intent.afterRun, Goto(p, to), UNCHANGED <<tracks, intent, published, live, clock, locals>>
  PROVE  StoreInv'
  <1>1. /\ pc[p] \in {"pubRun", "replayRun"} /\ to \in Labels /\ pc'[p] = to
        /\ \A q \in Commands \ {p} : pc'[q] = pc[q]
        /\ UNCHANGED <<job, snap, todo>>
    BY DEF HaltInv, TypeOK, Goto, Labels, locals
  <1>2. /\ intent # NoIntent /\ RunKnown /\ published /\ tx = p
        /\ \A q \in Commands : pc[q] # "awaiting"
    BY <1>1 DEF HaltInv, WriterKnowsRun, Locked, Writing, InTransaction, StoreInv, Staged, StagedAt, Awaited, AwaitedAt
  <1>3. LogicalRun = intent.afterRun /\ LogicalRun' = intent.afterRun
    BY <1>2 DEF LogicalRun, RunKnown
  <1>4. Stamped'  BY <1>1, <1>2 DEF StoreInv, Stamped, Older
  <1>5. Staged'
    <2>1. StagedAt(p)'  BY <1>1, <1>2 DEF StoreInv, Staged, StagedAt, InTransaction, Writes
    <2>2. \A q \in Commands \ {p} : pc[q] \notin InTransaction  BY <1>2 DEF HaltInv, Locked
    <2>3. QED  BY <1>1, <2>1, <2>2, StagedOutside DEF StoreInv, Staged
  <1>6. OneOperation'  BY OperationStays DEF StoreInv
  <1>7. Unpublished' /\ Announced'  BY <1>2 DEF StoreInv, Unpublished, Announced, HaltedSince
  <1>8. Awaited'  BY <1>1, <1>2 DEF Awaited, AwaitedAt
  <1>9. PreviewHolds'
    <2> SUFFICES ASSUME NEW q \in Commands PROVE PreviewAt(q)'  BY DEF PreviewHolds
    <2>1. pc'[q] \notin Writes => pc[q] \notin Writes  BY <1>1 DEF Writes
    <2>2. QED  BY <1>1, <1>3, <2>1 DEF StoreInv, PreviewHolds, PreviewAt
  <1>10. QED  BY <1>4, <1>5, <1>6, <1>7, <1>8, <1>9 DEF StoreInv

(* intervene halt-run ends the run on disk, whatever was announced.         *)
LEMMA HaltRunKeepsStore ==
  ASSUME HaltInv, StoreInv, NEW p \in Commands, HaltRun(p), ~Terminal(run.phase)
  PROVE  StoreInv'
  <1>1. /\ pc[p] = "haltRun" /\ tx = NoCommand /\ clock' = clock + 1
        /\ run' = [run EXCEPT !.phase = "halted", !.updatedAt = clock]
        /\ Goto(p, "readTracks") /\ UNCHANGED <<locals, tracks, intent, published, overwritten, live>>
    BY DEF HaltRun, Tick
  <1>2. /\ run' \in Runs /\ run'.phase = "halted" /\ run'.updatedAt = clock /\ clock \in Nat
    BY <1>1 DEF HaltInv, TypeOK, Runs, Phases
  <1>3. /\ pc'[p] = "readTracks" /\ \A q \in Commands \ {p} : pc'[q] = pc[q]
        /\ UNCHANGED <<job, snap, todo>>
    BY <1>1, Moved DEF HaltInv, Labels, locals
  <1>4. Stamped'
    <2>1. ASSUME NEW q \in Commands PROVE snap'[q].updatedAt < clock'
      <3>1. snap[q].updatedAt < clock /\ snap[q].updatedAt \in Nat
        BY DEF StoreInv, Stamped, HaltInv, TypeOK, Runs
      <3>2. QED  BY <1>1, <1>2, <1>3, <3>1
    <2>2. ASSUME NEW doc, IsTracksDoc(doc), Older(doc) PROVE Older(doc)'
      <3>1. \A t \in DOMAIN doc : doc[t].dispatchId < clock /\ doc[t].dispatchId \in Nat
        BY <2>2 DEF IsTracksDoc, Tracks, Older
      <3>2. \A t \in DOMAIN doc : doc[t].dispatchId < clock'  BY <1>1, <1>2, <3>1
      <3>3. QED  BY <3>2 DEF Older
    <2>3. Older(tracks)'
      BY <1>1, <2>2 DEF HaltInv, TypeOK, StoreInv, Stamped, Older
    <2>4. ASSUME intent # NoIntent
          PROVE  /\ intent.beforeRun.updatedAt < clock'
                 /\ 0 < intent.afterRun.updatedAt /\ intent.afterRun.updatedAt < clock' /\ Older(intent.afterTracks)'
      <3>1. /\ intent.beforeRun.updatedAt < clock /\ intent.beforeRun.updatedAt \in Nat
            /\ 0 < intent.afterRun.updatedAt /\ intent.afterRun.updatedAt < clock
            /\ intent.afterRun.updatedAt \in Nat
            /\ IsTracksDoc(intent.afterTracks) /\ Older(intent.afterTracks)
        BY <2>4 DEF HaltInv, TypeOK, IsIntent, StoreInv, Stamped, Runs
      <3>2. Older(intent.afterTracks)'  BY <1>1, <2>2, <3>1 DEF Older
      <3>3. QED  BY <1>1, <1>2, <3>1, <3>2
    <2>5. run'.updatedAt < clock'  BY <1>1, <1>2
    <2>6. QED  BY <1>1, <2>1, <2>3, <2>4, <2>5 DEF Stamped, Older
  <1>5. Staged'
    <2>1. \A q \in Commands : pc[q] \notin InTransaction
      BY <1>1, NoCommandAssumption DEF HaltInv, Locked
    <2>2. job[p] = "entry"  BY <1>1 DEF StoreInv, Staged, StagedAt, InTransaction
    <2>3. StagedAt(p)'  BY <1>3, <2>2 DEF StagedAt, Writes
    <2>4. QED  BY <1>3, <2>1, <2>3, StagedOutside DEF StoreInv, Staged
  <1>6. OneOperation'  BY <1>1, OperationStays DEF StoreInv
  <1>7. Unpublished'
    BY <1>1, <1>2, <1>3 DEF StoreInv, Unpublished, HaltInv, IntentRespectsHalt
  <1>8. Announced'  BY <1>1 DEF StoreInv, Announced, HaltedSince
  <1>9. Awaited'  BY <1>1, <1>2, <1>3 DEF StoreInv, Awaited, AwaitedAt, Terminal
  <1>10. PreviewHolds'
    <2> SUFFICES ASSUME NEW q \in Commands, job'[q] = "preview", LogicalRun' = snap'[q],
                        pc'[q] \notin Writes
                 PROVE  \A t \in todo'[q] \cap DOMAIN tracks' : tracks'[t].state \in {"queued", "halted"}
      BY DEF PreviewHolds, PreviewAt
    <2>1. CASE LogicalRun' = run'
      <3>1. snap'[q].updatedAt < clock  BY <1>3 DEF StoreInv, Stamped
      <3>2. QED  BY <1>2, <2>1, <3>1
    <2>2. CASE LogicalRun' # run'
      <3>1. intent # NoIntent /\ published /\ run' = intent.beforeRun  BY <1>1, <2>2 DEF LogicalRun
      <3>2. intent.beforeRun.updatedAt < clock  BY <3>1 DEF StoreInv, Stamped
      <3>3. QED  BY <1>2, <3>1, <3>2
    <2>3. QED  BY <2>1, <2>2
  <1>11. QED  BY <1>4, <1>5, <1>6, <1>7, <1>8, <1>9, <1>10 DEF StoreInv

(* Under the lock-free halts nothing but halts happens to the tracks.      *)
LEMMA HaltTrackKeepsStore ==
  ASSUME HaltInv, StoreInv, NEW t, MarkHalted(t), UNCHANGED <<run, intent, published, live, clock>>,
         Staged', \A q \in Commands : Reads(q) /\ snap'[q] \in {snap[q], Unread},
         \A q \in Commands : job'[q] = "preview" /\ pc'[q] \notin Writes =>
           job[q] = "preview" /\ pc[q] \notin Writes /\ snap'[q] = snap[q] /\ todo'[q] \subseteq todo[q]
  PROVE  StoreInv'
  <1>0. IsTracksDoc(tracks)  BY DEF HaltInv, TypeOK
  <1>1. /\ DOMAIN tracks' = DOMAIN tracks
        /\ \A u \in DOMAIN tracks : tracks'[u] = tracks[u] \/ HaltOf(tracks[u], tracks'[u])
    BY <1>0 DEF MarkHalted, HaltOf, IsTracksDoc, Tracks
  <1>2. \A u \in DOMAIN tracks : tracks'[u].dispatchId = tracks[u].dispatchId
    BY <1>0, <1>1 DEF HaltOf, IsTracksDoc, Tracks
  <1>3. Stamped'
    <2>1. 0 < clock  BY DEF HaltInv, TypeOK, StoreInv, Stamped, Runs
    <2>2. Unread.updatedAt = 0  BY DEF Unread
    <2>3. QED  BY <1>1, <1>2, <2>1, <2>2 DEF StoreInv, Stamped, Older
  <1>4. OneOperation'  BY OperationStays DEF StoreInv
  <1>5. Unpublished'
    <2> SUFFICES ASSUME intent # NoIntent, ~published PROVE Unpublished'  BY DEF Unpublished
    <2>1. /\ run = intent.beforeRun \/ run.phase = "halted"
          /\ run # intent.afterRun /\ 0 < intent.afterRun.updatedAt
          /\ \A q \in Commands : snap[q] # intent.afterRun
          /\ DOMAIN tracks = DOMAIN intent.beforeTracks
          /\ \A u \in DOMAIN tracks :
               tracks[u] = intent.beforeTracks[u] \/ HaltOf(intent.beforeTracks[u], tracks[u])
      BY DEF StoreInv, Unpublished, Stamped
    <2>2. \A q \in Commands : snap'[q] # intent.afterRun
      <3>1. Unread.updatedAt = 0  BY DEF Unread
      <3>2. QED  BY <2>1, <3>1
    <2>3. ASSUME NEW u \in DOMAIN tracks
          PROVE  tracks'[u] = intent.beforeTracks[u] \/ HaltOf(intent.beforeTracks[u], tracks'[u])
      <3>1. IsTracksDoc(intent.beforeTracks)  BY DEF HaltInv, TypeOK, IsIntent
      <3>2. intent.beforeTracks[u] \in Tracks  BY <2>1, <2>3, <3>1 DEF IsTracksDoc
      <3>3. HaltOf(intent.beforeTracks[u], tracks[u]) => tracks[u].state = "halted"
        BY <3>2 DEF HaltOf, Tracks
      <3>4. QED  BY <1>1, <2>1, <2>3, <3>3 DEF HaltOf
    <2>4. QED  BY <1>1, <2>1, <2>2, <2>3 DEF Unpublished
  <1>6. Announced'
    <2> SUFFICES ASSUME intent # NoIntent, published,  NEW u \in DOMAIN tracks,
                        DOMAIN tracks = DOMAIN intent.afterTracks
                 PROVE  \/ tracks'[u] = intent.afterTracks[u]
                        \/ HaltedSince(u)' /\ (u \in DOMAIN intent.beforeTracks => tracks'[u] # intent.beforeTracks[u])
      BY <1>1 DEF StoreInv, Announced
    <2>1. \/ tracks[u] = intent.afterTracks[u]
          \/ HaltedSince(u) /\ (u \in DOMAIN intent.beforeTracks => tracks[u] # intent.beforeTracks[u])
      BY DEF StoreInv, Announced
    <2>2. CASE tracks'[u] = tracks[u]  BY <2>1, <2>2 DEF HaltedSince
    <2>3. CASE HaltOf(tracks[u], tracks'[u])
      <3>1. tracks[u] = intent.afterTracks[u]  BY <2>1, <2>3 DEF HaltOf, HaltedSince
      <3>2. intent.afterTracks[u].state \in {"queued", "running"} /\ tracks[u] \in Tracks
        BY <1>0, <2>3, <3>1 DEF HaltOf, IsTracksDoc
      <3>3. tracks'[u].state = "halted" /\ tracks'[u].dispatchId = intent.afterTracks[u].dispatchId
        BY <2>3, <3>1, <3>2 DEF HaltOf, Tracks
      <3>4. ASSUME u \in DOMAIN intent.beforeTracks PROVE tracks'[u] # intent.beforeTracks[u]
        <4>0. /\ intent.beforeTracks[u] \in Tracks /\ intent.afterTracks[u] \in Tracks
          BY <3>1, <3>2, <3>4 DEF HaltInv, TypeOK, IsIntent, IsTracksDoc
        <4>1. CASE DispatchIntent(intent)  BY <3>3, <3>4, <4>0, <4>1 DEF DispatchIntent, Tracks
        <4>2. CASE PreviewIntent(intent)
          <5>1. intent.afterTracks[u] = intent.beforeTracks[u]
            BY <3>2, <4>0, <4>2 DEF PreviewIntent, Tracks
          <5>2. QED  BY <3>2, <3>3, <5>1
        <4>3. CASE RecoverIntent(intent)
          <5>1. intent.beforeTracks[u].state \in {"queued", "running"}
            BY <3>2, <4>3 DEF RecoverIntent
          <5>2. QED  BY <3>3, <5>1
        <4>4. CASE CloseIntent(intent)  BY <4>4 DEF CloseIntent, NoTracks
        <4>5. QED  BY <4>1, <4>2, <4>3, <4>4 DEF StoreInv, OneOperation
      <3>5. QED  BY <3>3, <3>4 DEF HaltedSince
    <2>4. QED  BY <1>1, <2>2, <2>3
  <1>7. Awaited'
    BY DEF StoreInv, Awaited, AwaitedAt, Reads
  <1>8. PreviewHolds'
    <2> SUFFICES ASSUME NEW q \in Commands PROVE PreviewAt(q)'  BY DEF PreviewHolds
    <2>1. LogicalRun' = LogicalRun  BY DEF LogicalRun
    <2>2. \A u \in DOMAIN tracks : tracks[u].state \in {"queued", "halted"} => tracks'[u].state \in {"queued", "halted"}
      <3>1. \A u \in DOMAIN tracks : HaltOf(tracks[u], tracks'[u]) => tracks'[u].state = "halted"
        BY <1>0 DEF HaltOf, IsTracksDoc, Tracks
      <3>2. QED  BY <1>1, <3>1
    <2>3. QED  BY <1>1, <2>1, <2>2 DEF StoreInv, PreviewHolds, PreviewAt
  <1>9. QED  BY <1>3, <1>4, <1>5, <1>6, <1>7, <1>8 DEF StoreInv

(* An executor starts and settles workers with no intent pending, and then *)
(* no command holds a preview.                                             *)
LEMMA ExecutorKeepsStore ==
  ASSUME HaltInv, ExecutorHeld, NothingPending, StoreInv, NEW p \in Commands, NEW t \in Tasks,
         StartTrack(p, t) \/ SettleTrack(p, t)
  PROVE  StoreInv'
  <1>1. /\ pc[p] = "awaiting" /\ tx = NoCommand
        /\ UNCHANGED <<run, intent, published, pc, job, snap, todo, clock>>
    BY DEF StartTrack, SettleTrack, locals
  <1>2. intent = NoIntent /\ ~published
    BY <1>1 DEF StoreInv, Awaited, AwaitedAt, NothingPending
  <1>3. DOMAIN tracks' = DOMAIN tracks /\ \A u \in DOMAIN tracks : tracks'[u].dispatchId = tracks[u].dispatchId
    <2>1. IsTracksDoc(tracks)  BY DEF HaltInv, TypeOK
    <2>2. PICK s \in TrackStates : tracks' = [tracks EXCEPT ![t].state = s]
      BY DEF StartTrack, SettleTrack, TrackStates
    <2>3. QED  BY <2>1, <2>2 DEF IsTracksDoc, Tracks
  <1>4. Stamped'  BY <1>1, <1>2, <1>3 DEF StoreInv, Stamped, Older
  <1>5. Staged'
    <2>1. \A q \in Commands : pc[q] \notin InTransaction
      BY <1>1, NoCommandAssumption DEF HaltInv, Locked
    <2>2. QED  BY <1>1, <2>1, StagedOutside DEF StoreInv, Staged
  <1>6. OneOperation' /\ Unpublished' /\ Announced'
    BY <1>1, <1>2 DEF OneOperation, Unpublished, Announced
  <1>7. Awaited'  BY <1>1 DEF StoreInv, Awaited, AwaitedAt
  <1>8. PreviewHolds'
    <2> SUFFICES ASSUME NEW q \in Commands, job[q] = "preview" PROVE FALSE
      BY <1>1 DEF PreviewHolds, PreviewAt
    <2>1. q = p  BY <1>1 DEF ExecutorHeld
    <2>2. QED  BY <1>1, <2>1 DEF StoreInv, Staged, StagedAt, InTransaction
  <1>9. QED  BY <1>4, <1>5, <1>6, <1>7, <1>8 DEF StoreInv

(* What the first replay of an intent writes: its tracks, but for those    *)
(* that were halted since.                                                 *)
LEMMA FirstReplay ==
  ASSUME TypeOK, intent # NoIntent, ~published, Unpublished, TracksKnown
  PROVE  /\ DOMAIN RecoveredTracks = DOMAIN intent.afterTracks
         /\ \A t \in DOMAIN intent.afterTracks :
              \/ /\ RecoveredTracks[t] = intent.afterTracks[t]
                 /\ t \in DOMAIN tracks => tracks[t] \in {intent.beforeTracks[t], intent.afterTracks[t]}
              \/ /\ t \in DOMAIN tracks /\ t \in DOMAIN intent.beforeTracks
                 /\ RecoveredTracks[t] = tracks[t]
                 /\ HaltOf(intent.beforeTracks[t], tracks[t])
  <1>1. CASE SameTracks  BY <1>1 DEF SameTracks, RecoveredTracks
  <1>2. CASE ~SameTracks /\ Mergeable
    <2>1. RecoveredTracks = [t \in DOMAIN tracks |-> IF FromIntent(t) THEN intent.afterTracks[t] ELSE tracks[t]]
      BY <1>2 DEF RecoveredTracks
    <2>2. DOMAIN tracks = DOMAIN intent.afterTracks /\ DOMAIN tracks = DOMAIN intent.beforeTracks
      BY <1>2 DEF Mergeable, Unpublished
    <2>3. \A t \in DOMAIN tracks : tracks[t] = intent.beforeTracks[t] \/ HaltOf(intent.beforeTracks[t], tracks[t])
      BY DEF Unpublished
    <2>4. QED  BY <2>1, <2>2, <2>3 DEF FromIntent
  <1>3. CASE ~SameTracks /\ ~Mergeable
    <2>1. RecoveredTracks = intent.afterTracks /\ DOMAIN intent.afterTracks = {}
      BY <1>3 DEF TracksKnown, Closeable, RecoveredTracks, NoTracks
    <2>2. QED  BY <2>1
  <1>4. QED  BY <1>1, <1>2, <1>3

(* A replay after tracks.json was written changes no track.                *)
LEMMA LaterReplay ==
  ASSUME TypeOK, intent # NoIntent, published, Announced
  PROVE  RecoveredTracks = tracks
  <1>1. /\ DOMAIN tracks = DOMAIN intent.afterTracks
        /\ IsTracksDoc(tracks) /\ IsTracksDoc(intent.afterTracks)
        /\ \A t \in DOMAIN tracks :
             \/ tracks[t] = intent.afterTracks[t]
             \/ HaltedSince(t) /\ (t \in DOMAIN intent.beforeTracks => tracks[t] # intent.beforeTracks[t])
    BY DEF Announced, TypeOK, IsIntent
  <1>2. Mergeable  BY <1>1 DEF Mergeable, FromIntent
  <1>3. CASE SameTracks
    <2>1. \A t \in DOMAIN tracks : tracks[t] = intent.afterTracks[t]
      BY <1>1, <1>3 DEF SameTracks
    <2>2. tracks = intent.afterTracks  BY <1>1, <2>1 DEF IsTracksDoc
    <2>3. QED  BY <1>3, <2>2 DEF RecoveredTracks
  <1>4. CASE ~SameTracks
    <2>1. \A t \in DOMAIN tracks : FromIntent(t) => tracks[t] = intent.afterTracks[t]
      BY <1>1 DEF FromIntent
    <2>2. RecoveredTracks = [t \in DOMAIN tracks |-> tracks[t]]
      BY <1>2, <1>4, <2>1 DEF RecoveredTracks
    <2>3. QED  BY <1>1, <2>2 DEF IsTracksDoc
  <1>5. QED  BY <1>3, <1>4

(* The first write of tracks.json, by the author or by a replay.           *)
LEMMA TracksPublishedKeepsStore ==
  ASSUME HaltInv, StoreInv, NEW p \in Commands, WriteTracks(p) \/ ReplayTracks(p), ~published
  PROVE  /\ StoreInv' /\ intent # NoIntent
         /\ run = intent.beforeRun /\ LogicalRun = run /\ LogicalRun' = intent.afterRun
  <1>1. /\ pc[p] \in {"pubTracks", "replayTracks"}
        /\ published' = TRUE
        /\ UNCHANGED <<run, intent, overwritten, live, clock, locals>>
        /\ Goto(p, IF pc[p] = "pubTracks" THEN "pubRun" ELSE "replayRun")
        /\ pc[p] = "pubTracks" => tracks' = intent.afterTracks
        /\ pc[p] = "replayTracks" => tracks' = RecoveredTracks
    BY DEF WriteTracks, ReplayTracks
  <1>2. intent # NoIntent /\ RunKnown /\ tx = p
    BY <1>1 DEF HaltInv, WriterKnowsRun, Locked, Writing, InTransaction
  <1>3. run = intent.beforeRun
    BY <1>2 DEF StoreInv, Unpublished, RunKnown
  <1>4. LogicalRun = run /\ LogicalRun' = intent.afterRun
    BY <1>1, <1>2, <1>3 DEF LogicalRun
  <1>5. /\ pc'[p] \in {"pubRun", "replayRun"} /\ (pc'[p] = "pubRun" <=> pc[p] = "pubTracks")
        /\ \A q \in Commands \ {p} : pc'[q] = pc[q]
        /\ UNCHANGED <<job, snap, todo>>
    BY <1>1 DEF HaltInv, TypeOK, Goto, locals
  <1>6. Staged'
    <2>1. StagedAt(p)'  BY <1>1, <1>5 DEF StoreInv, Staged, StagedAt, InTransaction, Writes
    <2>2. \A q \in Commands \ {p} : pc[q] \notin InTransaction  BY <1>2 DEF HaltInv, Locked
    <2>3. QED  BY <1>5, <2>1, <2>2, StagedOutside DEF StoreInv, Staged
  <1>7. /\ DOMAIN tracks' = DOMAIN intent.afterTracks
        /\ \A t \in DOMAIN intent.afterTracks :
             \/ tracks'[t] = intent.afterTracks[t]
             \/ /\ t \in DOMAIN tracks /\ t \in DOMAIN intent.beforeTracks
                /\ tracks'[t] = tracks[t]
                /\ HaltOf(intent.beforeTracks[t], tracks[t])
    <2>1. CASE pc[p] = "pubTracks"  BY <1>1, <2>1
    <2>2. CASE pc[p] = "replayTracks"
      <3>1. TracksKnown  BY <2>2 DEF StoreInv, Staged, StagedAt
      <3>2. QED  BY <1>1, <1>2, <2>2, <3>1, FirstReplay DEF HaltInv, StoreInv
    <2>3. QED  BY <1>1, <2>1, <2>2
  <1>8. Stamped'
    <2>1. Older(tracks)'  BY <1>1, <1>2, <1>7 DEF StoreInv, Stamped, Older
    <2>2. QED  BY <1>1, <1>2, <1>5, <2>1 DEF StoreInv, Stamped, Older
  <1>9. OneOperation'  BY <1>1, OperationStays DEF StoreInv
  <1>10. Unpublished'  BY <1>1 DEF Unpublished
  <1>11. Announced'
    <2> SUFFICES ASSUME NEW t \in DOMAIN intent.afterTracks
                 PROVE  \/ tracks'[t] = intent.afterTracks[t]
                        \/ HaltedSince(t)' /\ (t \in DOMAIN intent.beforeTracks => tracks'[t] # intent.beforeTracks[t])
      BY <1>1, <1>7 DEF Announced
    <2>1. CASE tracks'[t] = intent.afterTracks[t]  BY <2>1
    <2>2. CASE /\ t \in DOMAIN intent.beforeTracks
               /\ HaltOf(intent.beforeTracks[t], tracks'[t])
      <3>1. intent.beforeTracks[t] \in Tracks
        BY <1>2, <2>2 DEF HaltInv, TypeOK, IsIntent, IsTracksDoc
      <3>2. QED  BY <1>1, <2>2, <3>1 DEF HaltOf, HaltedSince, Tracks
    <2>3. QED  BY <1>7, <2>1, <2>2
  <1>12. Awaited'
    <2>1. \A q \in Commands : pc[q] # "awaiting"  BY <1>2 DEF StoreInv, Awaited, AwaitedAt
    <2>2. QED  BY <1>5, <2>1 DEF Awaited, AwaitedAt
  <1>13. PreviewHolds'
    <2>1. \A q \in Commands : snap[q] # intent.afterRun  BY <1>2 DEF StoreInv, Unpublished
    <2>2. QED  BY <1>4, <1>5, <2>1 DEF PreviewHolds, PreviewAt
  <1>14. QED
    BY <1>2, <1>3, <1>4, <1>6, <1>8, <1>9, <1>10, <1>11, <1>12, <1>13 DEF StoreInv

LEMMA ReplayAgainKeepsStore ==
  ASSUME HaltInv, StoreInv, NEW p \in Commands, ReplayTracks(p), published
  PROVE  StoreInv' /\ tracks' = tracks /\ LogicalRun' = LogicalRun
  <1>1. /\ pc[p] = "replayTracks" /\ published' = published
        /\ UNCHANGED <<run, intent, overwritten, live, clock, locals>>
        /\ Goto(p, "replayRun") /\ tracks' = RecoveredTracks
    BY DEF ReplayTracks, HaltInv, TypeOK
  <1>2. intent # NoIntent /\ tx = p
    BY <1>1 DEF HaltInv, WriterKnowsRun, Locked, Writing, InTransaction
  <1>3. tracks' = tracks  BY <1>1, <1>2, LaterReplay DEF HaltInv, StoreInv
  <1>4. /\ pc'[p] = "replayRun" /\ \A q \in Commands \ {p} : pc'[q] = pc[q]
        /\ UNCHANGED <<job, snap, todo>>
    BY <1>1 DEF HaltInv, TypeOK, Goto, locals
  <1>5. UNCHANGED files  BY <1>1, <1>3 DEF files
  <1>6. Staged'
    <2>1. StagedAt(p)'  BY <1>1, <1>4 DEF StoreInv, Staged, StagedAt, InTransaction, Writes
    <2>2. \A q \in Commands \ {p} : pc[q] \notin InTransaction  BY <1>2 DEF HaltInv, Locked
    <2>3. QED  BY <1>4, <2>1, <2>2, StagedOutside DEF StoreInv, Staged
  <1>7. \A q \in Commands : Reads(q)  BY <1>1, <1>4 DEF Reads, Writes
  <1>8. StoreInv'  BY <1>1, <1>5, <1>6, <1>7, QuietKeepsStore DEF HaltInv
  <1>9. QED  BY <1>1, <1>3, <1>8 DEF LogicalRun

(* Each transaction body records one operation of the store.               *)
LEMMA BodyIsOperation ==
  ASSUME HaltInv, CallbackClean, StoreInv, NEW p \in Commands, Publishes(p)
  PROVE  /\ intent'.afterRun.updatedAt = clock
         /\ \A t \in DOMAIN intent'.afterTracks : intent'.afterTracks[t].dispatchId <= clock
         /\ \/ DispatchIntent(intent') \/ PreviewIntent(intent')
            \/ RecoverIntent(intent') \/ CloseIntent(intent')
  <1>0. /\ run \in Runs /\ IsTracksDoc(tracks) /\ clock \in Nat
        /\ \A t \in DOMAIN tracks : tracks[t] \in Tracks /\ tracks[t].dispatchId < clock
    BY DEF HaltInv, TypeOK, StoreInv, Stamped, Older, IsTracksDoc
  <1>1. CASE PublishDispatch(p)
    <2> DEFINE r == [run EXCEPT !.phase = "dispatch-queued", !.updatedAt = clock]
               d == [t \in run.plan |-> [state |-> "queued", dispatchId |-> clock]]
    <2>1. /\ MayDispatch(p)
          /\ intent' = [beforeRun |-> run, afterRun |-> r, beforeTracks |-> tracks, afterTracks |-> d]
      BY <1>1 DEF PublishDispatch, Publish
    <2>2. r.phase = "dispatch-queued" /\ r.updatedAt = clock /\ r.plan = run.plan  BY <1>0 DEF Runs
    <2>3. \A t \in DOMAIN d : d[t].state = "queued" /\ d[t].dispatchId = clock  OBVIOUS
    <2>4. DOMAIN d = run.plan  OBVIOUS
    <2> HIDE DEF r, d
    <2>5. \A t \in DOMAIN d : t \in DOMAIN tracks => d[t].dispatchId > tracks[t].dispatchId
      <3>1. \A t \in DOMAIN tracks : tracks[t].dispatchId \in Nat  BY <1>0 DEF Tracks
      <3>2. QED  BY <1>0, <2>3, <3>1
    <2>6. DispatchIntent(intent')  BY <2>1, <2>2, <2>3, <2>4, <2>5 DEF DispatchIntent, MayDispatch
    <2>7. QED  BY <1>0, <2>1, <2>2, <2>3, <2>6
  <1>2. CASE PublishPreview(p)
    <2> DEFINE r == [run EXCEPT !.phase = "dry-run-preview", !.updatedAt = clock]
               d == [t \in DOMAIN tracks |-> IF t \in todo[p] THEN [tracks[t] EXCEPT !.state = "preview"] ELSE tracks[t]]
    <2>1. /\ pc[p] = "callback" /\ job[p] = "preview" /\ MayPreview(p)
          /\ intent' = [beforeRun |-> run, afterRun |-> r, beforeTracks |-> tracks, afterTracks |-> d]
      BY <1>2 DEF PublishPreview, Publish
    <2>2. r.phase = "dry-run-preview" /\ r.updatedAt = clock /\ r.plan = run.plan  BY <1>0 DEF Runs
    <2>3. \A t \in todo[p] \cap DOMAIN tracks : tracks[t].state \in {"queued", "halted"}
      <3>1. intent = NoIntent  BY <2>1 DEF CallbackClean
      <3>2. LogicalRun = snap[p]  BY <2>1, <3>1 DEF LogicalRun, MayPreview
      <3>3. QED  BY <2>1, <3>2 DEF StoreInv, PreviewHolds, PreviewAt, Writes
    <2>4. /\ DOMAIN d = DOMAIN tracks
          /\ \A t \in DOMAIN d :
               \/ d[t] = tracks[t]
               \/ /\ tracks[t].state \in {"queued", "halted"}
                  /\ d[t] = [tracks[t] EXCEPT !.state = "preview"]
      BY <2>3
    <2>5. \A t \in DOMAIN d : d[t].dispatchId = tracks[t].dispatchId  BY <1>0 DEF Tracks
    <2> HIDE DEF r, d
    <2>6. PreviewIntent(intent')  BY <2>1, <2>2, <2>4 DEF PreviewIntent, MayPreview
    <2>7. \A t \in DOMAIN d : d[t].dispatchId <= clock
      <3>1. \A t \in DOMAIN tracks : tracks[t].dispatchId \in Nat  BY <1>0 DEF Tracks
      <3>2. QED  BY <1>0, <2>4, <2>5, <3>1
    <2>8. QED  BY <2>1, <2>2, <2>6, <2>7
  <1>3. CASE PublishClose(p) \/ PublishCloseRun(p)
    <2>1. /\ NoLiveWorker(tracks)
          /\ intent' = [beforeRun |-> run, afterRun |-> [phase |-> "done", plan |-> {}, updatedAt |-> clock],
                        beforeTracks |-> tracks, afterTracks |-> NoTracks]
      BY <1>3 DEF PublishClose, PublishCloseRun, MayClose, Publish
    <2>2. CloseIntent(intent')  BY <2>1 DEF CloseIntent
    <2>3. QED  BY <2>1, <2>2 DEF NoTracks
  <1>4. CASE PublishRequeue(p)
    <2> DEFINE r(requeued, next) ==
                 [run EXCEPT !.updatedAt = clock,
                             !.phase = IF requeued # {} /\ next = "running" THEN "dispatch-queued" ELSE next]
               d(requeued, settled) ==
                 [t \in DOMAIN tracks |->
                    IF t \in requeued THEN [tracks[t] EXCEPT !.state = "queued"]
                    ELSE IF t \in settled THEN [tracks[t] EXCEPT !.state = "settled"]
                    ELSE tracks[t]]
    <2>1. PICK settled \in SUBSET DeadRunning, requeued \in SUBSET DeadRunning,
               next \in {run.phase} \cup (IF MayReturn THEN {"awaiting-plan-approval"} ELSE {}) :
            Publish(p, r(requeued, next), d(requeued, settled))
      BY <1>4 DEF PublishRequeue
    <2>2. ~Terminal(run.phase)  BY <1>4 DEF PublishRequeue, MayRecover
    <2>3. /\ r(requeued, next).updatedAt = clock /\ r(requeued, next).plan = run.plan
          /\ \/ r(requeued, next).phase \in {run.phase, "dispatch-queued"}
             \/ /\ r(requeued, next).phase = "awaiting-plan-approval"
                /\ run.phase \in {"plan-approved", "dispatch-queued", "running"} /\ NoLiveWorker(tracks)
      BY <1>0 DEF Runs, MayReturn
    <2>4. \A t \in DOMAIN tracks :
            /\ d(requeued, settled)[t].dispatchId = tracks[t].dispatchId
            /\ \/ d(requeued, settled)[t] = tracks[t]
               \/ /\ tracks[t].state = "running" /\ ~Alive(tracks, t)
                  /\ \E s \in {"queued", "settled"} : d(requeued, settled)[t] = [tracks[t] EXCEPT !.state = s]
      BY <1>0 DEF Tracks, DeadRunning
    <2>5. DOMAIN d(requeued, settled) = DOMAIN tracks  OBVIOUS
    <2> HIDE DEF r, d
    <2>6. intent' = [beforeRun |-> run, afterRun |-> r(requeued, next), beforeTracks |-> tracks,
                     afterTracks |-> d(requeued, settled)]
      BY <2>1 DEF Publish
    <2>7. RecoverIntent(intent')  BY <2>2, <2>3, <2>4, <2>5, <2>6 DEF RecoverIntent
    <2>8. \A t \in DOMAIN tracks : d(requeued, settled)[t].dispatchId <= clock
      <3>1. \A t \in DOMAIN tracks : tracks[t].dispatchId \in Nat  BY <1>0 DEF Tracks
      <3>2. \A t \in DOMAIN tracks : d(requeued, settled)[t].dispatchId = tracks[t].dispatchId  BY <2>4
      <3>3. QED  BY <1>0, <3>1, <3>2
    <2>9. QED  BY <2>3, <2>5, <2>6, <2>7, <2>8
  <1>5. QED  BY <1>1, <1>2, <1>3, <1>4 DEF Publishes

LEMMA PublishKeepsStore ==
  ASSUME HaltInv, CallbackClean, NothingPending, ExecutorHeld, StoreInv, NEW p \in Commands, Publishes(p)
  PROVE  StoreInv' /\ LogicalRun' = LogicalRun /\ UNCHANGED <<tracks, halt, live>>
  <1>1. /\ intent'.beforeRun = run /\ intent'.beforeTracks = tracks
        /\ job[p] # "entry" /\ pc[p] = "callback"
        /\ Goto(p, "pubTracks")
        /\ UNCHANGED <<run, tracks, published, overwritten, halt, live, tx, exec, locals>>
    BY ClosingBodies DEF HaltInv
  <1>2. intent = NoIntent /\ ~published /\ tx = p /\ exec = p
    BY <1>1 DEF CallbackClean, NothingPending, HaltInv, Locked, InTransaction, ExecutorHeld
  <1>3. /\ intent'.afterRun.updatedAt = clock /\ clock' = clock + 1
        /\ \A t \in DOMAIN intent'.afterTracks : intent'.afterTracks[t].dispatchId <= clock
        /\ \/ DispatchIntent(intent') \/ PreviewIntent(intent')
           \/ RecoverIntent(intent') \/ CloseIntent(intent')
    BY BodyIsOperation
       DEF Publishes, PublishDispatch, PublishPreview, PublishClose, PublishRequeue, PublishCloseRun, Publish, Tick
  <1>4. PICK r \in Runs : \E d : IsTracksDoc(d) /\ Publish(p, r, d)  BY Bodies DEF HaltInv
  <1>5. intent' # NoIntent /\ IsIntent(intent')  BY <1>4, Published DEF HaltInv
  <1>6. LogicalRun = run /\ LogicalRun' = run  BY <1>1, <1>2 DEF LogicalRun
  <1>7. /\ pc'[p] = "pubTracks" /\ \A q \in Commands \ {p} : pc'[q] = pc[q]
        /\ UNCHANGED <<job, snap, todo>>
    BY <1>1 DEF HaltInv, TypeOK, Goto, locals
  <1>8. clock \in Nat /\ 0 < clock /\ clock < clock'
    BY <1>3 DEF HaltInv, TypeOK, StoreInv, Stamped, Runs
  <1>9. Stamped'
    <2>1. ASSUME NEW n \in Nat, n <= clock PROVE n < clock'  BY <1>3, <1>8, <2>1
    <2>2. run.updatedAt < clock'  BY <1>8, <2>1 DEF HaltInv, TypeOK, StoreInv, Stamped, Runs
    <2>3. \A q \in Commands : snap[q].updatedAt < clock'
      BY <1>8, <2>1 DEF HaltInv, TypeOK, StoreInv, Stamped, Runs
    <2>4. \A t \in DOMAIN tracks : tracks[t].dispatchId < clock'
      <3>1. \A t \in DOMAIN tracks : tracks[t].dispatchId \in Nat /\ tracks[t].dispatchId < clock
        BY DEF HaltInv, TypeOK, StoreInv, Stamped, Older, IsTracksDoc, Tracks
      <3>2. QED  BY <1>8, <2>1, <3>1
    <2>5. \A t \in DOMAIN intent'.afterTracks : intent'.afterTracks[t].dispatchId < clock'
      <3>1. \A t \in DOMAIN intent'.afterTracks : intent'.afterTracks[t].dispatchId \in Nat
        BY <1>5 DEF IsIntent, IsTracksDoc, Tracks
      <3>2. QED  BY <1>3, <2>1, <3>1
    <2>6. QED  BY <1>1, <1>3, <1>7, <1>8, <2>2, <2>3, <2>4, <2>5 DEF Stamped, Older
  <1>10. Staged'
    <2>1. StagedAt(p)'  BY <1>1, <1>2, <1>7 DEF StagedAt, InTransaction, Writes
    <2>2. \A q \in Commands \ {p} : pc[q] \notin InTransaction  BY <1>2 DEF HaltInv, Locked
    <2>3. QED  BY <1>7, <2>1, <2>2, StagedOutside DEF StoreInv, Staged
  <1>11. OneOperation'
    BY <1>1, <1>3 DEF OneOperation, DispatchIntent, PreviewIntent, RecoverIntent, CloseIntent, NoLiveWorker, Alive
  <1>12. Unpublished'
    <2>1. run.updatedAt < clock /\ \A q \in Commands : snap[q].updatedAt < clock
      BY DEF StoreInv, Stamped
    <2>2. run # intent'.afterRun /\ \A q \in Commands : snap[q] # intent'.afterRun
      BY <1>3, <1>8, <2>1
    <2>3. QED  BY <1>1, <1>2, <1>7, <2>2 DEF Unpublished
  <1>13. Announced'  BY <1>1, <1>2 DEF Announced
  <1>14. Awaited'
    <2>1. \A q \in Commands : pc'[q] # "awaiting"  BY <1>2, <1>7 DEF ExecutorHeld
    <2>2. QED  BY <2>1 DEF Awaited, AwaitedAt
  <1>15. PreviewHolds'
    BY <1>1, <1>6, <1>7 DEF StoreInv, PreviewHolds, PreviewAt, Writes
  <1>16. QED
    BY <1>1, <1>6, <1>9, <1>10, <1>11, <1>12, <1>13, <1>14, <1>15 DEF StoreInv

LEMMA StoreNext ==
  ASSUME Patient, HaltInv, RecoveryInv, StoreInv, [Next]_vars
  PROVE  StoreInv'
  <1>0. TypeOK /\ Locked /\ WriterKnowsRun /\ ExecutorHeld /\ CallbackClean /\ NothingPending /\ Staged /\ Awaited
    BY DEF HaltInv, RecoveryInv, StoreInv
  <1>a. ASSUME NEW p \in Commands, NEW label \in Labels \ ({"awaiting"} \cup Writes),
               Goto(p, label), pc[p] \notin Writes, UNCHANGED <<files, locals, clock>>, live' \subseteq live,
               job[p] # "entry" => label \in InTransaction \cup {"tx"},
               label \notin {"replayRun", "replayDone"},
               label = "replayTracks" => TracksKnown
        PROVE  StoreInv'
    BY <1>0, <1>a, MoveKeepsStore
  <1>b. ASSUME NEW p \in Commands, End(p), UNCHANGED <<files, live, clock>> PROVE StoreInv'
    BY <1>0, <1>b, EndKeepsStore
  <1>c. ASSUME NEW p \in Commands, ReleaseAll(p), UNCHANGED <<files, live, clock>> PROVE StoreInv'
    BY <1>b, <1>c DEF ReleaseAll
  <1>d. ASSUME NEW p \in Commands, pc[p] \in {"idle", "ready", "exec", "cas", "haltRun", "readTracks", "haltTracks", "awaiting"}
        PROVE  job[p] = "entry"
    BY <1>0, <1>d DEF Staged, StagedAt, InTransaction
  <1>e. ASSUME NEW p \in Commands, End(p)
        PROVE  /\ pc'[p] = "idle" /\ job'[p] = "entry" /\ snap'[p] = Unread /\ todo'[p] = {}
               /\ \A q \in Commands \ {p} : pc'[q] = pc[q] /\ UNCHANGED <<job[q], snap[q], todo[q]>>
    BY <1>0, <1>e DEF TypeOK, End, Goto, Forget
  <1>f. ASSUME NEW p \in Commands, exec = p PROVE \A q \in Commands \ {p} : pc[q] # "awaiting"
    BY <1>0, <1>f DEF ExecutorHeld
  <1>1. ASSUME NEW p \in Commands, Enter(p) PROVE StoreInv'
    BY <1>1, <1>a DEF Enter, Labels, Writes
  <1>2. ASSUME NEW p \in Commands, LockTransaction(p) PROVE StoreInv'
    BY <1>2, <1>a DEF LockTransaction, Labels, Writes, InTransaction
  <1>3. ASSUME NEW p \in Commands, NothingToRecover(p) PROVE StoreInv'
    BY <1>3, <1>a DEF NothingToRecover, Labels, Writes, InTransaction
  <1>4. ASSUME NEW p \in Commands, BeginReplay(p) PROVE StoreInv'
    BY <1>4, <1>a DEF BeginReplay, Recoverable, Labels, Writes, InTransaction
  <1>5. ASSUME NEW p \in Commands, Supersede(p) PROVE StoreInv'
    <2>1. LogicalRun = run  BY <1>5 DEF Supersede, Superseded, RunKnown, LogicalRun
    <2>2. QED  BY <1>5, <2>1, DropKeepsStore DEF Supersede, InTransaction, Writes
  <1>6. ASSUME NEW p \in Commands, Conflict(p) PROVE StoreInv'
    BY <1>6, <1>c DEF Conflict
  <1>7. ASSUME NEW p \in Commands, ReplayTracks(p) \/ WriteTracks(p) PROVE StoreInv'
    <2>1. CASE ~published  BY <1>7, <2>1, TracksPublishedKeepsStore
    <2>2. CASE published
      <3>1. ReplayTracks(p)  BY <1>0, <1>7, <2>2 DEF WriteTracks, Staged, StagedAt
      <3>2. QED  BY <2>2, <3>1, ReplayAgainKeepsStore
    <2>3. QED  BY <2>1, <2>2
  <1>8. ASSUME NEW p \in Commands, ReplayRun(p) \/ WriteRun(p) PROVE StoreInv'
    <2>1. PICK to : /\ <<pc[p], to>> \in {<<"pubRun", "pubDone">>, <<"replayRun", "replayDone">>}
                    /\ Goto(p, to)
      BY <1>8 DEF ReplayRun, WriteRun
    <2>2. run' = intent.afterRun /\ UNCHANGED <<tracks, intent, published, live, clock, locals>>
      BY <1>8 DEF ReplayRun, WriteRun
    <2>3. QED  BY <1>0, <2>1, <2>2, RunPublishedKeepsStore
  <1>9. ASSUME NEW p \in Commands, ReplayDone(p) PROVE StoreInv'
    <2>1. LogicalRun = run  BY <1>0, <1>9 DEF ReplayDone, Staged, StagedAt, LogicalRun
    <2>2. QED  BY <1>9, <2>1, DropKeepsStore DEF ReplayDone, InTransaction, Writes
  <1>10. ASSUME NEW p \in Commands, Recovered(p) PROVE StoreInv'
    BY <1>10, <1>a DEF Recovered, Labels, Writes
  <1>11. ASSUME NEW p \in Commands, Publishes(p) PROVE StoreInv'
    BY <1>0, <1>11, PublishKeepsStore
  <1>12. ASSUME NEW p \in Commands, Reject(p) PROVE StoreInv'
    BY <1>12, <1>c DEF Reject
  <1>13. ASSUME NEW p \in Commands, RemoveIntent(p) PROVE StoreInv'
    <2>1. LogicalRun = run  BY <1>0, <1>13 DEF RemoveIntent, Staged, StagedAt, LogicalRun
    <2>2. QED  BY <1>13, <2>1, DropKeepsStore DEF RemoveIntent, ReleaseAll, InTransaction
  <1>14. ASSUME NEW p \in Commands, TakeExecutor(p) PROVE StoreInv'
    BY <1>14, <1>a, <1>d DEF TakeExecutor, Labels, Writes
  <1>15. ASSUME NEW p \in Commands, BeginTransaction(p) PROVE StoreInv'
    <2>1. /\ pc[p] = "exec" /\ Goto(p, "tx") /\ UNCHANGED <<files, live, clock>>
          /\ snap' = [snap EXCEPT ![p] = run]
          /\ \E j \in Jobs \ {"entry"} :
               /\ job' = [job EXCEPT ![p] = j]
               /\ todo' = [todo EXCEPT ![p] = IF j = "preview" THEN Queued ELSE {}]
      BY <1>15 DEF BeginTransaction
    <2>2. /\ pc'[p] = "tx" /\ snap'[p] = run /\ todo'[p] \subseteq Queued
          /\ \A q \in Commands \ {p} : pc'[q] = pc[q] /\ UNCHANGED <<job[q], snap[q], todo[q]>>
      BY <1>0, <2>1 DEF TypeOK, Goto
    <2>3. \A q \in Commands : Reads(q)  BY <2>2, OthersRead DEF Reads
    <2>4. StagedAt(p)'  BY <2>2 DEF StagedAt, Writes
    <2>5. ASSUME NEW q \in Commands \ {p} PROVE StagedAt(q)'
      BY <1>0, <2>1, <2>2, <2>5, StagedStill DEF Staged, files
    <2>6. Staged'  BY <2>4, <2>5 DEF Staged
    <2>7. QED  BY <1>0, <2>1, <2>3, <2>6, QuietKeepsStore
  <1>16. ASSUME NEW p \in Commands, ReadRun(p) PROVE StoreInv'
    <2>1. /\ pc[p] = "ready" /\ Goto(p, "cas") /\ UNCHANGED <<files, live, clock, job, todo>>
          /\ snap' = [snap EXCEPT ![p] = run]
      BY <1>16 DEF ReadRun
    <2>2. /\ pc'[p] = "cas" /\ snap'[p] = run /\ job[p] = "entry"
          /\ \A q \in Commands \ {p} : pc'[q] = pc[q] /\ UNCHANGED <<job[q], snap[q], todo[q]>>
      BY <1>0, <1>d, <2>1 DEF TypeOK, Goto
    <2>3. \A q \in Commands : Reads(q)  BY <2>1, <2>2, OthersRead DEF Reads
    <2>4. StagedAt(p)'  BY <2>1, <2>2 DEF StagedAt, Writes
    <2>5. ASSUME NEW q \in Commands \ {p} PROVE StagedAt(q)'
      BY <1>0, <2>1, <2>2, <2>5, StagedStill DEF Staged, files
    <2>6. Staged'  BY <2>4, <2>5 DEF Staged
    <2>7. QED  BY <1>0, <2>1, <2>3, <2>6, QuietKeepsStore
  <1>17. ASSUME NEW p \in Commands, Transition(p) PROVE StoreInv'
    <2>1. PICK next \in Runs : WriteRunFile(next)
      <3>1. \A plan \in SUBSET Tasks : [run EXCEPT !.phase = "awaiting-plan-approval", !.plan = plan] \in Runs
        BY <1>0 DEF TypeOK, Runs, Phases
      <3>2. [run EXCEPT !.phase = "plan-approved"] \in Runs  BY <1>0 DEF TypeOK, Runs, Phases
      <3>3. QED  BY <1>17, <3>1, <3>2 DEF Transition
    <2>2. intent = NoIntent /\ pc[p] = "cas" /\ End(p) /\ UNCHANGED <<tracks, intent, published, live, exec>>
      BY <1>17, <2>1 DEF Transition, WriteRunFile
    <2>3. \A q \in Commands \ {p} : pc[q] # "awaiting"
      <3> SUFFICES ASSUME NEW q \in Commands, pc[q] = "awaiting" PROVE FALSE  OBVIOUS
      <3>1. Terminal(run.phase) \/ run.phase = "running"  BY <1>0 DEF Awaited, AwaitedAt
      <3>2. QED  BY <1>17, <3>1 DEF Transition, Unchanged
    <2>4. QED  BY <1>0, <1>e, <2>1, <2>2, <2>3, RunWriteKeepsStore
  <1>18. ASSUME NEW p \in Commands, TransitionFails(p) PROVE StoreInv'
    BY <1>18, <1>b DEF TransitionFails
  <1>19. ASSUME NEW p \in Commands, SupersedePlan(p) PROVE StoreInv'
    <2>1. /\ [run EXCEPT !.phase = "awaiting-plan-approval", !.plan = {}] \in Runs
          /\ pc[p] = "exec" /\ End(p) /\ UNCHANGED <<tracks, intent, published, live>>
          /\ WriteRunFile([run EXCEPT !.phase = "awaiting-plan-approval", !.plan = {}])
      BY <1>0, <1>19 DEF SupersedePlan, TypeOK, Runs, Phases
    <2>2. exec = p  BY <1>0, <2>1 DEF ExecutorHeld
    <2>3. QED  BY <1>0, <1>e, <1>f, <2>1, <2>2, RunWriteKeepsStore
  <1>20. ASSUME NEW p \in Commands, StartWorkers(p) PROVE StoreInv'
    <2>1. /\ [run EXCEPT !.phase = "running"] \in Runs
          /\ pc[p] = "exec" /\ Goto(p, "awaiting") /\ UNCHANGED <<tracks, intent, published, live, job>>
          /\ WriteRunFile([run EXCEPT !.phase = "running"])
          /\ snap' = [snap EXCEPT ![p] = run'] /\ todo' = [todo EXCEPT ![p] = Queued]
      BY <1>0, <1>20 DEF StartWorkers, TypeOK, Runs, Phases
    <2>2. exec = p /\ job[p] = "entry"  BY <1>0, <1>d, <2>1 DEF ExecutorHeld
    <2>3. /\ pc'[p] = "awaiting" /\ job'[p] = "entry" /\ snap'[p] = run'
          /\ \A q \in Commands \ {p} : pc'[q] = pc[q] /\ UNCHANGED <<job[q], snap[q], todo[q]>>
      BY <1>0, <2>1, <2>2 DEF TypeOK, Goto
    <2>4. run'.phase = "running"  BY <1>0, <2>1, RunWritten DEF TypeOK, Runs
    <2>5. QED  BY <1>0, <1>f, <2>1, <2>2, <2>3, <2>4, RunWriteKeepsStore
  <1>21. ASSUME NEW p \in Commands, FinishWorkers(p) PROVE StoreInv'
    <2>1. PICK next \in Runs : WriteRunFile(next)
      <3>1. \A outcome \in Phases : [snap[p] EXCEPT !.phase = outcome] \in Runs  BY <1>0 DEF TypeOK, Runs
      <3>2. QED  BY <1>0, <1>21, <3>1 DEF FinishWorkers, Phases, TypeOK
    <2>2. pc[p] = "awaiting" /\ End(p) /\ UNCHANGED <<tracks, intent, published, live>>
      BY <1>21 DEF FinishWorkers
    <2>3. exec = p  BY <1>0, <2>2 DEF ExecutorHeld
    <2>4. QED  BY <1>0, <1>e, <1>f, <2>1, <2>2, <2>3, RunWriteKeepsStore
  <1>22. ASSUME NEW p \in Commands, AppendHalt(p) PROVE StoreInv'
    BY <1>22, <1>a, <1>d DEF AppendHalt, Labels, Writes
  <1>23. ASSUME NEW p \in Commands, HaltRun(p) PROVE StoreInv'
    <2>1. CASE Terminal(run.phase)  BY <1>23, <1>b, <2>1 DEF HaltRun, files
    <2>2. CASE ~Terminal(run.phase)  BY <1>23, <2>2, HaltRunKeepsStore
    <2>3. QED  BY <2>1, <2>2
  <1>24. ASSUME NEW p \in Commands, ReadTracks(p) PROVE StoreInv'
    <2>1. /\ pc[p] = "readTracks" /\ Goto(p, "haltTracks") /\ UNCHANGED <<files, live, clock, job, snap>>
          /\ todo' = [todo EXCEPT ![p] = DOMAIN tracks]
      BY <1>24 DEF ReadTracks
    <2>2. /\ pc'[p] = "haltTracks" /\ job[p] = "entry"
          /\ \A q \in Commands \ {p} : pc'[q] = pc[q] /\ todo'[q] = todo[q]
      BY <1>0, <1>d, <2>1 DEF TypeOK, Goto
    <2>3. \A q \in Commands : Reads(q)  BY <2>1, <2>2, OthersRead DEF Reads
    <2>4. StagedAt(p)'  BY <2>1, <2>2 DEF StagedAt, Writes
    <2>5. ASSUME NEW q \in Commands \ {p} PROVE StagedAt(q)'
      BY <1>0, <2>1, <2>2, <2>5, StagedStill DEF Staged, files
    <2>6. Staged'  BY <2>4, <2>5 DEF Staged
    <2>7. QED  BY <1>0, <2>1, <2>3, <2>6, QuietKeepsStore
  <1>25. ASSUME NEW p \in Commands, HaltTracks(p) PROVE StoreInv'
    <2>1. /\ pc[p] = "haltTracks" /\ UNCHANGED <<run, intent, published, live, pc, job, snap, clock>>
          /\ \E t \in todo[p] : MarkHalted(t) /\ todo' = [todo EXCEPT ![p] = @ \ {t}]
      BY <1>25 DEF HaltTracks
    <2>2. \A q \in Commands : pc[q] \notin InTransaction
      BY <1>0, <2>1, NoCommandAssumption DEF MarkHalted, Locked
    <2>3. Staged'  BY <1>0, <2>1, <2>2, StagedOutside DEF Staged
    <2>4. job[p] = "entry" /\ \A q \in Commands \ {p} : todo'[q] = todo[q]
      BY <1>0, <1>d, <2>1 DEF TypeOK
    <2>5. \A q \in Commands : Reads(q)  BY <2>1, <2>4, OthersRead DEF Reads
    <2>6. QED  BY <2>1, <2>3, <2>4, <2>5, HaltTrackKeepsStore
  <1>26. ASSUME NEW p \in Commands, EndHalt(p) PROVE StoreInv'
    BY <1>26, <1>b DEF EndHalt
  <1>27. ASSUME NEW p \in Commands, Leave(p) PROVE StoreInv'
    BY <1>27, <1>c DEF Leave
  <1>28. ASSUME NEW p \in Commands, Crash(p) PROVE StoreInv'
    BY <1>28, <1>c DEF Crash
  <1>29. ASSUME NEW p \in Commands, NEW t \in Tasks, StartTrack(p, t) \/ SettleTrack(p, t) PROVE StoreInv'
    BY <1>0, <1>29, ExecutorKeepsStore
  <1>30. ASSUME NEW p \in Commands, NEW t \in Tasks, HaltTrack(p, t) PROVE StoreInv'
    <2>1. pc[p] = "ready" /\ MarkHalted(t) /\ End(p) /\ UNCHANGED <<run, intent, published, live, clock>>
      BY <1>30 DEF HaltTrack
    <2>2. \A q \in Commands : pc[q] \notin InTransaction
      BY <1>0, <2>1, NoCommandAssumption DEF MarkHalted, Locked
    <2>3. /\ pc'[p] = "idle" /\ job'[p] = "entry" /\ snap'[p] = Unread /\ todo'[p] = {}
          /\ \A q \in Commands \ {p} : pc'[q] = pc[q] /\ UNCHANGED <<job[q], snap[q], todo[q]>>
      BY <1>e, <2>1
    <2>4. StagedAt(p)'  BY <2>3 DEF StagedAt, Writes
    <2>5. Staged'  BY <1>0, <2>2, <2>3, <2>4, StagedOutside DEF Staged
    <2>6. \A q \in Commands : Reads(q)  BY <2>3, OthersRead DEF Reads
    <2>7. QED  BY <2>1, <2>3, <2>5, <2>6, HaltTrackKeepsStore
  <1>31. ASSUME UNCHANGED <<files, pc, locals, clock>>, live' \subseteq live PROVE StoreInv'
    <2>1. \A q \in Commands : Reads(q) /\ pc'[q] = pc[q] /\ job'[q] = job[q]
      BY <1>31, OthersRead DEF locals
    <2>2. \A q \in Commands : StagedAt(q)'  BY <1>0, <1>31, <2>1, StagedStill DEF Staged, files
    <2>3. Staged'  BY <2>2 DEF Staged
    <2>4. QED  BY <1>0, <1>31, <2>1, <2>3, QuietKeepsStore
  <1>32. ASSUME NEW w \in live, WorkerExit(w) PROVE StoreInv'
    BY <1>31, <1>32 DEF WorkerExit
  <1>33. CASE UNCHANGED vars  BY <1>31, <1>33 DEF vars, files, locals
  <1>34. QED
    BY <1>1, <1>2, <1>3, <1>4, <1>5, <1>6, <1>7, <1>8, <1>9, <1>10, <1>11, <1>12, <1>13, <1>14, <1>15, <1>16, <1>17, <1>18,
       <1>19, <1>20, <1>21, <1>22, <1>23, <1>24, <1>25, <1>26, <1>27, <1>28, <1>29, <1>30, <1>32, <1>33
    DEF Next, Recovery, Publication, SingleFile, Publishes

(* What the store's state is made of.                                      *)
LEMMA StoreStutters ==
  ASSUME LogicalRun' = LogicalRun, UNCHANGED <<tracks, halt, live>>
  PROVE  UNCHANGED Store!vars
  BY DEF Store!vars

(* The first write of tracks.json is the operation the intent records.     *)
LEMMA PublicationIsOperation ==
  ASSUME HaltInv, StoreInv, NEW p \in Commands, WriteTracks(p) \/ ReplayTracks(p), ~published
  PROVE  Store!Next
  <1>1. /\ intent # NoIntent /\ run = intent.beforeRun
        /\ LogicalRun = run /\ LogicalRun' = intent.afterRun
    BY TracksPublishedKeepsStore
  <1>2. UNCHANGED <<halt, live>>  BY DEF WriteTracks, ReplayTracks
  <1>3. /\ IsTracksDoc(tracks) /\ IsTracksDoc(intent.beforeTracks) /\ IsTracksDoc(intent.afterTracks)
        /\ DOMAIN tracks = DOMAIN intent.beforeTracks
        /\ \A t \in DOMAIN tracks :
             tracks[t] = intent.beforeTracks[t] \/ HaltOf(intent.beforeTracks[t], tracks[t])
    BY <1>1 DEF HaltInv, TypeOK, IsIntent, StoreInv, Unpublished
  <1>4. /\ DOMAIN tracks' = DOMAIN intent.afterTracks
        /\ \A t \in DOMAIN intent.afterTracks :
             \/ /\ tracks'[t] = intent.afterTracks[t]
                /\ t \in DOMAIN tracks => tracks[t] \in {intent.beforeTracks[t], intent.afterTracks[t]}
             \/ /\ t \in DOMAIN tracks /\ t \in DOMAIN intent.beforeTracks
                /\ tracks'[t] = tracks[t]
                /\ HaltOf(intent.beforeTracks[t], tracks[t])
    <2>1. CASE ReplayTracks(p)
      <3>1. TracksKnown /\ tracks' = RecoveredTracks
        BY <2>1 DEF ReplayTracks, StoreInv, Staged, StagedAt
      <3>2. QED  BY <1>1, <3>1, FirstReplay DEF HaltInv, StoreInv
    <2>2. CASE WriteTracks(p)
      <3>1. tracks = intent.beforeTracks  BY <2>2 DEF WriteTracks, StoreInv, Staged, StagedAt
      <3>2. QED  BY <1>3, <2>2, <3>1 DEF WriteTracks
    <2>3. QED  BY <2>1, <2>2
  <1>5. \A t \in DOMAIN intent.beforeTracks : intent.beforeTracks[t] \in Tracks
    BY <1>3 DEF IsTracksDoc
  <1>6. \A t \in DOMAIN tracks : tracks[t].dispatchId = intent.beforeTracks[t].dispatchId
    BY <1>3, <1>5 DEF HaltOf, Tracks
  <1>7. NoLiveWorker(intent.beforeTracks) => Store!NoLiveWorker
    BY <1>3, <1>6 DEF NoLiveWorker, Alive, Store!NoLiveWorker, Store!Alive
  <1>8. \A t \in DOMAIN tracks : HaltOf(intent.beforeTracks[t], tracks[t]) => tracks[t].state = "halted"
    BY <1>3, <1>5 DEF HaltOf, Tracks
  <1>9. CASE DispatchIntent(intent)
    <2>1. /\ intent.beforeRun.phase = "plan-approved" /\ intent.afterRun.phase = "dispatch-queued"
          /\ intent.afterRun.plan = intent.beforeRun.plan /\ DOMAIN intent.afterTracks = intent.beforeRun.plan
          /\ Store!NoLiveWorker
      BY <1>7, <1>9 DEF DispatchIntent
    <2>2. ASSUME NEW t \in intent.beforeRun.plan
          PROVE  \/ /\ tracks'[t].state = "queued"
                    /\ t \in DOMAIN tracks => tracks'[t].dispatchId > tracks[t].dispatchId
                 \/ t \in DOMAIN tracks /\ tracks[t].state = "halted" /\ tracks'[t] = tracks[t]
      <3>1. /\ intent.afterTracks[t].state = "queued"
            /\ t \in DOMAIN intent.beforeTracks =>
                 intent.afterTracks[t].dispatchId > intent.beforeTracks[t].dispatchId
        BY <1>9, <2>1, <2>2 DEF DispatchIntent
      <3>2. QED  BY <1>3, <1>4, <1>6, <1>8, <2>1, <2>2, <3>1
    <2>3. Store!Dispatch
      BY <1>1, <1>2, <1>4, <2>1, <2>2 DEF Store!Dispatch, Store!Move
    <2>4. QED  BY <2>3 DEF Store!Next
  <1>10. CASE PreviewIntent(intent)
    <2>1. /\ intent.beforeRun.phase = "dispatch-queued" /\ intent.afterRun.phase = "dry-run-preview"
          /\ intent.afterRun.plan = intent.beforeRun.plan /\ DOMAIN intent.afterTracks = DOMAIN tracks
      BY <1>3, <1>10 DEF PreviewIntent
    <2>2. ASSUME NEW t \in DOMAIN tracks
          PROVE  \/ tracks'[t] = tracks[t]
                 \/ tracks[t].state \in {"queued", "halted"} /\ tracks'[t] = [tracks[t] EXCEPT !.state = "preview"]
      <3>1. \/ intent.afterTracks[t] = intent.beforeTracks[t]
            \/ /\ intent.beforeTracks[t].state \in {"queued", "halted"}
               /\ intent.afterTracks[t] = [intent.beforeTracks[t] EXCEPT !.state = "preview"]
        BY <1>10, <2>1, <2>2 DEF PreviewIntent
      <3>2. CASE tracks'[t] = tracks[t]  BY <3>2
      <3>3. CASE tracks'[t] # tracks[t]
        <4>1. tracks'[t] = intent.afterTracks[t] /\ tracks[t] = intent.beforeTracks[t]
          BY <1>4, <2>1, <2>2, <3>3
        <4>2. QED  BY <3>1, <3>3, <4>1
      <3>4. QED  BY <3>2, <3>3
    <2>3. Store!Preview
      BY <1>1, <1>2, <1>4, <2>1, <2>2 DEF Store!Preview, Store!Move
    <2>4. QED  BY <2>3 DEF Store!Next
  <1>11. CASE RecoverIntent(intent)
    <2>1. /\ ~Terminal(intent.beforeRun.phase)
          /\ intent.afterRun.plan = intent.beforeRun.plan /\ DOMAIN intent.afterTracks = DOMAIN tracks
          /\ \/ intent.afterRun.phase \in {intent.beforeRun.phase, "dispatch-queued"}
             \/ /\ intent.beforeRun.phase \in {"plan-approved", "dispatch-queued", "running"}
                /\ intent.afterRun.phase = "awaiting-plan-approval"
                /\ Store!NoLiveWorker
      BY <1>3, <1>7, <1>11 DEF RecoverIntent
    <2>2. ASSUME NEW t \in DOMAIN tracks
          PROVE  \/ tracks'[t] = tracks[t]
                 \/ /\ tracks[t].state = "running" /\ ~Store!Alive(t)
                    /\ tracks'[t] \in {[tracks[t] EXCEPT !.state = s] : s \in {"queued", "settled"}}
      <3>1. \/ intent.afterTracks[t] = intent.beforeTracks[t]
            \/ /\ intent.beforeTracks[t].state = "running" /\ ~Alive(intent.beforeTracks, t)
               /\ \E s \in {"queued", "settled"} : intent.afterTracks[t] = [intent.beforeTracks[t] EXCEPT !.state = s]
        BY <1>11, <2>1, <2>2 DEF RecoverIntent
      <3>2. CASE tracks'[t] = tracks[t]  BY <3>2
      <3>3. CASE tracks'[t] # tracks[t]
        <4>1. tracks'[t] = intent.afterTracks[t] /\ tracks[t] = intent.beforeTracks[t]
          BY <1>4, <2>1, <2>2, <3>3
        <4>2. /\ tracks[t].state = "running" /\ ~Alive(tracks, t)
              /\ \E s \in {"queued", "settled"} : tracks'[t] = [tracks[t] EXCEPT !.state = s]
          BY <3>1, <3>3, <4>1 DEF Alive
        <4>3. QED  BY <4>2 DEF Alive, Store!Alive
      <3>4. QED  BY <3>2, <3>3
    <2>3. Store!Recover
      BY <1>1, <1>2, <1>4, <2>1, <2>2 DEF Store!Recover, Store!Move, Store!Terminal, Terminal
    <2>4. QED  BY <2>3 DEF Store!Next
  <1>12. CASE CloseIntent(intent)
    <2>1. /\ intent.afterRun.phase = "done" /\ intent.afterTracks = NoTracks /\ Store!NoLiveWorker
      BY <1>7, <1>12 DEF CloseIntent
    <2>2. tracks' = [t \in {} |-> 0]
      <3>1. DOMAIN tracks' = {}  BY <1>4, <2>1 DEF NoTracks
      <3>2. IsTracksDoc(tracks')
        BY <1>1, RecoveredIsDoc DEF WriteTracks, ReplayTracks, HaltInv, TypeOK, IsIntent
      <3>3. QED  BY <3>1, <3>2 DEF IsTracksDoc
    <2>3. Store!Close  BY <1>1, <1>2, <2>1, <2>2 DEF Store!Close
    <2>4. QED  BY <2>3 DEF Store!Next
  <1>13. QED  BY <1>1, <1>9, <1>10, <1>11, <1>12 DEF StoreInv, OneOperation

LEMMA StoreSteps ==
  ASSUME Patient, HaltInv, RecoveryInv, StoreInv, [Next]_vars
  PROVE  [Store!Next]_(Store!vars)
  <1>0. TypeOK /\ Staged /\ Awaited /\ ExecutorHeld /\ CallbackClean /\ NothingPending
    BY DEF HaltInv, RecoveryInv, StoreInv
  <1>a. ASSUME UNCHANGED <<files, halt, live>> PROVE UNCHANGED Store!vars
    BY <1>a, StoreStutters DEF files, LogicalRun
  <1>b. ASSUME DropIntent, LogicalRun = run, UNCHANGED <<run, tracks, halt, live>> PROVE UNCHANGED Store!vars
    BY <1>b, StoreStutters DEF DropIntent, LogicalRun
  <1>c. ASSUME intent = NoIntent, UNCHANGED intent PROVE LogicalRun = run /\ LogicalRun' = run'
    BY <1>c DEF LogicalRun
  <1>d. ASSUME NEW next, WriteRunFile(next), UNCHANGED intent
        PROVE  LogicalRun = run /\ LogicalRun' = run' /\ run' = [next EXCEPT !.updatedAt = clock]
    BY <1>c, <1>d DEF WriteRunFile
  <1>1. ASSUME NEW p \in Commands,
               \/ Enter(p) \/ TakeExecutor(p) \/ BeginTransaction(p) \/ Leave(p) \/ Crash(p)
               \/ LockTransaction(p) \/ NothingToRecover(p) \/ BeginReplay(p) \/ Conflict(p) \/ Recovered(p)
               \/ Reject(p) \/ ReadRun(p) \/ TransitionFails(p) \/ ReadTracks(p) \/ EndHalt(p)
        PROVE  UNCHANGED Store!vars
    BY <1>1, <1>a
       DEF Enter, TakeExecutor, BeginTransaction, Leave, Crash, LockTransaction, NothingToRecover, BeginReplay,
           Conflict, Recovered, Reject, ReadRun, TransitionFails, ReadTracks, EndHalt
  <1>2. ASSUME NEW p \in Commands, Supersede(p) \/ ReplayDone(p) \/ RemoveIntent(p)
        PROVE  UNCHANGED Store!vars
    <2>1. LogicalRun = run
      BY <1>0, <1>2 DEF Supersede, Superseded, RunKnown, ReplayDone, RemoveIntent, Staged, StagedAt, LogicalRun
    <2>2. QED  BY <1>2, <1>b, <2>1 DEF Supersede, ReplayDone, RemoveIntent
  <1>3. ASSUME NEW p \in Commands, ReplayTracks(p) \/ WriteTracks(p) PROVE [Store!Next]_(Store!vars)
    <2>1. CASE ~published  BY <1>3, <2>1, PublicationIsOperation
    <2>2. CASE published
      <3>1. ReplayTracks(p)  BY <1>0, <1>3, <2>2 DEF WriteTracks, Staged, StagedAt
      <3>2. UNCHANGED <<LogicalRun, tracks, halt, live>>
        BY <2>2, <3>1, ReplayAgainKeepsStore DEF ReplayTracks
      <3>3. QED  BY <3>2, StoreStutters
    <2>3. QED  BY <2>1, <2>2
  <1>4. ASSUME NEW p \in Commands, ReplayRun(p) \/ WriteRun(p) PROVE UNCHANGED Store!vars
    <2>1. intent # NoIntent /\ RunKnown /\ published
      BY <1>0, <1>4 DEF ReplayRun, WriteRun, HaltInv, WriterKnowsRun, Writing, InTransaction, Staged, StagedAt
    <2>2. run' = intent.afterRun /\ UNCHANGED <<tracks, intent, published, halt, live>>
      BY <1>4 DEF ReplayRun, WriteRun
    <2>3. LogicalRun' = LogicalRun  BY <2>1, <2>2 DEF LogicalRun, RunKnown
    <2>4. QED  BY <2>2, <2>3, StoreStutters
  <1>5. ASSUME NEW p \in Commands, Publishes(p) PROVE UNCHANGED Store!vars
    BY <1>0, <1>5, PublishKeepsStore, StoreStutters
  <1>6. ASSUME NEW p \in Commands, Transition(p) PROVE Store!Next
    <2>0. run \in Runs /\ UNCHANGED <<tracks, intent, halt, live>>  BY <1>0, <1>6 DEF Transition, TypeOK
    <2>1. CASE /\ run.phase \in {"awaiting-plan-approval", "plan-approved", "dry-run-preview", "awaiting-commit-approval"}
               /\ \E plan \in SUBSET Tasks \ {{}} :
                    WriteRunFile([run EXCEPT !.phase = "awaiting-plan-approval", !.plan = plan])
      <3>1. PICK plan \in SUBSET Tasks : WriteRunFile([run EXCEPT !.phase = "awaiting-plan-approval", !.plan = plan])
        BY <2>1
      <3>2. /\ LogicalRun = run /\ LogicalRun' = run'
            /\ run'.phase = "awaiting-plan-approval" /\ run'.plan = plan
        <4>1. /\ LogicalRun = run /\ LogicalRun' = run'
              /\ run' = [[run EXCEPT !.phase = "awaiting-plan-approval", !.plan = plan] EXCEPT !.updatedAt = clock]
          BY <1>d, <2>0, <3>1
        <4>2. QED  BY <2>0, <4>1 DEF Runs
      <3>3. Store!Plan  BY <2>0, <2>1, <3>2 DEF Store!Plan, Store!Move
      <3>4. QED  BY <3>3 DEF Store!Next
    <2>2. CASE /\ run.phase = "awaiting-plan-approval" /\ run.plan # {}
               /\ WriteRunFile([run EXCEPT !.phase = "plan-approved"])
      <3>1. /\ LogicalRun = run /\ LogicalRun' = run'
            /\ run'.phase = "plan-approved" /\ run'.plan = run.plan
        BY <1>d, <2>0, <2>2 DEF Runs
      <3>2. Store!Approve  BY <2>0, <2>2, <3>1 DEF Store!Approve, Store!Move
      <3>3. QED  BY <3>2 DEF Store!Next
    <2>3. QED  BY <1>6, <2>1, <2>2 DEF Transition
  <1>7. ASSUME NEW p \in Commands, SupersedePlan(p) PROVE Store!Next
    <2>1. /\ UNCHANGED <<tracks, intent, halt, live>> /\ run.phase \notin {"done", "halted"}
          /\ WriteRunFile([run EXCEPT !.phase = "awaiting-plan-approval", !.plan = {}])
      BY <1>7 DEF SupersedePlan
    <2>2. /\ LogicalRun = run /\ LogicalRun' = run'
          /\ run'.phase = "awaiting-plan-approval" /\ run'.plan = {}
      <3>1. /\ LogicalRun = run /\ LogicalRun' = run'
            /\ run' = [[run EXCEPT !.phase = "awaiting-plan-approval", !.plan = {}] EXCEPT !.updatedAt = clock]
        BY <1>d, <2>1
      <3>2. QED  BY <1>0, <3>1 DEF TypeOK, Runs
    <2>3. Store!SupersedePlan  BY <2>1, <2>2 DEF Store!SupersedePlan
    <2>4. QED  BY <2>3 DEF Store!Next
  <1>8. ASSUME NEW p \in Commands, StartWorkers(p) PROVE Store!Next
    <2>1. /\ UNCHANGED <<tracks, intent, halt, live>> /\ run.phase = "dispatch-queued"
          /\ WriteRunFile([run EXCEPT !.phase = "running"])
      BY <1>8 DEF StartWorkers
    <2>2. /\ LogicalRun = run /\ LogicalRun' = run' /\ run'.phase = "running" /\ run'.plan = run.plan
      BY <1>0, <1>d, <2>1 DEF TypeOK, Runs
    <2>3. Store!StartWorkers  BY <2>1, <2>2 DEF Store!StartWorkers, Store!Move
    <2>4. QED  BY <2>3 DEF Store!Next
  <1>9. ASSUME NEW p \in Commands, FinishWorkers(p) PROVE [Store!Next]_(Store!vars)
    <2>1. /\ pc[p] = "awaiting" /\ UNCHANGED <<tracks, intent, halt, live>>
          /\ \E outcome \in {"awaiting-commit-approval", "error", "running"} :
               WriteRunFile(IF Terminal(run.phase) THEN run ELSE [snap[p] EXCEPT !.phase = outcome])
      BY <1>9 DEF FinishWorkers
    <2>2. CASE Terminal(run.phase)
      <3>1. WriteRunFile(run)  BY <2>1, <2>2
      <3>2. /\ LogicalRun = run /\ LogicalRun' = run' /\ run'.phase = run.phase /\ run'.plan = run.plan
        BY <1>0, <1>d, <2>1, <3>1 DEF TypeOK, Runs
      <3>3. QED  BY <2>1, <3>2 DEF Store!vars
    <2>3. CASE ~Terminal(run.phase)
      <3>1. run = snap[p]  BY <1>0, <2>1, <2>3 DEF Awaited, AwaitedAt
      <3>2. PICK outcome \in {"awaiting-commit-approval", "error", "running"} :
              WriteRunFile([run EXCEPT !.phase = outcome])
        BY <2>1, <2>3, <3>1
      <3>3. /\ LogicalRun = run /\ LogicalRun' = run' /\ run'.phase = outcome /\ run'.plan = run.plan
        BY <1>0, <1>d, <2>1, <3>2 DEF TypeOK, Runs
      <3>4. Store!FinishWorkers
        BY <2>1, <2>3, <3>3 DEF Store!FinishWorkers, Store!Terminal, Terminal
      <3>5. QED  BY <3>4 DEF Store!Next
    <2>4. QED  BY <2>2, <2>3
  <1>10. ASSUME NEW p \in Commands, AppendHalt(p) PROVE Store!Next
    <2>1. halt' = TRUE /\ UNCHANGED <<LogicalRun, tracks, live>>
      BY <1>10 DEF AppendHalt, files, LogicalRun
    <2>2. Store!AppendHalt  BY <2>1 DEF Store!AppendHalt
    <2>3. QED  BY <2>2 DEF Store!Next
  <1>11. ASSUME NEW p \in Commands, HaltRun(p) PROVE [Store!Next]_(Store!vars)
    <2>1. CASE Terminal(run.phase)
      <3>1. UNCHANGED <<files, halt, live>>  BY <1>11, <2>1 DEF HaltRun, files
      <3>2. QED  BY <1>a, <3>1
    <2>2. CASE ~Terminal(run.phase)
      <3>1. /\ run' \in Runs /\ run'.phase = "halted" /\ UNCHANGED <<tracks, intent, published, halt, live>>
        BY <1>0, <1>11, <2>2 DEF HaltRun, TypeOK, Runs, Phases
      <3>2. run'.updatedAt = clock /\ clock \in Nat
        BY <1>0, <1>11, <2>2 DEF HaltRun, TypeOK, Runs
      <3>3. LogicalRun' = run'
        <4>1. intent # NoIntent => intent.beforeRun.updatedAt < clock  BY DEF StoreInv, Stamped
        <4>2. QED  BY <3>1, <3>2, <4>1 DEF LogicalRun
      <3>4. Store!HaltRun  BY <3>1, <3>3 DEF Store!HaltRun
      <3>5. QED  BY <3>4 DEF Store!Next
    <2>3. QED  BY <2>1, <2>2
  <1>12. ASSUME NEW t, MarkHalted(t), UNCHANGED <<run, intent, published, halt, live>>
         PROVE  [Store!Next]_(Store!vars)
    <2>1. LogicalRun' = LogicalRun  BY <1>12 DEF LogicalRun
    <2>2. CASE UNCHANGED tracks  BY <1>12, <2>1, <2>2, StoreStutters
    <2>3. CASE /\ t \in DOMAIN tracks /\ tracks[t].state \in {"queued", "running"}
               /\ tracks' = [tracks EXCEPT ![t].state = "halted"]
      <3>1. t \in Tasks  BY <1>0, <2>3 DEF TypeOK, IsTracksDoc
      <3>2. Store!HaltTrack(t)
        BY <1>12, <2>1, <2>3 DEF Store!HaltTrack, Store!ChangeTrack
      <3>3. QED  BY <3>1, <3>2 DEF Store!Next
    <2>4. QED  BY <1>12, <2>2, <2>3 DEF MarkHalted
  <1>13. ASSUME NEW p \in Commands, HaltTracks(p) PROVE [Store!Next]_(Store!vars)
    BY <1>12, <1>13 DEF HaltTracks
  <1>14. ASSUME NEW p \in Commands, NEW t \in Tasks, HaltTrack(p, t) PROVE [Store!Next]_(Store!vars)
    BY <1>12, <1>14 DEF HaltTrack
  <1>15. ASSUME NEW p \in Commands, NEW t \in Tasks, StartTrack(p, t) PROVE Store!Next
    <2>1. intent = NoIntent /\ UNCHANGED <<run, intent, halt>>
      BY <1>0, <1>15 DEF StartTrack, Awaited, AwaitedAt
    <2>2. LogicalRun = run /\ LogicalRun' = run'  BY <1>c, <2>1
    <2>3. Store!StartTrack(t)
      BY <1>15, <2>1, <2>2 DEF StartTrack, Queued, Store!StartTrack, Store!ChangeTrack, Store!Terminal, Terminal
    <2>4. QED  BY <2>3 DEF Store!Next
  <1>16. ASSUME NEW p \in Commands, NEW t \in Tasks, SettleTrack(p, t) PROVE [Store!Next]_(Store!vars)
    <2>1. intent = NoIntent /\ UNCHANGED <<run, intent, halt, live>>
      BY <1>0, <1>16 DEF SettleTrack, Awaited, AwaitedAt
    <2>2. LogicalRun = run /\ LogicalRun' = run'  BY <1>c, <2>1
    <2>3. CASE t \in DOMAIN tracks
      <3>1. tracks[t].state \in {"queued", "running"} /\ ~Store!Alive(t)
        BY <1>16 DEF SettleTrack, Alive, Store!Alive
      <3>2. Store!SettleTrack(t)
        BY <1>16, <2>1, <2>2, <2>3, <3>1 DEF SettleTrack, Store!SettleTrack, Store!ChangeTrack
      <3>3. QED  BY <3>2 DEF Store!Next
    <2>4. CASE t \notin DOMAIN tracks
      <3>1. tracks' = tracks
        BY <1>0, <1>16, <2>4 DEF SettleTrack, TypeOK, IsTracksDoc
      <3>2. QED  BY <2>1, <2>2, <3>1, StoreStutters
    <2>5. QED  BY <2>3, <2>4
  <1>17. ASSUME NEW w \in live, WorkerExit(w) PROVE Store!Next
    <2>1. live' = live \ {w} /\ UNCHANGED <<LogicalRun, tracks, halt>>
      BY <1>17 DEF WorkerExit, files, LogicalRun
    <2>2. Store!WorkerExit  BY <2>1 DEF Store!WorkerExit
    <2>3. QED  BY <2>2 DEF Store!Next
  <1>18. CASE UNCHANGED vars
    <2>1. UNCHANGED <<files, halt, live>>  BY <1>18 DEF vars, files
    <2>2. QED  BY <1>a, <2>1
  <1>19. QED
    BY <1>1, <1>2, <1>3, <1>4, <1>5, <1>6, <1>7, <1>8, <1>9, <1>10, <1>11, <1>13, <1>14, <1>15, <1>16, <1>17, <1>18
    DEF Next, Recovery, Publication, SingleFile, Publishes

LEMMA StoreStarts == Init => Store!Init
  BY DEF Init, Store!Init, LogicalRun, NoTracks

(* Both files change at once or not at all, whatever command dies between  *)
(* which two writes and whoever replays for it: each publication is one    *)
(* step of the store in which run and tracks are one value, provided that  *)
(* the single-file writers of run.json wait for a pending intent.          *)
THEOREM PublicationIsAtomic ==
  ASSUME Patient PROVE Spec => ImplementsStore
  <1>1. Init => HaltInv /\ RecoveryInv /\ StoreInv /\ Store!Init
    BY InitHolds, RecoveryInit, StoreInitially, StoreStarts
  <1>2. HaltInv /\ RecoveryInv /\ StoreInv /\ [Next]_vars => (HaltInv /\ RecoveryInv /\ StoreInv)'
    BY StepHolds, RecoveryNext, StoreNext
  <1>3. HaltInv /\ RecoveryInv /\ StoreInv /\ [Next]_vars => [Store!Next]_(Store!vars)
    BY StoreSteps
  <1>4. QED  BY <1>1, <1>2, <1>3, PTL DEF Spec, ImplementsStore, Store!Spec

=============================================================================
