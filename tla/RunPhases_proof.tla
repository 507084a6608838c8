---- MODULE RunPhases_proof ----
(***************************************************************************)
(* For any runs, tasks, sessions and bounds: a worker works on a task only *)
(* for the run that holds it, what is queued or runs was approved, and the *)
(* tables of the cockpit tell one story and leave a manager a next step.   *)
(* All follow from one invariant, PhaseInv: what every session knows of    *)
(* its run at every step (Knows), and what holds of a run whoever works on *)
(* it (RunKnown). An action of a session is one that leaves the other runs *)
(* as they are (Frame), so that only the session and its own run have to   *)
(* be looked at.                                                           *)
(***************************************************************************)
EXTENDS Cockpit, TLAPS

Executing == {"acquired", "launching", "awaiting", "concluding"}
Recorded == Executing \union {"freeing"}
Asking == {"approving", "recordCheckpoint"}
Reviewing == {"reviewing", "recordReview", "approving"}
Underway == {"dispatch-queued", "running"}

AtWork(q) == {t \in TaskIds : track[q][t] \in {"queued", "running", "ended"}}
Live(q) == {t \in TaskIds : track[q][t] \in {"running", "stubborn"}}
Stopped(q) == {t \in TaskIds : track[q][t] \in {"queued", "halted"}}

\* A run may work on t: it has the claim, or lost it in a way that is excused.
Held(q, t) == board[t].by = q \/ t \in excused[q]

\* No session is about to write a checkpoint for this approval any more.
Spent(q, id) ==
  /\ id # 0 /\ id <= used.approvals[q]
  /\ \A x \in Sessions : sess[x].step \in Asking /\ sess[x].r = q => sess[x].id # id

\* If the checkpoint is that of the approval, and fresh, the claims of the plan
\* it was made for are still there.
Vouched(q, id, gen, plan) ==
  cp[q].fresh /\ cp[q].id = id /\ cp[q].gen = gen => \A t \in plan : Held(q, t)

Endorsed(q, id, gen, plan) == Spent(q, id) /\ Vouched(q, id, gen, plan)

-----------------------------------------------------------------------------
(* The parts of the invariant. *)

\* A session that does something does it to a run.
Located == \A s \in Sessions : sess[s].step # "idle" => sess[s].r \in Runs

\* The executor lock of a run has one holder.
OneExecutor ==
  \A s, x \in Sessions :
    sess[s].r = sess[x].r /\ sess[s].step \in LockedSteps /\ sess[x].step \in LockedSteps => s = x

\* Every approval has a number of its own, and writes one checkpoint.
AskedOnce ==
  /\ \A q \in Runs : cp[q].id <= used.approvals[q]
  /\ \A s \in Sessions : sess[s].step \in Asking =>
       /\ sess[s].id # 0 /\ sess[s].id <= used.approvals[sess[s].r]
       /\ cp[sess[s].r].id # sess[s].id
       /\ \A x \in Sessions : /\ sess[x].step \in Asking /\ sess[x].r = sess[s].r
                              /\ sess[x].id = sess[s].id
                              => x = s

\* The dispatcher has read an approval; as long as it stands, its claims are held.
DispatcherKnows(s) ==
  LET r == sess[s].r IN
  sess[s].step = "dispatching" =>
    /\ Spent(r, sess[s].id)
    /\ run[r].approved = sess[s].id => Vouched(r, run[r].approved, run[r].gen, run[r].plan)

\* The executor's copy of the run covers what it started, whatever became of the run.
ExecutorKnows(s) ==
  LET r == sess[s].r IN
  sess[s].step \in Executing =>
    /\ Endorsed(r, sess[s].id, sess[s].gen, sess[s].tasks)
    /\ AtWork(r) \subseteq sess[s].tasks

\* What the launcher may still start is held.
LauncherKnows(s) ==
  LET r == sess[s].r IN
  /\ sess[s].step = "launching" /\ run[r].phase \notin TerminalPhases =>
       \A t \in Queued(r) : Held(r, t)
  /\ sess[s].step \in {"launching", "awaiting", "concluding"} => run[r].phase # "dispatch-queued"

\* A recovery requeues tasks of the plan, and leaves what is queued or halted.
RecovererKnows(s) ==
  LET r == sess[s].r IN
  sess[s].step = "recovering" =>
    /\ run[r].phase \in Underway => sess[s].tasks \subseteq run[r].plan
    /\ run[r].phase = "dispatch-queued" => Stopped(r) \ sess[s].tasks # {}

SweeperKnows(s) == sess[s].step = "sweeping" => Live(sess[s].r) = {}

\* Nobody publishes or approves an empty plan.
PlannerKnows(s) ==
  /\ sess[s].step = "publish" => sess[s].tasks # {}
  /\ sess[s].step \in Reviewing /\ sess[s].valid => run[sess[s].r].plan # {}

Knows(s) == /\ DispatcherKnows(s) /\ ExecutorKnows(s) /\ LauncherKnows(s)
            /\ RecovererKnows(s) /\ SweeperKnows(s) /\ PlannerKnows(s)

RunKnown(q) ==
  /\ run[q].phase \in Underway => /\ Endorsed(q, run[q].approved, run[q].gen, run[q].plan)
                                  /\ AtWork(q) \subseteq run[q].plan
  /\ run[q].phase = "dispatch-queued" => Stopped(q) # {}
  /\ run[q].phase = "plan-approved" => run[q].approved # 0 /\ run[q].plan # {}
  /\ run[q].exec = "live" => \E s \in Sessions : sess[s].r = q /\ sess[s].step \in Recorded
  /\ \A t \in Live(q) : Held(q, t)

\* A claim lapses in the hands of its run, which is excused from then on; and the
\* board's tasks have no dependencies.
BoardKnown ==
  \A t \in TaskIds : /\ board[t].lapsed /\ board[t].by # NoRun => t \in excused[board[t].by]
                     /\ board[t].deps = {}

PhaseInv == /\ TypeOK /\ Located /\ OneExecutor /\ AskedOnce /\ BoardKnown
            /\ (\A s \in Sessions : Knows(s)) /\ (\A q \in Runs : RunKnown(q))

-----------------------------------------------------------------------------
(* What an action leaves alone. *)

\* A session to which nothing happens, but that its knowledge gets out of date.
Same(x) ==
  /\ sess'[x].step = sess[x].step /\ sess'[x].r = sess[x].r /\ sess'[x].id = sess[x].id
  /\ sess'[x].gen = sess[x].gen /\ sess'[x].tasks = sess[x].tasks
  /\ sess'[x].valid => /\ sess[x].valid
                       /\ sess[x].r \in Runs => run'[sess[x].r].plan = run[sess[x].r].plan

\* A session that goes on, without taking up one of the steps that know something.
Turns(x) ==
  /\ sess'[x].step # "idle" => sess'[x].r \in Runs
  /\ sess'[x].step \in LockedSteps =>
       \/ sess[x].step \in LockedSteps /\ sess'[x].r = sess[x].r
       \/ ExecutorFree(sess'[x].r)
  /\ sess'[x].step \in Asking =>
       \/ sess[x].step \in Asking /\ sess'[x].r = sess[x].r /\ sess'[x].id = sess[x].id
       \/ /\ sess'[x].id = used.approvals[sess'[x].r] + 1
          /\ used'.approvals[sess'[x].r] = sess'[x].id

\* The checkpoint stays as it is, or is no argument for anything.
FileStep(q) ==
  \/ cp'[q] = cp[q] /\ \A t \in TaskIds : Held(q, t) => Held(q, t)'
  \/ cp'[q].id = cp[q].id /\ ~cp'[q].fresh
  \/ cp'[q].id = 0
  \/ \E s \in Sessions : /\ sess[s].step \in Asking /\ sess[s].r = q /\ cp'[q].id = sess[s].id
                         /\ sess'[s].step \notin Asking

\* Session s holds the executor lock of q, and is not launching.
Locks(s, q) == s \in Sessions /\ sess[s].r = q /\ sess[s].step \in LockedSteps \ {"launching"}

RunStep(s, q) ==
  \/ /\ run'[q].phase = run[q].phase /\ run'[q].approved = run[q].approved
     /\ run'[q].gen = run[q].gen /\ run'[q].plan = run[q].plan
  \/ /\ run'[q].phase \notin Underway
     /\ run'[q].phase \in TerminalPhases \/ run[q].phase \notin TerminalPhases
        \/ Queued(q)' = {} \/ Locks(s, q)
     /\ \/ run'[q].approved = 0
        \/ \E x \in Sessions : sess[x].step \in Asking /\ sess[x].r = q /\ run'[q].approved = sess[x].id
        \/ run'[q].approved = run[q].approved /\ run'[q].gen = run[q].gen /\ run'[q].plan = run[q].plan
     /\ run'[q].phase = "plan-approved" => run'[q].approved # 0 /\ run'[q].plan # {}

ExecStep(q) ==
  run'[q].exec = "live" => \/ \E s \in Sessions : sess'[s].r = q /\ sess'[s].step \in Recorded
                           \/ /\ run[q].exec = "live"
                              /\ \A s \in Sessions : sess[s].r = q /\ sess[s].step \in Recorded => Same(s)

\* Work ends: nothing is queued, started or put to work.
TrackStep(q) ==
  /\ AtWork(q)' \subseteq AtWork(q) /\ Queued(q)' \subseteq Queued(q) /\ Live(q)' \subseteq Live(q)
  /\ run'[q].phase = "dispatch-queued" => Stopped(q) \subseteq Stopped(q)'

\* What is worked on stays held; what is only queued, unless the run has ended.
HeldStep(s, q) ==
  /\ \A t \in Live(q)' : Held(q, t)'
  /\ run'[q].phase \in TerminalPhases \/ Locks(s, q) \/ \A t \in TaskIds : Held(q, t) => Held(q, t)'

Frame(s, q) == RunStep(s, q) /\ ExecStep(q) /\ TrackStep(q) /\ HeldStep(s, q)

\* One session moves, or none; approvals are only counted up.
OnlyMoves(s) ==
  /\ \A x \in Sessions : Same(x) \/ (x = s /\ Turns(x))
  /\ \A q \in Runs : used'.approvals[q] >= used.approvals[q] /\ FileStep(q)

-----------------------------------------------------------------------------
(* What holds after an action that leaves a run alone. *)

\* The steps that need the executor lock.
LEMMA StepKinds ==
  /\ Recorded \subseteq LockedSteps /\ Executing \subseteq Recorded
  /\ {"dispatching", "launching", "awaiting", "concluding", "recovering", "sweeping"} \subseteq LockedSteps
  /\ \A st \in Reviewing \union Asking \union {"publish", "idle"} : st \notin LockedSteps
  /\ "idle" \notin Asking \union Reviewing /\ "publish" \notin Reviewing
<1> USE DEF Recorded, Executing, LockedSteps
<1>1. Recorded \subseteq LockedSteps
  OBVIOUS
<1>2. Executing \subseteq Recorded
  OBVIOUS
<1>3. {"dispatching", "launching", "awaiting", "concluding", "recovering", "sweeping"} \subseteq LockedSteps
  OBVIOUS
<1>4. \A st \in Reviewing \union Asking \union {"publish", "idle"} : st \notin LockedSteps
  BY DEF Reviewing, Asking
<1>5. "idle" \notin Asking \union Reviewing /\ "publish" \notin Reviewing
  BY DEF Reviewing, Asking
<1> QED
  BY <1>1, <1>2, <1>3, <1>4, <1>5

\* The executor lock has one holder after every action of one session.
LEMMA LockKept ==
  ASSUME NEW s, OneExecutor, OnlyMoves(s)
  PROVE  OneExecutor'
<1> SUFFICES ASSUME NEW x \in Sessions, NEW y \in Sessions, x # y,
                    sess'[x].r = sess'[y].r, sess'[x].step \in LockedSteps, sess'[y].step \in LockedSteps
             PROVE  FALSE
  BY DEF OneExecutor
<1>1. ASSUME NEW a \in Sessions, NEW b \in Sessions, a # b, Same(a), sess[b].r = sess'[b].r,
             sess'[a].r = sess'[b].r, sess'[a].step \in LockedSteps, sess'[b].step \in LockedSteps
      PROVE  sess[b].step \notin LockedSteps
  BY <1>1 DEF OneExecutor, Same
<1>2. ASSUME NEW a \in Sessions, NEW b \in Sessions, a # b, Same(a), Turns(b),
             sess'[a].r = sess'[b].r, sess'[a].step \in LockedSteps, sess'[b].step \in LockedSteps
      PROVE  FALSE
  <2>1. sess[a].r = sess'[b].r /\ sess[a].step \in LockedSteps
    BY <1>2 DEF Same
  <2>2. sess[b].step \in LockedSteps /\ sess'[b].r = sess[b].r
    BY <1>2, <2>1 DEF Turns, ExecutorFree
  <2> QED
    BY <1>2, <2>1, <2>2 DEF OneExecutor
<1> QED
  BY <1>1, <1>2 DEF OnlyMoves, Same

\* Approval numbers stay unique, and none is used for a second checkpoint.
LEMMA AskedKept ==
  ASSUME NEW s, TypeOK, TypeOK', Located, AskedOnce, OnlyMoves(s)
  PROVE  AskedOnce'
<1> DEFINE Writer(q, y) == sess[y].step \in Asking /\ sess[y].r = q /\ cp'[q].id = sess[y].id
                           /\ sess'[y].step \notin Asking
<1>1. \A q \in Runs : used'.approvals[q] \in Nat /\ used.approvals[q] \in Nat
                      /\ used'.approvals[q] >= used.approvals[q] /\ cp[q].id \in Nat
  BY DEF TypeOK, CheckpointType, Count, OnlyMoves
<1>2. \A x \in Sessions : sess[x].step \in Asking =>
        sess[x].r \in Runs /\ sess[x].id \in Nat /\ sess[x].id # 0 /\ sess[x].id <= used.approvals[sess[x].r]
  BY DEF TypeOK, SessionType, AskedOnce, Located, Asking
<1>3. \A q \in Runs : cp'[q].id = cp[q].id \/ cp'[q].id = 0 \/ \E y \in Sessions : Writer(q, y)
  BY DEF OnlyMoves, FileStep
<1>4. \A q \in Runs : cp'[q].id <= used'.approvals[q]
  BY <1>1, <1>2, <1>3 DEF AskedOnce
<1>5. ASSUME NEW x \in Sessions, sess'[x].step \in Asking
      PROVE  \/ sess[x].step \in Asking /\ sess'[x].r = sess[x].r /\ sess'[x].id = sess[x].id
             \/ /\ x = s /\ sess'[x].r \in Runs /\ sess'[x].id = used.approvals[sess'[x].r] + 1
                /\ used'.approvals[sess'[x].r] = sess'[x].id
  BY <1>5 DEF OnlyMoves, Same, Turns, Asking
<1>6. ASSUME NEW x \in Sessions, sess'[x].step \in Asking
      PROVE  sess'[x].r \in Runs /\ sess'[x].id # 0 /\ sess'[x].id <= used'.approvals[sess'[x].r]
  BY <1>1, <1>2, <1>5, <1>6
<1>7. ASSUME NEW x \in Sessions, sess'[x].step \in Asking
      PROVE  cp'[sess'[x].r].id # sess'[x].id
  <2> DEFINE q == sess'[x].r
  <2>1. q \in Runs /\ sess'[x].id # 0
    BY <1>6, <1>7
  <2>2. cp[q].id # sess'[x].id
    BY <1>1, <1>2, <1>5, <1>7, <2>1 DEF AskedOnce
  <2>3. ASSUME NEW y \in Sessions, Writer(q, y) PROVE sess[y].id # sess'[x].id
    <3>1. y # x
      BY <1>7, <2>3
    <3> QED
      BY <1>1, <1>2, <1>5, <1>7, <2>1, <2>3, <3>1 DEF AskedOnce
  <2> QED
    BY <1>3, <2>1, <2>2, <2>3
<1>8. ASSUME NEW x \in Sessions, NEW y \in Sessions, sess'[x].step \in Asking, sess'[y].step \in Asking,
             sess'[y].r = sess'[x].r, sess'[y].id = sess'[x].id
      PROVE  y = x
  <2>1. CASE x = s \/ y = s
    BY <1>1, <1>2, <1>5, <1>8, <2>1 DEF AskedOnce
  <2>2. CASE x # s /\ y # s
    BY <1>5, <1>8, <2>2 DEF AskedOnce
  <2> QED
    BY <2>1, <2>2
<1> QED
  BY <1>4, <1>6, <1>7, <1>8 DEF AskedOnce

\* An approval nobody asks for any more is never asked for again.
LEMMA SpentKept ==
  ASSUME NEW s, TypeOK, TypeOK', OnlyMoves(s), NEW q \in Runs, NEW id \in Nat, Spent(q, id)
  PROVE  Spent(q, id)'
<1>1. used'.approvals[q] \in Nat /\ used.approvals[q] \in Nat /\ used'.approvals[q] >= used.approvals[q]
  BY DEF TypeOK, CheckpointType, Count, OnlyMoves
<1>2. ASSUME NEW x \in Sessions, sess'[x].step \in Asking, sess'[x].r = q
      PROVE  sess'[x].id # id
  BY <1>1, <1>2 DEF OnlyMoves, Same, Turns, Spent
<1> QED
  BY <1>1, <1>2 DEF Spent

\* Nor does a checkpoint come to vouch for what is not held.
LEMMA VouchedKept ==
  ASSUME NEW s, OnlyMoves(s), NEW q \in Runs, NEW id, NEW gen, NEW plan \in SUBSET TaskIds,
         Spent(q, id), Vouched(q, id, gen, plan)
  PROVE  Vouched(q, id, gen, plan)'
BY DEF OnlyMoves, FileStep, Spent, Vouched

LEMMA EndorsedKept ==
  ASSUME NEW s, TypeOK, TypeOK', OnlyMoves(s), NEW q \in Runs, NEW id \in Nat, NEW gen,
         NEW plan \in SUBSET TaskIds, Endorsed(q, id, gen, plan)
  PROVE  Endorsed(q, id, gen, plan)'
BY SpentKept, VouchedKept DEF Endorsed

\* What holds of a run still does.
LEMMA RunKept ==
  ASSUME NEW s, PhaseInv, TypeOK', OnlyMoves(s), NEW q \in Runs, Frame(s, q)
  PROVE  RunKnown(q)'
<1>1. run[q].approved \in Nat /\ run[q].plan \subseteq TaskIds
  BY DEF PhaseInv, TypeOK, RunType
<1>2. RunKnown(q) /\ TypeOK
  BY DEF PhaseInv
<1>3. ASSUME run'[q].phase \in Underway
      PROVE  /\ Endorsed(q, run[q].approved, run[q].gen, run[q].plan)'
             /\ AtWork(q)' \subseteq run'[q].plan
  <2>1. /\ run'[q].phase = run[q].phase /\ run'[q].approved = run[q].approved
        /\ run'[q].gen = run[q].gen /\ run'[q].plan = run[q].plan
    BY <1>3 DEF Frame, RunStep
  <2>2. Endorsed(q, run[q].approved, run[q].gen, run[q].plan)
    BY <1>2, <1>3, <2>1 DEF RunKnown
  <2>3. ASSUME NEW id \in Nat, NEW gen, NEW plan \in SUBSET TaskIds, Endorsed(q, id, gen, plan)
        PROVE  Endorsed(q, id, gen, plan)'
    BY <1>2, <2>3, EndorsedKept
  <2>4. Endorsed(q, run[q].approved, run[q].gen, run[q].plan)'
    BY <1>1, <2>1, <2>2, <2>3 DEF Endorsed, Spent, Vouched
  <2> QED
    BY <1>2, <1>3, <2>1, <2>4 DEF RunKnown, Frame, TrackStep
<1>4. run'[q].phase = "dispatch-queued" => Stopped(q)' # {}
  BY <1>2 DEF RunKnown, Frame, RunStep, TrackStep, Underway
<1>5. run'[q].phase = "plan-approved" => run'[q].approved # 0 /\ run'[q].plan # {}
  BY <1>2 DEF RunKnown, Frame, RunStep
<1>6. run'[q].exec = "live" => \E x \in Sessions : sess'[x].r = q /\ sess'[x].step \in Recorded
  BY <1>2 DEF RunKnown, Frame, ExecStep, Same
<1>7. \A t \in Live(q)' : Held(q, t)'
  BY DEF Frame, HeldStep
<1> QED
  BY <1>3, <1>4, <1>5, <1>6, <1>7 DEF RunKnown

\* What a session knows that does nothing still holds, if its run is left alone or
\* it does not hold the executor lock.
LEMMA KnowsKept ==
  ASSUME NEW s, PhaseInv, TypeOK', OnlyMoves(s), NEW x \in Sessions, Same(x),
         sess[x].step \in LockedSteps => Frame(s, sess[x].r)
  PROVE  Knows(x)'
<1> PICK r : r = sess[x].r
  OBVIOUS
<1>1. Knows(x) /\ TypeOK /\ OneExecutor
  BY DEF PhaseInv
<1>2. sess[x].step # "idle" => r \in Runs
  BY DEF PhaseInv, Located
<1>3. sess'[x].step = sess[x].step /\ sess'[x].r = r /\ sess'[x].id = sess[x].id
      /\ sess'[x].gen = sess[x].gen /\ sess'[x].tasks = sess[x].tasks
  BY DEF Same
<1>4. sess[x].id \in Nat /\ sess[x].gen \in Nat /\ sess[x].tasks \in SUBSET TaskIds
  BY <1>1 DEF TypeOK, SessionType
<1>5. ASSUME sess[x].step = "dispatching" PROVE DispatcherKnows(x)'
  <2>1. r \in Runs /\ Frame(s, r)
    BY <1>2, <1>5, StepKinds
  <2>2. run[r].plan \in SUBSET TaskIds /\ run[r].approved \in Nat /\ run[r].gen \in Nat
    BY <1>1, <2>1 DEF TypeOK, RunType
  <2>3. Spent(r, sess[x].id) /\ (run[r].approved = sess[x].id => Vouched(r, run[r].approved, run[r].gen, run[r].plan))
    BY <1>1, <1>5 DEF Knows, DispatcherKnows
  <2>4. ASSUME NEW id \in Nat, NEW gen, NEW plan \in SUBSET TaskIds, Spent(r, id)
        PROVE  Spent(r, id)' /\ (Vouched(r, id, gen, plan) => Vouched(r, id, gen, plan)')
    BY <1>1, <2>1, <2>4, SpentKept, VouchedKept
  <2>5. Spent(r, sess[x].id)'
    BY <1>3, <1>4, <2>3, <2>4 DEF Spent
  <2>6. ASSUME run'[r].approved = sess[x].id
        PROVE  /\ run[r].approved = sess[x].id /\ run'[r].gen = run[r].gen /\ run'[r].plan = run[r].plan
    BY <2>1, <2>3, <2>6 DEF Frame, RunStep, Spent
  <2>7. ASSUME run'[r].approved = sess[x].id PROVE Vouched(r, run[r].approved, run[r].gen, run[r].plan)'
    <3> PICK id \in Nat, gen \in Nat, plan \in SUBSET TaskIds :
             id = run[r].approved /\ gen = run[r].gen /\ plan = run[r].plan
      BY <2>2
    <3>1. Vouched(r, id, gen, plan)'
      BY <2>3, <2>4, <2>6, <2>7
    <3> QED
      BY <2>6, <2>7, <3>1 DEF Vouched
  <2> QED
    BY <1>3, <2>5, <2>7 DEF DispatcherKnows
<1>6. ASSUME sess[x].step \in Executing PROVE ExecutorKnows(x)'
  <2>1. r \in Runs /\ Frame(s, r)
    BY <1>2, <1>6, StepKinds DEF Executing
  <2>2. Endorsed(r, sess[x].id, sess[x].gen, sess[x].tasks) /\ AtWork(r) \subseteq sess[x].tasks
    BY <1>1, <1>6 DEF Knows, ExecutorKnows
  <2>3. ASSUME NEW id \in Nat, NEW gen, NEW plan \in SUBSET TaskIds, Endorsed(r, id, gen, plan)
        PROVE  Endorsed(r, id, gen, plan)'
    BY <1>1, <2>1, <2>3, EndorsedKept
  <2>4. Endorsed(r, sess[x].id, sess[x].gen, sess[x].tasks)'
    <3> PICK id \in Nat, gen \in Nat, plan \in SUBSET TaskIds :
             id = sess[x].id /\ gen = sess[x].gen /\ plan = sess[x].tasks
      BY <1>4
    <3>1. Endorsed(r, id, gen, plan)'
      BY <2>2, <2>3
    <3> QED
      BY <1>3, <3>1
  <2> QED
    BY <1>3, <2>1, <2>2, <2>4 DEF ExecutorKnows, Frame, TrackStep
<1>7. ASSUME sess[x].step = "launching", run'[r].phase \notin TerminalPhases
      PROVE  \A t \in Queued(r)' : Held(r, t)'
  <2>1. r \in Runs /\ Frame(s, r) /\ ~Locks(s, r)
    BY <1>1, <1>2, <1>7, StepKinds DEF Locks, OneExecutor
  <2>2. run[r].phase \notin TerminalPhases \/ Queued(r)' = {}
    BY <1>7, <2>1 DEF Frame, RunStep
  <2>3. run[r].phase \notin TerminalPhases => \A t \in Queued(r) : Held(r, t)
    BY <1>1, <1>7 DEF Knows, LauncherKnows
  <2> QED
    BY <1>7, <2>1, <2>2, <2>3 DEF Frame, HeldStep, TrackStep, Queued
<1>8. ASSUME sess[x].step \in {"launching", "awaiting", "concluding"} PROVE run'[r].phase # "dispatch-queued"
  <2>1. Frame(s, r)
    BY <1>8, StepKinds
  <2> QED
    BY <1>1, <1>8, <2>1 DEF Knows, LauncherKnows, Frame, RunStep, Underway
<1>9. ASSUME sess[x].step = "recovering" PROVE RecovererKnows(x)'
  <2>1. Frame(s, r)
    BY <1>9, StepKinds
  <2>2. run'[r].phase \in Underway => run'[r].phase = run[r].phase /\ run'[r].plan = run[r].plan
    BY <2>1 DEF Frame, RunStep
  <2> QED
    BY <1>1, <1>3, <1>9, <2>1, <2>2 DEF Knows, RecovererKnows, Frame, TrackStep, Underway
<1>10. sess[x].step = "sweeping" => SweeperKnows(x)'
  BY <1>1, <1>3, StepKinds DEF Knows, SweeperKnows, Frame, TrackStep
<1>11. PlannerKnows(x)'
  BY <1>1, <1>2, <1>3 DEF Knows, PlannerKnows, Same, Reviewing
<1> QED
  BY <1>3, <1>5, <1>6, <1>7, <1>8, <1>9, <1>10, <1>11
     DEF Knows, DispatcherKnows, ExecutorKnows, LauncherKnows, RecovererKnows, SweeperKnows

\* An action of session s preserves the invariant, if it leaves every run but the one
\* it holds the lock of alone, and it is shown what becomes of that one.
LEMMA Kept ==
  ASSUME NEW s, PhaseInv, TypeOK', OnlyMoves(s), BoardKnown',
         \A q \in Runs : \/ Frame(s, q)
                         \/ /\ RunKnown(q)'
                            /\ \A x \in Sessions : sess[x].r = q /\ sess[x].step \in LockedSteps => x = s,
         s \in Sessions => Knows(s)' \/ (Same(s) /\ Frame(s, sess[s].r))
  PROVE  PhaseInv'
<1>1. TypeOK /\ Located /\ OneExecutor /\ AskedOnce
  BY DEF PhaseInv
<1>2. Located'
  BY <1>1 DEF Located, OnlyMoves, Same, Turns
<1>3. OneExecutor' /\ AskedOnce'
  BY <1>1, LockKept, AskedKept
<1>4. ASSUME NEW x \in Sessions PROVE Knows(x)'
  <2>1. CASE x = s
    BY <2>1, KnowsKept
  <2>2. CASE x # s
    <3>1. Same(x)
      BY <2>2 DEF OnlyMoves
    <3>2. sess[x].step \in LockedSteps => sess[x].r \in Runs
      BY <1>1, StepKinds DEF Located
    <3>3. sess[x].step \in LockedSteps => Frame(s, sess[x].r)
      BY <2>2, <3>2
    <3> QED
      BY <3>1, <3>3, KnowsKept
  <2> QED
    BY <2>1, <2>2
<1>5. ASSUME NEW q \in Runs PROVE RunKnown(q)'
  BY RunKept
<1> QED
  BY <1>2, <1>3, <1>4, <1>5 DEF PhaseInv

-----------------------------------------------------------------------------
(* Type correctness. *)

LEMMA IdleTyped == Idle \in SessionType /\ \A r \in Runs, st \in Steps, v \in BOOLEAN :
                     [Idle EXCEPT !.step = st, !.r = r, !.valid = v] \in SessionType
<1>1. Idle \in SessionType
  BY DEF Idle, SessionType, Steps
<1>2. ASSUME NEW v \in SessionType, NEW r \in Runs, NEW st \in Steps, NEW b \in BOOLEAN
      PROVE  [v EXCEPT !.step = st, !.r = r, !.valid = b] \in SessionType
  BY DEF SessionType
<1> QED
  BY <1>1, <1>2

LEMMA WritesTyped ==
  ASSUME NEW s \in Sessions, NEW r \in Runs, NEW new \in RunType, NEW st \in Steps,
         run \in [Runs -> RunType], sess \in [Sessions -> SessionType], Writes(s, r, new, st)
  PROVE  run' \in [Runs -> RunType] /\ sess' \in [Sessions -> SessionType]
<1>1. run' \in [Runs -> RunType]
  BY DEF Writes
<1>2. ASSUME NEW v \in SessionType
      PROVE  [v EXCEPT !.valid = FALSE] \in SessionType /\ [v EXCEPT !.step = st, !.valid = st \in Unpublished] \in SessionType
  <2>1. ASSUME NEW b \in BOOLEAN PROVE [v EXCEPT !.step = st, !.valid = b] \in SessionType
    BY DEF SessionType
  <2>2. (st \in Unpublished) \in BOOLEAN
    OBVIOUS
  <2> QED
    BY <2>1, <2>2, Zenon DEF SessionType
<1>3. Idle \in SessionType
  BY IdleTyped
<1>4. ASSUME NEW x \in Sessions
      PROVE  (IF x = s THEN IF st = "idle" THEN Idle ELSE [sess[s] EXCEPT !.step = st, !.valid = st \in Unpublished]
              ELSE IF sess[x].r = r THEN [sess[x] EXCEPT !.valid = FALSE] ELSE sess[x]) \in SessionType
  <2>1. CASE x = s
    BY <1>2, <1>3, <2>1
  <2>2. CASE x # s
    BY <1>2, <2>2
  <2> QED
    BY <2>1, <2>2
<1>5. sess' \in [Sessions -> SessionType]
  BY <1>4 DEF Writes
<1> QED
  BY <1>1, <1>5

LEMMA StepTyped ==
  ASSUME NEW s \in Sessions, sess \in [Sessions -> SessionType]
  PROVE  /\ End(s) => sess' \in [Sessions -> SessionType]
         /\ \A st \in Steps : Goto(s, st) => sess' \in [Sessions -> SessionType]
<1>1. ASSUME NEW st \in Steps PROVE [sess[s] EXCEPT !.step = st] \in SessionType
  BY DEF SessionType
<1> QED
  BY <1>1, IdleTyped DEF End, Goto

LEMMA OutdatedTyped ==
  ASSUME NEW ss \in [Sessions -> SessionType], NEW b \in BOOLEAN
  PROVE  Outdated(ss, b) \in [Sessions -> SessionType]
<1>1. ASSUME NEW x \in Sessions PROVE [ss[x] EXCEPT !.fresh = FALSE] \in SessionType
  BY DEF SessionType
<1> QED
  BY <1>1 DEF Outdated

LEMMA BoardWrittenTyped ==
  ASSUME cp \in [Runs -> CheckpointType], NEW new \in BoardType, BoardWritten(new)
  PROVE  board' \in BoardType /\ cp' \in [Runs -> CheckpointType]
BY DEF BoardWritten, CheckpointType

LEMMA BoardTyped ==
  ASSUME NEW b \in BoardType
  PROVE  /\ \A r \in Runs : Release(b, r) \in BoardType
         /\ \A r \in Runs, t \in TaskIds : ReleaseTasks(b, r, {t}) \in BoardType
         /\ \A t \in TaskIds, st \in TaskStates : SetState(b, t, st) \in BoardType
         /\ \A r \in Runs, S \in SUBSET TaskIds : Claim(b, r, S) \in BoardType
         /\ \A t \in TaskIds : Lapse(b, t) \in BoardType
<1>1. ASSUME NEW r \in Runs, NEW S \in SUBSET TaskIds PROVE ReleaseTasks(b, r, S) \in BoardType
  <2>1. ASSUME NEW v \in TaskType PROVE [v EXCEPT !.by = NoRun, !.lapsed = FALSE, !.prev = NoRun] \in TaskType
    BY DEF TaskType
  <2> QED
    BY <2>1 DEF ReleaseTasks, BoardType
<1>2. ASSUME NEW t \in TaskIds, NEW st \in TaskStates PROVE SetState(b, t, st) \in BoardType
  <2> DEFINE fails == CASE st = "Failed" -> b[t].fails + 1 [] st = "Done" -> 0 [] OTHER -> b[t].fails
  <2>1. fails \in Nat
    BY DEF BoardType, TaskType
  <2> HIDE DEF fails
  <2>2. ASSUME NEW v \in TaskType PROVE [v EXCEPT !.state = st, !.fails = fails] \in TaskType
    BY <2>1, <2>2 DEF TaskType
  <2>3. [b EXCEPT ![t] = [b[t] EXCEPT !.state = st, !.fails = fails]] \in BoardType
    BY <2>2 DEF BoardType
  <2>4. SetState(b, t, st) = [b EXCEPT ![t] = [b[t] EXCEPT !.state = st, !.fails = fails]]
    BY DEF SetState, fails, BoardType, TaskType
  <2> QED
    BY <2>3, <2>4
<1>3. ASSUME NEW r \in Runs, NEW S \in SUBSET TaskIds PROVE Claim(b, r, S) \in BoardType
  <2>1. ASSUME NEW v \in TaskType, NEW p \in Runs \union {NoRun}
        PROVE  [v EXCEPT !.by = r, !.lapsed = FALSE, !.prev = p] \in TaskType
    BY DEF TaskType
  <2>2. ASSUME NEW t \in TaskIds
        PROVE  (IF b[t].by \notin {NoRun, r} /\ b[t].lapsed THEN b[t].by ELSE b[t].prev) \in Runs \union {NoRun}
    BY DEF BoardType, TaskType
  <2> QED
    BY <2>1, <2>2 DEF Claim, BoardType
<1>4. ASSUME NEW t \in TaskIds PROVE Lapse(b, t) \in BoardType
  <2>1. ASSUME NEW v \in TaskType PROVE [v EXCEPT !.lapsed = TRUE] \in TaskType
    BY DEF TaskType
  <2> QED
    BY <2>1 DEF Lapse, BoardType
<1> QED
  BY <1>1, <1>2, <1>3, <1>4 DEF Release, BoardType

\* The values a command writes into run.json.
LEMMA RunTyped ==
  ASSUME NEW v \in RunType
  PROVE  /\ \A ph \in Phases : [v EXCEPT !.phase = ph] \in RunType
         /\ \A ph \in Phases, n \in Nat : [v EXCEPT !.phase = ph, !.approved = n] \in RunType
         /\ \A ph \in Phases, S \in SUBSET TaskIds, n \in Nat :
              [v EXCEPT !.phase = ph, !.approved = 0, !.plan = S, !.gen = n] \in RunType
         /\ \A ex \in {"none", "live", "dead"} : [v EXCEPT !.exec = ex] \in RunType
         /\ [v EXCEPT !.phase = "done", !.exec = "none", !.plan = {}, !.gen = 0, !.approved = 0] \in RunType
<1> "done" \in Phases
  BY DEF Phases
<1> QED
  BY DEF RunType

\* What a session knows of itself when it is doing something.
LEMMA AtStep ==
  ASSUME NEW s \in Sessions, TypeOK, Located
  PROVE  /\ sess[s].step # "idle" => sess[s].r \in Runs /\ run[sess[s].r] \in RunType
         /\ sess[s] \in SessionType /\ sess[s].id \in Nat /\ sess[s].gen \in Nat
         /\ sess[s].tasks \in SUBSET TaskIds /\ sess[s].fresh \in BOOLEAN
BY DEF TypeOK, Located, SessionType

\* A session goes to a step with something new in its hands.
LEMMA HandsTyped ==
  ASSUME NEW r \in Runs, NEW st \in Steps
  PROVE  /\ [Idle EXCEPT !.step = st, !.r = r] \in SessionType
         /\ \A v \in BOOLEAN : [Idle EXCEPT !.step = st, !.r = r, !.valid = v] \in SessionType
         /\ \A n \in Nat, S \in SUBSET TaskIds :
              [Idle EXCEPT !.step = st, !.r = r, !.valid = TRUE, !.gen = n, !.tasks = S] \in SessionType
         /\ \A n \in Nat :
              [Idle EXCEPT !.step = st, !.r = r, !.valid = TRUE, !.gen = n] \in SessionType
         /\ \A i \in Nat, n \in Nat :
              [Idle EXCEPT !.step = st, !.r = r, !.valid = TRUE, !.id = i, !.gen = n, !.fresh = TRUE] \in SessionType
         /\ \A i \in Nat, n \in Nat : [Idle EXCEPT !.step = st, !.r = r, !.gen = n, !.id = i] \in SessionType
         /\ \A i \in Nat, n \in Nat, S \in SUBSET TaskIds :
              [Idle EXCEPT !.step = st, !.r = r, !.tasks = S, !.id = i, !.gen = n] \in SessionType
         /\ \A i \in Nat, S \in SUBSET TaskIds :
              [Idle EXCEPT !.step = st, !.r = r, !.id = i, !.tasks = S] \in SessionType
BY DEF Idle, SessionType

LEMMA CountTyped ==
  ASSUME used \in Count
  PROVE  /\ Fault => used' \in Count
         /\ \A r \in Runs : CountRun("plans", r) \/ CountRun("approvals", r) => used' \in Count
BY DEF Count, Fault, CountRun

LEMMA NewTyped ==
  /\ NewRun \in RunType /\ NoTracks \in [TaskIds -> TrackStates] /\ NoCheckpoint \in CheckpointType
BY DEF NewRun, NoTracks, NoCheckpoint, RunType, TrackStates, CheckpointType, Phases

\* Every step of a command under way keeps the types.
LEMMA TypeContinue ==
  ASSUME NEW s \in Sessions, TypeOK, Located, Continue(s)
  PROVE  TypeOK'
<1> DEFINE r == sess[s].r
<1> USE DEF TypeOK
<1>1. /\ sess[s].step # "idle" => r \in Runs /\ run[r] \in RunType
      /\ sess[s] \in SessionType /\ sess[s].id \in Nat /\ sess[s].gen \in Nat
      /\ sess[s].tasks \in SUBSET TaskIds /\ sess[s].fresh \in BOOLEAN
  BY AtStep
<1>2. /\ End(s) => sess' \in [Sessions -> SessionType]
      /\ \A st \in Steps : Goto(s, st) => sess' \in [Sessions -> SessionType]
  BY StepTyped
<1>3. CASE PlanDropReview(s)
  BY <1>1, <1>2, <1>3 DEF PlanDropReview
<1>4. CASE ReviewFails(s)
  BY <1>1, <1>2, <1>4 DEF ReviewFails
<1>5. CASE ApproveRecord(s)
  BY <1>1, <1>2, <1>5 DEF ApproveRecord, CheckpointType
<1>6. CASE Launched(s)
  BY <1>1, <1>2, <1>6 DEF Launched, Steps
<1>7. CASE TailClear(s)
  BY <1>1, <1>2, <1>7, NewTyped DEF TailClear, Steps
<1>8. CASE TailDeindex(s)
  BY <1>1, <1>2, <1>8 DEF TailDeindex
<1>9. CASE RecoverUnbind(s)
  BY <1>1, <1>2, <1>9, NewTyped DEF RecoverUnbind
<1>10. CASE InitIndex(s)
  BY <1>1, <1>2, <1>10, NewTyped DEF InitIndex
<1>11. CASE ReviewPasses(s)
  <2>0. sess[s].step # "idle"
    BY <1>11 DEF ReviewPasses
  <2>1. [run[r] EXCEPT !.phase = "plan-reviewed"] \in RunType /\ "recordReview" \in Steps
    BY <1>1, <2>0, RunTyped DEF Phases, Steps
  <2> QED
    BY <1>1, <1>2, <2>0, <2>1, <1>11, WritesTyped DEF ReviewPasses
<1>12. CASE ApprovePublish(s)
  <2>0. sess[s].step # "idle"
    BY <1>12 DEF ApprovePublish
  <2>1. [run[r] EXCEPT !.phase = "plan-approved", !.approved = sess[s].id] \in RunType /\ "recordCheckpoint" \in Steps
    BY <1>1, <2>0, RunTyped DEF Phases, Steps
  <2> QED
    BY <1>1, <1>2, <2>0, <2>1, <1>12, WritesTyped DEF ApprovePublish
<1>13. CASE CommitDone(s)
  <2>0. sess[s].step # "idle"
    BY <1>13 DEF CommitDone
  <2>1. [run[r] EXCEPT !.phase = "committed"] \in RunType /\ "idle" \in Steps
    BY <1>1, <2>0, RunTyped DEF Phases, Steps
  <2> QED
    BY <1>1, <1>2, <2>0, <2>1, <1>13, WritesTyped DEF CommitDone
<1>14. CASE CommitReset(s)
  <2>0. sess[s].step # "idle"
    BY <1>14 DEF CommitReset
  <2>1. [run[r] EXCEPT !.phase = "awaiting-commit-approval"] \in RunType /\ "idle" \in Steps
    BY <1>1, <2>0, RunTyped DEF Phases, Steps
  <2> QED
    BY <1>1, <1>2, <2>0, <2>1, <1>14, WritesTyped DEF CommitReset
<1>15. CASE HaltRun(s)
  <2>0. sess[s].step # "idle"
    BY <1>15 DEF HaltRun
  <2>1. [run[r] EXCEPT !.phase = "halted"] \in RunType /\ "stopping" \in Steps
    BY <1>1, <2>0, RunTyped DEF Phases, Steps
  <2> QED
    BY <1>1, <1>2, <2>0, <2>1, <1>15, WritesTyped DEF HaltRun
<1>16. CASE AwaitFree(s)
  <2>0. sess[s].step # "idle"
    BY <1>16 DEF AwaitFree
  <2>1. [run[r] EXCEPT !.exec = "none"] \in RunType /\ "idle" \in Steps
    BY <1>1, <2>0, RunTyped DEF Phases, Steps
  <2> QED
    BY <1>1, <1>2, <2>0, <2>1, <1>16, WritesTyped DEF AwaitFree
<1>17. CASE ReplanPublish(s)
  <2>0. sess[s].step # "idle"
    BY <1>17 DEF ReplanPublish
  <2>1. [run[r] EXCEPT !.phase = "awaiting-plan-approval", !.approved = 0, !.plan = {}, !.gen = 0] \in RunType /\ "idle" \in Steps
    BY <1>1, <2>0, RunTyped DEF Phases, Steps
  <2> QED
    BY <1>1, <1>2, <2>0, <2>1, <1>17, WritesTyped DEF ReplanPublish
<1>18. CASE PlanPublish(s)
  <2>0. sess[s].step # "idle"
    BY <1>18 DEF PlanPublish
  <2>1. [run[r] EXCEPT !.phase = "awaiting-plan-approval", !.approved = 0, !.plan = sess[s].tasks,
                       !.gen = sess[s].gen] \in RunType /\ "dropReview" \in Steps
    BY <1>1, <2>0, RunTyped DEF Phases, Steps
  <2>2. [Idle EXCEPT !.step = "compensate", !.r = r] \in SessionType
    BY <1>1, <2>0, HandsTyped DEF Steps
  <2> QED
    BY <1>1, <2>0, <2>1, <2>2, <1>18, WritesTyped DEF PlanPublish
<1>19. CASE \E auto \in BOOLEAN : ReviewRecord(s, auto)
  <2>1. PICK auto \in BOOLEAN : ReviewRecord(s, auto)
    BY <1>19
  <2>2. r \in Runs /\ used.approvals[r] + 1 \in Nat
    BY <1>1, <2>1 DEF ReviewRecord, Count
  <2>3. ASSUME NEW i \in Nat PROVE [sess[s] EXCEPT !.step = "approving", !.fresh = TRUE, !.id = i] \in SessionType
    BY <1>1 DEF SessionType, Steps
  <2>4. sess' \in [Sessions -> SessionType]
    BY <1>2, <2>1, <2>2, <2>3 DEF ReviewRecord
  <2> QED
    BY <1>1, <2>1, <2>2, <2>4, CountTyped DEF ReviewRecord
<1>20. CASE DispatchPublish(s)
  <2>2. sess[s].step # "idle" /\ r \in Runs /\ track[r] \in [TaskIds -> TrackStates]
    BY <1>1, <1>20 DEF DispatchPublish
  <2>3. [t \in TaskIds |-> IF t \in run[r].plan THEN "queued" ELSE "none"] \in [TaskIds -> TrackStates]
    BY <1>1, <2>2, NewTyped DEF TrackStates
  <2>4. [run[r] EXCEPT !.phase = "dispatch-queued"] \in RunType /\ "idle" \in Steps
    BY <1>1, <2>2, RunTyped, NewTyped DEF Phases, Steps
  <2> QED
    BY <1>1, <1>2, <1>20, <2>2, <2>3, <2>4, WritesTyped DEF DispatchPublish
<1>21. CASE ClosePublish(s)
  <2>2. sess[s].step # "idle" /\ r \in Runs /\ track[r] \in [TaskIds -> TrackStates]
    BY <1>1, <1>21 DEF ClosePublish
  <2>3. NoTracks \in [TaskIds -> TrackStates]
    BY <1>1, <2>2, NewTyped DEF TrackStates
  <2>4. Closed(r) \in RunType /\ "releasing" \in Steps
    BY <1>1, <2>2, RunTyped, NewTyped DEF Phases, Steps, Closed
  <2> QED
    BY <1>1, <1>2, <1>21, <2>2, <2>3, <2>4, WritesTyped DEF ClosePublish
<1>22. CASE InitPublish(s)
  <2>2. sess[s].step # "idle" /\ r \in Runs /\ track[r] \in [TaskIds -> TrackStates]
    BY <1>1, <1>22 DEF InitPublish
  <2>3. NoTracks \in [TaskIds -> TrackStates]
    BY <1>1, <2>2, NewTyped DEF TrackStates
  <2>4. NewRun \in RunType /\ "indexing" \in Steps
    BY <1>1, <2>2, RunTyped, NewTyped DEF Phases, Steps
  <2> QED
    BY <1>1, <1>2, <1>22, <2>2, <2>3, <2>4, WritesTyped DEF InitPublish
<1>23. CASE \E b \in BOOLEAN : AwaitRun(s, b)
  <2>1. PICK dry \in BOOLEAN : AwaitRun(s, dry)
    BY <1>23
  <2>2. sess[s].step # "idle" /\ r \in Runs /\ track[r] \in [TaskIds -> TrackStates]
    BY <1>1, <2>1 DEF AwaitRun
  <2>3. [t \in TaskIds |-> IF track[r][t] = "queued" THEN "preview" ELSE track[r][t]] \in [TaskIds -> TrackStates]
    BY <2>2 DEF TrackStates
  <2>4. /\ [run[r] EXCEPT !.phase = "dry-run-preview"] \in RunType
        /\ [run[r] EXCEPT !.phase = "running"] \in RunType
        /\ {"freeing", "launching"} \subseteq Steps
    BY <1>1, <2>2, RunTyped DEF Phases, Steps
  <2> QED
    BY <1>1, <1>2, <2>1, <2>2, <2>3, <2>4, WritesTyped DEF AwaitRun
<1>24. CASE \E b \in BOOLEAN : AwaitConclude(s, b)
  <2>1. PICK auto \in BOOLEAN : AwaitConclude(s, auto)
    BY <1>24
  <2>2. sess[s].step # "idle" /\ r \in Runs
    BY <1>1, <2>1 DEF AwaitConclude
  <2>3. ASSUME NEW ph \in {"commit-approved", "awaiting-commit-approval", "error", "running"}
        PROVE  [phase |-> ph, plan |-> sess[s].tasks, gen |-> sess[s].gen,
                approved |-> sess[s].id, exec |-> "live"] \in RunType
    BY <1>1 DEF RunType, Phases
  <2>4. "freeing" \in Steps
    BY DEF Steps
  <2> QED
    BY <1>1, <1>2, <2>1, <2>2, <2>3, <2>4, WritesTyped DEF AwaitConclude
<1>25. CASE \E t \in TaskIds : LaunchTrack(s, t)
  <2>1. PICK t \in TaskIds : LaunchTrack(s, t)
    BY <1>25
  <2>2. r \in Runs /\ track[r] \in [TaskIds -> TrackStates]
    BY <1>1, <2>1 DEF LaunchTrack
  <2>3. \A v \in {"running", "ended"} : [track EXCEPT ![r][t] = v] \in [Runs -> [TaskIds -> TrackStates]]
    BY <2>2 DEF TrackStates
  <2>4. SetState(board, t, "InProgress") \in BoardType
    BY BoardTyped DEF TaskStates
  <2>5. sess' \in [Sessions -> SessionType]
    BY <2>1, OutdatedTyped DEF LaunchTrack
  <2>6. board' \in BoardType /\ cp' \in [Runs -> CheckpointType]
    BY <2>1, <2>4, BoardWrittenTyped DEF LaunchTrack
  <2> QED
    BY <2>1, <2>2, <2>3, <2>5, <2>6 DEF LaunchTrack
<1>26. CASE \E t \in TaskIds, o \in {"Done", "Failed", "none"}, b \in BOOLEAN : WorkerReports(s, t, o, b)
  <2>1. PICK t \in TaskIds, o \in {"Done", "Failed", "none"}, b \in BOOLEAN : WorkerReports(s, t, o, b)
    BY <1>26
  <2>2. r \in Runs /\ track[r] \in [TaskIds -> TrackStates]
    BY <1>1, <2>1 DEF WorkerReports
  <2>3. [track EXCEPT ![r][t] = "ended"] \in [Runs -> [TaskIds -> TrackStates]]
    BY <2>2 DEF TrackStates
  <2>4. o # "none" => /\ SetState(board, t, o) \in BoardType
                      /\ ReleaseTasks(SetState(board, t, o), r, {t}) \in BoardType
    BY <2>2, BoardTyped DEF TaskStates
  <2>5. sess' \in [Sessions -> SessionType]
    BY <2>1, OutdatedTyped DEF WorkerReports
  <2>6. board' \in BoardType /\ cp' \in [Runs -> CheckpointType]
    BY <2>1, <2>4, BoardWrittenTyped DEF WorkerReports
  <2> QED
    BY <2>1, <2>2, <2>3, <2>5, <2>6 DEF WorkerReports
<1>27. CASE \E S \in SUBSET TaskIds : AwaitSettle(s, S)
  <2>1. PICK S \in SUBSET TaskIds : AwaitSettle(s, S)
    BY <1>27
  <2>2. r \in Runs /\ track[r] \in [TaskIds -> TrackStates] /\ {"freeing", "concluding"} \subseteq Steps
    BY <1>1, <2>1 DEF AwaitSettle, Steps
  <2>3. track' \in [Runs -> [TaskIds -> TrackStates]]
    BY <2>1, <2>2 DEF AwaitSettle, TrackStates
  <2> QED
    BY <1>2, <2>1, <2>2, <2>3 DEF AwaitSettle
<1>28. CASE \E S \in SUBSET TaskIds : HaltTracks(s, S)
  <2>1. PICK S \in SUBSET TaskIds : HaltTracks(s, S)
    BY <1>28
  <2>2. r \in Runs /\ track[r] \in [TaskIds -> TrackStates] /\ "disclaiming" \in Steps
    BY <1>1, <2>1 DEF HaltTracks, Steps
  <2>3. track' \in [Runs -> [TaskIds -> TrackStates]]
    BY <2>1, <2>2 DEF HaltTracks, TrackStates
  <2> QED
    BY <1>2, <2>1, <2>2, <2>3 DEF HaltTracks
<1>29. CASE PlanCompensate(s)
  <2>1. r \in Runs
    BY <1>1, <1>29 DEF PlanCompensate
  <2>2. Release(board, r) \in BoardType /\ [sess EXCEPT ![s] = Idle] \in [Sessions -> SessionType]
    BY <2>1, BoardTyped, IdleTyped
  <2>3. board' \in BoardType /\ cp' \in [Runs -> CheckpointType]
    BY <1>29, <2>1, <2>2, BoardWrittenTyped DEF PlanCompensate
  <2>4. sess' \in [Sessions -> SessionType]
    BY <1>29, <2>2, OutdatedTyped DEF PlanCompensate
  <2> QED
    BY <1>29, <2>1, <2>3, <2>4 DEF PlanCompensate
<1>30. CASE HaltRelease(s)
  <2>1. r \in Runs
    BY <1>1, <1>30 DEF HaltRelease
  <2>2. Release(board, r) \in BoardType /\ [sess EXCEPT ![s] = Idle] \in [Sessions -> SessionType]
    BY <2>1, BoardTyped, IdleTyped
  <2>3. board' \in BoardType /\ cp' \in [Runs -> CheckpointType]
    BY <1>30, <2>1, <2>2, BoardWrittenTyped DEF HaltRelease
  <2>4. sess' \in [Sessions -> SessionType]
    BY <1>30, <2>2, OutdatedTyped DEF HaltRelease
  <2> QED
    BY <1>30, <2>1, <2>3, <2>4 DEF HaltRelease, Claimed, BoardType
<1>31. CASE SweepRelease(s)
  <2>1. r \in Runs
    BY <1>1, <1>31 DEF SweepRelease
  <2>2. Release(board, r) \in BoardType /\ [sess EXCEPT ![s] = Idle] \in [Sessions -> SessionType]
    BY <2>1, BoardTyped, IdleTyped
  <2>3. board' \in BoardType /\ cp' \in [Runs -> CheckpointType]
    BY <1>31, <2>1, <2>2, BoardWrittenTyped DEF SweepRelease
  <2>4. sess' \in [Sessions -> SessionType]
    BY <1>31, <2>2, OutdatedTyped DEF SweepRelease
  <2> QED
    BY <1>31, <2>1, <2>3, <2>4 DEF SweepRelease
<1>32. CASE TailRelease(s)
  <2>1. r \in Runs
    BY <1>1, <1>32 DEF TailRelease
  <2>2. Release(board, r) \in BoardType
    BY <2>1, BoardTyped
  <2>3. board' \in BoardType /\ cp' \in [Runs -> CheckpointType]
    BY <1>32, <2>1, <2>2, BoardWrittenTyped DEF TailRelease
  <2>4. [sess EXCEPT ![s].step = "clearing"] \in [Sessions -> SessionType]
    <3>1. [sess[s] EXCEPT !.step = "clearing"] \in SessionType
      BY <1>1 DEF SessionType, Steps
    <3> QED
      BY <3>1
  <2>5. sess' \in [Sessions -> SessionType]
    BY <1>2, <1>32, <2>4, OutdatedTyped DEF TailRelease
  <2> QED
    BY <1>32, <2>3, <2>5 DEF TailRelease
<1>33. CASE RecoverApply(s)
  <2>1. sess[s].step # "idle" /\ r \in Runs /\ track[r] \in [TaskIds -> TrackStates]
    BY <1>1, <1>33 DEF RecoverApply
  <2>2. ASSUME NEW ph \in {"awaiting-plan-approval", "dispatch-queued", run[r].phase},
               NEW ex \in {"none", run[r].exec}, NEW n \in {0, run[r].approved}
        PROVE  [run[r] EXCEPT !.phase = ph, !.exec = ex, !.approved = n] \in RunType
    <3>1. ASSUME NEW v \in RunType, NEW p \in Phases, NEW e \in {"none", "live", "dead"}, NEW m \in Nat
          PROVE  [v EXCEPT !.phase = p, !.exec = e, !.approved = m] \in RunType
      BY DEF RunType
    <3>2. ph \in Phases /\ ex \in {"none", "live", "dead"} /\ n \in Nat
      BY <1>1, <2>1 DEF RunType, Phases
    <3> QED
      BY <1>1, <2>1, <3>1, <3>2
  <2>3. Closed(r) \in RunType /\ {"unbinding", "releasing", "idle"} \subseteq Steps
    BY <1>1, <2>1, RunTyped DEF Closed, Steps
  <2>4. track' \in [Runs -> [TaskIds -> TrackStates]]
    <3> DEFINE lost  == sess[s].tasks
               again == {t \in lost : board[t].state \notin {"Done", "Failed"}}
               close == Pending(board) = {} /\ run[r].phase = "cycle-closed" /\ ~Blocked(r)
               new   == [t \in TaskIds |-> IF close THEN "none"
                                         ELSE IF t \in lost THEN IF t \in again THEN "queued" ELSE "settled"
                                         ELSE track[r][t]]
    <3>1. track' = track \/ track' = [track EXCEPT ![r] = new]
      BY <1>33 DEF RecoverApply
    <3> HIDE DEF close, again, lost
    <3>2. new \in [TaskIds -> TrackStates]
      BY <2>1 DEF TrackStates
    <3> QED
      BY <3>1, <3>2
  <2>5. run' \in [Runs -> RunType] /\ sess' \in [Sessions -> SessionType]
    BY <1>33, <1>2, <2>1, <2>2, <2>3, WritesTyped DEF RecoverApply, Requeued
  <2> QED
    BY <1>33, <2>4, <2>5 DEF RecoverApply
<1> QED
  BY <1>3, <1>4, <1>5, <1>6, <1>7, <1>8, <1>9, <1>10, <1>11, <1>12, <1>13, <1>14, <1>15, <1>16, <1>17, <1>18, <1>19, <1>20, <1>21, <1>22, <1>23, <1>24, <1>25, <1>26, <1>27, <1>28, <1>29, <1>30, <1>31, <1>32, <1>33 DEF Continue

\* Every command that begins keeps the types.
LEMMA TypeCommand ==
  ASSUME NEW s \in Sessions, NEW r \in Runs, TypeOK, Command(s, r) \/ Recover(s, r)
  PROVE  TypeOK'
<1> USE DEF TypeOK
<1>1. /\ run[r] \in RunType /\ run[r].gen \in Nat /\ run[r].approved \in Nat /\ run[r].plan \in SUBSET TaskIds
      /\ used.approvals[r] + 1 \in Nat /\ used.plans[r] + 1 \in Nat
  BY DEF RunType, Count
<1>2. Heartbeat(r) => lease' \in [Runs -> {"none", "live", "expired"}]
  BY DEF Heartbeat
<1>3. \A st \in Steps : Begin(s, r, st) => sess' \in [Sessions -> SessionType]
  <2>1. ASSUME NEW st \in Steps, Begin(s, r, st) PROVE sess' \in [Sessions -> SessionType]
    <3>1. [Idle EXCEPT !.step = st, !.r = r, !.valid = st \in Unpublished] \in SessionType
      <4>1. \A v \in BOOLEAN : [Idle EXCEPT !.step = st, !.r = r, !.valid = v] \in SessionType
        BY HandsTyped
      <4>2. (st \in Unpublished) \in BOOLEAN
        OBVIOUS
      <4> QED
        BY <4>1, <4>2, Zenon
    <3> QED
      BY <2>1, <3>1 DEF Begin
  <2> QED
    BY <2>1
<1>4. CASE CommitStart(s, r)
  <2>1. "committing" \in Steps
    BY DEF Steps
  <2> QED
    BY <1>2, <1>3, <1>4, <2>1, CountTyped DEF CommitStart
<1>5. CASE HaltStart(s, r)
  <2>1. "halting" \in Steps
    BY DEF Steps
  <2> QED
    BY <1>2, <1>3, <1>5, <2>1, CountTyped DEF HaltStart
<1>6. CASE CloseStart(s, r)
  <2>1. "closing" \in Steps
    BY DEF Steps
  <2> QED
    BY <1>2, <1>3, <1>6, <2>1, CountTyped DEF CloseStart
<1>7. CASE InitStart(s, r)
  <2>1. "initializing" \in Steps
    BY DEF Steps
  <2> QED
    BY <1>2, <1>3, <1>7, <2>1, CountTyped DEF InitStart
<1>8. CASE ReviewStart(s, r)
  <2>1. "reviewing" \in Steps /\ "awaiting-plan-approval" \in Phases
    BY DEF Steps, Phases
  <2>2. /\ [Idle EXCEPT !.step = "reviewing", !.r = r, !.valid = TRUE, !.gen = run[r].gen] \in SessionType
        /\ \A v \in SessionType : [v EXCEPT !.valid = FALSE] \in SessionType
    <3>1. [Idle EXCEPT !.step = "reviewing", !.r = r, !.valid = TRUE, !.gen = run[r].gen] \in SessionType
      BY <1>1, <2>1, HandsTyped
    <3>2. \A v \in SessionType : [v EXCEPT !.valid = FALSE] \in SessionType
      BY DEF SessionType
    <3> QED
      BY <3>1, <3>2
  <2>3. [run[r] EXCEPT !.phase = "awaiting-plan-approval", !.approved = 0] \in RunType
    BY <1>1, <2>1, RunTyped
  <2>4. run' \in [Runs -> RunType] /\ cp' \in [Runs -> CheckpointType] /\ review' \in [Runs -> Nat]
    <3>1. [run EXCEPT ![r].phase = "awaiting-plan-approval", ![r].approved = 0]
          = [run EXCEPT ![r] = [run[r] EXCEPT !.phase = "awaiting-plan-approval", !.approved = 0]]
      OBVIOUS
    <3>2. run' = run \/ run' = [run EXCEPT ![r].phase = "awaiting-plan-approval", ![r].approved = 0]
      BY <1>8 DEF ReviewStart
    <3>3. (cp' = cp \/ cp' = [cp EXCEPT ![r] = NoCheckpoint]) /\ review' = [review EXCEPT ![r] = 0]
      BY <1>8 DEF ReviewStart
    <3>4. run' \in [Runs -> RunType]
      BY <2>3, <3>1, <3>2
    <3> QED
      BY <3>3, <3>4, NewTyped
  <2>5. sess' \in [Sessions -> SessionType]
    BY <1>8, <2>2 DEF ReviewStart
  <2> QED
    BY <1>2, <1>8, <2>4, <2>5 DEF ReviewStart
<1>9. CASE \E b \in BOOLEAN : ApproveStart(s, r, b)
  <2>1. "approving" \in Steps
    BY DEF Steps
  <2>2. [Idle EXCEPT !.step = "approving", !.r = r, !.valid = TRUE, !.id = used.approvals[r] + 1,
                     !.gen = run[r].gen, !.fresh = TRUE] \in SessionType
    BY <1>1, <2>1, HandsTyped
  <2> QED
    BY <1>1, <1>2, <1>9, <2>2, CountTyped DEF ApproveStart
<1>10. CASE DispatchStart(s, r)
  <2>1. "dispatching" \in Steps
    BY DEF Steps
  <2>2. [Idle EXCEPT !.step = "dispatching", !.r = r, !.gen = run[r].gen, !.id = run[r].approved] \in SessionType
    BY <1>1, <2>1, HandsTyped
  <2> QED
    BY <1>1, <1>2, <1>10, <2>2, CountTyped DEF DispatchStart
<1>11. CASE AwaitAcquire(s, r)
  <2>1. "acquired" \in Steps
    BY DEF Steps
  <2>2. [Idle EXCEPT !.step = "acquired", !.r = r, !.tasks = run[r].plan, !.id = run[r].approved,
                     !.gen = run[r].gen] \in SessionType
    BY <1>1, <2>1, HandsTyped
  <2>3. \A v \in SessionType : [v EXCEPT !.valid = FALSE] \in SessionType
    BY DEF SessionType
  <2>4. sess' \in [Sessions -> SessionType]
    BY <1>11, <2>2, <2>3 DEF AwaitAcquire
  <2>5. run' \in [Runs -> RunType]
    BY <1>11, <1>1, RunTyped DEF AwaitAcquire
  <2> QED
    BY <1>2, <1>11, <2>4, <2>5 DEF AwaitAcquire
<1>12. CASE ApproveCommit(s, r)
  <2>1. [run[r] EXCEPT !.phase = "commit-approved"] \in RunType /\ "idle" \in Steps
    BY <1>1, RunTyped DEF Phases, Steps
  <2> QED
    BY <1>1, <1>2, <2>1, <1>12, WritesTyped DEF ApproveCommit
<1>13. CASE Journal(s, r)
  <2>1. [run[r] EXCEPT !.phase = "cycle-closed"] \in RunType /\ "idle" \in Steps
    BY <1>1, RunTyped DEF Phases, Steps
  <2> QED
    BY <1>1, <1>2, <2>1, <1>13, WritesTyped DEF Journal
<1>14. CASE RecoverStart(s, r)
  <2>1. {"releasing", "recovering"} \subseteq Steps
    BY DEF Steps
  <2>2. /\ [Idle EXCEPT !.step = "releasing", !.r = r] \in SessionType
        /\ \A i \in Nat, S \in SUBSET TaskIds :
             [Idle EXCEPT !.step = "recovering", !.r = r, !.id = i, !.tasks = S] \in SessionType
    BY <2>1, HandsTyped
  <2> QED
    <3>1. CASE run[r].phase = "done"
      BY <1>14, <2>2, <3>1 DEF RecoverStart
    <3>2. CASE run[r].phase # "done"
      <4>1. PICK i \in {0, 1} :
              sess' = [sess EXCEPT ![s] = [Idle EXCEPT !.step = "recovering", !.r = r, !.id = i,
                                             !.tasks = {t \in TaskIds : track[r][t] = "ended"}]]
        BY <1>14, <3>2 DEF RecoverStart
      <4>2. sess' \in [Sessions -> SessionType]
        BY <2>2, <4>1
      <4> QED
        BY <1>14, <4>2 DEF RecoverStart
    <3> QED
      BY <3>1, <3>2
<1>15. CASE SweepStart(s, r)
  <2>1. \A st \in {"releasing", "sweeping"} : [Idle EXCEPT !.step = st, !.r = r] \in SessionType
    BY HandsTyped DEF Steps
  <2>2. \A st \in {"releasing", "sweeping"} : [Idle EXCEPT !.r = r, !.step = st] = [Idle EXCEPT !.step = st, !.r = r]
    BY DEF Idle
  <2> QED
    BY <1>15, <2>1, <2>2 DEF SweepStart
<1>16. CASE \E t \in TaskIds \union {0} : ReplanStart(s, r, t)
  <2>1. PICK t \in TaskIds \union {0} : ReplanStart(s, r, t)
    BY <1>16
  <2>2. 0 \notin TaskIds
    BY SprintAssumption
  <2>3. t # 0 => SetState(board, t, "Backlog") \in BoardType
    BY BoardTyped DEF TaskStates
  <2>4. [Idle EXCEPT !.step = "replanning", !.r = r] \in SessionType
    BY HandsTyped DEF Steps
  <2>5. board' \in BoardType /\ cp' \in [Runs -> CheckpointType]
    BY <2>1, <2>3, BoardWrittenTyped DEF ReplanStart
  <2>6. sess' \in [Sessions -> SessionType]
    BY <2>1, <2>4, OutdatedTyped DEF ReplanStart
  <2> QED
    BY <2>1, <2>5, <2>6, CountTyped DEF ReplanStart
<1>17. CASE PlanClaim(s, r)
  <2>1. PICK tasks, claimed :
           /\ claimed = Claim(board, r, ClaimableByName(board, r, tasks))
           /\ tasks \subseteq ClaimableByName(board, r, tasks)
           /\ board' = claimed
           /\ cp' = [q \in Runs |-> [cp[q] EXCEPT !.fresh = FALSE]]
           /\ sess' = Outdated([sess EXCEPT ![s] = [Idle EXCEPT !.step = "publish", !.r = r,
                                 !.valid = TRUE, !.gen = used.plans[r] + 1, !.tasks = tasks]], TRUE)
           /\ excused' = [excused EXCEPT ![r] = excused[r] \ tasks]
    BY <1>17 DEF PlanClaim
  <2>2. ClaimableByName(board, r, tasks) \in SUBSET TaskIds /\ tasks \in SUBSET TaskIds
    BY <2>1 DEF ClaimableByName, BoardType
  <2>3. board' \in BoardType
    BY <2>1, <2>2, BoardTyped
  <2>4. [Idle EXCEPT !.step = "publish", !.r = r, !.valid = TRUE, !.gen = used.plans[r] + 1,
                     !.tasks = tasks] \in SessionType
    BY <1>1, <2>2, HandsTyped DEF Steps
  <2>5. sess' \in [Sessions -> SessionType]
    BY <2>1, <2>4, OutdatedTyped
  <2>6. \A v \in CheckpointType : [v EXCEPT !.fresh = FALSE] \in CheckpointType
    BY DEF CheckpointType
  <2>7. cp' \in [Runs -> CheckpointType] /\ excused' \in [Runs -> SUBSET TaskIds]
    BY <2>1, <2>6
  <2> QED
    BY <1>2, <1>17, <2>3, <2>5, <2>7, CountTyped DEF PlanClaim
<1> QED
  BY <1>4, <1>5, <1>6, <1>7, <1>8, <1>9, <1>10, <1>11, <1>12, <1>13, <1>14, <1>15, <1>16, <1>17 DEF Command, Recover

\* So does what happens around the sessions.
LEMMA TypeSurroundings ==
  ASSUME TypeOK, Located
  PROVE  /\ \A s \in Sessions : Die(s) => TypeOK'
         /\ \A r \in Runs, t \in TaskIds : WorkerExits(r, t) => TypeOK'
         /\ \A t \in TaskIds : ClaimLapses(t) => TypeOK'
         /\ \A t \in TaskIds, st \in {"Backlog", "Done"} : UserMoves(t, st) => TypeOK'
         /\ \A r \in Runs : LeaseExpires(r) => TypeOK'
<1> USE DEF TypeOK
<1>1. ASSUME NEW s \in Sessions, Die(s) PROVE TypeOK'
  <2>1. sess[s].r \in Runs /\ [run[sess[s].r] EXCEPT !.exec = "dead"] \in RunType
    BY <1>1, AtStep, RunTyped DEF Die
  <2> QED
    BY <1>1, <2>1, StepTyped, CountTyped DEF Die
<1>2. ASSUME NEW r \in Runs, NEW t \in TaskIds, WorkerExits(r, t) PROVE TypeOK'
  <2>1. \A v \in {"ended", "halted"} : [track EXCEPT ![r][t] = v] \in [Runs -> [TaskIds -> TrackStates]]
    BY DEF TrackStates
  <2> QED
    BY <1>2, <2>1 DEF WorkerExits
<1>3. ASSUME NEW t \in TaskIds, ClaimLapses(t) PROVE TypeOK'
  <2>1. Lapse(board, t) \in BoardType /\ board[t].by \in Runs
    BY <1>3, BoardTyped DEF ClaimLapses, ActiveClaim, BoardType, TaskType
  <2> QED
    BY <1>3, <2>1, CountTyped DEF ClaimLapses
<1>4. ASSUME NEW t \in TaskIds, NEW st \in {"Backlog", "Done"}, UserMoves(t, st) PROVE TypeOK'
  <2>1. SetState(board, t, st) \in BoardType
    BY BoardTyped DEF TaskStates
  <2>2. board' \in BoardType /\ cp' \in [Runs -> CheckpointType] /\ sess' \in [Sessions -> SessionType]
    BY <1>4, <2>1, BoardWrittenTyped, OutdatedTyped DEF UserMoves
  <2> QED
    BY <1>4, <2>2, CountTyped DEF UserMoves
<1>5. ASSUME NEW r \in Runs, LeaseExpires(r) PROVE TypeOK'
  BY <1>5 DEF LeaseExpires
<1> QED
  BY <1>1, <1>2, <1>3, <1>4, <1>5

-----------------------------------------------------------------------------
(* Three kinds of actions. *)

\* The session, its checkpoint and its approvals only: board, runs and tracks stay.
LEMMA SessionMoves ==
  ASSUME NEW s \in Sessions, PhaseInv, TypeOK', UNCHANGED <<board, run, track, excused>>,
         \A x \in Sessions \ {s} : sess'[x] = sess[x],
         \A q \in Runs : used'.approvals[q] >= used.approvals[q],
         \A q \in Runs : FileStep(q),
         Turns(s), Knows(s)',
         sess[s].step \in Recorded /\ run[sess[s].r].exec = "live" => sess'[s].step \in Recorded /\ sess'[s].r = sess[s].r
  PROVE  PhaseInv'
<1>1. ASSUME NEW x \in Sessions, x # s PROVE Same(x)
  BY <1>1 DEF Same
<1>2. OnlyMoves(s)
  BY <1>1 DEF OnlyMoves
<1>3. BoardKnown'
  BY DEF PhaseInv, BoardKnown
<1>4. ASSUME NEW q \in Runs PROVE Frame(s, q)
  <2>1. RunKnown(q)
    BY DEF PhaseInv
  <2>2. RunStep(s, q)
    BY DEF RunStep
  <2>3. ExecStep(q)
    <3>1. CASE sess[s].step \in Recorded /\ sess[s].r = q
      BY <3>1 DEF ExecStep
    <3>2. CASE ~(sess[s].step \in Recorded /\ sess[s].r = q)
      BY <1>1, <3>2 DEF ExecStep
    <3> QED
      BY <3>1, <3>2
  <2>4. TrackStep(q)
    BY DEF TrackStep, AtWork, Queued, Live, Stopped
  <2>5. HeldStep(s, q)
    BY <2>1 DEF HeldStep, Live, RunKnown, Held
  <2> QED
    BY <2>2, <2>3, <2>4, <2>5 DEF Frame
<1> QED
  BY <1>2, <1>3, <1>4, Kept

\* The others' knowledge of a run gets out of date when it is written.
LEMMA OthersSame ==
  ASSUME NEW s, NEW r, TypeOK, \A q \in Runs \ {r} : run'[q] = run[q],
         \A x \in Sessions \ {s} : sess'[x] = IF sess[x].r = r THEN [sess[x] EXCEPT !.valid = FALSE] ELSE sess[x]
  PROVE  \A x \in Sessions \ {s} : Same(x)
<1> TAKE x \in Sessions \ {s}
<1>1. sess[x] \in SessionType
  BY DEF TypeOK
<1>2. CASE sess[x].r = r
  BY <1>1, <1>2 DEF Same, SessionType
<1>3. CASE sess[x].r # r
  BY <1>3 DEF Same
<1> QED
  BY <1>2, <1>3

\* The session and the run it writes, with its tracks: the board stays. What becomes of
\* the run is in line with the frame, or shown where the session holds the run's lock.
LEMMA RunMoves ==
  ASSUME NEW s \in Sessions, NEW r \in Runs, PhaseInv, TypeOK', UNCHANGED <<board, excused>>,
         \A q \in Runs : used'.approvals[q] = used.approvals[q] /\ FileStep(q),
         \A x \in Sessions \ {s} : Same(x),
         \A q \in Runs \ {r} : run'[q] = run[q] /\ track'[q] = track[q],
         sess[s].step # "idle" => sess[s].r = r,
         \/ /\ RunStep(s, r) /\ TrackStep(r)
            /\ run'[r].exec = "live" => \/ sess'[s].r = r /\ sess'[s].step \in Recorded
                                        \/ run[r].exec = "live" /\ sess[s].step \notin Recorded
         \/ /\ RunKnown(r)'
            /\ \A x \in Sessions : sess[x].r = r /\ sess[x].step \in LockedSteps => x = s,
         Turns(s), Knows(s)'
  PROVE  PhaseInv'
<1>1. ASSUME NEW x \in Sessions, x # s PROVE Same(x)
  BY <1>1
<1>2. OnlyMoves(s)
  <2>1. \A q \in Runs : used.approvals[q] \in Nat
    BY DEF PhaseInv, TypeOK, Count
  <2> QED
    BY <1>1, <2>1 DEF OnlyMoves
<1>3. BoardKnown'
  BY DEF PhaseInv, BoardKnown
<1>4. ASSUME NEW q \in Runs, TrackStep(q) PROVE HeldStep(s, q)
  BY <1>4 DEF HeldStep, TrackStep, Live, RunKnown, Held, PhaseInv
<1>5. ASSUME NEW q \in Runs, q # r PROVE Frame(s, q)
  <2>1. TrackStep(q)
    BY <1>5 DEF TrackStep, AtWork, Queued, Live, Stopped
  <2>2. RunStep(s, q)
    BY <1>5 DEF RunStep
  <2>3. ExecStep(q)
    <3>1. \A x \in Sessions : sess[x].r = q /\ sess[x].step \in Recorded => x # s
      BY <1>5 DEF Recorded, Executing
    <3> QED
      BY <1>1, <1>5, <3>1 DEF ExecStep
  <2> QED
    BY <1>4, <2>1, <2>2, <2>3 DEF Frame
<1>6. ASSUME RunStep(s, r), TrackStep(r),
             run'[r].exec = "live" => \/ sess'[s].r = r /\ sess'[s].step \in Recorded
                                      \/ run[r].exec = "live" /\ sess[s].step \notin Recorded
      PROVE  Frame(s, r)
  <2>1. ExecStep(r)
    BY <1>1, <1>6 DEF ExecStep
  <2> QED
    BY <1>4, <1>6, <2>1 DEF Frame
<1> QED
  BY <1>2, <1>3, <1>5, <1>6, Kept

\* The board is written: what it says of a checkpoint is out of date. The claims of other
\* runs stay, or were lapsed.
LEMMA BoardMoves ==
  ASSUME NEW s \in Sessions, NEW r \in Runs, PhaseInv, TypeOK', run' = run, track' = track,
         \A q \in Runs : used'.approvals[q] = used.approvals[q],
         \A q \in Runs : cp'[q].id = cp[q].id /\ (~cp'[q].fresh \/ (cp'[q] = cp[q] /\ board' = board)),
         \A q \in Runs, t \in TaskIds : t \in excused[q] => t \in excused'[q] \/ board'[t].by = q,
         \A x \in Sessions \ {s} : Same(x),
         \A q \in Runs \ {r}, t \in TaskIds : board[t].by = q => board'[t].by = q \/ t \in excused'[q],
         HeldStep(s, r), BoardKnown', Turns(s), Knows(s)', sess[s].step \notin Recorded
  PROVE  PhaseInv'
<1>1. OnlyMoves(s)
  <2>1. \A q \in Runs : used.approvals[q] \in Nat
    BY DEF PhaseInv, TypeOK, Count
  <2> QED
    BY <2>1 DEF OnlyMoves, FileStep, Held
<1>2. ASSUME NEW q \in Runs PROVE Frame(s, q)
  <2>1. RunKnown(q)
    BY DEF PhaseInv
  <2>2. RunStep(s, q)
    BY DEF RunStep
  <2>3. ExecStep(q)
    BY DEF ExecStep
  <2>4. TrackStep(q)
    BY DEF TrackStep, AtWork, Queued, Live, Stopped
  <2>5. HeldStep(s, q)
    <3>1. CASE q = r
      BY <3>1
    <3>2. CASE q # r
      <4>1. \A t \in TaskIds : Held(q, t) => Held(q, t)'
        BY <3>2 DEF Held
      <4> QED
        BY <2>1, <4>1 DEF HeldStep, Live, RunKnown
    <3> QED
      BY <3>1, <3>2
  <2> QED
    BY <2>2, <2>3, <2>4, <2>5 DEF Frame
<1> QED
  BY <1>1, <1>2, Kept

\* At the other steps a session knows nothing.
Knowing == {"dispatching", "recovering", "sweeping", "publish"} \union Executing \union Reviewing

LEMMA Ignorant ==
  ASSUME NEW s, sess'[s].step \notin Knowing
  PROVE  Knows(s)'
BY DEF Knowing, Executing, Reviewing, Knows, DispatcherKnows, ExecutorKnows, LauncherKnows,
       RecovererKnows, SweeperKnows, PlannerKnows

\* A session ends its command, or goes on to a step where it knows nothing.
LEMMA MovesOn ==
  ASSUME NEW s \in Sessions, PhaseInv, TypeOK', UNCHANGED <<board, run, track, excused>>,
         sess[s].step # "idle" => sess[s].r \in Runs,
         NEW v \in SessionType, sess' = [sess EXCEPT ![s] = v],
         \A q \in Runs : used'.approvals[q] = used.approvals[q],
         \A q \in Runs : FileStep(q),
         v.step \notin Knowing \union Asking, v.step # "idle" => v.r \in Runs,
         v.step \in LockedSteps => (sess[s].step \in LockedSteps /\ v.r = sess[s].r) \/ ExecutorFree(v.r),
         sess[s].step \in Recorded /\ run[sess[s].r].exec = "live" => v.step \in Recorded /\ v.r = sess[s].r
  PROVE  PhaseInv'
<1>1. sess'[s] = v /\ \A x \in Sessions \ {s} : sess'[x] = sess[x]
  BY DEF PhaseInv, TypeOK
<1>2. Turns(s)
  BY <1>1 DEF Turns
<1>3. Knows(s)'
  BY <1>1, Ignorant
<1>4. \A q \in Runs : used'.approvals[q] >= used.approvals[q]
  BY DEF PhaseInv, TypeOK, Count
<1> QED
  BY <1>1, <1>2, <1>3, <1>4, SessionMoves

\* The checkpoint that stays, or goes.
LEMMA FileKept ==
  ASSUME board' = board, excused' = excused, NEW r, cp \in [Runs -> CheckpointType],
         cp' = cp \/ cp' = [cp EXCEPT ![r] = NoCheckpoint]
  PROVE  \A q \in Runs : FileStep(q)
BY DEF FileStep, Held, NoCheckpoint

\* Idle sessions and their likes.
LEMMA Ends ==
  ASSUME NEW s \in Sessions, PhaseInv, TypeOK', UNCHANGED <<board, run, track, excused, used>>, End(s),
         cp' = cp \/ \E r \in Runs : cp' = [cp EXCEPT ![r] = NoCheckpoint],
         sess[s].step \in Recorded => run[sess[s].r].exec # "live"
  PROVE  PhaseInv'
<1>1. \A q \in Runs : FileStep(q)
  BY FileKept DEF PhaseInv, TypeOK
<1>2. Idle \in SessionType /\ Idle.step = "idle" /\ "idle" \notin Knowing \union Asking
  BY IdleTyped DEF Idle, Knowing, Asking, Executing, Reviewing
<1>3. "idle" \notin LockedSteps /\ (sess[s].step # "idle" => sess[s].r \in Runs)
  BY StepKinds DEF PhaseInv, Located
<1> QED
  BY <1>1, <1>2, <1>3, MovesOn DEF End

LEMMA SimpleEnds ==
  ASSUME NEW s \in Sessions, PhaseInv, TypeOK',
         PlanDropReview(s) \/ ReviewFails(s) \/ TailDeindex(s) \/ RecoverUnbind(s) \/ InitIndex(s)
  PROVE  PhaseInv'
<1>1. /\ UNCHANGED <<board, run, track, excused, used>> /\ End(s)
      /\ sess[s].step \in {"dropReview", "reviewing", "deindexing", "unbinding", "indexing"}
      /\ cp' = cp \/ cp' = [cp EXCEPT ![sess[s].r] = NoCheckpoint]
  BY DEF PlanDropReview, ReviewFails, TailDeindex, RecoverUnbind, InitIndex
<1>2. sess[s].r \in Runs /\ sess[s].step \notin Recorded
  BY <1>1 DEF PhaseInv, Located, Recorded, Executing
<1> QED
  BY <1>1, <1>2, Ends

LEMMA SimpleBegins ==
  ASSUME NEW s \in Sessions, NEW r \in Runs, PhaseInv, TypeOK',
         CommitStart(s, r) \/ HaltStart(s, r) \/ CloseStart(s, r) \/ InitStart(s, r)
  PROVE  PhaseInv'
<1>1. PICK st \in {"committing", "halting", "closing", "initializing"} :
        Begin(s, r, st) /\ (st = "closing" => ExecutorFree(r))
  BY DEF CommitStart, HaltStart, CloseStart, InitStart
<1>2. PICK b \in BOOLEAN : sess' = [sess EXCEPT ![s] = [Idle EXCEPT !.step = st, !.r = r, !.valid = b]]
  <2>1. (st \in Unpublished) \in BOOLEAN
    OBVIOUS
  <2> QED
    BY <1>1, <2>1, Zenon DEF Begin
<1>3. UNCHANGED <<board, run, track, excused, cp>> /\ sess[s].step = "idle"
  BY <1>1 DEF CommitStart, HaltStart, CloseStart, InitStart, Begin
<1>4. \A q \in Runs : used'.approvals[q] = used.approvals[q]
  BY DEF CommitStart, HaltStart, CloseStart, InitStart, Fault, PhaseInv, TypeOK, Count
<1> DEFINE v == [Idle EXCEPT !.step = st, !.r = r, !.valid = b]
<1>5. v \in SessionType /\ v.step = st /\ v.r = r
  <2>1. st \in Steps
    BY DEF Steps
  <2> QED
    BY <2>1, HandsTyped DEF Idle
<1>6. st \notin Knowing \union Asking /\ (st \in LockedSteps => st = "closing") /\ sess[s].step \notin Recorded
  BY <1>3 DEF Knowing, Asking, Executing, Reviewing, LockedSteps, Recorded
<1>7. \A q \in Runs : FileStep(q)
  BY <1>3, FileKept DEF PhaseInv, TypeOK
<1> HIDE DEF v
<1> QED
  BY <1>1, <1>2, <1>3, <1>4, <1>5, <1>6, <1>7, MovesOn DEF v

LEMMA TailClears ==
  ASSUME NEW s \in Sessions, PhaseInv, TypeOK', TailClear(s)
  PROVE  PhaseInv'
<1> DEFINE v == [sess[s] EXCEPT !.step = "deindexing"]
<1>1. sess[s].r \in Runs /\ sess[s].step = "clearing" /\ sess[s] \in SessionType
  BY DEF TailClear, PhaseInv, Located, TypeOK
<1>2. v \in SessionType /\ v.step = "deindexing" /\ v.r = sess[s].r
  BY <1>1 DEF SessionType, Steps
<1>3. sess' = [sess EXCEPT ![s] = v]
  BY DEF TailClear, Goto, PhaseInv, TypeOK
<1>4. \A q \in Runs : FileStep(q)
  BY FileKept DEF PhaseInv, TypeOK, TailClear
<1>5. "deindexing" \notin Knowing \union Asking /\ {"clearing", "deindexing"} \subseteq LockedSteps
      /\ "clearing" \notin Recorded
  BY DEF Knowing, Asking, Executing, Reviewing, LockedSteps, Recorded
<1> HIDE DEF v
<1> QED
  BY <1>1, <1>2, <1>3, <1>4, <1>5, MovesOn DEF TailClear

\* The launcher has started what there was, or was stopped: it goes to wait, or gives up.
LEMMA LaunchedKeeps ==
  ASSUME NEW s \in Sessions, PhaseInv, TypeOK', Launched(s)
  PROVE  PhaseInv'
<1>1. /\ sess[s].r \in Runs /\ sess[s].step = "launching" /\ sess[s] \in SessionType
      /\ UNCHANGED <<board, run, track, excused, cp, used>> /\ Knows(s)
  BY DEF Launched, PhaseInv, Located, TypeOK
<1>2. PICK st \in {"freeing", "awaiting"} : sess' = [sess EXCEPT ![s].step = st]
  BY DEF Launched, Goto
<1>3. /\ sess'[s].step = st /\ sess'[s].r = sess[s].r /\ sess'[s].id = sess[s].id
      /\ sess'[s].gen = sess[s].gen /\ sess'[s].tasks = sess[s].tasks
      /\ \A x \in Sessions \ {s} : sess'[x] = sess[x]
  BY <1>1, <1>2 DEF PhaseInv, TypeOK, SessionType
<1>4. \A q \in Runs : FileStep(q)
  BY <1>1, FileKept DEF PhaseInv, TypeOK
<1>5. \A q \in Runs : used'.approvals[q] >= used.approvals[q]
  BY <1>1 DEF PhaseInv, TypeOK, Count
<1>6. {"launching", "freeing", "awaiting"} \subseteq LockedSteps /\ {"freeing", "awaiting"} \subseteq Recorded
      /\ {"freeing", "awaiting"} \intersect Asking = {}
  BY DEF LockedSteps, Recorded, Executing, Asking
<1>7. Turns(s)
  BY <1>1, <1>3, <1>6 DEF Turns
<1>8. Knows(s)'
  <2>1. ExecutorKnows(s) /\ run[sess[s].r].phase # "dispatch-queued"
    BY <1>1 DEF Knows, LauncherKnows
  <2>2. PICK r \in Runs : r = sess[s].r
    BY <1>1
  <2>3. OnlyMoves(s)
    BY <1>1, <1>3, <1>4, <1>5, <1>7 DEF OnlyMoves, Same
  <2>4. PICK id \in Nat, gen \in Nat, plan \in SUBSET TaskIds :
          id = sess[s].id /\ gen = sess[s].gen /\ plan = sess[s].tasks
    BY <1>1 DEF SessionType
  <2>5. Endorsed(r, id, gen, plan) /\ AtWork(r) \subseteq plan
    BY <1>1, <2>1, <2>2, <2>4 DEF ExecutorKnows, Executing
  <2>6. Endorsed(r, id, gen, plan)'
    BY <2>2, <2>3, <2>5, EndorsedKept DEF PhaseInv
  <2>7. ExecutorKnows(s)'
    BY <1>1, <1>3, <2>2, <2>4, <2>5, <2>6 DEF ExecutorKnows, AtWork
  <2>8. LauncherKnows(s)'
    BY <1>1, <1>3, <2>1 DEF LauncherKnows
  <2> QED
    BY <1>3, <2>7, <2>8 DEF Knows, DispatcherKnows, RecovererKnows, SweeperKnows, PlannerKnows, Reviewing
<1> QED
  BY <1>1, <1>3, <1>4, <1>5, <1>6, <1>7, <1>8, SessionMoves

\* A recovery reads what it may requeue, or finishes a shutdown.
LEMMA RecoverStarts ==
  ASSUME NEW s \in Sessions, NEW r \in Runs, PhaseInv, TypeOK', RecoverStart(s, r) \/ SweepStart(s, r)
  PROVE  PhaseInv'
<1>1. UNCHANGED <<board, run, track, excused, cp, used>> /\ sess[s].step = "idle" /\ ExecutorFree(r)
  BY DEF RecoverStart, SweepStart
<1>2. \A q \in Runs : FileStep(q)
  BY <1>1, FileKept DEF PhaseInv, TypeOK
<1>3. \A q \in Runs : used'.approvals[q] >= used.approvals[q]
  BY <1>1 DEF PhaseInv, TypeOK, Count
<1>4. /\ \A x \in Sessions \ {s} : sess'[x] = sess[x]
      /\ sess'[s].r = r
      /\ \/ sess'[s].step = "releasing"
         \/ sess'[s].step = "recovering" /\ sess'[s].tasks = {t \in TaskIds : track[r][t] = "ended"}
         \/ sess'[s].step = "sweeping" /\ ~Blocked(r)
  <2>1. ASSUME NEW v, sess' = [sess EXCEPT ![s] = v]
        PROVE  sess'[s] = v /\ \A x \in Sessions \ {s} : sess'[x] = sess[x]
    BY <2>1 DEF PhaseInv, TypeOK
  <2>2. CASE RecoverStart(s, r) /\ run[r].phase = "done"
    <3>1. sess' = [sess EXCEPT ![s] = [Idle EXCEPT !.step = "releasing", !.r = r]]
      BY <2>2 DEF RecoverStart
    <3> QED
      BY <2>1, <3>1 DEF Idle
  <2>3. CASE RecoverStart(s, r) /\ run[r].phase # "done"
    <3> DEFINE ended == {t \in TaskIds : track[r][t] = "ended"}
               i == IF CheckpointValid(r) \/ LiveWorker(r) THEN 0 ELSE 1
    <3>1. sess' = [sess EXCEPT ![s] = [Idle EXCEPT !.step = "recovering", !.r = r, !.id = i, !.tasks = ended]]
      BY <2>3 DEF RecoverStart
    <3> HIDE DEF i, ended
    <3>2. sess'[s].step = "recovering" /\ sess'[s].r = r /\ sess'[s].tasks = ended
      BY <2>1, <3>1 DEF Idle
    <3> QED
      BY <2>1, <3>1, <3>2 DEF ended
  <2>4. CASE SweepStart(s, r)
    <3>1. PICK st \in {"releasing", "sweeping"} : sess' = [sess EXCEPT ![s] = [Idle EXCEPT !.r = r, !.step = st]]
      BY <2>4 DEF SweepStart
    <3>2. ~Blocked(r)
      BY <2>4 DEF SweepStart
    <3>3. sess'[s].step = st /\ sess'[s].r = r
      BY <2>1, <3>1 DEF Idle
    <3> QED
      BY <2>1, <3>1, <3>2, <3>3
  <2> QED
    BY <2>2, <2>3, <2>4
<1>5. {"releasing", "recovering", "sweeping"} \intersect Asking = {} /\ "idle" \notin Recorded
  BY DEF Asking, Recorded, Executing
<1>6. Turns(s)
  BY <1>1, <1>4, <1>5 DEF Turns
<1>7. RunKnown(r)
  BY DEF PhaseInv
<1>8. Knows(s)'
  <2>1. RecovererKnows(s)'
    BY <1>1, <1>4, <1>7 DEF RecovererKnows, RunKnown, AtWork, Stopped
  <2>2. SweeperKnows(s)'
    BY <1>1, <1>4 DEF SweeperKnows, Blocked, LiveWorker, Live
  <2> QED
    BY <1>4, <2>1, <2>2 DEF Knows, DispatcherKnows, ExecutorKnows, LauncherKnows, PlannerKnows, Executing, Reviewing
<1> QED
  BY <1>1, <1>2, <1>3, <1>4, <1>5, <1>6, <1>8, SessionMoves

\* An approval is asked for, by hand or by the policy, under a number of its own.
LEMMA ApprovalAsked ==
  ASSUME NEW s \in Sessions, PhaseInv, TypeOK',
         \/ \E auto \in BOOLEAN : ReviewRecord(s, auto)
         \/ \E r \in Runs, waived \in BOOLEAN : ApproveStart(s, r, waived)
  PROVE  PhaseInv'
<1>1. UNCHANGED <<board, run, track, excused, cp>> /\ sess[s].step \in {"idle", "recordReview"}
      /\ (sess[s].step # "idle" => sess[s].r \in Runs) /\ sess[s] \in SessionType /\ Knows(s)
  BY DEF ReviewRecord, ApproveStart, PhaseInv, Located, TypeOK
<1>2. \A q \in Runs : FileStep(q)
  BY <1>1, FileKept DEF PhaseInv, TypeOK
<1>3. CASE End(s) /\ used' = used
  <2>1. sess[s].step \notin Recorded
    BY <1>1 DEF Recorded, Executing
  <2> QED
    BY <1>1, <1>3, <2>1, Ends
<1>4. CASE \E r \in Runs : /\ sess'[s].step = "approving" /\ sess'[s].r = r
                           /\ \A x \in Sessions \ {s} : sess'[x] = sess[x]
                           /\ sess'[s].id = used.approvals[r] + 1 /\ CountRun("approvals", r)
                           /\ sess'[s].valid => run[r].plan # {}
  <2>1. PICK r \in Runs : /\ sess'[s].step = "approving" /\ sess'[s].r = r
                          /\ \A x \in Sessions \ {s} : sess'[x] = sess[x]
                          /\ sess'[s].id = used.approvals[r] + 1 /\ CountRun("approvals", r)
                          /\ sess'[s].valid => run[r].plan # {}
    BY <1>4
  <2>2. used'.approvals = [used.approvals EXCEPT ![r] = used.approvals[r] + 1]
    BY <2>1 DEF CountRun, PhaseInv, TypeOK, Count
  <2>3. \A q \in Runs : used'.approvals[q] >= used.approvals[q]
    BY <2>2 DEF PhaseInv, TypeOK, Count
  <2>4. used'.approvals[r] = used.approvals[r] + 1
    BY <2>2 DEF PhaseInv, TypeOK, Count
  <2>5. "approving" \notin LockedSteps /\ sess[s].step \notin Recorded
    BY <1>1 DEF LockedSteps, Recorded, Executing
  <2>6. Turns(s)
    BY <2>1, <2>4, <2>5 DEF Turns
  <2>7. Knows(s)'
    BY <1>1, <2>1 DEF Knows, DispatcherKnows, ExecutorKnows, LauncherKnows, RecovererKnows, SweeperKnows,
       PlannerKnows, Executing
  <2> QED
    BY <1>1, <1>2, <2>1, <2>3, <2>5, <2>6, <2>7, SessionMoves
<1>5. ASSUME NEW r \in Runs, NEW waived \in BOOLEAN, ApproveStart(s, r, waived)
      PROVE  /\ sess'[s].step = "approving" /\ sess'[s].r = r
             /\ \A x \in Sessions \ {s} : sess'[x] = sess[x]
             /\ sess'[s].id = used.approvals[r] + 1 /\ CountRun("approvals", r)
             /\ sess'[s].valid => run[r].plan # {}
  BY <1>5 DEF ApproveStart, PhaseInv, TypeOK, Idle
<1>6. ASSUME NEW auto \in BOOLEAN, ReviewRecord(s, auto), ~(End(s) /\ used' = used)
      PROVE  /\ sess'[s].step = "approving" /\ sess'[s].r = sess[s].r
             /\ \A x \in Sessions \ {s} : sess'[x] = sess[x]
             /\ sess'[s].id = used.approvals[sess[s].r] + 1 /\ CountRun("approvals", sess[s].r)
             /\ sess'[s].valid => run[sess[s].r].plan # {}
  <2>1. sess' = [sess EXCEPT ![s].step = "approving", ![s].fresh = TRUE, ![s].id = used.approvals[sess[s].r] + 1]
        /\ CountRun("approvals", sess[s].r)
    BY <1>6 DEF ReviewRecord
  <2>2. sess'[s] = [sess[s] EXCEPT !.step = "approving", !.fresh = TRUE, !.id = used.approvals[sess[s].r] + 1]
        /\ \A x \in Sessions \ {s} : sess'[x] = sess[x]
    BY <2>1 DEF PhaseInv, TypeOK
  <2>3. sess'[s].valid = sess[s].valid /\ sess'[s].step = "approving" /\ sess'[s].r = sess[s].r
        /\ sess'[s].id = used.approvals[sess[s].r] + 1
    BY <1>1, <2>2 DEF SessionType
  <2>4. sess[s].step = "recordReview"
    BY <1>6 DEF ReviewRecord
  <2> QED
    BY <1>1, <2>1, <2>2, <2>3, <2>4 DEF Knows, PlannerKnows, Reviewing
<1> QED
  <2>1. CASE \E r \in Runs, waived \in BOOLEAN : ApproveStart(s, r, waived)
    BY <1>4, <1>5, <2>1
  <2>2. CASE \E auto \in BOOLEAN : ReviewRecord(s, auto)
    <3>1. sess[s].r \in Runs
      BY <1>1, <2>2 DEF ReviewRecord
    <3> QED
      BY <1>3, <1>4, <1>6, <2>2, <3>1
  <2> QED
    BY <2>1, <2>2

\* The checkpoint is written by the session that asked for the approval, and by no other.
LEMMA ApproveRecords ==
  ASSUME NEW s \in Sessions, PhaseInv, TypeOK', ApproveRecord(s)
  PROVE  PhaseInv'
<1>1. /\ sess[s].r \in Runs /\ sess[s].step = "recordCheckpoint" /\ sess[s] \in SessionType
      /\ UNCHANGED <<board, run, track, excused, used>> /\ End(s)
      /\ cp' = [cp EXCEPT ![sess[s].r] = [id |-> sess[s].id, gen |-> sess[s].gen, fresh |-> sess[s].fresh]]
  BY DEF ApproveRecord, PhaseInv, Located, TypeOK
<1>2. sess'[s] = Idle
  BY <1>1 DEF End, PhaseInv, TypeOK
<1>3. ASSUME NEW q \in Runs PROVE FileStep(q)
  <2>1. CASE q = sess[s].r
    <3>1. cp'[q].id = sess[s].id
      BY <1>1, <2>1 DEF PhaseInv, TypeOK
    <3>2. sess[s].step \in Asking /\ sess'[s].step \notin Asking
      BY <1>1, <1>2 DEF Asking, Idle
    <3> QED
      BY <2>1, <3>1, <3>2 DEF FileStep
  <2>2. CASE q # sess[s].r
    BY <1>1, <2>2 DEF FileStep, Held, PhaseInv, TypeOK
  <2> QED
    BY <2>1, <2>2
<1>4. Idle \in SessionType /\ Idle.step = "idle" /\ "idle" \notin Knowing \union Asking
      /\ "recordCheckpoint" \notin Recorded
  BY IdleTyped DEF Idle, Knowing, Asking, Executing, Reviewing, Recorded
<1> QED
  BY <1>1, <1>3, <1>4, MovesOn, StepKinds DEF End

\* A dispatch starts from an approval whose checkpoint is there, and whose claims are held.
LEMMA DispatchStarts ==
  ASSUME NEW s \in Sessions, NEW r \in Runs, PhaseInv, TypeOK', DispatchStart(s, r)
  PROVE  PhaseInv'
<1>1. /\ UNCHANGED <<board, run, track, excused, cp, used>> /\ sess[s].step = "idle" /\ ExecutorFree(r)
      /\ Dispatchable(r)
  BY DEF DispatchStart
<1>2. \A q \in Runs : FileStep(q)
  BY <1>1, FileKept DEF PhaseInv, TypeOK
<1>3. \A q \in Runs : used'.approvals[q] >= used.approvals[q]
  BY <1>1 DEF PhaseInv, TypeOK, Count
<1>4. /\ \A x \in Sessions \ {s} : sess'[x] = sess[x]
      /\ sess'[s].r = r /\ sess'[s].step = "dispatching" /\ sess'[s].id = run[r].approved
  BY DEF DispatchStart, PhaseInv, TypeOK, Idle
<1>5. "dispatching" \notin Asking /\ "idle" \notin Recorded
  BY DEF Asking, Recorded, Executing
<1>6. Turns(s)
  BY <1>1, <1>4, <1>5 DEF Turns
<1>7. Knows(s)'
  <2>1. /\ run[r].approved # 0 /\ cp[r].id = run[r].approved
        /\ \A t \in run[r].plan : board[t].by = r
    BY <1>1 DEF Dispatchable, CheckpointValid
  <2>2. Spent(r, run[r].approved)
    BY <2>1 DEF Spent, PhaseInv, AskedOnce
  <2>3. Spent(r, run[r].approved)'
    BY <1>1, <1>4, <1>5, <2>2 DEF Spent
  <2>4. DispatcherKnows(s)'
    BY <1>1, <1>4, <2>1, <2>3 DEF DispatcherKnows, Vouched, Held
  <2> QED
    BY <1>4, <2>4 DEF Knows, ExecutorKnows, LauncherKnows, RecovererKnows, SweeperKnows, PlannerKnows,
       Executing, Reviewing
<1> QED
  BY <1>1, <1>2, <1>3, <1>4, <1>5, <1>6, <1>7, SessionMoves

-----------------------------------------------------------------------------
(* The actions that write run.json. *)

\* Who asks for an approval did so before.
LEMMA AskingStill ==
  ASSUME NEW s, NEW r, TypeOK, sess'[s].step \notin Asking,
         \A x \in Sessions \ {s} :
           sess'[x] = IF sess[x].r = r THEN [sess[x] EXCEPT !.valid = FALSE] ELSE sess[x]
  PROVE  \A x \in Sessions : sess'[x].step \in Asking =>
           sess[x].step \in Asking /\ sess'[x].r = sess[x].r /\ sess'[x].id = sess[x].id
<1> TAKE x \in Sessions
<1>1. sess[x] \in SessionType
  BY DEF TypeOK
<1>2. CASE x = s
  BY <1>2
<1>3. CASE x # s /\ sess[x].r = r
  <2>1. sess'[x] = [sess[x] EXCEPT !.valid = FALSE]
    BY <1>3
  <2>2. sess'[x].step = sess[x].step /\ sess'[x].r = sess[x].r /\ sess'[x].id = sess[x].id
    BY <1>1, <2>1 DEF SessionType
  <2> QED
    BY <2>2
<1>4. CASE x # s /\ sess[x].r # r
  BY <1>4
<1> QED
  BY <1>2, <1>3, <1>4

\* What Writes does.
LEMMA WritesMove ==
  ASSUME NEW s \in Sessions, NEW r \in Runs, NEW new, NEW st \in Steps, PhaseInv, Writes(s, r, new, st)
  PROVE  /\ run'[r] = new /\ \A q \in Runs \ {r} : run'[q] = run[q]
         /\ \A x \in Sessions \ {s} :
              sess'[x] = IF sess[x].r = r THEN [sess[x] EXCEPT !.valid = FALSE] ELSE sess[x]
         /\ sess'[s].step = st
         /\ st # "idle" => /\ sess'[s].r = sess[s].r /\ sess'[s].id = sess[s].id
                           /\ sess'[s].gen = sess[s].gen /\ sess'[s].tasks = sess[s].tasks
                           /\ sess'[s].valid => sess[s].valid \/ st \in Unpublished
         /\ st \notin Asking => \A x \in Sessions : sess'[x].step \in Asking =>
              sess[x].step \in Asking /\ sess'[x].r = sess[x].r /\ sess'[x].id = sess[x].id
<1>1. sess[s] \in SessionType
  BY DEF PhaseInv, TypeOK
<1>2. \A x \in Sessions \ {s} :
        sess'[x] = IF sess[x].r = r THEN [sess[x] EXCEPT !.valid = FALSE] ELSE sess[x]
  BY DEF Writes
<1>3. sess'[s].step = st
  BY <1>1 DEF Writes, Idle, SessionType
<1>4. st \notin Asking => \A x \in Sessions : sess'[x].step \in Asking =>
        sess[x].step \in Asking /\ sess'[x].r = sess[x].r /\ sess'[x].id = sess[x].id
  BY <1>2, <1>3, AskingStill DEF PhaseInv
<1>5. run'[r] = new /\ \A q \in Runs \ {r} : run'[q] = run[q]
  BY DEF Writes, PhaseInv, TypeOK
<1>6. CASE st = "idle"
  BY <1>2, <1>3, <1>4, <1>5, <1>6
<1>7. CASE st # "idle"
  <2>1. sess'[s] = [sess[s] EXCEPT !.step = st, !.valid = st \in Unpublished]
    BY <1>7 DEF Writes
  <2>2. /\ sess'[s].step = st /\ sess'[s].r = sess[s].r /\ sess'[s].id = sess[s].id
        /\ sess'[s].gen = sess[s].gen /\ sess'[s].tasks = sess[s].tasks
    BY <1>1, <2>1 DEF SessionType
  <2>3. sess'[s].valid => st \in Unpublished
    BY <1>1, <2>1 DEF SessionType
  <2> QED
    BY <1>2, <1>4, <1>5, <1>7, <2>2, <2>3
<1> QED
  BY <1>6, <1>7

\* A run is written by a session in line with the frame, or under the run's lock.
LEMMA Written ==
  ASSUME NEW s \in Sessions, NEW r \in Runs, NEW new \in RunType, NEW st \in Steps, PhaseInv, TypeOK',
         Writes(s, r, new, st), UNCHANGED <<board, excused, cp, used>>,
         \A q \in Runs \ {r} : track'[q] = track[q],
         sess[s].step # "idle" => sess[s].r = r, st # "idle" => sess[s].step # "idle",
         st \in LockedSteps => sess[s].step \in LockedSteps, st \in Asking => sess[s].step \in Asking,
         \/ /\ RunStep(s, r) /\ TrackStep(r)
            /\ new.exec = "live" => \/ st \in Recorded
                                    \/ run[r].exec = "live" /\ sess[s].step \notin Recorded
         \/ /\ RunKnown(r)'
            /\ \A x \in Sessions : sess[x].r = r /\ sess[x].step \in LockedSteps => x = s,
         st \notin Knowing \/ Knows(s)'
  PROVE  PhaseInv'
<1>1. /\ run'[r] = new /\ \A q \in Runs \ {r} : run'[q] = run[q]
      /\ \A x \in Sessions \ {s} :
           sess'[x] = IF sess[x].r = r THEN [sess[x] EXCEPT !.valid = FALSE] ELSE sess[x]
      /\ sess'[s].step = st
      /\ st # "idle" => sess'[s].r = r /\ sess'[s].r = sess[s].r /\ sess'[s].id = sess[s].id
  BY WritesMove
<1>2. Turns(s)
  BY <1>1, StepKinds DEF Turns
<1>3. Knows(s)'
  BY <1>1, Ignorant
<1>4. \A st2 \in Recorded : st2 # "idle"
  BY DEF Recorded, Executing
<1>5. \A q \in Runs : FileStep(q)
  BY FileKept DEF PhaseInv, TypeOK
<1>6. \A x \in Sessions \ {s} : Same(x)
  BY <1>1, OthersSame DEF PhaseInv
<1> QED
  BY <1>1, <1>2, <1>3, <1>4, <1>5, <1>6, RunMoves

\* A run gets a phase in which nothing is dispatched; its approval goes, stays, or is new.
LEMMA Rephased ==
  ASSUME NEW s \in Sessions, NEW r \in Runs, NEW new \in RunType, NEW st \in Steps, PhaseInv, TypeOK',
         Writes(s, r, new, st), UNCHANGED <<board, excused, cp, used>>,
         \A q \in Runs \ {r} : track'[q] = track[q], TrackStep(r),
         sess[s].step # "idle" => sess[s].r = r, st # "idle" => sess[s].step # "idle",
         st \in LockedSteps => sess[s].step \in LockedSteps, st \in Asking => sess[s].step \in Asking,
         new.phase \notin Underway,
         new.phase \in TerminalPhases \/ run[r].phase \notin TerminalPhases \/ Queued(r)' = {} \/ Locks(s, r),
         \/ new.approved = 0
         \/ sess[s].step \in Asking /\ sess[s].r = r /\ new.approved = sess[s].id
         \/ new.approved = run[r].approved /\ new.gen = run[r].gen /\ new.plan = run[r].plan,
         new.phase = "plan-approved" => new.approved # 0 /\ new.plan # {},
         new.exec = "live" => st \in Recorded \/ (run[r].exec = "live" /\ sess[s].step \notin Recorded),
         st \notin Knowing \/ Knows(s)'
  PROVE  PhaseInv'
<1>1. run'[r] = new
  BY WritesMove
<1>2. RunStep(s, r)
  BY <1>1 DEF RunStep
<1> QED
  BY <1>2, Written

\* What a run keeps under a new phase.
LEMMA Renamed ==
  ASSUME NEW v \in RunType, NEW ph
  PROVE  /\ [v EXCEPT !.phase = ph].phase = ph /\ [v EXCEPT !.phase = ph].plan = v.plan
         /\ [v EXCEPT !.phase = ph].gen = v.gen /\ [v EXCEPT !.phase = ph].approved = v.approved
         /\ [v EXCEPT !.phase = ph].exec = v.exec
BY DEF RunType

\* The tracks of a run that stay.
LEMMA TracksKept ==
  ASSUME NEW q, track'[q] = track[q]
  PROVE  TrackStep(q)
BY DEF TrackStep, AtWork, Queued, Live, Stopped

\* commit, journal and approve-commit, and halt-run's write, rename the phase.
LEMMA PhaseRenamed ==
  ASSUME NEW s \in Sessions, PhaseInv, TypeOK',
         CommitDone(s) \/ CommitReset(s) \/ HaltRun(s) \/ \E r \in Runs : ApproveCommit(s, r) \/ Journal(s, r)
  PROVE  PhaseInv'
<1>1. UNCHANGED <<board, excused, cp, used, track>>
  BY DEF CommitDone, CommitReset, HaltRun, ApproveCommit, Journal
<1>2. sess[s].step \in {"committing", "halting", "idle"} /\ (sess[s].step # "idle" => sess[s].r \in Runs)
  BY DEF CommitDone, CommitReset, HaltRun, ApproveCommit, Journal, PhaseInv, Located
<1>3. \/ End(s) /\ run' = run
      \/ \E r \in Runs, ph \in {"committed", "awaiting-commit-approval", "halted", "commit-approved", "cycle-closed"},
            st \in {"idle", "stopping"} :
           /\ Writes(s, r, [run[r] EXCEPT !.phase = ph], st)
           /\ sess[s].step # "idle" => sess[s].r = r
           /\ st # "idle" => sess[s].step # "idle"
           /\ ph = "halted" \/ run[r].phase \notin TerminalPhases
  BY <1>2 DEF CommitDone, CommitReset, HaltRun, ApproveCommit, Journal, Unchanged, TerminalPhases
<1>4. sess[s].step \notin Recorded
  BY <1>2 DEF Recorded, Executing
<1>5. CASE End(s) /\ run' = run
  BY <1>1, <1>4, <1>5, Ends
<1>6. ASSUME NEW r \in Runs,
             NEW ph \in {"committed", "awaiting-commit-approval", "halted", "commit-approved", "cycle-closed"},
             NEW st \in {"idle", "stopping"}, Writes(s, r, [run[r] EXCEPT !.phase = ph], st),
             sess[s].step # "idle" => sess[s].r = r, st # "idle" => sess[s].step # "idle",
             ph = "halted" \/ run[r].phase \notin TerminalPhases
      PROVE  PhaseInv'
  <2> DEFINE new == [run[r] EXCEPT !.phase = ph]
  <2>1. new \in RunType /\ new.phase = ph /\ new.approved = run[r].approved /\ new.gen = run[r].gen
        /\ new.plan = run[r].plan /\ new.exec = run[r].exec
    <3>1. run[r] \in RunType /\ ph \in Phases
      BY DEF PhaseInv, TypeOK, Phases
    <3> QED
      BY <3>1, RunTyped, Renamed
  <2>2. st \in Steps /\ st \notin LockedSteps \union Asking \union Knowing
    BY DEF Steps, LockedSteps, Asking, Knowing, Executing, Reviewing
  <2>3. ph \notin Underway /\ ph # "plan-approved" /\ "halted" \in TerminalPhases
    BY DEF Underway, TerminalPhases
  <2>4. TrackStep(r)
    BY <1>1, TracksKept
  <2> HIDE DEF new
  <2>5. Writes(s, r, new, st)
    BY <1>6 DEF new
  <2> QED
    BY <1>1, <1>4, <1>6, <2>1, <2>2, <2>3, <2>4, <2>5, Rephased
<1> QED
  BY <1>3, <1>5, <1>6

\* A plan is published, reviewed or approved only by a compare-and-swap.
LEMMA PlanWritten ==
  ASSUME NEW s \in Sessions, PhaseInv, TypeOK', PlanPublish(s) \/ ReviewPasses(s) \/ ApprovePublish(s)
  PROVE  PhaseInv'
<1> DEFINE r == sess[s].r
<1>1. UNCHANGED <<board, excused, cp, used, track>> /\ sess[s].step \in {"publish", "reviewing", "approving"}
      /\ r \in Runs /\ Knows(s) /\ sess[s] \in SessionType /\ run[r] \in RunType
  BY DEF PlanPublish, ReviewPasses, ApprovePublish, PhaseInv, Located, TypeOK
<1>2. sess[s].step \notin Recorded
  BY <1>1 DEF Recorded, Executing
<1>3. TrackStep(r)
  BY <1>1, TracksKept
<1>4. CASE ~Unchanged(s)
  <2>1. CASE PlanPublish(s)
    <3> DEFINE v == [Idle EXCEPT !.step = "compensate", !.r = r]
    <3>1. sess' = [sess EXCEPT ![s] = v] /\ run' = run
      BY <1>4, <2>1 DEF PlanPublish
    <3>2. v \in SessionType /\ v.step = "compensate" /\ v.r = r
      BY <1>1, HandsTyped DEF Steps, Idle
    <3>3. "compensate" \notin Knowing \union Asking \union LockedSteps
      BY DEF LockedSteps, Asking, Knowing, Executing, Reviewing
    <3>4. \A q \in Runs : FileStep(q)
      BY <1>1, FileKept DEF PhaseInv, TypeOK
    <3> HIDE DEF v
    <3> QED
      BY <1>1, <1>2, <3>1, <3>2, <3>3, <3>4, MovesOn
  <2>2. CASE ReviewPasses(s) \/ ApprovePublish(s)
    <3>1. End(s) /\ run' = run
      BY <1>4, <2>2 DEF ReviewPasses, ApprovePublish
    <3> QED
      BY <1>1, <1>2, <3>1, Ends
  <2> QED
    BY <2>1, <2>2
<1>5. CASE Unchanged(s)
  <2>1. run[r].phase \notin TerminalPhases /\ sess[s].valid
    BY <1>5 DEF Unchanged
  <2>2. CASE PlanPublish(s)
    <3> DEFINE new == [run[r] EXCEPT !.phase = "awaiting-plan-approval", !.approved = 0,
                          !.plan = sess[s].tasks, !.gen = sess[s].gen]
    <3>1. Writes(s, r, new, "dropReview")
      BY <1>5, <2>2 DEF PlanPublish
    <3>2. new \in RunType /\ new.phase = "awaiting-plan-approval" /\ new.approved = 0 /\ new.exec = run[r].exec
      <4>1. "awaiting-plan-approval" \in Phases /\ sess[s].tasks \in SUBSET TaskIds /\ sess[s].gen \in Nat
        BY <1>1 DEF Phases, SessionType
      <4>2. new \in RunType
        BY <1>1, <4>1, RunTyped
      <4>3. new.phase = "awaiting-plan-approval" /\ new.approved = 0 /\ new.exec = run[r].exec
        BY <1>1 DEF RunType
      <4> QED
        BY <4>2, <4>3
    <3>3. "awaiting-plan-approval" \notin Underway /\ "dropReview" \in Steps
          /\ "dropReview" \notin Knowing \union Asking \union LockedSteps
      BY DEF Underway, Steps, LockedSteps, Asking, Knowing, Executing, Reviewing
    <3> HIDE DEF new
    <3> QED
      BY <1>1, <1>2, <1>3, <2>1, <3>1, <3>2, <3>3, Rephased
  <2>3. CASE ReviewPasses(s)
    <3> DEFINE new == [run[r] EXCEPT !.phase = "plan-reviewed"]
    <3>1. Writes(s, r, new, "recordReview") /\ sess[s].step = "reviewing"
      BY <1>5, <2>3 DEF ReviewPasses
    <3>2. new \in RunType /\ new.phase = "plan-reviewed" /\ new.approved = run[r].approved /\ new.gen = run[r].gen
          /\ new.plan = run[r].plan /\ new.exec = run[r].exec
      <4>1. "plan-reviewed" \in Phases
        BY DEF Phases
      <4> QED
        BY <1>1, <4>1, RunTyped, Renamed
    <3>3. "plan-reviewed" \notin Underway /\ "recordReview" \in Steps
          /\ "recordReview" \notin Asking \union LockedSteps
      BY DEF Underway, Steps, LockedSteps, Asking
    <3> HIDE DEF new
    <3>4. run'[r] = new /\ sess'[s].step = "recordReview" /\ sess'[s].r = r
      BY <1>1, <3>1, <3>3, WritesMove
    <3>5. run[r].plan # {}
      BY <1>1, <2>1, <3>1 DEF Knows, PlannerKnows, Reviewing
    <3>6. Knows(s)'
      BY <3>2, <3>4, <3>5 DEF Knows, DispatcherKnows, ExecutorKnows, LauncherKnows, RecovererKnows, SweeperKnows,
         PlannerKnows, Executing
    <3> QED
      BY <1>1, <1>2, <1>3, <2>1, <3>1, <3>2, <3>3, <3>6, Rephased
  <2>4. CASE ApprovePublish(s)
    <3> DEFINE new == [run[r] EXCEPT !.phase = "plan-approved", !.approved = sess[s].id]
    <3>1. Writes(s, r, new, "recordCheckpoint") /\ sess[s].step = "approving"
      BY <1>5, <2>4 DEF ApprovePublish
    <3>2. new \in RunType /\ new.phase = "plan-approved" /\ new.approved = sess[s].id
          /\ new.plan = run[r].plan /\ new.exec = run[r].exec
      <4>1. "plan-approved" \in Phases /\ sess[s].id \in Nat
        BY <1>1 DEF Phases, SessionType
      <4>2. new \in RunType
        BY <1>1, <4>1, RunTyped
      <4>3. new.phase = "plan-approved" /\ new.approved = sess[s].id /\ new.plan = run[r].plan /\ new.exec = run[r].exec
        BY <1>1 DEF RunType
      <4> QED
        BY <4>2, <4>3
    <3>3. "plan-approved" \notin Underway /\ "recordCheckpoint" \in Steps
          /\ "recordCheckpoint" \notin Knowing \union LockedSteps /\ "approving" \in Asking \intersect Reviewing
      BY DEF Underway, Steps, LockedSteps, Asking, Knowing, Executing, Reviewing
    <3>4. run[r].plan # {}
      BY <1>1, <2>1, <3>1 DEF Knows, PlannerKnows, Reviewing
    <3>5. sess[s].id # 0
      BY <3>1, <3>3 DEF PhaseInv, AskedOnce
    <3> HIDE DEF new
    <3> QED
      BY <1>1, <1>2, <1>3, <2>1, <3>1, <3>2, <3>3, <3>4, <3>5, Rephased
  <2> QED
    BY <2>2, <2>3, <2>4
<1> QED
  BY <1>4, <1>5

\* What a checkpoint vouches for is vouched for still, if nobody else asks for an approval.
LEMMA EndorsedStill ==
  ASSUME NEW q \in Runs, NEW id, NEW gen, NEW plan \in SUBSET TaskIds, UNCHANGED <<board, excused, cp, used>>,
         \A x \in Sessions : sess'[x].step \in Asking =>
           sess[x].step \in Asking /\ sess'[x].r = sess[x].r /\ sess'[x].id = sess[x].id,
         Endorsed(q, id, gen, plan)
  PROVE  Endorsed(q, id, gen, plan)'
BY DEF Endorsed, Spent, Vouched, Held

\* A session gives up what it has, but not yet the lock.
LEMMA GivesUp ==
  ASSUME NEW s \in Sessions, PhaseInv, TypeOK', UNCHANGED <<board, run, track, excused, cp, used>>,
         sess[s].step \in Recorded, Goto(s, "freeing")
  PROVE  PhaseInv'
<1> DEFINE v == [sess[s] EXCEPT !.step = "freeing"]
<1>1. sess[s] \in SessionType /\ sess' = [sess EXCEPT ![s] = v]
  BY DEF Goto, PhaseInv, TypeOK
<1>2. v \in SessionType /\ v.step = "freeing" /\ v.r = sess[s].r
  BY <1>1 DEF SessionType, Steps
<1>3. "freeing" \notin Knowing \union Asking /\ "freeing" \in Recorded /\ "idle" \notin Recorded
  BY DEF Knowing, Asking, Executing, Reviewing, Recorded
<1>4. sess[s].r \in Runs
  BY <1>3 DEF PhaseInv, Located
<1>5. \A q \in Runs : FileStep(q)
  BY FileKept DEF PhaseInv, TypeOK
<1> HIDE DEF v
<1> QED
  BY <1>1, <1>2, <1>3, <1>4, <1>5, StepKinds, MovesOn

LEMMA Frees ==
  ASSUME NEW s \in Sessions, PhaseInv, TypeOK', AwaitFree(s)
  PROVE  PhaseInv'
<1> DEFINE r == sess[s].r
           new == [run[r] EXCEPT !.exec = "none"]
<1>1. UNCHANGED <<board, excused, cp, used, track>> /\ sess[s].step = "freeing" /\ r \in Runs /\ run[r] \in RunType
  BY DEF AwaitFree, PhaseInv, Located, TypeOK
<1>2. CASE run[r].exec # "live"
  <2>1. End(s) /\ run' = run
    BY <1>2 DEF AwaitFree
  <2> QED
    BY <1>1, <1>2, <2>1, Ends
<1>3. CASE run[r].exec = "live"
  <2>1. Writes(s, r, new, "idle")
    BY <1>3 DEF AwaitFree
  <2>2. new \in RunType
    BY <1>1, RunTyped
  <2>3. new.exec = "none" /\ new.phase = run[r].phase /\ new.approved = run[r].approved
        /\ new.gen = run[r].gen /\ new.plan = run[r].plan
    BY <1>1 DEF RunType
  <2>4. "idle" \in Steps /\ "idle" \notin Knowing \union LockedSteps \union Asking
    BY DEF Steps, Knowing, LockedSteps, Asking, Executing, Reviewing
  <2> HIDE DEF new
  <2>5. RunStep(s, r) /\ TrackStep(r)
    BY <1>1, <2>1, <2>3, <2>4, WritesMove, TracksKept DEF RunStep
  <2> QED
    BY <1>1, <2>1, <2>2, <2>3, <2>4, <2>5, Written
<1> QED
  BY <1>2, <1>3

\* A run is closed, or begun anew, with no track.
LEMMA Cleared ==
  ASSUME NEW s \in Sessions, NEW r \in Runs, NEW new \in RunType, NEW st \in {"releasing", "indexing"},
         PhaseInv, TypeOK', Writes(s, r, new, st), UNCHANGED <<board, excused, cp, used>>,
         \A q \in Runs \ {r} : track'[q] = track[q], track'[r] = NoTracks,
         sess[s].step # "idle", sess[s].r = r, st = "releasing" => sess[s].step \in LockedSteps,
         new.phase \in {"done", "initialized"}, new.approved = 0, new.exec = "none"
  PROVE  PhaseInv'
<1>1. st \in Steps /\ st \notin Knowing \union Asking /\ "indexing" \notin LockedSteps
  BY DEF Steps, Knowing, Asking, LockedSteps, Executing, Reviewing
<1>2. new.phase \notin Underway /\ new.phase # "plan-approved"
  BY DEF Underway
<1>3. run'[r] = new
  BY <1>1, WritesMove
<1>4. TrackStep(r) /\ Queued(r)' = {}
  BY <1>2, <1>3 DEF TrackStep, NoTracks, AtWork, Queued, Live, Underway
<1> QED
  BY <1>1, <1>2, <1>4, Rephased

LEMMA ClosesInits ==
  ASSUME NEW s \in Sessions, PhaseInv, TypeOK', ClosePublish(s) \/ InitPublish(s)
  PROVE  PhaseInv'
<1> DEFINE r == sess[s].r
<1>1. /\ UNCHANGED <<board, excused, cp, used>> /\ sess[s].step \in {"closing", "initializing"}
      /\ r \in Runs /\ run[r] \in RunType /\ track \in [Runs -> [TaskIds -> TrackStates]]
  BY DEF ClosePublish, InitPublish, PhaseInv, Located, TypeOK
<1>2. CASE End(s) /\ UNCHANGED <<run, track>>
  <2>1. sess[s].step \notin Recorded
    BY <1>1 DEF Recorded, Executing
  <2> QED
    BY <1>1, <1>2, <2>1, Ends
<1>3. CASE ClosePublish(s) /\ ~(End(s) /\ UNCHANGED <<run, track>>)
  <2>1. Writes(s, r, Closed(r), "releasing") /\ track' = [track EXCEPT ![r] = NoTracks] /\ sess[s].step = "closing"
    BY <1>3 DEF ClosePublish
  <2>2. Closed(r) \in RunType
    BY <1>1, RunTyped DEF Closed
  <2>3. Closed(r).phase = "done" /\ Closed(r).approved = 0 /\ Closed(r).exec = "none"
    BY <1>1 DEF Closed, RunType
  <2>4. "closing" \in LockedSteps
    BY DEF LockedSteps
  <2> QED
    BY <1>1, <2>1, <2>2, <2>3, <2>4, Cleared
<1>4. CASE InitPublish(s) /\ ~(End(s) /\ UNCHANGED <<run, track>>)
  <2>1. Writes(s, r, NewRun, "indexing") /\ track' = [track EXCEPT ![r] = NoTracks]
    BY <1>4 DEF InitPublish
  <2>2. NewRun \in RunType /\ NewRun.phase = "initialized" /\ NewRun.approved = 0 /\ NewRun.exec = "none"
    BY NewTyped DEF NewRun
  <2> QED
    BY <1>1, <2>1, <2>2, Cleared
<1> QED
  BY <1>2, <1>3, <1>4

LEMMA Replans ==
  ASSUME NEW s \in Sessions, PhaseInv, TypeOK', ReplanPublish(s)
  PROVE  PhaseInv'
<1> DEFINE r == sess[s].r
           new == [run[r] EXCEPT !.phase = "awaiting-plan-approval", !.approved = 0, !.plan = {}, !.gen = 0]
<1>1. UNCHANGED <<board, excused, cp, used, track>> /\ sess[s].step = "replanning" /\ r \in Runs /\ run[r] \in RunType
  BY DEF ReplanPublish, PhaseInv, Located, TypeOK
<1>2. sess[s].step \notin Recorded /\ Locks(s, r)
  BY <1>1 DEF Recorded, Executing, Locks, LockedSteps
<1>3. CASE run[r].phase \in {"halted", "done"}
  <2>1. End(s) /\ run' = run
    BY <1>3 DEF ReplanPublish
  <2> QED
    BY <1>1, <1>2, <2>1, Ends
<1>4. CASE run[r].phase \notin {"halted", "done"}
  <2>1. Writes(s, r, new, "idle")
    BY <1>4 DEF ReplanPublish
  <2>2. new \in RunType
    <3>1. "awaiting-plan-approval" \in Phases /\ {} \in SUBSET TaskIds /\ 0 \in Nat
      BY DEF Phases
    <3> QED
      BY <1>1, <3>1, RunTyped
  <2>3. new.phase = "awaiting-plan-approval" /\ new.approved = 0 /\ new.exec = run[r].exec
    BY <1>1 DEF RunType
  <2>4. "idle" \in Steps /\ "idle" \notin Knowing \union LockedSteps \union Asking
        /\ "awaiting-plan-approval" \notin Underway
    BY DEF Steps, Knowing, LockedSteps, Asking, Executing, Reviewing, Underway
  <2>5. TrackStep(r)
    BY <1>1, TracksKept
  <2> HIDE DEF new
  <2> QED
    BY <1>1, <1>2, <2>1, <2>2, <2>3, <2>4, <2>5, Rephased
<1> QED
  BY <1>3, <1>4

-----------------------------------------------------------------------------
(* Dispatch, and the executor. *)

\* The session that holds the lock is the only one that does.
LEMMA LockHolder ==
  ASSUME NEW s \in Sessions, NEW r, OneExecutor, sess[s].r = r, sess[s].step \in LockedSteps
  PROVE  \A x \in Sessions : sess[x].r = r /\ sess[x].step \in LockedSteps => x = s
BY DEF OneExecutor

\* A plan is queued for the approval the dispatcher read.
LEMMA Dispatches ==
  ASSUME NEW s \in Sessions, PhaseInv, TypeOK', DispatchPublish(s)
  PROVE  PhaseInv'
<1> PICK r \in Runs : r = sess[s].r
  BY DEF DispatchPublish, PhaseInv, Located
<1> DEFINE new == [run[r] EXCEPT !.phase = "dispatch-queued"]
<1>1. /\ UNCHANGED <<board, excused, cp, used>> /\ sess[s].step = "dispatching" /\ run[r] \in RunType
      /\ Knows(s) /\ RunKnown(r) /\ track \in [Runs -> [TaskIds -> TrackStates]] /\ OneExecutor
  BY DEF DispatchPublish, PhaseInv, TypeOK
<1>2. sess[s].step \notin Recorded /\ sess[s].step \in LockedSteps
  BY <1>1 DEF Recorded, Executing, LockedSteps
<1>3. CASE End(s) /\ UNCHANGED <<run, track>>
  BY <1>1, <1>2, <1>3, Ends
<1>4. CASE ~(End(s) /\ UNCHANGED <<run, track>>)
  <2>1. /\ run[r].phase = "plan-approved" /\ run[r].approved = sess[s].id
        /\ Writes(s, r, new, "idle")
        /\ track' = [track EXCEPT ![r] = [t \in TaskIds |-> IF t \in run[r].plan THEN "queued" ELSE "none"]]
    BY <1>4 DEF DispatchPublish
  <2>2. new \in RunType
    <3>1. "dispatch-queued" \in Phases
      BY DEF Phases
    <3> QED
      BY <1>1, <3>1, RunTyped
  <2>3. new.phase = "dispatch-queued" /\ new.approved = run[r].approved /\ new.gen = run[r].gen
        /\ new.plan = run[r].plan /\ new.exec = run[r].exec
    BY <1>1, Renamed
  <2>4. "idle" \in Steps /\ "idle" \notin Knowing \union LockedSteps \union Asking
    BY DEF Steps, Knowing, LockedSteps, Asking, Executing, Reviewing
  <2> HIDE DEF new
  <2>5. run'[r] = new /\ sess'[s].step = "idle"
    <3>1. Writes(s, r, new, "idle") /\ "idle" \in Steps /\ "idle" \notin Asking
      BY <2>1, <2>4
    <3>2. run'[r] = new
      BY <3>1, WritesMove
    <3>3. sess'[s].step = "idle"
      BY <3>1, WritesMove
    <3> QED
      BY <3>2, <3>3
  <2>6. /\ \A t \in TaskIds : track'[r][t] = IF t \in run[r].plan THEN "queued" ELSE "none"
        /\ \A q \in Runs \ {r} : track'[q] = track[q]
    BY <1>1, <2>1
  <2>7. \A x \in Sessions : sess[x].r = r /\ sess[x].step \in LockedSteps => x = s
    BY <1>1, <1>2, LockHolder
  <2>8. run[r].exec # "live"
    BY <1>1, <1>2, <2>7, StepKinds DEF RunKnown
  <2>9. Endorsed(r, run[r].approved, run[r].gen, run[r].plan)
    BY <1>1, <2>1 DEF Knows, DispatcherKnows, Endorsed
  <2>10. \A x \in Sessions : sess'[x].step \in Asking =>
           sess[x].step \in Asking /\ sess'[x].r = sess[x].r /\ sess'[x].id = sess[x].id
    <3>1. Writes(s, r, new, "idle") /\ "idle" \in Steps /\ "idle" \notin Asking
      BY <2>1, <2>4
    <3> QED
      BY <3>1, WritesMove
  <2>11. Endorsed(r, run[r].approved, run[r].gen, run[r].plan)'
    <3> PICK id \in Nat, gen \in Nat, plan \in SUBSET TaskIds :
             id = run[r].approved /\ gen = run[r].gen /\ plan = run[r].plan
      BY <1>1 DEF RunType
    <3>1. Endorsed(r, id, gen, plan)'
      BY <1>1, <2>9, <2>10, EndorsedStill
    <3> QED
      BY <2>3, <2>5, <3>1
  <2>12. RunKnown(r)'
    <3>1. AtWork(r)' \subseteq run[r].plan /\ Live(r)' = {} /\ (run[r].plan # {} => Stopped(r)' # {})
      BY <1>1, <2>6 DEF AtWork, Live, Stopped, RunType
    <3>2. run[r].plan # {}
      BY <1>1, <2>1 DEF RunKnown
    <3> QED
      BY <2>3, <2>5, <2>8, <2>11, <3>1, <3>2 DEF RunKnown
  <2> QED
    BY <1>1, <1>2, <2>1, <2>2, <2>4, <2>6, <2>7, <2>12, Written
<1> QED
  BY <1>3, <1>4

\* The executor starts with the run as it was dispatched.
LEMMA Acquires ==
  ASSUME NEW s \in Sessions, NEW r \in Runs, PhaseInv, TypeOK', AwaitAcquire(s, r)
  PROVE  PhaseInv'
<1>1. /\ UNCHANGED <<board, excused, cp, used, track>> /\ sess[s].step = "idle" /\ ExecutorFree(r)
      /\ run[r].phase = "dispatch-queued" /\ run[r] \in RunType /\ RunKnown(r)
  BY DEF AwaitAcquire, PhaseInv, TypeOK
<1>2. /\ sess'[s].step = "acquired" /\ sess'[s].r = r /\ sess'[s].tasks = run[r].plan
      /\ sess'[s].id = run[r].approved /\ sess'[s].gen = run[r].gen
      /\ \A x \in Sessions \ {s} : sess'[x] = IF sess[x].r = r THEN [sess[x] EXCEPT !.valid = FALSE] ELSE sess[x]
  BY DEF AwaitAcquire, Idle
<1>3. /\ run'[r].phase = run[r].phase /\ run'[r].approved = run[r].approved
      /\ run'[r].gen = run[r].gen /\ run'[r].plan = run[r].plan
      /\ \A q \in Runs \ {r} : run'[q] = run[q]
  BY <1>1 DEF AwaitAcquire, PhaseInv, TypeOK, RunType
<1>4. "acquired" \in Recorded \intersect LockedSteps \intersect Executing /\ "acquired" \notin Asking
  BY DEF Recorded, LockedSteps, Executing, Asking
<1>5. Turns(s)
  BY <1>1, <1>2, <1>4 DEF Turns
<1>6. Knows(s)'
  <2>1. \A x \in Sessions : sess'[x].step \in Asking =>
           sess[x].step \in Asking /\ sess'[x].r = sess[x].r /\ sess'[x].id = sess[x].id
    <3>1. TypeOK /\ sess'[s].step \notin Asking
      BY <1>2, <1>4 DEF PhaseInv
    <3>2. \A x \in Sessions \ {s} :
            sess'[x] = IF sess[x].r = r THEN [sess[x] EXCEPT !.valid = FALSE] ELSE sess[x]
      BY <1>2
    <3> QED
      BY <3>1, <3>2, AskingStill
  <2>2. PICK id \in Nat, gen \in Nat, plan \in SUBSET TaskIds :
             id = run[r].approved /\ gen = run[r].gen /\ plan = run[r].plan
    BY <1>1 DEF RunType
  <2>3. Endorsed(r, id, gen, plan) /\ AtWork(r) \subseteq plan
    BY <1>1, <2>2 DEF RunKnown, Underway
  <2>4. Endorsed(r, id, gen, plan)'
    BY <1>1, <2>1, <2>3, EndorsedStill
  <2>5. ExecutorKnows(s)'
    BY <1>1, <1>2, <2>2, <2>3, <2>4 DEF ExecutorKnows, AtWork
  <2> QED
    BY <1>2, <2>5 DEF Knows, DispatcherKnows, LauncherKnows, RecovererKnows, SweeperKnows, PlannerKnows, Reviewing
<1>7. RunStep(s, r) /\ TrackStep(r)
  BY <1>1, <1>3, TracksKept DEF RunStep
<1>8. \A q \in Runs : FileStep(q)
  BY <1>1, FileKept DEF PhaseInv, TypeOK
<1>9. \A x \in Sessions \ {s} : Same(x)
  BY <1>2, <1>3, OthersSame DEF PhaseInv
<1> QED
  BY <1>1, <1>2, <1>3, <1>4, <1>5, <1>6, <1>7, <1>8, <1>9, RunMoves

\* The executor marks its run running, or its queue as previewed, or gives up.
LEMMA MarkedRunning ==
  ASSUME NEW s \in Sessions, NEW dry \in BOOLEAN, PhaseInv, TypeOK', AwaitRun(s, dry)
  PROVE  PhaseInv'
<1> PICK r \in Runs : r = sess[s].r
  BY DEF AwaitRun, PhaseInv, Located
<1>1. /\ UNCHANGED <<board, excused, cp, used>> /\ sess[s].step = "acquired" /\ run[r] \in RunType
      /\ Knows(s) /\ RunKnown(r) /\ track \in [Runs -> [TaskIds -> TrackStates]] /\ OneExecutor
      /\ sess[s] \in SessionType
  BY DEF AwaitRun, PhaseInv, TypeOK
<1>2. sess[s].step \in Recorded \intersect LockedSteps /\ "idle" \notin Recorded \union LockedSteps
  BY <1>1 DEF Recorded, Executing, LockedSteps
<1>3. CASE Goto(s, "freeing") /\ UNCHANGED <<run, track>>
  BY <1>1, <1>2, <1>3, GivesUp
<1>4. ASSUME run[r].phase = "dispatch-queued", Writes(s, r, [run[r] EXCEPT !.phase = "dry-run-preview"], "freeing"),
             track' = [track EXCEPT ![r] = [t \in TaskIds |->
                         IF track[r][t] = "queued" THEN "preview" ELSE track[r][t]]]
      PROVE  PhaseInv'
  <2> DEFINE new == [run[r] EXCEPT !.phase = "dry-run-preview"]
  <2>1. "dry-run-preview" \in Phases /\ "dry-run-preview" \notin Underway /\ "dispatch-queued" \notin TerminalPhases
        /\ "freeing" \in Recorded \intersect LockedSteps \intersect Steps /\ "freeing" \notin Asking \union Knowing
    BY DEF Phases, Underway, TerminalPhases, Recorded, LockedSteps, Asking, Knowing, Steps, Executing, Reviewing
  <2>2. new \in RunType /\ new.phase = "dry-run-preview" /\ new.approved = run[r].approved
        /\ new.gen = run[r].gen /\ new.plan = run[r].plan
    BY <1>1, <2>1, RunTyped, Renamed
  <2>3. Writes(s, r, new, "freeing")
    BY <1>4
  <2> HIDE DEF new
  <2>4. run'[r] = new
    BY <2>1, <2>3, WritesMove
  <2>5. /\ \A t \in TaskIds : track'[r][t] = IF track[r][t] = "queued" THEN "preview" ELSE track[r][t]
        /\ \A q \in Runs \ {r} : track'[q] = track[q]
    BY <1>1, <1>4
  <2>6. TrackStep(r)
    BY <2>2, <2>4, <2>5 DEF TrackStep, AtWork, Queued, Live
  <2> QED
    BY <1>1, <1>2, <1>4, <2>1, <2>2, <2>3, <2>5, <2>6, Rephased
<1>5. ASSUME run[r].phase = "dispatch-queued", CheckpointValid(r),
             Writes(s, r, [run[r] EXCEPT !.phase = "running"], "launching"), track' = track
      PROVE  PhaseInv'
  <2> DEFINE new == [run[r] EXCEPT !.phase = "running"]
  <2>1. "running" \in Phases /\ "running" \in Underway /\ "dispatch-queued" \in Underway
        /\ "launching" \in Recorded \intersect LockedSteps \intersect Steps /\ "launching" \notin Asking \union Reviewing
    BY DEF Phases, Underway, TerminalPhases, Recorded, LockedSteps, Asking, Steps, Executing, Reviewing
  <2>2. new \in RunType /\ new.phase = "running" /\ new.approved = run[r].approved
        /\ new.gen = run[r].gen /\ new.plan = run[r].plan
    BY <1>1, <2>1, RunTyped, Renamed
  <2>3. Writes(s, r, new, "launching")
    BY <1>5
  <2> HIDE DEF new
  <2>4. /\ run'[r] = new /\ sess'[s].step = "launching" /\ sess'[s].r = r
        /\ sess'[s].id = sess[s].id /\ sess'[s].gen = sess[s].gen /\ sess'[s].tasks = sess[s].tasks
        /\ \A x \in Sessions \ {s} :
             sess'[x] = IF sess[x].r = r THEN [sess[x] EXCEPT !.valid = FALSE] ELSE sess[x]
    BY <2>1, <2>3, WritesMove
  <2>5. \A x \in Sessions : sess'[x].step \in Asking =>
           sess[x].step \in Asking /\ sess'[x].r = sess[x].r /\ sess'[x].id = sess[x].id
    BY <2>1, <2>3, WritesMove
  <2>6. ASSUME NEW id, NEW gen, NEW plan \in SUBSET TaskIds, Endorsed(r, id, gen, plan)
        PROVE  Endorsed(r, id, gen, plan)'
    BY <1>1, <2>5, <2>6, EndorsedStill
  <2>7. RunKnown(r)'
    <3> PICK id \in Nat, gen \in Nat, plan \in SUBSET TaskIds :
             id = run[r].approved /\ gen = run[r].gen /\ plan = run[r].plan
      BY <1>1 DEF RunType
    <3>1. Endorsed(r, id, gen, plan) /\ AtWork(r) \subseteq plan
      BY <1>1, <1>5, <2>1 DEF RunKnown
    <3>2. Endorsed(r, id, gen, plan)'
      BY <2>6, <3>1
    <3>3. Endorsed(r, run[r].approved, run[r].gen, run[r].plan)'
      BY <2>2, <2>4, <3>2
    <3>4. AtWork(r)' \subseteq run'[r].plan
      BY <1>5, <2>2, <2>4, <3>1 DEF AtWork
    <3>5. \A t \in Live(r)' : Held(r, t)'
      BY <1>1, <1>5 DEF RunKnown, Live, Held
    <3> QED
      BY <2>1, <2>2, <2>4, <3>3, <3>4, <3>5 DEF RunKnown
  <2>8. Knows(s)'
    <3> PICK id \in Nat, gen \in Nat, plan \in SUBSET TaskIds :
             id = sess[s].id /\ gen = sess[s].gen /\ plan = sess[s].tasks
      BY <1>1 DEF SessionType
    <3>1. Endorsed(r, id, gen, plan) /\ AtWork(r) \subseteq plan
      BY <1>1 DEF Knows, ExecutorKnows, Executing
    <3>2. Endorsed(r, id, gen, plan)'
      BY <2>6, <3>1
    <3>3. ExecutorKnows(s)'
      BY <1>5, <2>4, <3>1, <3>2 DEF ExecutorKnows, AtWork
    <3>4. \A t \in Queued(r)' : Held(r, t)'
      <4>1. \A t \in run[r].plan : Held(r, t)
        BY <1>1, <1>5, <2>1 DEF RunKnown, Endorsed, Vouched, CheckpointValid
      <4>2. Queued(r)' \subseteq run[r].plan
        BY <1>1, <1>5, <2>1 DEF RunKnown, Queued, AtWork
      <4> QED
        BY <1>1, <4>1, <4>2 DEF Held
    <3>5. LauncherKnows(s)'
      BY <2>2, <2>4, <3>4 DEF LauncherKnows
    <3> QED
      BY <2>1, <2>4, <3>3, <3>5 DEF Knows, DispatcherKnows, RecovererKnows, SweeperKnows, PlannerKnows
  <2>9. \A x \in Sessions : sess[x].r = r /\ sess[x].step \in LockedSteps => x = s
    BY <1>1, <1>2, LockHolder
  <2> QED
    BY <1>1, <1>2, <1>5, <2>1, <2>2, <2>3, <2>7, <2>8, <2>9, Written
<1> QED
  BY <1>3, <1>4, <1>5 DEF AwaitRun

\* The executor's copy of the run is written over the run: what it covers was approved.
LEMMA Concludes ==
  ASSUME NEW s \in Sessions, NEW auto \in BOOLEAN, PhaseInv, TypeOK', AwaitConclude(s, auto)
  PROVE  PhaseInv'
<1> PICK r \in Runs : r = sess[s].r
  BY DEF AwaitConclude, PhaseInv, Located
<1>1. /\ UNCHANGED <<board, excused, cp, used, track>> /\ sess[s].step = "concluding" /\ run[r] \in RunType
      /\ Knows(s) /\ RunKnown(r) /\ OneExecutor /\ sess[s] \in SessionType
  BY DEF AwaitConclude, PhaseInv, TypeOK
<1>2. sess[s].step \in Recorded \intersect LockedSteps /\ "idle" \notin Recorded \union LockedSteps
  BY <1>1 DEF Recorded, Executing, LockedSteps
<1>3. CASE Goto(s, "freeing") /\ run' = run
  BY <1>1, <1>2, <1>3, GivesUp
<1>4. ASSUME NEW ph \in {"commit-approved", "awaiting-commit-approval", "error", "running"},
             Writes(s, r, [phase |-> ph, plan |-> sess[s].tasks, gen |-> sess[s].gen,
                        approved |-> sess[s].id, exec |-> "live"], "freeing")
      PROVE  PhaseInv'
  <2> DEFINE new == [phase |-> ph, plan |-> sess[s].tasks, gen |-> sess[s].gen,
                     approved |-> sess[s].id, exec |-> "live"]
  <2>1. "freeing" \in Recorded \intersect LockedSteps \intersect Steps /\ "freeing" \notin Asking \union Knowing
    BY DEF Recorded, LockedSteps, Asking, Knowing, Steps, Executing, Reviewing
  <2>2. new \in RunType /\ new.phase = ph /\ new.approved = sess[s].id
        /\ new.gen = sess[s].gen /\ new.plan = sess[s].tasks /\ ph # "dispatch-queued" /\ ph # "plan-approved"
    BY <1>1 DEF RunType, SessionType, Phases
  <2>3. Writes(s, r, new, "freeing")
    BY <1>4
  <2> HIDE DEF new
  <2>4. /\ run'[r] = new /\ sess'[s].step = "freeing" /\ sess'[s].r = r
        /\ \A x \in Sessions \ {s} :
             sess'[x] = IF sess[x].r = r THEN [sess[x] EXCEPT !.valid = FALSE] ELSE sess[x]
    BY <2>1, <2>3, WritesMove
  <2>5. \A x \in Sessions : sess'[x].step \in Asking =>
           sess[x].step \in Asking /\ sess'[x].r = sess[x].r /\ sess'[x].id = sess[x].id
    BY <2>1, <2>3, WritesMove
  <2>6. RunKnown(r)'
    <3> PICK id \in Nat, gen \in Nat, plan \in SUBSET TaskIds :
             id = sess[s].id /\ gen = sess[s].gen /\ plan = sess[s].tasks
      BY <1>1 DEF SessionType
    <3>1. Endorsed(r, id, gen, plan) /\ AtWork(r) \subseteq plan
      BY <1>1 DEF Knows, ExecutorKnows, Executing
    <3>2. Endorsed(r, id, gen, plan)'
      BY <1>1, <2>5, <3>1, EndorsedStill
    <3>3. Endorsed(r, run[r].approved, run[r].gen, run[r].plan)'
      BY <2>2, <2>4, <3>2
    <3>4. AtWork(r)' \subseteq run'[r].plan
      BY <1>1, <2>2, <2>4, <3>1 DEF AtWork
    <3>5. \A t \in Live(r)' : Held(r, t)'
      BY <1>1 DEF RunKnown, Live, Held
    <3> QED
      BY <2>1, <2>2, <2>4, <3>3, <3>4, <3>5 DEF RunKnown
  <2>7. \A x \in Sessions : sess[x].r = r /\ sess[x].step \in LockedSteps => x = s
    BY <1>1, <1>2, LockHolder
  <2> QED
    BY <1>1, <1>2, <2>1, <2>2, <2>3, <2>6, <2>7, Written
<1> QED
  BY <1>3, <1>4 DEF AwaitConclude

\* A recovery takes a stale approval back, requeues what was lost, or closes the run.
LEMMA Recovers ==
  ASSUME NEW s \in Sessions, PhaseInv, TypeOK', RecoverApply(s)
  PROVE  PhaseInv'
<1> PICK r \in Runs : r = sess[s].r
  BY DEF RecoverApply, PhaseInv, Located
<1> DEFINE lost  == sess[s].tasks
           back  == sess[s].id = 1 /\ ~Blocked(r) /\ run[r].phase \in ReturnPhases
           again == {t \in lost : board[t].state \notin {"Done", "Failed"}}
           close == Pending(board) = {} /\ run[r].phase = "cycle-closed" /\ ~Blocked(r)
           first == IF back THEN "awaiting-plan-approval" ELSE run[r].phase
           next  == IF again # {} THEN Requeued(first) ELSE first
           exec  == IF run[r].exec = "dead" \/ again # {} THEN "none" ELSE run[r].exec
           asked == IF back THEN 0 ELSE run[r].approved
           kept  == [run[r] EXCEPT !.phase = next, !.exec = exec, !.approved = asked]
           st    == IF back THEN "unbinding" ELSE IF close THEN "releasing" ELSE "idle"
<1>1. /\ UNCHANGED <<board, excused, cp, used>> /\ sess[s].step = "recovering" /\ run[r] \in RunType
      /\ Knows(s) /\ RunKnown(r) /\ OneExecutor /\ sess[s] \in SessionType
      /\ track \in [Runs -> [TaskIds -> TrackStates]]
  BY DEF RecoverApply, PhaseInv, Located, TypeOK
<1>2. sess[s].step \in LockedSteps \ Recorded
  BY <1>1 DEF LockedSteps, Recorded, Executing
<1>3. CASE End(s) /\ UNCHANGED <<run, track>>
  BY <1>1, <1>2, <1>3, Ends
<1>4. CASE ~(End(s) /\ UNCHANGED <<run, track>>)
  <2>1. /\ Writes(s, r, IF close THEN Closed(r) ELSE kept, st)
        /\ track' = [track EXCEPT ![r] = [t \in TaskIds |->
                 IF close THEN "none"
                 ELSE IF t \in lost THEN IF t \in again THEN "queued" ELSE "settled"
                 ELSE track[r][t]]]
    BY <1>4 DEF RecoverApply
  <2>2. close => ~back /\ st = "releasing"
    BY DEF ReturnPhases
  <2>3. st \in {"unbinding", "releasing", "idle"}
    OBVIOUS
  <2>4. again \subseteq lost /\ lost \subseteq TaskIds
    BY <1>1 DEF SessionType
  <2>5. \A x \in Sessions : sess[x].r = r /\ sess[x].step \in LockedSteps => x = s
    BY <1>1, <1>2, LockHolder
  <2>6. run[r].exec # "live"
    BY <1>1, <1>2, <2>5, StepKinds DEF RunKnown
  <2>7. exec \in {"none", "dead"}
    BY <1>1, <2>6 DEF RunType
  <2>8. next \in Phases /\ asked \in Nat
    BY <1>1 DEF RunType, Phases, Requeued
  <2>9. next = "plan-approved" => run[r].phase = "plan-approved" /\ asked = run[r].approved
    BY <2>8 DEF Requeued
  <2>10. next \in Underway => run[r].phase \in Underway /\ asked = run[r].approved
    BY DEF Requeued, Underway
  <2>11. next = "dispatch-queued" => run[r].phase = "dispatch-queued" \/ again # {}
    BY DEF Requeued
  <2>12. CASE close
    <3> HIDE DEF back, again, close, kept, st
    <3>1. Writes(s, r, Closed(r), "releasing") /\ track' = [track EXCEPT ![r] = [t \in TaskIds |-> "none"]]
      BY <2>1, <2>2, <2>12
    <3>2. track' = [track EXCEPT ![r] = NoTracks]
      BY <3>1 DEF NoTracks
    <3>3. Closed(r) \in RunType
      BY <1>1, RunTyped DEF Closed
    <3>4. Closed(r).phase = "done" /\ Closed(r).approved = 0 /\ Closed(r).exec = "none"
      BY <1>1 DEF Closed, RunType
    <3> QED
      BY <1>1, <1>2, <3>1, <3>2, <3>3, <3>4, Cleared
  <2>13. CASE ~close
    <3> HIDE DEF back, again, close, next, exec, asked, st
    <3>1. kept \in RunType
      BY <1>1, <2>7, <2>8 DEF RunType
    <3>2. kept.phase = next /\ kept.exec = exec /\ kept.approved = asked /\ kept.plan = run[r].plan
          /\ kept.gen = run[r].gen
      BY <1>1 DEF RunType
    <3> HIDE DEF kept
    <3>3. Writes(s, r, kept, st)
      BY <2>1, <2>13
    <3>4. /\ \A t \in TaskIds : track'[r][t] = IF t \in lost THEN IF t \in again THEN "queued" ELSE "settled"
                                               ELSE track[r][t]
          /\ \A q \in Runs \ {r} : track'[q] = track[q]
      BY <1>1, <2>1, <2>13
    <3>5. st \in Steps /\ st \notin Asking /\ st \notin Knowing
      BY <2>3 DEF Steps, Asking, Knowing, Executing, Reviewing
    <3>6. run'[r] = kept /\ \A x \in Sessions : sess'[x].step \in Asking =>
           sess[x].step \in Asking /\ sess'[x].r = sess[x].r /\ sess'[x].id = sess[x].id
      BY <3>3, <3>5, WritesMove
    <3>7. ASSUME kept.phase \in Underway
          PROVE  Endorsed(r, run[r].approved, run[r].gen, run[r].plan)' /\ AtWork(r)' \subseteq run'[r].plan
      <4> PICK id \in Nat, gen \in Nat, plan \in SUBSET TaskIds, q \in Runs :
               id = run[r].approved /\ gen = run[r].gen /\ plan = run[r].plan /\ q = r
        BY <1>1 DEF RunType
      <4>1. run[r].phase \in Underway /\ asked = run[r].approved
        BY <2>10, <3>2, <3>7
      <4>2. Endorsed(q, id, gen, plan) /\ AtWork(r) \subseteq plan
        BY <1>1, <4>1 DEF RunKnown
      <4>3. Endorsed(q, id, gen, plan)'
        BY <1>1, <3>6, <4>2, EndorsedStill
      <4>4. lost \subseteq plan
        BY <1>1, <4>1 DEF Knows, RecovererKnows
      <4>5. AtWork(r)' \subseteq plan
        BY <3>4, <4>2, <4>4 DEF AtWork
      <4> QED
        BY <3>2, <3>6, <4>1, <4>3, <4>5
    <3>8. kept.phase = "dispatch-queued" => Stopped(r)' # {}
      <4>1. CASE run[r].phase = "dispatch-queued"
        <5>1. Stopped(r) \ lost # {}
          BY <1>1, <4>1 DEF Knows, RecovererKnows
        <5> QED
          BY <3>4, <5>1 DEF Stopped
      <4>2. again # {} => Stopped(r)' # {}
        BY <2>4, <3>4 DEF Stopped
      <4> QED
        BY <2>11, <3>2, <4>1, <4>2
    <3>9. \A t \in Live(r)' : Held(r, t)'
      <4>1. Live(r)' \subseteq Live(r)
        BY <3>4 DEF Live
      <4> QED
        BY <1>1, <4>1 DEF RunKnown, Held
    <3>10. RunKnown(r)'
      BY <1>1, <2>7, <2>9, <3>2, <3>6, <3>7, <3>8, <3>9 DEF RunKnown
    <3>11. st \in LockedSteps => sess[s].step \in LockedSteps
      BY <1>2
    <3> QED
      BY <1>1, <1>2, <2>5, <3>1, <3>3, <3>4, <3>5, <3>10, <3>11, Written
  <2> QED
    BY <2>12, <2>13
<1> QED
  BY <1>3, <1>4

\* A review is asked for: an approval does not outlive the request.
LEMMA ReviewStarts ==
  ASSUME NEW s \in Sessions, NEW r \in Runs, PhaseInv, TypeOK', ReviewStart(s, r)
  PROVE  PhaseInv'
<1>1. /\ UNCHANGED <<board, track, excused, used>> /\ sess[s].step = "idle" /\ run[r] \in RunType
      /\ run[r].plan # {} /\ cp \in [Runs -> CheckpointType]
  BY DEF ReviewStart, PhaseInv, TypeOK
<1>2. \A q \in Runs : FileStep(q)
  <2>1. cp' = cp \/ cp' = [cp EXCEPT ![r] = NoCheckpoint]
    BY DEF ReviewStart
  <2> QED
    BY <1>1, <2>1, FileKept
<1>3. "reviewing" \notin LockedSteps \union Asking /\ "idle" \notin Recorded /\ "reviewing" # "publish"
  BY DEF LockedSteps, Asking, Recorded, Executing
<1>4. sess'[s].step = "reviewing" /\ sess'[s].r = r
  <2> DEFINE v == [Idle EXCEPT !.step = "reviewing", !.r = r, !.valid = TRUE, !.gen = run[r].gen]
  <2>1. sess'[s] = v
    <3> HIDE DEF v
    <3>1. sess' = [sess EXCEPT ![s] = v] \/
          sess' = [x \in Sessions |-> IF x = s THEN v ELSE IF sess[x].r = r THEN [sess[x] EXCEPT !.valid = FALSE]
                                      ELSE sess[x]]
      BY DEF ReviewStart, v
    <3> QED
      BY <3>1 DEF PhaseInv, TypeOK
  <2> QED
    BY <2>1 DEF Idle
<1>5. run'[r].plan = run[r].plan
  BY <1>1 DEF ReviewStart, PhaseInv, TypeOK, RunType
<1>6. Turns(s)
  BY <1>3, <1>4 DEF Turns
<1>7. Knows(s)'
  BY <1>1, <1>4, <1>5 DEF Knows, DispatcherKnows, ExecutorKnows, LauncherKnows, RecovererKnows, SweeperKnows,
     PlannerKnows, Executing
<1>8. CASE run' = run
  <2>1. \A x \in Sessions \ {s} : sess'[x] = sess[x]
    <3>1. ~(run[r].phase = "plan-approved" /\ ~halt[r])
      <4>1. "awaiting-plan-approval" # "plan-approved"
        OBVIOUS
      <4> QED
        BY <1>1, <1>8, <4>1 DEF ReviewStart, PhaseInv, TypeOK, RunType
    <3> QED
      BY <3>1 DEF ReviewStart, PhaseInv, TypeOK
  <2>2. \A q \in Runs : used'.approvals[q] >= used.approvals[q]
    BY <1>1 DEF PhaseInv, TypeOK, Count
  <2> QED
    BY <1>1, <1>2, <1>3, <1>6, <1>7, <1>8, <2>1, <2>2, SessionMoves
<1>9. CASE run' # run
  <2>1. /\ run[r].phase = "plan-approved"
        /\ run' = [run EXCEPT ![r].phase = "awaiting-plan-approval", ![r].approved = 0]
        /\ \A x \in Sessions \ {s} : sess'[x] = IF sess[x].r = r THEN [sess[x] EXCEPT !.valid = FALSE] ELSE sess[x]
    BY <1>9 DEF ReviewStart
  <2>2. /\ run'[r].phase = "awaiting-plan-approval" /\ run'[r].approved = 0 /\ run'[r].exec = run[r].exec
        /\ \A q \in Runs \ {r} : run'[q] = run[q]
    BY <1>1, <2>1 DEF PhaseInv, TypeOK, RunType
  <2>3. RunStep(s, r)
    BY <2>1, <2>2 DEF RunStep, Underway, TerminalPhases
  <2>4. TrackStep(r)
    BY <1>1, TracksKept
  <2>5. \A x \in Sessions \ {s} : Same(x)
    BY <2>1, <2>2, OthersSame DEF PhaseInv
  <2>6. /\ UNCHANGED <<board, excused, track>> /\ \A q \in Runs : used'.approvals[q] = used.approvals[q]
        /\ sess[s].step = "idle" /\ sess[s].step \notin Recorded
    BY <1>1, <1>3
  <2> QED
    BY <1>2, <1>6, <1>7, <2>2, <2>3, <2>4, <2>5, <2>6, RunMoves
<1> QED
  BY <1>8, <1>9

-----------------------------------------------------------------------------
(* The actions on the tracks. *)

\* A halt stops the tracks.
LEMMA TracksHalt ==
  ASSUME NEW s \in Sessions, NEW resisting, PhaseInv, TypeOK', HaltTracks(s, resisting)
  PROVE  PhaseInv'
<1> PICK r \in Runs : r = sess[s].r
  BY DEF HaltTracks, PhaseInv, Located
<1>1. /\ UNCHANGED <<board, run, excused, cp, used>> /\ sess[s].step = "stopping" /\ sess[s] \in SessionType
      /\ resisting \subseteq {t \in TaskIds : track[r][t] = "running"}
      /\ \A q \in Runs : used.approvals[q] \in Nat
  BY DEF HaltTracks, PhaseInv, TypeOK, Count
<1>2. sess[s].step \notin Recorded /\ "disclaiming" \notin LockedSteps \union Asking \union Knowing
  BY <1>1 DEF Recorded, Executing, LockedSteps, Asking, Knowing, Reviewing
<1>3. sess'[s].step = "disclaiming" /\ sess'[s].r = r /\ \A x \in Sessions \ {s} : sess'[x] = sess[x]
  BY <1>1 DEF HaltTracks, Goto, PhaseInv, TypeOK, SessionType
<1>4. /\ \A t \in TaskIds : track'[r][t] =
            IF t \in resisting THEN "stubborn"
            ELSE IF track[r][t] \in {"queued", "running", "ended"} THEN "halted" ELSE track[r][t]
      /\ \A q \in Runs \ {r} : track'[q] = track[q]
  BY DEF HaltTracks, PhaseInv, TypeOK
<1>5. TrackStep(r)
  BY <1>1, <1>4 DEF TrackStep, AtWork, Queued, Live, Stopped
<1>6. RunStep(s, r)
  BY <1>1 DEF RunStep
<1>7. Turns(s) /\ Knows(s)'
  BY <1>2, <1>3, Ignorant DEF Turns
<1>8. \A q \in Runs : FileStep(q)
  BY <1>1, FileKept DEF PhaseInv, TypeOK
<1>9. \A x \in Sessions \ {s} : Same(x)
  BY <1>1, <1>3 DEF Same
<1> QED
  BY <1>1, <1>2, <1>3, <1>4, <1>5, <1>6, <1>7, <1>8, <1>9, RunMoves

\* The outcomes of the ended tracks are settled.
LEMMA TracksSettle ==
  ASSUME NEW s \in Sessions, NEW errored, PhaseInv, TypeOK', AwaitSettle(s, errored)
  PROVE  PhaseInv'
<1> PICK r \in Runs : r = sess[s].r
  BY DEF AwaitSettle, PhaseInv, Located
<1>1. /\ UNCHANGED <<board, run, excused, cp, used>> /\ sess[s].step = "awaiting" /\ sess[s] \in SessionType
      /\ Knows(s) /\ \A q \in Runs : used.approvals[q] \in Nat
  BY DEF AwaitSettle, PhaseInv, TypeOK, Count
<1>2. {"freeing", "concluding", "awaiting"} \subseteq LockedSteps \intersect Recorded
      /\ {"freeing", "concluding"} \intersect (Asking \union Reviewing) = {}
  BY DEF Recorded, Executing, LockedSteps, Asking, Reviewing
<1>3. PICK st \in {"freeing", "concluding"} : sess' = [sess EXCEPT ![s].step = st]
  BY DEF AwaitSettle, Goto
<1>4. /\ sess'[s].step = st /\ sess'[s].r = r /\ sess'[s].id = sess[s].id /\ sess'[s].gen = sess[s].gen
      /\ sess'[s].tasks = sess[s].tasks /\ \A x \in Sessions \ {s} : sess'[x] = sess[x]
  BY <1>1, <1>3 DEF PhaseInv, TypeOK, SessionType
<1>5. /\ \A t \in TaskIds : IF track[r][t] # "ended" THEN track'[r][t] = track[r][t]
                            ELSE track'[r][t] \in {"done", "failed", "settled"}
      /\ \A q \in Runs \ {r} : track'[q] = track[q]
  <2>1. /\ \A t \in TaskIds : track'[r][t] =
              IF track[r][t] # "ended" THEN track[r][t]
              ELSE IF board[t].state = "Done" THEN "done"
              ELSE IF board[t].state = "Failed" \/ t \in errored THEN "failed"
              ELSE "settled"
        /\ \A q \in Runs \ {r} : track'[q] = track[q]
    BY DEF AwaitSettle, PhaseInv, TypeOK
  <2> QED
    BY <2>1
<1>6. TrackStep(r)
  BY <1>5 DEF TrackStep, AtWork, Queued, Live, Stopped
<1>7. RunStep(s, r)
  BY <1>1 DEF RunStep
<1>8. Turns(s)
  BY <1>1, <1>2, <1>4 DEF Turns
<1>9. Knows(s)'
  <2> PICK id \in Nat, gen \in Nat, plan \in SUBSET TaskIds :
           id = sess[s].id /\ gen = sess[s].gen /\ plan = sess[s].tasks
    BY <1>1 DEF SessionType
  <2>1. Endorsed(r, id, gen, plan) /\ AtWork(r) \subseteq plan /\ run[r].phase # "dispatch-queued"
    BY <1>1 DEF Knows, ExecutorKnows, Executing, LauncherKnows
  <2>2. \A x \in Sessions : sess'[x].step \in Asking =>
           sess[x].step \in Asking /\ sess'[x].r = sess[x].r /\ sess'[x].id = sess[x].id
    BY <1>2, <1>4
  <2>3. Endorsed(r, id, gen, plan)'
    BY <1>1, <2>1, <2>2, EndorsedStill
  <2>4. AtWork(r)' \subseteq plan
    BY <1>6, <2>1 DEF TrackStep
  <2>5. ExecutorKnows(s)'
    BY <1>4, <2>3, <2>4 DEF ExecutorKnows
  <2>6. LauncherKnows(s)'
    BY <1>1, <1>4, <2>1 DEF LauncherKnows
  <2> QED
    BY <1>2, <1>4, <2>5, <2>6 DEF Knows, DispatcherKnows, RecovererKnows, SweeperKnows, PlannerKnows
<1>10. \A q \in Runs : FileStep(q)
  BY <1>1, FileKept DEF PhaseInv, TypeOK
<1>11. \A x \in Sessions \ {s} : Same(x)
  BY <1>1, <1>4 DEF Same
<1> QED
  BY <1>1, <1>2, <1>4, <1>5, <1>6, <1>7, <1>8, <1>9, <1>10, <1>11, RunMoves

\* A worker without an executor ends. Nobody moves.
LEMMA WorkersExit ==
  ASSUME NEW r \in Runs, NEW t \in TaskIds, PhaseInv, TypeOK', WorkerExits(r, t)
  PROVE  PhaseInv'
<1> PICK s : s \notin Sessions
  BY NoSetContainsEverything
<1>1. /\ UNCHANGED <<board, run, excused, cp, used, sess>>
      /\ \A q \in Runs : used.approvals[q] \in Nat
  BY DEF WorkerExits, PhaseInv, TypeOK, Count
<1>2. \A q \in Runs : FileStep(q)
  BY <1>1, FileKept DEF PhaseInv, TypeOK
<1>3. \A x \in Sessions : Same(x)
  BY <1>1 DEF Same
<1>4. OnlyMoves(s)
  BY <1>1, <1>2, <1>3 DEF OnlyMoves
<1>5. BoardKnown'
  BY <1>1 DEF PhaseInv, BoardKnown
<1>6. ASSUME NEW q \in Runs PROVE Frame(s, q)
  <2>1. \A u \in TaskIds : \/ track'[q][u] = track[q][u]
                           \/ track[q][u] = "running" /\ track'[q][u] = "ended"
                           \/ track[q][u] = "stubborn" /\ track'[q][u] = "halted"
    BY DEF WorkerExits, PhaseInv, TypeOK
  <2>2. TrackStep(q)
    BY <2>1 DEF TrackStep, AtWork, Queued, Live, Stopped
  <2>3. RunStep(s, q) /\ ExecStep(q)
    BY <1>1, <1>3 DEF RunStep, ExecStep
  <2>4. HeldStep(s, q)
    BY <1>1, <2>2 DEF HeldStep, TrackStep, Live, RunKnown, Held, PhaseInv
  <2> QED
    BY <2>2, <2>3, <2>4 DEF Frame
<1> QED
  BY <1>4, <1>5, <1>6, Kept

-----------------------------------------------------------------------------
(* The actions on the board. *)

\* What a board command leaves of the tasks.
LEMMA TaskCommands ==
  ASSUME NEW b \in BoardType, NEW t \in TaskIds
  PROVE  /\ \A st : \A u \in TaskIds : /\ SetState(b, t, st)[u].by = b[u].by
                                       /\ SetState(b, t, st)[u].lapsed = b[u].lapsed
                                       /\ SetState(b, t, st)[u].deps = b[u].deps
         /\ \A u \in TaskIds : /\ Lapse(b, t)[u].by = b[u].by
                               /\ Lapse(b, t)[u].lapsed => b[u].lapsed \/ u = t
                               /\ Lapse(b, t)[u].deps = b[u].deps
<1> USE DEF BoardType
<1>1. ASSUME NEW st, NEW u \in TaskIds
      PROVE  /\ SetState(b, t, st)[u].by = b[u].by /\ SetState(b, t, st)[u].lapsed = b[u].lapsed
             /\ SetState(b, t, st)[u].deps = b[u].deps
  BY DEF SetState, TaskType
<1>2. ASSUME NEW u \in TaskIds
      PROVE  /\ Lapse(b, t)[u].by = b[u].by /\ (Lapse(b, t)[u].lapsed => b[u].lapsed \/ u = t)
             /\ Lapse(b, t)[u].deps = b[u].deps
  BY DEF Lapse, TaskType
<1> QED
  BY <1>1, <1>2

LEMMA ReleaseCommand ==
  ASSUME NEW b \in BoardType, NEW r, NEW S, NEW u \in TaskIds
  PROVE  /\ ReleaseTasks(b, r, S)[u].by = IF b[u].by = r /\ u \in S THEN NoRun ELSE b[u].by
         /\ ReleaseTasks(b, r, S)[u].lapsed => b[u].lapsed
         /\ ReleaseTasks(b, r, S)[u].deps = b[u].deps
         /\ Release(b, r) = ReleaseTasks(b, r, TaskIds)
BY DEF ReleaseTasks, Release, BoardType, TaskType

\* What a claim by name leaves of them.
LEMMA ClaimCommand ==
  ASSUME NEW b \in BoardType, NEW r, NEW S
  PROVE  \A u \in TaskIds :
           /\ Claim(b, r, ClaimableByName(b, r, S))[u].deps = b[u].deps
           /\ u \in ClaimableByName(b, r, S) => /\ Claim(b, r, ClaimableByName(b, r, S))[u].by = r
                                                /\ ~Claim(b, r, ClaimableByName(b, r, S))[u].lapsed
                                                /\ b[u].by # r => b[u].by = NoRun \/ b[u].lapsed
           /\ u \notin ClaimableByName(b, r, S) => Claim(b, r, ClaimableByName(b, r, S))[u] = b[u]
<1> TAKE u \in TaskIds
<1> DEFINE C == ClaimableByName(b, r, S)
<1>1. u \in C /\ b[u].by # r => b[u].by = NoRun \/ b[u].lapsed
  BY DEF ClaimableByName, ActiveClaim
<1> HIDE DEF C
<1>2. u \in C => Claim(b, r, C)[u].by = r /\ ~Claim(b, r, C)[u].lapsed /\ Claim(b, r, C)[u].deps = b[u].deps
  BY DEF Claim, BoardType, TaskType
<1>3. u \notin C => Claim(b, r, C)[u] = b[u]
  BY DEF Claim, BoardType
<1> QED
  BY <1>1, <1>2, <1>3 DEF C

\* A checkpoint is out of date when the board changed.
LEMMA FilesAged ==
  ASSUME NEW new, TypeOK, BoardWritten(new)
  PROVE  \A q \in Runs : cp'[q].id = cp[q].id /\ (~cp'[q].fresh \/ (cp'[q] = cp[q] /\ board' = board))
BY DEF BoardWritten, TypeOK, CheckpointType

\* So are those under construction; nothing else changes for a session.
LEMMA OutdatedSame ==
  ASSUME NEW ss \in [Sessions -> SessionType], NEW changed
  PROVE  \A x \in Sessions :
           LET y == Outdated(ss, changed)[x]
           IN y.step = ss[x].step /\ y.r = ss[x].r /\ y.id = ss[x].id /\ y.gen = ss[x].gen
              /\ y.tasks = ss[x].tasks /\ y.valid = ss[x].valid
BY DEF Outdated, SessionType

\* A command writes the board while it holds session s.
LEMMA OneOutdated ==
  ASSUME NEW s \in Sessions, TypeOK, run' = run, NEW v \in SessionType, NEW changed,
         sess' = Outdated([sess EXCEPT ![s] = v], changed)
  PROVE  /\ \A x \in Sessions \ {s} : Same(x)
         /\ sess'[s].step = v.step /\ sess'[s].r = v.r /\ sess'[s].id = v.id /\ sess'[s].gen = v.gen
         /\ sess'[s].tasks = v.tasks /\ sess'[s].valid = v.valid
<1> DEFINE ss == [sess EXCEPT ![s] = v]
<1>1. ss \in [Sessions -> SessionType] /\ ss[s] = v /\ \A x \in Sessions \ {s} : ss[x] = sess[x]
  BY DEF TypeOK
<1> HIDE DEF ss
<1>2. \A x \in Sessions : /\ sess'[x].step = ss[x].step /\ sess'[x].r = ss[x].r /\ sess'[x].id = ss[x].id
                          /\ sess'[x].gen = ss[x].gen /\ sess'[x].tasks = ss[x].tasks
                          /\ sess'[x].valid = ss[x].valid
  <2>1. sess' = Outdated(ss, changed)
    BY DEF ss
  <2> QED
    BY <1>1, <2>1, OutdatedSame
<1>3. ASSUME NEW x \in Sessions \ {s} PROVE Same(x)
  <2>1. ss[x] = sess[x]
    BY <1>1
  <2>2. /\ sess'[x].step = ss[x].step /\ sess'[x].r = ss[x].r /\ sess'[x].id = ss[x].id
        /\ sess'[x].gen = ss[x].gen /\ sess'[x].tasks = ss[x].tasks
    BY <1>2, Zenon
  <2>3. sess'[x].valid = ss[x].valid
    BY <1>2, Zenon
  <2>4. sess'[x].valid => sess[x].valid
    BY <2>1, <2>3, Zenon
  <2> QED
    BY <2>1, <2>2, <2>4, Zenon DEF Same
<1> QED
  BY <1>1, <1>2, <1>3, Zenon

\* The claims of a run are given back when nothing of it is alive: it has ended, or the
\* session holds its lock, or is excused for what it took.
LEMMA Released ==
  ASSUME NEW s \in Sessions, NEW r \in Runs, PhaseInv, TypeOK', UNCHANGED <<run, track, used>>,
         BoardWritten(board) \/ (BoardWritten(Release(board, r)) /\ ~LiveWorker(r)),
         \A q \in Runs : excused[q] \subseteq excused'[q],
         \/ board' = board \/ run[r].phase \in TerminalPhases \/ Locks(s, r)
         \/ \A t \in TaskIds : board[t].by = r => board'[t].by = r \/ t \in excused'[r],
         \A x \in Sessions \ {s} : Same(x), Turns(s), sess'[s].step \notin Knowing, sess[s].step \notin Recorded
  PROVE  PhaseInv'
<1>1. board \in BoardType /\ BoardKnown /\ RunKnown(r) /\ NoRun \notin Runs
  BY SprintAssumption DEF PhaseInv, TypeOK
<1>2. \A t \in TaskIds : board[t].by \in Runs \union {NoRun}
  BY <1>1 DEF BoardType, TaskType
<1>3. board' = board \/ (board' = Release(board, r) /\ Live(r) = {})
  BY DEF BoardWritten, LiveWorker, Live
<1>4. \A t \in TaskIds : /\ board'[t].by = board[t].by \/ (board'[t].by = NoRun /\ board[t].by = r)
                         /\ board'[t].lapsed => board[t].lapsed
                         /\ board'[t].deps = board[t].deps
  BY <1>1, <1>3, ReleaseCommand
<1>5. BoardKnown'
  BY <1>1, <1>2, <1>4 DEF BoardKnown
<1>6. HeldStep(s, r)
  <2>1. \A t \in Live(r)' : Held(r, t)'
    <3>1. CASE board' = board
      BY <1>1, <3>1 DEF RunKnown, Live, Held
    <3>2. CASE Live(r) = {}
      BY <3>2 DEF Live
    <3> QED
      BY <1>3, <3>1, <3>2
  <2>2. run'[r].phase \in TerminalPhases \/ Locks(s, r) \/ \A t \in TaskIds : Held(r, t) => Held(r, t)'
    BY DEF Held
  <2> QED
    BY <2>1, <2>2 DEF HeldStep
<1>7. \A q \in Runs \ {r}, t \in TaskIds : board[t].by = q => board'[t].by = q \/ t \in excused'[q]
  BY <1>4
<1>8. \A q \in Runs : cp'[q].id = cp[q].id /\ (~cp'[q].fresh \/ (cp'[q] = cp[q] /\ board' = board))
  <2>1. PICK new : BoardWritten(new)
    OBVIOUS
  <2> QED
    BY <2>1, FilesAged DEF PhaseInv
<1>9. \A q \in Runs : used'.approvals[q] = used.approvals[q]
  OBVIOUS
<1>10. Knows(s)'
  BY Ignorant
<1> QED
  BY <1>5, <1>6, <1>7, <1>8, <1>9, <1>10, BoardMoves

LEMMA Releases ==
  ASSUME NEW s \in Sessions, PhaseInv, TypeOK',
         PlanCompensate(s) \/ HaltRelease(s) \/ TailRelease(s) \/ SweepRelease(s)
  PROVE  PhaseInv'
<1> PICK r \in Runs : r = sess[s].r
  BY DEF PlanCompensate, HaltRelease, TailRelease, SweepRelease, PhaseInv, Located
<1>1. /\ UNCHANGED <<run, track, used>> /\ sess[s].step \in {"compensate", "disclaiming", "releasing", "sweeping"}
      /\ Knows(s) /\ sess[s] \in SessionType /\ TypeOK
  BY DEF PlanCompensate, HaltRelease, TailRelease, SweepRelease, PhaseInv, TypeOK
<1>2. sess[s].step \notin Recorded /\ {"idle", "clearing"} \intersect (Knowing \union Asking) = {}
      /\ {"sweeping", "releasing", "clearing"} \subseteq LockedSteps \ {"launching"} /\ "idle" \notin LockedSteps
  BY <1>1 DEF Recorded, Executing, Knowing, Asking, Reviewing, LockedSteps
<1>3. Idle \in SessionType /\ Idle.step = "idle"
  BY IdleTyped DEF Idle
<1>4. CASE TailRelease(s) /\ Blocked(r)
  <2>1. UNCHANGED <<board, cp, excused>> /\ End(s)
    BY <1>4 DEF TailRelease
  <2> QED
    BY <1>1, <1>2, <2>1, Ends
<1>5. CASE ~(TailRelease(s) /\ Blocked(r))
  <2>1. PICK v, changed :
          /\ v \in SessionType
          /\ sess' = Outdated([sess EXCEPT ![s] = v], changed)
          /\ v.step = "idle" \/ (v.step = "clearing" /\ v.r = r /\ sess[s].step = "releasing")
    <3>1. CASE TailRelease(s)
      <4> DEFINE v == [sess[s] EXCEPT !.step = "clearing"]
      <4>1. v \in SessionType /\ v.step = "clearing" /\ v.r = r
        BY <1>1 DEF SessionType, Steps
      <4>2. [sess EXCEPT ![s].step = "clearing"] = [sess EXCEPT ![s] = v]
        BY <1>1 DEF TypeOK
      <4>3. sess' = Outdated([sess EXCEPT ![s] = v], board' # board) /\ sess[s].step = "releasing"
        BY <1>5, <3>1, <4>2 DEF TailRelease
      <4> QED
        BY <4>1, <4>3
    <3>2. CASE ~TailRelease(s)
      <4>1. sess' = Outdated([sess EXCEPT ![s] = Idle], board' # board)
        BY <3>2 DEF PlanCompensate, HaltRelease, SweepRelease
      <4> QED
        BY <1>3, <4>1
    <3> QED
      BY <3>1, <3>2
  <2>3. (\A x \in Sessions \ {s} : Same(x)) /\ sess'[s].step = v.step /\ sess'[s].r = v.r
    BY <1>1, <2>1, OneOutdated
  <2>4. Turns(s) /\ sess'[s].step \notin Knowing
    BY <1>2, <2>1, <2>3 DEF Turns
  <2>5. BoardWritten(board) \/ (BoardWritten(Release(board, r)) /\ ~LiveWorker(r))
    BY <1>1, <1>5 DEF PlanCompensate, HaltRelease, TailRelease, SweepRelease, Blocked, Knows, SweeperKnows,
       Live, LiveWorker
  <2>6. \A q \in Runs : excused[q] \subseteq excused'[q]
    <3>1. CASE HaltRelease(s)
      BY <1>1, <3>1 DEF HaltRelease, TypeOK
    <3>2. CASE ~HaltRelease(s)
      <4>1. excused' = excused
        BY <3>2 DEF PlanCompensate, TailRelease, SweepRelease
      <4> QED
        BY <4>1
    <3> QED
      BY <3>1, <3>2
  <2>7. \/ board' = board \/ run[r].phase \in TerminalPhases \/ Locks(s, r)
        \/ \A t \in TaskIds : board[t].by = r => board'[t].by = r \/ t \in excused'[r]
    <3>1. CASE PlanCompensate(s)
      BY <3>1 DEF PlanCompensate, BoardWritten, TerminalPhases
    <3>2. CASE HaltRelease(s)
      <4>1. DOMAIN board = TaskIds /\ DOMAIN board' = TaskIds
        BY <1>1 DEF TypeOK, BoardType
      <4> QED
        BY <1>1, <3>2, <4>1 DEF HaltRelease, Claimed, TypeOK, TerminalPhases
    <3>3. CASE TailRelease(s) \/ SweepRelease(s)
      BY <1>2, <3>3 DEF TailRelease, SweepRelease, Locks
    <3> QED
      BY <3>1, <3>2, <3>3
  <2> QED
    BY <1>1, <1>2, <2>3, <2>4, <2>5, <2>6, <2>7, Released
<1> QED
  BY <1>4, <1>5

\* Every board command leaves the claims of the other runs, and what a lapse excuses.
LEMMA ReplanStarts ==
  ASSUME NEW s \in Sessions, NEW r \in Runs, NEW t \in TaskIds \union {0}, PhaseInv, TypeOK', ReplanStart(s, r, t)
  PROVE  PhaseInv'
<1>1. /\ UNCHANGED <<run, track, excused>> /\ sess[s].step = "idle" /\ ExecutorFree(r)
      /\ TypeOK /\ BoardKnown /\ RunKnown(r) /\ board \in BoardType /\ \A q \in Runs : used.approvals[q] \in Nat
  BY DEF ReplanStart, PhaseInv, TypeOK, Count
<1>2. \A q \in Runs : used'.approvals[q] = used.approvals[q]
  BY <1>1 DEF ReplanStart, Fault, TypeOK, Count
<1>3. PICK new : BoardWritten(new) /\ (new = board \/ (t \in TaskIds /\ new = SetState(board, t, "Backlog")))
  <2>1. t = 0 \/ t \in TaskIds
    OBVIOUS
  <2> QED
    BY <2>1 DEF ReplanStart
<1>4. \A u \in TaskIds : /\ board'[u].by = board[u].by /\ (board'[u].lapsed => board[u].lapsed)
                         /\ board'[u].deps = board[u].deps
  <2>1. board' = board \/ (t \in TaskIds /\ board' = SetState(board, t, "Backlog"))
    BY <1>3 DEF BoardWritten
  <2> QED
    BY <1>1, <2>1, TaskCommands
<1>5. BoardKnown'
  BY <1>1, <1>4 DEF BoardKnown
<1> DEFINE v == [Idle EXCEPT !.step = "replanning", !.r = r]
<1>6. v \in SessionType /\ v.step = "replanning" /\ v.r = r
  <2>1. "replanning" \in Steps
    BY DEF Steps
  <2> QED
    BY <2>1, HandsTyped DEF Idle
<1>7. sess' = Outdated([sess EXCEPT ![s] = v], board' # board)
  BY DEF ReplanStart
<1> HIDE DEF v
<1>8. (\A x \in Sessions \ {s} : Same(x)) /\ sess'[s].step = "replanning" /\ sess'[s].r = r
  BY <1>1, <1>6, <1>7, OneOutdated
<1>9. "replanning" \notin Asking \union Knowing /\ "idle" \notin Recorded
  BY DEF Asking, Knowing, Executing, Reviewing, Recorded
<1>10. Turns(s) /\ Knows(s)'
  BY <1>1, <1>8, <1>9, Ignorant DEF Turns
<1>11. \A q \in Runs : cp'[q].id = cp[q].id /\ (~cp'[q].fresh \/ (cp'[q] = cp[q] /\ board' = board))
  BY <1>1, <1>3, FilesAged
<1>12. HeldStep(s, r)
  <2>1. \A u \in TaskIds : Held(r, u) => Held(r, u)'
    BY <1>1, <1>4 DEF Held
  <2> QED
    BY <1>1, <2>1 DEF HeldStep, Live, RunKnown
<1>13. \A q \in Runs \ {r}, u \in TaskIds : board[u].by = q => board'[u].by = q
  BY <1>4
<1> QED
  BY <1>1, <1>2, <1>5, <1>8, <1>9, <1>10, <1>11, <1>12, <1>13, BoardMoves

\* A plan takes what is free, or lapsed in the hands of others.
LEMMA PlanClaims ==
  ASSUME NEW s \in Sessions, NEW r \in Runs, PhaseInv, TypeOK', PlanClaim(s, r)
  PROVE  PhaseInv'
<1> PICK tasks : tasks = PlanTasks(board, r, Cardinality(TaskIds), Budget(r))
  OBVIOUS
<1> DEFINE C == ClaimableByName(board, r, tasks)
<1>1. /\ UNCHANGED <<run, track>> /\ sess[s].step = "idle"
      /\ TypeOK /\ BoardKnown /\ RunKnown(r) /\ board \in BoardType /\ NoRun \notin Runs
      /\ \A q \in Runs : used.approvals[q] \in Nat
  BY SprintAssumption DEF PlanClaim, PhaseInv, TypeOK, Count
<1>2. /\ tasks \subseteq C /\ board' = Claim(board, r, C)
      /\ cp' = [q \in Runs |-> [cp[q] EXCEPT !.fresh = FALSE]]
      /\ sess' = Outdated([sess EXCEPT ![s] = [Idle EXCEPT !.step = "publish", !.r = r,
                              !.valid = TRUE, !.gen = used.plans[r] + 1, !.tasks = tasks]], TRUE)
      /\ excused' = [excused EXCEPT ![r] = excused[r] \ tasks]
      /\ CountRun("plans", r)
  BY DEF PlanClaim
<1>3. tasks # {}
  BY DEF PlanTasks
<1>4. C \subseteq tasks \intersect TaskIds
  BY <1>1 DEF ClaimableByName, BoardType
<1>5. \A u \in TaskIds :
        /\ board'[u].deps = board[u].deps
        /\ u \in tasks => /\ board'[u].by = r /\ ~board'[u].lapsed
                          /\ board[u].by # r => board[u].by = NoRun \/ board[u].lapsed
        /\ u \notin tasks => board'[u] = board[u]
  BY <1>1, <1>2, <1>4, ClaimCommand
<1> HIDE DEF C
<1>6. excused'[r] = excused[r] \ tasks /\ \A q \in Runs \ {r} : excused'[q] = excused[q]
  BY <1>1, <1>2 DEF TypeOK
<1>7. \A u \in TaskIds : board[u].by \in Runs \union {NoRun}
  BY <1>1 DEF BoardType, TaskType
<1>8. BoardKnown'
  BY <1>1, <1>5, <1>6, <1>7 DEF BoardKnown
<1> DEFINE v == [Idle EXCEPT !.step = "publish", !.r = r, !.valid = TRUE, !.gen = used.plans[r] + 1, !.tasks = tasks]
<1>9. v \in SessionType /\ v.step = "publish" /\ v.r = r /\ v.tasks = tasks
  <2>1. "publish" \in Steps /\ used.plans[r] + 1 \in Nat /\ tasks \in SUBSET TaskIds
    BY <1>1, <1>2, <1>4 DEF Steps, TypeOK, Count
  <2> QED
    BY <2>1, HandsTyped DEF Idle
<1>10. sess' = Outdated([sess EXCEPT ![s] = v], TRUE)
  BY <1>2
<1> HIDE DEF v
<1>11. (\A x \in Sessions \ {s} : Same(x)) /\ sess'[s].step = "publish" /\ sess'[s].r = r /\ sess'[s].tasks = tasks
  BY <1>1, <1>9, <1>10, OneOutdated
<1>12. "publish" \notin Asking \union LockedSteps \union Executing \union Reviewing /\ "idle" \notin Recorded
  BY DEF Asking, LockedSteps, Executing, Reviewing, Recorded
<1>13. Turns(s)
  BY <1>1, <1>11, <1>12 DEF Turns
<1>14. Knows(s)'
  BY <1>3, <1>11, <1>12 DEF Knows, DispatcherKnows, ExecutorKnows, LauncherKnows, RecovererKnows, SweeperKnows,
     PlannerKnows
<1>15. \A q \in Runs : cp'[q].id = cp[q].id /\ ~cp'[q].fresh
  BY <1>1, <1>2 DEF TypeOK, CheckpointType
<1>16. HeldStep(s, r)
  <2>1. \A u \in TaskIds : Held(r, u) => Held(r, u)'
    BY <1>5, <1>6 DEF Held
  <2> QED
    BY <1>1, <2>1 DEF HeldStep, Live, RunKnown
<1>17. \A q \in Runs \ {r}, u \in TaskIds : board[u].by = q => board'[u].by = q \/ u \in excused'[q]
  BY <1>1, <1>5, <1>6 DEF BoardKnown
<1>18. \A q \in Runs, u \in TaskIds : u \in excused[q] => u \in excused'[q] \/ board'[u].by = q
  BY <1>5, <1>6
<1>19. \A q \in Runs : used'.approvals[q] = used.approvals[q]
  BY <1>1, <1>2 DEF CountRun, TypeOK, Count
<1> QED
  BY <1>1, <1>8, <1>11, <1>12, <1>13, <1>14, <1>15, <1>16, <1>17, <1>18, <1>19, BoardMoves

-----------------------------------------------------------------------------
(* The surroundings. *)

\* A command writes the board on behalf of no session, or of one that stays where it is.
LEMMA AllOutdated ==
  ASSUME TypeOK, run' = run, NEW changed, sess' = Outdated(sess, changed)
  PROVE  \A x \in Sessions : Same(x)
<1> PICK ss \in [Sessions -> SessionType] : ss = sess
  BY DEF TypeOK
<1>1. \A x \in Sessions : /\ sess'[x].step = ss[x].step /\ sess'[x].r = ss[x].r /\ sess'[x].id = ss[x].id
                          /\ sess'[x].gen = ss[x].gen /\ sess'[x].tasks = ss[x].tasks
                          /\ sess'[x].valid = ss[x].valid
  <2>1. sess' = Outdated(ss, changed)
    OBVIOUS
  <2> QED
    BY <2>1, OutdatedSame
<1> TAKE x \in Sessions
<1>2. sess'[x].valid => sess[x].valid
  BY <1>1, Zenon
<1> QED
  BY <1>1, <1>2, Zenon DEF Same

\* Nobody moves, and what is held stays held.
LEMMA NobodyMoves ==
  ASSUME PhaseInv, TypeOK', UNCHANGED <<run, track>>,
         \A q \in Runs : used'.approvals[q] = used.approvals[q] /\ FileStep(q),
         \A x \in Sessions : Same(x), BoardKnown',
         \A q \in Runs, t \in TaskIds : Held(q, t) => Held(q, t)'
  PROVE  PhaseInv'
<1> PICK s : s \notin Sessions
  BY NoSetContainsEverything
<1>1. OnlyMoves(s)
  <2>1. \A q \in Runs : used.approvals[q] \in Nat
    BY DEF PhaseInv, TypeOK, Count
  <2> QED
    BY <2>1 DEF OnlyMoves
<1>2. ASSUME NEW q \in Runs PROVE Frame(s, q)
  <2>1. RunStep(s, q) /\ ExecStep(q)
    BY DEF RunStep, ExecStep
  <2>2. TrackStep(q)
    BY TracksKept
  <2>3. HeldStep(s, q)
    <3>1. \A t \in Live(q) : Held(q, t)
      BY DEF PhaseInv, RunKnown
    <3> QED
      BY <3>1 DEF HeldStep, Live
  <2> QED
    BY <2>1, <2>2, <2>3 DEF Frame
<1> QED
  BY <1>1, <1>2, Kept

LEMMA Surrounded ==
  ASSUME PhaseInv, TypeOK',
         \/ \E t \in TaskIds : ClaimLapses(t) \/ \E st \in {"Backlog", "Done"} : UserMoves(t, st)
         \/ \E r \in Runs : LeaseExpires(r)
  PROVE  PhaseInv'
<1>1. TypeOK /\ BoardKnown /\ board \in BoardType /\ (\A q \in Runs : used.approvals[q] \in Nat)
      /\ \A t \in TaskIds : board[t].by \in Runs \union {NoRun}
  BY DEF PhaseInv, TypeOK, Count, BoardType, TaskType
<1>2. ASSUME NEW t \in TaskIds, ClaimLapses(t)
      PROVE  PhaseInv'
  <2>1. /\ UNCHANGED <<run, track, cp, sess>> /\ board' = Lapse(board, t)
        /\ excused' = [excused EXCEPT ![board[t].by] = excused[board[t].by] \union {t}]
        /\ Fault /\ board[t].by \in Runs
    BY <1>1, <1>2 DEF ClaimLapses, ActiveClaim
  <2>2. \A q \in Runs : used'.approvals[q] = used.approvals[q]
    BY <1>1, <2>1 DEF Fault, TypeOK, Count
  <2>3. \A u \in TaskIds : /\ board'[u].by = board[u].by /\ (board'[u].lapsed => board[u].lapsed \/ u = t)
                           /\ board'[u].deps = board[u].deps
    BY <1>1, <2>1, TaskCommands
  <2>4. (\A q \in Runs : excused[q] \subseteq excused'[q]) /\ t \in excused'[board[t].by]
    BY <1>1, <2>1 DEF TypeOK
  <2>5. BoardKnown'
    BY <1>1, <2>3, <2>4 DEF BoardKnown
  <2>6. \A q \in Runs, u \in TaskIds : Held(q, u) => Held(q, u)'
    BY <2>3, <2>4 DEF Held
  <2>7. \A q \in Runs : FileStep(q)
    BY <2>1, <2>6 DEF FileStep
  <2>8. \A x \in Sessions : Same(x)
    BY <2>1 DEF Same
  <2> QED
    BY <2>1, <2>2, <2>5, <2>6, <2>7, <2>8, NobodyMoves
<1>3. ASSUME NEW t \in TaskIds, NEW st \in {"Backlog", "Done"}, UserMoves(t, st)
      PROVE  PhaseInv'
  <2>1. /\ UNCHANGED <<run, track, excused>> /\ BoardWritten(SetState(board, t, st))
        /\ Fault /\ sess' = Outdated(sess, TRUE)
    BY <1>3 DEF UserMoves
  <2>2. \A q \in Runs : used'.approvals[q] = used.approvals[q]
    BY <1>1, <2>1 DEF Fault, TypeOK, Count
  <2>3. \A u \in TaskIds : /\ board'[u].by = board[u].by /\ (board'[u].lapsed => board[u].lapsed)
                           /\ board'[u].deps = board[u].deps
    <3>1. board' = SetState(board, t, st)
      BY <2>1 DEF BoardWritten
    <3> QED
      BY <1>1, <3>1, TaskCommands
  <2>4. BoardKnown'
    BY <1>1, <2>1, <2>3 DEF BoardKnown
  <2>5. \A q \in Runs, u \in TaskIds : Held(q, u) => Held(q, u)'
    BY <2>1, <2>3 DEF Held
  <2>6. \A q \in Runs : FileStep(q)
    BY <1>1, <2>1, <2>5, FilesAged DEF FileStep
  <2>7. \A x \in Sessions : Same(x)
    BY <1>1, <2>1, AllOutdated
  <2> QED
    BY <2>1, <2>2, <2>4, <2>5, <2>6, <2>7, NobodyMoves
<1>4. ASSUME NEW r \in Runs, LeaseExpires(r)
      PROVE  PhaseInv'
  <2>1. UNCHANGED <<board, run, track, cp, sess, used, excused>>
    BY <1>4 DEF LeaseExpires
  <2>2. \A q \in Runs : FileStep(q)
    BY <1>1, <2>1, FileKept DEF TypeOK
  <2>3. BoardKnown'
    BY <1>1, <2>1 DEF BoardKnown
  <2> QED
    BY <2>1, <2>2, <2>3, NobodyMoves DEF Same, Held
<1> QED
  BY <1>2, <1>3, <1>4

\* A session dies, and leaves a dead executor behind if it was one.
LEMMA Dies ==
  ASSUME NEW s \in Sessions, PhaseInv, TypeOK', Die(s)
  PROVE  PhaseInv'
<1> PICK r \in Runs : r = sess[s].r
  BY DEF Die, PhaseInv, Located
<1>1. /\ UNCHANGED <<board, track, cp, excused>> /\ End(s) /\ TypeOK /\ run[r] \in RunType
      /\ run' = run \/ run' = [run EXCEPT ![r].exec = "dead"]
      /\ sess[s].step \in Recorded /\ run[r].exec = "live" => run' = [run EXCEPT ![r].exec = "dead"]
  BY DEF Die, PhaseInv, TypeOK, Recorded, Executing
<1>2. \A q \in Runs : used'.approvals[q] = used.approvals[q]
  BY DEF Die, Fault, PhaseInv, TypeOK, Count
<1>3. sess'[s].step = "idle" /\ \A x \in Sessions \ {s} : sess'[x] = sess[x]
  BY <1>1 DEF End, Idle, TypeOK
<1>4. /\ run'[r].phase = run[r].phase /\ run'[r].approved = run[r].approved
      /\ run'[r].gen = run[r].gen /\ run'[r].plan = run[r].plan
      /\ \A q \in Runs \ {r} : run'[q] = run[q]
  <2>1. CASE run' = run
    BY <2>1
  <2>2. CASE run' = [run EXCEPT ![r].exec = "dead"]
    BY <1>1, <2>2 DEF TypeOK, RunType
  <2> QED
    BY <1>1, <2>1, <2>2
<1>5. run'[r].exec = "live" => run[r].exec = "live" /\ sess[s].step \notin Recorded
  <2>1. CASE run' = run
    <3>1. ASSUME run[r].exec = "live", sess[s].step \in Recorded PROVE FALSE
      <4>1. run'[r].exec = "dead"
        BY <1>1, <3>1 DEF TypeOK, RunType
      <4> QED
        BY <2>1, <3>1, <4>1
    <3> QED
      BY <2>1, <3>1
  <2>2. CASE run' = [run EXCEPT ![r].exec = "dead"]
    <3>1. run'[r].exec = "dead"
      BY <1>1, <2>2 DEF TypeOK, RunType
    <3> QED
      BY <3>1
  <2> QED
    BY <1>1, <2>1, <2>2
<1>6. \A q \in Runs : FileStep(q)
  BY <1>1, FileKept DEF TypeOK
<1>7. \A x \in Sessions \ {s} : Same(x)
  <2>1. \A q \in Runs : run'[q].plan = run[q].plan
    BY <1>4
  <2> QED
    BY <1>3, <2>1 DEF Same
<1>8. "idle" \notin Knowing \union LockedSteps \union Asking
  BY DEF Knowing, LockedSteps, Asking, Executing, Reviewing
<1>9. Turns(s) /\ Knows(s)'
  BY <1>3, <1>8, Ignorant DEF Turns
<1>10. RunStep(s, r) /\ TrackStep(r)
  BY <1>1, <1>4, TracksKept DEF RunStep
<1> QED
  BY <1>1, <1>2, <1>4, <1>5, <1>6, <1>7, <1>9, <1>10, RunMoves

-----------------------------------------------------------------------------
(* The workers. *)

\* A track starts a worker on a task its run holds, unless the run has ended.
LEMMA TrackLaunches ==
  ASSUME NEW s \in Sessions, NEW t \in TaskIds, PhaseInv, TypeOK', LaunchTrack(s, t)
  PROVE  PhaseInv'
<1> PICK r \in Runs : r = sess[s].r
  BY DEF LaunchTrack, PhaseInv, Located
<1> PICK started \in BOOLEAN : started = (run[r].phase \notin TerminalPhases)
  OBVIOUS
<1>1. /\ UNCHANGED <<run, used, excused>> /\ sess[s].step = "launching" /\ track[r][t] = "queued"
      /\ TypeOK /\ BoardKnown /\ OneExecutor /\ RunKnown(r) /\ Knows(s) /\ board \in BoardType
      /\ (\A q \in Runs : used.approvals[q] \in Nat) /\ sess[s] \in SessionType /\ run[r] \in RunType
  BY DEF LaunchTrack, PhaseInv, TypeOK, Count
<1>2. /\ track' = [track EXCEPT ![r][t] = IF started THEN "running" ELSE "ended"]
      /\ sess' = Outdated(sess, board' # board)
      /\ \E new : BoardWritten(new) /\ (new = board \/ new = SetState(board, t, "InProgress"))
  BY DEF LaunchTrack
<1>3. \A x \in Sessions : Same(x)
  BY <1>1, <1>2, AllOutdated
<1>4. PICK new : BoardWritten(new) /\ (new = board \/ new = SetState(board, t, "InProgress"))
  BY <1>2
<1>5. \A u \in TaskIds : board'[u].by = board[u].by /\ board'[u].lapsed = board[u].lapsed
                         /\ board'[u].deps = board[u].deps
  <2>1. board' = board \/ board' = SetState(board, t, "InProgress")
    BY <1>4 DEF BoardWritten
  <2> QED
    BY <1>1, <2>1, TaskCommands
<1>6. BoardKnown'
  <2>1. \A u \in TaskIds : board'[u].lapsed => board[u].lapsed
    BY <1>5, Zenon
  <2> QED
    BY <1>1, <1>5, <2>1 DEF BoardKnown
<1>7. \A q \in Runs, u \in TaskIds : Held(q, u) => Held(q, u)'
  BY <1>1, <1>5 DEF Held
<1>8. \A q \in Runs : FileStep(q)
  BY <1>1, <1>4, <1>7, FilesAged DEF FileStep
<1>9. OnlyMoves(s)
  BY <1>1, <1>3, <1>8 DEF OnlyMoves
<1>10. (\A q \in Runs \ {r} : track'[q] = track[q])
       /\ (\A u \in TaskIds \ {t} : track'[r][u] = track[r][u])
       /\ track'[r][t] \in {"running", "ended"} /\ (track'[r][t] = "running" => started)
  BY <1>1, <1>2 DEF TypeOK
<1>11. ASSUME NEW q \in Runs \ {r} PROVE Frame(s, q)
  <2>1. RunStep(s, q) /\ ExecStep(q)
    BY <1>1, <1>3 DEF RunStep, ExecStep
  <2>2. TrackStep(q)
    BY <1>10, TracksKept
  <2>3. \A u \in Live(q) : Held(q, u)
    BY DEF PhaseInv, RunKnown
  <2>4. HeldStep(s, q)
    BY <1>7, <1>10, <2>3 DEF HeldStep, Live
  <2> QED
    BY <2>1, <2>2, <2>4 DEF Frame
<1>12. /\ AtWork(r)' \subseteq AtWork(r) /\ Queued(r)' \subseteq Queued(r) /\ t \in Queued(r)
       /\ \A u \in Live(r)' : u \in Live(r) \/ (u = t /\ started)
  BY <1>1, <1>10 DEF AtWork, Queued, Live
<1>13. run[r].phase # "dispatch-queued" /\ (run[r].phase \notin TerminalPhases => \A u \in Queued(r) : Held(r, u))
  BY <1>1 DEF Knows, LauncherKnows
<1>14. ASSUME NEW id \in Nat, NEW gen, NEW plan \in SUBSET TaskIds, Endorsed(r, id, gen, plan)
       PROVE  Endorsed(r, id, gen, plan)'
  BY <1>1, <1>9, <1>14, EndorsedKept
<1>15. RunKnown(r)'
  <2> PICK id \in Nat, gen \in Nat, plan \in SUBSET TaskIds :
           id = run[r].approved /\ gen = run[r].gen /\ plan = run[r].plan
    BY <1>1 DEF RunType
  <2>1. run[r].phase \in Underway => Endorsed(r, id, gen, plan) /\ AtWork(r) \subseteq plan
    BY <1>1 DEF RunKnown
  <2>2. run'[r].phase \in Underway => /\ Endorsed(r, run[r].approved, run[r].gen, run[r].plan)'
                                      /\ AtWork(r)' \subseteq run'[r].plan
    BY <1>1, <1>12, <1>14, <2>1
  <2>3. run'[r].phase = "plan-approved" => run'[r].approved # 0 /\ run'[r].plan # {}
    BY <1>1 DEF RunKnown
  <2>4. run'[r].exec = "live" => \E x \in Sessions : sess'[x].r = r /\ sess'[x].step \in Recorded
    BY <1>1, <1>3 DEF RunKnown, Same
  <2>5. \A u \in Live(r)' : Held(r, u)'
    <3>1. \A u \in Live(r) : Held(r, u)
      BY <1>1 DEF RunKnown
    <3>2. started => Held(r, t)
      BY <1>12, <1>13
    <3>3. Live(r)' \subseteq TaskIds
      BY DEF Live
    <3> QED
      BY <1>7, <1>12, <3>1, <3>2, <3>3
  <2> QED
    BY <1>1, <1>13, <2>2, <2>3, <2>4, <2>5 DEF RunKnown
<1>16. Knows(s)'
  <2> PICK id \in Nat, gen \in Nat, plan \in SUBSET TaskIds :
           id = sess[s].id /\ gen = sess[s].gen /\ plan = sess[s].tasks
    BY <1>1 DEF SessionType
  <2>1. sess'[s].step = "launching" /\ sess'[s].r = r /\ sess'[s].id = id /\ sess'[s].gen = gen /\ sess'[s].tasks = plan
    BY <1>1, <1>3 DEF Same
  <2>2. Endorsed(r, id, gen, plan) /\ AtWork(r) \subseteq plan
    BY <1>1 DEF Knows, ExecutorKnows, Executing
  <2>3. Endorsed(r, id, gen, plan)' /\ AtWork(r)' \subseteq plan
    BY <1>12, <1>14, <2>2
  <2>4. ExecutorKnows(s)'
    BY <2>1, <2>3 DEF ExecutorKnows
  <2>5. LauncherKnows(s)'
    <3>1. Queued(r)' \subseteq TaskIds
      BY DEF Queued
    <3> QED
      BY <1>1, <1>7, <1>12, <1>13, <2>1, <3>1 DEF LauncherKnows
  <2>6. "launching" \notin Reviewing
    BY DEF Reviewing
  <2> QED
    BY <2>1, <2>4, <2>5, <2>6 DEF Knows, DispatcherKnows, RecovererKnows, SweeperKnows, PlannerKnows
<1>17. \A x \in Sessions : sess[x].r = r /\ sess[x].step \in LockedSteps => x = s
  <2>1. sess[s].step \in LockedSteps
    BY <1>1 DEF LockedSteps
  <2> QED
    BY <1>1, <2>1, LockHolder
<1> QED
  BY <1>6, <1>9, <1>11, <1>15, <1>16, <1>17, Kept

\* A worker's end is reported, and the claim on its task may be given back with it.
LEMMA WorkersReport ==
  ASSUME NEW s \in Sessions, NEW t \in TaskIds, NEW outcome \in {"Done", "Failed", "none"}, NEW released \in BOOLEAN, PhaseInv, TypeOK',
         WorkerReports(s, t, outcome, released)
  PROVE  PhaseInv'
<1> PICK r \in Runs : r = sess[s].r
  BY DEF WorkerReports, PhaseInv, Located
<1>1. /\ UNCHANGED <<run, used, excused>> /\ sess[s].step = "awaiting" /\ track[r][t] = "running"
      /\ TypeOK /\ BoardKnown /\ board \in BoardType
      /\ (\A q \in Runs : used.approvals[q] \in Nat) /\ NoRun \notin Runs
  BY SprintAssumption DEF WorkerReports, PhaseInv, TypeOK, Count
<1>2. /\ track' = [track EXCEPT ![r][t] = "ended"] /\ sess' = Outdated(sess, board' # board)
  BY DEF WorkerReports
<1>3. PICK new : /\ BoardWritten(new)
                 /\ \/ new = board \/ new = SetState(board, t, outcome)
                    \/ outcome # "none" /\ new = ReleaseTasks(SetState(board, t, outcome), r, {t})
  BY DEF WorkerReports
<1>4. \A x \in Sessions : Same(x)
  BY <1>1, <1>2, AllOutdated
<1>5. \A u \in TaskIds : /\ board'[u].by = board[u].by \/ (u = t /\ board'[u].by = NoRun /\ board[u].by = r)
                         /\ board'[u].lapsed => board[u].lapsed
                         /\ board'[u].deps = board[u].deps
  <2>1. board' = new /\ board' \in BoardType
    BY <1>3 DEF BoardWritten, TypeOK
  <2>2. CASE new = board
    BY <2>1, <2>2
  <2>3. CASE new = SetState(board, t, outcome)
    BY <1>1, <2>1, <2>3, TaskCommands
  <2>4. CASE outcome # "none" /\ new = ReleaseTasks(SetState(board, t, outcome), r, {t})
    <3> DEFINE m == SetState(board, t, outcome)
    <3>1. m \in BoardType
      <4>1. outcome \in TaskStates
        BY <2>4 DEF TaskStates
      <4> QED
        BY <1>1, <4>1, BoardTyped
    <3>2. \A u \in TaskIds : m[u].by = board[u].by /\ m[u].lapsed = board[u].lapsed /\ m[u].deps = board[u].deps
      BY <1>1, TaskCommands
    <3> HIDE DEF m
    <3>3. board' = ReleaseTasks(m, r, {t})
      BY <2>1, <2>4 DEF m
    <3>4. \A u \in TaskIds : /\ board'[u].by = IF m[u].by = r /\ u \in {t} THEN NoRun ELSE m[u].by
                             /\ board'[u].lapsed => m[u].lapsed
                             /\ board'[u].deps = m[u].deps
      BY <3>1, <3>3, ReleaseCommand
    <3>5. \A u \in TaskIds : board'[u].lapsed => board[u].lapsed
      BY <3>2, <3>4, Zenon
    <3> QED
      BY <3>2, <3>4, <3>5
  <2> QED
    BY <1>3, <2>2, <2>3, <2>4
<1>6. \A u \in TaskIds : board[u].by \in Runs \union {NoRun}
  BY <1>1 DEF BoardType, TaskType
<1>7. BoardKnown'
  BY <1>1, <1>5, <1>6 DEF BoardKnown
<1>8. \A q \in Runs, u \in TaskIds : Held(q, u) => Held(q, u)' \/ (q = r /\ u = t)
  BY <1>1, <1>5 DEF Held
<1>9. (\A q \in Runs \ {r} : track'[q] = track[q])
      /\ (\A u \in TaskIds \ {t} : track'[r][u] = track[r][u]) /\ track'[r][t] = "ended"
  BY <1>1, <1>2 DEF TypeOK
<1>10. \A q \in Runs : FileStep(q)
  <2>1. \A q \in Runs : cp'[q].id = cp[q].id /\ (~cp'[q].fresh \/ (cp'[q] = cp[q] /\ board' = board))
    BY <1>1, <1>3, FilesAged
  <2> QED
    BY <1>1, <2>1 DEF FileStep, Held
<1>11. OnlyMoves(s)
  BY <1>1, <1>4, <1>10 DEF OnlyMoves
<1>12. ASSUME NEW q \in Runs PROVE Frame(s, q)
  <2>1. RunStep(s, q) /\ ExecStep(q)
    BY <1>1, <1>4 DEF RunStep, ExecStep
  <2>2. TrackStep(q) /\ (q = r => t \notin Live(q)')
    BY <1>1, <1>9 DEF TrackStep, AtWork, Queued, Live, Stopped
  <2>3. \A u \in Live(q) : Held(q, u)
    BY DEF PhaseInv, RunKnown
  <2>4. \A u \in Live(q)' : Held(q, u)'
    <3>1. Live(q)' \subseteq TaskIds
      BY DEF Live
    <3> QED
      BY <1>8, <2>2, <2>3, <3>1 DEF TrackStep
  <2>5. q = r => Locks(s, q)
    BY <1>1 DEF Locks, LockedSteps
  <2>6. HeldStep(s, q)
    BY <1>8, <2>4, <2>5 DEF HeldStep
  <2> QED
    BY <2>1, <2>2, <2>6 DEF Frame
<1> QED
  BY <1>4, <1>7, <1>11, <1>12, Kept

-----------------------------------------------------------------------------
(* The invariant. *)

LEMMA InitKnown == Init => PhaseInv
<1> SUFFICES ASSUME Init PROVE PhaseInv
  OBVIOUS
<1>1. /\ \A t \in TaskIds : board[t] = NewTask(0, {})
      /\ board \in [TaskIds -> {NewTask(0, {})}]
  BY DEF Init
<1>2. NewTask(0, {}) \in TaskType /\ NewTask(0, {}).by = NoRun /\ NewTask(0, {}).deps = {}
  BY DEF NewTask, TaskType, TaskStates
<1>3. /\ run = [q \in Runs |-> NewRun] /\ track = [q \in Runs |-> NoTracks]
      /\ cp = [q \in Runs |-> NoCheckpoint] /\ sess = [s \in Sessions |-> Idle]
      /\ used = [plans |-> [q \in Runs |-> 0], approvals |-> [q \in Runs |-> 0], faults |-> 0]
  BY DEF Init
<1>4. TypeOK
  <2>1. board \in BoardType
    BY <1>1, <1>2 DEF BoardType
  <2>2. /\ run \in [Runs -> RunType] /\ track \in [Runs -> [TaskIds -> TrackStates]]
        /\ cp \in [Runs -> CheckpointType] /\ sess \in [Sessions -> SessionType]
    BY <1>3, NewTyped, IdleTyped
  <2>3. used \in Count
    BY <1>3 DEF Count
  <2>4. /\ halt \in [Runs -> BOOLEAN] /\ review \in [Runs -> Nat]
        /\ lease \in [Runs -> {"none", "live", "expired"}] /\ excused \in [Runs -> SUBSET TaskIds]
    BY DEF Init
  <2> QED
    BY <2>1, <2>2, <2>3, <2>4 DEF TypeOK
<1>5. \A s \in Sessions : sess[s].step = "idle"
  BY <1>3 DEF Idle
<1>6. /\ \A q \in Runs : run[q].phase = "initialized" /\ run[q].exec = "none"
      /\ \A q \in Runs : cp[q].id = 0 /\ used.approvals[q] = 0
      /\ \A q \in Runs, t \in TaskIds : track[q][t] = "none"
  BY <1>3 DEF NewRun, NoCheckpoint, NoTracks
<1>7. Located /\ OneExecutor /\ AskedOnce
  BY <1>5, <1>6 DEF Located, OneExecutor, AskedOnce, LockedSteps, Asking
<1>8. BoardKnown
  BY <1>1, <1>2 DEF BoardKnown
<1>9. \A s \in Sessions : Knows(s)
  BY <1>5 DEF Knows, DispatcherKnows, ExecutorKnows, LauncherKnows, RecovererKnows, SweeperKnows, PlannerKnows,
     Executing, Reviewing
<1>10. \A q \in Runs : RunKnown(q)
  BY <1>6 DEF RunKnown, Underway, Live
<1> QED
  BY <1>4, <1>7, <1>8, <1>9, <1>10 DEF PhaseInv

\* Every step of a command under way keeps the invariant.
LEMMA Continues ==
  ASSUME NEW s \in Sessions, PhaseInv, Continue(s)
  PROVE  PhaseInv'
<1>1. TypeOK'
  BY TypeContinue DEF PhaseInv
<1>2. CASE PlanPublish(s) \/ ReviewPasses(s) \/ ApprovePublish(s)
  BY <1>1, <1>2, PlanWritten
<1>3. CASE PlanCompensate(s) \/ HaltRelease(s) \/ TailRelease(s) \/ SweepRelease(s)
  BY <1>1, <1>3, Releases
<1>4. CASE PlanDropReview(s) \/ ReviewFails(s) \/ TailDeindex(s) \/ RecoverUnbind(s) \/ InitIndex(s)
  BY <1>1, <1>4, SimpleEnds
<1>5. CASE \E auto \in BOOLEAN : ReviewRecord(s, auto)
  BY <1>1, <1>5, ApprovalAsked
<1>6. CASE ApproveRecord(s)
  BY <1>1, <1>6, ApproveRecords
<1>7. CASE DispatchPublish(s)
  BY <1>1, <1>7, Dispatches
<1>8. CASE \E b \in BOOLEAN : AwaitRun(s, b) \/ AwaitConclude(s, b)
  BY <1>1, <1>8, MarkedRunning, Concludes
<1>9. CASE \E t \in TaskIds : LaunchTrack(s, t)
  BY <1>1, <1>9, TrackLaunches
<1>10. CASE Launched(s)
  BY <1>1, <1>10, LaunchedKeeps
<1>11. CASE \E t \in TaskIds, o \in {"Done", "Failed", "none"}, b \in BOOLEAN : WorkerReports(s, t, o, b)
  BY <1>1, <1>11, WorkersReport
<1>12. CASE \E S \in SUBSET TaskIds : AwaitSettle(s, S) \/ HaltTracks(s, S)
  BY <1>1, <1>12, TracksSettle, TracksHalt
<1>13. CASE AwaitFree(s)
  BY <1>1, <1>13, Frees
<1>14. CASE CommitDone(s) \/ CommitReset(s) \/ HaltRun(s)
  BY <1>1, <1>14, PhaseRenamed
<1>15. CASE ReplanPublish(s)
  BY <1>1, <1>15, Replans
<1>16. CASE ClosePublish(s) \/ InitPublish(s)
  BY <1>1, <1>16, ClosesInits
<1>17. CASE TailClear(s)
  BY <1>1, <1>17, TailClears
<1>18. CASE RecoverApply(s)
  BY <1>1, <1>18, Recovers
<1> QED
  BY <1>2, <1>3, <1>4, <1>5, <1>6, <1>7, <1>8, <1>9, <1>10, <1>11, <1>12, <1>13, <1>14, <1>15, <1>16,
     <1>17, <1>18 DEF Continue

\* So does every command a manager or a user begins, and every recovery.
LEMMA Commands ==
  ASSUME NEW s \in Sessions, NEW r \in Runs, PhaseInv, Command(s, r) \/ Recover(s, r)
  PROVE  PhaseInv'
<1>1. TypeOK'
  BY TypeCommand DEF PhaseInv
<1>2. CASE PlanClaim(s, r)
  BY <1>1, <1>2, PlanClaims
<1>3. CASE ReviewStart(s, r)
  BY <1>1, <1>3, ReviewStarts
<1>4. CASE \E b \in BOOLEAN : ApproveStart(s, r, b)
  <2>1. \E q \in Runs, waived \in BOOLEAN : ApproveStart(s, q, waived)
    BY <1>4
  <2> QED
    BY <1>1, <2>1, ApprovalAsked
<1>5. CASE DispatchStart(s, r)
  BY <1>1, <1>5, DispatchStarts
<1>6. CASE AwaitAcquire(s, r)
  BY <1>1, <1>6, Acquires
<1>7. CASE ApproveCommit(s, r) \/ Journal(s, r)
  BY <1>1, <1>7, PhaseRenamed
<1>8. CASE CommitStart(s, r) \/ HaltStart(s, r) \/ CloseStart(s, r) \/ InitStart(s, r)
  BY <1>1, <1>8, SimpleBegins
<1>9. CASE \E t \in TaskIds \union {0} : ReplanStart(s, r, t)
  BY <1>1, <1>9, ReplanStarts
<1>10. CASE Recover(s, r)
  BY <1>1, <1>10, RecoverStarts DEF Recover
<1> QED
  BY <1>2, <1>3, <1>4, <1>5, <1>6, <1>7, <1>8, <1>9, <1>10 DEF Command

LEMMA NextKept == PhaseInv /\ [Next]_vars => PhaseInv'
<1> SUFFICES ASSUME PhaseInv, [Next]_vars PROVE PhaseInv'
  OBVIOUS
<1>1. ASSUME NEW s \in Sessions, Continue(s) PROVE PhaseInv'
  BY <1>1, Continues
<1>2. ASSUME NEW s \in Sessions, Die(s) PROVE PhaseInv'
  <2>1. TypeOK'
    BY <1>2, TypeSurroundings DEF PhaseInv
  <2> QED
    BY <1>2, <2>1, Dies
<1>3. ASSUME NEW s \in Sessions, NEW r \in Runs, Command(s, r) \/ Recover(s, r) PROVE PhaseInv'
  BY <1>3, Commands
<1>4. ASSUME NEW r \in Runs, NEW t \in TaskIds, WorkerExits(r, t) PROVE PhaseInv'
  <2>1. TypeOK'
    BY <1>4, TypeSurroundings DEF PhaseInv
  <2> QED
    BY <1>4, <2>1, WorkersExit
<1>5. ASSUME NEW t \in TaskIds, ClaimLapses(t) \/ \E st \in {"Backlog", "Done"} : UserMoves(t, st) PROVE PhaseInv'
  <2>1. TypeOK'
    BY <1>5, TypeSurroundings DEF PhaseInv
  <2> QED
    BY <1>5, <2>1, Surrounded
<1>6. ASSUME NEW r \in Runs, LeaseExpires(r) PROVE PhaseInv'
  <2>1. TypeOK'
    BY <1>6, TypeSurroundings DEF PhaseInv
  <2> QED
    BY <1>6, <2>1, Surrounded
<1>7. CASE UNCHANGED vars
  BY <1>7 DEF vars, PhaseInv, TypeOK, Located, OneExecutor, AskedOnce, BoardKnown, Knows, RunKnown,
     DispatcherKnows, ExecutorKnows, LauncherKnows, RecovererKnows, SweeperKnows, PlannerKnows, Endorsed, Spent,
     Vouched, Held, AtWork, Live, Stopped, Queued
<1> QED
  BY <1>1, <1>2, <1>3, <1>4, <1>5, <1>6, <1>7 DEF Next

\* In every reachable state the sessions know what they rely on.
THEOREM Invariant == Spec => []PhaseInv
BY InitKnown, NextKept, PTL DEF Spec

-----------------------------------------------------------------------------
(* What follows from it. *)

\* The state of the runs is well-formed, whatever the bounds.
THEOREM TypeCorrect == Spec => []TypeOK
<1>1. PhaseInv => TypeOK
  BY DEF PhaseInv
<1> QED
  BY <1>1, Invariant, PTL

\* No release frees a task somebody still works on.
THEOREM WorkersClaimed == Spec => []LiveWorkerClaimed
<1>1. PhaseInv => LiveWorkerClaimed
  BY DEF PhaseInv, RunKnown, Live, Held, LiveWorkerClaimed
<1> QED
  BY <1>1, Invariant, PTL

\* What is queued or runs is the approved plan.
THEOREM ApprovedOnly == Spec => []DispatchedAsApproved
<1>1. PhaseInv => DispatchedAsApproved
  BY DEF PhaseInv, RunKnown, Underway, Endorsed, Spent, AtWork, DispatchedAsApproved
<1> QED
  BY <1>1, Invariant, PTL

-----------------------------------------------------------------------------
(* The cockpit. *)

\* What the list offers where nothing cuts it short.
LEMMA PhaseListed ==
  ASSUME NEW r, NEW in, ~BlocksDispatch(r), ~Ended(r), ~Invalid(r)
  PROVE  /\ PhaseCommands(r, in) \subseteq NextCommands(r, in)
         /\ in.unchecked => "plan-from-goal" \in NextCommands(r, in)
         /\ NeedsGoal(in) /\ run[r].phase \in PlanningPhases => "goal" \in NextCommands(r, in)
BY DEF NextCommands

\* A dispatch is listed in one phase only, and while its approval stands.
LEMMA DispatchListed ==
  ASSUME NEW r, NEW in, "dispatch" \in NextCommands(r, in)
  PROVE  ~BlocksDispatch(r) /\ ~Ended(r) /\ run[r].phase = "plan-approved"
<1> DEFINE gates == IF in.trust # "configured" \/ in.risky THEN {"gates"} ELSE {}
<1>1. "dispatch" \notin gates
  OBVIOUS
<1>2. ~BlocksDispatch(r)
  BY DEF NextCommands
<1>3. ~Ended(r) /\ "dispatch" \in PhaseCommands(r, in)
  BY <1>2 DEF NextCommands
<1>4. "dispatch" \in PhaseCommands(r, in) => run[r].phase = "plan-approved"
  BY DEF PhaseCommands
<1> QED
  BY <1>2, <1>3, <1>4

\* The progress table says "blocked" of what is blocked, and of nothing else.
LEMMA ProgressBlocked ==
  ASSUME NEW r, NEW in
  PROVE  Progress(r, in) = "blocked" <=> BlockedWork(r) \/ BlockedCommit(r, in)
<1>1. PhaseStatus(r) # "blocked"
  BY DEF PhaseStatus
<1> QED
  BY <1>1 DEF Progress

\* An approved run whose checkpoint is not stale has a valid one.
LEMMA NotStale ==
  ASSUME NEW r, ~BlocksDispatch(r), run[r].phase \in ApprovalPhases, run[r].approved # 0
  PROVE  CheckpointValid(r)
BY DEF BlocksDispatch, Stale

\* The tables of the cockpit tell one story.
THEOREM StoryIsOne == Spec => []OneStory
<1>1. ASSUME PhaseInv, NEW r \in Runs, NEW in \in Surroundings
      PROVE  /\ Progress(r, in) = "ready-to-dispatch" =>
                  /\ "dispatch" \in NextCommands(r, in)
                  /\ ClaimsHeld(r) => Accepts(r, "dispatch")
             /\ Progress(r, in) = "blocked" => Risk(r, in) = "high" \/ in.trust = "not-configured"
             /\ EvidenceStatus(r, in) = "blocked" => Progress(r, in) = "blocked"
             /\ "dispatch" \in NextCommands(r, in) /\ ProgressBlocksDispatch(r, in) =>
                  halt[r] \/ Stop \/ in.unchecked
             /\ RecommendedActions(r, in) \subseteq NextCommands(r, in) \/ BlocksDispatch(r) \/ Invalid(r)
             /\ Approval(r, in) = "plan-reapproval" =>
                  NextCommands(r, in) \intersect {"dispatch", "await-workers", "approve-commit", "commit"} = {}
  <2>1. ASSUME Progress(r, in) = "ready-to-dispatch"
        PROVE  "dispatch" \in NextCommands(r, in) /\ (ClaimsHeld(r) => Accepts(r, "dispatch"))
    <3>1. ~BlockedWork(r) /\ ~Ended(r) /\ PhaseStatus(r) = "ready-to-dispatch"
      BY <2>1 DEF Progress
    <3>2. run[r].phase = "plan-approved"
      BY <3>1 DEF PhaseStatus
    <3>3. ~BlocksDispatch(r) /\ ~halt[r] /\ ~Invalid(r)
      BY <3>1, <3>2 DEF BlockedWork, Invalid
    <3>4. "dispatch" \in PhaseCommands(r, in)
      BY <3>2 DEF PhaseCommands, PlanningPhases
    <3>5. run[r].approved # 0
      BY <1>1, <3>2 DEF PhaseInv, RunKnown
    <3>6. CheckpointValid(r)
      BY <3>2, <3>3, <3>5, NotStale DEF ApprovalPhases
    <3>7. ClaimsHeld(r) => Dispatchable(r)
      BY <3>2, <3>3, <3>5, <3>6 DEF ClaimsHeld, Dispatchable
    <3> QED
      BY <3>1, <3>3, <3>4, <3>7, PhaseListed DEF Accepts
  <2>2. Progress(r, in) = "blocked" => Risk(r, in) = "high" \/ in.trust = "not-configured"
    <3>1. BlockedWork(r) => Risk(r, in) = "high"
      BY DEF BlockedWork, Risk
    <3>2. BlockedCommit(r, in) => Risk(r, in) = "high" \/ in.trust = "not-configured"
      BY DEF BlockedCommit, BlocksAcceptance, Risk
    <3> QED
      BY <3>1, <3>2, ProgressBlocked
  <2>3. EvidenceStatus(r, in) = "blocked" => Progress(r, in) = "blocked"
    <3>1. EvidenceStatus(r, in) = "blocked" => BlocksDispatch(r) \/ Critical(r)
      BY DEF EvidenceStatus
    <3> QED
      BY <3>1, ProgressBlocked DEF BlockedWork
  <2>4. ASSUME "dispatch" \in NextCommands(r, in), ProgressBlocksDispatch(r, in)
        PROVE  halt[r] \/ Stop \/ in.unchecked
    <3>1. ~BlocksDispatch(r) /\ run[r].phase = "plan-approved"
      BY <2>4, DispatchListed
    <3>2. BlockedWork(r) => halt[r] \/ Stop
      BY <3>1 DEF BlockedWork, Critical
    <3>3. ApprovalBlocks(r, in) => in.unchecked
      BY <3>1 DEF ApprovalBlocks, Approval
    <3> QED
      BY <2>4, <3>2, <3>3 DEF ProgressBlocksDispatch
  <2>5. RecommendedActions(r, in) \subseteq NextCommands(r, in) \/ BlocksDispatch(r) \/ Invalid(r)
    <3> SUFFICES ASSUME ~BlocksDispatch(r), ~Invalid(r)
                 PROVE  RecommendedActions(r, in) \subseteq NextCommands(r, in)
      OBVIOUS
    <3>1. ~Critical(r)
      BY DEF Critical
    <3>2. CASE Ended(r)
      BY <3>1, <3>2 DEF RecommendedActions, NextCommands
    <3>3. CASE ~Ended(r)
      BY <3>1, <3>3 DEF RecommendedActions, NextCommands
    <3> QED
      BY <3>2, <3>3
  <2>6. ASSUME Approval(r, in) = "plan-reapproval"
        PROVE  NextCommands(r, in) \intersect {"dispatch", "await-workers", "approve-commit", "commit"} = {}
    <3>1. BlocksDispatch(r)
      BY <2>6 DEF Approval
    <3> QED
      BY <3>1 DEF NextCommands
  <2> QED
    BY <2>1, <2>2, <2>3, <2>4, <2>5, <2>6
<1>2. PhaseInv => OneStory
  BY <1>1 DEF OneStory, View
<1> QED
  BY <1>2, Invariant, PTL

\* A manager who follows the list gets on.
THEOREM AdviceLeadsOn == Spec => []AdviceSuffices
<1>1. ASSUME PhaseInv, Quiet, NEW r \in Runs, NEW in \in Surroundings,
             ~Ended(r), ~halt[r], ~LiveWorker(r), ~DeadEnd(r, in)
      PROVE  \E c \in NextCommands(r, in) : Accepts(r, c)
  <2>1. run[r].exec # "live" /\ RunKnown(r) /\ run[r] \in RunType
    <3>1. "idle" \notin Recorded
      BY DEF Recorded, Executing
    <3> QED
      BY <1>1, <3>1 DEF PhaseInv, TypeOK, RunKnown, Quiet
  <2>2. ~HasCycle(board)
    <3>1. \A t \in DOMAIN board : board[t].deps = {}
      BY <1>1 DEF PhaseInv, TypeOK, BoardType, BoardKnown
    <3> QED
      BY <3>1 DEF HasCycle
  <2>3. Mutations(r) # {} => Accepts(r, "recover")
    BY DEF Accepts
  <2>4. CASE BlocksDispatch(r)
    <3>1. "return-to-plan-approval" \in Mutations(r)
      BY <1>1, <2>1, <2>4 DEF Mutations
    <3>2. "recover" \in NextCommands(r, in)
      BY <2>4 DEF NextCommands
    <3> QED
      BY <2>3, <3>1, <3>2
  <2>5. CASE Mutations(r) # {}
    <3>1. "recover" \in NextCommands(r, in)
      BY <2>5 DEF NextCommands
    <3> QED
      BY <2>3, <2>5, <3>1
  <2>6. CASE ~BlocksDispatch(r) /\ Mutations(r) = {}
    <3>1. ~Invalid(r)
      BY <1>1 DEF Invalid, DeadEnd, CommitPhases
    <3>2. ASSUME NEW c \in PhaseCommands(r, in), Accepts(r, c) PROVE \E d \in NextCommands(r, in) : Accepts(r, d)
      BY <1>1, <2>6, <3>1, <3>2, PhaseListed
    <3>3. CASE run[r].phase \in PlanningPhases
      <4>1. CASE Actionable(board, r) # {}
        <5>1. "plan" \in PhaseCommands(r, in) /\ run[r].phase \in PlanPhases
          BY <3>3 DEF PhaseCommands, PlanningPhases, PlanPhases
        <5> QED
          BY <2>2, <3>2, <4>1, <5>1 DEF Accepts
      <4>2. CASE Pending(board) = {}
        <5>1. "plan-from-goal" \in NextCommands(r, in) \/ "goal" \in NextCommands(r, in)
          BY <1>1, <2>6, <3>1, <3>3, <4>2, PhaseListed DEF NeedsGoal
        <5>2. Accepts(r, "goal") /\ Accepts(r, "plan-from-goal")
          BY DEF Accepts
        <5> QED
          BY <5>1, <5>2
      <4> QED
        BY <1>1, <3>3, <4>1, <4>2 DEF DeadEnd
    <3>4. CASE run[r].phase = "awaiting-plan-approval"
      <4>1. "review-plan" \in PhaseCommands(r, in)
        BY <3>4 DEF PhaseCommands, PlanningPhases
      <4>2. Accepts(r, "review-plan")
        BY <1>1, <3>4 DEF Accepts, ReviewPhases, DeadEnd
      <4> QED
        BY <3>2, <4>1, <4>2
    <3>5. CASE run[r].phase = "plan-reviewed"
      <4>1. "approve-plan" \in PhaseCommands(r, in)
        BY <3>5 DEF PhaseCommands, PlanningPhases
      <4>2. Accepts(r, "approve-plan")
        BY <1>1, <3>5 DEF Accepts, ReviewPhases, DeadEnd
      <4> QED
        BY <3>2, <4>1, <4>2
    <3>6. CASE run[r].phase = "plan-approved"
      <4>1. "dispatch" \in PhaseCommands(r, in)
        BY <3>6 DEF PhaseCommands, PlanningPhases
      <4>2. run[r].approved # 0 /\ ClaimsHeld(r)
        BY <1>1, <2>1, <3>6 DEF RunKnown, DeadEnd
      <4>3. CheckpointValid(r)
        BY <2>6, <3>6, <4>2, NotStale DEF ApprovalPhases
      <4>4. Dispatchable(r)
        BY <1>1, <3>6, <4>2, <4>3 DEF Dispatchable, ClaimsHeld
      <4> QED
        BY <3>2, <4>1, <4>4 DEF Accepts
    <3>7. CASE run[r].phase = "dispatch-queued"
      <4>1. "await-workers" \in PhaseCommands(r, in)
        BY <3>7 DEF PhaseCommands, PlanningPhases
      <4>2. run[r].approved # 0 /\ Stopped(r) # {}
        BY <2>1, <3>7 DEF RunKnown, Underway, Endorsed, Spent
      <4>3. CheckpointValid(r)
        BY <2>6, <3>7, <4>2, NotStale DEF ApprovalPhases
      <4>4. Queued(r) # {}
        <5>1. Queued(r) = {} => \E t \in TaskIds : track[r][t] = "halted"
          BY <4>2 DEF Stopped, Queued
        <5> QED
          BY <1>1, <3>7, <5>1 DEF DeadEnd
      <4> QED
        BY <3>2, <3>7, <4>1, <4>2, <4>3, <4>4 DEF Accepts
    <3>8. CASE run[r].phase = "dry-run-preview"
      <4>1. "close" \in PhaseCommands(r, in)
        BY <3>8 DEF PhaseCommands, PlanningPhases
      <4> QED
        BY <1>1, <3>2, <4>1 DEF Accepts, Blocked
    <3>9. CASE run[r].phase = "running"
      BY <1>1, <2>6, <3>9 DEF DeadEnd
    <3>10. CASE run[r].phase = "awaiting-commit-approval"
      <4>1. in.proven /\ CommitReady(r, run[r].plan) # {}
        BY <1>1, <3>10 DEF DeadEnd, CommitPhases
      <4>2. "approve-commit" \in PhaseCommands(r, in)
        BY <3>10, <4>1 DEF PhaseCommands, PlanningPhases
      <4> QED
        BY <3>2, <3>10, <4>1, <4>2 DEF Accepts
    <3>11. CASE run[r].phase = "commit-approved"
      <4>1. "commit" \in PhaseCommands(r, in)
        BY <1>1, <3>11 DEF PhaseCommands, PlanningPhases, DeadEnd, CommitPhases
      <4> QED
        BY <3>2, <3>11, <4>1 DEF Accepts
    <3>12. CASE run[r].phase = "committed"
      <4>1. "journal" \in PhaseCommands(r, in)
        BY <3>12 DEF PhaseCommands, PlanningPhases
      <4> QED
        BY <3>2, <3>12, <4>1 DEF Accepts
    <3>13. run[r].phase \in Phases /\ run[r].phase \notin TerminalPhases
      BY <1>1, <2>1 DEF RunType, Ended
    <3> QED
      BY <3>3, <3>4, <3>5, <3>6, <3>7, <3>8, <3>9, <3>10, <3>11, <3>12, <3>13
      DEF Phases, TerminalPhases, PlanningPhases
  <2> QED
    BY <2>4, <2>5, <2>6
<1>2. PhaseInv => AdviceSuffices
  BY <1>1 DEF AdviceSuffices, ListedCommands
<1> QED
  BY <1>2, Invariant, PTL
====
