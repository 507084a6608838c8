---- MODULE PlanReview ----
(***************************************************************************)
(* From a candidate plan to dispatched worktrees: the plan's review, its   *)
(* approval, and the architecture plan it is bound to by hash              *)
(* (lib/plan-review.mjs, and review-plan, approve-plan and dispatch of     *)
(* auto-pilot-orchestrate.mjs). The commands read the run, work for a      *)
(* while, and publish by compare-and-swap; users plan again, change the    *)
(* plan in run.json by hand, and edit the bound file. Halts, claims and    *)
(* the other inputs of a checkpoint are RunPhases'.                        *)
(***************************************************************************)
EXTENDS Naturals, Sequences, SequencesExt

CONSTANTS
  Sessions,    \* processes that run commands
  Plans,       \* candidate plans
  Bound,       \* the bytes each is bound to; 0: the plan binds no file
  Outputs,     \* what a reviewer may answer
  MaxWrites,   \* bound: versions of run.json
  MaxReviews,  \* bound: reviews begun
  MaxEdits     \* bound: edits of the bound file, hand edits of run.json and deaths

\* What the constants must be; the harness assumes it of its instance.
PlanAssumption ==
  /\ Bound \in [Plans -> Nat]
  /\ \A a \in Outputs : /\ a.out \in Seq({"PASS", "FAIL", "text"}) /\ a.err \in Seq({"PASS", "FAIL", "text"})
                        /\ a.exit \in Nat /\ a.critical \in BOOLEAN

VARIABLES
  run,       \* run.json: phase, plan, approval, version
  file,      \* the bytes of the file the plans bind
  planFile,  \* candidate-plan.json, where the reviewer reads
  review,    \* plan-review.json
  cp,        \* checkpoint.json
  tracks,    \* what dispatch published
  sess,      \* what every session is doing
  past,      \* history: the plans that passed a review, those approved on a review
             \* that read another one, the waived approvals
  used       \* the bounds' counters

vars == <<run, file, planFile, review, cp, tracks, sess, past, used>>

None == "none"
NoReview == [plan |-> None, passed |-> FALSE, sha |-> 0]
NoCheckpoint == [id |-> 0, plan |-> None]
NoTracks == [id |-> 0, plan |-> None, tree |-> 0]
Idle == [at |-> "idle", run |-> [phase |-> "done", plan |-> None, id |-> 0, ver |-> 0],
         ok |-> FALSE, sha |-> 0, saw |-> None, plan |-> None, tree |-> 0, waived |-> FALSE]
Governed == {"awaiting-plan-approval", "plan-reviewed", "plan-approved"}

TypeOK ==
  /\ run.phase \in Governed \cup {"initialized", "dispatch-queued"} /\ run.plan \in Plans \cup {None}
  /\ run.id \in 0..MaxWrites /\ run.ver \in 1..MaxWrites
  /\ file \in Nat /\ planFile \in Plans \cup {None}
  /\ review.plan \in Plans \cup {None} /\ review.passed \in BOOLEAN
  /\ cp.plan \in Plans \cup {None} /\ tracks.plan \in Plans \cup {None}
  /\ \A s \in Sessions : sess[s].run.plan \in Plans \cup {None}
  /\ past.waived \subseteq 1..MaxWrites

Init ==
  /\ run = [phase |-> "initialized", plan |-> None, id |-> 0, ver |-> 1]
  /\ file \in {Bound[p] : p \in Plans}
  /\ planFile = None /\ review = NoReview /\ cp = NoCheckpoint /\ tracks = NoTracks
  /\ sess = [s \in Sessions |-> Idle]
  /\ past = [passed |-> {}, mixed |-> {}, waived |-> {}]
  /\ used = [reviews |-> 0, edits |-> 0]

-----------------------------------------------------------------------------
(* The verdict of a reviewer. *)

Markers(lines) == ToSet(lines) \ {"text"}

\* The last line has to be a marker and all markers have to agree.
Status(lines) == IF lines # <<>> /\ Markers(lines) = {Last(lines)} THEN Last(lines) ELSE None

\* Standard output speaks, unless it holds no marker; the other stream may not
\* disagree.
Verdict(a) ==
  LET status == IF Markers(a.out) \cup Markers(a.err) \notin {{"PASS"}, {"FAIL"}} THEN None
                ELSE IF Markers(a.out) # {} THEN Status(a.out) ELSE Status(a.err)
  IN a.exit = 0 /\ status = "PASS" /\ ~a.critical

\* What a reader of the whole answer takes it for.
Contradicts(a) == "FAIL" \in ToSet(a.out) \cup ToSet(a.err) \/ a.critical \/ a.exit # 0

Bytes(p) == Bound[p] = 0 \/ file = Bound[p]

-----------------------------------------------------------------------------
(* Steps of a session. *)

Go(s, at) == sess' = [sess EXCEPT ![s].at = at]
End(s) == sess' = [sess EXCEPT ![s] = Idle]

Read(s, phases, at) ==
  /\ sess[s].at = "idle" /\ run.phase \in phases /\ run.plan # None
  /\ sess' = [sess EXCEPT ![s] = [Idle EXCEPT !.at = at, !.run = run]]

\* The run is as it was read: what the compare-and-swap compares.
Unchanged(s) == run.ver = sess[s].run.ver /\ run.phase = sess[s].run.phase

\* The swap: run.json becomes next, a newer version, which is the command's own view
\* from then on, or the command ends.
Swap(s, next, at) ==
  IF Unchanged(s) /\ run.ver < MaxWrites
  THEN /\ run' = [next EXCEPT !.ver = run.ver + 1]
       /\ sess' = [sess EXCEPT ![s].at = at, ![s].run = run']
  ELSE End(s) /\ UNCHANGED run

Files == <<planFile, review, cp>>
World == <<file, tracks, used>>

\* plan publishes a candidate in one swap (its claims are RunPhases'), then
\* removes the review.
Plan(s) ==
  /\ sess[s].at = "idle" /\ run.phase \in Governed \cup {"initialized"} /\ run.ver < MaxWrites
  /\ \E p \in Plans : run' = [phase |-> "awaiting-plan-approval", plan |-> p, id |-> 0, ver |-> run.ver + 1]
  /\ sess' = [sess EXCEPT ![s] = [Idle EXCEPT !.at = "planned", !.run = run']]
  /\ UNCHANGED <<Files, World, past>>

DropReview(s) ==
  /\ sess[s].at = "planned" /\ review' = NoReview /\ End(s)
  /\ UNCHANGED <<run, planFile, cp, World, past>>

ReviewPlan(s) ==
  /\ used.reviews < MaxReviews /\ used' = [used EXCEPT !.reviews = @ + 1]
  /\ Read(s, Governed, "superseding")
  /\ UNCHANGED <<run, Files, file, tracks, past>>

\* A review supersedes the last one, and an approval the run was read with.
Supersede(s) ==
  /\ sess[s].at = "superseding" /\ review' = NoReview
  /\ Go(s, IF sess[s].run.phase = "plan-approved" THEN "revoking" ELSE "checking")
  /\ UNCHANGED <<run, planFile, cp, World, past>>

Revoke(s) ==
  /\ sess[s].at = "revoking"
  /\ Swap(s, [run EXCEPT !.phase = "awaiting-plan-approval", !.id = 0], "clearing")
  /\ UNCHANGED <<Files, World, past>>

ClearCheckpoint(s) ==
  /\ sess[s].at = "clearing" /\ cp' = NoCheckpoint /\ Go(s, "checking")
  /\ UNCHANGED <<run, planFile, review, World, past>>

\* The bytes are checked before the reviewer runs; he is pointed to a file all
\* reviews of the run share.
AskReviewer(s) ==
  /\ sess[s].at = "checking"
  /\ IF Bytes(sess[s].run.plan) THEN planFile' = sess[s].run.plan /\ Go(s, "reviewing")
     ELSE End(s) /\ UNCHANGED planFile
  /\ UNCHANGED <<run, review, cp, World, past>>

ReviewerReads(s) ==
  /\ sess[s].at = "reviewing" /\ sess' = [sess EXCEPT ![s].at = "judging", ![s].saw = planFile]
  /\ UNCHANGED <<run, Files, World, past>>

\* The bytes are checked again; a failing review is published as it is.
Judge(s) ==
  /\ sess[s].at = "judging"
  /\ \E a \in Outputs :
       IF Verdict(a) /\ Bytes(sess[s].run.plan)
       THEN /\ sess' = [sess EXCEPT ![s].at = "publishing", ![s].ok = ~Contradicts(a),
                                    ![s].plan = sess[s].run.plan,
                                    ![s].sha = IF Bound[sess[s].run.plan] = 0 THEN 0 ELSE file]
            /\ UNCHANGED review
       ELSE End(s) /\ review' = [plan |-> sess[s].run.plan, passed |-> FALSE, sha |-> 0]
  /\ UNCHANGED <<run, planFile, cp, World, past>>

PublishReview(s) ==
  /\ sess[s].at = "publishing" /\ Swap(s, [run EXCEPT !.phase = "plan-reviewed"], "recording")
  /\ UNCHANGED <<Files, World, past>>

\* The PASS follows the swap; the approval policy may approve at once.
RecordReview(s) ==
  /\ sess[s].at = "recording"
  /\ review' = [plan |-> sess[s].plan, passed |-> TRUE, sha |-> sess[s].sha]
  /\ past' = IF ~sess[s].ok THEN past
             ELSE IF sess[s].saw = sess[s].plan THEN [past EXCEPT !.passed = @ \cup {sess[s].plan}]
             ELSE [past EXCEPT !.mixed = @ \cup {sess[s].plan}]
  /\ Go(s, "approving") \/ Go(s, "deciding")
  /\ UNCHANGED <<run, planFile, cp, World>>

\* The decision not to approve is written to the run, too.
RecordDecision(s) ==
  /\ sess[s].at = "deciding" /\ Swap(s, run, "idle") /\ UNCHANGED <<Files, World, past>>

ApprovePlan(s) ==
  /\ Read(s, Governed, "validating") /\ UNCHANGED <<run, Files, World, past>>

ReviewStands(p) ==
  /\ review.passed /\ review.plan = p
  /\ Bytes(p) /\ (Bound[p] # 0 => review.sha \in {0, file})

Validate(s) ==
  /\ sess[s].at = "validating"
  /\ \/ ~ReviewStands(sess[s].run.plan) /\ End(s)
     \/ \E waived \in BOOLEAN :
          /\ waived \/ ReviewStands(sess[s].run.plan)
          /\ sess' = [sess EXCEPT ![s].at = "approving", ![s].waived = waived,
                                  ![s].plan = sess[s].run.plan]
  /\ UNCHANGED <<run, Files, World, past>>

\* The checkpoint is built of the plan the command knows, which after a review
\* is the one run.json held when the review was published.
BuildCheckpoint(s) ==
  /\ sess[s].at = "approving"
  /\ sess' = [sess EXCEPT ![s].at = "swapping", ![s].plan = sess[s].run.plan]
  /\ past' = IF sess[s].plan = sess[s].run.plan THEN past
             ELSE [past EXCEPT !.mixed = @ \cup {sess[s].run.plan}]
  /\ UNCHANGED <<run, Files, World>>

\* An approval is named by the version that records it.
Approve(s) ==
  /\ sess[s].at = "swapping"
  /\ Swap(s, [run EXCEPT !.phase = "plan-approved", !.id = run.ver + 1], "checkpointing")
  /\ past' = IF sess[s].waived /\ run' # run THEN [past EXCEPT !.waived = @ \cup {run'.id}] ELSE past
  /\ UNCHANGED <<Files, World>>

WriteCheckpoint(s) ==
  /\ sess[s].at = "checkpointing"
  /\ cp' = [id |-> sess[s].run.id, plan |-> sess[s].plan] /\ End(s)
  /\ UNCHANGED <<run, planFile, review, World, past>>

\* One dispatch at a time (the executor lock).
Dispatch(s) ==
  /\ \A x \in Sessions : sess[x].at \notin {"predispatch", "copying", "dispatching"}
  /\ Read(s, {"plan-approved"}, "predispatch") /\ UNCHANGED <<run, Files, World, past>>

\* Mutant: the plan is not compared.
CheckpointOfApproval(r) == cp.id = r.id
\* The checkpoint has to be of this approval and this plan.
CheckpointValid(r) == cp.id = r.id /\ cp.plan = r.plan

PreDispatch(s) ==
  /\ sess[s].at = "predispatch"
  /\ IF CheckpointValid(sess[s].run) THEN Go(s, "copying") ELSE End(s)
  /\ UNCHANGED <<run, Files, World, past>>

\* The bytes are compared, copied into the worktree and hashed there.
Materialize(s) ==
  /\ sess[s].at = "copying"
  /\ IF Bytes(sess[s].run.plan) THEN sess' = [sess EXCEPT ![s].at = "dispatching", ![s].tree = file]
     ELSE End(s)
  /\ UNCHANGED <<run, Files, World, past>>

SameApproval(r) == run.phase = "plan-approved" /\ run.id = r.id /\ run.plan = r.plan

PublishTracks(s) ==
  /\ sess[s].at = "dispatching" /\ End(s)
  /\ IF SameApproval(sess[s].run) /\ run.ver < MaxWrites
     THEN /\ run' = [run EXCEPT !.phase = "dispatch-queued", !.ver = @ + 1]
          /\ tracks' = [id |-> run.id, plan |-> run.plan, tree |-> sess[s].tree]
     ELSE UNCHANGED <<run, tracks>>
  /\ UNCHANGED <<Files, file, used, past>>

-----------------------------------------------------------------------------
(* The environment. *)

Edit == used.edits < MaxEdits /\ used' = [used EXCEPT !.edits = @ + 1]

UserEditsFile ==
  /\ Edit /\ file' \in {Bound[p] : p \in Plans} \ {file}
  /\ UNCHANGED <<run, Files, tracks, sess, past>>

\* A plan is bound by writing the binding into run.json, which no command does.
UserBinds ==
  /\ Edit /\ run.phase \in Governed
  /\ \E p \in Plans \ {run.plan} : run' = [run EXCEPT !.plan = p]
  /\ UNCHANGED <<Files, file, tracks, sess, past>>

Die(s) ==
  /\ Edit /\ sess[s].at # "idle" /\ End(s)
  /\ UNCHANGED <<run, Files, file, tracks, past>>

Command(s) ==
  \/ Plan(s) \/ DropReview(s)
  \/ ReviewPlan(s) \/ Supersede(s) \/ Revoke(s) \/ ClearCheckpoint(s) \/ AskReviewer(s)
  \/ ReviewerReads(s) \/ Judge(s) \/ PublishReview(s) \/ RecordReview(s) \/ RecordDecision(s)
  \/ ApprovePlan(s) \/ Validate(s) \/ BuildCheckpoint(s) \/ Approve(s) \/ WriteCheckpoint(s)
  \/ Dispatch(s) \/ PreDispatch(s) \/ Materialize(s) \/ PublishTracks(s)

Next == (\E s \in Sessions : Command(s) \/ Die(s)) \/ UserEditsFile \/ UserBinds

Spec == Init /\ [][Next]_vars

-----------------------------------------------------------------------------
(* Properties. *)

\* What is dispatched is a plan that has passed, without a contradiction, its own
\* review, or whose approval was waived, and the workers find the bytes it is
\* bound to, whoever edits run.json and the bound file meanwhile. Unless two
\* reviews overlapped, or the plan was changed in run.json under a review whose
\* pass approved it at once, the reviewer read that very plan (validatePlanReviewForApprove,
\* isCheckpointStale, materializeArchitecturePlanBindingToWorktree).
DispatchedAsReviewed ==
  tracks.id # 0 =>
    /\ tracks.id \in past.waived \/ tracks.plan \in past.passed \cup past.mixed
    /\ Bound[tracks.plan] # 0 => tracks.tree = Bound[tracks.plan]

\* A review ceases to be authoritative as soon as a re-review starts: nothing is
\* dispatched while the last review of the plan is one that failed.
LastReviewStands ==
  [][tracks' = tracks \/ tracks'.id \in past.waived \/ review.passed \/ review.plan # tracks'.plan]_vars
====
