---- MODULE GateEvidence ----
(***************************************************************************)
(* From quality gates to an approved commit: one task of one orchestrated  *)
(* run. The executor dispatches a worker, runs build and review, then all  *)
(* gates, logs every verdict (auto-pilot-loop.mjs), copies the log into an *)
(* evidence bundle (lib/observability.mjs), and binds the bundle to the    *)
(* files a commit may take (auto-pilot-orchestrate.mjs); the cockpit says  *)
(* whether the completion evidence is to be trusted (lib/gate-trust.mjs,   *)
(* auto-pilot-observe.mjs). Meanwhile users edit the code, config.yaml and *)
(* the bundle, and the executor may die. Code is named by the number of    *)
(* the edit that made it.                                                  *)
(***************************************************************************)
EXTENDS Naturals, Sequences

CONSTANTS
  Texts,        \* what a reviewer may print
  Configs,      \* the quality gates a project may configure
  MaxAttempts,  \* bound: executors started
  MaxEdits,     \* bound: edits of the code, by workers and users
  MaxFaults     \* bound: deaths, edits of config.yaml and of the bundle

\* What the constants must be; the harness assumes it of its instance.
GateAssumption ==
  /\ Texts \subseteq [status: Seq({"PASS", "FAIL"}), blocking: BOOLEAN]
  /\ Configs \subseteq [gates: SUBSET {"build", "review", "acceptance", "eval"},
                        advisory: SUBSET {"review", "eval"}, fallback: BOOLEAN]

VARIABLES
  conf,     \* config.yaml
  code,     \* the files of the task
  board,    \* the state of the task on the sprint board
  exec,     \* the executor: its step, its configuration, the gate it is at
  log,      \* the task's events in the run's events.jsonl
  bundle,   \* the evidence bundle
  track,    \* the result the track of the task was settled with
  manifest, \* the commit approval manifest, or why it was refused
  proof,    \* history: the code each gate last passed on, the review it passed,
            \* and the code and configuration of the last full sequence
  count     \* attempts, edits and faults so far

vars == <<conf, code, board, exec, log, bundle, track, manifest, proof, count>>

GateNames == {"build", "review", "acceptance", "eval"}
Turn == [build |-> 1, review |-> 2, acceptance |-> 3, eval |-> 4]
Outcomes == {"completed", "failed"}
Event == [gate: GateNames \cup Outcomes, required: BOOLEAN, passed: BOOLEAN]
NoText == [status |-> <<>>, blocking |-> FALSE]

NoBundle == [copied |-> 0, at |-> 0, outcome |-> "none", spoilt |-> FALSE]
NoManifest == [result |-> "none", code |-> 0, conf |-> conf]
Idle == [pc |-> "idle", conf |-> conf, left |-> {}, retried |-> FALSE, why |-> "none"]

TypeOK ==
  /\ conf \in Configs /\ code \in 0..MaxEdits
  /\ board \in {"Backlog", "InProgress", "Review", "Testing", "Done", "Failed"}
  /\ exec.pc \in {"idle", "dispatch", "gates", "fallback", "failing", "failed", "done", "copy",
                  "describe", "settle", "conclude"}
  /\ exec.left \subseteq GateNames /\ exec.conf \in Configs
  /\ \A i \in DOMAIN log : log[i] \in Event
  /\ bundle.copied \in 0..Len(log) /\ bundle.at \in 0..Len(log)
  /\ track \in Outcomes \cup {"none"}
  /\ manifest.result \in {"none", "approved", "unproven", "failing"}
  /\ proof.passed \in [GateNames -> 0..MaxEdits]

Init ==
  /\ conf \in Configs /\ code = 1 /\ board = "Backlog"
  /\ exec = Idle /\ log = <<>> /\ bundle = NoBundle /\ track = "none" /\ manifest = NoManifest
  /\ proof = [passed |-> [g \in GateNames |-> 0], text |-> NoText, began |-> 0, conf |-> conf]
  /\ count = [attempts |-> 0, faults |-> 0]

-----------------------------------------------------------------------------
(* Verdicts. *)

\* A gate the configuration asks for is required unless it is declared advisory.
Required(c, g) == g \in c.gates /\ g \notin c.advisory

\* The first status line counts, and a finding blocks in spite of it.
Passes(text) == text.status # <<>> /\ Head(text.status) = "PASS" /\ ~text.blocking
Blocks(text) == text.blocking \/ (text.status # <<>> /\ Head(text.status) = "FAIL")

\* A fallback that exits 0 without a status line is taken for a PASS.
Completed(text) == IF text.status = <<>> THEN [text EXCEPT !.status = <<"PASS">>] ELSE text

\* The first EVAL STATUS line counts, and there has to be one.
EvalPasses(text) == text.status # <<>> /\ Head(text.status) = "PASS"

\* What a stage takes of the configuration: Review only the commands of build
\* and review, Testing everything.
ForReview(c) == [gates |-> c.gates \cap {"build", "review"}, advisory |-> {}, fallback |-> FALSE]
\* Mutant: Testing does not repeat the two.
StageOnce(c, stage) ==
  IF stage = "Review" THEN ForReview(c) ELSE [c EXCEPT !.gates = @ \ {"build", "review"}]
Stage(c, stage) == IF stage = "Review" THEN ForReview(c) ELSE c
Now == Stage(exec.conf, board)

\* The gates a configuration may not leave out.
MissingRequired(c) == ({"build", "acceptance"} \cup ({"review"} \ c.advisory)) \ c.gates

-----------------------------------------------------------------------------
(* The executor of await-workers. *)

At(pc) == exec' = [exec EXCEPT !.pc = pc]
Unevidenced == UNCHANGED <<bundle, track, manifest, count>>

\* The gates of a stage are to run; a gate without a command is skipped.
Enter(c, stage) ==
  /\ exec' = [Idle EXCEPT !.pc = "gates", !.conf = c, !.left = Stage(c, stage).gates]
  /\ proof' = IF stage = "Testing" THEN [proof EXCEPT !.began = code, !.conf = c] ELSE proof

\* An executor starts on a track that is queued, or was requeued in the stage
\* an earlier one died in; the gates are those configured now.
Start ==
  /\ exec.pc = "idle" /\ board # "Done" /\ count.attempts < MaxAttempts
  /\ count' = [count EXCEPT !.attempts = @ + 1]
  /\ IF board \in {"Review", "Testing"}
     THEN Enter(conf, board) /\ UNCHANGED board
     ELSE board' = "InProgress" /\ exec' = [Idle EXCEPT !.pc = "dispatch"] /\ UNCHANGED proof
  /\ track' = "none"
  /\ UNCHANGED <<conf, code, log, bundle, manifest>>

\* The worker edits the code or not, and succeeds within its permissions or not.
Dispatch ==
  /\ exec.pc = "dispatch"
  /\ code' \in {code, code + 1} \cap 0..MaxEdits
  /\ \/ board' = "Review" /\ Enter(exec.conf, "Review")
     \/ exec' = [exec EXCEPT !.pc = "failing", !.why = "dispatch"] /\ UNCHANGED <<board, proof>>
  /\ UNCHANGED <<conf, log>> /\ Unevidenced

\* The gates run in their order.
AtGate(g) ==
  /\ exec.pc = "gates" /\ g \in exec.left
  /\ \A h \in exec.left : Turn[g] <= Turn[h]

\* An event of the log.
Said(gate, required, passed) == [gate |-> gate, required |-> required, passed |-> passed]

Logged(g, ok) == log' = Append(log, Said(g, g \notin Now.advisory, ok))
GateOver(g) == exec' = [exec EXCEPT !.pc = "gates", !.left = @ \ {g}, !.retried = FALSE]
GatePasses(g, text) ==
  /\ Logged(g, TRUE) /\ GateOver(g)
  /\ proof' = [proof EXCEPT !.passed[g] = code, !.text = IF g = "review" THEN text ELSE @]
GateStops(g, why) ==
  /\ Logged(g, FALSE) /\ UNCHANGED proof
  /\ exec' = [exec EXCEPT !.pc = "failing", !.why = why]

\* A failing gate stops the sequence unless it is advisory.
GateFails(g, why) ==
  IF g \in Now.advisory THEN Logged(g, FALSE) /\ GateOver(g) /\ UNCHANGED proof ELSE GateStops(g, why)

OnlyVerdict == UNCHANGED <<conf, code, board>> /\ Unevidenced

RunCommand ==
  /\ \E g \in {"build", "acceptance"} : AtGate(g) /\ (GatePasses(g, NoText) \/ GateFails(g, "command"))
  /\ OnlyVerdict

\* An eval has to exit 0 and to say that it passed.
RunEval ==
  /\ AtGate("eval")
  /\ \/ \E text \in Texts : IF EvalPasses(text) THEN GatePasses("eval", text) ELSE GateFails("eval", "eval")
     \/ GateFails("eval", "eval")
  /\ OnlyVerdict

\* What a review printed, whatever its exit code, decides, or it is asked again
\* once. Blocking evidence stops an advisory review too.
Judge(text) ==
  IF Passes(text) THEN GatePasses("review", text)
  ELSE IF Blocks(text) THEN GateStops("review", "findings")
  ELSE IF ~exec.retried THEN exec' = [exec EXCEPT !.pc = "gates", !.retried = TRUE] /\ UNCHANGED <<log, proof>>
  ELSE IF "review" \in Now.advisory THEN GatePasses("review", text)
  ELSE GateStops("review", "unstructured")

RunReview == AtGate("review") /\ (\E text \in Texts : Judge(text)) /\ OnlyVerdict

\* The reviewer crashes, times out or prints nothing: the fallback is run if
\* the stage has one, and judged; without one an advisory review is waived.
ReviewerFails ==
  /\ AtGate("review")
  /\ IF Now.fallback THEN At("fallback") /\ UNCHANGED <<log, proof>>
     ELSE IF "review" \in Now.advisory THEN GatePasses("review", NoText)
     ELSE GateStops("review", "reviewer")
  /\ OnlyVerdict

RunFallback ==
  /\ exec.pc = "fallback"
  /\ \/ \E text \in Texts : Judge(Completed(text)) \/ Judge(text)
     \/ IF "review" \in Now.advisory THEN GatePasses("review", NoText) ELSE GateStops("review", "fallback")
  /\ OnlyVerdict

\* All gates of the stage passed: on to the next one, or done.
StagePassed ==
  /\ exec.pc = "gates" /\ exec.left = {}
  /\ IF board = "Review" THEN board' = "Testing" /\ Enter(exec.conf, "Testing")
     ELSE board' = "Done" /\ At("done") /\ UNCHANGED proof
  /\ UNCHANGED <<conf, code, log>> /\ Unevidenced

TaskFails ==
  /\ exec.pc = "failing" /\ board' = "Failed" /\ At("failed")
  /\ UNCHANGED <<conf, code, log, proof>> /\ Unevidenced

Outcome == IF board = "Done" THEN "completed" ELSE "failed"

\* The outcome is logged after the board says it.
LogOutcome ==
  /\ exec.pc \in {"done", "failed"}
  /\ log' = Append(log, Said(Outcome, FALSE, board = "Done"))
  /\ At("copy")
  /\ UNCHANGED <<conf, code, board, proof>> /\ Unevidenced

-----------------------------------------------------------------------------
(* The bundle and the manifest. *)

\* The bundle's copy of the log is written first, then what describes it.
CopyLog ==
  /\ exec.pc = "copy" /\ bundle' = [bundle EXCEPT !.copied = Len(log)] /\ At("describe")
  /\ UNCHANGED <<conf, code, board, log, track, manifest, proof, count>>

\* The description names the gates and the outcome of all events there are by now.
Described(b) == [b EXCEPT !.at = Len(log), !.outcome = Outcome, !.spoilt = FALSE]

Describe ==
  /\ exec.pc = "describe" /\ bundle' = Described(bundle)
  /\ At("settle")
  /\ UNCHANGED <<conf, code, board, log, track, manifest, proof, count>>

Settle ==
  /\ exec.pc = "settle" /\ track' = Outcome
  /\ IF board = "Done" THEN At("conclude") ELSE exec' = Idle
  /\ UNCHANGED <<conf, code, board, log, bundle, manifest, proof, count>>

\* Where the verdicts of gates are among the first n events.
Verdicts(n) == {i \in 1..n : log[i].gate \in GateNames}

\* There is a description, and it and the files it names are as they were written.
WellFormed(b) == b.outcome # "none" /\ ~b.spoilt

\* The gates described are those logged, the outcome is among the events.
BundleValid ==
  /\ WellFormed(bundle)
  /\ Verdicts(bundle.copied) = Verdicts(bundle.at)
  /\ \E i \in 1..bundle.copied : log[i].gate = bundle.outcome

EvidenceOf(b) == {e \in {log[i] : i \in Verdicts(b.at)} : e.required}
FailedIn(b) == {e \in EvidenceOf(b) : ~e.passed}

\* The gates that are required now and for which there is no required evidence.
Lacking(b) == {g \in GateNames : Required(conf, g) /\ \A e \in EvidenceOf(b) : e.gate # g}

\* Whether the evidence admits a commit of what the files are now.
Admits ==
  IF MissingRequired(conf) # {} \/ ~BundleValid \/ bundle.outcome # "completed" THEN "unproven"
  ELSE IF EvidenceOf(bundle) = {} \/ FailedIn(bundle) # {} THEN "failing"
  ELSE IF Lacking(bundle) # {} THEN "unproven"
  ELSE "approved"

\* await-workers ends with the manifest, or throws; approve-commit builds it again.
Conclude ==
  /\ exec.pc = "conclude"
  /\ manifest' = [result |-> Admits, code |-> code, conf |-> conf]
  /\ exec' = Idle
  /\ UNCHANGED <<conf, code, board, log, bundle, track, proof, count>>

ApproveCommit ==
  /\ exec.pc = "idle" /\ manifest.result = "approved" /\ Admits = "approved"
  /\ manifest' = [result |-> Admits, code |-> code, conf |-> conf]
  /\ UNCHANGED <<conf, code, board, exec, log, bundle, track, proof, count>>

-----------------------------------------------------------------------------
(* What the cockpit says of it. *)

\* The audit of the configured gates. Build is required, so that some gate is.
GateTrust(c) ==
  IF MissingRequired(c) # {} THEN "missing-required-gates"
  ELSE IF "review" \in c.advisory THEN "needs-agent-attention" ELSE "configured"

\* A gate that is advisory is a risk, whatever it says.
GateRisks(c) == MissingRequired(c) \cup (c.advisory \cap (c.gates \cup {"review"}))

\* The bundle bound when the track settled proves the completion.
ProofReady ==
  /\ track # "none" /\ BundleValid /\ bundle.outcome = "completed"
  /\ EvidenceOf(bundle) # {} /\ FailedIn(bundle) = {} /\ Lacking(bundle) = {}

\* Proof is asked for once the run waits for, or has, the approval of a commit;
\* before, "trusted" speaks of the configuration alone.
TrustedProof ==
  /\ manifest.result = "approved"
  /\ GateTrust(conf) = "configured" /\ GateRisks(conf) = {} /\ ProofReady

-----------------------------------------------------------------------------
(* The environment. *)

Fault == count.faults < MaxFaults /\ count' = [count EXCEPT !.faults = @ + 1]

Die ==
  /\ Fault /\ exec.pc # "idle" /\ exec' = Idle
  /\ UNCHANGED <<conf, code, board, log, bundle, track, manifest, proof>>

UserEditsCode ==
  /\ code < MaxEdits /\ code' = code + 1
  /\ UNCHANGED <<conf, board, exec, log, bundle, track, manifest, proof, count>>

UserEditsConfig ==
  /\ Fault /\ conf' \in Configs \ {conf}
  /\ UNCHANGED <<code, board, exec, log, bundle, track, manifest, proof>>

UserEditsBundle ==
  /\ Fault /\ bundle.copied # 0 /\ bundle' = [bundle EXCEPT !.spoilt = TRUE]
  /\ UNCHANGED <<conf, code, board, exec, log, track, manifest, proof>>

Next ==
  \/ Start \/ Dispatch \/ RunCommand \/ RunEval \/ RunReview \/ ReviewerFails \/ RunFallback
  \/ StagePassed \/ TaskFails \/ LogOutcome \/ CopyLog \/ Describe \/ Settle \/ Conclude \/ ApproveCommit
  \/ Die \/ UserEditsCode \/ UserEditsConfig \/ UserEditsBundle

Spec == Init /\ [][Next]_vars

-----------------------------------------------------------------------------
(* Properties. *)

\* Every gate c requires has passed in this run, on the very code k unless the code
\* was edited or the gates were reconfigured after the last full sequence began, and
\* the review without a blocking finding.
Proven(c, k) ==
  /\ ~proof.text.blocking
  /\ \A g \in GateNames : Required(c, g) =>
       proof.passed[g] # 0 /\ (k = proof.began /\ c = proof.conf => proof.passed[g] = k)

\* What is called proven was gated: the code a manifest binds
\* (buildCommitApprovalManifest over the evidence of runGateSequence), and the code
\* that lies there whenever the cockpit calls the completion evidence trusted
\* (buildStructuredEvidenceSummary, buildEvidenceTrust), whoever died or edited what.
ProofIsReal ==
  /\ manifest.result = "approved" => Proven(manifest.conf, manifest.code)
  /\ TrustedProof => Proven(conf, code)

\* Work that failed a gate, was fixed and passed them all can be approved: the
\* protocol's answer to a blocking finding is to fix and review again.
ReworkApprovable == manifest.result # "failing"

\* Where a fallback is configured, the reviewer failing to run does not fail
\* the review by itself.
FallbackHonoured == exec.why = "reviewer" => ~exec.conf.fallback
====
