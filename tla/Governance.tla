---- MODULE Governance ----
(***************************************************************************)
(* The parts around a run - intents, plans, gates, lessons, the agents,    *)
(* Git's index, the installation and the upkeep of the document store -    *)
(* share no state with each other: they are put side by side. A behaviour  *)
(* chooses one of Components and stays with it; the variables of the       *)
(* others keep a value that means nothing.                                 *)
(***************************************************************************)
EXTENDS Naturals, Sequences

CONSTANTS
  Components,    \* the names of the parts a behaviour may choose
  Processes,     \* the planners, sessions and commands of every part
  MaxFaults,     \* bound: faults, in every part
  MaxCommands,   \* bound: commands, of an installation and of a store's upkeep
  Lines, Kind, Wording, MaxLines,                                      \* intents
  Ids, Resolutions, Suggested, RuleGates, Weak, Primary, Learned, Unresolved, MaxActs,  \* lessons
  Texts, Configs, MaxAttempts, CodeEdits,                              \* gates
  Plans, Bound, Outputs, MaxWrites, MaxReviews, PlanEdits,             \* plans
  Packages, Templates, Scripts, UserState, WithTokens, Config, Own, Folder,   \* install
  Tracks, Pools, MaxBridges, MaxDispatches, MaxMoves,                  \* agents
  Roots, DefaultRoots, MaxCommits,                                     \* store
  GitTasks, MaxObjects, MaxStaged                                         \* index

VARIABLES
  which,
  board, tasks, candidate, planner, faults, superseded,
  pitfalls, rules, gates, signals, dirty, head, op, maintain, acts, retired, declared, dropped,
  conf, code, state, exec, log, bundle, track, manifest, proof, count,
  run, file, planFile, review, cp, tracks, sess, past, used,
  disk, backups, version, sentinel, cmds, kept, spent,
  sprint, owner, flight, pending, timers, agents, story, bridges,
  index, config, schema, journal, artifact, lock, keeper, report, commits, upkeep,
  tip, made, parentOf, treeOf, stage, stageLock, evidence, written, draft, at, task, cur, base,
  copy, child, orphans, user, staged, byHand

intentVars == <<board, tasks, candidate, planner, faults, superseded>>
lessonVars == <<pitfalls, rules, gates, signals, dirty, head, op, maintain, acts,
                retired, declared, dropped>>
gateVars == <<conf, code, state, exec, log, bundle, track, manifest, proof, count>>
planVars == <<run, file, planFile, review, cp, tracks, sess, past, used>>
installVars == <<disk, backups, version, sentinel, cmds, kept, spent>>
agentVars == <<sprint, owner, flight, pending, timers, agents, story, bridges>>
storeVars == <<index, config, schema, journal, artifact, lock, keeper, report, commits, upkeep>>
indexVars == <<tip, made, parentOf, treeOf, stage, stageLock, evidence, written, draft, at, task, cur,
               base, copy, child, orphans, user, staged, byHand>>

-----------------------------------------------------------------------------
Intents == INSTANCE IntentBacklog WITH Planners <- Processes
Lesson == INSTANCE Lessons WITH Gates <- RuleGates, None <- Unresolved
Gate == INSTANCE GateEvidence WITH board <- state, MaxEdits <- CodeEdits
Plan == INSTANCE PlanReview WITH Sessions <- Processes, MaxEdits <- PlanEdits
Install == INSTANCE Installer WITH Sessions <- Processes, sess <- cmds, past <- kept, used <- spent
Runner == INSTANCE ParallelRunner WITH Tasks <- Tracks, board <- sprint, past <- story, used <- bridges
Upkeep == INSTANCE StoreUpkeep WITH
  Sessions <- Processes, file <- artifact, sess <- keeper, past <- commits, used <- upkeep
Index == INSTANCE GitIndexCommit WITH
  Tasks <- GitTasks, MaxCommits <- MaxObjects,
  head <- tip, index <- stage, lock <- stageLock, candidate <- draft

ASSUME GovernanceAssumption ==
  Intents!IntentAssumption /\ Lesson!LessonsAssumption /\ Gate!GateAssumption
  /\ Plan!PlanAssumption /\ Install!InstallerAssumption /\ Runner!RunnerAssumption
  /\ Upkeep!UpkeepAssumption /\ Index!BoundsAssumption

-----------------------------------------------------------------------------
Init ==
  /\ which \in Components
  /\ IF which = "intents" THEN Intents!Init
     ELSE board = 0 /\ tasks = 0 /\ candidate = 0 /\ planner = 0 /\ faults = 0 /\ superseded = 0
  /\ IF which = "lessons" THEN Lesson!Init
     ELSE /\ pitfalls = 0 /\ rules = 0 /\ gates = 0 /\ signals = 0 /\ dirty = 0 /\ head = 0
          /\ op = 0 /\ maintain = 0 /\ acts = 0
          /\ retired = 0 /\ declared = 0 /\ dropped = 0
  /\ IF which = "gates" THEN Gate!Init
     ELSE /\ conf = 0 /\ code = 0 /\ state = 0 /\ exec = 0 /\ log = 0
          /\ bundle = 0 /\ track = 0 /\ manifest = 0 /\ proof = 0 /\ count = 0
  /\ IF which = "plans" THEN Plan!Init
     ELSE /\ run = 0 /\ file = 0 /\ planFile = 0 /\ review = 0 /\ cp = 0
          /\ tracks = 0 /\ sess = 0 /\ past = 0 /\ used = 0
  /\ IF which = "install" THEN Install!Init
     ELSE disk = 0 /\ backups = 0 /\ version = 0 /\ sentinel = 0 /\ cmds = 0 /\ kept = 0 /\ spent = 0
  /\ IF which = "agents" THEN Runner!Init
     ELSE /\ sprint = 0 /\ owner = 0 /\ flight = 0 /\ pending = 0 /\ timers = 0 /\ agents = 0
          /\ story = 0 /\ bridges = 0
  /\ IF which = "store" THEN Upkeep!Init
     ELSE /\ index = 0 /\ config = 0 /\ schema = 0 /\ journal = 0 /\ artifact = 0
          /\ lock = 0 /\ keeper = 0 /\ report = 0 /\ commits = 0 /\ upkeep = 0
  /\ IF which = "index" THEN Index!Init
     ELSE /\ tip = 0 /\ made = 0 /\ parentOf = 0 /\ treeOf = 0 /\ stage = 0 /\ stageLock = 0
          /\ evidence = 0 /\ written = 0 /\ draft = 0 /\ at = 0 /\ task = 0 /\ cur = 0 /\ base = 0
          /\ copy = 0 /\ child = 0 /\ orphans = 0 /\ user = 0 /\ staged = 0 /\ byHand = 0

Next ==
  \/ which = "intents" /\ Intents!Next
     /\ UNCHANGED <<which, lessonVars, gateVars, planVars, installVars, agentVars, storeVars, indexVars>>
  \/ which = "lessons" /\ Lesson!Next
     /\ UNCHANGED <<which, intentVars, gateVars, planVars, installVars, agentVars, storeVars, indexVars>>
  \/ which = "gates" /\ Gate!Next
     /\ UNCHANGED <<which, intentVars, lessonVars, planVars, installVars, agentVars, storeVars, indexVars>>
  \/ which = "plans" /\ Plan!Next
     /\ UNCHANGED <<which, intentVars, lessonVars, gateVars, installVars, agentVars, storeVars, indexVars>>
  \/ which = "install" /\ Install!Next
     /\ UNCHANGED <<which, intentVars, lessonVars, gateVars, planVars, agentVars, storeVars, indexVars>>
  \/ which = "agents" /\ Runner!Next
     /\ UNCHANGED <<which, intentVars, lessonVars, gateVars, planVars, installVars, storeVars, indexVars>>
  \/ which = "store" /\ Upkeep!Next
     /\ UNCHANGED <<which, intentVars, lessonVars, gateVars, planVars, installVars, agentVars, indexVars>>
  \/ which = "index" /\ Index!Next
     /\ UNCHANGED <<which, intentVars, lessonVars, gateVars, planVars, installVars, agentVars, storeVars>>

vars == <<which, intentVars, lessonVars, gateVars, planVars, installVars, agentVars, storeVars,
          indexVars>>

Spec == Init /\ [][Next]_vars

-----------------------------------------------------------------------------
\* No goal is lost: an intent marked handled has a task that carries it, whatever
\* moved on the board between a planner's reading and its marking.
HandledIsCarried == which = "intents" => Intents!HandledIsCarried

\* A goal has one task, although planners overlap, die and start again.
OneTaskPerGoal == which = "intents" => Intents!OneTaskPerGoal

\* No lesson that was retired or declared in conflict is injected into a prompt.
InjectedSafely == which = "lessons" => Lesson!InjectedSafely

\* Resolving a pitfall, once or again after a death, adds its gate and journal
\* entry once.
ResolvedOnce == which = "lessons" => Lesson!ResolvedOnce

\* A commit publishes a lesson whole: never a resolved pitfall without its rule.
CommitsWholeLessons == [][which = "lessons" => Lesson!PublishesWhole]_lessonVars

\* What a manifest for approval calls proven was proven, on the code of its gates.
ProofIsReal == which = "gates" => Gate!ProofIsReal

\* A task whose gates pass after a failed attempt can be approved for commit.
ReworkApprovable == which = "gates" => Gate!ReworkApprovable

\* What is dispatched has passed the review of that plan over those bytes.
DispatchedAsReviewed == which = "plans" => Plan!DispatchedAsReviewed

\* version.json names the version of every script, unless an upgrade is marked
\* as interrupted.
VersionIsWhole == which = "install" => Install!VersionIsWhole

\* No command loses a file or what a user wrote in it.
NothingLost == which = "install" => Install!NothingLost

\* The result of a track is its own agent's, in time, and overrules nobody.
ResultsStand == which = "agents" => Runner!ResultsStand

\* No dispatch waits for something that can not come any more.
DispatchesSettle == which = "agents" => Runner!DispatchesSettle

\* No command works on when its track has settled.
NoneLeftBehind == which = "agents" => Runner!NoneLeftBehind

\* An init or a migration does what it reports, or leaves all as it was.
UpkeepSound == which = "store" => Upkeep!UpkeepSound

\* No committed document is lost to an init or a migration.
CommitsSurvive == which = "store" => Upkeep!CommitsSurvive

\* What the user staged stays staged.
StagingKept == which = "index" => Index!StagingKept

\* A commit is never left half published.
IndexFollowsHead == which = "index" => Index!IndexFollowsHead

\* HEAD takes no task back.
NothingReverted == [][which = "index" => Index!KeepsTasks]_indexVars

\* "Re-run with --force to continue the upgrade.": after that it is not marked
\* as interrupted any more.
ForceContinues == [][which = "install" => Install!Continued]_installVars
====
