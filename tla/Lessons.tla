---- MODULE Lessons ----
(***************************************************************************)
(* What a failure leaves behind (sprint-board.mjs pitfall, constraint-     *)
(* bridge.mjs, adaptive-gates.mjs, gates maintain): a pitfall is recorded, *)
(* resolved, and its resolution becomes a learned rule, a gate of          *)
(* config.yaml and a journal entry, committed together. A rule starts in   *)
(* probation, is promoted, refreshed, retired or declared in conflict with *)
(* another, and the active ones are put into the prompts of later workers. *)
(*                                                                         *)
(* The pitfall commands run one at a time, under the lock of               *)
(* pitfalls.json, but a resolve writes its files one after the other and   *)
(* may die between them; gates maintain rewrites config.yaml, and the user *)
(* commits, without that lock. Repeating a resolve completes it.           *)
(*                                                                         *)
(* A rule's text, tags and confidence are left out: which rules a query    *)
(* selects, and which of those have decayed since they were last           *)
(* validated, is any set, and the properties speak of all of them.         *)
(***************************************************************************)
EXTENDS Integers, FiniteSets

CONSTANTS
  Ids,          \* numbers of the pitfalls
  Resolutions,  \* texts a resolution may have
  Suggested,    \* [Ids -> Gates]: the gate the pitfall's text suggests
  Gates,        \* gate commands, with their names
  Weak,         \* the gates that are placeholders
  Primary,      \* the gates another quality gate runs as well
  Learned,      \* the pitfalls resolved long ago, whose rules are active
  None,         \* no resolution, no conflict
  MaxActs       \* bound: resolves that die half-way, commits of the user

\* What the constants must be; the harness assumes it of its instance.
LessonsAssumption ==
  /\ Ids \subseteq Nat /\ Learned \subseteq Ids
  /\ Suggested \in [Ids -> Gates] /\ Weak \subseteq Gates /\ Primary \subseteq Gates \ Weak
  /\ {"none", "open", None} \intersect Resolutions = {} /\ Resolutions # {}
  /\ MaxActs \in Nat

VARIABLES
  pitfalls,     \* pitfalls.json: [Ids -> "none", "open" or the resolution]
  rules,        \* .va-auto-pilot/constraints: [Ids -> a rule or NoRule]
  gates,        \* the adaptive gates of config.yaml, with the pitfall each comes from
  signals,      \* [Ids -> how many pitfall-resolved signals the journal holds]
  dirty,        \* the files with uncommitted changes
  head,         \* what HEAD holds: the resolved pitfalls and the rules
  op,           \* the resolve that holds the lock of pitfalls.json
  maintain,     \* the config a gates maintain --apply has read
  acts,
  retired,      \* history: the rules an ineffective feedback retired
  declared,     \* history: the pairs declared in conflict
  dropped       \* history: gates a maintain or a resolve overwrote unseen

vars == <<pitfalls, rules, gates, signals, dirty, head, op, maintain,
          acts, retired, declared, dropped>>

repo == <<dirty, head>>
history == <<retired, declared, dropped>>

NoRule == [status |-> "none", conflictsWith |-> {}, source |-> None]
Idle == [pc |-> "idle", id |-> 0, resolution |-> None, rule |-> NoRule,
         clean |-> FALSE, config |-> {}]
NotReading == [reading |-> FALSE, config |-> {}]

Resolved(id) == pitfalls[id] \in Resolutions
HasRule(id) == rules[id] # NoRule

\* The files of a resolve: pitfalls.json, config.yaml, the journal and the rule.
PitfallsFile == <<"pitfalls", 0>>
ConfigFile == <<"config", 0>>
JournalFile == <<"journal", 0>>
RuleFile(id) == <<"rule", id>>

FilesOf(id) == {PitfallsFile, ConfigFile, JournalFile, RuleFile(id)}
AllFiles == UNION {FilesOf(id) : id \in Ids}

Gate(id) == [by |-> id, gate |-> Suggested[id]]

Init ==
  LET first == CHOOSE r \in Resolutions : TRUE IN
  /\ pitfalls = [id \in Ids |-> IF id \in Learned THEN first ELSE "none"]
  /\ rules = [id \in Ids |-> IF id \in Learned
                             THEN [status |-> "active",
                                   conflictsWith |-> {}, source |-> first]
                             ELSE NoRule]
  /\ gates = {Gate(id) : id \in {i \in Learned : Suggested[i] \notin Weak}}
  /\ signals = [id \in Ids |-> IF id \in Learned THEN 1 ELSE 0]
  /\ dirty = {} /\ head = [resolved |-> Learned, rules |-> Learned]
  /\ op = Idle /\ maintain = NotReading
  /\ acts = 0
  /\ retired = {} /\ declared = {} /\ dropped = {}

-----------------------------------------------------------------------------
(* pitfall: the commands of one write. *)

\* The loop records a failed gate, a reviewer or the user a lesson: ids are counted up.
AddPitfall(id) ==
  /\ op = Idle
  /\ pitfalls[id] = "none" /\ \A i \in Ids : i < id => pitfalls[i] # "none"
  /\ pitfalls' = [pitfalls EXCEPT ![id] = "open"]
  /\ dirty' = dirty \union {PitfallsFile}
  /\ UNCHANGED <<rules, gates, signals, head, op, maintain, acts, history>>

\* readLearnedConstraintForPitfall: what every lifecycle command asks for first.
Governed(id) == op = Idle /\ Resolved(id) /\ HasRule(id)

SetRule(id, rule) ==
  /\ rules' = [rules EXCEPT ![id] = rule]
  /\ dirty' = IF rule = rules[id] THEN dirty ELSE dirty \union {RuleFile(id)}
  /\ UNCHANGED <<pitfalls, gates, signals, head, op, maintain, acts>>

Promote(id) ==
  /\ Governed(id) /\ rules[id].status = "probation"
  /\ SetRule(id, [rules[id] EXCEPT !.status = "active"])
  /\ UNCHANGED history

\* The rule is as good as new: its time starts again.
FeedbackEffective(id) ==
  /\ Governed(id)
  /\ dirty' = dirty \union {RuleFile(id)}
  /\ UNCHANGED <<pitfalls, rules, gates, signals, head, op, maintain, acts, history>>

FeedbackIneffective(id) ==
  /\ Governed(id)
  /\ SetRule(id, [rules[id] EXCEPT !.status = "retired"])
  /\ retired' = retired \union {id}
  /\ UNCHANGED <<declared, dropped>>

\* Mutant: the last conflict declared replaces the earlier ones.
WithConflictOnly(rule, other) == [rule EXCEPT !.conflictsWith = {other}]

WithConflict(rule, other) == [rule EXCEPT !.conflictsWith = @ \union {other}]

\* The conflict is kept in the rule of the lower number.
DeclareConflict(low, high) ==
  /\ low < high /\ Governed(low) /\ Governed(high)
  /\ SetRule(low, WithConflict(rules[low], high))
  /\ declared' = declared \union {{low, high}}
  /\ UNCHANGED <<retired, dropped>>

-----------------------------------------------------------------------------
(* pitfall --resolve. *)

NewRule(resolution) ==
  [status |-> "probation", conflictsWith |-> {}, source |-> resolution]

\* A rule that exists is kept as governance has left it.
Document(id, resolution) ==
  IF Resolved(id) /\ HasRule(id) THEN rules[id] ELSE NewRule(resolution)

\* Mutant: any resolution is taken.
MayResolveAgain(id, resolution) == pitfalls[id] # "none"

\* A pitfall keeps its first resolution; another one is refused.
MayResolve(id, resolution) == pitfalls[id] \in {"open", resolution}

ResolveBegins(id, resolution) ==
  /\ op = Idle /\ MayResolve(id, resolution)
  /\ op' = [pc |-> "pitfalls", id |-> id, resolution |-> resolution,
            rule |-> Document(id, resolution), clean |-> dirty \intersect FilesOf(id) = {},
            config |-> {}]
  /\ UNCHANGED <<pitfalls, rules, gates, signals, repo, maintain, acts, history>>

At(pc) == op.pc = pc
Goto(pc) == op' = [op EXCEPT !.pc = pc]

ResolveWritesPitfalls ==
  /\ At("pitfalls") /\ Goto("rule")
  /\ pitfalls' = [pitfalls EXCEPT ![op.id] = op.resolution]
  /\ dirty' = IF Resolved(op.id) THEN dirty ELSE dirty \union {PitfallsFile}
  /\ UNCHANGED <<rules, gates, signals, head, maintain, acts, history>>

ResolveWritesRule ==
  /\ At("rule") /\ Goto("config")
  /\ rules' = [rules EXCEPT ![op.id] = op.rule]
  /\ dirty' = IF rules[op.id] = op.rule THEN dirty ELSE dirty \union {RuleFile(op.id)}
  /\ UNCHANGED <<pitfalls, gates, signals, head, maintain, acts, history>>

ResolveReadsConfig ==
  /\ At("config")
  /\ op' = [op EXCEPT !.pc = "gate", !.config = gates]
  /\ UNCHANGED <<pitfalls, rules, gates, signals, repo, maintain, acts, history>>

\* appendSuggestedGate: no placeholder, and no second gate for a pitfall or a command.
Suggests(config, id) ==
  /\ Suggested[id] \notin Weak
  /\ \A g \in config : g.by # id /\ g.gate # Suggested[id]

WriteConfig(read, written) ==
  /\ gates' = written
  /\ dirty' = IF written = gates THEN dirty ELSE dirty \union {ConfigFile}
  /\ dropped' = dropped \union {g.gate : g \in gates \ read}

ResolveWritesGate ==
  /\ At("gate") /\ op' = [op EXCEPT !.pc = "journal", !.config = {}]
  /\ IF Suggests(op.config, op.id)
     THEN WriteConfig(op.config, op.config \union {Gate(op.id)})
     ELSE UNCHANGED <<gates, dirty, dropped>>
  /\ UNCHANGED <<pitfalls, rules, signals, head, maintain, acts, retired, declared>>

\* appendJournalOnce
JournalNeeds(id) == signals[id] = 0

ResolveWritesJournal ==
  /\ At("journal") /\ Goto("commit")
  /\ signals' = [signals EXCEPT ![op.id] = IF JournalNeeds(op.id) THEN @ + 1 ELSE @]
  /\ dirty' = IF JournalNeeds(op.id) THEN dirty \union {JournalFile} ELSE dirty
  /\ UNCHANGED <<pitfalls, rules, gates, head, maintain, acts, history>>

\* What a commit of some files puts at HEAD.
Committed(files) ==
  [resolved |-> IF PitfallsFile \in files THEN {i \in Ids : Resolved(i)} ELSE head.resolved,
   rules    |-> {i \in Ids : IF RuleFile(i) \in files THEN HasRule(i) ELSE i \in head.rules}]

\* Mutant: what was dirty before the resolve is committed with it.
MayCommitAll(o) == TRUE

MayCommit(o) == o.clean

\* commitConstraintArtifacts: skipped when a file was dirty before, or when nothing is
\* staged; a commit that fails is undone in the index and reported as skipped.
ResolveCommits ==
  /\ At("commit") /\ MayCommit(op)
  /\ head' = Committed(FilesOf(op.id))
  /\ dirty' = dirty \ FilesOf(op.id)
  /\ op' = Idle
  /\ UNCHANGED <<pitfalls, rules, gates, signals, maintain, acts, history>>

ResolveSkipsCommit ==
  /\ At("commit") /\ op' = Idle
  /\ UNCHANGED <<pitfalls, rules, gates, signals, repo, maintain, acts, history>>

ResolveDies ==
  /\ acts < MaxActs /\ op # Idle
  /\ acts' = acts + 1 /\ op' = Idle
  /\ UNCHANGED <<pitfalls, rules, gates, signals, repo, maintain, history>>

-----------------------------------------------------------------------------
(* gates maintain --apply, without the lock, and the user. *)

\* planGateMaintenance: placeholders, and gates that only repeat another one, go once
\* their pitfall is resolved. A gate is only ever added for a resolved pitfall.
Maintained(config) == {g \in config : g.gate \notin Weak \union Primary}

\* With nothing to remove it writes nothing.
MaintainReads ==
  /\ ~maintain.reading /\ Maintained(gates) # gates
  /\ maintain' = [reading |-> TRUE, config |-> gates]
  /\ UNCHANGED <<pitfalls, rules, gates, signals, repo, op, acts, history>>

MaintainWrites ==
  /\ maintain.reading
  /\ maintain' = NotReading
  /\ WriteConfig(maintain.config, Maintained(maintain.config))
  /\ UNCHANGED <<pitfalls, rules, signals, head, op, acts, retired, declared>>

UserCommits ==
  /\ acts < MaxActs
  /\ acts' = acts + 1
  /\ head' = Committed(AllFiles)
  /\ dirty' = {}
  /\ UNCHANGED <<pitfalls, rules, gates, signals, op, maintain, history>>

-----------------------------------------------------------------------------
Next ==
  \/ \E id \in Ids :
       \/ AddPitfall(id) \/ Promote(id) \/ FeedbackEffective(id) \/ FeedbackIneffective(id)
       \/ \E high \in Ids : DeclareConflict(id, high)
       \/ \E resolution \in Resolutions : ResolveBegins(id, resolution)
  \/ ResolveWritesPitfalls \/ ResolveWritesRule \/ ResolveReadsConfig \/ ResolveWritesGate
  \/ ResolveWritesJournal \/ ResolveCommits \/ ResolveSkipsCommit \/ ResolveDies
  \/ MaintainReads \/ MaintainWrites \/ UserCommits

Spec == Init /\ [][Next]_vars

-----------------------------------------------------------------------------
(* collectConstraints: what a later prompt is given. *)

\* selected: the rules a query matches that have not decayed.
Eligible(selected) ==
  {id \in selected : HasRule(id) /\ rules[id].status = "active"}

Clash(i, j) == j \in rules[i].conflictsWith \/ i \in rules[j].conflictsWith

\* Both sides of a conflict are left out, when both are selected and eligible.
Injected(selected) ==
  LET eligible == Eligible(selected)
  IN {i \in eligible : \A j \in eligible \ {i} : ~Clash(i, j)}

-----------------------------------------------------------------------------
\* A rule that was found ineffective never reaches a prompt again, whoever
\* resolves its pitfall again, promotes or praises it, and two rules once
\* declared in conflict never reach one prompt together, whatever the query
\* selects and whatever other conflicts are declared.
InjectedSafely ==
  \A selected \in SUBSET Ids :
    LET injected == Injected(selected)
    IN injected \intersect retired = {} /\ \A pair \in declared : ~(pair \subseteq injected)

\* However often a resolve dies and is repeated, the journal tells of it once, the
\* rule says what the pitfall's resolution says, and once a resolve has reached its
\* commit the rule exists and so does the gate, unless the gate is a placeholder or
\* repeats another, or a config.yaml read before it was written over it.
ResolvedOnce ==
  /\ \A id \in Ids : signals[id] <= 1 /\ (HasRule(id) => rules[id].source = pitfalls[id])
  /\ \A id \in Ids : signals[id] = 1 =>
       /\ HasRule(id)
       /\ \/ Suggested[id] \in Weak \union Primary \union dropped
          \/ \E g \in gates : g.gate = Suggested[id] \/ g.by = id

PublishesWhole == ResolveCommits => head'.resolved \ head.resolved \subseteq head'.rules

\* A commit made by a resolve publishes no half lesson: a pitfall it puts at HEAD as
\* resolved has its rule at HEAD, although an earlier resolve may have died between
\* the two and pitfalls.json is one file for all of them.
CommitsWholeLessons == [][PublishesWhole]_vars
====
