---- MODULE TaskLoop_proof ----
(***************************************************************************)
(* The loop's four properties, for any boards, files, tracks and bounds:   *)
(* failures are bounded by the starts, the exchange of contents around the *)
(* sync commit loses no edit, Done means committed, and what is committed  *)
(* is what the gates saw. The invariant says what a track knows of its     *)
(* task, what a commit remembers of the tree and of HEAD, and how old the  *)
(* contents are that somebody may still put back.                          *)
(***************************************************************************)
EXTENDS TaskLoop, WellFoundedInduction, TLAPS

\* Tracks belong to a cycle and to tasks of the board, a commit to a track that is there.
Placed ==
  /\ loop.pc # "dead" => count.starts >= 1
  /\ loop.pc # "tracks" => \A t \in TaskIds : track[t].pc = "none"
  /\ commit # Free => track[commit.t].pc = "commit"
  /\ Syncing => base[commit.t] # Nothing
  /\ \A t \in TaskIds : track[t].pc # "none" => t \in DOMAIN board

-----------------------------------------------------------------------------
Limit == 2 + count.starts + seen.moves

\* A track may fail its task once more, unless it has: after that it only ends.
MayFail(t) == \/ track[t].pc \in {"first", "work", "review", "accept", "commit"}
              \/ track[t].pc \in {"again", "fix"} /\ board[t].state # "Failed"

WithinLimit(t) ==
  /\ board[t].fails <= Limit
  /\ board[t].state = "Done" => board[t].fails <= 2
  /\ loop.pc \in {"plan", "review"} \/ MayFail(t) => board[t].fails < Limit

Counted == \A t \in DOMAIN board : WithinLimit(t)

\* The latest content of a file is in the tree, or kept by the commit that put it back.
ContentHeld ==
  excused \intersect {"edited-in-sync", "died-in-sync"} = {} =>
    \A f \in Files : seen.latest[f] = IF PutBack(f) THEN commit.final[f] ELSE tree[f]

\* Contents get newer: none that is kept, or was accepted, is newer than the latest.
Aged ==
  /\ \A f \in Files : tree[f] <= seen.latest[f] /\ seen.latest[f] <= count.edits
  /\ \A t \in TaskIds : base[t] # Nothing => \A f \in Files : base[t].tree[f] <= seen.latest[f]
  /\ commit # Free => \A f \in Files : commit.final[f] <= seen.latest[f]
  /\ \A t \in TaskIds : seen.accepted[t] <= seen.latest[Own[t]]

\* A track knows the state of its task, when only the loop moves tasks.
StateOf == [work |-> "InProgress", review |-> "Review", accept |-> "Testing",
            fix |-> "Failed", commit |-> "Done"]
Knows(t) == track[t].pc \in DOMAIN StateOf => board[t].state = StateOf[track[t].pc]

Standing == "moved" \notin excused => \A t \in TaskIds : Knows(t)

\* What HEAD is once the commit under way has failed.
Fallback == IF commit # Free /\ commit.pc \in {"synced", "task"} /\ commit.synced /\ ~commit.moved
            THEN commit.undo ELSE head

Clean == excused \intersect {"died", "moved", "edited-in-sync", "committed-in-sync"} = {}

Settled(t) == board[t].state = "Done" /\ track[t].pc \in {"none", "end"}

Backed == Clean => \A t \in DOMAIN board : Settled(t) => Fallback[Own[t]] >= seen.accepted[t]

\* "died-in-sync" is a death.
Deaths == "died-in-sync" \in excused => "died" \in excused

\* While nothing is excused, the gates of a task have seen the latest content of its file.
Proven(t) ==
  Judged(t) => /\ seen.reviewed[t] = seen.latest[Own[t]]
               /\ board[t].state = "Done" => seen.accepted[t] = seen.latest[Own[t]]

Verified == excused = {} => \A t \in DOMAIN board : Proven(t)

LoopInv == /\ TypeOK /\ Placed /\ Deaths
           /\ Counted /\ ContentHeld /\ Aged /\ Standing /\ Backed /\ Verified

-----------------------------------------------------------------------------
(* The board's functions. *)

\* A set of numbers has a least one.
LEMMA Least ==
  ASSUME NEW S \in SUBSET Nat, S # {}
  PROVE  \E n \in S : \A m \in S : n <= m
<1> DEFINE less == {ss \in Nat \X Nat : ss[1] < ss[2]}
<1>1. IsWellFoundedOn(less, Nat)
  BY NatLessThanWellFounded DEF OpToRel
<1>2. \A x, y \in Nat : <<y, x>> \notin less => x <= y
  OBVIOUS
<1> HIDE DEF less
<1>3. \E x \in S : \A y \in S : <<y, x>> \notin less
  BY <1>1, WFMin
<1> QED  BY <1>2, <1>3

\* The first task of a set is one of the set.
LEMMA FirstIsIn ==
  ASSUME NEW b, BoardType(b), NEW S \in SUBSET DOMAIN b, S # {}
  PROVE  First(b, S) \in S
<1> DEFINE prios == {b[t].prio : t \in S}
<1>1. prios \in SUBSET Nat /\ prios # {}
  BY DEF BoardType, TaskType
<1>2. PICK p \in prios : \A q \in prios : p <= q
  BY <1>1, Least
<1> DEFINE urgent == {t \in S : b[t].prio = p}
<1>3. urgent \in SUBSET Nat /\ urgent # {}
  BY <1>2, SprintAssumption DEF BoardType
<1>4. PICK t \in urgent : \A u \in urgent : t <= u
  BY <1>3, Least
<1>5. \A u \in S \ {t} : Precedes(b, t, u)
  <2> SUFFICES ASSUME NEW u \in S \ {t}  PROVE Precedes(b, t, u)
    OBVIOUS
  <2>1. b[t].prio = p /\ b[u].prio \in prios /\ p \in Nat /\ b[u].prio \in Nat
    BY <1>1, <1>2, <1>4
  <2>2. p <= b[u].prio
    BY <2>1, <1>2
  <2>3. t \in Nat /\ u \in Nat
    BY <1>3, <1>4, SprintAssumption DEF BoardType
  <2>4. CASE b[u].prio = p
    BY <2>1, <2>3, <2>4, <1>4 DEF Precedes
  <2>5. CASE b[u].prio # p
    BY <2>1, <2>2, <2>5 DEF Precedes
  <2> QED  BY <2>4, <2>5
<1> HIDE DEF prios, urgent
<1>6. t \in S
  BY <1>4 DEF urgent
<1> QED  BY <1>5, <1>6 DEF First

\* A plan names tasks of the board that are not Done.
LEMMA PlanOnBoard ==
  ASSUME NEW b, BoardType(b), NEW run, Actionable(b, run) # {}, NEW m, NEW n
  PROVE  /\ PlanTasks(b, run, m, n) \subseteq DOMAIN b
         /\ \A t \in PlanTasks(b, run, m, n) : b[t].state # "Done"
<1> DEFINE open == {i \in 1..5 : Candidates(b, NextOrder[i], run) # {}}
<1>1. open \in SUBSET Nat /\ open # {}
  BY DEF Actionable
<1>2. PICK i \in open : \A j \in open : i <= j
  BY <1>1, Least
<1>3. /\ i \in 1..5 /\ Candidates(b, NextOrder[i], run) # {}
      /\ \A j \in 1..(i - 1) : Candidates(b, NextOrder[j], run) = {}
  BY <1>2
<1> DEFINE first == CHOOSE k \in 1..5 : /\ Candidates(b, NextOrder[k], run) # {}
                                        /\ \A j \in 1..(k - 1) : Candidates(b, NextOrder[j], run) = {}
<1>4. first \in 1..5 /\ Candidates(b, NextOrder[first], run) # {}
  BY <1>3
<1> HIDE DEF first
<1>5. Candidates(b, NextOrder[first], run) \in SUBSET DOMAIN b
  BY DEF Candidates
<1>6. First(b, Candidates(b, NextOrder[first], run)) \in Candidates(b, NextOrder[first], run)
  BY <1>4, <1>5, FirstIsIn
<1>7. NextOrder[first] # "Done"
  BY <1>4 DEF NextOrder
<1>8. NextTask(b, run) \in DOMAIN b /\ b[NextTask(b, run)].state # "Done"
  BY <1>6, <1>7 DEF NextTask, first, Candidates
<1> QED  BY <1>8 DEF PlanTasks, Leading, Parallelizable

\* A move changes the state of its task and, into Failed or Done, its failures.
LEMMA Moved ==
  ASSUME NEW b, BoardType(b), NEW t \in DOMAIN b, NEW s \in TaskStates
  PROVE  /\ BoardType(SetState(b, t, s)) /\ DOMAIN SetState(b, t, s) = DOMAIN b
         /\ \A u \in DOMAIN b : u # t => SetState(b, t, s)[u] = b[u]
         /\ SetState(b, t, s)[t].state = s
         /\ s = "Failed" => SetState(b, t, s)[t].fails = b[t].fails + 1
         /\ s = "Done" => SetState(b, t, s)[t].fails = 0
         /\ s \notin {"Failed", "Done"} => SetState(b, t, s)[t].fails = b[t].fails
<1> DEFINE fails == CASE s = "Failed" -> b[t].fails + 1
                      [] s = "Done"   -> 0
                      [] OTHER        -> b[t].fails
           rec == [b[t] EXCEPT !.state = s, !.fails = fails]
<1>1. b[t] \in TaskType /\ b[t].fails \in Nat
  BY DEF BoardType, TaskType
<1>2. fails \in Nat
  BY <1>1
<1> HIDE DEF fails
<1>3. rec \in TaskType /\ rec.state = s /\ rec.fails = fails
  BY <1>1, <1>2 DEF TaskType
<1>4. SetState(b, t, s) = [b EXCEPT ![t] = rec]
  BY DEF SetState, fails, rec
<1> HIDE DEF rec
<1> QED  BY <1>3, <1>4 DEF BoardType, fails

\* A task that is added is new and in the backlog, if it was not there already.
LEMMA AddedTask ==
  ASSUME NEW b, BoardType(b), NEW p \in 0..3, NewId(b) \in TaskIds
  PROVE  /\ BoardType(Added(b, p)) /\ DOMAIN b \subseteq DOMAIN Added(b, p)
         /\ \A u \in DOMAIN b : Added(b, p)[u] = b[u]
         /\ \A u \in DOMAIN Added(b, p) \ DOMAIN b :
              Added(b, p)[u].state = "Backlog" /\ Added(b, p)[u].fails = 0
<1>1. NewTask(p, {}) \in TaskType /\ NewTask(p, {}).state = "Backlog" /\ NewTask(p, {}).fails = 0
  BY DEF NewTask, TaskType, TaskStates
<1> HIDE DEF NewTask
<1>2. DOMAIN Added(b, p) = DOMAIN b \union {NewId(b)}
  BY DEF Added
<1>3. \A u \in DOMAIN Added(b, p) : Added(b, p)[u] = IF u \in DOMAIN b THEN b[u] ELSE NewTask(p, {})
  BY DEF Added
<1> QED  BY <1>1, <1>2, <1>3 DEF BoardType

-----------------------------------------------------------------------------
(* Types. *)

LEMMA Numbers == MaxEdits \in Nat /\ MaxFaults \in Nat /\ MaxCycles \in Nat /\ 0 \in Versions
BY LoopAssumption DEF Versions

\* Putting contents over one another leaves contents.
LEMMA OntoContent ==
  ASSUME NEW c \in Content, NEW S, NEW d \in Content
  PROVE  /\ Onto(c, S, d) \in Content
         /\ \A f \in Files : Onto(c, S, d)[f] = IF f \in S THEN d[f] ELSE c[f]
BY DEF Onto, Content

LEMMA PlainTracks == \A pc \in TrackPc : At(pc) \in TrackType /\ At(pc).pc = pc
BY DEF At, TrackType

\* What an update does to the board and to its track.
LEMMA Updated ==
  ASSUME TypeOK, NEW t \in DOMAIN board, NEW from, NEW to \in TaskStates, NEW rec \in TrackType,
         Update(t, from, to, rec)
  PROVE  /\ BoardType(board') /\ DOMAIN board' = DOMAIN board
         /\ track' \in [TaskIds -> TrackType]
         /\ \A u \in DOMAIN board : u # t => board'[u] = board[u]
         /\ \A u \in TaskIds : u # t => track'[u] = track[u]
         /\ \/ /\ board[t].state = from /\ board'[t].state = to /\ track'[t] = rec
               /\ to = "Failed" => board'[t].fails = board[t].fails + 1
               /\ to = "Done" => board'[t].fails = 0
               /\ to \notin {"Failed", "Done"} => board'[t].fails = board[t].fails
            \/ board[t].state # from /\ board' = board /\ track'[t] = At("end")
<1>0. BoardType(board) /\ track \in [TaskIds -> TrackType] /\ t \in TaskIds
  BY DEF TypeOK, BoardType
<1>1. CASE board[t].state = from
  <2>1. board' = SetState(board, t, to) /\ track' = [track EXCEPT ![t] = rec]
    BY <1>1 DEF Update, Go
  <2> QED  BY <2>1, <1>0, <1>1, Moved
<1>2. CASE board[t].state # from
  <2>1. board' = board /\ track' = [track EXCEPT ![t] = At("end")] /\ At("end") \in TrackType
    BY <1>2, PlainTracks DEF Update, Go, TrackPc
  <2> QED  BY <2>1, <1>0, <1>2
<1> QED  BY <1>1, <1>2

\* What an edit does.
LEMMA Edited ==
  ASSUME TypeOK, NEW f \in Files, count.edits < MaxEdits,
         tree' = [tree EXCEPT ![f] = count.edits + 1],
         seen' = Written(f, count.edits + 1)
  PROVE  /\ count.edits + 1 \in Versions
         /\ tree' \in Content /\ tree'[f] = count.edits + 1
         /\ \A g \in Files : g # f => tree'[g] = tree[g]
         /\ seen'.latest \in Content /\ seen'.latest[f] = count.edits + 1
         /\ \A g \in Files : g # f => seen'.latest[g] = seen.latest[g]
         /\ seen'.reviewed = seen.reviewed /\ seen'.accepted = seen.accepted
         /\ seen'.moves = seen.moves
         /\ seen' \in [latest: Content, reviewed: [TaskIds -> Versions],
                       accepted: [TaskIds -> Versions], moves: Nat]
<1>1. count.edits \in Versions /\ tree \in Content
      /\ seen \in [latest: Content, reviewed: [TaskIds -> Versions],
                   accepted: [TaskIds -> Versions], moves: Nat]
  BY DEF TypeOK
<1>2. count.edits + 1 \in Versions
  BY <1>1, Numbers DEF Versions
<1> DEFINE newer == [seen.latest EXCEPT ![f] = count.edits + 1]
<1>3. seen' = [seen EXCEPT !.latest = newer]
  BY DEF Written
<1>4. newer \in Content /\ newer[f] = count.edits + 1
      /\ \A g \in Files : g # f => newer[g] = seen.latest[g]
  BY <1>1, <1>2 DEF Content
<1> HIDE DEF newer
<1>5. seen'.latest = newer /\ seen'.reviewed = seen.reviewed /\ seen'.accepted = seen.accepted
      /\ seen'.moves = seen.moves
      /\ seen' \in [latest: Content, reviewed: [TaskIds -> Versions],
                    accepted: [TaskIds -> Versions], moves: Nat]
  BY <1>1, <1>3, <1>4
<1>6. tree' \in Content /\ tree'[f] = count.edits + 1
      /\ \A g \in Files : g # f => tree'[g] = tree[g]
  BY <1>1, <1>2 DEF Content
<1> QED  BY <1>2, <1>4, <1>5, <1>6

\* What a fault does.
LEMMA Faulted ==
  ASSUME TypeOK, Fault
  PROVE  /\ count' \in [edits: Versions, starts: Nat, faults: 0..MaxFaults]
         /\ count'.edits = count.edits /\ count'.starts = count.starts
<1>1. count.faults \in 0..MaxFaults /\ count.faults < MaxFaults
  BY DEF TypeOK, Fault
<1>2. count.faults + 1 \in 0..MaxFaults
  BY <1>1, Numbers
<1> QED  BY <1>2 DEF TypeOK, Fault

LEMMA CycleTypes ==
  ASSUME TypeOK, Placed, Cycle
  PROVE  TypeOK'
<1> USE Numbers
<1>1. CASE Start \/ NothingToDo \/ CyclesUsedUp \/ ReviewClears
  <2>1. count' \in [edits: Versions, starts: Nat, faults: 0..MaxFaults]
    <3>1. CASE Start
      <4>1. count.faults \in 0..MaxFaults /\ (loop.pc = "over" => count.faults < MaxFaults)
        BY <3>1 DEF Start, TypeOK
      <4>2. loop.pc = "over" => count.faults + 1 \in 0..MaxFaults
        BY <4>1
      <4> DEFINE n == IF loop.pc = "over" THEN count.faults + 1 ELSE count.faults
      <4>3. n \in 0..MaxFaults /\ count' = [count EXCEPT !.starts = @ + 1, !.faults = n]
        BY <3>1, <4>1, <4>2 DEF Start
      <4> HIDE DEF n
      <4>4. count \in [edits: Versions, starts: Nat, faults: 0..MaxFaults]
        BY DEF TypeOK
      <4>5. count.edits \in Versions /\ count.starts + 1 \in Nat
        BY <4>4
      <4>6. count' = [edits |-> count.edits, starts |-> count.starts + 1, faults |-> n]
        BY <4>3, <4>4
      <4> QED  BY <4>3, <4>5, <4>6
    <3>2. CASE ~Start
      BY <1>1, <3>2 DEF NothingToDo, CyclesUsedUp, ReviewClears, TypeOK
    <3> QED  BY <3>1, <3>2
  <2>2. loop' \in [pc: {"dead", "plan", "tracks", "review", "over"}, cycle: 0..MaxCycles, last: BOOLEAN]
    <3>1. CASE Start
      BY <3>1 DEF Start
    <3>2. CASE NothingToDo
      BY <3>2 DEF NothingToDo, TypeOK
    <3>3. CASE CyclesUsedUp \/ ReviewClears
      BY <3>3 DEF CyclesUsedUp, ReviewClears, TypeOK
    <3> QED  BY <1>1, <3>1, <3>2, <3>3
  <2> QED  BY <1>1, <2>1, <2>2 DEF Start, NothingToDo, CyclesUsedUp, ReviewClears, TypeOK, BoardType
<1>2. CASE Plan \/ CycleEnds
  <2>1. track' \in [TaskIds -> TrackType]
    BY <1>2, PlainTracks DEF Plan, CycleEnds, Idle, TrackPc
  <2>2. loop' \in [pc: {"dead", "plan", "tracks", "review", "over"}, cycle: 0..MaxCycles, last: BOOLEAN]
    <3>1. CASE Plan
      <4>1. loop.cycle + 1 \in 0..MaxCycles
        BY <3>1 DEF Plan, TypeOK
      <4> QED  BY <3>1, <4>1 DEF Plan, TypeOK
    <3>2. CASE CycleEnds
      <4>1. PICK budgetStop \in BOOLEAN :
              loop' = [loop EXCEPT !.pc = CASE FailLimit(board) \/ budgetStop -> "over"
                                            [] ~FailLimit(board) /\ ~budgetStop /\ Pending(board) = {} -> "review"
                                            [] OTHER -> "plan"]
        BY <3>2 DEF CycleEnds
      <4> DEFINE pc == CASE FailLimit(board) \/ budgetStop -> "over"
                         [] ~FailLimit(board) /\ ~budgetStop /\ Pending(board) = {} -> "review"
                         [] OTHER -> "plan"
      <4>2. pc \in {"over", "review", "plan"}
        OBVIOUS
      <4> HIDE DEF pc
      <4>3. loop' = [loop EXCEPT !.pc = pc]
        BY <4>1 DEF pc
      <4> QED  BY <4>2, <4>3 DEF TypeOK
    <3> QED  BY <1>2, <3>1, <3>2
  <2> QED  BY <1>2, <2>1, <2>2 DEF Plan, CycleEnds, TypeOK, BoardType
<1>3. CASE ReviewBlocks
  <2>1. BoardType(board')
    BY <1>3, AddedTask DEF ReviewBlocks, CanAdd, TypeOK
  <2>2. loop' \in [pc: {"dead", "plan", "tracks", "review", "over"}, cycle: 0..MaxCycles, last: BOOLEAN]
    BY <1>3 DEF ReviewBlocks, TypeOK
  <2> QED  BY <1>3, <2>1, <2>2 DEF ReviewBlocks, TypeOK, BoardType
<1> QED  BY <1>1, <1>2, <1>3 DEF Cycle

\* A sync that ends, well or not, leaves a commit under way.
LEMMA SyncEnds ==
  ASSUME TypeOK, NEW t, SyncCommit(t) \/ SyncFails(t)
  PROVE  commit' \in Commits /\ commit' # Free
<1>0. commit \in Commits /\ head \in Content
  BY DEF SyncCommit, SyncFails, CommitStep, TypeOK
<1> DEFINE synced == Changed \intersect BaselineFiles(t) # {}
<1>1. \/ commit' = [commit EXCEPT !.pc = "synced", !.synced = synced, !.undo = head, !.moved = FALSE]
      \/ commit' = [commit EXCEPT !.pc = "undone"]
  BY DEF SyncCommit, SyncFails
<1>2. synced \in BOOLEAN
  OBVIOUS
<1> HIDE DEF synced
<1>3. commit' \in Commits
  BY <1>0, <1>1, <1>2 DEF Commits
<1> QED  BY <1>3, NothingAssumption DEF Free

LEMMA TrackTypes ==
  ASSUME TypeOK, Placed, NEW t \in TaskIds, Track(t)
  PROVE  TypeOK'
<1> USE Numbers
<1>0. track[t].pc # "none" => t \in DOMAIN board
  BY DEF Placed
<1>1. CASE Select(t)
  <2>0. t \in DOMAIN board /\ BoardType(board) /\ base \in [TaskIds -> Baselines \union {Nothing}]
    BY <1>0, <1>1 DEF Select, TypeOK
  <2>1. track' \in [TaskIds -> TrackType]
    BY <1>1, PlainTracks DEF Select, Dispatch, Go, TypeOK, TrackPc
  <2>2. BoardType(board')
    <3>1. board' = board \/ board' = SetState(board, t, "InProgress")
      BY <1>1 DEF Select, Dispatch
    <3>2. "InProgress" \in TaskStates
      BY DEF TaskStates
    <3> QED  BY <2>0, <3>1, <3>2, Moved
  <2>3. base' \in [TaskIds -> Baselines \union {Nothing}]
    <3> DEFINE new == [dirty |-> Changed, tree |-> tree, head |-> head]
    <3>1. new \in Baselines
      BY DEF TypeOK, Baselines, Changed
    <3>2. base' = base \/ base' = [base EXCEPT ![t] = new]
      BY <1>1 DEF Select, Dispatch
    <3> HIDE DEF new
    <3> QED  BY <2>0, <3>1, <3>2
  <2> QED  BY <1>1, <2>1, <2>2, <2>3 DEF Select, TypeOK
<1>2. CASE WorkerReports(t)
  <2>1. t \in DOMAIN board
    BY <1>0, <1>2 DEF WorkerReports
  <2>2. \E to \in TaskStates : Update(t, "InProgress", to, At("again"))
    BY <1>2 DEF WorkerReports, TaskStates
  <2>3. BoardType(board') /\ track' \in [TaskIds -> TrackType]
    BY <2>1, <2>2, Updated, PlainTracks DEF TrackPc
  <2> QED  BY <1>2, <2>3 DEF WorkerReports, TypeOK
<1>3. CASE ReviewGates(t) \/ AcceptanceGates(t)
  <2>1. t \in DOMAIN board
    BY <1>0, <1>3 DEF ReviewGates, AcceptanceGates
  <2>2. [At("fix") EXCEPT !.fixes = 1] \in TrackType
    BY PlainTracks DEF TrackType, TrackPc
  <2>3. \E from \in TaskStates, to \in TaskStates, rec \in TrackType : Update(t, from, to, rec)
    BY <1>3, <2>2, PlainTracks DEF ReviewGates, AcceptanceGates, TaskStates, TrackPc
  <2>4. BoardType(board') /\ track' \in [TaskIds -> TrackType]
    BY <2>1, <2>3, Updated
  <2>5. tree[Own[t]] \in Versions
    BY LoopAssumption DEF TypeOK, Content
  <2>6. seen' \in [latest: Content, reviewed: [TaskIds -> Versions],
                   accepted: [TaskIds -> Versions], moves: Nat]
    BY <1>3, <2>5 DEF ReviewGates, AcceptanceGates, TypeOK
  <2> QED  BY <1>3, <2>4, <2>6 DEF ReviewGates, AcceptanceGates, TypeOK
<1>4. CASE AddFix(t) \/ DependOnFixes(t)
  <2>0. t \in DOMAIN board /\ BoardType(board) /\ track \in [TaskIds -> TrackType]
    BY <1>0, <1>4 DEF AddFix, DependOnFixes, TypeOK
  <2>1. BoardType(board')
    <3>1. CASE AddFix(t)
      <4>1. board' = board \/ (CanAdd /\ \E p \in FixPrios : board' = Added(board, p))
        BY <3>1 DEF AddFix
      <4> QED  BY <4>1, <2>0, AddedTask, LoopAssumption DEF CanAdd
    <3>2. CASE DependOnFixes(t)
      <4>1. board' = [board EXCEPT ![t].deps = track[t].made]
        BY <3>2 DEF DependOnFixes
      <4>2. track[t].made \subseteq TaskIds
        BY <2>0 DEF TrackType
      <4> QED  BY <2>0, <4>1, <4>2 DEF BoardType, TaskType
    <3> QED  BY <1>4, <3>1, <3>2
  <2>2. track' \in [TaskIds -> TrackType]
    <3>1. CASE CanAdd /\ AddFix(t)
      <4>1. NewId(board) \in TaskIds /\ track[t] \in TrackType /\ track[t].fixes > 0
        BY <3>1, <2>0 DEF AddFix, CanAdd
      <4> DEFINE rec == [track[t] EXCEPT !.fixes = @ - 1, !.made = @ \union {NewId(board)}]
      <4>2. rec \in TrackType
        <5>1. track[t].fixes - 1 \in Nat /\ track[t].made \union {NewId(board)} \subseteq TaskIds
          BY <4>1 DEF TrackType
        <5> QED  BY <4>1, <5>1 DEF TrackType
      <4>3. track' = [track EXCEPT ![t] = rec]
        BY <3>1 DEF AddFix, Go
      <4> HIDE DEF rec
      <4> QED  BY <2>0, <4>2, <4>3
    <3>2. CASE ~(CanAdd /\ AddFix(t))
      <4>1. track' = [track EXCEPT ![t] = At("again")]
        BY <1>4, <3>2 DEF AddFix, DependOnFixes, Go
      <4> QED  BY <2>0, <4>1, PlainTracks DEF TrackPc
    <3> QED  BY <3>1, <3>2
  <2> QED  BY <1>4, <2>1, <2>2 DEF AddFix, DependOnFixes, TypeOK
<1>5. CASE NothingChanged(t)
  <2>1. track' \in [TaskIds -> TrackType]
    BY <1>5, PlainTracks DEF NothingChanged, Go, TypeOK, TrackPc
  <2> QED  BY <1>5, <2>1 DEF NothingChanged, TypeOK
<1>6. CASE BeginCommit(t)
  <2>1. commit' \in Commits
    BY <1>6 DEF BeginCommit, Commits, TypeOK
  <2>2. tree' \in Content
    <3>1. CASE BaselineFiles(t) = {}
      BY <1>6, <3>1 DEF BeginCommit, TypeOK
    <3>2. CASE BaselineFiles(t) # {}
      <4>1. base[t] \in Baselines
        BY <3>2 DEF BaselineFiles, TypeOK
      <4>2. tree \in Content /\ base[t].tree \in Content
        BY <4>1 DEF TypeOK, Baselines
      <4> QED  BY <1>6, <3>2, <4>2, OntoContent DEF BeginCommit
    <3> QED  BY <3>1, <3>2
  <2> QED  BY <1>6, <2>1, <2>2 DEF BeginCommit, TypeOK
<1>7. CASE SyncCommit(t)
  <2>0. commit \in Commits /\ head \in Content /\ tree \in Content
    BY <1>7 DEF SyncCommit, CommitStep, TypeOK
  <2>1. commit' \in Commits
    BY <1>7, SyncEnds
  <2>2. head' \in Content
    BY <1>7, <2>0, OntoContent DEF SyncCommit, Committed
  <2> QED  BY <1>7, <2>1, <2>2 DEF SyncCommit, TypeOK
<1>8. CASE Restore(t)
  <2>0. commit \in Commits /\ tree \in Content /\ commit.t = t /\ commit.final \in Content
        /\ track \in [TaskIds -> TrackType] /\ BoardType(board)
    BY <1>8 DEF Restore, CommitStep, TypeOK, Commits
  <2>1. tree' \in Content
    BY <1>8, <2>0, OntoContent DEF Restore
  <2>2. t \in DOMAIN board
    BY <1>0, <1>8, <2>0 DEF Placed, Restore, CommitStep
  <2>3. BoardType(board') /\ track' \in [TaskIds -> TrackType] /\ commit' \in Commits \union {Free}
    <3>1. CASE commit.pc = "synced"
      BY <1>8, <3>1, <2>0 DEF Restore, Commits
    <3>2. CASE commit.pc # "synced"
      <4>1. Update(t, "Done", "Failed", At("end")) /\ commit' = Free
        BY <1>8, <3>2 DEF Restore
      <4>2. "Failed" \in TaskStates /\ At("end") \in TrackType
        BY PlainTracks DEF TaskStates, TrackPc
      <4> QED  BY <4>1, <4>2, <2>2, Updated
    <3> QED  BY <3>1, <3>2
  <2> QED  BY <1>8, <2>1, <2>3 DEF Restore, TypeOK
<1>9. CASE CommitTask(t)
  <2>1. track' \in [TaskIds -> TrackType]
    BY <1>9, PlainTracks DEF CommitTask, Go, TypeOK, TrackPc
  <2>2. head' \in Content
    BY <1>9, OntoContent DEF CommitTask, Committed, TypeOK
  <2> QED  BY <1>9, <2>1, <2>2 DEF CommitTask, TypeOK
<1> QED  BY <1>1, <1>2, <1>3, <1>4, <1>5, <1>6, <1>7, <1>8, <1>9 DEF Track

LEMMA EnvironmentTypes ==
  ASSUME TypeOK, Placed, Environment
  PROVE  TypeOK'
<1> USE Numbers
<1>1. CASE Die
  <2>1. track' \in [TaskIds -> TrackType]
    BY <1>1, PlainTracks DEF Die, Idle, TrackPc
  <2>2. base' \in [TaskIds -> Baselines \union {Nothing}] /\ orphans' \subseteq TaskIds
    BY <1>1 DEF Die, TypeOK
  <2>3. count' \in [edits: Versions, starts: Nat, faults: 0..MaxFaults]
    BY <1>1, Faulted DEF Die
  <2>4. loop' \in [pc: {"dead", "plan", "tracks", "review", "over"}, cycle: 0..MaxCycles, last: BOOLEAN]
    BY <1>1 DEF Die, TypeOK
  <2> QED  BY <1>1, <2>1, <2>2, <2>3, <2>4 DEF Die, TypeOK
<1>2. CASE UserCommits
  <2>1. head' \in Content
    BY <1>2, OntoContent DEF UserCommits, Committed, TypeOK
  <2>2. commit' \in Commits \union {Free}
    BY <1>2 DEF UserCommits, TypeOK, Commits
  <2>3. count' \in [edits: Versions, starts: Nat, faults: 0..MaxFaults]
    BY <1>2, Faulted DEF UserCommits
  <2> QED  BY <1>2, <2>1, <2>2, <2>3 DEF UserCommits, TypeOK
<1>3. ASSUME NEW t \in TaskIds, Work(t)
      PROVE  TypeOK'
  <2>1. Own[t] \in Files
    BY LoopAssumption
  <2>2. EditFile(Own[t])
    BY <1>3 DEF Work
  <2>3. tree' \in Content /\ count.edits + 1 \in Versions
        /\ seen' \in [latest: Content, reviewed: [TaskIds -> Versions],
                      accepted: [TaskIds -> Versions], moves: Nat]
    BY <2>1, <2>2, Edited DEF EditFile
  <2>4. count' \in [edits: Versions, starts: Nat, faults: 0..MaxFaults]
    BY <2>2, <2>3 DEF EditFile, TypeOK
  <2> QED  BY <1>3, <2>3, <2>4 DEF Work, TypeOK
<1>4. ASSUME NEW f \in Files, UserEdits(f)
      PROVE  TypeOK'
  <2>1. tree' \in Content /\ count.edits + 1 \in Versions
        /\ seen' \in [latest: Content, reviewed: [TaskIds -> Versions],
                      accepted: [TaskIds -> Versions], moves: Nat]
    BY <1>4, Edited DEF UserEdits
  <2>2. count' \in [edits: Versions, starts: Nat, faults: 0..MaxFaults]
    <3>1. count.faults \in 0..MaxFaults /\ count.faults < MaxFaults
      BY <1>4 DEF UserEdits, TypeOK
    <3>2. count.faults + 1 \in 0..MaxFaults
      BY <3>1
    <3> QED  BY <1>4, <2>1, <3>2 DEF UserEdits, TypeOK
  <2> QED  BY <1>4, <2>1, <2>2 DEF UserEdits, TypeOK
<1>5. ASSUME NEW t \in TaskIds, OrphanEnds(t)
      PROVE  TypeOK'
  BY <1>5 DEF OrphanEnds, TypeOK, BoardType
<1>6. ASSUME NEW t \in TaskIds, UserMoves(t)
      PROVE  TypeOK'
  <2>1. BoardType(board')
    BY <1>6, Moved, LoopAssumption DEF UserMoves, TypeOK
  <2>2. seen' \in [latest: Content, reviewed: [TaskIds -> Versions],
                   accepted: [TaskIds -> Versions], moves: Nat]
    BY <1>6 DEF UserMoves, TypeOK
  <2>3. count' \in [edits: Versions, starts: Nat, faults: 0..MaxFaults]
    BY <1>6, Faulted DEF UserMoves
  <2> QED  BY <1>6, <2>1, <2>2, <2>3 DEF UserMoves, TypeOK
<1>7. ASSUME NEW t \in TaskIds, SyncFails(t)
      PROVE  TypeOK'
  <2>1. commit' \in Commits
    BY <1>7, SyncEnds
  <2>2. count' \in [edits: Versions, starts: Nat, faults: 0..MaxFaults]
    BY <1>7, Faulted DEF SyncFails
  <2> QED  BY <1>7, <2>1, <2>2 DEF SyncFails, TypeOK
<1>8. ASSUME NEW t \in TaskIds, CommitFails(t)
      PROVE  TypeOK'
  <2>0. commit \in Commits /\ commit.t = t /\ commit.undo \in Content /\ head \in Content
    BY <1>8 DEF CommitFails, CommitStep, TypeOK, Commits
  <2>1. t \in DOMAIN board
    BY <1>8, <2>0 DEF Placed, CommitFails, CommitStep
  <2>2. "Failed" \in TaskStates /\ At("end") \in TrackType
    BY PlainTracks DEF TaskStates, TrackPc
  <2>3. BoardType(board') /\ track' \in [TaskIds -> TrackType]
    BY <1>8, <2>1, <2>2, Updated DEF CommitFails
  <2>4. head' \in Content
    BY <1>8, <2>0 DEF CommitFails
  <2>5. count' \in [edits: Versions, starts: Nat, faults: 0..MaxFaults]
    BY <1>8, Faulted DEF CommitFails
  <2> QED  BY <1>8, <2>3, <2>4, <2>5 DEF CommitFails, TypeOK
<1> QED  BY <1>1, <1>2, <1>3, <1>4, <1>5, <1>6, <1>7, <1>8 DEF Environment

LEMMA TypesKept ==
  ASSUME TypeOK, Placed, [Next]_vars
  PROVE  TypeOK'
<1>1. CASE UNCHANGED vars
  BY <1>1 DEF vars, TypeOK, BoardType
<1> QED  BY <1>1, CycleTypes, TrackTypes, EnvironmentTypes DEF Next

-----------------------------------------------------------------------------
(* What actions do to the board and the tracks, and where the loop stands. *)

\* A track that moves is one of a cycle, for a task of the board.
LEMMA TrackRuns ==
  ASSUME TypeOK, Placed, NEW t \in TaskIds, Track(t) \/ SyncFails(t) \/ CommitFails(t)
  PROVE  /\ loop.pc = "tracks" /\ track[t].pc # "none" /\ t \in DOMAIN board
         /\ SyncCommit(t) \/ SyncFails(t) \/ Restore(t) \/ CommitTask(t) \/ CommitFails(t) =>
              commit \in Commits /\ commit # Free /\ commit.t = t /\ track[t].pc = "commit"
<1>1. SyncCommit(t) \/ SyncFails(t) \/ Restore(t) \/ CommitTask(t) \/ CommitFails(t) =>
        commit \in Commits /\ commit # Free /\ commit.t = t /\ track[t].pc = "commit"
  BY DEF SyncCommit, SyncFails, Restore, CommitTask, CommitFails, CommitStep, Placed, TypeOK
<1>2. track[t].pc # "none"
  <2>1. CASE Select(t) \/ WorkerReports(t) \/ ReviewGates(t) \/ AcceptanceGates(t)
             \/ AddFix(t) \/ DependOnFixes(t) \/ NothingChanged(t) \/ BeginCommit(t)
    BY <2>1 DEF Select, WorkerReports, ReviewGates, AcceptanceGates, AddFix, DependOnFixes,
                NothingChanged, BeginCommit
  <2>2. CASE SyncCommit(t) \/ SyncFails(t) \/ Restore(t) \/ CommitTask(t) \/ CommitFails(t)
    BY <1>1, <2>2
  <2> QED  BY <2>1, <2>2 DEF Track
<1> QED  BY <1>1, <1>2 DEF Placed

\* What the state of its task makes a track do.
LEMMA Selected ==
  ASSUME TypeOK, Placed, NEW t \in TaskIds, Select(t)
  PROVE  /\ DOMAIN board' = DOMAIN board /\ board'[t].fails = board[t].fails
         /\ \A u \in DOMAIN board : u # t => board'[u] = board[u]
         /\ \A u \in TaskIds : u # t => track'[u] = track[u] /\ base'[u] = base[u]
         /\ \/ base' = base
            \/ base[t] = Nothing /\ base'[t] = [dirty |-> Changed, tree |-> tree, head |-> head]
         /\ \/ /\ track'[t].pc = "work" /\ board'[t].state = "InProgress"
               /\ board[t].state = "Failed" => track[t].pc = "first"
            \/ /\ board' = board /\ track'[t].pc \in {"review", "accept", "commit"}
               /\ board[t].state = StateOf[track'[t].pc]
            \/ board' = board /\ track'[t].pc = "end" /\ board[t].state = "Failed"
<1>0. /\ t \in DOMAIN board /\ BoardType(board) /\ track \in [TaskIds -> TrackType]
      /\ base \in [TaskIds -> Baselines \union {Nothing}]
  BY TrackRuns DEF Track, TypeOK
<1>1. CASE Dispatch(t)
  <2>1. track'[t].pc = "work" /\ \A u \in TaskIds : u # t => track'[u] = track[u]
    BY <1>0, <1>1, PlainTracks DEF Dispatch, Go, TrackPc
  <2>2. /\ \A u \in TaskIds : u # t => base'[u] = base[u]
        /\ \/ base' = base
           \/ base[t] = Nothing /\ base'[t] = [dirty |-> Changed, tree |-> tree, head |-> head]
    BY <1>0, <1>1 DEF Dispatch
  <2>3. /\ DOMAIN board' = DOMAIN board /\ board'[t].fails = board[t].fails
        /\ \A u \in DOMAIN board : u # t => board'[u] = board[u]
        /\ board'[t].state = "InProgress"
    <3>1. CASE board[t].state = "InProgress"
      BY <1>1, <3>1 DEF Dispatch
    <3>2. CASE board[t].state # "InProgress"
      <4>1. "InProgress" \in TaskStates /\ board' = SetState(board, t, "InProgress")
        BY <1>1, <3>2 DEF Dispatch, TaskStates
      <4> QED  BY <1>0, <4>1, Moved
    <3> QED  BY <3>1, <3>2
  <2>4. board[t].state = "Failed" => track[t].pc = "first"
    BY <1>1 DEF Dispatch
  <2> QED  BY <2>1, <2>2, <2>3, <2>4
<1>2. CASE ~Dispatch(t)
  <2>1. board' = board /\ base' = base
    BY <1>2 DEF Select
  <2>2. \E pc \in {"review", "accept", "commit", "end"} :
          /\ track' = [track EXCEPT ![t] = At(pc)]
          /\ pc # "end" => board[t].state = StateOf[pc]
          /\ pc = "end" => board[t].state = "Failed"
    BY <1>2 DEF Select, Go, StateOf
  <2>3. \E pc \in {"review", "accept", "commit", "end"} :
          /\ track'[t].pc = pc /\ \A u \in TaskIds : u # t => track'[u] = track[u]
          /\ pc # "end" => board[t].state = StateOf[pc]
          /\ pc = "end" => board[t].state = "Failed"
    BY <1>0, <2>2, PlainTracks DEF TrackPc
  <2> QED  BY <2>1, <2>3
<1> QED  BY <1>1, <1>2

\* What the board and the other tracks look like after a step of a track or a failing commit.
LEMMA TrackSteps ==
  ASSUME TypeOK, Placed, NEW t \in TaskIds, Track(t) \/ SyncFails(t) \/ CommitFails(t)
  PROVE  /\ DOMAIN board \subseteq DOMAIN board'
         /\ \A u \in DOMAIN board : u # t => board'[u] = board[u]
         /\ \A u \in DOMAIN board' \ DOMAIN board : board'[u].state = "Backlog" /\ board'[u].fails = 0
         /\ \A u \in TaskIds : u # t => track'[u] = track[u]
         /\ UNCHANGED <<loop, count.starts, seen.moves>>
<1>0. /\ t \in DOMAIN board /\ BoardType(board) /\ track \in [TaskIds -> TrackType]
  BY TrackRuns DEF TypeOK
<1>1. CASE Select(t)
  BY <1>1, Selected DEF Select
<1>2. CASE WorkerReports(t)
  <2>1. \E to \in TaskStates : Update(t, "InProgress", to, At("again"))
    BY <1>2 DEF WorkerReports, TaskStates
  <2>2. At("again") \in TrackType
    BY PlainTracks DEF TrackPc
  <2> QED  BY <1>0, <1>2, <2>1, <2>2, Updated DEF WorkerReports
<1>3. CASE ReviewGates(t) \/ AcceptanceGates(t)
  <2>1. [At("fix") EXCEPT !.fixes = 1] \in TrackType
    BY PlainTracks DEF TrackType, TrackPc
  <2>2. \E from \in TaskStates, to \in TaskStates, rec \in TrackType : Update(t, from, to, rec)
    BY <1>3, <2>1, PlainTracks DEF ReviewGates, AcceptanceGates, TaskStates, TrackPc
  <2>3. UNCHANGED <<loop, count>> /\ seen'.moves = seen.moves
    BY <1>3 DEF ReviewGates, AcceptanceGates, TypeOK
  <2> QED  BY <1>0, <2>2, <2>3, Updated
<1>4. CASE AddFix(t)
  <2>1. board' = board \/ (NewId(board) \in TaskIds /\ \E p \in 0..3 : board' = Added(board, p))
    BY <1>4, LoopAssumption DEF AddFix, CanAdd
  <2>2. \A u \in TaskIds : u # t => track'[u] = track[u]
    BY <1>0, <1>4 DEF AddFix, Go
  <2> QED  BY <1>0, <1>4, <2>1, <2>2, AddedTask DEF AddFix
<1>5. CASE DependOnFixes(t)
  BY <1>0, <1>5 DEF DependOnFixes, Go
<1>6. CASE NothingChanged(t) \/ BeginCommit(t) \/ SyncCommit(t) \/ CommitTask(t)
  BY <1>0, <1>6 DEF NothingChanged, BeginCommit, SyncCommit, CommitTask, Go
<1>7. CASE Restore(t) \/ CommitFails(t)
  <2>1. UNCHANGED <<board, track>> \/ Update(t, "Done", "Failed", At("end"))
    BY <1>7 DEF Restore, CommitFails
  <2>2. "Failed" \in TaskStates /\ At("end") \in TrackType
    BY PlainTracks DEF TaskStates, TrackPc
  <2>3. UNCHANGED <<loop, seen>> /\ count'.starts = count.starts
    BY <1>7, Faulted DEF Restore, CommitFails
  <2> QED  BY <1>0, <2>1, <2>2, <2>3, Updated
<1>8. CASE SyncFails(t)
  BY <1>8, Faulted DEF SyncFails
<1> QED  BY <1>1, <1>2, <1>3, <1>4, <1>5, <1>6, <1>7, <1>8 DEF Track

LEMMA PlacedKept ==
  ASSUME TypeOK, Placed, [Next]_vars
  PROVE  Placed'
<1>0. /\ track \in [TaskIds -> TrackType] /\ base \in [TaskIds -> Baselines \union {Nothing}]
      /\ commit \in Commits \union {Free}
      /\ commit # Free => commit.t \in TaskIds
      /\ count.starts \in Nat
  BY DEF TypeOK, Commits
<1>1. CASE UNCHANGED vars
  BY <1>1 DEF vars, Placed, Syncing
<1>2. CASE Start \/ NothingToDo \/ CyclesUsedUp \/ ReviewClears
  <2>1. loop'.pc # "dead" => count'.starts >= 1
    <3>1. CASE Start
      BY <1>0, <3>1 DEF Start, TypeOK
    <3>2. CASE ~Start
      BY <1>2, <3>2 DEF NothingToDo, CyclesUsedUp, ReviewClears, Placed
    <3> QED  BY <3>1, <3>2
  <2>2. UNCHANGED <<track, base, commit, board>> /\ loop.pc # "tracks"
    BY <1>2 DEF Start, NothingToDo, CyclesUsedUp, ReviewClears
  <2> QED  BY <1>0, <2>1, <2>2 DEF Placed, Syncing
<1>3. CASE Plan
  <2>0. commit = Free /\ loop.pc = "plan"
    BY <1>0, <1>3 DEF Plan, Placed
  <2>1. PICK planned : /\ planned \subseteq DOMAIN board
                       /\ track' = [t \in TaskIds |-> IF t \in planned THEN At("first") ELSE Idle]
    <3> DEFINE planned == IF HasCycle(board) THEN {} ELSE PlanTasks(board, NoRun, MaxParallel, 0)
    <3>1. planned \subseteq DOMAIN board
      BY <1>3, PlanOnBoard DEF Plan, TypeOK
    <3>2. track' = [t \in TaskIds |-> IF t \in planned THEN At("first") ELSE Idle]
      BY <1>3 DEF Plan
    <3> QED  BY <3>1, <3>2
  <2>2. \A t \in TaskIds : track'[t].pc # "none" => t \in DOMAIN board
    BY <2>1, PlainTracks DEF Idle, TrackPc
  <2>3. loop'.pc = "tracks" /\ UNCHANGED <<board, base, commit, count>>
    BY <1>3 DEF Plan, TypeOK
  <2> QED  BY <2>0, <2>2, <2>3 DEF Placed, Syncing
<1>4. CASE CycleEnds
  <2>1. \A t \in TaskIds : track'[t].pc = "none"
    BY <1>4, PlainTracks DEF CycleEnds, Idle, TrackPc
  <2>2. commit = Free
    BY <1>0, <1>4 DEF CycleEnds, Placed
  <2>3. loop.pc # "dead" /\ UNCHANGED <<board, base, commit, count>>
    BY <1>4 DEF CycleEnds
  <2> QED  BY <2>1, <2>2, <2>3 DEF Placed, Syncing
<1>5. CASE ReviewBlocks
  <2>1. DOMAIN board \subseteq DOMAIN board'
    BY <1>5, AddedTask DEF ReviewBlocks, CanAdd, TypeOK
  <2>2. loop.pc = "review" /\ UNCHANGED <<track, base, commit, count>>
    BY <1>5 DEF ReviewBlocks
  <2> QED  BY <2>1, <2>2 DEF Placed, Syncing
<1>6. ASSUME NEW t \in TaskIds, Track(t) \/ SyncFails(t) \/ CommitFails(t)
      PROVE  Placed'
  <2>1. /\ loop.pc = "tracks" /\ t \in DOMAIN board /\ DOMAIN board \subseteq DOMAIN board'
        /\ \A u \in TaskIds : u # t => track'[u] = track[u]
        /\ UNCHANGED <<loop, count.starts>>
    BY <1>6, TrackRuns, TrackSteps
  <2>2. commit' # Free => commit'.t \in TaskIds /\ track'[commit'.t].pc = "commit"
    <3>1. CASE Select(t) \/ WorkerReports(t) \/ ReviewGates(t) \/ AcceptanceGates(t) \/ AddFix(t)
               \/ DependOnFixes(t)
      <4>1. track[t].pc # "commit" /\ commit' = commit
        BY <3>1 DEF Select, WorkerReports, ReviewGates, AcceptanceGates, AddFix, DependOnFixes
      <4> QED  BY <1>0, <2>1, <4>1 DEF Placed
    <3>2. CASE NothingChanged(t) \/ BeginCommit(t)
      BY <3>2 DEF NothingChanged, BeginCommit
    <3>3. CASE SyncCommit(t) \/ SyncFails(t) \/ Restore(t) \/ CommitTask(t) \/ CommitFails(t)
      <4>1. commit \in Commits /\ commit.t = t /\ track[t].pc = "commit"
        BY <1>6, <3>3, TrackRuns
      <4>2. commit' = Free \/ (commit'.t = t /\ track' = track)
        BY <3>3, <4>1 DEF SyncCommit, SyncFails, Restore, CommitTask, CommitFails, Commits
      <4> QED  BY <4>1, <4>2
    <3> QED  BY <1>6, <3>1, <3>2, <3>3 DEF Track
  <2>3. Syncing' => base'[commit'.t] # Nothing
    <3>1. CASE Select(t)
      <4>1. commit' = commit /\ track[t].pc # "commit"
        BY <3>1 DEF Select
      <4>2. \A u \in TaskIds : u # t => base'[u] = base[u]
        BY <3>1, Selected
      <4> QED  BY <1>0, <4>1, <4>2 DEF Placed, Syncing
    <3>2. CASE BeginCommit(t)
      BY <3>2 DEF BeginCommit, BaselineFiles, Syncing
    <3>3. CASE ~Select(t) /\ ~BeginCommit(t)
      <4>1. base' = base
        BY <1>6, <3>3 DEF Track, WorkerReports, ReviewGates, AcceptanceGates, AddFix, DependOnFixes,
                          NothingChanged, SyncCommit, SyncFails, Restore, CommitTask, CommitFails
      <4>2. Syncing' => Syncing /\ commit'.t = commit.t
        <5>1. CASE SyncCommit(t) \/ SyncFails(t) \/ Restore(t) \/ CommitTask(t) \/ CommitFails(t)
          <6>1. commit \in Commits /\ commit # Free
            BY <1>6, <5>1, TrackRuns
          <6> QED  BY <5>1, <6>1 DEF SyncCommit, SyncFails, Restore, CommitTask, CommitFails, CommitStep,
                                     Commits, Syncing
        <5>2. CASE WorkerReports(t) \/ ReviewGates(t) \/ AcceptanceGates(t) \/ AddFix(t)
                   \/ DependOnFixes(t) \/ NothingChanged(t)
          BY <5>2 DEF WorkerReports, ReviewGates, AcceptanceGates, AddFix, DependOnFixes,
                      NothingChanged, Syncing
        <5> QED  BY <1>6, <3>3, <5>1, <5>2 DEF Track
      <4> QED  BY <4>1, <4>2 DEF Placed
    <3> QED  BY <3>1, <3>2, <3>3
  <2>4. \A u \in TaskIds : track'[u].pc # "none" => u \in DOMAIN board'
    BY <2>1 DEF Placed
  <2> QED  BY <2>1, <2>2, <2>3, <2>4 DEF Placed
<1>7. CASE Die
  <2>1. \A t \in TaskIds : track'[t].pc = "none"
    BY <1>7, PlainTracks DEF Die, Idle, TrackPc
  <2>2. loop'.pc = "dead" /\ commit' = Free
    BY <1>7 DEF Die, TypeOK
  <2> QED  BY <2>1, <2>2 DEF Placed, Syncing
<1>8. CASE UserCommits
  <2>1. count'.starts = count.starts /\ UNCHANGED <<loop, track, base, board>>
    BY <1>8, Faulted DEF UserCommits
  <2>2. /\ commit' # Free => commit # Free /\ commit'.t = commit.t
        /\ Syncing' => Syncing
    BY <1>0, <1>8 DEF UserCommits, Syncing, Commits
  <2> QED  BY <2>1, <2>2 DEF Placed, Syncing
<1>9. ASSUME NEW t \in TaskIds, Work(t) \/ OrphanEnds(t)
      PROVE  Placed'
  <2>1. count'.starts = count.starts /\ UNCHANGED <<loop, track, base, board, commit>>
    BY <1>0, <1>9 DEF Work, OrphanEnds, EditFile, TypeOK
  <2> QED  BY <2>1 DEF Placed, Syncing
<1>10. ASSUME NEW f \in Files, UserEdits(f)
       PROVE  Placed'
  <2>1. count'.starts = count.starts /\ UNCHANGED <<loop, track, base, board, commit>>
    BY <1>0, <1>10 DEF UserEdits, TypeOK
  <2> QED  BY <2>1 DEF Placed, Syncing
<1>11. ASSUME NEW t \in TaskIds, UserMoves(t)
       PROVE  Placed'
  <2>1. count'.starts = count.starts /\ UNCHANGED <<loop, track, base, commit>>
    BY <1>11, Faulted DEF UserMoves
  <2>2. DOMAIN board' = DOMAIN board
    BY <1>11, Moved, LoopAssumption DEF UserMoves, TypeOK
  <2> QED  BY <2>1, <2>2 DEF Placed, Syncing
<1> QED  BY <1>1, <1>2, <1>3, <1>4, <1>5, <1>6, <1>7, <1>8, <1>9, <1>10, <1>11
         DEF Next, Cycle, Environment

-----------------------------------------------------------------------------
(* Failures are bounded. *)

\* What a track does to the failures of its own task.
LEMMA OwnFailures ==
  ASSUME TypeOK, Placed, Counted, NEW t \in TaskIds, Track(t) \/ SyncFails(t) \/ CommitFails(t)
  PROVE  WithinLimit(t)'
<1>0. /\ loop.pc = "tracks" /\ t \in DOMAIN board /\ track \in [TaskIds -> TrackType]
      /\ UNCHANGED <<loop, count.starts, seen.moves>> /\ count.starts \in Nat /\ seen.moves \in Nat
      /\ count.starts >= 1 /\ board[t] \in TaskType /\ board[t].fails \in Nat
  BY TrackRuns, TrackSteps DEF TypeOK, Placed, BoardType, TaskType
<1>1. Limit' = Limit /\ Limit \in Nat /\ Limit >= 3 /\ WithinLimit(t)
  BY <1>0 DEF Limit, Counted
<1>2. ASSUME NEW from, NEW to \in TaskStates, NEW rec \in TrackType, Update(t, from, to, rec),
             track[t].pc \in {"work", "review", "accept", "commit"},
             to = "Failed" => rec.pc \in {"again", "fix", "end"}
      PROVE  WithinLimit(t)'
  <2>1. \/ /\ board[t].state = from /\ board'[t].state = to /\ track'[t] = rec
           /\ to = "Failed" => board'[t].fails = board[t].fails + 1
           /\ to = "Done" => board'[t].fails = 0
           /\ to \notin {"Failed", "Done"} => board'[t].fails = board[t].fails
        \/ board[t].state # from /\ board' = board /\ track'[t] = At("end")
    BY <1>0, <1>2, Updated
  <2>2. board[t].fails < Limit
    BY <1>1, <1>2 DEF WithinLimit, MayFail
  <2>3. CASE board' = board /\ track'[t] = At("end")
    BY <1>0, <1>1, <2>3, PlainTracks DEF WithinLimit, MayFail, TrackPc
  <2>4. CASE to = "Failed" /\ board'[t].state = to /\ track'[t] = rec /\ board'[t].fails = board[t].fails + 1
    BY <1>0, <1>1, <1>2, <2>2, <2>4 DEF WithinLimit, MayFail
  <2>5. CASE to = "Done" /\ board'[t].state = to /\ board'[t].fails = 0
    BY <1>0, <1>1, <2>5 DEF WithinLimit
  <2>6. CASE to \notin {"Failed", "Done"} /\ board'[t].state = to /\ board'[t].fails = board[t].fails
    BY <1>0, <1>1, <2>2, <2>6 DEF WithinLimit
  <2> QED  BY <2>1, <2>3, <2>4, <2>5, <2>6
<1>3. CASE Select(t)
  <2>1. track[t].pc \in {"first", "again"}
    BY <1>3 DEF Select
  <2>2. CASE track'[t].pc = "work" /\ board'[t].state = "InProgress"
    <3>1. board[t].fails < Limit
      BY <1>1, <1>3, <2>1, <2>2, Selected DEF WithinLimit, MayFail
    <3>2. board'[t].fails = board[t].fails
      BY <1>3, Selected
    <3> QED  BY <1>0, <1>1, <2>2, <3>1, <3>2 DEF WithinLimit
  <2>3. CASE /\ board' = board /\ track'[t].pc \in {"review", "accept", "commit"}
             /\ board[t].state = StateOf[track'[t].pc]
    <3>1. board[t].state # "Failed"
      BY <2>3 DEF StateOf
    <3>2. board[t].fails < Limit
      BY <1>1, <2>1, <3>1 DEF WithinLimit, MayFail
    <3> QED  BY <1>0, <1>1, <2>3, <3>2 DEF WithinLimit
  <2>4. CASE board' = board /\ track'[t].pc = "end"
    BY <1>0, <1>1, <2>4 DEF WithinLimit, MayFail
  <2> QED  BY <1>3, <2>2, <2>3, <2>4, Selected
<1>4. CASE WorkerReports(t)
  <2>1. \E to \in {"Review", "Failed"} : Update(t, "InProgress", to, At("again"))
    BY <1>4 DEF WorkerReports
  <2> QED  BY <1>2, <1>4, <2>1, PlainTracks DEF WorkerReports, TaskStates, TrackPc
<1>5. CASE ReviewGates(t) \/ AcceptanceGates(t)
  <2>1. [At("fix") EXCEPT !.fixes = 1] \in TrackType /\ [At("fix") EXCEPT !.fixes = 1].pc = "fix"
    BY PlainTracks DEF TrackType, TrackPc, At
  <2>2. track[t].pc \in {"review", "accept"}
    BY <1>5 DEF ReviewGates, AcceptanceGates
  <2>3. \E from \in TaskStates, to \in TaskStates, rec \in {At("again"), [At("fix") EXCEPT !.fixes = 1]} :
          Update(t, from, to, rec)
    BY <1>5 DEF ReviewGates, AcceptanceGates, TaskStates
  <2> QED  BY <1>2, <2>1, <2>2, <2>3, PlainTracks DEF TrackPc
<1>6. CASE AddFix(t) \/ DependOnFixes(t)
  <2>1. board'[t].state = board[t].state /\ board'[t].fails = board[t].fails
    <3>1. CASE AddFix(t)
      <4>1. board' = board \/ (NewId(board) \in TaskIds /\ \E p \in 0..3 : board' = Added(board, p))
        BY <3>1, LoopAssumption DEF AddFix, CanAdd
      <4> QED  BY <1>0, <4>1, AddedTask DEF TypeOK
    <3>2. CASE DependOnFixes(t)
      BY <1>0, <3>2 DEF DependOnFixes, TaskType
    <3> QED  BY <1>6, <3>1, <3>2
  <2>2. track[t].pc = "fix" /\ track'[t].pc \in {"fix", "again"}
    <3>1. CASE CanAdd /\ AddFix(t)
      <4>1. track[t] \in TrackType /\ track'[t] = [track[t] EXCEPT !.fixes = @ - 1, !.made = @ \union {NewId(board)}]
        BY <1>0, <3>1 DEF AddFix, Go
      <4> QED  BY <3>1, <4>1 DEF AddFix, TrackType
    <3>2. CASE ~(CanAdd /\ AddFix(t))
      BY <1>0, <1>6, <3>2, PlainTracks DEF AddFix, DependOnFixes, Go, TrackPc
    <3> QED  BY <3>1, <3>2
  <2> QED  BY <1>0, <1>1, <2>1, <2>2 DEF WithinLimit, MayFail
<1>7. CASE NothingChanged(t) \/ BeginCommit(t) \/ SyncCommit(t) \/ SyncFails(t) \/ CommitTask(t)
  <2>1. board' = board
    BY <1>7 DEF NothingChanged, BeginCommit, SyncCommit, SyncFails, CommitTask
  <2>2. track'[t] = track[t] \/ track'[t].pc = "end"
    BY <1>0, <1>7, PlainTracks DEF NothingChanged, BeginCommit, SyncCommit, SyncFails, CommitTask, Go, TrackPc
  <2> QED  BY <1>0, <1>1, <2>1, <2>2 DEF WithinLimit, MayFail
<1>8. CASE Restore(t) \/ CommitFails(t)
  <2>1. track[t].pc = "commit"
    BY <1>8, TrackRuns
  <2>2. CASE UNCHANGED <<board, track>>
    BY <1>0, <1>1, <2>2 DEF WithinLimit, MayFail
  <2>3. CASE Update(t, "Done", "Failed", At("end"))
    BY <1>2, <2>1, <2>3, PlainTracks DEF TaskStates, TrackPc
  <2> QED  BY <1>8, <2>2, <2>3 DEF Restore, CommitFails
<1> QED  BY <1>3, <1>4, <1>5, <1>6, <1>7, <1>8 DEF Track

LEMMA CountedKept ==
  ASSUME TypeOK, Placed, Counted, [Next]_vars
  PROVE  Counted'
<1>0. /\ count.starts \in Nat /\ seen.moves \in Nat /\ BoardType(board)
      /\ \A t \in DOMAIN board : t \in TaskIds /\ board[t] \in TaskType /\ board[t].fails \in Nat
      /\ Limit \in Nat /\ Limit >= 2
  BY DEF TypeOK, BoardType, TaskType, Limit
<1>1. CASE UNCHANGED vars
  BY <1>1 DEF vars, Counted, WithinLimit, MayFail, Limit
<1>2. CASE Start
  <2>1. Limit' = Limit + 1 /\ UNCHANGED <<board, track>>
    BY <1>0, <1>2 DEF Start, Limit, TypeOK
  <2> QED  BY <1>0, <2>1 DEF Counted, WithinLimit
<1>3. CASE Plan
  <2>1. UNCHANGED <<board, count, seen>> /\ loop.pc = "plan"
    BY <1>3 DEF Plan
  <2> QED  BY <1>0, <2>1 DEF Counted, WithinLimit, Limit
<1>4. CASE NothingToDo \/ CyclesUsedUp \/ ReviewClears
  <2>1. UNCHANGED <<board, count, seen, track>> /\ loop.pc \in {"plan", "review"}
    BY <1>4 DEF NothingToDo, CyclesUsedUp, ReviewClears
  <2> QED  BY <1>0, <2>1 DEF Counted, WithinLimit, Limit
<1>5. CASE CycleEnds
  <2>1. UNCHANGED <<board, count, seen>> /\ count.starts >= 1 /\ \A t \in TaskIds : track'[t].pc = "none"
    BY <1>5, PlainTracks DEF CycleEnds, Placed, Idle, TrackPc
  <2>2. loop'.pc \in {"plan", "review"} => ~FailLimit(board)
    BY <1>5 DEF CycleEnds, TypeOK
  <2>3. Limit' = Limit /\ Limit >= 3
    BY <1>0, <2>1 DEF Limit
  <2>4. ASSUME NEW t \in DOMAIN board
        PROVE  WithinLimit(t)'
    <3>1. WithinLimit(t) /\ ~MayFail(t)'
      BY <1>0, <2>1 DEF Counted, MayFail
    <3>2. ~FailLimit(board) => board[t].fails <= 2
      BY <1>0, <3>1 DEF FailLimit, WithinLimit
    <3> QED  BY <1>0, <2>1, <2>2, <2>3, <3>1, <3>2 DEF WithinLimit
  <2> QED  BY <2>1, <2>4 DEF Counted
<1>6. CASE ReviewBlocks
  <2>1. UNCHANGED <<count, seen, track>> /\ loop.pc = "review" /\ Limit' = Limit
    BY <1>6 DEF ReviewBlocks, Limit
  <2>2. /\ \A u \in DOMAIN board : board'[u] = board[u]
        /\ \A u \in DOMAIN board' \ DOMAIN board : board'[u].state = "Backlog" /\ board'[u].fails = 0
    BY <1>0, <1>6, AddedTask DEF ReviewBlocks, CanAdd
  <2>3. ASSUME NEW t \in DOMAIN board'
        PROVE  WithinLimit(t)'
    BY <1>0, <2>1, <2>2 DEF Counted, WithinLimit
  <2> QED  BY <2>3 DEF Counted
<1>7. ASSUME NEW t \in TaskIds, Track(t) \/ SyncFails(t) \/ CommitFails(t)
      PROVE  Counted'
  <2>1. /\ \A u \in DOMAIN board : u # t => board'[u] = board[u]
        /\ \A u \in DOMAIN board' \ DOMAIN board : board'[u].state = "Backlog" /\ board'[u].fails = 0
        /\ \A u \in TaskIds : u # t => track'[u] = track[u]
        /\ loop' = loop /\ t \in DOMAIN board /\ loop.pc = "tracks"
    BY <1>7, TrackRuns, TrackSteps
  <2>2. Limit' = Limit
    BY <1>7, TrackSteps DEF Limit
  <2>3. ASSUME NEW u \in DOMAIN board', u # t
        PROVE  WithinLimit(u)'
    <3>1. CASE u \in DOMAIN board
      BY <1>0, <2>1, <2>2, <2>3, <3>1 DEF Counted, WithinLimit, MayFail
    <3>2. CASE u \notin DOMAIN board
      BY <1>0, <2>1, <2>2, <3>2 DEF WithinLimit
    <3> QED  BY <3>1, <3>2
  <2>4. WithinLimit(t)'
    BY <1>7, OwnFailures
  <2> QED  BY <2>3, <2>4 DEF Counted
<1>8. CASE Die
  <2>1. UNCHANGED <<board, seen>> /\ count'.starts = count.starts /\ loop'.pc = "dead"
        /\ \A t \in TaskIds : track'[t].pc = "none"
    BY <1>8, Faulted, PlainTracks DEF Die, Idle, TrackPc, TypeOK
  <2> QED  BY <1>0, <2>1 DEF Counted, WithinLimit, Limit, MayFail
<1>9. ASSUME NEW t \in TaskIds, Work(t) \/ OrphanEnds(t)
      PROVE  Counted'
  <2>1. UNCHANGED <<board, track, loop>> /\ count'.starts = count.starts /\ seen'.moves = seen.moves
    BY <1>9 DEF Work, OrphanEnds, EditFile, Written, TypeOK
  <2> QED  BY <2>1 DEF Counted, WithinLimit, Limit, MayFail
<1>10. ASSUME NEW f \in Files, UserEdits(f)
       PROVE  Counted'
  <2>1. UNCHANGED <<board, track, loop>> /\ count'.starts = count.starts /\ seen'.moves = seen.moves
    BY <1>10 DEF UserEdits, Written, TypeOK
  <2> QED  BY <2>1 DEF Counted, WithinLimit, Limit, MayFail
<1>11. CASE UserCommits
  <2>1. UNCHANGED <<board, track, loop, seen>> /\ count'.starts = count.starts
    BY <1>11, Faulted DEF UserCommits
  <2> QED  BY <2>1 DEF Counted, WithinLimit, Limit, MayFail
<1>12. ASSUME NEW t \in TaskIds, UserMoves(t)
       PROVE  Counted'
  <2>1. UNCHANGED <<track, loop>> /\ count'.starts = count.starts /\ seen'.moves = seen.moves + 1
        /\ t \in DOMAIN board
    BY <1>12, Faulted DEF UserMoves, TypeOK
  <2>2. Limit' = Limit + 1
    BY <1>0, <2>1 DEF Limit
  <2>3. PICK s \in TaskStates : board' = SetState(board, t, s) /\ s # board[t].state
    BY <1>12, LoopAssumption DEF UserMoves
  <2>4. /\ DOMAIN board' = DOMAIN board
        /\ \A u \in DOMAIN board : u # t => board'[u] = board[u]
        /\ board'[t].state = s
        /\ s = "Failed" => board'[t].fails = board[t].fails + 1
        /\ s = "Done" => board'[t].fails = 0
        /\ s \notin {"Failed", "Done"} => board'[t].fails = board[t].fails
    BY <1>0, <2>1, <2>3, Moved
  <2>5. ASSUME NEW u \in DOMAIN board, u # t
        PROVE  WithinLimit(u)'
    BY <1>0, <2>1, <2>2, <2>4, <2>5 DEF Counted, WithinLimit, MayFail
  <2>6. WithinLimit(t)'
    <3>1. WithinLimit(t) /\ board[t].fails \in Nat
      BY <1>0, <2>1 DEF Counted
    <3>2. CASE s = "Failed"
      <4>1. MayFail(t)' => MayFail(t)
        BY <2>1, <2>3, <2>4, <3>2 DEF MayFail
      <4> QED  BY <1>0, <2>1, <2>2, <2>4, <3>1, <3>2, <4>1 DEF WithinLimit
    <3>3. CASE s # "Failed"
      BY <1>0, <2>1, <2>2, <2>4, <3>1, <3>3 DEF WithinLimit
    <3> QED  BY <3>2, <3>3
  <2> QED  BY <2>4, <2>5, <2>6 DEF Counted
<1> QED  BY <1>1, <1>2, <1>3, <1>4, <1>5, <1>6, <1>7, <1>8, <1>9, <1>10, <1>11, <1>12
         DEF Next, Cycle, Environment

-----------------------------------------------------------------------------
(* No edit is lost, and nothing that is put back is newer than the latest. *)

\* The steps that leave the tree alone: a commit under way stays what it is or ends, and
\* a new baseline is of the tree.
Still ==
  /\ tree' = tree /\ seen'.latest = seen.latest /\ count'.edits = count.edits
  /\ excused \subseteq excused'
  /\ \A t \in TaskIds : \/ base'[t] \in {base[t], Nothing}
                        \/ base'[t] = [dirty |-> Changed, tree |-> tree, head |-> head]
  /\ commit' # Free => commit # Free /\ commit'.t = commit.t /\ commit'.final = commit.final
  /\ Syncing' => Syncing
  /\ Syncing => \/ Syncing' /\ base'[commit.t] = base[commit.t]
                \/ "died-in-sync" \in excused'
  /\ \A t \in TaskIds : seen'.accepted[t] \in {seen.accepted[t], tree[Own[t]]}

LEMMA TrackStill ==
  ASSUME TypeOK, Placed, NEW t \in TaskIds, Track(t) \/ SyncFails(t) \/ CommitFails(t),
         ~BeginCommit(t), ~Restore(t)
  PROVE  Still
<1>0. /\ base \in [TaskIds -> Baselines \union {Nothing}] /\ commit \in Commits \union {Free}
      /\ seen.accepted \in [TaskIds -> Versions]
  BY DEF TypeOK
<1>1. CASE Select(t)
  <2>1. UNCHANGED <<tree, seen, count, excused, commit>> /\ track[t].pc # "commit"
    BY <1>1 DEF Select
  <2>2. Syncing => base'[commit.t] = base[commit.t]
    <3>1. Syncing => commit.t \in TaskIds /\ commit.t # t
      BY <1>0, <2>1 DEF Syncing, Placed, Commits
    <3> QED  BY <1>1, <3>1, Selected
  <2>3. \A u \in TaskIds : \/ base'[u] \in {base[u], Nothing}
                           \/ base'[u] = [dirty |-> Changed, tree |-> tree, head |-> head]
    BY <1>1, Selected
  <2> QED  BY <2>1, <2>2, <2>3 DEF Still, Syncing
<1>2. CASE WorkerReports(t) \/ AddFix(t) \/ DependOnFixes(t) \/ NothingChanged(t)
  <2>1. UNCHANGED <<tree, seen, count, excused, commit, base>>
    BY <1>2 DEF WorkerReports, AddFix, DependOnFixes, NothingChanged
  <2> QED  BY <2>1 DEF Still, Syncing
<1>3. CASE ReviewGates(t) \/ AcceptanceGates(t)
  <2>1. UNCHANGED <<tree, count, commit, base>> /\ excused \subseteq excused'
    BY <1>3 DEF ReviewGates, AcceptanceGates
  <2>2. seen'.latest = seen.latest
        /\ \A u \in TaskIds : seen'.accepted[u] \in {seen.accepted[u], tree[Own[u]]}
    BY <1>3 DEF ReviewGates, AcceptanceGates, TypeOK
  <2> QED  BY <2>1, <2>2 DEF Still, Syncing
<1>4. CASE SyncCommit(t) \/ SyncFails(t) \/ CommitTask(t) \/ CommitFails(t)
  <2>1. commit \in Commits /\ commit # Free /\ commit.t = t
    BY <1>4, TrackRuns
  <2>2. UNCHANGED <<tree, seen, excused, base>> /\ count'.edits = count.edits
    BY <1>4, Faulted DEF SyncCommit, SyncFails, CommitTask, CommitFails
  <2>3. /\ commit' # Free => commit'.t = commit.t /\ commit'.final = commit.final
        /\ Syncing' <=> Syncing
    <3>1. CASE SyncCommit(t) \/ SyncFails(t)
      <4>1. commit' \in Commits /\ commit' # Free
        BY <3>1, SyncEnds
      <4> QED  BY <2>1, <3>1, <4>1 DEF SyncCommit, SyncFails, CommitStep, Commits, Syncing
    <3>2. CASE CommitTask(t) \/ CommitFails(t)
      BY <3>2 DEF CommitTask, CommitFails, CommitStep, Syncing
    <3> QED  BY <1>4, <3>1, <3>2
  <2> QED  BY <2>1, <2>2, <2>3 DEF Still
<1> QED  BY <1>1, <1>2, <1>3, <1>4 DEF Track

LEMMA OtherStill ==
  ASSUME TypeOK, Placed, Cycle \/ Die \/ UserCommits \/ (\E t \in TaskIds : OrphanEnds(t) \/ UserMoves(t))
  PROVE  Still
<1>1. CASE Cycle
  <2>1. UNCHANGED <<tree, seen, excused, commit, base>>
    BY <1>1 DEF Cycle, Start, Plan, NothingToDo, CyclesUsedUp, CycleEnds, ReviewClears, ReviewBlocks
  <2>2. count'.edits = count.edits
    BY <1>1 DEF Cycle, Start, Plan, NothingToDo, CyclesUsedUp, CycleEnds, ReviewClears, ReviewBlocks, TypeOK
  <2> QED  BY <2>1, <2>2 DEF Still, Syncing
<1>2. CASE Die
  <2>1. UNCHANGED <<tree, seen>> /\ commit' = Free /\ \A t \in TaskIds : base'[t] = Nothing
    BY <1>2 DEF Die
  <2>2. excused \subseteq excused' /\ (Syncing => "died-in-sync" \in excused')
    BY <1>2 DEF Die
  <2>3. count'.edits = count.edits
    BY <1>2, Faulted DEF Die
  <2> QED  BY <2>1, <2>2, <2>3 DEF Still, Syncing
<1>3. CASE UserCommits
  <2>1. UNCHANGED <<tree, seen, base>> /\ excused \subseteq excused' /\ count'.edits = count.edits
    BY <1>3, Faulted DEF UserCommits
  <2>2. /\ commit' # Free => commit # Free /\ commit'.t = commit.t /\ commit'.final = commit.final
        /\ Syncing' <=> Syncing
    <3>1. commit = Free \/ (commit \in Commits /\ commit' = [commit EXCEPT !.moved = TRUE])
      BY <1>3 DEF UserCommits, TypeOK
    <3>2. commit \in Commits => commit # Free /\ [commit EXCEPT !.moved = TRUE] \in Commits
      BY NothingAssumption DEF Commits, Free
    <3>3. commit \in Commits => commit' # Free
      BY <3>1, <3>2, NothingAssumption DEF Free
    <3> QED  BY <1>3, <3>1, <3>2, <3>3 DEF UserCommits, Commits, Syncing
  <2> QED  BY <2>1, <2>2 DEF Still
<1>4. ASSUME NEW t \in TaskIds, OrphanEnds(t) \/ UserMoves(t)
      PROVE  Still
  <2>1. UNCHANGED <<tree, commit, base>> /\ excused \subseteq excused'
    BY <1>4 DEF OrphanEnds, UserMoves
  <2>2. count'.edits = count.edits /\ seen'.latest = seen.latest /\ seen'.accepted = seen.accepted
    BY <1>4, Faulted DEF OrphanEnds, UserMoves, TypeOK
  <2> QED  BY <2>1, <2>2 DEF Still, Syncing
<1> QED  BY <1>1, <1>2, <1>3, <1>4

LEMMA ContentKept ==
  ASSUME TypeOK, Placed, ContentHeld, [Next]_vars
  PROVE  ContentHeld'
<1> DEFINE Kept == excused \intersect {"edited-in-sync", "died-in-sync"} = {}
<1>0. tree \in Content /\ seen.latest \in Content
  BY DEF TypeOK
<1>1. CASE UNCHANGED vars
  BY <1>1 DEF vars, ContentHeld, PutBack, Syncing
<1>2. CASE Still
  <2> SUFFICES ASSUME Kept', NEW f \in Files
               PROVE  seen'.latest[f] = IF PutBack(f)' THEN commit'.final[f] ELSE tree'[f]
    BY DEF ContentHeld
  <2>1. Kept /\ "died-in-sync" \notin excused'
    BY <1>2 DEF Still
  <2>2. seen.latest[f] = IF PutBack(f) THEN commit.final[f] ELSE tree[f]
    BY <2>1 DEF ContentHeld
  <2>3. PutBack(f)' <=> PutBack(f)
    BY <1>2, <2>1 DEF Still, PutBack, Syncing
  <2>4. PutBack(f) => commit'.final = commit.final
    BY <1>2, <2>1 DEF Still, PutBack, Syncing
  <2>5. tree'[f] = tree[f] /\ seen'.latest[f] = seen.latest[f]
    BY <1>2 DEF Still
  <2> QED  BY <2>2, <2>3, <2>4, <2>5
<1>3. ASSUME NEW t \in TaskIds, BeginCommit(t)
      PROVE  ContentHeld'
  <2> SUFFICES ASSUME Kept', NEW f \in Files
               PROVE  seen'.latest[f] = IF PutBack(f)' THEN commit'.final[f] ELSE tree'[f]
    BY DEF ContentHeld
  <2>1. tree[f] = seen.latest[f] /\ seen' = seen /\ base' = base
    BY <1>3 DEF BeginCommit, ContentHeld, PutBack, Syncing
  <2>2. commit'.t = t /\ commit'.final = tree /\ commit' # Free
    <3>1. commit' = [t |-> t, pc |-> IF BaselineFiles(t) = {} THEN "task" ELSE "sync",
                     final |-> tree, undo |-> head, synced |-> FALSE, moved |-> FALSE]
      BY <1>3 DEF BeginCommit
    <3>2. commit' \in Commits
      BY <3>1 DEF Commits, TypeOK
    <3> QED  BY <3>1, <3>2, NothingAssumption DEF Free
  <2>3. CASE f \in BaselineFiles(t)
    <3>1. PutBack(f)'
      BY <1>3, <2>1, <2>2, <2>3 DEF BeginCommit, PutBack, Syncing, BaselineFiles
    <3> QED  BY <2>1, <2>2, <3>1
  <2>4. CASE f \notin BaselineFiles(t)
    <3>1. ~PutBack(f)'
      BY <1>3, <2>1, <2>2, <2>4 DEF BeginCommit, PutBack, Syncing, BaselineFiles
    <3>2. tree'[f] = tree[f]
      BY <1>0, <1>3, <2>4 DEF BeginCommit, Onto
    <3> QED  BY <2>1, <3>1, <3>2
  <2> QED  BY <2>3, <2>4
<1>4. ASSUME NEW t \in TaskIds, Restore(t)
      PROVE  ContentHeld'
  <2> SUFFICES ASSUME Kept', NEW f \in Files
               PROVE  seen'.latest[f] = IF PutBack(f)' THEN commit'.final[f] ELSE tree'[f]
    BY DEF ContentHeld
  <2>1. commit \in Commits /\ commit # Free /\ commit.t = t /\ Syncing
    BY <1>4, TrackRuns DEF Track, Restore, CommitStep, Syncing
  <2>2. seen' = seen /\ excused' = excused /\ tree' = Onto(tree, BaselineFiles(t), commit.final)
    BY <1>4 DEF Restore
  <2>3. seen.latest[f] = IF PutBack(f) THEN commit.final[f] ELSE tree[f]
    BY <2>2 DEF ContentHeld
  <2>4. PutBack(f) <=> f \in BaselineFiles(t)
    BY <2>1 DEF PutBack, BaselineFiles, Placed
  <2>5. ~Syncing'
    BY <1>4, <2>1 DEF Restore, Syncing, Commits
  <2>6. tree'[f] = IF f \in BaselineFiles(t) THEN commit.final[f] ELSE tree[f]
    BY <2>2 DEF Onto
  <2> QED  BY <2>2, <2>3, <2>4, <2>5, <2>6 DEF PutBack
<1>5. ASSUME NEW g \in Files, count.edits < MaxEdits, tree' = [tree EXCEPT ![g] = count.edits + 1],
             seen' = Written(g, count.edits + 1), UNCHANGED <<base, commit>>,
             excused \union LostBySync(g) \subseteq excused'
      PROVE  ContentHeld'
  <2> SUFFICES ASSUME Kept', NEW f \in Files
               PROVE  seen'.latest[f] = IF PutBack(f)' THEN commit'.final[f] ELSE tree'[f]
    BY DEF ContentHeld
  <2>1. Kept /\ ~PutBack(g)
    BY <1>5 DEF LostBySync
  <2>2. seen.latest[f] = IF PutBack(f) THEN commit.final[f] ELSE tree[f]
    BY <2>1 DEF ContentHeld
  <2>3. PutBack(f)' <=> PutBack(f)
    BY <1>5 DEF PutBack, Syncing
  <2> QED  BY <1>5, <2>1, <2>2, <2>3, Edited
<1>6. ASSUME NEW t \in TaskIds, Work(t)
      PROVE  ContentHeld'
  BY <1>5, <1>6, LoopAssumption DEF Work, EditFile
<1>7. ASSUME NEW f \in Files, UserEdits(f)
      PROVE  ContentHeld'
  BY <1>5, <1>7 DEF UserEdits
<1>8. CASE Cycle \/ Die \/ UserCommits \/ (\E t \in TaskIds : OrphanEnds(t) \/ UserMoves(t))
  BY <1>2, <1>8, OtherStill
<1>9. ASSUME NEW t \in TaskIds, Track(t) \/ SyncFails(t) \/ CommitFails(t)
      PROVE  ContentHeld'
  BY <1>2, <1>3, <1>4, <1>9, TrackStill
<1> QED  BY <1>1, <1>6, <1>7, <1>8, <1>9 DEF Next, Environment

LEMMA AgedKept ==
  ASSUME TypeOK, Placed, Aged, [Next]_vars
  PROVE  Aged'
<1>0. /\ tree \in [Files -> Nat] /\ seen.latest \in [Files -> Nat] /\ count.edits \in Nat
      /\ Own \in [TaskIds -> Files] /\ seen.accepted \in [TaskIds -> Nat]
      /\ base \in [TaskIds -> Baselines \union {Nothing}]
      /\ \A t \in TaskIds : base[t] # Nothing => base[t].tree \in [Files -> Nat]
      /\ commit # Free => commit.final \in [Files -> Nat]
  BY LoopAssumption, Numbers DEF TypeOK, Content, Versions, Baselines, Commits
<1>1. CASE UNCHANGED vars
  BY <1>1 DEF vars, Aged
<1>2. CASE Still
  <2>1. \A t \in TaskIds : base'[t] # Nothing => \A f \in Files : base'[t].tree[f] <= seen.latest[f]
    BY <1>0, <1>2 DEF Still, Aged
  <2>2. \A t \in TaskIds : seen'.accepted[t] <= seen.latest[Own[t]]
    BY <1>0, <1>2 DEF Still, Aged
  <2> QED  BY <1>2, <2>1, <2>2 DEF Still, Aged
<1>3. ASSUME NEW t \in TaskIds, BeginCommit(t)
      PROVE  Aged'
  <2>1. \A f \in Files : tree'[f] <= seen.latest[f]
    <3>1. CASE BaselineFiles(t) = {}
      BY <1>3, <3>1 DEF BeginCommit, Aged
    <3>2. CASE BaselineFiles(t) # {}
      BY <1>3, <3>2 DEF BeginCommit, Aged, Onto, BaselineFiles
    <3> QED  BY <3>1, <3>2
  <2>2. commit'.final = tree /\ UNCHANGED <<seen, count, base>>
    BY <1>3 DEF BeginCommit
  <2> QED  BY <2>1, <2>2 DEF Aged
<1>4. ASSUME NEW t \in TaskIds, Restore(t)
      PROVE  Aged'
  <2>1. commit \in Commits /\ commit # Free
    BY <1>4, TrackRuns DEF Track
  <2>2. \A f \in Files : tree'[f] <= seen.latest[f]
    BY <1>4, <2>1 DEF Restore, Onto, Aged
  <2>3. UNCHANGED <<seen, count, base>> /\ (commit' # Free => commit'.final = commit.final)
    BY <1>4, <2>1 DEF Restore, Commits
  <2> QED  BY <2>1, <2>2, <2>3 DEF Aged
<1>5. ASSUME NEW g \in Files, count.edits < MaxEdits, tree' = [tree EXCEPT ![g] = count.edits + 1],
             seen' = Written(g, count.edits + 1), UNCHANGED <<base, commit>>,
             count'.edits = count.edits + 1
      PROVE  Aged'
  <2>1. /\ seen'.latest[g] = count.edits + 1 /\ tree'[g] = count.edits + 1
        /\ \A f \in Files : f # g => seen'.latest[f] = seen.latest[f] /\ tree'[f] = tree[f]
        /\ seen'.accepted = seen.accepted
    BY <1>5, Edited
  <2>2. \A f \in Files : seen.latest[f] <= seen'.latest[f] /\ seen'.latest[f] \in Nat
    BY <1>0, <2>1 DEF Aged
  <2>3. \A f \in Files : tree'[f] <= seen'.latest[f] /\ seen'.latest[f] <= count'.edits
    BY <1>0, <1>5, <2>1 DEF Aged
  <2>4. \A t \in TaskIds : base[t] # Nothing => \A f \in Files : base[t].tree[f] <= seen'.latest[f]
    BY <1>0, <2>2 DEF Aged
  <2>5. commit # Free => \A f \in Files : commit.final[f] <= seen'.latest[f]
    BY <1>0, <2>2 DEF Aged
  <2>6. \A t \in TaskIds : seen'.accepted[t] <= seen'.latest[Own[t]]
    BY <1>0, <2>1, <2>2 DEF Aged
  <2> QED  BY <1>5, <2>3, <2>4, <2>5, <2>6 DEF Aged
<1>6. ASSUME NEW t \in TaskIds, Work(t)
      PROVE  Aged'
  <2>1. count'.edits = count.edits + 1
    BY <1>6 DEF Work, EditFile, TypeOK
  <2> QED  BY <1>5, <1>6, <2>1, LoopAssumption DEF Work, EditFile
<1>7. ASSUME NEW f \in Files, UserEdits(f)
      PROVE  Aged'
  <2>1. count'.edits = count.edits + 1
    BY <1>7 DEF UserEdits, TypeOK
  <2> QED  BY <1>5, <1>7, <2>1 DEF UserEdits
<1>8. CASE Cycle \/ Die \/ UserCommits \/ (\E t \in TaskIds : OrphanEnds(t) \/ UserMoves(t))
  BY <1>2, <1>8, OtherStill
<1>9. ASSUME NEW t \in TaskIds, Track(t) \/ SyncFails(t) \/ CommitFails(t)
      PROVE  Aged'
  BY <1>2, <1>3, <1>4, <1>9, TrackStill
<1> QED  BY <1>1, <1>6, <1>7, <1>8, <1>9 DEF Next, Environment

-----------------------------------------------------------------------------
(* Tracks know the states of their tasks. *)

LEMMA Excusing ==
  ASSUME [Next]_vars
  PROVE  excused \subseteq excused' /\ (Deaths => Deaths')
<1>1. CASE UNCHANGED vars
  BY <1>1 DEF vars, Deaths
<1>2. CASE Die
  BY <1>2 DEF Die, Deaths
<1>3. ASSUME NEW f, excused' \subseteq excused \union LostBySync(f) \union GatedInSync(f)
                                       \union {"user", "orphan", "shared", "moved", "committed-in-sync"},
             excused \subseteq excused'
      PROVE  excused \subseteq excused' /\ (Deaths => Deaths')
  BY <1>3 DEF LostBySync, GatedInSync, Deaths
<1>4. CASE Cycle \/ UserCommits \/ \E t \in TaskIds : OrphanEnds(t) \/ UserMoves(t) \/ SyncFails(t) \/ CommitFails(t)
  <2>1. excused \subseteq excused' /\ excused' \subseteq excused \union {"moved", "committed-in-sync"}
    BY <1>4 DEF Cycle, Start, Plan, NothingToDo, CyclesUsedUp, CycleEnds, ReviewClears, ReviewBlocks,
                UserCommits, OrphanEnds, UserMoves, SyncFails, CommitFails
  <2> QED  BY <1>3, <2>1
<1>5. ASSUME NEW t \in TaskIds, Track(t)
      PROVE  excused \subseteq excused' /\ (Deaths => Deaths')
  <2>1. excused' = excused \/ excused' = excused \union GatedInSync(Own[t])
    BY <1>5 DEF Track, Select, WorkerReports, ReviewGates, AcceptanceGates, AddFix, DependOnFixes,
                NothingChanged, BeginCommit, SyncCommit, Restore, CommitTask
  <2> QED  BY <1>3, <2>1
<1>6. ASSUME NEW t \in TaskIds, Work(t)
      PROVE  excused \subseteq excused' /\ (Deaths => Deaths')
  BY <1>3, <1>6 DEF Work, SpoiltBy
<1>7. ASSUME NEW f \in Files, UserEdits(f)
      PROVE  excused \subseteq excused' /\ (Deaths => Deaths')
  BY <1>3, <1>7 DEF UserEdits
<1> QED  BY <1>1, <1>2, <1>4, <1>5, <1>6, <1>7 DEF Next, Environment

\* A track knows the state of its own task after each of its steps.
LEMMA OwnState ==
  ASSUME TypeOK, Placed, NEW t \in TaskIds, Track(t) \/ SyncFails(t) \/ CommitFails(t), Knows(t)
  PROVE  Knows(t)'
<1>0. t \in DOMAIN board /\ track \in [TaskIds -> TrackType] /\ BoardType(board)
  BY TrackRuns DEF TypeOK
<1>1. ASSUME NEW from, NEW to \in TaskStates, NEW rec \in TrackType, Update(t, from, to, rec),
             rec.pc \in {"again", "end"} \/ (rec.pc = "fix" /\ to = "Failed")
      PROVE  Knows(t)'
  <2>1. (track'[t] = rec /\ board'[t].state = to) \/ track'[t].pc = "end"
    BY <1>0, <1>1, Updated, PlainTracks DEF TrackPc
  <2> QED  BY <1>1, <2>1 DEF Knows, StateOf
<1>2. CASE Select(t)
  BY <1>2, Selected DEF Knows, StateOf
<1>3. CASE WorkerReports(t)
  <2>1. \E to \in TaskStates : Update(t, "InProgress", to, At("again"))
    BY <1>3 DEF WorkerReports, TaskStates
  <2> QED  BY <1>1, <2>1, PlainTracks DEF TrackPc
<1>4. CASE ReviewGates(t) \/ AcceptanceGates(t)
  <2>1. [At("fix") EXCEPT !.fixes = 1] \in TrackType /\ [At("fix") EXCEPT !.fixes = 1].pc = "fix"
    BY PlainTracks DEF TrackType, TrackPc, At
  <2>2. \/ \E from \in TaskStates, to \in TaskStates : Update(t, from, to, At("again"))
        \/ Update(t, "Review", "Failed", [At("fix") EXCEPT !.fixes = 1])
    BY <1>4 DEF ReviewGates, AcceptanceGates, TaskStates
  <2> QED  BY <1>1, <2>1, <2>2, PlainTracks DEF TrackPc, TaskStates
<1>5. CASE AddFix(t)
  <2>1. board'[t] = board[t]
    <3>1. board' = board \/ (NewId(board) \in TaskIds /\ \E p \in 0..3 : board' = Added(board, p))
      BY <1>5, LoopAssumption DEF AddFix, CanAdd
    <3> QED  BY <1>0, <3>1, AddedTask
  <2>2. track[t].pc = "fix" /\ track'[t].pc \in {"fix", "again"}
    <3>1. CASE CanAdd
      <4>1. track[t] \in TrackType /\ track'[t] = [track[t] EXCEPT !.fixes = @ - 1, !.made = @ \union {NewId(board)}]
        BY <1>0, <1>5, <3>1 DEF AddFix, Go
      <4> QED  BY <1>5, <4>1 DEF AddFix, TrackType
    <3>2. CASE ~CanAdd
      BY <1>0, <1>5, <3>2, PlainTracks DEF AddFix, Go, TrackPc
    <3> QED  BY <3>1, <3>2
  <2> QED  BY <2>1, <2>2 DEF Knows, StateOf
<1>6. CASE DependOnFixes(t) \/ NothingChanged(t) \/ CommitTask(t)
  <2>1. track'[t].pc \in {"again", "end"}
    BY <1>0, <1>6, PlainTracks DEF DependOnFixes, NothingChanged, CommitTask, Go, TrackPc
  <2> QED  BY <2>1 DEF Knows, StateOf
<1>7. CASE BeginCommit(t) \/ SyncCommit(t) \/ SyncFails(t)
  BY <1>7 DEF BeginCommit, SyncCommit, SyncFails, Knows
<1>8. CASE Restore(t) \/ CommitFails(t)
  <2>1. UNCHANGED <<board, track>> \/ Update(t, "Done", "Failed", At("end"))
    BY <1>8 DEF Restore, CommitFails
  <2>2. "Failed" \in TaskStates /\ At("end") \in TrackType /\ At("end").pc = "end"
    BY PlainTracks DEF TaskStates, TrackPc
  <2> QED  BY <1>1, <2>1, <2>2 DEF Knows
<1> QED  BY <1>2, <1>3, <1>4, <1>5, <1>6, <1>7, <1>8 DEF Track

LEMMA StandingKept ==
  ASSUME TypeOK, Placed, Standing, [Next]_vars
  PROVE  Standing'
<1> SUFFICES ASSUME "moved" \notin excused', NEW u \in TaskIds
             PROVE  Knows(u)'
  BY DEF Standing
<1>0. Knows(u) /\ (track[u].pc # "none" => u \in DOMAIN board)
  BY Excusing DEF Standing, Placed
<1>1. CASE UNCHANGED vars
  BY <1>0, <1>1 DEF vars, Knows
<1>2. CASE Start \/ NothingToDo \/ CyclesUsedUp \/ ReviewClears
  BY <1>0, <1>2 DEF Start, NothingToDo, CyclesUsedUp, ReviewClears, Knows
<1>3. CASE Plan \/ CycleEnds \/ Die
  <2>1. track'[u].pc \in {"none", "first"}
    BY <1>3, PlainTracks DEF Plan, CycleEnds, Die, Idle, TrackPc
  <2> QED  BY <2>1 DEF Knows, StateOf
<1>4. CASE ReviewBlocks
  <2>1. track'[u].pc = "none"
    BY <1>4 DEF ReviewBlocks, Placed
  <2> QED  BY <2>1 DEF Knows, StateOf
<1>5. ASSUME NEW t \in TaskIds, Track(t) \/ SyncFails(t) \/ CommitFails(t)
      PROVE  Knows(u)'
  <2>1. CASE u = t
    BY <1>0, <1>5, <2>1, OwnState
  <2>2. CASE u # t
    <3>1. track'[u] = track[u] /\ (u \in DOMAIN board => board'[u] = board[u])
      BY <1>5, <2>2, TrackSteps
    <3> QED  BY <1>0, <3>1 DEF Knows, StateOf
  <2> QED  BY <2>1, <2>2
<1>6. ASSUME NEW t \in TaskIds, UserMoves(t)
      PROVE  Knows(u)'
  BY <1>6 DEF UserMoves
<1>7. CASE UserCommits \/ (\E t \in TaskIds : Work(t) \/ OrphanEnds(t)) \/ (\E f \in Files : UserEdits(f))
  <2>1. UNCHANGED <<board, track>>
    BY <1>7 DEF UserCommits, Work, OrphanEnds, UserEdits
  <2> QED  BY <1>0, <2>1 DEF Knows
<1> QED  BY <1>1, <1>2, <1>3, <1>4, <1>5, <1>6, <1>7 DEF Next, Cycle, Environment

-----------------------------------------------------------------------------
(* Done means committed, and what is committed is what the gates saw. *)

\* When nothing was lost or spoilt, no file is put back but in a sync.
LEMMA LatestInTree ==
  ASSUME Clean, Deaths, ContentHeld, NEW f \in Files, ~PutBack(f)
  PROVE  tree[f] = seen.latest[f]
BY DEF Clean, Deaths, ContentHeld

\* What HEAD falls back to changes to the latest content only.
LEMMA FallbackKept ==
  ASSUME TypeOK, Placed, Clean', Deaths, ContentHeld, NEW f \in Files,
         UserCommits \/ \E t \in TaskIds : Track(t) \/ SyncFails(t) \/ CommitFails(t)
  PROVE  Fallback'[f] \in {Fallback[f], seen.latest[f]}
<1>0. /\ head \in Content /\ tree \in Content
      /\ commit \in Commits \/ commit = Free
  BY DEF TypeOK
<1>1. Clean
  BY Excusing DEF Clean, Next, Environment
<1>2. CASE UserCommits
  <2>1. ~Syncing
    BY <1>2 DEF UserCommits, Clean
  <2>2. tree[f] = seen.latest[f]
    BY <1>1, <2>1, LatestInTree DEF PutBack
  <2>3. head'[f] = tree[f]
    BY <1>0, <1>2 DEF UserCommits, Committed, Onto, Changed
  <2>4. CASE commit = Free
    <3>1. commit' = Free
      BY <1>2, <2>4 DEF UserCommits
    <3> QED  BY <2>2, <2>3, <3>1 DEF Fallback
  <2>5. CASE commit # Free
    <3>1. commit' = [commit EXCEPT !.moved = TRUE] /\ commit \in Commits
      BY <1>0, <1>2, <2>5 DEF UserCommits
    <3>2. commit'.moved
      BY <3>1 DEF Commits
    <3> QED  BY <2>2, <2>3, <3>2 DEF Fallback
  <2> QED  BY <2>4, <2>5
<1>3. ASSUME NEW t \in TaskIds, Track(t) \/ SyncFails(t) \/ CommitFails(t)
      PROVE  Fallback'[f] \in {Fallback[f], seen.latest[f]}
  <2>1. CASE ~(SyncCommit(t) \/ SyncFails(t) \/ Restore(t) \/ CommitTask(t) \/ CommitFails(t) \/ BeginCommit(t))
    <3>1. UNCHANGED <<head, commit>>
      BY <1>3, <2>1 DEF Track, Select, WorkerReports, ReviewGates, AcceptanceGates, AddFix,
                        DependOnFixes, NothingChanged
    <3> QED  BY <3>1 DEF Fallback
  <2>2. CASE BeginCommit(t)
    <3>1. commit = Free /\ head' = head /\ ~commit'.synced
      BY <2>2 DEF BeginCommit
    <3> QED  BY <3>1 DEF Fallback
  <2>3. CASE SyncCommit(t)
    <3>1. commit \in Commits /\ commit.pc = "sync" /\ commit' # Free
      BY <1>0, <2>3, SyncEnds DEF SyncCommit, CommitStep
    <3> DEFINE synced == Changed \intersect BaselineFiles(t) # {}
    <3>2. commit' = [commit EXCEPT !.pc = "synced", !.synced = synced, !.undo = head, !.moved = FALSE]
      BY <2>3 DEF SyncCommit
    <3>3. Fallback = head
      BY <3>1 DEF Fallback
    <3>4. ~synced => head'[f] = head[f]
      BY <1>0, <2>3 DEF SyncCommit, Committed, Onto, Changed
    <3> HIDE DEF synced
    <3>5. commit'.pc = "synced" /\ commit'.synced = synced /\ commit'.undo = head /\ ~commit'.moved
      BY <3>1, <3>2 DEF Commits
    <3> QED  BY <3>1, <3>3, <3>4, <3>5 DEF Fallback
  <2>4. CASE SyncFails(t)
    <3>1. commit \in Commits /\ commit.pc = "sync" /\ head' = head
      BY <1>0, <2>4 DEF SyncFails, CommitStep
    <3>2. commit'.pc = "undone"
      BY <2>4, <3>1 DEF SyncFails, Commits
    <3> QED  BY <3>1, <3>2 DEF Fallback
  <2>5. CASE Restore(t)
    <3>1. commit \in Commits /\ commit # Free /\ commit.pc \in {"synced", "undone"} /\ head' = head
      BY <1>0, <2>5 DEF Restore, CommitStep
    <3>2. CASE commit.pc = "synced"
      <4>1. commit' = [commit EXCEPT !.pc = "task"]
        BY <2>5, <3>2 DEF Restore
      <4>2. commit' \in Commits /\ commit' # Free
        BY <3>1, <4>1, NothingAssumption DEF Commits, Free
      <4> QED  BY <3>1, <3>2, <4>1, <4>2 DEF Fallback, Commits
    <3>3. CASE commit.pc = "undone"
      <4>1. commit' = Free
        BY <2>5, <3>3 DEF Restore
      <4> QED  BY <3>1, <3>3, <4>1 DEF Fallback
    <3> QED  BY <3>1, <3>2, <3>3
  <2>6. CASE CommitTask(t)
    <3>1. ~Syncing /\ commit' = Free
      BY <2>6 DEF CommitTask, CommitStep, Syncing
    <3>2. tree[f] = seen.latest[f]
      BY <1>1, <3>1, LatestInTree DEF PutBack
    <3>3. head'[f] = tree[f]
      BY <1>0, <2>6 DEF CommitTask, Committed, Onto, Changed
    <3> QED  BY <3>1, <3>2, <3>3 DEF Fallback
  <2>7. CASE CommitFails(t)
    BY <2>7 DEF CommitFails, CommitStep, Fallback
  <2> QED  BY <2>1, <2>2, <2>3, <2>4, <2>5, <2>6, <2>7
<1> QED  BY <1>2, <1>3

LEMMA BackedKept ==
  ASSUME TypeOK, Placed, Deaths, ContentHeld, Aged, Standing, Backed, [Next]_vars
  PROVE  Backed'
<1> SUFFICES ASSUME Clean', NEW u \in DOMAIN board', Settled(u)'
             PROVE  Fallback'[Own[u]] >= seen'.accepted[u]
  BY DEF Backed
<1>0. /\ u \in TaskIds /\ Own[u] \in Files /\ seen.accepted[u] \in Nat /\ seen.latest[Own[u]] \in Nat
      /\ head[Own[u]] \in Nat /\ track \in [TaskIds -> TrackType] /\ BoardType(board)
  BY TypesKept, LoopAssumption DEF TypeOK, BoardType, Content, Versions
<1>1. Clean /\ "moved" \notin excused
  BY Excusing DEF Clean
<1>2. u \in DOMAIN board /\ Settled(u) => Fallback[Own[u]] >= seen.accepted[u]
  BY <1>1 DEF Backed
<1>3. CASE UNCHANGED vars
  BY <1>2, <1>3 DEF vars, Settled, Fallback
<1>4. CASE Cycle
  <2>1. UNCHANGED <<head, commit, seen>>
    BY <1>4 DEF Cycle, Start, Plan, NothingToDo, CyclesUsedUp, CycleEnds, ReviewClears, ReviewBlocks
  <2>2. u \in DOMAIN board /\ board[u].state = "Done"
    <3>1. CASE ReviewBlocks
      BY <1>0, <3>1, AddedTask DEF ReviewBlocks, CanAdd, Settled
    <3>2. CASE ~ReviewBlocks
      BY <1>4, <3>2 DEF Cycle, Start, Plan, NothingToDo, CyclesUsedUp, CycleEnds, ReviewClears, Settled
    <3> QED  BY <3>1, <3>2
  <2>3. track[u].pc \in {"none", "end"}
    <3>1. CASE Plan \/ CycleEnds
      BY <1>0, <3>1 DEF Plan, CycleEnds, Placed
    <3>2. CASE ~Plan /\ ~CycleEnds
      BY <1>4, <3>2 DEF Cycle, Start, NothingToDo, CyclesUsedUp, ReviewClears, ReviewBlocks, Settled
    <3> QED  BY <3>1, <3>2
  <2> QED  BY <1>2, <2>1, <2>2, <2>3 DEF Settled, Fallback
<1>5. ASSUME NEW t \in TaskIds, Track(t) \/ SyncFails(t) \/ CommitFails(t), u # t
      PROVE  Fallback'[Own[u]] >= seen'.accepted[u]
  <2>1. u \in DOMAIN board /\ Settled(u)
    BY <1>0, <1>5, TrackSteps DEF Settled
  <2>2. Fallback'[Own[u]] \in {Fallback[Own[u]], seen.latest[Own[u]]}
    BY <1>0, <1>5, FallbackKept
  <2>3. seen'.accepted[u] = seen.accepted[u]
    BY <1>0, <1>5 DEF Track, Select, WorkerReports, ReviewGates, AcceptanceGates, AddFix, DependOnFixes,
                      NothingChanged, BeginCommit, SyncCommit, SyncFails, Restore, CommitTask, CommitFails, TypeOK
  <2>4. seen.accepted[u] <= seen.latest[Own[u]]
    BY <1>0 DEF Aged
  <2> QED  BY <1>0, <1>2, <2>1, <2>2, <2>3, <2>4
<1>6. CASE Track(u) \/ SyncFails(u) \/ CommitFails(u)
  <2>0. Knows(u) /\ u \in DOMAIN board
    BY <1>0, <1>1, <1>6, TrackRuns DEF Standing
  <2>1. ASSUME NEW from, NEW to \in TaskStates, NEW rec \in TrackType, Update(u, from, to, rec),
               track[u].pc \in DOMAIN StateOf, from = StateOf[track[u].pc],
               rec.pc \notin {"none", "end"} \/ to # "Done"
        PROVE  FALSE
    <3>1. board'[u].state = to /\ track'[u] = rec
      BY <2>0, <2>1, Updated, ZenonT(60) DEF Knows
    <3> QED  BY <2>1, <3>1 DEF Settled
  <2>2. CASE Select(u)
    <3>1. track'[u].pc # "none"
      BY <1>0, <2>2, Selected
    <3>2. track'[u].pc = "end" => board'[u].state # "Done"
      BY <1>0, <2>2, Selected
    <3> QED  BY <3>1, <3>2 DEF Settled
  <2>3. CASE WorkerReports(u)
    <3>1. \E to \in TaskStates : Update(u, "InProgress", to, At("again"))
      BY <2>3 DEF WorkerReports, TaskStates
    <3>2. track[u].pc \in DOMAIN StateOf /\ "InProgress" = StateOf[track[u].pc]
      BY <2>3 DEF WorkerReports, StateOf
    <3> QED  BY <2>1, <3>1, <3>2, PlainTracks DEF TrackPc
  <2>4. CASE ReviewGates(u) \/ AcceptanceGates(u)
    <3>1. [At("fix") EXCEPT !.fixes = 1] \in TrackType /\ [At("fix") EXCEPT !.fixes = 1].pc = "fix"
      BY PlainTracks DEF TrackType, TrackPc, At
    <3>2. \E to \in TaskStates, rec \in {At("again"), [At("fix") EXCEPT !.fixes = 1]} :
            Update(u, StateOf[track[u].pc], to, rec)
      BY <2>4 DEF ReviewGates, AcceptanceGates, TaskStates, StateOf
    <3>3. track[u].pc \in DOMAIN StateOf
      BY <2>4 DEF ReviewGates, AcceptanceGates, StateOf
    <3> QED  BY <2>1, <3>1, <3>2, <3>3, PlainTracks DEF TrackPc
  <2>5. CASE AddFix(u) \/ DependOnFixes(u)
    <3>1. CASE CanAdd /\ AddFix(u)
      <4>1. track[u] \in TrackType /\ track'[u] = [track[u] EXCEPT !.fixes = @ - 1, !.made = @ \union {NewId(board)}]
        BY <1>0, <3>1 DEF AddFix, Go
      <4>2. track'[u].pc = "fix"
        BY <3>1, <4>1 DEF AddFix, TrackType
      <4> QED  BY <4>2 DEF Settled
    <3>2. CASE ~(CanAdd /\ AddFix(u))
      <4>1. track'[u].pc = "again"
        BY <1>0, <2>5, <3>2, PlainTracks DEF AddFix, DependOnFixes, Go, TrackPc
      <4> QED  BY <4>1 DEF Settled
    <3> QED  BY <3>1, <3>2
  <2>6. CASE BeginCommit(u) \/ SyncCommit(u) \/ SyncFails(u)
    <3>1. track' = track
      BY <2>6 DEF BeginCommit, SyncCommit, SyncFails
    <3>2. track[u].pc = "commit"
      BY <1>0, <1>6, <2>6, TrackRuns DEF BeginCommit
    <3> QED  BY <3>1, <3>2 DEF Settled
  <2>7. CASE NothingChanged(u) \/ CommitTask(u)
    <3>1. ~Syncing /\ commit' = Free /\ seen' = seen
      BY <2>7 DEF NothingChanged, CommitTask, CommitStep, Syncing
    <3>2. tree[Own[u]] = seen.latest[Own[u]]
      BY <1>0, <1>1, <3>1, LatestInTree DEF PutBack
    <3>3. head'[Own[u]] = tree[Own[u]]
      BY <1>0, <2>7 DEF NothingChanged, CommitTask, Committed, Onto, Changed, TypeOK, Content
    <3>4. Fallback' = head'
      BY <3>1 DEF Fallback
    <3>5. seen.accepted[u] <= seen.latest[Own[u]]
      BY <1>0 DEF Aged
    <3> QED  BY <1>0, <3>1, <3>2, <3>3, <3>4, <3>5
  <2>8. CASE Restore(u) \/ CommitFails(u)
    <3>1. track[u].pc = "commit"
      BY <1>0, <1>6, <2>8, TrackRuns
    <3>2. UNCHANGED track \/ Update(u, "Done", "Failed", At("end"))
      BY <2>8 DEF Restore, CommitFails
    <3>3. "Failed" \in TaskStates /\ At("end") \in TrackType
      BY PlainTracks DEF TaskStates, TrackPc
    <3>4. ~UNCHANGED track
      BY <3>1 DEF Settled
    <3> QED  BY <2>1, <3>1, <3>2, <3>3, <3>4 DEF StateOf
  <2> QED  BY <1>6, <2>2, <2>3, <2>4, <2>5, <2>6, <2>7, <2>8 DEF Track
<1>7. CASE Die
  BY <1>7 DEF Die, Clean
<1>8. CASE UserCommits
  <2>1. u \in DOMAIN board /\ Settled(u) /\ seen' = seen
    BY <1>8 DEF UserCommits, Settled
  <2>2. Fallback'[Own[u]] \in {Fallback[Own[u]], seen.latest[Own[u]]}
    BY <1>0, <1>8, FallbackKept
  <2>3. seen.accepted[u] <= seen.latest[Own[u]]
    BY <1>0 DEF Aged
  <2> QED  BY <1>0, <1>2, <2>1, <2>2, <2>3
<1>9. CASE (\E t \in TaskIds : Work(t) \/ OrphanEnds(t)) \/ (\E f \in Files : UserEdits(f))
  <2>1. UNCHANGED <<board, head, track, commit>> /\ seen'.accepted = seen.accepted
    BY <1>9 DEF Work, OrphanEnds, UserEdits, EditFile, Written, TypeOK
  <2> QED  BY <1>2, <2>1 DEF Settled, Fallback
<1>10. ASSUME NEW t \in TaskIds, UserMoves(t)
       PROVE  FALSE
  BY <1>10 DEF UserMoves, Clean
<1> QED  BY <1>3, <1>4, <1>5, <1>6, <1>7, <1>8, <1>9, <1>10 DEF Next, Environment

-----------------------------------------------------------------------------
(* What is committed is what the gates saw. *)

\* The steps that spoil a verdict say so; the others keep the verdicts of the other tasks.
LEMMA VerifiedKept ==
  ASSUME TypeOK, Placed, Deaths, ContentHeld, Standing, Verified, [Next]_vars
  PROVE  Verified'
<1> SUFFICES ASSUME excused' = {}, NEW u \in DOMAIN board'
             PROVE  Proven(u)'
  BY DEF Verified
<1>0. /\ u \in TaskIds /\ track \in [TaskIds -> TrackType] /\ BoardType(board)
      /\ seen \in [latest: Content, reviewed: [TaskIds -> Versions],
                   accepted: [TaskIds -> Versions], moves: Nat]
      /\ Own \in [TaskIds -> Files]
  BY TypesKept, LoopAssumption DEF TypeOK, BoardType
<1>1. excused = {} /\ Clean
  BY Excusing DEF Clean
<1>2. u \in DOMAIN board => Proven(u)
  BY <1>1 DEF Verified
<1>3. ~PutBack(Own[u]) => tree[Own[u]] = seen.latest[Own[u]]
  BY <1>0, <1>1, LatestInTree
<1>4. ASSUME seen'.latest[Own[u]] = seen.latest[Own[u]],
             seen'.reviewed[u] = seen.reviewed[u], seen'.accepted[u] = seen.accepted[u],
             Judged(u)' => u \in DOMAIN board /\ Judged(u) /\ board'[u].state = board[u].state
      PROVE  Proven(u)'
  BY <1>2, <1>4 DEF Proven
<1>5. CASE UNCHANGED vars
  BY <1>4, <1>5 DEF vars, Judged
<1>6. CASE Cycle
  <2>1. seen' = seen
    BY <1>6 DEF Cycle, Start, Plan, NothingToDo, CyclesUsedUp, CycleEnds, ReviewClears, ReviewBlocks
  <2>2. CASE ReviewBlocks
    <3>1. NewId(board) \in TaskIds /\ board' = Added(board, 1) /\ track' = track
      BY <2>2 DEF ReviewBlocks, CanAdd
    <3> QED  BY <1>0, <1>4, <2>1, <3>1, AddedTask DEF Judged
  <2>3. CASE Plan
    <3>1. board' = board /\ (track'[u].pc # "none" => board[u].state # "Done")
      <4> DEFINE planned == IF HasCycle(board) THEN {} ELSE PlanTasks(board, NoRun, MaxParallel, 0)
      <4>1. \A t \in planned : board[t].state # "Done"
        BY <1>0, <2>3, PlanOnBoard DEF Plan
      <4>2. board' = board /\ track' = [t \in TaskIds |-> IF t \in planned THEN At("first") ELSE Idle]
        BY <2>3 DEF Plan
      <4> HIDE DEF planned
      <4>3. u \notin planned => track'[u].pc = "none"
        BY <1>0, <4>2, PlainTracks DEF Idle, TrackPc
      <4> QED  BY <4>1, <4>2, <4>3
    <3> QED  BY <1>4, <2>1, <3>1 DEF Judged
  <2>4. CASE CycleEnds
    <3>1. board' = board /\ track'[u].pc = "none"
      BY <1>0, <2>4, PlainTracks DEF CycleEnds, Idle, TrackPc
    <3> QED  BY <1>4, <2>1, <3>1 DEF Judged
  <2>5. CASE Start \/ NothingToDo \/ CyclesUsedUp \/ ReviewClears
    <3>1. UNCHANGED <<board, track>>
      BY <2>5 DEF Start, NothingToDo, CyclesUsedUp, ReviewClears
    <3> QED  BY <1>4, <2>1, <3>1 DEF Judged
  <2> QED  BY <1>6, <2>2, <2>3, <2>4, <2>5 DEF Cycle
<1>7. ASSUME NEW t \in TaskIds, Track(t) \/ SyncFails(t) \/ CommitFails(t), u # t
      PROVE  Proven(u)'
  <2>1. /\ track'[u] = track[u]
        /\ (u \in DOMAIN board /\ board'[u] = board[u]) \/ board'[u].state = "Backlog"
    BY <1>0, <1>7, TrackSteps
  <2>2. /\ seen'.latest = seen.latest
        /\ seen'.reviewed[u] = seen.reviewed[u] /\ seen'.accepted[u] = seen.accepted[u]
    <3>1. CASE ReviewGates(t) \/ AcceptanceGates(t)
      BY <1>0, <1>7, <3>1 DEF ReviewGates, AcceptanceGates
    <3>2. CASE ~ReviewGates(t) /\ ~AcceptanceGates(t)
      <4>1. seen' = seen
        BY <1>7, <3>2 DEF Track, Select, WorkerReports, AddFix, DependOnFixes, NothingChanged,
                          BeginCommit, SyncCommit, SyncFails, Restore, CommitTask, CommitFails
      <4> QED  BY <4>1
    <3> QED  BY <3>1, <3>2
  <2> QED  BY <1>4, <2>1, <2>2 DEF Judged
<1>8. CASE Track(u) \/ SyncFails(u) \/ CommitFails(u)
  <2>0. Knows(u) /\ u \in DOMAIN board
    BY <1>0, <1>1, <1>8, TrackRuns DEF Standing
  <2>1. ASSUME NEW from, NEW to \in TaskStates \ {"Testing", "Done"}, NEW rec \in TrackType,
               Update(u, from, to, rec), seen' = seen
        PROVE  Proven(u)'
    <3>1. (board'[u] = board[u] /\ track'[u].pc = "end") \/ board'[u].state = to
      BY <2>0, <2>1, Updated, PlainTracks DEF TrackPc
    <3> QED  BY <1>4, <2>0, <2>1, <3>1 DEF Judged
  <2>2. CASE Select(u)
    <3>1. \/ board' = board
          \/ board'[u].state = "InProgress"
      BY <1>0, <2>2, Selected
    <3>2. seen' = seen /\ track[u].pc \in {"first", "again"}
      BY <2>2 DEF Select
    <3> QED  BY <1>4, <2>0, <3>1, <3>2 DEF Judged
  <2>3. CASE WorkerReports(u)
    <3>1. seen' = seen /\ \E to \in {"Review", "Failed"} : Update(u, "InProgress", to, At("again"))
      BY <2>3 DEF WorkerReports
    <3> QED  BY <2>1, <3>1, PlainTracks DEF TrackPc, TaskStates
  <2>4. CASE ReviewGates(u)
    <3>1. [At("fix") EXCEPT !.fixes = 1] \in TrackType
      BY PlainTracks DEF TrackType, TrackPc, At
    <3>2. ASSUME NEW rec \in TrackType, Update(u, "Review", "Failed", rec), seen' = seen
          PROVE  Proven(u)'
      BY <2>1, <3>2 DEF TaskStates
    <3>3. ASSUME Update(u, "Review", "Testing", At("again")), seen' = [seen EXCEPT !.reviewed[u] = tree[Own[u]]]
          PROVE  Proven(u)'
      <4>1. board[u].state = "Review"
        BY <2>0, <2>4 DEF ReviewGates, Knows, StateOf
      <4>2. board'[u].state = "Testing"
        BY <2>0, <3>3, <4>1, Updated, PlainTracks DEF TaskStates, TrackPc
      <4>3. ~PutBack(Own[u])
        BY <2>4 DEF ReviewGates, GatedInSync
      <4>4. seen'.reviewed[u] = tree[Own[u]] /\ seen'.latest = seen.latest
        BY <1>0, <3>3
      <4> QED  BY <1>3, <4>2, <4>3, <4>4 DEF Proven, Judged
    <3> QED  BY <2>4, <3>1, <3>2, <3>3, PlainTracks DEF ReviewGates, TrackPc
  <2>5. CASE AcceptanceGates(u)
    <3>1. ASSUME Update(u, "Testing", "Failed", At("again")), seen' = seen
          PROVE  Proven(u)'
      BY <2>1, <3>1, PlainTracks DEF TaskStates, TrackPc
    <3>2. ASSUME Update(u, "Testing", "Done", At("again")), seen' = [seen EXCEPT !.accepted[u] = tree[Own[u]]]
          PROVE  Proven(u)'
      <4>1. board[u].state = "Testing"
        BY <2>0, <2>5 DEF AcceptanceGates, Knows, StateOf
      <4>2. board'[u].state = "Done"
        BY <2>0, <3>2, <4>1, Updated, PlainTracks DEF TaskStates, TrackPc
      <4>3. ~PutBack(Own[u])
        BY <2>5 DEF AcceptanceGates, GatedInSync
      <4>4. /\ seen'.accepted[u] = tree[Own[u]] /\ seen'.latest = seen.latest
            /\ seen'.reviewed = seen.reviewed
        BY <1>0, <3>2
      <4>5. seen.reviewed[u] = seen.latest[Own[u]]
        BY <1>2, <2>0, <4>1 DEF Proven, Judged
      <4> QED  BY <1>3, <4>2, <4>3, <4>4, <4>5 DEF Proven
    <3> QED  BY <2>5, <3>1, <3>2 DEF AcceptanceGates
  <2>6. CASE AddFix(u)
    <3>1. board' = board \/ (NewId(board) \in TaskIds /\ \E p \in 0..3 : board' = Added(board, p))
      BY <2>6, LoopAssumption DEF AddFix, CanAdd
    <3>2. board'[u] = board[u] /\ seen' = seen
      BY <1>0, <2>0, <2>6, <3>1, AddedTask DEF AddFix
    <3> QED  BY <1>4, <2>0, <2>6, <3>2 DEF AddFix, Judged
  <2>7. CASE DependOnFixes(u)
    <3>1. board' = [board EXCEPT ![u].deps = track[u].made] /\ seen' = seen
      BY <2>7 DEF DependOnFixes
    <3>2. board'[u].state = board[u].state
      BY <1>0, <2>0, <3>1 DEF BoardType, TaskType
    <3> QED  BY <1>4, <2>0, <2>7, <3>1, <3>2 DEF DependOnFixes, Judged
  <2>8. CASE NothingChanged(u) \/ BeginCommit(u) \/ SyncCommit(u) \/ SyncFails(u) \/ CommitTask(u)
    <3>1. UNCHANGED <<board, seen>> /\ (track'[u] = track[u] \/ track'[u].pc = "end")
      BY <1>0, <2>8, PlainTracks DEF NothingChanged, BeginCommit, SyncCommit, SyncFails, CommitTask, Go, TrackPc
    <3> QED  BY <1>4, <2>0, <3>1 DEF Judged
  <2>9. CASE Restore(u) \/ CommitFails(u)
    <3>1. seen' = seen /\ (UNCHANGED <<board, track>> \/ Update(u, "Done", "Failed", At("end")))
      BY <2>9 DEF Restore, CommitFails
    <3> QED  BY <1>4, <2>0, <2>1, <3>1, PlainTracks DEF TaskStates, TrackPc, Judged
  <2> QED  BY <1>8, <2>2, <2>3, <2>4, <2>5, <2>6, <2>7, <2>8, <2>9 DEF Track
<1>9. CASE Die \/ (\E t \in TaskIds : UserMoves(t)) \/ (\E f \in Files : UserEdits(f))
  BY <1>9 DEF Die, UserMoves, UserEdits
<1>10. CASE UserCommits \/ \E t \in TaskIds : OrphanEnds(t)
  <2>1. UNCHANGED <<board, track, seen>>
    BY <1>10 DEF UserCommits, OrphanEnds
  <2> QED  BY <1>4, <2>1 DEF Judged
<1>11. ASSUME NEW t \in TaskIds, Work(t)
       PROVE  Proven(u)'
  <2>1. t \notin orphans /\ track[t].pc = "work" /\ UNCHANGED <<board, track>> /\ SpoiltBy(t) = {}
    BY <1>11 DEF Work
  <2>2. board[t].state = "InProgress"
    BY <1>1, <2>1 DEF Standing, Knows, StateOf
  <2>3. CASE Judged(u)
    <3>1. Own[u] # Own[t] /\ Own[u] \in Files /\ Own[t] \in Files
      BY <1>0, <2>1, <2>2, <2>3 DEF SpoiltBy, Judged
    <3>2. /\ seen'.latest[Own[u]] = seen.latest[Own[u]]
          /\ seen'.reviewed = seen.reviewed /\ seen'.accepted = seen.accepted
      BY <1>11, <3>1, Edited DEF Work, EditFile
    <3> QED  BY <1>4, <2>1, <2>3, <3>2
  <2>4. CASE ~Judged(u)
    BY <2>1, <2>4 DEF Proven, Judged
  <2> QED  BY <2>3, <2>4
<1> QED  BY <1>5, <1>6, <1>7, <1>8, <1>9, <1>10, <1>11 DEF Next, Environment

-----------------------------------------------------------------------------
(* The theorems. *)

LEMMA InitInv == Init => LoopInv
<1> SUFFICES ASSUME Init PROVE LoopInv
  OBVIOUS
<1>0. BoardType(board) /\ \A t \in DOMAIN board : board[t].fails <= 2 /\ board[t].fails \in Nat
  BY BoardsAssumption DEF Init, BoardType, TaskType
<1>1. \A t \in TaskIds : track[t].pc = "none"
  BY PlainTracks DEF Init, Idle, TrackPc
<1>2. TypeOK
  <2>1. track \in [TaskIds -> TrackType]
    BY PlainTracks DEF Init, Idle, TrackPc
  <2>2. tree \in Content /\ head \in Content
    BY Numbers DEF Init, Content
  <2>3. loop \in [pc: {"dead", "plan", "tracks", "review", "over"}, cycle: 0..MaxCycles, last: BOOLEAN]
    BY Numbers DEF Init
  <2>4. /\ count \in [edits: Versions, starts: Nat, faults: 0..MaxFaults]
        /\ seen \in [latest: Content, reviewed: [TaskIds -> Versions],
                     accepted: [TaskIds -> Versions], moves: Nat]
    BY <2>2, Numbers DEF Init
  <2> QED  BY <1>0, <2>1, <2>2, <2>3, <2>4 DEF Init, TypeOK
<1>3. Placed /\ Deaths
  BY <1>1 DEF Init, Placed, Deaths, Syncing
<1>4. Counted
  BY <1>0, <1>1 DEF Init, Counted, WithinLimit, MayFail, Limit, BoardType
<1>5. ContentHeld
  BY DEF Init, ContentHeld, PutBack, Syncing
<1>6. Aged
  BY LoopAssumption DEF Init, Aged
<1>7. Standing
  BY <1>1 DEF Standing, Knows, StateOf
<1>8. Backed
  BY <1>0, LoopAssumption DEF Init, Backed, Fallback, BoardType
<1>9. Verified
  BY <1>0, LoopAssumption DEF Init, Verified, Proven, BoardType
<1> QED  BY <1>2, <1>3, <1>4, <1>5, <1>6, <1>7, <1>8, <1>9 DEF LoopInv

LEMMA InvKept == LoopInv /\ [Next]_vars => LoopInv'
<1> SUFFICES ASSUME LoopInv, [Next]_vars PROVE LoopInv'
  OBVIOUS
<1> USE DEF LoopInv
<1>1. TypeOK'
  BY TypesKept
<1>2. Placed'
  BY PlacedKept
<1>3. Deaths'
  BY Excusing
<1>4. Counted'
  BY CountedKept
<1>5. ContentHeld' /\ Aged'
  BY ContentKept, AgedKept
<1>6. Standing'
  BY StandingKept
<1>7. Backed'
  BY BackedKept
<1>8. Verified'
  BY VerifiedKept
<1> QED  BY <1>1, <1>2, <1>3, <1>4, <1>5, <1>6, <1>7, <1>8

LEMMA InvHolds == Spec => []LoopInv
BY InitInv, InvKept, PTL DEF Spec

\* The board, the working tree, the commit under way and the baselines have their types.
THEOREM TypeCorrect == Spec => []TypeOK
<1>1. LoopInv => TypeOK
  BY DEF LoopInv
<1> QED  BY <1>1, InvHolds, PTL

\* "Same task failed three times" (detectStopCondition): over any number of starts, cycles
\* and tasks, a task fails at most once more per start than the limit.
THEOREM FailuresStopTheLoop == Spec => []FailuresBounded
<1>1. LoopInv => FailuresBounded
  BY DEF LoopInv, Counted, WithinLimit, Limit, FailuresBounded
<1> QED  BY <1>1, InvHolds, PTL

\* autoCommitTask puts back every content it took out of the tree around its sync commit,
\* whatever fails: no edit is lost but one made, or cut off by a death, in the window.
THEOREM NoEditLost == Spec => []EditsKept
<1>1. LoopInv => EditsKept
  <2> SUFFICES ASSUME LoopInv, ~Syncing, excused \intersect {"edited-in-sync", "died-in-sync"} = {}
               PROVE  tree = seen.latest
    BY DEF EditsKept
  <2>1. \A f \in Files : tree[f] = seen.latest[f]
    BY DEF LoopInv, ContentHeld, PutBack
  <2>2. tree \in Content /\ seen.latest \in Content
    BY DEF LoopInv, TypeOK
  <2> QED  BY <2>1, <2>2 DEF Content
<1> QED  BY <1>1, InvHolds, PTL

\* A task that stays Done has the content its acceptance gates saw, or a later one, at HEAD.
THEOREM DoneStaysCommitted == Spec => []DoneIsCommitted
<1>1. LoopInv => DoneIsCommitted
  BY DEF LoopInv, Backed, Clean, Settled, Fallback, DoneIsCommitted
<1> QED  BY <1>1, InvHolds, PTL

\* The commit of a task has the content that its review and its acceptance gates passed:
\* only another task's worker, an orphan, a user, a death or a sync under way undoes that.
THEOREM GatesCoverTheCommit == Spec => CommittedAsVerified
<1>1. LoopInv /\ [Next]_vars =>
        [\A t \in TaskIds : CommitTask(t) /\ excused = {} =>
           tree[Own[t]] = seen.accepted[t] /\ seen.accepted[t] = seen.reviewed[t]]_vars
  <2> SUFFICES ASSUME LoopInv, [Next]_vars, NEW t \in TaskIds, CommitTask(t), excused = {}
               PROVE  tree[Own[t]] = seen.accepted[t] /\ seen.accepted[t] = seen.reviewed[t]
    OBVIOUS
  <2> USE DEF LoopInv
  <2>1. track[t].pc = "commit" /\ t \in DOMAIN board
    BY TrackRuns DEF Track
  <2>2. board[t].state = "Done"
    BY <2>1 DEF Standing, Knows, StateOf
  <2>3. Proven(t)
    BY <2>1 DEF Verified
  <2>4. ~PutBack(Own[t])
    BY DEF CommitTask, CommitStep, PutBack, Syncing
  <2>5. tree[Own[t]] = seen.latest[Own[t]]
    BY <2>4, LatestInTree, LoopAssumption DEF Clean
  <2> QED  BY <2>1, <2>2, <2>3, <2>5 DEF Proven, Judged
<1> QED  BY <1>1, InvHolds, PTL DEF Spec, CommittedAsVerified
====
