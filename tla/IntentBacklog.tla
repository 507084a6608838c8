---- MODULE IntentBacklog ----
(***************************************************************************)
(* Human intent to backlog: the intent board (lib/human-board.mjs), a list *)
(* of checkbox lines with the newest on top, and planFromGoal              *)
(* (lib/goal-backlog.mjs), which plan-from-goal --apply and "orchestrate   *)
(* plan" run. A planner reads the open lines without a lock, writes the    *)
(* candidate backlog, looks the goal up in the sprint state and adds a     *)
(* task, each in a step of its own, and only then marks the lines it read  *)
(* as handled, by their text: meanwhile other planners run, intents are    *)
(* appended above and the user edits lines. A planner may die anywhere.    *)
(*                                                                         *)
(* A line is known by its whole text, timestamp included: the constants    *)
(* give the kind and the goal's wording of each such text. Locks only      *)
(* serialise the appends, the marks and the adds, which are single steps.  *)
(* The journal entry a successful planner appends last is left out.        *)
(***************************************************************************)
EXTENDS Integers, FiniteSets, SequencesExt

CONSTANTS
  Planners,     \* processes running planFromGoal with apply
  Lines,        \* the texts, timestamps included, that instruction lines may have
  Kind,         \* [Lines -> {"objective", "note"}]: every other type is carried like a note
  Wording,      \* the text of a line without its type and timestamp, by line
  MaxLines,     \* the longest board
  MaxFaults     \* lines the user rewrites by hand, planners that die half-way

\* What the constants must be; the harness assumes it of its instance.
IntentAssumption ==
  Kind \in [Lines -> {"objective", "note"}] /\ DOMAIN Wording = Lines
  /\ MaxLines \in Nat /\ MaxFaults \in Nat

VARIABLES
  board,        \* the lines of the Instructions section, newest first
  tasks,        \* the source of each task of the sprint state, whatever its state
  candidate,    \* candidate-backlog.json
  planner,      \* [Planners -> what a planner is doing and what it read]
  faults,
  superseded    \* history: the objectives read beside the one a planner chose

vars == <<board, tasks, candidate, planner, faults, superseded>>

Idle == [pc |-> "idle", read |-> <<>>, source |-> <<>>, conflict |-> FALSE]

Line(text) == [text |-> text, handled |-> FALSE]

\* The elements of q that are in S, in their order.
Kept(q, S) ==
  LET upTo[n \in 0..Len(q)] ==
        IF n = 0 THEN <<>> ELSE IF q[n] \in S THEN Append(upTo[n - 1], q[n]) ELSE upTo[n - 1]
  IN upTo[Len(q)]

OfKind(read, kind) == Kept(read, {i \in ToSet(read) : Kind[i.text] = kind})

\* The open instructions, with their line numbers, from the top of the board.
Instructions(b) ==
  LET lines == [n \in 1..Len(b) |-> [line |-> n, text |-> b[n].text, handled |-> b[n].handled]]
  IN Kept(lines, {i \in ToSet(lines) : ~i.handled})

Objectives(read) == OfKind(read, "objective")

\* latestOfType: the last objective of the list.
Chosen(read) == Last(Objectives(read)).text

\* The hashed wording of the goal and of what comes with it, in the order of the board.
Source(read) ==
  LET notes == OfKind(read, "note")
  IN [goal  |-> Wording[Chosen(read)],
      notes |-> [n \in 1..Len(notes) |-> Wording[notes[n].text]]]

Sources == ToSet(tasks)

Init ==
  /\ board = <<>>
  /\ tasks = <<>>
  /\ candidate = [status |-> "none", source |-> <<>>]
  /\ planner = [p \in Planners |-> Idle]
  /\ faults = 0
  /\ superseded = {}

-----------------------------------------------------------------------------
(* The session manager, the user and the loop. *)

\* appendHumanIntent: on top of the section. Timestamps make a text new.
AppendIntent(text) ==
  /\ Len(board) < MaxLines
  /\ \A n \in DOMAIN board : board[n].text # text
  /\ board' = <<Line(text)>> \o board
  /\ UNCHANGED <<tasks, candidate, planner, faults, superseded>>

\* The user rewrites an open line, perhaps into a copy of another.
RewriteLine(n, text) ==
  /\ faults < MaxFaults /\ faults' = faults + 1
  /\ ~board[n].handled /\ board[n].text # text
  /\ board' = [board EXCEPT ![n] = Line(text)]
  /\ UNCHANGED <<tasks, candidate, planner, superseded>>

-----------------------------------------------------------------------------
(* planFromGoal. *)

\* Without an open objective it returns NO_OBJECTIVE_INTENT: no step.
ReadIntents(p) ==
  LET read == Instructions(board) IN
  /\ planner[p].pc = "idle"
  /\ Objectives(read) # <<>>
  /\ planner' = [planner EXCEPT ![p] = [Idle EXCEPT !.pc = "built", !.read = read,
                                                    !.source = Source(read)]]
  /\ superseded' = superseded \union ({i.text : i \in ToSet(Objectives(read))} \ {Chosen(read)})
  /\ UNCHANGED <<board, tasks, candidate, faults>>

\* Without --apply the command ends here.
WriteCandidate(p) ==
  /\ planner[p].pc = "built"
  /\ candidate' = [status |-> "candidate", source |-> planner[p].source]
  /\ \E apply \in BOOLEAN :
       planner' = [planner EXCEPT ![p] = IF apply THEN [@ EXCEPT !.pc = "lookup"] ELSE Idle]
  /\ UNCHANGED <<board, tasks, faults, superseded>>

\* The task of an earlier plan of the same goal is taken, whatever its state.
LookUpTask(p) ==
  /\ planner[p].pc = "lookup"
  /\ planner' = [planner EXCEPT ![p].pc = IF planner[p].source \in Sources THEN "mark" ELSE "add"]
  /\ UNCHANGED <<board, tasks, candidate, faults, superseded>>

\* Mutant: the lookup under the lock of the state file is left out.
NeedsTaskStale(source) == TRUE

\* sprint-board add --reuse-source-title: looked up again under the lock of the state file.
NeedsTask(source) == source \notin Sources

AddTask(p) ==
  /\ planner[p].pc = "add"
  /\ tasks' = IF NeedsTask(planner[p].source)
              THEN Append(tasks, planner[p].source) ELSE tasks
  /\ planner' = [planner EXCEPT ![p].pc = "mark"]
  /\ UNCHANGED <<board, candidate, faults, superseded>>

\* The command fails (the lock is taken): BACKLOG_APPLY_FAILED, nothing is marked.
AddFails(p) ==
  /\ planner[p].pc = "add"
  /\ planner' = [planner EXCEPT ![p] = Idle]
  /\ UNCHANGED <<board, tasks, candidate, faults, superseded>>

\* Mutant: a line is known by its number.
FoundByLine(i, claimed) ==
  {n \in {i.line} \intersect DOMAIN board : ~board[n].handled /\ n \notin claimed}

\* The line an instruction is found at: where it was read, or where its text stands alone.
Found(i, claimed) ==
  LET same == {n \in (DOMAIN board) \ claimed : ~board[n].handled /\ board[n].text = i.text}
  IN IF i.line \in same THEN {i.line}
     ELSE IF Cardinality(same) = 1 THEN same ELSE {}

\* Where it is handled already, unless open copies of it make it ambiguous.
FoundHandled(i, claimed) ==
  LET same(h) == {n \in (DOMAIN board) \ claimed : board[n].handled = h /\ board[n].text = i.text}
  IN IF same(FALSE) = {} /\ Cardinality(same(TRUE)) = 1 THEN same(TRUE) ELSE {}

\* One instruction is looked for, in what is not claimed by those before it.
MarkOne(acc, i) ==
  LET found == Found(i, acc.claimed)
      seen  == FoundHandled(i, acc.claimed)
  IN IF found # {} THEN [acc EXCEPT !.marked = @ \union found, !.claimed = @ \union found]
     ELSE IF seen # {} THEN [acc EXCEPT !.claimed = @ \union seen]
     ELSE [acc EXCEPT !.conflict = TRUE]

\* markHumanBoardInstructionsHandled: one instruction after the other.
Marking(read) ==
  LET upTo[n \in 0..Len(read)] ==
        IF n = 0 THEN [marked |-> {}, claimed |-> {}, conflict |-> FALSE]
        ELSE MarkOne(upTo[n - 1], read[n])
  IN upTo[Len(read)]

MarkHandled(p) ==
  LET m == Marking(planner[p].read) IN
  /\ planner[p].pc = "mark"
  /\ board' = [n \in DOMAIN board |-> IF n \in m.marked THEN [board[n] EXCEPT !.handled = TRUE]
                                      ELSE board[n]]
  /\ planner' = [planner EXCEPT ![p].pc = "close", ![p].conflict = m.conflict]
  /\ UNCHANGED <<tasks, candidate, faults, superseded>>

\* The last write of the candidate backlog; with conflicts the command fails
\* with INTENT_RECONCILIATION_REQUIRED.
Close(p) ==
  /\ planner[p].pc = "close"
  /\ candidate' = [status |-> IF planner[p].conflict THEN "needs-reconciliation" ELSE "applied",
                   source |-> planner[p].source]
  /\ planner' = [planner EXCEPT ![p] = Idle]
  /\ UNCHANGED <<board, tasks, faults, superseded>>

Die(p) ==
  /\ faults < MaxFaults /\ faults' = faults + 1
  /\ planner[p].pc # "idle"
  /\ planner' = [planner EXCEPT ![p] = Idle]
  /\ UNCHANGED <<board, tasks, candidate, superseded>>

-----------------------------------------------------------------------------
PlannerNext(p) ==
  \/ ReadIntents(p) \/ WriteCandidate(p) \/ LookUpTask(p)
  \/ AddTask(p) \/ AddFails(p) \/ MarkHandled(p) \/ Close(p) \/ Die(p)

Next ==
  \/ \E text \in Lines : AppendIntent(text)
  \/ \E n \in DOMAIN board, text \in Lines : RewriteLine(n, text)
  \/ \E p \in Planners : PlannerNext(p)

Spec == Init /\ [][Next]_vars

-----------------------------------------------------------------------------
(* A line in the wording a task's source carries. *)
CarriedBy(text, source) ==
  IF Kind[text] = "objective" THEN source.goal = Wording[text]
  ELSE Wording[text] \in ToSet(source.notes)

\* Nothing a human asked for disappears: what is marked handled is in the notes
\* or the goal of some task, however lines moved, were added or were rewritten
\* between the planner's reading and its marking, or a planner died. The one
\* exception is an objective that stood beside the one a planner chose.
HandledIsCarried ==
  \A n \in DOMAIN board : board[n].handled /\ board[n].text \notin superseded =>
    \E s \in Sources : CarriedBy(board[n].text, s)

\* One goal, read by several planners or planned again after a death, has one task.
OneTaskPerGoal ==
  \A n, m \in DOMAIN tasks : tasks[n] = tasks[m] => n = m

\* "plan-from-goal --apply writes candidate items into sprint state and marks
\* the consumed human-board intent [x]" (va-auto-pilot-protocol.md): an
\* objective that is marked has become an item. It does not hold: of several
\* open objectives one is planned, the oldest, and all are marked.
HandledIsPlanned ==
  \A n \in DOMAIN board : board[n].handled =>
    \E s \in Sources : CarriedBy(board[n].text, s)
====
