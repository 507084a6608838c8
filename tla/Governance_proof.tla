---- MODULE Governance_proof ----
(***************************************************************************)
(* What the parts around a run promise, for any values of their constants. *)
(* A behaviour of Governance is one of the part it chose (Apart), so that  *)
(* each part has an inductive invariant of its own, in a section of its    *)
(* own, and Governance's invariants follow from it.                        *)
(***************************************************************************)
EXTENDS Governance, WellFoundedInduction, TLAPS

\* A behaviour stays with the part it chose, and takes only that part's steps.
LEMMA Apart ==
  /\ Init => /\ which = "intents" => Intents!Init
             /\ which = "lessons" => Lesson!Init
             /\ which = "gates" => Gate!Init
             /\ which = "plans" => Plan!Init
             /\ which = "install" => Install!Init
             /\ which = "agents" => Runner!Init
             /\ which = "store" => Upkeep!Init
             /\ which = "index" => Index!Init
  /\ [Next]_vars => /\ which' = which
                    /\ which = "intents" => [Intents!Next]_intentVars
                    /\ which = "lessons" => [Lesson!Next]_lessonVars
                    /\ which = "gates" => [Gate!Next]_gateVars
                    /\ which = "plans" => [Plan!Next]_planVars
                    /\ which = "install" => [Install!Next]_installVars
                    /\ which = "agents" => [Runner!Next]_agentVars
                    /\ which = "store" => [Upkeep!Next]_storeVars
                    /\ which = "index" => [Index!Next]_indexVars
<1>1. Init => /\ which = "intents" => Intents!Init
              /\ which = "lessons" => Lesson!Init
              /\ which = "gates" => Gate!Init
              /\ which = "plans" => Plan!Init
              /\ which = "install" => Install!Init
              /\ which = "agents" => Runner!Init
              /\ which = "store" => Upkeep!Init
              /\ which = "index" => Index!Init
  BY DEF Init
<1>2. [Next]_vars => /\ which' = which
                     /\ which = "intents" => [Intents!Next]_intentVars
                     /\ which = "lessons" => [Lesson!Next]_lessonVars
                     /\ which = "gates" => [Gate!Next]_gateVars
                     /\ which = "plans" => [Plan!Next]_planVars
                     /\ which = "install" => [Install!Next]_installVars
                     /\ which = "agents" => [Runner!Next]_agentVars
                     /\ which = "store" => [Upkeep!Next]_storeVars
                     /\ which = "index" => [Index!Next]_indexVars
  BY DEF Next, vars
<1> QED
  BY <1>1, <1>2

-----------------------------------------------------------------------------
(* The intents: a goal that has a task is not given another one, since the   *)
(* task is looked up again in the step that adds it.                         *)

TasksApart == tasks \in Seq(Intents!Sources) /\ Intents!OneTaskPerGoal

LEMMA IntentsBegin == Intents!Init => TasksApart
  BY DEF Intents!Init, TasksApart, Intents!Sources, Intents!ToSet, Intents!OneTaskPerGoal

LEMMA IntentsStep == TasksApart /\ [Intents!Next]_intentVars => TasksApart'
<1> SUFFICES ASSUME TasksApart, [Intents!Next]_intentVars PROVE TasksApart'
  OBVIOUS
<1>1. CASE tasks' = tasks
  BY <1>1 DEF TasksApart, Intents!Sources, Intents!ToSet, Intents!OneTaskPerGoal
<1>2. ASSUME NEW e, e \notin Intents!Sources, tasks' = Append(tasks, e)
      PROVE  TasksApart'
  <2> DEFINE S == Intents!Sources
  <2>1. tasks \in Seq(S \cup {e})
    BY DEF TasksApart
  <2> HIDE DEF S
  <2>2. /\ tasks' \in Seq(S \cup {e}) /\ Len(tasks') = Len(tasks) + 1
        /\ DOMAIN tasks = 1..Len(tasks) /\ DOMAIN tasks' = 1..(Len(tasks) + 1) /\ Len(tasks) \in Nat
        /\ tasks'[Len(tasks) + 1] = e /\ \A n \in 1..Len(tasks) : tasks'[n] = tasks[n]
    BY <1>2, <2>1
  <2>3. S = {tasks[n] : n \in DOMAIN tasks} /\ Intents!Sources' = {tasks'[n] : n \in DOMAIN tasks'}
    BY DEF S, Intents!Sources, Intents!ToSet
  <2>4. \A n \in 1..Len(tasks) : tasks[n] \in S
    BY <2>2, <2>3
  <2>5. Intents!OneTaskPerGoal'
    <3> SUFFICES ASSUME NEW n \in DOMAIN tasks', NEW m \in DOMAIN tasks', tasks'[n] = tasks'[m]
                 PROVE  n = m
      BY DEF Intents!OneTaskPerGoal
    <3>1. CASE n \in 1..Len(tasks) /\ m \in 1..Len(tasks)
      BY <2>2, <3>1 DEF TasksApart, Intents!OneTaskPerGoal
    <3>2. CASE n = Len(tasks) + 1 /\ m = Len(tasks) + 1
      BY <3>2
    <3>3. CASE n = Len(tasks) + 1 /\ m \in 1..Len(tasks)
      BY <1>2, <2>2, <2>4, <3>3 DEF S
    <3>4. CASE m = Len(tasks) + 1 /\ n \in 1..Len(tasks)
      BY <1>2, <2>2, <2>4, <3>4 DEF S
    <3> QED
      BY <2>2, <3>1, <3>2, <3>3, <3>4
  <2>6. tasks' \in Seq(Intents!Sources')
    <3>1. \A n \in 1..Len(tasks') : tasks'[n] \in Intents!Sources'
      BY <2>2, <2>3
    <3> QED
      BY <2>2, <3>1
  <2> QED
    BY <2>5, <2>6 DEF TasksApart
<1>3. CASE UNCHANGED intentVars
  BY <1>1, <1>3 DEF intentVars
<1>4. ASSUME NEW p \in Processes, Intents!AddTask(p)
      PROVE  TasksApart'
  BY <1>1, <1>2, <1>4 DEF Intents!AddTask, Intents!NeedsTask
<1>5. ASSUME NEW p \in Processes, Intents!PlannerNext(p), ~Intents!AddTask(p)
      PROVE  TasksApart'
  <2>1. tasks' = tasks
    BY <1>5 DEF Intents!PlannerNext, Intents!ReadIntents, Intents!WriteCandidate, Intents!LookUpTask,
           Intents!AddFails, Intents!MarkHandled, Intents!Close, Intents!Die
  <2> QED
    BY <1>1, <2>1
<1>6. CASE \/ \E text \in Lines : Intents!AppendIntent(text)
           \/ \E n \in DOMAIN board, text \in Lines : Intents!RewriteLine(n, text)
  BY <1>1, <1>6 DEF Intents!AppendIntent, Intents!RewriteLine
<1> QED
  BY <1>3, <1>4, <1>5, <1>6 DEF Intents!Next

LEMMA IntentsHold == Spec => [](which = "intents" => TasksApart)
<1>1. Init => (which = "intents" => TasksApart)
  BY Apart, IntentsBegin
<1>2. (which = "intents" => TasksApart) /\ [Next]_vars => (which = "intents" => TasksApart)'
  BY Apart, IntentsStep
<1> QED BY <1>1, <1>2, PTL DEF Spec

\* A goal has one task, although planners overlap, die and start again
\* (planFromGoal and sprint-board add --reuse-source-title).
THEOREM GoalsHaveOneTask == Spec => []OneTaskPerGoal
<1>1. (which = "intents" => TasksApart) => OneTaskPerGoal
  BY DEF TasksApart, OneTaskPerGoal
<1> QED BY <1>1, IntentsHold, PTL

-----------------------------------------------------------------------------
(* What the operators on lists of instructions return. They are defined by   *)
(* recursion over the list, so that induction over its length is needed.     *)

\* Of the natural numbers in a set, one is the least.
LEMMA Least ==
  ASSUME NEW T, T \subseteq Nat, T # {}
  PROVE  \E x \in T : \A y \in T : x <= y
<1>1. IsWellFoundedOn(OpToRel(<, Nat), Nat)
  BY NatLessThanWellFounded
<1>2. PICK x \in T : \A y \in T : ~(<<y, x>> \in OpToRel(<, Nat))
  BY <1>1, WFMin
<1>3. \A y \in T : ~(y < x)
  BY <1>2 DEF OpToRel
<1> QED
  BY <1>3

\* A set that 0 is in, and every successor of what is in it, holds the naturals.
LEMMA Induction ==
  ASSUME NEW S, 0 \in S, \A n \in Nat : n \in S => n + 1 \in S
  PROVE  Nat \subseteq S
<1> SUFFICES ASSUME Nat \ S # {} PROVE FALSE
  OBVIOUS
<1>1. PICK x \in Nat \ S : \A y \in Nat \ S : x <= y
  BY Least
<1>2. x # 0
  BY <1>1
<1>3. x - 1 \in Nat /\ x - 1 \in S
  BY <1>1, <1>2
<1> QED
  BY <1>3, <1>1

\* A function that begins with a, and takes what F makes of each value for the next.
LEMMA Recursion ==
  ASSUME NEW A, NEW a \in A, NEW N \in Nat, NEW F \in [1..N -> [A -> A]]
  PROVE  \E g \in [0..N -> A] : g[0] = a /\ \A n \in 1..N : g[n] = F[n][g[n - 1]]
<1> DEFINE Exists(k) == \E g \in [0..k -> A] : g[0] = a /\ \A n \in 1..k : g[n] = F[n][g[n - 1]]
<1> DEFINE S == {k \in Nat : k <= N => Exists(k)}
<1>1. 0 \in S
  <2> DEFINE g == [n \in 0..0 |-> a]
  <2>1. g \in [0..0 -> A] /\ g[0] = a /\ 1..0 = {}
    OBVIOUS
  <2> QED
    BY <2>1
<1>2. ASSUME NEW k \in Nat, k \in S PROVE k + 1 \in S
  <2> SUFFICES ASSUME k + 1 <= N PROVE Exists(k + 1)
    OBVIOUS
  <2>1. PICK g \in [0..k -> A] : g[0] = a /\ \A n \in 1..k : g[n] = F[n][g[n - 1]]
    BY <1>2
  <2> DEFINE h == [n \in 0..(k + 1) |-> IF n = k + 1 THEN F[k + 1][g[k]] ELSE g[n]]
  <2>2. g[k] \in A /\ k + 1 \in 1..N
    BY <2>1
  <2>3. F[k + 1][g[k]] \in A
    BY <2>2
  <2>4. h \in [0..(k + 1) -> A]
    BY <2>1, <2>3
  <2>5. h[0] = a
    BY <2>1
  <2>6. ASSUME NEW n \in 1..(k + 1) PROVE h[n] = F[n][h[n - 1]]
    <3>1. n - 1 \in 0..(k + 1) /\ n - 1 # k + 1 /\ n \in 0..(k + 1)
      OBVIOUS
    <3>2. h[n - 1] = g[n - 1]
      BY <3>1
    <3>3. CASE n = k + 1
      <4>1. h[n] = F[k + 1][g[k]] /\ n - 1 = k
        BY <3>1, <3>3
      <4> QED
        BY <3>2, <3>3, <4>1
    <3>4. CASE n # k + 1
      <4>1. n \in 1..k /\ h[n] = g[n]
        BY <3>1, <3>4
      <4> QED
        BY <2>1, <3>2, <4>1
    <3> QED
      BY <3>3, <3>4
  <2> QED
    BY <2>4, <2>5, <2>6
<1>3. Nat \subseteq S
  <2> HIDE DEF S
  <2> QED
    BY <1>1, <1>2, Induction
<1> QED
  BY <1>3

LEMMA AppendSet ==
  ASSUME NEW X, NEW q \in Seq(X), NEW e \in X
  PROVE  Append(q, e) \in Seq(X) /\ Intents!ToSet(Append(q, e)) = Intents!ToSet(q) \cup {e}
<1>1. /\ Append(q, e) \in Seq(X) /\ Len(q) \in Nat /\ DOMAIN q = 1..Len(q)
      /\ DOMAIN Append(q, e) = 1..(Len(q) + 1) /\ Append(q, e)[Len(q) + 1] = e
      /\ \A i \in 1..Len(q) : Append(q, e)[i] = q[i]
  OBVIOUS
<1>2. Intents!ToSet(Append(q, e)) \subseteq Intents!ToSet(q) \cup {e}
  BY <1>1 DEF Intents!ToSet
<1>3. Intents!ToSet(q) \cup {e} \subseteq Intents!ToSet(Append(q, e))
  BY <1>1 DEF Intents!ToSet
<1> QED
  BY <1>1, <1>2, <1>3

\* The first n elements.
Upto(q, n) == {q[i] : i \in 1..n}

KeptRun(g, q, S) ==
  g = [n \in 0..Len(q) |-> IF n = 0 THEN <<>> ELSE IF q[n] \in S THEN Append(g[n - 1], q[n]) ELSE g[n - 1]]

\* There is a function that Kept is defined by.
LEMMA KeptRuns ==
  ASSUME NEW X, NEW q \in Seq(X), NEW S
  PROVE  \E g : KeptRun(g, q, S)
<1> DEFINE F == [n \in 1..Len(q) |-> [r \in Seq(X) |-> IF q[n] \in S THEN Append(r, q[n]) ELSE r]]
<1>1. Len(q) \in Nat /\ <<>> \in Seq(X) /\ \A n \in 1..Len(q) : q[n] \in X
  OBVIOUS
<1>2. \A n \in 1..Len(q), r \in Seq(X) : F[n][r] = IF q[n] \in S THEN Append(r, q[n]) ELSE r
  OBVIOUS
<1>3. F \in [1..Len(q) -> [Seq(X) -> Seq(X)]]
  BY <1>1
<1> HIDE DEF F
<1>4. PICK g \in [0..Len(q) -> Seq(X)] : g[0] = <<>> /\ \A n \in 1..Len(q) : g[n] = F[n][g[n - 1]]
  <2> DEFINE A == Seq(X)
  <2> DEFINE a == <<>>
  <2> DEFINE N == Len(q)
  <2>1. a \in A /\ N \in Nat /\ F \in [1..N -> [A -> A]]
    BY <1>1, <1>3
  <2>2. \E g \in [0..N -> A] : g[0] = a /\ \A n \in 1..N : g[n] = F[n][g[n - 1]]
    <3> HIDE DEF A, a, N
    <3> QED
      BY <2>1, Recursion
  <2> QED
    BY <2>2
<1>5. \A n \in 1..Len(q) : g[n] = IF q[n] \in S THEN Append(g[n - 1], q[n]) ELSE g[n - 1]
  <2> SUFFICES ASSUME NEW n \in 1..Len(q)
               PROVE  g[n] = IF q[n] \in S THEN Append(g[n - 1], q[n]) ELSE g[n - 1]
    OBVIOUS
  <2>1. g[n - 1] \in Seq(X)
    BY <1>1, <1>4
  <2> QED
    BY <1>2, <1>4, <2>1
<1>6. g = [n \in 0..Len(q) |-> g[n]]
  BY <1>4
<1>7. ASSUME NEW n \in 0..Len(q)
      PROVE  g[n] = IF n = 0 THEN <<>> ELSE IF q[n] \in S THEN Append(g[n - 1], q[n]) ELSE g[n - 1]
  <2>1. CASE n = 0
    BY <1>4, <2>1
  <2>2. CASE n # 0
    <3>1. n \in 1..Len(q)
      BY <1>1, <2>2
    <3> QED
      BY <1>5, <2>2, <3>1
  <2> QED
    BY <2>1, <2>2
<1>8. g = [n \in 0..Len(q) |->
             IF n = 0 THEN <<>> ELSE IF q[n] \in S THEN Append(g[n - 1], q[n]) ELSE g[n - 1]]
  BY <1>6, <1>7
<1> QED
  BY <1>8 DEF KeptRun

\* Kept keeps the elements that are in S, and no others.
LEMMA KeptSet ==
  ASSUME NEW X, NEW q \in Seq(X), NEW S
  PROVE  Intents!Kept(q, S) \in Seq(X) /\ Intents!ToSet(Intents!Kept(q, S)) = Intents!ToSet(q) \cap S
<1> DEFINE N == Len(q)
<1> DEFINE f == CHOOSE g : KeptRun(g, q, S)
<1>1. N \in Nat /\ \A n \in 1..N : q[n] \in X
  OBVIOUS
<1>2. Intents!Kept(q, S) = f[N]
  BY DEF Intents!Kept, KeptRun
<1>3. f = [n \in 0..N |-> IF n = 0 THEN <<>> ELSE IF q[n] \in S THEN Append(f[n - 1], q[n]) ELSE f[n - 1]]
  <2>1. KeptRun(f, q, S)
    BY KeptRuns
  <2> HIDE DEF f
  <2> QED
    BY <2>1 DEF KeptRun
<1>4. Upto(q, N) = Intents!ToSet(q)
  BY DEF Upto, Intents!ToSet
<1> HIDE DEF f, N
<1>5. f[0] = <<>> /\ \A n \in 1..N : f[n] = IF q[n] \in S THEN Append(f[n - 1], q[n]) ELSE f[n - 1]
  <2>1. f[0] = <<>>
    BY <1>1, <1>3
  <2>2. ASSUME NEW n \in 1..N PROVE f[n] = IF q[n] \in S THEN Append(f[n - 1], q[n]) ELSE f[n - 1]
    <3>1. n \in 0..N /\ n # 0
      BY <1>1
    <3> QED
      BY <1>3, <3>1
  <2> QED
    BY <2>1, <2>2
<1> DEFINE T == {n \in Nat : n <= N => f[n] \in Seq(X) /\ Intents!ToSet(f[n]) = Upto(q, n) \cap S}
<1>6. 0 \in T
  <2>1. <<>> \in Seq(X) /\ Intents!ToSet(<<>>) = {} /\ Upto(q, 0) = {}
    BY DEF Intents!ToSet, Upto
  <2> QED
    BY <1>5, <2>1
<1>7. ASSUME NEW n \in Nat, n \in T PROVE n + 1 \in T
  <2> SUFFICES ASSUME n + 1 <= N
               PROVE  f[n + 1] \in Seq(X) /\ Intents!ToSet(f[n + 1]) = Upto(q, n + 1) \cap S
    OBVIOUS
  <2>1. f[n] \in Seq(X) /\ Intents!ToSet(f[n]) = Upto(q, n) \cap S
    BY <1>1, <1>7
  <2>2. f[n + 1] = (IF q[n + 1] \in S THEN Append(f[n], q[n + 1]) ELSE f[n]) /\ q[n + 1] \in X
    <3>1. n + 1 \in 1..N /\ (n + 1) - 1 = n
      BY <1>1
    <3> QED
      BY <1>1, <1>5, <3>1
  <2>3. Upto(q, n + 1) = Upto(q, n) \cup {q[n + 1]}
    BY DEF Upto
  <2>4. CASE q[n + 1] \in S
    <3>1. f[n + 1] = Append(f[n], q[n + 1])
      BY <2>2, <2>4
    <3>2. f[n + 1] \in Seq(X) /\ Intents!ToSet(f[n + 1]) = Intents!ToSet(f[n]) \cup {q[n + 1]}
      BY <2>1, <2>2, <3>1, AppendSet
    <3> QED
      BY <2>1, <2>3, <2>4, <3>2
  <2>5. CASE q[n + 1] \notin S
    <3>1. f[n + 1] = f[n]
      BY <2>2, <2>5
    <3> QED
      BY <2>1, <2>3, <2>5, <3>1
  <2> QED
    BY <2>4, <2>5
<1>8. Nat \subseteq T
  <2> HIDE DEF T
  <2> QED
    BY <1>6, <1>7, Induction
<1>9. f[N] \in Seq(X) /\ Intents!ToSet(f[N]) = Upto(q, N) \cap S
  BY <1>1, <1>8
<1> QED
  BY <1>2, <1>4, <1>9


\* The lines of the board with a text that was read.
Alike(read) == {n \in DOMAIN board : \E i \in Intents!ToSet(read) : board[n].text = i.text}
Marks(read) == [marked : SUBSET Alike(read), claimed : SUBSET DOMAIN board, conflict : BOOLEAN]
NoMarks == [marked |-> {}, claimed |-> {}, conflict |-> FALSE]

MarkRun(g, read) ==
  g = [n \in 0..Len(read) |-> IF n = 0 THEN NoMarks ELSE Intents!MarkOne(g[n - 1], read[n])]

LEMMA MarkOneTyped ==
  ASSUME NEW read, NEW acc \in Marks(read), NEW i \in Intents!ToSet(read)
  PROVE  Intents!MarkOne(acc, i) \in Marks(read)
<1>1. Intents!Found(i, acc.claimed) \subseteq Alike(read)
  BY DEF Intents!Found, Alike
<1>2. Intents!Found(i, acc.claimed) \subseteq DOMAIN board /\ Intents!FoundHandled(i, acc.claimed) \subseteq DOMAIN board
  BY DEF Intents!Found, Intents!FoundHandled
<1> DEFINE found == Intents!Found(i, acc.claimed)
<1> DEFINE seen == Intents!FoundHandled(i, acc.claimed)
<1>3. Intents!MarkOne(acc, i) =
        IF found # {} THEN [acc EXCEPT !.marked = @ \cup found, !.claimed = @ \cup found]
        ELSE IF seen # {} THEN [acc EXCEPT !.claimed = @ \cup seen]
        ELSE [acc EXCEPT !.conflict = TRUE]
  BY DEF Intents!MarkOne
<1> HIDE DEF found, seen
<1>4. found \subseteq Alike(read) /\ found \subseteq DOMAIN board /\ seen \subseteq DOMAIN board
  BY <1>1, <1>2 DEF found, seen
<1>5. [acc EXCEPT !.marked = @ \cup found, !.claimed = @ \cup found] \in Marks(read)
  BY <1>4 DEF Marks
<1>6. [acc EXCEPT !.claimed = @ \cup seen] \in Marks(read)
  BY <1>4 DEF Marks
<1>7. [acc EXCEPT !.conflict = TRUE] \in Marks(read)
  BY DEF Marks
<1> QED
  BY <1>3, <1>5, <1>6, <1>7

\* There is a function that Marking is defined by.
LEMMA MarkRuns ==
  ASSUME NEW X, NEW read \in Seq(X)
  PROVE  \E g : MarkRun(g, read)
<1> DEFINE N == Len(read)
<1> DEFINE A == Marks(read)
<1> DEFINE F == [n \in 1..N |-> [acc \in A |-> Intents!MarkOne(acc, read[n])]]
<1>1. N \in Nat /\ NoMarks \in A /\ \A n \in 1..N : read[n] \in Intents!ToSet(read)
  BY DEF NoMarks, Marks, Intents!ToSet
<1>2. \A n \in 1..N, acc \in A : F[n][acc] = Intents!MarkOne(acc, read[n])
  OBVIOUS
<1>3. F \in [1..N -> [A -> A]]
  <2>1. \A n \in 1..N, acc \in A : Intents!MarkOne(acc, read[n]) \in A
    BY <1>1, MarkOneTyped
  <2> QED
    BY <2>1
<1>4. \E g \in [0..N -> A] : g[0] = NoMarks /\ \A n \in 1..N : g[n] = F[n][g[n - 1]]
  <2> DEFINE a == NoMarks
  <2>1. a \in A /\ N \in Nat /\ F \in [1..N -> [A -> A]]
    BY <1>1, <1>3
  <2> HIDE DEF A, N, F, a
  <2>2. \E g \in [0..N -> A] : g[0] = a /\ \A n \in 1..N : g[n] = F[n][g[n - 1]]
    BY <2>1, Recursion
  <2> QED
    BY <2>2 DEF a
<1>5. PICK g \in [0..N -> A] : g[0] = NoMarks /\ \A n \in 1..N : g[n] = F[n][g[n - 1]]
  BY <1>4
<1> HIDE DEF A, N, F
<1>6. ASSUME NEW n \in 0..N
      PROVE  g[n] = IF n = 0 THEN NoMarks ELSE Intents!MarkOne(g[n - 1], read[n])
  <2>1. CASE n = 0
    BY <1>5, <2>1
  <2>2. CASE n # 0
    <3>1. n \in 1..N /\ n - 1 \in 0..N
      BY <1>1, <2>2
    <3>2. g[n - 1] \in A
      BY <1>5, <3>1
    <3> QED
      BY <1>2, <1>5, <2>2, <3>1, <3>2
  <2> QED
    BY <2>1, <2>2
<1>7. g = [n \in 0..N |-> g[n]]
  BY <1>5
<1>8. g = [n \in 0..N |-> IF n = 0 THEN NoMarks ELSE Intents!MarkOne(g[n - 1], read[n])]
  BY <1>6, <1>7
<1> QED
  BY <1>8 DEF MarkRun, N

\* Only lines with a text that was read are marked.
LEMMA MarkedAlike ==
  ASSUME NEW X, NEW read \in Seq(X)
  PROVE  Intents!Marking(read) \in Marks(read)
<1> DEFINE N == Len(read)
<1> DEFINE f == CHOOSE g : MarkRun(g, read)
<1>1. N \in Nat /\ NoMarks \in Marks(read) /\ \A n \in 1..N : read[n] \in Intents!ToSet(read)
  BY DEF NoMarks, Marks, Intents!ToSet
<1>2. Intents!Marking(read) = f[N]
  BY DEF Intents!Marking, MarkRun, NoMarks
<1>3. f = [n \in 0..N |-> IF n = 0 THEN NoMarks ELSE Intents!MarkOne(f[n - 1], read[n])]
  <2>1. MarkRun(f, read)
    BY MarkRuns
  <2> HIDE DEF f
  <2> QED
    BY <2>1 DEF MarkRun
<1> HIDE DEF f, N
<1> DEFINE T == {n \in Nat : n <= N => f[n] \in Marks(read)}
<1>4. 0 \in T
  BY <1>1, <1>3
<1>5. ASSUME NEW n \in Nat, n \in T PROVE n + 1 \in T
  <2> SUFFICES ASSUME n + 1 <= N PROVE f[n + 1] \in Marks(read)
    OBVIOUS
  <2>1. n + 1 \in 1..N /\ n + 1 \in 0..N /\ n + 1 # 0 /\ (n + 1) - 1 = n
    BY <1>1
  <2>2. f[n + 1] = Intents!MarkOne(f[n], read[n + 1])
    BY <1>3, <2>1
  <2>3. f[n] \in Marks(read)
    BY <1>1, <1>5
  <2> QED
    BY <1>1, <2>1, <2>2, <2>3, MarkOneTyped
<1>6. Nat \subseteq T
  <2> HIDE DEF T
  <2> QED
    BY <1>4, <1>5, Induction
<1> QED
  BY <1>1, <1>2, <1>6

-----------------------------------------------------------------------------
(* The intents that are handled. What a planner has read is carried by the   *)
(* source it made of it, and before it marks, a task has that source.        *)

Wordings == {Wording[text] : text \in Lines}
BoardLine == [text : Lines, handled : BOOLEAN]
Instruction == [line : Nat, text : Lines, handled : BOOLEAN]
GoalSource == [goal : Wordings, notes : Seq(Wordings)]
PlannerSteps == {"idle", "built", "lookup", "add", "mark", "close"}
PlannerState ==
  [pc : PlannerSteps, read : Seq(Instruction), source : GoalSource \cup {<<>>}, conflict : BOOLEAN]

IntentTyped ==
  /\ board \in Seq(BoardLine)
  /\ planner \in [Processes -> PlannerState]

\* What was read is carried by source, but for objectives that were superseded.
Carries(source, read) ==
  \A i \in Intents!ToSet(read) : i.text \in superseded \/ Intents!CarriedBy(i.text, source)

ReadCarried(p) == planner[p].pc # "idle" => Carries(planner[p].source, planner[p].read)
SourceAdded(p) == planner[p].pc = "mark" => planner[p].source \in Intents!Sources

IntentInv ==
  /\ IntentTyped /\ TasksApart
  /\ \A p \in Processes : ReadCarried(p) /\ SourceAdded(p)
  /\ Intents!HandledIsCarried

LEMMA IntentConstants == Kind \in [Lines -> {"objective", "note"}] /\ DOMAIN Wording = Lines
BY GovernanceAssumption DEF GovernanceAssumption, Intents!IntentAssumption

\* What a planner makes of the board it reads.
Beside(read) == {o.text : o \in Intents!ToSet(Intents!Objectives(read))} \ {Intents!Chosen(read)}

LEMMA ReadMakes ==
  ASSUME IntentTyped, NEW read, read = Intents!Instructions(board), Intents!Objectives(read) # <<>>
  PROVE  /\ read \in Seq(Instruction) /\ Intents!Source(read) \in GoalSource
         /\ \A i \in Intents!ToSet(read) :
              \/ Intents!CarriedBy(i.text, Intents!Source(read))
              \/ i.text \in Beside(read)
<1>1. read \in Seq(Instruction)
  <2> DEFINE lines == [n \in 1..Len(board) |-> [line |-> n, text |-> board[n].text, handled |-> board[n].handled]]
  <2>1. lines \in Seq(Instruction)
    <3>1. Len(board) \in Nat /\ \A n \in 1..Len(board) : board[n] \in BoardLine
      BY DEF IntentTyped
    <3>2. \A n \in 1..Len(board) : [line |-> n, text |-> board[n].text, handled |-> board[n].handled] \in Instruction
      BY <3>1 DEF Instruction, BoardLine
    <3>3. lines \in [1..Len(board) -> Instruction]
      BY <3>2
    <3> HIDE DEF lines
    <3> QED
      BY <3>1, <3>3
  <2>2. read = Intents!Kept(lines, {i \in Intents!ToSet(lines) : ~i.handled})
    BY DEF Intents!Instructions
  <2> HIDE DEF lines
  <2> QED
    BY <2>1, <2>2, KeptSet
<1>2. \A i \in Intents!ToSet(read) : i \in Instruction /\ Kind[i.text] \in {"objective", "note"}
  <2> SUFFICES ASSUME NEW i \in Intents!ToSet(read)
               PROVE  i \in Instruction /\ Kind[i.text] \in {"objective", "note"}
    OBVIOUS
  <2>1. PICK n \in DOMAIN read : i = read[n]
    BY DEF Intents!ToSet
  <2>2. i \in Instruction
    BY <1>1, <2>1
  <2>3. i.text \in Lines
    BY <2>2 DEF Instruction
  <2> QED
    BY <2>2, <2>3, IntentConstants
<1>3. ASSUME NEW kind
      PROVE  /\ Intents!OfKind(read, kind) \in Seq(Instruction)
             /\ Intents!ToSet(Intents!OfKind(read, kind)) = {i \in Intents!ToSet(read) : Kind[i.text] = kind}
  BY <1>1, KeptSet DEF Intents!OfKind
<1> DEFINE objectives == Intents!Objectives(read)
<1>4. objectives \in Seq(Instruction) /\ objectives # <<>>
  BY <1>3 DEF Intents!Objectives
<1>5. Intents!Chosen(read) \in Lines
  <2>1. Intents!Chosen(read) = objectives[Len(objectives)].text
    BY DEF Intents!Chosen, Intents!Last
  <2> HIDE DEF objectives
  <2>2. objectives[Len(objectives)] \in Instruction
    BY <1>4
  <2> QED
    BY <2>1, <2>2 DEF Instruction
<1> DEFINE notes == Intents!OfKind(read, "note")
<1> DEFINE wordings == [n \in 1..Len(notes) |-> Wording[notes[n].text]]
<1>6. /\ notes \in Seq(Instruction) /\ Len(notes) \in Nat /\ \A n \in 1..Len(notes) : notes[n].text \in Lines
      /\ Intents!ToSet(notes) = {i \in Intents!ToSet(read) : Kind[i.text] = "note"}
      /\ DOMAIN notes = 1..Len(notes)
  <2>1. notes \in Seq(Instruction) /\ Intents!ToSet(notes) = {i \in Intents!ToSet(read) : Kind[i.text] = "note"}
    BY <1>3
  <2> HIDE DEF notes
  <2>2. Len(notes) \in Nat /\ DOMAIN notes = 1..Len(notes) /\ \A n \in 1..Len(notes) : notes[n] \in Instruction
    BY <2>1
  <2>3. \A n \in 1..Len(notes) : notes[n].text \in Lines
    BY <2>2 DEF Instruction
  <2> QED
    BY <2>1, <2>2, <2>3
<1>7. Intents!Source(read) = [goal |-> Wording[Intents!Chosen(read)], notes |-> wordings]
  BY DEF Intents!Source
<1> HIDE DEF notes
<1>8. wordings \in Seq(Wordings)
  BY <1>6 DEF Wordings
<1>9. Intents!Source(read) \in GoalSource
  BY <1>5, <1>7, <1>8 DEF GoalSource, Wordings
<1>10. ASSUME NEW i \in Intents!ToSet(read)
       PROVE  \/ Intents!CarriedBy(i.text, Intents!Source(read))
              \/ i.text \in Beside(read)
  <2>1. CASE Kind[i.text] = "objective"
    <3>1. i \in Intents!ToSet(Intents!Objectives(read))
      BY <1>3, <2>1 DEF Intents!Objectives
    <3>2. i.text = Intents!Chosen(read) => Intents!CarriedBy(i.text, Intents!Source(read))
      BY <1>7, <2>1 DEF Intents!CarriedBy
    <3> QED
      BY <3>1, <3>2 DEF Beside
  <2>2. CASE Kind[i.text] = "note"
    <3>1. PICK n \in 1..Len(notes) : notes[n] = i
      BY <1>6, <2>2 DEF Intents!ToSet
    <3>2. wordings[n] = Wording[i.text] /\ n \in DOMAIN wordings
      BY <3>1
    <3>3. Wording[i.text] \in Intents!ToSet(wordings)
      BY <3>2 DEF Intents!ToSet
    <3>4. Intents!Source(read).notes = wordings
      BY <1>7
    <3> QED
      BY <2>2, <3>3, <3>4 DEF Intents!CarriedBy
  <2> QED
    BY <1>2, <2>1, <2>2
<1> QED
  BY <1>1, <1>9, <1>10

LEMMA IntentBegins == Intents!Init => IntentInv
<1> SUFFICES ASSUME Intents!Init PROVE IntentInv
  OBVIOUS
<1>1. board = <<>> /\ planner = [p \in Processes |-> Intents!Idle]
  BY DEF Intents!Init
<1>2. Intents!Idle \in PlannerState /\ Intents!Idle.pc = "idle"
  BY DEF Intents!Idle, PlannerState, PlannerSteps
<1>3. IntentTyped
  BY <1>1, <1>2 DEF IntentTyped
<1>4. \A p \in Processes : ReadCarried(p) /\ SourceAdded(p)
  BY <1>1, <1>2 DEF ReadCarried, SourceAdded
<1>5. Intents!HandledIsCarried
  BY <1>1 DEF Intents!HandledIsCarried
<1> QED
  BY <1>3, <1>4, <1>5, IntentsBegin DEF IntentInv

\* The tasks only get more, and so do the superseded objectives.
Grows == Intents!Sources \subseteq Intents!Sources' /\ superseded \subseteq superseded'

\* What is carried stays carried.
LEMMA StaysCarried ==
  ASSUME IntentInv, Grows, IntentTyped', TasksApart',
         \A p \in Processes : planner'[p] = planner[p] \/ (ReadCarried(p) /\ SourceAdded(p))',
         \A n \in DOMAIN board' : board'[n].handled =>
           \/ \E m \in DOMAIN board : board[m].handled /\ board[m].text = board'[n].text
           \/ board'[n].text \in superseded'
           \/ \E s \in Intents!Sources' : Intents!CarriedBy(board'[n].text, s)
  PROVE  IntentInv'
<1>1. ASSUME NEW p \in Processes PROVE ReadCarried(p)' /\ SourceAdded(p)'
  <2>1. ReadCarried(p) /\ SourceAdded(p)
    BY DEF IntentInv
  <2>2. CASE planner'[p] = planner[p]
    <3>1. \A src, read : Carries(src, read) => Carries(src, read)'
      BY DEF Carries, Grows, Intents!CarriedBy, Intents!ToSet
    <3> QED
      BY <2>1, <2>2, <3>1 DEF ReadCarried, SourceAdded, Grows
  <2> QED
    BY <2>2
<1>2. Intents!HandledIsCarried'
  <2> SUFFICES ASSUME NEW n \in DOMAIN board', board'[n].handled, board'[n].text \notin superseded'
               PROVE  \E s \in Intents!Sources' : Intents!CarriedBy(board'[n].text, s)
    BY DEF Intents!HandledIsCarried
  <2>1. ASSUME NEW m \in DOMAIN board, board[m].handled, board[m].text = board'[n].text
        PROVE  \E s \in Intents!Sources' : Intents!CarriedBy(board'[n].text, s)
    BY <2>1 DEF Grows, IntentInv, Intents!HandledIsCarried
  <2> QED
    BY <2>1
<1> QED
  BY <1>1, <1>2 DEF IntentInv

LEMMA SameBoard ==
  ASSUME board' = board
  PROVE  \A n \in DOMAIN board' : board'[n].handled =>
           \E m \in DOMAIN board : board[m].handled /\ board[m].text = board'[n].text
OBVIOUS

\* The user's lines are open.
LEMMA LinesKeep ==
  ASSUME IntentInv, TasksApart',
         \/ \E text \in Lines : Intents!AppendIntent(text)
         \/ \E n \in DOMAIN board, text \in Lines : Intents!RewriteLine(n, text)
  PROVE  IntentInv'
<1>1. IntentTyped /\ board \in Seq(BoardLine)
  BY DEF IntentInv, IntentTyped
<1>2. ASSUME NEW text \in Lines, Intents!AppendIntent(text) PROVE IntentInv'
  <2> DEFINE new == Intents!Line(text)
  <2>1. board' = <<new>> \o board /\ UNCHANGED <<tasks, planner, superseded>>
    BY <1>2 DEF Intents!AppendIntent
  <2>2. new \in BoardLine /\ ~new.handled
    BY DEF Intents!Line, BoardLine
  <2> HIDE DEF new
  <2>3. /\ board' \in Seq(BoardLine) /\ Len(board) \in Nat
        /\ DOMAIN board = 1..Len(board) /\ DOMAIN board' = 1..(Len(board) + 1)
        /\ board'[1] = new /\ \A n \in 2..(Len(board) + 1) : board'[n] = board[n - 1]
    BY <1>1, <2>1, <2>2
  <2>4. IntentTyped' /\ Grows
    BY <1>1, <2>1, <2>3 DEF IntentTyped, Grows, Intents!Sources
  <2>5. ASSUME NEW n \in DOMAIN board', board'[n].handled
        PROVE  \E m \in DOMAIN board : board[m].handled /\ board[m].text = board'[n].text
    <3>1. n # 1
      BY <2>2, <2>3, <2>5
    <3>2. n \in 2..(Len(board) + 1) /\ n - 1 \in DOMAIN board
      BY <2>3, <3>1
    <3>3. board'[n] = board[n - 1]
      BY <2>3, <3>2
    <3> QED
      BY <2>5, <3>2, <3>3
  <2> QED
    BY <2>1, <2>4, <2>5, StaysCarried
<1>3. ASSUME NEW k \in DOMAIN board, NEW text \in Lines, Intents!RewriteLine(k, text) PROVE IntentInv'
  <2> DEFINE new == Intents!Line(text)
  <2>1. board' = [board EXCEPT ![k] = new] /\ UNCHANGED <<tasks, planner, superseded>>
    BY <1>3 DEF Intents!RewriteLine
  <2>2. new \in BoardLine /\ ~new.handled
    BY DEF Intents!Line, BoardLine
  <2> HIDE DEF new
  <2>3. /\ board' \in Seq(BoardLine) /\ DOMAIN board' = DOMAIN board
        /\ board'[k] = new /\ \A n \in DOMAIN board : n # k => board'[n] = board[n]
    BY <1>1, <2>1, <2>2
  <2>4. IntentTyped' /\ Grows
    BY <1>1, <2>1, <2>3 DEF IntentTyped, Grows, Intents!Sources
  <2>5. ASSUME NEW n \in DOMAIN board', board'[n].handled
        PROVE  \E m \in DOMAIN board : board[m].handled /\ board[m].text = board'[n].text
    BY <2>2, <2>3, <2>5
  <2> QED
    BY <2>1, <2>4, <2>5, StaysCarried
<1> QED
  BY <1>2, <1>3

\* The planner p alone steps, to a state of its type.
LEMMA PlannerTurns ==
  ASSUME IntentTyped, NEW p \in Processes, NEW r \in PlannerState, planner' = [planner EXCEPT ![p] = r],
         board' \in Seq(BoardLine)
  PROVE  /\ IntentTyped' /\ planner'[p] = r
         /\ \A x \in Processes : x # p => planner'[x] = planner[x]
<1>1. /\ planner' \in [Processes -> PlannerState] /\ planner'[p] = r
      /\ \A x \in Processes : x # p => planner'[x] = planner[x]
  BY DEF IntentTyped
<1> QED
  BY <1>1 DEF IntentTyped

\* A planner reads: what it chose not to plan is superseded.
LEMMA ReadingKeeps ==
  ASSUME IntentInv, TasksApart', NEW p \in Processes, Intents!ReadIntents(p) PROVE IntentInv'
<1> DEFINE read == Intents!Instructions(board)
<1> DEFINE source == Intents!Source(read)
<1> DEFINE beside == Beside(read)
<1> DEFINE r == [Intents!Idle EXCEPT !.pc = "built", !.read = read, !.source = source]
<1>1. /\ Intents!Objectives(read) # <<>> /\ planner' = [planner EXCEPT ![p] = r]
      /\ superseded' = superseded \cup beside /\ UNCHANGED <<board, tasks>>
  BY DEF Intents!ReadIntents, Beside
<1>2. IntentTyped /\ board \in Seq(BoardLine)
  BY DEF IntentInv, IntentTyped
<1>3. /\ read \in Seq(Instruction) /\ source \in GoalSource
      /\ \A i \in Intents!ToSet(read) : Intents!CarriedBy(i.text, source) \/ i.text \in beside
  BY <1>1, <1>2, ReadMakes
<1> HIDE DEF read, source, beside
<1>4. Intents!Idle \in PlannerState
  BY DEF Intents!Idle, PlannerState, PlannerSteps
<1>5. r \in PlannerState /\ r.pc = "built" /\ r.read = read /\ r.source = source
  BY <1>3, <1>4 DEF PlannerState, PlannerSteps
<1> HIDE DEF r
<1>6. /\ IntentTyped' /\ planner'[p] = r
      /\ \A x \in Processes : x # p => planner'[x] = planner[x]
  BY <1>1, <1>2, <1>5, PlannerTurns
<1>7. ReadCarried(p)' /\ SourceAdded(p)'
  <2>1. \A i \in Intents!ToSet(read) : i.text \in superseded' \/ Intents!CarriedBy(i.text, source)
    BY <1>1, <1>3
  <2> QED
    BY <1>5, <1>6, <2>1 DEF ReadCarried, SourceAdded, Carries, Intents!CarriedBy
<1>8. Grows
  BY <1>1 DEF Grows, Intents!Sources
<1> QED
  BY <1>1, <1>6, <1>7, <1>8, SameBoard, StaysCarried

\* A planner goes on with what it has read, or ends.
LEMMA GoesOn ==
  ASSUME IntentInv, TasksApart', NEW p \in Processes, NEW r \in PlannerState,
         planner' = [planner EXCEPT ![p] = r], UNCHANGED <<board, superseded>>,
         Intents!Sources \subseteq Intents!Sources',
         \/ r.pc = "idle"
         \/ /\ planner[p].pc # "idle" /\ r.read = planner[p].read /\ r.source = planner[p].source
            /\ r.pc = "mark" => r.source \in Intents!Sources'
  PROVE  IntentInv'
<1>1. IntentTyped /\ board' \in Seq(BoardLine) /\ Grows
  BY DEF IntentInv, IntentTyped, Grows
<1>2. /\ IntentTyped' /\ planner'[p] = r
      /\ \A x \in Processes : x # p => planner'[x] = planner[x]
  BY <1>1, PlannerTurns
<1>3. ReadCarried(p)'
  <2>1. CASE r.pc = "idle"
    BY <1>2, <2>1 DEF ReadCarried
  <2>2. CASE planner[p].pc # "idle" /\ r.read = planner[p].read /\ r.source = planner[p].source
    <3>1. Carries(planner[p].source, planner[p].read)
      BY <2>2 DEF IntentInv, ReadCarried
    <3>2. Carries(r.source, r.read)'
      BY <2>2, <3>1 DEF Carries, Intents!CarriedBy
    <3> QED
      BY <1>2, <3>2 DEF ReadCarried
  <2> QED
    BY <2>1, <2>2
<1>4. SourceAdded(p)'
  BY <1>2 DEF SourceAdded
<1> QED
  BY <1>1, <1>2, <1>3, <1>4, SameBoard, StaysCarried

LEMMA PlannersKeep ==
  ASSUME IntentInv, TasksApart', NEW p \in Processes,
         \/ Intents!WriteCandidate(p) \/ Intents!LookUpTask(p) \/ Intents!AddTask(p)
         \/ Intents!AddFails(p) \/ Intents!Close(p) \/ Intents!Die(p)
  PROVE  IntentInv'
<1>1. planner \in [Processes -> PlannerState] /\ TasksApart
  BY DEF IntentInv, IntentTyped
<1>2. Intents!Idle \in PlannerState /\ Intents!Idle.pc = "idle"
  BY DEF Intents!Idle, PlannerState, PlannerSteps
<1>3. ASSUME NEW pc \in PlannerSteps
      PROVE  /\ [planner[p] EXCEPT !.pc = pc] \in PlannerState
             /\ [planner[p] EXCEPT !.pc = pc].pc = pc
             /\ [planner[p] EXCEPT !.pc = pc].read = planner[p].read
             /\ [planner[p] EXCEPT !.pc = pc].source = planner[p].source
             /\ [planner EXCEPT ![p].pc = pc] = [planner EXCEPT ![p] = [planner[p] EXCEPT !.pc = pc]]
  BY <1>1, <1>3 DEF PlannerState
<1>4. {"lookup", "mark", "add"} \subseteq PlannerSteps
  BY DEF PlannerSteps
<1>5. CASE Intents!AddFails(p) \/ Intents!Close(p) \/ Intents!Die(p)
  <2>1. planner' = [planner EXCEPT ![p] = Intents!Idle] /\ UNCHANGED <<board, tasks, superseded>>
    BY <1>5 DEF Intents!AddFails, Intents!Close, Intents!Die
  <2>2. Intents!Sources' = Intents!Sources
    BY <2>1 DEF Intents!Sources
  <2> QED
    BY <1>2, <2>1, <2>2, GoesOn
<1>6. CASE Intents!WriteCandidate(p)
  <2>1. /\ planner[p].pc = "built" /\ UNCHANGED <<board, tasks, superseded>>
        /\ \/ planner' = [planner EXCEPT ![p] = [planner[p] EXCEPT !.pc = "lookup"]]
           \/ planner' = [planner EXCEPT ![p] = Intents!Idle]
    <3>1. PICK apply \in BOOLEAN :
            planner' = [planner EXCEPT ![p] = IF apply THEN [@ EXCEPT !.pc = "lookup"] ELSE Intents!Idle]
      BY <1>6 DEF Intents!WriteCandidate
    <3> QED
      BY <1>1, <1>6, <3>1 DEF Intents!WriteCandidate
  <2>2. Intents!Sources' = Intents!Sources
    BY <2>1 DEF Intents!Sources
  <2>3. CASE planner' = [planner EXCEPT ![p] = Intents!Idle]
    BY <1>2, <2>1, <2>2, <2>3, GoesOn
  <2>4. CASE planner' = [planner EXCEPT ![p] = [planner[p] EXCEPT !.pc = "lookup"]]
    <3> DEFINE r == [planner[p] EXCEPT !.pc = "lookup"]
    <3>1. r \in PlannerState /\ r.pc = "lookup" /\ r.read = planner[p].read /\ r.source = planner[p].source
      BY <1>3, <1>4
    <3> HIDE DEF r
    <3>2. planner' = [planner EXCEPT ![p] = r]
      BY <2>4 DEF r
    <3> QED
      BY <2>1, <2>2, <3>1, <3>2, GoesOn
  <2> QED
    BY <2>1, <2>3, <2>4
<1>7. CASE Intents!LookUpTask(p) \/ Intents!AddTask(p)
  <2>1. PICK pc \in {"mark", "add"} :
          /\ planner[p].pc # "idle" /\ UNCHANGED <<board, superseded>>
          /\ planner' = [planner EXCEPT ![p].pc = pc]
          /\ Intents!Sources \subseteq Intents!Sources'
          /\ pc = "mark" => planner[p].source \in Intents!Sources'
    <3>1. CASE Intents!LookUpTask(p)
      <4>1. Intents!Sources' = Intents!Sources
        BY <3>1 DEF Intents!LookUpTask, Intents!Sources
      <4> QED
        BY <3>1, <4>1 DEF Intents!LookUpTask
    <3>2. CASE Intents!AddTask(p)
      <4>1. /\ planner[p].pc = "add" /\ UNCHANGED <<board, superseded>>
            /\ planner' = [planner EXCEPT ![p].pc = "mark"]
            /\ tasks' = IF planner[p].source \notin Intents!Sources THEN Append(tasks, planner[p].source) ELSE tasks
        BY <3>2 DEF Intents!AddTask, Intents!NeedsTask
      <4>2. Intents!Sources' = Intents!Sources \cup {planner[p].source}
        <5>1. CASE planner[p].source \in Intents!Sources
          BY <4>1, <5>1 DEF Intents!Sources
        <5>2. CASE planner[p].source \notin Intents!Sources
          <6> DEFINE X == Intents!Sources \cup {planner[p].source}
          <6>1. tasks \in Seq(X) /\ planner[p].source \in X
            BY <1>1 DEF TasksApart
          <6>2. tasks' = Append(tasks, planner[p].source)
            BY <4>1, <5>2
          <6> HIDE DEF X
          <6>3. Intents!ToSet(Append(tasks, planner[p].source)) = Intents!ToSet(tasks) \cup {planner[p].source}
            BY <6>1, AppendSet
          <6> QED
            BY <6>2, <6>3 DEF Intents!Sources, Intents!ToSet
        <5> QED
          BY <5>1, <5>2
      <4> QED
        BY <4>1, <4>2
    <3> QED
      BY <1>7, <3>1, <3>2
  <2> DEFINE r == [planner[p] EXCEPT !.pc = pc]
  <2>2. /\ r \in PlannerState /\ r.pc = pc /\ r.read = planner[p].read /\ r.source = planner[p].source
        /\ planner' = [planner EXCEPT ![p] = r]
    BY <1>3, <1>4, <2>1
  <2> HIDE DEF r
  <2> QED
    BY <2>1, <2>2, GoesOn
<1> QED
  BY <1>5, <1>6, <1>7

\* A planner marks: the lines have texts that it has read, and its task is there.
LEMMA MarkKeeps ==
  ASSUME IntentInv, TasksApart', NEW p \in Processes, Intents!MarkHandled(p) PROVE IntentInv'
<1> DEFINE m == Intents!Marking(planner[p].read)
<1> DEFINE r == [planner[p] EXCEPT !.pc = "close", !.conflict = m.conflict]
<1>1. /\ planner[p].pc = "mark" /\ UNCHANGED <<tasks, superseded>>
      /\ board' = [n \in DOMAIN board |-> IF n \in m.marked THEN [board[n] EXCEPT !.handled = TRUE] ELSE board[n]]
      /\ planner' = [planner EXCEPT ![p].pc = "close", ![p].conflict = m.conflict]
  BY DEF Intents!MarkHandled
<1>2. /\ IntentTyped /\ planner \in [Processes -> PlannerState] /\ planner[p] \in PlannerState
      /\ board \in Seq(BoardLine)
  BY DEF IntentInv, IntentTyped
<1>3. planner[p].read \in Seq(Instruction)
  BY <1>2 DEF PlannerState
<1>4. m \in Marks(planner[p].read)
  BY <1>3, MarkedAlike
<1>5. m.marked \subseteq Alike(planner[p].read) /\ m.conflict \in BOOLEAN
  BY <1>4 DEF Marks
<1> HIDE DEF m
<1>6. /\ r \in PlannerState /\ r.pc = "close" /\ r.read = planner[p].read /\ r.source = planner[p].source
      /\ planner' = [planner EXCEPT ![p] = r]
  BY <1>1, <1>2, <1>5 DEF PlannerState, PlannerSteps
<1> HIDE DEF r
<1>7. \A n \in DOMAIN board : board[n] \in BoardLine
  BY <1>2
<1>8. ASSUME NEW n \in DOMAIN board
      PROVE  /\ board'[n] \in BoardLine /\ board'[n].text = board[n].text
             /\ board'[n].handled => board[n].handled \/ n \in m.marked
  BY <1>1, <1>7 DEF BoardLine
<1>9. board' \in Seq(BoardLine) /\ DOMAIN board' = DOMAIN board
  <2>1. DOMAIN board' = DOMAIN board
    BY <1>1
  <2>2. Len(board) \in Nat /\ DOMAIN board = 1..Len(board)
    BY <1>2
  <2>3. board' \in [1..Len(board) -> BoardLine]
    BY <1>1, <1>8, <2>2
  <2> QED
    BY <2>1, <2>2, <2>3
<1>10. /\ IntentTyped' /\ planner'[p] = r
       /\ \A x \in Processes : x # p => planner'[x] = planner[x]
  BY <1>2, <1>6, <1>9, PlannerTurns
<1>11. Intents!Sources' = Intents!Sources /\ Grows
  BY <1>1 DEF Intents!Sources, Grows
<1>12. Carries(planner[p].source, planner[p].read) /\ planner[p].source \in Intents!Sources
  BY <1>1 DEF IntentInv, ReadCarried, SourceAdded
<1>13. ReadCarried(p)' /\ SourceAdded(p)'
  <2>1. \A i \in Intents!ToSet(r.read) : i.text \in superseded' \/ Intents!CarriedBy(i.text, r.source)
    BY <1>1, <1>6, <1>12 DEF Carries
  <2> QED
    BY <1>6, <1>10, <2>1 DEF ReadCarried, SourceAdded, Carries, Intents!CarriedBy
<1>14. ASSUME NEW n \in DOMAIN board', board'[n].handled
       PROVE  \/ \E k \in DOMAIN board : board[k].handled /\ board[k].text = board'[n].text
              \/ board'[n].text \in superseded'
              \/ \E s \in Intents!Sources' : Intents!CarriedBy(board'[n].text, s)
  <2>1. n \in DOMAIN board /\ board'[n].text = board[n].text /\ (board[n].handled \/ n \in m.marked)
    BY <1>8, <1>9, <1>14
  <2>2. CASE n \in m.marked
    <3>1. PICK i \in Intents!ToSet(planner[p].read) : board[n].text = i.text
      BY <1>5, <2>2 DEF Alike
    <3>2. i.text \in superseded \/ Intents!CarriedBy(i.text, planner[p].source)
      BY <1>12 DEF Carries
    <3> QED
      BY <1>1, <1>11, <1>12, <2>1, <3>1, <3>2
  <2> QED
    BY <2>1, <2>2
<1> QED
  BY <1>10, <1>11, <1>13, <1>14, StaysCarried

LEMMA IntentStep == ASSUME IntentInv, [Intents!Next]_intentVars PROVE IntentInv'
<1>1. TasksApart'
  BY IntentsStep DEF IntentInv
<1>2. CASE UNCHANGED intentVars
  <2>1. UNCHANGED <<board, tasks, planner, superseded>>
    BY <1>2 DEF intentVars
  <2>2. IntentTyped' /\ Grows
    BY <2>1 DEF IntentInv, IntentTyped, Grows, Intents!Sources
  <2> QED
    BY <1>1, <2>1, <2>2, SameBoard, StaysCarried
<1>3. ASSUME NEW p \in Processes, Intents!PlannerNext(p) PROVE IntentInv'
  BY <1>1, <1>3, ReadingKeeps, PlannersKeep, MarkKeeps DEF Intents!PlannerNext
<1> QED
  BY <1>1, <1>2, <1>3, LinesKeep DEF Intents!Next

LEMMA IntentHold == Spec => [](which = "intents" => IntentInv)
<1>1. Init => (which = "intents" => IntentInv)
  BY Apart, IntentBegins
<1>2. (which = "intents" => IntentInv) /\ [Next]_vars => (which = "intents" => IntentInv)'
  BY Apart, IntentStep
<1> QED BY <1>1, <1>2, PTL DEF Spec

\* No goal is lost: an intent marked handled has a task that carries it as its goal or
\* among its notes (markHumanBoardInstructionsHandled after sprint-board add), whatever
\* moved on the board between a planner's reading and its marking, on a board of any
\* length and with any number of planners.
THEOREM NoGoalLost == Spec => []HandledIsCarried
<1>1. (which = "intents" => IntentInv) => HandledIsCarried
  BY DEF IntentInv, HandledIsCarried
<1> QED BY <1>1, IntentHold, PTL

-----------------------------------------------------------------------------
(* The lessons. The commands of one write run while no resolve does, so that *)
(* what a resolve read of its pitfall and its rule stays true until it has   *)
(* written them; a gate it read of config.yaml is still there, was removed   *)
(* by gates maintain, or was overwritten.                                    *)

Gated == {Lesson!Gate(i) : i \in Ids}
LearnedRule == [status : {"probation", "active", "retired"}, conflictsWith : SUBSET Ids, source : Resolutions]
ResolveSteps == {"idle", "pitfalls", "rule", "config", "gate", "journal", "commit"}

LessonTyped ==
  /\ pitfalls \in [Ids -> {"none", "open"} \cup Resolutions]
  /\ rules \in [Ids -> LearnedRule \cup {Lesson!NoRule}]
  /\ gates \subseteq Gated
  /\ signals \in [Ids -> Nat]
  /\ head \in [resolved : SUBSET Ids, rules : SUBSET Ids]
  /\ op \in [pc : ResolveSteps, id : Ids \cup {0}, resolution : Resolutions \cup {Unresolved},
             rule : LearnedRule \cup {Lesson!NoRule}, clean : BOOLEAN, config : SUBSET Gated]
  /\ op.pc # "idle" => op.id \in Ids /\ op.resolution \in Resolutions
  /\ maintain \in [reading : BOOLEAN, config : SUBSET Gated]

\* A gate is there, or is one that need not be.
Kept(g) == g \in gates \/ g.gate \in Weak \cup Primary \cup dropped
GateThere(id) ==
  \/ Suggested[id] \in Weak \cup Primary \cup dropped
  \/ \E g \in gates : g.gate = Suggested[id] \/ g.by = id

\* What a resolve knows at each of its steps.
ResolveKnows ==
  /\ op.pc = "pitfalls" => pitfalls[op.id] \in {"open", op.resolution}
  /\ op.pc \in {"rule", "config", "gate", "journal", "commit"} => pitfalls[op.id] = op.resolution
  /\ op.pc \in {"pitfalls", "rule"} =>
       /\ op.rule # Lesson!NoRule /\ op.rule.source = op.resolution
       /\ Lesson!HasRule(op.id) => op.rule = rules[op.id]
  /\ op.pc \in {"config", "gate", "journal", "commit"} => Lesson!HasRule(op.id)
  /\ op.pc = "gate" => \A g \in op.config : Kept(g)
  /\ op.pc \in {"journal", "commit"} => GateThere(op.id)

\* pitfalls.json as HEAD has it, or as HEAD will have it once a clean resolve commits.
HeadKnows ==
  /\ Lesson!PitfallsFile \notin dirty =>
       \A i \in Ids : Lesson!Resolved(i) => i \in head.resolved
  /\ op.pc # "idle" /\ op.clean =>
       \A i \in Ids : Lesson!Resolved(i) => i \in head.resolved \/ i = op.id

RulesFollow == \A id \in Ids : Lesson!HasRule(id) => Lesson!Resolved(id) /\ rules[id].source = pitfalls[id]

\* What governance said of a rule is in the rule.
Remembered ==
  /\ \A id \in retired : id \in Ids /\ rules[id].status = "retired"
  /\ \A pair \in declared : \E low, high \in Ids :
       pair = {low, high} /\ low # high /\ high \in rules[low].conflictsWith

Told == \A id \in Ids : signals[id] <= 1 /\ (signals[id] = 1 => Lesson!HasRule(id) /\ GateThere(id))

LessonInv ==
  LessonTyped /\ ResolveKnows /\ HeadKnows /\ RulesFollow /\ Remembered /\ Told

LEMMA LessonsBegin == Lesson!Init => LessonInv
<1> SUFFICES ASSUME Lesson!Init PROVE LessonInv
  OBVIOUS
<1> DEFINE first == CHOOSE r \in Resolutions : TRUE
<1>1. first \in Resolutions
  BY GovernanceAssumption DEF GovernanceAssumption, Lesson!LessonsAssumption
<1> HIDE DEF first
<1>2. /\ pitfalls = [id \in Ids |-> IF id \in Learned THEN first ELSE "none"]
      /\ rules = [id \in Ids |-> IF id \in Learned
                                 THEN [status |-> "active", conflictsWith |-> {}, source |-> first]
                                 ELSE Lesson!NoRule]
      /\ gates = {Lesson!Gate(id) : id \in {i \in Learned : Suggested[i] \notin Weak}}
      /\ signals = [id \in Ids |-> IF id \in Learned THEN 1 ELSE 0]
      /\ dirty = {} /\ head = [resolved |-> Learned, rules |-> Learned]
      /\ op = Lesson!Idle /\ maintain = Lesson!NotReading
      /\ retired = {} /\ declared = {} /\ dropped = {}
  BY DEF Lesson!Init, first
<1>3. Learned \subseteq Ids /\ {"none", "open", Unresolved} \cap Resolutions = {}
  BY GovernanceAssumption DEF GovernanceAssumption, Lesson!LessonsAssumption
<1>4. LessonTyped
  BY <1>1, <1>2, <1>3 DEF LessonTyped, Gated, LearnedRule, ResolveSteps, Lesson!NoRule, Lesson!Idle, Lesson!NotReading
<1>5. ResolveKnows /\ HeadKnows
  BY <1>2, <1>3 DEF ResolveKnows, HeadKnows, Lesson!Idle, Lesson!Resolved
<1>6. RulesFollow
  BY <1>1, <1>2, <1>3 DEF RulesFollow, Lesson!HasRule, Lesson!Resolved, Lesson!NoRule
<1>7. Remembered
  BY <1>2 DEF Remembered
<1>8. Told
  <2> SUFFICES ASSUME NEW id \in Ids, signals[id] = 1 PROVE Lesson!HasRule(id) /\ GateThere(id)
    BY <1>2 DEF Told
  <2>1. id \in Learned /\ Lesson!HasRule(id)
    BY <1>2 DEF Lesson!HasRule, Lesson!NoRule
  <2>2. Suggested[id] \notin Weak => Lesson!Gate(id) \in gates /\ Lesson!Gate(id).by = id
    BY <1>2, <2>1 DEF Lesson!Gate
  <2> QED
    BY <2>1, <2>2 DEF GateThere
<1> QED
  BY <1>4, <1>5, <1>6, <1>7, <1>8 DEF LessonInv

\* The gate of a pitfall is known by either.
LEMMA GateOfPitfall ==
  ASSUME NEW g \in Gated, NEW id \in Ids
  PROVE  g.by = id => g.gate = Suggested[id]
  BY DEF Gated, Lesson!Gate

\* Whoever writes config.yaml: what it did not read is dropped, what it read is kept.
LEMMA ConfigWritten ==
  ASSUME LessonTyped, NEW read \in SUBSET Gated, NEW result \in SUBSET Gated,
         Lesson!Maintained(read) \subseteq result, Lesson!WriteConfig(read, result)
  PROVE  /\ gates' \subseteq Gated
         /\ \A g \in Gated : Kept(g) => Kept(g)'
         /\ \A id \in Ids : GateThere(id) => GateThere(id)'
<1>1. gates' = result /\ dropped' = dropped \cup {g.gate : g \in gates \ read} /\ gates \subseteq Gated
  BY DEF Lesson!WriteConfig, LessonTyped
<1>2. \A g \in Gated : Kept(g) => Kept(g)'
  BY <1>1 DEF Kept, Lesson!Maintained
<1>3. ASSUME NEW id \in Ids, GateThere(id) PROVE GateThere(id)'
  <2>1. CASE Suggested[id] \in Weak \cup Primary \cup dropped
    BY <1>1, <2>1 DEF GateThere
  <2>2. ASSUME NEW g \in gates, g.gate = Suggested[id] \/ g.by = id PROVE GateThere(id)'
    <3>1. g \in Gated /\ g.gate = Suggested[id]
      BY <1>1, <2>2, GateOfPitfall
    <3>2. Kept(g)'
      BY <1>2, <2>2, <3>1 DEF Kept
    <3> QED
      BY <3>1, <3>2 DEF Kept, GateThere
  <2> QED
    BY <1>3, <2>1, <2>2 DEF GateThere
<1> QED
  BY <1>1, <1>2, <1>3

\* What is kept while nobody writes config.yaml.
LEMMA ConfigStays ==
  ASSUME UNCHANGED <<gates, dropped>>
  PROVE  /\ \A g : Kept(g)' <=> Kept(g)
         /\ \A id : GateThere(id)' <=> GateThere(id)
  BY DEF Kept, GateThere

\* Governance writes one rule, and keeps its source and what it is in conflict with.
LEMMA RuleWritten ==
  ASSUME LessonInv, NEW id \in Ids, Lesson!Governed(id), NEW rule \in LearnedRule,
         rule.source = rules[id].source, rules[id].conflictsWith \subseteq rule.conflictsWith,
         rules[id].status = "retired" => rule.status = "retired",
         Lesson!SetRule(id, rule), dropped' = dropped,
         retired' = retired \/ (retired' = retired \cup {id} /\ rule.status = "retired"),
         \/ declared' = declared
         \/ \E high \in Ids : id # high /\ declared' = declared \cup {{id, high}} /\ high \in rule.conflictsWith
  PROVE  LessonInv'
<1> USE DEF LessonInv
<1>1. op.pc = "idle" /\ op' = op /\ Lesson!Resolved(id) /\ Lesson!HasRule(id)
  BY DEF Lesson!Governed, Lesson!Idle, Lesson!SetRule
<1>2. /\ rules' = [rules EXCEPT ![id] = rule] /\ rules' \in [Ids -> LearnedRule \cup {Lesson!NoRule}]
      /\ rules'[id] = rule /\ \A i \in Ids \ {id} : rules'[i] = rules[i]
  BY DEF Lesson!SetRule, LessonTyped
<1>3. UNCHANGED <<pitfalls, gates, signals, head, maintain, dropped>>
  BY DEF Lesson!SetRule
<1>4. LessonTyped'
  BY <1>1, <1>2, <1>3 DEF LessonTyped
<1>5. ResolveKnows'
  BY <1>1 DEF ResolveKnows
<1>6. HeadKnows'
  <2>1. Lesson!PitfallsFile \notin dirty' => Lesson!PitfallsFile \notin dirty
    BY DEF Lesson!SetRule
  <2> QED
    BY <1>1, <1>3, <2>1 DEF HeadKnows, Lesson!Resolved
<1>7. \A i \in Ids : /\ Lesson!HasRule(i)' <=> Lesson!HasRule(i)
                     /\ rules'[i].source = rules[i].source
                     /\ rules[i].conflictsWith \subseteq rules'[i].conflictsWith
                     /\ rules[i].status = "retired" => rules'[i].status = "retired"
  <2>1. rule # Lesson!NoRule
    BY DEF LearnedRule, Lesson!NoRule
  <2>2. rules[id] # Lesson!NoRule
    BY <1>1 DEF Lesson!HasRule
  <2> QED
    BY <1>2, <2>1, <2>2 DEF Lesson!HasRule
<1>8. RulesFollow'
  BY <1>3, <1>7 DEF RulesFollow, Lesson!Resolved, Lesson!HasRule
<1>9. Remembered'
  <2>1. \A i \in retired' : i \in Ids /\ rules'[i].status = "retired"
    <3>1. \A i \in retired : i \in Ids /\ rules'[i].status = "retired"
      BY <1>7 DEF Remembered
    <3> QED
      BY <1>2, <3>1
  <2>2. ASSUME NEW pair \in declared'
        PROVE  \E low, high \in Ids : pair = {low, high} /\ low # high /\ high \in rules'[low].conflictsWith
    <3>1. CASE pair \in declared
      BY <1>7, <3>1 DEF Remembered
    <3>2. CASE pair \notin declared
      BY <1>2, <2>2, <3>2
    <3> QED
      BY <3>1, <3>2
  <2> QED
    BY <2>1, <2>2 DEF Remembered
<1>10. Told'
  <2>1. \A i \in Ids : GateThere(i)' <=> GateThere(i)
    BY <1>3, ConfigStays
  <2> QED
    BY <1>3, <1>7, <2>1 DEF Told, Lesson!HasRule, GateThere
<1> QED
  BY <1>4, <1>5, <1>6, <1>8, <1>9, <1>10

LEMMA GovernanceKeeps ==
  ASSUME LessonInv, NEW id \in Ids,
         \/ Lesson!Promote(id) \/ Lesson!FeedbackIneffective(id)
         \/ \E high \in Ids : Lesson!DeclareConflict(id, high)
  PROVE  LessonInv'
<1> USE DEF Lesson!history
<1>1. Lesson!Governed(id) => rules[id] \in LearnedRule
  BY DEF LessonInv, LessonTyped, Lesson!Governed, Lesson!HasRule
<1>2. CASE Lesson!Promote(id)
  <2> DEFINE rule == [rules[id] EXCEPT !.status = "active"]
  <2>1. rules[id] \in LearnedRule /\ rules[id].status = "probation" /\ Lesson!Governed(id)
    BY <1>1, <1>2 DEF Lesson!Promote
  <2>2. /\ rule \in LearnedRule /\ rule.status = "active" /\ rule.source = rules[id].source
        /\ rule.conflictsWith = rules[id].conflictsWith
    BY <2>1 DEF LearnedRule
  <2>3. Lesson!SetRule(id, rule) /\ UNCHANGED <<retired, declared, dropped>>
    BY <1>2 DEF Lesson!Promote
  <2> HIDE DEF rule
  <2> QED
    BY <2>1, <2>2, <2>3, RuleWritten
<1>3. CASE Lesson!FeedbackIneffective(id)
  <2> DEFINE rule == [rules[id] EXCEPT !.status = "retired"]
  <2>1. rules[id] \in LearnedRule /\ Lesson!Governed(id)
    BY <1>1, <1>3 DEF Lesson!FeedbackIneffective
  <2>2. /\ rule \in LearnedRule /\ rule.status = "retired" /\ rule.source = rules[id].source
        /\ rule.conflictsWith = rules[id].conflictsWith
    BY <2>1 DEF LearnedRule
  <2>3. Lesson!SetRule(id, rule) /\ retired' = retired \cup {id} /\ UNCHANGED <<declared, dropped>>
    BY <1>3 DEF Lesson!FeedbackIneffective
  <2> HIDE DEF rule
  <2> QED
    BY <2>1, <2>2, <2>3, RuleWritten
<1>4. ASSUME NEW high \in Ids, Lesson!DeclareConflict(id, high) PROVE LessonInv'
  <2> DEFINE rule == Lesson!WithConflict(rules[id], high)
  <2>1. rules[id] \in LearnedRule /\ Lesson!Governed(id)
    BY <1>1, <1>4 DEF Lesson!DeclareConflict
  <2>2. /\ rule \in LearnedRule /\ rule.status = rules[id].status /\ rule.source = rules[id].source
        /\ rule.conflictsWith = rules[id].conflictsWith \cup {high}
    BY <2>1 DEF LearnedRule, Lesson!WithConflict
  <2>3. /\ Lesson!SetRule(id, rule) /\ declared' = declared \cup {{id, high}}
        /\ UNCHANGED <<retired, dropped>> /\ id # high
    <3>1. id < high /\ Ids \subseteq Nat
      BY <1>4, GovernanceAssumption DEF GovernanceAssumption, Lesson!LessonsAssumption, Lesson!DeclareConflict
    <3>2. id # high
      BY <3>1
    <3> QED
      BY <1>4, <3>2 DEF Lesson!DeclareConflict
  <2> HIDE DEF rule
  <2> QED
    BY <2>1, <2>2, <2>3, RuleWritten
<1> QED
  BY <1>2, <1>3, <1>4


\* A pitfall recorded, a rule praised: no resolve runs, and nothing is resolved by it.
LEMMA RecordingKeeps ==
  ASSUME LessonInv, NEW id \in Ids, Lesson!AddPitfall(id) \/ Lesson!FeedbackEffective(id)
  PROVE  LessonInv'
<1> USE DEF LessonInv
<1>1. /\ op.pc = "idle" /\ op' = op
      /\ UNCHANGED <<rules, gates, signals, head, maintain, retired, declared, dropped>>
      /\ Lesson!PitfallsFile \notin dirty' => Lesson!PitfallsFile \notin dirty
  BY DEF Lesson!AddPitfall, Lesson!FeedbackEffective, Lesson!Governed, Lesson!Idle, Lesson!history
<1>2. /\ pitfalls' \in [Ids -> {"none", "open"} \cup Resolutions]
      /\ \A i \in Ids : /\ Lesson!Resolved(i)' <=> Lesson!Resolved(i)
                        /\ Lesson!Resolved(i) => pitfalls'[i] = pitfalls[i]
  BY GovernanceAssumption
  DEF GovernanceAssumption, Lesson!LessonsAssumption, LessonTyped, Lesson!Resolved, Lesson!AddPitfall,
      Lesson!FeedbackEffective
<1>3. LessonTyped'
  BY <1>1, <1>2 DEF LessonTyped
<1>4. ResolveKnows'
  BY <1>1 DEF ResolveKnows
<1>5. HeadKnows'
  BY <1>1, <1>2 DEF HeadKnows
<1>6. RulesFollow'
  BY <1>1, <1>2 DEF RulesFollow, Lesson!HasRule
<1>7. Remembered'
  BY <1>1 DEF Remembered
<1>8. Told'
  BY <1>1 DEF Told, Lesson!HasRule, GateThere
<1> QED
  BY <1>3, <1>4, <1>5, <1>6, <1>7, <1>8

\* A resolve starts from the pitfall and the rule as they are.
LEMMA ResolveBeginsKeeps ==
  ASSUME LessonInv, NEW id \in Ids, NEW resolution \in Resolutions,
         Lesson!ResolveBegins(id, resolution)
  PROVE  LessonInv'
<1> USE DEF LessonInv
<1> DEFINE rule == Lesson!Document(id, resolution)
<1>1. /\ op' = [pc |-> "pitfalls", id |-> id, resolution |-> resolution, rule |-> rule,
                clean |-> dirty \cap Lesson!FilesOf(id) = {}, config |-> {}]
      /\ pitfalls[id] \in {"open", resolution}
      /\ UNCHANGED <<pitfalls, rules, gates, signals, head, dirty, maintain, retired, declared, dropped>>
  BY DEF Lesson!ResolveBegins, Lesson!MayResolve, Lesson!history, Lesson!repo
<1>2. /\ rule \in LearnedRule /\ rule.source = resolution /\ rule # Lesson!NoRule
      /\ Lesson!HasRule(id) => rule = rules[id]
  <2>1. CASE Lesson!HasRule(id)
    <3>1. Lesson!Resolved(id) /\ rules[id].source = pitfalls[id] /\ rules[id] \in LearnedRule
      BY <2>1 DEF RulesFollow, Lesson!HasRule, LessonTyped
    <3>2. pitfalls[id] = resolution
      BY <1>1, <3>1, GovernanceAssumption
      DEF GovernanceAssumption, Lesson!LessonsAssumption, Lesson!Resolved
    <3> QED
      BY <2>1, <3>1, <3>2 DEF Lesson!Document, Lesson!HasRule
  <2>2. CASE ~Lesson!HasRule(id)
    <3>1. rule = [status |-> "probation", conflictsWith |-> {}, source |-> resolution]
      BY <2>2 DEF Lesson!Document, Lesson!NewRule
    <3> QED
      BY <2>2, <3>1 DEF LearnedRule, Lesson!NoRule
  <2> QED
    BY <2>1, <2>2
<1> HIDE DEF rule
<1>3. LessonTyped'
  BY <1>1, <1>2 DEF LessonTyped, ResolveSteps
<1>4. ResolveKnows'
  BY <1>1, <1>2 DEF ResolveKnows, Lesson!HasRule
<1>5. HeadKnows'
  <2>1. op'.clean => Lesson!PitfallsFile \notin dirty
    BY <1>1 DEF Lesson!FilesOf
  <2> QED
    BY <1>1, <2>1 DEF HeadKnows, Lesson!Resolved
<1>6. RulesFollow' /\ Remembered' /\ Told'
  BY <1>1 DEF RulesFollow, Remembered, Told, Lesson!HasRule, Lesson!Resolved, GateThere
<1> QED
  BY <1>3, <1>4, <1>5, <1>6

LEMMA WritesPitfallsKeeps == LessonInv /\ Lesson!ResolveWritesPitfalls => LessonInv'
<1> SUFFICES ASSUME LessonInv, Lesson!ResolveWritesPitfalls PROVE LessonInv'
  OBVIOUS
<1> USE DEF LessonInv
<1> DEFINE id == op.id
<1>1. /\ op.pc = "pitfalls" /\ op' = [op EXCEPT !.pc = "rule"]
      /\ pitfalls' = [pitfalls EXCEPT ![id] = op.resolution]
      /\ dirty' = IF Lesson!Resolved(id) THEN dirty ELSE dirty \cup {Lesson!PitfallsFile}
      /\ UNCHANGED <<rules, gates, signals, head, maintain, retired, declared, dropped>>
  BY DEF Lesson!ResolveWritesPitfalls, Lesson!At, Lesson!Goto, Lesson!history
<1>2. /\ id \in Ids /\ op.resolution \in Resolutions
      /\ pitfalls \in [Ids -> {"none", "open"} \cup Resolutions]
  BY <1>1 DEF LessonTyped
<1>3. /\ op'.pc = "rule" /\ op'.id = id /\ op'.resolution = op.resolution
      /\ op'.rule = op.rule /\ op'.clean = op.clean /\ op'.config = op.config
  BY <1>1 DEF LessonTyped
<1>4. Lesson!Resolved(id) => pitfalls[id] = op.resolution
  <2>1. pitfalls[id] \in {"open", op.resolution}
    BY <1>1 DEF ResolveKnows
  <2> QED
    BY <2>1, GovernanceAssumption DEF GovernanceAssumption, Lesson!LessonsAssumption, Lesson!Resolved
<1>5. /\ pitfalls' \in [Ids -> {"none", "open"} \cup Resolutions]
      /\ pitfalls'[id] = op.resolution /\ \A i \in Ids \ {id} : pitfalls'[i] = pitfalls[i]
  BY <1>1, <1>2
<1> HIDE DEF id
<1>6. \A i \in Ids : /\ Lesson!Resolved(i)' <=> Lesson!Resolved(i) \/ i = id
                     /\ Lesson!Resolved(i) => pitfalls'[i] = pitfalls[i]
  BY <1>2, <1>4, <1>5 DEF Lesson!Resolved
<1>7. LessonTyped'
  <2>1. op' \in [pc : ResolveSteps, id : Ids \cup {0}, resolution : Resolutions \cup {Unresolved},
                 rule : LearnedRule \cup {Lesson!NoRule}, clean : BOOLEAN, config : SUBSET Gated]
    BY <1>1 DEF LessonTyped, ResolveSteps
  <2> QED
    BY <1>1, <1>2, <1>3, <1>5, <2>1 DEF LessonTyped
<1>8. ResolveKnows'
  <2>1. op.rule # Lesson!NoRule /\ op.rule.source = op.resolution /\ (Lesson!HasRule(id) => op.rule = rules[id])
    BY <1>1 DEF ResolveKnows, id
  <2> QED
    BY <1>1, <1>3, <1>5, <2>1 DEF ResolveKnows, Lesson!HasRule
<1>9. HeadKnows'
  <2>1. ASSUME Lesson!PitfallsFile \notin dirty', NEW i \in Ids, Lesson!Resolved(i)'
        PROVE  i \in head.resolved
    BY <1>1, <1>6, <2>1 DEF HeadKnows
  <2>2. ASSUME op.clean, NEW i \in Ids, Lesson!Resolved(i)' PROVE i \in head.resolved \/ i = id
    BY <1>1, <1>6, <2>2 DEF HeadKnows, id
  <2> QED
    BY <1>1, <1>3, <2>1, <2>2 DEF HeadKnows
<1>10. RulesFollow'
  BY <1>1, <1>6 DEF RulesFollow, Lesson!HasRule
<1>11. Remembered' /\ Told'
  BY <1>1 DEF Remembered, Told, Lesson!HasRule, GateThere
<1> QED
  BY <1>7, <1>8, <1>9, <1>10, <1>11

LEMMA WritesRuleKeeps == LessonInv /\ Lesson!ResolveWritesRule => LessonInv'
<1> SUFFICES ASSUME LessonInv, Lesson!ResolveWritesRule PROVE LessonInv'
  OBVIOUS
<1> USE DEF LessonInv
<1> DEFINE id == op.id
<1>1. /\ op.pc = "rule" /\ op' = [op EXCEPT !.pc = "config"]
      /\ rules' = [rules EXCEPT ![id] = op.rule]
      /\ Lesson!PitfallsFile \notin dirty' => Lesson!PitfallsFile \notin dirty
      /\ UNCHANGED <<pitfalls, gates, signals, head, maintain, retired, declared, dropped>>
  BY DEF Lesson!ResolveWritesRule, Lesson!At, Lesson!Goto, Lesson!history
<1>2. /\ id \in Ids /\ op.resolution \in Resolutions /\ pitfalls[id] = op.resolution
      /\ op.rule \in LearnedRule /\ op.rule # Lesson!NoRule /\ op.rule.source = op.resolution
      /\ Lesson!HasRule(id) => op.rule = rules[id]
  BY <1>1 DEF LessonTyped, ResolveKnows
<1>3. /\ op'.pc = "config" /\ op'.id = id /\ op'.resolution = op.resolution
      /\ op'.rule = op.rule /\ op'.clean = op.clean /\ op'.config = op.config
  BY <1>1 DEF LessonTyped
<1>4. /\ rules' \in [Ids -> LearnedRule \cup {Lesson!NoRule}]
      /\ rules'[id] = op.rule /\ \A i \in Ids \ {id} : rules'[i] = rules[i]
  BY <1>1, <1>2 DEF LessonTyped
<1>5. LessonTyped'
  <2>1. op' \in [pc : ResolveSteps, id : Ids \cup {0}, resolution : Resolutions \cup {Unresolved},
                 rule : LearnedRule \cup {Lesson!NoRule}, clean : BOOLEAN, config : SUBSET Gated]
    BY <1>1 DEF LessonTyped, ResolveSteps
  <2> QED
    BY <1>1, <1>2, <1>3, <1>4, <2>1 DEF LessonTyped
<1> HIDE DEF id
<1>6. \A i \in Ids : Lesson!HasRule(i) => rules'[i] = rules[i]
  BY <1>2, <1>4
<1>7. \A i \in Ids : Lesson!HasRule(i)' <=> Lesson!HasRule(i) \/ i = id
  BY <1>2, <1>4, <1>6 DEF Lesson!HasRule
<1>8. ResolveKnows'
  BY <1>1, <1>2, <1>3, <1>7 DEF ResolveKnows
<1>9. HeadKnows'
  BY <1>1, <1>3 DEF HeadKnows, Lesson!Resolved, id
<1>10. RulesFollow'
  BY <1>1, <1>2, <1>4, <1>6, <1>7 DEF RulesFollow, Lesson!Resolved
<1>11. Remembered'
  <2>1. \A i \in retired : i \in Ids /\ Lesson!HasRule(i) /\ rules[i].status = "retired"
    BY DEF Remembered, Lesson!HasRule, Lesson!NoRule
  <2>2. \A low, high \in Ids : high \in rules[low].conflictsWith => Lesson!HasRule(low)
    BY DEF Lesson!HasRule, Lesson!NoRule
  <2>3. \A pair \in declared : \E low, high \in Ids :
          pair = {low, high} /\ low # high /\ high \in rules'[low].conflictsWith
    BY <1>6, <2>2 DEF Remembered
  <2> QED
    BY <1>1, <1>6, <2>1, <2>3 DEF Remembered
<1>12. Told'
  BY <1>1, <1>7 DEF Told, GateThere
<1> QED
  BY <1>5, <1>8, <1>9, <1>10, <1>11, <1>12

\* What a resolve has read of config.yaml it needs no more, or is still kept.
LEMMA ConfigStepsKeep ==
  ASSUME LessonInv,
         Lesson!ResolveReadsConfig \/ Lesson!ResolveWritesGate \/ Lesson!MaintainReads \/ Lesson!MaintainWrites
  PROVE  LessonInv'
<1> USE DEF LessonInv
<1> DEFINE Op == [pc : ResolveSteps, id : Ids \cup {0}, resolution : Resolutions \cup {Unresolved},
                  rule : LearnedRule \cup {Lesson!NoRule}, clean : BOOLEAN, config : SUBSET Gated]
<1>1. op \in Op /\ gates \subseteq Gated /\ maintain \in [reading : BOOLEAN, config : SUBSET Gated]
  BY DEF LessonTyped
<1>2. /\ UNCHANGED <<pitfalls, rules, signals, head, retired, declared>>
      /\ op' = op \/ op' = [op EXCEPT !.pc = "gate", !.config = gates] \/ op' = [op EXCEPT !.pc = "journal", !.config = {}]
      /\ Lesson!PitfallsFile \notin dirty' => Lesson!PitfallsFile \notin dirty
  BY DEF Lesson!ResolveReadsConfig, Lesson!ResolveWritesGate, Lesson!MaintainReads, Lesson!MaintainWrites,
         Lesson!WriteConfig, Lesson!At, Lesson!history, Lesson!repo
<1>3. op' \in Op /\ op'.id = op.id /\ op'.resolution = op.resolution /\ op'.clean = op.clean
  <2>1. ASSUME NEW pc \in ResolveSteps, NEW has \in SUBSET Gated, op' = [op EXCEPT !.pc = pc, !.config = has]
        PROVE  op' \in Op /\ op'.id = op.id /\ op'.resolution = op.resolution /\ op'.clean = op.clean
    BY <1>1, <2>1
  <2>2. "gate" \in ResolveSteps /\ "journal" \in ResolveSteps /\ gates \in SUBSET Gated /\ {} \in SUBSET Gated
    BY <1>1 DEF ResolveSteps
  <2> QED
    BY <1>1, <1>2, <2>1, <2>2, Zenon
<1>4. op'.pc # "idle" => op.pc # "idle"
  BY <1>2 DEF Lesson!ResolveReadsConfig, Lesson!ResolveWritesGate, Lesson!MaintainReads, Lesson!MaintainWrites, Lesson!At
<1>5. /\ gates' \subseteq Gated /\ maintain' \in [reading : BOOLEAN, config : SUBSET Gated]
      /\ \A g \in Gated : Kept(g) => Kept(g)'
      /\ \A i \in Ids : GateThere(i) => GateThere(i)'
      /\ op'.pc = "gate" => \A g \in op'.config : Kept(g)'
      /\ op'.pc \in {"journal", "commit"} => GateThere(op.id)'
  <2>1. CASE Lesson!ResolveReadsConfig
    <3>1. UNCHANGED <<gates, dropped, maintain>> /\ op' = [op EXCEPT !.pc = "gate", !.config = gates]
      BY <2>1 DEF Lesson!ResolveReadsConfig, Lesson!history
    <3>2. op'.pc = "gate" /\ op'.config = gates
      BY <1>1, <3>1
    <3> QED
      BY <1>1, <3>1, <3>2 DEF Kept, GateThere
  <2>2. CASE Lesson!ResolveWritesGate
    <3>1. /\ op.pc = "gate" /\ op' = [op EXCEPT !.pc = "journal", !.config = {}] /\ UNCHANGED maintain
          /\ IF Lesson!Suggests(op.config, op.id)
             THEN Lesson!WriteConfig(op.config, op.config \cup {Lesson!Gate(op.id)})
             ELSE UNCHANGED <<gates, dirty, dropped>>
      BY <2>2 DEF Lesson!ResolveWritesGate, Lesson!At
    <3>2. op'.pc = "journal" /\ op.id \in Ids /\ op.config \subseteq Gated /\ \A g \in op.config : Kept(g)
      BY <1>1, <3>1 DEF LessonTyped, ResolveKnows
    <3>3. CASE Lesson!Suggests(op.config, op.id)
      <4> DEFINE result == op.config \cup {Lesson!Gate(op.id)}
      <4>1. /\ result \in SUBSET Gated /\ Lesson!Maintained(op.config) \subseteq result
            /\ Lesson!WriteConfig(op.config, result) /\ Lesson!Gate(op.id) \in result
        BY <3>1, <3>2, <3>3 DEF Gated, Lesson!Maintained
      <4> HIDE DEF result
      <4>2. /\ gates' \subseteq Gated /\ \A g \in Gated : Kept(g) => Kept(g)'
            /\ \A i \in Ids : GateThere(i) => GateThere(i)'
        BY <3>2, <4>1, ConfigWritten
      <4>3. Lesson!Gate(op.id) \in gates' /\ Lesson!Gate(op.id).by = op.id
        BY <4>1 DEF Lesson!WriteConfig, Lesson!Gate
      <4>4. GateThere(op.id)'
        BY <1>3, <4>3 DEF GateThere
      <4> QED
        BY <1>1, <3>1, <3>2, <4>2, <4>4
    <3>4. CASE ~Lesson!Suggests(op.config, op.id)
      <4>1. UNCHANGED <<gates, dropped>>
        BY <3>1, <3>4
      <4>2. GateThere(op.id)
        <5>1. CASE Suggested[op.id] \in Weak
          BY <5>1 DEF GateThere
        <5>2. ASSUME NEW g \in op.config, g.by = op.id \/ g.gate = Suggested[op.id] PROVE GateThere(op.id)
          <6>1. g.gate = Suggested[op.id]
            BY <3>2, <5>2, GateOfPitfall
          <6> QED
            BY <3>2, <5>2, <6>1 DEF Kept, GateThere
        <5> QED
          BY <3>4, <5>1, <5>2 DEF Lesson!Suggests
      <4> QED
        BY <1>1, <3>1, <3>2, <4>1, <4>2 DEF Kept, GateThere
    <3> QED
      BY <3>3, <3>4
  <2>3. CASE Lesson!MaintainReads
    <3>1. UNCHANGED <<gates, dropped, op>> /\ maintain' = [reading |-> TRUE, config |-> gates]
      BY <2>3 DEF Lesson!MaintainReads, Lesson!history
    <3> QED
      BY <1>1, <3>1 DEF Kept, GateThere, ResolveKnows
  <2>4. CASE Lesson!MaintainWrites
    <3> DEFINE read == maintain.config
    <3>1. /\ op' = op /\ maintain' = Lesson!NotReading /\ read \in SUBSET Gated
          /\ Lesson!WriteConfig(read, Lesson!Maintained(read))
          /\ Lesson!Maintained(read) \in SUBSET Gated
      BY <1>1, <2>4 DEF Lesson!MaintainWrites, Lesson!Maintained
    <3> HIDE DEF read
    <3>2. /\ gates' \subseteq Gated /\ \A g \in Gated : Kept(g) => Kept(g)'
          /\ \A i \in Ids : GateThere(i) => GateThere(i)'
      BY <3>1, ConfigWritten
    <3>3. op.pc = "gate" => op.config \subseteq Gated /\ \A g \in op.config : Kept(g)
      BY <1>1 DEF ResolveKnows
    <3>4. op.pc \in {"journal", "commit"} => op.id \in Ids /\ GateThere(op.id)
      BY DEF ResolveKnows, LessonTyped
    <3> QED
      BY <3>1, <3>2, <3>3, <3>4 DEF Lesson!NotReading
  <2> QED
    BY <2>1, <2>2, <2>3, <2>4
<1>6. LessonTyped'
  BY <1>2, <1>3, <1>4, <1>5 DEF LessonTyped
<1>7. ResolveKnows'
  <2>1. op' = op \/ (op'.pc = "gate" /\ op.pc = "config") \/ (op'.pc = "journal" /\ op.pc = "gate")
    BY <1>1, <1>2 DEF Lesson!ResolveReadsConfig, Lesson!ResolveWritesGate, Lesson!MaintainReads, Lesson!MaintainWrites, Lesson!At
  <2>2. Lesson!HasRule(op.id)' <=> Lesson!HasRule(op.id)
    BY <1>2, <1>3 DEF Lesson!HasRule
  <2> QED
    BY <1>2, <1>3, <1>5, <2>1, <2>2 DEF ResolveKnows, GateThere, Lesson!HasRule
<1>8. HeadKnows'
  BY <1>2, <1>3, <1>4 DEF HeadKnows, Lesson!Resolved
<1>9. RulesFollow' /\ Remembered'
  BY <1>2 DEF RulesFollow, Remembered, Lesson!HasRule, Lesson!Resolved
<1>10. Told'
  BY <1>2, <1>5 DEF Told, Lesson!HasRule
<1> QED
  BY <1>6, <1>7, <1>8, <1>9, <1>10

LEMMA WritesJournalKeeps == LessonInv /\ Lesson!ResolveWritesJournal => LessonInv'
<1> SUFFICES ASSUME LessonInv, Lesson!ResolveWritesJournal PROVE LessonInv'
  OBVIOUS
<1> USE DEF LessonInv
<1> DEFINE id == op.id
<1>1. /\ op.pc = "journal" /\ op' = [op EXCEPT !.pc = "commit"]
      /\ signals' = [signals EXCEPT ![id] = IF signals[id] = 0 THEN signals[id] + 1 ELSE signals[id]]
      /\ Lesson!PitfallsFile \notin dirty' => Lesson!PitfallsFile \notin dirty
      /\ UNCHANGED <<pitfalls, rules, gates, head, maintain, retired, declared, dropped>>
  BY DEF Lesson!ResolveWritesJournal, Lesson!At, Lesson!Goto, Lesson!JournalNeeds, Lesson!history
<1>2. id \in Ids /\ Lesson!HasRule(id) /\ GateThere(id)
  BY <1>1 DEF LessonTyped, ResolveKnows
<1>3. /\ op' \in [pc : ResolveSteps, id : Ids \cup {0}, resolution : Resolutions \cup {Unresolved},
                  rule : LearnedRule \cup {Lesson!NoRule}, clean : BOOLEAN, config : SUBSET Gated]
      /\ op'.pc = "commit" /\ op'.id = id /\ op'.resolution = op.resolution /\ op'.clean = op.clean
  BY <1>1 DEF LessonTyped, ResolveSteps
<1>4. signals' \in [Ids -> Nat] /\ \A i \in Ids : signals'[i] <= 1 /\ (i # id => signals'[i] = signals[i])
  BY <1>1, <1>2 DEF LessonTyped, Told
<1>5. LessonTyped'
  BY <1>1, <1>2, <1>3, <1>4 DEF LessonTyped
<1>6. ResolveKnows'
  BY <1>1, <1>2, <1>3 DEF ResolveKnows, Lesson!HasRule, GateThere
<1>7. HeadKnows'
  BY <1>1, <1>3 DEF HeadKnows, Lesson!Resolved
<1>8. RulesFollow' /\ Remembered'
  BY <1>1 DEF RulesFollow, Remembered, Lesson!HasRule, Lesson!Resolved
<1>9. Told'
  BY <1>1, <1>2, <1>4 DEF Told, Lesson!HasRule, GateThere
<1> QED
  BY <1>5, <1>6, <1>7, <1>8, <1>9

\* After a resolve has ended, in one way or another.
LEMMA IdleKeeps ==
  ASSUME LessonInv, op' = Lesson!Idle,
         UNCHANGED <<pitfalls, rules, gates, signals, maintain, retired, declared, dropped>>,
         head' \in [resolved : SUBSET Ids, rules : SUBSET Ids],
         Lesson!PitfallsFile \notin dirty' => \A i \in Ids : Lesson!Resolved(i) => i \in head'.resolved
  PROVE  LessonInv'
<1> USE DEF LessonInv
<1>1. LessonTyped'
  BY DEF LessonTyped, Lesson!Idle, ResolveSteps
<1>2. ResolveKnows' /\ HeadKnows'
  BY DEF ResolveKnows, HeadKnows, Lesson!Idle, Lesson!Resolved
<1>3. RulesFollow' /\ Remembered' /\ Told'
  BY DEF RulesFollow, Remembered, Told, GateThere, Lesson!HasRule, Lesson!Resolved
<1> QED
  BY <1>1, <1>2, <1>3

\* A resolve ends; what it commits holds every lesson that was resolved.
LEMMA ResolveEndsKeeps ==
  ASSUME LessonInv, Lesson!ResolveCommits \/ Lesson!ResolveSkipsCommit \/ Lesson!ResolveDies
  PROVE  LessonInv' /\ Lesson!PublishesWhole
<1> USE DEF LessonInv
<1>1. op' = Lesson!Idle /\ UNCHANGED <<pitfalls, rules, gates, signals, maintain, retired, declared, dropped>>
  BY DEF Lesson!ResolveCommits, Lesson!ResolveSkipsCommit, Lesson!ResolveDies, Lesson!history
<1>2. \/ UNCHANGED <<head, dirty>> /\ ~Lesson!ResolveCommits
      \/ /\ op.pc = "commit" /\ op.clean
         /\ head' = Lesson!Committed(Lesson!FilesOf(op.id))
  BY DEF Lesson!ResolveCommits, Lesson!ResolveSkipsCommit, Lesson!ResolveDies, Lesson!repo, Lesson!At, Lesson!MayCommit
<1>3. CASE UNCHANGED <<head, dirty>> /\ ~Lesson!ResolveCommits
  <2>1. /\ head' \in [resolved : SUBSET Ids, rules : SUBSET Ids] /\ Lesson!PublishesWhole
        /\ Lesson!PitfallsFile \notin dirty' => \A i \in Ids : Lesson!Resolved(i) => i \in head'.resolved
    BY <1>3 DEF LessonTyped, HeadKnows, Lesson!PublishesWhole
  <2> QED
    BY <1>1, <2>1, IdleKeeps
<1>4. CASE /\ op.pc = "commit" /\ op.clean
           /\ head' = Lesson!Committed(Lesson!FilesOf(op.id))
  <2>1. op.id \in Ids /\ Lesson!HasRule(op.id)
    BY <1>4 DEF LessonTyped, ResolveKnows
  <2>2. Lesson!PitfallsFile \in Lesson!FilesOf(op.id) /\ Lesson!RuleFile(op.id) \in Lesson!FilesOf(op.id)
    BY DEF Lesson!FilesOf
  <2>3. /\ head'.resolved = {i \in Ids : Lesson!Resolved(i)} /\ op.id \in head'.rules
        /\ head' \in [resolved : SUBSET Ids, rules : SUBSET Ids]
    BY <1>4, <2>1, <2>2 DEF Lesson!Committed
  <2>4. head'.resolved \ head.resolved \subseteq {op.id}
    BY <1>4, <2>3 DEF HeadKnows
  <2>5. Lesson!PublishesWhole
    BY <2>3, <2>4 DEF Lesson!PublishesWhole
  <2> QED
    BY <1>1, <2>3, <2>5, IdleKeeps
<1> QED
  BY <1>2, <1>3, <1>4

LEMMA UserCommitsKeeps == LessonInv /\ Lesson!UserCommits => LessonInv'
<1> SUFFICES ASSUME LessonInv, Lesson!UserCommits PROVE LessonInv'
  OBVIOUS
<1> USE DEF LessonInv
<1>1. /\ head' = Lesson!Committed(Lesson!AllFiles)
      /\ UNCHANGED <<pitfalls, rules, gates, signals, op, maintain, retired, declared, dropped>>
  BY DEF Lesson!UserCommits, Lesson!history
<1>2. \A i \in Ids : Lesson!PitfallsFile \in Lesson!AllFiles
  BY DEF Lesson!AllFiles, Lesson!FilesOf
<1>3. /\ head' \in [resolved : SUBSET Ids, rules : SUBSET Ids]
      /\ \A i \in Ids : Lesson!Resolved(i) => i \in head'.resolved
  <2>1. head \in [resolved : SUBSET Ids, rules : SUBSET Ids]
    BY DEF LessonTyped
  <2> QED
    BY <1>1, <1>2, <2>1 DEF Lesson!Committed
<1>4. LessonTyped' /\ HeadKnows'
  BY <1>1, <1>3 DEF LessonTyped, HeadKnows, Lesson!Resolved
<1>5. ResolveKnows' /\ RulesFollow' /\ Remembered' /\ Told'
  BY <1>1 DEF ResolveKnows, RulesFollow, Remembered, Told, Kept, GateThere, Lesson!HasRule, Lesson!Resolved
<1> QED
  BY <1>4, <1>5

LEMMA LessonStep == LessonInv /\ [Lesson!Next]_lessonVars => LessonInv' /\ Lesson!PublishesWhole
<1> SUFFICES ASSUME LessonInv, [Lesson!Next]_lessonVars PROVE LessonInv' /\ Lesson!PublishesWhole
  OBVIOUS
<1>1. CASE UNCHANGED lessonVars
  <2>1. LessonInv'
    BY <1>1 DEF lessonVars, LessonInv, LessonTyped, ResolveKnows, HeadKnows, RulesFollow, Remembered, Told, Kept,
                GateThere, Lesson!HasRule, Lesson!Resolved
  <2>2. Lesson!PublishesWhole
    BY <1>1 DEF lessonVars, Lesson!PublishesWhole
  <2> QED
    BY <2>1, <2>2
<1>2. CASE Lesson!ResolveCommits
  BY <1>2, ResolveEndsKeeps
<1>3. CASE Lesson!Next /\ ~Lesson!ResolveCommits
  <2>1. Lesson!PublishesWhole
    BY <1>3 DEF Lesson!PublishesWhole
  <2>2. ASSUME NEW id \in Ids,
               \/ Lesson!AddPitfall(id) \/ Lesson!Promote(id) \/ Lesson!FeedbackEffective(id) \/ Lesson!FeedbackIneffective(id)
               \/ \E high \in Ids : Lesson!DeclareConflict(id, high)
               \/ \E resolution \in Resolutions : Lesson!ResolveBegins(id, resolution)
        PROVE  LessonInv'
    BY <2>2, RecordingKeeps, GovernanceKeeps, ResolveBeginsKeeps
  <2>3. LessonInv'
    BY <1>3, <2>2, WritesPitfallsKeeps, WritesRuleKeeps, ConfigStepsKeep, WritesJournalKeeps, ResolveEndsKeeps,
       UserCommitsKeeps DEF Lesson!Next
  <2> QED
    BY <2>1, <2>3
<1> QED
  BY <1>2, <1>3, <1>1

LEMMA LessonsHold == Spec => [](which = "lessons" => LessonInv)
<1>1. Init => (which = "lessons" => LessonInv)
  BY Apart, LessonsBegin
<1>2. (which = "lessons" => LessonInv) /\ [Next]_vars => (which = "lessons" => LessonInv)'
  BY Apart, LessonStep
<1> QED
  BY <1>1, <1>2, PTL DEF Spec

\* Every variable of the lessons keeps its type.
THEOREM LessonsTyped == Spec => [](which = "lessons" => LessonTyped)
<1>1. (which = "lessons" => LessonInv) => (which = "lessons" => LessonTyped)
  BY DEF LessonInv
<1> QED
  BY <1>1, LessonsHold, PTL

\* A rule found ineffective reaches no later prompt, and no two rules once declared in
\* conflict reach one together, for any query (collectConstraints, constraint-bridge.mjs).
THEOREM RetiredStaysOut == Spec => []InjectedSafely
<1>1. (which = "lessons" => LessonInv) => InjectedSafely
  <2> SUFFICES ASSUME LessonInv, NEW selected \in SUBSET Ids
               PROVE  LET injected == Lesson!Injected(selected)
                      IN injected \cap retired = {} /\ \A pair \in declared : ~(pair \subseteq injected)
    BY DEF InjectedSafely, Lesson!InjectedSafely
  <2> DEFINE injected == Lesson!Injected(selected)
  <2>1. \A i \in injected : rules[i].status = "active" /\ \A j \in injected \ {i} : j \notin rules[i].conflictsWith
    BY DEF Lesson!Injected, Lesson!Eligible, Lesson!Clash
  <2> HIDE DEF injected
  <2>2. injected \cap retired = {}
    BY <2>1 DEF LessonInv, Remembered
  <2>3. \A pair \in declared : ~(pair \subseteq injected)
    BY <2>1 DEF LessonInv, Remembered
  <2> QED
    BY <2>2, <2>3 DEF injected
<1> QED
  BY <1>1, LessonsHold, PTL

\* However often a resolve dies and is repeated, the journal tells of it once, its rule
\* says what the pitfall says, and the gate it promised is there (pitfall --resolve).
THEOREM LessonsToldOnce == Spec => []ResolvedOnce
<1>1. (which = "lessons" => LessonInv) => ResolvedOnce
  BY DEF LessonInv, ResolvedOnce, Lesson!ResolvedOnce, RulesFollow, Told, GateThere
<1> QED
  BY <1>1, LessonsHold, PTL

\* A commit made by a resolve puts no pitfall at HEAD as resolved without its rule
\* (commitConstraintArtifacts).
THEOREM LessonsCommittedWhole == Spec => CommitsWholeLessons
<1>1. (which = "lessons" => LessonInv) /\ [Next]_vars => [which = "lessons" => Lesson!PublishesWhole]_lessonVars
  BY Apart, LessonStep
<1> QED
  BY <1>1, LessonsHold, PTL DEF Spec, CommitsWholeLessons

-----------------------------------------------------------------------------
(* Gate evidence. While the gates of Testing run, those the configuration    *)
(* requires are still to run or have passed on code that is no older than    *)
(* the sequence; what the log says of a gate, it has done.                   *)

GateText == [status : Seq({"PASS", "FAIL"}), blocking : BOOLEAN]
GateSteps ==
  {"idle", "dispatch", "gates", "fallback", "failing", "failed", "done", "copy", "describe", "settle", "conclude"}
Verdicts == {"gates", "fallback"}
GateEnds == {"none", "dispatch", "command", "eval", "findings", "unstructured", "reviewer", "fallback"}
GateResults == {"none", "approved", "unproven", "failing"}
GateExec ==
  [pc : GateSteps, conf : Configs, left : SUBSET Gate!GateNames, retried : BOOLEAN, why : GateEnds]
GateProof == [passed : [Gate!GateNames -> Nat], text : GateText, began : Nat, conf : Configs]
GateStates == {"Backlog", "InProgress", "Review", "Testing", "Done", "Failed"}

GateTyped ==
  /\ conf \in Configs /\ code \in Nat \ {0} /\ state \in GateStates
  /\ exec \in GateExec
  /\ log \in Seq(Gate!Event)
  /\ bundle \in [copied : Nat, at : Nat, outcome : Gate!Outcomes \cup {"none"}, spoilt : BOOLEAN]
  /\ bundle.at <= Len(log)
  /\ manifest \in [result : GateResults, code : Nat, conf : Configs]
  /\ proof \in GateProof

LogTellsPasses ==
  \A i \in 1..Len(log) : log[i].passed /\ log[i].gate \in Gate!GateNames => proof.passed[log[i].gate] # 0

PassesKnown ==
  /\ ~proof.text.blocking
  /\ \A g \in Gate!GateNames : proof.passed[g] <= code
  /\ proof.began <= code

\* The gate g has passed since the last full sequence began.
PassedSince(g) == Gate!Required(proof.conf, g) => proof.passed[g] >= proof.began

SequenceKnown ==
  /\ exec.pc \in Verdicts =>
       /\ state \in {"Review", "Testing"}
       /\ state = "Testing" =>
            exec.conf = proof.conf /\ \A g \in Gate!GateNames \ exec.left : PassedSince(g)
  /\ exec.pc \in {"dispatch", "failing"} => state # "Done"
  /\ exec.pc = "conclude" => state = "Done"
  /\ state = "Done" => \A g \in Gate!GateNames : PassedSince(g)

ManifestKnown ==
  manifest.result = "approved" =>
    /\ state = "Done"
    /\ \A g \in Gate!GateNames : /\ proof.passed[g] <= manifest.code
                                 /\ Gate!Required(manifest.conf, g) => proof.passed[g] # 0

GateInv == GateTyped /\ LogTellsPasses /\ PassesKnown /\ SequenceKnown /\ ManifestKnown

LEMMA GateConstants ==
  /\ \A c \in Configs : c.gates \subseteq Gate!GateNames
  /\ Texts \subseteq GateText /\ Gate!NoText \in GateText /\ ~Gate!NoText.blocking
<1>1. Gate!GateAssumption
  BY GovernanceAssumption DEF GovernanceAssumption
<1>2. <<>> \in Seq({"PASS", "FAIL"})
  OBVIOUS
<1> QED
  BY <1>1, <1>2 DEF Gate!GateAssumption, GateText, Gate!NoText, Gate!GateNames

LEMMA GateIdle ==
  ASSUME conf \in Configs
  PROVE  Gate!Idle \in GateExec /\ Gate!Idle.pc = "idle" /\ Gate!Idle.conf = conf /\ Gate!Idle.left = {}
  BY DEF Gate!Idle, GateSteps, GateExec, GateEnds

LEMMA GateBegins == Gate!Init => GateInv
<1> SUFFICES ASSUME Gate!Init PROVE GateInv
  OBVIOUS
<1>1. /\ conf \in Configs /\ code = 1 /\ state = "Backlog" /\ exec = Gate!Idle /\ log = <<>>
      /\ bundle = [copied |-> 0, at |-> 0, outcome |-> "none", spoilt |-> FALSE]
      /\ manifest = [result |-> "none", code |-> 0, conf |-> conf]
      /\ proof = [passed |-> [g \in Gate!GateNames |-> 0], text |-> Gate!NoText, began |-> 0, conf |-> conf]
  BY DEF Gate!Init, Gate!NoBundle, Gate!NoManifest
<1>2. exec \in GateExec /\ exec.pc = "idle"
  BY <1>1, GateIdle
<1>3. /\ proof \in GateProof /\ ~proof.text.blocking /\ proof.began = 0
      /\ \A g \in Gate!GateNames : proof.passed[g] = 0
  BY <1>1, GateConstants DEF GateProof
<1>4. bundle \in [copied : Nat, at : Nat, outcome : Gate!Outcomes \cup {"none"}, spoilt : BOOLEAN] /\ bundle.at = 0
  BY <1>1
<1>5. manifest \in [result : GateResults, code : Nat, conf : Configs] /\ manifest.result = "none"
  BY <1>1 DEF GateResults
<1>6. log \in Seq(Gate!Event) /\ Len(log) = 0
  BY <1>1
<1>7. GateTyped
  BY <1>1, <1>2, <1>3, <1>4, <1>5, <1>6 DEF GateTyped, GateStates
<1> QED
  BY <1>1, <1>2, <1>3, <1>5, <1>6, <1>7
  DEF GateInv, LogTellsPasses, PassesKnown, SequenceKnown, ManifestKnown, Verdicts

\* An event more in the log.
LEMMA LogGrows ==
  ASSUME NEW S, NEW q \in Seq(S), NEW e \in S
  PROVE  /\ Append(q, e) \in Seq(S) /\ Len(q) \in Nat /\ Len(Append(q, e)) = Len(q) + 1
         /\ Append(q, e)[Len(q) + 1] = e /\ \A i \in 1..Len(q) : Append(q, e)[i] = q[i]
  OBVIOUS

\* The gate g has failed, or passed on what the reviewer said in text.
Failing(g) == proof' = proof /\ (exec'.pc = "gates" => g \in Gate!Now.advisory)
Passing(g, text) ==
  proof' = [proof EXCEPT !.passed[g] = code, !.text = IF g = "review" THEN text ELSE @]
\* On with the gates, without g, or with none.
Onwards(g) ==
  /\ exec' \in GateExec /\ exec'.pc \in {"gates", "failing"} /\ exec'.conf = exec.conf
  /\ exec'.pc = "gates" => exec'.left = exec.left \ {g}

\* The verdict on the gate g has been logged: what is left to show of the executor.
LEMMA VerdictKeeps ==
  ASSUME GateInv, exec.pc \in Verdicts, NEW g \in Gate!GateNames, NEW ok \in BOOLEAN,
         Gate!Logged(g, ok), Gate!OnlyVerdict, Onwards(g),
         IF ok THEN \E text \in GateText : ~text.blocking /\ Passing(g, text) ELSE Failing(g)
  PROVE  GateInv'
<1>1. UNCHANGED <<conf, code, state, bundle, track, manifest, count>>
  BY DEF Gate!OnlyVerdict, Gate!Unevidenced
<1> DEFINE said == Gate!Said(g, g \notin Gate!Now.advisory, ok)
<1>2. log' = Append(log, said) /\ log \in Seq(Gate!Event)
  BY DEF Gate!Logged, GateInv, GateTyped
<1>3. said \in Gate!Event /\ said.gate = g /\ said.passed = ok
  BY DEF Gate!Said, Gate!Event
<1> HIDE DEF said
<1>4. /\ log' \in Seq(Gate!Event) /\ Len(log') = Len(log) + 1
      /\ log'[Len(log) + 1] = said /\ \A i \in 1..Len(log) : log'[i] = log[i]
      /\ Len(log) \in Nat
  <2>1. /\ Append(log, said) \in Seq(Gate!Event) /\ Len(log) \in Nat
        /\ Len(Append(log, said)) = Len(log) + 1 /\ Append(log, said)[Len(log) + 1] = said
        /\ \A i \in 1..Len(log) : Append(log, said)[i] = log[i]
    BY <1>2, <1>3, LogGrows
  <2> QED
    BY <1>2, <2>1
<1>5. /\ proof' \in GateProof
      /\ proof'.began = proof.began /\ proof'.conf = proof.conf /\ ~proof'.text.blocking
      /\ \A h \in Gate!GateNames \ {g} : proof'.passed[h] = proof.passed[h]
      /\ IF ok THEN proof'.passed[g] = code ELSE proof' = proof
  <2>1. proof \in GateProof /\ code \in Nat /\ ~proof.text.blocking
    BY DEF GateInv, GateTyped, PassesKnown
  <2>2. CASE ~ok
    BY <2>1, <2>2 DEF Failing
  <2>3. ASSUME ok, NEW text \in GateText, ~text.blocking, Passing(g, text)
        PROVE  /\ proof' \in GateProof /\ proof'.began = proof.began /\ proof'.conf = proof.conf
               /\ ~proof'.text.blocking /\ proof'.passed[g] = code
               /\ \A h \in Gate!GateNames \ {g} : proof'.passed[h] = proof.passed[h]
    BY <2>1, <2>3 DEF GateProof, Passing
  <2> QED
    BY <2>1, <2>2, <2>3
<1>6. code \in Nat \ {0} /\ state \in {"Review", "Testing"}
  BY DEF GateInv, GateTyped, SequenceKnown
<1>7. GateTyped'
  <2>1. bundle.at \in Nat /\ bundle.at <= Len(log)
    BY DEF GateInv, GateTyped
  <2>2. bundle'.at <= Len(log')
    <3>1. bundle'.at = bundle.at
      BY <1>1
    <3>2. Len(log') = Len(log) + 1 /\ Len(log) \in Nat
      BY <1>4
    <3> QED
      BY <2>1, <3>1, <3>2
  <2> QED
    BY <1>1, <1>4, <1>5, <2>2 DEF GateInv, GateTyped, Onwards
<1>8. LogTellsPasses'
  <2> SUFFICES ASSUME NEW i \in 1..Len(log'), log'[i].passed, log'[i].gate \in Gate!GateNames
               PROVE  proof'.passed[log'[i].gate] # 0
    BY DEF LogTellsPasses
  <2>1. CASE i \in 1..Len(log)
    <3>1. log'[i] = log[i]
      BY <1>4, <2>1
    <3>2. proof.passed[log[i].gate] # 0
      BY <2>1, <3>1 DEF GateInv, LogTellsPasses
    <3> QED
      BY <1>5, <1>6, <3>1, <3>2
  <2>2. CASE i = Len(log) + 1
    <3>1. log'[i].gate = g /\ log'[i].passed = ok
      BY <1>3, <1>4, <2>2
    <3> QED
      BY <1>5, <1>6, <3>1
  <2>3. Len(log') = Len(log) + 1 /\ Len(log) \in Nat
    BY <1>4
  <2>4. i \in 1..Len(log) \/ i = Len(log) + 1
    BY <2>3
  <2> QED
    BY <2>1, <2>2, <2>4
<1>9. PassesKnown'
  <2>1. \A h \in Gate!GateNames : proof'.passed[h] <= code
    <3> SUFFICES ASSUME NEW h \in Gate!GateNames PROVE proof'.passed[h] <= code
      OBVIOUS
    <3>1. proof.passed[h] <= code /\ proof.passed[h] \in Nat
      BY DEF GateInv, PassesKnown, GateTyped, GateProof
    <3>2. proof'.passed[h] \in {proof.passed[h], code}
      BY <1>5
    <3> QED
      BY <1>6, <3>1, <3>2
  <2> QED
    BY <1>1, <1>5, <2>1 DEF GateInv, PassesKnown
<1>10. SequenceKnown'
  <2>0. /\ exec'.pc \in {"gates", "failing"} /\ exec'.conf = exec.conf
        /\ exec'.pc = "gates" => exec'.left = exec.left \ {g}
    BY DEF Onwards
  <2> SUFFICES ASSUME exec'.pc = "gates", state = "Testing", NEW h \in Gate!GateNames \ exec'.left
               PROVE  PassedSince(h)'
    BY <1>1, <1>5, <1>6, <2>0 DEF GateInv, SequenceKnown, Verdicts
  <2>1. CASE h # g
    BY <1>5, <2>0, <2>1 DEF GateInv, SequenceKnown, PassedSince
  <2>2. CASE h = g /\ ok
    <3>1. proof.began <= code
      BY DEF GateInv, PassesKnown
    <3> QED
      BY <1>5, <2>2, <3>1 DEF PassedSince
  <2>3. CASE h = g /\ ~ok
    <3>1. g \in exec.conf.advisory /\ exec.conf = proof.conf
      BY <2>3 DEF Failing, Gate!Now, Gate!Stage, GateInv, SequenceKnown
    <3> QED
      BY <1>5, <2>3, <3>1 DEF PassedSince, Gate!Required
  <2> QED
    BY <2>1, <2>2, <2>3
<1>11. ManifestKnown'
  BY <1>1, <1>6 DEF GateInv, ManifestKnown
<1> QED
  BY <1>7, <1>8, <1>9, <1>10, <1>11 DEF GateInv

LEMMA PassKeeps ==
  ASSUME GateInv, exec.pc \in Verdicts, NEW g \in Gate!GateNames, NEW text \in GateText, ~text.blocking,
         Gate!GatePasses(g, text), Gate!OnlyVerdict
  PROVE  GateInv'
<1>1. exec \in GateExec
  BY DEF GateInv, GateTyped
<1>2. exec' = [exec EXCEPT !.pc = "gates", !.left = @ \ {g}, !.retried = FALSE]
  BY DEF Gate!GatePasses, Gate!GateOver
<1>3. Onwards(g)
  BY <1>1, <1>2 DEF Onwards, GateExec, GateSteps
<1>4. Gate!Logged(g, TRUE) /\ Passing(g, text)
  BY DEF Gate!GatePasses, Passing
<1>5. \E t \in GateText : ~t.blocking /\ Passing(g, t)
  BY <1>4
<1> QED
  BY <1>3, <1>4, <1>5, VerdictKeeps

LEMMA GateStopKeeps ==
  ASSUME GateInv, exec.pc \in Verdicts, NEW g \in Gate!GateNames, NEW why \in GateEnds,
         Gate!GateStops(g, why), Gate!OnlyVerdict
  PROVE  GateInv'
<1>1. exec \in GateExec
  BY DEF GateInv, GateTyped
<1>2. exec' = [exec EXCEPT !.pc = "failing", !.why = why]
  BY DEF Gate!GateStops
<1>3. Onwards(g)
  BY <1>1, <1>2 DEF Onwards, GateExec, GateSteps
<1>4. Gate!Logged(g, FALSE) /\ Failing(g)
  BY <1>1, <1>2 DEF Gate!GateStops, Failing, GateExec
<1> QED
  BY <1>3, <1>4, VerdictKeeps

LEMMA FailKeeps ==
  ASSUME GateInv, exec.pc \in Verdicts, NEW g \in Gate!GateNames, NEW why \in GateEnds,
         Gate!GateFails(g, why), Gate!OnlyVerdict
  PROVE  GateInv'
<1>1. CASE g \notin Gate!Now.advisory
  BY <1>1, GateStopKeeps DEF Gate!GateFails
<1>2. CASE g \in Gate!Now.advisory
  <2>1. exec \in GateExec
    BY DEF GateInv, GateTyped
  <2>2. exec' = [exec EXCEPT !.pc = "gates", !.left = @ \ {g}, !.retried = FALSE]
    BY <1>2 DEF Gate!GateFails, Gate!GateOver
  <2>3. Onwards(g)
    BY <2>1, <2>2 DEF Onwards, GateExec, GateSteps
  <2>4. Gate!Logged(g, FALSE) /\ Failing(g)
    BY <1>2 DEF Gate!GateFails, Failing
  <2> QED
    BY <2>3, <2>4, VerdictKeeps
<1> QED
  BY <1>1, <1>2

\* A step that runs no gate, changes no code and approves nothing.
LEMMA QuietKeeps ==
  ASSUME GateInv, UNCHANGED <<code, state, log, proof, manifest>>, conf' \in Configs, exec' \in GateExec,
         bundle' \in [copied : Nat, at : Nat, outcome : Gate!Outcomes \cup {"none"}, spoilt : BOOLEAN],
         bundle'.at <= Len(log),
         exec'.pc \in Verdicts => exec.pc \in Verdicts /\ exec'.conf = exec.conf /\ exec'.left = exec.left,
         exec'.pc \in {"dispatch", "failing"} => state # "Done",
         exec'.pc = "conclude" => state = "Done"
  PROVE  GateInv'
<1>1. GateTyped'
  BY DEF GateInv, GateTyped
<1>2. LogTellsPasses' /\ PassesKnown' /\ ManifestKnown'
  BY DEF GateInv, LogTellsPasses, PassesKnown, ManifestKnown
<1>3. \A g \in Gate!GateNames : PassedSince(g)' <=> PassedSince(g)
  BY DEF PassedSince
<1>4. SequenceKnown'
  BY <1>3 DEF GateInv, SequenceKnown
<1> QED
  BY <1>1, <1>2, <1>4 DEF GateInv

\* The bundle of a state, and an executor that only goes on, are what they have to be.
LEMMA BundleTyped ==
  ASSUME GateInv
  PROVE  /\ bundle \in [copied : Nat, at : Nat, outcome : Gate!Outcomes \cup {"none"}, spoilt : BOOLEAN]
         /\ bundle.at <= Len(log) /\ Len(log) \in Nat /\ conf \in Configs /\ exec \in GateExec
BY DEF GateInv, GateTyped

LEMMA MovesOn ==
  ASSUME NEW pc \in GateSteps \ Verdicts, exec \in GateExec, Gate!At(pc)
  PROVE  exec' \in GateExec /\ exec'.pc = pc /\ exec'.pc \notin Verdicts
BY DEF Gate!At, GateExec, Verdicts

LEMMA GateJudgeKeeps ==
  ASSUME GateInv, exec.pc \in Verdicts, NEW text \in GateText, Gate!Judge(text), Gate!OnlyVerdict
  PROVE  GateInv'
<1>1. "review" \in Gate!GateNames /\ {"findings", "unstructured"} \subseteq GateEnds
  BY DEF Gate!GateNames, GateEnds
<1>2. CASE Gate!Passes(text)
  <2>1. Gate!GatePasses("review", text) /\ ~text.blocking
    BY <1>2 DEF Gate!Judge, Gate!Passes
  <2> QED
    BY <1>1, <2>1, PassKeeps
<1>3. CASE ~Gate!Passes(text) /\ Gate!Blocks(text)
  <2>1. Gate!GateStops("review", "findings")
    BY <1>3 DEF Gate!Judge
  <2> QED
    BY <1>1, <2>1, GateStopKeeps
<1>4. CASE ~Gate!Passes(text) /\ ~Gate!Blocks(text) /\ ~exec.retried
  <2>1. exec' = [exec EXCEPT !.pc = "gates", !.retried = TRUE] /\ UNCHANGED <<log, proof>>
    BY <1>4 DEF Gate!Judge
  <2>2. UNCHANGED <<conf, code, state, bundle, manifest>>
    BY DEF Gate!OnlyVerdict, Gate!Unevidenced
  <2>3. exec \in GateExec
    BY BundleTyped
  <2>4. exec' \in GateExec /\ exec'.pc = "gates" /\ exec'.conf = exec.conf /\ exec'.left = exec.left
    BY <2>1, <2>3 DEF GateExec, GateSteps
  <2> QED
    BY <2>1, <2>2, <2>4, BundleTyped, QuietKeeps
<1>5. CASE ~Gate!Passes(text) /\ ~Gate!Blocks(text) /\ exec.retried
  <2>1. ~text.blocking
    BY <1>5 DEF Gate!Blocks
  <2>2. Gate!GatePasses("review", text) \/ Gate!GateStops("review", "unstructured")
    BY <1>5 DEF Gate!Judge
  <2> QED
    BY <1>1, <2>1, <2>2, PassKeeps, GateStopKeeps
<1> QED
  BY <1>2, <1>3, <1>4, <1>5

LEMMA CommandKeeps == ASSUME GateInv, Gate!RunCommand PROVE GateInv'
<1>1. PICK g \in {"build", "acceptance"} :
        Gate!AtGate(g) /\ (Gate!GatePasses(g, Gate!NoText) \/ Gate!GateFails(g, "command"))
  BY DEF Gate!RunCommand
<1>2. g \in Gate!GateNames /\ "command" \in GateEnds
  BY DEF Gate!GateNames, GateEnds
<1>3. exec.pc \in Verdicts /\ Gate!OnlyVerdict
  BY <1>1 DEF Gate!AtGate, Verdicts, Gate!RunCommand
<1> QED
  BY <1>1, <1>2, <1>3, GateConstants, PassKeeps, FailKeeps

LEMMA EvalKeeps == ASSUME GateInv, Gate!RunEval PROVE GateInv'
<1>1. "eval" \in Gate!GateNames /\ "eval" \in GateEnds
  BY DEF Gate!GateNames, GateEnds
<1>2. exec.pc \in Verdicts /\ Gate!OnlyVerdict
  BY DEF Gate!AtGate, Verdicts, Gate!RunEval
<1>3. CASE Gate!GateFails("eval", "eval")
  BY <1>1, <1>2, <1>3, FailKeeps
<1>4. ASSUME NEW text \in Texts, Gate!GatePasses("eval", text)
      PROVE  GateInv'
  <2>1. text \in GateText
    BY GateConstants
  <2>2. Gate!GatePasses("eval", Gate!NoText)
    BY <1>4 DEF Gate!GatePasses
  <2> QED
    BY <1>1, <1>2, <2>2, GateConstants, PassKeeps
<1> QED
  BY <1>3, <1>4 DEF Gate!RunEval

LEMMA ReviewKeeps == ASSUME GateInv, Gate!RunReview PROVE GateInv'
<1>1. PICK text \in Texts : Gate!Judge(text)
  BY DEF Gate!RunReview
<1>2. exec.pc \in Verdicts /\ Gate!OnlyVerdict
  BY DEF Gate!AtGate, Verdicts, Gate!RunReview
<1> QED
  BY <1>1, <1>2, GateConstants, GateJudgeKeeps

LEMMA ReviewerFailsKeeps == ASSUME GateInv, Gate!ReviewerFails PROVE GateInv'
<1>1. "review" \in Gate!GateNames /\ "reviewer" \in GateEnds
  BY DEF Gate!GateNames, GateEnds
<1>2. exec.pc \in Verdicts /\ Gate!OnlyVerdict
  BY DEF Gate!AtGate, Verdicts, Gate!ReviewerFails
<1>3. CASE Gate!GatePasses("review", Gate!NoText)
  BY <1>1, <1>2, <1>3, GateConstants, PassKeeps
<1>4. CASE Gate!GateStops("review", "reviewer")
  BY <1>1, <1>2, <1>4, GateStopKeeps
<1>5. CASE Gate!At("fallback") /\ UNCHANGED <<log, proof>>
  <2>1. UNCHANGED <<conf, code, state, bundle, manifest>>
    BY <1>2 DEF Gate!OnlyVerdict, Gate!Unevidenced
  <2>2. exec \in GateExec
    BY BundleTyped
  <2>3. exec' \in GateExec /\ exec'.pc = "fallback" /\ exec'.conf = exec.conf /\ exec'.left = exec.left
    BY <1>5, <2>2 DEF Gate!At, GateExec, GateSteps
  <2> QED
    BY <1>2, <1>5, <2>1, <2>3, BundleTyped, QuietKeeps
<1> QED
  BY <1>3, <1>4, <1>5 DEF Gate!ReviewerFails

LEMMA FallbackKeeps == ASSUME GateInv, Gate!RunFallback PROVE GateInv'
<1>1. "review" \in Gate!GateNames /\ "fallback" \in GateEnds
  BY DEF Gate!GateNames, GateEnds
<1>2. exec.pc \in Verdicts /\ Gate!OnlyVerdict
  BY DEF Verdicts, Gate!RunFallback
<1>3. ASSUME NEW text \in Texts, Gate!Judge(Gate!Completed(text)) \/ Gate!Judge(text)
      PROVE  GateInv'
  <2>1. text \in GateText
    BY GateConstants
  <2>2. Gate!Completed(text) \in GateText
    <3>1. <<"PASS">> \in Seq({"PASS", "FAIL"})
      OBVIOUS
    <3>2. [text EXCEPT !.status = <<"PASS">>] \in GateText
      BY <2>1, <3>1 DEF GateText
    <3> QED
      BY <2>1, <3>2 DEF Gate!Completed
  <2> QED
    BY <1>2, <1>3, <2>1, <2>2, GateJudgeKeeps
<1>4. CASE Gate!GatePasses("review", Gate!NoText)
  BY <1>1, <1>2, <1>4, GateConstants, PassKeeps
<1>5. CASE Gate!GateStops("review", "fallback")
  BY <1>1, <1>2, <1>5, GateStopKeeps
<1> QED
  BY <1>3, <1>4, <1>5 DEF Gate!RunFallback

\* The gates of a stage that begins are all still to run.
LEMMA EnterKeeps ==
  ASSUME GateTyped, LogTellsPasses, PassesKnown, NEW c \in Configs,
         state' \in {"Review", "Testing"}, Gate!Enter(c, state'), code \in Nat,
         code' \in Nat \ {0}, code <= code', proof.began <= code,
         state' = "Testing" => code' = code,
         UNCHANGED <<conf, log, bundle, manifest>>, manifest.result # "approved"
  PROVE  GateInv'
<1>1. /\ exec' = [Gate!Idle EXCEPT !.pc = "gates", !.conf = c, !.left = Gate!Stage(c, state').gates]
      /\ proof' = IF state' = "Testing" THEN [proof EXCEPT !.began = code, !.conf = c] ELSE proof
  BY DEF Gate!Enter
<1>2. c.gates \subseteq Gate!GateNames /\ Gate!Stage(c, state').gates \subseteq c.gates
  BY GateConstants DEF Gate!Stage, Gate!ForReview
<1>3. Gate!Idle \in GateExec
  BY GateIdle DEF GateTyped
<1>4. exec' \in GateExec /\ exec'.pc = "gates" /\ exec'.conf = c /\ exec'.left = Gate!Stage(c, state').gates
  BY <1>1, <1>2, <1>3 DEF GateExec, GateSteps
<1>5. proof \in GateProof
  BY DEF GateTyped
<1>6. /\ proof' \in GateProof /\ proof'.passed = proof.passed /\ proof'.text = proof.text
      /\ proof'.began \in {proof.began, code}
      /\ state' = "Testing" => proof'.conf = c
  BY <1>1, <1>5 DEF GateProof
<1>7. GateTyped'
  BY <1>4, <1>6 DEF GateTyped, GateStates
<1>8. LogTellsPasses'
  BY <1>6 DEF LogTellsPasses
<1>9. PassesKnown'
  <2>1. ~proof'.text.blocking
    BY <1>6 DEF PassesKnown
  <2>2. proof'.began <= code'
    <3>1. proof.began \in Nat
      BY <1>5 DEF GateProof
    <3> QED
      BY <1>6, <3>1
  <2>3. ASSUME NEW g \in Gate!GateNames PROVE proof'.passed[g] <= code'
    <3>1. proof.passed[g] \in Nat /\ proof.passed[g] <= code
      BY <1>5 DEF GateProof, PassesKnown
    <3> QED
      BY <1>6, <3>1
  <2> QED
    BY <2>1, <2>2, <2>3 DEF PassesKnown
<1>10. SequenceKnown'
  <2>1. ASSUME state' = "Testing", NEW g \in Gate!GateNames \ exec'.left PROVE PassedSince(g)'
    BY <1>4, <1>6, <2>1 DEF PassedSince, Gate!Required, Gate!Stage
  <2> QED
    BY <1>4, <1>6, <2>1 DEF SequenceKnown, Verdicts
<1>11. ManifestKnown'
  BY DEF ManifestKnown
<1> QED
  BY <1>7, <1>8, <1>9, <1>10, <1>11 DEF GateInv

\* No task but one that is done has a manifest for approval.
LEMMA Unapproved == ASSUME GateInv, state # "Done" PROVE manifest.result # "approved"
BY DEF GateInv, ManifestKnown

LEMMA GateStartKeeps == ASSUME GateInv, Gate!Start PROVE GateInv'
<1>1. /\ state # "Done" /\ UNCHANGED <<conf, code, log, bundle, manifest>>
      /\ IF state \in {"Review", "Testing"}
         THEN Gate!Enter(conf, state) /\ state' = state
         ELSE state' = "InProgress" /\ exec' = [Gate!Idle EXCEPT !.pc = "dispatch"] /\ proof' = proof
  BY DEF Gate!Start
<1>2. GateTyped /\ LogTellsPasses /\ PassesKnown /\ conf \in Configs /\ code \in Nat \ {0} /\ proof.began <= code
  BY DEF GateInv, GateTyped, PassesKnown
<1>3. manifest.result # "approved"
  BY <1>1, Unapproved
<1>4. CASE state \in {"Review", "Testing"}
  <2>1. Gate!Enter(conf, state') /\ state' \in {"Review", "Testing"} /\ code' = code
    BY <1>1, <1>4
  <2> QED
    BY <1>1, <1>2, <1>3, <2>1, EnterKeeps
<1>5. CASE state \notin {"Review", "Testing"}
  <2>1. exec' = [Gate!Idle EXCEPT !.pc = "dispatch"] /\ state' = "InProgress" /\ proof' = proof
    BY <1>1, <1>5
  <2>2. Gate!Idle \in GateExec
    BY <1>2, GateIdle
  <2>3. exec' \in GateExec /\ exec'.pc = "dispatch"
    BY <2>1, <2>2 DEF GateExec, GateSteps
  <2>4. GateTyped'
    BY <1>1, <1>2, <2>1, <2>3 DEF GateTyped, GateStates
  <2> QED
    BY <1>1, <1>2, <1>3, <2>1, <2>3, <2>4
    DEF GateInv, LogTellsPasses, PassesKnown, SequenceKnown, ManifestKnown, Verdicts
<1> QED
  BY <1>4, <1>5

LEMMA GateDispatchKeeps == ASSUME GateInv, Gate!Dispatch PROVE GateInv'
<1>1. /\ exec.pc = "dispatch" /\ UNCHANGED <<conf, log, bundle, manifest>>
      /\ code' \in {code, code + 1}
      /\ \/ state' = "Review" /\ Gate!Enter(exec.conf, "Review")
         \/ exec' = [exec EXCEPT !.pc = "failing", !.why = "dispatch"] /\ state' = state /\ proof' = proof
  BY DEF Gate!Dispatch, Gate!Unevidenced
<1>2. /\ GateTyped /\ LogTellsPasses /\ PassesKnown /\ exec \in GateExec /\ code \in Nat \ {0}
      /\ proof.began <= code /\ exec.conf \in Configs /\ state # "Done"
  BY <1>1 DEF GateInv, GateTyped, PassesKnown, GateExec, SequenceKnown
<1>3. manifest.result # "approved" /\ code' \in Nat \ {0} /\ code <= code'
  BY <1>1, <1>2, Unapproved
<1>4. CASE state' = "Review" /\ Gate!Enter(exec.conf, "Review")
  <2>1. Gate!Enter(exec.conf, state')
    BY <1>4
  <2> QED
    BY <1>1, <1>2, <1>3, <1>4, <2>1, EnterKeeps
<1>5. CASE exec' = [exec EXCEPT !.pc = "failing", !.why = "dispatch"] /\ state' = state /\ proof' = proof
  <2>1. exec' \in GateExec /\ exec'.pc = "failing"
    BY <1>2, <1>5 DEF GateExec, GateSteps, GateEnds
  <2>2. GateTyped'
    BY <1>1, <1>2, <1>3, <1>5, <2>1 DEF GateTyped
  <2>3. PassesKnown'
    <3>1. proof \in GateProof
      BY <1>2 DEF GateTyped
    <3>2. ASSUME NEW g \in Gate!GateNames PROVE proof.passed[g] <= code'
      <4>1. proof.passed[g] <= code /\ proof.passed[g] \in Nat
        BY <1>2, <3>1 DEF PassesKnown, GateProof
      <4> QED
        BY <1>2, <1>3, <4>1
    <3>3. proof.began <= code'
      BY <1>2, <1>3, <3>1 DEF GateProof
    <3> QED
      BY <1>2, <1>5, <3>2, <3>3 DEF PassesKnown
  <2> QED
    BY <1>1, <1>2, <1>3, <1>5, <2>1, <2>2, <2>3
    DEF GateInv, LogTellsPasses, SequenceKnown, ManifestKnown, Verdicts
<1> QED
  BY <1>1, <1>4, <1>5

LEMMA StageKeeps == ASSUME GateInv, Gate!StagePassed PROVE GateInv'
<1>1. /\ exec.pc = "gates" /\ exec.left = {} /\ UNCHANGED <<conf, code, log, bundle, manifest>>
      /\ IF state = "Review" THEN state' = "Testing" /\ Gate!Enter(exec.conf, "Testing")
         ELSE state' = "Done" /\ Gate!At("done") /\ proof' = proof
  BY DEF Gate!StagePassed, Gate!Unevidenced
<1>2. /\ GateTyped /\ LogTellsPasses /\ PassesKnown /\ exec \in GateExec /\ code \in Nat \ {0}
      /\ proof.began <= code /\ exec.conf \in Configs /\ state \in {"Review", "Testing"}
  BY <1>1 DEF GateInv, GateTyped, PassesKnown, GateExec, SequenceKnown, Verdicts
<1>3. manifest.result # "approved"
  BY <1>2, Unapproved
<1>4. CASE state = "Review"
  <2>1. Gate!Enter(exec.conf, state') /\ state' = "Testing"
    BY <1>1, <1>4
  <2> QED
    BY <1>1, <1>2, <1>3, <2>1, EnterKeeps
<1>5. CASE state = "Testing"
  <2>1. exec' \in GateExec /\ exec'.pc = "done" /\ proof' = proof /\ state' = "Done"
    BY <1>1, <1>2, <1>5, MovesOn DEF GateSteps, Verdicts
  <2>2. GateTyped'
    BY <1>1, <1>2, <2>1 DEF GateTyped, GateStates
  <2>3. \A g \in Gate!GateNames : PassedSince(g)'
    <3>1. \A g \in Gate!GateNames : PassedSince(g)
      BY <1>1, <1>5 DEF GateInv, SequenceKnown, Verdicts
    <3> QED
      BY <2>1, <3>1 DEF PassedSince
  <2> QED
    BY <1>1, <1>2, <1>3, <2>1, <2>2, <2>3
    DEF GateInv, LogTellsPasses, PassesKnown, SequenceKnown, ManifestKnown, Verdicts
<1> QED
  BY <1>2, <1>4, <1>5

LEMMA TaskFailsKeeps == ASSUME GateInv, Gate!TaskFails PROVE GateInv'
<1>1. exec.pc = "failing" /\ state' = "Failed" /\ UNCHANGED <<conf, code, log, proof, bundle, manifest>>
  BY DEF Gate!TaskFails, Gate!Unevidenced
<1>2. exec' \in GateExec /\ exec'.pc = "failed"
  BY BundleTyped, MovesOn DEF Gate!TaskFails, GateSteps, Verdicts
<1>3. manifest.result # "approved"
  BY <1>1, Unapproved DEF GateInv, SequenceKnown
<1>4. GateTyped'
  BY <1>1, <1>2 DEF GateInv, GateTyped, GateStates
<1> QED
  BY <1>1, <1>2, <1>3, <1>4
  DEF GateInv, LogTellsPasses, PassesKnown, SequenceKnown, ManifestKnown, Verdicts

LEMMA OutcomeKeeps == ASSUME GateInv, Gate!LogOutcome PROVE GateInv'
<1> DEFINE said == Gate!Said(Gate!Outcome, FALSE, state = "Done")
<1>1. log' = Append(log, said) /\ UNCHANGED <<conf, code, state, proof, bundle, manifest>>
  BY DEF Gate!LogOutcome, Gate!Unevidenced
<1>2. said \in Gate!Event /\ said.gate \notin Gate!GateNames
  BY DEF Gate!Said, Gate!Event, Gate!Outcome, Gate!Outcomes, Gate!GateNames
<1>3. log \in Seq(Gate!Event)
  BY DEF GateInv, GateTyped
<1> HIDE DEF said
<1>4. /\ log' \in Seq(Gate!Event) /\ Len(log) \in Nat /\ Len(log') = Len(log) + 1
      /\ log'[Len(log) + 1] = said /\ \A i \in 1..Len(log) : log'[i] = log[i]
  <2>1. /\ Append(log, said) \in Seq(Gate!Event) /\ Len(log) \in Nat
        /\ Len(Append(log, said)) = Len(log) + 1 /\ Append(log, said)[Len(log) + 1] = said
        /\ \A i \in 1..Len(log) : Append(log, said)[i] = log[i]
    BY <1>2, <1>3, LogGrows
  <2> QED
    BY <1>1, <2>1
<1>5. exec' \in GateExec /\ exec'.pc = "copy"
  BY BundleTyped, MovesOn DEF Gate!LogOutcome, GateSteps, Verdicts
<1>6. GateTyped'
  <2>1. bundle.at \in Nat /\ bundle.at <= Len(log)
    BY BundleTyped
  <2>2. bundle'.at <= Len(log')
    BY <1>1, <1>4, <2>1
  <2> QED
    BY <1>1, <1>4, <1>5, <2>2 DEF GateInv, GateTyped
<1>7. LogTellsPasses'
  <2> SUFFICES ASSUME NEW i \in 1..Len(log'), log'[i].passed, log'[i].gate \in Gate!GateNames
               PROVE  proof'.passed[log'[i].gate] # 0
    BY DEF LogTellsPasses
  <2>1. i \in 1..Len(log) \/ i = Len(log) + 1
    BY <1>4
  <2>2. i \in 1..Len(log) /\ log'[i] = log[i]
    BY <1>2, <1>4, <2>1
  <2> QED
    BY <1>1, <2>2 DEF GateInv, LogTellsPasses
<1> QED
  BY <1>1, <1>5, <1>6, <1>7 DEF GateInv, PassesKnown, SequenceKnown, ManifestKnown, Verdicts, PassedSince

\* What describes a task that ended changes the bundle or the track alone.
LEMMA DescriptionKeeps ==
  ASSUME GateInv, Gate!CopyLog \/ Gate!Describe \/ Gate!Settle
  PROVE  GateInv'
<1>1. UNCHANGED <<conf, code, state, log, manifest, proof>>
  BY DEF Gate!CopyLog, Gate!Describe, Gate!Settle
<1>2. CASE Gate!CopyLog
  <2>1. bundle' = [bundle EXCEPT !.copied = Len(log)] /\ exec' \in GateExec /\ exec'.pc = "describe"
    BY <1>2, BundleTyped, MovesOn DEF Gate!CopyLog, GateSteps, Verdicts
  <2> QED
    BY <1>1, <2>1, BundleTyped, QuietKeeps DEF Verdicts
<1>3. CASE Gate!Describe
  <2>1. bundle' = [bundle EXCEPT !.at = Len(log), !.outcome = Gate!Outcome, !.spoilt = FALSE]
    BY <1>3 DEF Gate!Describe, Gate!Described
  <2>2. exec' \in GateExec /\ exec'.pc = "settle" /\ Gate!Outcome \in Gate!Outcomes
    BY <1>3, BundleTyped, MovesOn DEF Gate!Describe, Gate!Outcome, Gate!Outcomes, GateSteps, Verdicts
  <2>3. /\ bundle' \in [copied : Nat, at : Nat, outcome : Gate!Outcomes \cup {"none"}, spoilt : BOOLEAN]
        /\ bundle'.at = Len(log)
    BY <2>1, <2>2, BundleTyped
  <2>4. bundle'.at <= Len(log) /\ conf' \in Configs
    BY <1>1, <2>3, BundleTyped
  <2> QED
    BY <1>1, <2>2, <2>3, <2>4, QuietKeeps DEF Verdicts
<1>4. CASE Gate!Settle
  <2>1. bundle' = bundle /\ (IF state = "Done" THEN Gate!At("conclude") ELSE exec' = Gate!Idle)
    BY <1>4 DEF Gate!Settle
  <2>2. exec' \in GateExec /\ exec'.pc \in {"conclude", "idle"} /\ (exec'.pc = "conclude" => state = "Done")
    BY <2>1, BundleTyped, GateIdle, MovesOn DEF GateSteps, Verdicts
  <2> QED
    BY <1>1, <2>1, <2>2, BundleTyped, QuietKeeps DEF Verdicts
<1> QED
  BY <1>2, <1>3, <1>4

\* A manifest for approval means that the bundle proves every gate that is required.
LEMMA AdmittedIsProven ==
  ASSUME GateInv, Gate!FailedIn(bundle) = {}, Gate!Lacking(bundle) = {}
  PROVE  \A g \in Gate!GateNames : Gate!Required(conf, g) => proof.passed[g] # 0
<1> SUFFICES ASSUME NEW g \in Gate!GateNames, Gate!Required(conf, g) PROVE proof.passed[g] # 0
  OBVIOUS
<1>1. PICK e \in Gate!EvidenceOf(bundle) : e.gate = g
  BY DEF Gate!Lacking
<1>2. PICK i \in Gate!Verdicts(bundle.at) : e = log[i]
  BY DEF Gate!EvidenceOf
<1>3. e.passed
  BY DEF Gate!FailedIn
<1>4. i \in 1..Len(log)
  <2>1. i \in 1..bundle.at
    BY DEF Gate!Verdicts
  <2> QED
    BY <2>1, BundleTyped
<1> QED
  BY <1>1, <1>2, <1>3, <1>4 DEF GateInv, LogTellsPasses

LEMMA ManifestKeeps ==
  ASSUME GateInv, Gate!Conclude \/ Gate!ApproveCommit
  PROVE  GateInv'
<1>1. /\ manifest' = [result |-> Gate!Admits, code |-> code, conf |-> conf]
      /\ UNCHANGED <<conf, code, state, log, bundle, proof>>
      /\ exec' \in {Gate!Idle, exec} /\ state = "Done"
  <2>1. CASE Gate!Conclude
    BY <2>1 DEF Gate!Conclude, GateInv, SequenceKnown
  <2>2. CASE Gate!ApproveCommit
    BY <2>2 DEF Gate!ApproveCommit, GateInv, ManifestKnown
  <2> QED
    BY <2>1, <2>2
<1>2. Gate!Admits \in GateResults
  BY DEF Gate!Admits, GateResults
<1>3. exec' \in GateExec /\ (exec' = exec \/ exec'.pc = "idle")
  BY <1>1, GateIdle, BundleTyped
<1>4. GateTyped'
  BY <1>1, <1>2, <1>3 DEF GateInv, GateTyped
<1>5. ManifestKnown'
  <2> SUFFICES ASSUME Gate!Admits = "approved" PROVE ManifestKnown'
    BY <1>1 DEF ManifestKnown
  <2>1. Gate!FailedIn(bundle) = {} /\ Gate!Lacking(bundle) = {}
    BY DEF Gate!Admits
  <2>2. \A g \in Gate!GateNames : proof.passed[g] <= code /\ (Gate!Required(conf, g) => proof.passed[g] # 0)
    BY <2>1, AdmittedIsProven DEF GateInv, PassesKnown
  <2>3. manifest'.code = code /\ manifest'.conf = conf /\ state' = "Done" /\ proof' = proof
    BY <1>1
  <2> QED
    BY <2>2, <2>3 DEF ManifestKnown
<1>6. LogTellsPasses' /\ PassesKnown'
  BY <1>1 DEF GateInv, LogTellsPasses, PassesKnown
<1>7. \A g \in Gate!GateNames : PassedSince(g)' <=> PassedSince(g)
  BY <1>1 DEF PassedSince
<1>8. SequenceKnown'
  BY <1>1, <1>3, <1>7 DEF GateInv, SequenceKnown, Verdicts
<1> QED
  BY <1>4, <1>5, <1>6, <1>8 DEF GateInv

\* The executor dies; a user edits config.yaml or the bundle.
LEMMA FaultKeeps ==
  ASSUME GateInv, Gate!Die \/ Gate!UserEditsConfig \/ Gate!UserEditsBundle
  PROVE  GateInv'
<1>1. UNCHANGED <<code, state, log, manifest, proof>>
  BY DEF Gate!Die, Gate!UserEditsConfig, Gate!UserEditsBundle
<1>2. CASE Gate!Die
  <2>1. UNCHANGED <<conf, bundle>> /\ exec' \in GateExec /\ exec'.pc = "idle"
    BY <1>2, GateIdle, BundleTyped DEF Gate!Die
  <2> QED
    BY <1>1, <2>1, BundleTyped, QuietKeeps DEF Verdicts
<1>3. CASE Gate!UserEditsConfig
  <2>1. conf' \in Configs /\ UNCHANGED <<exec, bundle>>
    BY <1>3 DEF Gate!UserEditsConfig
  <2>2. /\ exec.pc \in {"dispatch", "failing"} => state # "Done"
        /\ exec.pc = "conclude" => state = "Done"
    BY DEF GateInv, SequenceKnown
  <2> QED
    BY <1>1, <2>1, <2>2, BundleTyped, QuietKeeps
<1>4. CASE Gate!UserEditsBundle
  <2>1. bundle' = [bundle EXCEPT !.spoilt = TRUE] /\ UNCHANGED <<conf, exec>>
    BY <1>4 DEF Gate!UserEditsBundle
  <2>2. /\ exec.pc \in {"dispatch", "failing"} => state # "Done"
        /\ exec.pc = "conclude" => state = "Done"
    BY DEF GateInv, SequenceKnown
  <2> QED
    BY <1>1, <2>1, <2>2, BundleTyped, QuietKeeps
<1> QED
  BY <1>2, <1>3, <1>4

LEMMA EditKeeps == ASSUME GateInv, Gate!UserEditsCode PROVE GateInv'
<1>1. code' = code + 1 /\ UNCHANGED <<conf, state, exec, log, bundle, manifest, proof>>
  BY DEF Gate!UserEditsCode
<1>2. code \in Nat \ {0} /\ proof \in GateProof
  BY DEF GateInv, GateTyped
<1>3. GateTyped'
  BY <1>1, <1>2 DEF GateInv, GateTyped
<1>4. PassesKnown'
  <2>1. ASSUME NEW g \in Gate!GateNames PROVE proof.passed[g] <= code + 1
    <3>1. proof.passed[g] <= code /\ proof.passed[g] \in Nat
      BY <1>2 DEF GateInv, PassesKnown, GateProof
    <3> QED
      BY <1>2, <3>1
  <2>2. proof.began <= code + 1
    BY <1>2 DEF GateInv, PassesKnown, GateProof
  <2> QED
    BY <1>1, <2>1, <2>2 DEF GateInv, PassesKnown
<1>5. \A g \in Gate!GateNames : PassedSince(g)' <=> PassedSince(g)
  BY <1>1 DEF PassedSince
<1> QED
  BY <1>1, <1>3, <1>4, <1>5 DEF GateInv, LogTellsPasses, SequenceKnown, ManifestKnown

LEMMA GateStep == ASSUME GateInv, [Gate!Next]_gateVars PROVE GateInv'
<1>1. CASE UNCHANGED gateVars
  BY <1>1 DEF gateVars, GateInv, GateTyped, LogTellsPasses, PassesKnown, SequenceKnown, PassedSince, ManifestKnown
<1> QED
  BY <1>1, GateStartKeeps, GateDispatchKeeps, CommandKeeps, EvalKeeps, ReviewKeeps, ReviewerFailsKeeps, FallbackKeeps,
     StageKeeps, TaskFailsKeeps, OutcomeKeeps, DescriptionKeeps, ManifestKeeps, FaultKeeps, EditKeeps
  DEF Gate!Next

LEMMA GateHold == Spec => [](which = "gates" => GateInv)
<1>1. Init => (which = "gates" => GateInv)
  BY Apart, GateBegins
<1>2. (which = "gates" => GateInv) /\ [Next]_vars => (which = "gates" => GateInv)'
  BY Apart, GateStep
<1> QED
  BY <1>1, <1>2, PTL DEF Spec

\* What is called proven was gated: every gate that a manifest for approval, or the
\* cockpit's trusted evidence, relies on has passed in this run, and on the very code
\* unless it was edited or reconfigured since (buildCommitApprovalManifest and
\* buildEvidenceTrust over the evidence of runGateSequence), whatever is configured
\* and however often the executor dies.
THEOREM ApprovedIsGated == Spec => []ProofIsReal
<1>1. GateInv => Gate!ProofIsReal
  <2> SUFFICES ASSUME GateInv PROVE Gate!ProofIsReal
    OBVIOUS
  <2>1. /\ proof \in GateProof /\ code \in Nat /\ manifest.code \in Nat /\ ~proof.text.blocking
    BY DEF GateInv, GateTyped, PassesKnown
  <2>2. ASSUME manifest.result = "approved", NEW c, NEW k \in Nat,
               \A g \in Gate!GateNames : proof.passed[g] <= k /\ (Gate!Required(c, g) => proof.passed[g] # 0)
        PROVE  Gate!Proven(c, k)
    <3> SUFFICES ASSUME NEW g \in Gate!GateNames, Gate!Required(c, g), k = proof.began, c = proof.conf
                 PROVE  proof.passed[g] = k
      BY <2>1, <2>2 DEF Gate!Proven
    <3>1. PassedSince(g)
      BY <2>2 DEF GateInv, ManifestKnown, SequenceKnown
    <3>2. proof.passed[g] \in Nat /\ proof.passed[g] <= k /\ proof.passed[g] >= proof.began
      BY <2>1, <2>2, <3>1 DEF PassedSince, GateProof
    <3> QED
      BY <2>2, <3>2
  <2>3. manifest.result = "approved" => Gate!Proven(manifest.conf, manifest.code)
    BY <2>1, <2>2 DEF GateInv, ManifestKnown
  <2>4. Gate!TrustedProof => Gate!Proven(conf, code)
    <3> SUFFICES ASSUME Gate!TrustedProof PROVE Gate!Proven(conf, code)
      OBVIOUS
    <3>1. manifest.result = "approved" /\ Gate!FailedIn(bundle) = {} /\ Gate!Lacking(bundle) = {}
      BY DEF Gate!TrustedProof, Gate!ProofReady
    <3>2. \A g \in Gate!GateNames : proof.passed[g] <= code /\ (Gate!Required(conf, g) => proof.passed[g] # 0)
      BY <3>1, AdmittedIsProven DEF GateInv, PassesKnown
    <3> QED
      BY <2>1, <2>2, <3>1, <3>2
  <2> QED
    BY <2>3, <2>4 DEF Gate!ProofIsReal
<1>2. (which = "gates" => GateInv) => ProofIsReal
  BY <1>1 DEF ProofIsReal
<1> QED
  BY <1>2, GateHold, PTL

-----------------------------------------------------------------------------
(* The plans: what each session knows of the plan it reviews, approves or    *)
(* dispatches, at every step between two of its reads and writes, is that it *)
(* passed a review or that its approval was waived; nobody takes that back.  *)

PlanOrNone == Plans \cup {"none"}
RunFile == [phase : Plan!Governed \cup {"initialized", "dispatch-queued", "done"}, plan : PlanOrNone,
            id : Nat, ver : Nat]
PlanSteps ==
  {"idle", "planned", "superseding", "revoking", "clearing", "checking", "reviewing", "judging", "publishing",
   "recording", "deciding", "validating", "approving", "swapping", "checkpointing", "predispatch", "copying",
   "dispatching"}
PlanSession ==
  [at : PlanSteps, run : RunFile, ok : BOOLEAN, sha : Nat, saw : PlanOrNone, plan : PlanOrNone, tree : Nat,
   waived : BOOLEAN]

PlanTyped ==
  /\ run \in RunFile /\ file \in Nat /\ planFile \in PlanOrNone
  /\ run.phase # "initialized" => run.plan \in Plans
  /\ sess \in [Processes -> PlanSession]
  /\ past \in [passed : SUBSET PlanOrNone, mixed : SUBSET PlanOrNone, waived : SUBSET Nat]
  /\ review \in [plan : PlanOrNone, passed : BOOLEAN, sha : Nat]
  /\ cp \in [id : Nat, plan : PlanOrNone]
  /\ tracks \in [id : Nat, plan : PlanOrNone, tree : Nat]

Reviewed == past.passed \cup past.mixed
Sound(id, plan) == id \in past.waived \/ plan \in Reviewed

\* What a session knows of its plan.
PlanKnown(s) ==
  /\ sess[s].at \notin {"idle", "planned"} => sess[s].run.plan \in Plans /\ sess[s].run.phase # "initialized"
  /\ sess[s].at \in {"publishing", "recording"} => sess[s].ok
  /\ sess[s].at \in {"approving", "swapping"} => sess[s].waived \/ sess[s].plan \in Reviewed
  /\ sess[s].at = "checkpointing" => Sound(sess[s].run.id, sess[s].plan)
  /\ sess[s].at \in {"copying", "dispatching"} /\ sess[s].run.id # 0 => Sound(sess[s].run.id, sess[s].run.plan)
  /\ sess[s].at = "dispatching" /\ Bound[sess[s].run.plan] # 0 => sess[s].tree = Bound[sess[s].run.plan]

ReviewSound == review.passed => review.plan \in Reviewed
CheckpointSound == cp.id # 0 => Sound(cp.id, cp.plan)
TracksSound ==
  tracks.id # 0 => /\ Sound(tracks.id, tracks.plan)
                   /\ Bound[tracks.plan] # 0 => tracks.tree = Bound[tracks.plan]

PlanInv ==
  PlanTyped /\ ReviewSound /\ CheckpointSound /\ TracksSound /\ \A s \in Processes : PlanKnown(s)

LEMMA PlanBegins == Plan!Init => PlanInv
<1> SUFFICES ASSUME Plan!Init PROVE PlanInv
  OBVIOUS
<1>1. /\ run = [phase |-> "initialized", plan |-> "none", id |-> 0, ver |-> 1]
      /\ \E p \in Plans : file = Bound[p]
      /\ planFile = "none" /\ review = Plan!NoReview /\ cp = Plan!NoCheckpoint /\ tracks = Plan!NoTracks
      /\ sess = [s \in Processes |-> Plan!Idle]
      /\ past = [passed |-> {}, mixed |-> {}, waived |-> {}]
  BY DEF Plan!Init, Plan!None
<1>2. file \in Nat
  BY <1>1, GovernanceAssumption DEF GovernanceAssumption, Plan!PlanAssumption
<1>3. Plan!Idle \in PlanSession /\ Plan!Idle.at = "idle"
  BY DEF Plan!Idle, Plan!None, PlanSession, PlanSteps, RunFile, PlanOrNone
<1>4. PlanTyped
  BY <1>1, <1>2, <1>3
  DEF PlanTyped, RunFile, PlanOrNone, Plan!NoReview, Plan!NoCheckpoint, Plan!NoTracks, Plan!None, Plan!Governed
<1>5. ReviewSound /\ CheckpointSound /\ TracksSound
  BY <1>1 DEF ReviewSound, CheckpointSound, TracksSound, Plan!NoReview, Plan!NoCheckpoint, Plan!NoTracks
<1>6. \A s \in Processes : PlanKnown(s)
  BY <1>1, <1>3 DEF PlanKnown
<1> QED
  BY <1>4, <1>5, <1>6 DEF PlanInv

\* A verdict that passes contradicts nothing in the answer (parsePlanReviewStatus).
LEMMA VerdictSpeaks ==
  ASSUME NEW a \in Outputs, Plan!Verdict(a)
  PROVE  ~Plan!Contradicts(a)
<1> DEFINE O == Plan!Markers(a.out)
           E == Plan!Markers(a.err)
<1>1. a.out \in Seq({"PASS", "FAIL", "text"}) /\ a.err \in Seq({"PASS", "FAIL", "text"})
  BY GovernanceAssumption DEF GovernanceAssumption, Plan!PlanAssumption
<1>2. /\ a.exit = 0 /\ ~a.critical /\ O \cup E \in {{"PASS"}, {"FAIL"}}
      /\ Plan!Status(IF O # {} THEN a.out ELSE a.err) = "PASS"
  BY DEF Plan!Verdict, Plan!None
<1>3. "PASS" \in O \cup E
  <2>1. ASSUME NEW lines, Plan!Status(lines) = "PASS" PROVE "PASS" \in Plan!Markers(lines)
    BY <2>1 DEF Plan!Status, Plan!None
  <2> QED
    BY <1>2, <2>1
<1>4. "FAIL" \notin O \cup E
  BY <1>2, <1>3
<1> QED
  BY <1>2, <1>4 DEF Plan!Contradicts, Plan!Markers

\* One session moves; what was reviewed or waived stays so.
LEMMA OneSessionMoves ==
  ASSUME PlanInv, NEW s \in Processes, PlanTyped',
         past.passed \subseteq past'.passed, past.mixed \subseteq past'.mixed, past.waived \subseteq past'.waived,
         \A t \in Processes \ {s} : sess'[t] = sess[t],
         PlanKnown(s)',
         UNCHANGED review \/ ReviewSound',
         UNCHANGED cp \/ CheckpointSound',
         UNCHANGED tracks \/ TracksSound'
  PROVE  PlanInv'
<1>1. Reviewed \subseteq Reviewed'
  BY DEF Reviewed
<1>2. \A t \in Processes \ {s} : PlanKnown(t)'
  <2> SUFFICES ASSUME NEW t \in Processes \ {s} PROVE PlanKnown(t)'
    OBVIOUS
  <2>1. PlanKnown(t) /\ sess'[t] = sess[t]
    BY DEF PlanInv
  <2> QED
    BY <1>1, <2>1 DEF PlanKnown, Sound
<1>3. ReviewSound' /\ CheckpointSound' /\ TracksSound'
  BY <1>1 DEF PlanInv, ReviewSound, CheckpointSound, TracksSound, Sound
<1> QED
  BY <1>2, <1>3 DEF PlanInv

\* A swap: the session knows the run it has written, or has ended.
LEMMA Swapped ==
  ASSUME PlanTyped, NEW s \in Processes, NEW next \in RunFile, NEW pc \in PlanSteps, Plan!Swap(s, next, pc)
  PROVE  /\ run' \in RunFile /\ sess' \in [Processes -> PlanSession]
         /\ \A t \in Processes \ {s} : sess'[t] = sess[t]
         /\ \/ run' = run /\ sess'[s].at = "idle"
            \/ /\ run' # run /\ run' = [next EXCEPT !.ver = run.ver + 1]
               /\ sess'[s] = [sess[s] EXCEPT !.at = pc, !.run = run']
               /\ run'.plan = next.plan /\ run'.id = next.id /\ run'.phase = next.phase
               /\ run.phase = sess[s].run.phase
<1>1. sess \in [Processes -> PlanSession] /\ run \in RunFile
  BY DEF PlanTyped
<1>2. CASE Plan!Unchanged(s) /\ run.ver < MaxWrites
  <2>1. run' = [next EXCEPT !.ver = run.ver + 1] /\ sess' = [sess EXCEPT ![s].at = pc, ![s].run = run']
    BY <1>2 DEF Plan!Swap
  <2>2. run' \in RunFile /\ run'.ver = run.ver + 1 /\ run.ver \in Nat
        /\ run'.plan = next.plan /\ run'.id = next.id /\ run'.phase = next.phase
    BY <1>1, <2>1 DEF RunFile
  <2>3. sess'[s] = [sess[s] EXCEPT !.at = pc, !.run = run'] /\ \A t \in Processes \ {s} : sess'[t] = sess[t]
    BY <1>1, <2>1
  <2>4. sess'[s] \in PlanSession
    BY <1>1, <2>2, <2>3 DEF PlanSession
  <2>5. sess' \in [Processes -> PlanSession]
    BY <1>1, <2>1, <2>3, <2>4
  <2>6. run' # run
    BY <2>2
  <2> QED
    BY <1>2, <2>1, <2>2, <2>3, <2>5, <2>6 DEF Plan!Unchanged
<1>3. CASE ~(Plan!Unchanged(s) /\ run.ver < MaxWrites)
  <2>1. run' = run /\ sess' = [sess EXCEPT ![s] = Plan!Idle]
    BY <1>3 DEF Plan!Swap, Plan!End
  <2>2. Plan!Idle \in PlanSession /\ Plan!Idle.at = "idle"
    BY DEF Plan!Idle, Plan!None, PlanSession, PlanSteps, RunFile, PlanOrNone
  <2> QED
    BY <1>1, <2>1, <2>2
<1> QED
  BY <1>2, <1>3

\* A session that has ended.
LEMMA SessionEnds ==
  ASSUME PlanTyped, NEW s \in Processes, Plan!End(s)
  PROVE  sess' \in [Processes -> PlanSession] /\ sess'[s].at = "idle" /\ \A t \in Processes \ {s} : sess'[t] = sess[t]
<1>1. Plan!Idle \in PlanSession /\ Plan!Idle.at = "idle"
  BY DEF Plan!Idle, Plan!None, PlanSession, PlanSteps, RunFile, PlanOrNone
<1> QED
  BY <1>1 DEF Plan!End, PlanTyped

\* A session that goes on, with some of its fields set.
LEMMA SessionGoes ==
  ASSUME PlanTyped, NEW s \in Processes, NEW next \in PlanSession, sess' = [sess EXCEPT ![s] = next]
  PROVE  sess' \in [Processes -> PlanSession] /\ sess'[s] = next /\ \A t \in Processes \ {s} : sess'[t] = sess[t]
  BY DEF PlanTyped

\* Reading the run, to review, to approve or to dispatch its plan.
LEMMA ReadKeeps ==
  ASSUME PlanInv, NEW s \in Processes,
         Plan!ReviewPlan(s) \/ Plan!ApprovePlan(s) \/ Plan!Dispatch(s)
  PROVE  PlanInv'
<1> DEFINE next(pc) == [Plan!Idle EXCEPT !.at = pc, !.run = run]
<1>1. PICK pc \in {"superseding", "validating", "predispatch"} : sess' = [sess EXCEPT ![s] = next(pc)]
  BY DEF Plan!ReviewPlan, Plan!ApprovePlan, Plan!Dispatch, Plan!Read
<1>2. /\ UNCHANGED <<run, file, planFile, review, cp, tracks, past>>
      /\ run.plan # "none" /\ run.phase # "initialized"
  BY DEF Plan!ReviewPlan, Plan!ApprovePlan, Plan!Dispatch, Plan!Read, Plan!Files, Plan!World, Plan!None, Plan!Governed
<1>3. run \in RunFile /\ run.plan \in Plans
  BY <1>2 DEF PlanInv, PlanTyped, RunFile, PlanOrNone
<1>4. next(pc) \in PlanSession /\ next(pc).at = pc /\ next(pc).run = run
  BY <1>3 DEF Plan!Idle, Plan!None, PlanSession, PlanSteps, PlanOrNone
<1> HIDE DEF next
<1>5. sess' \in [Processes -> PlanSession] /\ sess'[s] = next(pc) /\ \A t \in Processes \ {s} : sess'[t] = sess[t]
  BY <1>1, <1>4, SessionGoes DEF PlanInv
<1>6. PlanTyped'
  BY <1>2, <1>5 DEF PlanInv, PlanTyped
<1>7. PlanKnown(s)'
  BY <1>2, <1>3, <1>4, <1>5 DEF PlanKnown
<1> QED
  BY <1>2, <1>5, <1>6, <1>7, OneSessionMoves

\* A session goes on, and nothing else it knows has changed.
LEMMA SessionSteps ==
  ASSUME PlanTyped, NEW s \in Processes, NEW pc \in PlanSteps, Plan!Go(s, pc)
  PROVE  /\ sess' \in [Processes -> PlanSession] /\ \A t \in Processes \ {s} : sess'[t] = sess[t]
         /\ sess'[s].at = pc /\ sess'[s].run = sess[s].run /\ sess'[s].ok = sess[s].ok /\ sess'[s].sha = sess[s].sha
         /\ sess'[s].saw = sess[s].saw /\ sess'[s].plan = sess[s].plan /\ sess'[s].tree = sess[s].tree
         /\ sess'[s].waived = sess[s].waived
<1>1. sess[s] \in PlanSession
  BY DEF PlanTyped
<1>2. sess' = [sess EXCEPT ![s] = [sess[s] EXCEPT !.at = pc]]
  BY DEF Plan!Go
<1>3. [sess[s] EXCEPT !.at = pc] \in PlanSession
  BY <1>1 DEF PlanSession
<1>4. sess' \in [Processes -> PlanSession] /\ sess'[s] = [sess[s] EXCEPT !.at = pc] /\ \A t \in Processes \ {s} : sess'[t] = sess[t]
  BY <1>2, <1>3, SessionGoes
<1> QED
  BY <1>1, <1>4 DEF PlanSession

\* plan, and the steps of a review up to its publication.
LEMMA PlanningKeeps == ASSUME PlanInv, NEW s \in Processes, Plan!Plan(s) PROVE PlanInv'
<1>1. /\ UNCHANGED <<file, planFile, review, cp, tracks, past>>
      /\ sess' = [sess EXCEPT ![s] = [Plan!Idle EXCEPT !.at = "planned", !.run = run']]
  BY DEF Plan!Plan, Plan!Files, Plan!World
<1>2. PICK p \in Plans : run' = [phase |-> "awaiting-plan-approval", plan |-> p, id |-> 0, ver |-> run.ver + 1]
  BY DEF Plan!Plan
<1>3. run' \in RunFile /\ run'.plan \in Plans
  BY <1>2 DEF PlanInv, PlanTyped, RunFile, PlanOrNone, Plan!Governed
<1> DEFINE next == [Plan!Idle EXCEPT !.at = "planned", !.run = run']
<1>4. next \in PlanSession /\ next.at = "planned"
  BY <1>3 DEF Plan!Idle, Plan!None, PlanSession, PlanSteps, PlanOrNone
<1> HIDE DEF next
<1>5. sess' \in [Processes -> PlanSession] /\ sess'[s] = next /\ \A t \in Processes \ {s} : sess'[t] = sess[t]
  BY <1>1, <1>4, SessionGoes DEF PlanInv, next
<1>6. PlanTyped'
  BY <1>1, <1>3, <1>5 DEF PlanInv, PlanTyped
<1>7. PlanKnown(s)'
  BY <1>4, <1>5 DEF PlanKnown
<1> QED
  BY <1>1, <1>5, <1>6, <1>7, OneSessionMoves

LEMMA DropReviewKeeps == ASSUME PlanInv, NEW s \in Processes, Plan!DropReview(s) PROVE PlanInv'
<1>1. /\ UNCHANGED <<run, file, planFile, cp, tracks, past>> /\ review' = Plan!NoReview /\ Plan!End(s)
  BY DEF Plan!DropReview, Plan!World
<1>2. sess' \in [Processes -> PlanSession] /\ sess'[s].at = "idle" /\ \A t \in Processes \ {s} : sess'[t] = sess[t]
  BY <1>1, SessionEnds DEF PlanInv
<1>3. PlanTyped' /\ ReviewSound'
  BY <1>1, <1>2 DEF PlanInv, PlanTyped, ReviewSound, Plan!NoReview, Plan!None, PlanOrNone
<1>4. PlanKnown(s)'
  BY <1>2 DEF PlanKnown
<1> QED
  BY <1>1, <1>2, <1>3, <1>4, OneSessionMoves

LEMMA SupersedeKeeps ==
  ASSUME PlanInv, NEW s \in Processes, Plan!Supersede(s) \/ Plan!ClearCheckpoint(s)
  PROVE  PlanInv'
<1>1. /\ UNCHANGED <<run, file, planFile, tracks, past>>
      /\ review' = Plan!NoReview \/ UNCHANGED review
      /\ cp' = Plan!NoCheckpoint \/ UNCHANGED cp
      /\ sess[s].at \in {"superseding", "clearing"}
  BY DEF Plan!Supersede, Plan!ClearCheckpoint, Plan!World
<1>2. PICK pc \in {"revoking", "checking"} : Plan!Go(s, pc)
  BY DEF Plan!Supersede, Plan!ClearCheckpoint
<1>3. /\ sess' \in [Processes -> PlanSession] /\ \A t \in Processes \ {s} : sess'[t] = sess[t]
      /\ sess'[s].at = pc /\ sess'[s].run = sess[s].run
  <2>1. pc \in PlanSteps
    BY DEF PlanSteps
  <2> QED
    BY <1>2, <2>1, SessionSteps DEF PlanInv
<1>4. PlanTyped' /\ (UNCHANGED review \/ ReviewSound') /\ (UNCHANGED cp \/ CheckpointSound')
  <2>1. /\ Plan!NoReview \in [plan : PlanOrNone, passed : BOOLEAN, sha : Nat] /\ ~Plan!NoReview.passed
        /\ Plan!NoCheckpoint \in [id : Nat, plan : PlanOrNone] /\ Plan!NoCheckpoint.id = 0
    BY DEF Plan!NoReview, Plan!NoCheckpoint, Plan!None, PlanOrNone
  <2>2. PlanTyped'
    BY <1>1, <1>3, <2>1 DEF PlanInv, PlanTyped
  <2> QED
    BY <1>1, <2>1, <2>2 DEF ReviewSound, CheckpointSound
<1>5. PlanKnown(s)'
  BY <1>1, <1>3 DEF PlanInv, PlanKnown
<1> QED
  BY <1>1, <1>3, <1>4, <1>5, OneSessionMoves

LEMMA AskingKeeps ==
  ASSUME PlanInv, NEW s \in Processes, Plan!AskReviewer(s) \/ Plan!ReviewerReads(s)
  PROVE  PlanInv'
<1>1. /\ UNCHANGED <<run, file, review, cp, tracks, past>> /\ sess[s].at \in {"checking", "reviewing"}
      /\ sess[s].run.plan \in Plans /\ sess[s].run.phase # "initialized" /\ sess[s] \in PlanSession
  BY DEF Plan!AskReviewer, Plan!ReviewerReads, Plan!Files, Plan!World, PlanInv, PlanKnown, PlanTyped
<1>2. planFile' \in PlanOrNone
  BY <1>1 DEF Plan!AskReviewer, Plan!ReviewerReads, Plan!Files, PlanInv, PlanTyped, PlanOrNone
<1>3. /\ sess' \in [Processes -> PlanSession] /\ \A t \in Processes \ {s} : sess'[t] = sess[t]
      /\ sess'[s].at = "idle" \/ (sess'[s].at \in {"reviewing", "judging"} /\ sess'[s].run = sess[s].run)
  <2>1. CASE Plan!End(s)
    BY <2>1, SessionEnds DEF PlanInv
  <2>2. CASE Plan!Go(s, "reviewing")
    BY <2>2, SessionSteps DEF PlanInv, PlanSteps
  <2>3. CASE Plan!ReviewerReads(s)
    <3> DEFINE next == [sess[s] EXCEPT !.at = "judging", !.saw = planFile]
    <3>1. sess' = [sess EXCEPT ![s] = next]
      BY <2>3 DEF Plan!ReviewerReads
    <3>2. next \in PlanSession /\ next.at = "judging" /\ next.run = sess[s].run
      BY <1>1 DEF PlanInv, PlanTyped, PlanSession, PlanSteps
    <3> HIDE DEF next
    <3> QED
      BY <3>1, <3>2, SessionGoes DEF PlanInv
  <2> QED
    BY <2>1, <2>2, <2>3 DEF Plan!AskReviewer
<1>4. PlanTyped'
  BY <1>1, <1>2, <1>3 DEF PlanInv, PlanTyped
<1>5. PlanKnown(s)'
  BY <1>1, <1>3 DEF PlanKnown
<1> QED
  BY <1>1, <1>3, <1>4, <1>5, OneSessionMoves

LEMMA JudgeKeeps == ASSUME PlanInv, NEW s \in Processes, Plan!Judge(s) PROVE PlanInv'
<1>1. /\ UNCHANGED <<run, file, planFile, cp, tracks, past>> /\ sess[s].at = "judging"
      /\ sess[s].run.plan \in Plans /\ sess[s].run.phase # "initialized" /\ sess[s] \in PlanSession
  BY DEF Plan!Judge, Plan!World, PlanInv, PlanKnown, PlanTyped
<1>2. CASE Plan!End(s) /\ review' = [plan |-> sess[s].run.plan, passed |-> FALSE, sha |-> 0]
  <2>1. sess' \in [Processes -> PlanSession] /\ sess'[s].at = "idle" /\ \A t \in Processes \ {s} : sess'[t] = sess[t]
    BY <1>2, SessionEnds DEF PlanInv
  <2>2. PlanTyped' /\ ReviewSound'
    BY <1>1, <1>2, <2>1 DEF PlanInv, PlanTyped, ReviewSound, PlanOrNone
  <2>3. PlanKnown(s)'
    BY <2>1 DEF PlanKnown
  <2> QED
    BY <1>1, <2>1, <2>2, <2>3, OneSessionMoves
<1>3. ASSUME NEW a \in Outputs, Plan!Verdict(a), UNCHANGED review,
             sess' = [sess EXCEPT ![s].at = "publishing", ![s].ok = ~Plan!Contradicts(a),
                                  ![s].plan = sess[s].run.plan,
                                  ![s].sha = IF Bound[sess[s].run.plan] = 0 THEN 0 ELSE file]
      PROVE  PlanInv'
  <2> DEFINE next == [sess[s] EXCEPT !.at = "publishing", !.ok = ~Plan!Contradicts(a), !.plan = sess[s].run.plan,
                                     !.sha = IF Bound[sess[s].run.plan] = 0 THEN 0 ELSE file]
  <2>1. sess' = [sess EXCEPT ![s] = next]
    BY <1>3
  <2>2. ~Plan!Contradicts(a)
    BY <1>3, VerdictSpeaks
  <2>3. next \in PlanSession /\ next.at = "publishing" /\ next.ok /\ next.run = sess[s].run
    BY <1>1, <2>2 DEF PlanInv, PlanTyped, PlanSession, PlanSteps, PlanOrNone
  <2> HIDE DEF next
  <2>4. sess' \in [Processes -> PlanSession] /\ sess'[s] = next /\ \A t \in Processes \ {s} : sess'[t] = sess[t]
    BY <2>1, <2>3, SessionGoes DEF PlanInv
  <2>5. PlanTyped'
    BY <1>1, <1>3, <2>4 DEF PlanInv, PlanTyped
  <2>6. PlanKnown(s)'
    BY <1>1, <2>3, <2>4 DEF PlanKnown
  <2> QED
    BY <1>1, <1>3, <2>4, <2>5, <2>6, OneSessionMoves
<1> QED
  BY <1>2, <1>3 DEF Plan!Judge

\* The steps that swap the run: an approval revoked, a review published, a decision noted.
LEMMA SwapsKeep ==
  ASSUME PlanInv, NEW s \in Processes, Plan!Revoke(s) \/ Plan!PublishReview(s) \/ Plan!RecordDecision(s)
  PROVE  PlanInv'
<1>1. /\ UNCHANGED <<file, planFile, review, cp, tracks, past>>
      /\ sess[s].at \in {"revoking", "publishing", "deciding"} /\ sess[s] \in PlanSession /\ run \in RunFile
  BY DEF Plan!Revoke, Plan!PublishReview, Plan!RecordDecision, Plan!Files, Plan!World, PlanInv, PlanTyped
<1>2. PICK next \in RunFile, pc \in {"clearing", "recording", "idle"} :
        /\ Plan!Swap(s, next, pc) /\ next.plan = run.plan
        /\ next.phase = run.phase \/ next.phase # "initialized"
        /\ pc = "recording" => sess[s].ok
  <2>1. CASE Plan!Revoke(s)
    <3> DEFINE next == [run EXCEPT !.phase = "awaiting-plan-approval", !.id = 0]
    <3>1. next \in RunFile /\ next.plan = run.plan /\ next.phase # "initialized"
      BY <1>1 DEF RunFile, Plan!Governed
    <3>2. Plan!Swap(s, next, "clearing")
      BY <2>1 DEF Plan!Revoke
    <3> QED
      BY <3>1, <3>2
  <2>2. CASE Plan!PublishReview(s)
    <3> DEFINE next == [run EXCEPT !.phase = "plan-reviewed"]
    <3>1. next \in RunFile /\ next.plan = run.plan /\ next.phase # "initialized"
      BY <1>1 DEF RunFile, Plan!Governed
    <3>2. Plan!Swap(s, next, "recording") /\ sess[s].ok
      BY <2>2 DEF Plan!PublishReview, PlanInv, PlanKnown
    <3> QED
      BY <3>1, <3>2
  <2>3. CASE Plan!RecordDecision(s)
    <3>1. Plan!Swap(s, run, "idle")
      BY <2>3 DEF Plan!RecordDecision
    <3> QED
      BY <1>1, <3>1
  <2> QED
    BY <2>1, <2>2, <2>3
<1>3. /\ run' \in RunFile /\ sess' \in [Processes -> PlanSession]
      /\ \A t \in Processes \ {s} : sess'[t] = sess[t]
      /\ \/ run' = run /\ sess'[s].at = "idle"
         \/ /\ run'.plan = run.plan /\ run'.phase = next.phase /\ run.phase = sess[s].run.phase
            /\ sess'[s] = [sess[s] EXCEPT !.at = pc, !.run = run']
  <2>1. pc \in PlanSteps
    BY DEF PlanSteps
  <2> HIDE DEF PlanSteps
  <2> QED
    BY <1>2, <2>1, Swapped DEF PlanInv
<1>4. sess[s].run.phase # "initialized"
  BY <1>1 DEF PlanInv, PlanKnown
<1>5. run'.phase # "initialized" => run'.plan \in Plans
  BY <1>2, <1>3, <1>4 DEF PlanInv, PlanTyped
<1>6. PlanTyped'
  BY <1>1, <1>3, <1>5 DEF PlanInv, PlanTyped
<1>7. PlanKnown(s)'
  <2>1. CASE sess'[s].at = "idle"
    BY <2>1 DEF PlanKnown
  <2>2. CASE sess'[s] = [sess[s] EXCEPT !.at = pc, !.run = run'] /\ run'.phase = next.phase /\ run.phase = sess[s].run.phase
    <3>1. sess'[s].at = pc /\ sess'[s].run = run' /\ sess'[s].ok = sess[s].ok
      BY <1>1, <2>2 DEF PlanSession
    <3>2. run'.phase # "initialized"
      BY <1>2, <1>4, <2>2
    <3> QED
      BY <1>2, <1>5, <3>1, <3>2 DEF PlanKnown
  <2> QED
    BY <1>3, <2>1, <2>2
<1> QED
  BY <1>1, <1>3, <1>6, <1>7, OneSessionMoves

\* The PASS is recorded, and may approve at once.
LEMMA RecordReviewKeeps == ASSUME PlanInv, NEW s \in Processes, Plan!RecordReview(s) PROVE PlanInv'
<1>1. /\ UNCHANGED <<run, file, planFile, cp, tracks>> /\ sess[s].at = "recording"
      /\ review' = [plan |-> sess[s].plan, passed |-> TRUE, sha |-> sess[s].sha]
      /\ past' = IF sess[s].saw = sess[s].plan THEN [past EXCEPT !.passed = @ \cup {sess[s].plan}]
                 ELSE [past EXCEPT !.mixed = @ \cup {sess[s].plan}]
      /\ sess[s].run.plan \in Plans /\ sess[s].run.phase # "initialized" /\ sess[s] \in PlanSession
  BY DEF Plan!RecordReview, Plan!World, PlanInv, PlanKnown, PlanTyped
<1>2. sess[s].plan \in PlanOrNone /\ sess[s].sha \in Nat
  BY <1>1 DEF PlanSession
<1>3. /\ past' \in [passed : SUBSET PlanOrNone, mixed : SUBSET PlanOrNone, waived : SUBSET Nat]
      /\ past.passed \subseteq past'.passed /\ past.mixed \subseteq past'.mixed /\ past'.waived = past.waived
      /\ sess[s].plan \in Reviewed'
  BY <1>1, <1>2 DEF PlanInv, PlanTyped, Reviewed
<1>4. PICK pc \in {"approving", "deciding"} : Plan!Go(s, pc)
  BY DEF Plan!RecordReview
<1>5. /\ sess' \in [Processes -> PlanSession] /\ \A t \in Processes \ {s} : sess'[t] = sess[t]
      /\ sess'[s].at = pc /\ sess'[s].run = sess[s].run /\ sess'[s].plan = sess[s].plan
  <2>1. pc \in PlanSteps
    BY DEF PlanSteps
  <2> QED
    BY <1>4, <2>1, SessionSteps DEF PlanInv
<1>6. PlanTyped' /\ ReviewSound'
  BY <1>1, <1>2, <1>3, <1>5 DEF PlanInv, PlanTyped, ReviewSound
<1>7. PlanKnown(s)'
  BY <1>1, <1>3, <1>5 DEF PlanKnown
<1> QED
  BY <1>1, <1>3, <1>5, <1>6, <1>7, OneSessionMoves

\* An approval: of a plan whose review stands, or waived.
LEMMA ValidateKeeps == ASSUME PlanInv, NEW s \in Processes, Plan!Validate(s) PROVE PlanInv'
<1>1. /\ UNCHANGED <<run, file, planFile, review, cp, tracks, past>>
      /\ sess[s].run.plan \in Plans /\ sess[s].run.phase # "initialized" /\ sess[s] \in PlanSession
  BY DEF Plan!Validate, Plan!Files, Plan!World, PlanInv, PlanKnown, PlanTyped
<1>2. CASE Plan!End(s)
  <2>1. sess' \in [Processes -> PlanSession] /\ sess'[s].at = "idle" /\ \A t \in Processes \ {s} : sess'[t] = sess[t]
    BY <1>2, SessionEnds DEF PlanInv
  <2>2. PlanTyped' /\ PlanKnown(s)'
    BY <1>1, <2>1 DEF PlanInv, PlanTyped, PlanKnown
  <2> QED
    BY <1>1, <2>1, <2>2, OneSessionMoves
<1>3. ASSUME NEW waived \in BOOLEAN, waived \/ Plan!ReviewStands(sess[s].run.plan),
             sess' = [sess EXCEPT ![s].at = "approving", ![s].waived = waived, ![s].plan = sess[s].run.plan]
      PROVE  PlanInv'
  <2> DEFINE next == [sess[s] EXCEPT !.at = "approving", !.waived = waived, !.plan = sess[s].run.plan]
  <2>1. sess' = [sess EXCEPT ![s] = next]
    BY <1>3
  <2>2. /\ next \in PlanSession /\ next.at = "approving" /\ next.waived = waived /\ next.plan = sess[s].run.plan
        /\ next.run = sess[s].run
    BY <1>1 DEF PlanSession, PlanSteps, PlanOrNone
  <2>3. Plan!ReviewStands(sess[s].run.plan) => sess[s].run.plan \in Reviewed
    BY DEF Plan!ReviewStands, PlanInv, ReviewSound
  <2> HIDE DEF next
  <2>4. sess' \in [Processes -> PlanSession] /\ sess'[s] = next /\ \A t \in Processes \ {s} : sess'[t] = sess[t]
    BY <2>1, <2>2, SessionGoes DEF PlanInv
  <2>5. PlanTyped'
    BY <1>1, <2>4 DEF PlanInv, PlanTyped
  <2>6. PlanKnown(s)'
    BY <1>1, <1>3, <2>2, <2>3, <2>4 DEF PlanKnown, Reviewed
  <2> QED
    BY <1>1, <2>4, <2>5, <2>6, OneSessionMoves
<1> QED
  BY <1>2, <1>3 DEF Plan!Validate

LEMMA BuildCheckpointKeeps == ASSUME PlanInv, NEW s \in Processes, Plan!BuildCheckpoint(s) PROVE PlanInv'
<1>1. /\ UNCHANGED <<run, file, planFile, review, cp, tracks>> /\ sess[s].at = "approving"
      /\ sess' = [sess EXCEPT ![s].at = "swapping", ![s].plan = sess[s].run.plan]
      /\ past' = IF sess[s].plan = sess[s].run.plan THEN past
                 ELSE [past EXCEPT !.mixed = @ \cup {sess[s].run.plan}]
      /\ sess[s].run.plan \in Plans /\ sess[s].run.phase # "initialized" /\ sess[s] \in PlanSession
      /\ sess[s].waived \/ sess[s].plan \in Reviewed
  BY DEF Plan!BuildCheckpoint, Plan!Files, Plan!World, PlanInv, PlanKnown, PlanTyped
<1>2. /\ past' \in [passed : SUBSET PlanOrNone, mixed : SUBSET PlanOrNone, waived : SUBSET Nat]
      /\ past.passed \subseteq past'.passed /\ past.mixed \subseteq past'.mixed /\ past'.waived = past.waived
      /\ sess[s].waived \/ sess[s].run.plan \in Reviewed'
  BY <1>1 DEF PlanInv, PlanTyped, Reviewed, PlanOrNone
<1> DEFINE next == [sess[s] EXCEPT !.at = "swapping", !.plan = sess[s].run.plan]
<1>3. sess' = [sess EXCEPT ![s] = next]
  BY <1>1
<1>4. /\ next \in PlanSession /\ next.at = "swapping" /\ next.waived = sess[s].waived
      /\ next.plan = sess[s].run.plan /\ next.run = sess[s].run
  BY <1>1 DEF PlanSession, PlanSteps, PlanOrNone
<1> HIDE DEF next
<1>5. sess' \in [Processes -> PlanSession] /\ sess'[s] = next /\ \A t \in Processes \ {s} : sess'[t] = sess[t]
  BY <1>3, <1>4, SessionGoes DEF PlanInv
<1>6. PlanTyped'
  BY <1>1, <1>2, <1>5 DEF PlanInv, PlanTyped
<1>7. PlanKnown(s)'
  BY <1>1, <1>2, <1>4, <1>5 DEF PlanKnown
<1> QED
  BY <1>1, <1>2, <1>5, <1>6, <1>7, OneSessionMoves

LEMMA ApproveKeeps == ASSUME PlanInv, NEW s \in Processes, Plan!Approve(s) PROVE PlanInv'
<1> DEFINE next == [run EXCEPT !.phase = "plan-approved", !.id = run.ver + 1]
<1>1. /\ UNCHANGED <<file, planFile, review, cp, tracks>> /\ sess[s].at = "swapping"
      /\ Plan!Swap(s, next, "checkpointing")
      /\ past' = IF sess[s].waived /\ run' # run THEN [past EXCEPT !.waived = @ \cup {run'.id}] ELSE past
      /\ sess[s].run.phase # "initialized" /\ sess[s] \in PlanSession /\ run \in RunFile
      /\ sess[s].waived \/ sess[s].plan \in Reviewed
  BY DEF Plan!Approve, Plan!Files, Plan!World, PlanInv, PlanKnown, PlanTyped
<1>2. next \in RunFile /\ next.plan = run.plan /\ next.phase # "initialized" /\ "checkpointing" \in PlanSteps
  <2>1. run.ver + 1 \in Nat /\ run \in RunFile
    BY <1>1 DEF RunFile
  <2>2. next \in RunFile /\ next.plan = run.plan /\ next.phase = "plan-approved"
    BY <2>1 DEF RunFile, Plan!Governed
  <2> QED
    BY <2>2 DEF PlanSteps
<1> HIDE DEF next
<1>3. /\ run' \in RunFile /\ sess' \in [Processes -> PlanSession]
      /\ \A t \in Processes \ {s} : sess'[t] = sess[t]
      /\ \/ run' = run /\ sess'[s].at = "idle"
         \/ /\ run' # run /\ run'.plan = run.plan /\ run.phase = sess[s].run.phase /\ run'.phase = next.phase
            /\ sess'[s] = [sess[s] EXCEPT !.at = "checkpointing", !.run = run']
  BY <1>1, <1>2, Swapped DEF PlanInv
<1>4. /\ past' \in [passed : SUBSET PlanOrNone, mixed : SUBSET PlanOrNone, waived : SUBSET Nat]
      /\ past'.passed = past.passed /\ past'.mixed = past.mixed /\ past.waived \subseteq past'.waived
      /\ run' # run => run'.id \in past'.waived \/ sess[s].plan \in past'.passed \cup past'.mixed
  <2>1. run'.id \in Nat
    BY <1>3 DEF RunFile
  <2> QED
    BY <1>1, <2>1 DEF PlanInv, PlanTyped, Reviewed
<1>5. PlanTyped'
  BY <1>1, <1>2, <1>3, <1>4 DEF PlanInv, PlanTyped
<1>6. PlanKnown(s)'
  <2>1. CASE sess'[s].at = "idle"
    BY <2>1 DEF PlanKnown
  <2>2. CASE sess'[s] = [sess[s] EXCEPT !.at = "checkpointing", !.run = run'] /\ run' # run
    <3>1. sess'[s].at = "checkpointing" /\ sess'[s].run = run' /\ sess'[s].plan = sess[s].plan
      BY <1>1, <2>2 DEF PlanSession
    <3>2. run'.plan \in Plans /\ run'.phase # "initialized"
      BY <1>1, <1>2, <1>3, <2>2 DEF PlanInv, PlanTyped
    <3> QED
      BY <1>4, <2>2, <3>1, <3>2 DEF PlanKnown, Sound, Reviewed
  <2> QED
    BY <1>3, <2>1, <2>2
<1> QED
  BY <1>1, <1>3, <1>4, <1>5, <1>6, OneSessionMoves

LEMMA WriteCheckpointKeeps == ASSUME PlanInv, NEW s \in Processes, Plan!WriteCheckpoint(s) PROVE PlanInv'
<1>1. /\ UNCHANGED <<run, file, planFile, review, tracks, past>> /\ sess[s].at = "checkpointing" /\ Plan!End(s)
      /\ cp' = [id |-> sess[s].run.id, plan |-> sess[s].plan] /\ sess[s] \in PlanSession
      /\ Sound(sess[s].run.id, sess[s].plan)
  BY DEF Plan!WriteCheckpoint, Plan!World, PlanInv, PlanKnown, PlanTyped
<1>2. sess' \in [Processes -> PlanSession] /\ sess'[s].at = "idle" /\ \A t \in Processes \ {s} : sess'[t] = sess[t]
  BY <1>1, SessionEnds DEF PlanInv
<1>3. cp'.id = sess[s].run.id /\ cp'.plan = sess[s].plan /\ cp' \in [id : Nat, plan : PlanOrNone]
  BY <1>1 DEF PlanSession, RunFile
<1>4. PlanTyped' /\ PlanKnown(s)'
  BY <1>1, <1>2, <1>3 DEF PlanInv, PlanTyped, PlanKnown
<1>5. CheckpointSound'
  BY <1>1, <1>3 DEF CheckpointSound, Sound, Reviewed
<1> QED
  BY <1>1, <1>2, <1>4, <1>5, OneSessionMoves

\* A dispatch: the checkpoint is of this approval and this plan, the bytes are the bound ones.
LEMMA PreDispatchKeeps ==
  ASSUME PlanInv, NEW s \in Processes, Plan!PreDispatch(s) \/ Plan!Materialize(s)
  PROVE  PlanInv'
<1>1. /\ UNCHANGED <<run, file, planFile, review, cp, tracks, past>> /\ sess[s].at \in {"predispatch", "copying"}
      /\ sess[s].run.plan \in Plans /\ sess[s].run.phase # "initialized" /\ sess[s] \in PlanSession
  BY DEF Plan!PreDispatch, Plan!Materialize, Plan!Files, Plan!World, PlanInv, PlanKnown, PlanTyped
<1>2. CASE Plan!End(s)
  <2>1. sess' \in [Processes -> PlanSession] /\ sess'[s].at = "idle" /\ \A t \in Processes \ {s} : sess'[t] = sess[t]
    BY <1>2, SessionEnds DEF PlanInv
  <2>2. PlanTyped' /\ PlanKnown(s)'
    BY <1>1, <2>1 DEF PlanInv, PlanTyped, PlanKnown
  <2> QED
    BY <1>1, <2>1, <2>2, OneSessionMoves
<1>3. CASE Plan!PreDispatch(s) /\ Plan!CheckpointValid(sess[s].run)
  <2>1. /\ sess' \in [Processes -> PlanSession] /\ \A t \in Processes \ {s} : sess'[t] = sess[t]
        /\ sess'[s].at = "copying" /\ sess'[s].run = sess[s].run
    BY <1>3, SessionSteps DEF PlanInv, Plan!PreDispatch, PlanSteps
  <2>2. sess[s].run.id # 0 => Sound(sess[s].run.id, sess[s].run.plan)
    BY <1>3 DEF PlanInv, CheckpointSound, Plan!CheckpointValid
  <2>3. PlanTyped'
    BY <1>1, <2>1 DEF PlanInv, PlanTyped
  <2>4. PlanKnown(s)'
    BY <1>1, <2>1, <2>2 DEF PlanKnown, Sound, Reviewed
  <2> QED
    BY <1>1, <2>1, <2>3, <2>4, OneSessionMoves
<1>4. CASE Plan!Materialize(s) /\ Plan!Bytes(sess[s].run.plan)
  <2> DEFINE next == [sess[s] EXCEPT !.at = "dispatching", !.tree = file]
  <2>1. sess' = [sess EXCEPT ![s] = next] /\ (Bound[sess[s].run.plan] # 0 => file = Bound[sess[s].run.plan])
    BY <1>4 DEF Plan!Materialize, Plan!Bytes
  <2>2. next \in PlanSession /\ next.at = "dispatching" /\ next.tree = file /\ next.run = sess[s].run
    BY <1>1 DEF PlanInv, PlanTyped, PlanSession, PlanSteps
  <2>3. sess[s].run.id # 0 => Sound(sess[s].run.id, sess[s].run.plan)
    BY <1>4 DEF Plan!Materialize, PlanInv, PlanKnown
  <2> HIDE DEF next
  <2>4. sess' \in [Processes -> PlanSession] /\ sess'[s] = next /\ \A t \in Processes \ {s} : sess'[t] = sess[t]
    BY <2>1, <2>2, SessionGoes DEF PlanInv
  <2>5. PlanTyped'
    BY <1>1, <2>4 DEF PlanInv, PlanTyped
  <2>6. PlanKnown(s)'
    BY <1>1, <2>1, <2>2, <2>3, <2>4 DEF PlanKnown, Sound, Reviewed
  <2> QED
    BY <1>1, <2>4, <2>5, <2>6, OneSessionMoves
<1> QED
  BY <1>2, <1>3, <1>4 DEF Plan!PreDispatch, Plan!Materialize

LEMMA PublishTracksKeeps == ASSUME PlanInv, NEW s \in Processes, Plan!PublishTracks(s) PROVE PlanInv'
<1>1. /\ UNCHANGED <<file, planFile, review, cp, past>> /\ sess[s].at = "dispatching" /\ Plan!End(s)
      /\ sess[s] \in PlanSession /\ sess[s].run.plan \in Plans
      /\ sess[s].run.id # 0 => Sound(sess[s].run.id, sess[s].run.plan)
      /\ Bound[sess[s].run.plan] # 0 => sess[s].tree = Bound[sess[s].run.plan]
  BY DEF Plan!PublishTracks, Plan!Files, PlanInv, PlanKnown, PlanTyped
<1>2. sess' \in [Processes -> PlanSession] /\ sess'[s].at = "idle" /\ \A t \in Processes \ {s} : sess'[t] = sess[t]
  BY <1>1, SessionEnds DEF PlanInv
<1>3. PlanKnown(s)'
  BY <1>2 DEF PlanKnown
<1>4. CASE UNCHANGED <<run, tracks>>
  <2>1. PlanTyped'
    BY <1>1, <1>2, <1>4 DEF PlanInv, PlanTyped
  <2> QED
    BY <1>1, <1>2, <1>3, <1>4, <2>1, OneSessionMoves
<1>5. CASE /\ Plan!SameApproval(sess[s].run)
           /\ run' = [run EXCEPT !.phase = "dispatch-queued", !.ver = run.ver + 1]
           /\ tracks' = [id |-> run.id, plan |-> run.plan, tree |-> sess[s].tree]
  <2>1. run.id = sess[s].run.id /\ run.plan = sess[s].run.plan /\ run \in RunFile
    BY <1>5 DEF Plan!SameApproval, PlanInv, PlanTyped
  <2>2. run' \in RunFile /\ run'.plan \in Plans
    <3>1. run.ver + 1 \in Nat
      BY <2>1 DEF RunFile
    <3>2. run' \in RunFile /\ run'.plan = run.plan
      BY <1>5, <2>1, <3>1 DEF RunFile
    <3> QED
      BY <1>1, <2>1, <3>2
  <2>3. tracks' \in [id : Nat, plan : PlanOrNone, tree : Nat]
    BY <1>1, <1>5, <2>1 DEF RunFile, PlanSession
  <2>4. PlanTyped'
    BY <1>1, <1>2, <2>2, <2>3 DEF PlanInv, PlanTyped
  <2>5. TracksSound'
    <3>1. tracks'.id = sess[s].run.id /\ tracks'.plan = sess[s].run.plan /\ tracks'.tree = sess[s].tree
      BY <1>5, <2>1
    <3> QED
      BY <1>1, <3>1 DEF TracksSound, Sound, Reviewed
  <2> QED
    BY <1>1, <1>2, <1>3, <2>4, <2>5, OneSessionMoves
<1> QED
  BY <1>4, <1>5 DEF Plan!PublishTracks

\* Users edit the bound file, or bind another plan; a session dies.
LEMMA UserKeepsPlans ==
  ASSUME PlanInv, Plan!UserEditsFile \/ Plan!UserBinds
  PROVE  PlanInv'
<1>1. UNCHANGED <<planFile, review, cp, tracks, sess, past>>
  BY DEF Plan!UserEditsFile, Plan!UserBinds, Plan!Files
<1>2. /\ run' \in RunFile /\ (run'.phase # "initialized" => run'.plan \in Plans) /\ file' \in Nat
  <2>1. CASE Plan!UserEditsFile
    BY <2>1, GovernanceAssumption DEF GovernanceAssumption, Plan!PlanAssumption, Plan!UserEditsFile, PlanInv, PlanTyped
  <2>2. CASE Plan!UserBinds
    BY <2>2 DEF Plan!UserBinds, PlanInv, PlanTyped, RunFile, PlanOrNone
  <2> QED
    BY <2>1, <2>2
<1>3. PlanTyped'
  BY <1>1, <1>2 DEF PlanInv, PlanTyped
<1> QED
  BY <1>1, <1>3 DEF PlanInv, ReviewSound, CheckpointSound, TracksSound, PlanKnown, Sound, Reviewed

LEMMA DeathKeepsPlans == ASSUME PlanInv, NEW s \in Processes, Plan!Die(s) PROVE PlanInv'
<1>1. UNCHANGED <<run, file, planFile, review, cp, tracks, past>> /\ Plan!End(s)
  BY DEF Plan!Die, Plan!Files
<1>2. sess' \in [Processes -> PlanSession] /\ sess'[s].at = "idle" /\ \A t \in Processes \ {s} : sess'[t] = sess[t]
  BY <1>1, SessionEnds DEF PlanInv
<1>3. PlanTyped' /\ PlanKnown(s)'
  BY <1>1, <1>2 DEF PlanInv, PlanTyped, PlanKnown
<1> QED
  BY <1>1, <1>2, <1>3, OneSessionMoves

LEMMA PlanStep == PlanInv /\ [Plan!Next]_planVars => PlanInv'
<1> SUFFICES ASSUME PlanInv, [Plan!Next]_planVars PROVE PlanInv'
  OBVIOUS
<1>1. CASE UNCHANGED planVars
  BY <1>1
  DEF planVars, PlanInv, PlanTyped, ReviewSound, CheckpointSound, TracksSound, PlanKnown, Sound, Reviewed
<1>2. ASSUME NEW s \in Processes, Plan!Command(s) PROVE PlanInv'
  BY <1>2, PlanningKeeps, DropReviewKeeps, ReadKeeps, SupersedeKeeps, AskingKeeps, JudgeKeeps, SwapsKeep,
     RecordReviewKeeps, ValidateKeeps, BuildCheckpointKeeps, ApproveKeeps, WriteCheckpointKeeps, PreDispatchKeeps,
     PublishTracksKeeps DEF Plan!Command
<1> QED
  BY <1>1, <1>2, UserKeepsPlans, DeathKeepsPlans DEF Plan!Next

LEMMA PlansHold == Spec => [](which = "plans" => PlanInv)
<1>1. Init => (which = "plans" => PlanInv)
  BY Apart, PlanBegins
<1>2. (which = "plans" => PlanInv) /\ [Next]_vars => (which = "plans" => PlanInv)'
  BY Apart, PlanStep
<1> QED
  BY <1>1, <1>2, PTL DEF Spec

\* What is dispatched passed a review without a contradiction, or its approval was waived,
\* and the workers find the bytes the plan is bound to, whoever edits run.json, the bound
\* file or the review meanwhile (validatePlanReviewForApprove, isCheckpointStale).
THEOREM OnlyReviewedIsDispatched == Spec => []DispatchedAsReviewed
<1>1. (which = "plans" => PlanInv) => DispatchedAsReviewed
  BY DEF PlanInv, TracksSound, Sound, Reviewed, DispatchedAsReviewed, Plan!DispatchedAsReviewed
<1> QED
  BY <1>1, PlansHold, PTL

-----------------------------------------------------------------------------
(* The installation. A command that runs alone is clean; while it works, a   *)
(* script that it has still to write is in its list, and the others are of   *)
(* its version. Commands that are not alone, or that one scaffold over       *)
(* another, are remembered as loose.                                         *)

InstallSteps == {"idle", "sentinel", "file", "writing", "aside", "placed", "unlink"}
AtFile == {"writing", "aside", "placed"}
Contents == Packages \cup {Install!Nothing, Own, Folder}
InstallCmd ==
  [at : InstallSteps, cmd : {"none", "init", "upgrade"}, pkg : Packages \cup {0}, force : BOOLEAN,
   todo : Seq(Install!Paths), skip : SUBSET Install!ToSet(Templates), clean : BOOLEAN,
   seen : SUBSET Install!Paths, old : Contents]
InstallPast ==
  [known : SUBSET Install!Paths, own : SUBSET Install!Paths, yielded : SUBSET Install!Paths, loose : BOOLEAN]
ScriptPaths == Install!ToSet(Scripts)

InstallTyped ==
  /\ disk \in [Install!Paths -> Contents] /\ version \in Packages \cup {0} /\ sentinel \in BOOLEAN
  /\ cmds \in [Processes -> InstallCmd] /\ kept \in InstallPast
  /\ \A s \in Processes : /\ cmds[s].at # "idle" => cmds[s].cmd \in {"init", "upgrade"}
                          /\ cmds[s].at \in AtFile => cmds[s].todo # <<>>

\* A clean command is the only one; one that is not clean is loose.
OneIsClean ==
  \A s \in Processes : cmds[s].at # "idle" =>
    IF cmds[s].clean THEN \A x \in Processes \ {s} : cmds[x].at = "idle" ELSE kept.loose

\* Every script is of the version that the command of s installs, or in its list.
ToBeWritten(s) ==
  /\ cmds[s].at # "unlink" => \A p \in ScriptPaths : p \in Install!ToSet(cmds[s].todo) \/ disk[p] = cmds[s].pkg
  /\ cmds[s].at = "placed" /\ cmds[s].todo[1] \in ScriptPaths => disk[cmds[s].todo[1]] = cmds[s].pkg
  /\ cmds[s].at = "unlink" => version = cmds[s].pkg /\ \A p \in ScriptPaths : disk[p] = cmds[s].pkg

\* A script is only written under a sentinel, where none was, or loosely.
Warned(s) ==
  /\ cmds[s].cmd = "upgrade" /\ cmds[s].at # "sentinel" => sentinel
  /\ cmds[s].cmd = "init" /\ cmds[s].force /\ version # 0 => kept.loose
  /\ cmds[s].cmd = "init" /\ cmds[s].at \in AtFile /\ version # 0 /\ ~sentinel /\ ~kept.loose =>
       cmds[s].todo[1] \notin ScriptPaths

CleanKnown(s) == cmds[s].at # "idle" /\ cmds[s].clean => ToBeWritten(s) /\ Warned(s)

InstallInv == InstallTyped /\ OneIsClean /\ (\A s \in Processes : CleanKnown(s)) /\ Install!VersionIsWhole

LEMMA InstallConstants ==
  /\ Packages \subseteq Nat \ {0} /\ ScriptPaths \subseteq Install!Paths
  /\ Install!ToSet(Templates) \subseteq Install!Paths
  /\ Templates \in Seq(Install!Paths) /\ Scripts \in Seq(Install!Paths)
  /\ Install!ToSet(Templates) \cap ScriptPaths = {}
<1>1. /\ Packages \subseteq Nat \ {0}
      /\ Templates \in Seq(Install!ToSet(Templates)) /\ Scripts \in Seq(ScriptPaths)
      /\ Install!ToSet(Templates) \cap ScriptPaths = {}
  BY GovernanceAssumption DEF GovernanceAssumption, Install!InstallerAssumption, ScriptPaths
<1>2. Install!Paths = Install!ToSet(Templates) \cup ScriptPaths
  BY DEF Install!Paths, ScriptPaths
<1>3. ASSUME NEW S, NEW T, S \subseteq T, NEW q \in Seq(S) PROVE q \in Seq(T)
  BY <1>3
<1> QED
  BY <1>1, <1>2, <1>3

\* What is listed in one sequence or the other is listed in the two joined.
LEMMA Joined ==
  ASSUME NEW S, NEW a \in Seq(S), NEW b \in Seq(S)
  PROVE  /\ a \o b \in Seq(S)
         /\ Install!ToSet(a) \subseteq Install!ToSet(a \o b) /\ Install!ToSet(b) \subseteq Install!ToSet(a \o b)
<1>1. /\ a \o b \in Seq(S) /\ Len(a \o b) = Len(a) + Len(b) /\ Len(a) \in Nat /\ Len(b) \in Nat
      /\ DOMAIN a = 1..Len(a) /\ DOMAIN b = 1..Len(b) /\ DOMAIN (a \o b) = 1..(Len(a) + Len(b))
  OBVIOUS
<1>2. \A i \in 1..Len(a) : (a \o b)[i] = a[i] /\ i \in DOMAIN (a \o b)
  BY <1>1
<1>3. \A i \in 1..Len(b) : (a \o b)[Len(a) + i] = b[i] /\ Len(a) + i \in DOMAIN (a \o b)
  BY <1>1
<1>4. Install!ToSet(a) \subseteq Install!ToSet(a \o b)
  BY <1>1, <1>2 DEF Install!ToSet
<1>5. Install!ToSet(b) \subseteq Install!ToSet(a \o b)
  BY <1>1, <1>3 DEF Install!ToSet
<1> QED
  BY <1>1, <1>4, <1>5

\* A list is its first element and the rest.
LEMMA Rest ==
  ASSUME NEW S, NEW q \in Seq(S), q # <<>>
  PROVE  Tail(q) \in Seq(S) /\ q[1] \in S /\ Install!ToSet(q) = {q[1]} \cup Install!ToSet(Tail(q))
<1>1. /\ Tail(q) \in Seq(S) /\ Len(q) \in Nat \ {0} /\ Len(Tail(q)) = Len(q) - 1
      /\ DOMAIN q = 1..Len(q) /\ DOMAIN Tail(q) = 1..(Len(q) - 1) /\ q[1] \in S
  OBVIOUS
<1>2. \A i \in 1..(Len(q) - 1) : Tail(q)[i] = q[i + 1] /\ i + 1 \in 1..Len(q)
  BY <1>1
<1>3. \A i \in 1..Len(q) : i # 1 => i - 1 \in 1..(Len(q) - 1) /\ q[i] = Tail(q)[i - 1]
  BY <1>1, <1>2
<1>4. Install!ToSet(q) \subseteq {q[1]} \cup Install!ToSet(Tail(q))
  <2> SUFFICES ASSUME NEW e \in Install!ToSet(q), e # q[1] PROVE e \in Install!ToSet(Tail(q))
    OBVIOUS
  <2>1. PICK i \in 1..Len(q) : q[i] = e
    BY <1>1 DEF Install!ToSet
  <2>2. i - 1 \in DOMAIN Tail(q) /\ Tail(q)[i - 1] = e
    BY <1>1, <1>3, <2>1
  <2> QED
    BY <2>2 DEF Install!ToSet
<1>5. {q[1]} \cup Install!ToSet(Tail(q)) \subseteq Install!ToSet(q)
  BY <1>1, <1>2 DEF Install!ToSet
<1> QED
  BY <1>1, <1>4, <1>5

LEMMA InstallBegins == Install!Init => InstallInv
<1> SUFFICES ASSUME Install!Init PROVE InstallInv
  OBVIOUS
<1>1. /\ version \in Packages \cup {0} /\ sentinel = FALSE /\ cmds = [s \in Processes |-> Install!Idle]
      /\ \/ version # 0 /\ disk = [p \in Install!Paths |-> version]
            /\ kept = [known |-> Install!Paths, own |-> {}, yielded |-> {}, loose |-> FALSE]
         \/ \E own \in SUBSET Install!Paths :
              /\ version = 0 /\ disk = [p \in Install!Paths |-> IF p \in own THEN Own ELSE Install!Nothing]
              /\ kept = [known |-> own, own |-> own, yielded |-> {}, loose |-> FALSE]
  BY InstallConstants DEF Install!Init
<1>2. Install!Idle \in InstallCmd /\ Install!Idle.at = "idle"
  BY DEF Install!Idle, InstallCmd, InstallSteps, Contents
<1>3. kept \in InstallPast
  <2>1. ASSUME NEW own \in SUBSET Install!Paths,
               kept = [known |-> own, own |-> own, yielded |-> {}, loose |-> FALSE]
        PROVE  kept \in InstallPast
    BY <2>1 DEF InstallPast
  <2>2. ASSUME kept = [known |-> Install!Paths, own |-> {}, yielded |-> {}, loose |-> FALSE]
        PROVE  kept \in InstallPast
    BY <2>2 DEF InstallPast
  <2> QED
    BY <1>1, <2>1, <2>2
<1>4. disk \in [Install!Paths -> Contents]
  BY <1>1 DEF Contents
<1>5. InstallTyped
  BY <1>1, <1>2, <1>3, <1>4 DEF InstallTyped, AtFile
<1>6. OneIsClean /\ \A s \in Processes : CleanKnown(s)
  BY <1>1, <1>2 DEF OneIsClean, CleanKnown
<1>7. Install!VersionIsWhole
  BY <1>1, InstallConstants DEF Install!VersionIsWhole, ScriptPaths
<1> QED
  BY <1>5, <1>6, <1>7 DEF InstallInv

\* A step of a command that has begun. Where it is not clean, all is loose.
HisTurn(s) ==
  /\ InstallTyped' /\ cmds[s].at # "idle"
  /\ \A x \in Processes \ {s} : cmds'[x] = cmds[x]
  /\ cmds'[s].at = "idle" \/ cmds'[s].clean = cmds[s].clean
  /\ ~cmds[s].clean => kept'.loose = kept.loose

LEMMA TurnKeeps ==
  ASSUME InstallInv, NEW s \in Processes, HisTurn(s),
         cmds[s].clean => CleanKnown(s)' /\ Install!VersionIsWhole'
  PROVE  InstallInv'
<1>1. CASE cmds[s].clean
  <2>1. \A x \in Processes \ {s} : cmds'[x].at = "idle"
    BY <1>1 DEF InstallInv, OneIsClean, HisTurn
  <2>2. OneIsClean'
    BY <1>1, <2>1 DEF OneIsClean, HisTurn
  <2>3. \A x \in Processes : CleanKnown(x)'
    BY <1>1, <2>1 DEF CleanKnown
  <2> QED
    BY <1>1, <2>2, <2>3 DEF InstallInv, HisTurn
<1>2. CASE ~cmds[s].clean
  <2>1. kept.loose /\ kept'.loose
    BY <1>2 DEF InstallInv, OneIsClean, HisTurn
  <2>2. \A x \in Processes : cmds'[x].at # "idle" => ~cmds'[x].clean
    <3> SUFFICES ASSUME NEW x \in Processes, cmds'[x].at # "idle", cmds'[x].clean PROVE FALSE
      OBVIOUS
    <3>1. x # s
      BY <1>2 DEF HisTurn
    <3>2. cmds[x].at # "idle" /\ cmds[x].clean
      BY <3>1 DEF HisTurn
    <3> QED
      BY <3>1, <3>2 DEF InstallInv, OneIsClean, HisTurn
  <2>3. OneIsClean'
    BY <2>1, <2>2 DEF OneIsClean
  <2>4. \A x \in Processes : CleanKnown(x)'
    BY <2>2 DEF CleanKnown
  <2>5. Install!VersionIsWhole'
    BY <2>1 DEF Install!VersionIsWhole
  <2> QED
    BY <2>3, <2>4, <2>5 DEF InstallInv, HisTurn
<1> QED
  BY <1>1, <1>2

\* The record of s changes, and that of nobody else.
LEMMA RecordTurns ==
  ASSUME cmds \in [Processes -> InstallCmd], NEW s \in Processes, NEW r \in InstallCmd,
         cmds' = [cmds EXCEPT ![s] = r]
  PROVE  /\ cmds' \in [Processes -> InstallCmd] /\ cmds'[s] = r
         /\ \A x \in Processes \ {s} : cmds'[x] = cmds[x]
OBVIOUS

\* The types of the rest.
RestTyped ==
  disk \in [Install!Paths -> Contents] /\ version \in Packages \cup {0} /\ sentinel \in BOOLEAN /\ kept \in InstallPast

\* What a step has to show of the record r that it leaves s with.
LEMMA TurnTyped ==
  ASSUME InstallTyped, RestTyped', NEW s \in Processes, cmds[s].at # "idle",
         NEW r \in InstallCmd, cmds' = [cmds EXCEPT ![s] = r],
         r.at = "idle" \/ (r.clean = cmds[s].clean /\ r.cmd = cmds[s].cmd /\ (r.at \in AtFile => r.todo # <<>>)),
         ~cmds[s].clean => kept'.loose = kept.loose
  PROVE  HisTurn(s) /\ cmds'[s] = r
<1>1. /\ cmds' \in [Processes -> InstallCmd] /\ cmds'[s] = r
      /\ \A x \in Processes \ {s} : cmds'[x] = cmds[x]
  BY RecordTurns DEF InstallTyped
<1>2. \A x \in Processes : /\ cmds'[x].at # "idle" => cmds'[x].cmd \in {"init", "upgrade"}
                          /\ cmds'[x].at \in AtFile => cmds'[x].todo # <<>>
  <2> SUFFICES ASSUME NEW x \in Processes
               PROVE  /\ cmds'[x].at # "idle" => cmds'[x].cmd \in {"init", "upgrade"}
                      /\ cmds'[x].at \in AtFile => cmds'[x].todo # <<>>
    OBVIOUS
  <2>1. CASE x = s
    BY <1>1, <2>1 DEF InstallTyped, AtFile
  <2>2. CASE x # s
    BY <1>1, <2>2 DEF InstallTyped
  <2> QED
    BY <2>1, <2>2
<1>3. InstallTyped'
  BY <1>1, <1>2 DEF InstallTyped, RestTyped
<1> QED
  BY <1>1, <1>3 DEF HisTurn

\* A command that ends, or dies, and changes nothing else.
LEMMA CommandEnds ==
  ASSUME InstallInv, NEW s \in Processes, cmds[s].at # "idle", Install!End(s), RestTyped',
         UNCHANGED <<version, sentinel, kept>>,
         \A p \in Install!Paths : disk'[p] # disk[p] =>
           (cmds[s].clean => p \notin ScriptPaths \/ version = 0 \/ sentinel \/ kept.loose)
  PROVE  InstallInv'
<1>1. cmds' = [cmds EXCEPT ![s] = Install!Idle] /\ Install!Idle \in InstallCmd /\ Install!Idle.at = "idle"
  BY DEF Install!End, Install!Idle, InstallCmd, InstallSteps, Contents
<1>2. InstallTyped
  BY DEF InstallInv
<1>3. HisTurn(s) /\ cmds'[s].at = "idle"
  BY <1>1, <1>2, TurnTyped
<1>4. CleanKnown(s)'
  BY <1>3 DEF CleanKnown
<1>5. cmds[s].clean => Install!VersionIsWhole'
  BY InstallConstants DEF Install!VersionIsWhole, InstallInv, ScriptPaths
<1> QED
  BY <1>3, <1>4, <1>5, TurnKeeps

LEMMA SameRest == ASSUME InstallInv, UNCHANGED <<disk, version, sentinel, kept>> PROVE RestTyped'
BY DEF InstallInv, InstallTyped, RestTyped

LEMMA SentinelKeeps == ASSUME InstallInv, NEW s \in Processes, Install!WriteSentinel(s) PROVE InstallInv'
<1>1. /\ cmds[s].at = "sentinel" /\ sentinel' = TRUE /\ UNCHANGED <<disk, version, kept>>
      /\ cmds' = [cmds EXCEPT ![s].at = "file"]
  BY DEF Install!WriteSentinel, Install!Go
<1>2. InstallTyped /\ cmds \in [Processes -> InstallCmd] /\ CleanKnown(s)
  BY DEF InstallInv, InstallTyped
<1> DEFINE r == [cmds[s] EXCEPT !.at = "file"]
<1>3. cmds' = [cmds EXCEPT ![s] = r] /\ r \in InstallCmd /\ r.at = "file" /\ r.clean = cmds[s].clean
      /\ r.cmd = cmds[s].cmd /\ r.todo = cmds[s].todo /\ r.pkg = cmds[s].pkg /\ r.force = cmds[s].force
  BY <1>1, <1>2 DEF InstallCmd, InstallSteps
<1>4. RestTyped'
  BY <1>1, <1>2 DEF InstallTyped, RestTyped
<1> HIDE DEF r
<1>5. HisTurn(s) /\ cmds'[s] = r
  BY <1>1, <1>2, <1>3, <1>4, TurnTyped DEF AtFile
<1>6. ASSUME cmds[s].clean PROVE CleanKnown(s)'
  <2>1. ToBeWritten(s) /\ Warned(s)
    BY <1>1, <1>2, <1>6 DEF CleanKnown
  <2>2. ToBeWritten(s)'
    BY <1>1, <1>3, <1>5, <2>1 DEF ToBeWritten
  <2>3. Warned(s)'
    BY <1>1, <1>3, <1>5, <2>1 DEF Warned, AtFile
  <2> QED
    BY <2>2, <2>3 DEF CleanKnown
<1>7. Install!VersionIsWhole'
  BY <1>1 DEF Install!VersionIsWhole
<1> QED
  BY <1>5, <1>6, <1>7, TurnKeeps

LEMMA LookKeeps == ASSUME InstallInv, NEW s \in Processes, Install!Look(s) PROVE InstallInv'
<1>1. /\ cmds[s].at = "file" /\ cmds[s].todo # <<>> /\ UNCHANGED <<disk, version, sentinel, kept>>
      /\ IF Install!Refuses(s) THEN Install!End(s)
         ELSE cmds' = [cmds EXCEPT ![s].at = "writing",
                                   ![s].seen = IF cmds[s].cmd = "init" THEN kept.own ELSE @]
  BY DEF Install!Look
<1>2. InstallTyped /\ cmds \in [Processes -> InstallCmd] /\ CleanKnown(s) /\ RestTyped'
  BY <1>1, SameRest DEF InstallInv, InstallTyped
<1>3. CASE Install!Refuses(s)
  BY <1>1, <1>2, <1>3, CommandEnds
<1>4. CASE ~Install!Refuses(s)
  <2> DEFINE r == [cmds[s] EXCEPT !.at = "writing", !.seen = IF cmds[s].cmd = "init" THEN kept.own ELSE @]
  <2>1. cmds' = [cmds EXCEPT ![s] = r] /\ r \in InstallCmd
    <3>1. kept.own \subseteq Install!Paths
      BY <1>2 DEF InstallTyped, InstallPast
    <3>2. cmds[s] \in InstallCmd
      BY <1>2
    <3>3. r \in InstallCmd
      BY <3>1, <3>2 DEF InstallCmd, InstallSteps
    <3>4. cmds' = [cmds EXCEPT ![s] = r]
      BY <1>1, <1>2, <1>4
    <3> QED
      BY <3>3, <3>4
  <2>2. /\ r.at = "writing" /\ r.clean = cmds[s].clean /\ r.cmd = cmds[s].cmd
        /\ r.todo = cmds[s].todo /\ r.pkg = cmds[s].pkg /\ r.force = cmds[s].force
    BY <1>2 DEF InstallCmd
  <2> HIDE DEF r
  <2>3. HisTurn(s) /\ cmds'[s] = r
    BY <1>1, <1>2, <2>1, <2>2, TurnTyped
  <2>4. ASSUME cmds[s].clean PROVE CleanKnown(s)'
    <3>1. ToBeWritten(s) /\ Warned(s)
      BY <1>1, <1>2, <2>4 DEF CleanKnown
    <3>2. ToBeWritten(s)'
      BY <1>1, <2>2, <2>3, <3>1 DEF ToBeWritten
    <3>3. ASSUME cmds[s].cmd = "init", version # 0, ~sentinel, ~kept.loose PROVE cmds[s].todo[1] \notin ScriptPaths
      <4>1. ~Install!Exists(Install!At(s))
        BY <1>4, <3>1, <3>3 DEF Install!Refuses, Warned
      <4>2. \A p \in ScriptPaths : disk[p] = version
        BY <3>3 DEF InstallInv, Install!VersionIsWhole, ScriptPaths
      <4> QED
        BY <3>3, <4>1, <4>2 DEF Install!Exists, Install!At, Install!Nothing
    <3>4. Warned(s)'
      BY <1>1, <2>2, <2>3, <3>1, <3>3 DEF Warned
    <3> QED
      BY <3>2, <3>4 DEF CleanKnown
  <2>5. Install!VersionIsWhole'
    BY <1>1 DEF InstallInv, Install!VersionIsWhole
  <2> QED
    BY <2>3, <2>4, <2>5, TurnKeeps
<1> QED
  BY <1>3, <1>4

LEMMA PassOverKeeps == ASSUME InstallInv, NEW s \in Processes, Install!PassOver(s) PROVE InstallInv'
<1>1. /\ cmds[s].at = "file" /\ cmds[s].todo # <<>> /\ cmds[s].todo[1] \in cmds[s].skip
      /\ UNCHANGED <<disk, version, sentinel, kept>> /\ cmds' = [cmds EXCEPT ![s].todo = Tail(@)]
  BY DEF Install!PassOver, Install!At
<1>2. InstallTyped /\ cmds \in [Processes -> InstallCmd] /\ CleanKnown(s) /\ RestTyped'
  BY <1>1, SameRest DEF InstallInv, InstallTyped
<1>3. cmds[s].todo \in Seq(Install!Paths) /\ cmds[s].skip \subseteq Install!ToSet(Templates)
  BY <1>2 DEF InstallCmd
<1>4. /\ Tail(cmds[s].todo) \in Seq(Install!Paths)
      /\ Install!ToSet(cmds[s].todo) = {cmds[s].todo[1]} \cup Install!ToSet(Tail(cmds[s].todo))
      /\ cmds[s].todo[1] \notin ScriptPaths
  BY <1>1, <1>3, Rest, InstallConstants
<1> DEFINE r == [cmds[s] EXCEPT !.todo = Tail(@)]
<1>5. cmds' = [cmds EXCEPT ![s] = r]
  BY <1>1, <1>2
<1>6. /\ r \in InstallCmd /\ r.at = "file" /\ r.clean = cmds[s].clean /\ r.cmd = cmds[s].cmd
      /\ r.todo = Tail(cmds[s].todo) /\ r.pkg = cmds[s].pkg /\ r.force = cmds[s].force
  BY <1>1, <1>2, <1>4 DEF InstallCmd
<1> HIDE DEF r
<1>7. HisTurn(s) /\ cmds'[s] = r
  BY <1>1, <1>2, <1>5, <1>6, TurnTyped DEF AtFile
<1>8. ASSUME cmds[s].clean PROVE CleanKnown(s)'
  <2>1. ToBeWritten(s) /\ Warned(s)
    BY <1>1, <1>2, <1>8 DEF CleanKnown
  <2>2. ToBeWritten(s)'
    BY <1>1, <1>4, <1>6, <1>7, <2>1 DEF ToBeWritten
  <2>3. Warned(s)'
    BY <1>1, <1>6, <1>7, <2>1 DEF Warned, AtFile
  <2> QED
    BY <2>2, <2>3 DEF CleanKnown
<1>9. Install!VersionIsWhole'
  BY <1>1 DEF InstallInv, Install!VersionIsWhole
<1> QED
  BY <1>7, <1>8, <1>9, TurnKeeps

\* A file that a clean command writes is no script of a whole installation.
LEMMA NoScript ==
  ASSUME InstallInv, NEW s \in Processes, cmds[s].clean, cmds[s].at \in AtFile,
         version # 0, ~sentinel, ~kept.loose
  PROVE  cmds[s].todo[1] \notin ScriptPaths
<1>1. Warned(s) /\ cmds[s].cmd \in {"init", "upgrade"} /\ cmds[s].at # "sentinel"
  BY DEF InstallInv, InstallTyped, CleanKnown, AtFile
<1> QED
  BY <1>1 DEF Warned

\* Where only the file at hand changes, the version stays whole.
LEMMA StaysWhole ==
  ASSUME InstallInv, NEW s \in Processes, cmds[s].clean, cmds[s].at \in AtFile,
         UNCHANGED <<version, sentinel>>, kept'.loose = kept.loose,
         \A p \in ScriptPaths : p # cmds[s].todo[1] => disk'[p] = disk[p]
  PROVE  Install!VersionIsWhole'
BY NoScript DEF InstallInv, Install!VersionIsWhole, ScriptPaths

\* The file at hand, the types of what a step changes of it.
LEMMA AtHand ==
  ASSUME InstallInv, NEW s \in Processes, cmds[s].at \in AtFile
  PROVE  /\ cmds \in [Processes -> InstallCmd] /\ cmds[s] \in InstallCmd /\ cmds[s].at # "idle"
         /\ cmds[s].todo # <<>> /\ cmds[s].todo \in Seq(Install!Paths) /\ cmds[s].todo[1] \in Install!Paths
         /\ Tail(cmds[s].todo) \in Seq(Install!Paths) /\ cmds[s].pkg \in Contents /\ cmds[s].old \in Contents
         /\ Install!ToSet(cmds[s].todo) = {cmds[s].todo[1]} \cup Install!ToSet(Tail(cmds[s].todo))
         /\ InstallTyped /\ CleanKnown(s) /\ RestTyped /\ disk \in [Install!Paths -> Contents] /\ kept \in InstallPast
<1>1. /\ InstallTyped /\ CleanKnown(s) /\ RestTyped /\ cmds \in [Processes -> InstallCmd] /\ cmds[s] \in InstallCmd
      /\ cmds[s].at # "idle" /\ cmds[s].todo # <<>>
  BY DEF InstallInv, InstallTyped, RestTyped, AtFile
<1>2. /\ cmds[s].todo \in Seq(Install!Paths) /\ cmds[s].pkg \in Packages \cup {0} /\ cmds[s].old \in Contents
  BY <1>1 DEF InstallCmd
<1>3. cmds[s].pkg \in Contents
  BY <1>2 DEF Contents, Install!Nothing
<1> QED
  BY <1>1, <1>2, <1>3, Rest DEF RestTyped

LEMMA YieldTyped ==
  ASSUME InstallInv, NEW s \in Processes, cmds[s].at \in AtFile, Install!Yield(s)
  PROVE  kept' \in InstallPast /\ kept'.loose = kept.loose
<1>1. kept \in InstallPast /\ cmds[s].todo[1] \in Install!Paths
  BY AtHand
<1>2. kept' = [kept EXCEPT !.yielded = IF Install!MayTake(s) THEN @ \cup {cmds[s].todo[1]} ELSE @,
                           !.known = @ \cup {cmds[s].todo[1]}]
  BY DEF Install!Yield, Install!At
<1> QED
  BY <1>1, <1>2 DEF InstallPast

\* The file at hand is written: what is left of the list is still to be.
LEMMA WrittenKeeps ==
  ASSUME InstallInv, NEW s \in Processes, cmds[s].at \in AtFile, Install!Written(s),
         UNCHANGED <<version, sentinel>>, kept' \in InstallPast, kept'.loose = kept.loose,
         disk' \in [Install!Paths -> Contents],
         \A p \in Install!Paths : p # cmds[s].todo[1] => disk'[p] = disk[p],
         cmds[s].clean /\ cmds[s].todo[1] \in ScriptPaths => disk'[cmds[s].todo[1]] = cmds[s].pkg
  PROVE  InstallInv'
<1> DEFINE r == [cmds[s] EXCEPT !.at = "file", !.todo = Tail(@)]
<1>1. cmds' = [cmds EXCEPT ![s] = r]
  BY AtHand DEF Install!Written
<1>2. /\ r \in InstallCmd /\ r.at = "file" /\ r.clean = cmds[s].clean /\ r.cmd = cmds[s].cmd
      /\ r.todo = Tail(cmds[s].todo) /\ r.pkg = cmds[s].pkg /\ r.force = cmds[s].force
  BY AtHand DEF InstallCmd, InstallSteps
<1> HIDE DEF r
<1>3. RestTyped'
  BY AtHand DEF RestTyped
<1>4. HisTurn(s) /\ cmds'[s] = r
  BY <1>1, <1>2, <1>3, AtHand, TurnTyped DEF AtFile
<1>5. ASSUME cmds[s].clean PROVE CleanKnown(s)'
  <2>1. ToBeWritten(s) /\ Warned(s) /\ cmds[s].at \notin {"unlink", "sentinel"}
    BY <1>5, AtHand DEF CleanKnown, AtFile
  <2>2. ASSUME NEW p \in ScriptPaths PROVE p \in Install!ToSet(r.todo) \/ disk'[p] = r.pkg
    <3>1. p \in Install!ToSet(cmds[s].todo) \/ disk[p] = cmds[s].pkg
      BY <2>1 DEF ToBeWritten
    <3>2. p \in Install!Paths
      BY InstallConstants
    <3> QED
      BY <1>2, <1>5, <3>1, <3>2, AtHand
  <2>3. ToBeWritten(s)'
    BY <1>2, <1>4, <2>2 DEF ToBeWritten
  <2>4. Warned(s)'
    BY <1>2, <1>4, <2>1 DEF Warned, AtFile
  <2> QED
    BY <2>3, <2>4 DEF CleanKnown
<1>6. cmds[s].clean => Install!VersionIsWhole'
  BY StaysWhole, InstallConstants
<1> QED
  BY <1>4, <1>5, <1>6, TurnKeeps

LEMMA RenameKeeps == ASSUME InstallInv, NEW s \in Processes, Install!Rename(s) PROVE InstallInv'
<1>1. /\ cmds[s].at \in AtFile /\ disk' = [disk EXCEPT ![cmds[s].todo[1]] = cmds[s].pkg]
      /\ Install!Yield(s) /\ Install!Written(s) /\ UNCHANGED <<version, sentinel>>
  BY DEF Install!Rename, Install!At, AtFile
<1>2. /\ disk' \in [Install!Paths -> Contents] /\ disk'[cmds[s].todo[1]] = cmds[s].pkg
      /\ \A p \in Install!Paths : p # cmds[s].todo[1] => disk'[p] = disk[p]
  BY <1>1, AtHand
<1> QED
  BY <1>1, <1>2, YieldTyped, WrittenKeeps

LEMMA DropBackupKeeps == ASSUME InstallInv, NEW s \in Processes, Install!DropBackup(s) PROVE InstallInv'
<1>1. /\ cmds[s].at = "placed" /\ cmds[s].at \in AtFile
      /\ Install!Written(s) /\ UNCHANGED <<disk, version, sentinel, kept>>
  BY DEF Install!DropBackup, AtFile
<1>2. cmds[s].clean /\ cmds[s].todo[1] \in ScriptPaths => disk[cmds[s].todo[1]] = cmds[s].pkg
  BY <1>1, AtHand DEF CleanKnown, ToBeWritten
<1> QED
  BY <1>1, <1>2, AtHand, WrittenKeeps

\* The old file steps aside, or the new one is put in its place.
LEMMA AsideKeeps ==
  ASSUME InstallInv, NEW s \in Processes, cmds[s].at \in AtFile, NEW r \in InstallCmd,
         cmds' = [cmds EXCEPT ![s] = r], r.at \in {"aside", "placed"}, r.clean = cmds[s].clean,
         r.cmd = cmds[s].cmd, r.todo = cmds[s].todo, r.pkg = cmds[s].pkg, r.force = cmds[s].force,
         UNCHANGED <<version, sentinel>>, kept' \in InstallPast, kept'.loose = kept.loose,
         NEW c \in Contents, disk' = [disk EXCEPT ![cmds[s].todo[1]] = c],
         r.at = "placed" => c = cmds[s].pkg
  PROVE  InstallInv'
<1>1. /\ disk' \in [Install!Paths -> Contents] /\ disk'[cmds[s].todo[1]] = c
      /\ \A p \in Install!Paths : p # cmds[s].todo[1] => disk'[p] = disk[p]
  BY AtHand
<1>2. RestTyped'
  BY <1>1, AtHand DEF RestTyped
<1>3. HisTurn(s) /\ cmds'[s] = r
  BY <1>2, AtHand, TurnTyped DEF AtFile
<1>4. ASSUME cmds[s].clean PROVE CleanKnown(s)'
  <2>1. ToBeWritten(s) /\ Warned(s) /\ cmds[s].at \notin {"unlink", "sentinel"}
    BY <1>4, AtHand DEF CleanKnown, AtFile
  <2>2. ASSUME NEW p \in ScriptPaths PROVE p \in Install!ToSet(r.todo) \/ disk'[p] = r.pkg
    <3>1. p \in Install!ToSet(cmds[s].todo) \/ disk[p] = cmds[s].pkg
      BY <2>1 DEF ToBeWritten
    <3>2. p \in Install!Paths
      BY InstallConstants
    <3> QED
      BY <1>1, <3>1, <3>2, AtHand
  <2>3. ToBeWritten(s)'
    BY <1>1, <1>3, <2>2 DEF ToBeWritten
  <2>4. Warned(s)'
    BY <1>3, <1>4, <2>1, NoScript DEF Warned, AtFile
  <2> QED
    BY <2>3, <2>4 DEF CleanKnown
<1>5. cmds[s].clean => Install!VersionIsWhole'
  BY <1>1, StaysWhole, InstallConstants
<1> QED
  BY <1>3, <1>4, <1>5, TurnKeeps

LEMMA SetAsideKeeps == ASSUME InstallInv, NEW s \in Processes, Install!SetAside(s) PROVE InstallInv'
<1>1. /\ cmds[s].at \in AtFile /\ disk' = [disk EXCEPT ![cmds[s].todo[1]] = Install!Nothing]
      /\ cmds' = [cmds EXCEPT ![s].at = "aside", ![s].old = disk[cmds[s].todo[1]]]
      /\ Install!Yield(s) /\ UNCHANGED <<version, sentinel>>
  BY DEF Install!SetAside, Install!At, AtFile
<1>2. Install!Nothing \in Contents /\ disk[cmds[s].todo[1]] \in Contents
  BY <1>1, AtHand DEF Contents
<1> DEFINE r == [cmds[s] EXCEPT !.at = "aside", !.old = disk[cmds[s].todo[1]]]
<1>3. cmds' = [cmds EXCEPT ![s] = r]
  BY <1>1, AtHand
<1>4. /\ r \in InstallCmd /\ r.at = "aside" /\ r.clean = cmds[s].clean /\ r.cmd = cmds[s].cmd
      /\ r.todo = cmds[s].todo /\ r.pkg = cmds[s].pkg /\ r.force = cmds[s].force
  BY <1>1, <1>2, AtHand DEF InstallCmd, InstallSteps
<1> HIDE DEF r
<1> QED
  BY <1>1, <1>2, <1>3, <1>4, YieldTyped, AsideKeeps

LEMMA PutNewKeeps == ASSUME InstallInv, NEW s \in Processes, Install!PutNew(s) PROVE InstallInv'
<1>1. /\ cmds[s].at \in AtFile /\ disk' = [disk EXCEPT ![cmds[s].todo[1]] = cmds[s].pkg]
      /\ cmds' = [cmds EXCEPT ![s].at = "placed"] /\ UNCHANGED <<version, sentinel, kept>>
  BY DEF Install!PutNew, Install!Go, Install!At, AtFile
<1> DEFINE r == [cmds[s] EXCEPT !.at = "placed"]
<1>2. cmds' = [cmds EXCEPT ![s] = r]
  BY <1>1, AtHand
<1>3. /\ r \in InstallCmd /\ r.at = "placed" /\ r.clean = cmds[s].clean /\ r.cmd = cmds[s].cmd
      /\ r.todo = cmds[s].todo /\ r.pkg = cmds[s].pkg /\ r.force = cmds[s].force
  BY <1>1, AtHand DEF InstallCmd, InstallSteps
<1> HIDE DEF r
<1>4. kept' \in InstallPast /\ kept'.loose = kept.loose /\ cmds[s].pkg \in Contents
  BY <1>1, AtHand
<1> QED
  BY <1>1, <1>2, <1>3, <1>4, AsideKeeps

LEMMA PutBackKeeps == ASSUME InstallInv, NEW s \in Processes, Install!PutBack(s) PROVE InstallInv'
<1>1. /\ cmds[s].at \in AtFile /\ Install!End(s) /\ UNCHANGED <<version, sentinel, kept>>
      /\ disk' = disk \/ disk' = [disk EXCEPT ![cmds[s].todo[1]] = cmds[s].old]
  BY DEF Install!PutBack, Install!At, AtFile
<1>2. /\ disk' \in [Install!Paths -> Contents]
      /\ \A p \in Install!Paths : p # cmds[s].todo[1] => disk'[p] = disk[p]
  BY <1>1, AtHand
<1>3. RestTyped' /\ cmds[s].at # "idle"
  BY <1>1, <1>2, AtHand DEF RestTyped
<1>4. cmds[s].clean => cmds[s].todo[1] \notin ScriptPaths \/ version = 0 \/ sentinel \/ kept.loose
  BY <1>1, NoScript
<1> QED
  BY <1>1, <1>2, <1>3, <1>4, CommandEnds

LEMMA EndsKeep ==
  ASSUME InstallInv, NEW s \in Processes, Install!Stop(s) \/ Install!Die(s)
  PROVE  InstallInv'
<1>1. Install!End(s) /\ cmds[s].at # "idle" /\ UNCHANGED <<disk, version, sentinel, kept>>
  BY DEF Install!Stop, Install!Die
<1> QED
  BY <1>1, SameRest, CommandEnds

LEMMA VersionKeeps == ASSUME InstallInv, NEW s \in Processes, Install!WriteVersion(s) PROVE InstallInv'
<1>1. /\ cmds[s].at = "file" /\ cmds[s].todo = <<>> /\ version' = cmds[s].pkg
      /\ IF cmds[s].cmd = "upgrade" THEN cmds' = [cmds EXCEPT ![s].at = "unlink"]
         ELSE cmds' = [cmds EXCEPT ![s] = Install!Idle]
      /\ kept' = [kept EXCEPT !.loose = @ /\ ~(cmds[s].clean /\ Install!Alone(s))]
      /\ UNCHANGED <<disk, sentinel>>
  BY DEF Install!WriteVersion, Install!Go, Install!End
<1>2. /\ InstallTyped /\ cmds \in [Processes -> InstallCmd] /\ cmds[s] \in InstallCmd /\ CleanKnown(s)
      /\ kept \in InstallPast /\ disk \in [Install!Paths -> Contents] /\ sentinel \in BOOLEAN
  BY DEF InstallInv, InstallTyped
<1>3. kept' \in InstallPast /\ (~cmds[s].clean => kept'.loose = kept.loose)
  BY <1>1, <1>2 DEF InstallPast
<1>4. cmds[s].pkg \in Packages \cup {0}
  BY <1>2 DEF InstallCmd
<1>5. RestTyped'
  BY <1>1, <1>2, <1>3, <1>4 DEF RestTyped
<1> DEFINE r == IF cmds[s].cmd = "upgrade" THEN [cmds[s] EXCEPT !.at = "unlink"] ELSE Install!Idle
<1>6. cmds' = [cmds EXCEPT ![s] = r]
  BY <1>1, <1>2
<1>7. /\ r \in InstallCmd
      /\ \/ r.at = "idle"
         \/ r.at = "unlink" /\ r.clean = cmds[s].clean /\ r.cmd = "upgrade" /\ r.cmd = cmds[s].cmd
            /\ r.pkg = cmds[s].pkg
  <2>1. CASE cmds[s].cmd = "upgrade"
    BY <1>2, <2>1 DEF InstallCmd, InstallSteps
  <2>2. CASE cmds[s].cmd # "upgrade"
    BY <2>2 DEF Install!Idle, InstallCmd, InstallSteps, Contents
  <2> QED
    BY <2>1, <2>2
<1> HIDE DEF r
<1>8. HisTurn(s) /\ cmds'[s] = r
  BY <1>1, <1>2, <1>3, <1>5, <1>6, <1>7, TurnTyped DEF AtFile
<1>9. ASSUME cmds[s].clean PROVE CleanKnown(s)' /\ Install!VersionIsWhole'
  <2>1. ToBeWritten(s) /\ Warned(s)
    BY <1>1, <1>2, <1>9 DEF CleanKnown
  <2>2. Install!ToSet(cmds[s].todo) = {}
    BY <1>1 DEF Install!ToSet
  <2>3. \A p \in ScriptPaths : disk'[p] = cmds[s].pkg
    BY <1>1, <2>1, <2>2 DEF ToBeWritten
  <2>4. Install!VersionIsWhole'
    BY <1>1, <2>3 DEF Install!VersionIsWhole, ScriptPaths
  <2>5. cmds'[s].at # "idle" => ToBeWritten(s)' /\ Warned(s)'
    BY <1>1, <1>7, <1>8, <2>1, <2>3 DEF ToBeWritten, Warned, AtFile
  <2> QED
    BY <2>4, <2>5 DEF CleanKnown
<1> QED
  BY <1>8, <1>9, TurnKeeps

LEMMA UnlinkKeeps == ASSUME InstallInv, NEW s \in Processes, Install!RemoveSentinel(s) PROVE InstallInv'
<1>1. /\ cmds[s].at = "unlink" /\ sentinel' = FALSE /\ cmds' = [cmds EXCEPT ![s] = Install!Idle]
      /\ UNCHANGED <<disk, version, kept>>
  BY DEF Install!RemoveSentinel, Install!End
<1>2. InstallTyped /\ CleanKnown(s)
  BY DEF InstallInv
<1>3. RestTyped'
  BY <1>1, <1>2 DEF InstallTyped, RestTyped
<1>4. Install!Idle \in InstallCmd /\ Install!Idle.at = "idle"
  BY DEF Install!Idle, InstallCmd, InstallSteps, Contents
<1>5. HisTurn(s) /\ cmds'[s].at = "idle"
  BY <1>1, <1>2, <1>3, <1>4, TurnTyped
<1>6. CleanKnown(s)'
  BY <1>5 DEF CleanKnown
<1>7. cmds[s].clean => Install!VersionIsWhole'
  BY <1>1, <1>2 DEF CleanKnown, ToBeWritten, Install!VersionIsWhole, ScriptPaths
<1> QED
  BY <1>5, <1>6, <1>7, TurnKeeps

\* A command begins: it is clean if it is alone, and the others no longer are.
LEMMA BegunKeeps ==
  ASSUME InstallInv, NEW s \in Processes, cmds[s].at = "idle",
         NEW cmd \in {"init", "upgrade"}, NEW pkg \in Packages, NEW force \in BOOLEAN,
         NEW from \in {"file", "sentinel"}, NEW todo \in Seq(Install!Paths),
         NEW skip \in SUBSET Install!ToSet(Templates),
         Install!Begun(s, cmd, pkg, force, from, todo, skip), ScriptPaths \subseteq Install!ToSet(todo),
         cmd = "upgrade" => from = "sentinel", UNCHANGED <<disk, version, sentinel>>,
         NEW l \in BOOLEAN, kept' = [kept EXCEPT !.loose = l],
         kept.loose \/ ~Install!Alone(s) \/ (cmd = "init" /\ force /\ version # 0) => l
  PROVE  InstallInv'
<1>1. /\ InstallTyped /\ cmds \in [Processes -> InstallCmd] /\ kept \in InstallPast
      /\ kept.own \subseteq Install!Paths
  BY DEF InstallInv, InstallTyped, InstallPast
<1>2. kept' \in InstallPast /\ kept'.loose = l
  BY <1>1 DEF InstallPast
<1> DEFINE r == [at |-> from, cmd |-> cmd, pkg |-> pkg, force |-> force, todo |-> todo, skip |-> skip,
                 clean |-> Install!Alone(s), seen |-> kept.own, old |-> Install!Nothing]
<1>3. r \in InstallCmd
  <2>1. Install!Alone(s) \in BOOLEAN
    BY DEF Install!Alone
  <2>2. Install!Nothing \in Contents /\ from \in InstallSteps
    BY DEF Contents, InstallSteps
  <2>3. ASSUME NEW b \in BOOLEAN
        PROVE  [at |-> from, cmd |-> cmd, pkg |-> pkg, force |-> force, todo |-> todo, skip |-> skip,
                clean |-> b, seen |-> kept.own, old |-> Install!Nothing] \in InstallCmd
    BY <1>1, <2>2 DEF InstallCmd
  <2> QED
    BY <2>1, <2>3
<1>4. /\ r.at = from /\ r.cmd = cmd /\ r.pkg = pkg /\ r.force = force /\ r.todo = todo
      /\ r.clean = Install!Alone(s)
  OBVIOUS
<1>5. cmds' = [x \in Processes |-> IF x = s THEN r ELSE [cmds[x] EXCEPT !.clean = FALSE]]
  BY DEF Install!Begun
<1> HIDE DEF r
<1>6. cmds'[s] = r
  BY <1>5
<1>7. ASSUME NEW x \in Processes \ {s}
      PROVE  /\ cmds'[x] \in InstallCmd /\ cmds'[x].at = cmds[x].at /\ cmds'[x].cmd = cmds[x].cmd
             /\ cmds'[x].todo = cmds[x].todo /\ ~cmds'[x].clean
  <2>1. cmds'[x] = [cmds[x] EXCEPT !.clean = FALSE] /\ cmds[x] \in InstallCmd
    BY <1>1, <1>5
  <2> QED
    BY <2>1 DEF InstallCmd
<1>8. cmds' \in [Processes -> InstallCmd]
  <2>1. \A x \in Processes : (IF x = s THEN r ELSE [cmds[x] EXCEPT !.clean = FALSE]) \in InstallCmd
    BY <1>3, <1>5, <1>7
  <2> QED
    BY <1>5, <2>1
<1>9. InstallTyped'
  <2>1. ASSUME NEW x \in Processes
        PROVE  /\ cmds'[x].at # "idle" => cmds'[x].cmd \in {"init", "upgrade"}
               /\ cmds'[x].at \in AtFile => cmds'[x].todo # <<>>
    <3>1. CASE x = s
      BY <1>4, <1>6, <3>1 DEF AtFile
    <3>2. CASE x # s
      BY <1>1, <1>7, <3>2 DEF InstallTyped
    <3> QED
      BY <3>1, <3>2
  <2> QED
    BY <1>1, <1>2, <1>8, <2>1 DEF InstallTyped
<1>10. OneIsClean'
  <2> SUFFICES ASSUME NEW x \in Processes, cmds'[x].at # "idle"
               PROVE  IF cmds'[x].clean THEN \A y \in Processes \ {x} : cmds'[y].at = "idle" ELSE kept'.loose
    BY DEF OneIsClean
  <2>1. CASE x = s /\ Install!Alone(s)
    BY <1>4, <1>6, <1>7, <2>1 DEF Install!Alone
  <2>2. CASE x = s /\ ~Install!Alone(s)
    BY <1>2, <1>4, <1>6, <2>2
  <2>3. CASE x # s
    <3>1. ~cmds'[x].clean /\ cmds[x].at # "idle"
      BY <1>7, <2>3
    <3>2. ~Install!Alone(s)
      BY <2>3, <3>1 DEF Install!Alone
    <3> QED
      BY <1>2, <3>1, <3>2
  <2> QED
    BY <2>1, <2>2, <2>3
<1>11. ASSUME NEW x \in Processes PROVE CleanKnown(x)'
  <2>1. CASE x # s
    BY <1>7, <2>1 DEF CleanKnown
  <2>2. ToBeWritten(s)' /\ Warned(s)'
    BY <1>2, <1>4, <1>6 DEF ToBeWritten, Warned, AtFile
  <2> QED
    BY <2>1, <2>2 DEF CleanKnown
<1>12. Install!VersionIsWhole'
  BY <1>2 DEF InstallInv, Install!VersionIsWhole
<1> QED
  BY <1>9, <1>10, <1>11, <1>12 DEF InstallInv

LEMMA BeginInitKeeps ==
  ASSUME InstallInv, NEW s \in Processes, NEW pkg \in Packages, NEW force \in BOOLEAN,
         Install!BeginInit(s, pkg, force)
  PROVE  InstallInv'
<1> DEFINE l == kept.loose \/ ~Install!Alone(s) \/ (force /\ version # 0)
<1>1. /\ cmds[s].at = "idle" /\ Install!Begun(s, "init", pkg, force, "file", Templates \o Scripts, {})
      /\ kept' = [kept EXCEPT !.loose = l] /\ UNCHANGED <<disk, version, sentinel>>
  BY DEF Install!BeginInit
<1>2. l \in BOOLEAN
  <2>1. \A b, c, d \in BOOLEAN : (b \/ c \/ d) \in BOOLEAN /\ (b \/ c) \in BOOLEAN
    OBVIOUS
  <2>2. kept.loose \in BOOLEAN /\ Install!Alone(s) \in BOOLEAN
    BY DEF InstallInv, InstallTyped, InstallPast, Install!Alone
  <2> QED
    BY <2>1, <2>2
<1> HIDE DEF l
<1>3. Templates \o Scripts \in Seq(Install!Paths) /\ ScriptPaths \subseteq Install!ToSet(Templates \o Scripts)
  BY InstallConstants, Joined DEF ScriptPaths
<1>4. kept.loose \/ ~Install!Alone(s) \/ ("init" = "init" /\ force /\ version # 0) => l
  BY DEF l
<1>5. /\ "init" \in {"init", "upgrade"} /\ "file" \in {"file", "sentinel"}
      /\ {} \in SUBSET Install!ToSet(Templates) /\ ("init" = "upgrade" => "file" = "sentinel")
  OBVIOUS
<1> QED
  BY <1>1, <1>2, <1>3, <1>4, <1>5, BegunKeeps

LEMMA BeginUpgradeKeeps ==
  ASSUME InstallInv, NEW s \in Processes, NEW pkg \in Packages, NEW force \in BOOLEAN,
         Install!BeginUpgrade(s, pkg, force)
  PROVE  InstallInv'
<1> DEFINE l == kept.loose \/ ~Install!Alone(s)
<1> DEFINE skip == Install!Skipped(pkg, force)
<1>1. /\ cmds[s].at = "idle"
      /\ Install!Begun(s, "upgrade", pkg, force, "sentinel", Scripts \o Templates, skip)
      /\ kept' = [kept EXCEPT !.loose = l] /\ UNCHANGED <<disk, version, sentinel>>
  BY DEF Install!BeginUpgrade, Install!FirstStep
<1>2. l \in BOOLEAN
  <2>1. \A b, c, d \in BOOLEAN : (b \/ c \/ d) \in BOOLEAN /\ (b \/ c) \in BOOLEAN
    OBVIOUS
  <2>2. kept.loose \in BOOLEAN /\ Install!Alone(s) \in BOOLEAN
    BY DEF InstallInv, InstallTyped, InstallPast, Install!Alone
  <2> QED
    BY <2>1, <2>2
<1>3. skip \in SUBSET Install!ToSet(Templates)
  BY DEF Install!Skipped
<1> HIDE DEF l, skip
<1>4. Scripts \o Templates \in Seq(Install!Paths) /\ ScriptPaths \subseteq Install!ToSet(Scripts \o Templates)
  BY InstallConstants, Joined DEF ScriptPaths
<1>5. kept.loose \/ ~Install!Alone(s) => l
  BY DEF l
<1> QED
  BY <1>1, <1>2, <1>3, <1>4, <1>5, BegunKeeps

\* Users change what is no script.
LEMMA UserChanges == ASSUME InstallInv, NEW p \in Install!Paths, Install!UserEdits(p) PROVE InstallInv'
<1>1. /\ p \notin ScriptPaths /\ UNCHANGED <<version, sentinel, cmds>>
      /\ \/ disk' = [disk EXCEPT ![p] = Own]
            /\ kept' = [kept EXCEPT !.known = @ \cup {p}, !.own = @ \cup {p}, !.yielded = @ \ {p}]
         \/ disk' = [disk EXCEPT ![p] = Folder]
            /\ kept' = [kept EXCEPT !.known = @ \ {p}, !.own = @ \ {p}]
  BY DEF Install!UserEdits, ScriptPaths
<1>2. disk \in [Install!Paths -> Contents] /\ kept \in InstallPast /\ InstallTyped /\ {Own, Folder} \subseteq Contents
  BY DEF InstallInv, InstallTyped, Contents
<1>3. /\ disk' \in [Install!Paths -> Contents]
      /\ \A q \in ScriptPaths : disk'[q] = disk[q]
  BY <1>1, <1>2, InstallConstants
<1>4. kept' \in InstallPast /\ kept'.loose = kept.loose
  <2>1. CASE kept' = [kept EXCEPT !.known = @ \cup {p}, !.own = @ \cup {p}, !.yielded = @ \ {p}]
    BY <1>2, <2>1 DEF InstallPast
  <2>2. CASE kept' = [kept EXCEPT !.known = @ \ {p}, !.own = @ \ {p}]
    BY <1>2, <2>2 DEF InstallPast
  <2> QED
    BY <1>1, <2>1, <2>2
<1>5. InstallTyped'
  BY <1>1, <1>2, <1>3, <1>4 DEF InstallTyped
<1>6. OneIsClean'
  BY <1>1, <1>4 DEF InstallInv, OneIsClean
<1>7. ASSUME NEW s \in Processes PROVE CleanKnown(s)'
  <2>1. CleanKnown(s)
    BY DEF InstallInv
  <2>2. ToBeWritten(s) => ToBeWritten(s)'
    BY <1>1, <1>3 DEF ToBeWritten
  <2>3. Warned(s) => Warned(s)'
    BY <1>1, <1>4 DEF Warned
  <2> QED
    BY <1>1, <2>1, <2>2, <2>3 DEF CleanKnown
<1>8. Install!VersionIsWhole'
  BY <1>1, <1>3, <1>4 DEF InstallInv, Install!VersionIsWhole, ScriptPaths
<1> QED
  BY <1>5, <1>6, <1>7, <1>8 DEF InstallInv

LEMMA InstallStays ==
  ASSUME InstallInv, UNCHANGED <<disk, version, sentinel, cmds, kept>>
  PROVE  InstallInv'
BY DEF InstallInv, InstallTyped, OneIsClean, CleanKnown, ToBeWritten, Warned, Install!VersionIsWhole

LEMMA InstallStep == ASSUME InstallInv, [Install!Next]_installVars PROVE InstallInv'
<1>1. CASE UNCHANGED installVars
  BY <1>1, InstallStays DEF installVars
<1>2. ASSUME NEW s \in Processes, Install!Command(s) PROVE InstallInv'
  <2>1. ASSUME NEW pkg \in Packages, NEW force \in BOOLEAN,
               \/ Install!BeginInit(s, pkg, force) \/ Install!BeginUpgrade(s, pkg, force)
               \/ Install!UpToDate(s, pkg, force)
        PROVE  InstallInv'
    <3>1. CASE Install!UpToDate(s, pkg, force)
      BY <3>1, InstallStays DEF Install!UpToDate
    <3> QED
      BY <2>1, <3>1, BeginInitKeeps, BeginUpgradeKeeps
  <2> QED
    BY <1>2, <2>1, SentinelKeeps, LookKeeps, PassOverKeeps, RenameKeeps, SetAsideKeeps, PutNewKeeps,
       DropBackupKeeps, PutBackKeeps, EndsKeep, VersionKeeps, UnlinkKeeps
    DEF Install!Command
<1>3. ASSUME NEW p \in Install!Paths, Install!UserEdits(p) PROVE InstallInv'
  BY <1>3, UserChanges
<1> QED
  BY <1>1, <1>2, <1>3 DEF Install!Next

LEMMA InstallHold == Spec => [](which = "install" => InstallInv)
<1>1. Init => (which = "install" => InstallInv)
  BY Apart, InstallBegins
<1>2. (which = "install" => InstallInv) /\ [Next]_vars => (which = "install" => InstallInv)'
  BY Apart, InstallStep
<1> QED
  BY <1>1, <1>2, PTL DEF Spec

\* version.json tells the truth: unless an interrupted upgrade is marked, every
\* script is of the version it names, whatever died, was refused or was repeated with
\* whatever package (runInit, runUpgrade and writeFileSafely). The exceptions, until a
\* command that ran alone has ended, are commands that overlapped and a scaffold over
\* another.
THEOREM VersionTellsScripts == Spec => []VersionIsWhole
<1>1. (which = "install" => InstallInv) => VersionIsWhole
  BY DEF VersionIsWhole, InstallInv
<1> QED
  BY <1>1, InstallHold, PTL

-----------------------------------------------------------------------------
(* The upkeep of the document store. What a session has read or set aside is *)
(* no older than any commit made at a good moment (RevKnown); a session that *)
(* nobody has disturbed is alone, and knows how the store it has found       *)
(* compares with the store that is there (Soloist).                          *)

Idx ==
  {i \in [st : {"ok", "missing", "corrupt"}, ver : 0..2, rev : Nat, roots : Roots \cup {"none"}] :
     (i.st = "ok" => i.ver # 0) /\ (i.st = "missing" => i.rev = 0)}
Cfg == [st : {"ok", "missing", "corrupt"}, roots : Roots \cup {"none"}]
Jrn == [revs : SUBSET Nat, migrated : BOOLEAN]
Fil == [rev : Nat, ver : 0..2]
Held == Idx \X Cfg \X (0..2) \X Jrn \X Fil

Unsnapped == {"idle", "look", "read", "index", "config", "schema", "snapshot"}
Snapped ==
  {"copy", "migrator", "acquire", "writeIndex", "logMigrate", "writeSchema", "release", "restoreLocked",
   "restoreRestLocked", "drop", "verify", "restore", "restoreRest"}
KeeperSession ==
  [pc : Unsnapped \cup Snapped, mem : Idx, roots : Roots \cup {"none"}, force : BOOLEAN,
   snap : Held \cup {<<>>}, before : Held \cup {<<>>}, clean : BOOLEAN]

StoreTyped ==
  /\ index \in Idx /\ config \in Cfg /\ schema \in 0..2 /\ journal \in Jrn /\ artifact \in Fil
  /\ commits \in [committed : SUBSET (Nat \ {0}), unguarded : SUBSET Nat, discarded : BOOLEAN]
  /\ upkeep \in [commands : Nat, commits : Nat, faults : Nat]
  /\ \A r \in commits.committed : r <= upkeep.commits
KeepersTyped == keeper \in [Processes -> KeeperSession]

Good == commits.committed \ commits.unguarded

\* What a session may write over the commit r is not older than it.
RevKnown(x, r) ==
  /\ x.pc = "index" => x.mem.rev >= r \/ (x.mem.rev = 0 /\ x.force)
  /\ x.pc \in {"snapshot", "copy", "migrator", "acquire", "writeIndex"} => x.mem.rev >= r
  /\ x.pc \in Snapped => x.snap[1].rev >= r /\ r \in x.snap[4].revs

CommitsKept ==
  ~commits.discarded =>
    \A r \in Good : /\ index.rev >= r /\ r \in journal.revs
                    /\ \A s \in Processes : RevKnown(keeper[s], r)

KeeperKnown(s) ==
  /\ keeper[s].pc \in Snapped => keeper[s].snap \in Held
  /\ keeper[s].pc \in Upkeep!Locked => lock = s
  /\ keeper[s].pc \in {"index", "config", "schema", "snapshot", "copy", "migrator", "acquire", "writeIndex"} =>
       keeper[s].mem.st = "ok"

Soloist(s) ==
  LET x == keeper[s] IN
  x.pc # "idle" /\ x.clean =>
    /\ \A t \in Processes \ {s} : keeper[t].pc = "idle"
    /\ x.pc \in {"config", "schema"} => index = x.mem
    /\ x.pc = "schema" => config = [st |-> "ok", roots |-> x.mem.roots]
    /\ x.pc \in {"snapshot"} \cup Snapped => x.before \in Held /\ config = x.before[2]
    /\ x.pc \in Snapped => x.snap[1] = x.before[1]
    /\ x.pc \in Snapped \ {"copy"} => x.snap = x.before
    /\ x.pc \in {"snapshot", "copy", "migrator", "acquire", "writeIndex"} =>
         x.mem = x.before[1] /\ index = x.before[1] /\ journal = x.before[4] /\ schema = x.before[3]
    /\ x.pc \in {"snapshot", "copy", "migrator"} => artifact = x.before[5]
    /\ x.pc \in {"logMigrate", "writeSchema", "release", "verify"} => index = [x.before[1] EXCEPT !.ver = 2]
    /\ x.pc \in {"restoreRest", "restoreRestLocked", "drop"} => index = x.before[1]
    /\ x.pc = "drop" =>
         (x.before[3] # 0 => schema = x.before[3]) /\ journal = x.before[4] /\ artifact = x.before[5]

ReportSound == report.end # "none" => Upkeep!UpkeepSound /\ \A s \in Processes : keeper[s].pc = "idle"

UpkeepInv ==
  /\ StoreTyped /\ KeepersTyped /\ CommitsKept /\ ReportSound
  /\ \A s \in Processes : KeeperKnown(s) /\ Soloist(s)

LEMMA IdleKeeper ==
  /\ Upkeep!Idle \in KeeperSession /\ Upkeep!Idle.pc = "idle" /\ Upkeep!Idle.clean
  /\ Upkeep!Idle.before = <<>> /\ Upkeep!Idle.snap = <<>> /\ Upkeep!Idle.mem = Upkeep!NoIndex
  /\ Upkeep!NoIndex \in Idx
  BY DEF Upkeep!Idle, Upkeep!NoIndex, KeeperSession, Unsnapped, Idx

LEMMA BootstrapTyped ==
  /\ Upkeep!BootstrapIndex \in Idx /\ Upkeep!BootstrapIndex.rev = 0 /\ Upkeep!BootstrapIndex.st = "ok"
  /\ [Upkeep!BootstrapIndex EXCEPT !.roots = "none"] \in Idx
  /\ [Upkeep!BootstrapIndex EXCEPT !.roots = "none"].rev = 0
  BY GovernanceAssumption
  DEF GovernanceAssumption, Upkeep!UpkeepAssumption, Upkeep!BootstrapIndex, Upkeep!Supported, Idx

LEMMA UpkeepBegins == Upkeep!Init => UpkeepInv
<1> SUFFICES ASSUME Upkeep!Init PROVE UpkeepInv
  OBVIOUS
<1>1. /\ keeper = [s \in Processes |-> Upkeep!Idle] /\ report = Upkeep!Ended
      /\ journal = [revs |-> {}, migrated |-> FALSE]
      /\ commits = [committed |-> {}, unguarded |-> {}, discarded |-> FALSE]
      /\ upkeep = [commands |-> 0, commits |-> 0, faults |-> 0]
  BY DEF Upkeep!Init
<1>2. index \in Idx /\ config \in Cfg /\ schema \in 0..2 /\ artifact \in Fil
  <2>1. ASSUME NEW v \in {1, 2}, NEW r \in Roots,
               index = [st |-> "ok", ver |-> v, rev |-> 0, roots |-> r],
               config = [st |-> "ok", roots |-> r], schema = v, artifact = [rev |-> 0, ver |-> v]
        PROVE  index \in Idx /\ config \in Cfg /\ schema \in 0..2 /\ artifact \in Fil
    BY <2>1 DEF Idx, Cfg, Fil
  <2>2. ASSUME index \in {Upkeep!NoIndex, [Upkeep!BootstrapIndex EXCEPT !.roots = "none"]}, config = Upkeep!NoConfig,
               schema = 0, artifact = [rev |-> 0, ver |-> 2]
        PROVE  index \in Idx /\ config \in Cfg /\ schema \in 0..2 /\ artifact \in Fil
    <3>1. index \in Idx
      BY <2>2, BootstrapTyped, IdleKeeper
    <3> QED
      BY <2>2, <3>1 DEF Upkeep!NoConfig, Cfg, Fil
  <2> QED
    BY <2>1, <2>2 DEF Upkeep!Init, Upkeep!Versions, Upkeep!OldFormat, Upkeep!Supported
<1>3. StoreTyped /\ KeepersTyped
  BY <1>1, <1>2, IdleKeeper DEF StoreTyped, KeepersTyped, Jrn
<1>4. \A s \in Processes : KeeperKnown(s) /\ Soloist(s)
  BY <1>1, IdleKeeper DEF KeeperKnown, Soloist, Snapped, Upkeep!Locked
<1>5. CommitsKept /\ ReportSound
  BY <1>1 DEF CommitsKept, ReportSound, Good, Upkeep!Ended
<1> QED
  BY <1>3, <1>4, <1>5 DEF UpkeepInv

\* One session moves: what there is to show of it.
LEMMA KeeperMoves ==
  ASSUME UpkeepInv, NEW s \in Processes, keeper[s].pc # "idle",
         NEW x \in KeeperSession, keeper' = [keeper EXCEPT ![s] = x],
         StoreTyped', KeeperKnown(s)', Soloist(s)', ReportSound',
         \A t \in Processes \ {s} : lock = t => lock' = t,
         commits'.committed = commits.committed, commits'.unguarded = commits.unguarded,
         ~commits'.discarded =>
           /\ ~commits.discarded
           /\ \A r \in Good : index'.rev >= r /\ r \in journal'.revs /\ RevKnown(x, r)
  PROVE  UpkeepInv'
<1>1. KeepersTyped' /\ keeper'[s] = x /\ \A t \in Processes \ {s} : keeper'[t] = keeper[t]
  BY DEF UpkeepInv, KeepersTyped
<1>2. ASSUME NEW t \in Processes \ {s} PROVE KeeperKnown(t)' /\ Soloist(t)'
  <2>1. KeeperKnown(t)'
    BY <1>1 DEF UpkeepInv, KeeperKnown
  <2>2. keeper[t].pc = "idle" \/ ~keeper[t].clean
    BY DEF UpkeepInv, Soloist
  <2> QED
    BY <1>1, <2>1, <2>2 DEF Soloist
<1>3. CommitsKept'
  BY <1>1 DEF UpkeepInv, CommitsKept, Good
<1> QED
  BY <1>1, <1>2, <1>3 DEF UpkeepInv

\* A session that goes on, with nothing to report.
LEMMA NothingReported ==
  ASSUME UpkeepInv, NEW s \in Processes, keeper[s].pc # "idle", report' = report
  PROVE  ReportSound'
  BY DEF UpkeepInv, ReportSound

\* A session that ends, and what it reports when nobody disturbed it.
LEMMA KeeperEnds ==
  ASSUME UpkeepInv, NEW s \in Processes, keeper[s].pc # "idle", NEW end, Upkeep!End(s, end),
         StoreTyped', \A t \in Processes \ {s} : lock = t => lock' = t,
         commits' = commits,
         ~commits.discarded => \A r \in Good : index'.rev >= r /\ r \in journal'.revs,
         keeper[s].clean /\ report' = [end |-> end, before |-> keeper[s].before] => Upkeep!UpkeepSound'
  PROVE  UpkeepInv'
<1>1. keeper' = [keeper EXCEPT ![s] = Upkeep!Idle]
  BY DEF Upkeep!End
<1>2. keeper'[s] = Upkeep!Idle /\ \A t \in Processes \ {s} : keeper'[t] = keeper[t]
  BY <1>1 DEF UpkeepInv, KeepersTyped
<1>3. KeeperKnown(s)' /\ Soloist(s)'
  BY <1>2, IdleKeeper DEF KeeperKnown, Soloist, Snapped, Upkeep!Locked
<1>4. \A r : RevKnown(Upkeep!Idle, r)
  BY IdleKeeper DEF RevKnown, Snapped
<1>5. ReportSound'
  <2>1. CASE keeper[s].clean
    <3>1. \A t \in Processes : keeper'[t].pc = "idle"
      BY <1>2, <2>1, IdleKeeper DEF UpkeepInv, Soloist
    <3> QED
      BY <2>1, <3>1 DEF Upkeep!End, ReportSound
  <2>2. CASE ~keeper[s].clean
    BY <2>2 DEF Upkeep!End, Upkeep!Ended, ReportSound
  <2> QED
    BY <2>1, <2>2
<1> QED
  BY <1>1, <1>3, <1>4, <1>5, IdleKeeper, KeeperMoves

\* A session that changes its step alone.
LEMMA KeeperSteps ==
  ASSUME UpkeepInv, NEW s \in Processes, NEW pc \in Unsnapped \cup Snapped, Upkeep!Goto(s, pc)
  PROVE  \E x \in KeeperSession :
           /\ keeper' = [keeper EXCEPT ![s] = x] /\ keeper'[s] = x /\ report' = report
           /\ x.pc = pc /\ x.mem = keeper[s].mem /\ x.roots = keeper[s].roots /\ x.force = keeper[s].force
           /\ x.snap = keeper[s].snap /\ x.before = keeper[s].before /\ x.clean = keeper[s].clean
           /\ \A t \in Processes \ {s} : keeper'[t] = keeper[t]
<1> DEFINE x == [keeper[s] EXCEPT !.pc = pc]
<1>1. keeper[s] \in KeeperSession /\ keeper \in [Processes -> KeeperSession]
  BY DEF UpkeepInv, KeepersTyped
<1>2. keeper' = [keeper EXCEPT ![s] = x] /\ report' = report
  BY DEF Upkeep!Goto
<1>3. /\ x \in KeeperSession
      /\ x.pc = pc /\ x.mem = keeper[s].mem /\ x.roots = keeper[s].roots /\ x.force = keeper[s].force
      /\ x.snap = keeper[s].snap /\ x.before = keeper[s].before /\ x.clean = keeper[s].clean
  BY <1>1 DEF KeeperSession
<1> HIDE DEF x
<1>4. keeper'[s] = x /\ \A t \in Processes \ {s} : keeper'[t] = keeper[t]
  BY <1>1, <1>2
<1> QED
  BY <1>2, <1>3, <1>4

\* init: a missing index is made ...
LEMMA EnsureStoreKeeps == ASSUME UpkeepInv, NEW s \in Processes, Upkeep!EnsureStore(s) PROVE UpkeepInv'
<1>1. /\ keeper[s].pc = "look" /\ Upkeep!Goto(s, "read")
      /\ index' = IF index.st = "missing" THEN [Upkeep!BootstrapIndex EXCEPT !.roots = "none"] ELSE index
      /\ UNCHANGED <<config, schema, journal, artifact, lock, commits, upkeep>>
  BY DEF Upkeep!EnsureStore, Upkeep!At
<1>2. index' \in Idx /\ index'.rev = index.rev
  BY <1>1, BootstrapTyped DEF UpkeepInv, StoreTyped, Idx
<1>3. StoreTyped'
  BY <1>1, <1>2 DEF UpkeepInv, StoreTyped
<1>4. PICK x \in KeeperSession :
        /\ keeper' = [keeper EXCEPT ![s] = x] /\ keeper'[s] = x /\ report' = report
        /\ x.pc = "read" /\ x.clean = keeper[s].clean /\ \A t \in Processes \ {s} : keeper'[t] = keeper[t]
  <2>1. "read" \in Unsnapped \cup Snapped
    BY DEF Unsnapped
  <2> QED
    BY <1>1, <2>1, KeeperSteps
<1>5. KeeperKnown(s)' /\ Soloist(s)'
  BY <1>1, <1>4 DEF UpkeepInv, KeeperKnown, Soloist, Snapped, Upkeep!Locked
<1>6. \A r : RevKnown(x, r)
  BY <1>4 DEF RevKnown, Snapped
<1> QED
  BY <1>1, <1>2, <1>3, <1>4, <1>5, <1>6, KeeperMoves, NothingReported DEF UpkeepInv, CommitsKept

\* ... the index is read, and rebuilt without its entries with --force ...
LEMMA InitReadsKeeps == ASSUME UpkeepInv, NEW s \in Processes, Upkeep!InitReads(s) PROVE UpkeepInv'
<1> DEFINE read == IF Upkeep!Readable(index) THEN index ELSE Upkeep!BootstrapIndex
           x == [keeper[s] EXCEPT !.pc = "index", !.mem = [read EXCEPT !.roots = Upkeep!RootsFor(keeper[s].roots, read)]]
<1>1. /\ keeper[s].pc = "read" /\ UNCHANGED <<index, config, schema, journal, artifact, lock, commits, upkeep, report>>
      /\ keeper[s] \in KeeperSession /\ index \in Idx /\ config \in Cfg
      /\ ~commits.discarded => \A r \in Good : index.rev >= r /\ r \in journal.revs /\ r \in Nat \ {0}
  BY DEF Upkeep!InitReads, Upkeep!At, Upkeep!store, UpkeepInv, KeepersTyped, StoreTyped, CommitsKept, Good
<1>2. StoreTyped' /\ ReportSound'
  BY <1>1, NothingReported DEF UpkeepInv, StoreTyped
<1>3. CASE keeper' = [keeper EXCEPT ![s] = Upkeep!Idle]
  <2>1. keeper'[s] = Upkeep!Idle
    BY <1>3 DEF UpkeepInv, KeepersTyped
  <2>2. KeeperKnown(s)' /\ Soloist(s)' /\ \A r : RevKnown(Upkeep!Idle, r)
    BY <2>1, IdleKeeper DEF KeeperKnown, Soloist, Snapped, Upkeep!Locked, RevKnown
  <2> QED
    BY <1>1, <1>2, <1>3, <2>2, IdleKeeper, KeeperMoves
<1>4. CASE ~(index.st = "corrupt" /\ ~keeper[s].force) /\ keeper' = [keeper EXCEPT ![s] = x]
  <2>1. read \in Idx /\ read.st = "ok" /\ (read = index \/ (read.rev = 0 /\ index.st # "ok"))
    BY <1>1, BootstrapTyped DEF Upkeep!Readable
  <2>2. Upkeep!RootsFor(keeper[s].roots, read) \in Roots \cup {"none"}
    BY <1>1, <2>1, GovernanceAssumption
    DEF GovernanceAssumption, Upkeep!UpkeepAssumption, Upkeep!RootsFor, KeeperSession, Cfg, Idx
  <2> DEFINE m == [read EXCEPT !.roots = Upkeep!RootsFor(keeper[s].roots, read)]
  <2>3. m \in Idx /\ m.st = "ok" /\ m.rev = read.rev
    BY <2>1, <2>2 DEF Idx
  <2> HIDE DEF m, read
  <2>4. x \in KeeperSession /\ x.pc = "index" /\ x.mem = m /\ x.force = keeper[s].force /\ x.clean = keeper[s].clean
    BY <1>1, <2>3 DEF KeeperSession, Unsnapped, m
  <2> HIDE DEF x
  <2>5. keeper'[s] = x /\ \A t \in Processes \ {s} : keeper'[t] = keeper[t]
    BY <1>4, <2>4 DEF UpkeepInv, KeepersTyped
  <2>6. KeeperKnown(s)' /\ Soloist(s)'
    BY <1>1, <2>3, <2>4, <2>5 DEF UpkeepInv, KeeperKnown, Soloist, Snapped, Upkeep!Locked
  <2>7. ~commits.discarded => \A r \in Good : RevKnown(x, r)
    <3> SUFFICES ASSUME ~commits.discarded, NEW r \in Good PROVE RevKnown(x, r)
      OBVIOUS
    <3>1. index.rev >= r /\ r \in Nat \ {0}
      BY <1>1
    <3>2. index.st # "missing"
      BY <1>1, <3>1 DEF Idx
    <3>3. index.st \in {"ok", "corrupt"}
      BY <1>1, <3>2 DEF Idx
    <3>4. m.rev >= r \/ (m.rev = 0 /\ keeper[s].force)
      BY <1>4, <2>1, <2>3, <3>1, <3>3
    <3> QED
      BY <2>4, <3>4 DEF RevKnown, Snapped
  <2> QED
    BY <1>1, <1>2, <1>4, <2>4, <2>6, <2>7, KeeperMoves
<1> QED
  BY <1>3, <1>4 DEF Upkeep!InitReads

\* ... and written: index, configuration, schema version.
LEMMA InitWritesIndexKeeps == ASSUME UpkeepInv, NEW s \in Processes, Upkeep!InitWritesIndex(s) PROVE UpkeepInv'
<1>1. /\ keeper[s].pc = "index" /\ Upkeep!Goto(s, "config") /\ index' = keeper[s].mem
      /\ commits' = [commits EXCEPT !.discarded = @ \/ (keeper[s].force /\ keeper[s].mem.rev = 0)]
      /\ UNCHANGED <<config, schema, journal, artifact, lock, upkeep>>
      /\ keeper[s] \in KeeperSession /\ keeper[s].mem.st = "ok"
  BY DEF Upkeep!InitWritesIndex, Upkeep!At, UpkeepInv, KeepersTyped, KeeperKnown
<1>2. /\ commits' \in [committed : SUBSET (Nat \ {0}), unguarded : SUBSET Nat, discarded : BOOLEAN]
      /\ commits'.committed = commits.committed /\ commits'.unguarded = commits.unguarded
      /\ commits'.discarded <=> commits.discarded \/ (keeper[s].force /\ keeper[s].mem.rev = 0)
  BY <1>1 DEF UpkeepInv, StoreTyped, KeeperSession
<1>3. StoreTyped'
  BY <1>1, <1>2 DEF UpkeepInv, StoreTyped, KeeperSession
<1>4. PICK x \in KeeperSession :
        /\ keeper' = [keeper EXCEPT ![s] = x] /\ keeper'[s] = x /\ report' = report
        /\ x.pc = "config" /\ x.mem = keeper[s].mem /\ x.clean = keeper[s].clean
        /\ \A t \in Processes \ {s} : keeper'[t] = keeper[t]
  <2>1. "config" \in Unsnapped \cup Snapped
    BY DEF Unsnapped
  <2> QED
    BY <1>1, <2>1, KeeperSteps
<1>5. KeeperKnown(s)' /\ Soloist(s)'
  BY <1>1, <1>4 DEF UpkeepInv, KeeperKnown, Soloist, Snapped, Upkeep!Locked
<1>6. ~commits'.discarded =>
        ~commits.discarded /\ \A r \in Good : index'.rev >= r /\ r \in journal'.revs /\ RevKnown(x, r)
  <2>1. \A r : RevKnown(x, r)
    BY <1>4 DEF RevKnown, Snapped
  <2>2. ~commits.discarded => \A r \in Good : RevKnown(keeper[s], r) /\ r \in journal.revs
    BY DEF UpkeepInv, CommitsKept
  <2> QED
    BY <1>1, <1>2, <2>1, <2>2 DEF RevKnown
<1> QED
  BY <1>1, <1>2, <1>3, <1>4, <1>5, <1>6, KeeperMoves, NothingReported

LEMMA InitWritesConfigKeeps == ASSUME UpkeepInv, NEW s \in Processes, Upkeep!InitWritesConfig(s) PROVE UpkeepInv'
<1>1. /\ keeper[s].pc = "config" /\ Upkeep!Goto(s, "schema") /\ config' = [st |-> "ok", roots |-> keeper[s].mem.roots]
      /\ UNCHANGED <<index, schema, journal, artifact, lock, commits, upkeep>>
      /\ keeper[s] \in KeeperSession
  BY DEF Upkeep!InitWritesConfig, Upkeep!At, UpkeepInv, KeepersTyped
<1>2. config' \in Cfg
  BY <1>1 DEF Cfg, KeeperSession, Idx
<1>3. StoreTyped'
  BY <1>1, <1>2 DEF UpkeepInv, StoreTyped
<1>4. PICK x \in KeeperSession :
        /\ keeper' = [keeper EXCEPT ![s] = x] /\ keeper'[s] = x /\ report' = report
        /\ x.pc = "schema" /\ x.mem = keeper[s].mem /\ x.clean = keeper[s].clean
        /\ \A t \in Processes \ {s} : keeper'[t] = keeper[t]
  <2>1. "schema" \in Unsnapped \cup Snapped
    BY DEF Unsnapped
  <2> QED
    BY <1>1, <2>1, KeeperSteps
<1>5. KeeperKnown(s)' /\ Soloist(s)'
  BY <1>1, <1>4 DEF UpkeepInv, KeeperKnown, Soloist, Snapped, Upkeep!Locked
<1>6. \A r : RevKnown(x, r)
  BY <1>4 DEF RevKnown, Snapped
<1> QED
  BY <1>1, <1>3, <1>4, <1>5, <1>6, KeeperMoves, NothingReported DEF UpkeepInv, CommitsKept

LEMMA InitWritesSchemaKeeps == ASSUME UpkeepInv, NEW s \in Processes, Upkeep!InitWritesSchema(s) PROVE UpkeepInv'
<1>1. /\ keeper[s].pc = "schema" /\ Upkeep!End(s, "initialized") /\ schema' = keeper[s].mem.ver
      /\ UNCHANGED <<index, config, journal, artifact, lock, commits, upkeep>>
      /\ keeper[s] \in KeeperSession /\ keeper[s].mem.st = "ok"
  BY DEF Upkeep!InitWritesSchema, Upkeep!At, Upkeep!Format, UpkeepInv, KeepersTyped, KeeperKnown
<1>2. keeper[s].mem.ver \in 1..2
  BY <1>1 DEF KeeperSession, Idx
<1>3. StoreTyped'
  BY <1>1, <1>2 DEF UpkeepInv, StoreTyped
<1>4. ASSUME keeper[s].clean, report' = [end |-> "initialized", before |-> keeper[s].before] PROVE Upkeep!UpkeepSound'
  <2>1. index = keeper[s].mem /\ config = [st |-> "ok", roots |-> keeper[s].mem.roots]
    BY <1>1, <1>4 DEF UpkeepInv, Soloist
  <2>2. Upkeep!Findings' = {}
    BY <1>1, <1>2, <2>1 DEF Upkeep!Findings, Upkeep!Drift, Upkeep!Configured, Upkeep!Readable
  <2> QED
    BY <1>4, <2>2 DEF Upkeep!UpkeepSound
<1> QED
  BY <1>1, <1>3, <1>4, KeeperEnds DEF UpkeepInv, CommitsKept

\* Somebody else works on the store: what is left of a session's knowledge.
LEMMA DisturbedOnly ==
  ASSUME UpkeepInv, NEW t \in Processes
  PROVE  /\ Upkeep!Disturbed[t] \in KeeperSession /\ Upkeep!Disturbed[t].pc = keeper[t].pc
         /\ keeper[t].pc # "idle" =>
              /\ ~Upkeep!Disturbed[t].clean
              /\ Upkeep!Disturbed[t].mem = keeper[t].mem /\ Upkeep!Disturbed[t].snap = keeper[t].snap
              /\ Upkeep!Disturbed[t].force = keeper[t].force
<1> DEFINE y == [keeper[t] EXCEPT !.clean = FALSE, !.before = <<>>]
<1>1. keeper[t] \in KeeperSession
  BY DEF UpkeepInv, KeepersTyped
<1>2. /\ y \in KeeperSession /\ y.pc = keeper[t].pc /\ ~y.clean /\ y.mem = keeper[t].mem
      /\ y.snap = keeper[t].snap /\ y.force = keeper[t].force
  BY <1>1 DEF KeeperSession
<1>3. Upkeep!Disturbed[t] = IF keeper[t].pc = "idle" THEN Upkeep!Idle ELSE y
  BY DEF Upkeep!Disturbed
<1> HIDE DEF y
<1> QED
  BY <1>2, <1>3, IdleKeeper

LEMMA DisturbedKnows ==
  ASSUME UpkeepInv, NEW t \in Processes, keeper'[t] = Upkeep!Disturbed[t], lock' = lock
  PROVE  /\ KeeperKnown(t)' /\ Soloist(t)'
         /\ \A r : RevKnown(keeper[t], r) => RevKnown(keeper'[t], r)
<1>1. CASE keeper[t].pc = "idle"
  BY <1>1, DisturbedOnly DEF KeeperKnown, Soloist, RevKnown, Snapped, Upkeep!Locked
<1>2. CASE keeper[t].pc # "idle"
  <2>1. /\ keeper'[t].pc = keeper[t].pc /\ ~keeper'[t].clean /\ keeper'[t].mem = keeper[t].mem
        /\ keeper'[t].snap = keeper[t].snap /\ keeper'[t].force = keeper[t].force
    BY <1>2, DisturbedOnly
  <2>2. KeeperKnown(t)'
    BY <2>1 DEF UpkeepInv, KeeperKnown
  <2>3. Soloist(t)'
    BY <2>1 DEF Soloist
  <2>4. \A r : RevKnown(keeper[t], r) => RevKnown(keeper'[t], r)
    BY <2>1 DEF RevKnown
  <2> QED
    BY <2>2, <2>3, <2>4
<1> QED
  BY <1>1, <1>2

\* A command begins: its session is a soloist if no other is at work.
LEMMA KeeperStarts ==
  ASSUME UpkeepInv, NEW s \in Processes, NEW step \in KeeperSession, Upkeep!Begin(s, step),
         step.pc \in {"look", "snapshot"}, step.clean,
         step.pc = "snapshot" => step.mem = index /\ index.st = "ok",
         UNCHANGED <<index, config, schema, journal, artifact, lock, commits>>
  PROVE  UpkeepInv'
<1> DEFINE now == <<index, config, schema, journal, artifact>>
           x == IF Upkeep!Alone(s) THEN [step EXCEPT !.before = now] ELSE [step EXCEPT !.clean = FALSE]
<1>1. /\ keeper' = [t \in Processes |-> IF t # s THEN Upkeep!Disturbed[t] ELSE x]
      /\ keeper[s].pc = "idle" /\ report' = Upkeep!Ended /\ upkeep' = [upkeep EXCEPT !.commands = @ + 1]
  BY DEF Upkeep!Begin, Upkeep!store
<1>2. now \in Held /\ now[1] = index /\ now[2] = config /\ now[3] = schema /\ now[4] = journal /\ now[5] = artifact
  BY DEF UpkeepInv, StoreTyped, Held
<1> HIDE DEF now
<1>3. /\ x \in KeeperSession /\ x.pc = step.pc /\ x.mem = step.mem
      /\ Upkeep!Alone(s) => x.before = now
      /\ ~Upkeep!Alone(s) => ~x.clean
  BY <1>2 DEF KeeperSession
<1> HIDE DEF x
<1>4. keeper'[s] = x /\ \A t \in Processes \ {s} : keeper'[t] = Upkeep!Disturbed[t]
  BY <1>1
<1>5. upkeep' \in [commands : Nat, commits : Nat, faults : Nat] /\ upkeep'.commits = upkeep.commits
  BY <1>1 DEF UpkeepInv, StoreTyped
<1>6. StoreTyped'
  BY <1>5 DEF UpkeepInv, StoreTyped
<1>7. KeepersTyped'
  BY <1>1, <1>3, DisturbedOnly DEF KeepersTyped
<1>8. \A t \in Processes \ {s} :
        /\ KeeperKnown(t)' /\ Soloist(t)'
        /\ \A r : RevKnown(keeper[t], r) => RevKnown(keeper'[t], r)
  BY <1>4, DisturbedKnows
<1>9. KeeperKnown(s)'
  BY <1>3, <1>4 DEF KeeperKnown, Snapped, Upkeep!Locked, UpkeepInv
<1>10. Soloist(s)'
  <2>1. CASE Upkeep!Alone(s)
    <3>1. \A t \in Processes \ {s} : keeper'[t].pc = "idle"
      BY <1>4, <2>1, DisturbedOnly DEF Upkeep!Alone
    <3>2. CASE step.pc = "look"
      BY <1>3, <1>4, <3>1, <3>2 DEF Soloist, Snapped
    <3>3. CASE step.pc = "snapshot"
      BY <1>2, <1>3, <1>4, <2>1, <3>1, <3>3 DEF Soloist, Snapped
    <3> QED
      BY <3>2, <3>3
  <2>2. CASE ~Upkeep!Alone(s)
    BY <1>3, <1>4, <2>2 DEF Soloist
  <2> QED
    BY <2>1, <2>2
<1>11. CommitsKept'
  <2>1. ~commits.discarded => \A r \in Good : RevKnown(x, r)
    BY <1>3 DEF UpkeepInv, CommitsKept, RevKnown, Snapped
  <2> QED
    BY <1>4, <1>8, <2>1 DEF UpkeepInv, CommitsKept, Good
<1>12. ReportSound'
  BY <1>1 DEF ReportSound, Upkeep!Ended
<1> QED
  BY <1>6, <1>7, <1>8, <1>9, <1>10, <1>11, <1>12 DEF UpkeepInv

LEMMA InitBeginsKeeps == ASSUME UpkeepInv, NEW s \in Processes, Upkeep!InitBegins(s) PROVE UpkeepInv'
<1>1. PICK force \in BOOLEAN, given \in Roots \cup {"none"} :
        /\ Upkeep!Begin(s, [Upkeep!Idle EXCEPT !.pc = "look", !.force = force, !.roots = given])
        /\ UNCHANGED <<index, config, schema, journal, artifact, lock, commits>>
  BY DEF Upkeep!InitBegins, Upkeep!store
<1> DEFINE step == [Upkeep!Idle EXCEPT !.pc = "look", !.force = force, !.roots = given]
<1>2. step \in KeeperSession /\ step.pc = "look" /\ step.clean
  BY IdleKeeper DEF KeeperSession, Unsnapped
<1> HIDE DEF step
<1>3. Upkeep!Begin(s, step)
  BY <1>1 DEF step
<1> QED
  BY <1>1, <1>2, <1>3, KeeperStarts

LEMMA MigrateBeginsKeeps == ASSUME UpkeepInv, NEW s \in Processes, Upkeep!MigrateBegins(s) PROVE UpkeepInv'
<1> DEFINE step == [Upkeep!Idle EXCEPT !.pc = "snapshot", !.mem = index]
<1>1. /\ Upkeep!Begin(s, step) /\ index.st = "ok"
      /\ UNCHANGED <<index, config, schema, journal, artifact, lock, commits>>
  BY DEF Upkeep!MigrateBegins, Upkeep!Readable, Upkeep!store
<1>2. step \in KeeperSession /\ step.pc = "snapshot" /\ step.clean /\ step.mem = index
  BY IdleKeeper DEF KeeperSession, Unsnapped, UpkeepInv, StoreTyped
<1> HIDE DEF step
<1> QED
  BY <1>1, <1>2, KeeperStarts

\* A commit is newer than any before it; at a good moment nobody may write over it.
LEMMA CommitKeeps == ASSUME UpkeepInv, Upkeep!Commit PROVE UpkeepInv'
<1> DEFINE rev == upkeep.commits + 1
<1>1. /\ lock = "none" /\ lock' = lock /\ index.st = "ok" /\ index' = [index EXCEPT !.rev = rev]
      /\ artifact' = [rev |-> rev, ver |-> index.ver]
      /\ journal' = [journal EXCEPT !.revs = @ \cup {rev}]
      /\ commits' = [commits EXCEPT !.committed = @ \cup {rev},
                                    !.unguarded = IF Upkeep!Unguarded THEN @ \cup {rev} ELSE @]
      /\ keeper' = Upkeep!Disturbed /\ report' = Upkeep!Ended
      /\ upkeep' = [upkeep EXCEPT !.commits = @ + 1]
      /\ UNCHANGED <<config, schema>>
  BY DEF Upkeep!Commit, Upkeep!Nobody, Upkeep!Readable
<1>2. /\ rev \in Nat \ {0} /\ upkeep.commits \in Nat
      /\ upkeep' \in [commands : Nat, commits : Nat, faults : Nat] /\ upkeep'.commits = rev
      /\ index' \in Idx /\ index'.rev = rev /\ artifact' \in Fil /\ journal' \in Jrn
      /\ journal'.revs = journal.revs \cup {rev}
  BY <1>1 DEF UpkeepInv, StoreTyped, Idx, Fil, Jrn
<1>3. /\ commits' \in [committed : SUBSET (Nat \ {0}), unguarded : SUBSET Nat, discarded : BOOLEAN]
      /\ commits'.committed = commits.committed \cup {rev}
      /\ commits'.unguarded = IF Upkeep!Unguarded THEN commits.unguarded \cup {rev} ELSE commits.unguarded
      /\ commits'.discarded = commits.discarded
  BY <1>1, <1>2 DEF UpkeepInv, StoreTyped
<1> HIDE DEF rev
<1>4. \A r \in commits.committed : r \in Nat /\ r <= upkeep.commits
  BY DEF UpkeepInv, StoreTyped
<1>5. StoreTyped'
  <2>1. \A r \in commits'.committed : r <= upkeep'.commits
    BY <1>2, <1>3, <1>4 DEF rev
  <2> QED
    BY <1>1, <1>2, <1>3, <2>1 DEF UpkeepInv, StoreTyped
<1>6. \A t \in Processes : keeper'[t] = Upkeep!Disturbed[t]
  BY <1>1
<1>7. KeepersTyped'
  <2>1. keeper' = [t \in Processes |-> Upkeep!Disturbed[t]]
    BY <1>1 DEF Upkeep!Disturbed
  <2> QED
    BY <2>1, DisturbedOnly DEF KeepersTyped
<1>8. \A t \in Processes : /\ KeeperKnown(t)' /\ Soloist(t)'
                           /\ \A r : RevKnown(keeper[t], r) => RevKnown(keeper'[t], r)
  BY <1>1, <1>6, DisturbedKnows
<1>9. ReportSound'
  BY <1>1 DEF ReportSound, Upkeep!Ended
<1>10. CommitsKept'
  <2> SUFFICES ASSUME ~commits'.discarded, NEW r \in commits'.committed \ commits'.unguarded
               PROVE  /\ index'.rev >= r /\ r \in journal'.revs
                      /\ \A t \in Processes : RevKnown(keeper'[t], r)
    BY DEF CommitsKept, Good
  <2>1. CASE r = rev
    <3>1. ~Upkeep!Unguarded
      BY <1>3, <2>1
    <3>2. ASSUME NEW t \in Processes PROVE RevKnown(keeper'[t], r)
      <4>1. keeper'[t].pc = keeper[t].pc
        BY <1>6, DisturbedOnly
      <4>2. keeper[t].pc \notin {"index"} \cup Upkeep!Reading \cup Upkeep!Checking
        BY <3>1 DEF Upkeep!Unguarded
      <4>3. keeper[t].pc \notin Upkeep!Locked
        BY <1>1, GovernanceAssumption
        DEF GovernanceAssumption, Upkeep!UpkeepAssumption, UpkeepInv, KeeperKnown
      <4> QED
        BY <4>1, <4>2, <4>3 DEF RevKnown, Snapped, Upkeep!Reading, Upkeep!Checking, Upkeep!Locked
    <3> QED
      BY <1>2, <2>1, <3>2
  <2>2. CASE r # rev
    <3>1. r \in Good
      BY <1>3, <2>2 DEF Good
    <3>2. r \in Nat /\ r <= upkeep.commits
      BY <1>4, <3>1 DEF Good
    <3> QED
      BY <1>2, <1>3, <1>8, <3>1, <3>2 DEF UpkeepInv, CommitsKept, rev
  <2> QED
    BY <2>1, <2>2
<1> QED
  BY <1>5, <1>7, <1>8, <1>9, <1>10 DEF UpkeepInv

LEMMA DamageKeeps == ASSUME UpkeepInv, Upkeep!Damage PROVE UpkeepInv'
<1>1. /\ UNCHANGED <<journal, artifact, lock>> /\ keeper' = Upkeep!Disturbed /\ report' = Upkeep!Ended
      /\ upkeep' = [upkeep EXCEPT !.faults = @ + 1]
  BY DEF Upkeep!Damage
<1>2. /\ index' \in Idx /\ config' \in Cfg /\ schema' \in 0..2
      /\ commits' \in [committed : SUBSET (Nat \ {0}), unguarded : SUBSET Nat, discarded : BOOLEAN]
      /\ commits'.committed = commits.committed /\ commits'.unguarded = commits.unguarded
      /\ ~commits'.discarded => ~commits.discarded /\ index' = index
  <2>1. CASE /\ index.st = "ok" /\ index' \in {Upkeep!NoIndex, [index EXCEPT !.st = "corrupt"]}
             /\ commits' = [commits EXCEPT !.discarded = TRUE] /\ UNCHANGED <<config, schema>>
    <3>1. index' \in Idx
      BY <2>1, IdleKeeper DEF UpkeepInv, StoreTyped, Idx
    <3>2. /\ commits' \in [committed : SUBSET (Nat \ {0}), unguarded : SUBSET Nat, discarded : BOOLEAN]
          /\ commits'.committed = commits.committed /\ commits'.unguarded = commits.unguarded /\ commits'.discarded
      BY <2>1 DEF UpkeepInv, StoreTyped
    <3> QED
      BY <2>1, <3>1, <3>2 DEF UpkeepInv, StoreTyped
  <2>2. CASE /\ config.st = "ok" /\ config' \in {Upkeep!NoConfig, [config EXCEPT !.st = "corrupt"]}
             /\ UNCHANGED <<index, schema, commits>>
    <3>1. config' \in Cfg
      BY <2>2 DEF UpkeepInv, StoreTyped, Cfg, Upkeep!NoConfig
    <3> QED
      BY <2>2, <3>1 DEF UpkeepInv, StoreTyped
  <2>3. CASE schema' = 0 /\ UNCHANGED <<index, config, commits>>
    BY <2>3 DEF UpkeepInv, StoreTyped
  <2> QED
    BY <2>1, <2>2, <2>3 DEF Upkeep!Damage
<1>3. upkeep' \in [commands : Nat, commits : Nat, faults : Nat] /\ upkeep'.commits = upkeep.commits
  BY <1>1 DEF UpkeepInv, StoreTyped
<1>4. StoreTyped'
  BY <1>1, <1>2, <1>3 DEF UpkeepInv, StoreTyped
<1>5. KeepersTyped'
  <2>1. keeper' = [t \in Processes |-> Upkeep!Disturbed[t]]
    BY <1>1 DEF Upkeep!Disturbed
  <2> QED
    BY <2>1, DisturbedOnly DEF KeepersTyped
<1>6. \A t \in Processes : /\ KeeperKnown(t)' /\ Soloist(t)'
                           /\ \A r : RevKnown(keeper[t], r) => RevKnown(keeper'[t], r)
  BY <1>1, DisturbedKnows
<1>7. CommitsKept'
  BY <1>1, <1>2, <1>6 DEF UpkeepInv, CommitsKept, Good
<1>8. ReportSound'
  BY <1>1 DEF ReportSound, Upkeep!Ended
<1> QED
  BY <1>4, <1>5, <1>6, <1>7, <1>8 DEF UpkeepInv

\* A session dies: its lock goes with it.
LEMMA DieKeeps == ASSUME UpkeepInv, NEW s \in Processes, Upkeep!Die(s) PROVE UpkeepInv'
<1>1. /\ keeper[s].pc # "idle" /\ keeper' = [keeper EXCEPT ![s] = Upkeep!Idle]
      /\ lock' = (IF lock = s THEN "none" ELSE lock) /\ report' = Upkeep!Ended
      /\ index' \in {index, [index EXCEPT !.st = "corrupt"]}
      /\ index' = index \/ keeper[s].pc \in {"restore", "restoreLocked"}
      /\ upkeep' = [upkeep EXCEPT !.faults = @ + 1]
      /\ UNCHANGED <<config, schema, journal, artifact, commits>>
  BY DEF Upkeep!Die, Upkeep!Nobody
<1>2. index' \in Idx /\ index'.rev = index.rev
  BY <1>1 DEF UpkeepInv, StoreTyped, Idx
<1>3. upkeep' \in [commands : Nat, commits : Nat, faults : Nat] /\ upkeep'.commits = upkeep.commits
  BY <1>1 DEF UpkeepInv, StoreTyped
<1>4. StoreTyped' /\ ReportSound'
  BY <1>1, <1>2, <1>3 DEF UpkeepInv, StoreTyped, ReportSound, Upkeep!Ended
<1>5. keeper'[s] = Upkeep!Idle
  BY <1>1 DEF UpkeepInv, KeepersTyped
<1>6. KeeperKnown(s)' /\ Soloist(s)' /\ \A r : RevKnown(Upkeep!Idle, r)
  BY <1>5, IdleKeeper DEF KeeperKnown, Soloist, Snapped, Upkeep!Locked, RevKnown
<1>7. ~commits.discarded => \A r \in Good : index'.rev >= r /\ r \in journal'.revs
  BY <1>1, <1>2 DEF UpkeepInv, CommitsKept
<1>8. \A t \in Processes \ {s} : lock = t => lock' = t
  BY <1>1
<1> QED
  BY <1>1, <1>4, <1>6, <1>7, <1>8, IdleKeeper, KeeperMoves

\* A migration sets the store aside: the index ...
LEMMA SnapshotIndexKeeps == ASSUME UpkeepInv, NEW s \in Processes, Upkeep!SnapshotIndex(s) PROVE UpkeepInv'
<1> DEFINE now == <<index, config, schema, journal, artifact>>
           x == [keeper[s] EXCEPT !.pc = "copy", !.snap = now]
<1>1. /\ keeper[s].pc = "snapshot"
      /\ UNCHANGED <<index, config, schema, journal, artifact, lock, commits, upkeep, report>>
      /\ keeper[s] \in KeeperSession
  BY DEF Upkeep!SnapshotIndex, Upkeep!At, Upkeep!store, UpkeepInv, KeepersTyped
<1>2. StoreTyped' /\ ReportSound'
  BY <1>1, NothingReported DEF UpkeepInv, StoreTyped
<1>3. CASE index.st = "missing"
  <2>1. keeper' = [keeper EXCEPT ![s] = Upkeep!Idle]
    BY <1>3 DEF Upkeep!SnapshotIndex
  <2>2. keeper'[s] = Upkeep!Idle
    BY <2>1 DEF UpkeepInv, KeepersTyped
  <2>3. KeeperKnown(s)' /\ Soloist(s)' /\ \A r : RevKnown(Upkeep!Idle, r)
    BY <2>2, IdleKeeper DEF KeeperKnown, Soloist, Snapped, Upkeep!Locked, RevKnown
  <2> QED
    BY <1>1, <1>2, <2>1, <2>3, IdleKeeper, KeeperMoves DEF UpkeepInv, CommitsKept
<1>4. CASE index.st # "missing"
  <2>1. keeper' = [keeper EXCEPT ![s] = x]
    BY <1>4 DEF Upkeep!SnapshotIndex
  <2>2. now \in Held /\ now[1] = index /\ now[2] = config /\ now[3] = schema /\ now[4] = journal /\ now[5] = artifact
    BY DEF UpkeepInv, StoreTyped, Held
  <2> HIDE DEF now
  <2>3. /\ x \in KeeperSession /\ x.pc = "copy" /\ x.snap = now /\ x.mem = keeper[s].mem
        /\ x.before = keeper[s].before /\ x.clean = keeper[s].clean
    BY <1>1, <2>2 DEF KeeperSession, Snapped
  <2> HIDE DEF x
  <2>4. keeper'[s] = x /\ \A t \in Processes \ {s} : keeper'[t] = keeper[t]
    BY <2>1, <2>3 DEF UpkeepInv, KeepersTyped
  <2>5. KeeperKnown(s)'
    BY <1>1, <2>2, <2>3, <2>4 DEF UpkeepInv, KeeperKnown, Upkeep!Locked
  <2>6. Soloist(s)'
    <3> SUFFICES ASSUME keeper[s].clean PROVE Soloist(s)'
      BY <2>3, <2>4 DEF Soloist
    <3>1. /\ \A t \in Processes \ {s} : keeper[t].pc = "idle"
          /\ keeper[s].before \in Held /\ config = keeper[s].before[2]
          /\ keeper[s].mem = keeper[s].before[1] /\ index = keeper[s].before[1]
          /\ journal = keeper[s].before[4] /\ schema = keeper[s].before[3] /\ artifact = keeper[s].before[5]
      BY <1>1 DEF UpkeepInv, Soloist, Snapped
    <3> QED
      BY <1>1, <2>2, <2>3, <2>4, <3>1 DEF Soloist, Snapped
  <2>7. ~commits.discarded => \A r \in Good : RevKnown(x, r)
    BY <1>1, <2>2, <2>3 DEF UpkeepInv, CommitsKept, RevKnown, Snapped
  <2> QED
    BY <1>1, <1>2, <2>1, <2>3, <2>5, <2>6, <2>7, KeeperMoves DEF UpkeepInv, CommitsKept
<1> QED
  BY <1>3, <1>4

\* ... and then the rest of it.
LEMMA SnapshotRestKeeps == ASSUME UpkeepInv, NEW s \in Processes, Upkeep!SnapshotRest(s) PROVE UpkeepInv'
<1> DEFINE now == <<keeper[s].snap[1], config, schema, journal, artifact>>
           x == [keeper[s] EXCEPT !.pc = "migrator", !.snap = now]
<1>1. /\ keeper[s].pc = "copy" /\ keeper' = [keeper EXCEPT ![s] = x]
      /\ UNCHANGED <<index, config, schema, journal, artifact, lock, commits, upkeep, report>>
      /\ keeper[s] \in KeeperSession /\ keeper[s].snap \in Held
  BY DEF Upkeep!SnapshotRest, Upkeep!At, Upkeep!store, UpkeepInv, KeepersTyped, KeeperKnown, Snapped
<1>2. StoreTyped' /\ ReportSound'
  BY <1>1, NothingReported DEF UpkeepInv, StoreTyped
<1>3. /\ now \in Held /\ now[1] = keeper[s].snap[1] /\ now[2] = config /\ now[3] = schema
      /\ now[4] = journal /\ now[5] = artifact
  BY <1>1 DEF UpkeepInv, StoreTyped, Held
<1> HIDE DEF now
<1>4. /\ x \in KeeperSession /\ x.pc = "migrator" /\ x.snap = now /\ x.mem = keeper[s].mem
      /\ x.before = keeper[s].before /\ x.clean = keeper[s].clean
  BY <1>1, <1>3 DEF KeeperSession, Snapped
<1> HIDE DEF x
<1>5. keeper'[s] = x /\ \A t \in Processes \ {s} : keeper'[t] = keeper[t]
  BY <1>1, <1>4 DEF UpkeepInv, KeepersTyped
<1>6. KeeperKnown(s)'
  BY <1>1, <1>3, <1>4, <1>5 DEF UpkeepInv, KeeperKnown, Upkeep!Locked
<1>7. Soloist(s)'
  <2> SUFFICES ASSUME keeper[s].clean PROVE Soloist(s)'
    BY <1>4, <1>5 DEF Soloist
  <2>1. /\ \A t \in Processes \ {s} : keeper[t].pc = "idle"
        /\ keeper[s].before \in Held /\ config = keeper[s].before[2] /\ keeper[s].snap[1] = keeper[s].before[1]
        /\ keeper[s].mem = keeper[s].before[1] /\ index = keeper[s].before[1]
        /\ journal = keeper[s].before[4] /\ schema = keeper[s].before[3] /\ artifact = keeper[s].before[5]
    BY <1>1 DEF UpkeepInv, Soloist, Snapped
  <2>2. now = keeper[s].before
    BY <1>3, <2>1 DEF Held
  <2> QED
    BY <1>1, <1>4, <1>5, <2>1, <2>2 DEF Soloist, Snapped
<1>8. ~commits.discarded => \A r \in Good : RevKnown(x, r)
  BY <1>1, <1>3, <1>4 DEF UpkeepInv, CommitsKept, RevKnown, Snapped
<1> QED
  BY <1>1, <1>2, <1>4, <1>6, <1>7, <1>8, KeeperMoves DEF UpkeepInv, CommitsKept

\* The migrator may have written the artifact anew; nothing else has changed yet.
LEMMA MigrateKeeps == ASSUME UpkeepInv, NEW s \in Processes, Upkeep!Migrate(s) PROVE UpkeepInv'
<1>1. PICK pc \in {"acquire", "restore"} :
        /\ keeper[s].pc = "migrator" /\ Upkeep!Goto(s, pc)
        /\ artifact' \in {artifact, [rev |-> keeper[s].mem.rev, ver |-> 2]}
        /\ UNCHANGED <<index, config, schema, journal, lock, commits, upkeep>>
  BY DEF Upkeep!Migrate, Upkeep!At, Upkeep!Supported
<1>2. PICK x \in KeeperSession :
        /\ keeper' = [keeper EXCEPT ![s] = x] /\ keeper'[s] = x /\ report' = report
        /\ x.pc = pc /\ x.mem = keeper[s].mem /\ x.snap = keeper[s].snap /\ x.before = keeper[s].before
        /\ x.clean = keeper[s].clean /\ \A t \in Processes \ {s} : keeper'[t] = keeper[t]
  BY <1>1, KeeperSteps DEF Snapped
<1>3. artifact' \in Fil
  BY <1>1 DEF UpkeepInv, StoreTyped, KeepersTyped, KeeperSession, Idx, Fil
<1>4. StoreTyped' /\ ReportSound'
  BY <1>1, <1>2, <1>3, NothingReported DEF UpkeepInv, StoreTyped
<1>5. KeeperKnown(s)'
  BY <1>1, <1>2 DEF UpkeepInv, KeeperKnown, Snapped, Upkeep!Locked
<1>6. Soloist(s)'
  BY <1>1, <1>2 DEF UpkeepInv, Soloist, Snapped
<1>7. ~commits.discarded => \A r \in Good : RevKnown(x, r)
  BY <1>1, <1>2 DEF UpkeepInv, CommitsKept, RevKnown, Snapped
<1> QED
  BY <1>1, <1>2, <1>4, <1>5, <1>6, <1>7, KeeperMoves DEF UpkeepInv, CommitsKept

LEMMA AcquireLockKeeps == ASSUME UpkeepInv, NEW s \in Processes, Upkeep!AcquireLock(s) PROVE UpkeepInv'
<1>1. /\ keeper[s].pc = "acquire" /\ Upkeep!Goto(s, "writeIndex") /\ lock \in {"none", s} /\ lock' = s
      /\ UNCHANGED <<index, config, schema, journal, artifact, commits, upkeep>>
  BY DEF Upkeep!AcquireLock, Upkeep!Acquire, Upkeep!Take, Upkeep!Nobody, Upkeep!At, Upkeep!store
<1>2. PICK x \in KeeperSession :
        /\ keeper' = [keeper EXCEPT ![s] = x] /\ keeper'[s] = x /\ report' = report
        /\ x.pc = "writeIndex" /\ x.mem = keeper[s].mem /\ x.snap = keeper[s].snap /\ x.before = keeper[s].before
        /\ x.clean = keeper[s].clean /\ \A t \in Processes \ {s} : keeper'[t] = keeper[t]
  <2>1. "writeIndex" \in Unsnapped \cup Snapped
    BY DEF Snapped
  <2> QED
    BY <1>1, <2>1, KeeperSteps
<1>3. StoreTyped' /\ ReportSound'
  BY <1>1, <1>2, NothingReported DEF UpkeepInv, StoreTyped
<1>4. KeeperKnown(s)'
  BY <1>1, <1>2 DEF UpkeepInv, KeeperKnown, Snapped, Upkeep!Locked
<1>5. Soloist(s)'
  BY <1>1, <1>2 DEF UpkeepInv, Soloist, Snapped
<1>6. ~commits.discarded => \A r \in Good : RevKnown(x, r)
  BY <1>1, <1>2 DEF UpkeepInv, CommitsKept, RevKnown, Snapped
<1>7. \A t \in Processes \ {s} : lock = t => lock' = t
  BY <1>1, GovernanceAssumption DEF GovernanceAssumption, Upkeep!UpkeepAssumption
<1> QED
  BY <1>1, <1>2, <1>3, <1>4, <1>5, <1>6, <1>7, KeeperMoves DEF UpkeepInv, CommitsKept

LEMMA LockTimesOutKeeps == ASSUME UpkeepInv, NEW s \in Processes, Upkeep!LockTimesOut(s) PROVE UpkeepInv'
<1>1. /\ keeper[s].pc = "acquire" /\ Upkeep!Goto(s, "restore")
      /\ UNCHANGED <<index, config, schema, journal, artifact, lock, commits, upkeep>>
  BY DEF Upkeep!LockTimesOut, Upkeep!At, Upkeep!store
<1>2. PICK x \in KeeperSession :
        /\ keeper' = [keeper EXCEPT ![s] = x] /\ keeper'[s] = x /\ report' = report
        /\ x.pc = "restore" /\ x.mem = keeper[s].mem /\ x.snap = keeper[s].snap /\ x.before = keeper[s].before
        /\ x.clean = keeper[s].clean /\ \A t \in Processes \ {s} : keeper'[t] = keeper[t]
  <2>1. "restore" \in Unsnapped \cup Snapped
    BY DEF Snapped
  <2> QED
    BY <1>1, <2>1, KeeperSteps
<1>3. StoreTyped' /\ ReportSound'
  BY <1>1, <1>2, NothingReported DEF UpkeepInv, StoreTyped
<1>4. KeeperKnown(s)'
  BY <1>1, <1>2 DEF UpkeepInv, KeeperKnown, Snapped, Upkeep!Locked
<1>5. Soloist(s)'
  BY <1>1, <1>2 DEF UpkeepInv, Soloist, Snapped
<1>6. ~commits.discarded => \A r \in Good : RevKnown(x, r)
  BY <1>1, <1>2 DEF UpkeepInv, CommitsKept, RevKnown, Snapped
<1> QED
  BY <1>1, <1>2, <1>3, <1>4, <1>5, <1>6, KeeperMoves DEF UpkeepInv, CommitsKept

\* Under the lock the index, the journal's entry and the schema version are written.
LEMMA MigrateIndexKeeps == ASSUME UpkeepInv, NEW s \in Processes, Upkeep!MigrateIndex(s) PROVE UpkeepInv'
<1>1. /\ keeper[s].pc = "writeIndex" /\ Upkeep!Goto(s, "logMigrate") /\ index' = [keeper[s].mem EXCEPT !.ver = 2]
      /\ UNCHANGED <<config, schema, journal, artifact, lock, commits, upkeep>>
      /\ keeper[s].mem \in Idx /\ keeper[s].mem.st = "ok"
  BY DEF Upkeep!MigrateIndex, Upkeep!At, Upkeep!Supported, UpkeepInv, KeepersTyped, KeeperSession, KeeperKnown
<1>2. PICK x \in KeeperSession :
        /\ keeper' = [keeper EXCEPT ![s] = x] /\ keeper'[s] = x /\ report' = report
        /\ x.pc = "logMigrate" /\ x.mem = keeper[s].mem /\ x.snap = keeper[s].snap /\ x.before = keeper[s].before
        /\ x.clean = keeper[s].clean /\ \A t \in Processes \ {s} : keeper'[t] = keeper[t]
  <2>1. "logMigrate" \in Unsnapped \cup Snapped
    BY DEF Snapped
  <2> QED
    BY <1>1, <2>1, KeeperSteps
<1>3. index' \in Idx /\ index'.rev = keeper[s].mem.rev
  BY <1>1 DEF Idx
<1>4. StoreTyped' /\ ReportSound'
  BY <1>1, <1>2, <1>3, NothingReported DEF UpkeepInv, StoreTyped
<1>5. KeeperKnown(s)'
  BY <1>1, <1>2 DEF UpkeepInv, KeeperKnown, Snapped, Upkeep!Locked
<1>6. Soloist(s)'
  BY <1>1, <1>2 DEF UpkeepInv, Soloist, Snapped
<1>7. ~commits.discarded => \A r \in Good : RevKnown(x, r) /\ index'.rev >= r /\ r \in journal'.revs
  BY <1>1, <1>2, <1>3 DEF UpkeepInv, CommitsKept, RevKnown, Snapped
<1> QED
  BY <1>1, <1>2, <1>4, <1>5, <1>6, <1>7, KeeperMoves

LEMMA LogMigrateKeeps == ASSUME UpkeepInv, NEW s \in Processes, Upkeep!LogMigrate(s) PROVE UpkeepInv'
<1>1. /\ keeper[s].pc = "logMigrate" /\ Upkeep!Goto(s, "writeSchema") /\ journal' = [journal EXCEPT !.migrated = TRUE]
      /\ UNCHANGED <<index, config, schema, artifact, lock, commits, upkeep>>
  BY DEF Upkeep!LogMigrate, Upkeep!At
<1>2. PICK x \in KeeperSession :
        /\ keeper' = [keeper EXCEPT ![s] = x] /\ keeper'[s] = x /\ report' = report
        /\ x.pc = "writeSchema" /\ x.mem = keeper[s].mem /\ x.snap = keeper[s].snap /\ x.before = keeper[s].before
        /\ x.clean = keeper[s].clean /\ \A t \in Processes \ {s} : keeper'[t] = keeper[t]
  <2>1. "writeSchema" \in Unsnapped \cup Snapped
    BY DEF Snapped
  <2> QED
    BY <1>1, <2>1, KeeperSteps
<1>3. journal' \in Jrn /\ journal'.revs = journal.revs
  BY <1>1 DEF UpkeepInv, StoreTyped, Jrn
<1>4. StoreTyped' /\ ReportSound'
  BY <1>1, <1>2, <1>3, NothingReported DEF UpkeepInv, StoreTyped
<1>5. KeeperKnown(s)'
  BY <1>1, <1>2 DEF UpkeepInv, KeeperKnown, Snapped, Upkeep!Locked
<1>6. Soloist(s)'
  BY <1>1, <1>2 DEF UpkeepInv, Soloist, Snapped
<1>7. ~commits.discarded => \A r \in Good : RevKnown(x, r) /\ index'.rev >= r /\ r \in journal'.revs
  BY <1>1, <1>2, <1>3 DEF UpkeepInv, CommitsKept, RevKnown, Snapped
<1> QED
  BY <1>1, <1>2, <1>4, <1>5, <1>6, <1>7, KeeperMoves

LEMMA MigrateSchemaKeeps == ASSUME UpkeepInv, NEW s \in Processes, Upkeep!MigrateSchema(s) PROVE UpkeepInv'
<1>1. /\ keeper[s].pc = "writeSchema" /\ Upkeep!Goto(s, "release") /\ schema' = 2
      /\ UNCHANGED <<index, config, journal, artifact, lock, commits, upkeep>>
  BY DEF Upkeep!MigrateSchema, Upkeep!At, Upkeep!Supported
<1>2. PICK x \in KeeperSession :
        /\ keeper' = [keeper EXCEPT ![s] = x] /\ keeper'[s] = x /\ report' = report
        /\ x.pc = "release" /\ x.mem = keeper[s].mem /\ x.snap = keeper[s].snap /\ x.before = keeper[s].before
        /\ x.clean = keeper[s].clean /\ \A t \in Processes \ {s} : keeper'[t] = keeper[t]
  <2>1. "release" \in Unsnapped \cup Snapped
    BY DEF Snapped
  <2> QED
    BY <1>1, <2>1, KeeperSteps
<1>3. StoreTyped' /\ ReportSound'
  BY <1>1, <1>2, NothingReported DEF UpkeepInv, StoreTyped
<1>4. KeeperKnown(s)'
  BY <1>1, <1>2 DEF UpkeepInv, KeeperKnown, Snapped, Upkeep!Locked
<1>5. Soloist(s)'
  BY <1>1, <1>2 DEF UpkeepInv, Soloist, Snapped
<1>6. ~commits.discarded => \A r \in Good : RevKnown(x, r)
  BY <1>1, <1>2 DEF UpkeepInv, CommitsKept, RevKnown, Snapped
<1> QED
  BY <1>1, <1>2, <1>3, <1>4, <1>5, <1>6, KeeperMoves DEF UpkeepInv, CommitsKept

LEMMA ReleaseLockKeeps == ASSUME UpkeepInv, NEW s \in Processes, Upkeep!ReleaseLock(s) PROVE UpkeepInv'
<1>1. /\ keeper[s].pc = "release" /\ Upkeep!Goto(s, "verify") /\ lock' = IF lock = s THEN "none" ELSE lock
      /\ UNCHANGED <<index, config, schema, journal, artifact, commits, upkeep>>
  BY DEF Upkeep!ReleaseLock, Upkeep!Free, Upkeep!Nobody, Upkeep!At, Upkeep!store
<1>2. PICK x \in KeeperSession :
        /\ keeper' = [keeper EXCEPT ![s] = x] /\ keeper'[s] = x /\ report' = report
        /\ x.pc = "verify" /\ x.mem = keeper[s].mem /\ x.snap = keeper[s].snap /\ x.before = keeper[s].before
        /\ x.clean = keeper[s].clean /\ \A t \in Processes \ {s} : keeper'[t] = keeper[t]
  <2>1. "verify" \in Unsnapped \cup Snapped
    BY DEF Snapped
  <2> QED
    BY <1>1, <2>1, KeeperSteps
<1>3. StoreTyped' /\ ReportSound'
  BY <1>1, <1>2, NothingReported DEF UpkeepInv, StoreTyped
<1>4. KeeperKnown(s)'
  BY <1>1, <1>2 DEF UpkeepInv, KeeperKnown, Snapped, Upkeep!Locked
<1>5. Soloist(s)'
  BY <1>1, <1>2 DEF UpkeepInv, Soloist, Snapped
<1>6. ~commits.discarded => \A r \in Good : RevKnown(x, r)
  BY <1>1, <1>2 DEF UpkeepInv, CommitsKept, RevKnown, Snapped
<1>7. \A t \in Processes \ {s} : lock = t => lock' = t
  BY <1>1
<1> QED
  BY <1>1, <1>2, <1>3, <1>4, <1>5, <1>6, <1>7, KeeperMoves DEF UpkeepInv, CommitsKept

\* The verdict: what the migration reports is so, and what it does not report is restored.
LEMMA VerifyKeeps == ASSUME UpkeepInv, NEW s \in Processes, Upkeep!Verify(s) PROVE UpkeepInv'
<1>1. /\ keeper[s].pc = "verify"
      /\ UNCHANGED <<index, config, schema, journal, artifact, lock, commits, upkeep>>
  BY DEF Upkeep!Verify, Upkeep!At, Upkeep!store
<1>2. StoreTyped'
  BY <1>1 DEF UpkeepInv, StoreTyped
<1>3. ~commits.discarded => \A r \in Good : index'.rev >= r /\ r \in journal'.revs
  BY <1>1 DEF UpkeepInv, CommitsKept
<1>4. CASE Upkeep!Verified(s) /\ Upkeep!End(s, "migrated")
  <2>1. ASSUME keeper[s].clean, report' = [end |-> "migrated", before |-> keeper[s].before] PROVE Upkeep!UpkeepSound'
    <3>1. index = [keeper[s].before[1] EXCEPT !.ver = 2] /\ config = keeper[s].before[2]
      BY <1>1, <2>1 DEF UpkeepInv, Soloist, Snapped
    <3>2. schema = 2 /\ journal.migrated
      BY <1>4 DEF Upkeep!Verified, Upkeep!Supported
    <3> QED
      BY <1>1, <2>1, <3>1, <3>2 DEF Upkeep!UpkeepSound, Upkeep!Supported
  <2> QED
    BY <1>1, <1>2, <1>3, <1>4, <2>1, KeeperEnds
<1>5. CASE Upkeep!Goto(s, "restore")
  <2>1. PICK x \in KeeperSession :
          /\ keeper' = [keeper EXCEPT ![s] = x] /\ keeper'[s] = x /\ report' = report
          /\ x.pc = "restore" /\ x.mem = keeper[s].mem /\ x.snap = keeper[s].snap /\ x.before = keeper[s].before
          /\ x.clean = keeper[s].clean /\ \A t \in Processes \ {s} : keeper'[t] = keeper[t]
    <3>1. "restore" \in Unsnapped \cup Snapped
      BY DEF Snapped
    <3> QED
      BY <1>5, <3>1, KeeperSteps
  <2>2. KeeperKnown(s)'
    BY <1>1, <2>1 DEF UpkeepInv, KeeperKnown, Snapped, Upkeep!Locked
  <2>3. Soloist(s)'
    BY <1>1, <2>1 DEF UpkeepInv, Soloist, Snapped
  <2>4. ~commits.discarded => \A r \in Good : RevKnown(x, r)
    BY <1>1, <2>1 DEF UpkeepInv, CommitsKept, RevKnown, Snapped
  <2>5. ReportSound'
    BY <1>1, <2>1, NothingReported
  <2> QED
    BY <1>1, <1>2, <1>3, <2>1, <2>2, <2>3, <2>4, <2>5, KeeperMoves
<1> QED
  BY <1>4, <1>5 DEF Upkeep!Verify

LEMMA AccessFailsKeeps == ASSUME UpkeepInv, NEW s \in Processes, Upkeep!AccessFails(s) PROVE UpkeepInv'
<1>1. PICK pc \in {"restore", "restoreLocked"} :
        /\ keeper[s].pc \in {"writeIndex", "logMigrate", "writeSchema", "verify"}
        /\ pc = "restoreLocked" => keeper[s].pc # "verify"
        /\ Upkeep!Goto(s, pc) /\ upkeep' = [upkeep EXCEPT !.faults = @ + 1]
        /\ UNCHANGED <<index, config, schema, journal, artifact, lock, commits>>
  BY DEF Upkeep!AccessFails, Upkeep!At, Upkeep!store
<1>2. PICK x \in KeeperSession :
        /\ keeper' = [keeper EXCEPT ![s] = x] /\ keeper'[s] = x /\ report' = report
        /\ x.pc = pc /\ x.mem = keeper[s].mem /\ x.snap = keeper[s].snap /\ x.before = keeper[s].before
        /\ x.clean = keeper[s].clean /\ \A t \in Processes \ {s} : keeper'[t] = keeper[t]
  BY <1>1, KeeperSteps DEF Snapped
<1>3. upkeep' \in [commands : Nat, commits : Nat, faults : Nat] /\ upkeep'.commits = upkeep.commits
  BY <1>1 DEF UpkeepInv, StoreTyped
<1>4. StoreTyped' /\ ReportSound'
  BY <1>1, <1>2, <1>3, NothingReported DEF UpkeepInv, StoreTyped
<1>5. KeeperKnown(s)'
  BY <1>1, <1>2 DEF UpkeepInv, KeeperKnown, Snapped, Upkeep!Locked
<1>6. Soloist(s)'
  BY <1>1, <1>2 DEF UpkeepInv, Soloist, Snapped
<1>7. ~commits.discarded => \A r \in Good : RevKnown(x, r)
  BY <1>1, <1>2 DEF UpkeepInv, CommitsKept, RevKnown, Snapped
<1> QED
  BY <1>1, <1>2, <1>4, <1>5, <1>6, <1>7, KeeperMoves DEF UpkeepInv, CommitsKept

\* A rollback copies back the index, and then the rest.
LEMMA RestoreIndexKeeps == ASSUME UpkeepInv, NEW s \in Processes, Upkeep!RestoreIndex(s) PROVE UpkeepInv'
<1>1. PICK pc \in {"restoreRest", "restoreRestLocked"} :
        /\ keeper[s].pc \in {"restore", "restoreLocked"}
        /\ pc = "restoreRestLocked" => keeper[s].pc = "restoreLocked"
        /\ Upkeep!Goto(s, pc) /\ index' = keeper[s].snap[1]
        /\ UNCHANGED <<config, schema, journal, artifact, lock, commits, upkeep>>
  BY DEF Upkeep!RestoreIndex, Upkeep!At
<1>2. PICK x \in KeeperSession :
        /\ keeper' = [keeper EXCEPT ![s] = x] /\ keeper'[s] = x /\ report' = report
        /\ x.pc = pc /\ x.mem = keeper[s].mem /\ x.snap = keeper[s].snap /\ x.before = keeper[s].before
        /\ x.clean = keeper[s].clean /\ \A t \in Processes \ {s} : keeper'[t] = keeper[t]
  BY <1>1, KeeperSteps DEF Snapped
<1>3. keeper[s].snap \in Held
  BY <1>1 DEF UpkeepInv, KeeperKnown, Snapped
<1>4. index' \in Idx
  BY <1>1, <1>3 DEF Held
<1>5. StoreTyped' /\ ReportSound'
  BY <1>1, <1>2, <1>4, NothingReported DEF UpkeepInv, StoreTyped
<1>6. KeeperKnown(s)'
  BY <1>1, <1>2 DEF UpkeepInv, KeeperKnown, Snapped, Upkeep!Locked
<1>7. Soloist(s)'
  BY <1>1, <1>2 DEF UpkeepInv, Soloist, Snapped
<1>8. ~commits.discarded => \A r \in Good : RevKnown(x, r) /\ index'.rev >= r /\ r \in journal'.revs
  BY <1>1, <1>2 DEF UpkeepInv, CommitsKept, RevKnown, Snapped
<1> QED
  BY <1>1, <1>2, <1>5, <1>6, <1>7, <1>8, KeeperMoves

LEMMA RestoreRestKeeps == ASSUME UpkeepInv, NEW s \in Processes, Upkeep!RestoreRest(s) PROVE UpkeepInv'
<1>1. /\ keeper[s].pc \in {"restoreRest", "restoreRestLocked"}
      /\ config' = IF keeper[s].snap[2].st # "missing" THEN keeper[s].snap[2] ELSE config
      /\ schema' = IF keeper[s].snap[3] # 0 THEN keeper[s].snap[3] ELSE schema
      /\ journal' = keeper[s].snap[4] /\ artifact' = keeper[s].snap[5]
      /\ UNCHANGED <<index, lock, commits, upkeep>>
  BY DEF Upkeep!RestoreRest, Upkeep!At, Upkeep!RestoredSchema
<1>2. keeper[s].snap \in Held
  BY <1>1 DEF UpkeepInv, KeeperKnown, Snapped
<1>3. config' \in Cfg /\ schema' \in 0..2 /\ journal' \in Jrn /\ artifact' \in Fil
  BY <1>1, <1>2 DEF Held, UpkeepInv, StoreTyped
<1>4. StoreTyped'
  BY <1>1, <1>3 DEF UpkeepInv, StoreTyped
<1>5. ASSUME keeper[s].clean
      PROVE  /\ index' = keeper[s].before[1] /\ config' = keeper[s].before[2]
             /\ keeper[s].before[3] # 0 => schema' = keeper[s].before[3]
             /\ journal' = keeper[s].before[4] /\ artifact' = keeper[s].before[5]
  <2>1. keeper[s].snap = keeper[s].before /\ index = keeper[s].before[1] /\ config = keeper[s].before[2]
    BY <1>1, <1>5 DEF UpkeepInv, Soloist, Snapped
  <2> QED
    BY <1>1, <2>1
<1>6. ~commits.discarded => \A r \in Good : index'.rev >= r /\ r \in journal'.revs /\ RevKnown(keeper[s], r)
  BY <1>1 DEF UpkeepInv, CommitsKept, RevKnown, Snapped
<1>7. CASE keeper[s].pc = "restoreRest" /\ Upkeep!End(s, "rolledBack")
  <2>1. ASSUME keeper[s].clean, report' = [end |-> "rolledBack", before |-> keeper[s].before] PROVE Upkeep!UpkeepSound'
    BY <1>5, <2>1 DEF Upkeep!UpkeepSound
  <2> QED
    BY <1>1, <1>4, <1>6, <1>7, <2>1, KeeperEnds
<1>8. CASE keeper[s].pc = "restoreRestLocked" /\ Upkeep!Goto(s, "drop")
  <2>1. PICK x \in KeeperSession :
          /\ keeper' = [keeper EXCEPT ![s] = x] /\ keeper'[s] = x /\ report' = report
          /\ x.pc = "drop" /\ x.mem = keeper[s].mem /\ x.snap = keeper[s].snap /\ x.before = keeper[s].before
          /\ x.clean = keeper[s].clean /\ \A t \in Processes \ {s} : keeper'[t] = keeper[t]
    <3>1. "drop" \in Unsnapped \cup Snapped
      BY DEF Snapped
    <3> QED
      BY <1>8, <3>1, KeeperSteps
  <2>2. KeeperKnown(s)'
    BY <1>1, <1>8, <2>1 DEF UpkeepInv, KeeperKnown, Snapped, Upkeep!Locked
  <2>3. Soloist(s)'
    <3> SUFFICES ASSUME keeper[s].clean PROVE Soloist(s)'
      BY <2>1 DEF Soloist
    <3>1. /\ \A t \in Processes \ {s} : keeper[t].pc = "idle"
          /\ keeper[s].before \in Held /\ keeper[s].snap = keeper[s].before
      BY <1>1 DEF UpkeepInv, Soloist, Snapped
    <3> QED
      BY <1>5, <2>1, <3>1 DEF Soloist, Snapped
  <2>4. \A r : RevKnown(keeper[s], r) => RevKnown(x, r)
    BY <1>8, <2>1 DEF RevKnown, Snapped
  <2>5. ReportSound'
    BY <1>1, <2>1, NothingReported
  <2> QED
    BY <1>1, <1>4, <1>6, <2>1, <2>2, <2>3, <2>4, <2>5, KeeperMoves
<1> QED
  BY <1>7, <1>8 DEF Upkeep!RestoreRest, Upkeep!At

LEMMA DropLockKeeps == ASSUME UpkeepInv, NEW s \in Processes, Upkeep!DropLock(s) PROVE UpkeepInv'
<1>1. /\ keeper[s].pc = "drop" /\ lock' = (IF lock = s THEN "none" ELSE lock) /\ Upkeep!End(s, "rolledBack")
      /\ UNCHANGED <<index, config, schema, journal, artifact, commits, upkeep>>
  BY DEF Upkeep!DropLock, Upkeep!Free, Upkeep!Nobody, Upkeep!At, Upkeep!store
<1>2. StoreTyped'
  BY <1>1 DEF UpkeepInv, StoreTyped
<1>3. ASSUME keeper[s].clean, report' = [end |-> "rolledBack", before |-> keeper[s].before] PROVE Upkeep!UpkeepSound'
  BY <1>1, <1>3 DEF UpkeepInv, Soloist, Snapped, Upkeep!UpkeepSound
<1>4. \A t \in Processes \ {s} : lock = t => lock' = t
  BY <1>1
<1>5. ~commits.discarded => \A r \in Good : index'.rev >= r /\ r \in journal'.revs
  BY <1>1 DEF UpkeepInv, CommitsKept
<1> QED
  BY <1>1, <1>2, <1>3, <1>4, <1>5, KeeperEnds

LEMMA UpkeepStep == UpkeepInv /\ [Upkeep!Next]_storeVars => UpkeepInv'
<1> SUFFICES ASSUME UpkeepInv, [Upkeep!Next]_storeVars PROVE UpkeepInv'
  OBVIOUS
<1>1. CASE UNCHANGED storeVars
  BY <1>1
  DEF storeVars, UpkeepInv, StoreTyped, KeepersTyped, CommitsKept, Good, RevKnown, ReportSound, KeeperKnown, Soloist,
      Upkeep!UpkeepSound, Upkeep!Findings, Upkeep!Drift, Upkeep!Configured, Upkeep!Readable
<1>2. CASE Upkeep!Next
  <2>1. ASSUME NEW s \in Processes, Upkeep!InitStep(s) PROVE UpkeepInv'
    BY <2>1, InitBeginsKeeps, EnsureStoreKeeps, InitReadsKeeps, InitWritesIndexKeeps, InitWritesConfigKeeps,
       InitWritesSchemaKeeps DEF Upkeep!InitStep
  <2>2. ASSUME NEW s \in Processes, Upkeep!MigrationStep(s) PROVE UpkeepInv'
    BY <2>2, MigrateBeginsKeeps, SnapshotIndexKeeps, SnapshotRestKeeps, MigrateKeeps, AcquireLockKeeps,
       LockTimesOutKeeps, MigrateIndexKeeps, LogMigrateKeeps, MigrateSchemaKeeps, ReleaseLockKeeps, VerifyKeeps,
       AccessFailsKeeps, RestoreIndexKeeps, RestoreRestKeeps, DropLockKeeps DEF Upkeep!MigrationStep
  <2> QED
    BY <1>2, <2>1, <2>2, CommitKeeps, DamageKeeps, DieKeeps DEF Upkeep!Next
<1> QED
  BY <1>1, <1>2

LEMMA UpkeepHold == Spec => [](which = "store" => UpkeepInv)
<1>1. Init => (which = "store" => UpkeepInv)
  BY Apart, UpkeepBegins
<1>2. (which = "store" => UpkeepInv) /\ [Next]_vars => (which = "store" => UpkeepInv)'
  BY Apart, UpkeepStep
<1> QED
  BY <1>1, <1>2, PTL DEF Spec

\* A command on the store that nobody else disturbed did what it reports, whichever of its
\* writes failed (initStore, runMigration and its rollback).
THEOREM ReportsAreTrue == Spec => []UpkeepSound
<1>1. (which = "store" => UpkeepInv) => UpkeepSound
  <2> SUFFICES ASSUME which = "store", UpkeepInv PROVE Upkeep!UpkeepSound
    BY DEF UpkeepSound
  <2>1. CASE report.end # "none"
    BY <2>1 DEF UpkeepInv, ReportSound
  <2>2. CASE report.end = "none"
    BY <2>2 DEF Upkeep!UpkeepSound
  <2> QED
    BY <2>1, <2>2
<1> QED
  BY <1>1, UpkeepHold, PTL

\* No init, migration or rollback takes back a commit made at a good moment: it stays in
\* the index, or a later one does, and in the journal.
THEOREM CommitsAreKept == Spec => []CommitsSurvive
<1>1. (which = "store" => UpkeepInv) => CommitsSurvive
  BY DEF UpkeepInv, CommitsKept, Good, CommitsSurvive, Upkeep!CommitsSurvive
<1> QED
  BY <1>1, UpkeepHold, PTL

-----------------------------------------------------------------------------
(* Git's index. The invariant says, for each place where a session stands or *)
(* died, which of the pending commit, its lock, its candidate index and HEAD *)
(* can be relied on.                                                         *)

\* The index has all that HEAD has.
InSync == treeOf[tip].done \subseteq stage.done

\* What a session has under way is the pending commit ...
PilotRecovers == {"classify", "forward", "forwarded", "publish", "discard", "dropEvidence"}
PilotPrepares == {"link", "copy", "write", "updateRef", "waitRef", "rollback", "rollbackEvidence"}
PilotCommits == PilotPrepares \cup {"finalize", "finish"}
\* ... whose index.lock it holds ...
PilotLocks == {"copy", "write", "updateRef", "waitRef", "finalize", "rollback", "forward", "forwarded"}
\* ... with a complete candidate.
PilotReady == {"updateRef", "waitRef", "finalize", "finish", "forward", "forwarded"}

\* Commits are numbered in the order they are made, and there is one pending at a time.
CommitsNumbered ==
  /\ tip <= made
  /\ evidence \cup written \cup orphans \subseteq 1 .. made
  /\ \A c, d \in evidence : c = d
  /\ stageLock \in Index!Commits => stageLock \in evidence
  /\ \A c \in evidence \cup orphans :
       /\ parentOf[c] < c /\ parentOf[c] <= tip
       /\ treeOf[parentOf[c]].done \subseteq treeOf[c].done

\* Where a session stands.
PilotKnows ==
  /\ at \in {"parent", "open"} => evidence = {}
  /\ at \in {"open", "classify"} => base <= tip
  /\ at \in PilotRecovers \cup PilotCommits => evidence = {cur}
  /\ at \in PilotLocks => stageLock = cur
  /\ at \in {"link", "dropEvidence", "finish", "rollbackEvidence"} => stageLock # cur
  /\ at \in {"link", "copy", "write", "discard"} => cur \notin written
  /\ at \in PilotReady => cur \in written
  /\ at \in PilotCommits => base = parentOf[cur]
  /\ at \in PilotPrepares => cur \notin orphans
  /\ at \in PilotPrepares \ {"waitRef"} => tip # cur
  /\ at \in {"publish", "finish"} => cur <= tip
  /\ at = "finalize" => tip = cur
  /\ at = "dropEvidence" => cur \notin orphans \/ cur <= tip
  /\ at \in {"dropEvidence", "finish"} => (tip = cur => InSync)
  /\ at \in {"link", "copy", "write"} => treeOf[cur].done \subseteq treeOf[base].done \cup {task}
  /\ at = "write" => copy.user = staged /\ (tip = base => treeOf[base].done \subseteq copy.done)
  /\ child => at \in {"waitRef", "forwarded"}

\* An update-ref that outlived its session is of a complete candidate, and if it can
\* still do something, its commit is pending and owns the lock.
OrphansKnown ==
  \A c \in orphans : c <= tip \/ (c \in evidence /\ (byHand \/ stageLock = c))

\* A candidate is complete when HEAD can be its commit, and its contents then are too.
CandidateWhole ==
  /\ orphans \subseteq written
  /\ tip \in evidence => tip \in written
  /\ \A c \in evidence \cap written :
       tip \in {c, parentOf[c]} => treeOf[c].done \subseteq draft[c].done
  /\ stageLock \in written => draft[stageLock].user = staged
  /\ stage.inode \in Index!Commits => stage.inode \in written /\ Index!Of(stage) = draft[stage.inode]

\* The user has Git's lock while a command of theirs is under way.
UserLocks == user.op # "none" <=> stageLock = Index!Foreign

\* The index may lack what HEAD has only while the pending commit is HEAD, and then
\* no command of the user can get in between.
Following ==
  /\ tip \notin evidence => InSync
  /\ tip \in evidence => byHand \/ stageLock = tip \/ InSync

IndexInv ==
  /\ Index!TypeOK /\ CommitsNumbered /\ PilotKnows /\ OrphansKnown /\ CandidateWhole /\ UserLocks
  /\ Following /\ Index!StagingKept

-----------------------------------------------------------------------------
LEMMA GitBounds == MaxObjects \in Nat /\ MaxStaged \in Nat
  BY GovernanceAssumption DEF GovernanceAssumption, Index!BoundsAssumption

\* Git's files, the pilot's and no file differ.
LEMMA InodesDiffer ==
  /\ Index!Free \notin Index!Commits /\ Index!Foreign \notin Index!Commits /\ Index!GitInode \notin Index!Commits /\ Index!Free # Index!Foreign
  /\ Index!Free \in 0 .. MaxObjects + 1 /\ Index!Foreign \in 0 .. MaxObjects + 1
  /\ Index!GitInode \in 0 .. MaxObjects /\ 0 \in 0 .. MaxObjects /\ 0 \in 0 .. MaxStaged
  /\ Index!Commits \subseteq 0 .. MaxObjects /\ Index!Commits \subseteq 0 .. MaxObjects + 1 /\ Index!Commits \subseteq Nat
  BY GitBounds DEF Index!Free, Index!Foreign, Index!GitInode, Index!Commits

\* A renamed candidate keeps its contents.
LEMMA ContentsKept ==
  ASSUME NEW contents \in Index!Contents, NEW inode
  PROVE  /\ Index!Of(Index!OnInode(contents, inode)) = contents
         /\ Index!OnInode(contents, inode).done = contents.done
         /\ Index!OnInode(contents, inode).user = contents.user
         /\ Index!OnInode(contents, inode).inode = inode
         /\ inode \in 0 .. MaxObjects =>
              Index!OnInode(contents, inode) \in [done : SUBSET GitTasks, user : 0 .. MaxStaged, inode : 0 .. MaxObjects]
  BY DEF Index!Contents, Index!OnInode, Index!Of

LEMMA IndexContents ==
  ASSUME Index!TypeOK
  PROVE  Index!Of(stage) \in Index!Contents /\ Index!Of(stage).done = stage.done /\ Index!Of(stage).user = stage.user
  BY DEF Index!TypeOK, Index!Contents, Index!Of

LEMMA IndexBegins == Index!Init => IndexInv
<1> SUFFICES ASSUME Index!Init PROVE IndexInv
  OBVIOUS
<1> USE DEF Index!Init
<1>1. Index!NoContents \in Index!Contents
  BY InodesDiffer DEF Index!NoContents, Index!Contents
<1>2. Index!TypeOK
  BY <1>1, InodesDiffer, ContentsKept DEF Index!TypeOK, Index!Labels
<1>3. CommitsNumbered /\ PilotKnows /\ OrphansKnown
  BY InodesDiffer DEF CommitsNumbered, PilotKnows, OrphansKnown, PilotRecovers, PilotCommits, PilotPrepares, PilotLocks, PilotReady
<1>4. CandidateWhole /\ UserLocks /\ Following /\ Index!StagingKept
  BY <1>1, InodesDiffer, ContentsKept DEF CandidateWhole, UserLocks, Following, Index!StagingKept, InSync, Index!NoContents
<1> QED BY <1>2, <1>3, <1>4 DEF IndexInv

-----------------------------------------------------------------------------
\* Steps of a session in its own variables disturb only what it knows.
LEMMA SessionMoves ==
  ASSUME IndexInv, UNCHANGED <<tip, Index!gitObjects, Index!files, orphans, Index!Others>>, Index!TypeOK', PilotKnows'
  PROVE  IndexInv'
  BY DEF IndexInv, Index!gitObjects, Index!files, Index!Others, CommitsNumbered, OrphansKnown, CandidateWhole, UserLocks,
         Following, InSync, Index!StagingKept

\* The evidence of a commit that is not HEAD and will not be, or is HEAD and published,
\* is not needed any more.
LEMMA EvidenceDropped ==
  ASSUME IndexInv, evidence = {cur}, evidence' = {}, tip = cur => InSync, cur \notin orphans \/ cur <= tip,
         stageLock # cur, ~child, at' \in {"idle", "parent"},
         UNCHANGED <<tip, Index!gitObjects, stage, stageLock, written, draft, Index!session, child, orphans, Index!Others>>
  PROVE  IndexInv'
<1> USE DEF IndexInv, Index!gitObjects, Index!files, Index!session, Index!Others
<1>1. Index!TypeOK' /\ UserLocks' /\ Index!StagingKept'
  BY DEF Index!TypeOK, Index!Labels, UserLocks, Index!StagingKept
<1>2. CommitsNumbered'
  BY DEF CommitsNumbered
<1>3. PilotKnows'
  BY DEF PilotKnows, PilotRecovers, PilotCommits, PilotPrepares, PilotLocks, PilotReady
<1>4. OrphansKnown' /\ CandidateWhole' /\ Following'
  BY DEF OrphansKnown, CandidateWhole, Following, InSync
<1> QED BY <1>1, <1>2, <1>3, <1>4

\* An index.lock is given up only for a commit that HEAD is not and can not become.
LEMMA LockDropped ==
  ASSUME IndexInv, evidence = {cur}, tip # cur, cur \notin orphans, ~child,
         at' \in {"dropEvidence", "rollbackEvidence"}, at' = "rollbackEvidence" => base = parentOf[cur],
         stageLock' = IF Index!Owned THEN Index!Free ELSE stageLock,
         UNCHANGED <<tip, Index!gitObjects, stage, evidence, written, draft, Index!session, child, orphans, Index!Others>>
  PROVE  IndexInv'
<1> USE DEF IndexInv, Index!gitObjects, Index!session, Index!Others
<1>1. Index!TypeOK' /\ Index!StagingKept'
  BY InodesDiffer DEF Index!TypeOK, Index!Labels, Index!StagingKept
<1>2. CommitsNumbered' /\ UserLocks'
  BY InodesDiffer DEF Index!TypeOK, CommitsNumbered, UserLocks, Index!Owned
<1>3. PilotKnows'
  BY InodesDiffer DEF Index!TypeOK, Index!Owned, PilotKnows, PilotRecovers, PilotCommits, PilotPrepares, PilotLocks, PilotReady, InSync
<1>4. OrphansKnown' /\ CandidateWhole'
  BY InodesDiffer DEF Index!TypeOK, Index!Owned, OrphansKnown, CandidateWhole
<1>5. Following'
  BY InodesDiffer DEF Index!TypeOK, Index!Owned, Following, InSync
<1> QED BY <1>1, <1>2, <1>3, <1>4, <1>5

\* The candidate of HEAD, behind the lock, becomes the index: it has what HEAD has,
\* and all the user staged.
LEMMA CandidatePublished ==
  ASSUME IndexInv, evidence = {cur}, stageLock = cur, tip = cur, ~child, at' \in {"dropEvidence", "finish"},
         at' = "finish" => base = parentOf[cur],
         stage' = Index!OnInode(draft[cur], cur), stageLock' = Index!Free,
         UNCHANGED <<tip, Index!gitObjects, evidence, written, draft, Index!session, child, orphans, Index!Others>>
  PROVE  IndexInv'
<1> USE DEF IndexInv, Index!gitObjects, Index!session, Index!Others
<1>1. /\ cur \in Index!Commits /\ cur \in written /\ draft[cur] \in Index!Contents
      /\ treeOf[cur].done \subseteq draft[cur].done /\ draft[cur].user = staged
  BY InodesDiffer DEF Index!TypeOK, CandidateWhole
<1>2. /\ stage'.done = draft[cur].done /\ stage'.user = staged /\ stage'.inode = cur
      /\ Index!Of(stage)' = draft[cur]
      /\ stage' \in [done : SUBSET GitTasks, user : 0 .. MaxStaged, inode : 0 .. MaxObjects]
  BY <1>1, ContentsKept, InodesDiffer
<1>3. Index!TypeOK' /\ Index!StagingKept'
  BY <1>2, InodesDiffer DEF Index!TypeOK, Index!Labels, Index!StagingKept
<1>4. InSync'
  BY <1>1, <1>2 DEF InSync
<1>5. CommitsNumbered' /\ UserLocks' /\ Following'
  BY <1>1, <1>4, InodesDiffer DEF CommitsNumbered, UserLocks, Following
<1>6. PilotKnows'
  BY <1>1, <1>4, InodesDiffer DEF PilotKnows, PilotRecovers, PilotCommits, PilotPrepares, PilotLocks, PilotReady
<1>7. OrphansKnown'
  <2> SUFFICES ASSUME NEW c \in orphans PROVE c <= tip
    BY DEF OrphansKnown
  <2>1. c \in evidence => c = tip
    OBVIOUS
  <2>2. tip \in Nat
    BY DEF Index!TypeOK
  <2> QED BY <2>1, <2>2 DEF OrphansKnown
<1>8. CandidateWhole'
  BY <1>1, <1>2, InodesDiffer DEF Index!TypeOK, CandidateWhole
<1> QED BY <1>3, <1>5, <1>6, <1>7, <1>8

-----------------------------------------------------------------------------
\* Recovering the pending commit.
LEMMA RecoveryKeeps ==
  ASSUME IndexInv, Index!Recovery
  PROVE  IndexInv'
<1> USE DEF IndexInv, Index!gitObjects, Index!files, Index!session, Index!Others, Index!Goto
<1>1. CASE Index!NothingPending
  <2>1. Index!TypeOK'
    BY <1>1 DEF Index!NothingPending, Index!TypeOK, Index!Labels
  <2>2. PilotKnows'
    BY <1>1 DEF Index!NothingPending, PilotKnows, PilotRecovers, PilotCommits, PilotPrepares, PilotLocks, PilotReady
  <2> QED BY <1>1, <2>1, <2>2, SessionMoves DEF Index!NothingPending
<1>2. CASE Index!ReadPending
  <2>1. Index!TypeOK'
    BY <1>2, InodesDiffer DEF Index!ReadPending, Index!TypeOK, Index!Labels
  <2>2. PilotKnows'
    BY <1>2 DEF Index!ReadPending, Index!TypeOK, PilotKnows, PilotRecovers, PilotCommits, PilotPrepares, PilotLocks, PilotReady
  <2> QED BY <1>2, <2>1, <2>2, SessionMoves DEF Index!ReadPending
<1>3. CASE Index!Classify
  <2>1. Index!TypeOK'
    BY <1>3 DEF Index!Classify, Index!Verdict, Index!TypeOK, Index!Labels
  <2>2. PilotKnows'
    BY <1>3 DEF Index!Classify, Index!Verdict, Index!Owned, Index!TypeOK, CommitsNumbered, PilotKnows, CandidateWhole,
                PilotRecovers, PilotCommits, PilotPrepares, PilotLocks, PilotReady
  <2> QED BY <1>3, <2>1, <2>2, SessionMoves DEF Index!Classify
<1>4. CASE Index!Forward
  <2>1. Index!TypeOK'
    BY <1>4 DEF Index!Forward, Index!TypeOK, Index!Labels
  <2>2. PilotKnows'
    BY <1>4 DEF Index!Forward, PilotKnows, PilotRecovers, PilotCommits, PilotPrepares, PilotLocks, PilotReady
  <2> QED BY <1>4, <2>1, <2>2, SessionMoves DEF Index!Forward
<1>5. CASE Index!Forwarded
  <2>1. Index!TypeOK'
    BY <1>5 DEF Index!Forwarded, Index!TypeOK, Index!Labels
  <2>2. PilotKnows'
    BY <1>5 DEF Index!Forwarded, Index!TypeOK, PilotKnows, PilotRecovers, PilotCommits, PilotPrepares, PilotLocks, PilotReady
  <2> QED BY <1>5, <2>1, <2>2, SessionMoves DEF Index!Forwarded
<1>6. CASE Index!Discard
  <2>1. evidence = {cur} /\ cur \notin written /\ ~child
    BY <1>6 DEF Index!Discard, PilotKnows, PilotRecovers
  <2>2. tip # cur /\ cur \notin orphans
    BY <2>1 DEF CandidateWhole
  <2> QED BY <1>6, <2>1, <2>2, LockDropped DEF Index!Discard
<1>7. CASE Index!Publish
  <2>1. evidence = {cur} /\ cur <= tip /\ ~child
    BY <1>7 DEF Index!Publish, PilotKnows, PilotRecovers
  <2>2. CASE Index!Owned /\ tip = cur
    BY <1>7, <2>1, <2>2, CandidatePublished DEF Index!Publish, Index!Owned
  <2>3. CASE ~(Index!Owned /\ tip = cur)
    <3>1. UNCHANGED <<tip, Index!gitObjects, Index!files, Index!session, child, orphans, Index!Others>>
      BY <1>7, <2>3 DEF Index!Publish
    <3>2. Index!TypeOK'
      BY <1>7, <2>3, <3>1 DEF Index!Publish, Index!TypeOK, Index!Labels
    <3>3. at' = "dropEvidence" => Index!Of(stage) = draft[cur]
      BY <1>7, <2>1, <2>3 DEF Index!Publish, CandidateWhole, Index!TypeOK
    <3>4. at' = "dropEvidence" => stageLock # cur
      BY <1>7, <2>1, <2>3, InodesDiffer DEF Index!Publish, Index!TypeOK
    <3>5. at' = "dropEvidence" /\ tip = cur => InSync
      BY <2>1, <3>3, IndexContents DEF CandidateWhole, InSync
    <3>6. at' \in {"idle", "dropEvidence"}
      BY <1>7, <2>3 DEF Index!Publish
    <3>7. PilotKnows'
      BY <2>1, <3>1, <3>4, <3>5, <3>6 DEF PilotKnows, InSync, PilotRecovers, PilotCommits, PilotPrepares, PilotLocks, PilotReady
    <3> QED BY <3>1, <3>2, <3>7, SessionMoves
  <2> QED BY <2>2, <2>3
<1>8. CASE Index!EndRecovery
  <2>1. evidence = {cur} /\ ~child /\ (tip = cur => InSync) /\ (cur \notin orphans \/ cur <= tip)
    BY <1>8 DEF Index!EndRecovery, Index!DropEvidence, PilotKnows, PilotRecovers
  <2>2. stageLock # cur
    BY <1>8 DEF Index!EndRecovery, Index!DropEvidence, PilotKnows
  <2> QED BY <1>8, <2>1, <2>2, EvidenceDropped DEF Index!EndRecovery, Index!DropEvidence
<1> QED BY <1>1, <1>2, <1>3, <1>4, <1>5, <1>6, <1>7, <1>8 DEF Index!Recovery

\* Making a commit, up to its candidate.
LEMMA PreparationKeeps ==
  ASSUME IndexInv, Index!ReadParent \/ Index!RejectCommit \/ Index!OpenEvidence \/ Index!LinkLock \/ Index!TimeOut \/ Index!CopyIndex \/ Index!WriteCandidate
                 \/ Index!PrepareFails
  PROVE  IndexInv'
<1> USE DEF IndexInv, Index!gitObjects, Index!files, Index!session, Index!Others, Index!Goto
<1>1. CASE Index!ReadParent
  <2>1. Index!TypeOK'
    BY <1>1 DEF Index!ReadParent, Index!TypeOK, Index!Labels
  <2>2. PilotKnows'
    BY <1>1 DEF Index!ReadParent, Index!TypeOK, PilotKnows, PilotRecovers, PilotCommits, PilotPrepares, PilotLocks, PilotReady
  <2> QED BY <1>1, <2>1, <2>2, SessionMoves DEF Index!ReadParent
<1>2. CASE Index!RejectCommit
  <2>1. Index!TypeOK'
    BY <1>2 DEF Index!RejectCommit, Index!TypeOK, Index!Labels
  <2>2. PilotKnows'
    BY <1>2 DEF Index!RejectCommit, PilotKnows, PilotRecovers, PilotCommits, PilotPrepares, PilotLocks, PilotReady
  <2> QED BY <1>2, <2>1, <2>2, SessionMoves DEF Index!RejectCommit
<1>3. CASE Index!OpenEvidence
  <2> DEFINE c == made + 1
             tree == [treeOf[base] EXCEPT !.done = @ \cup {task}]
  <2>1. /\ cur' = c /\ made' = c /\ evidence = {} /\ evidence' = {c} /\ at' = "link" /\ base <= tip /\ ~child
        /\ parentOf' = [parentOf EXCEPT ![c] = base] /\ treeOf' = [treeOf EXCEPT ![c] = tree]
    BY <1>3 DEF Index!OpenEvidence, Index!NewCommit, PilotKnows
  <2>2. /\ c \in Index!Commits /\ tip \in Nat /\ tip < c /\ base \in Nat /\ base < c
        /\ c \notin written /\ c \notin orphans /\ stageLock # c
    BY <1>3, <2>1, GitBounds DEF Index!OpenEvidence, Index!TypeOK, CommitsNumbered, Index!Commits
  <2>3. tree \in Index!Contents /\ tree.done = treeOf[base].done \cup {task}
    BY DEF Index!TypeOK, Index!Contents
  <2>4. /\ parentOf'[c] = base /\ treeOf'[c] = tree
        /\ \A d \in Index!Commits \ {c} : parentOf'[d] = parentOf[d]
        /\ \A d \in (0 .. MaxObjects) \ {c} : treeOf'[d] = treeOf[d]
    BY <2>1, <2>2, InodesDiffer DEF Index!TypeOK
  <2>5. Index!TypeOK' /\ Index!StagingKept' /\ UserLocks'
    BY <1>3, <2>1, <2>2, <2>3, InodesDiffer DEF Index!OpenEvidence, Index!TypeOK, Index!Labels, Index!StagingKept, UserLocks
  <2>6. CommitsNumbered'
    <3>1. \A d \in orphans : d < c /\ parentOf[d] < d /\ d \in Index!Commits
      BY DEF Index!TypeOK, CommitsNumbered
    <3> QED BY <1>3, <2>1, <2>2, <2>3, <2>4, <3>1 DEF Index!OpenEvidence, Index!TypeOK, CommitsNumbered, Index!Commits
  <2>7. PilotKnows'
    BY <1>3, <2>1, <2>2, <2>3, <2>4, InodesDiffer
       DEF Index!OpenEvidence, Index!TypeOK, PilotKnows, PilotRecovers, PilotCommits, PilotPrepares, PilotLocks, PilotReady
  <2>8. OrphansKnown' /\ CandidateWhole' /\ Following'
    BY <1>3, <2>1, <2>2, <2>4 DEF Index!OpenEvidence, Index!TypeOK, OrphansKnown, CandidateWhole, Following, InSync
  <2> QED BY <2>5, <2>6, <2>7, <2>8
<1>4. CASE Index!LinkLock
  <2>1. evidence = {cur} /\ cur \notin written /\ cur \notin orphans /\ tip # cur /\ stageLock = Index!Free /\ cur \in Index!Commits
    BY <1>4 DEF Index!LinkLock, PilotKnows, PilotCommits, PilotPrepares, Index!TypeOK
  <2>2. Index!TypeOK' /\ Index!StagingKept' /\ UserLocks'
    BY <1>4, <2>1, InodesDiffer DEF Index!LinkLock, Index!TypeOK, Index!Labels, Index!StagingKept, UserLocks
  <2>3. CommitsNumbered'
    BY <1>4, <2>1 DEF Index!LinkLock, CommitsNumbered
  <2>4. PilotKnows'
    BY <1>4, <2>1 DEF Index!LinkLock, PilotKnows, InSync, PilotRecovers, PilotCommits, PilotPrepares, PilotLocks, PilotReady
  <2>5. OrphansKnown' /\ CandidateWhole' /\ Following'
    BY <1>4, <2>1, InodesDiffer DEF Index!LinkLock, Index!TypeOK, OrphansKnown, CandidateWhole, Following, InSync
  <2> QED BY <2>2, <2>3, <2>4, <2>5
<1>5. CASE Index!TimeOut
  <2>1. evidence = {cur} /\ tip # cur /\ cur \notin orphans /\ stageLock # cur /\ ~child
    BY <1>5 DEF Index!TimeOut, PilotKnows, PilotCommits, PilotPrepares
  <2> QED BY <1>5, <2>1, EvidenceDropped DEF Index!TimeOut
<1>6. CASE Index!CopyIndex
  <2>1. Index!Of(stage) \in Index!Contents /\ Index!Of(stage).user = staged /\ Index!Of(stage).done = stage.done
    BY IndexContents DEF Index!StagingKept
  <2>2. evidence = {cur} /\ tip # cur
    BY <1>6 DEF Index!CopyIndex, PilotKnows, PilotCommits, PilotPrepares
  <2>3. treeOf[tip].done \subseteq stage.done
    BY <2>2 DEF Following, InSync
  <2>4. Index!TypeOK'
    BY <1>6, <2>1 DEF Index!CopyIndex, Index!TypeOK, Index!Labels
  <2>5. PilotKnows'
    BY <1>6, <2>1, <2>3 DEF Index!CopyIndex, PilotKnows, PilotRecovers, PilotCommits, PilotPrepares, PilotLocks, PilotReady
  <2> QED BY <1>6, <2>4, <2>5, SessionMoves DEF Index!CopyIndex
<1>7. CASE Index!WriteCandidate
  <2> DEFINE whole == [copy EXCEPT !.done = @ \cup {task}]
  <2>1. /\ evidence = {cur} /\ cur \in Index!Commits /\ stageLock = cur /\ cur \notin written /\ cur \notin orphans /\ tip # cur
        /\ treeOf[cur].done \subseteq treeOf[base].done \cup {task}
        /\ base = parentOf[cur] /\ copy.user = staged
        /\ tip = base => treeOf[base].done \subseteq copy.done
    BY <1>7 DEF Index!WriteCandidate, PilotKnows, PilotCommits, PilotPrepares, PilotLocks, Index!TypeOK
  <2>2. whole \in Index!Contents /\ whole.user = copy.user /\ whole.done = copy.done \cup {task}
    BY DEF Index!TypeOK, Index!Contents
  <2>3. draft'[cur] = whole /\ \A d \in Index!Commits \ {cur} : draft'[d] = draft[d]
    BY <1>7, <2>1 DEF Index!WriteCandidate, Index!TypeOK
  <2>4. Index!TypeOK' /\ Index!StagingKept' /\ UserLocks'
    BY <1>7, <2>1, <2>2 DEF Index!WriteCandidate, Index!TypeOK, Index!Labels, Index!StagingKept, UserLocks
  <2>5. CommitsNumbered' /\ OrphansKnown' /\ Following'
    BY <1>7, <2>1 DEF Index!WriteCandidate, CommitsNumbered, OrphansKnown, Following, InSync
  <2>6. PilotKnows'
    BY <1>7, <2>1 DEF Index!WriteCandidate, PilotKnows, InSync, PilotRecovers, PilotCommits, PilotPrepares, PilotLocks, PilotReady
  <2>7. CandidateWhole'
    <3>1. tip = base => treeOf[cur].done \subseteq whole.done
      BY <2>1, <2>2
    <3>2. written' = written \cup {cur} /\ UNCHANGED <<tip, Index!gitObjects, stage, stageLock, evidence, orphans, staged>>
      BY <1>7 DEF Index!WriteCandidate
    <3>3. stage.inode # cur
      BY <2>1 DEF CandidateWhole
    <3>4. stage'.inode \in Index!Commits => stage'.inode \in written' /\ Index!Of(stage)' = draft'[stage'.inode]
      BY <2>3, <3>2, <3>3 DEF CandidateWhole, Index!Of
    <3>5. \A c \in evidence' \cap written' :
            tip' \in {c, parentOf'[c]} => treeOf'[c].done \subseteq draft'[c].done
      BY <2>1, <2>3, <3>1, <3>2 DEF CandidateWhole
    <3> QED BY <2>1, <2>2, <2>3, <3>2, <3>4, <3>5 DEF CandidateWhole
  <2> QED BY <2>4, <2>5, <2>6, <2>7
<1>8. CASE Index!PrepareFails
  <2>1. Index!TypeOK'
    BY <1>8 DEF Index!PrepareFails, Index!TypeOK, Index!Labels
  <2>2. PilotKnows'
    BY <1>8 DEF Index!PrepareFails, PilotKnows, PilotRecovers, PilotCommits, PilotPrepares, PilotLocks, PilotReady
  <2> QED BY <1>8, <2>1, <2>2, SessionMoves DEF Index!PrepareFails
<1> QED BY <1>1, <1>2, <1>3, <1>4, <1>5, <1>6, <1>7, <1>8

\* Making a commit, from update-ref on.
LEMMA PublicationKeeps ==
  ASSUME IndexInv, Index!StartUpdateRef \/ Index!UpdateRefDone \/ Index!Finalize \/ Index!FinalizeFails \/ Index!Finish \/ Index!Rollback \/ Index!EndRollback
  PROVE  IndexInv'
<1> USE DEF IndexInv, Index!gitObjects, Index!files, Index!session, Index!Others, Index!Goto
<1>1. CASE Index!StartUpdateRef
  <2>1. Index!TypeOK'
    BY <1>1 DEF Index!StartUpdateRef, Index!TypeOK, Index!Labels
  <2>2. PilotKnows'
    BY <1>1 DEF Index!StartUpdateRef, PilotKnows, PilotRecovers, PilotCommits, PilotPrepares, PilotLocks, PilotReady
  <2> QED BY <1>1, <2>1, <2>2, SessionMoves DEF Index!StartUpdateRef
<1>2. CASE Index!UpdateRefDone
  <2>1. Index!TypeOK'
    BY <1>2 DEF Index!UpdateRefDone, Index!TypeOK, Index!Labels
  <2>2. cur \in Index!Commits /\ parentOf[cur] < cur
    BY <1>2 DEF Index!UpdateRefDone, Index!TypeOK, CommitsNumbered, PilotKnows, PilotCommits, PilotPrepares
  <2>3. PilotKnows'
    BY <1>2, <2>2 DEF Index!UpdateRefDone, Index!TypeOK, PilotKnows, PilotRecovers, PilotCommits, PilotPrepares, PilotLocks, PilotReady
  <2> QED BY <1>2, <2>1, <2>3, SessionMoves DEF Index!UpdateRefDone
<1>3. CASE Index!Finalize
  <2>1. evidence = {cur} /\ stageLock = cur /\ tip = cur /\ ~child /\ base = parentOf[cur]
    BY <1>3 DEF Index!Finalize, PilotKnows, PilotCommits, PilotPrepares, PilotLocks
  <2> QED BY <1>3, <2>1, CandidatePublished DEF Index!Finalize
<1>4. CASE Index!FinalizeFails
  <2>1. Index!TypeOK'
    BY <1>4 DEF Index!FinalizeFails, Index!TypeOK, Index!Labels
  <2>2. PilotKnows'
    BY <1>4 DEF Index!FinalizeFails, PilotKnows, PilotRecovers, PilotCommits, PilotPrepares, PilotLocks, PilotReady
  <2> QED BY <1>4, <2>1, <2>2, SessionMoves DEF Index!FinalizeFails
<1>5. CASE Index!Finish
  <2>1. evidence = {cur} /\ (tip = cur => InSync) /\ cur <= tip /\ stageLock # cur /\ ~child
    BY <1>5 DEF Index!Finish, Index!DropEvidence, PilotKnows, PilotCommits
  <2> QED BY <1>5, <2>1, EvidenceDropped DEF Index!Finish, Index!DropEvidence
<1>6. CASE Index!Rollback
  <2>1. evidence = {cur} /\ tip # cur /\ cur \notin orphans /\ ~child /\ base = parentOf[cur]
    BY <1>6 DEF Index!Rollback, PilotKnows, PilotCommits, PilotPrepares
  <2> QED BY <1>6, <2>1, LockDropped DEF Index!Rollback
<1>7. CASE Index!EndRollback
  <2>1. evidence = {cur} /\ tip # cur /\ cur \notin orphans /\ stageLock # cur /\ ~child
    BY <1>7 DEF Index!EndRollback, Index!DropEvidence, PilotKnows, PilotCommits, PilotPrepares
  <2> QED BY <1>7, <2>1, EvidenceDropped DEF Index!EndRollback, Index!DropEvidence
<1> QED BY <1>1, <1>2, <1>3, <1>4, <1>5, <1>6, <1>7

-----------------------------------------------------------------------------
\* A late update-ref can only move HEAD from the parent of the pending commit to it,
\* with a whole candidate waiting behind the lock.
LEMMA RefUpdated ==
  ASSUME IndexInv, NEW c \in Index!Commits, tip # tip', Index!UpdateRef(c),
         c \in orphans \/ (child /\ c = cur), orphans' \subseteq orphans, child' \in BOOLEAN, child' => child,
         UNCHANGED <<Index!gitObjects, Index!files, at, Index!session, Index!Others>>
  PROVE  IndexInv' /\ treeOf[tip].done \subseteq (treeOf[tip].done)'
<1> USE DEF IndexInv, Index!gitObjects, Index!files, Index!session, Index!Others
<1> /\ c \in orphans \/ (at \in {"waitRef", "forwarded"} /\ evidence = {c} /\ stageLock = c)
    /\ c \in written
  BY DEF PilotKnows, PilotCommits, PilotPrepares, PilotRecovers, PilotLocks, PilotReady, CandidateWhole
<1>1. tip = parentOf[c] /\ tip' = c /\ tip < c /\ c \in Nat /\ tip \in Nat
  BY InodesDiffer DEF Index!UpdateRef, Index!TypeOK, CommitsNumbered
<1>2. c \in evidence /\ (byHand \/ stageLock = c) /\ evidence = {c}
  BY <1>1 DEF CommitsNumbered, OrphansKnown
<1>3. treeOf[tip].done \subseteq (treeOf[tip].done)'
  BY <1>1, <1>2 DEF CommitsNumbered
<1>4. Index!TypeOK' /\ Index!StagingKept' /\ UserLocks'
  BY <1>1, InodesDiffer DEF Index!TypeOK, Index!StagingKept, UserLocks
<1>5. CommitsNumbered'
  <2>1. c <= made
    BY <1>2 DEF CommitsNumbered
  <2>2. \A d \in evidence \cup orphans : parentOf[d] \in Nat /\ parentOf[d] <= c
    BY <1>1 DEF Index!TypeOK, CommitsNumbered, Index!Commits
  <2> QED BY <1>1, <2>1, <2>2 DEF CommitsNumbered
<1>6. PilotKnows'
  <2>1. at \in PilotRecovers \cup PilotCommits => cur = c
    BY <1>2 DEF PilotKnows
  <2>2. at # "finalize" /\ at # "finish" /\ at # "publish"
    BY <1>1, <2>1 DEF PilotKnows, PilotRecovers, PilotCommits
  <2>3. at # "dropEvidence"
    BY <1>1, <2>1 DEF PilotKnows, PilotRecovers
  <2> QED BY <1>1, <2>1, <2>2, <2>3
        DEF Index!TypeOK, PilotKnows, InSync, PilotRecovers, PilotCommits, PilotPrepares, PilotLocks, PilotReady
<1>7. OrphansKnown'
  BY <1>1, <1>2 DEF Index!TypeOK, OrphansKnown, Index!Commits
<1>8. CandidateWhole'
  BY <1>1, <1>2 DEF Index!TypeOK, CandidateWhole
<1>9. Following'
  BY <1>1, <1>2 DEF Following
<1> QED BY <1>3, <1>4, <1>5, <1>6, <1>7, <1>8, <1>9

\* Late update-refs, and crashes.
LEMMA ProcessesKeep ==
  ASSUME IndexInv, Index!RunChild \/ (\E c \in Index!Commits : Index!RunOrphan(c)) \/ Index!Crash \/ (\E t \in GitTasks : Index!Start(t))
  PROVE  IndexInv'
<1> USE DEF IndexInv, Index!gitObjects, Index!files, Index!session, Index!Others, Index!Goto
<1>1. CASE Index!RunChild
  <2>1. cur \in Index!Commits
    BY <1>1 DEF Index!RunChild, Index!TypeOK, PilotKnows, PilotCommits, PilotPrepares, PilotRecovers
  <2>2. CASE tip' # tip
    BY <1>1, <2>1, <2>2, RefUpdated DEF Index!RunChild
  <2>3. CASE tip' = tip
    <3>1. Index!TypeOK' /\ PilotKnows'
      BY <1>1, <2>3 DEF Index!RunChild, Index!TypeOK, PilotKnows, InSync, PilotRecovers, PilotCommits, PilotPrepares, PilotLocks, PilotReady
    <3> QED BY <1>1, <2>3, <3>1, SessionMoves DEF Index!RunChild
  <2> QED BY <2>2, <2>3
<1>2. CASE \E c \in Index!Commits : Index!RunOrphan(c)
  <2> PICK c \in Index!Commits : Index!RunOrphan(c)
    BY <1>2
  <2>1. CASE tip' # tip
    BY <2>1, RefUpdated DEF Index!RunOrphan, Index!TypeOK
  <2>2. CASE tip' = tip
    <3>1. orphans' \subseteq orphans /\ UNCHANGED <<tip, Index!gitObjects, Index!files, at, Index!session, child, Index!Others>>
      BY <2>2 DEF Index!RunOrphan
    <3>2. Index!TypeOK' /\ Index!StagingKept' /\ UserLocks' /\ Following'
      BY <3>1 DEF Index!TypeOK, Index!StagingKept, UserLocks, Following, InSync
    <3>3. CommitsNumbered' /\ OrphansKnown' /\ CandidateWhole'
      BY <3>1 DEF CommitsNumbered, OrphansKnown, CandidateWhole
    <3>4. PilotKnows'
      BY <3>1 DEF PilotKnows, InSync
    <3> QED BY <3>2, <3>3, <3>4
  <2> QED BY <2>1, <2>2
<1>3. CASE Index!Crash
  <2> DEFINE more == IF child THEN {cur} ELSE {}
  <2>1. /\ orphans' = orphans \cup more /\ at' = "idle" /\ child' = FALSE
        /\ UNCHANGED <<tip, Index!gitObjects, Index!files, Index!session, Index!Others>>
    BY <1>3 DEF Index!Crash
  <2>2. child => evidence = {cur} /\ stageLock = cur /\ cur \in written /\ cur \in Index!Commits
    BY DEF Index!TypeOK, PilotKnows, PilotCommits, PilotPrepares, PilotRecovers, PilotLocks, PilotReady
  <2>3. Index!TypeOK' /\ Index!StagingKept' /\ UserLocks' /\ Following'
    BY <2>1, <2>2 DEF Index!TypeOK, Index!Labels, Index!StagingKept, UserLocks, Following, InSync
  <2>4. CommitsNumbered' /\ OrphansKnown' /\ CandidateWhole'
    BY <2>1, <2>2 DEF CommitsNumbered, OrphansKnown, CandidateWhole
  <2>5. PilotKnows'
    BY <2>1 DEF PilotKnows, PilotRecovers, PilotCommits, PilotPrepares, PilotLocks, PilotReady
  <2> QED BY <2>3, <2>4, <2>5
<1>4. CASE \E t \in GitTasks : Index!Start(t)
  <2>1. Index!TypeOK'
    BY <1>4 DEF Index!Start, Index!TypeOK, Index!Labels
  <2>2. PilotKnows'
    BY <1>4 DEF Index!Start, PilotKnows, PilotRecovers, PilotCommits, PilotPrepares, PilotLocks, PilotReady
  <2> QED BY <1>4, <2>1, <2>2, SessionMoves DEF Index!Start
<1> QED BY <1>1, <1>2, <1>3, <1>4

\* The user's commands, and the removal of a lock by hand.
LEMMA UserKeeps ==
  ASSUME IndexInv, (\E o \in {"add", "commit"} : Index!UserLock(o)) \/ Index!UserAdd \/ Index!UserCommit \/ Index!UserGivesUp
                 \/ Index!RemoveLockByHand
  PROVE  IndexInv'
<1> USE DEF IndexInv, Index!gitObjects, Index!session, Index!Others
<1>1. CASE \E o \in {"add", "commit"} : Index!UserLock(o)
  <2>1. /\ user'.op # "none" /\ user' \in [op : {"none", "add", "commit"}, base : 0 .. MaxObjects]
        /\ stageLock = Index!Free /\ stageLock' = Index!Foreign
    BY <1>1 DEF Index!UserLock, Index!TypeOK
  <2>2. /\ UNCHANGED <<tip, Index!gitObjects, stage, evidence, written, draft, at, Index!session, child, orphans>>
        /\ UNCHANGED <<staged, byHand>>
    BY <1>1 DEF Index!UserLock
  <2>3. Index!TypeOK' /\ UserLocks' /\ Index!StagingKept'
    BY <2>1, <2>2, InodesDiffer DEF Index!TypeOK, UserLocks, Index!StagingKept
  <2>4. CommitsNumbered' /\ OrphansKnown' /\ CandidateWhole' /\ Following'
    BY <2>1, <2>2, InodesDiffer DEF Index!TypeOK, CommitsNumbered, OrphansKnown, CandidateWhole, Following, InSync
  <2>5. PilotKnows'
    <3>1. at \in PilotRecovers \cup PilotCommits => cur \in Index!Commits
      BY DEF Index!TypeOK, PilotKnows
    <3> QED BY <2>1, <2>2, <3>1, InodesDiffer DEF PilotKnows, InSync, PilotRecovers, PilotCommits, PilotPrepares, PilotLocks, PilotReady
  <2> QED BY <2>3, <2>4, <2>5
<1>2. ASSUME Index!UserDone, stageLock = Index!Foreign, stage'.done = stage.done, Index!StagingKept', stage'.inode = Index!GitInode \/ stage' = stage,
             stage' \in [done : SUBSET GitTasks, user : 0 .. MaxStaged, inode : 0 .. MaxObjects],
             staged' \in 0 .. MaxStaged,
             UNCHANGED <<tip, Index!gitObjects, evidence, written, draft, at, Index!session, child, orphans, byHand>>
      PROVE  IndexInv'
  <2>1. Index!TypeOK' /\ UserLocks'
    BY <1>2, InodesDiffer DEF Index!UserDone, Index!TypeOK, UserLocks
  <2>2. CommitsNumbered' /\ OrphansKnown' /\ CandidateWhole'
    BY <1>2, InodesDiffer DEF Index!UserDone, Index!TypeOK, CommitsNumbered, OrphansKnown, CandidateWhole, Index!Of
  <2>3. Following'
    BY <1>2, InodesDiffer DEF Index!UserDone, Index!TypeOK, Following, InSync
  <2>4. PilotKnows'
    <3>1. at \in PilotRecovers \cup PilotCommits => cur \in Index!Commits
      BY DEF Index!TypeOK, PilotKnows
    <3> QED BY <1>2, <3>1, InodesDiffer
          DEF Index!UserDone, PilotKnows, InSync, PilotRecovers, PilotCommits, PilotPrepares, PilotLocks, PilotReady
  <2> QED BY <1>2, <2>1, <2>2, <2>3, <2>4
<1>3. CASE Index!UserAdd
  <2>1. [Index!Of(stage) EXCEPT !.user = @ + 1] \in Index!Contents
    <3>1. Index!Of(stage).user + 1 \in 0 .. MaxStaged
      BY <1>3, IndexContents, GitBounds DEF Index!UserAdd, Index!TypeOK, Index!StagingKept
    <3> QED BY <3>1, IndexContents DEF Index!Contents
  <2>2. /\ stage'.done = stage.done /\ stage'.user = stage.user + 1 /\ stage'.inode = Index!GitInode
        /\ stage' \in [done : SUBSET GitTasks, user : 0 .. MaxStaged, inode : 0 .. MaxObjects]
    BY <1>3, <2>1, ContentsKept, IndexContents, InodesDiffer DEF Index!UserAdd, Index!Contents
  <2>3. Index!StagingKept' /\ staged' \in 0 .. MaxStaged
    BY <1>3, <2>2, GitBounds DEF Index!UserAdd, Index!StagingKept, Index!TypeOK
  <2> QED BY <1>2, <1>3, <2>2, <2>3 DEF Index!UserAdd, UserLocks
<1>4. CASE Index!UserGivesUp
  <2> QED BY <1>2, <1>4 DEF Index!UserGivesUp, UserLocks, Index!TypeOK, Index!StagingKept
<1>5. CASE Index!UserCommit
  <2> DEFINE c == made + 1
  <2>1. /\ made' = c /\ tip' = c /\ stageLock' = Index!Free /\ stageLock = Index!Foreign /\ user'.op = "none"
        /\ user' \in [op : {"none", "add", "commit"}, base : 0 .. MaxObjects]
        /\ parentOf' = [parentOf EXCEPT ![c] = tip] /\ treeOf' = [treeOf EXCEPT ![c] = Index!Of(stage)]
        /\ stage' = [stage EXCEPT !.inode = Index!GitInode]
        /\ UNCHANGED <<evidence, written, draft, at, Index!session, child, orphans, staged, byHand>>
    BY <1>5, InodesDiffer DEF Index!UserCommit, Index!UserDone, Index!NewCommit, UserLocks
  <2>2. /\ c \in Index!Commits /\ tip \in Nat /\ tip < c /\ made \in Nat
        /\ c \notin evidence /\ c \notin written /\ c \notin orphans
    BY <1>5, GitBounds DEF Index!UserCommit, Index!TypeOK, CommitsNumbered, Index!Commits
  <2>3. /\ parentOf'[c] = tip /\ treeOf'[c] = Index!Of(stage) /\ Index!Of(stage).done = stage.done /\ Index!Of(stage) \in Index!Contents
        /\ \A d \in Index!Commits \ {c} : parentOf'[d] = parentOf[d]
        /\ \A d \in (0 .. MaxObjects) \ {c} : treeOf'[d] = treeOf[d]
    BY <2>1, <2>2, InodesDiffer, IndexContents DEF Index!TypeOK
  <2>4. /\ stage'.done = stage.done /\ stage'.user = stage.user /\ stage'.inode = Index!GitInode
        /\ stage' \in [done : SUBSET GitTasks, user : 0 .. MaxStaged, inode : 0 .. MaxObjects]
    BY <2>1, InodesDiffer DEF Index!TypeOK
  <2>5. Index!TypeOK' /\ UserLocks' /\ Index!StagingKept'
    BY <2>1, <2>2, <2>3, <2>4, InodesDiffer DEF Index!TypeOK, UserLocks, Index!StagingKept
  <2>6. \A d \in evidence \cup orphans : d \in Index!Commits /\ d \in Nat /\ d < c /\ parentOf[d] \in Nat /\ parentOf[d] < d
    <3>1. /\ evidence \cup orphans \subseteq Index!Commits /\ evidence \cup orphans \subseteq 1 .. made
          /\ parentOf \in [Index!Commits -> 0 .. MaxObjects] /\ made \in Nat
          /\ \A d \in evidence \cup orphans : parentOf[d] < d
      BY DEF Index!TypeOK, CommitsNumbered
    <3>2. c = made + 1
      BY <2>2
    <3> HIDE DEF IndexInv
    <3> QED
      BY <3>1, <3>2
  <2>7. CommitsNumbered'
    BY <2>1, <2>2, <2>3, <2>6, InodesDiffer, SMTT(40) DEF Index!TypeOK, CommitsNumbered
  <2>8. OrphansKnown'
    BY <2>1, <2>2, <2>6 DEF OrphansKnown
  <2>9. Following'
    BY <2>1, <2>2, <2>3, <2>4 DEF Following, InSync
  <2>10. CandidateWhole'
    BY <2>1, <2>2, <2>3, <2>4, <2>6, InodesDiffer, SMTT(40) DEF Index!TypeOK, CandidateWhole
  <2>11. PilotKnows'
    <3>1. at \in PilotRecovers \cup PilotCommits => cur \in Index!Commits /\ cur < c /\ cur # stageLock
      BY <2>1, <2>6, InodesDiffer DEF PilotKnows
    <3>2. base \in Nat /\ (base <= tip => base < c /\ base \in 0 .. MaxObjects) /\ cur \in Nat
      BY <2>2 DEF Index!TypeOK
    <3>3. at \notin PilotLocks
      BY <3>1 DEF PilotKnows, PilotLocks, PilotRecovers, PilotCommits, PilotPrepares
    <3>4. InSync'
      BY <2>1, <2>3, <2>4 DEF InSync
    <3>5. at \in {"link", "copy", "write"} => treeOf'[cur] = treeOf[cur] /\ treeOf'[base] = treeOf[base]
      BY <2>2, <2>3, <3>1 DEF Index!TypeOK, PilotKnows, PilotCommits, PilotPrepares, CommitsNumbered
    <3>6. at \in PilotCommits => parentOf'[cur] = parentOf[cur]
      BY <2>2, <2>3, <3>1
    <3> QED BY <2>1, <2>2, <3>1, <3>2, <3>3, <3>4, <3>5, <3>6, InodesDiffer
            DEF PilotKnows, PilotRecovers, PilotCommits, PilotPrepares, PilotLocks, PilotReady
  <2> QED BY <2>5, <2>7, <2>8, <2>9, <2>10, <2>11
<1>6. CASE Index!RemoveLockByHand
  <2>1. /\ at = "idle" /\ stageLock \in Index!Commits /\ stageLock' = Index!Free /\ byHand' = TRUE
        /\ UNCHANGED <<tip, Index!gitObjects, stage, evidence, written, draft, at, Index!session, child, orphans, user, staged>>
    BY <1>6 DEF Index!RemoveLockByHand
  <2>2. Index!TypeOK' /\ UserLocks' /\ Index!StagingKept'
    BY <2>1, InodesDiffer DEF Index!TypeOK, UserLocks, Index!StagingKept
  <2>3. CommitsNumbered' /\ OrphansKnown' /\ CandidateWhole' /\ Following'
    BY <2>1, InodesDiffer DEF Index!TypeOK, CommitsNumbered, OrphansKnown, CandidateWhole, Following, InSync
  <2>4. PilotKnows'
    BY <2>1 DEF PilotKnows, PilotRecovers, PilotCommits, PilotPrepares, PilotLocks, PilotReady
  <2> QED BY <2>2, <2>3, <2>4
<1> QED BY <1>1, <1>3, <1>4, <1>5, <1>6

-----------------------------------------------------------------------------
LEMMA IndexStep == IndexInv /\ [Index!Next]_indexVars => IndexInv'
<1> SUFFICES ASSUME IndexInv, [Index!Next]_indexVars PROVE IndexInv'
  OBVIOUS
<1>1. CASE UNCHANGED indexVars
  <2>1. Index!TypeOK' /\ PilotKnows'
    BY <1>1 DEF indexVars, Index!gitObjects, Index!files, Index!session, IndexInv, Index!TypeOK, PilotKnows, InSync
  <2> QED BY <1>1, <2>1, SessionMoves DEF indexVars, Index!Others, Index!gitObjects, Index!files
<1> QED BY <1>1, RecoveryKeeps, PreparationKeeps, PublicationKeeps, ProcessesKeep, UserKeeps DEF Index!Next, Index!Commit

\* HEAD is moved by update-ref to a commit of the HEAD it compares with, and by the user
\* to one of what the index holds.
LEMMA TasksKept == IndexInv /\ [Index!Next]_indexVars => Index!KeepsTasks
<1> SUFFICES ASSUME IndexInv, [Index!Next]_indexVars, ~byHand PROVE treeOf[tip].done \subseteq treeOf'[tip'].done
  BY DEF Index!KeepsTasks
<1> USE DEF IndexInv, Index!gitObjects, Index!files, Index!session, Index!Others
<1>1. treeOf'[tip] = treeOf[tip]
  <2>1. CASE UNCHANGED treeOf
    BY <2>1
  <2>2. CASE \E tree : treeOf' = [treeOf EXCEPT ![made + 1] = tree]
    BY <2>2 DEF Index!TypeOK, CommitsNumbered
  <2>3. CASE Index!OpenEvidence
    BY <2>2, <2>3 DEF Index!OpenEvidence, Index!NewCommit
  <2>4. CASE Index!UserCommit
    BY <2>2, <2>4 DEF Index!UserCommit, Index!NewCommit
  <2> QED BY <2>1, <2>3, <2>4
        DEF Index!Next, Index!Recovery, Index!Commit, indexVars, Index!Start, Index!NothingPending, Index!ReadPending, Index!Classify, Index!Forward,
            Index!Forwarded, Index!Discard, Index!Publish, Index!EndRecovery, Index!DropEvidence, Index!ReadParent, Index!RejectCommit, Index!OpenEvidence,
            Index!LinkLock, Index!TimeOut, Index!CopyIndex, Index!WriteCandidate, Index!PrepareFails, Index!StartUpdateRef, Index!UpdateRefDone,
            Index!Finalize, Index!FinalizeFails, Index!Finish, Index!Rollback, Index!EndRollback, Index!RunOrphan, Index!RunChild, Index!Crash, Index!UserLock,
            Index!UserAdd, Index!UserGivesUp, Index!RemoveLockByHand
<1>2. CASE tip' = tip
  BY <1>1, <1>2
<1>3. CASE Index!RunChild /\ tip' # tip
  <2>1. cur \in Index!Commits
    BY <1>3 DEF Index!RunChild, Index!TypeOK, PilotKnows, PilotCommits, PilotPrepares, PilotRecovers
  <2> QED BY <1>3, <2>1, RefUpdated DEF Index!RunChild
<1>4. CASE \E c \in Index!Commits : Index!RunOrphan(c) /\ tip' # tip
  BY <1>4, RefUpdated DEF Index!RunOrphan, Index!TypeOK
<1>5. CASE Index!UserCommit
  <2>1. tip' = made + 1 /\ treeOf' = [treeOf EXCEPT ![made + 1] = Index!Of(stage)] /\ made + 1 \in 0 .. MaxObjects
    BY <1>5, GitBounds DEF Index!UserCommit, Index!NewCommit, Index!TypeOK
  <2>2. InSync
    BY <1>5, InodesDiffer DEF Index!UserCommit, UserLocks, Following, Index!TypeOK, CommitsNumbered
  <2> QED BY <2>1, <2>2, IndexContents DEF InSync, Index!TypeOK
<1> QED BY <1>2, <1>3, <1>4, <1>5
      DEF Index!Next, Index!Recovery, Index!Commit, indexVars, Index!Start, Index!NothingPending, Index!ReadPending, Index!Classify, Index!Forward, Index!Forwarded,
          Index!Discard, Index!Publish, Index!EndRecovery, Index!DropEvidence, Index!ReadParent, Index!RejectCommit, Index!OpenEvidence, Index!LinkLock,
          Index!TimeOut, Index!CopyIndex, Index!WriteCandidate, Index!PrepareFails, Index!StartUpdateRef, Index!UpdateRefDone, Index!Finalize,
          Index!FinalizeFails, Index!Finish, Index!Rollback, Index!EndRollback, Index!RunOrphan, Index!RunChild, Index!Crash, Index!UserLock, Index!UserAdd,
          Index!UserGivesUp, Index!RemoveLockByHand

LEMMA IndexHolds == Spec => [](which = "index" => IndexInv)
<1>1. Init => (which = "index" => IndexInv)
  BY Apart, IndexBegins
<1>2. (which = "index" => IndexInv) /\ [Next]_vars => (which = "index" => IndexInv)'
  BY Apart, IndexStep
<1> QED BY <1>1, <1>2, PTL DEF Spec

\* Every variable of the index keeps its type.
THEOREM IndexTyped == Spec => [](which = "index" => Index!TypeOK)
<1>1. (which = "index" => IndexInv) => (which = "index" => Index!TypeOK)
  BY DEF IndexInv
<1> QED BY <1>1, IndexHolds, PTL

\* Whatever a session, its recovery by another or a removed lock does to the index,
\* what the user staged is in it (commitPaths).
THEOREM StagedStays == Spec => []StagingKept
<1>1. (which = "index" => IndexInv) => StagingKept
  BY DEF IndexInv, StagingKept
<1> QED BY <1>1, IndexHolds, PTL

\* A crash or a late update-ref leaves no commit half published: with no lock and no
\* evidence about, the index has what HEAD has (recoverPendingRealIndex).
THEOREM NothingHalfPublished == Spec => []IndexFollowsHead
<1>1. (which = "index" => IndexInv) => IndexFollowsHead
  BY DEF IndexInv, Following, InSync, Index!IndexFollowsHead, IndexFollowsHead
<1> QED BY <1>1, IndexHolds, PTL

\* HEAD takes back no task, by a commit of the user or a late update-ref, until the
\* user removes the pilot's lock (git update-ref HEAD with the old value).
THEOREM HeadKeepsTasks == Spec => NothingReverted
<1>1. (which = "index" => IndexInv) /\ [Next]_vars => [which = "index" => Index!KeepsTasks]_indexVars
  BY Apart, TasksKept
<1> QED BY <1>1, IndexHolds, PTL DEF Spec, NothingReverted

-----------------------------------------------------------------------------
(* The agents: whose every agent, timer and entry of the map of pending      *)
(* dispatches is.                                                            *)

OwnerKinds == {"none", "runner", "applying", "loop"}
FlightSteps == {"none", "queued", "settled", "launching", "waiting", "stopping"}
Outs == {"none", "ok", "fail", "timeout"}
Vias == {"spawn", "colony"}
Flights == [step : FlightSteps, n : Nat, via : Vias, out : Outs]
Agents == [t : Tracks, n : Nat, via : Vias, st : {"launcher", "working", "orphan"}]

RunnerTyped ==
  /\ sprint \in [Tracks -> [state : Runner!States, fails : Nat]]
  /\ owner \in [kind : OwnerKinds, colony : BOOLEAN, timed : BOOLEAN, max : Pools \cup {1}]
  /\ flight \in [Tracks -> Flights]
  /\ pending \in [Tracks -> Nat]
  /\ timers \subseteq Tracks \X Nat
  /\ agents \subseteq Agents
  /\ story \in [won : SUBSET (Tracks \X Nat), late : SUBSET (Tracks \X Nat), moved : SUBSET (Tracks \X Runner!States)]
  /\ bridges \in [bridges : Nat, moves : Nat, faults : Nat, n : [Tracks -> Nat]]

\* Who has no process has nothing under way, and only orphans are left.
Unowned ==
  owner.kind = "none" =>
    /\ \A t \in Tracks : flight[t] = Runner!NoFlight
    /\ \A a \in agents : a.st = "orphan"

\* A flight under way has a number, and what waits for a word of the colony is the
\* flight the map has.
FlightsKnown ==
  \A t \in Tracks :
    /\ flight[t].n <= bridges.n[t]
    /\ flight[t].step \in Runner!InFlight => flight[t].n # 0
    /\ flight[t].step \in {"launching", "stopping"} => flight[t].via = "spawn"
    /\ pending[t] # 0 => /\ flight[t].step = "waiting" /\ flight[t].via = "colony"
                         /\ pending[t] = flight[t].n

\* A timer is that of the dispatch its task waits for.
TimersKnown == \A e \in timers : flight[e[1]].step = "waiting" /\ flight[e[1]].n = e[2]

\* The agents of a flight under way came with it.
AgentsKnown ==
  \A a \in agents :
    /\ a.n <= bridges.n[a.t]
    /\ a.n = flight[a.t].n /\ flight[a.t].step \in Runner!InFlight =>
         a.st # "orphan" /\ a.via = flight[a.t].via

\* A colony's agent at work is the one waited for, unless a dispatch of its task ran out
\* of time before.
LateKnown ==
  owner.kind # "none" =>
    /\ \A e \in story.late :
         /\ e[2] # 0 /\ e[2] <= flight[e[1]].n
         /\ e[2] = flight[e[1]].n => flight[e[1]].step = "settled"
    /\ \A a \in agents : a.via = "colony" /\ a.st = "working" =>
         \/ a.n = flight[a.t].n /\ flight[a.t].step = "waiting"
         \/ \E e \in story.late : e[1] = a.t

RunnerInv ==
  /\ RunnerTyped /\ Unowned /\ FlightsKnown /\ TimersKnown /\ AgentsKnown /\ LateKnown
  /\ Runner!ResultsStand /\ Runner!DispatchesSettle /\ Runner!NoneLeftBehind

-----------------------------------------------------------------------------
LEMMA RunnerBegins == Runner!Init => RunnerInv
  BY DEF Runner!Init, RunnerInv, RunnerTyped, Unowned, FlightsKnown, TimersKnown, AgentsKnown, LateKnown,
         Runner!ResultsStand, Runner!DispatchesSettle, Runner!NoneLeftBehind, Runner!Overtaken, Runner!Busy, Runner!InFlight, Runner!Of, Runner!NoFlight, Runner!Nobody,
         OwnerKinds, FlightSteps, Outs, Vias, Flights, Agents, Runner!States

LEMMA RunnerFields ==
  ASSUME RunnerTyped
  PROVE  /\ \A t \in Tracks : /\ flight[t].n \in Nat /\ flight[t].step \in FlightSteps
                              /\ flight[t].via \in Vias /\ flight[t].out \in Outs
                              /\ pending[t] \in Nat /\ bridges.n[t] \in Nat
         /\ \A a \in agents : a.t \in Tracks /\ a.n \in Nat /\ a.via \in Vias
         /\ \A e \in timers \cup story.late : /\ e[1] \in Tracks /\ e[2] \in Nat
                                              /\ e = <<e[1], e[2]>>
  BY DEF RunnerTyped, Flights, Agents

LEMMA FlightWritten ==
  ASSUME RunnerTyped, NEW t \in Tracks, NEW out \in Outs,
         flight' = [flight EXCEPT ![t].step = "settled", ![t].out = out]
  PROVE  /\ flight' \in [Tracks -> Flights]
         /\ \A z \in Tracks : /\ flight'[z].step = IF z = t THEN "settled" ELSE flight[z].step
                              /\ flight'[z].out = IF z = t THEN out ELSE flight[z].out
                              /\ flight'[z].n = flight[z].n /\ flight'[z].via = flight[z].via
                              /\ z # t => flight'[z] = flight[z]
<1>1. flight \in [Tracks -> Flights] /\ "settled" \in FlightSteps
  BY DEF RunnerTyped, FlightSteps
<1>2. flight' \in [Tracks -> Flights]
  BY <1>1 DEF Flights
<1>3. flight'[t] = [step |-> "settled", n |-> flight[t].n, via |-> flight[t].via, out |-> out]
  BY <1>1 DEF Flights
<1>4. \A z \in Tracks \ {t} : flight'[z] = flight[z]
  BY <1>1
<1> QED BY <1>2, <1>3, <1>4

\* A spawned dispatch that settles takes its own agents along.
LEMMA SpawnSettles ==
  ASSUME RunnerInv, NEW t \in Tracks, flight[t].step \in Runner!InFlight, flight[t].via = "spawn",
         NEW out \in Outs, Runner!Settled(t, out, agents \ Runner!Of(t)),
         story'.late = story.late, story'.moved = story.moved, story.won \subseteq story'.won,
         story' \in [won : SUBSET (Tracks \X Nat), late : SUBSET (Tracks \X Nat), moved : SUBSET (Tracks \X Runner!States)],
         out = "ok" => <<t, flight[t].n>> \in story'.won,
         UNCHANGED <<sprint, owner, pending, bridges>>
  PROVE  RunnerInv'
<1> USE DEF RunnerInv, Runner!InFlight
<1>1. /\ flight' \in [Tracks -> Flights]
      /\ \A z \in Tracks : /\ flight'[z].step = IF z = t THEN "settled" ELSE flight[z].step
                           /\ flight'[z].out = IF z = t THEN out ELSE flight[z].out
                           /\ flight'[z].n = flight[z].n /\ flight'[z].via = flight[z].via
                           /\ z # t => flight'[z] = flight[z]
  BY FlightWritten DEF Runner!Settled
<1>2. agents' = agents \ Runner!Of(t) /\ timers' = timers \ {<<t, flight[t].n>>}
  BY DEF Runner!Settled
<1>3. pending[t] = 0
  BY RunnerFields DEF FlightsKnown
<1>4. RunnerTyped'
  BY <1>1, <1>2 DEF RunnerTyped
<1>5. Unowned'
  BY <1>1, <1>2 DEF Unowned, Runner!NoFlight
<1>6. FlightsKnown'
  BY <1>1, <1>3 DEF FlightsKnown
<1>7. TimersKnown'
  BY <1>1, <1>2, RunnerFields DEF TimersKnown
<1>8. AgentsKnown'
  BY <1>1, <1>2, RunnerFields DEF AgentsKnown
<1>9. \A a \in agents' : a \in agents /\ (a.t = t => a.n # flight[t].n)
  BY <1>2 DEF Runner!Of
<1>10. LateKnown'
  BY <1>1, <1>9, RunnerFields DEF LateKnown
<1>11. Runner!ResultsStand'
  <2>1. \A z \in Tracks : Runner!Overtaken(z) => Runner!Overtaken(z)'
    BY <1>1, RunnerFields DEF Runner!Overtaken
  <2> QED BY <1>1, <2>1 DEF Runner!ResultsStand
<1>12. Runner!DispatchesSettle'
  <2> SUFFICES ASSUME NEW z \in Runner!Busy' PROVE
        /\ IF flight'[z].via = "colony" THEN pending'[z] = flight'[z].n ELSE Runner!Of(z)' # {}
        /\ owner'.timed /\ flight'[z].step = "waiting" => <<z, flight'[z].n>> \in timers'
    BY DEF Runner!DispatchesSettle
  <2>1. z \in Tracks /\ z # t /\ flight'[z] = flight[z] /\ z \in Runner!Busy
    BY <1>1 DEF Runner!Busy
  <2>2. \A a \in Runner!Of(z) : a \in agents'
    BY <1>2, <2>1 DEF Runner!Of
  <2> QED BY <1>2, <2>1, <2>2 DEF Runner!DispatchesSettle, Runner!Of
<1>13. Runner!NoneLeftBehind'
  BY <1>1, <1>9, RunnerFields DEF Runner!NoneLeftBehind
<1> QED BY <1>4, <1>5, <1>6, <1>7, <1>8, <1>10, <1>11, <1>12, <1>13

\* A process that goes leaves nothing but orphans.
LEMMA GoneKeeps ==
  ASSUME RunnerInv, Runner!Gone(agents), UNCHANGED story,
         sprint' \in [Tracks -> [state : Runner!States, fails : Nat]],
         \A t \in Tracks : sprint[t].state # "Open" => sprint'[t] = sprint[t],
         bridges' \in [bridges : Nat, moves : Nat, faults : Nat, n : [Tracks -> Nat]], bridges'.n = bridges.n
  PROVE  RunnerInv'
<1> USE DEF RunnerInv
<1>1. /\ owner' = Runner!Nobody /\ flight' = [t \in Tracks |-> Runner!NoFlight]
      /\ pending' = [t \in Tracks |-> 0] /\ timers' = {}
  BY DEF Runner!Gone
<1>2. \A b \in agents' : \E a \in agents : b = [a EXCEPT !.st = "orphan"]
  BY DEF Runner!Gone
<1>3. RunnerTyped'
  <2>1. agents' \subseteq Agents
    <3>1. \A a \in Agents : [a EXCEPT !.st = "orphan"] \in Agents
      BY DEF Agents
    <3> QED BY <1>2, <3>1 DEF RunnerTyped
  <2>2. owner' \in [kind : OwnerKinds, colony : BOOLEAN, timed : BOOLEAN, max : Pools \cup {1}]
    BY <1>1 DEF Runner!Nobody, OwnerKinds
  <2>3. flight' \in [Tracks -> Flights]
    BY <1>1 DEF Runner!NoFlight, Flights, FlightSteps, Vias, Outs
  <2> QED BY <1>1, <2>1, <2>2, <2>3 DEF RunnerTyped
<1>4. /\ \A t \in Tracks : flight'[t] = Runner!NoFlight
      /\ \A b \in agents' : b.st = "orphan" /\ \E a \in agents : b.t = a.t /\ b.n = a.n /\ b.via = a.via
  BY <1>1, <1>2, SMTT(40) DEF RunnerTyped, Agents
<1>5. Unowned' /\ FlightsKnown' /\ TimersKnown' /\ LateKnown'
  BY <1>1, <1>4 DEF Unowned, FlightsKnown, TimersKnown, LateKnown, Runner!NoFlight, Runner!Nobody, Runner!InFlight, RunnerTyped
<1>6. AgentsKnown'
  BY <1>4 DEF AgentsKnown, Runner!NoFlight, Runner!InFlight, RunnerTyped, Agents
<1>7. Runner!ResultsStand'
  BY <1>4 DEF Runner!ResultsStand, Runner!NoFlight, Runner!Overtaken, RunnerTyped
<1>8. Runner!DispatchesSettle' /\ Runner!NoneLeftBehind'
  BY <1>4 DEF Runner!DispatchesSettle, Runner!NoneLeftBehind, Runner!Busy, Runner!NoFlight, Runner!InFlight
<1> QED BY <1>3, <1>5, <1>6, <1>7, <1>8

LEMMA StartKeeps == RunnerInv /\ (Runner!StartRunner \/ Runner!StartLoop) => RunnerInv'
<1> SUFFICES ASSUME RunnerInv, Runner!StartRunner \/ Runner!StartLoop PROVE RunnerInv'
  OBVIOUS
<1> USE DEF RunnerInv
<1>1. /\ owner.kind = "none" /\ UNCHANGED <<sprint, pending, timers, agents>>
      /\ story' = [won |-> {}, late |-> {}, moved |-> {}] /\ bridges' = [bridges EXCEPT !.bridges = @ + 1]
      /\ owner' \in [kind : OwnerKinds, colony : BOOLEAN, timed : BOOLEAN, max : Pools \cup {1}]
  BY DEF Runner!StartRunner, Runner!StartLoop, Runner!Bridges, OwnerKinds
<1>2. \A t \in Tracks : flight'[t] \in {Runner!NoFlight, [Runner!NoFlight EXCEPT !.step = "queued"]}
  BY DEF Runner!StartRunner, Runner!StartLoop
<1>3. /\ flight' \in [Tracks -> Flights]
      /\ \A t \in Tracks : /\ flight'[t].n = 0 /\ flight'[t].step \in {"none", "queued"}
                           /\ flight'[t].via = "spawn" /\ flight'[t].out = "none"
  BY <1>2 DEF Runner!StartRunner, Runner!StartLoop, Runner!NoFlight, Flights, FlightSteps, Vias, Outs
<1>4. RunnerTyped'
  BY <1>1, <1>3 DEF RunnerTyped
<1>5. bridges'.n = bridges.n /\ \A t \in Tracks : pending[t] = 0 /\ flight[t].step = "none"
  BY <1>1 DEF RunnerTyped, Unowned, FlightsKnown, Runner!NoFlight
<1>6. timers = {}
  BY <1>5, RunnerFields DEF TimersKnown
<1>7. \A a \in agents : a.st = "orphan"
  BY <1>1 DEF Unowned
<1>8. Unowned' /\ FlightsKnown' /\ TimersKnown' /\ AgentsKnown' /\ LateKnown'
  BY <1>1, <1>3, <1>5, <1>6, <1>7, RunnerFields
     DEF Unowned, FlightsKnown, TimersKnown, AgentsKnown, LateKnown, Runner!InFlight, Runner!StartRunner, Runner!StartLoop, Runner!Bridges, Runner!NoFlight
<1>9. Runner!ResultsStand' /\ Runner!DispatchesSettle' /\ Runner!NoneLeftBehind'
  BY <1>1, <1>3, <1>7 DEF Runner!ResultsStand, Runner!DispatchesSettle, Runner!NoneLeftBehind, Runner!Busy, Runner!InFlight
<1> QED BY <1>4, <1>8, <1>9

\* A dispatch begins for a task that has nothing under way.
LEMMA Begun ==
  ASSUME RunnerInv, NEW t \in Tracks, NEW via \in Vias, NEW step \in FlightSteps, NEW out \in Outs,
         Runner!Begin(t, via, step, out)
  PROVE  /\ flight[t].step \notin Runner!InFlight /\ pending[t] = 0 /\ owner.kind # "none"
         /\ \A e \in timers : e[1] # t
         /\ \A a \in agents : a.t = t => a.n < bridges.n[t] + 1 /\ (a.via = "spawn" => a.st = "orphan")
         /\ bridges' \in [bridges : Nat, moves : Nat, faults : Nat, n : [Tracks -> Nat]]
         /\ \A z \in Tracks : bridges'.n[z] = IF z = t THEN bridges.n[t] + 1 ELSE bridges.n[z]
         /\ flight' \in [Tracks -> Flights]
         /\ flight'[t] = [step |-> step, n |-> bridges.n[t] + 1, via |-> via, out |-> out]
         /\ \A z \in Tracks \ {t} : flight'[z] = flight[z]
<1> USE DEF RunnerInv
<1>1. /\ flight[t].step \in {"queued", "none", "settled"} /\ owner.kind # "none"
      /\ flight' = [flight EXCEPT ![t] = [step |-> step, n |-> bridges.n[t] + 1, via |-> via, out |-> out]]
      /\ bridges' = [bridges EXCEPT !.n[t] = @ + 1]
  BY DEF Runner!Begin, Runner!MayDispatch
<1>2. flight[t].step \notin Runner!InFlight /\ pending[t] = 0 /\ \A e \in timers : e[1] # t
  BY <1>1, RunnerFields DEF FlightsKnown, TimersKnown, Runner!InFlight
<1>3. \A a \in agents : a.t = t => a.n < bridges.n[t] + 1 /\ (a.via = "spawn" => a.st = "orphan")
  BY <1>1, RunnerFields DEF AgentsKnown, Runner!NoneLeftBehind, Runner!InFlight
<1>4. [step |-> step, n |-> bridges.n[t] + 1, via |-> via, out |-> out] \in Flights
  BY RunnerFields DEF Flights
<1>5. /\ flight' \in [Tracks -> Flights]
      /\ flight'[t] = [step |-> step, n |-> bridges.n[t] + 1, via |-> via, out |-> out]
      /\ \A z \in Tracks \ {t} : flight'[z] = flight[z]
  BY <1>1, <1>4 DEF RunnerTyped
<1>6. /\ bridges' \in [bridges : Nat, moves : Nat, faults : Nat, n : [Tracks -> Nat]]
      /\ \A z \in Tracks : bridges'.n[z] = IF z = t THEN bridges.n[t] + 1 ELSE bridges.n[z]
  BY <1>1, SMTT(40) DEF RunnerTyped
<1> QED BY <1>1, <1>2, <1>3, <1>5, <1>6

\* What every dispatch leaves: the new flight, and agents and timers of its own at most.
LEMMA BeginKeeps ==
  ASSUME RunnerInv, NEW t \in Tracks, NEW via \in Vias, NEW step \in FlightSteps, NEW out \in Outs \ {"ok"},
         Runner!Begin(t, via, step, out),
         step \in {"launching", "stopping"} => via = "spawn",
         pending' \in [Tracks -> Nat], \A z \in Tracks \ {t} : pending'[z] = pending[z],
         pending'[t] = IF via = "colony" THEN bridges.n[t] + 1 ELSE 0,
         via = "colony" => step = "waiting", via = "spawn" => step # "waiting",
         agents \subseteq agents', timers \subseteq timers',
         \A e \in timers' \ timers : e = <<t, bridges.n[t] + 1>> /\ step = "waiting",
         owner.timed /\ step = "waiting" => <<t, bridges.n[t] + 1>> \in timers',
         \A a \in agents' \ agents : /\ a \in Agents /\ a.t = t /\ a.n = bridges.n[t] + 1
                                     /\ a.via = via /\ a.st # "orphan" /\ step \in Runner!InFlight,
         step \in Runner!InFlight => \E a \in agents' : a.t = t /\ a.n = bridges.n[t] + 1
  PROVE  RunnerInv'
<1> USE DEF RunnerInv
<1>0. UNCHANGED <<sprint, owner, story>>
  BY DEF Runner!Begin
<1>a. /\ flight[t].step \notin Runner!InFlight /\ pending[t] = 0 /\ owner.kind # "none"
      /\ \A e \in timers : e[1] # t
      /\ \A a \in agents : a.t = t => a.n < bridges.n[t] + 1 /\ (a.via = "spawn" => a.st = "orphan")
  BY Begun
<1>b. /\ bridges' \in [bridges : Nat, moves : Nat, faults : Nat, n : [Tracks -> Nat]]
      /\ \A z \in Tracks : bridges'.n[z] = IF z = t THEN bridges.n[t] + 1 ELSE bridges.n[z]
  BY Begun
<1>c. /\ flight' \in [Tracks -> Flights]
      /\ flight'[t].step = step /\ flight'[t].n = bridges.n[t] + 1 /\ flight'[t].via = via /\ flight'[t].out = out
      /\ \A z \in Tracks \ {t} : flight'[z] = flight[z]
  <2>1. /\ flight' \in [Tracks -> Flights]
        /\ flight'[t] = [step |-> step, n |-> bridges.n[t] + 1, via |-> via, out |-> out]
        /\ \A z \in Tracks \ {t} : flight'[z] = flight[z]
    BY Begun
  <2> QED BY <2>1
<1>1. RunnerTyped'
  BY <1>0, <1>a, <1>b, <1>c, RunnerFields DEF RunnerTyped
<1>2. Unowned'
  BY <1>0, <1>a, <1>c DEF Unowned
<1>3. FlightsKnown'
  BY <1>0, <1>a, <1>b, <1>c, RunnerFields DEF FlightsKnown
<1>4. TimersKnown'
  BY <1>0, <1>a, <1>b, <1>c, RunnerFields DEF TimersKnown
<1>5. AgentsKnown'
  BY <1>0, <1>a, <1>b, <1>c, RunnerFields DEF AgentsKnown, Agents
<1>6. LateKnown'
  <2>1. \A e \in story.late : /\ e[2] # 0 /\ e[2] <= flight'[e[1]].n
                              /\ e[2] = flight'[e[1]].n => flight'[e[1]].step = "settled"
    BY <1>a, <1>c, RunnerFields DEF LateKnown, FlightsKnown
  <2>2. \A a \in agents : a.via = "colony" /\ a.st = "working" =>
          \/ a.n = flight'[a.t].n /\ flight'[a.t].step = "waiting"
          \/ \E e \in story.late : e[1] = a.t
    BY <1>a, <1>c, RunnerFields DEF LateKnown, Runner!InFlight
  <2>3. \A a \in agents' \ agents : a.via = "colony" => a.n = flight'[a.t].n /\ flight'[a.t].step = "waiting"
    BY <1>c
  <2> QED BY <1>0, <2>1, <2>2, <2>3 DEF LateKnown
<1>7. Runner!ResultsStand'
  BY <1>0, <1>a, <1>b, <1>c, RunnerFields DEF Runner!ResultsStand, Runner!Overtaken
<1>8. Runner!DispatchesSettle'
  BY <1>0, <1>a, <1>b, <1>c, RunnerFields DEF Runner!DispatchesSettle, Runner!Busy, Runner!Of
<1>9. Runner!NoneLeftBehind'
  BY <1>0, <1>a, <1>b, <1>c, RunnerFields DEF Runner!NoneLeftBehind
<1> QED BY <1>1, <1>2, <1>3, <1>4, <1>5, <1>6, <1>7, <1>8, <1>9

LEMMA DispatchKeeps ==
  ASSUME RunnerInv, NEW t \in Tracks, Runner!DispatchViaColony(t) \/ Runner!DispatchViaSpawn(t) \/ Runner!SpawnFails(t)
  PROVE  RunnerInv'
<1>0. RunnerFields!1 /\ pending \in [Tracks -> Nat]
  BY RunnerFields DEF RunnerInv, RunnerTyped
<1>1. CASE Runner!DispatchViaColony(t)
  <2>1. Runner!Begin(t, "colony", "waiting", "none")
    BY <1>1 DEF Runner!DispatchViaColony
  <2>2. /\ pending' = [pending EXCEPT ![t] = bridges.n[t] + 1]
        /\ timers' = IF owner.timed THEN timers \cup {<<t, bridges.n[t] + 1>>} ELSE timers
        /\ agents' = agents \cup {[t |-> t, n |-> bridges.n[t] + 1, via |-> "colony", st |-> "working"]}
    BY <1>1 DEF Runner!DispatchViaColony, Runner!Armed, Runner!Agent
  <2>3. [t |-> t, n |-> bridges.n[t] + 1, via |-> "colony", st |-> "working"] \in Agents
    BY RunnerFields DEF Agents, Vias, RunnerInv
  <2>4. /\ pending' \in [Tracks -> Nat] /\ \A z \in Tracks \ {t} : pending'[z] = pending[z]
        /\ pending'[t] = bridges.n[t] + 1
    BY <2>2, <1>0, RunnerFields DEF RunnerInv
  <2>5. /\ agents \subseteq agents' /\ timers \subseteq timers'
        /\ \A e \in timers' \ timers : e = <<t, bridges.n[t] + 1>>
        /\ owner.timed => <<t, bridges.n[t] + 1>> \in timers'
        /\ \A a \in agents' \ agents : /\ a \in Agents /\ a.t = t /\ a.n = bridges.n[t] + 1
                                       /\ a.via = "colony" /\ a.st # "orphan"
        /\ \E a \in agents' : a.t = t /\ a.n = bridges.n[t] + 1
    BY <2>2, <2>3
  <2>6. "colony" \in Vias /\ "waiting" \in FlightSteps /\ "none" \in Outs \ {"ok"} /\ "waiting" \in Runner!InFlight
    BY DEF Vias, FlightSteps, Outs, Runner!InFlight
  <2> QED BY <2>1, <2>4, <2>5, <2>6, BeginKeeps
<1>2. CASE Runner!DispatchViaSpawn(t)
  <2>1. Runner!Begin(t, "spawn", "launching", "none") /\ UNCHANGED <<pending, timers>>
    BY <1>2 DEF Runner!DispatchViaSpawn
  <2>2. agents' = agents \cup {[t |-> t, n |-> bridges.n[t] + 1, via |-> "spawn", st |-> "launcher"]}
    BY <1>2 DEF Runner!DispatchViaSpawn, Runner!Agent
  <2>3. [t |-> t, n |-> bridges.n[t] + 1, via |-> "spawn", st |-> "launcher"] \in Agents
    BY RunnerFields DEF Agents, Vias, RunnerInv
  <2>4. pending[t] = 0
    BY <2>1, Begun DEF Vias, FlightSteps, Outs
  <2>5. /\ agents \subseteq agents' /\ timers \subseteq timers' /\ timers' \ timers = {}
        /\ \A a \in agents' \ agents : /\ a \in Agents /\ a.t = t /\ a.n = bridges.n[t] + 1
                                       /\ a.via = "spawn" /\ a.st # "orphan"
        /\ \E a \in agents' : a.t = t /\ a.n = bridges.n[t] + 1
    BY <2>1, <2>2, <2>3
  <2>6. "spawn" \in Vias /\ "launching" \in FlightSteps /\ "none" \in Outs \ {"ok"} /\ "launching" \in Runner!InFlight
    BY DEF Vias, FlightSteps, Outs, Runner!InFlight
  <2> QED BY <2>1, <2>4, <2>5, <2>6, <1>0, BeginKeeps
<1>3. CASE Runner!SpawnFails(t)
  <2>1. Runner!Begin(t, "spawn", "settled", "fail") /\ UNCHANGED <<pending, timers, agents>>
    BY <1>3 DEF Runner!SpawnFails
  <2>2. pending[t] = 0
    BY <2>1, Begun DEF Vias, FlightSteps, Outs
  <2> QED BY <2>1, <2>2, <1>0, BeginKeeps DEF Vias, FlightSteps, Outs, Runner!InFlight
<1> QED BY <1>1, <1>2, <1>3

\* A flight that goes on keeps its number, its way and what it said.
LEMMA Advanced ==
  ASSUME RunnerTyped, NEW t \in Tracks, NEW step \in FlightSteps, flight' = [flight EXCEPT ![t].step = step]
  PROVE  /\ flight' \in [Tracks -> Flights]
         /\ \A z \in Tracks : /\ flight'[z].step = IF z = t THEN step ELSE flight[z].step
                              /\ flight'[z].out = flight[z].out
                              /\ flight'[z].n = flight[z].n /\ flight'[z].via = flight[z].via
                              /\ z # t => flight'[z] = flight[z]
<1>1. flight \in [Tracks -> Flights]
  BY DEF RunnerTyped
<1>2. flight' \in [Tracks -> Flights]
  BY <1>1 DEF Flights
<1>3. flight'[t] = [step |-> step, n |-> flight[t].n, via |-> flight[t].via, out |-> flight[t].out]
  BY <1>1 DEF Flights
<1>4. \A z \in Tracks \ {t} : flight'[z] = flight[z]
  BY <1>1
<1> QED BY <1>2, <1>3, <1>4, ZenonT(60)

LEMMA ReleaseKeeps ==
  ASSUME RunnerInv, NEW t \in Tracks, Runner!Release(t)
  PROVE  RunnerInv'
<1> USE DEF RunnerInv
<1>1. /\ flight[t].step = "launching" /\ UNCHANGED <<sprint, owner, pending, story, bridges>>
      /\ timers' = IF owner.timed THEN timers \cup {<<t, flight[t].n>>} ELSE timers
  BY DEF Runner!Release, Runner!Armed
<1>2. /\ flight' \in [Tracks -> Flights]
      /\ \A z \in Tracks : /\ flight'[z].step = IF z = t THEN "waiting" ELSE flight[z].step
                           /\ flight'[z].out = flight[z].out
                           /\ flight'[z].n = flight[z].n /\ flight'[z].via = flight[z].via
                           /\ z # t => flight'[z] = flight[z]
  BY Advanced DEF Runner!Release, FlightSteps
<1>3. /\ agents' \subseteq Agents
      /\ \A b \in agents' : \/ b \in agents /\ (b.t = t => b.n # flight[t].n)
                           \/ \E a \in agents : a.t = t /\ a.n = flight[t].n /\ b.t = t /\ b.n = a.n
                                              /\ b.via = a.via /\ b.st = "working"
      /\ \A a \in agents : \E b \in agents' : b.t = a.t /\ b.n = a.n
      /\ \A a \in agents : a.t # t => a \in agents'
  <2>1. \A a \in Agents : /\ [a EXCEPT !.st = "working"] \in Agents
                          /\ [a EXCEPT !.st = "working"].t = a.t /\ [a EXCEPT !.st = "working"].n = a.n
                          /\ [a EXCEPT !.st = "working"].via = a.via /\ [a EXCEPT !.st = "working"].st = "working"
    BY DEF Agents
  <2>2. agents' = (agents \ Runner!Of(t)) \cup {[a EXCEPT !.st = "working"] : a \in Runner!Of(t)}
    BY DEF Runner!Release
  <2>3. agents \subseteq Agents /\ \A a \in agents : a \in Runner!Of(t) <=> a.t = t /\ a.n = flight[t].n
    BY DEF RunnerTyped, Runner!Of
  <2>4. Runner!Of(t) \subseteq agents
    BY DEF Runner!Of
  <2>5. \A b \in agents' : b \in agents \ Runner!Of(t) \/ \E a \in Runner!Of(t) : b = [a EXCEPT !.st = "working"]
    BY <2>2
  <2>6. \A a \in Runner!Of(t) : [a EXCEPT !.st = "working"] \in agents'
    BY <2>2
  <2>7. agents' \subseteq Agents
    BY <2>1, <2>3, <2>4, <2>5
  <2>8. \A b \in agents' : \/ b \in agents /\ (b.t = t => b.n # flight[t].n)
                           \/ \E a \in agents : a.t = t /\ a.n = flight[t].n /\ b.t = t /\ b.n = a.n
                                              /\ b.via = a.via /\ b.st = "working"
    <3> SUFFICES ASSUME NEW b \in agents', ~(b \in agents /\ (b.t = t => b.n # flight[t].n))
                 PROVE  \E a \in agents : /\ a.t = t /\ a.n = flight[t].n /\ b.t = t /\ b.n = a.n
                                          /\ b.via = a.via /\ b.st = "working"
      OBVIOUS
    <3>1. PICK a \in Runner!Of(t) : b = [a EXCEPT !.st = "working"]
      BY <2>3, <2>5
    <3>2. a \in agents /\ a \in Agents /\ a.t = t /\ a.n = flight[t].n
      BY <2>3, <2>4
    <3> QED BY <2>1, <3>1, <3>2
  <2>9. \A a \in agents : a \notin Runner!Of(t) => a \in agents'
    BY <2>2
  <2>10. \A a \in agents : \E b \in agents' : b.t = a.t /\ b.n = a.n
    BY <2>1, <2>3, <2>6, <2>9
  <2> QED BY <2>3, <2>7, <2>8, <2>9, <2>10
<1>4. \A a \in agents : a.t = t /\ a.n = flight[t].n => a.via = "spawn"
  BY <1>1 DEF AgentsKnown, FlightsKnown, Runner!InFlight
<1>5. RunnerTyped'
  <2>1. timers' \subseteq Tracks \X Nat
    BY <1>1, RunnerFields DEF RunnerTyped
  <2> QED BY <1>1, <1>2, <1>3, <2>1 DEF RunnerTyped
<1>6. Unowned'
  BY <1>1 DEF Unowned, Runner!NoFlight
<1>7. FlightsKnown'
  BY <1>1, <1>2, RunnerFields DEF FlightsKnown, Runner!InFlight
<1>8. TimersKnown'
  BY <1>1, <1>2, RunnerFields DEF TimersKnown
<1>9. AgentsKnown'
  BY <1>1, <1>2, <1>3, <1>4, RunnerFields DEF AgentsKnown, FlightsKnown, Runner!InFlight
<1>10. LateKnown'
  BY <1>1, <1>2, <1>3, <1>4, RunnerFields DEF LateKnown
<1>11. Runner!ResultsStand'
  BY <1>1, <1>2, RunnerFields DEF Runner!ResultsStand, Runner!Overtaken
<1>12. Runner!DispatchesSettle'
  <2>1. \A z \in Tracks : z \in Runner!Busy' => z \in Runner!Busy
    BY <1>1, <1>2 DEF Runner!Busy, Runner!InFlight
  <2>2. \A z \in Runner!Busy' : flight'[z].via = "colony" => pending'[z] = flight'[z].n
    BY <1>1, <1>2, <2>1 DEF Runner!DispatchesSettle, Runner!Busy
  <2>3. \A z \in Runner!Busy' : flight'[z].via # "colony" => Runner!Of(z)' # {}
    <3> SUFFICES ASSUME NEW z \in Tracks, z \in Runner!Busy, flight'[z].via # "colony" PROVE Runner!Of(z)' # {}
      BY <2>1 DEF Runner!Busy
    <3>1. PICK a \in agents : a.t = z /\ a.n = flight[z].n
      BY <1>2 DEF Runner!DispatchesSettle, Runner!Of
    <3>2. PICK b \in agents' : b.t = z /\ b.n = flight[z].n
      BY <1>3, <3>1
    <3> QED BY <1>2, <3>2 DEF Runner!Of
  <2>4. \A z \in Runner!Busy' : owner.timed /\ flight'[z].step = "waiting" => <<z, flight'[z].n>> \in timers'
    BY <1>1, <1>2, <2>1 DEF Runner!DispatchesSettle, Runner!Busy
  <2> QED BY <1>1, <2>2, <2>3, <2>4 DEF Runner!DispatchesSettle
<1>13. Runner!NoneLeftBehind'
  BY <1>1, <1>2, <1>3, RunnerFields DEF Runner!NoneLeftBehind, Runner!InFlight
<1> QED BY <1>5, <1>6, <1>7, <1>8, <1>9, <1>10, <1>11, <1>12, <1>13

LEMMA SpawnEndKeeps ==
  ASSUME RunnerInv, NEW t \in Tracks, Runner!LauncherFails(t) \/ Runner!CommandEnds(t) \/ Runner!ForceKill(t)
  PROVE  RunnerInv'
<1>0. /\ story \in [won : SUBSET (Tracks \X Nat), late : SUBSET (Tracks \X Nat), moved : SUBSET (Tracks \X Runner!States)]
      /\ <<t, flight[t].n>> \in Tracks \X Nat /\ {"ok", "fail", "timeout"} \subseteq Outs
  BY RunnerFields DEF RunnerInv, RunnerTyped, Outs
<1>1. CASE Runner!LauncherFails(t)
  <2>1. /\ flight[t].step \in Runner!InFlight /\ flight[t].via = "spawn" /\ Runner!Settled(t, "fail", agents \ Runner!Of(t))
        /\ story' = story /\ UNCHANGED <<sprint, owner, pending, bridges>>
    BY <1>1 DEF Runner!LauncherFails, Runner!InFlight, RunnerInv, FlightsKnown
  <2> QED BY <1>0, <2>1, SpawnSettles
<1>2. CASE Runner!CommandEnds(t)
  <2>1. /\ flight[t].step \in Runner!InFlight /\ flight[t].via = "spawn"
        /\ UNCHANGED <<sprint, owner, pending, bridges>>
    BY <1>2 DEF Runner!CommandEnds, Runner!InFlight
  <2>2. PICK ok \in BOOLEAN :
          /\ Runner!Settled(t, Runner!Outcome(t, ok), agents \ Runner!Of(t))
          /\ story' = IF ok /\ flight[t].step = "waiting" THEN [story EXCEPT !.won = @ \cup {<<t, flight[t].n>>}]
                     ELSE story
    BY <1>2 DEF Runner!CommandEnds
  <2>3. /\ Runner!Outcome(t, ok) \in Outs
        /\ Runner!Outcome(t, ok) = "ok" => ok /\ flight[t].step = "waiting"
    BY <1>2 DEF Runner!Outcome, Outs, Runner!CommandEnds
  <2>4. /\ story'.late = story.late /\ story'.moved = story.moved /\ story.won \subseteq story'.won
        /\ story' \in [won : SUBSET (Tracks \X Nat), late : SUBSET (Tracks \X Nat), moved : SUBSET (Tracks \X Runner!States)]
        /\ ok /\ flight[t].step = "waiting" => <<t, flight[t].n>> \in story'.won
    BY <1>0, <2>2
  <2> QED BY <2>1, <2>2, <2>3, <2>4, SpawnSettles
<1>3. CASE Runner!ForceKill(t)
  <2>1. /\ flight[t].step \in Runner!InFlight /\ flight[t].via = "spawn" /\ Runner!Settled(t, "timeout", agents \ Runner!Of(t))
        /\ story' = story /\ UNCHANGED <<sprint, owner, pending, bridges>>
    BY <1>3 DEF Runner!ForceKill, Runner!InFlight, RunnerInv, FlightsKnown
  <2> QED BY <1>0, <2>1, SpawnSettles
<1> QED BY <1>1, <1>2, <1>3

LEMMA StopKeeps ==
  ASSUME RunnerInv, NEW t \in Tracks, Runner!SpawnTimesOut(t)
  PROVE  RunnerInv'
<1> USE DEF RunnerInv
<1>1. /\ <<t, flight[t].n>> \in timers /\ flight[t].via = "spawn"
      /\ timers' = timers \ {<<t, flight[t].n>>}
      /\ UNCHANGED <<sprint, owner, pending, agents, story, bridges>>
  BY DEF Runner!SpawnTimesOut, Runner!Stop
<1>2. /\ flight' \in [Tracks -> Flights]
      /\ \A z \in Tracks : /\ flight'[z].step = IF z = t THEN "stopping" ELSE flight[z].step
                           /\ flight'[z].out = flight[z].out
                           /\ flight'[z].n = flight[z].n /\ flight'[z].via = flight[z].via
                           /\ z # t => flight'[z] = flight[z]
  BY Advanced DEF Runner!SpawnTimesOut, Runner!Stop, FlightSteps
<1>3. flight[t].step = "waiting"
  BY <1>1 DEF TimersKnown
<1>4. RunnerTyped'
  BY <1>1, <1>2 DEF RunnerTyped
<1>5. Unowned'
  BY <1>1, <1>3 DEF Unowned, Runner!NoFlight
<1>6. FlightsKnown'
  BY <1>1, <1>2, <1>3, RunnerFields DEF FlightsKnown, Runner!InFlight
<1>7. TimersKnown'
  BY <1>1, <1>2, RunnerFields DEF TimersKnown
<1>8. AgentsKnown'
  BY <1>1, <1>2, <1>3, RunnerFields DEF AgentsKnown, Runner!InFlight
<1>9. LateKnown'
  <2>1. \A a \in agents : a.t = t /\ a.n = flight[t].n => a.via = "spawn"
    BY <1>1, <1>3 DEF AgentsKnown, Runner!InFlight
  <2> QED BY <1>1, <1>2, <1>3, <2>1, RunnerFields DEF LateKnown
<1>10. Runner!ResultsStand'
  BY <1>1, <1>2, RunnerFields DEF Runner!ResultsStand, Runner!Overtaken
<1>11. Runner!DispatchesSettle'
  <2>1. \A z \in Runner!Busy' : z \in Runner!Busy /\ (z # t => flight'[z] = flight[z])
    BY <1>2, <1>3 DEF Runner!Busy, Runner!InFlight
  <2>2. \A z \in Runner!Busy' : IF flight'[z].via = "colony" THEN pending'[z] = flight'[z].n ELSE Runner!Of(z)' # {}
    <3> SUFFICES ASSUME NEW z \in Tracks, z \in Runner!Busy
                 PROVE  IF flight'[z].via = "colony" THEN pending'[z] = flight'[z].n ELSE Runner!Of(z)' # {}
      BY <2>1 DEF Runner!Busy
    <3>1. /\ IF flight[z].via = "colony" THEN pending[z] = flight[z].n ELSE Runner!Of(z) # {}
          /\ flight'[z].n = flight[z].n /\ flight'[z].via = flight[z].via
      BY <1>2 DEF Runner!DispatchesSettle
    <3>2. Runner!Of(z)' = Runner!Of(z)
      BY <1>1, <3>1 DEF Runner!Of
    <3> QED BY <1>1, <3>1, <3>2
  <2>3. \A z \in Runner!Busy' : owner.timed /\ flight'[z].step = "waiting" => <<z, flight'[z].n>> \in timers'
    BY <1>1, <1>2, <2>1 DEF Runner!DispatchesSettle, Runner!Busy
  <2> QED BY <1>1, <2>2, <2>3 DEF Runner!DispatchesSettle
<1>12. Runner!NoneLeftBehind'
  BY <1>1, <1>2, <1>3, RunnerFields DEF Runner!NoneLeftBehind, Runner!InFlight
<1> QED BY <1>4, <1>5, <1>6, <1>7, <1>8, <1>9, <1>10, <1>11, <1>12

\* An agent that is not spawned, or an orphan, goes: nothing under way was waiting for it alone.
LEMMA AgentGoes ==
  ASSUME RunnerInv, NEW rest \in SUBSET agents,
         \A a \in agents \ rest : a.via = "colony" \/ a.st = "orphan",
         NEW z \in Runner!Busy, flight[z].via = "spawn"
  PROVE  \E a \in rest : a.t = z /\ a.n = flight[z].n
<1>1. PICK a \in agents : a.t = z /\ a.n = flight[z].n
  BY DEF RunnerInv, Runner!DispatchesSettle, Runner!Of
<1>2. a.via = "spawn" /\ a.st # "orphan"
  BY <1>1 DEF RunnerInv, AgentsKnown, Runner!Busy
<1> QED BY <1>1, <1>2

LEMMA OrphanKeeps ==
  ASSUME RunnerInv, NEW a \in agents, Runner!OrphanEnds(a)
  PROVE  RunnerInv'
<1> USE DEF RunnerInv
<1>1. /\ a.st = "orphan" /\ agents' = agents \ {a}
      /\ UNCHANGED <<sprint, owner, flight, pending, timers, story, bridges>>
  BY DEF Runner!OrphanEnds
<1>2. RunnerTyped' /\ Unowned' /\ FlightsKnown' /\ TimersKnown'
  BY <1>1 DEF RunnerTyped, Unowned, FlightsKnown, TimersKnown
<1>3. AgentsKnown' /\ LateKnown' /\ Runner!ResultsStand' /\ Runner!NoneLeftBehind'
  BY <1>1 DEF AgentsKnown, LateKnown, Runner!ResultsStand, Runner!Overtaken, Runner!NoneLeftBehind
<1>4. Runner!DispatchesSettle'
  <2> SUFFICES ASSUME NEW z \in Runner!Busy, flight[z].via # "colony" PROVE Runner!Of(z)' # {}
    BY <1>1 DEF Runner!DispatchesSettle, Runner!Busy
  <2>1. flight[z].via = "spawn"
    BY RunnerFields DEF Runner!Busy, Vias
  <2>2. PICK b \in agents' : b.t = z /\ b.n = flight[z].n
    BY <1>1, <2>1, AgentGoes
  <2> QED BY <1>1, <2>2 DEF Runner!Of
<1> QED BY <1>2, <1>3, <1>4

\* A dispatch over a colony settles, whoever's word it was: nobody waits for it any
\* more, and only agents of the colony are gone.
LEMMA ColonySettles ==
  ASSUME RunnerInv, NEW t \in Tracks, pending[t] # 0, NEW out \in Outs,
         flight' = [flight EXCEPT ![t].step = "settled", ![t].out = out],
         pending' = [pending EXCEPT ![t] = 0], timers' = timers \ {<<t, flight[t].n>>},
         agents' \in SUBSET agents, \A a \in agents \ agents' : a.via = "colony",
         story' \in [won : SUBSET (Tracks \X Nat), late : SUBSET (Tracks \X Nat), moved : SUBSET (Tracks \X Runner!States)],
         story'.moved = story.moved, story.won \subseteq story'.won, story.late \subseteq story'.late,
         \A e \in story'.late \ story.late : e = <<t, flight[t].n>>,
         out = "ok" => <<t, flight[t].n>> \in story'.won \/ Runner!Overtaken(t),
         \A a \in agents' : a.via = "colony" /\ a.st = "working" /\ a.t = t => \E e \in story'.late : e[1] = t,
         UNCHANGED <<sprint, owner, bridges>>
  PROVE  RunnerInv'
<1> USE DEF RunnerInv
<1>1. /\ flight' \in [Tracks -> Flights]
      /\ \A z \in Tracks : /\ flight'[z].step = IF z = t THEN "settled" ELSE flight[z].step
                           /\ flight'[z].out = IF z = t THEN out ELSE flight[z].out
                           /\ flight'[z].n = flight[z].n /\ flight'[z].via = flight[z].via
                           /\ z # t => flight'[z] = flight[z]
  BY FlightWritten
<1>2. /\ flight[t].step = "waiting" /\ flight[t].via = "colony" /\ pending[t] = flight[t].n
      /\ t \in Runner!Busy
  BY DEF FlightsKnown, Runner!Busy, Runner!InFlight
<1>3. /\ pending' \in [Tracks -> Nat] /\ pending'[t] = 0 /\ \A z \in Tracks \ {t} : pending'[z] = pending[z]
  BY DEF RunnerTyped
<1>4. RunnerTyped'
  BY <1>1, <1>3 DEF RunnerTyped
<1>5. Unowned'
  BY <1>2 DEF Unowned, Runner!NoFlight
<1>6. FlightsKnown'
  BY <1>1, <1>3, RunnerFields DEF FlightsKnown, Runner!InFlight
<1>7. TimersKnown'
  BY <1>1, RunnerFields DEF TimersKnown
<1>8. AgentsKnown'
  BY <1>1, RunnerFields DEF AgentsKnown, Runner!InFlight
<1>9. LateKnown'
  <2>1. owner.kind # "none"
    BY <1>2 DEF Unowned, Runner!NoFlight
  <2>2. \A e \in story.late : /\ e[2] # 0 /\ e[2] <= flight'[e[1]].n
                              /\ e[2] = flight'[e[1]].n => flight'[e[1]].step = "settled"
    BY <1>1, <2>1, RunnerFields DEF LateKnown
  <2>3. \A e \in story'.late \ story.late : /\ e[2] # 0 /\ e[2] <= flight'[e[1]].n
                                            /\ e[2] = flight'[e[1]].n => flight'[e[1]].step = "settled"
    BY <1>1, <1>2, RunnerFields
  <2>4. \A a \in agents' : a.via = "colony" /\ a.st = "working" =>
          \/ a.n = flight'[a.t].n /\ flight'[a.t].step = "waiting"
          \/ \E e \in story'.late : e[1] = a.t
    BY <1>1, <2>1, RunnerFields DEF LateKnown
  <2> QED BY <2>2, <2>3, <2>4 DEF LateKnown
<1>10. Runner!ResultsStand'
  <2>1. \A z \in Tracks : Runner!Overtaken(z) => Runner!Overtaken(z)'
    BY <1>1, RunnerFields DEF Runner!Overtaken
  <2> QED BY <1>1, <2>1 DEF Runner!ResultsStand
<1>11. Runner!DispatchesSettle'
  <2>1. \A z \in Runner!Busy' : z \in Runner!Busy /\ z # t /\ flight'[z] = flight[z]
    BY <1>1 DEF Runner!Busy, Runner!InFlight
  <2>2. \A z \in Runner!Busy' : flight'[z].via = "colony" => pending'[z] = flight'[z].n
    BY <1>3, <2>1, ZenonT(60) DEF Runner!DispatchesSettle, Runner!Busy
  <2>3. \A z \in Runner!Busy' : flight'[z].via # "colony" => Runner!Of(z)' # {}
    <3> SUFFICES ASSUME NEW z \in Runner!Busy, flight[z].via # "colony", flight'[z] = flight[z] PROVE Runner!Of(z)' # {}
      BY <2>1
    <3>1. flight[z].via = "spawn"
      BY RunnerFields DEF Runner!Busy, Vias
    <3>2. PICK b \in agents' : b.t = z /\ b.n = flight[z].n
      BY <3>1, AgentGoes, ZenonT(60)
    <3> QED BY <3>2 DEF Runner!Of
  <2>4. \A z \in Runner!Busy' : owner.timed /\ flight'[z].step = "waiting" => <<z, flight'[z].n>> \in timers'
    <3> SUFFICES ASSUME NEW z \in Runner!Busy, z # t, owner.timed, flight[z].step = "waiting"
                 PROVE  <<z, flight[z].n>> \in timers'
      BY <2>1
    <3>1. <<z, flight[z].n>> \in timers
      BY DEF Runner!DispatchesSettle
    <3> QED BY <3>1
  <2> QED BY <2>2, <2>3, <2>4 DEF Runner!DispatchesSettle
<1>12. Runner!NoneLeftBehind'
  <2>1. \A a \in agents : a.t = t /\ a.n = flight[t].n => a.via = "colony"
    BY <1>2 DEF AgentsKnown, Runner!InFlight
  <2> QED BY <1>1, <2>1, RunnerFields DEF Runner!NoneLeftBehind
<1> QED BY <1>4, <1>5, <1>6, <1>7, <1>8, <1>9, <1>10, <1>11, <1>12

LEMMA ReportKeeps ==
  ASSUME RunnerInv, NEW a \in agents, Runner!ColonyReports(a)
  PROVE  RunnerInv'
<1> USE DEF RunnerInv
<1>0. /\ story \in [won : SUBSET (Tracks \X Nat), late : SUBSET (Tracks \X Nat), moved : SUBSET (Tracks \X Runner!States)]
      /\ a \in Agents /\ a.t \in Tracks /\ <<a.t, a.n>> \in Tracks \X Nat /\ pending \in [Tracks -> Nat]
  BY RunnerFields DEF RunnerTyped
<1>1. a.via = "colony" /\ a.st = "working" /\ pending' = [pending EXCEPT ![a.t] = 0] /\ UNCHANGED <<sprint, owner, bridges>>
  BY DEF Runner!ColonyReports
<1>2. PICK ok \in BOOLEAN :
        /\ IF pending[a.t] # 0 THEN Runner!Settled(a.t, IF ok THEN "ok" ELSE "fail", agents \ {a})
           ELSE agents' = agents \ {a} /\ UNCHANGED <<flight, timers>>
        /\ story' = IF ok THEN [story EXCEPT !.won = @ \cup {<<a.t, a.n>>}] ELSE story
  BY DEF Runner!ColonyReports
<1>3. /\ story'.late = story.late /\ story'.moved = story.moved /\ story.won \subseteq story'.won
      /\ story' \in [won : SUBSET (Tracks \X Nat), late : SUBSET (Tracks \X Nat), moved : SUBSET (Tracks \X Runner!States)]
      /\ ok => <<a.t, a.n>> \in story'.won
  BY <1>0, <1>2
<1>4. owner.kind # "none"
  BY <1>1 DEF Unowned
<1>5. \A b \in agents : b.via = "colony" /\ b.st = "working" /\ b.t = a.t =>
        (b.n = flight[a.t].n /\ flight[a.t].step = "waiting") \/ \E e \in story.late : e[1] = a.t
  BY <1>4 DEF LateKnown
<1>6. CASE pending[a.t] # 0
  <2>1. flight[a.t].step = "waiting"
    BY <1>0, <1>6 DEF FlightsKnown
  <2>2. a.n # flight[a.t].n => Runner!Overtaken(a.t)
    <3> SUFFICES ASSUME a.n # flight[a.t].n PROVE Runner!Overtaken(a.t)
      OBVIOUS
    <3>1. PICK e \in story.late : e[1] = a.t
      BY <1>1, <1>5
    <3>2. e[2] \in Nat /\ e[2] # 0 /\ e[2] < flight[a.t].n /\ flight[a.t].n \in Nat /\ e = <<a.t, e[2]>>
      BY <1>0, <1>4, <2>1, <3>1, RunnerFields, SMTT(40) DEF LateKnown
    <3> QED BY <3>2 DEF Runner!Overtaken
  <2>3. \A b \in agents \ {a} : b.via = "colony" /\ b.st = "working" /\ b.t = a.t => \E e \in story.late : e[1] = a.t
    <3> SUFFICES ASSUME NEW b \in agents \ {a}, b.via = "colony", b.st = "working", b.t = a.t,
                        \A e \in story.late : e[1] # a.t
                 PROVE  FALSE
      OBVIOUS
    <3>1. a.n = flight[a.t].n /\ b.n = a.n
      BY <1>1, <1>5
    <3>2. a = b
      BY <1>0, <1>1, <3>1 DEF RunnerTyped, Agents
    <3> QED BY <3>2
  <2>4. PICK out \in Outs :
          /\ flight' = [flight EXCEPT ![a.t].step = "settled", ![a.t].out = out]
          /\ out = "ok" => ok
    BY <1>2, <1>6 DEF Runner!Settled, Outs
  <2>5. agents' = agents \ {a} /\ timers' = timers \ {<<a.t, flight[a.t].n>>}
    BY <1>2, <1>6 DEF Runner!Settled
  <2>6. out = "ok" => <<a.t, flight[a.t].n>> \in story'.won \/ Runner!Overtaken(a.t)
    BY <1>3, <2>2, <2>4
  <2>7. story.late \subseteq story'.late /\ \A e \in story'.late \ story.late : e = <<a.t, flight[a.t].n>>
    BY <1>3
  <2>8. agents' \in SUBSET agents /\ \A b \in agents \ agents' : b.via = "colony"
    BY <1>1, <2>5
  <2>9. \A b \in agents' : b.via = "colony" /\ b.st = "working" /\ b.t = a.t => \E e \in story'.late : e[1] = a.t
    BY <1>3, <2>3, <2>5
  <2>10. story'.moved = story.moved /\ story.won \subseteq story'.won
    BY <1>3
  <2>11. story' \in [won : SUBSET (Tracks \X Nat), late : SUBSET (Tracks \X Nat), moved : SUBSET (Tracks \X Runner!States)]
    BY <1>3
  <2>12. flight' = [flight EXCEPT ![a.t].step = "settled", ![a.t].out = out]
    BY <2>4
  <2> DEFINE t == a.t
  <2>13. t \in Tracks
    BY <1>0
  <2> HIDE DEF RunnerInv
  <2>14. pending' = [pending EXCEPT ![t] = 0] /\ UNCHANGED <<sprint, owner, bridges>> /\ pending[t] # 0
    BY <1>1, <1>6
  <2>15. flight' = [flight EXCEPT ![t].step = "settled", ![t].out = out]
    BY <2>12
  <2>16. timers' = timers \ {<<t, flight[t].n>>}
    BY <2>5
  <2>17. out = "ok" => <<t, flight[t].n>> \in story'.won \/ Runner!Overtaken(t)
    BY <2>6
  <2>18. \A e \in story'.late \ story.late : e = <<t, flight[t].n>>
    BY <2>7
  <2>19. \A b \in agents' : b.via = "colony" /\ b.st = "working" /\ b.t = t => \E e \in story'.late : e[1] = t
    BY <2>9
  <2> HIDE DEF t
  <2> QED BY <2>7, <2>8, <2>10, <2>11, <2>13, <2>14, <2>15, <2>16, <2>17, <2>18, <2>19, ColonySettles
<1>7. CASE pending[a.t] = 0
  <2>1. agents' = agents \ {a} /\ UNCHANGED <<flight, timers>> /\ pending' = pending
    BY <1>0, <1>1, <1>2, <1>7
  <2>2. RunnerTyped'
    <3>1. agents' \subseteq Agents /\ UNCHANGED <<sprint, owner, bridges, flight, timers, pending>>
      BY <1>1, <2>1 DEF RunnerTyped
    <3> QED BY <1>3, <3>1 DEF RunnerTyped
  <2>21. Unowned' /\ FlightsKnown' /\ TimersKnown'
    BY <1>1, <2>1 DEF Unowned, FlightsKnown, TimersKnown
  <2>3. AgentsKnown' /\ LateKnown' /\ Runner!NoneLeftBehind'
    BY <1>1, <1>3, <2>1 DEF AgentsKnown, LateKnown, Runner!NoneLeftBehind
  <2>4. Runner!ResultsStand'
    BY <1>1, <1>3, <2>1 DEF Runner!ResultsStand, Runner!Overtaken
  <2>5. Runner!DispatchesSettle'
    <3> SUFFICES ASSUME NEW z \in Runner!Busy, flight[z].via # "colony" PROVE Runner!Of(z)' # {}
      BY <1>1, <2>1 DEF Runner!DispatchesSettle, Runner!Busy
    <3>1. flight[z].via = "spawn"
      BY RunnerFields DEF Runner!Busy, Vias
    <3>2. PICK b \in agents' : b.t = z /\ b.n = flight[z].n
      BY <1>1, <2>1, <3>1, AgentGoes
    <3> QED BY <2>1, <3>2 DEF Runner!Of
  <2> QED BY <2>2, <2>21, <2>3, <2>4, <2>5
<1> QED BY <1>6, <1>7

LEMMA TimeoutKeeps ==
  ASSUME RunnerInv, NEW t \in Tracks, NEW n \in 1..MaxDispatches, Runner!ColonyTimesOut(t, n)
  PROVE  RunnerInv'
<1> USE DEF RunnerInv
<1>1. <<t, n>> \in timers /\ flight[t].via = "colony" /\ UNCHANGED <<sprint, owner, bridges>>
  BY DEF Runner!ColonyTimesOut
<1>2. flight[t].step = "waiting" /\ flight[t].n = n
  BY <1>1 DEF TimersKnown
<1>3. pending[t] # 0
  BY <1>1, <1>2 DEF Runner!DispatchesSettle, FlightsKnown, Runner!Busy, Runner!InFlight
<1>4. /\ flight' = [flight EXCEPT ![t].step = "settled", ![t].out = "timeout"]
      /\ pending' = [pending EXCEPT ![t] = 0] /\ timers' = timers \ {<<t, flight[t].n>>}
      /\ agents' \in Runner!Cancelled(t)
      /\ story' = [story EXCEPT !.late = @ \cup {<<t, n>>}]
  BY <1>2, <1>3 DEF Runner!ColonyTimesOut
<1>5. agents' \in SUBSET agents /\ \A a \in agents \ agents' : a.via = "colony"
  BY <1>4 DEF Runner!Cancelled
<1>6. story \in [won : SUBSET (Tracks \X Nat), late : SUBSET (Tracks \X Nat), moved : SUBSET (Tracks \X Runner!States)]
  BY DEF RunnerTyped
<1>7. /\ story' \in [won : SUBSET (Tracks \X Nat), late : SUBSET (Tracks \X Nat), moved : SUBSET (Tracks \X Runner!States)]
      /\ story'.moved = story.moved /\ story.won \subseteq story'.won /\ story'.late = story.late \cup {<<t, flight[t].n>>}
  BY <1>2, <1>4, <1>6, RunnerFields
<1>8. \E e \in story'.late : e[1] = t
  <2>1. <<t, flight[t].n>> \in story'.late /\ <<t, flight[t].n>>[1] = t
    BY <1>7
  <2> QED BY <2>1
<1> HIDE DEF RunnerInv
<1> QED BY <1>1, <1>3, <1>4, <1>5, <1>7, <1>8, ColonySettles DEF Outs

\* A process that dies, and a loop that shuts down.
LEMMA EndKeeps == RunnerInv /\ (Runner!Die \/ Runner!LoopEnds) => RunnerInv'
<1> SUFFICES ASSUME RunnerInv, Runner!Die \/ Runner!LoopEnds PROVE RunnerInv'
  OBVIOUS
<1>1. Runner!Gone(agents) /\ UNCHANGED <<story, sprint>>
  BY DEF Runner!Die, Runner!LoopEnds
<1>2. bridges' = bridges \/ bridges' = [bridges EXCEPT !.faults = @ + 1]
  BY DEF Runner!Die, Runner!LoopEnds
<1>3. RunnerTyped
  BY DEF RunnerInv
<1>4. bridges' \in [bridges : Nat, moves : Nat, faults : Nat, n : [Tracks -> Nat]] /\ bridges'.n = bridges.n
  BY <1>2, <1>3 DEF RunnerTyped
<1>5. sprint' \in [Tracks -> [state : Runner!States, fails : Nat]]
  BY <1>1, <1>3 DEF RunnerTyped
<1> QED BY <1>1, <1>4, <1>5, GoneKeeps

\* The results move only tasks that are where they were.
LEMMA ApplyKeeps == RunnerInv /\ Runner!Apply => RunnerInv'
<1> SUFFICES ASSUME RunnerInv, Runner!Apply PROVE RunnerInv'
  OBVIOUS
<1>1. RunnerTyped
  BY DEF RunnerInv
<1>2. /\ Runner!Gone(agents) /\ UNCHANGED story
      /\ bridges' \in [bridges : Nat, moves : Nat, faults : Nat, n : [Tracks -> Nat]] /\ bridges'.n = bridges.n
  BY <1>1 DEF Runner!Apply, RunnerTyped
<1>3. sprint \in [Tracks -> [state : Runner!States, fails : Nat]]
  BY <1>1 DEF RunnerTyped
<1>4. \A t \in Tracks : [sprint[t] EXCEPT !.state = "Review"] \in [state : Runner!States, fails : Nat]
  BY <1>3 DEF Runner!States
<1>5. \A t \in Tracks : [state |-> "Failed", fails |-> sprint[t].fails + 1] \in [state : Runner!States, fails : Nat]
  BY <1>3 DEF Runner!States
<1>6. sprint' \in [Tracks -> [state : Runner!States, fails : Nat]]
  BY <1>3, <1>4, <1>5 DEF Runner!Apply
<1>7. \A t \in Tracks : sprint[t].state # "Open" => sprint'[t] = sprint[t]
  BY DEF Runner!Apply, Runner!Applies
<1> QED BY <1>2, <1>6, <1>7, GoneKeeps

\* A pool that is done has nothing under way; the colony's agents are the colony's.
LEMMA PoolKeeps == RunnerInv /\ Runner!PoolDone => RunnerInv'
<1> SUFFICES ASSUME RunnerInv, Runner!PoolDone PROVE RunnerInv'
  OBVIOUS
<1> USE DEF RunnerInv
<1>1. /\ owner.kind = "runner" /\ Runner!Busy = {} /\ owner' = [owner EXCEPT !.kind = "applying"]
      /\ UNCHANGED <<sprint, flight, pending, timers, story, bridges>>
  BY DEF Runner!PoolDone
<1>2. PICK left \in SUBSET {a \in agents : a.via = "colony"} :
        agents' = {a \in agents : a.via = "spawn"} \cup {[a EXCEPT !.st = "orphan"] : a \in left}
  BY DEF Runner!PoolDone
<1>3. \A b \in agents' : \/ b \in agents /\ b.via = "spawn"
                         \/ \E a \in agents : b = [a EXCEPT !.st = "orphan"]
  BY <1>2
<1>4. \A a \in agents : /\ [a EXCEPT !.st = "orphan"] \in Agents
                        /\ [a EXCEPT !.st = "orphan"].st = "orphan"
                        /\ [a EXCEPT !.st = "orphan"].n = a.n /\ [a EXCEPT !.st = "orphan"].t = a.t
                        /\ [a EXCEPT !.st = "orphan"].via = a.via
  BY DEF RunnerTyped, Agents
<1>5. \A t \in Tracks : flight[t].step \notin Runner!InFlight
  BY <1>1 DEF Runner!Busy
<1>6. agents' \subseteq Agents /\ owner' \in [kind : OwnerKinds, colony : BOOLEAN, timed : BOOLEAN, max : Pools \cup {1}]
  <2>1. agents' \subseteq Agents
    BY <1>3, <1>4 DEF RunnerTyped
  <2>2. owner' \in [kind : OwnerKinds, colony : BOOLEAN, timed : BOOLEAN, max : Pools \cup {1}]
    BY <1>1 DEF RunnerTyped, OwnerKinds
  <2> QED BY <2>1, <2>2
<1>7. RunnerTyped'
  BY <1>1, <1>6 DEF RunnerTyped
<1>8. owner'.kind = "applying"
  BY <1>1 DEF RunnerTyped
<1>9. ASSUME NEW b \in agents'
      PROVE  /\ b.n <= bridges.n[b.t]
             /\ b.via = "colony" => b.st # "working"
             /\ b.via = "spawn" /\ b.st # "orphan" => b \in agents
  <2>1. CASE b \in agents /\ b.via = "spawn"
    BY <2>1 DEF AgentsKnown
  <2>2. CASE \E a \in agents : b = [a EXCEPT !.st = "orphan"]
    <3>1. PICK a \in agents : b = [a EXCEPT !.st = "orphan"]
      BY <2>2
    <3>2. b.st = "orphan" /\ b.n = a.n /\ b.t = a.t
      BY <1>4, <3>1
    <3> QED BY <3>2 DEF AgentsKnown
  <2> QED BY <1>3, <2>1, <2>2
<1>10. Unowned' /\ FlightsKnown' /\ TimersKnown' /\ Runner!ResultsStand'
  BY <1>1, <1>8 DEF Unowned, FlightsKnown, TimersKnown, Runner!ResultsStand, Runner!Overtaken
<1>11. AgentsKnown'
  BY <1>1, <1>5, <1>6, <1>9 DEF AgentsKnown, Agents
<1>12. LateKnown'
  BY <1>1, <1>8, <1>9 DEF LateKnown
<1>13. Runner!DispatchesSettle' /\ Runner!NoneLeftBehind'
  BY <1>1, <1>9 DEF Runner!DispatchesSettle, Runner!Busy, Runner!NoneLeftBehind
<1> QED BY <1>7, <1>10, <1>11, <1>12, <1>13

LEMMA MoveKeeps ==
  ASSUME RunnerInv, NEW t \in Tracks, Runner!OthersMove(t)
  PROVE  RunnerInv'
<1> USE DEF RunnerInv
<1>1. PICK s \in Runner!States :
        /\ sprint' = [sprint EXCEPT ![t].state = s]
        /\ story' = [story EXCEPT !.moved = {m \in @ : m[1] # t} \cup {<<t, s>>}]
  BY DEF Runner!OthersMove
<1>2. UNCHANGED <<owner, flight, pending, timers, agents>> /\ bridges' = [bridges EXCEPT !.moves = @ + 1]
  BY DEF Runner!OthersMove
<1>3. bridges' \in [bridges : Nat, moves : Nat, faults : Nat, n : [Tracks -> Nat]] /\ bridges'.n = bridges.n
  BY <1>2 DEF RunnerTyped
<1>4. sprint \in [Tracks -> [state : Runner!States, fails : Nat]]
  BY DEF RunnerTyped
<1>5. /\ sprint' \in [Tracks -> [state : Runner!States, fails : Nat]] /\ sprint'[t].state = s
      /\ \A z \in Tracks \ {t} : sprint'[z] = sprint[z]
  <2>1. [sprint[t] EXCEPT !.state = s] \in [state : Runner!States, fails : Nat]
    BY <1>4
  <2> QED BY <1>1, <1>4, <2>1
<1>6. /\ story \in [won : SUBSET (Tracks \X Nat), late : SUBSET (Tracks \X Nat), moved : SUBSET (Tracks \X Runner!States)]
  BY DEF RunnerTyped
<1>7. /\ story' \in [won : SUBSET (Tracks \X Nat), late : SUBSET (Tracks \X Nat), moved : SUBSET (Tracks \X Runner!States)]
      /\ story'.won = story.won /\ story'.late = story.late
      /\ story'.moved = {m \in story.moved : m[1] # t} \cup {<<t, s>>}
  BY <1>1, <1>6
<1>8. RunnerTyped'
  BY <1>2, <1>3, <1>5, <1>7 DEF RunnerTyped
<1>9. Unowned' /\ FlightsKnown' /\ TimersKnown' /\ AgentsKnown' /\ LateKnown'
  BY <1>2, <1>3, <1>7 DEF Unowned, FlightsKnown, TimersKnown, AgentsKnown, LateKnown
<1>10. Runner!ResultsStand'
  <2>1. \A m \in story'.moved : m[2] # "Open" => sprint'[m[1]].state = m[2]
    <3> SUFFICES ASSUME NEW m \in story'.moved, m[2] # "Open" PROVE sprint'[m[1]].state = m[2]
      OBVIOUS
    <3>1. CASE m = <<t, s>>
      BY <1>5, <3>1
    <3>2. CASE m \in story.moved /\ m[1] # t
      <4>1. m[1] \in Tracks \ {t}
        BY <1>6, <3>2
      <4> QED BY <1>5, <3>2, <4>1 DEF Runner!ResultsStand
    <3> QED BY <1>7, <3>1, <3>2
  <2> QED BY <1>2, <1>7, <2>1 DEF Runner!ResultsStand, Runner!Overtaken
<1>11. Runner!DispatchesSettle' /\ Runner!NoneLeftBehind'
  BY <1>2 DEF Runner!DispatchesSettle, Runner!Busy, Runner!Of, Runner!NoneLeftBehind
<1> QED BY <1>8, <1>9, <1>10, <1>11

LEMMA RunnerStep == RunnerInv /\ [Runner!Next]_agentVars => RunnerInv'
<1> SUFFICES ASSUME RunnerInv, [Runner!Next]_agentVars PROVE RunnerInv'
  OBVIOUS
<1>1. CASE Runner!StartRunner \/ Runner!StartLoop
  BY <1>1, StartKeeps
<1>2. CASE Runner!Die \/ Runner!LoopEnds
  BY <1>2, EndKeeps
<1>3. CASE Runner!PoolDone \/ Runner!Apply
  BY <1>3, PoolKeeps, ApplyKeeps
<1>4. ASSUME NEW t \in Tracks, Runner!DispatchViaColony(t) \/ Runner!DispatchViaSpawn(t) \/ Runner!SpawnFails(t)
      PROVE  RunnerInv'
  BY <1>4, DispatchKeeps
<1>5. ASSUME NEW t \in Tracks, Runner!LauncherFails(t) \/ Runner!CommandEnds(t) \/ Runner!ForceKill(t)
      PROVE  RunnerInv'
  BY <1>5, SpawnEndKeeps
<1>6. ASSUME NEW t \in Tracks, Runner!Release(t)
      PROVE  RunnerInv'
  BY <1>6, ReleaseKeeps
<1>7. ASSUME NEW t \in Tracks, Runner!SpawnTimesOut(t)
      PROVE  RunnerInv'
  BY <1>7, StopKeeps
<1>8. ASSUME NEW t \in Tracks, NEW n \in 1..MaxDispatches, Runner!ColonyTimesOut(t, n)
      PROVE  RunnerInv'
  BY <1>8, TimeoutKeeps
<1>9. ASSUME NEW t \in Tracks, Runner!OthersMove(t)
      PROVE  RunnerInv'
  BY <1>9, MoveKeeps
<1>10. ASSUME NEW a \in agents, Runner!ColonyReports(a)
       PROVE  RunnerInv'
  BY <1>10, ReportKeeps
<1>11. ASSUME NEW a \in agents, Runner!OrphanEnds(a)
       PROVE  RunnerInv'
  BY <1>11, OrphanKeeps
<1>12. CASE UNCHANGED agentVars
  BY <1>12 DEF agentVars, RunnerInv, RunnerTyped, Unowned, FlightsKnown, TimersKnown, AgentsKnown, LateKnown, Runner!ResultsStand,
               Runner!DispatchesSettle, Runner!NoneLeftBehind, Runner!Overtaken, Runner!Busy, Runner!Of
<1> QED BY <1>1, <1>2, <1>3, <1>4, <1>5, <1>6, <1>7, <1>8, <1>9, <1>10, <1>11, <1>12 DEF Runner!Next

LEMMA AgentsHold == Spec => [](which = "agents" => RunnerInv)
<1>1. Init => (which = "agents" => RunnerInv)
  BY Apart, RunnerBegins
<1>2. (which = "agents" => RunnerInv) /\ [Next]_vars => (which = "agents" => RunnerInv)'
  BY Apart, RunnerStep
<1> QED BY <1>1, <1>2, PTL DEF Spec

\* However launches, reports, timers, kills and deaths interleave, each dispatch under
\* way has something alive that will settle it, and its timer where time is limited
\* (ColonyBridge.dispatch, _pending, the spawn timers).
THEOREM DispatchesEnd == Spec => []DispatchesSettle
<1>1. (which = "agents" => RunnerInv) => DispatchesSettle
  BY DEF RunnerInv, DispatchesSettle
<1> QED BY <1>1, AgentsHold, PTL

\* A task is called done by its runner only when its own agent succeeded in time, short
\* of the late word of an overtaken one, and results never overrule who moved it on
\* (applyStateTransitions).
THEOREM ResultsAreOwn == Spec => []ResultsStand
<1>1. (which = "agents" => RunnerInv) => ResultsStand
  BY DEF RunnerInv, ResultsStand
<1> QED BY <1>1, AgentsHold, PTL

\* No spawned command of a living process outlives its dispatch (terminateProcessTree,
\* and the kill of what an ended command leaves).
THEOREM CommandsEnd == Spec => []NoneLeftBehind
<1>1. (which = "agents" => RunnerInv) => NoneLeftBehind
  BY DEF RunnerInv, NoneLeftBehind
<1> QED BY <1>1, AgentsHold, PTL

====
