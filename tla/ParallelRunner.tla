---- MODULE ParallelRunner ----
(***************************************************************************)
(* The agents behind a plan's parallel tracks: the bridge to them          *)
(* (lib/colony-bridge.mjs), used by the parallel runner, which works off a *)
(* plan in a pool and then moves the tasks on the board                    *)
(* (va-parallel-runner.mjs), and by the loop, which keeps one bridge and   *)
(* dispatches a task again when its agent failed. What the loop makes of a *)
(* result is TaskLoop's; how a launcher starts its command, in small       *)
(* steps, is WorkerLifecycle's. Dry runs, logs and the journal are left    *)
(* out.                                                                    *)
(***************************************************************************)
EXTENDS Naturals, FiniteSets

CONSTANTS
  Tasks,
  Pools,          \* what --max-workers may be
  MaxBridges,     \* bound: processes that use a bridge, one after the other
  MaxDispatches,  \* bound: dispatches of a task
  MaxMoves,       \* bound: moves of tasks by others
  MaxFaults       \* bound: deaths and rejected dispatches

\* What the constants must be; the harness assumes it of its instance.
RunnerAssumption == Pools \subseteq Nat \ {0}

VARIABLES
  board,    \* sprint-state.json: the tasks' states and failure counts
  owner,    \* the process that has the bridge
  flight,   \* the dispatch of each task that process has under way, or had last
  pending,  \* _pending: the dispatch that waits for the colony's word on a task, or 0
  timers,   \* the dispatches whose timer is armed
  agents,   \* the agents and launchers alive
  past,     \* history of this process: dispatches whose agent succeeded in time, colony
            \* dispatches its timer ended, tasks others moved since
  used      \* the bounds' counters

vars == <<board, owner, flight, pending, timers, agents, past, used>>

\* Open is Backlog or InProgress, the states in which a track may run; what is in
\* Testing counts as Review.
States == {"Open", "Review", "Failed", "Done"}
Nobody == [kind |-> "none", colony |-> FALSE, timed |-> FALSE, max |-> 1]
NoFlight == [step |-> "none", n |-> 0, via |-> "spawn", out |-> "none"]
InFlight == {"launching", "waiting", "stopping"}
Busy == {t \in Tasks : flight[t].step \in InFlight}

TypeOK ==
  /\ \A t \in Tasks : board[t].state \in States /\ board[t].fails \in 0..MaxBridges
  /\ owner.kind \in {"none", "runner", "applying", "loop"} /\ owner.max \in Nat
  /\ \A t \in Tasks : /\ flight[t].step \in {"none", "queued", "settled"} \cup InFlight
                      /\ flight[t].out \in {"none", "ok", "fail", "timeout"}
                      /\ pending[t] \in 0..MaxDispatches
  /\ timers \subseteq Tasks \X (1..MaxDispatches)
  /\ agents \subseteq [t : Tasks, n : 1..MaxDispatches, via : {"spawn", "colony"},
                       st : {"launcher", "working", "orphan"}]
  /\ past.won \cup past.late \subseteq Tasks \X (1..MaxDispatches)

Init ==
  /\ board = [t \in Tasks |-> [state |-> "Open", fails |-> 0]]
  /\ owner = Nobody
  /\ flight = [t \in Tasks |-> NoFlight] /\ pending = [t \in Tasks |-> 0]
  /\ timers = {} /\ agents = {}
  /\ past = [won |-> {}, late |-> {}, moved |-> {}]
  /\ used = [bridges |-> 0, moves |-> 0, faults |-> 0, n |-> [t \in Tasks |-> 0]]

-----------------------------------------------------------------------------
(* A process takes a bridge. *)

\* The bridge has a colony when one was found and an agent registered with it.
Bridges(kind) == [kind : {kind}, colony : BOOLEAN, timed : BOOLEAN, max : Pools]

\* spawnTracks reads its plan; tracks wait for a place in the pool.
StartRunner ==
  /\ owner.kind = "none" /\ used.bridges < MaxBridges
  /\ owner' \in Bridges("runner")
  /\ \E plan \in SUBSET Tasks \ {{}} :
       flight' = [t \in Tasks |-> IF t \in plan THEN [NoFlight EXCEPT !.step = "queued"] ELSE NoFlight]
  /\ past' = [won |-> {}, late |-> {}, moved |-> {}]
  /\ used' = [used EXCEPT !.bridges = @ + 1]
  /\ UNCHANGED <<board, pending, timers, agents>>

StartLoop ==
  /\ owner.kind = "none" /\ used.bridges < MaxBridges
  /\ owner' \in Bridges("loop")
  /\ flight' = [t \in Tasks |-> NoFlight]
  /\ past' = [won |-> {}, late |-> {}, moved |-> {}]
  /\ used' = [used EXCEPT !.bridges = @ + 1]
  /\ UNCHANGED <<board, pending, timers, agents>>

-----------------------------------------------------------------------------
(* Dispatching. *)

\* The runner dispatches a track once, in a free place of the pool; the loop again.
MayDispatch(t) ==
  /\ \/ owner.kind = "runner" /\ flight[t].step = "queued"
     \/ owner.kind = "loop" /\ flight[t].step \in {"none", "settled"}
  /\ Cardinality(Busy) < owner.max
  /\ used.n[t] < MaxDispatches

Begin(t, via, step, out) ==
  /\ MayDispatch(t)
  /\ flight' = [flight EXCEPT ![t] = [step |-> step, n |-> used.n[t] + 1, via |-> via, out |-> out]]
  /\ used' = [used EXCEPT !.n[t] = @ + 1]
  /\ UNCHANGED <<board, owner, past>>

Agent(t, via, st) == [t |-> t, n |-> used.n[t] + 1, via |-> via, st |-> st]
Armed(t, n) == IF owner.timed THEN timers \cup {<<t, n>>} ELSE timers

\* The entry of a task replaces whatever the map had for it.
DispatchViaColony(t) ==
  /\ owner.colony
  /\ Begin(t, "colony", "waiting", "none")
  /\ pending' = [pending EXCEPT ![t] = used.n[t] + 1]
  /\ timers' = Armed(t, used.n[t] + 1)
  /\ agents' = agents \cup {Agent(t, "colony", "working")}

\* Without a colony, or past it for a large task.
DispatchViaSpawn(t) ==
  /\ Begin(t, "spawn", "launching", "none")
  /\ agents' = agents \cup {Agent(t, "spawn", "launcher")}
  /\ UNCHANGED <<pending, timers>>

\* No command, or none that can be spawned.
SpawnFails(t) ==
  /\ Begin(t, "spawn", "settled", "fail")
  /\ UNCHANGED <<pending, timers, agents>>

-----------------------------------------------------------------------------
(* A dispatch settles. *)

Of(t) == {a \in agents : a.t = t /\ a.n = flight[t].n}

\* Mutant: the timer of a settled dispatch is left armed.
SettledArmed(t, out, rest) ==
  /\ flight' = [flight EXCEPT ![t].step = "settled", ![t].out = out]
  /\ agents' = rest
  /\ timers' = timers

Settled(t, out, rest) ==
  /\ flight' = [flight EXCEPT ![t].step = "settled", ![t].out = out]
  /\ agents' = rest
  /\ timers' = timers \ {<<t, flight[t].n>>}

\* The timer of the task's budget starts with GO.
Release(t) ==
  /\ flight[t].step = "launching"
  /\ flight' = [flight EXCEPT ![t].step = "waiting"]
  /\ agents' = (agents \ Of(t)) \cup {[a EXCEPT !.st = "working"] : a \in Of(t)}
  /\ timers' = Armed(t, flight[t].n)
  /\ UNCHANGED <<board, owner, pending, past, used>>

\* The launcher dies before READY, or is stopped for not becoming ready.
LauncherFails(t) ==
  /\ flight[t].step = "launching"
  /\ Settled(t, "fail", agents \ Of(t))
  /\ UNCHANGED <<board, owner, pending, past, used>>

\* Mutant: the exit code alone decides.
OutcomeByCode(t, ok) == IF ok THEN "ok" ELSE "fail"

Outcome(t, ok) == IF flight[t].step = "stopping" THEN "timeout" ELSE IF ok THEN "ok" ELSE "fail"

\* A spawned command ends; what it leaves behind is killed.
CommandEnds(t) ==
  /\ flight[t].step \in {"waiting", "stopping"} /\ flight[t].via = "spawn"
  /\ \E ok \in BOOLEAN :
       /\ Settled(t, Outcome(t, ok), agents \ Of(t))
       /\ past' = IF ok /\ flight[t].step = "waiting" THEN [past EXCEPT !.won = @ \cup {<<t, flight[t].n>>}]
                  ELSE past
  /\ UNCHANGED <<board, owner, pending, used>>

\* A colony's agent ends, in time or long after anybody waited: the callbacks know
\* the task only.
ColonyReports(a) ==
  LET waits == pending[a.t] # 0 IN
  /\ a \in agents /\ a.via = "colony" /\ a.st = "working"
  /\ \E ok \in BOOLEAN :
       /\ IF waits THEN Settled(a.t, IF ok THEN "ok" ELSE "fail", agents \ {a})
          ELSE agents' = agents \ {a} /\ UNCHANGED <<flight, timers>>
       /\ past' = IF ok THEN [past EXCEPT !.won = @ \cup {<<a.t, a.n>>}] ELSE past
  /\ pending' = [pending EXCEPT ![a.t] = 0]
  /\ UNCHANGED <<board, owner, used>>

\* Mutant: a dispatch that ran out of time settles when its command is told to stop.
StopSettling(t) == Settled(t, "timeout", agents)

\* The command is told to stop, and killed if it has not after five seconds.
Stop(t) ==
  /\ flight' = [flight EXCEPT ![t].step = "stopping"]
  /\ timers' = timers \ {<<t, flight[t].n>>}
  /\ UNCHANGED agents

SpawnTimesOut(t) ==
  /\ <<t, flight[t].n>> \in timers /\ flight[t].via = "spawn"
  /\ Stop(t)
  /\ UNCHANGED <<board, owner, pending, past, used>>

ForceKill(t) ==
  /\ flight[t].step = "stopping"
  /\ Settled(t, "timeout", agents \ Of(t))
  /\ UNCHANGED <<board, owner, pending, past, used>>

\* A colony may not know how to cancel: the agent may work on.
Cancelled(t) == {agents, {a \in agents : a.t # t \/ a.via # "colony" \/ a.st = "orphan"}}

\* The timer of dispatch n looks for any entry of its task.
ColonyTimesOut(t, n) ==
  /\ <<t, n>> \in timers /\ flight[t].via = "colony"
  /\ IF pending[t] # 0
     THEN /\ pending' = [pending EXCEPT ![t] = 0]
          /\ timers' = timers \ {<<t, n>>}
          /\ agents' \in Cancelled(t)
          /\ flight' = IF flight[t].n = n THEN [flight EXCEPT ![t].step = "settled", ![t].out = "timeout"]
                       ELSE flight
          /\ past' = [past EXCEPT !.late = @ \cup {<<t, n>>}]
     ELSE /\ timers' = timers \ {<<t, n>>}
          /\ UNCHANGED <<pending, agents, flight, past>>
  /\ UNCHANGED <<board, owner, used>>

-----------------------------------------------------------------------------
(* The process ends. *)

\* A process that is gone leaves its commands at work; launchers without GO leave, and
\* what becomes of a colony's agents is the colony's.
Gone(rest) ==
  /\ owner' = Nobody
  /\ flight' = [t \in Tasks |-> NoFlight] /\ pending' = [t \in Tasks |-> 0] /\ timers' = {}
  /\ \E left \in SUBSET {a \in rest : a.via = "colony"} :
       agents' = {[a EXCEPT !.st = "orphan"] : a \in {b \in rest : b.via = "spawn" /\ b.st # "launcher"} \cup left}

\* A crash, and a dispatch that is rejected because its GO could not be sent or its
\* launch was ambiguous: no result of any track reaches the board.
Die ==
  /\ owner.kind # "none" /\ used.faults < MaxFaults
  /\ Gone(agents)
  /\ used' = [used EXCEPT !.faults = @ + 1]
  /\ UNCHANGED <<board, past>>

\* The loop shuts its bridge down when its tracks have ended.
LoopEnds ==
  /\ owner.kind = "loop" /\ Busy = {}
  /\ Gone(agents)
  /\ UNCHANGED <<board, past, used>>

PoolDone ==
  /\ owner.kind = "runner" /\ Busy = {} /\ \A t \in Tasks : flight[t].step # "queued"
  /\ owner' = [owner EXCEPT !.kind = "applying"]
  /\ \E left \in SUBSET {a \in agents : a.via = "colony"} :
       agents' = {a \in agents : a.via = "spawn"} \cup {[a EXCEPT !.st = "orphan"] : a \in left}
  /\ UNCHANGED <<board, flight, pending, timers, past, used>>

OrphanEnds(a) ==
  /\ a \in agents /\ a.st = "orphan"
  /\ agents' = agents \ {a}
  /\ UNCHANGED <<board, owner, flight, pending, timers, past, used>>

-----------------------------------------------------------------------------
(* The board. *)

\* Mutant: a result moves its task wherever it stands by now.
AppliesAlways(t) == flight[t].step = "settled"

\* A result says nothing about a task that others moved on meanwhile.
Applies(t) == flight[t].step = "settled" /\ board[t].state = "Open"

\* applyStateTransitions, under the lock of the state file, on what it says then.
Apply ==
  /\ owner.kind = "applying"
  /\ board' = [t \in Tasks |->
       IF ~Applies(t) THEN board[t]
       ELSE IF flight[t].out = "ok" THEN [board[t] EXCEPT !.state = "Review"]
       ELSE [state |-> "Failed", fails |-> board[t].fails + 1]]
  /\ Gone(agents)
  /\ UNCHANGED <<past, used>>

\* Another session or a person moves a task.
OthersMove(t) ==
  /\ used.moves < MaxMoves
  /\ \E s \in States \ {board[t].state} :
       /\ board' = [board EXCEPT ![t].state = s]
       /\ past' = [past EXCEPT !.moved = {m \in @ : m[1] # t} \cup {<<t, s>>}]
  /\ used' = [used EXCEPT !.moves = @ + 1]
  /\ UNCHANGED <<owner, flight, pending, timers, agents>>

Next ==
  \/ StartRunner \/ StartLoop \/ Die \/ LoopEnds \/ PoolDone \/ Apply
  \/ \E t \in Tasks :
       \/ DispatchViaColony(t) \/ DispatchViaSpawn(t) \/ SpawnFails(t)
       \/ Release(t) \/ LauncherFails(t) \/ CommandEnds(t) \/ SpawnTimesOut(t) \/ ForceKill(t)
       \/ \E n \in 1..MaxDispatches : ColonyTimesOut(t, n)
       \/ OthersMove(t)
  \/ \E a \in agents : ColonyReports(a) \/ OrphanEnds(a)

Spec == Init /\ [][Next]_vars

-----------------------------------------------------------------------------
(* Properties. *)

\* An earlier dispatch of the task ran out of time in a colony that may not cancel: its
\* late word is taken for the later dispatch's.
Overtaken(t) == \E n \in 1..flight[t].n - 1 : <<t, n>> \in past.late

\* A task's result is that of its own agent, in time, and it does not overrule whoever
\* moved the task on while the agents worked.
ResultsStand ==
  /\ \A t \in Tasks : flight[t].out = "ok" => <<t, flight[t].n>> \in past.won \/ Overtaken(t)
  /\ \A m \in past.moved : m[2] # "Open" => board[m[1]].state = m[2]

\* Every dispatch under way can still settle: something that will settle it lives, and
\* where time is limited, the time of one that waits is.
DispatchesSettle ==
  \A t \in Busy :
    /\ IF flight[t].via = "colony" THEN pending[t] = flight[t].n ELSE Of(t) # {}
    /\ owner.timed /\ flight[t].step = "waiting" => <<t, flight[t].n>> \in timers

\* A spawned command is at work only while its dispatch is under way, unless its process
\* died: a settled track is never edited on, and the pool's size bounds the commands.
NoneLeftBehind ==
  \A a \in agents : a.via = "spawn" /\ a.st # "orphan" =>
    flight[a.t].n = a.n /\ flight[a.t].step \in InFlight
====
