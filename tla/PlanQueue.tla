------------------------------ MODULE PlanQueue ------------------------------
(***************************************************************************)
(* The plan run queue (plan_runner_service.rs): a dispatcher per start of  *)
(* a session's queue looks for the next entry that may run                 *)
(* (plan_dependency_service.rs), waits for permits and hands the entry to  *)
(* a thread (execute_run), which finds or inserts a run row, asks the      *)
(* capacity gate, creates a chat and starts the run.  Dispatchers of       *)
(* several sessions and generations, users who assign, stop, reopen and    *)
(* reconcile, and pipeline stages (pipeline_service.rs) write the same     *)
(* rows.                                                                   *)
(*                                                                         *)
(* What happens to a run once it runs is PlanLifecycle's subject: here its *)
(* turns begin and end in one step each.  The chat of a run is kept only   *)
(* while the run is running.  All plans use one provider, whose limit does *)
(* not change (Subagents has limits that do).                              *)
(***************************************************************************)
EXTENDS Integers, FiniteSets

CONSTANTS Plans, Sessions,
          Runs,         \* rows of plan_runs
          Generations,  \* starts of a queue, each with its dispatcher
          Home,         \* Home[g]: the session whose queue is started
          Threads,      \* threads that execute_run may have at a time
          Stages,       \* pipeline stages, each run over and over
          SessionOf,    \* SessionOf[p]: the session of plan p
          Needs,        \* Needs[p]: its prerequisites
          Collides,     \* Collides[p]: plans with common files, {} in yolo mode
          PlanningMax, GlobalMax,  \* planning_max and global_max
          SessionMax,   \* the concurrency of the queue's profile
          ProviderMax,  \* the provider's max_concurrency
          MaxCommands,  \* bound on the commands of the user
          MaxCrashes,   \* bound on the deaths of the process
          NoPlan, NoRun, NoGeneration

ASSUME NoneAssumption == /\ NoPlan \notin Plans /\ NoRun \notin Runs
                         /\ NoGeneration \notin Generations
ASSUME PlanAssumption ==
    /\ SessionOf \in [Plans -> Sessions]
    /\ Home \in [Generations -> Sessions]
    /\ Needs \in [Plans -> SUBSET Plans]
    /\ Collides \in [Plans -> SUBSET Plans]
ASSUME CapAssumption == /\ {PlanningMax, GlobalMax, SessionMax, ProviderMax} \subseteq Nat \ {0}
                        /\ {MaxCommands, MaxCrashes} \subseteq Nat
ASSUME FiniteAssumption == IsFiniteSet(Runs)

VARIABLES
    \* Database.
    queued,      \* plans with an entry in plan_queue
    planStatus,  \* "ready" stands for draft, openspec and ready
    runPlan,     \* runPlan[r]: the plan of row r, NoPlan while it is not inserted
    runStatus,
    working,     \* running runs whose chat has a turn or a question
    stage,       \* stage[x]: "checked" before its row is inserted, "orphan": an
                 \* active row whose thread died with the process
    \* Memory.
    current,     \* QUEUE_STATE: the generation of a session
    paused,      \* QUEUE_STATE: the sessions whose queue is paused
    starting,    \* RUNNING_RUNS
    providerFree,\* free permits of the provider
    \* Dispatchers, one per generation.
    dispatcher,  \* where it is
    next,        \* the entry it has picked
    sessionFree, \* free permits of its own semaphore
    \* Threads of execute_run, and the assignment the main thread is in.
    at,          \* where a thread is
    task,        \* the plan it was given
    hold,        \* the row it has found or inserted
    by,          \* the dispatcher whose permits it holds
    assigning,   \* the row assign_to_chat has inserted and not started yet
    \* History.
    finishedOnce,\* plans that have been finished
    ungated,     \* runs started otherwise than as pending rows past the gate
    lateStarts,  \* lateStarts[g]: threads g spawned when paused or superseded
    crashes, commands

rows        == <<planStatus, runPlan, runStatus, working>>
memory      == <<current, paused, starting, providerFree>>
dispatching == <<dispatcher, next, sessionFree>>
executing   == <<at, task, hold, by>>
bounds      == <<crashes, commands>>
history     == <<finishedOnce, ungated, lateStarts>>
vars == <<rows, queued, stage, memory, dispatching, executing, assigning, history, bounds>>

DispatcherPlaces == {"unborn", "look", "reconcile", "pick", "capacity",
                     "session", "provider", "done"}
ThreadPlaces == {"free", "lookup", "insert", "gate", "token", "kickoff", "untoken"}
\* "released" stands for failed, cancelled and awaiting_review, which the queue
\* does not tell apart.
RunStatuses == {"none", "pending", "running", "succeeded", "released"}

TypeOK ==
    /\ queued \in SUBSET Plans
    /\ planStatus \in [Plans -> {"ready", "running", "finished", "cancelled"}]
    /\ runPlan \in [Runs -> Plans \cup {NoPlan}]
    /\ runStatus \in [Runs -> RunStatuses]
    /\ working \in SUBSET Runs
    /\ stage \in [Stages -> {"idle", "checked", "active", "orphan"}]
    /\ current \in [Sessions -> Generations \cup {NoGeneration}]
    /\ paused \in SUBSET Sessions
    /\ starting \in SUBSET Runs
    /\ providerFree \in Nat
    /\ dispatcher \in [Generations -> DispatcherPlaces]
    /\ next \in [Generations -> Plans \cup {NoPlan}]
    /\ sessionFree \in [Generations -> Nat]
    /\ at \in [Threads -> ThreadPlaces]
    /\ task \in [Threads -> Plans \cup {NoPlan}]
    /\ hold \in [Threads -> Runs \cup {NoRun}]
    /\ by \in [Threads -> Generations \cup {NoGeneration}]
    /\ assigning \in Runs \cup {NoRun}
    /\ finishedOnce \in SUBSET Plans
    /\ ungated \in SUBSET Runs
    /\ lateStarts \in [Generations -> Nat]
    /\ crashes \in 0..MaxCrashes /\ commands \in 0..MaxCommands

Init ==
    /\ queued = {}
    /\ planStatus = [p \in Plans |-> "ready"]
    /\ runPlan = [r \in Runs |-> NoPlan] /\ runStatus = [r \in Runs |-> "none"]
    /\ working = {} /\ stage = [x \in Stages |-> "idle"]
    /\ current = [s \in Sessions |-> NoGeneration] /\ paused = {} /\ starting = {}
    /\ providerFree = ProviderMax
    /\ dispatcher = [g \in Generations |-> "unborn"]
    /\ next = [g \in Generations |-> NoPlan]
    /\ sessionFree = [g \in Generations |-> SessionMax]
    /\ at = [t \in Threads |-> "free"] /\ task = [t \in Threads |-> NoPlan]
    /\ hold = [t \in Threads |-> NoRun] /\ by = [t \in Threads |-> NoGeneration]
    /\ assigning = NoRun
    /\ finishedOnce = {} /\ ungated = {}
    /\ lateStarts = [g \in Generations |-> 0]
    /\ crashes = 0 /\ commands = 0

-------------------------------------------------------------------------------
(* Rows *)

Active == {r \in Runs : runStatus[r] \in {"running", "pending"}}
Running == {r \in Runs : runStatus[r] = "running"}
ActiveStages == {x \in Stages : stage[x] \in {"active", "orphan"}}

Terminal(status) == status \in {"finished", "cancelled"}

\* The entries of a session without a run that is running or has succeeded.
PendingEntries(s) ==
    {p \in queued : /\ SessionOf[p] = s
                    /\ ~\E r \in Runs : /\ runPlan[r] = p
                                        /\ runStatus[r] \in {"running", "succeeded"}}

\* Mutant: an unfinished prerequisite is no obstacle once it has been dispatched.
DispatchableAfterStart(p) ==
    /\ ~Terminal(planStatus[p])
    /\ \A q \in Needs[p] : SessionOf[q] = SessionOf[p] /\ planStatus[q] \in {"finished", "running"}
    /\ \A q \in Collides[p] : SessionOf[q] = SessionOf[p] => planStatus[q] # "running"
    /\ planStatus[p] # "running"

\* compute_readiness, as far as it says whether a plan may be dispatched.  A
\* prerequisite is looked up among the plans of the session.
Dispatchable(p) ==
    /\ ~Terminal(planStatus[p])
    /\ \A q \in Needs[p] : SessionOf[q] = SessionOf[p] /\ planStatus[q] = "finished"
    /\ \A q \in Collides[p] : SessionOf[q] = SessionOf[p] => planStatus[q] # "running"
    /\ planStatus[p] # "running"

\* The entries that may be dispatched.  The code takes the first by sort_order;
\* the user may reorder at any time, so any of them may be the first.
NextEntries(s) == {p \in PendingEntries(s) : Dispatchable(p)}

\* plan_start_capacity_available counts running runs only ...
StartCapacityAvailable ==
    /\ Cardinality(Running) < PlanningMax
    /\ Cardinality(Running) + Cardinality(ActiveStages) < GlobalMax

\* Mutant of the gate: it counts what the dispatcher counts.
PlanRunMayStart(r) ==
    /\ Cardinality(Running \ {r}) < PlanningMax
    /\ Cardinality(Running \ {r}) + Cardinality(ActiveStages) < GlobalMax

\* ... and plan_run_can_start also the pending runs other than r.
PlanRunCanStart(r) ==
    /\ Cardinality(Active \ {r}) < PlanningMax
    /\ Cardinality(Active \ {r}) + Cardinality(ActiveStages) < GlobalMax

\* A transition of run r and its plan (one transaction).
Settle(r, status, plan) ==
    /\ runStatus' = [runStatus EXCEPT ![r] = status]
    /\ planStatus' = [planStatus EXCEPT ![runPlan[r]] = plan]
    /\ working' = working \ {r}
    /\ UNCHANGED runPlan

InsertRow(r, p) ==
    /\ runStatus[r] = "none"
    /\ runPlan' = [runPlan EXCEPT ![r] = p]
    /\ runStatus' = [runStatus EXCEPT ![r] = "pending"]
    /\ UNCHANGED <<planStatus, working>>

\* kickoff_started: nothing for a run that runs already, otherwise the run
\* starts whatever its status is.  The linked chat is now the new, idle one.
KickoffStarted(r) ==
    IF runStatus[r] = "running" /\ planStatus[runPlan[r]] = "running"
    THEN UNCHANGED rows
    ELSE /\ runStatus' = [runStatus EXCEPT ![r] = "running"]
         /\ planStatus' = [planStatus EXCEPT ![runPlan[r]] = "running"]
         /\ working' = working \ {r}
         /\ UNCHANGED runPlan

\* reconcile_stale_owners for the sessions of a scope: running runs without a
\* turn are released for review, and a running plan needs an active run with one.
Stale(scope) == {r \in Running \ working : SessionOf[runPlan[r]] \in scope}
Abandoned(scope) ==
    {p \in Plans : /\ SessionOf[p] \in scope /\ planStatus[p] = "running"
                   /\ ~\E r \in working : runPlan[r] = p}

ReconcileRows(scope) ==
    /\ runStatus' = [r \in Runs |-> IF r \in Stale(scope) THEN "released" ELSE runStatus[r]]
    /\ planStatus' = [p \in Plans |-> IF p \in Abandoned(scope) THEN "ready" ELSE planStatus[p]]
    /\ starting' = starting \ Stale(scope)
    /\ UNCHANGED <<runPlan, working>>

-------------------------------------------------------------------------------
(* Dispatchers *)

Late(g) == current[Home[g]] # g \/ Home[g] \in paused

MoveDispatcher(g, place) == dispatcher' = [dispatcher EXCEPT ![g] = place]

\* Mutant: a paused dispatcher sleeps before it looks at its generation.
LookAtPauseFirst(g) ==
    /\ dispatcher[g] = "look" /\ Home[g] \notin paused
    /\ MoveDispatcher(g, IF current[Home[g]] # g THEN "done" ELSE "reconcile")
    /\ UNCHANGED <<rows, queued, stage, memory, next, sessionFree, executing, assigning, history, bounds>>

\* Mutant: only a new generation stops a dispatcher.
LookAtGeneration(g) ==
    /\ dispatcher[g] = "look"
    /\ MoveDispatcher(g, IF current[Home[g]] # g THEN "done" ELSE "reconcile")
    /\ UNCHANGED <<rows, queued, stage, memory, next, sessionFree, executing, assigning, history, bounds>>

\* The top of the loop: a superseded dispatcher retires, a paused one sleeps.
Look(g) ==
    /\ dispatcher[g] = "look"
    /\ \/ current[Home[g]] # g /\ MoveDispatcher(g, "done")
       \/ ~Late(g) /\ MoveDispatcher(g, "reconcile")
    /\ UNCHANGED <<rows, queued, stage, memory, next, sessionFree, executing, assigning, history, bounds>>

DispatcherReconciles(g) ==
    /\ dispatcher[g] = "reconcile"
    /\ ReconcileRows({Home[g]})
    /\ MoveDispatcher(g, "pick")
    /\ UNCHANGED <<queued, stage, current, paused, providerFree, next, sessionFree, executing,
                   assigning, history, bounds>>

\* next_pending_entry and has_pending_entries.
Pick(g) ==
    /\ dispatcher[g] = "pick"
    /\ \/ \E p \in NextEntries(Home[g]) :
             next' = [next EXCEPT ![g] = p] /\ MoveDispatcher(g, "capacity")
       \/ /\ NextEntries(Home[g]) = {} /\ UNCHANGED next
          /\ MoveDispatcher(g, IF PendingEntries(Home[g]) # {} THEN "look" ELSE "done")
    /\ UNCHANGED <<rows, queued, stage, memory, sessionFree, executing, assigning, history, bounds>>

CheckCapacity(g) ==
    /\ dispatcher[g] = "capacity"
    /\ \/ StartCapacityAvailable /\ MoveDispatcher(g, "session") /\ UNCHANGED next
       \/ /\ ~StartCapacityAvailable /\ MoveDispatcher(g, "look")
          /\ next' = [next EXCEPT ![g] = NoPlan]
    /\ UNCHANGED <<rows, queued, stage, memory, sessionFree, executing, assigning, history, bounds>>

\* Mutant: a dispatcher does not wait for its own semaphore.
TakePermitUnchecked(g) ==
    /\ dispatcher[g] = "session"
    /\ sessionFree' = [sessionFree EXCEPT ![g] = @ - 1]
    /\ MoveDispatcher(g, "provider")
    /\ UNCHANGED <<rows, queued, stage, memory, next, executing, assigning, history, bounds>>

TakeSessionPermit(g) ==
    /\ dispatcher[g] = "session" /\ sessionFree[g] > 0
    /\ sessionFree' = [sessionFree EXCEPT ![g] = @ - 1]
    /\ MoveDispatcher(g, "provider")
    /\ UNCHANGED <<rows, queued, stage, memory, next, executing, assigning, history, bounds>>

\* The provider's permit comes, and the entry picked long ago goes to a thread.
SpawnRun(g, t) ==
    /\ dispatcher[g] = "provider" /\ providerFree > 0 /\ at[t] = "free"
    /\ providerFree' = providerFree - 1
    /\ at' = [at EXCEPT ![t] = "lookup"]
    /\ task' = [task EXCEPT ![t] = next[g]]
    /\ by' = [by EXCEPT ![t] = g]
    /\ next' = [next EXCEPT ![g] = NoPlan]
    /\ MoveDispatcher(g, "look")
    /\ lateStarts' = IF Late(g) THEN [lateStarts EXCEPT ![g] = @ + 1] ELSE lateStarts
    /\ UNCHANGED <<rows, queued, stage, current, paused, starting, sessionFree, hold, assigning,
                   finishedOnce, ungated, bounds>>

-------------------------------------------------------------------------------
(* execute_run *)

MoveThread(t, place) == at' = [at EXCEPT ![t] = place]

\* A pending row of the plan is used again.  created_at counts seconds, so that
\* any of them may be the newest.
LookUpRow(t) ==
    /\ at[t] = "lookup"
    /\ LET queuedRows == {r \in Runs : runPlan[r] = task[t] /\ runStatus[r] = "pending"}
       IN  \/ \E r \in queuedRows : hold' = [hold EXCEPT ![t] = r] /\ MoveThread(t, "gate")
           \/ queuedRows = {} /\ MoveThread(t, "insert") /\ UNCHANGED hold
    /\ UNCHANGED <<rows, queued, stage, memory, dispatching, task, by, assigning, history, bounds>>

InsertQueuedRow(t, r) ==
    /\ at[t] = "insert"
    /\ InsertRow(r, task[t])
    /\ hold' = [hold EXCEPT ![t] = r]
    /\ MoveThread(t, "gate")
    /\ UNCHANGED <<queued, stage, memory, dispatching, task, by, assigning, history, bounds>>

\* The thread ends: its permits are dropped.
Return(t) ==
    /\ sessionFree' = [sessionFree EXCEPT ![by[t]] = @ + 1]
    /\ providerFree' = providerFree + 1
    /\ MoveThread(t, "free")
    /\ hold' = [hold EXCEPT ![t] = NoRun]
    /\ task' = [task EXCEPT ![t] = NoPlan]
    /\ by' = [by EXCEPT ![t] = NoGeneration]
    /\ UNCHANGED <<dispatcher, next>>

\* The insert is an error, and nothing is left of it.
InsertFails(t) ==
    /\ at[t] = "insert"
    /\ Return(t)
    /\ UNCHANGED <<rows, queued, stage, current, paused, starting, assigning, history, bounds>>

\* At capacity the row stays pending and the thread ends.
AskGate(t) ==
    /\ at[t] = "gate"
    /\ \/ /\ PlanRunCanStart(hold[t]) /\ MoveThread(t, "token")
          /\ UNCHANGED <<providerFree, dispatching, hold, task, by>>
       \/ ~PlanRunCanStart(hold[t]) /\ Return(t)
    /\ UNCHANGED <<rows, queued, stage, current, paused, starting, assigning, history, bounds>>

TakeToken(t) ==
    /\ at[t] = "token"
    /\ \/ /\ hold[t] \notin starting
          /\ starting' = starting \cup {hold[t]}
          /\ MoveThread(t, "kickoff")
          /\ UNCHANGED <<providerFree, dispatching, hold, task, by>>
       \/ hold[t] \in starting /\ Return(t) /\ UNCHANGED starting
    /\ UNCHANGED <<rows, queued, stage, current, paused, assigning, history, bounds>>

\* The chat cannot be created: kickoff_failed.
ChatFails(t) ==
    /\ at[t] = "kickoff"
    /\ Settle(hold[t], "released", "ready")
    /\ MoveThread(t, "untoken")
    /\ UNCHANGED <<queued, stage, memory, dispatching, hold, task, by, assigning, history, bounds>>

\* The chat is created and kickoff_started links it.  A row that is not active
\* any more is started all the same.
Kickoff(t) ==
    /\ at[t] = "kickoff"
    /\ KickoffStarted(hold[t])
    /\ ungated' = IF hold[t] \in Active THEN ungated ELSE ungated \cup {hold[t]}
    /\ MoveThread(t, "untoken")
    /\ UNCHANGED <<queued, stage, memory, dispatching, hold, task, by, assigning,
                   finishedOnce, lateStarts, bounds>>

RemoveToken(t) ==
    /\ at[t] = "untoken"
    /\ starting' = starting \ {hold[t]}
    /\ Return(t)
    /\ UNCHANGED <<rows, queued, stage, current, paused, assigning, history, bounds>>

-------------------------------------------------------------------------------
(* The user and the agents *)

\* A command of the interface waits for the assignment the main thread is in.
Commanded ==
    /\ assigning = NoRun
    /\ commands < MaxCommands /\ commands' = commands + 1
    /\ UNCHANGED crashes

Enqueue(p) ==
    /\ Commanded
    /\ queued' = queued \cup {p}
    /\ UNCHANGED <<rows, stage, memory, dispatching, executing, assigning, history>>

RemoveFromQueue(p) ==
    /\ Commanded
    /\ queued' = queued \ {p}
    /\ UNCHANGED <<rows, stage, memory, dispatching, executing, assigning, history>>

StartQueue(g) ==
    /\ Commanded /\ dispatcher[g] = "unborn"
    /\ current' = [current EXCEPT ![Home[g]] = g]
    /\ paused' = paused \ {Home[g]}
    /\ MoveDispatcher(g, "look")
    /\ UNCHANGED <<rows, queued, stage, starting, providerFree, next, sessionFree, executing,
                   assigning, history>>

PauseQueue(s) ==
    /\ Commanded /\ current[s] # NoGeneration
    /\ paused' = paused \cup {s}
    /\ UNCHANGED <<rows, queued, stage, current, starting, providerFree, dispatching, executing,
                   assigning, history>>

\* cancel_run, for whatever the run has become since the list was drawn.  The
\* token it sets is read by nobody.
CancelRun(r, plan) ==
    /\ Commanded /\ runStatus[r] # "none"
    /\ Settle(r, "released", plan)
    /\ UNCHANGED <<queued, stage, memory, dispatching, executing, assigning, history>>

\* assign_to_chat inserts a row and starts it without asking the gate.
InsertAssigned(p, r) ==
    /\ Commanded /\ planStatus[p] = "ready"
    /\ InsertRow(r, p)
    /\ assigning' = r
    /\ UNCHANGED <<queued, stage, memory, dispatching, executing, history>>

StartAssigned ==
    /\ assigning # NoRun
    /\ KickoffStarted(assigning)
    /\ starting' = starting \cup {assigning}
    /\ ungated' = ungated \cup {assigning}
    /\ assigning' = NoRun
    /\ UNCHANGED <<queued, stage, current, paused, providerFree, dispatching, executing,
                   finishedOnce, lateStarts, bounds>>

\* Every list of plans or runs reconciles, for a session or for all.
Reconcile(scope) ==
    /\ ReconcileRows(scope)
    /\ UNCHANGED <<queued, stage, current, paused, providerFree, dispatching, executing,
                   assigning, history, bounds>>

\* A finished plan is opened again by hand.
Reopen(p) ==
    /\ Commanded /\ planStatus[p] = "finished"
    /\ planStatus' = [planStatus EXCEPT ![p] = "ready"]
    /\ UNCHANGED <<runPlan, runStatus, working, queued, stage, memory, dispatching, executing,
                   assigning, history>>

TurnBegins(r) ==
    /\ r \in Running
    /\ working' = working \cup {r}
    /\ UNCHANGED <<planStatus, runPlan, runStatus, queued, stage, memory, dispatching, executing,
                   assigning, history, bounds>>

TurnEnds(r, status) ==
    /\ r \in working
    /\ Settle(r, status, IF status = "succeeded" THEN "finished" ELSE "ready")
    /\ finishedOnce' = IF status = "succeeded" THEN finishedOnce \cup {runPlan[r]} ELSE finishedOnce
    /\ UNCHANGED <<queued, stage, memory, dispatching, executing, assigning, ungated, lateStarts, bounds>>

\* start_stage counts the active runs, creates a chat, and then inserts its row.
MoveStage(x, from, to) ==
    /\ stage[x] = from
    /\ stage' = [stage EXCEPT ![x] = to]
    /\ UNCHANGED <<rows, queued, memory, dispatching, executing, assigning, history, bounds>>

CheckStage(x) ==
    /\ Cardinality(Active) + Cardinality(ActiveStages) < GlobalMax
    /\ MoveStage(x, "idle", "checked")
StartStage(x) == MoveStage(x, "checked", "active")
EndStage(x) == MoveStage(x, "active", "idle")

\* The process dies and is started again: sweep_interrupted_runs takes every
\* chat's turn away and reconciles.  The cleanup of initialize, which would end
\* the pending rows and the stages, runs only when the schema has changed.
Restart ==
    /\ crashes < MaxCrashes
    /\ crashes' = crashes + 1 /\ UNCHANGED commands
    /\ runStatus' = [r \in Runs |-> IF r \in Running THEN "released" ELSE runStatus[r]]
    /\ planStatus' = [p \in Plans |-> IF planStatus[p] = "running" THEN "ready" ELSE planStatus[p]]
    /\ working' = {}
    /\ stage' = [x \in Stages |-> CASE stage[x] = "active" -> "orphan"
                                    [] stage[x] = "checked" -> "idle"
                                    [] OTHER -> stage[x]]
    /\ current' = [s \in Sessions |-> NoGeneration] /\ paused' = {} /\ starting' = {}
    /\ providerFree' = ProviderMax
    /\ dispatcher' = [g \in Generations |-> IF dispatcher[g] = "unborn" THEN "unborn" ELSE "done"]
    /\ next' = [g \in Generations |-> NoPlan]
    /\ sessionFree' = [g \in Generations |-> SessionMax]
    /\ at' = [t \in Threads |-> "free"] /\ task' = [t \in Threads |-> NoPlan]
    /\ hold' = [t \in Threads |-> NoRun] /\ by' = [t \in Threads |-> NoGeneration]
    /\ assigning' = NoRun
    /\ UNCHANGED <<runPlan, queued, history>>

-------------------------------------------------------------------------------
DispatcherStep(g) ==
    \/ Look(g) \/ DispatcherReconciles(g) \/ Pick(g) \/ CheckCapacity(g)
    \/ TakeSessionPermit(g)

ThreadStep(t) ==
    \/ LookUpRow(t) \/ InsertFails(t) \/ AskGate(t) \/ TakeToken(t)
    \/ ChatFails(t) \/ Kickoff(t) \/ RemoveToken(t)
    \/ \E r \in Runs : InsertQueuedRow(t, r)

Command ==
    \/ \E p \in Plans : \/ Enqueue(p) \/ RemoveFromQueue(p) \/ Reopen(p)
                        \/ \E r \in Runs : InsertAssigned(p, r)
    \/ \E g \in Generations : StartQueue(g)
    \/ \E s \in Sessions : PauseQueue(s)
    \/ \E r \in Runs, plan \in {"ready", "cancelled"} : CancelRun(r, plan)

AgentStep ==
    \/ \E r \in Runs : \/ TurnBegins(r)
                       \/ \E status \in {"succeeded", "released"} : TurnEnds(r, status)
    \/ \E x \in Stages : CheckStage(x) \/ StartStage(x) \/ EndStage(x)

Next ==
    \/ \E g \in Generations : DispatcherStep(g) \/ \E t \in Threads : SpawnRun(g, t)
    \/ \E t \in Threads : ThreadStep(t)
    \/ Command \/ StartAssigned \/ AgentStep
    \/ \E scope \in {{s} : s \in Sessions} \cup {Sessions} : Reconcile(scope)
    \/ Restart

Spec == Init /\ [][Next]_vars

\* Started threads run on.  A permit of the provider is handed out in the order
\* of the waiters (tokio's semaphore is fair), so a waiter that could have one
\* again and again gets one.
Fairness ==
    /\ \A g \in Generations : /\ WF_vars(DispatcherStep(g))
                              /\ SF_vars(\E t \in Threads : SpawnRun(g, t))
    /\ \A t \in Threads : WF_vars(ThreadStep(t))
    /\ WF_vars(StartAssigned)

FairSpec == Spec /\ Fairness

-------------------------------------------------------------------------------
\* Of the runs the queue starts, no more than planning_max are running at a
\* time, whatever dispatchers of other sessions and generations do: a thread
\* inserts its row before it counts the others, so that two threads may turn
\* each other away but never both start.  Runs that somebody assigned, and runs
\* started again after they had ended, did not pass the gate.
PlanningCapHolds ==
    Cardinality(Running \ ungated) <= PlanningMax

\* A run the queue started is one of a plan all of whose prerequisites have
\* been finished, although the entry was picked before waits for two permits.
StartedPlanHadPrerequisites ==
    \A r \in Running \ ungated : Needs[runPlan[r]] \subseteq finishedOnce

\* A dispatcher that is paused or superseded hands out at most the one entry
\* it had in its hands (pause_queue: "no new runs are dispatched").
AtMostOneLateStart ==
    \A g \in Generations : lateStarts[g] <= 1

\* A dispatcher whose queue was started again retires; with it the permits of
\* the old generation come back.
OldDispatcherRetires ==
    \A g \in Generations :
        dispatcher[g] # "unborn" /\ current[Home[g]] # g ~> dispatcher[g] = "done"

\* A queued run of a plan that may be dispatched does not stay queued for ever
\* under a dispatcher that finds running capacity (execute_run: "leave the run
\* queued as `pending` - the dispatcher re-pulls it once capacity frees").
QueuedRunStarts ==
    \A r \in Runs :
        ~<>[](/\ runStatus[r] = "pending" /\ runPlan[r] \in queued /\ Dispatchable(runPlan[r])
              /\ \E g \in Generations : /\ Home[g] = SessionOf[runPlan[r]]
                                        /\ dispatcher[g] \notin {"unborn", "done"} /\ ~Late(g)
              /\ StartCapacityAvailable)

\* After a restart no row is active any more (storage_service.rs: "A restart
\* loses execution ownership. Pipeline work becomes failed, while plan work
\* remains reviewable and resumable without looking active.").
RestartLeavesNothingActive ==
    [][crashes' # crashes => Active' = {} /\ ActiveStages' = {}]_vars
===============================================================================
