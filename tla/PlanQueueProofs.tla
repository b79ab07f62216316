--------------------------- MODULE PlanQueueProofs ---------------------------
(***************************************************************************)
(* Theorems about the plan queue, for any number of sessions, plans, rows, *)
(* dispatchers, threads and restarts.  What a dispatcher and a thread hold *)
(* was true when they read it; the invariants say what is left of it when  *)
(* they act on it: RowInv and HoldInv relate a thread to its row, NeedInv  *)
(* says that prerequisites are remembered, CapInv that a run past the gate *)
(* counts, and LateInv that a late dispatcher is back at the top.          *)
(***************************************************************************)
EXTENDS PlanQueue, FiniteSetTheorems, TLAPS

\* A row that is inserted has a plan, among them the one being assigned; and
\* turns are counted for running rows only.
RowInv ==
    /\ \A r \in Runs : runStatus[r] = "none" <=> runPlan[r] = NoPlan
    /\ assigning # NoRun => runStatus[assigning] # "none"
    /\ \A r \in working : runStatus[r] = "running"

\* From the gate on a thread has a row of the plan it was given.
WithRow == {"gate", "token", "kickoff", "untoken"}

HoldInv ==
    \A t \in Threads : /\ at[t] # "free" => task[t] \in Plans
                       /\ at[t] \in WithRow => hold[t] \in Runs /\ runPlan[hold[t]] = task[t]

Picked == {"capacity", "session", "provider"}

\* A plan in the hands of a dispatcher or of a thread had its prerequisites.
NeedInv ==
    /\ \A p \in Plans : planStatus[p] = "finished" => p \in finishedOnce
    /\ \A g \in Generations : dispatcher[g] \in Picked
                              => next[g] \in Plans /\ Needs[next[g]] \subseteq finishedOnce
    /\ \A t \in Threads : at[t] # "free" => Needs[task[t]] \subseteq finishedOnce

\* The runs past the gate, started or about to be.
PastGate == {t \in Threads : at[t] \in {"token", "kickoff"}}
Gated ==
    {r \in Runs \ ungated : \/ runStatus[r] = "running"
                            \/ runStatus[r] = "pending" /\ \E t \in PastGate : hold[t] = r}
CapInv == Cardinality(Gated) <= PlanningMax

\* Who has started something late is at the top of its loop, and late for ever.
LateInv ==
    \A g \in Generations :
        /\ lateStarts[g] <= 1
        /\ lateStarts[g] = 1 => Late(g) /\ dispatcher[g] \in {"look", "done"}

-------------------------------------------------------------------------------
(* The types of what the steps share *)

ThreadTypes == /\ at \in [Threads -> ThreadPlaces] /\ task \in [Threads -> Plans \cup {NoPlan}]
               /\ hold \in [Threads -> Runs \cup {NoRun}]
               /\ by \in [Threads -> Generations \cup {NoGeneration}]
PermitTypes == providerFree \in Nat /\ sessionFree \in [Generations -> Nat]
RowTypes == /\ planStatus \in [Plans -> {"ready", "running", "finished", "cancelled"}]
            /\ runPlan \in [Runs -> Plans \cup {NoPlan}]
            /\ runStatus \in [Runs -> RunStatuses]
            /\ working \in SUBSET Runs

LEMMA ReturnTypes ==
  ASSUME ThreadTypes, PermitTypes, NEW t \in Threads, Return(t)
  PROVE  ThreadTypes' /\ PermitTypes'
<1>1. ThreadTypes'
  BY DEF ThreadTypes, ThreadPlaces, Return, MoveThread
<1>2. sessionFree' \in [Generations -> Nat]
  <2>1. CASE by[t] \in Generations
    BY <2>1 DEF PermitTypes, Return
  <2>2. CASE by[t] \notin Generations
    BY <2>2 DEF PermitTypes, Return
  <2>3. QED
    BY <2>1, <2>2
<1>3. QED
  BY <1>1, <1>2 DEF PermitTypes, Return

LEMMA SettleTypes ==
  ASSUME RowTypes, NEW r, NEW status \in RunStatuses,
         NEW plan \in {"ready", "finished", "cancelled"}, Settle(r, status, plan)
  PROVE  RowTypes'
BY DEF RowTypes, Settle

LEMMA KickoffTypes ==
  ASSUME RowTypes, NEW r, KickoffStarted(r) PROVE RowTypes'
BY DEF RowTypes, RunStatuses, KickoffStarted, rows

LEMMA TypeOKStep == ASSUME TypeOK, RowInv, HoldInv, [Next]_vars PROVE TypeOK'
<1>1. ASSUME NEW g \in Generations, Look(g) PROVE TypeOK'
  BY PlanAssumption, CapAssumption, NoneAssumption, <1>1 DEF Look, MoveDispatcher, TypeOK, DispatcherPlaces, ThreadPlaces, RunStatuses, rows, memory, dispatching, executing, history, bounds
<1>2. ASSUME NEW g \in Generations, DispatcherReconciles(g) PROVE TypeOK'
  BY PlanAssumption, CapAssumption, NoneAssumption, <1>2 DEF DispatcherReconciles, ReconcileRows, MoveDispatcher, TypeOK, DispatcherPlaces, ThreadPlaces, RunStatuses, rows, memory, dispatching, executing, history, bounds
<1>3. ASSUME NEW g \in Generations, Pick(g) PROVE TypeOK'
  BY PlanAssumption, CapAssumption, NoneAssumption, <1>3 DEF Pick, MoveDispatcher, NextEntries, PendingEntries, TypeOK, DispatcherPlaces, ThreadPlaces, RunStatuses, rows, memory, dispatching, executing, history, bounds
<1>4. ASSUME NEW g \in Generations, CheckCapacity(g) PROVE TypeOK'
  <2>1. dispatcher' \in [Generations -> DispatcherPlaces] /\ next' \in [Generations -> Plans \cup {NoPlan}]
    BY NoneAssumption, <1>4 DEF CheckCapacity, MoveDispatcher, TypeOK, DispatcherPlaces
  <2>2. QED
    BY <2>1, <1>4 DEF CheckCapacity, TypeOK, rows, memory, dispatching, executing, history, bounds
<1>5. ASSUME NEW g \in Generations, TakeSessionPermit(g) PROVE TypeOK'
  BY PlanAssumption, CapAssumption, NoneAssumption, <1>5 DEF TakeSessionPermit, MoveDispatcher, TypeOK, DispatcherPlaces, ThreadPlaces, RunStatuses, rows, memory, dispatching, executing, history, bounds
<1>6. ASSUME NEW g \in Generations, NEW t \in Threads, SpawnRun(g, t) PROVE TypeOK'
  BY PlanAssumption, CapAssumption, NoneAssumption, <1>6 DEF SpawnRun, MoveDispatcher, TypeOK, DispatcherPlaces, ThreadPlaces, RunStatuses, rows, memory, dispatching, executing, history, bounds
<1>7. ASSUME NEW t \in Threads, LookUpRow(t) PROVE TypeOK'
  BY PlanAssumption, CapAssumption, NoneAssumption, <1>7 DEF LookUpRow, MoveThread, TypeOK, DispatcherPlaces, ThreadPlaces, RunStatuses, rows, memory, dispatching, executing, history, bounds
<1>8. ASSUME NEW t \in Threads, InsertFails(t) PROVE TypeOK'
  <2>1. CASE Return(t)
    <3>1. ThreadTypes' /\ PermitTypes'
      BY <2>1, ReturnTypes DEF TypeOK, ThreadTypes, PermitTypes
    <3>2. UNCHANGED <<dispatcher, next>>
      BY <2>1 DEF Return
    <3>3. QED
      BY <3>1, <3>2, <1>8 DEF InsertFails, TypeOK, ThreadTypes, PermitTypes, rows, history, bounds
  <2>2. QED
    BY <2>1, <1>8 DEF InsertFails
<1>9. ASSUME NEW t \in Threads, AskGate(t) PROVE TypeOK'
  <2>1. CASE Return(t)
    <3>1. ThreadTypes' /\ PermitTypes'
      BY <2>1, ReturnTypes DEF TypeOK, ThreadTypes, PermitTypes
    <3>2. UNCHANGED <<dispatcher, next>>
      BY <2>1 DEF Return
    <3>3. QED
      BY <3>1, <3>2, <1>9 DEF AskGate, TypeOK, ThreadTypes, PermitTypes, rows, history, bounds
  <2>2. CASE UNCHANGED <<providerFree, dispatching, hold, task, by>> /\ \E place \in ThreadPlaces : MoveThread(t, place)
    BY <2>2, <1>9 DEF AskGate, MoveThread, TypeOK, rows, dispatching, history, bounds
  <2>3. QED
    BY <2>1, <2>2, <1>9 DEF AskGate, ThreadPlaces
<1>10. ASSUME NEW t \in Threads, TakeToken(t) PROVE TypeOK'
  <2>1. CASE Return(t)
    <3>1. ThreadTypes' /\ PermitTypes'
      BY <2>1, ReturnTypes DEF TypeOK, ThreadTypes, PermitTypes
    <3>2. UNCHANGED <<dispatcher, next>>
      BY <2>1 DEF Return
    <3>3. starting' \in SUBSET Runs
      BY <1>10 DEF TakeToken, TypeOK, HoldInv, WithRow
    <3>4. QED
      BY <3>1, <3>2, <3>3, <1>10 DEF TakeToken, TypeOK, ThreadTypes, PermitTypes, rows, history, bounds
  <2>2. CASE UNCHANGED <<providerFree, dispatching, hold, task, by>> /\ MoveThread(t, "kickoff")
    <3>1. starting' \in SUBSET Runs
      BY <2>2, NoneAssumption, <1>10 DEF TakeToken, TypeOK, HoldInv, WithRow
    <3>2. QED
      BY <3>1, <2>2, <1>10 DEF TakeToken, MoveThread, TypeOK, ThreadPlaces, rows, dispatching, history, bounds
  <2>3. QED
    BY <2>1, <2>2, <1>10 DEF TakeToken, ThreadPlaces
<1>11. ASSUME NEW t \in Threads, ChatFails(t) PROVE TypeOK'
  BY SettleTypes, <1>11 DEF ChatFails, MoveThread, TypeOK, RowTypes, RunStatuses, ThreadPlaces, memory, dispatching, bounds, history
<1>12. ASSUME NEW t \in Threads, Kickoff(t) PROVE TypeOK'
  <2>1. RowTypes'
    BY KickoffTypes, <1>12 DEF Kickoff, TypeOK, RowTypes
  <2>2. hold[t] \in Runs
    BY <1>12 DEF Kickoff, HoldInv, WithRow
  <2>3. QED
    BY <2>1, <2>2, <1>12 DEF Kickoff, MoveThread, TypeOK, RowTypes, ThreadPlaces, memory, dispatching, bounds
<1>13. ASSUME NEW t \in Threads, RemoveToken(t) PROVE TypeOK'
  <2>1. CASE Return(t)
    <3>1. ThreadTypes' /\ PermitTypes'
      BY <2>1, ReturnTypes DEF TypeOK, ThreadTypes, PermitTypes
    <3>2. UNCHANGED <<dispatcher, next>>
      BY <2>1 DEF Return
    <3>3. QED
      BY <3>1, <3>2, <1>13 DEF RemoveToken, TypeOK, ThreadTypes, PermitTypes, rows, history, bounds
  <2>2. QED
    BY <2>1, <1>13 DEF RemoveToken
<1>14. ASSUME NEW t \in Threads, NEW r \in Runs, InsertQueuedRow(t, r) PROVE TypeOK'
  BY PlanAssumption, CapAssumption, NoneAssumption, <1>14 DEF InsertQueuedRow, InsertRow, MoveThread, TypeOK, DispatcherPlaces, ThreadPlaces, RunStatuses, rows, memory, dispatching, executing, history, bounds
<1>15. ASSUME NEW p \in Plans, Enqueue(p) PROVE TypeOK'
  BY PlanAssumption, CapAssumption, NoneAssumption, <1>15 DEF Enqueue, Commanded, TypeOK, DispatcherPlaces, ThreadPlaces, RunStatuses, rows, memory, dispatching, executing, history, bounds
<1>16. ASSUME NEW p \in Plans, RemoveFromQueue(p) PROVE TypeOK'
  BY PlanAssumption, CapAssumption, NoneAssumption, <1>16 DEF RemoveFromQueue, Commanded, TypeOK, DispatcherPlaces, ThreadPlaces, RunStatuses, rows, memory, dispatching, executing, history, bounds
<1>17. ASSUME NEW p \in Plans, Reopen(p) PROVE TypeOK'
  BY PlanAssumption, CapAssumption, NoneAssumption, <1>17 DEF Reopen, Commanded, TypeOK, DispatcherPlaces, ThreadPlaces, RunStatuses, rows, memory, dispatching, executing, history, bounds
<1>18. ASSUME NEW p \in Plans, NEW r \in Runs, InsertAssigned(p, r) PROVE TypeOK'
  BY PlanAssumption, CapAssumption, NoneAssumption, <1>18 DEF InsertAssigned, InsertRow, Commanded, TypeOK, DispatcherPlaces, ThreadPlaces, RunStatuses, rows, memory, dispatching, executing, history, bounds
<1>19. ASSUME NEW g \in Generations, StartQueue(g) PROVE TypeOK'
  BY PlanAssumption, CapAssumption, NoneAssumption, <1>19 DEF StartQueue, MoveDispatcher, Commanded, TypeOK, DispatcherPlaces, ThreadPlaces, RunStatuses, rows, memory, dispatching, executing, history, bounds
<1>20. ASSUME NEW s \in Sessions, PauseQueue(s) PROVE TypeOK'
  BY PlanAssumption, CapAssumption, NoneAssumption, <1>20 DEF PauseQueue, Commanded, TypeOK, DispatcherPlaces, ThreadPlaces, RunStatuses, rows, memory, dispatching, executing, history, bounds
<1>21. ASSUME NEW r \in Runs, NEW plan \in {"ready", "cancelled"}, CancelRun(r, plan) PROVE TypeOK'
  <2>1. RowTypes'
    BY SettleTypes, <1>21 DEF CancelRun, TypeOK, RowTypes, RunStatuses
  <2>2. crashes' \in 0..MaxCrashes /\ commands' \in 0..MaxCommands
    BY CapAssumption, <1>21 DEF CancelRun, Commanded, TypeOK
  <2>3. QED
    BY <2>1, <2>2, <1>21 DEF CancelRun, TypeOK, RowTypes, memory, dispatching, executing, history
<1>22. CASE StartAssigned
  BY PlanAssumption, CapAssumption, NoneAssumption, <1>22 DEF StartAssigned, KickoffStarted, TypeOK, DispatcherPlaces, ThreadPlaces, RunStatuses, rows, memory, dispatching, executing, history, bounds
<1>23. ASSUME NEW r \in Runs, TurnBegins(r) PROVE TypeOK'
  BY PlanAssumption, CapAssumption, NoneAssumption, <1>23 DEF TurnBegins, TypeOK, DispatcherPlaces, ThreadPlaces, RunStatuses, rows, memory, dispatching, executing, history, bounds
<1>24. ASSUME NEW r \in Runs, NEW status \in {"succeeded", "released"}, TurnEnds(r, status) PROVE TypeOK'
  <2>1. runPlan[r] \in Plans
    BY <1>24 DEF TurnEnds, TypeOK, RowInv
  <2>2. RowTypes'
    BY SettleTypes, <1>24 DEF TurnEnds, TypeOK, RowTypes, RunStatuses
  <2>3. QED
    BY <2>1, <2>2, <1>24 DEF TurnEnds, TypeOK, RowTypes, memory, dispatching, executing, bounds
<1>25. ASSUME NEW x \in Stages, CheckStage(x) PROVE TypeOK'
  BY PlanAssumption, CapAssumption, NoneAssumption, <1>25 DEF CheckStage, MoveStage, TypeOK, DispatcherPlaces, ThreadPlaces, RunStatuses, rows, memory, dispatching, executing, history, bounds
<1>26. ASSUME NEW x \in Stages, StartStage(x) PROVE TypeOK'
  BY PlanAssumption, CapAssumption, NoneAssumption, <1>26 DEF StartStage, MoveStage, TypeOK, DispatcherPlaces, ThreadPlaces, RunStatuses, rows, memory, dispatching, executing, history, bounds
<1>27. ASSUME NEW x \in Stages, EndStage(x) PROVE TypeOK'
  BY PlanAssumption, CapAssumption, NoneAssumption, <1>27 DEF EndStage, MoveStage, TypeOK, DispatcherPlaces, ThreadPlaces, RunStatuses, rows, memory, dispatching, executing, history, bounds
<1>28. ASSUME NEW scope \in {{s} : s \in Sessions} \cup {Sessions}, Reconcile(scope) PROVE TypeOK'
  BY PlanAssumption, CapAssumption, NoneAssumption, <1>28 DEF Reconcile, ReconcileRows, TypeOK, DispatcherPlaces, ThreadPlaces, RunStatuses, rows, memory, dispatching, executing, history, bounds
<1>29. CASE Restart
  BY PlanAssumption, CapAssumption, NoneAssumption, <1>29 DEF Restart, TypeOK, DispatcherPlaces, ThreadPlaces, RunStatuses, rows, memory, dispatching, executing, history, bounds
<1>30. CASE UNCHANGED vars
  BY <1>30 DEF TypeOK, vars, rows, memory, dispatching, executing, history, bounds
<1>31. QED
  BY <1>1, <1>2, <1>3, <1>4, <1>5, <1>6, <1>7, <1>8, <1>9, <1>10, <1>11, <1>12, <1>13,
     <1>14, <1>15, <1>16, <1>17, <1>18, <1>19, <1>20, <1>21, <1>22, <1>23, <1>24, <1>25,
     <1>26, <1>27, <1>28, <1>29, <1>30
     DEF Next, DispatcherStep, ThreadStep, Command, AgentStep

LEMMA RowInvReconcile ==
  ASSUME TypeOK, RowInv, NEW scope, ReconcileRows(scope), UNCHANGED assigning PROVE RowInv'
<1>1. \A r \in Runs : \/ runStatus'[r] = runStatus[r]
                      \/ runStatus[r] = "running" /\ r \notin working /\ runStatus'[r] = "released"
  BY DEF ReconcileRows, Stale, Running, TypeOK
<1>2. QED
  BY <1>1 DEF ReconcileRows, TypeOK, RowInv

LEMMA RowInvStep == ASSUME TypeOK, RowInv, HoldInv, [Next]_vars PROVE RowInv'
<1>1. ASSUME NEW g \in Generations, Look(g) PROVE RowInv'
  BY NoneAssumption, <1>1 DEF Look, MoveDispatcher, TypeOK, RowInv, HoldInv, WithRow, rows, memory, dispatching, executing, history, bounds
<1>2. ASSUME NEW g \in Generations, DispatcherReconciles(g) PROVE RowInv'
  BY RowInvReconcile, <1>2 DEF DispatcherReconciles
<1>3. ASSUME NEW g \in Generations, Pick(g) PROVE RowInv'
  BY NoneAssumption, <1>3 DEF Pick, MoveDispatcher, NextEntries, PendingEntries, TypeOK, RowInv, HoldInv, WithRow, rows, memory, dispatching, executing, history, bounds
<1>4. ASSUME NEW g \in Generations, CheckCapacity(g) PROVE RowInv'
  BY NoneAssumption, <1>4 DEF CheckCapacity, MoveDispatcher, TypeOK, RowInv, HoldInv, WithRow, rows, memory, dispatching, executing, history, bounds
<1>5. ASSUME NEW g \in Generations, TakeSessionPermit(g) PROVE RowInv'
  BY NoneAssumption, <1>5 DEF TakeSessionPermit, MoveDispatcher, TypeOK, RowInv, HoldInv, WithRow, rows, memory, dispatching, executing, history, bounds
<1>6. ASSUME NEW g \in Generations, NEW t \in Threads, SpawnRun(g, t) PROVE RowInv'
  BY NoneAssumption, <1>6 DEF SpawnRun, MoveDispatcher, TypeOK, RowInv, HoldInv, WithRow, rows, memory, dispatching, executing, history, bounds
<1>7. ASSUME NEW t \in Threads, LookUpRow(t) PROVE RowInv'
  BY NoneAssumption, <1>7 DEF LookUpRow, MoveThread, TypeOK, RowInv, HoldInv, WithRow, rows, memory, dispatching, executing, history, bounds
<1>8. ASSUME NEW t \in Threads, InsertFails(t) PROVE RowInv'
  BY NoneAssumption, <1>8 DEF InsertFails, Return, MoveThread, TypeOK, RowInv, HoldInv, WithRow, rows, memory, dispatching, executing, history, bounds
<1>9. ASSUME NEW t \in Threads, AskGate(t) PROVE RowInv'
  BY NoneAssumption, <1>9 DEF AskGate, Return, MoveThread, TypeOK, RowInv, HoldInv, WithRow, rows, memory, dispatching, executing, history, bounds
<1>10. ASSUME NEW t \in Threads, TakeToken(t) PROVE RowInv'
  BY NoneAssumption, <1>10 DEF TakeToken, Return, MoveThread, TypeOK, RowInv, HoldInv, WithRow, rows, memory, dispatching, executing, history, bounds
<1>11. ASSUME NEW t \in Threads, ChatFails(t) PROVE RowInv'
  BY NoneAssumption, <1>11 DEF ChatFails, Settle, MoveThread, TypeOK, RowInv, HoldInv, WithRow, rows, memory, dispatching, executing, history, bounds
<1>12. ASSUME NEW t \in Threads, Kickoff(t) PROVE RowInv'
  BY NoneAssumption, <1>12 DEF Kickoff, KickoffStarted, MoveThread, TypeOK, RowInv, HoldInv, WithRow, rows, memory, dispatching, executing, history, bounds
<1>13. ASSUME NEW t \in Threads, RemoveToken(t) PROVE RowInv'
  BY NoneAssumption, <1>13 DEF RemoveToken, Return, MoveThread, TypeOK, RowInv, HoldInv, WithRow, rows, memory, dispatching, executing, history, bounds
<1>14. ASSUME NEW t \in Threads, NEW r \in Runs, InsertQueuedRow(t, r) PROVE RowInv'
  BY NoneAssumption, <1>14 DEF InsertQueuedRow, InsertRow, MoveThread, TypeOK, RowInv, HoldInv, WithRow, rows, memory, dispatching, executing, history, bounds
<1>15. ASSUME NEW p \in Plans, Enqueue(p) PROVE RowInv'
  BY NoneAssumption, <1>15 DEF Enqueue, Commanded, TypeOK, RowInv, HoldInv, WithRow, rows, memory, dispatching, executing, history, bounds
<1>16. ASSUME NEW p \in Plans, RemoveFromQueue(p) PROVE RowInv'
  BY NoneAssumption, <1>16 DEF RemoveFromQueue, Commanded, TypeOK, RowInv, HoldInv, WithRow, rows, memory, dispatching, executing, history, bounds
<1>17. ASSUME NEW p \in Plans, Reopen(p) PROVE RowInv'
  BY NoneAssumption, <1>17 DEF Reopen, Commanded, TypeOK, RowInv, HoldInv, WithRow, rows, memory, dispatching, executing, history, bounds
<1>18. ASSUME NEW p \in Plans, NEW r \in Runs, InsertAssigned(p, r) PROVE RowInv'
  BY NoneAssumption, <1>18 DEF InsertAssigned, InsertRow, Commanded, TypeOK, RowInv, HoldInv, WithRow, rows, memory, dispatching, executing, history, bounds
<1>19. ASSUME NEW g \in Generations, StartQueue(g) PROVE RowInv'
  BY NoneAssumption, <1>19 DEF StartQueue, MoveDispatcher, Commanded, TypeOK, RowInv, HoldInv, WithRow, rows, memory, dispatching, executing, history, bounds
<1>20. ASSUME NEW s \in Sessions, PauseQueue(s) PROVE RowInv'
  BY NoneAssumption, <1>20 DEF PauseQueue, Commanded, TypeOK, RowInv, HoldInv, WithRow, rows, memory, dispatching, executing, history, bounds
<1>21. ASSUME NEW r \in Runs, NEW plan \in {"ready", "cancelled"}, CancelRun(r, plan) PROVE RowInv'
  BY NoneAssumption, <1>21 DEF CancelRun, Settle, Commanded, TypeOK, RowInv, HoldInv, WithRow, rows, memory, dispatching, executing, history, bounds
<1>22. CASE StartAssigned
  BY NoneAssumption, <1>22 DEF StartAssigned, KickoffStarted, TypeOK, RowInv, HoldInv, WithRow, rows, memory, dispatching, executing, history, bounds
<1>23. ASSUME NEW r \in Runs, TurnBegins(r) PROVE RowInv'
  BY <1>23 DEF TurnBegins, Running, TypeOK, RowInv
<1>24. ASSUME NEW r \in Runs, NEW status \in {"succeeded", "released"}, TurnEnds(r, status) PROVE RowInv'
  BY NoneAssumption, <1>24 DEF TurnEnds, Settle, TypeOK, RowInv
<1>25. ASSUME NEW x \in Stages, CheckStage(x) PROVE RowInv'
  BY NoneAssumption, <1>25 DEF CheckStage, MoveStage, TypeOK, RowInv, HoldInv, WithRow, rows, memory, dispatching, executing, history, bounds
<1>26. ASSUME NEW x \in Stages, StartStage(x) PROVE RowInv'
  BY NoneAssumption, <1>26 DEF StartStage, MoveStage, TypeOK, RowInv, HoldInv, WithRow, rows, memory, dispatching, executing, history, bounds
<1>27. ASSUME NEW x \in Stages, EndStage(x) PROVE RowInv'
  BY NoneAssumption, <1>27 DEF EndStage, MoveStage, TypeOK, RowInv, HoldInv, WithRow, rows, memory, dispatching, executing, history, bounds
<1>28. ASSUME NEW scope \in {{s} : s \in Sessions} \cup {Sessions}, Reconcile(scope) PROVE RowInv'
  BY RowInvReconcile, <1>28 DEF Reconcile
<1>29. CASE Restart
  <2>1. \A r \in Runs : runStatus'[r] = IF runStatus[r] = "running" THEN "released" ELSE runStatus[r]
    BY <1>29 DEF Restart, Running, TypeOK
  <2>2. UNCHANGED runPlan /\ working' = {} /\ assigning' = NoRun
    BY <1>29 DEF Restart
  <2>3. QED
    BY <2>1, <2>2 DEF RowInv, TypeOK
<1>30. CASE UNCHANGED vars
  BY <1>30 DEF RowInv, vars, rows, memory, dispatching, executing, history, bounds
<1>31. QED
  BY <1>1, <1>2, <1>3, <1>4, <1>5, <1>6, <1>7, <1>8, <1>9, <1>10, <1>11, <1>12, <1>13,
     <1>14, <1>15, <1>16, <1>17, <1>18, <1>19, <1>20, <1>21, <1>22, <1>23, <1>24, <1>25,
     <1>26, <1>27, <1>28, <1>29, <1>30
     DEF Next, DispatcherStep, ThreadStep, Command, AgentStep

LEMMA HoldInvStep == ASSUME TypeOK, RowInv, HoldInv, NeedInv, [Next]_vars PROVE HoldInv'
<1>1. ASSUME NEW g \in Generations, Look(g) PROVE HoldInv'
  BY NoneAssumption, <1>1 DEF Look, MoveDispatcher, TypeOK, RowInv, HoldInv, WithRow, NeedInv, Picked, rows, memory, dispatching, executing, history, bounds
<1>2. ASSUME NEW g \in Generations, DispatcherReconciles(g) PROVE HoldInv'
  BY NoneAssumption, <1>2 DEF DispatcherReconciles, ReconcileRows, MoveDispatcher, TypeOK, RowInv, HoldInv, WithRow, NeedInv, Picked, rows, memory, dispatching, executing, history, bounds
<1>3. ASSUME NEW g \in Generations, Pick(g) PROVE HoldInv'
  BY NoneAssumption, <1>3 DEF Pick, MoveDispatcher, NextEntries, PendingEntries, TypeOK, RowInv, HoldInv, WithRow, NeedInv, Picked, rows, memory, dispatching, executing, history, bounds
<1>4. ASSUME NEW g \in Generations, CheckCapacity(g) PROVE HoldInv'
  BY NoneAssumption, <1>4 DEF CheckCapacity, MoveDispatcher, TypeOK, RowInv, HoldInv, WithRow, NeedInv, Picked, rows, memory, dispatching, executing, history, bounds
<1>5. ASSUME NEW g \in Generations, TakeSessionPermit(g) PROVE HoldInv'
  BY NoneAssumption, <1>5 DEF TakeSessionPermit, MoveDispatcher, TypeOK, RowInv, HoldInv, WithRow, NeedInv, Picked, rows, memory, dispatching, executing, history, bounds
<1>6. ASSUME NEW g \in Generations, NEW t \in Threads, SpawnRun(g, t) PROVE HoldInv'
  BY NoneAssumption, <1>6 DEF SpawnRun, MoveDispatcher, TypeOK, RowInv, HoldInv, WithRow, NeedInv, Picked, rows, memory, dispatching, executing, history, bounds
<1>7. ASSUME NEW t \in Threads, LookUpRow(t) PROVE HoldInv'
  BY NoneAssumption, <1>7 DEF LookUpRow, MoveThread, TypeOK, RowInv, HoldInv, WithRow, NeedInv, Picked, rows, memory, dispatching, executing, history, bounds
<1>8. ASSUME NEW t \in Threads, InsertFails(t) PROVE HoldInv'
  BY NoneAssumption, <1>8 DEF InsertFails, Return, MoveThread, TypeOK, RowInv, HoldInv, WithRow, NeedInv, Picked, rows, memory, dispatching, executing, history, bounds
<1>9. ASSUME NEW t \in Threads, AskGate(t) PROVE HoldInv'
  BY NoneAssumption, <1>9 DEF AskGate, Return, MoveThread, TypeOK, RowInv, HoldInv, WithRow, NeedInv, Picked, rows, memory, dispatching, executing, history, bounds
<1>10. ASSUME NEW t \in Threads, TakeToken(t) PROVE HoldInv'
  BY NoneAssumption, <1>10 DEF TakeToken, Return, MoveThread, TypeOK, RowInv, HoldInv, WithRow, NeedInv, Picked, rows, memory, dispatching, executing, history, bounds
<1>11. ASSUME NEW t \in Threads, ChatFails(t) PROVE HoldInv'
  BY NoneAssumption, <1>11 DEF ChatFails, Settle, MoveThread, TypeOK, RowInv, HoldInv, WithRow, NeedInv, Picked, rows, memory, dispatching, executing, history, bounds
<1>12. ASSUME NEW t \in Threads, Kickoff(t) PROVE HoldInv'
  BY NoneAssumption, <1>12 DEF Kickoff, KickoffStarted, MoveThread, TypeOK, RowInv, HoldInv, WithRow, NeedInv, Picked, rows, memory, dispatching, executing, history, bounds
<1>13. ASSUME NEW t \in Threads, RemoveToken(t) PROVE HoldInv'
  BY NoneAssumption, <1>13 DEF RemoveToken, Return, MoveThread, TypeOK, RowInv, HoldInv, WithRow, NeedInv, Picked, rows, memory, dispatching, executing, history, bounds
<1>14. ASSUME NEW t \in Threads, NEW r \in Runs, InsertQueuedRow(t, r) PROVE HoldInv'
  BY NoneAssumption, <1>14 DEF InsertQueuedRow, InsertRow, MoveThread, TypeOK, RowInv, HoldInv, WithRow, NeedInv, Picked, rows, memory, dispatching, executing, history, bounds
<1>15. ASSUME NEW p \in Plans, Enqueue(p) PROVE HoldInv'
  BY NoneAssumption, <1>15 DEF Enqueue, Commanded, TypeOK, RowInv, HoldInv, WithRow, NeedInv, Picked, rows, memory, dispatching, executing, history, bounds
<1>16. ASSUME NEW p \in Plans, RemoveFromQueue(p) PROVE HoldInv'
  BY NoneAssumption, <1>16 DEF RemoveFromQueue, Commanded, TypeOK, RowInv, HoldInv, WithRow, NeedInv, Picked, rows, memory, dispatching, executing, history, bounds
<1>17. ASSUME NEW p \in Plans, Reopen(p) PROVE HoldInv'
  BY NoneAssumption, <1>17 DEF Reopen, Commanded, TypeOK, RowInv, HoldInv, WithRow, NeedInv, Picked, rows, memory, dispatching, executing, history, bounds
<1>18. ASSUME NEW p \in Plans, NEW r \in Runs, InsertAssigned(p, r) PROVE HoldInv'
  BY NoneAssumption, <1>18 DEF InsertAssigned, InsertRow, Commanded, TypeOK, RowInv, HoldInv, WithRow, NeedInv, Picked, rows, memory, dispatching, executing, history, bounds
<1>19. ASSUME NEW g \in Generations, StartQueue(g) PROVE HoldInv'
  BY NoneAssumption, <1>19 DEF StartQueue, MoveDispatcher, Commanded, TypeOK, RowInv, HoldInv, WithRow, NeedInv, Picked, rows, memory, dispatching, executing, history, bounds
<1>20. ASSUME NEW s \in Sessions, PauseQueue(s) PROVE HoldInv'
  BY NoneAssumption, <1>20 DEF PauseQueue, Commanded, TypeOK, RowInv, HoldInv, WithRow, NeedInv, Picked, rows, memory, dispatching, executing, history, bounds
<1>21. ASSUME NEW r \in Runs, NEW plan \in {"ready", "cancelled"}, CancelRun(r, plan) PROVE HoldInv'
  BY NoneAssumption, <1>21 DEF CancelRun, Settle, Commanded, TypeOK, RowInv, HoldInv, WithRow, NeedInv, Picked, rows, memory, dispatching, executing, history, bounds
<1>22. CASE StartAssigned
  BY NoneAssumption, <1>22 DEF StartAssigned, KickoffStarted, TypeOK, RowInv, HoldInv, WithRow, NeedInv, Picked, rows, memory, dispatching, executing, history, bounds
<1>23. ASSUME NEW r \in Runs, TurnBegins(r) PROVE HoldInv'
  BY NoneAssumption, <1>23 DEF TurnBegins, TypeOK, RowInv, HoldInv, WithRow, NeedInv, Picked, rows, memory, dispatching, executing, history, bounds
<1>24. ASSUME NEW r \in Runs, NEW status \in {"succeeded", "released"}, TurnEnds(r, status) PROVE HoldInv'
  BY NoneAssumption, <1>24 DEF TurnEnds, Settle, TypeOK, RowInv, HoldInv, WithRow, NeedInv, Picked, rows, memory, dispatching, executing, history, bounds
<1>25. ASSUME NEW x \in Stages, CheckStage(x) PROVE HoldInv'
  BY NoneAssumption, <1>25 DEF CheckStage, MoveStage, TypeOK, RowInv, HoldInv, WithRow, NeedInv, Picked, rows, memory, dispatching, executing, history, bounds
<1>26. ASSUME NEW x \in Stages, StartStage(x) PROVE HoldInv'
  BY NoneAssumption, <1>26 DEF StartStage, MoveStage, TypeOK, RowInv, HoldInv, WithRow, NeedInv, Picked, rows, memory, dispatching, executing, history, bounds
<1>27. ASSUME NEW x \in Stages, EndStage(x) PROVE HoldInv'
  BY NoneAssumption, <1>27 DEF EndStage, MoveStage, TypeOK, RowInv, HoldInv, WithRow, NeedInv, Picked, rows, memory, dispatching, executing, history, bounds
<1>28. ASSUME NEW scope \in {{s} : s \in Sessions} \cup {Sessions}, Reconcile(scope) PROVE HoldInv'
  BY NoneAssumption, <1>28 DEF Reconcile, ReconcileRows, TypeOK, RowInv, HoldInv, WithRow, NeedInv, Picked, rows, memory, dispatching, executing, history, bounds
<1>29. CASE Restart
  BY NoneAssumption, <1>29 DEF Restart, TypeOK, RowInv, HoldInv, WithRow, NeedInv, Picked, rows, memory, dispatching, executing, history, bounds
<1>30. CASE UNCHANGED vars
  BY <1>30 DEF HoldInv, vars, rows, memory, dispatching, executing, history, bounds
<1>31. QED
  BY <1>1, <1>2, <1>3, <1>4, <1>5, <1>6, <1>7, <1>8, <1>9, <1>10, <1>11, <1>12, <1>13,
     <1>14, <1>15, <1>16, <1>17, <1>18, <1>19, <1>20, <1>21, <1>22, <1>23, <1>24, <1>25,
     <1>26, <1>27, <1>28, <1>29, <1>30
     DEF Next, DispatcherStep, ThreadStep, Command, AgentStep

LEMMA NeedInvStep == ASSUME TypeOK, RowInv, HoldInv, NeedInv, [Next]_vars PROVE NeedInv'
<1>1. ASSUME NEW g \in Generations, Look(g) PROVE NeedInv'
  BY PlanAssumption, NoneAssumption, <1>1 DEF Look, MoveDispatcher, TypeOK, RowInv, HoldInv, NeedInv, WithRow, Picked, rows, memory, dispatching, executing, history, bounds
<1>2. ASSUME NEW g \in Generations, DispatcherReconciles(g) PROVE NeedInv'
  BY PlanAssumption, NoneAssumption, <1>2 DEF DispatcherReconciles, ReconcileRows, MoveDispatcher, TypeOK, RowInv, HoldInv, NeedInv, WithRow, Picked, rows, memory, dispatching, executing, history, bounds
<1>3. ASSUME NEW g \in Generations, Pick(g) PROVE NeedInv'
  <2>1. \A p \in NextEntries(Home[g]) : p \in Plans /\ Needs[p] \subseteq finishedOnce
    BY PlanAssumption DEF NextEntries, PendingEntries, Dispatchable, TypeOK, NeedInv
  <2>2. QED
    BY <2>1, <1>3 DEF Pick, MoveDispatcher, TypeOK, NeedInv, Picked, rows, executing, history
<1>4. ASSUME NEW g \in Generations, CheckCapacity(g) PROVE NeedInv'
  BY PlanAssumption, NoneAssumption, <1>4 DEF CheckCapacity, MoveDispatcher, TypeOK, RowInv, HoldInv, NeedInv, WithRow, Picked, rows, memory, dispatching, executing, history, bounds
<1>5. ASSUME NEW g \in Generations, TakeSessionPermit(g) PROVE NeedInv'
  BY PlanAssumption, NoneAssumption, <1>5 DEF TakeSessionPermit, MoveDispatcher, TypeOK, RowInv, HoldInv, NeedInv, WithRow, Picked, rows, memory, dispatching, executing, history, bounds
<1>6. ASSUME NEW g \in Generations, NEW t \in Threads, SpawnRun(g, t) PROVE NeedInv'
  BY PlanAssumption, NoneAssumption, <1>6 DEF SpawnRun, MoveDispatcher, TypeOK, RowInv, HoldInv, NeedInv, WithRow, Picked, rows, memory, dispatching, executing, history, bounds
<1>7. ASSUME NEW t \in Threads, LookUpRow(t) PROVE NeedInv'
  BY PlanAssumption, NoneAssumption, <1>7 DEF LookUpRow, MoveThread, TypeOK, RowInv, HoldInv, NeedInv, WithRow, Picked, rows, memory, dispatching, executing, history, bounds
<1>8. ASSUME NEW t \in Threads, InsertFails(t) PROVE NeedInv'
  BY PlanAssumption, NoneAssumption, <1>8 DEF InsertFails, Return, MoveThread, TypeOK, RowInv, HoldInv, NeedInv, WithRow, Picked, rows, memory, dispatching, executing, history, bounds
<1>9. ASSUME NEW t \in Threads, AskGate(t) PROVE NeedInv'
  <2>1. finishedOnce' = finishedOnce /\ planStatus' = planStatus /\ dispatcher' = dispatcher /\ next' = next
    BY <1>9 DEF AskGate, Return, rows, dispatching, history
  <2>2. \A u \in Threads : at'[u] # "free" => at[u] # "free" /\ task'[u] = task[u]
    BY <1>9 DEF AskGate, Return, MoveThread, TypeOK
  <2>3. QED
    BY <2>1, <2>2 DEF NeedInv
<1>10. ASSUME NEW t \in Threads, TakeToken(t) PROVE NeedInv'
  BY PlanAssumption, NoneAssumption, <1>10 DEF TakeToken, Return, MoveThread, TypeOK, RowInv, HoldInv, NeedInv, WithRow, Picked, rows, memory, dispatching, executing, history, bounds
<1>11. ASSUME NEW t \in Threads, ChatFails(t) PROVE NeedInv'
  BY PlanAssumption, NoneAssumption, <1>11 DEF ChatFails, Settle, MoveThread, TypeOK, RowInv, HoldInv, NeedInv, WithRow, Picked, rows, memory, dispatching, executing, history, bounds
<1>12. ASSUME NEW t \in Threads, Kickoff(t) PROVE NeedInv'
  BY PlanAssumption, NoneAssumption, <1>12 DEF Kickoff, KickoffStarted, MoveThread, TypeOK, RowInv, HoldInv, NeedInv, WithRow, Picked, rows, memory, dispatching, executing, history, bounds
<1>13. ASSUME NEW t \in Threads, RemoveToken(t) PROVE NeedInv'
  BY PlanAssumption, NoneAssumption, <1>13 DEF RemoveToken, Return, MoveThread, TypeOK, RowInv, HoldInv, NeedInv, WithRow, Picked, rows, memory, dispatching, executing, history, bounds
<1>14. ASSUME NEW t \in Threads, NEW r \in Runs, InsertQueuedRow(t, r) PROVE NeedInv'
  BY PlanAssumption, NoneAssumption, <1>14 DEF InsertQueuedRow, InsertRow, MoveThread, TypeOK, RowInv, HoldInv, NeedInv, WithRow, Picked, rows, memory, dispatching, executing, history, bounds
<1>15. ASSUME NEW p \in Plans, Enqueue(p) PROVE NeedInv'
  BY PlanAssumption, NoneAssumption, <1>15 DEF Enqueue, Commanded, TypeOK, RowInv, HoldInv, NeedInv, WithRow, Picked, rows, memory, dispatching, executing, history, bounds
<1>16. ASSUME NEW p \in Plans, RemoveFromQueue(p) PROVE NeedInv'
  BY PlanAssumption, NoneAssumption, <1>16 DEF RemoveFromQueue, Commanded, TypeOK, RowInv, HoldInv, NeedInv, WithRow, Picked, rows, memory, dispatching, executing, history, bounds
<1>17. ASSUME NEW p \in Plans, Reopen(p) PROVE NeedInv'
  BY PlanAssumption, NoneAssumption, <1>17 DEF Reopen, Commanded, TypeOK, RowInv, HoldInv, NeedInv, WithRow, Picked, rows, memory, dispatching, executing, history, bounds
<1>18. ASSUME NEW p \in Plans, NEW r \in Runs, InsertAssigned(p, r) PROVE NeedInv'
  BY PlanAssumption, NoneAssumption, <1>18 DEF InsertAssigned, InsertRow, Commanded, TypeOK, RowInv, HoldInv, NeedInv, WithRow, Picked, rows, memory, dispatching, executing, history, bounds
<1>19. ASSUME NEW g \in Generations, StartQueue(g) PROVE NeedInv'
  BY PlanAssumption, NoneAssumption, <1>19 DEF StartQueue, MoveDispatcher, Commanded, TypeOK, RowInv, HoldInv, NeedInv, WithRow, Picked, rows, memory, dispatching, executing, history, bounds
<1>20. ASSUME NEW s \in Sessions, PauseQueue(s) PROVE NeedInv'
  BY PlanAssumption, NoneAssumption, <1>20 DEF PauseQueue, Commanded, TypeOK, RowInv, HoldInv, NeedInv, WithRow, Picked, rows, memory, dispatching, executing, history, bounds
<1>21. ASSUME NEW r \in Runs, NEW plan \in {"ready", "cancelled"}, CancelRun(r, plan) PROVE NeedInv'
  BY PlanAssumption, NoneAssumption, <1>21 DEF CancelRun, Settle, Commanded, TypeOK, RowInv, HoldInv, NeedInv, WithRow, Picked, rows, memory, dispatching, executing, history, bounds
<1>22. CASE StartAssigned
  BY PlanAssumption, NoneAssumption, <1>22 DEF StartAssigned, KickoffStarted, TypeOK, RowInv, HoldInv, NeedInv, WithRow, Picked, rows, memory, dispatching, executing, history, bounds
<1>23. ASSUME NEW r \in Runs, TurnBegins(r) PROVE NeedInv'
  BY PlanAssumption, NoneAssumption, <1>23 DEF TurnBegins, TypeOK, RowInv, HoldInv, NeedInv, WithRow, Picked, rows, memory, dispatching, executing, history, bounds
<1>24. ASSUME NEW r \in Runs, NEW status \in {"succeeded", "released"}, TurnEnds(r, status) PROVE NeedInv'
  BY PlanAssumption, NoneAssumption, <1>24 DEF TurnEnds, Settle, TypeOK, RowInv, HoldInv, NeedInv, WithRow, Picked, rows, memory, dispatching, executing, history, bounds
<1>25. ASSUME NEW x \in Stages, CheckStage(x) PROVE NeedInv'
  BY PlanAssumption, NoneAssumption, <1>25 DEF CheckStage, MoveStage, TypeOK, RowInv, HoldInv, NeedInv, WithRow, Picked, rows, memory, dispatching, executing, history, bounds
<1>26. ASSUME NEW x \in Stages, StartStage(x) PROVE NeedInv'
  BY PlanAssumption, NoneAssumption, <1>26 DEF StartStage, MoveStage, TypeOK, RowInv, HoldInv, NeedInv, WithRow, Picked, rows, memory, dispatching, executing, history, bounds
<1>27. ASSUME NEW x \in Stages, EndStage(x) PROVE NeedInv'
  BY PlanAssumption, NoneAssumption, <1>27 DEF EndStage, MoveStage, TypeOK, RowInv, HoldInv, NeedInv, WithRow, Picked, rows, memory, dispatching, executing, history, bounds
<1>28. ASSUME NEW scope \in {{s} : s \in Sessions} \cup {Sessions}, Reconcile(scope) PROVE NeedInv'
  BY PlanAssumption, NoneAssumption, <1>28 DEF Reconcile, ReconcileRows, TypeOK, RowInv, HoldInv, NeedInv, WithRow, Picked, rows, memory, dispatching, executing, history, bounds
<1>29. CASE Restart
  BY PlanAssumption, NoneAssumption, <1>29 DEF Restart, TypeOK, RowInv, HoldInv, NeedInv, WithRow, Picked, rows, memory, dispatching, executing, history, bounds
<1>30. CASE UNCHANGED vars
  BY <1>30 DEF NeedInv, vars, rows, memory, dispatching, executing, history, bounds
<1>31. QED
  BY <1>1, <1>2, <1>3, <1>4, <1>5, <1>6, <1>7, <1>8, <1>9, <1>10, <1>11, <1>12, <1>13,
     <1>14, <1>15, <1>16, <1>17, <1>18, <1>19, <1>20, <1>21, <1>22, <1>23, <1>24, <1>25,
     <1>26, <1>27, <1>28, <1>29, <1>30
     DEF Next, DispatcherStep, ThreadStep, Command, AgentStep

LEMMA LateInvStep == ASSUME TypeOK, LateInv, [Next]_vars PROVE LateInv'
<1>1. ASSUME NEW g \in Generations, Look(g) PROVE LateInv'
  BY PlanAssumption, NoneAssumption, <1>1 DEF Look, MoveDispatcher, TypeOK, LateInv, Late, DispatcherPlaces, rows, memory, dispatching, executing, history, bounds
<1>2. ASSUME NEW g \in Generations, DispatcherReconciles(g) PROVE LateInv'
  BY PlanAssumption, NoneAssumption, <1>2 DEF DispatcherReconciles, ReconcileRows, MoveDispatcher, TypeOK, LateInv, Late, DispatcherPlaces, rows, memory, dispatching, executing, history, bounds
<1>3. ASSUME NEW g \in Generations, Pick(g) PROVE LateInv'
  BY PlanAssumption, NoneAssumption, <1>3 DEF Pick, MoveDispatcher, NextEntries, PendingEntries, TypeOK, LateInv, Late, DispatcherPlaces, rows, memory, dispatching, executing, history, bounds
<1>4. ASSUME NEW g \in Generations, CheckCapacity(g) PROVE LateInv'
  BY PlanAssumption, NoneAssumption, <1>4 DEF CheckCapacity, MoveDispatcher, TypeOK, LateInv, Late, DispatcherPlaces, rows, memory, dispatching, executing, history, bounds
<1>5. ASSUME NEW g \in Generations, TakeSessionPermit(g) PROVE LateInv'
  BY PlanAssumption, NoneAssumption, <1>5 DEF TakeSessionPermit, MoveDispatcher, TypeOK, LateInv, Late, DispatcherPlaces, rows, memory, dispatching, executing, history, bounds
<1>6. ASSUME NEW g \in Generations, NEW t \in Threads, SpawnRun(g, t) PROVE LateInv'
  <2>1. lateStarts[g] = 0 \/ ~Late(g)
    <3>1. lateStarts[g] \in Nat /\ lateStarts[g] <= 1
      BY DEF TypeOK, LateInv
    <3>2. lateStarts[g] # 1 \/ ~Late(g)
      BY <1>6 DEF SpawnRun, LateInv
    <3>3. QED
      BY <3>1, <3>2
  <2>2. \A h \in Generations : h # g => lateStarts'[h] = lateStarts[h] /\ dispatcher'[h] = dispatcher[h]
    BY <1>6 DEF SpawnRun, MoveDispatcher, TypeOK
  <2>3. UNCHANGED <<current, paused>> /\ dispatcher'[g] = "look"
    BY <1>6 DEF SpawnRun, MoveDispatcher, TypeOK
  <2>4. lateStarts'[g] = IF Late(g) THEN lateStarts[g] + 1 ELSE lateStarts[g]
    BY <1>6 DEF SpawnRun, TypeOK
  <2>5. lateStarts[g] \in Nat
    BY DEF TypeOK
  <2>6. QED
    BY <2>1, <2>2, <2>3, <2>4, <2>5 DEF LateInv, Late
<1>7. ASSUME NEW t \in Threads, LookUpRow(t) PROVE LateInv'
  BY PlanAssumption, NoneAssumption, <1>7 DEF LookUpRow, MoveThread, TypeOK, LateInv, Late, DispatcherPlaces, rows, memory, dispatching, executing, history, bounds
<1>8. ASSUME NEW t \in Threads, InsertFails(t) PROVE LateInv'
  BY PlanAssumption, NoneAssumption, <1>8 DEF InsertFails, Return, MoveThread, TypeOK, LateInv, Late, DispatcherPlaces, rows, memory, dispatching, executing, history, bounds
<1>9. ASSUME NEW t \in Threads, AskGate(t) PROVE LateInv'
  BY PlanAssumption, NoneAssumption, <1>9 DEF AskGate, Return, MoveThread, TypeOK, LateInv, Late, DispatcherPlaces, rows, memory, dispatching, executing, history, bounds
<1>10. ASSUME NEW t \in Threads, TakeToken(t) PROVE LateInv'
  BY PlanAssumption, NoneAssumption, <1>10 DEF TakeToken, Return, MoveThread, TypeOK, LateInv, Late, DispatcherPlaces, rows, memory, dispatching, executing, history, bounds
<1>11. ASSUME NEW t \in Threads, ChatFails(t) PROVE LateInv'
  BY PlanAssumption, NoneAssumption, <1>11 DEF ChatFails, Settle, MoveThread, TypeOK, LateInv, Late, DispatcherPlaces, rows, memory, dispatching, executing, history, bounds
<1>12. ASSUME NEW t \in Threads, Kickoff(t) PROVE LateInv'
  BY PlanAssumption, NoneAssumption, <1>12 DEF Kickoff, KickoffStarted, MoveThread, TypeOK, LateInv, Late, DispatcherPlaces, rows, memory, dispatching, executing, history, bounds
<1>13. ASSUME NEW t \in Threads, RemoveToken(t) PROVE LateInv'
  BY PlanAssumption, NoneAssumption, <1>13 DEF RemoveToken, Return, MoveThread, TypeOK, LateInv, Late, DispatcherPlaces, rows, memory, dispatching, executing, history, bounds
<1>14. ASSUME NEW t \in Threads, NEW r \in Runs, InsertQueuedRow(t, r) PROVE LateInv'
  BY PlanAssumption, NoneAssumption, <1>14 DEF InsertQueuedRow, InsertRow, MoveThread, TypeOK, LateInv, Late, DispatcherPlaces, rows, memory, dispatching, executing, history, bounds
<1>15. ASSUME NEW p \in Plans, Enqueue(p) PROVE LateInv'
  BY PlanAssumption, NoneAssumption, <1>15 DEF Enqueue, Commanded, TypeOK, LateInv, Late, DispatcherPlaces, rows, memory, dispatching, executing, history, bounds
<1>16. ASSUME NEW p \in Plans, RemoveFromQueue(p) PROVE LateInv'
  BY PlanAssumption, NoneAssumption, <1>16 DEF RemoveFromQueue, Commanded, TypeOK, LateInv, Late, DispatcherPlaces, rows, memory, dispatching, executing, history, bounds
<1>17. ASSUME NEW p \in Plans, Reopen(p) PROVE LateInv'
  BY PlanAssumption, NoneAssumption, <1>17 DEF Reopen, Commanded, TypeOK, LateInv, Late, DispatcherPlaces, rows, memory, dispatching, executing, history, bounds
<1>18. ASSUME NEW p \in Plans, NEW r \in Runs, InsertAssigned(p, r) PROVE LateInv'
  BY PlanAssumption, NoneAssumption, <1>18 DEF InsertAssigned, InsertRow, Commanded, TypeOK, LateInv, Late, DispatcherPlaces, rows, memory, dispatching, executing, history, bounds
<1>19. ASSUME NEW g \in Generations, StartQueue(g) PROVE LateInv'
  BY PlanAssumption, NoneAssumption, <1>19 DEF StartQueue, MoveDispatcher, Commanded, TypeOK, LateInv, Late, DispatcherPlaces, rows, memory, dispatching, executing, history, bounds
<1>20. ASSUME NEW s \in Sessions, PauseQueue(s) PROVE LateInv'
  BY PlanAssumption, NoneAssumption, <1>20 DEF PauseQueue, Commanded, TypeOK, LateInv, Late, DispatcherPlaces, rows, memory, dispatching, executing, history, bounds
<1>21. ASSUME NEW r \in Runs, NEW plan \in {"ready", "cancelled"}, CancelRun(r, plan) PROVE LateInv'
  BY PlanAssumption, NoneAssumption, <1>21 DEF CancelRun, Settle, Commanded, TypeOK, LateInv, Late, DispatcherPlaces, rows, memory, dispatching, executing, history, bounds
<1>22. CASE StartAssigned
  BY PlanAssumption, NoneAssumption, <1>22 DEF StartAssigned, KickoffStarted, TypeOK, LateInv, Late, DispatcherPlaces, rows, memory, dispatching, executing, history, bounds
<1>23. ASSUME NEW r \in Runs, TurnBegins(r) PROVE LateInv'
  BY PlanAssumption, NoneAssumption, <1>23 DEF TurnBegins, TypeOK, LateInv, Late, DispatcherPlaces, rows, memory, dispatching, executing, history, bounds
<1>24. ASSUME NEW r \in Runs, NEW status \in {"succeeded", "released"}, TurnEnds(r, status) PROVE LateInv'
  BY PlanAssumption, NoneAssumption, <1>24 DEF TurnEnds, Settle, TypeOK, LateInv, Late, DispatcherPlaces, rows, memory, dispatching, executing, history, bounds
<1>25. ASSUME NEW x \in Stages, CheckStage(x) PROVE LateInv'
  BY PlanAssumption, NoneAssumption, <1>25 DEF CheckStage, MoveStage, TypeOK, LateInv, Late, DispatcherPlaces, rows, memory, dispatching, executing, history, bounds
<1>26. ASSUME NEW x \in Stages, StartStage(x) PROVE LateInv'
  BY PlanAssumption, NoneAssumption, <1>26 DEF StartStage, MoveStage, TypeOK, LateInv, Late, DispatcherPlaces, rows, memory, dispatching, executing, history, bounds
<1>27. ASSUME NEW x \in Stages, EndStage(x) PROVE LateInv'
  BY PlanAssumption, NoneAssumption, <1>27 DEF EndStage, MoveStage, TypeOK, LateInv, Late, DispatcherPlaces, rows, memory, dispatching, executing, history, bounds
<1>28. ASSUME NEW scope \in {{s} : s \in Sessions} \cup {Sessions}, Reconcile(scope) PROVE LateInv'
  BY PlanAssumption, NoneAssumption, <1>28 DEF Reconcile, ReconcileRows, TypeOK, LateInv, Late, DispatcherPlaces, rows, memory, dispatching, executing, history, bounds
<1>29. CASE Restart
  <2>1. \A h \in Generations : Late(h)'
    BY PlanAssumption, NoneAssumption, <1>29 DEF Restart, Late
  <2>2. QED
    BY <2>1, <1>29 DEF Restart, TypeOK, LateInv, history
<1>30. CASE UNCHANGED vars
  BY <1>30 DEF LateInv, Late, vars, rows, memory, dispatching, executing, history, bounds
<1>31. QED
  BY <1>1, <1>2, <1>3, <1>4, <1>5, <1>6, <1>7, <1>8, <1>9, <1>10, <1>11, <1>12, <1>13,
     <1>14, <1>15, <1>16, <1>17, <1>18, <1>19, <1>20, <1>21, <1>22, <1>23, <1>24, <1>25,
     <1>26, <1>27, <1>28, <1>29, <1>30
     DEF Next, DispatcherStep, ThreadStep, Command, AgentStep

LEMMA WithoutOne ==
  ASSUME NEW S, IsFiniteSet(S), NEW x PROVE Cardinality(S) <= Cardinality(S \ {x}) + 1
<1>1. Cardinality(S) \in Nat /\ Cardinality(S \ {x}) \in Nat
  BY FS_CardinalityType, FS_RemoveElement
<1>2. Cardinality(S \ {x}) = IF x \in S THEN Cardinality(S) - 1 ELSE Cardinality(S)
  BY FS_RemoveElement
<1>3. QED
  BY <1>1, <1>2

LEMMA FewerGated == ASSUME CapInv, Gated' \subseteq Gated PROVE CapInv'
<1>1. IsFiniteSet(Gated)
  BY FiniteAssumption, FS_Subset DEF Gated
<1>2. IsFiniteSet(Gated') /\ Cardinality(Gated') <= Cardinality(Gated)
  BY <1>1, FS_Subset
<1>3. QED
  BY <1>1, <1>2, FS_CardinalityType, CapAssumption DEF CapInv

LEMMA CapInvStep == ASSUME TypeOK, RowInv, HoldInv, CapInv, [Next]_vars PROVE CapInv'
<1>1. ASSUME NEW g \in Generations, Look(g) PROVE CapInv'
  <2>1. Gated' \subseteq Gated
    BY NoneAssumption, <1>1 DEF Look, MoveDispatcher, TypeOK, RowInv, HoldInv, WithRow, rows, history, executing, memory, dispatching, Gated, PastGate
  <2>2. QED
    BY <2>1, FewerGated
<1>2. ASSUME NEW g \in Generations, DispatcherReconciles(g) PROVE CapInv'
  <2>1. \A r \in Runs : runStatus'[r] \in {"running", "pending"} => runStatus'[r] = runStatus[r]
    BY <1>2 DEF DispatcherReconciles, ReconcileRows, TypeOK
  <2>2. PastGate' = PastGate /\ hold' = hold /\ ungated' = ungated
    BY <1>2 DEF DispatcherReconciles, PastGate, executing, history
  <2>3. Gated' \subseteq Gated
    BY <2>1, <2>2 DEF Gated
  <2>4. QED
    BY <2>3, FewerGated
<1>3. ASSUME NEW g \in Generations, Pick(g) PROVE CapInv'
  <2>1. Gated' \subseteq Gated
    BY NoneAssumption, <1>3 DEF Pick, MoveDispatcher, NextEntries, PendingEntries, TypeOK, RowInv, HoldInv, WithRow, rows, history, executing, memory, dispatching, Gated, PastGate
  <2>2. QED
    BY <2>1, FewerGated
<1>4. ASSUME NEW g \in Generations, CheckCapacity(g) PROVE CapInv'
  <2>1. Gated' \subseteq Gated
    BY NoneAssumption, <1>4 DEF CheckCapacity, MoveDispatcher, TypeOK, RowInv, HoldInv, WithRow, rows, history, executing, memory, dispatching, Gated, PastGate
  <2>2. QED
    BY <2>1, FewerGated
<1>5. ASSUME NEW g \in Generations, TakeSessionPermit(g) PROVE CapInv'
  <2>1. Gated' \subseteq Gated
    BY NoneAssumption, <1>5 DEF TakeSessionPermit, MoveDispatcher, TypeOK, RowInv, HoldInv, WithRow, rows, history, executing, memory, dispatching, Gated, PastGate
  <2>2. QED
    BY <2>1, FewerGated
<1>6. ASSUME NEW g \in Generations, NEW t \in Threads, SpawnRun(g, t) PROVE CapInv'
  <2>1. Gated' \subseteq Gated
    BY NoneAssumption, <1>6 DEF SpawnRun, MoveDispatcher, TypeOK, RowInv, HoldInv, WithRow, rows, history, executing, memory, dispatching, Gated, PastGate
  <2>2. QED
    BY <2>1, FewerGated
<1>7. ASSUME NEW t \in Threads, LookUpRow(t) PROVE CapInv'
  <2>1. Gated' \subseteq Gated
    BY NoneAssumption, <1>7 DEF LookUpRow, MoveThread, TypeOK, RowInv, HoldInv, WithRow, rows, history, executing, memory, dispatching, Gated, PastGate
  <2>2. QED
    BY <2>1, FewerGated
<1>8. ASSUME NEW t \in Threads, InsertFails(t) PROVE CapInv'
  <2>1. Gated' \subseteq Gated
    BY NoneAssumption, <1>8 DEF InsertFails, Return, MoveThread, TypeOK, RowInv, HoldInv, WithRow, rows, history, executing, memory, dispatching, Gated, PastGate
  <2>2. QED
    BY <2>1, FewerGated
<1>9. ASSUME NEW t \in Threads, AskGate(t) PROVE CapInv'
  <2>1. CASE Return(t)
    <3>1. \A u \in Threads : at'[u] # "free" => at'[u] = at[u] /\ hold'[u] = hold[u]
      BY <2>1 DEF Return, MoveThread, TypeOK
    <3>2. Gated' \subseteq Gated
      BY <3>1, <1>9 DEF AskGate, Gated, PastGate, rows, history
    <3>3. QED
      BY <3>2, FewerGated
  <2>2. CASE PlanRunCanStart(hold[t]) /\ MoveThread(t, "token") /\ UNCHANGED hold
    <3>1. \A u \in Threads : u # t => at'[u] = at[u]
      BY <2>2 DEF MoveThread, TypeOK
    <3>2. Gated' \ {hold[t]} \subseteq Active \ {hold[t]}
      BY <1>9 DEF AskGate, Gated, Active, rows, history
    <3>3. IsFiniteSet(Active \ {hold[t]}) /\ Active \ {hold[t]} \subseteq Runs
      BY FiniteAssumption, FS_Subset DEF Active
    <3>4. IsFiniteSet(Gated' \ {hold[t]}) /\ Cardinality(Gated' \ {hold[t]}) <= Cardinality(Active \ {hold[t]})
      BY <3>2, <3>3, FS_Subset
    <3>5. Cardinality(Active \ {hold[t]}) < PlanningMax
      BY <2>2 DEF PlanRunCanStart
    <3>6. IsFiniteSet(Gated')
      BY FiniteAssumption, FS_Subset DEF Gated
    <3>7. Cardinality(Gated') <= Cardinality(Gated' \ {hold[t]}) + 1
      BY <3>6, WithoutOne
    <3>8. QED
      BY <3>3, <3>4, <3>5, <3>6, <3>7, FS_CardinalityType, CapAssumption DEF CapInv
  <2>3. QED
    BY <2>1, <2>2, <1>9 DEF AskGate
<1>10. ASSUME NEW t \in Threads, TakeToken(t) PROVE CapInv'
  <2>1. Gated' \subseteq Gated
    BY NoneAssumption, <1>10 DEF TakeToken, Return, MoveThread, TypeOK, RowInv, HoldInv, WithRow, rows, history, executing, memory, dispatching, Gated, PastGate
  <2>2. QED
    BY <2>1, FewerGated
<1>11. ASSUME NEW t \in Threads, ChatFails(t) PROVE CapInv'
  <2>1. Gated' \subseteq Gated
    BY NoneAssumption, <1>11 DEF ChatFails, Settle, MoveThread, TypeOK, RowInv, HoldInv, WithRow, rows, history, executing, memory, dispatching, Gated, PastGate
  <2>2. QED
    BY <2>1, FewerGated
<1>12. ASSUME NEW t \in Threads, Kickoff(t) PROVE CapInv'
  <2>1. hold[t] \in Runs /\ runPlan[hold[t]] \in Plans /\ UNCHANGED hold
    BY <1>12 DEF Kickoff, HoldInv, WithRow
  <2>2. \A u \in Threads : at'[u] \in {"token", "kickoff"} => at[u] \in {"token", "kickoff"}
    BY <1>12 DEF Kickoff, MoveThread, TypeOK
  <2>3. \A r \in Runs : r # hold[t] => runStatus'[r] = runStatus[r]
    BY <1>12 DEF Kickoff, KickoffStarted, TypeOK, rows
  <2>4. hold[t] \in Active => hold[t] \in Gated \cup ungated
    BY <2>1, <1>12 DEF Kickoff, Active, Gated, PastGate
  <2>5. ungated' = IF hold[t] \in Active THEN ungated ELSE ungated \cup {hold[t]}
    BY <1>12 DEF Kickoff
  <2>6. Gated' \subseteq Gated
    BY <2>1, <2>2, <2>3, <2>4, <2>5 DEF Gated, PastGate
  <2>7. QED
    BY <2>6, FewerGated
<1>13. ASSUME NEW t \in Threads, RemoveToken(t) PROVE CapInv'
  <2>1. Gated' \subseteq Gated
    BY NoneAssumption, <1>13 DEF RemoveToken, Return, MoveThread, TypeOK, RowInv, HoldInv, WithRow, rows, history, executing, memory, dispatching, Gated, PastGate
  <2>2. QED
    BY <2>1, FewerGated
<1>14. ASSUME NEW t \in Threads, NEW r \in Runs, InsertQueuedRow(t, r) PROVE CapInv'
  <2>1. Gated' \subseteq Gated
    BY NoneAssumption, <1>14 DEF InsertQueuedRow, InsertRow, MoveThread, TypeOK, RowInv, HoldInv, WithRow, rows, history, executing, memory, dispatching, Gated, PastGate
  <2>2. QED
    BY <2>1, FewerGated
<1>15. ASSUME NEW p \in Plans, Enqueue(p) PROVE CapInv'
  <2>1. Gated' \subseteq Gated
    BY NoneAssumption, <1>15 DEF Enqueue, Commanded, TypeOK, RowInv, HoldInv, WithRow, rows, history, executing, memory, dispatching, Gated, PastGate
  <2>2. QED
    BY <2>1, FewerGated
<1>16. ASSUME NEW p \in Plans, RemoveFromQueue(p) PROVE CapInv'
  <2>1. Gated' \subseteq Gated
    BY NoneAssumption, <1>16 DEF RemoveFromQueue, Commanded, TypeOK, RowInv, HoldInv, WithRow, rows, history, executing, memory, dispatching, Gated, PastGate
  <2>2. QED
    BY <2>1, FewerGated
<1>17. ASSUME NEW p \in Plans, Reopen(p) PROVE CapInv'
  <2>1. Gated' \subseteq Gated
    BY NoneAssumption, <1>17 DEF Reopen, Commanded, TypeOK, RowInv, HoldInv, WithRow, rows, history, executing, memory, dispatching, Gated, PastGate
  <2>2. QED
    BY <2>1, FewerGated
<1>18. ASSUME NEW p \in Plans, NEW r \in Runs, InsertAssigned(p, r) PROVE CapInv'
  <2>1. Gated' \subseteq Gated
    BY NoneAssumption, <1>18 DEF InsertAssigned, InsertRow, Commanded, TypeOK, RowInv, HoldInv, WithRow, rows, history, executing, memory, dispatching, Gated, PastGate
  <2>2. QED
    BY <2>1, FewerGated
<1>19. ASSUME NEW g \in Generations, StartQueue(g) PROVE CapInv'
  <2>1. Gated' \subseteq Gated
    BY NoneAssumption, <1>19 DEF StartQueue, MoveDispatcher, Commanded, TypeOK, RowInv, HoldInv, WithRow, rows, history, executing, memory, dispatching, Gated, PastGate
  <2>2. QED
    BY <2>1, FewerGated
<1>20. ASSUME NEW s \in Sessions, PauseQueue(s) PROVE CapInv'
  <2>1. Gated' \subseteq Gated
    BY NoneAssumption, <1>20 DEF PauseQueue, Commanded, TypeOK, RowInv, HoldInv, WithRow, rows, history, executing, memory, dispatching, Gated, PastGate
  <2>2. QED
    BY <2>1, FewerGated
<1>21. ASSUME NEW r \in Runs, NEW plan \in {"ready", "cancelled"}, CancelRun(r, plan) PROVE CapInv'
  <2>1. Gated' \subseteq Gated
    BY NoneAssumption, <1>21 DEF CancelRun, Settle, Commanded, TypeOK, RowInv, HoldInv, WithRow, rows, history, executing, memory, dispatching, Gated, PastGate
  <2>2. QED
    BY <2>1, FewerGated
<1>22. CASE StartAssigned
  <2>1. Gated' \subseteq Gated
    BY NoneAssumption, <1>22 DEF StartAssigned, KickoffStarted, TypeOK, RowInv, HoldInv, WithRow, rows, history, executing, memory, dispatching, Gated, PastGate
  <2>2. QED
    BY <2>1, FewerGated
<1>23. ASSUME NEW r \in Runs, TurnBegins(r) PROVE CapInv'
  <2>1. Gated' \subseteq Gated
    BY NoneAssumption, <1>23 DEF TurnBegins, TypeOK, RowInv, HoldInv, WithRow, rows, history, executing, memory, dispatching, Gated, PastGate
  <2>2. QED
    BY <2>1, FewerGated
<1>24. ASSUME NEW r \in Runs, NEW status \in {"succeeded", "released"}, TurnEnds(r, status) PROVE CapInv'
  <2>1. Gated' \subseteq Gated
    BY NoneAssumption, <1>24 DEF TurnEnds, Settle, TypeOK, RowInv, HoldInv, WithRow, rows, history, executing, memory, dispatching, Gated, PastGate
  <2>2. QED
    BY <2>1, FewerGated
<1>25. ASSUME NEW x \in Stages, CheckStage(x) PROVE CapInv'
  <2>1. Gated' \subseteq Gated
    BY NoneAssumption, <1>25 DEF CheckStage, MoveStage, TypeOK, RowInv, HoldInv, WithRow, rows, history, executing, memory, dispatching, Gated, PastGate
  <2>2. QED
    BY <2>1, FewerGated
<1>26. ASSUME NEW x \in Stages, StartStage(x) PROVE CapInv'
  <2>1. Gated' \subseteq Gated
    BY NoneAssumption, <1>26 DEF StartStage, MoveStage, TypeOK, RowInv, HoldInv, WithRow, rows, history, executing, memory, dispatching, Gated, PastGate
  <2>2. QED
    BY <2>1, FewerGated
<1>27. ASSUME NEW x \in Stages, EndStage(x) PROVE CapInv'
  <2>1. Gated' \subseteq Gated
    BY NoneAssumption, <1>27 DEF EndStage, MoveStage, TypeOK, RowInv, HoldInv, WithRow, rows, history, executing, memory, dispatching, Gated, PastGate
  <2>2. QED
    BY <2>1, FewerGated
<1>28. ASSUME NEW scope \in {{s} : s \in Sessions} \cup {Sessions}, Reconcile(scope) PROVE CapInv'
  <2>1. \A r \in Runs : runStatus'[r] \in {"running", "pending"} => runStatus'[r] = runStatus[r]
    BY <1>28 DEF Reconcile, ReconcileRows, TypeOK
  <2>2. PastGate' = PastGate /\ hold' = hold /\ ungated' = ungated
    BY <1>28 DEF Reconcile, PastGate, executing, history
  <2>3. Gated' \subseteq Gated
    BY <2>1, <2>2 DEF Gated
  <2>4. QED
    BY <2>3, FewerGated
<1>29. CASE Restart
  <2>1. \A r \in Runs : runStatus'[r] \in {"running", "pending"} => runStatus[r] = "pending" /\ runStatus'[r] = "pending"
    BY <1>29 DEF Restart, Running, TypeOK
  <2>2. PastGate' = {}
    BY <1>29 DEF Restart, PastGate
  <2>3. Gated' \subseteq Gated
    BY <2>1, <2>2, <1>29 DEF Restart, Gated, history
  <2>4. QED
    BY <2>3, FewerGated
<1>30. CASE UNCHANGED vars
  BY <1>30 DEF CapInv, Gated, PastGate, vars, rows, memory, dispatching, executing, history, bounds
<1>31. QED
  BY <1>1, <1>2, <1>3, <1>4, <1>5, <1>6, <1>7, <1>8, <1>9, <1>10, <1>11, <1>12, <1>13,
     <1>14, <1>15, <1>16, <1>17, <1>18, <1>19, <1>20, <1>21, <1>22, <1>23, <1>24, <1>25,
     <1>26, <1>27, <1>28, <1>29, <1>30
     DEF Next, DispatcherStep, ThreadStep, Command, AgentStep

LEMMA PrerequisitesStep ==
  ASSUME TypeOK, RowInv, HoldInv, NeedInv, StartedPlanHadPrerequisites, [Next]_vars
  PROVE  StartedPlanHadPrerequisites'
<1>1. ASSUME NEW g \in Generations, Look(g) PROVE StartedPlanHadPrerequisites'
  BY NoneAssumption, <1>1 DEF Look, MoveDispatcher, TypeOK, RowInv, HoldInv, NeedInv, WithRow, StartedPlanHadPrerequisites, Running, Active, rows, history, executing, memory, dispatching
<1>2. ASSUME NEW g \in Generations, DispatcherReconciles(g) PROVE StartedPlanHadPrerequisites'
  <2>1. \A r \in Running' : r \in Running
    BY <1>2 DEF DispatcherReconciles, ReconcileRows, Running, TypeOK
  <2>2. QED
    BY <2>1, <1>2 DEF DispatcherReconciles, ReconcileRows, StartedPlanHadPrerequisites, history
<1>3. ASSUME NEW g \in Generations, Pick(g) PROVE StartedPlanHadPrerequisites'
  BY NoneAssumption, <1>3 DEF Pick, MoveDispatcher, NextEntries, PendingEntries, TypeOK, RowInv, HoldInv, NeedInv, WithRow, StartedPlanHadPrerequisites, Running, Active, rows, history, executing, memory, dispatching
<1>4. ASSUME NEW g \in Generations, CheckCapacity(g) PROVE StartedPlanHadPrerequisites'
  BY NoneAssumption, <1>4 DEF CheckCapacity, MoveDispatcher, TypeOK, RowInv, HoldInv, NeedInv, WithRow, StartedPlanHadPrerequisites, Running, Active, rows, history, executing, memory, dispatching
<1>5. ASSUME NEW g \in Generations, TakeSessionPermit(g) PROVE StartedPlanHadPrerequisites'
  BY NoneAssumption, <1>5 DEF TakeSessionPermit, MoveDispatcher, TypeOK, RowInv, HoldInv, NeedInv, WithRow, StartedPlanHadPrerequisites, Running, Active, rows, history, executing, memory, dispatching
<1>6. ASSUME NEW g \in Generations, NEW t \in Threads, SpawnRun(g, t) PROVE StartedPlanHadPrerequisites'
  BY NoneAssumption, <1>6 DEF SpawnRun, MoveDispatcher, TypeOK, RowInv, HoldInv, NeedInv, WithRow, StartedPlanHadPrerequisites, Running, Active, rows, history, executing, memory, dispatching
<1>7. ASSUME NEW t \in Threads, LookUpRow(t) PROVE StartedPlanHadPrerequisites'
  BY NoneAssumption, <1>7 DEF LookUpRow, MoveThread, TypeOK, RowInv, HoldInv, NeedInv, WithRow, StartedPlanHadPrerequisites, Running, Active, rows, history, executing, memory, dispatching
<1>8. ASSUME NEW t \in Threads, InsertFails(t) PROVE StartedPlanHadPrerequisites'
  BY NoneAssumption, <1>8 DEF InsertFails, Return, MoveThread, TypeOK, RowInv, HoldInv, NeedInv, WithRow, StartedPlanHadPrerequisites, Running, Active, rows, history, executing, memory, dispatching
<1>9. ASSUME NEW t \in Threads, AskGate(t) PROVE StartedPlanHadPrerequisites'
  BY NoneAssumption, <1>9 DEF AskGate, Return, MoveThread, TypeOK, RowInv, HoldInv, NeedInv, WithRow, StartedPlanHadPrerequisites, Running, Active, rows, history, executing, memory, dispatching
<1>10. ASSUME NEW t \in Threads, TakeToken(t) PROVE StartedPlanHadPrerequisites'
  BY NoneAssumption, <1>10 DEF TakeToken, Return, MoveThread, TypeOK, RowInv, HoldInv, NeedInv, WithRow, StartedPlanHadPrerequisites, Running, Active, rows, history, executing, memory, dispatching
<1>11. ASSUME NEW t \in Threads, ChatFails(t) PROVE StartedPlanHadPrerequisites'
  BY NoneAssumption, <1>11 DEF ChatFails, Settle, MoveThread, TypeOK, RowInv, HoldInv, NeedInv, WithRow, StartedPlanHadPrerequisites, Running, Active, rows, history, executing, memory, dispatching
<1>12. ASSUME NEW t \in Threads, Kickoff(t) PROVE StartedPlanHadPrerequisites'
  BY NoneAssumption, <1>12 DEF Kickoff, KickoffStarted, MoveThread, TypeOK, RowInv, HoldInv, NeedInv, WithRow, StartedPlanHadPrerequisites, Running, Active, rows, history, executing, memory, dispatching
<1>13. ASSUME NEW t \in Threads, RemoveToken(t) PROVE StartedPlanHadPrerequisites'
  BY NoneAssumption, <1>13 DEF RemoveToken, Return, MoveThread, TypeOK, RowInv, HoldInv, NeedInv, WithRow, StartedPlanHadPrerequisites, Running, Active, rows, history, executing, memory, dispatching
<1>14. ASSUME NEW t \in Threads, NEW r \in Runs, InsertQueuedRow(t, r) PROVE StartedPlanHadPrerequisites'
  BY NoneAssumption, <1>14 DEF InsertQueuedRow, InsertRow, MoveThread, TypeOK, RowInv, HoldInv, NeedInv, WithRow, StartedPlanHadPrerequisites, Running, Active, rows, history, executing, memory, dispatching
<1>15. ASSUME NEW p \in Plans, Enqueue(p) PROVE StartedPlanHadPrerequisites'
  BY NoneAssumption, <1>15 DEF Enqueue, Commanded, TypeOK, RowInv, HoldInv, NeedInv, WithRow, StartedPlanHadPrerequisites, Running, Active, rows, history, executing, memory, dispatching
<1>16. ASSUME NEW p \in Plans, RemoveFromQueue(p) PROVE StartedPlanHadPrerequisites'
  BY NoneAssumption, <1>16 DEF RemoveFromQueue, Commanded, TypeOK, RowInv, HoldInv, NeedInv, WithRow, StartedPlanHadPrerequisites, Running, Active, rows, history, executing, memory, dispatching
<1>17. ASSUME NEW p \in Plans, Reopen(p) PROVE StartedPlanHadPrerequisites'
  BY NoneAssumption, <1>17 DEF Reopen, Commanded, TypeOK, RowInv, HoldInv, NeedInv, WithRow, StartedPlanHadPrerequisites, Running, Active, rows, history, executing, memory, dispatching
<1>18. ASSUME NEW p \in Plans, NEW r \in Runs, InsertAssigned(p, r) PROVE StartedPlanHadPrerequisites'
  BY NoneAssumption, <1>18 DEF InsertAssigned, InsertRow, Commanded, TypeOK, RowInv, HoldInv, NeedInv, WithRow, StartedPlanHadPrerequisites, Running, Active, rows, history, executing, memory, dispatching
<1>19. ASSUME NEW g \in Generations, StartQueue(g) PROVE StartedPlanHadPrerequisites'
  BY NoneAssumption, <1>19 DEF StartQueue, MoveDispatcher, Commanded, TypeOK, RowInv, HoldInv, NeedInv, WithRow, StartedPlanHadPrerequisites, Running, Active, rows, history, executing, memory, dispatching
<1>20. ASSUME NEW s \in Sessions, PauseQueue(s) PROVE StartedPlanHadPrerequisites'
  BY NoneAssumption, <1>20 DEF PauseQueue, Commanded, TypeOK, RowInv, HoldInv, NeedInv, WithRow, StartedPlanHadPrerequisites, Running, Active, rows, history, executing, memory, dispatching
<1>21. ASSUME NEW r \in Runs, NEW plan \in {"ready", "cancelled"}, CancelRun(r, plan) PROVE StartedPlanHadPrerequisites'
  BY NoneAssumption, <1>21 DEF CancelRun, Settle, Commanded, TypeOK, RowInv, HoldInv, NeedInv, WithRow, StartedPlanHadPrerequisites, Running, Active, rows, history, executing, memory, dispatching
<1>22. CASE StartAssigned
  BY NoneAssumption, <1>22 DEF StartAssigned, KickoffStarted, TypeOK, RowInv, HoldInv, NeedInv, WithRow, StartedPlanHadPrerequisites, Running, Active, rows, history, executing, memory, dispatching
<1>23. ASSUME NEW r \in Runs, TurnBegins(r) PROVE StartedPlanHadPrerequisites'
  BY NoneAssumption, <1>23 DEF TurnBegins, TypeOK, RowInv, HoldInv, NeedInv, WithRow, StartedPlanHadPrerequisites, Running, Active, rows, history, executing, memory, dispatching
<1>24. ASSUME NEW r \in Runs, NEW status \in {"succeeded", "released"}, TurnEnds(r, status) PROVE StartedPlanHadPrerequisites'
  BY NoneAssumption, <1>24 DEF TurnEnds, Settle, TypeOK, RowInv, HoldInv, NeedInv, WithRow, StartedPlanHadPrerequisites, Running, Active, rows, history, executing, memory, dispatching
<1>25. ASSUME NEW x \in Stages, CheckStage(x) PROVE StartedPlanHadPrerequisites'
  BY NoneAssumption, <1>25 DEF CheckStage, MoveStage, TypeOK, RowInv, HoldInv, NeedInv, WithRow, StartedPlanHadPrerequisites, Running, Active, rows, history, executing, memory, dispatching
<1>26. ASSUME NEW x \in Stages, StartStage(x) PROVE StartedPlanHadPrerequisites'
  BY NoneAssumption, <1>26 DEF StartStage, MoveStage, TypeOK, RowInv, HoldInv, NeedInv, WithRow, StartedPlanHadPrerequisites, Running, Active, rows, history, executing, memory, dispatching
<1>27. ASSUME NEW x \in Stages, EndStage(x) PROVE StartedPlanHadPrerequisites'
  BY NoneAssumption, <1>27 DEF EndStage, MoveStage, TypeOK, RowInv, HoldInv, NeedInv, WithRow, StartedPlanHadPrerequisites, Running, Active, rows, history, executing, memory, dispatching
<1>28. ASSUME NEW scope \in {{s} : s \in Sessions} \cup {Sessions}, Reconcile(scope) PROVE StartedPlanHadPrerequisites'
  <2>1. \A r \in Running' : r \in Running
    BY <1>28 DEF Reconcile, ReconcileRows, Running, TypeOK
  <2>2. QED
    BY <2>1, <1>28 DEF Reconcile, ReconcileRows, StartedPlanHadPrerequisites, history
<1>29. CASE Restart
  <2>1. Running' = {}
    BY <1>29 DEF Restart, Running, TypeOK
  <2>2. QED
    BY <2>1 DEF StartedPlanHadPrerequisites
<1>30. CASE UNCHANGED vars
  BY <1>30 DEF StartedPlanHadPrerequisites, Running, vars, rows, memory, dispatching, executing, history, bounds
<1>31. QED
  BY <1>1, <1>2, <1>3, <1>4, <1>5, <1>6, <1>7, <1>8, <1>9, <1>10, <1>11, <1>12, <1>13,
     <1>14, <1>15, <1>16, <1>17, <1>18, <1>19, <1>20, <1>21, <1>22, <1>23, <1>24, <1>25,
     <1>26, <1>27, <1>28, <1>29, <1>30
     DEF Next, DispatcherStep, ThreadStep, Command, AgentStep

-------------------------------------------------------------------------------
(* The theorems *)

Inv ==
    /\ TypeOK /\ RowInv /\ HoldInv /\ NeedInv /\ LateInv /\ CapInv
    /\ StartedPlanHadPrerequisites

LEMMA InitInv == Init => Inv
<1> SUFFICES ASSUME Init PROVE Inv
  OBVIOUS
<1>1. TypeOK
  BY CapAssumption DEF Init, TypeOK, DispatcherPlaces, ThreadPlaces, RunStatuses
<1>2. RowInv /\ HoldInv /\ NeedInv /\ LateInv
  BY NoneAssumption DEF Init, RowInv, HoldInv, NeedInv, LateInv, WithRow, Picked
<1>3. CapInv
  <2>1. Gated = {}
    BY DEF Init, Gated
  <2>2. QED
    BY <2>1, FS_EmptySet, CapAssumption DEF CapInv
<1>4. StartedPlanHadPrerequisites
  BY DEF Init, StartedPlanHadPrerequisites, Running
<1>5. QED
  BY <1>1, <1>2, <1>3, <1>4 DEF Inv

LEMMA Invariance == Spec => []Inv
<1>1. Inv /\ [Next]_vars => Inv'
  BY TypeOKStep, RowInvStep, HoldInvStep, NeedInvStep, LateInvStep, CapInvStep, PrerequisitesStep
     DEF Inv
<1>2. QED
  BY InitInv, <1>1, PTL DEF Spec

\* The queue's variables keep their types, the counters of free permits among
\* them: no permit is returned that was not taken.
THEOREM TypeCorrect == Spec => []TypeOK
BY Invariance, PTL DEF Inv

\* However many dispatchers and threads there are, and whatever is assigned,
\* stopped or reconciled meanwhile, no more than planning_max runs that passed
\* the gate of execute_run are running at a time.
THEOREM PlanningCapIsKept == Spec => []PlanningCapHolds
<1>1. Inv => PlanningCapHolds
  <2> SUFFICES ASSUME Inv PROVE PlanningCapHolds
    OBVIOUS
  <2>1. IsFiniteSet(Gated)
    BY FiniteAssumption, FS_Subset DEF Gated
  <2>2. Running \ ungated \subseteq Gated
    BY DEF Running, Gated
  <2>3. QED
    BY <2>1, <2>2, FS_Subset, FS_CardinalityType, CapAssumption DEF Inv, CapInv, PlanningCapHolds
<1>2. QED
  BY Invariance, <1>1, PTL

\* A run the queue started belongs to a plan whose prerequisites have all been
\* finished, however long its entry waited for permits.
THEOREM StartsHavePrerequisites == Spec => []StartedPlanHadPrerequisites
BY Invariance, PTL DEF Inv

\* A paused or superseded dispatcher hands out at most the one entry it had in
\* its hands (run_dispatcher).
THEOREM LateStartsAreBounded == Spec => []AtMostOneLateStart
<1>1. Inv => AtMostOneLateStart
  BY DEF Inv, LateInv, AtMostOneLateStart
<1>2. QED
  BY Invariance, <1>1, PTL
===============================================================================
