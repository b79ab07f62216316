------------------------- MODULE PlanLifecycleProofs -------------------------
(***************************************************************************)
(* Proofs about PlanLifecycle for every set of plans, chats, runs and      *)
(* sends, however they are bound to each other, and every bound.           *)
(*                                                                         *)
(* The properties relate the rows of two tables that many threads write.   *)
(* Lemma StepShapes reduces every step to one of a few ways to write the   *)
(* rows of plans and runs; each property is then proved once per way.      *)
(***************************************************************************)
EXTENDS PlanLifecycle, TLAPS

\* The assumptions the module makes on its constants, in one name.
Assumptions ==
    /\ Runs \cap Sends = {} /\ Main \notin Turns /\ NoRun \notin Runs
    /\ NoSubject \notin Plans \cup Chats
    /\ RunPlan \in [Runs -> Plans] /\ TurnChat \in [Turns -> Chats] /\ Linked \subseteq Plans
    /\ MaxAttempts \in Nat \ {0} /\ MaxCrashes \in Nat

\* They are the module's ASSUMEs.
LEMMA AssumptionsHold == Assumptions
  BY NamesAssumption, BindingAssumption, BoundsAssumption DEF Assumptions

-----------------------------------------------------------------------------
(***************************************************************************)
(* What the threads know about the rows they are about to write.           *)
(***************************************************************************)

\* The places from which an actor writes the run it holds.
Gripping == {"failing", "marked", "touching", "policy", "inserting", "starting", "marking"}

\* An actor about to write a run holds one.
GripInv == \A a \in Actors : pc[a] \in Gripping => grip[a] \in Runs

\* A turn holds only runs that exist.
KnownInv == \A t \in Turns : grip[t] \in Runs => runStatus[grip[t]] # "absent"

\* While Main assigns a run, the run is new, its kickoff turn has not begun,
\* and no other run of its chat is active.
AssignInv ==
    pc[Main] \in {"inserting", "starting"} =>
        /\ pc[grip[Main]] = "idle"
        /\ pc[Main] = "inserting" => runStatus[grip[Main]] = "absent"
        /\ \A r \in Runs : TurnChat[r] = TurnChat[grip[Main]] /\ r # grip[Main]
                           => runStatus[r] \notin LiveStatuses

\* The kickoff turn of a run begins when the run has its row.
KickoffInv == \A r \in Runs : runStatus[r] = "absent" => pc[r] = "idle"

\* mark_complete has seen the checklist complete, and tasks stay ticked.
MarkInv == pc[Main] = "marking" => ChecklistHolds(RunPlan[grip[Main]])

\* An end that was reached has an outcome.
OutcomeInv == \A a \in Actors : pc[a] \in {"ended", "marked"} => outcome[a] # "none"

\* A retry has an account left.
RetryInv == \A t \in Turns : pc[t] = "retry" => attempt[t] < MaxAttempts

\* Main ends turns of chats and edits plans.
SubjectInv ==
    /\ pc[Main] \in {"stopping", "ended"} => subject \in Chats
    /\ pc[Main] \in EditPlaces => subject \in Plans

\* No thread survives a crash.
DownInv == mode # "up" => \A a \in Actors : pc[a] \in {"idle", "closed"}

\* After the sweep no chat looks live.
SweptInv == mode = "swept" => \A c \in Chats : chatState[c] \notin LiveStates

\* What follows from the place of a thread, and what from the row it holds.
PlaceInv == GripInv /\ OutcomeInv /\ RetryInv /\ SubjectInv /\ DownInv /\ SweptInv
HeldInv == KnownInv /\ AssignInv /\ KickoffInv /\ MarkInv

ThreadInv == PlaceInv /\ HeldInv

Inv == TypeOK /\ ThreadInv
-----------------------------------------------------------------------------
(***************************************************************************)
(* Type correctness.                                                       *)
(***************************************************************************)

\* The three parts of TypeOK: rows, threads, the process and the history.
RowsOK ==
    /\ planStatus \in [Plans -> PlanStatuses]
    /\ runStatus \in [Runs -> RunStatuses]
    /\ chatState \in [Chats -> ChatStates]
    /\ done \in SUBSET Linked
    /\ applied \in SUBSET Runs

ThreadsOK ==
    /\ pc \in [Actors -> Places]
    /\ grip \in [Actors -> Runs \cup {NoRun}]
    /\ outcome \in [Actors -> Outcomes]
    /\ attempt \in [Turns -> 0..MaxAttempts]
    /\ stopped \in SUBSET Turns
    /\ subject \in Plans \cup Chats \cup {NoSubject}

SystemOK ==
    /\ mode \in {"up", "down", "swept"}
    /\ crashes \in Nat
    /\ edited \in SUBSET Plans

\* Together the three parts are TypeOK.
LEMMA TypeOKParts ==
    /\ TypeOK => RowsOK /\ ThreadsOK /\ SystemOK
    /\ RowsOK' /\ ThreadsOK' /\ SystemOK' => TypeOK'
  BY DEF TypeOK, RowsOK, ThreadsOK, SystemOK

\* The initial state is type correct.
LEMMA TypeOKInit == Init => TypeOK
  BY AssumptionsHold DEF Assumptions, Init, TypeOK, PlanStatuses, RunStatuses, ChatStates, Places,
     Outcomes, Turns, Actors

\* Leaving chat_terminal or a command keeps the threads well typed.
LEMMA LeaveTypeOK == ASSUME ThreadsOK, NEW a \in Actors, Leave(a) PROVE ThreadsOK'
<1>1. pc' \in [Actors -> Places]
  <2>1. \/ pc' = [pc EXCEPT ![a] = "idle"]
        \/ pc' = [pc EXCEPT ![a] = "retry"]
        \/ pc' = [pc EXCEPT ![a] = "refused"]
        \/ pc' = [pc EXCEPT ![a] = "closed"]
    BY DEF Leave, Goto
  <2>2. {"idle", "retry", "refused", "closed"} \subseteq Places
    BY DEF Places
  <2> QED
    BY <2>1, <2>2 DEF ThreadsOK
<1>2. /\ grip' \in [Actors -> Runs \cup {NoRun}]
      /\ outcome' \in [Actors -> Outcomes]
      /\ stopped' \in SUBSET Turns
      /\ subject' \in Plans \cup Chats \cup {NoSubject}
  BY DEF Leave, ThreadsOK, Outcomes
<1>3. attempt' \in [Turns -> 0..MaxAttempts]
  BY AssumptionsHold DEF Leave, ThreadsOK, Assumptions
<1> QED
  BY <1>1, <1>2, <1>3 DEF ThreadsOK

\* A transaction keeps the two tables well typed.
LEMMA MoveTypeOK ==
    ASSUME RowsOK, NEW r, NEW status \in RunStatuses, NEW plan \in PlanStatuses,
           Move(r, status, plan)
    PROVE  planStatus' \in [Plans -> PlanStatuses] /\ runStatus' \in [Runs -> RunStatuses]
  BY DEF RowsOK, Move

\* What chat_terminal selects is a run or none.
LEMMA SelectedTypeOK == \A c : Selected(c) \subseteq Runs \cup {NoRun}
  BY DEF Selected, ActiveRuns

\* A settled run has one of three statuses.
LEMMA SettledTypeOK ==
    ASSUME NEW o \in Outcomes, o # "none"
    PROVE  SettledStatus(o) \in {"awaiting_review", "failed", "cancelled"}
  BY DEF SettledStatus, Outcomes

\* A step of chat_terminal or complete_run preserves type correctness.
LEMMA TypeOKTerminal ==
    ASSUME Inv, NEW a \in Actors, TerminalStep(a) PROVE TypeOK'
<1>1. RowsOK /\ ThreadsOK /\ SystemOK
  BY TypeOKParts DEF Inv
<1>2. CASE MarkChat(a)
  <2>1. RowsOK' /\ SystemOK'
    BY <1>1, <1>2 DEF MarkChat, RowsOK, SystemOK, ChatStates, system
  <2>2. ThreadsOK'
    <3>1. CASE Leave(a)
      BY <1>1, <3>1, LeaveTypeOK
    <3>2. CASE Goto(a, "marked") /\ UNCHANGED <<grip, outcome, subject, attempt, stopped>>
      BY <1>1, <3>2 DEF Goto, ThreadsOK, Places
    <3> QED
      BY <1>2, <3>1, <3>2 DEF MarkChat
  <2> QED
    BY <2>1, <2>2, TypeOKParts
<1>3. CASE SettleRun(a)
  <2>1. SettledStatus(outcome[a]) \in RunStatuses
    BY <1>1, <1>3, SettledTypeOK DEF SettleRun, Inv, ThreadInv, PlaceInv, OutcomeInv, ThreadsOK, RunStatuses
  <2>2. RowsOK'
    BY <1>1, <1>3, <2>1, MoveTypeOK DEF SettleRun, RowsOK, PlanStatuses
  <2>3. ThreadsOK' /\ SystemOK'
    BY <1>1, <1>3, LeaveTypeOK DEF SettleRun, SystemOK, system
  <2> QED
    BY <2>2, <2>3, TypeOKParts
<1>4. CASE StartCompletion(a)
  BY <1>1, <1>4, TypeOKParts DEF StartCompletion, Goto, RowsOK, ThreadsOK, SystemOK, Places, rows, system
<1>5. ASSUME NEW touches \in BOOLEAN, FinishRun(a, touches) PROVE TypeOK'
  <2>1. PICK s \in {"succeeded", "awaiting_review", "failed"}, q \in {"finished", "ready"} :
            Move(grip[a], s, q)
    BY <1>5 DEF FinishRun
  <2>2. RowsOK'
    BY <1>1, <1>5, <2>1, MoveTypeOK DEF FinishRun, RowsOK, PlanStatuses, RunStatuses
  <2>3. ThreadsOK'
    <3>1. CASE Leave(a)
      BY <1>1, <3>1, LeaveTypeOK
    <3>2. CASE Goto(a, "policy") /\ UNCHANGED <<grip, outcome, subject, attempt, stopped>>
      BY <1>1, <3>2 DEF Goto, ThreadsOK, Places
    <3> QED
      BY <1>5, <3>1, <3>2 DEF FinishRun
  <2> QED
    BY <1>1, <1>5, <2>2, <2>3, TypeOKParts DEF FinishRun, SystemOK, system
<1>6. CASE ApplyFinishPolicy(a)
  <2>1. RowsOK'
    BY <1>1, <1>6 DEF ApplyFinishPolicy, Inv, ThreadInv, PlaceInv, GripInv, Gripping, RowsOK
  <2>2. ThreadsOK' /\ SystemOK'
    BY <1>1, <1>6, LeaveTypeOK DEF ApplyFinishPolicy, SystemOK, system
  <2> QED
    BY <2>1, <2>2, TypeOKParts
<1> QED
  BY <1>2, <1>3, <1>4, <1>5, <1>6 DEF TerminalStep

\* A step of a turn's thread preserves type correctness.
LEMMA TypeOKTurn ==
    ASSUME Inv, NEW t \in Turns, Send(t) \/ TurnStep(t) \/ Working(t) PROVE TypeOK'
<1> t \in Actors
  BY DEF Actors
<1>1. RowsOK /\ ThreadsOK /\ SystemOK
  BY TypeOKParts DEF Inv
<1>2. CASE Send(t)
  <2>1. ThreadsOK'
    BY <1>1, <1>2, AssumptionsHold DEF Send, Goto, ThreadsOK, Places, Assumptions
  <2> QED
    BY <1>1, <1>2, <2>1, TypeOKParts DEF Send, RowsOK, SystemOK, rows, system
<1>3. CASE Refused(t)
  <2>1. pc' \in [Actors -> Places]
    <3>1. PICK place \in {"refused", "closed"} : pc' = [pc EXCEPT ![t] = place]
      BY <1>3 DEF Refused, Goto
    <3> QED
      BY <1>1, <3>1 DEF ThreadsOK, Places
  <2>2. ThreadsOK'
    BY <1>1, <1>3, <2>1, AssumptionsHold DEF Refused, ThreadsOK, Assumptions
  <2> QED
    BY <1>1, <1>3, <2>2, TypeOKParts DEF Refused, RowsOK, SystemOK, rows, system
<1>4. CASE FailLinkedChat(t)
  <2>1. PICK r \in Selected(TurnChat[t]), place \in {"closed", "failing"} :
            grip' = [grip EXCEPT ![t] = r] /\ pc' = [pc EXCEPT ![t] = place]
    BY <1>4 DEF FailLinkedChat, Goto
  <2>2. r \in Runs \cup {NoRun}
    BY SelectedTypeOK
  <2>3. pc' \in [Actors -> Places] /\ grip' \in [Actors -> Runs \cup {NoRun}]
    BY <1>1, <2>1, <2>2 DEF ThreadsOK, Places
  <2> QED
    BY <1>1, <1>4, <2>3, TypeOKParts DEF FailLinkedChat, RowsOK, ThreadsOK, SystemOK, rows, system
<1>5. CASE KickoffFailed(t)
  <2>1. RowsOK'
    BY <1>1, <1>5, MoveTypeOK DEF KickoffFailed, RowsOK, PlanStatuses, RunStatuses
  <2> QED
    BY <1>1, <1>5, <2>1, LeaveTypeOK, TypeOKParts DEF KickoffFailed, SystemOK, system
<1>6. CASE ChatRunning(t)
  BY <1>1, <1>6, TypeOKParts
     DEF ChatRunning, Goto, RowsOK, ThreadsOK, SystemOK, Places, ChatStates, system
<1>7. CASE Answered(t)
  BY <1>1, <1>7, TypeOKParts
     DEF Answered, Goto, RowsOK, ThreadsOK, SystemOK, Places, ChatStates, system
<1>8. CASE Failover(t)
  <2>1. attempt' \in [Turns -> 0..MaxAttempts]
    BY <1>1, <1>8, AssumptionsHold DEF Failover, Inv, ThreadInv, PlaceInv, RetryInv, ThreadsOK, Assumptions
  <2> QED
    BY <1>1, <1>8, <2>1, TypeOKParts
       DEF Failover, Goto, RowsOK, ThreadsOK, SystemOK, Places, rows, system
<1>9. ASSUME NEW result \in Outcomes \ {"none"}, TurnEnds(t, result) PROVE TypeOK'
  <2>1. PICK r \in Selected(TurnChat[t]) : grip' = [grip EXCEPT ![t] = r]
    BY <1>9 DEF TurnEnds
  <2>2. r \in Runs \cup {NoRun}
    BY SelectedTypeOK
  <2>3. grip' \in [Actors -> Runs \cup {NoRun}]
    BY <1>1, <2>1, <2>2 DEF ThreadsOK
  <2> QED
    BY <1>1, <1>9, <2>3, TypeOKParts
       DEF TurnEnds, Goto, RowsOK, ThreadsOK, SystemOK, Places, rows, system
<1>10. CASE TerminalStep(t)
  BY <1>10, TypeOKTerminal
<1>11. CASE AskUser(t)
  BY <1>1, <1>11, TypeOKParts
     DEF AskUser, Goto, RowsOK, ThreadsOK, SystemOK, Places, ChatStates, system
<1>12. ASSUME NEW p \in Plans, TickLastTask(t, p) PROVE TypeOK'
  BY <1>1, <1>12, TypeOKParts DEF TickLastTask, RowsOK, ThreadsOK, SystemOK, threads, system
<1> QED
  BY <1>2, <1>3, <1>4, <1>5, <1>6, <1>7, <1>8, <1>9, <1>10, <1>11, <1>12 DEF TurnStep, Working

\* A step of Main preserves type correctness.
LEMMA TypeOKMain == ASSUME Inv, MainStep PROVE TypeOK'
<1> Main \in Actors
  BY DEF Actors
<1>1. RowsOK /\ ThreadsOK /\ SystemOK
  BY TypeOKParts DEF Inv
<1>2. CASE InsertRun
  BY <1>1, <1>2, TypeOKParts
     DEF InsertRun, Goto, RowsOK, ThreadsOK, SystemOK, Places, RunStatuses, system
<1>3. CASE KickoffStarted
  <2>1. RowsOK'
    BY <1>1, <1>3, MoveTypeOK DEF KickoffStarted, RowsOK, PlanStatuses, RunStatuses
  <2> DEFINE r == grip[Main]
  <2>2. /\ pc' = [pc EXCEPT ![Main] = "idle", ![r] = "sent"]
        /\ attempt' = [attempt EXCEPT ![r] = 1]
        /\ grip' = [grip EXCEPT ![Main] = NoRun]
        /\ UNCHANGED <<outcome, stopped, subject, system, edited>>
    BY <1>3 DEF KickoffStarted
  <2> HIDE DEF r
  <2>3. pc' \in [Actors -> Places]
    BY <1>1, <2>2 DEF ThreadsOK, Places
  <2>4. attempt' \in [Turns -> 0..MaxAttempts]
    <3>1. 1 \in 0..MaxAttempts
      BY BoundsAssumption
    <3>2. attempt \in [Turns -> 0..MaxAttempts] /\ attempt' = [attempt EXCEPT ![r] = 1]
      BY <1>1, <2>2 DEF ThreadsOK
    <3> QED
      BY <3>1, <3>2
  <2> QED
    BY <1>1, <2>1, <2>2, <2>3, <2>4, TypeOKParts DEF ThreadsOK, SystemOK, system
<1>4. CASE MarkFinishes
  <2>1. RowsOK'
    BY <1>1, <1>4, MoveTypeOK DEF MarkFinishes, RowsOK, PlanStatuses, RunStatuses
  <2> QED
    BY <1>1, <1>4, <2>1, LeaveTypeOK, TypeOKParts DEF MarkFinishes, SystemOK, system
<1>5. CASE StopReadsRun
  <2>1. PICK r \in Selected(subject) : grip' = [grip EXCEPT ![Main] = r]
    BY <1>5 DEF StopReadsRun
  <2>2. r \in Runs \cup {NoRun}
    BY SelectedTypeOK
  <2>3. grip' \in [Actors -> Runs \cup {NoRun}]
    BY <1>1, <2>1, <2>2 DEF ThreadsOK
  <2> QED
    BY <1>1, <1>5, <2>3, TypeOKParts
       DEF StopReadsRun, Goto, RowsOK, ThreadsOK, SystemOK, Places, Outcomes, rows, system
<1>6. ASSUME NEW place \in EditPlaces, EditWrites(place) PROVE TypeOK'
  <2>1. PICK status \in {"running", "finished"} :
            /\ planStatus' = [planStatus EXCEPT ![subject] = status]
            /\ edited' = IF planStatus[subject] = status THEN edited ELSE edited \cup {subject}
    <3>1. [edit_running |-> "running", edit_finished |-> "finished"][place]
            \in {"running", "finished"}
      BY DEF EditPlaces
    <3> QED
      BY <1>6, <3>1 DEF EditWrites
  <2>2. RowsOK'
    BY <1>1, <1>6, <2>1 DEF EditWrites, RowsOK, PlanStatuses
  <2>3. subject \in Plans
    BY <1>6 DEF EditWrites, EditPlaces, Inv, ThreadInv, PlaceInv, SubjectInv
  <2>4. SystemOK'
    BY <1>1, <1>6, <2>1, <2>3 DEF EditWrites, SystemOK, system
  <2> QED
    BY <1>1, <1>6, <2>2, <2>4, LeaveTypeOK, TypeOKParts DEF EditWrites
<1>7. CASE TerminalStep(Main)
  BY <1>7, TypeOKTerminal
<1> QED
  BY <1>2, <1>3, <1>4, <1>5, <1>6, <1>7 DEF MainStep

\* The start of a command preserves type correctness.
LEMMA TypeOKCommand == ASSUME Inv, Commands PROVE TypeOK'
<1> Main \in Actors
  BY DEF Actors
<1> USE DEF MainFree
<1>1. RowsOK /\ ThreadsOK /\ SystemOK
  BY TypeOKParts DEF Inv
<1>2. ASSUME NEW r \in Runs, AssignChecks(r) PROVE TypeOK'
  BY <1>1, <1>2, TypeOKParts
     DEF AssignChecks, Begin, Goto, RowsOK, ThreadsOK, SystemOK, Places, rows, system
<1>3. ASSUME NEW r \in Runs, NEW s \in Sends, CompleteRun(r, s) PROVE TypeOK'
  BY <1>1, <1>3, TypeOKParts
     DEF CompleteRun, RowsOK, ThreadsOK, SystemOK, Places, rows, system
<1>4. ASSUME NEW r \in Runs, MarkComplete(r) PROVE TypeOK'
  BY <1>1, <1>4, TypeOKParts
     DEF MarkComplete, Begin, Goto, RowsOK, ThreadsOK, SystemOK, Places, rows, system
<1>5. ASSUME NEW r \in Runs, NEW plan \in {"ready", "cancelled"}, UserStop(r, plan) PROVE TypeOK'
  <2>1. RowsOK'
    <3>1. "cancelled" \in RunStatuses /\ plan \in PlanStatuses
      BY DEF RunStatuses, PlanStatuses
    <3>2. Move(r, "cancelled", plan)
      BY <1>5 DEF UserStop
    <3>3. planStatus' \in [Plans -> PlanStatuses] /\ runStatus' \in [Runs -> RunStatuses]
      BY <1>1, <3>1, <3>2 DEF Move, RowsOK
    <3> QED
      BY <1>1, <1>5, <3>3 DEF UserStop, RowsOK
  <2> QED
    BY <1>1, <1>5, <2>1, TypeOKParts DEF UserStop, ThreadsOK, SystemOK, threads, system
<1>6. ASSUME NEW c \in Chats, StopChat(c) PROVE TypeOK'
  <2>1. stopped' \in SUBSET Turns
    BY <1>1, <1>6 DEF StopChat, ThreadsOK
  <2> QED
    BY <1>1, <1>6, <2>1, TypeOKParts
       DEF StopChat, Begin, Goto, RowsOK, ThreadsOK, SystemOK, Places, rows, system
<1>7. ASSUME NEW p \in Plans, NEW place \in EditPlaces, EditPlan(p, place) PROVE TypeOK'
  BY <1>1, <1>7, TypeOKParts
     DEF EditPlan, EditPlaces, Begin, Goto, RowsOK, ThreadsOK, SystemOK, Places, rows, system
<1>8. ASSUME NEW p \in Plans, NEW status \in {"ready", "cancelled"}, SetPlanStatus(p, status)
      PROVE  TypeOK'
  BY <1>1, <1>8, TypeOKParts
     DEF SetPlanStatus, RowsOK, ThreadsOK, SystemOK, PlanStatuses, threads, system
<1> QED
  BY <1>2, <1>3, <1>4, <1>5, <1>6, <1>7, <1>8 DEF Commands

\* Reconciliation, a crash and a restart preserve type correctness.
LEMMA TypeOKSystem ==
    ASSUME Inv, (\E scope \in SUBSET Plans : Reconcile(scope)) \/ Crash \/ Sweep \/ RestartReconciles
    PROVE  TypeOK'
<1>1. RowsOK /\ ThreadsOK /\ SystemOK
  BY TypeOKParts DEF Inv
<1>2. ASSUME NEW scope \in SUBSET Plans, Reconciled(scope), applied' = applied PROVE RowsOK'
  BY <1>1, <1>2 DEF Reconciled, RowsOK, RunStatuses, PlanStatuses
<1>3. ASSUME NEW scope \in SUBSET Plans, Reconcile(scope) PROVE TypeOK'
  BY <1>1, <1>2, <1>3, TypeOKParts DEF Reconcile, Reconciled, ThreadsOK, SystemOK, threads, system
<1>4. CASE Crash
  <2>1. ThreadsOK'
    BY <1>1, <1>4, AssumptionsHold DEF Crash, ThreadsOK, Places, Outcomes, Assumptions
  <2> QED
    BY <1>1, <1>4, <2>1, TypeOKParts DEF Crash, RowsOK, SystemOK, rows
<1>5. CASE Sweep
  BY <1>1, <1>5, TypeOKParts DEF Sweep, RowsOK, ThreadsOK, SystemOK, ChatStates, threads
<1>6. CASE RestartReconciles
  BY <1>1, <1>2, <1>6, TypeOKParts DEF RestartReconciles, Reconciled, ThreadsOK, SystemOK, threads
<1> QED
  BY <1>3, <1>4, <1>5, <1>6

\* Every step preserves type correctness.
LEMMA TypeOKStep == ASSUME Inv, [Next]_vars PROVE TypeOK'
<1>1. CASE UNCHANGED vars
  BY <1>1 DEF Inv, TypeOK, vars, rows, threads, system
<1> QED
  BY <1>1, TypeOKTurn, TypeOKMain, TypeOKCommand, TypeOKSystem DEF Next

-----------------------------------------------------------------------------
(***************************************************************************)
(* The threads' knowledge is inductive.                                    *)
(***************************************************************************)

\* No thread has begun in the initial state.
LEMMA ThreadInvInit == Init => ThreadInv
  BY AssumptionsHold DEF Assumptions, Init, ThreadInv, PlaceInv, HeldInv, GripInv, KnownInv, AssignInv,
     KickoffInv, MarkInv, OutcomeInv, RetryInv, SubjectInv, DownInv, SweptInv, Gripping, EditPlaces,
     Turns, Actors

\* A step of chat_terminal or complete_run keeps what the places promise.
LEMMA PlaceTerminal ==
    ASSUME Inv, NEW a \in Actors, TerminalStep(a)
    PROVE  PlaceInv'
<1> USE AssumptionsHold DEF Inv, ThreadInv, PlaceInv, GripInv, OutcomeInv, RetryInv, SubjectInv, DownInv, SweptInv,
       Gripping, EditPlaces, rows, threads, system, TypeOK, Turns, Actors, Assumptions
<1>1. CASE MarkChat(a)
  BY <1>1 DEF MarkChat, ChatOf, Leave, FailoverDue, Goto
<1>2. CASE SettleRun(a)
  <2>1. SettledStatus(outcome[a]) \in {"awaiting_review", "failed", "cancelled"}
    BY <1>2, SettledTypeOK DEF SettleRun, PlaceInv
  <2> QED
    BY <1>2, <2>1 DEF SettleRun, Move, Leave, FailoverDue, Goto, LiveStatuses
<1>3. CASE StartCompletion(a)
  BY <1>3 DEF StartCompletion, Goto
<1>4. ASSUME NEW touches \in BOOLEAN, FinishRun(a, touches) PROVE PlaceInv'
  BY <1>4 DEF FinishRun, Move, Leave, FailoverDue, Goto, LiveStatuses
<1>5. CASE ApplyFinishPolicy(a)
  BY <1>5 DEF ApplyFinishPolicy, Leave, FailoverDue, Goto
<1> QED
  BY <1>1, <1>2, <1>3, <1>4, <1>5 DEF TerminalStep

\* A step of a turn's thread keeps what the places promise.
LEMMA PlaceTurn ==
    ASSUME Inv, NEW t \in Turns, Send(t) \/ TurnStep(t) \/ Working(t)
    PROVE  PlaceInv'
<1> USE AssumptionsHold DEF Inv, ThreadInv, PlaceInv, GripInv, OutcomeInv, RetryInv, SubjectInv, DownInv, SweptInv,
       Gripping, EditPlaces, rows, threads, system, TypeOK, Turns, Actors, Assumptions
<1>1. CASE Send(t)
  BY <1>1 DEF Send, Goto
<1>2. CASE Refused(t)
  BY <1>2 DEF Refused, Goto
<1>3. CASE FailLinkedChat(t)
  BY <1>3 DEF FailLinkedChat, Goto, Selected, ActiveRuns, LiveStatuses
<1>4. CASE KickoffFailed(t)
  BY <1>4 DEF KickoffFailed, Move, Leave, FailoverDue, Goto, LiveStatuses
<1>5. CASE ChatRunning(t)
  BY <1>5 DEF ChatRunning, Goto
<1>6. CASE Answered(t)
  BY <1>6 DEF Answered, Goto
<1>7. CASE Failover(t)
  BY <1>7 DEF Failover, Goto
<1>8. ASSUME NEW result \in Outcomes \ {"none"}, TurnEnds(t, result) PROVE PlaceInv'
  BY <1>8 DEF TurnEnds, Goto, Selected, ActiveRuns, LiveStatuses
<1>9. CASE TerminalStep(t)
  BY <1>9, PlaceTerminal
<1>10. CASE AskUser(t)
  BY <1>10 DEF AskUser, Goto
<1>11. ASSUME NEW p \in Plans, TickLastTask(t, p) PROVE PlaceInv'
  BY <1>11 DEF TickLastTask, threads, system
<1> QED
  BY <1>1, <1>2, <1>3, <1>4, <1>5, <1>6, <1>7, <1>8, <1>9, <1>10, <1>11 DEF TurnStep, Working

\* A step of Main keeps what the places promise.
LEMMA PlaceMain ==
    ASSUME Inv, MainStep
    PROVE  PlaceInv'
<1> USE AssumptionsHold DEF Inv, ThreadInv, PlaceInv, GripInv, OutcomeInv, RetryInv, SubjectInv, DownInv, SweptInv,
       Gripping, EditPlaces, rows, threads, system, TypeOK, Turns, Actors, Assumptions
<1>1. CASE InsertRun
  BY <1>1 DEF InsertRun, Goto, LiveStatuses
<1>2. CASE KickoffStarted
  BY <1>2 DEF KickoffStarted, Move, LiveStatuses
<1>3. CASE MarkFinishes
  BY <1>3 DEF MarkFinishes, Move, Leave, Goto, LiveStatuses
<1>4. CASE StopReadsRun
  BY <1>4 DEF StopReadsRun, Goto, Selected, ActiveRuns, LiveStatuses
<1>5. ASSUME NEW place \in EditPlaces, EditWrites(place) PROVE PlaceInv'
  BY <1>5 DEF EditWrites, Leave, Goto
<1>6. CASE TerminalStep(Main)
  BY <1>6, PlaceTerminal
<1> QED
  BY <1>1, <1>2, <1>3, <1>4, <1>5, <1>6 DEF MainStep

\* The start of a command keeps what the places promise.
LEMMA PlaceCommand ==
    ASSUME Inv, Commands
    PROVE  PlaceInv'
<1> USE AssumptionsHold DEF Inv, ThreadInv, PlaceInv, GripInv, OutcomeInv, RetryInv, SubjectInv, DownInv, SweptInv,
       Gripping, EditPlaces, rows, threads, system, TypeOK, Turns, Actors, Assumptions
<1>1. ASSUME NEW r \in Runs, AssignChecks(r) PROVE PlaceInv'
  BY <1>1 DEF AssignChecks, MainFree, Begin, Goto, ActiveRuns, rows, system
<1>2. ASSUME NEW r \in Runs, NEW s \in Sends, CompleteRun(r, s) PROVE PlaceInv'
  BY <1>2 DEF CompleteRun, MainFree, rows, system
<1>3. ASSUME NEW r \in Runs, MarkComplete(r) PROVE PlaceInv'
  BY <1>3 DEF MarkComplete, MainFree, Begin, Goto, rows, system
<1>4. ASSUME NEW r \in Runs, NEW plan \in {"ready", "cancelled"}, UserStop(r, plan) PROVE PlaceInv'
  BY <1>4 DEF UserStop, MainFree, Move, threads, system, LiveStatuses
<1>5. ASSUME NEW c \in Chats, StopChat(c) PROVE PlaceInv'
  BY <1>5 DEF StopChat, MainFree, Begin, Goto, rows, system
<1>6. ASSUME NEW p \in Plans, NEW place \in EditPlaces, EditPlan(p, place) PROVE PlaceInv'
  BY <1>6 DEF EditPlan, MainFree, Begin, Goto, rows, system
<1>7. ASSUME NEW p \in Plans, NEW status \in {"ready", "cancelled"}, SetPlanStatus(p, status)
      PROVE  PlaceInv'
  BY <1>7 DEF SetPlanStatus, threads, system
<1> QED
  BY <1>1, <1>2, <1>3, <1>4, <1>5, <1>6, <1>7 DEF Commands

\* Reconciliation, a crash and a restart keeps what the places promise.
LEMMA PlaceSystem ==
    ASSUME Inv, (\E scope \in SUBSET Plans : Reconcile(scope)) \/ Crash \/ Sweep \/ RestartReconciles
    PROVE  PlaceInv'
<1> USE AssumptionsHold DEF Inv, ThreadInv, PlaceInv, GripInv, OutcomeInv, RetryInv, SubjectInv, DownInv, SweptInv,
       Gripping, EditPlaces, rows, threads, system, TypeOK, Turns, Actors, Assumptions
<1>1. ASSUME NEW scope \in SUBSET Plans, Reconcile(scope) PROVE PlaceInv'
  BY <1>1 DEF Reconcile, Reconciled, Stale, threads, system, LiveStatuses
<1>2. CASE Crash
  BY <1>2 DEF Crash, rows
<1>3. CASE Sweep
  BY <1>3 DEF Sweep, threads, LiveStates
<1>4. CASE RestartReconciles
  BY <1>4 DEF RestartReconciles, Reconciled, Stale, threads, LiveStatuses
<1> QED
  BY <1>1, <1>2, <1>3, <1>4

\* A step of chat_terminal or complete_run keeps what a held row promises.
LEMMA HeldTerminal ==
    ASSUME Inv, NEW a \in Actors, TerminalStep(a)
    PROVE  HeldInv'
<1> USE AssumptionsHold DEF Inv, ThreadInv, PlaceInv, HeldInv, GripInv, OutcomeInv, KnownInv, AssignInv, KickoffInv, MarkInv,
       DownInv, ChecklistHolds, Gripping, EditPlaces, rows, threads, system, TypeOK, Turns, Actors, Assumptions
<1>1. CASE MarkChat(a)
  BY <1>1 DEF MarkChat, ChatOf, Leave, FailoverDue, Goto
<1>2. CASE SettleRun(a)
  <2>1. SettledStatus(outcome[a]) \in {"awaiting_review", "failed", "cancelled"}
    BY <1>2, SettledTypeOK DEF SettleRun, PlaceInv
  <2> QED
    BY <1>2, <2>1 DEF SettleRun, Move, Leave, FailoverDue, Goto, LiveStatuses
<1>3. CASE StartCompletion(a)
  BY <1>3 DEF StartCompletion, Goto
<1>4. ASSUME NEW touches \in BOOLEAN, FinishRun(a, touches) PROVE HeldInv'
  BY <1>4 DEF FinishRun, Move, Leave, FailoverDue, Goto, LiveStatuses
<1>5. CASE ApplyFinishPolicy(a)
  BY <1>5 DEF ApplyFinishPolicy, Leave, FailoverDue, Goto
<1> QED
  BY <1>1, <1>2, <1>3, <1>4, <1>5 DEF TerminalStep

\* A step of a turn's thread keeps what a held row promises.
LEMMA HeldTurn ==
    ASSUME Inv, NEW t \in Turns, Send(t) \/ TurnStep(t) \/ Working(t)
    PROVE  HeldInv'
<1> USE AssumptionsHold DEF Inv, ThreadInv, PlaceInv, HeldInv, GripInv, OutcomeInv, KnownInv, AssignInv, KickoffInv, MarkInv,
       DownInv, ChecklistHolds, Gripping, EditPlaces, rows, threads, system, TypeOK, Turns, Actors, Assumptions
<1>1. CASE Send(t)
  BY <1>1 DEF Send, Goto
<1>2. CASE Refused(t)
  BY <1>2 DEF Refused, Goto
<1>3. CASE FailLinkedChat(t)
  BY <1>3 DEF FailLinkedChat, Goto, Selected, ActiveRuns, LiveStatuses
<1>4. CASE KickoffFailed(t)
  BY <1>4 DEF KickoffFailed, Move, Leave, FailoverDue, Goto, LiveStatuses
<1>5. CASE ChatRunning(t)
  BY <1>5 DEF ChatRunning, Goto
<1>6. CASE Answered(t)
  BY <1>6 DEF Answered, Goto
<1>7. CASE Failover(t)
  BY <1>7 DEF Failover, Goto
<1>8. ASSUME NEW result \in Outcomes \ {"none"}, TurnEnds(t, result) PROVE HeldInv'
  BY <1>8 DEF TurnEnds, Goto, Selected, ActiveRuns, LiveStatuses
<1>9. CASE TerminalStep(t)
  BY <1>9, HeldTerminal
<1>10. CASE AskUser(t)
  BY <1>10 DEF AskUser, Goto
<1>11. ASSUME NEW p \in Plans, TickLastTask(t, p) PROVE HeldInv'
  BY <1>11 DEF TickLastTask, threads, system
<1> QED
  BY <1>1, <1>2, <1>3, <1>4, <1>5, <1>6, <1>7, <1>8, <1>9, <1>10, <1>11 DEF TurnStep, Working

\* A step of Main keeps what a held row promises.
LEMMA HeldMain ==
    ASSUME Inv, MainStep
    PROVE  HeldInv'
<1> USE AssumptionsHold DEF Inv, ThreadInv, PlaceInv, HeldInv, GripInv, OutcomeInv, KnownInv, AssignInv, KickoffInv, MarkInv,
       DownInv, ChecklistHolds, Gripping, EditPlaces, rows, threads, system, TypeOK, Turns, Actors, Assumptions
<1>1. CASE InsertRun
  BY <1>1 DEF InsertRun, Goto, LiveStatuses
<1>2. CASE KickoffStarted
  BY <1>2 DEF KickoffStarted, Move, LiveStatuses
<1>3. CASE MarkFinishes
  BY <1>3 DEF MarkFinishes, Move, Leave, Goto, LiveStatuses
<1>4. CASE StopReadsRun
  BY <1>4 DEF StopReadsRun, Goto, Selected, ActiveRuns, LiveStatuses
<1>5. ASSUME NEW place \in EditPlaces, EditWrites(place) PROVE HeldInv'
  BY <1>5 DEF EditWrites, Leave, Goto
<1>6. CASE TerminalStep(Main)
  BY <1>6, HeldTerminal
<1> QED
  BY <1>1, <1>2, <1>3, <1>4, <1>5, <1>6 DEF MainStep

\* The start of a command keeps what a held row promises.
LEMMA HeldCommand ==
    ASSUME Inv, Commands
    PROVE  HeldInv'
<1> USE AssumptionsHold DEF Inv, ThreadInv, PlaceInv, HeldInv, GripInv, OutcomeInv, KnownInv, AssignInv, KickoffInv, MarkInv,
       DownInv, ChecklistHolds, Gripping, EditPlaces, rows, threads, system, TypeOK, Turns, Actors, Assumptions
<1>1. ASSUME NEW r \in Runs, AssignChecks(r) PROVE HeldInv'
  BY <1>1 DEF AssignChecks, MainFree, Begin, Goto, ActiveRuns, rows, system
<1>2. ASSUME NEW r \in Runs, NEW s \in Sends, CompleteRun(r, s) PROVE HeldInv'
  BY <1>2 DEF CompleteRun, MainFree, rows, system
<1>3. ASSUME NEW r \in Runs, MarkComplete(r) PROVE HeldInv'
  BY <1>3 DEF MarkComplete, MainFree, Begin, Goto, rows, system
<1>4. ASSUME NEW r \in Runs, NEW plan \in {"ready", "cancelled"}, UserStop(r, plan) PROVE HeldInv'
  BY <1>4 DEF UserStop, MainFree, Move, threads, system, LiveStatuses
<1>5. ASSUME NEW c \in Chats, StopChat(c) PROVE HeldInv'
  BY <1>5 DEF StopChat, MainFree, Begin, Goto, rows, system
<1>6. ASSUME NEW p \in Plans, NEW place \in EditPlaces, EditPlan(p, place) PROVE HeldInv'
  BY <1>6 DEF EditPlan, MainFree, Begin, Goto, rows, system
<1>7. ASSUME NEW p \in Plans, NEW status \in {"ready", "cancelled"}, SetPlanStatus(p, status)
      PROVE  HeldInv'
  BY <1>7 DEF SetPlanStatus, threads, system
<1> QED
  BY <1>1, <1>2, <1>3, <1>4, <1>5, <1>6, <1>7 DEF Commands

\* Reconciliation, a crash and a restart keeps what a held row promises.
LEMMA HeldSystem ==
    ASSUME Inv, (\E scope \in SUBSET Plans : Reconcile(scope)) \/ Crash \/ Sweep \/ RestartReconciles
    PROVE  HeldInv'
<1> USE AssumptionsHold DEF Inv, ThreadInv, PlaceInv, HeldInv, GripInv, OutcomeInv, KnownInv, AssignInv, KickoffInv, MarkInv,
       DownInv, ChecklistHolds, Gripping, EditPlaces, rows, threads, system, TypeOK, Turns, Actors, Assumptions
<1>1. ASSUME NEW scope \in SUBSET Plans, Reconcile(scope) PROVE HeldInv'
  BY <1>1 DEF Reconcile, Reconciled, Stale, threads, system, LiveStatuses
<1>2. CASE Crash
  BY <1>2 DEF Crash, rows
<1>3. CASE Sweep
  BY <1>3 DEF Sweep, threads, LiveStates
<1>4. CASE RestartReconciles
  BY <1>4 DEF RestartReconciles, Reconciled, Stale, threads, LiveStatuses
<1> QED
  BY <1>1, <1>2, <1>3, <1>4

\* Every step keeps the threads' knowledge.
LEMMA ThreadInvStep == ASSUME Inv, [Next]_vars PROVE ThreadInv'
<1>1. CASE UNCHANGED vars
  BY <1>1 DEF vars, rows, threads, system, Inv, ThreadInv, PlaceInv, HeldInv, GripInv, KnownInv,
     AssignInv, KickoffInv, MarkInv, OutcomeInv, RetryInv, SubjectInv, DownInv, SweptInv, ChecklistHolds
<1>2. CASE Next
  <2>1. PlaceInv'
    BY <1>2, PlaceTurn, PlaceMain, PlaceCommand, PlaceSystem DEF Next
  <2>2. HeldInv'
    BY <1>2, HeldTurn, HeldMain, HeldCommand, HeldSystem DEF Next
  <2> QED
    BY <2>1, <2>2 DEF ThreadInv
<1> QED
  BY <1>1, <1>2

\* The inductive invariant: types and the threads' knowledge.
LEMMA InvHolds == Spec => []Inv
<1>1. Init => Inv
  BY TypeOKInit, ThreadInvInit DEF Inv
<1>2. Inv /\ [Next]_vars => Inv'
  BY TypeOKStep, ThreadInvStep DEF Inv
<1> QED
  BY <1>1, <1>2, PTL DEF Spec

\* Every variable keeps its type; in particular a failover never tries more
\* accounts than there are, and an edit never writes the row of a chat.
THEOREM TypeCorrect == Spec => []TypeOK
<1>1. Inv => TypeOK
  BY DEF Inv
<1> QED
  BY <1>1, InvHolds, PTL
-----------------------------------------------------------------------------
(***************************************************************************)
(* The ways to write the rows of plans and runs.                           *)
(***************************************************************************)

EndStatuses == {"succeeded", "failed", "awaiting_review", "cancelled"}

\* A run ends and its plan with it; the plan finishes only with a success, and
\* then its checklist, if it has one, is complete.
Settles(r, status, plan) ==
    /\ Move(r, status, plan) /\ edited' = edited
    /\ status \in EndStatuses /\ plan \in PlanStatuses \ {"running"}
    /\ plan = "finished" => status = "succeeded" /\ ChecklistHolds(RunPlan[r])

\* No other run of r's chat is active.
Alone(r) == \A s \in Runs : TurnChat[s] = TurnChat[r] /\ s # r => runStatus[s] \notin LiveStatuses

\* A new run becomes pending.
Inserts(r) ==
    /\ runStatus[r] = "absent" /\ runStatus' = [runStatus EXCEPT ![r] = "pending"]
    /\ UNCHANGED <<planStatus, edited>>

\* A run and its plan become running.
Starts(r) == Move(r, "running", "running") /\ edited' = edited

\* An edit writes the row of plan p alone; the change of a status is recorded.
Edits(p) ==
    /\ \E status \in PlanStatuses : planStatus' = [planStatus EXCEPT ![p] = status]
    /\ edited' = IF planStatus'[p] = planStatus[p] THEN edited ELSE edited \cup {p}
    /\ UNCHANGED runStatus

\* The user gives plan p another status.
Sets(p) ==
    /\ \E status \in {"ready", "cancelled"} : planStatus' = [planStatus EXCEPT ![p] = status]
    /\ UNCHANGED <<runStatus, edited>>

\* What a step does to the rows of plans and runs.
RowStep ==
    \/ UNCHANGED <<planStatus, runStatus, edited>>
    \/ \E r \in Runs, status \in EndStatuses, plan \in PlanStatuses : Settles(r, status, plan)
    \/ \E r \in Runs : Alone(r) /\ (Inserts(r) \/ Starts(r))
    \/ \E p \in Plans : Edits(p) \/ Sets(p)
    \/ \E scope \in SUBSET Plans : Reconciled(scope) /\ edited' = edited

\* Tasks stay ticked.
LEMMA TasksStayTicked == ASSUME [Next]_vars PROVE done \subseteq done'
  BY DEF Next, vars, rows, threads, system, Send, TurnStep, Refused, FailLinkedChat, KickoffFailed,
     ChatRunning, Answered, Failover, TurnEnds, TerminalStep, MarkChat, SettleRun, StartCompletion,
     FinishRun, ApplyFinishPolicy, Working, AskUser, TickLastTask, MainStep, InsertRun, KickoffStarted,
     MarkFinishes, StopReadsRun, EditWrites, Commands, AssignChecks, MarkComplete, CompleteRun, UserStop,
     StopChat, EditPlan, SetPlanStatus, Reconcile, Reconciled, Crash, Sweep, RestartReconciles

\* A step of chat_terminal or complete_run settles the run it holds, or none.
LEMMA TerminalShape == ASSUME Inv, NEW a \in Actors, TerminalStep(a) PROVE RowStep
<1>1. CASE MarkChat(a) \/ StartCompletion(a) \/ ApplyFinishPolicy(a)
  BY <1>1 DEF MarkChat, StartCompletion, ApplyFinishPolicy, RowStep, rows
<1>2. CASE SettleRun(a)
  <2>1. grip[a] \in Runs /\ outcome[a] \in Outcomes \ {"none"}
    BY <1>2 DEF SettleRun, Inv, TypeOK, ThreadInv, PlaceInv, GripInv, OutcomeInv, Gripping
  <2>2. SettledStatus(outcome[a]) \in EndStatuses
    BY <2>1, SettledTypeOK DEF EndStatuses
  <2>3. Settles(grip[a], SettledStatus(outcome[a]), "ready")
    BY <1>2, <2>2 DEF SettleRun, Settles, PlanStatuses
  <2> QED
    BY <2>1, <2>2, <2>3 DEF RowStep, PlanStatuses
<1>3. ASSUME NEW touches \in BOOLEAN, FinishRun(a, touches) PROVE RowStep
  <2>1. grip[a] \in Runs
    BY <1>3 DEF FinishRun, Inv, TypeOK, ThreadInv, PlaceInv, GripInv, Gripping
  <2>2. PICK status \in EndStatuses, plan \in {"ready", "finished"} :
            /\ Move(grip[a], status, plan)
            /\ plan = "finished" => status = "succeeded" /\ ChecklistHolds(RunPlan[grip[a]])
    BY <1>3 DEF FinishRun, EndStatuses
  <2>3. Settles(grip[a], status, plan)
    BY <1>3, <2>2 DEF FinishRun, Settles, PlanStatuses
  <2> QED
    BY <2>1, <2>2, <2>3 DEF RowStep, PlanStatuses
<1> QED
  BY <1>1, <1>2, <1>3 DEF TerminalStep

\* A step of a turn's thread settles one run, or none.
LEMMA TurnShape ==
    ASSUME Inv, NEW t \in Turns, Send(t) \/ TurnStep(t) \/ Working(t) PROVE RowStep
<1> t \in Actors
  BY DEF Actors
<1>1. CASE KickoffFailed(t)
  <2>1. grip[t] \in Runs
    BY <1>1 DEF KickoffFailed, Inv, ThreadInv, PlaceInv, GripInv, Gripping
  <2>2. Settles(grip[t], "failed", "ready")
    BY <1>1 DEF KickoffFailed, Settles, EndStatuses, PlanStatuses
  <2> QED
    BY <2>1, <2>2 DEF RowStep, EndStatuses, PlanStatuses
<1>2. CASE TerminalStep(t)
  BY <1>2, TerminalShape
<1>3. CASE \/ Send(t) \/ Refused(t) \/ FailLinkedChat(t) \/ ChatRunning(t) \/ Answered(t)
           \/ Failover(t) \/ (\E result \in Outcomes \ {"none"} : TurnEnds(t, result)) \/ Working(t)
  BY <1>3 DEF Send, Refused, FailLinkedChat, ChatRunning, Answered, Failover, TurnEnds, Working,
     AskUser, TickLastTask, RowStep, rows
<1> QED
  BY <1>1, <1>2, <1>3 DEF TurnStep

\* A step of Main inserts, starts or finishes one run, or writes an edit.
LEMMA MainShape == ASSUME Inv, MainStep PROVE RowStep
<1> Main \in Actors
  BY DEF Actors
<1>1. CASE InsertRun \/ KickoffStarted
  <2>1. grip[Main] \in Runs /\ Alone(grip[Main])
    BY <1>1 DEF InsertRun, KickoffStarted, Inv, ThreadInv, PlaceInv, GripInv, Gripping, HeldInv, AssignInv,
       Alone
  <2>2. Inserts(grip[Main]) \/ Starts(grip[Main])
    BY <1>1 DEF InsertRun, KickoffStarted, Inserts, Starts, Inv, ThreadInv, HeldInv, AssignInv
  <2> QED
    BY <2>1, <2>2 DEF RowStep
<1>2. CASE MarkFinishes
  <2>1. grip[Main] \in Runs /\ ChecklistHolds(RunPlan[grip[Main]])
    BY <1>2 DEF MarkFinishes, Inv, ThreadInv, PlaceInv, GripInv, Gripping, HeldInv, MarkInv
  <2>2. Settles(grip[Main], "succeeded", "finished")
    BY <1>2, <2>1 DEF MarkFinishes, Settles, EndStatuses, PlanStatuses
  <2> QED
    BY <2>1, <2>2 DEF RowStep, EndStatuses, PlanStatuses
<1>3. CASE StopReadsRun
  BY <1>3 DEF StopReadsRun, RowStep, rows
<1>4. ASSUME NEW place \in EditPlaces, EditWrites(place) PROVE RowStep
  <2>1. subject \in Plans
    BY <1>4 DEF EditWrites, Inv, ThreadInv, PlaceInv, SubjectInv, EditPlaces
  <2>2. PICK status \in {"running", "finished"} :
            /\ planStatus' = [planStatus EXCEPT ![subject] = status]
            /\ edited' = IF planStatus[subject] = status THEN edited ELSE edited \cup {subject}
    <3>1. [edit_running |-> "running", edit_finished |-> "finished"][place] \in {"running", "finished"}
      BY DEF EditPlaces
    <3> QED
      BY <1>4, <3>1 DEF EditWrites
  <2>3. Edits(subject)
    BY <1>4, <2>1, <2>2 DEF EditWrites, Edits, Inv, TypeOK, PlanStatuses
  <2> QED
    BY <2>1, <2>3 DEF RowStep
<1>5. CASE TerminalStep(Main)
  BY <1>5, TerminalShape
<1> QED
  BY <1>1, <1>2, <1>3, <1>4, <1>5 DEF MainStep

\* A command that starts writes no row, or stops a run or sets a plan.
LEMMA CommandShape == ASSUME Inv, Commands PROVE RowStep
<1>1. ASSUME NEW r \in Runs, NEW plan \in {"ready", "cancelled"}, UserStop(r, plan) PROVE RowStep
  <2>1. Settles(r, "cancelled", plan)
    BY <1>1 DEF UserStop, Settles, EndStatuses, PlanStatuses
  <2> QED
    BY <2>1 DEF RowStep, EndStatuses, PlanStatuses
<1>2. ASSUME NEW p \in Plans, NEW status \in {"ready", "cancelled"}, SetPlanStatus(p, status)
      PROVE  RowStep
  BY <1>2 DEF SetPlanStatus, Sets, RowStep
<1>3. ASSUME NEW r \in Runs, AssignChecks(r) \/ MarkComplete(r) \/ \E s \in Sends : CompleteRun(r, s)
      PROVE  RowStep
  BY <1>3 DEF AssignChecks, MarkComplete, CompleteRun, RowStep, rows
<1>4. CASE \/ \E c \in Chats : StopChat(c)
           \/ \E p \in Plans, place \in EditPlaces : EditPlan(p, place)
  BY <1>4 DEF StopChat, EditPlan, RowStep, rows
<1> QED
  BY <1>1, <1>2, <1>3, <1>4 DEF Commands

\* Every step writes the rows of plans and runs in one of these ways.
LEMMA StepShapes == ASSUME Inv, [Next]_vars PROVE RowStep
<1>1. CASE UNCHANGED vars
  BY <1>1 DEF vars, rows, RowStep
<1>2. ASSUME NEW scope \in SUBSET Plans, Reconcile(scope) PROVE RowStep
  BY <1>2 DEF Reconcile, RowStep
<1>3. CASE Crash \/ Sweep
  BY <1>3 DEF Crash, Sweep, rows, RowStep
<1>4. CASE RestartReconciles
  BY <1>4 DEF RestartReconciles, RowStep
<1> QED
  BY <1>1, <1>2, <1>3, <1>4, TurnShape, MainShape, CommandShape DEF Next
-----------------------------------------------------------------------------
(***************************************************************************)
(* What holds between the rows.                                            *)
(***************************************************************************)

\* A plan that says running has a live run, unless an edit put the status back:
\* every transaction that ends a run takes its plan out of "running", and
\* reconciliation releases exactly the plans it leaves without a live run.
THEOREM RunningPlansHaveRuns == Spec => []RunningPlanHasRun
<1>1. Init => RunningPlanHasRun
  BY DEF Init, RunningPlanHasRun
<1>2. ASSUME Inv, RunningPlanHasRun, [Next]_vars PROVE RunningPlanHasRun'
  <2> USE AssumptionsHold DEF Assumptions, RunningPlanHasRun, LiveStatuses, Inv, TypeOK
  <2>1. CASE UNCHANGED <<planStatus, runStatus, edited>>
    BY <1>2, <2>1
  <2>2. ASSUME NEW r \in Runs, NEW status, NEW plan, Settles(r, status, plan)
        PROVE  RunningPlanHasRun'
    BY <1>2, <2>2 DEF Settles, Move
  <2>3. ASSUME NEW r \in Runs, Inserts(r) PROVE RunningPlanHasRun'
    BY <1>2, <2>3 DEF Inserts
  <2>4. ASSUME NEW r \in Runs, Starts(r) PROVE RunningPlanHasRun'
    BY <1>2, <2>4 DEF Starts, Move
  <2>5. ASSUME NEW p \in Plans, Edits(p) \/ Sets(p) PROVE RunningPlanHasRun'
    BY <1>2, <2>5 DEF Edits, Sets
  <2>6. ASSUME NEW scope \in SUBSET Plans, Reconciled(scope), edited' = edited
        PROVE  RunningPlanHasRun'
    <3> SUFFICES ASSUME NEW p \in Plans, planStatus'[p] = "running", p \notin edited
                 PROVE  \E r \in Runs : RunPlan[r] = p /\ runStatus'[r] \in LiveStatuses
      BY <2>6
    <3>1. planStatus[p] = "running" /\ (p \notin scope \/ Served(p))
      BY <2>6 DEF Reconciled
    <3>2. CASE p \notin scope
      BY <1>2, <2>6, <3>1, <3>2 DEF Reconciled
    <3>3. CASE Served(p)
      BY <2>6, <3>3 DEF Reconciled, Served, Stale
    <3> QED
      BY <3>1, <3>2, <3>3
  <2> QED
    BY <1>2, StepShapes, <2>1, <2>2, <2>3, <2>4, <2>5, <2>6 DEF RowStep
<1> QED
  BY <1>1, <1>2, InvHolds, PTL DEF Spec

\* A finished plan has a succeeded run and, when it is linked, a complete
\* checklist, unless an edit put the status back.
THEOREM FinishedPlansAreEarned == Spec => []FinishedPlanIsEarned
<1>1. Init => FinishedPlanIsEarned
  BY DEF Init, FinishedPlanIsEarned
<1>2. ASSUME Inv, FinishedPlanIsEarned, [Next]_vars PROVE FinishedPlanIsEarned'
  <2> USE AssumptionsHold, TasksStayTicked, <1>2 DEF Assumptions, FinishedPlanIsEarned, Inv, TypeOK
  <2>1. CASE UNCHANGED <<planStatus, runStatus, edited>>
    BY <2>1
  <2>2. ASSUME NEW r \in Runs, NEW status, NEW plan, Settles(r, status, plan)
        PROVE  FinishedPlanIsEarned'
    BY <2>2 DEF Settles, Move, ChecklistHolds
  <2>3. ASSUME NEW r \in Runs, Inserts(r) PROVE FinishedPlanIsEarned'
    BY <2>3 DEF Inserts
  <2>4. ASSUME NEW r \in Runs, Starts(r) PROVE FinishedPlanIsEarned'
    BY <2>4 DEF Starts, Move
  <2>5. ASSUME NEW p \in Plans, Edits(p) \/ Sets(p) PROVE FinishedPlanIsEarned'
    BY <2>5 DEF Edits, Sets
  <2>6. ASSUME NEW scope \in SUBSET Plans, Reconciled(scope), edited' = edited
        PROVE  FinishedPlanIsEarned'
    BY <2>6 DEF Reconciled, Stale
  <2> QED
    BY StepShapes, <2>1, <2>2, <2>3, <2>4, <2>5, <2>6 DEF RowStep
<1> QED
  BY <1>1, <1>2, InvHolds, PTL DEF Spec

\* A chat never has two active runs, however long the worktree of an assignment
\* takes and whatever turns of the chat do meanwhile.
THEOREM ChatsHaveOneActiveRun == Spec => []OneActiveRunPerChat
<1>1. Init => OneActiveRunPerChat
  BY DEF Init, OneActiveRunPerChat, LiveStatuses
<1>2. ASSUME Inv, OneActiveRunPerChat, [Next]_vars PROVE OneActiveRunPerChat'
  <2> USE AssumptionsHold, <1>2 DEF Assumptions, OneActiveRunPerChat, LiveStatuses, Inv, TypeOK
  <2>1. CASE UNCHANGED runStatus
    BY <2>1
  <2>2. ASSUME NEW r \in Runs, NEW status, NEW plan, Settles(r, status, plan)
        PROVE  OneActiveRunPerChat'
    BY <2>2 DEF Settles, Move, EndStatuses
  <2>3. ASSUME NEW r \in Runs, Alone(r), Inserts(r) \/ Starts(r) PROVE OneActiveRunPerChat'
    BY <2>3 DEF Alone, Inserts, Starts, Move
  <2>4. ASSUME NEW scope \in SUBSET Plans, Reconciled(scope) PROVE OneActiveRunPerChat'
    BY <2>4 DEF Reconciled, Stale
  <2> QED
    BY StepShapes, <2>1, <2>2, <2>3, <2>4 DEF RowStep, Edits, Sets
<1> QED
  BY <1>1, <1>2, InvHolds, PTL DEF Spec

\* After a restart nothing claims to run: the sweep leaves no live chat, so no
\* run is served, and reconciliation of all projects takes the claim of each.
THEOREM RestartsLeaveNothingRunning == Spec => RestartLeavesNothingRunning
<1> DEFINE Quiet == mode = "swept" /\ mode' = "up"
                    => /\ \A p \in Plans : planStatus'[p] # "running"
                       /\ \A r \in Runs : runStatus'[r] # "running"
                       /\ \A c \in Chats : chatState'[c] \notin LiveStates
<1>1. ASSUME Inv, [Next]_vars PROVE Quiet
  <2> SUFFICES ASSUME mode = "swept", mode' = "up"
               PROVE  /\ \A p \in Plans : planStatus'[p] # "running"
                      /\ \A r \in Runs : runStatus'[r] # "running"
                      /\ \A c \in Chats : chatState'[c] \notin LiveStates
    OBVIOUS
  <2>1. RestartReconciles
    BY <1>1 DEF Next, vars, rows, threads, system, Send, TurnStep, Refused, FailLinkedChat, KickoffFailed,
       ChatRunning, Answered, Failover, TurnEnds, TerminalStep, MarkChat, SettleRun, StartCompletion,
       FinishRun, ApplyFinishPolicy, Working, AskUser, TickLastTask, MainStep, InsertRun, KickoffStarted,
       MarkFinishes, StopReadsRun, EditWrites, Commands, AssignChecks, MarkComplete, CompleteRun, UserStop,
       StopChat, EditPlan, SetPlanStatus, Reconcile, Reconciled, Crash, Sweep
  <2>2. \A c \in Chats : chatState[c] \notin LiveStates
    BY <1>1 DEF Inv, ThreadInv, PlaceInv, SweptInv
  <2>3. \A r \in Runs : TurnChat[r] \in Chats /\ RunPlan[r] \in Plans
    BY AssumptionsHold DEF Assumptions, Turns
  <2>4. \A p \in Plans : ~Served(p)
    BY <2>2, <2>3 DEF Served
  <2>5. \A r \in Runs : runStatus[r] = "running" => Stale(r)
    BY <2>2, <2>3 DEF Stale
  <2> QED
    BY <2>1, <2>2, <2>3, <2>4, <2>5 DEF RestartReconciles, Reconciled
<1> QED
  BY <1>1, InvHolds, PTL DEF Spec, RestartLeavesNothingRunning

\* A chat that shows as live has a turn that will still write its end, as long
\* as the process lives: a turn that leaves its end has written an end.
THEOREM LiveStatesHaveOwners == Spec => []LiveStateHasOwner
<1>1. Init => LiveStateHasOwner
  BY DEF Init, LiveStateHasOwner, LiveStates
<1>2. ASSUME Inv, LiveStateHasOwner, [Next]_vars PROVE LiveStateHasOwner'
  <2> USE AssumptionsHold, <1>2 DEF Assumptions, Inv, TypeOK, Turns, Actors, LiveStateHasOwner, LiveStates,
          Goto, Leave, rows, threads, system
  <2>1. CASE UNCHANGED vars
    BY <2>1 DEF vars
  <2>2. ASSUME NEW a \in Actors, TerminalStep(a) PROVE LiveStateHasOwner'
    <3>1. CASE MarkChat(a)
      BY <3>1 DEF MarkChat, ChatOf
    <3>2. CASE SettleRun(a) \/ StartCompletion(a) \/ ApplyFinishPolicy(a)
      BY <3>2 DEF SettleRun, StartCompletion, ApplyFinishPolicy
    <3>3. ASSUME NEW touches \in BOOLEAN, FinishRun(a, touches) PROVE LiveStateHasOwner'
      BY <3>3 DEF FinishRun
    <3> QED
      BY <2>2, <3>1, <3>2, <3>3 DEF TerminalStep
  <2>3. ASSUME NEW t \in Turns, ChatRunning(t) \/ Answered(t) \/ AskUser(t) PROVE LiveStateHasOwner'
    BY <2>3 DEF ChatRunning, Answered, AskUser
  <2>4. ASSUME NEW t \in Turns, \/ Send(t) \/ Refused(t) \/ FailLinkedChat(t) \/ KickoffFailed(t)
                                \/ Failover(t) \/ \E p \in Plans : TickLastTask(t, p)
        PROVE  LiveStateHasOwner'
    BY <2>4 DEF Send, Refused, FailLinkedChat, KickoffFailed, Failover, TickLastTask
  <2>5. ASSUME NEW t \in Turns, NEW result \in Outcomes \ {"none"}, TurnEnds(t, result)
        PROVE  LiveStateHasOwner'
    BY <2>5 DEF TurnEnds
  <2>6. CASE \/ InsertRun \/ MarkFinishes \/ StopReadsRun
             \/ \E place \in EditPlaces : EditWrites(place)
    BY <2>6 DEF InsertRun, MarkFinishes, StopReadsRun, EditWrites
  <2>7. CASE KickoffStarted
    <3>1. pc[grip[Main]] = "idle"
      BY <2>7 DEF KickoffStarted, ThreadInv, HeldInv, AssignInv
    <3> QED
      BY <2>7, <3>1 DEF KickoffStarted
  <2>8. CASE Commands
    BY <2>8 DEF Commands, MainFree, Begin, AssignChecks, MarkComplete, CompleteRun, UserStop, StopChat,
       EditPlan, SetPlanStatus
  <2>9. CASE (\E scope \in SUBSET Plans : Reconcile(scope)) \/ Crash \/ Sweep
    BY <2>9 DEF Reconcile, Reconciled, Crash, Sweep
  <2>10. CASE RestartReconciles
    BY <2>10 DEF RestartReconciles, Reconciled, ThreadInv, PlaceInv, SweptInv
  <2>11. Main \in Actors /\ Turns \subseteq Actors
    OBVIOUS
  <2> QED
    BY <2>1, <2>2, <2>3, <2>4, <2>5, <2>6, <2>7, <2>8, <2>9, <2>10, <2>11
       DEF Next, TurnStep, Working, MainStep
<1> QED
  BY <1>1, <1>2, InvHolds, PTL DEF Spec
=============================================================================
