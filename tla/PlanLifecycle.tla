---------------------------- MODULE PlanLifecycle ----------------------------
(***************************************************************************)
(* The plan/run/chat lifecycle: PlanLifecycleService                       *)
(* (plan_lifecycle_service.rs) and the threads that call it.               *)
(*                                                                         *)
(* A plan is worked on by a run, a run is bound to a chat, and the agent   *)
(* turns of that chat do the work.  The three statuses are rows of one     *)
(* SQLite database; a transition of the service is one transaction (an     *)
(* action here), but chat_terminal and complete_run are several, and no    *)
(* transition asks whether the row still says what its caller read.        *)
(*                                                                         *)
(* Three kinds of threads meet in the database: the turns (send_message on *)
(* the blocking pool, or the detached kickoff of an assigned run), the     *)
(* thread Main on which the synchronous commands of the interface execute  *)
(* one at a time, and whoever lists plans or runs, which reconciles first. *)
(* Errors of the database itself are not part of this module.              *)
(***************************************************************************)
EXTENDS Integers, FiniteSets

CONSTANTS Plans, Chats,
          Runs,        \* rows of plan_runs; each is assigned once
          Sends,       \* turns a user sends; run r brings its own kickoff turn
          RunPlan,     \* RunPlan[r]: the plan of run r
          TurnChat,    \* TurnChat[t]: the chat of turn t; that of run r is TurnChat[r]
          Linked,      \* plans linked to an OpenSpec change
          Editable,    \* plans whose row a user changes by hand
          Main,        \* the thread of the synchronous commands
          NoRun,       \* "no active run of the chat"
          NoSubject,   \* Main executes no command
          MaxAttempts, \* accounts a turn may try
          MaxCrashes   \* bound on crashes of the process

\* The kickoff turn of an assigned run bears the name of the run.
Turns == Runs \cup Sends
Actors == Turns \cup {Main}

ASSUME NamesAssumption ==
    /\ Runs \cap Sends = {}
    /\ Main \notin Turns
    /\ NoRun \notin Runs
    /\ NoSubject \notin Plans \cup Chats
ASSUME BindingAssumption ==
    /\ RunPlan \in [Runs -> Plans]
    /\ TurnChat \in [Turns -> Chats]
    /\ Linked \subseteq Plans
    /\ Editable \subseteq Plans
ASSUME BoundsAssumption == MaxAttempts \in Nat \ {0} /\ MaxCrashes \in Nat

VARIABLES
    \* Rows of the database; they survive a crash.
    planStatus,  \* plans.status
    runStatus,   \* plan_runs.status
    chatState,   \* native_chat_sessions.run_state
    applied,     \* runs with a plan_runs.finish_outcome
    done,        \* plans whose tasks.md is completely ticked
    \* Threads.
    pc,          \* where the actor is
    grip,        \* the run the actor has read and will write
    outcome,     \* how the turn, or the stop, ends
    attempt,     \* accounts the turn has tried
    stopped,     \* turns whose CancellationToken is set
    subject,     \* the plan or chat Main's command is about
    mode,        \* "up", or where a restart is
    crashes,
    \* History, read by properties only.
    edited       \* plans whose status an edit put back after it had changed

rows    == <<planStatus, runStatus, chatState, applied, done>>
threads == <<pc, grip, outcome, attempt, stopped, subject>>
system  == <<mode, crashes>>
vars == <<rows, threads, system, edited>>

\* "ready" stands for draft, openspec and ready: the statuses assign accepts.
PlanStatuses == {"ready", "running", "finished", "cancelled"}
RunStatuses == {"absent", "pending", "running", "succeeded", "failed",
                "awaiting_review", "cancelled"}
LiveStatuses == {"pending", "running"}
ChatStates == {"idle", "running", "needs_input", "interrupted", "cancelled"}
LiveStates == {"running", "needs_input"}

\* A turn goes from "sent" to "loop" and "asking"; "ended" when chat_terminal
\* has read the active run, "marked" when it has written the chat's state;
\* "touching" during the final touches of complete_run, "policy" before the
\* finish policy; "refused" and "failing" when a kickoff did not start.
Places == {"idle", "sent", "loop", "asking", "ended", "marked", "touching",
           "policy", "retry", "closed", "refused", "failing",
           "inserting", "starting", "marking", "stopping",
           "edit_running", "edit_finished", "reported"}

EditPlaces == {"edit_running", "edit_finished"}

\* "error" is a failure send_message returns as an error, outside the agent loop.
Outcomes == {"none", "idle", "failed", "error", "pre_stream", "cancelled"}

TypeOK ==
    /\ planStatus \in [Plans -> PlanStatuses]
    /\ runStatus \in [Runs -> RunStatuses]
    /\ chatState \in [Chats -> ChatStates]
    /\ done \in SUBSET Linked
    /\ pc \in [Actors -> Places]
    /\ grip \in [Actors -> Runs \cup {NoRun}]
    /\ outcome \in [Actors -> Outcomes]
    /\ attempt \in [Turns -> 0..MaxAttempts]
    /\ stopped \in SUBSET Turns
    /\ subject \in Plans \cup Chats \cup {NoSubject}
    /\ mode \in {"up", "down", "swept"}
    /\ crashes \in Nat
    /\ applied \in SUBSET Runs
    /\ edited \in SUBSET Plans

Init ==
    /\ planStatus = [p \in Plans |-> "ready"]
    /\ runStatus = [r \in Runs |-> "absent"]
    /\ chatState = [c \in Chats |-> "idle"]
    /\ done = {}
    /\ pc = [a \in Actors |-> "idle"]
    /\ grip = [a \in Actors |-> NoRun]
    /\ outcome = [a \in Actors |-> "none"]
    /\ attempt = [t \in Turns |-> 0]
    /\ stopped = {}
    /\ subject = NoSubject
    /\ mode = "up"
    /\ crashes = 0
    /\ applied = {}
    /\ edited = {}

-----------------------------------------------------------------------------
\* The pending or running runs bound to chat c.
ActiveRuns(c) == {r \in Runs : TurnChat[r] = c /\ runStatus[r] \in LiveStatuses}

\* The row chat_terminal and fail_linked_chat select: one active run, or none.
Selected(c) == IF ActiveRuns(c) = {} THEN {NoRun} ELSE ActiveRuns(c)

\* The chat whose turn actor a ends.
ChatOf(a) == IF a = Main THEN subject ELSE TurnChat[a]

Goto(a, place) == pc' = [pc EXCEPT ![a] = place]

\* No output came and another account is left.
FailoverDue(t) == outcome[t] = "pre_stream" /\ attempt[t] < MaxAttempts

\* Main's command returns, or a turn does, and its local variables are gone.  A
\* turn with another account to try goes on; a kickoff looks at an error.
Leave(a) ==
    /\ Goto(a, IF a = Main THEN "idle"
               ELSE IF FailoverDue(a) THEN "retry"
               ELSE IF a \in Runs /\ outcome[a] = "error" THEN "refused" ELSE "closed")
    /\ grip' = [grip EXCEPT ![a] = NoRun]
    /\ outcome' = [outcome EXCEPT ![a] = "none"]
    /\ subject' = IF a = Main THEN NoSubject ELSE subject
    /\ stopped' = stopped \ {a}
    /\ attempt' = [t \in Turns |-> IF t = a /\ ~FailoverDue(t) THEN 0 ELSE attempt[t]]

\* One transaction of the service: the run and its plan move together.
Move(r, status, plan) ==
    /\ runStatus' = [runStatus EXCEPT ![r] = status]
    /\ planStatus' = [planStatus EXCEPT ![RunPlan[r]] = plan]

(***************************************************************************)
(* Turns                                                                   *)
(***************************************************************************)

\* A user sends a message; a chat may have several turns at once.
Send(t) ==
    /\ mode = "up" /\ t \in Sends /\ pc[t] = "idle"
    /\ Goto(t, "sent")
    /\ attempt' = [attempt EXCEPT ![t] = 1]
    /\ UNCHANGED <<rows, grip, outcome, stopped, subject, system, edited>>

\* send_message ends before it runs: no usable account, or an error.  Only the
\* kickoff of an assigned run looks at it.
Refused(t) ==
    /\ pc[t] = "sent" /\ attempt[t] = 1
    /\ Goto(t, IF t \in Runs THEN "refused" ELSE "closed")
    /\ attempt' = [attempt EXCEPT ![t] = 0]
    /\ UNCHANGED <<rows, grip, outcome, stopped, subject, system, edited>>

\* fail_linked_chat reads the active run of the chat ...
FailLinkedChat(t) ==
    /\ pc[t] = "refused"
    /\ \E r \in Selected(TurnChat[t]) :
         /\ grip' = [grip EXCEPT ![t] = r]
         /\ Goto(t, IF r = NoRun THEN "closed" ELSE "failing")
    /\ UNCHANGED <<rows, outcome, attempt, stopped, subject, system, edited>>

\* ... and kickoff_failed writes it, whatever it has become.
KickoffFailed(t) ==
    /\ pc[t] = "failing"
    /\ Move(grip[t], "failed", "ready")
    /\ Leave(t)
    /\ UNCHANGED <<chatState, applied, done, system, edited>>

\* chat_running, when the turn has registered.
ChatRunning(t) ==
    /\ pc[t] = "sent"
    /\ chatState' = [chatState EXCEPT ![TurnChat[t]] = "running"]
    /\ Goto(t, "loop")
    /\ UNCHANGED <<planStatus, runStatus, applied, done, grip, outcome, attempt, stopped,
                   subject, system, edited>>

\* The agent ticks the last task of a linked change.
TickLastTask(t, p) ==
    /\ pc[t] = "loop" /\ p \in Linked \ done
    /\ done' = done \cup {p}
    /\ UNCHANGED <<planStatus, runStatus, chatState, applied, threads, system, edited>>

\* chat_needs_input: a question or an approval parks the turn.
AskUser(t) ==
    /\ pc[t] = "loop"
    /\ chatState' = [chatState EXCEPT ![TurnChat[t]] = "needs_input"]
    /\ Goto(t, "asking")
    /\ UNCHANGED <<planStatus, runStatus, applied, done, grip, outcome, attempt, stopped,
                   subject, system, edited>>

\* The user answers or cancels, or the wait times out.
Answered(t) ==
    /\ pc[t] = "asking"
    /\ chatState' = [chatState EXCEPT ![TurnChat[t]] = "running"]
    /\ Goto(t, "loop")
    /\ UNCHANGED <<planStatus, runStatus, applied, done, grip, outcome, attempt, stopped,
                   subject, system, edited>>

\* The loop ends and chat_terminal reads the active run of the chat.
TurnEnds(t, result) ==
    /\ pc[t] = "loop"
    /\ result = "cancelled" => t \in stopped
    /\ result = "error" => t \in Runs  \* to a send of the user it is a failure
    /\ \E r \in Selected(TurnChat[t]) : grip' = [grip EXCEPT ![t] = r]
    /\ outcome' = [outcome EXCEPT ![t] = result]
    /\ Goto(t, "ended")
    /\ UNCHANGED <<rows, attempt, stopped, subject, system, edited>>

\* The next account gets a run_agent_turn of its own.
Failover(t) ==
    /\ pc[t] = "retry"
    /\ attempt' = [attempt EXCEPT ![t] = @ + 1]
    /\ Goto(t, "sent")
    /\ UNCHANGED <<rows, grip, outcome, stopped, subject, system, edited>>

(***************************************************************************)
(* chat_terminal and complete_run, of a turn or of Main                    *)
(***************************************************************************)

\* The chat's state is written; without an active run there is no more to do.
MarkChat(a) ==
    /\ pc[a] = "ended"
    /\ chatState' = [chatState EXCEPT ![ChatOf(a)] =
                         IF outcome[a] = "cancelled" THEN "cancelled" ELSE "idle"]
    /\ IF grip[a] = NoRun
       THEN Leave(a)
       ELSE Goto(a, "marked") /\ UNCHANGED <<grip, outcome, subject, attempt, stopped>>
    /\ UNCHANGED <<planStatus, runStatus, applied, done, system, edited>>

\* An idle end with every task of the linked change ticked.
ChecklistComplete(a) == outcome[a] = "idle" /\ RunPlan[grip[a]] \in done

SettledStatus(o) ==
    CASE o = "idle" -> "awaiting_review"
      [] o \in {"failed", "error", "pre_stream"} -> "failed"
      [] o = "cancelled" -> "cancelled"

\* Mutant of SettleRun: the plan is left to the next reconciliation.
SettleRunOnly(a) ==
    /\ pc[a] = "marked" /\ ~ChecklistComplete(a)
    /\ runStatus' = [runStatus EXCEPT ![grip[a]] = SettledStatus(outcome[a])]
    /\ Leave(a)
    /\ UNCHANGED <<planStatus, chatState, applied, done, system, edited>>

\* Otherwise one transaction settles the run that was read and its plan.
SettleRun(a) ==
    /\ pc[a] = "marked" /\ ~ChecklistComplete(a)
    /\ Move(grip[a], SettledStatus(outcome[a]), "ready")
    /\ Leave(a)
    /\ UNCHANGED <<chatState, applied, done, system, edited>>

\* The run is handed to complete_run, which starts the final touches.
StartCompletion(a) ==
    /\ pc[a] = "marked" /\ ChecklistComplete(a)
    /\ Goto(a, "touching")
    /\ UNCHANGED <<rows, grip, outcome, attempt, stopped, subject, system, edited>>

\* complete_run asks less than chat_terminal: without a link there is no list.
ChecklistHolds(p) == p \in Linked => p \in done

\* The final touches end and finish_run writes the verdict.
FinishRun(a, touches) ==
    /\ pc[a] = "touching"
    /\ LET r == grip[a]
           succeeded == touches /\ ChecklistHolds(RunPlan[r])
       IN  IF succeeded
           THEN /\ Move(r, "succeeded", "finished")
                /\ Goto(a, "policy")
                /\ UNCHANGED <<grip, outcome, subject, attempt, stopped>>
           ELSE /\ Move(r, IF touches THEN "awaiting_review" ELSE "failed", "ready")
                /\ Leave(a)
    /\ UNCHANGED <<chatState, applied, done, system, edited>>

\* apply_finish_policy: hold, commit, or commit and open a pull request.
ApplyFinishPolicy(a) ==
    /\ pc[a] = "policy"
    /\ applied' = applied \cup {grip[a]}
    /\ Leave(a)
    /\ UNCHANGED <<planStatus, runStatus, chatState, done, system, edited>>

(***************************************************************************)
(* Synchronous commands                                                    *)
(***************************************************************************)

MainFree == mode = "up" /\ pc[Main] = "idle"

\* Main starts a command of several steps.
Begin(place, r, s) ==
    /\ Goto(Main, place)
    /\ grip' = [grip EXCEPT ![Main] = r]
    /\ subject' = s

\* Mutant of AssignChecks: nothing asks whether the chat has an active run.
AssignChecksPlanOnly(r) ==
    /\ MainFree
    /\ runStatus[r] = "absent"
    /\ planStatus[RunPlan[r]] = "ready"
    /\ Begin("inserting", r, NoSubject)
    /\ UNCHANGED <<rows, outcome, attempt, stopped, system, edited>>

\* assign_to_chat: the plan may be assigned and the chat has no active run; a
\* worktree is provisioned before anything is written.
AssignChecks(r) ==
    /\ MainFree
    /\ runStatus[r] = "absent"
    /\ planStatus[RunPlan[r]] = "ready"
    /\ ActiveRuns(TurnChat[r]) = {}
    /\ Begin("inserting", r, NoSubject)
    /\ UNCHANGED <<rows, outcome, attempt, stopped, system, edited>>

\* The row of the run is inserted as pending.
InsertRun ==
    /\ pc[Main] = "inserting"
    /\ runStatus' = [runStatus EXCEPT ![grip[Main]] = "pending"]
    /\ Goto(Main, "starting")
    /\ UNCHANGED <<planStatus, chatState, applied, done, grip, outcome, attempt, stopped,
                   subject, system, edited>>

\* kickoff_started, and kickoff_assigned_run starts the run's own turn.
KickoffStarted ==
    /\ pc[Main] = "starting"
    /\ LET r == grip[Main] IN
         /\ Move(r, "running", "running")
         /\ pc' = [pc EXCEPT ![Main] = "idle", ![r] = "sent"]
         /\ attempt' = [attempt EXCEPT ![r] = 1]
    /\ grip' = [grip EXCEPT ![Main] = NoRun]
    /\ UNCHANGED <<chatState, applied, done, outcome, stopped, subject, system, edited>>

\* Mutant of UserStop: the plan keeps its status.
UserStopRunOnly(r, plan) ==
    /\ MainFree
    /\ runStatus[r] # "absent"
    /\ runStatus' = [runStatus EXCEPT ![r] = "cancelled"]
    /\ UNCHANGED <<planStatus, chatState, applied, done, threads, system, edited>>

\* plan_run_cancel: whatever the run has become since the list was drawn.
UserStop(r, plan) ==
    /\ MainFree
    /\ runStatus[r] # "absent"
    /\ Move(r, "cancelled", plan)
    /\ UNCHANGED <<chatState, applied, done, threads, system, edited>>

\* plan_run_complete: Test Run Mode, its only caller, has sent a message to the
\* chat of the run, waited for the answer and seen the chat idle.
CompleteRun(r, s) ==
    /\ MainFree
    /\ runStatus[r] # "absent"
    /\ TurnChat[s] = TurnChat[r] /\ pc[s] = "closed"
    /\ chatState[TurnChat[r]] = "idle"
    /\ pc' = [pc EXCEPT ![Main] = "touching", ![s] = "reported"]
    /\ grip' = [grip EXCEPT ![Main] = r]
    /\ UNCHANGED <<rows, outcome, attempt, stopped, subject, system, edited>>

\* plan_run_mark_complete checks ...
MarkComplete(r) ==
    /\ MainFree
    /\ runStatus[r] \in {"awaiting_review", "succeeded"}
    /\ ChecklistHolds(RunPlan[r])
    /\ Begin("marking", r, NoSubject)
    /\ UNCHANGED <<rows, outcome, attempt, stopped, system, edited>>

\* ... and finishes the run, without the finish policy.
MarkFinishes ==
    /\ pc[Main] = "marking"
    /\ Move(grip[Main], "succeeded", "finished")
    /\ Leave(Main)
    /\ UNCHANGED <<chatState, applied, done, system, edited>>

\* native_chat_cancel while a turn of the chat is under way: cancel_run sets
\* the token of the turn the registry holds, if it holds one.
StopChat(c) ==
    /\ MainFree
    /\ LET turns == {t \in Turns : TurnChat[t] = c /\ pc[t] \in {"sent", "loop", "asking"}} IN
         /\ turns # {}
         /\ \E hit \in {{}} \cup {{t} : t \in turns} : stopped' = stopped \cup hit
    /\ Begin("stopping", NoRun, c)
    /\ UNCHANGED <<rows, outcome, attempt, system, edited>>

\* chat_terminal(Cancelled) reads the active run of the chat.
StopReadsRun ==
    /\ pc[Main] = "stopping"
    /\ \E r \in Selected(subject) : grip' = [grip EXCEPT ![Main] = r]
    /\ outcome' = [outcome EXCEPT ![Main] = "cancelled"]
    /\ Goto(Main, "ended")
    /\ UNCHANGED <<rows, attempt, stopped, subject, system, edited>>

\* update_plan on a plan that is running or finished: the request carries the
\* status the plan had, and the check compares it with the status it reads ...
EditPlan(p, place) ==
    /\ MainFree /\ p \in Editable
    /\ planStatus[p] = [edit_running |-> "running", edit_finished |-> "finished"][place]
    /\ Begin(place, NoRun, p)
    /\ UNCHANGED <<rows, outcome, attempt, stopped, system, edited>>

\* ... and the row is written on another connection, later.
EditWrites(place) ==
    /\ pc[Main] = place
    /\ LET status == [edit_running |-> "running", edit_finished |-> "finished"][place] IN
         /\ planStatus' = [planStatus EXCEPT ![subject] = status]
         /\ edited' = IF planStatus[subject] = status THEN edited ELSE edited \cup {subject}
    /\ Leave(Main)
    /\ UNCHANGED <<runStatus, chatState, applied, done, system>>

\* set_plan_status (an async command): any status but running and finished.
SetPlanStatus(p, status) ==
    /\ mode = "up" /\ p \in Editable
    /\ planStatus' = [planStatus EXCEPT ![p] = status]
    /\ UNCHANGED <<runStatus, chatState, applied, done, threads, system, edited>>

(***************************************************************************)
(* Reconciliation, crash and restart                                       *)
(***************************************************************************)

\* A running run whose chat executes nothing.
Stale(r) == runStatus[r] = "running" /\ chatState[TurnChat[r]] \notin LiveStates

\* An active run of the plan whose chat is at work, once the stale ones are gone.
Served(p) == \E r \in Runs : /\ RunPlan[r] = p
                             /\ runStatus[r] \in LiveStatuses
                             /\ chatState[TurnChat[r]] \in LiveStates

\* Mutant of Reconciled: a parked chat and a cancelled one count as live.
ReconciledIdleOnly(scope) ==
    /\ runStatus' = [r \in Runs |->
          IF runStatus[r] = "running" /\ chatState[TurnChat[r]] = "idle" /\ RunPlan[r] \in scope
          THEN "awaiting_review" ELSE runStatus[r]]
    /\ planStatus' = [p \in Plans |->
          IF planStatus[p] = "running" /\ p \in scope /\ ~Served(p)
          THEN "ready" ELSE planStatus[p]]
    /\ UNCHANGED <<chatState, applied, done>>

\* reconcile_stale_owners, for the plans of one session, one project or all.
Reconciled(scope) ==
    /\ runStatus' = [r \in Runs |->
          IF Stale(r) /\ RunPlan[r] \in scope THEN "awaiting_review" ELSE runStatus[r]]
    /\ planStatus' = [p \in Plans |->
          IF planStatus[p] = "running" /\ p \in scope /\ ~Served(p)
          THEN "ready" ELSE planStatus[p]]
    /\ UNCHANGED <<chatState, applied, done>>

\* Whoever lists plans or runs reconciles first.
Reconcile(scope) ==
    /\ mode = "up"
    /\ Reconciled(scope)
    /\ UNCHANGED <<threads, system, edited>>

\* The process dies with all its threads and tokens.
Crash ==
    /\ crashes < MaxCrashes
    /\ crashes' = crashes + 1
    /\ mode' = "down"
    /\ pc' = [a \in Actors |-> IF a = Main \/ pc[a] = "idle" THEN "idle" ELSE "closed"]
    /\ grip' = [a \in Actors |-> NoRun]
    /\ outcome' = [a \in Actors |-> "none"]
    /\ attempt' = [t \in Turns |-> 0]
    /\ stopped' = {}
    /\ subject' = NoSubject
    /\ UNCHANGED <<rows, edited>>

\* Mutant of Sweep: parked chats are forgotten.
SweepRunningOnly ==
    /\ mode = "down"
    /\ chatState' = [c \in Chats |->
          IF chatState[c] = "running" THEN "interrupted" ELSE chatState[c]]
    /\ mode' = "swept"
    /\ UNCHANGED <<planStatus, runStatus, applied, done, threads, crashes, edited>>

\* sweep_interrupted_runs: the chats first, in one transaction ...
Sweep ==
    /\ mode = "down"
    /\ chatState' = [c \in Chats |->
          IF chatState[c] \in LiveStates THEN "interrupted" ELSE chatState[c]]
    /\ mode' = "swept"
    /\ UNCHANGED <<planStatus, runStatus, applied, done, threads, crashes, edited>>

\* ... then the runs and plans, in another, before the interface loads.
RestartReconciles ==
    /\ mode = "swept"
    /\ Reconciled(Plans)
    /\ mode' = "up"
    /\ UNCHANGED <<threads, crashes, edited>>

-----------------------------------------------------------------------------
TerminalStep(a) ==
    \/ MarkChat(a) \/ SettleRun(a) \/ StartCompletion(a)
    \/ \E touches \in BOOLEAN : FinishRun(a, touches)
    \/ ApplyFinishPolicy(a)

\* What the thread of a started turn does, except for the agent's own choices.
TurnStep(t) ==
    \/ Refused(t) \/ FailLinkedChat(t) \/ KickoffFailed(t)
    \/ ChatRunning(t) \/ Answered(t) \/ Failover(t)
    \/ \E result \in Outcomes \ {"none"} : TurnEnds(t, result)
    \/ TerminalStep(t)

Working(t) == AskUser(t) \/ \E p \in Plans : TickLastTask(t, p)

MainStep ==
    \/ InsertRun \/ KickoffStarted \/ MarkFinishes \/ StopReadsRun
    \/ \E place \in EditPlaces : EditWrites(place)
    \/ TerminalStep(Main)

Commands ==
    \/ \E r \in Runs : \/ AssignChecks(r) \/ MarkComplete(r)
                       \/ \E s \in Sends : CompleteRun(r, s)
                       \/ \E plan \in {"ready", "cancelled"} : UserStop(r, plan)
    \/ \E c \in Chats : StopChat(c)
    \/ \E p \in Plans : \/ \E place \in EditPlaces : EditPlan(p, place)
                        \/ \E status \in {"ready", "cancelled"} : SetPlanStatus(p, status)

Next ==
    \/ \E t \in Turns : Send(t) \/ TurnStep(t) \/ Working(t)
    \/ MainStep \/ Commands
    \/ \E scope \in SUBSET Plans : Reconcile(scope)
    \/ Crash \/ Sweep \/ RestartReconciles

Spec == Init /\ [][Next]_vars

\* Started threads run on, the interface polls the lists it shows (which
\* reconciles), and a process that died is started again.
Fairness ==
    /\ \A t \in Turns : WF_vars(TurnStep(t))
    /\ WF_vars(MainStep)
    /\ WF_vars(Reconcile(Plans))
    /\ WF_vars(Sweep) /\ WF_vars(RestartReconciles)

FairSpec == Spec /\ Fairness
-----------------------------------------------------------------------------
\* A plan that says running has a run that is pending or running.  Six
\* transactions of four threads write the two rows, two of them from a run read
\* earlier; only an edit that puts an old status back can leave a plan running
\* on its own (awaiting_review_never_leaves_plan_running tests one transition).
RunningPlanHasRun ==
    \A p \in Plans :
        planStatus[p] = "running" /\ p \notin edited
        => \E r \in Runs : RunPlan[r] = p /\ runStatus[r] \in LiveStatuses

\* A finished plan has a run that succeeded, and a linked one a ticked list:
\* none of the stale writes of a second run or a second thread leaves the plan
\* finished while it takes the run's success back.
FinishedPlanIsEarned ==
    \A p \in Plans :
        planStatus[p] = "finished" /\ p \notin edited
        => /\ p \in Linked => p \in done
           /\ \E r \in Runs : RunPlan[r] = p /\ runStatus[r] = "succeeded"

\* A chat has at most one active run: assign_to_chat inserts its row a worktree
\* creation after it looked for another one.
OneActiveRunPerChat ==
    \A r1, r2 \in Runs :
        /\ TurnChat[r1] = TurnChat[r2]
        /\ runStatus[r1] \in LiveStatuses /\ runStatus[r2] \in LiveStatuses
        => r1 = r2

\* A chat that shows as running or waiting has a turn that will still write its
\* end; after a restart none shows so.
LiveStateHasOwner ==
    \A c \in Chats :
        mode = "up" /\ chatState[c] \in LiveStates
        => \E t \in Turns : TurnChat[t] = c /\ pc[t] \in {"loop", "asking", "ended"}

\* Wherever the process died, and however often during a restart, the interface
\* finds no plan and no run that claims to be running.
RestartLeavesNothingRunning ==
    [][mode = "swept" /\ mode' = "up"
       => /\ \A p \in Plans : planStatus'[p] # "running"
          /\ \A r \in Runs : runStatus'[r] # "running"
          /\ \A c \in Chats : chatState'[c] \notin LiveStates]_vars

\* A turn that may still write the state of chat c.
Occupied(c) == \E t \in Turns : TurnChat[t] = c /\ pc[t] \in {"sent", "loop", "asking", "ended"}

\* A run whose chat has no turn does not claim to be running for ever: somebody
\* reconciles it, whichever way the turn went (a kickoff without an account, a
\* stop, a crash).
StaleClaimEnds ==
    \A r \in Runs :
        runStatus[r] = "running" /\ ~Occupied(TurnChat[r])
        ~> runStatus[r] # "running" \/ Occupied(TurnChat[r])
=============================================================================
