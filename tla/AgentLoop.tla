------------------------------ MODULE AgentLoop ------------------------------
(***************************************************************************)
(* The native agent loop (agent_loop_service.rs) together with the three   *)
(* callers that race with it: send_message and steer                       *)
(* (native_chat_service.rs) and the composer that issues sends, steers and *)
(* stops (ChatPanel.tsx).                                                  *)
(*                                                                         *)
(* A run is one call of run_agent_turn; its identity is also the identity  *)
(* of the RunHandle it registers in ACTIVE_RUNS.  The loop of a run, a     *)
(* steer, and a stop each execute on a thread of their own; an action is   *)
(* what such a thread does between two points where another one can run: a *)
(* critical section of ACTIVE_RUNS / PENDING_STEERS, a provider call, a    *)
(* database write.  The approvals, interactions and subagents a run can    *)
(* wait for are not part of this module.                                   *)
(***************************************************************************)
EXTENDS Integers, Sequences

CONSTANTS Chats,            \* chat sessions
          Runs,             \* calls of run_agent_turn
          Steers,           \* calls of native_chat_steer
          RunChat,          \* RunChat[r]: the chat run r serves
          SteerChat,        \* SteerChat[s]: the chat steer s is typed into
          NoRun,            \* "no entry" in a registry
          MaxIterations,    \* MAX_ITERATIONS (100 in the code)
          MaxEmptyRetries,  \* MAX_EMPTY_RETRIES (2 in the code)
          MaxAttempts       \* accounts a send may try, one run_agent_turn each

ASSUME NoRunAssumption == NoRun \notin Runs
ASSUME ChatAssumption == RunChat \in [Runs -> Chats] /\ SteerChat \in [Steers -> Chats]
ASSUME BoundsAssumption ==
    /\ MaxIterations \in Nat \ {0}
    /\ MaxEmptyRetries \in Nat
    /\ MaxAttempts \in Nat \ {0}

VARIABLES
    \* Shared by all threads.
    active,      \* ACTIVE_RUNS: active[c], the run registered for chat c
    pending,     \* PENDING_STEERS: pending[c], accepted steers not yet drained
    cancelled,   \* runs whose CancellationToken is set
    rows,        \* steers persisted as user rows in native_chat_messages
    \* One entry per run.
    pc,          \* where the thread of the run is
    iteration,   \* requests since the start or the last applied steer
    retries,     \* empty responses since the start or the last applied steer
    quiet,       \* TRUE while the run has neither a segment nor a tool event
    result,      \* the RunResult
    messages,    \* steers injected into the conversation, in order
    attempt,     \* index of the account the run uses, from 1
    \* One entry per steer.
    fate,        \* where the steer is, and what became of it
    target,      \* the run registered when the steer was accepted
    \* One entry per chat.
    owner,       \* the send the composer is waiting for (streaming)
    stop,        \* the progress of native_chat_cancel
    \* History, read by properties only.
    shared       \* runs that executed while another run of their chat did

loopVars  == <<iteration, retries, quiet, result, messages>>
steerVars == <<fate, target, rows>>
vars == <<active, pending, cancelled, rows, pc, iteration, retries, quiet,
          result, messages, attempt, fate, target, owner, stop, shared>>

\* Places of a run's thread.  "tools" is while a batch of tools executes,
\* "finish" after an answer without tool calls, "unregister" at the end of
\* run_agent_turn, "returned" when send_message holds the RunResult.
LoopPlaces == {"top", "provider", "tools", "finish"}
Places == LoopPlaces \cup {"idle", "register", "unregister", "returned", "done"}

Results == {"none", "completed", "cancelled", "hit_cap", "failed", "pre_stream", "setup"}

\* "swept" is a queued steer removed by cancel_run, "dropped" one removed by
\* the end of run_agent_turn.
Fates == {"new", "checked", "persisted", "rollback", "refused",
          "queued", "heard", "swept", "dropped"}

TypeOK ==
    /\ active \in [Chats -> Runs \cup {NoRun}]
    /\ pending \in [Chats -> Seq(Steers)]
    /\ cancelled \in SUBSET Runs
    /\ rows \in SUBSET Steers
    /\ pc \in [Runs -> Places]
    /\ iteration \in [Runs -> Nat]
    /\ retries \in [Runs -> Nat]
    /\ quiet \in [Runs -> BOOLEAN]
    /\ result \in [Runs -> Results]
    /\ messages \in [Runs -> Seq(Steers)]
    /\ attempt \in [Runs -> Nat]
    /\ fate \in [Steers -> Fates]
    /\ target \in [Steers -> Runs \cup {NoRun}]
    /\ owner \in [Chats -> Runs \cup {NoRun}]
    /\ stop \in [Chats -> {"none", "token", "sweep"}]
    /\ shared \in SUBSET Runs

Init ==
    /\ active = [c \in Chats |-> NoRun]
    /\ pending = [c \in Chats |-> <<>>]
    /\ cancelled = {}
    /\ rows = {}
    /\ pc = [r \in Runs |-> "idle"]
    /\ iteration = [r \in Runs |-> 0]
    /\ retries = [r \in Runs |-> 0]
    /\ quiet = [r \in Runs |-> TRUE]
    /\ result = [r \in Runs |-> "none"]
    /\ messages = [r \in Runs |-> <<>>]
    /\ attempt = [r \in Runs |-> 0]
    /\ fate = [s \in Steers |-> "new"]
    /\ target = [s \in Steers |-> NoRun]
    /\ owner = [c \in Chats |-> NoRun]
    /\ stop = [c \in Chats |-> "none"]
    /\ shared = {}

\* The steers queued for chat c.
QueuedFor(c) == {pending[c][i] : i \in 1..Len(pending[c])}

\* The runs of chat c between their registration and their unregistration.
Executing(c) ==
    {r \in Runs : RunChat[r] = c /\ pc[r] \in LoopPlaces \cup {"unregister"}}

Goto(r, place) == pc' = [pc EXCEPT ![r] = place]

\* The loop of r returns a RunResult.
Return(r, res) ==
    /\ result' = [result EXCEPT ![r] = res]
    /\ Goto(r, "unregister")

(***************************************************************************)
(* send_message                                                            *)
(***************************************************************************)

\* The composer sends: it does so only while it is not streaming.
Send(r) ==
    /\ pc[r] = "idle"
    /\ owner[RunChat[r]] = NoRun
    /\ owner' = [owner EXCEPT ![RunChat[r]] = r]
    /\ attempt' = [attempt EXCEPT ![r] = 1]
    /\ Goto(r, "register")
    /\ UNCHANGED <<active, pending, cancelled, loopVars, steerVars, stop, shared>>

\* kickoff_assigned_run sends the first turn of an assigned plan on a detached
\* thread; no composer waits for it and nothing asks whether the chat is busy.
SendDetached(r) ==
    /\ pc[r] = "idle"
    /\ attempt' = [attempt EXCEPT ![r] = 1]
    /\ Goto(r, "register")
    /\ UNCHANGED <<active, pending, cancelled, loopVars, steerVars, owner, stop, shared>>

\* No usable account: send_message answers setup_required without a run.
SetupRequired(r) ==
    /\ pc[r] = "register"
    /\ attempt[r] = 1
    /\ result' = [result EXCEPT ![r] = "setup"]
    /\ Goto(r, "returned")
    /\ UNCHANGED <<active, pending, cancelled, iteration, retries, quiet,
                   messages, attempt, steerVars, owner, stop, shared>>

\* The run failed before any output and an account is left to try.  The set of
\* runs bounds the model: without a run left to start, the send ends as well.
FailoverDue(r) ==
    /\ result[r] = "pre_stream"
    /\ attempt[r] < MaxAttempts
    /\ \E next \in Runs : pc[next] = "idle" /\ RunChat[next] = RunChat[r]

\* The next account gets a run of its own, with the same conversation.
Failover(r, next) ==
    /\ pc[r] = "returned"
    /\ FailoverDue(r)
    /\ pc[next] = "idle"
    /\ RunChat[next] = RunChat[r]
    /\ pc' = [pc EXCEPT ![r] = "done", ![next] = "register"]
    /\ attempt' = [attempt EXCEPT ![next] = attempt[r] + 1]
    /\ owner' = [owner EXCEPT ![RunChat[r]] = IF @ = r THEN next ELSE @]
    /\ UNCHANGED <<active, pending, cancelled, loopVars, steerVars, stop, shared>>

\* send_message returns; the composer stops streaming if it still waits for it.
SendReturns(r) ==
    /\ pc[r] = "returned"
    /\ ~FailoverDue(r)
    /\ owner' = [owner EXCEPT ![RunChat[r]] = IF @ = r THEN NoRun ELSE @]
    /\ Goto(r, "done")
    /\ UNCHANGED <<active, pending, cancelled, loopVars, attempt, steerVars,
                   stop, shared>>

(***************************************************************************)
(* run_agent_turn and run_loop_inner                                       *)
(***************************************************************************)

\* Insert the handle, whatever the registry held for the chat.
Register(r) ==
    /\ pc[r] = "register"
    /\ active' = [active EXCEPT ![RunChat[r]] = r]
    /\ shared' = IF Executing(RunChat[r]) = {} THEN shared
                 ELSE shared \cup Executing(RunChat[r]) \cup {r}
    /\ Goto(r, "top")
    /\ UNCHANGED <<pending, cancelled, loopVars, attempt, steerVars, owner, stop>>

\* The head of the loop: count the iteration, look at the token, then at the
\* cap, and contact the provider.
LoopTop(r) ==
    /\ pc[r] = "top"
    /\ iteration' = [iteration EXCEPT ![r] = @ + 1]
    /\ \/ r \in cancelled /\ Return(r, "cancelled")
       \/ r \notin cancelled /\ iteration[r] >= MaxIterations /\ Return(r, "hit_cap")
       \/ r \notin cancelled /\ iteration[r] < MaxIterations
          /\ Goto(r, "provider") /\ UNCHANGED result
    /\ UNCHANGED <<active, pending, cancelled, retries, quiet, messages,
                   attempt, steerVars, owner, stop, shared>>

\* The provider fails for good, after some streamed text or before any.
ProviderFails(r, streamed) ==
    /\ pc[r] = "provider"
    /\ Return(r, IF iteration[r] = 1 /\ quiet[r] /\ ~streamed THEN "pre_stream" ELSE "failed")
    /\ UNCHANGED <<active, pending, cancelled, iteration, retries, quiet,
                   messages, attempt, steerVars, owner, stop, shared>>

\* An empty response: the loop nudges the model and tries again.
ProviderEmpty(r) ==
    /\ pc[r] = "provider"
    /\ retries[r] < MaxEmptyRetries
    /\ retries' = [retries EXCEPT ![r] = @ + 1]
    /\ Goto(r, "top")
    /\ UNCHANGED <<active, pending, cancelled, iteration, quiet, result, messages,
                   attempt, steerVars, owner, stop, shared>>

\* A response without tool calls: text, or an empty one with no retry left,
\* which leaves no segment behind.
ProviderAnswers(r, empty) ==
    /\ pc[r] = "provider"
    /\ empty => retries[r] >= MaxEmptyRetries
    /\ quiet' = [quiet EXCEPT ![r] = @ /\ empty]
    /\ Goto(r, "finish")
    /\ UNCHANGED <<active, pending, cancelled, iteration, retries, result, messages,
                   attempt, steerVars, owner, stop, shared>>

ProviderCallsTools(r) ==
    /\ pc[r] = "provider"
    /\ quiet' = [quiet EXCEPT ![r] = FALSE]
    /\ Goto(r, "tools")
    /\ UNCHANGED <<active, pending, cancelled, iteration, retries, result, messages,
                   attempt, steerVars, owner, stop, shared>>

\* Mutant of ApplySteers: an empty batch restarts the budgets as well.
ApplySteersAlwaysResets(r, c) ==
    /\ messages' = [messages EXCEPT ![r] = @ \o pending[c]]
    /\ fate' = [s \in Steers |-> IF s \in QueuedFor(c) THEN "heard" ELSE fate[s]]
    /\ iteration' = [iteration EXCEPT ![r] = 0]
    /\ retries' = [retries EXCEPT ![r] = 0]

\* apply_steers on a drained queue: each steer becomes a user message and a
\* non-empty batch restarts both budgets.
ApplySteers(r, c) ==
    /\ messages' = [messages EXCEPT ![r] = @ \o pending[c]]
    /\ fate' = [s \in Steers |-> IF s \in QueuedFor(c) THEN "heard" ELSE fate[s]]
    /\ iteration' = [iteration EXCEPT ![r] = IF pending[c] = <<>> THEN @ ELSE 0]
    /\ retries' = [retries EXCEPT ![r] = IF pending[c] = <<>> THEN @ ELSE 0]

\* Mutants of DrainSteers: the queue is copied instead of taken; the handle is
\* retired as finish_or_steer does.
DrainSteersCopies(r) ==
    /\ pc[r] = "tools"
    /\ ApplySteers(r, RunChat[r])
    /\ Goto(r, "top")
    /\ UNCHANGED <<active, pending, cancelled, quiet, result, attempt, rows, target,
                   owner, stop, shared>>

DrainSteersRetires(r) ==
    /\ pc[r] = "tools"
    /\ ApplySteers(r, RunChat[r])
    /\ pending' = [pending EXCEPT ![RunChat[r]] = <<>>]
    /\ active' = [active EXCEPT ![RunChat[r]] =
                      IF pending[RunChat[r]] = <<>> THEN NoRun ELSE @]
    /\ Goto(r, "top")
    /\ UNCHANGED <<cancelled, quiet, result, attempt, rows, target, owner, stop, shared>>

\* The batch of tools ends and drain_steers empties the queue.
DrainSteers(r) ==
    /\ pc[r] = "tools"
    /\ ApplySteers(r, RunChat[r])
    /\ pending' = [pending EXCEPT ![RunChat[r]] = <<>>]
    /\ Goto(r, "top")
    /\ UNCHANGED <<active, cancelled, quiet, result, attempt, rows, target, owner,
                   stop, shared>>

\* Mutant of FinishOrSteer: the handle is retired without a look at the queue.
FinishIgnoresSteers(r) ==
    /\ pc[r] = "finish"
    /\ active' = [active EXCEPT ![RunChat[r]] = NoRun]
    /\ Return(r, "completed")
    /\ UNCHANGED <<pending, cancelled, iteration, retries, quiet, messages, attempt,
                   steerVars, owner, stop, shared>>

\* finish_or_steer: with both locks held, continue with what is queued or
\* retire the handle.
FinishOrSteer(r) ==
    /\ pc[r] = "finish"
    /\ ApplySteers(r, RunChat[r])
    /\ pending' = [pending EXCEPT ![RunChat[r]] = <<>>]
    /\ IF pending[RunChat[r]] = <<>>
       THEN /\ active' = [active EXCEPT ![RunChat[r]] = NoRun]
            /\ Return(r, "completed")
       ELSE /\ Goto(r, "top")
            /\ UNCHANGED <<active, result>>
    /\ UNCHANGED <<cancelled, quiet, attempt, rows, target, owner, stop, shared>>

\* Mutant of Unregister: the queue stays.
UnregisterLeavesSteers(r) ==
    /\ pc[r] = "unregister"
    /\ active' = [active EXCEPT ![RunChat[r]] = NoRun]
    /\ iteration' = [iteration EXCEPT ![r] = 0]
    /\ retries' = [retries EXCEPT ![r] = 0]
    /\ quiet' = [quiet EXCEPT ![r] = TRUE]
    /\ Goto(r, "returned")
    /\ UNCHANGED <<pending, cancelled, result, messages, attempt, steerVars, owner,
                   stop, shared>>

\* The end of run_agent_turn: both entries of the chat go, whoever made them.
\* The loop's local variables are gone.
Unregister(r) ==
    /\ pc[r] = "unregister"
    /\ active' = [active EXCEPT ![RunChat[r]] = NoRun]
    /\ fate' = [s \in Steers |-> IF s \in QueuedFor(RunChat[r]) THEN "dropped" ELSE fate[s]]
    /\ pending' = [pending EXCEPT ![RunChat[r]] = <<>>]
    /\ iteration' = [iteration EXCEPT ![r] = 0]
    /\ retries' = [retries EXCEPT ![r] = 0]
    /\ quiet' = [quiet EXCEPT ![r] = TRUE]
    /\ Goto(r, "returned")
    /\ UNCHANGED <<cancelled, result, messages, attempt, target, rows, owner, stop, shared>>

(***************************************************************************)
(* native_chat_cancel                                                      *)
(***************************************************************************)

\* The composer forgets the send it waits for, if any, and asks the backend to
\* stop.  A chat opened while a run executes shows it as streaming as well.
PressStop(c) ==
    /\ owner[c] # NoRun \/ Executing(c) # {}
    /\ stop[c] = "none"
    /\ owner' = [owner EXCEPT ![c] = NoRun]
    /\ stop' = [stop EXCEPT ![c] = "token"]
    /\ UNCHANGED <<active, pending, cancelled, pc, loopVars, attempt, steerVars, shared>>

\* cancel_run, first critical section: set the token of the registered run.
StopSetsToken(c) ==
    /\ stop[c] = "token"
    /\ cancelled' = cancelled \cup ({active[c]} \ {NoRun})
    /\ stop' = [stop EXCEPT ![c] = "sweep"]
    /\ UNCHANGED <<active, pending, pc, loopVars, attempt, steerVars, owner, shared>>

\* cancel_run, second critical section: forget the queued steers of the chat.
StopSweepsSteers(c) ==
    /\ stop[c] = "sweep"
    /\ fate' = [s \in Steers |-> IF s \in QueuedFor(c) THEN "swept" ELSE fate[s]]
    /\ pending' = [pending EXCEPT ![c] = <<>>]
    /\ stop' = [stop EXCEPT ![c] = "none"]
    /\ UNCHANGED <<active, cancelled, pc, loopVars, attempt, rows, target, owner, shared>>

(***************************************************************************)
(* native_chat_steer                                                       *)
(***************************************************************************)

SetFate(s, f) == fate' = [fate EXCEPT ![s] = f]

\* is_running, without keeping the lock.
CheckRunning(s) ==
    /\ fate[s] = "new"
    /\ SetFate(s, IF active[SteerChat[s]] = NoRun THEN "refused" ELSE "checked")
    /\ UNCHANGED <<active, pending, cancelled, pc, loopVars, attempt, rows, target,
                   owner, stop, shared>>

PersistSteer(s) ==
    /\ fate[s] = "checked"
    /\ rows' = rows \cup {s}
    /\ SetFate(s, "persisted")
    /\ UNCHANGED <<active, pending, cancelled, pc, loopVars, attempt, target, owner,
                   stop, shared>>

\* Mutant of PushSteer: the check of is_running is trusted.
PushSteerUnchecked(s) ==
    /\ fate[s] = "persisted"
    /\ SetFate(s, "queued")
    /\ pending' = [pending EXCEPT ![SteerChat[s]] = Append(@, s)]
    /\ target' = [target EXCEPT ![s] = active[SteerChat[s]]]
    /\ UNCHANGED <<active, cancelled, pc, loopVars, attempt, rows, owner, stop, shared>>

\* push_steer: the registry is checked again, and the queue extended, under
\* both locks.
PushSteer(s) ==
    /\ fate[s] = "persisted"
    /\ IF active[SteerChat[s]] = NoRun
       THEN /\ SetFate(s, "rollback")
            /\ UNCHANGED <<pending, target>>
       ELSE /\ SetFate(s, "queued")
            /\ pending' = [pending EXCEPT ![SteerChat[s]] = Append(@, s)]
            /\ target' = [target EXCEPT ![s] = active[SteerChat[s]]]
    /\ UNCHANGED <<active, cancelled, pc, loopVars, attempt, rows, owner, stop, shared>>

\* Mutant of RollbackSteer: the row is left behind.
RollbackKeepsRow(s) ==
    /\ fate[s] = "rollback"
    /\ SetFate(s, "refused")
    /\ UNCHANGED <<active, pending, cancelled, pc, loopVars, attempt, rows, target,
                   owner, stop, shared>>

\* delete_steer_message after a refused push.
RollbackSteer(s) ==
    /\ fate[s] = "rollback"
    /\ rows' = rows \ {s}
    /\ SetFate(s, "refused")
    /\ UNCHANGED <<active, pending, cancelled, pc, loopVars, attempt, target, owner,
                   stop, shared>>

-----------------------------------------------------------------------------
\* The thread of run r, its call to send_message included.
RunStep(r) ==
    \/ SetupRequired(r) \/ SendReturns(r)
    \/ Register(r) \/ LoopTop(r)
    \/ \E streamed \in BOOLEAN : ProviderFails(r, streamed)
    \/ ProviderEmpty(r)
    \/ \E empty \in BOOLEAN : ProviderAnswers(r, empty)
    \/ ProviderCallsTools(r)
    \/ DrainSteers(r) \/ FinishOrSteer(r) \/ Unregister(r)
    \/ \E next \in Runs : Failover(r, next)

StopStep(c) == StopSetsToken(c) \/ StopSweepsSteers(c)

SteerStep(s) == PersistSteer(s) \/ PushSteer(s) \/ RollbackSteer(s)

Next ==
    \/ \E r \in Runs : Send(r) \/ SendDetached(r) \/ RunStep(r)
    \/ \E c \in Chats : PressStop(c) \/ StopStep(c)
    \/ \E s \in Steers : CheckRunning(s) \/ SteerStep(s)

Spec == Init /\ [][Next]_vars

\* Threads that started run on: the blocking pool executes them, a provider
\* call ends (the clients carry timeouts), a tool ends.  Nothing obliges the
\* user to send, to steer or to stop.
Fairness ==
    /\ \A r \in Runs : WF_vars(RunStep(r))
    /\ \A c \in Chats : WF_vars(StopStep(c))
    /\ \A s \in Steers : WF_vars(SteerStep(s))

FairSpec == Spec /\ Fairness
-----------------------------------------------------------------------------
\* The places from which the loop can still hear a steer or notice a stop.
Looping(r) == pc[r] \in LoopPlaces

\* The hand-off of push_steer and finish_or_steer: a steer is queued only
\* against a registered run, so none waits in a queue nobody will drain
\* (lines 48-56 and 576-584 of agent_loop_service.rs).
NoOrphanSteer == \A c \in Chats : pending[c] # <<>> => active[c] # NoRun

\* The transcript agrees with the answer of native_chat_steer: a steer that was
\* accepted has its user row, before the loop can act on it, and a refused one
\* has left neither a row nor a place in any queue or conversation, so the
\* caller's fallback send duplicates nothing.
TranscriptMatchesAnswer ==
    \A s \in Steers :
        /\ fate[s] \in {"queued", "heard", "swept", "dropped"} => s \in rows
        /\ fate[s] = "refused" =>
               /\ s \notin rows
               /\ \A c \in Chats : s \notin QueuedFor(c)
               /\ \A r \in Runs : \A i \in 1..Len(messages[r]) : messages[r][i] # s

\* A run that had the chat to itself and reports completion has heard every
\* steer accepted for it; only a stop can have taken one away.
CompletedRunHeardItsSteers ==
    \A r \in Runs, s \in Steers :
        /\ result[r] = "completed" /\ r \notin shared
        /\ target[s] = r
        => fate[s] \in {"heard", "swept"}

\* A run that has the chat to itself stays registered as long as it loops, so a
\* stop or a steer finds it.
SoleRunIsRegistered ==
    \A r \in Runs : Looping(r) /\ r \notin shared => active[RunChat[r]] = r

\* No steer enters a conversation twice, be it of one run or of two.
HeardOnce ==
    \A r1, r2 \in Runs :
        \A i \in 1..Len(messages[r1]), j \in 1..Len(messages[r2]) :
            messages[r1][i] = messages[r2][j] => r1 = r2 /\ i = j

\* Every run that starts ends: empty responses, tool batches and steers extend
\* it only within the two budgets.
EveryRunEnds == \A r \in Runs : pc[r] = "register" ~> pc[r] = "done"

\* A steer the backend looked at is settled: it does not stay in a queue.
EverySteerSettles ==
    \A s \in Steers :
        fate[s] = "checked" ~> fate[s] \in {"refused", "heard", "swept", "dropped"}

\* The loop implements the mailbox.
Outcome(f) ==
    CASE f \in {"new", "checked", "persisted"} -> "unsent"
      [] f = "queued" -> "queued"
      [] f = "heard" -> "read"
      [] f \in {"refused", "rollback"} -> "refused"
      [] f \in {"swept", "dropped"} -> "discarded"

Mailbox == INSTANCE SteerMailbox WITH
    Readers <- Runs,
    Messages <- Steers,
    open <- {c \in Chats : active[c] # NoRun},
    queue <- pending,
    outcome <- [s \in Steers |-> Outcome(fate[s])],
    inbox <- messages

ImplementsMailbox == Mailbox!Spec
=============================================================================
