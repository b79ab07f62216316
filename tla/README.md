# Basebuild: a TLA+ verification project

Basebuild is a desktop application (Tauri: a Rust backend, a React interface) in
which a user develops ideas into plans and lets language-model agents work on
them.  This directory models the part of the backend where threads meet: the
agent loop and its steering, the lifecycle of plans, runs and chats, the prompts
that park a turn until the user answers, subagents and their permits, the queue
that starts plans, the generation of OpenSpec changes for plans, and the collection
and upload of usage data.  Paths below are
those of the repository; `services/` is short for `src-tauri/src/services/`.

`PROJECT.json` lists components, runs, mutants, findings, hazards and theorems,
and maps every definition that models code to the lines it stands for.

## 1. Inventory

Processes and threads.  There is one process.  Synchronous Tauri commands
execute on the main thread, one at a time.  Asynchronous commands move to the
blocking pool, where `send_message` holds a thread for a whole turn;
`kickoff_assigned_run`, subagents, queue dispatchers and read-only tool calls
spawn threads of their own.  They share one SQLite database (each call opens a
connection) and a handful of process-wide maps behind mutexes.  The interface
calls commands, listens to events and polls lists.

| Component | State | Operations | Meets | Hard | Correct when |
|---|---|---|---|---|---|
| Agent loop (`agent_loop_service.rs`) | `ACTIVE_RUNS`, a `CancellationToken` per run, iteration and retry budgets | `run_agent_turn`, `run_loop_inner`, `cancel_run`, `is_running` | `send_message` retries it on the next account; `stop_chat` cancels it | two runs of a chat, a stop at any point, failover | every run ends; a run alone in its chat can be found |
| Steering (`push_steer`, `drain_steers`, `finish_or_steer`; `NativeChatService::steer`) | `PENDING_STEERS`, user rows | accept, persist, roll back, drain, sweep | composer, loop, stop | the hand-off as a run decides to finish | nothing accepted is orphaned, repeated or contradicted by the transcript |
| Plan lifecycle (`plan_lifecycle_service.rs`, `plan_runner_service.rs`) | `plans.status`, `plan_runs.status`, `native_chat_sessions.run_state` | assign, kickoff, settle, complete, stop, edit, reconcile, sweep | every turn, every list, the restart | stale reads across git and worktree calls, crash between transactions | a running plan has a run, a finished one was earned, nothing claims to run after a restart |
| Prompts (`execute_with_gateway`, `await_approval`, `execute_ask_user`, `interaction_service.rs`) | `PENDING_APPROVALS`, `PENDING_INTERACTIONS`, `pending_interactions` | park, answer, cancel, time out, stop | batch threads, main thread, lifecycle | row and sender written at different moments | no call runs without consent; a question is settled once; a parked call comes back |
| Subagents (`subagent_service.rs`) | live children, a gate per turn, semaphores per provider | `execute_task`, `run_child`, `acquire_run_permits`, `wake_children` | `cancel_run`, registry, plan runs, a changing limit | nested permits, a wake before its wait, registering under a cancelled parent | a stop reaches every child; no permit is lost; a queued child ends |
| Plan queue (`plan_runner_service.rs`) | dispatch generations, `QUEUE_STATE`, `RUNNING_RUNS`, pending rows | `enqueue`, `start_queue`, `pause_queue`, `dispatch_loop`, `execute_run` | lifecycle, concurrency limits, pipeline stages | two dispatchers, an entry picked long before it is started, counts that include what they wait for | the cap of the gate holds; a plan starts after its prerequisites; an old dispatcher ends |
| Plan dependencies (`plan_dependency_service.rs`) | dependency edges | add, remove, dispatchable nodes | queue | a check and its insert are two steps | the graph has no cycle; only ready plans are dispatched |
| Provider accounts | accounts with health and cooldown | select, report | `send_message` | health reported late by parallel turns | a candidate list without a cooling account, in order |
| OpenSpec generation (`pipeline_service.rs`, `openspec_service.rs`, `commands/plans.rs`) | `RUNNING_STAGES`, `pipeline_runs.status`, `plans.change_name` and assessment, the directories under `openspec/changes` | `set_plan_status`, `start_stage`, `write_artifacts_atomic`, `validate_artifacts`, `link_plan_to_change`, `cancel_run` | the cap of all runs, the plan's other status changes, the file system | a name chosen minutes before it is used, one temporary directory for all stages of a name, a cancel as a stage ends | a plan is linked to a whole change of its own; nothing partial is left; a heard cancel is what the row says |
| Usage telemetry (`usage_v2_collector_service.rs`, `usage_source_service.rs`, `harness_usage_service.rs`, `sync_service.rs`) | cursors, banked cursor values, spool, quarantine, coverage state | collect, spool, trim, post, settle, upload at exit | network, restart, the loop of the background sync | lost answers, two uploads at a time, a full spool, a pass that breaks off | no cursor steps over a row the server has not got; what left its source is kept somewhere |
| Ideas | rounds, `ideas` rows | start, capture, end, sweep | agent loop | a late capture after its round | a capture belongs to a live round |
| Updater | downloaded package, skipped version | check, download, verify, install | restart | restart between two steps | only a verified package is installed |
| Workspace panels (`src/lib/panelGrid.ts`) | a grid of panels | split, move, close | interface only | sequences of legal edits | the layout stays well formed |

The other parts (provider protocols, tool effects, parsing of Markdown, git and
worktrees, connectors, storage and migrations, voice, terminals, notifications)
are listed in `PROJECT.json` with the reason why they are not modelled: they are
I/O, formats, or tables with a single writer.  The models take their outcomes as
inputs.

## 2. Modules

| Module | What it is |
|---|---|
| `SteerMailbox` | abstract specification: a mailbox per chat that is open or closed |
| `AgentLoop` | the loop, its steers, its stops and its failovers; implements `SteerMailbox` |
| `PlanLifecycle` | plans, runs and chats in the database and the threads that write them |
| `PromptDesk` | abstract specification: what a parked call is told, and from what |
| `Prompts` | approvals and questions, the commands that end them, stop and restart; implements `PromptDesk` |
| `Subagents` | children of a turn, their permits, their cancellation |
| `PlanQueue` | queue entries, dispatchers, the threads that start runs, the capacity gate |
| `ChangeStore` | abstract specification: changes that are published whole and once, each claimed by one plan |
| `SpecGeneration` | stages that turn plans into change directories, and their cancels; implements `ChangeStore` |
| `UsageSync` | collection passes, the spool, uploads and cursors |
| `MC*` | instances for TLC |
| `*Proofs` | theorems |

### SteerMailbox and AgentLoop

A *run* is one call of `run_agent_turn`, so a message that is tried on two
accounts is two runs.  `active[c]` is the entry of `ACTIVE_RUNS`, `pending[c]`
the queue of `PENDING_STEERS`, `cancelled` the runs whose token is set, `rows`
the user rows of steers.  An action is what a thread does between two points
where another can run: a critical section (`Register`, `DrainSteers`,
`FinishOrSteer`, `PushSteer`, `StopSetsToken`, `StopSweepsSteers`, `Unregister`),
a provider call (`ProviderFails/Empty/Answers/CallsTools`), a write
(`PersistSteer`, `RollbackSteer`).  `FinishOrSteer` takes both locks, as the code
does; `cancel_run` and the end of `run_agent_turn` take them one after the other,
so they are two actions or one as the code has it.  What the model says is left
open (text, tools, nothing, failure).  The refinement mapping reads the mailbox
as open for the chats with a registered run.

### PlanLifecycle

The rows are `planStatus`, `runStatus`, `chatState`; `done` stands for a task
list that is completely ticked.  A transition of `PlanLifecycleService` is one
transaction and one action.  `chat_terminal` and `complete_run` are several:
`TurnEnds` reads the active run of the chat into `grip[a]`, and `MarkChat`,
`SettleRun` or `StartCompletion`, `FinishRun` and `ApplyFinishPolicy` write what
was read, whatever happened in between.  The turns and the main thread go through
the same actions (`TerminalStep`).  `Reconcile` is what every list of plans or
runs does first.  `Crash`, `Sweep` and `RestartReconciles` are the death of the
process and the two transactions of `sweep_interrupted_runs`; a further crash may
come between them.  Left out: runs delegated to an external agent, the deletion
of a chat, errors of the database.

### PromptDesk and Prompts

One entry per parked call.  `approvals[k]` is the map of approvals by the id the
provider gave the call, `registered` the map of questions by their row, `reply`
what was sent through a taken sender.  A call announces itself, parks, registers,
waits, and then is answered or gives up; giving up and cleaning up are two steps,
as in the code.  Commands are sequences of steps of the main thread: an answer
writes the row and then sends (`AnswerQuestion`, `ResolveInteraction`), a stop
sets the token, clears *all* approvals, lists the chat's questions, wakes and
settles them one at a time, and has the last word on the chat (`StopChat` to
`StopEnds`).  `Before` is the order of a batch: questions first and alone,
read-only calls side by side, the others in sequence.  Only calls for which the
gateway wants a prompt are modelled; an "allow for this session" is therefore an
`allow`.  A stop is offered while the chat shows as live.

`PromptDesk` has none of that: a call is told once how its prompt ended, keeps to it and
returns; that it may run it is told only when the user has allowed a card of its id, that
it was answered only when the record says so, and a record is settled once, at a timeout
by the same step.  The mapping reads a call as told when its wait has ended, and as lost
when the process has died under it.

### Subagents

A *turn* is a run of the loop with the chat's tools, a *child* an entry of its
task call.  The thread of a child goes from `CheckAtGate` and `GrantGate` (a
permit of the turn's own gate) to `FetchSemaphore`, `CheckAtProvider` and
`GrantProvider` (a permit of the provider's semaphore, which the plan runs of
`Kickoffs` use too), then to `StartChild`, which registers it only if
`subagent_admitted` says so, and back through `ReturnPermits`.  At both semaphores
the code selects between the permit and a `Notify` of the child; a notification
that comes before the wait is kept (`wake`), and `WakeChild` is its arrival.
`ChangeLimit` puts a new semaphore into `PROVIDER_SEMAPHORES` while permits of the
old one are out, hence `semOf`, the semaphore a child has fetched.  `cancel_run`
is `BeginStop` to `ClearApprovals`: it sets the token of the chat's run, lists the
live children under the lock, cancels one after the other, and wakes.  A creation
that fails after its row was inserted leaves the row `queued` (`halfMade`), as the
code does; `OpenRowHasChild` says that these are the only such rows.

A turn makes one task call; a second one starts when all children of the first
have returned.  Left out: what the children hand back, output limits, errors of
the database other than a failing creation.

### PlanQueue

`dispatcher[g]` is the thread of one `start_queue`; `g` is its generation, and
`current[s]` the generation `QUEUE_STATE` holds for a session.  Its loop is
`Look` (superseded, paused?), `DispatcherReconciles`, `Pick`, `CheckCapacity`,
`TakeSessionPermit` and `SpawnRun`, which waits for the provider's permit, looks at
the generation no more and hands the entry to a thread.  The thread is
`execute_run`: `LookUpRow` or `InsertQueuedRow`, `AskGate`
(`plan_run_can_start`), `TakeToken` (`RUNNING_RUNS`), `ChatFails` or `Kickoff`,
`RemoveToken`, `Return`.  The same rows are written by the user (`InsertAssigned`,
`StartAssigned`, `CancelRun`, `Reopen`), by the reconciliation of every list, and
counted together with the stages of pipelines.  `Restart` is the death of the
process and the whole next start: `sweep_interrupted_runs` alone, because the
cleanup in `initialize` runs on schema upgrades only.

What happens to a run once it runs is `PlanLifecycle`'s subject; here a turn begins
and ends in one step each.  Statuses the queue does not tell apart are one value:
`failed`, `cancelled` and `awaiting_review` are `released`, and `draft`, `openspec`
and `ready` are `ready`.  `sort_order` and `reorder` are left out: any dispatchable
entry may be the first.  `created_at` has seconds, so any pending row of a plan may be
its newest.  The queries of a pick are one step.  The comment of the query
(`plan_runner_service.rs:958`) says that entries with a failed run are skipped; the
query excludes running and succeeded ones only, and the model follows the query.
Left out: delegated runs, deletion of a plan while it starts, a limit that changes
(which `Subagents` has).

### ChangeStore and SpecGeneration

A *request* is a call of `set_plan_status(plan, "openspec")` and the stage it spawns;
`pc` goes through the command (`Ask`, `SetOpenspec`, at the end `Report` and `Revert`),
the frame of `start_stage` (`Refuse` to `Settle`) and the stage (`Prepare` to
`LinkPlan`), one action for each write of a row, of `RUNNING_STAGES`, or of a file.
`Prepare` picks the first candidate without a directory and `Draft` stands for the
calls of the model after it, which take minutes; the files come after that: `Clear` the temporary
directory (`openspec/changes/.<name>.tmp`, of every stage with that name), `Create`,
`WriteFile` five times, `Rename`.  `change` and `temp` hold which artifacts a directory
has, `Required` and `Evidence` what `validate_artifacts` and the fingerprint look for.
`StageFails` is every `?` of the stage, a token that is set among them; a model's answer may be
a good one or not, so that `ValidationFails` is always possible.  `CancelFinds` sets a
token under the lock of the map, `CancelMisses` and `CancelMarks` are the write without
the lock.  `ReplacesEmpty` tells POSIX, where a rename replaces an empty directory, from
Windows, where it does not.  `crowded` is history: the names that two stages had at one time.

`ChangeStore` knows the changes that are there and who claims them: a change is published
in one step with every artifact, is never touched again, and is assessed or linked only when
its evidence is there and no other plan claims it.  The exceptions are those of the code: a
crowded name may be published with less, and where rename replaces an empty directory, again.
Temporary directories, threads, cancels and rows do not appear in it.

Left out: archiving, links and unlinks by hand, the chat of a generation, and stages
of other kinds, which `Refuse` counts.  The removal of a directory is one step, and so is
`read_dir` with the reads after it.

### UsageSync

A row of a source is a number, `stamp[s][n]` what the source's cursor compares: a
rowid for OMP, a second for the others.  A pass is `BeginPass`, `CollectNative`,
`DrainOmp` and `OmpDrained` or `OmpFails`, `CollectHarness`, `Beat` (the coverage
rows and the state of the heartbeat), `Persist` batch by batch, `TrimSpool` and
`MarkGap`; there is one at a time (`COLLECTING`).  An upload reads the spool
(`ReadPending`), posts it, and deals with each batch by its receipt: `Discard` and
then `TakeBanked` and `SetCursor`, or `Quarantine` and `Unspool`.  There are two
uploads, `sync`, which is single-flight, and `exit`, which does not look at the
other.  `bank` is the cursor value kept under the idempotency key of a batch; the
key is a digest of the batch's rows, so the batch stands for it, and
`WithCoverage`, which adds rows to the native batch, changes the key under which
the value was banked.  OMP's cursor moves when a batch is collected.

The server is external: it stores a batch (an `accepted` or a `duplicate`), refuses
it, or postpones the envelope, and its answer may be lost after it has stored.
A death (`Die`, `EndExit`) leaves the stores and nothing else.  Rows appear in their
log when a pass reads it.  The spool is kept in the order of insertion (ties of
`created_at` are left out), and `stop_and_spool` is one step.  Left out: envelope
version 1, raw rows, messages, quota samples, consent, the retention horizon and
the rows it clamps, backoff, and the limits of an envelope (5 batches, 1000 rows).

### How they meet

The models overlap in one place each and nowhere else.  A batch of tools is one step
of `AgentLoop`; its prompts are `Prompts`, its task call is `Subagents`.  A wait for
an answer is `AskUser`/`Answered` in `PlanLifecycle`.  The kickoff of a run is one
step of `PlanQueue` and a sequence of `PlanLifecycle`.  `Subagents` and `PlanQueue`
share the semaphores: in the first a plan run is somebody who holds a permit until
its kickoff returns, in the second the limit is fixed.  A pipeline stage is a number in
`PlanQueue`'s gate and a thread in `SpecGeneration`, whose `MovePlan` is every
way in which the other models move a plan.

## 3. Runs

| Run | Instance | Question |
|---|---|---|
| `loop` | one chat, two runs, one steer, 1 iteration, 1 retry, 2 accounts, under fairness; 0.3 million states | do steer, stop, failover and a second run keep the mailbox's promise, does every run end and every steer settle? |
| `lifecycle_safety` | two plans, one of them with a task list, a run of each, in one chat, 2 accounts; 2.6 million states | do stale writers leave the rows coherent, does a turn credit only its own plan, has the chat one active run? |
| `lifecycle_restart` | one run, one more turn, edits by hand, one crash, under fairness; 0.75 million states | has a live chat a turn, does a restart find the truth, does a stale claim end? |
| `prompts` | a question then an approval in one chat, an approval in another, one crash, under fairness; 0.2 million states | consent, agreement of row and sender, is a call told once and only what the user did, does every parked call return? |
| `subagents` | one turn with two children, a gate of 1, a provider's limit that goes between 1 and 2, one plan run, one crash | does a stop reach every child, is every permit returned to where it came from? |
| `subagents_liveness` | two chats with a child each, one permit; only one chat is ever stopped | does a stopped turn end though the other child keeps the permit, does no child starve? |
| `plan_queue` | one session, a plan that needs the other, two generations, two threads, two rows, 4 commands, one restart | the cap, prerequisites at the moment of the start, late starts |
| `plan_queue_liveness` | one plan, one pipeline stage, two generations, 3 commands, under fairness | does a superseded dispatcher retire? |
| `plan_queue_standstill_doc` | two sessions with a plan each, a cap of 1, under fairness | two queued runs turn each other away for ever |
| `plan_queue_restart_doc` | one plan, one stage, one restart | rows stay active over a restart |
| `spec_generation` | two plans with one title, a request each, two names, one death, `ReplacesEmpty` off; 3.4 million states | whole changes, one plan per change, no partial directory, cancels, is a change published once and claimed once? |
| `usage_sync` | a harness with two rows of one second and a later one, or the native ledger, or OMP with one or two rows; a spool of one batch, one death; 4.5 million states | do cursors wait for the server, is what OMP's cursor passed kept? |

Every property of a passing run has a mutant in `PROJECT.json`: a plausible bug
in one definition that makes TLC find the property violated.

**Bounds and why they are enough.**  Two runs of one chat are the smallest
instance with a registry conflict, and in these modules no chat depends on
another (except through `cancel_pending_approvals`, which is why `prompts` has
two chats, and through the provider's permits, which is why `subagents_liveness`
has).  `loop` asks for liveness and refinement together, and has one steer and one iteration
for it: the steer restores the budgets, so that a run goes around once more, hits the
cap and fails over with the steer queued, heard or swept; that several steers and longer loops
change nothing of the safety properties is what the theorems of section 5 say, for any
number of them.  Two accounts let a run fail over once, and a third would repeat the
second.  A run is assigned once; runs of two plans in
one chat are the way in which stale writes can meet.  One crash may come at any
step, including during a restart, whose steps are separate.  Two generations of one title
are what makes a name crowded; the second name is the one that the later of two stages
in sequence gets.  A question and an
approval of one chat cover the order of a batch; the approval of the second chat
covers the shared map.  `MaxIterations`, `MaxEmptyRetries`, `MaxAttempts`,
`PlanningMax`, `GlobalMax`, `SessionMax`, `ProviderMax`, `GateMax`, `Page`, `Candidates`,
`BatchRows`, `SpoolCap` and `Intervals` are the code's own limits with smaller
values.  What the code does not bound:

* `MaxCrashes`, `MaxDeaths`: deaths of the process.
* `MaxSemaphores` (`Subagents`): two are one replacement while permits are out; with a
  third, a child still knows one semaphore only.  `StoppedChats` are the chats that
  the user may stop.
* `MaxCommands` (`PlanQueue`): enqueue both plans, start, and one command against it
  (start again, pause, stop, assign, remove) are four.
* `Threads` (`PlanQueue`): as many as the provider has permits, so it cuts nothing off.
* `MaxBeats`, `MaxTrouble` (`UsageSync`): passes, and lost or postponed envelopes and
  failing passes.  One source at a time has rows: sources share the spool and the
  pass, and coverage rows ride with every native batch.

In the instance of `subagents` the chat has one turn: with two, the second overwrites
the entry that `subagent_admitted` consults, which is the registry conflict of
`AgentLoop` and the hypothesis of a theorem (section 5).  `plan_queue` uses symmetry (of threads, rows and the generations of its session) and checks
no liveness.  The type invariants of `AgentLoop`, `PlanLifecycle`, `Prompts` and
`SpecGeneration` are proved and not run.

Deadlock is checked in `PlanLifecycle`, where somebody always polls a list, and in
`UsageSync`, where the next periodic sync is always to come.  It is not in the others: when every thread has
returned and the user does nothing more, or has used up the commands, the system
rests.

**Fairness.**  Weak fairness of each thread's own steps: threads are scheduled
by the operating system, no lock is held across a wait, provider calls return or
fail, `recv_timeout` returns after ten minutes.  In the lifecycle also of the main
thread once a command has begun, of `Reconcile`, because the interface polls the
lists that reconcile, and of the restart.  Strong fairness for taking a permit
(`GrantGate`, `GrantProvider`, `GrantKickoff`, `SpawnRun`): tokio's semaphores serve
waiters in their order.  Nothing is assumed of the user, the model or the process: no
fairness for answers, stops, sends, ticked tasks or crashes, and none that makes a
child's loop end unless it is cancelled; `EveryChildSettles` has that as its premise,
which is `EveryRunEnds` of `AgentLoop`.  `SpecGeneration` has no liveness: a stage may die
with the process, and then its plan says `openspec` for good.  `UsageSync` has none either: nothing obliges
the server to answer, and section 4 says how rows stay behind without end.

## 4. What the code does otherwise than it says

Two `violation` runs; `findings` quotes both sides.

* `QueuedRunStarts`: `plan_run_can_start` counts every other pending run as active, so
  that with as many queued runs as `planning_max` none starts, although nothing runs.
* `RestartLeavesNothingActive`: the cleanup of pending runs and pipeline stages is
  part of a schema upgrade, not of a start.

Met while modelling, in the models as the code has it, and without a run of their own:

* `Register` overwrites the entry of a run that still loops, and the first to end
  removes the entry of the other (`SoleRunIsRegistered` is stated for a run alone).
* A run that fails or hits its cap drops what it accepted since its last drain.
* Between the insert of a run and `kickoff_started` a turn of the same chat that ends late
  finds the pending run and settles it; `KickoffStarted` then sets it running again, so that a
  run which had ended comes back.
* Cancelling a plan run sets a token that nothing reads; the turn goes on.
* A question is shown before it has a sender; an answer in between reaches nobody
  (`docs/agents/agent-runtime.md:763`).  `InteractionService::sweep_orphans`, which would
  settle questions of dead turns, has no caller.
* `cancel_pending_approvals` ignores its argument: a stop denies every chat's approvals.
* A thread that comes late to its entry may start a run of a plan that already has one
  (`execute_run` looks for pending rows only), and a failing `get_run` after a kickoff
  returns without removing its token from `RUNNING_RUNS`.
* A plan run gives its provider's permit back when its kickoff returns, not when its turn
  ends, although the docs count plan runs and children together.
* A plan says `openspec` from the click on, before anything is generated
  (`commands/plans.rs:158`); `docs/agents/openspec.md:22` and
  `docs/agents/agent-runtime.md:1020` have the status follow a successful generation.  A
  death in between leaves it so, and `KeepOpenspec` then starts nothing.
* When a generation fails, the plan becomes a draft whatever it has become meanwhile
  (`Revert`), a running one too.
* `PipelineService::cancel_run` writes `cancelled` over a row that has settled; the comment
  at `pipeline_service.rs:263` says only over one that has not.  Between the insert and
  `Register` the cancel is itself overwritten, and the stage runs on.
* A cancel after the last call of the model leaves the plan linked and assessed, its run
  `cancelled` and its status `draft`.  The provider's request is not aborted, as
  `pipeline_service.rs:42` says, but waited for.
* Uniqueness of a change name is not "already ensured" at the rename
  (`openspec_service.rs:140`): a second stage of the title fails there, after all its calls of
  the model.  With a directory shared so, the change that gets published may be partial, against
  `openspec_service.rs:79`; it is then left on disk and no plan is linked to it
  (`LinkedChangeIsWhole`, and the exception in `NoPartialChange`).  Where rename replaces
  an empty directory, two plans can in principle end with one change (`ChangeHasOnePlan`).
* Usage rows of one second: the harness and the native queries take what is *later* than
  the cursor, so that when a batch ends inside a second the rest of it is never
  collected; the comment at `harness_usage_service.rs:442` says the next pass picks it up.
  `CursorWaitsForAcceptance` makes an exception of them.
* `append_native_rows` adds coverage rows to the native batch after its cursor was banked
  under its old key: on acceptance nothing is found, and the native cursor hardly moves.
* OMP's cursor is committed before its batch is spooled, although the comment at
  `usage_source_service.rs:251` relies on the spool; a pass that dies or fails in
  between loses the rows (`lost`).
* A batch with the full 498 rows and three coverage rows exceeds the 500 that the
  uploader accepts, and is discarded locally.
* A refused harness batch is quarantined, its cursor stays, and the next pass collects the
  same rows under the same key, against `usage_v2_collector_service.rs:219`.
* `MarkGap` overwrites a gap that an earlier pass has left, and a death between the trim
  and the mark forgets it.
* The upload of the exit does not look at one in flight, though the docs say "at most one".
* After a crash the time in which the program was down is reported as covered.

## 5. Proofs

TLAPS checks the theorems for every value of the constants: any number of chats,
plans, runs, steers, calls, children, threads, batches and crashes.  They assume the
modules' `ASSUME`s only (sets of names are disjoint, bindings are functions, bounds
are numbers, a page fits a batch), and three theorems state a further hypothesis of
their own.

* `AgentLoopProofs`: `TypeCorrect`; `NoSteerIsOrphaned` (nothing is queued for a
  chat without a registered run); `TranscriptAgrees` (needs an invariant about
  where a steer is: a refused steer is in no queue and no conversation, and a
  queued one was persisted); `SoleRunIsFound`, with an invariant that every two
  runs which loop in one chat have met (`RunInv`); `CompletedRunHeard`, with where
  the steers of a run that met nobody are (`SteerInv`: queued, heard or swept, and
  not queued once it completed); `SteersAreHeardOnce`, which also needs that a queue
  holds nothing twice (`OnceInv`); `LoopImplementsMailbox` (initial states map to
  initial states; every step maps to a mailbox step or a stutter, one lemma per
  group of actions).
* `PlanLifecycleProofs`: `TypeCorrect`, `RunningPlansHaveRuns`,
  `FinishedPlansAreEarned`, `ChatsHaveOneActiveRun`, `LiveStatesHaveOwners`,
  `RestartsLeaveNothingRunning`.  None of them is inductive alone, because a
  thread writes a run it read long before.  `Inv` adds what a thread at each place
  knows (`PlaceInv`) and what it knows of the row it holds (`HeldInv`, among them
  that no other run of the chat is active while the main thread assigns one).
  `StepShapes` reduces all actions to the few ways in which they write rows, and
  each property is proved once per way.
* `PromptsProofs`: `TypeCorrect`, `QuestionsHaveWaiters`, `AnswersAreOnRecord`,
  `SettledRowsStay`, `CallsRunWithConsent`, `QuestionsBlockVisibly`.  The
  invariant says what the command under way has established (`CommandInv`), how a
  row and its sender agree (`RowInv`), and that a batch keeps its order
  (`OrderInv`).  `CallsRunWithConsent` needs `OwnKeys`: every call has an id of its
  own.  The code uses the provider's id as it comes and comments elsewhere
  (`native_chat_service.rs`, `subagent_service.rs`) that such ids repeat across
  conversations; where they do, the theorem says nothing, and the map may hand an
  answer to the wrong call.  `PromptsImplementDesk` needs no hypothesis: the desk asks for
  a card of the same id, which `CardInv` carries from the map to the reply, and its
  invariant also says that a reply is of the kind of its call (`ReplyInv`) and that a
  question under way was shown (`AskedInv`).  `QuestionsBlockVisibly` needs `QuestionsAlone`, which
  is how `process_tool_calls` orders a batch.
* `SubagentsProofs`: `TypeCorrect`, `PermitsAreKept`, `OpenRowsHaveChildren`,
  `StopsReachChildren`.  `PermitsAddUp` counts the holders of a semaphore, so the proof
  says for each place a child may go to how the set of holders changes
  (`GateHoldersMove` and its like), and needs that a child beyond its first semaphore
  has fetched one that exists (`FetchedInv`), that only a turn that joins has children
  whose threads run (`CallInv`), and that the registries of children agree with where
  their threads are (`LifeInv`).  `StopsReachChildren` carries with the
  stop what it has already gone over (`StopInv`) and holds under `OneTurnPerChat`:
  where two turns of a chat overlap, the registry has the second one only, and a
  child of the first is admitted after the first was cancelled.
* `PlanQueueProofs`: `TypeCorrect`, `PlanningCapIsKept`, `StartsHavePrerequisites`,
  `LateStartsAreBounded`.  The cap holds although the count and the start are two
  steps and no lock spans them, because a thread's row is inserted before it counts:
  `CapInv` counts, with the running rows, those whose threads are past the gate;
  `HoldInv` says what a thread knows of its row, `NeedInv` that whatever was picked had
  its prerequisites, `RowInv` which rows exist, `LateInv` that a dispatcher that looks
  again after a late start retires or sleeps.
* `SpecGenerationProofs`: `TypeCorrect`, `LinkedChangesAreWhole`, `ChangesAreComplete`,
  `ChangesHaveOnePlan`, `HeardCancelsAreHonoured`, for both kinds of rename.  The first
  rests on a directory that is never touched again once it holds anything: what a stage
  has validated and read stays (`SeenInv`), and what is not there has no files
  (`GoneInv`).  The second follows a stage that is alone with its name: the temporary
  directory has what it has written so far (`WrittenInv`), and two stages with one name have
  crowded it (`AloneInv`).  The third needs the second: what a lone stage leaves is not
  empty, so that no rename replaces it, and of two stages with one name only one gets past its
  rename (`PastAlone`, `PastUnlinked`).  The fourth says how long a token can be found
  (`ListedInv`) and since when one can be set (`TokenInv`).  `GenerationImplementsStore` takes
  all of them but the last, and one more: that a plan which was assessed from a change
  shares it with no stage but its own (`UnassessedInv`).
* `UsageSyncProofs`: `TypeCorrect`, `CursorIsSafe`, `CollectedRowsAreKept`, without
  hypotheses.  That whatever is spooled, held, banked or posted is a batch the log can
  give (`TypeInv`) rests on facts about the spool as a sequence: `Kept` leaves out a set of
  batches, and that it keeps the others (`KeptElements`) is a counting argument about
  indices.  For `CursorIsSafe` the invariant follows the value that a cursor
  will take: what is banked for a batch is a promise that everything up to it, rows
  of one second apart, is in the batch or at the server (`BankInv`); an upload keeps the
  promise from the envelope (`PostedInv`) over the taking (`HandInv`) to the cursor
  (`CursorInv`), and a batch that never reaches the server is not one whose value is
  taken, because `PageAssumption` makes a batch without coverage rows valid.
  `PageOfRows`, that the rows of a page are the first unread ones, needs a greatest
  element of a finite set and takes it from the library's well-founded orderings.
  `CollectedRowsAreKept` is about OMP, whose cursor moves on collection: its batches are
  valid, so that none is discarded as too large (`OmpValidInv`), an upload never sets its
  cursor and has quarantined what a refusal makes it take out of the spool (`OmpHandInv`),
  nothing is ever banked ahead of its cursor, so that no acceptance moves it (`OmpBankInv`),
  and a failing pass marks as lost what it holds; `KeptInv` then goes from place to place with the row.

Model-checked only: the liveness properties (`EveryRunEnds`, `EverySteerSettles`,
`StaleClaimEnds`, `EveryPromptEnds`, `StopEndsTheTurn`, `EveryChildSettles`,
`OldDispatcherRetires`), because fairness and `ENABLED` are beyond the prover.
Every other property of a passing run is a theorem.

## 6. Not modelled, and what could come next

Not planned: everything the inventory calls I/O, formats or single-writer tables:
most of the backend's lines are there.  Errors of the database are outside the models,
except where one leaves a row behind (`halfMade`): the code mostly ignores the result of
a write, and what a half-written transition leaves behind is what the crash models
explore.  Each module's section names the operations it leaves out.

Next, in this order:

1. `PlanDependency`: the cycle check as an operator against a reference definition,
   with the insert that follows it as a second step; then edges that change under
   `PlanQueue`, whose `Needs` is a constant.
2. `ProviderAccounts`: health and cooldowns reported late by parallel turns, over the
   failover of `AgentLoop`.
3. The provider's limit in `PlanQueue`, that is, its composition with the semaphores of
   `Subagents`.
4. Liveness of a generation, with the stages a restart leaves `pending`, and the archiving
   of changes beside it.
5. `Updater`, `PanelGrid`, ideas: smaller modules, as far as they have state that
   several actors change.

Hazards of this code that no module reaches yet: a turn that has already heard a steer
is retried on the next account as if it had failed before any output
(`native_chat_service.rs:3392`); an error of the database between `chat_running` and
`chat_terminal` leaves a chat that says running (`native_chat_service.rs:1818`); a timed
out approval removes the entry under its key whoever's it is
(`agent_loop_service.rs:230`).
