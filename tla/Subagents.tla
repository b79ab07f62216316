------------------------------ MODULE Subagents ------------------------------
(***************************************************************************)
(* The task tool (subagent_service.rs): a parent turn creates one child    *)
(* per entry, runs each on a thread of its own and waits for all of them.  *)
(* A child first takes a permit of its parent's gate, then one of the      *)
(* provider's semaphore (plan_runner_service.rs), and then registers and   *)
(* runs the agent loop (agent_loop_service.rs).  cancel_run races with all *)
(* of it, and so do the dispatcher's kickoffs, which use the same          *)
(* semaphores, and a change of the concurrency limit, which replaces them. *)
(*                                                                         *)
(* A turn is one call of run_agent_turn with ToolScope::Chat; its identity *)
(* is that of its CancellationToken.  All sessions here are of one project *)
(* and one provider.  A turn makes at most one task call: a second call of *)
(* the same turn starts when every child of the first has returned.        *)
(***************************************************************************)
EXTENDS Integers, FiniteSets

CONSTANTS Chats,        \* parent chat sessions
          Turns,        \* runs of the agent loop for them
          Children,     \* entries of the turns' task calls, one session each
          Kickoffs,     \* runs of execute_run for this provider
          TurnChat,     \* TurnChat[t]: the chat of turn t
          ChildTurn,    \* ChildTurn[k]: the turn whose task call has entry k
          GateMax,      \* subagent_max_count
          Limits,       \* the values max_concurrency is set to
          MaxSemaphores,\* bound on the semaphores ever built
          StoppedChats, \* bound on the chats that are ever stopped
          NoTurn, NoChild

ASSUME NoneAssumption == NoTurn \notin Turns /\ NoChild \notin Children
ASSUME KindAssumption == Children \cap Kickoffs = {} /\ Children \cap Turns = {}
ASSUME FamilyAssumption == TurnChat \in [Turns -> Chats] /\ ChildTurn \in [Children -> Turns]
ASSUME CapAssumption ==
    /\ GateMax \in Nat \ {0}
    /\ Limits \subseteq Nat \ {0}
    /\ MaxSemaphores \in Nat \ {0}
ASSUME FiniteAssumption == IsFiniteSet(Children) /\ IsFiniteSet(Kickoffs)

VARIABLES
    \* Registries and tokens.
    active,     \* ACTIVE_RUNS, chats: active[c], the turn registered for chat c
    running,    \* ACTIVE_RUNS, children: those registered
    live,       \* CHILDREN
    cancelled,  \* turns and children whose CancellationToken is set
    approvals,  \* children with an entry in PENDING_APPROVALS
    wake,       \* children whose Notify holds a notification
    \* Semaphores.
    gateFree,   \* gateFree[t]: free permits of the gate of turn t
    limit,      \* the configured max_concurrency
    semaphores, \* semaphores[g]: limit and free permits of the g-th semaphore
    current,    \* the semaphore in PROVIDER_SEMAPHORES, 0 before the first use
    semOf,      \* the semaphore a child or a kickoff has fetched
    \* Threads.
    turn,       \* where a turn is
    child,      \* where the thread of a child is
    kickoff,    \* where the dispatcher is with a run
    stop,       \* the progress of cancel_run for a chat
    process,    \* "up", "down" after a crash, "swept" after the next start
    \* Database.
    row,        \* subagent_status of a child's session row
    halfMade    \* children whose creation failed after their row was inserted

registries == <<active, running, live, cancelled, approvals, wake>>
permits    == <<gateFree, limit, semaphores, current, semOf>>
database   == <<row, halfMade>>
vars == <<registries, permits, database, turn, child, kickoff, stop, process>>

\* Places of a child's thread.  From "provider" on it holds the permit of the
\* gate, from "granted" on also that of the provider.
Waiting == {"gate", "gateWait", "provider", "providerWait"}
Looping == {"loop", "tool", "asking"}
HoldsProvider == {"granted", "refused"} \cup Looping \cup {"finish", "return"}
HoldsGate == {"provider", "providerWait"} \cup HoldsProvider
ChildPlaces == {"none", "created"} \cup Waiting \cup HoldsProvider
                 \cup {"withdraw", "noRuntime", "panicked", "ended"}

Unfinished == {"queued", "running", "awaiting_approval"}
Outcomes == {"completed", "failed", "cancelled"}

ChildrenOf(t) == {k \in Children : ChildTurn[k] = t}
ChatOf(k) == TurnChat[ChildTurn[k]]
ParentCancelled(k) == ChildTurn[k] \in cancelled

NotStopping == [at |-> "none", victims |-> {}, victim |-> NoChild]

TypeOK ==
    /\ active \in [Chats -> Turns \cup {NoTurn}]
    /\ running \in SUBSET Children
    /\ live \in SUBSET Children
    /\ cancelled \in SUBSET (Turns \cup Children)
    /\ approvals \in SUBSET Children
    /\ wake \in SUBSET Children
    /\ gateFree \in [Turns -> 0..GateMax]
    /\ limit \in Limits
    /\ current \in 0..MaxSemaphores
    /\ semaphores \in [1..MaxSemaphores -> [limit : Nat, free : Nat]]
    /\ semOf \in [Children \cup Kickoffs -> 0..MaxSemaphores]
    /\ turn \in [Turns -> {"idle", "loop", "creating", "joining", "unregister", "done"}]
    /\ child \in [Children -> ChildPlaces]
    /\ kickoff \in [Kickoffs -> {"idle", "wait", "starting", "running"}]
    /\ stop \in [Chats -> [at : {"none", "approvals", "list", "children", "sweep", "clear"},
                           victims : SUBSET Children,
                           victim : Children \cup {NoChild}]]
    /\ process \in {"up", "down", "swept"}
    /\ row \in [Children -> {"none"} \cup Unfinished \cup Outcomes]
    /\ halfMade \in SUBSET Children

Init ==
    /\ active = [c \in Chats |-> NoTurn]
    /\ running = {} /\ live = {} /\ cancelled = {} /\ approvals = {} /\ wake = {}
    /\ gateFree = [t \in Turns |-> GateMax]
    /\ limit \in Limits
    /\ current = 0
    /\ semaphores = [g \in 1..MaxSemaphores |-> [limit |-> 0, free |-> 0]]
    /\ semOf = [x \in Children \cup Kickoffs |-> 0]
    /\ turn = [t \in Turns |-> "idle"]
    /\ child = [k \in Children |-> "none"]
    /\ kickoff = [d \in Kickoffs |-> "idle"]
    /\ stop = [c \in Chats |-> NotStopping]
    /\ process = "up"
    /\ row = [k \in Children |-> "none"]
    /\ halfMade = {}

TurnAt(t, place) == turn' = [turn EXCEPT ![t] = place]
ChildAt(k, place) == child' = [child EXCEPT ![k] = place]
SetStatus(k, status) == row' = [row EXCEPT ![k] = status]
StopAt(c, place) == stop' = [stop EXCEPT ![c].at = place]

(***************************************************************************)
(* The parent turn                                                         *)
(***************************************************************************)

\* run_agent_turn registers the turn, over whatever is registered.
StartTurn(t) ==
    /\ turn[t] = "idle"
    /\ TurnAt(t, "loop")
    /\ active' = [active EXCEPT ![TurnChat[t]] = t]
    /\ UNCHANGED <<running, live, cancelled, approvals, wake, permits, database,
                   child, kickoff, stop, process>>

\* The loop finds its token clear and the model's answer has a task call.
CallTask(t) ==
    /\ turn[t] = "loop"
    /\ t \notin cancelled
    /\ \E k \in ChildrenOf(t) : child[k] = "none"
    /\ TurnAt(t, "creating")
    /\ UNCHANGED <<registries, permits, database, child, kickoff, stop, process>>

\* execute_task creates and registers one child per entry.
CreateChild(t, k) ==
    /\ turn[t] = "creating"
    /\ k \in ChildrenOf(t)
    /\ child[k] = "none"
    /\ ChildAt(k, "created")
    /\ SetStatus(k, "queued")
    /\ live' = live \cup {k}
    /\ UNCHANGED <<active, running, cancelled, approvals, wake, permits, halfMade,
                   turn, kickoff, stop, process>>

\* Creating k fails, before or after its row is inserted: the children created
\* before it are marked failed, and the call returns.
CreateFails(t, k) ==
    /\ turn[t] = "creating"
    /\ k \in ChildrenOf(t)
    /\ child[k] = "none"
    /\ LET created == {j \in ChildrenOf(t) : child[j] = "created"}
       IN  \E inserted \in BOOLEAN :
             /\ halfMade' = IF inserted THEN halfMade \cup {k} ELSE halfMade
             /\ row' = [j \in Children |->
                          CASE j \in created -> "failed"
                            [] j = k /\ inserted -> "queued"
                            [] OTHER -> row[j]]
             /\ live' = live \ created
             /\ child' = [j \in Children |-> IF j \in ChildrenOf(t) THEN "ended" ELSE child[j]]
    /\ TurnAt(t, "loop")
    /\ UNCHANGED <<active, running, cancelled, approvals, wake, permits, kickoff, stop, process>>

\* With every entry created the threads start.
SpawnChildren(t) ==
    /\ turn[t] = "creating"
    /\ \A k \in ChildrenOf(t) : child[k] = "created"
    /\ child' = [k \in Children |-> IF k \in ChildrenOf(t) THEN "gate" ELSE child[k]]
    /\ TurnAt(t, "joining")
    /\ UNCHANGED <<registries, permits, database, kickoff, stop, process>>

\* The join of a thread that panicked finishes its child.
JoinPanicked(t, k) ==
    /\ turn[t] = "joining"
    /\ k \in ChildrenOf(t)
    /\ child[k] = "panicked"
    /\ ChildAt(k, "ended")
    /\ SetStatus(k, "failed")
    /\ live' = live \ {k}
    /\ UNCHANGED <<active, running, cancelled, approvals, wake, permits, halfMade,
                   turn, kickoff, stop, process>>

\* Every thread is joined and the reports become the call's result.
JoinChildren(t) ==
    /\ turn[t] = "joining"
    /\ \A k \in ChildrenOf(t) : child[k] = "ended"
    /\ TurnAt(t, "loop")
    /\ UNCHANGED <<registries, permits, database, child, kickoff, stop, process>>

\* The loop ends, for whatever reason; a cancelled one does so at its next check.
EndTurn(t) ==
    /\ turn[t] = "loop"
    /\ TurnAt(t, "unregister")
    /\ UNCHANGED <<registries, permits, database, child, kickoff, stop, process>>

\* run_agent_turn removes the entry of its chat, whosever it is.
UnregisterTurn(t) ==
    /\ turn[t] = "unregister"
    /\ TurnAt(t, "done")
    /\ active' = [active EXCEPT ![TurnChat[t]] = NoTurn]
    /\ UNCHANGED <<running, live, cancelled, approvals, wake, permits, database,
                   child, kickoff, stop, process>>

(***************************************************************************)
(* A child's thread (run_child)                                            *)
(***************************************************************************)

\* The thread's runtime cannot be built.
RuntimeFails(k) ==
    /\ child[k] = "gate"
    /\ ChildAt(k, "noRuntime")
    /\ UNCHANGED <<registries, permits, database, turn, kickoff, stop, process>>

\* acquire_permit(gate): the check before the wait.
CheckAtGate(k) ==
    /\ child[k] = "gate"
    /\ ChildAt(k, IF ParentCancelled(k) THEN "withdraw" ELSE "gateWait")
    /\ UNCHANGED <<registries, permits, database, turn, kickoff, stop, process>>

\* A permit of the gate is granted; after a cancellation it is dropped at once.
GrantGate(k) ==
    /\ child[k] = "gateWait"
    /\ gateFree[ChildTurn[k]] > 0
    /\ IF ParentCancelled(k)
         THEN ChildAt(k, "withdraw") /\ UNCHANGED gateFree
         ELSE /\ ChildAt(k, "provider")
              /\ gateFree' = [gateFree EXCEPT ![ChildTurn[k]] = @ - 1]
    /\ UNCHANGED <<registries, limit, semaphores, current, semOf, database,
                   turn, kickoff, stop, process>>

\* Mutant of WakeChild: the gate is let go wherever the child waited.
WakeChildReleasing(k) ==
    /\ child[k] \in {"gateWait", "providerWait"}
    /\ k \in wake
    /\ wake' = wake \ {k}
    /\ IF ParentCancelled(k)
         THEN /\ ChildAt(k, "withdraw")
              /\ gateFree' = [gateFree EXCEPT ![ChildTurn[k]] = @ + 1]
         ELSE UNCHANGED <<child, gateFree>>
    /\ UNCHANGED <<active, running, live, cancelled, approvals, limit, semaphores, current,
                   semOf, database, turn, kickoff, stop, process>>

\* A notification ends the wait if the parent is cancelled; a child that waits
\* for the provider lets go of the gate.
WakeChild(k) ==
    /\ child[k] \in {"gateWait", "providerWait"}
    /\ k \in wake
    /\ wake' = wake \ {k}
    /\ IF ParentCancelled(k)
         THEN /\ ChildAt(k, "withdraw")
              /\ gateFree' = IF child[k] = "providerWait"
                               THEN [gateFree EXCEPT ![ChildTurn[k]] = @ + 1] ELSE gateFree
         ELSE UNCHANGED <<child, gateFree>>
    /\ UNCHANGED <<active, running, live, cancelled, approvals, limit, semaphores, current,
                   semOf, database, turn, kickoff, stop, process>>

\* provider_semaphore: the registered semaphore, or a new one when the limit is
\* no longer the one it was built with.
FetchSemaphore(x) ==
    IF current > 0 /\ semaphores[current].limit = limit
      THEN /\ semOf' = [semOf EXCEPT ![x] = current]
           /\ UNCHANGED <<semaphores, current>>
      ELSE /\ current < MaxSemaphores
           /\ current' = current + 1
           /\ semaphores' = [semaphores EXCEPT ![current + 1] = [limit |-> limit, free |-> limit]]
           /\ semOf' = [semOf EXCEPT ![x] = current + 1]

\* acquire_permit(provider): the semaphore is fetched before the check.
CheckAtProvider(k) ==
    /\ child[k] = "provider"
    /\ FetchSemaphore(k)
    /\ IF ParentCancelled(k)
         THEN /\ ChildAt(k, "withdraw")
              /\ gateFree' = [gateFree EXCEPT ![ChildTurn[k]] = @ + 1]
         ELSE ChildAt(k, "providerWait") /\ UNCHANGED gateFree
    /\ UNCHANGED <<registries, limit, database, turn, kickoff, stop, process>>

GrantProvider(k) ==
    /\ child[k] = "providerWait"
    /\ semaphores[semOf[k]].free > 0
    /\ IF ParentCancelled(k)
         THEN /\ ChildAt(k, "withdraw")
              /\ gateFree' = [gateFree EXCEPT ![ChildTurn[k]] = @ + 1]
              /\ UNCHANGED semaphores
         ELSE /\ ChildAt(k, "granted")
              /\ semaphores' = [semaphores EXCEPT ![semOf[k]].free = @ - 1]
              /\ UNCHANGED gateFree
    /\ UNCHANGED <<registries, limit, current, semOf, database, turn, kickoff, stop, process>>

\* Mutant of SubagentAdmitted: a registered parent is enough.
SubagentAdmittedIfRegistered(k) == k \in live /\ active[ChatOf(k)] # NoTurn

\* subagent_admitted: the chat of the parent has a registered, uncancelled run.
SubagentAdmitted(k) ==
    /\ k \in live
    /\ active[ChatOf(k)] # NoTurn
    /\ active[ChatOf(k)] \notin cancelled

\* The status becomes running; run_agent_turn registers the child if admitted
\* and returns a cancelled result otherwise.
StartChild(k) ==
    /\ child[k] = "granted"
    /\ SetStatus(k, "running")
    /\ IF SubagentAdmitted(k)
         THEN running' = running \cup {k} /\ ChildAt(k, "loop")
         ELSE UNCHANGED running /\ ChildAt(k, "refused")
    /\ UNCHANGED <<active, live, cancelled, approvals, wake, permits, halfMade,
                   turn, kickoff, stop, process>>

\* The loop finds its token clear and begins a tool call.
BeginTool(k) ==
    /\ child[k] = "loop"
    /\ k \notin cancelled
    /\ ChildAt(k, "tool")
    /\ UNCHANGED <<registries, permits, database, turn, kickoff, stop, process>>

\* The call needs an approval: await_approval registers it under the child's key.
AskApproval(k) ==
    /\ child[k] = "tool"
    /\ ChildAt(k, "asking")
    /\ approvals' = approvals \cup {k}
    /\ SetStatus(k, "awaiting_approval")
    /\ UNCHANGED <<active, running, live, cancelled, wake, permits, halfMade,
                   turn, kickoff, stop, process>>

\* The user answers on the task card, or the wait of 600 seconds ends.
ResolveApproval(k) ==
    /\ k \in approvals
    /\ approvals' = approvals \ {k}
    /\ UNCHANGED <<active, running, live, cancelled, wake, permits, database,
                   turn, child, kickoff, stop, process>>

\* The waiting child finds its entry answered, dropped or timed out.
ApprovalReturns(k) ==
    /\ child[k] = "asking"
    /\ k \notin approvals
    /\ ChildAt(k, "loop")
    /\ SetStatus(k, "running")
    /\ UNCHANGED <<registries, permits, halfMade, turn, kickoff, stop, process>>

ToolReturns(k) ==
    /\ child[k] = "tool"
    /\ ChildAt(k, "loop")
    /\ UNCHANGED <<registries, permits, database, turn, kickoff, stop, process>>

\* run_loop_inner returns, of a cancelled child at its next check, and
\* run_agent_turn unregisters it.
EndChildLoop(k) ==
    /\ child[k] = "loop"
    /\ ChildAt(k, "finish")
    /\ running' = running \ {k}
    /\ UNCHANGED <<active, live, cancelled, approvals, wake, permits, database,
                   turn, kickoff, stop, process>>

\* What classify may make of the result: a child cancelled after its last check
\* may still have completed.
Classify(k) ==
    IF child[k] = "refused" THEN {"cancelled"}
    ELSE IF k \in cancelled THEN Outcomes ELSE {"completed", "failed"}

FinishChild(k) ==
    /\ child[k] \in {"finish", "refused"}
    /\ ChildAt(k, "return")
    /\ \E outcome \in Classify(k) : SetStatus(k, outcome)
    /\ live' = live \ {k}
    /\ UNCHANGED <<active, running, cancelled, approvals, wake, permits, halfMade,
                   turn, kickoff, stop, process>>

\* Mutant of ReleaseProvider: the permit goes to the semaphore now registered.
ReleaseToRegistered(x) == semaphores' = [semaphores EXCEPT ![current].free = @ + 1]

ReleaseProvider(x) == semaphores' = [semaphores EXCEPT ![semOf[x]].free = @ + 1]

\* Mutant of ReturnPermits: the permit of the provider is forgotten.
ReturnGateOnly(k) ==
    /\ child[k] = "return"
    /\ ChildAt(k, "ended")
    /\ gateFree' = [gateFree EXCEPT ![ChildTurn[k]] = @ + 1]
    /\ UNCHANGED <<registries, limit, semaphores, current, semOf, database,
                   turn, kickoff, stop, process>>

\* run_child returns and drops both permits.
ReturnPermits(k) ==
    /\ child[k] = "return"
    /\ ChildAt(k, "ended")
    /\ gateFree' = [gateFree EXCEPT ![ChildTurn[k]] = @ + 1]
    /\ ReleaseProvider(k)
    /\ UNCHANGED <<registries, limit, current, semOf, database, turn, kickoff, stop, process>>

\* finish_child of a child that got no permits, or no runtime.
FinishWithoutRun(k) ==
    /\ child[k] \in {"withdraw", "noRuntime"}
    /\ ChildAt(k, "ended")
    /\ SetStatus(k, IF child[k] = "withdraw" THEN "cancelled" ELSE "failed")
    /\ live' = live \ {k}
    /\ UNCHANGED <<active, running, cancelled, approvals, wake, permits, halfMade,
                   turn, kickoff, stop, process>>

\* The thread panics in the loop: the permits are dropped, the entry stays.
Panic(k) ==
    /\ child[k] = "loop"
    /\ ChildAt(k, "panicked")
    /\ gateFree' = [gateFree EXCEPT ![ChildTurn[k]] = @ + 1]
    /\ ReleaseProvider(k)
    /\ UNCHANGED <<registries, limit, current, semOf, database, turn, kickoff, stop, process>>

(***************************************************************************)
(* cancel_run of a chat, and what chat_cancel does after it                *)
(***************************************************************************)

\* The token of the registered turn, under the lock of ACTIVE_RUNS.
BeginStop(c) ==
    /\ c \in StoppedChats
    /\ stop[c].at = "none"
    /\ cancelled' = cancelled \cup ({active[c]} \ {NoTurn})
    /\ StopAt(c, "approvals")
    /\ UNCHANGED <<active, running, live, approvals, wake, permits, database,
                   turn, child, kickoff, process>>

\* No approval has the chat's prefix: a child's key begins with the child's id.
\* Then the live children are listed.
ListChildren(c) ==
    /\ stop[c].at = "approvals"
    /\ stop' = [stop EXCEPT ![c] = [@ EXCEPT !.at = "children",
                                             !.victims = {k \in live : ChatOf(k) = c}]]
    /\ UNCHANGED <<registries, permits, database, turn, child, kickoff, process>>

\* cancel_run of one child: its token, if it is registered ...
CancelChild(c, k) ==
    /\ stop[c].at = "children"
    /\ k \in stop[c].victims
    /\ cancelled' = cancelled \cup ({k} \cap running)
    /\ stop' = [stop EXCEPT ![c] = [at |-> "sweep", victims |-> @.victims \ {k}, victim |-> k]]
    /\ UNCHANGED <<active, running, live, approvals, wake, permits, database,
                   turn, child, kickoff, process>>

\* ... and the approvals under its prefix.
SweepChildApprovals(c) ==
    /\ stop[c].at = "sweep"
    /\ approvals' = approvals \ {stop[c].victim}
    /\ stop' = [stop EXCEPT ![c] = [@ EXCEPT !.at = "children", !.victim = NoChild]]
    /\ UNCHANGED <<active, running, live, cancelled, wake, permits, database,
                   turn, child, kickoff, process>>

\* Mutant of WakeChildren: only children that are registered are woken.
WakeRegistered(c) ==
    /\ stop[c].at = "children"
    /\ stop[c].victims = {}
    /\ wake' = wake \cup {k \in running : ChatOf(k) = c}
    /\ StopAt(c, "clear")
    /\ UNCHANGED <<active, running, live, cancelled, approvals, permits, database,
                   turn, child, kickoff, process>>

\* wake_children stores a notification for every live child of the chat.
WakeChildren(c) ==
    /\ stop[c].at = "children"
    /\ stop[c].victims = {}
    /\ wake' = wake \cup {k \in live : ChatOf(k) = c}
    /\ StopAt(c, "clear")
    /\ UNCHANGED <<active, running, live, cancelled, approvals, permits, database,
                   turn, child, kickoff, process>>

\* cancel_pending_approvals clears the approvals of every chat.
ClearApprovals(c) ==
    /\ stop[c].at = "clear"
    /\ approvals' = {}
    /\ stop' = [stop EXCEPT ![c] = NotStopping]
    /\ UNCHANGED <<active, running, live, cancelled, wake, permits, database,
                   turn, child, kickoff, process>>

(***************************************************************************)
(* The dispatcher's runs, the setting, and a restart                       *)
(***************************************************************************)

\* dispatch_loop fetches the semaphore and waits for a permit ...
FetchForKickoff(d) ==
    /\ kickoff[d] = "idle"
    /\ FetchSemaphore(d)
    /\ kickoff' = [kickoff EXCEPT ![d] = "wait"]
    /\ UNCHANGED <<registries, gateFree, limit, database, turn, child, stop, process>>

GrantKickoff(d) ==
    /\ kickoff[d] = "wait"
    /\ semaphores[semOf[d]].free > 0
    /\ semaphores' = [semaphores EXCEPT ![semOf[d]].free = @ - 1]
    /\ kickoff' = [kickoff EXCEPT ![d] = "starting"]
    /\ UNCHANGED <<registries, gateFree, limit, current, semOf, database,
                   turn, child, stop, process>>

\* ... and its thread drops the permit when execute_run returns, which leaves
\* the plan run running.
EndKickoff(d) ==
    /\ kickoff[d] = "starting"
    /\ ReleaseProvider(d)
    /\ kickoff' = [kickoff EXCEPT ![d] = "running"]
    /\ UNCHANGED <<registries, gateFree, limit, current, semOf, database,
                   turn, child, stop, process>>

\* The user changes max_concurrency.
ChangeLimit ==
    /\ current < MaxSemaphores
    /\ limit' \in Limits \ {limit}
    /\ UNCHANGED <<registries, gateFree, semaphores, current, semOf, database,
                   turn, child, kickoff, stop, process>>

\* The process dies: only the rows are left.
Crash ==
    /\ process' = "down"
    /\ active' = [c \in Chats |-> NoTurn]
    /\ running' = {} /\ live' = {} /\ cancelled' = {} /\ approvals' = {} /\ wake' = {}
    /\ gateFree' = [t \in Turns |-> GateMax]
    /\ current' = 0
    /\ semaphores' = [g \in 1..MaxSemaphores |-> [limit |-> 0, free |-> 0]]
    /\ semOf' = [x \in Children \cup Kickoffs |-> 0]
    /\ turn' = [t \in Turns |-> "done"]
    /\ child' = [k \in Children |-> "ended"]
    /\ kickoff' = [d \in Kickoffs |-> "running"]
    /\ stop' = [c \in Chats |-> NotStopping]
    /\ UNCHANGED <<limit, database>>

\* Mutant of SweepInterrupted: a child that waited for an approval is forgotten.
SweepRunning ==
    /\ process = "down"
    /\ process' = "swept"
    /\ row' = [k \in Children |-> IF row[k] \in {"queued", "running"} THEN "failed" ELSE row[k]]
    /\ UNCHANGED <<registries, permits, halfMade, turn, child, kickoff, stop>>

\* sweep_interrupted_runs at the next start.
SweepInterrupted ==
    /\ process = "down"
    /\ process' = "swept"
    /\ row' = [k \in Children |-> IF row[k] \in Unfinished THEN "failed" ELSE row[k]]
    /\ UNCHANGED <<registries, permits, halfMade, turn, child, kickoff, stop>>

TurnStep(t) ==
    \/ StartTurn(t) \/ CallTask(t) \/ SpawnChildren(t) \/ JoinChildren(t)
    \/ EndTurn(t) \/ UnregisterTurn(t)
    \/ \E k \in ChildrenOf(t) : CreateChild(t, k) \/ CreateFails(t, k) \/ JoinPanicked(t, k)

ChildStep(k) ==
    \/ RuntimeFails(k) \/ CheckAtGate(k) \/ GrantGate(k) \/ WakeChild(k)
    \/ CheckAtProvider(k) \/ GrantProvider(k) \/ StartChild(k)
    \/ BeginTool(k) \/ AskApproval(k) \/ ResolveApproval(k) \/ ApprovalReturns(k)
    \/ ToolReturns(k) \/ EndChildLoop(k) \/ FinishChild(k)
    \/ ReturnPermits(k) \/ FinishWithoutRun(k) \/ Panic(k)

StopStep(c) ==
    \/ BeginStop(c) \/ ListChildren(c) \/ SweepChildApprovals(c)
    \/ WakeChildren(c) \/ ClearApprovals(c)
    \/ \E k \in Children : CancelChild(c, k)

KickoffStep(d) == FetchForKickoff(d) \/ GrantKickoff(d) \/ EndKickoff(d)

Next ==
    \/ /\ process = "up"
       /\ \/ \E t \in Turns : TurnStep(t)
          \/ \E k \in Children : ChildStep(k)
          \/ \E c \in Chats : StopStep(c)
          \/ \E d \in Kickoffs : KickoffStep(d)
          \/ ChangeLimit
          \/ Crash
    \/ SweepInterrupted

Spec == Init /\ [][Next]_vars

(***************************************************************************)
(* Fairness.  Threads run on; a wait for a permit is served in turn (the   *)
(* semaphores are FIFO), an approval times out, a cancelled loop ends at   *)
(* its next check.  Nothing makes a loop end that is not cancelled, and    *)
(* nobody has to stop a chat.                                              *)
(***************************************************************************)
TurnRunsOn(t) ==
    \/ SpawnChildren(t) \/ JoinChildren(t) \/ UnregisterTurn(t)
    \/ t \in cancelled /\ EndTurn(t)
    \/ \E k \in ChildrenOf(t) : CreateChild(t, k) \/ JoinPanicked(t, k)

ChildRunsOn(k) ==
    \/ CheckAtGate(k) \/ WakeChild(k) \/ CheckAtProvider(k) \/ StartChild(k)
    \/ ResolveApproval(k) \/ ApprovalReturns(k) \/ ToolReturns(k) \/ FinishChild(k)
    \/ ReturnPermits(k) \/ FinishWithoutRun(k)
    \/ k \in cancelled /\ EndChildLoop(k)

StopRunsOn(c) ==
    \/ ListChildren(c) \/ SweepChildApprovals(c) \/ WakeChildren(c) \/ ClearApprovals(c)
    \/ \E k \in Children : CancelChild(c, k)

Fairness ==
    /\ \A t \in Turns : WF_vars(TurnRunsOn(t))
    /\ \A k \in Children : /\ WF_vars(ChildRunsOn(k))
                           /\ SF_vars(GrantGate(k))
                           /\ SF_vars(GrantProvider(k))
    /\ \A c \in Chats : WF_vars(StopRunsOn(c))
    /\ \A d \in Kickoffs : WF_vars(EndKickoff(d)) /\ SF_vars(GrantKickoff(d))

FairSpec == Spec /\ Fairness

(***************************************************************************)
(* Properties                                                              *)
(***************************************************************************)

\* When cancel_run has gone over a chat, every child of the turn it cancelled
\* that still runs has its own token set: it was either refused by
\* subagent_admitted or found among the live children.
StopReachesEveryChild ==
    \A k \in Children :
        (child[k] \in Looping /\ ParentCancelled(k) /\ stop[ChatOf(k)].at = "none")
            => k \in cancelled

GateHolders(t) == {k \in ChildrenOf(t) : child[k] \in HoldsGate}
ProviderHolders(g) == {k \in Children : semOf[k] = g /\ child[k] \in HoldsProvider}
KickoffHolders(g) == {d \in Kickoffs : semOf[d] = g /\ kickoff[d] = "starting"}

\* On every path out of run_child, a permit granted after a cancellation and a
\* panic included, each permit comes back once, and to the semaphore it is of
\* although the provider's may have been replaced meanwhile.
PermitsAddUp ==
    /\ \A t \in Turns : gateFree[t] + Cardinality(GateHolders(t)) = GateMax
    /\ \A g \in 1..current :
          semaphores[g].free + Cardinality(ProviderHolders(g))
              + Cardinality(KickoffHolders(g)) = semaphores[g].limit

\* A row says queued, running or awaiting_approval only while its child lives,
\* or from a crash to the sweep of the next start.  The exception is the row
\* of a child whose creation failed after the insert: it stays queued.
OpenRowHasChild ==
    \A k \in Children : row[k] \in Unfinished =>
        \/ process = "up" /\ k \in live \cup halfMade
        \/ process = "down"

\* Stopping a turn ends it and so all its children, wherever these wait and
\* whether or not any other child ever ends.
StopEndsTheTurn ==
    \A t \in Turns : (t \in cancelled) ~> (turn[t] = "done")

\* If the loops of children end (AgentLoop!EveryRunEnds), every child gets its
\* permits and settles, so that in the end none lives: no gate and semaphore
\* wait for each other.
EveryChildSettles ==
    (\A k \in Children : SF_vars(EndChildLoop(k)))
        => <>[](live = {})
=============================================================================
