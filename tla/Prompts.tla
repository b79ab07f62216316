------------------------------- MODULE Prompts -------------------------------
(***************************************************************************)
(* The prompts that park an agent turn: tool approvals                     *)
(* (execute_with_gateway, await_approval) and questions (execute_ask_user, *)
(* InteractionService), with the commands of the interface that end them.  *)
(*                                                                         *)
(* A parked call waits on a channel whose sender lies in a process-wide    *)
(* map: PENDING_APPROVALS under the id the provider gave the call,         *)
(* PENDING_INTERACTIONS under the id of a database row that the interface  *)
(* shows.  Whoever takes the sender out sends the answer; a sender that is *)
(* dropped ends the wait too, and so does a timeout of ten minutes.  The   *)
(* calls of a batch run on threads of their own or one after the other;    *)
(* the commands run on the main thread, one at a time.                     *)
(***************************************************************************)
EXTENDS Naturals

CONSTANTS Chats,       \* one agent turn each
          Approvals,   \* tool calls that need an approval
          Questions,   \* ask_user calls
          Keys,        \* provider ids of tool calls
          CallKey,     \* CallKey[a]: the id of approval a
          PromptChat,  \* PromptChat[p]: the chat of call p
          Before,      \* Before[p]: the calls of the batch that return before p begins
          NoPrompt,    \* an empty entry
          MaxCrashes   \* bound on crashes of the process

Prompts == Approvals \cup Questions

ASSUME PromptsAssumption ==
    /\ Approvals \cap Questions = {}
    /\ NoPrompt \notin Prompts \cup Chats
    /\ CallKey \in [Approvals -> Keys]
    /\ PromptChat \in [Prompts -> Chats]
    /\ Before \in [Prompts -> SUBSET Prompts]
    /\ MaxCrashes \in Nat

VARIABLES
    \* Shared by the threads.
    approvals,  \* PENDING_APPROVALS: approvals[k], the call that waits under k
    registered, \* PENDING_INTERACTIONS: the questions with a sender in the map
    reply,      \* what was sent to the waiting call
    stopped,    \* chats whose CancellationToken is set
    \* Rows of the database.
    row,        \* pending_interactions.status
    chatState,  \* native_chat_sessions.run_state
    \* One entry per call.
    pc,         \* where its thread is
    result,     \* what the call returns to the loop
    \* The main thread.
    command,    \* what it executes
    subject,    \* the question or chat it is about
    todo,       \* the questions stop_chat still has to cancel
    \* The process.
    mode,       \* "up", or "down" until the restart's sweep
    crashes,
    \* History, read by properties only.
    consent     \* what the user clicked on the call's card

registries == <<approvals, registered, reply>>
mainVars   == <<command, subject, todo>>
vars == <<registries, stopped, row, chatState, pc, result, mainVars, mode, crashes, consent>>

\* An approval goes "idle", "checked", "parked", "waiting", "giving_up" when
\* the wait ended without an answer, "resumed", "done"; a question is "asked"
\* instead of "checked", and "overdue" when it has left the map after a timeout.
Places == {"idle", "checked", "asked", "parked", "waiting", "giving_up",
           "overdue", "resumed", "done", "lost"}
Results == {"none", "allowed", "denied", "skipped", "answered", "cancelled", "timeout"}
Replies == {"none", "allowed", "denied", "answered", "cancelled"}
Rows == {"absent", "pending", "answered", "cancelled"}
ChatStates == {"running", "needs_input", "cancelled", "interrupted"}
Commands == {"none", "answering", "cancelling", "clearing", "listing", "waking",
             "settling"}

TypeOK ==
    /\ approvals \in [Keys -> Approvals \cup {NoPrompt}]
    /\ registered \in SUBSET Questions
    /\ reply \in [Prompts -> Replies]
    /\ stopped \in SUBSET Chats
    /\ row \in [Questions -> Rows]
    /\ chatState \in [Chats -> ChatStates]
    /\ pc \in [Prompts -> Places]
    /\ result \in [Prompts -> Results]
    /\ command \in Commands
    /\ subject \in Questions \cup Chats \cup {NoPrompt}
    /\ todo \in SUBSET Questions
    /\ mode \in {"up", "down"}
    /\ crashes \in Nat
    /\ consent \in [Approvals -> {"none", "allowed", "denied"}]

Init ==
    /\ approvals = [k \in Keys |-> NoPrompt]
    /\ registered = {}
    /\ reply = [p \in Prompts |-> "none"]
    /\ stopped = {}
    /\ row = [q \in Questions |-> "absent"]
    /\ chatState = [c \in Chats |-> "running"]
    /\ pc = [p \in Prompts |-> "idle"]
    /\ result = [p \in Prompts |-> "none"]
    /\ command = "none"
    /\ subject = NoPrompt
    /\ todo = {}
    /\ mode = "up"
    /\ crashes = 0
    /\ consent = [a \in Approvals |-> "none"]

Goto(p, place) == pc' = [pc EXCEPT ![p] = place]

\* The turn of call p reaches it: the calls it waits for have returned.
Reached(p) == mode = "up" /\ pc[p] = "idle" /\ \A b \in Before[p] : pc[b] = "done"

\* chat_needs_input and chat_running, around a wait.
SetChat(p, state) == chatState' = [chatState EXCEPT ![PromptChat[p]] = state]

\* The wait of p ends with res.
Resume(p, res) ==
    /\ result' = [result EXCEPT ![p] = res]
    /\ Goto(p, "resumed")

(***************************************************************************)
(* Tool approvals                                                          *)
(***************************************************************************)

\* The batch looks at the token before it begins a call.
CheckToken(a) ==
    /\ a \in Approvals /\ Reached(a)
    /\ IF PromptChat[a] \in stopped
       THEN Goto(a, "done") /\ result' = [result EXCEPT ![a] = "skipped"]
       ELSE Goto(a, "checked") /\ UNCHANGED result
    /\ UNCHANGED <<registries, stopped, row, chatState, mainVars, mode, crashes, consent>>

\* The gateway requires a prompt and the chat says so.
ParkApproval(a) ==
    /\ a \in Approvals /\ pc[a] = "checked"
    /\ SetChat(a, "needs_input")
    /\ Goto(a, "parked")
    /\ UNCHANGED <<registries, stopped, row, result, mainVars, mode, crashes, consent>>

\* await_approval inserts the sender, over whatever lay under the id, and
\* shows the card.
RegisterApproval(a) ==
    /\ a \in Approvals /\ pc[a] = "parked"
    /\ approvals' = [approvals EXCEPT ![CallKey[a]] = a]
    /\ Goto(a, "waiting")
    /\ UNCHANGED <<registered, reply, stopped, row, chatState, result, mainVars, mode,
                   crashes, consent>>

\* The answer arrives.
ApprovalAnswered(a) ==
    /\ a \in Approvals /\ pc[a] = "waiting" /\ reply[a] # "none"
    /\ Resume(a, reply[a])
    /\ UNCHANGED <<registries, stopped, row, chatState, mainVars, mode, crashes, consent>>

\* The wait ends without one: ten minutes are over, or the sender is gone.
ApprovalUnanswered(a) ==
    /\ a \in Approvals /\ pc[a] = "waiting" /\ reply[a] = "none"
    /\ Goto(a, "giving_up")
    /\ UNCHANGED <<registries, stopped, row, chatState, result, mainVars, mode, crashes,
                   consent>>

\* Mutant of GiveUp: no answer is taken for consent.
GiveUpAllows(a) ==
    /\ a \in Approvals /\ pc[a] = "giving_up"
    /\ approvals' = [approvals EXCEPT ![CallKey[a]] = NoPrompt]
    /\ Resume(a, "allowed")
    /\ UNCHANGED <<registered, reply, stopped, row, chatState, mainVars, mode, crashes,
                   consent>>

\* Whatever lies under the id is removed, and the call is denied.
GiveUp(a) ==
    /\ a \in Approvals /\ pc[a] = "giving_up"
    /\ approvals' = [approvals EXCEPT ![CallKey[a]] = NoPrompt]
    /\ Resume(a, "denied")
    /\ UNCHANGED <<registered, reply, stopped, row, chatState, mainVars, mode, crashes,
                   consent>>

(***************************************************************************)
(* Questions                                                               *)
(***************************************************************************)

\* The row is inserted and shown; nothing looks at the token.
AskQuestion(q) ==
    /\ q \in Questions /\ Reached(q)
    /\ row' = [row EXCEPT ![q] = "pending"]
    /\ Goto(q, "asked")
    /\ UNCHANGED <<registries, stopped, chatState, result, mainVars, mode, crashes, consent>>

\* Mutant of ParkQuestion: the chat goes on saying that it runs.
ParkQuestionSilently(q) ==
    /\ q \in Questions /\ pc[q] = "asked"
    /\ Goto(q, "parked")
    /\ UNCHANGED <<registries, stopped, row, chatState, result, mainVars, mode, crashes,
                   consent>>

ParkQuestion(q) ==
    /\ q \in Questions /\ pc[q] = "asked"
    /\ SetChat(q, "needs_input")
    /\ Goto(q, "parked")
    /\ UNCHANGED <<registries, stopped, row, result, mainVars, mode, crashes, consent>>

\* Only now has the question a sender an answer can be sent with.
RegisterQuestion(q) ==
    /\ q \in Questions /\ pc[q] = "parked"
    /\ registered' = registered \cup {q}
    /\ Goto(q, "waiting")
    /\ UNCHANGED <<approvals, reply, stopped, row, chatState, result, mainVars, mode,
                   crashes, consent>>

QuestionAnswered(q) ==
    /\ q \in Questions /\ pc[q] = "waiting" /\ reply[q] # "none"
    /\ Resume(q, reply[q])
    /\ UNCHANGED <<registries, stopped, row, chatState, mainVars, mode, crashes, consent>>

\* Mutant of QuestionTimesOut: only a stop ends the wait.
QuestionWaitsForStop(q) ==
    /\ q \in Questions /\ pc[q] = "waiting" /\ reply[q] = "none"
    /\ PromptChat[q] \in stopped
    /\ Goto(q, "giving_up")
    /\ UNCHANGED <<registries, stopped, row, chatState, result, mainVars, mode, crashes,
                   consent>>

\* Ten minutes are over ...
QuestionTimesOut(q) ==
    /\ q \in Questions /\ pc[q] = "waiting" /\ reply[q] = "none"
    /\ Goto(q, "giving_up")
    /\ UNCHANGED <<registries, stopped, row, chatState, result, mainVars, mode, crashes,
                   consent>>

\* ... await_interaction takes the sender out of the map ...
WithdrawQuestion(q) ==
    /\ q \in Questions /\ pc[q] = "giving_up"
    /\ registered' = registered \ {q}
    /\ Goto(q, "overdue")
    /\ UNCHANGED <<approvals, reply, stopped, row, chatState, result, mainVars, mode,
                   crashes, consent>>

\* Mutant of RowCancelled: a settled row is cancelled too.
RowCancelledAnyway(q) == row' = [row EXCEPT ![q] = "cancelled"]

\* InteractionService::cancel: only a pending row is cancelled.
RowCancelled(q) == row' = [row EXCEPT ![q] = IF @ = "pending" THEN "cancelled" ELSE @]

\* Mutant of ExpireQuestion: the row is left to the interface.
ExpireQuestionInMemory(q) ==
    /\ q \in Questions /\ pc[q] = "overdue"
    /\ Resume(q, "timeout")
    /\ UNCHANGED <<registries, stopped, row, chatState, mainVars, mode, crashes, consent>>

\* ... and the row is cancelled.
ExpireQuestion(q) ==
    /\ q \in Questions /\ pc[q] = "overdue"
    /\ RowCancelled(q)
    /\ Resume(q, "timeout")
    /\ UNCHANGED <<registries, stopped, chatState, mainVars, mode, crashes, consent>>

\* The chat runs again and the call returns to the batch.
ReturnToLoop(p) ==
    /\ pc[p] = "resumed"
    /\ SetChat(p, "running")
    /\ Goto(p, "done")
    /\ UNCHANGED <<registries, stopped, row, result, mainVars, mode, crashes, consent>>

(***************************************************************************)
(* Commands of the interface                                               *)
(***************************************************************************)

MainFree == mode = "up" /\ command = "none"

\* The main thread goes on with a step of command cmd about s.
Continue(cmd, s) == command' = cmd /\ subject' = s

Decisions == {"allow", "allow_session", "deny"}

\* native_chat_resolve_approval: the two ways to allow are one permission.
Verdict(d) == IF d \in {"allow", "allow_session"} THEN "allowed" ELSE "denied"

\* The user decides on the card of call a: resolve_approval takes out what lies
\* under its id and sends the decision to it.
ResolveApproval(a, d) ==
    /\ MainFree
    /\ pc[a] \in {"waiting", "giving_up", "resumed"} /\ consent[a] = "none"
    /\ consent' = [consent EXCEPT ![a] = IF d = "deny" THEN "denied" ELSE "allowed"]
    /\ LET p == approvals[CallKey[a]] IN
         reply' = IF p = NoPrompt THEN reply ELSE [reply EXCEPT ![p] = Verdict(d)]
    /\ approvals' = [approvals EXCEPT ![CallKey[a]] = NoPrompt]
    /\ UNCHANGED <<registered, stopped, row, chatState, pc, result, mainVars, mode, crashes>>

\* Mutant of AnswerQuestion: a card that is still shown can be answered.
AnswerSettled(q) ==
    /\ MainFree /\ row[q] # "absent"
    /\ row' = [row EXCEPT ![q] = "answered"]
    /\ Continue("answering", q)
    /\ UNCHANGED <<registries, stopped, chatState, pc, result, todo, mode, crashes, consent>>

\* native_interaction_resolve answers a pending row ...
AnswerQuestion(q) ==
    /\ MainFree /\ row[q] = "pending"
    /\ row' = [row EXCEPT ![q] = "answered"]
    /\ Continue("answering", q)
    /\ UNCHANGED <<registries, stopped, chatState, pc, result, todo, mode, crashes, consent>>

\* Takes the sender of question q out of the map, if it is there, and sends r.
Deliver(q, r) ==
    /\ registered' = registered \ {q}
    /\ reply' = IF q \in registered THEN [reply EXCEPT ![q] = r] ELSE reply

\* ... and then sends the answer; that nobody takes it is ignored.
ResolveInteraction ==
    /\ command = "answering"
    /\ Deliver(subject, "answered")
    /\ Continue("none", NoPrompt)
    /\ UNCHANGED <<approvals, stopped, row, chatState, pc, result, todo, mode, crashes, consent>>

\* native_interaction_cancel cancels the row ...
CancelQuestion(q) ==
    /\ MainFree /\ row[q] # "absent"
    /\ RowCancelled(q)
    /\ Continue("cancelling", q)
    /\ UNCHANGED <<registries, stopped, chatState, pc, result, todo, mode, crashes, consent>>

\* Mutant of CancelInteraction: the call is woken without saying why.
CancelReadsAsAnswer ==
    /\ command = "cancelling"
    /\ Deliver(subject, "answered")
    /\ Continue("none", NoPrompt)
    /\ UNCHANGED <<approvals, stopped, row, chatState, pc, result, todo, mode, crashes, consent>>

\* ... and then wakes the call.
CancelInteraction ==
    /\ command = "cancelling"
    /\ Deliver(subject, "cancelled")
    /\ Continue("none", NoPrompt)
    /\ UNCHANGED <<approvals, stopped, row, chatState, pc, result, todo, mode, crashes, consent>>

LiveStates == {"running", "needs_input"}

\* stop_chat sets the token of the turn ...
StopChat(c) ==
    /\ MainFree /\ chatState[c] \in LiveStates
    /\ stopped' = stopped \cup {c}
    /\ Continue("clearing", c)
    /\ UNCHANGED <<registries, row, chatState, pc, result, todo, mode, crashes, consent>>

\* ... cancel_pending_approvals empties the map, of every chat's calls ...
ClearApprovals ==
    /\ command = "clearing"
    /\ approvals' = [k \in Keys |-> NoPrompt]
    /\ Continue("listing", subject)
    /\ UNCHANGED <<registered, reply, stopped, row, chatState, pc, result, todo, mode, crashes,
                   consent>>

\* ... reads the chat's pending questions ...
ListPending ==
    /\ command = "listing"
    /\ todo' = {q \in Questions : PromptChat[q] = subject /\ row[q] = "pending"}
    /\ Continue("waking", subject)
    /\ UNCHANGED <<registries, stopped, row, chatState, pc, result, mode, crashes, consent>>

\* ... and for each of them wakes the call ...
WakeQuestion(q) ==
    /\ command = "waking" /\ q \in todo
    /\ Deliver(q, "cancelled")
    /\ Continue("settling", q)
    /\ UNCHANGED <<approvals, stopped, row, chatState, pc, result, todo, mode, crashes, consent>>

\* ... before it cancels the row.
SettleRow ==
    /\ command = "settling"
    /\ RowCancelled(subject)
    /\ todo' = todo \ {subject}
    /\ Continue("waking", PromptChat[subject])
    /\ UNCHANGED <<registries, stopped, chatState, pc, result, mode, crashes, consent>>

\* chat_terminal has the last word on the chat, until a call returns.
StopEnds ==
    /\ command = "waking" /\ todo = {}
    /\ chatState' = [chatState EXCEPT ![subject] = "cancelled"]
    /\ Continue("none", NoPrompt)
    /\ UNCHANGED <<registries, stopped, row, pc, result, todo, mode, crashes, consent>>

(***************************************************************************)
(* Crash and restart                                                       *)
(***************************************************************************)

Crash ==
    /\ mode = "up" /\ crashes < MaxCrashes
    /\ mode' = "down" /\ crashes' = crashes + 1
    /\ approvals' = [k \in Keys |-> NoPrompt]
    /\ registered' = {} /\ stopped' = {}
    /\ reply' = [p \in Prompts |-> "none"]
    /\ pc' = [p \in Prompts |-> IF pc[p] = "done" THEN "done" ELSE "lost"]
    /\ result' = [p \in Prompts |-> IF pc[p] = "done" THEN result[p] ELSE "none"]
    /\ Continue("none", NoPrompt) /\ todo' = {}
    /\ UNCHANGED <<row, chatState, consent>>

\* sweep_interrupted_runs settles the chats; the rows of questions stay as they
\* are, because nothing calls InteractionService::sweep_orphans.
Sweep ==
    /\ mode = "down" /\ mode' = "up"
    /\ chatState' = [c \in Chats |->
                       IF chatState[c] \in LiveStates THEN "interrupted" ELSE chatState[c]]
    /\ UNCHANGED <<registries, stopped, row, pc, result, mainVars, crashes, consent>>

ApprovalStep(a) ==
    \/ CheckToken(a) \/ ParkApproval(a) \/ RegisterApproval(a)
    \/ ApprovalAnswered(a) \/ ApprovalUnanswered(a) \/ GiveUp(a)

QuestionStep(q) ==
    \/ AskQuestion(q) \/ ParkQuestion(q) \/ RegisterQuestion(q) \/ QuestionAnswered(q)
    \/ QuestionTimesOut(q) \/ WithdrawQuestion(q) \/ ExpireQuestion(q)

CallStep(p) ==
    \/ p \in Approvals /\ ApprovalStep(p)
    \/ p \in Questions /\ QuestionStep(p)
    \/ ReturnToLoop(p)

MainStep ==
    \/ \E a \in Approvals, d \in Decisions : ResolveApproval(a, d)
    \/ \E q \in Questions : AnswerQuestion(q) \/ CancelQuestion(q) \/ WakeQuestion(q)
    \/ \E c \in Chats : StopChat(c)
    \/ ResolveInteraction \/ CancelInteraction
    \/ ClearApprovals \/ ListPending \/ SettleRow \/ StopEnds

Next ==
    \/ \E p \in Prompts : CallStep(p)
    \/ MainStep \/ Crash \/ Sweep

Spec == Init /\ [][Next]_vars

\* Threads are scheduled and recv_timeout returns; the user owes nothing.
FairSpec == Spec /\ \A p \in Prompts : WF_vars(CallStep(p))

(***************************************************************************)
(* Properties                                                              *)
(***************************************************************************)

\* A tool call that needs an approval runs only if the user allowed that very
\* call: not a timeout, a stop, a crash or the answer to another card lets it run.
CallRunsWithConsent ==
    \A a \in Approvals : result[a] = "allowed" => consent[a] = "allowed"

\* As long as the process lives, a question the interface shows has a call that
\* waits for it, or is about to, or the command that settles its row runs.
PendingQuestionHasWaiter ==
    crashes = 0 =>
    \A q \in Questions :
        row[q] = "pending"
        => \/ pc[q] \in {"asked", "parked", "waiting", "giving_up", "overdue"}
           \/ q \in todo

\* The model is told of an answer only if the transcript shows one.
AnswerIsOnRecord ==
    \A q \in Questions : result[q] = "answered" => row[q] = "answered"

\* "Visibly block their run": while a question of a chat that nobody stopped
\* waits, the chat says that it needs input.
QuestionBlocksVisibly ==
    \A q \in Questions :
        pc[q] = "waiting" /\ reply[q] = "none" /\ PromptChat[q] \notin stopped
        => chatState[PromptChat[q]] = "needs_input"

\* "Duplicate or stale answers are ignored": a question is settled once, by
\* whichever of answer, cancel, stop and timeout comes first.
SettledRowStays ==
    [][\A q \in Questions : row[q] \in {"answered", "cancelled"} => row'[q] = row[q]]_vars

\* The waits, the senders, the commands and the crashes together keep the promise
\* of PromptDesk: a call is told once how its prompt ended, and nothing the user
\* has not done, although the row, the sender and the answer change one by one.
DeskStage(place) ==
    CASE place = "resumed" -> "told"
      [] place = "done" -> "back"
      [] place = "lost" -> "lost"
      [] OTHER -> "open"

Desk == INSTANCE PromptDesk WITH
    stage <- [p \in Prompts |-> DeskStage(pc[p])],
    outcome <- result,
    record <- row

ImplementsPromptDesk == Desk!Spec

\* A call that has begun comes back to its turn, whatever the user does, unless
\* the process dies.
EveryPromptEnds ==
    \A p \in Prompts : pc[p] # "idle" ~> pc[p] \in {"done", "lost"}
=============================================================================
