---------------------------- MODULE PromptsProofs ----------------------------
(***************************************************************************)
(* Theorems about the prompts, for every set of chats, calls and ids and   *)
(* any number of crashes.  The inductive invariant Inv says, beside the    *)
(* types, what the command of the main thread knows (CommandInv), what the *)
(* row and the sender of a question know of each other (RowInv), and that  *)
(* a batch keeps its order (OrderInv).  Two theorems need more of the      *)
(* program's constants and state it as a hypothesis: OwnKeys and           *)
(* QuestionsAlone.                                                         *)
(***************************************************************************)
EXTENDS Prompts, TLAPS

\* Every call has an id of its own.
OwnKeys == \A a, b \in Approvals : CallKey[a] = CallKey[b] => a = b

\* A batch asks its questions one by one, before or after every other call.
QuestionsAlone ==
    \A q \in Questions, p \in Prompts :
        p # q /\ PromptChat[p] = PromptChat[q] => p \in Before[q] \/ q \in Before[p]

\* What the main thread has established when it is at a step of a command.
CommandInv ==
    /\ command = "answering" => subject \in Questions /\ row[subject] = "answered"
    /\ command = "cancelling"
       => subject \in Questions /\ row[subject] \in {"answered", "cancelled"}
    /\ command \in {"clearing", "listing", "waking"} => subject \in stopped
    /\ command = "settling" => subject \in todo /\ PromptChat[subject] \in stopped
    /\ \A q \in todo :
         /\ row[q] # "absent"
         /\ \/ command = "waking" /\ PromptChat[q] = subject
            \/ command = "settling" /\ PromptChat[q] = PromptChat[subject]

\* What the row, the sender and the reply of a question know of each other.
RowInv ==
    \A q \in Questions :
        /\ pc[q] = "idle" => row[q] = "absent" /\ reply[q] = "none" /\ q \notin registered
        /\ reply[q] # "none" => row[q] # "pending" \/ q \in todo
        /\ reply[q] = "answered" \/ result[q] = "answered" => row[q] = "answered"

\* A call that began has seen every call before it return; a dead process has
\* no call under way.
OrderInv ==
    /\ \A p \in Prompts : pc[p] \notin {"idle", "lost"} => \A b \in Before[p] : pc[b] = "done"
    /\ mode = "down" => \A p \in Prompts : pc[p] \in {"done", "lost"}

Inv == TypeOK /\ CommandInv /\ RowInv /\ OrderInv

\* An answer that was sent is the one the user gave on the call's own card.
ConsentInv ==
    /\ \A k \in Keys : approvals[k] # NoPrompt => CallKey[approvals[k]] = k
    /\ \A a \in Approvals : reply[a] = "allowed" => consent[a] = "allowed"
    /\ CallRunsWithConsent

\* A question that is parked in a chat nobody stopped shows in the chat's state.
VisibleInv ==
    \A q \in Questions :
        pc[q] \in {"parked", "waiting"} /\ PromptChat[q] \notin stopped
        => chatState[PromptChat[q]] = "needs_input"

-------------------------------------------------------------------------------
(* Types *)

\* A step of an approval preserves type correctness.
LEMMA TypeOKApproval == ASSUME Inv, NEW a \in Approvals, ApprovalStep(a) PROVE TypeOK'
<1> USE PromptsAssumption DEF Inv, TypeOK, Prompts, Places, Results, Replies, ChatStates,
        Goto, Reached, SetChat, Resume, registries, mainVars
<1>1. CASE CheckToken(a)
  BY <1>1 DEF CheckToken
<1>2. CASE ParkApproval(a)
  BY <1>2 DEF ParkApproval
<1>3. CASE RegisterApproval(a)
  BY <1>3 DEF RegisterApproval
<1>4. CASE ApprovalAnswered(a)
  BY <1>4 DEF ApprovalAnswered
<1>5. CASE ApprovalUnanswered(a)
  BY <1>5 DEF ApprovalUnanswered
<1>6. CASE GiveUp(a)
  BY <1>6 DEF GiveUp
<1> QED
  BY <1>1, <1>2, <1>3, <1>4, <1>5, <1>6 DEF ApprovalStep

\* A step of a question, and the return of any call, preserve type correctness.
LEMMA TypeOKQuestion == ASSUME Inv, NEW q \in Questions, QuestionStep(q) PROVE TypeOK'
<1> USE PromptsAssumption DEF Inv, TypeOK, Prompts, Places, Results, Replies, Rows, ChatStates,
        Goto, Reached, SetChat, Resume, RowCancelled, registries, mainVars
<1>1. CASE AskQuestion(q)
  BY <1>1 DEF AskQuestion
<1>2. CASE ParkQuestion(q)
  BY <1>2 DEF ParkQuestion
<1>3. CASE RegisterQuestion(q)
  BY <1>3 DEF RegisterQuestion
<1>4. CASE QuestionAnswered(q)
  BY <1>4 DEF QuestionAnswered
<1>5. CASE QuestionTimesOut(q)
  BY <1>5 DEF QuestionTimesOut
<1>6. CASE WithdrawQuestion(q)
  BY <1>6 DEF WithdrawQuestion
<1>7. CASE ExpireQuestion(q)
  BY <1>7 DEF ExpireQuestion
<1> QED
  BY <1>1, <1>2, <1>3, <1>4, <1>5, <1>6, <1>7 DEF QuestionStep

\* A step of the main thread preserves type correctness.
LEMMA TypeOKMain == ASSUME Inv, MainStep PROVE TypeOK'
<1> USE PromptsAssumption DEF Inv, TypeOK, Prompts, Replies, Rows, ChatStates, Commands,
        Continue, Deliver, RowCancelled, registries, mainVars
<1>1. ASSUME NEW a \in Approvals, NEW d \in Decisions, ResolveApproval(a, d) PROVE TypeOK'
  <2>1. Verdict(d) \in Replies
    BY DEF Verdict
  <2>2. CallKey[a] \in Keys
    OBVIOUS
  <2> QED
    BY <1>1, <2>1, <2>2 DEF ResolveApproval
<1>2. ASSUME NEW q \in Questions, AnswerQuestion(q) PROVE TypeOK'
  BY <1>2 DEF AnswerQuestion
<1>3. ASSUME NEW q \in Questions, CancelQuestion(q) PROVE TypeOK'
  BY <1>3 DEF CancelQuestion
<1>4. ASSUME NEW q \in Questions, WakeQuestion(q) PROVE TypeOK'
  BY <1>4 DEF WakeQuestion
<1>5. ASSUME NEW c \in Chats, StopChat(c) PROVE TypeOK'
  BY <1>5 DEF StopChat
<1>6. CASE ResolveInteraction
  BY <1>6 DEF ResolveInteraction
<1>7. CASE CancelInteraction
  BY <1>7 DEF CancelInteraction
<1>8. CASE ClearApprovals
  BY <1>8 DEF ClearApprovals
<1>9. CASE ListPending
  BY <1>9 DEF ListPending
<1>10. CASE SettleRow
  BY <1>10 DEF SettleRow, CommandInv
<1>11. CASE StopEnds
  BY <1>11 DEF StopEnds
<1> QED
  BY <1>1, <1>2, <1>3, <1>4, <1>5, <1>6, <1>7, <1>8, <1>9, <1>10, <1>11 DEF MainStep

\* Every step preserves type correctness.
LEMMA TypeOKNext == ASSUME Inv, Next PROVE TypeOK'
<1>1. ASSUME NEW p \in Prompts, ReturnToLoop(p) PROVE TypeOK'
  BY <1>1, PromptsAssumption
     DEF ReturnToLoop, Inv, TypeOK, Prompts, Places, ChatStates, Goto, SetChat, registries, mainVars
<1>2. CASE Crash
  BY <1>2, PromptsAssumption
     DEF Crash, Inv, TypeOK, Prompts, Places, Results, Replies, Commands, Continue
<1>3. CASE Sweep
  BY <1>3 DEF Sweep, Inv, TypeOK, ChatStates, registries, mainVars
<1> QED
  BY <1>1, <1>2, <1>3, TypeOKApproval, TypeOKQuestion, TypeOKMain DEF Next, CallStep

-------------------------------------------------------------------------------
(* The inductive invariant *)

\* A step of a call keeps what the main thread has established: no call settles
\* a row back, and none touches the command.
LEMMA CommandCall ==
    ASSUME Inv, NEW p \in Prompts, CallStep(p)
    PROVE  CommandInv'
<1>1. \A q \in Questions : row[q] # "absent" => row'[q] # "absent"
  BY DEF CallStep, ApprovalStep, QuestionStep, CheckToken, ParkApproval, RegisterApproval,
         ApprovalAnswered, ApprovalUnanswered, GiveUp, AskQuestion, ParkQuestion,
         RegisterQuestion, QuestionAnswered, QuestionTimesOut, WithdrawQuestion, ExpireQuestion,
         ReturnToLoop, RowCancelled, Inv, TypeOK
<1>2. \A q \in Questions : row[q] \in {"answered", "cancelled"} => row'[q] = row[q]
  BY DEF CallStep, ApprovalStep, QuestionStep, CheckToken, ParkApproval, RegisterApproval,
         ApprovalAnswered, ApprovalUnanswered, GiveUp, AskQuestion, ParkQuestion,
         RegisterQuestion, QuestionAnswered, QuestionTimesOut, WithdrawQuestion, ExpireQuestion,
         ReturnToLoop, RowCancelled, Reached, Inv, TypeOK, RowInv
<1>3. UNCHANGED <<command, subject, todo, stopped>>
  BY DEF CallStep, ApprovalStep, QuestionStep, CheckToken, ParkApproval, RegisterApproval,
         ApprovalAnswered, ApprovalUnanswered, GiveUp, AskQuestion, ParkQuestion,
         RegisterQuestion, QuestionAnswered, QuestionTimesOut, WithdrawQuestion, ExpireQuestion,
         ReturnToLoop, mainVars
<1> QED
  BY <1>1, <1>2, <1>3 DEF Inv, TypeOK, CommandInv

\* A step of the main thread establishes what its next step relies on.
LEMMA CommandMain == ASSUME Inv, MainStep PROVE CommandInv'
<1> USE PromptsAssumption DEF Inv, TypeOK, Rows, CommandInv, MainFree, Continue, RowCancelled,
        registries, mainVars, Prompts
<1>1. ASSUME NEW a \in Approvals, NEW d \in Decisions, ResolveApproval(a, d) PROVE CommandInv'
  BY <1>1 DEF ResolveApproval
<1>2. ASSUME NEW q \in Questions, AnswerQuestion(q) PROVE CommandInv'
  BY <1>2 DEF AnswerQuestion
<1>3. ASSUME NEW q \in Questions, CancelQuestion(q) PROVE CommandInv'
  BY <1>3 DEF CancelQuestion
<1>4. ASSUME NEW q \in Questions, WakeQuestion(q) PROVE CommandInv'
  BY <1>4 DEF WakeQuestion
<1>5. ASSUME NEW c \in Chats, StopChat(c) PROVE CommandInv'
  BY <1>5 DEF StopChat
<1>6. CASE ResolveInteraction
  BY <1>6 DEF ResolveInteraction
<1>7. CASE CancelInteraction
  BY <1>7 DEF CancelInteraction
<1>8. CASE ClearApprovals
  BY <1>8 DEF ClearApprovals
<1>9. CASE ListPending
  BY <1>9 DEF ListPending
<1>10. CASE SettleRow
  BY <1>10 DEF SettleRow
<1>11. CASE StopEnds
  BY <1>11 DEF StopEnds
<1> QED
  BY <1>1, <1>2, <1>3, <1>4, <1>5, <1>6, <1>7, <1>8, <1>9, <1>10, <1>11 DEF MainStep

\* A step of a call keeps row and sender of every question in agreement.
LEMMA RowCall == ASSUME Inv, NEW p \in Prompts, CallStep(p) PROVE RowInv'
<1> USE PromptsAssumption DEF Inv, TypeOK, RowInv, Prompts, Goto, Reached, SetChat, Resume,
        RowCancelled, registries, mainVars
<1>1. CASE p \in Approvals /\ ApprovalStep(p)
  <2>1. \A q \in Questions : pc'[q] = pc[q] /\ result'[q] = result[q]
    BY <1>1 DEF ApprovalStep, CheckToken, ParkApproval, RegisterApproval, ApprovalAnswered,
                ApprovalUnanswered, GiveUp
  <2>2. UNCHANGED <<row, reply, registered, todo>>
    BY <1>1 DEF ApprovalStep, CheckToken, ParkApproval, RegisterApproval, ApprovalAnswered,
                ApprovalUnanswered, GiveUp
  <2> QED
    BY <2>1, <2>2
<1>2. CASE p \in Questions /\ AskQuestion(p)
  BY <1>2 DEF AskQuestion
<1>3. CASE p \in Questions /\ ParkQuestion(p)
  BY <1>3 DEF ParkQuestion
<1>4. CASE p \in Questions /\ RegisterQuestion(p)
  BY <1>4 DEF RegisterQuestion
<1>5. CASE p \in Questions /\ QuestionAnswered(p)
  BY <1>5 DEF QuestionAnswered
<1>6. CASE p \in Questions /\ QuestionTimesOut(p)
  BY <1>6 DEF QuestionTimesOut
<1>7. CASE p \in Questions /\ WithdrawQuestion(p)
  BY <1>7 DEF WithdrawQuestion
<1>8. CASE p \in Questions /\ ExpireQuestion(p)
  BY <1>8 DEF ExpireQuestion
<1>9. CASE ReturnToLoop(p)
  BY <1>9 DEF ReturnToLoop
<1> QED
  BY <1>1, <1>2, <1>3, <1>4, <1>5, <1>6, <1>7, <1>8, <1>9 DEF CallStep, QuestionStep

\* A step of the main thread keeps row and sender of every question in agreement.
LEMMA RowMain == ASSUME Inv, MainStep PROVE RowInv'
<1> USE PromptsAssumption DEF Inv, TypeOK, RowInv, CommandInv, Prompts, MainFree, Continue,
        Deliver, RowCancelled, registries, mainVars
<1>1. ASSUME NEW a \in Approvals, NEW d \in Decisions, ResolveApproval(a, d) PROVE RowInv'
  <2>1. \A q \in Questions : reply'[q] = reply[q]
    BY <1>1 DEF ResolveApproval
  <2> QED
    BY <1>1, <2>1 DEF ResolveApproval
<1>2. ASSUME NEW q \in Questions, AnswerQuestion(q) PROVE RowInv'
  BY <1>2 DEF AnswerQuestion
<1>3. ASSUME NEW q \in Questions, CancelQuestion(q) PROVE RowInv'
  BY <1>3 DEF CancelQuestion
<1>4. ASSUME NEW q \in Questions, WakeQuestion(q) PROVE RowInv'
  BY <1>4 DEF WakeQuestion
<1>5. ASSUME NEW c \in Chats, StopChat(c) PROVE RowInv'
  BY <1>5 DEF StopChat
<1>6. CASE ResolveInteraction
  BY <1>6 DEF ResolveInteraction
<1>7. CASE CancelInteraction
  BY <1>7 DEF CancelInteraction
<1>8. CASE ClearApprovals
  BY <1>8 DEF ClearApprovals
<1>9. CASE ListPending
  BY <1>9 DEF ListPending
<1>10. CASE SettleRow
  BY <1>10 DEF SettleRow
<1>11. CASE StopEnds
  BY <1>11 DEF StopEnds
<1> QED
  BY <1>1, <1>2, <1>3, <1>4, <1>5, <1>6, <1>7, <1>8, <1>9, <1>10, <1>11 DEF MainStep

\* A step of a call keeps the order of its batch.
LEMMA OrderCall == ASSUME Inv, NEW p \in Prompts, CallStep(p) PROVE OrderInv'
<1> USE PromptsAssumption DEF Inv, TypeOK, OrderInv, Goto, Resume
<1>1. \A b \in Prompts : b # p => pc'[b] = pc[b]
  BY DEF CallStep, ApprovalStep, QuestionStep, CheckToken, ParkApproval, RegisterApproval,
         ApprovalAnswered, ApprovalUnanswered, GiveUp, AskQuestion, ParkQuestion,
         RegisterQuestion, QuestionAnswered, QuestionTimesOut, WithdrawQuestion, ExpireQuestion,
         ReturnToLoop
<1>2. pc[p] \notin {"done", "lost"}
  BY DEF CallStep, ApprovalStep, QuestionStep, CheckToken, ParkApproval, RegisterApproval,
         ApprovalAnswered, ApprovalUnanswered, GiveUp, AskQuestion, ParkQuestion,
         RegisterQuestion, QuestionAnswered, QuestionTimesOut, WithdrawQuestion, ExpireQuestion,
         ReturnToLoop, Reached
<1>3. pc[p] = "idle" => \A b \in Before[p] : pc[b] = "done"
  BY DEF CallStep, ApprovalStep, QuestionStep, CheckToken, ParkApproval, RegisterApproval,
         ApprovalAnswered, ApprovalUnanswered, GiveUp, AskQuestion, ParkQuestion,
         RegisterQuestion, QuestionAnswered, QuestionTimesOut, WithdrawQuestion, ExpireQuestion,
         ReturnToLoop, Reached
<1>4. mode' = mode
  BY DEF CallStep, ApprovalStep, QuestionStep, CheckToken, ParkApproval, RegisterApproval,
         ApprovalAnswered, ApprovalUnanswered, GiveUp, AskQuestion, ParkQuestion,
         RegisterQuestion, QuestionAnswered, QuestionTimesOut, WithdrawQuestion, ExpireQuestion,
         ReturnToLoop
<1> QED
  BY <1>1, <1>2, <1>3, <1>4

\* The main thread moves no call.
LEMMA MainMovesNoCall == ASSUME MainStep PROVE UNCHANGED <<pc, result, mode, crashes>>
BY DEF MainStep, ResolveApproval, AnswerQuestion, CancelQuestion, WakeQuestion, StopChat,
       ResolveInteraction, CancelInteraction, ClearApprovals, ListPending, SettleRow, StopEnds

\* Inv is inductive.
LEMMA InvNext == ASSUME Inv, [Next]_vars PROVE Inv'
<1>1. CASE UNCHANGED vars
  BY <1>1 DEF vars, registries, mainVars, Inv, TypeOK, CommandInv, RowInv, OrderInv
<1>2. ASSUME NEW p \in Prompts, CallStep(p) PROVE Inv'
  BY <1>2, TypeOKNext, CommandCall, RowCall, OrderCall DEF Inv, Next
<1>3. CASE MainStep
  <2>1. OrderInv'
    BY <1>3, MainMovesNoCall DEF Inv, OrderInv
  <2> QED
    BY <1>3, <2>1, TypeOKNext, CommandMain, RowMain DEF Inv, Next
<1>4. CASE Crash
  <2>1. CommandInv' /\ OrderInv'
    BY <1>4, PromptsAssumption DEF Crash, Continue, CommandInv, OrderInv, Inv, TypeOK
  <2>2. RowInv'
    BY <1>4, PromptsAssumption DEF Crash, RowInv, Inv, TypeOK, Prompts
  <2> QED
    BY <1>4, <2>1, <2>2, TypeOKNext DEF Inv, Next
<1>5. CASE Sweep
  <2>1. CommandInv' /\ RowInv' /\ OrderInv'
    BY <1>5 DEF Sweep, registries, mainVars, CommandInv, RowInv, OrderInv, Inv
  <2> QED
    BY <1>5, <2>1, TypeOKNext DEF Inv, Next
<1> QED
  BY <1>1, <1>2, <1>3, <1>4, <1>5 DEF Next

\* Inv holds initially.
LEMMA InvInit == ASSUME Init PROVE Inv
BY PromptsAssumption
   DEF Init, Inv, TypeOK, CommandInv, RowInv, OrderInv, Prompts, Places, Results, Replies, Rows,
       ChatStates, Commands

\* Inv holds in every reachable state.
THEOREM InvHolds == Spec => []Inv
BY InvInit, InvNext, PTL DEF Spec

-------------------------------------------------------------------------------
(* Safety *)

\* Type correctness of the registries, rows, calls and the main thread.
THEOREM TypeCorrect == Spec => []TypeOK
BY InvHolds, PTL DEF Inv

\* execute_ask_user, await_interaction and the commands that settle a question:
\* as long as the process lives, a pending row has a call that waits for it.
THEOREM QuestionsHaveWaiters == Spec => []PendingQuestionHasWaiter
<1>1. Init => PendingQuestionHasWaiter
  BY DEF Init, PendingQuestionHasWaiter
<1>2. ASSUME Inv, PendingQuestionHasWaiter, [Next]_vars PROVE PendingQuestionHasWaiter'
  <2> USE PromptsAssumption, <1>2 DEF PendingQuestionHasWaiter, Inv, TypeOK, Prompts
  <2>1. CASE UNCHANGED vars
    BY <2>1 DEF vars, mainVars
  <2>2. ASSUME NEW p \in Prompts, CallStep(p) PROVE PendingQuestionHasWaiter'
    <3> USE DEF RowInv, Goto, Reached, SetChat, Resume, RowCancelled, mainVars
    <3>1. CASE p \in Approvals /\ ApprovalStep(p)
      <4>1. \A q \in Questions : pc'[q] = pc[q]
        BY <3>1 DEF ApprovalStep, CheckToken, ParkApproval, RegisterApproval, ApprovalAnswered,
                    ApprovalUnanswered, GiveUp
      <4>2. UNCHANGED <<row, todo, crashes>>
        BY <3>1 DEF ApprovalStep, CheckToken, ParkApproval, RegisterApproval, ApprovalAnswered,
                    ApprovalUnanswered, GiveUp
      <4> QED
        BY <4>1, <4>2
    <3>2. CASE p \in Questions /\ (AskQuestion(p) \/ ParkQuestion(p) \/ RegisterQuestion(p))
      BY <3>2 DEF AskQuestion, ParkQuestion, RegisterQuestion
    <3>3. CASE p \in Questions /\ QuestionAnswered(p)
      BY <3>3 DEF QuestionAnswered
    <3>4. CASE p \in Questions /\ (QuestionTimesOut(p) \/ WithdrawQuestion(p))
      BY <3>4 DEF QuestionTimesOut, WithdrawQuestion
    <3>5. CASE p \in Questions /\ ExpireQuestion(p)
      BY <3>5 DEF ExpireQuestion
    <3>6. CASE ReturnToLoop(p)
      BY <3>6 DEF ReturnToLoop
    <3> QED
      BY <2>2, <3>1, <3>2, <3>3, <3>4, <3>5, <3>6 DEF CallStep, QuestionStep
  <2>3. CASE MainStep
    <3> USE DEF CommandInv, MainFree, Continue, RowCancelled, mainVars
    <3>1. UNCHANGED <<pc, crashes>>
      BY <2>3, MainMovesNoCall
    <3>2. ASSUME NEW q \in Questions, row'[q] = "pending", q \in todo PROVE q \in todo'
      BY <2>3, <3>2
         DEF MainStep, ResolveApproval, AnswerQuestion, CancelQuestion, WakeQuestion, StopChat,
             ResolveInteraction, CancelInteraction, ClearApprovals, ListPending, SettleRow,
             StopEnds
    <3>3. ASSUME NEW q \in Questions, row'[q] = "pending" PROVE row[q] = "pending"
      BY <2>3, <3>3
         DEF MainStep, ResolveApproval, AnswerQuestion, CancelQuestion, WakeQuestion, StopChat,
             ResolveInteraction, CancelInteraction, ClearApprovals, ListPending, SettleRow,
             StopEnds
    <3> QED
      BY <3>1, <3>2, <3>3
  <2>4. CASE Crash
    BY <2>4 DEF Crash
  <2>5. CASE Sweep
    BY <2>5 DEF Sweep, mainVars
  <2> QED
    BY <1>2, <2>1, <2>2, <2>3, <2>4, <2>5 DEF Next
<1> QED
  BY <1>1, <1>2, InvHolds, PTL DEF Spec

\* No answer reaches the model that the transcript does not show.
THEOREM AnswersAreOnRecord == Spec => []AnswerIsOnRecord
<1>1. Inv => AnswerIsOnRecord
  BY DEF Inv, RowInv, AnswerIsOnRecord
<1> QED
  BY <1>1, InvHolds, PTL

\* Of answer, cancel, stop and timeout, the first to write the row settles it.
THEOREM SettledRowsStay == Spec => SettledRowStays
<1> DEFINE Settles == \A q \in Questions : row[q] \in {"answered", "cancelled"} => row'[q] = row[q]
<1>1. ASSUME Inv, [Next]_vars PROVE Settles
  <2> USE DEF RowCancelled, Inv, TypeOK
  <2>1. CASE UNCHANGED vars
    BY <2>1 DEF vars
  <2>2. ASSUME NEW p \in Prompts, CallStep(p) PROVE Settles
    BY <1>1, <2>2
       DEF CallStep, ApprovalStep, QuestionStep, CheckToken, ParkApproval, RegisterApproval,
           ApprovalAnswered, ApprovalUnanswered, GiveUp, AskQuestion, ParkQuestion,
           RegisterQuestion, QuestionAnswered, QuestionTimesOut, WithdrawQuestion,
           ExpireQuestion, ReturnToLoop, Reached, RowInv
  <2>3. CASE MainStep
    BY <1>1, <2>3
       DEF MainStep, ResolveApproval, AnswerQuestion, CancelQuestion, WakeQuestion, StopChat,
           ResolveInteraction, CancelInteraction, ClearApprovals, ListPending, SettleRow,
           StopEnds
  <2>4. CASE Crash \/ Sweep
    BY <2>4 DEF Crash, Sweep
  <2> QED
    BY <1>1, <2>1, <2>2, <2>3, <2>4 DEF Next
<1>2. ASSUME Inv, [Next]_vars PROVE [Settles]_vars
  BY <1>1, <1>2
<1> QED
  BY <1>2, InvHolds, PTL DEF Spec, SettledRowStays

\* await_approval and resolve_approval: where every call has an id of its own,
\* no call runs that the user has not allowed.
THEOREM CallsRunWithConsent == ASSUME OwnKeys PROVE Spec => []CallRunsWithConsent
<1>1. Init => ConsentInv
  BY PromptsAssumption DEF Init, ConsentInv, CallRunsWithConsent, Prompts
<1>2. ASSUME Inv, ConsentInv, [Next]_vars PROVE ConsentInv'
  <2> USE PromptsAssumption, <1>2
      DEF ConsentInv, CallRunsWithConsent, Inv, TypeOK, Prompts, registries
  <2>1. CASE UNCHANGED vars
    BY <2>1 DEF vars
  <2>2. ASSUME NEW p \in Prompts, CallStep(p) PROVE ConsentInv'
    <3> USE DEF Goto, Resume
    <3>1. CASE p \in Questions /\ QuestionStep(p)
      <4>1. \A a \in Approvals : result'[a] = result[a]
        BY <3>1 DEF QuestionStep, AskQuestion, ParkQuestion, RegisterQuestion, QuestionAnswered,
                    QuestionTimesOut, WithdrawQuestion, ExpireQuestion
      <4>2. UNCHANGED <<approvals, reply, consent>>
        BY <3>1 DEF QuestionStep, AskQuestion, ParkQuestion, RegisterQuestion, QuestionAnswered,
                    QuestionTimesOut, WithdrawQuestion, ExpireQuestion
      <4> QED
        BY <4>1, <4>2
    <3>2. CASE p \in Approvals /\ CheckToken(p)
      BY <3>2 DEF CheckToken
    <3>3. CASE p \in Approvals /\ ParkApproval(p)
      BY <3>3 DEF ParkApproval
    <3>4. CASE p \in Approvals /\ RegisterApproval(p)
      BY <3>4 DEF RegisterApproval
    <3>5. CASE p \in Approvals /\ ApprovalAnswered(p)
      BY <3>5 DEF ApprovalAnswered
    <3>6. CASE p \in Approvals /\ ApprovalUnanswered(p)
      BY <3>6 DEF ApprovalUnanswered
    <3>7. CASE p \in Approvals /\ GiveUp(p)
      BY <3>7 DEF GiveUp
    <3>8. CASE ReturnToLoop(p)
      BY <3>8 DEF ReturnToLoop
    <3> QED
      BY <2>2, <3>1, <3>2, <3>3, <3>4, <3>5, <3>6, <3>7, <3>8 DEF CallStep, ApprovalStep
  <2>3. ASSUME NEW a \in Approvals, NEW d \in Decisions, ResolveApproval(a, d) PROVE ConsentInv'
    <3>1. \A k \in Keys : approvals'[k] # NoPrompt => CallKey[approvals'[k]] = k
      BY <2>3 DEF ResolveApproval
    <3>2. approvals[CallKey[a]] \in {a, NoPrompt}
      BY OwnKeys DEF OwnKeys
    <3>3. Verdict(d) = "allowed" => consent'[a] = "allowed"
      BY <2>3 DEF ResolveApproval, Verdict, Decisions
    <3>4. \A b \in Approvals : reply'[b] = "allowed" => consent'[b] = "allowed"
      BY <2>3, <3>2, <3>3 DEF ResolveApproval
    <3>5. CallRunsWithConsent'
      BY <2>3 DEF ResolveApproval
    <3> QED
      BY <3>1, <3>4, <3>5
  <2>4. CASE ResolveInteraction \/ CancelInteraction \/ \E q \in Questions : WakeQuestion(q)
    BY <2>4 DEF ResolveInteraction, CancelInteraction, WakeQuestion, Deliver
  <2>5. CASE ClearApprovals
    BY <2>5 DEF ClearApprovals
  <2>6. CASE \/ \E q \in Questions : AnswerQuestion(q) \/ CancelQuestion(q)
             \/ \E c \in Chats : StopChat(c)
             \/ ListPending \/ SettleRow \/ StopEnds \/ Sweep
    BY <2>6 DEF AnswerQuestion, CancelQuestion, StopChat, ListPending, SettleRow, StopEnds, Sweep
  <2>7. CASE Crash
    BY <2>7 DEF Crash
  <2> QED
    BY <2>1, <2>2, <2>3, <2>4, <2>5, <2>6, <2>7 DEF Next, MainStep
<1>3. ConsentInv => CallRunsWithConsent
  BY DEF ConsentInv
<1> QED
  BY <1>1, <1>2, <1>3, InvHolds, PTL DEF Spec

\* chat_needs_input before the wait: where questions are asked alone, the chat
\* of a waiting question says so until somebody stops it.
THEOREM QuestionsBlockVisibly == ASSUME QuestionsAlone PROVE Spec => []QuestionBlocksVisibly
<1>1. Init => VisibleInv
  BY DEF Init, VisibleInv, Prompts
<1>2. ASSUME Inv, VisibleInv, [Next]_vars PROVE VisibleInv'
  <2> USE PromptsAssumption, <1>2 DEF VisibleInv, Inv, TypeOK, Prompts
  <2>1. CASE UNCHANGED vars
    BY <2>1 DEF vars
  <2>2. ASSUME NEW p \in Prompts, CallStep(p) PROVE VisibleInv'
    <3> USE DEF Goto, SetChat, Resume
    <3>1. ASSUME NEW q \in Questions, q # p, PromptChat[q] = PromptChat[p],
                 pc[q] \in {"parked", "waiting"}
          PROVE  FALSE
      <4>1. pc[p] \notin {"done", "lost"}
        BY <2>2 DEF CallStep, ApprovalStep, QuestionStep, CheckToken, ParkApproval,
             RegisterApproval, ApprovalAnswered, ApprovalUnanswered, GiveUp, AskQuestion,
             ParkQuestion, RegisterQuestion, QuestionAnswered, QuestionTimesOut,
             WithdrawQuestion, ExpireQuestion, ReturnToLoop, Reached
      <4>2. pc[p] = "idle" => \A b \in Before[p] : pc[b] = "done"
        BY <2>2 DEF CallStep, ApprovalStep, QuestionStep, CheckToken, ParkApproval,
             RegisterApproval, ApprovalAnswered, ApprovalUnanswered, GiveUp, AskQuestion,
             ParkQuestion, RegisterQuestion, QuestionAnswered, QuestionTimesOut,
             WithdrawQuestion, ExpireQuestion, ReturnToLoop, Reached
      <4>3. p \in Before[q] \/ q \in Before[p]
        BY <3>1, QuestionsAlone DEF QuestionsAlone
      <4> QED
        BY <3>1, <4>1, <4>2, <4>3 DEF OrderInv
    <3>2. \A q \in Questions : q # p => pc'[q] = pc[q]
      BY <2>2 DEF CallStep, ApprovalStep, QuestionStep, CheckToken, ParkApproval,
           RegisterApproval, ApprovalAnswered, ApprovalUnanswered, GiveUp, AskQuestion,
           ParkQuestion, RegisterQuestion, QuestionAnswered, QuestionTimesOut,
           WithdrawQuestion, ExpireQuestion, ReturnToLoop
    <3>3. stopped' = stopped /\ \A c \in Chats : c # PromptChat[p] => chatState'[c] = chatState[c]
      BY <2>2 DEF CallStep, ApprovalStep, QuestionStep, CheckToken, ParkApproval,
           RegisterApproval, ApprovalAnswered, ApprovalUnanswered, GiveUp, AskQuestion,
           ParkQuestion, RegisterQuestion, QuestionAnswered, QuestionTimesOut,
           WithdrawQuestion, ExpireQuestion, ReturnToLoop
    <3>4. p \in Questions /\ pc'[p] \in {"parked", "waiting"} /\ PromptChat[p] \notin stopped
          => chatState'[PromptChat[p]] = "needs_input"
      BY <2>2 DEF CallStep, ApprovalStep, QuestionStep, CheckToken, ParkApproval,
           RegisterApproval, ApprovalAnswered, ApprovalUnanswered, GiveUp, AskQuestion,
           ParkQuestion, RegisterQuestion, QuestionAnswered, QuestionTimesOut,
           WithdrawQuestion, ExpireQuestion, ReturnToLoop
    <3> QED
      BY <3>1, <3>2, <3>3, <3>4
  <2>3. CASE MainStep
    <3>1. UNCHANGED pc
      BY <2>3, MainMovesNoCall
    <3>2. stopped \subseteq stopped'
      BY <2>3 DEF MainStep, ResolveApproval, AnswerQuestion, CancelQuestion, WakeQuestion,
           StopChat, ResolveInteraction, CancelInteraction, ClearApprovals, ListPending,
           SettleRow, StopEnds
    <3>3. \A c \in Chats : chatState'[c] # chatState[c] => c \in stopped
      BY <2>3 DEF MainStep, ResolveApproval, AnswerQuestion, CancelQuestion, WakeQuestion,
           StopChat, ResolveInteraction, CancelInteraction, ClearApprovals, ListPending,
           SettleRow, StopEnds, CommandInv
    <3> QED
      BY <3>1, <3>2, <3>3
  <2>4. CASE Crash
    BY <2>4 DEF Crash
  <2>5. CASE Sweep
    BY <2>5 DEF Sweep, OrderInv
  <2> QED
    BY <1>2, <2>1, <2>2, <2>3, <2>4, <2>5 DEF Next
<1>3. VisibleInv => QuestionBlocksVisibly
  BY DEF VisibleInv, QuestionBlocksVisibly
<1> QED
  BY <1>1, <1>2, <1>3, InvHolds, PTL DEF Spec

-------------------------------------------------------------------------------
(* Prompts implements PromptDesk                                               *)

\* The user has allowed a card with the id of call a: its own, where ids do not
\* repeat.
Allowed(a) == \E b \in Approvals : CallKey[b] = CallKey[a] /\ consent[b] = "allowed"

\* What is sent to a call is of its kind, a call under way has shown its question,
\* and a call lies under its own id, where only a card of that id finds it.
ReplyInv ==
    /\ \A a \in Approvals : reply[a] \in {"none", "allowed", "denied"}
    /\ \A q \in Questions : reply[q] \in {"none", "answered", "cancelled"}
AskedInv ==
    \A q \in Questions :
        pc[q] \in {"asked", "parked", "waiting", "giving_up", "overdue"} => row[q] # "absent"
CardInv ==
    /\ \A k \in Keys : approvals[k] # NoPrompt => CallKey[approvals[k]] = k
    /\ \A a \in Approvals : reply[a] = "allowed" => Allowed(a)

DeskInv == ReplyInv /\ AskedInv /\ CardInv

\* A click reaches a call of the id of its card.
LEMMA ClickKeepsDesk ==
  ASSUME Inv, DeskInv, NEW a \in Approvals, NEW d \in Decisions, ResolveApproval(a, d)
  PROVE  DeskInv'
<1> USE PromptsAssumption DEF Inv, TypeOK, Prompts
<1>1. /\ approvals' = [approvals EXCEPT ![CallKey[a]] = NoPrompt]
      /\ consent' = [consent EXCEPT ![a] = IF d = "deny" THEN "denied" ELSE "allowed"]
      /\ consent[a] = "none" /\ UNCHANGED <<pc, row>>
  BY DEF ResolveApproval
<1>2. \A b \in Approvals : Allowed(b) => Allowed(b)'
  BY <1>1 DEF Allowed
<1>3. Verdict(d) \in {"allowed", "denied"} /\ (Verdict(d) = "allowed" => consent'[a] = "allowed")
  BY <1>1 DEF Verdict, Decisions
<1>4. CASE reply' = reply
  BY <1>1, <1>2, <1>4 DEF DeskInv, ReplyInv, AskedInv, CardInv
<1>5. CASE reply' # reply
  <2>1. PICK b \in Approvals : b = approvals[CallKey[a]] /\ reply' = [reply EXCEPT ![b] = Verdict(d)]
    BY <1>5 DEF ResolveApproval
  <2>2. CallKey[b] = CallKey[a]
    BY <2>1 DEF DeskInv, CardInv
  <2>3. Verdict(d) = "allowed" => Allowed(b)'
    BY <1>3, <2>2 DEF Allowed
  <2>4. ReplyInv'
    BY <1>3, <2>1 DEF DeskInv, ReplyInv
  <2>5. CardInv'
    BY <1>1, <1>2, <2>1, <2>3 DEF DeskInv, CardInv
  <2>6. AskedInv'
    BY <1>1 DEF DeskInv, AskedInv
  <2> QED
    BY <2>4, <2>5, <2>6 DEF DeskInv
<1> QED
  BY <1>4, <1>5

LEMMA DeskInvNext ==
  ASSUME Inv, DeskInv, [Next]_vars
  PROVE  DeskInv'
<1> USE PromptsAssumption
    DEF Inv, TypeOK, Prompts, DeskInv, ReplyInv, AskedInv, CardInv, Allowed, registries
<1>1. CASE UNCHANGED vars
  BY <1>1 DEF vars
<1>2. ASSUME NEW a \in Approvals, ApprovalStep(a) PROVE DeskInv'
  BY <1>2 DEF ApprovalStep, CheckToken, ParkApproval, RegisterApproval, ApprovalAnswered,
              ApprovalUnanswered, GiveUp, Goto, Resume
<1>3. ASSUME NEW q \in Questions, QuestionStep(q) PROVE DeskInv'
  BY <1>3 DEF QuestionStep, AskQuestion, ParkQuestion, RegisterQuestion, QuestionAnswered,
              QuestionTimesOut, WithdrawQuestion, ExpireQuestion, RowCancelled, Reached, Goto,
              Resume
<1>4. ASSUME NEW p \in Prompts, ReturnToLoop(p) PROVE DeskInv'
  BY <1>4 DEF ReturnToLoop, Goto
<1>5. ASSUME NEW q \in Questions,
             NEW r \in {"answered", "cancelled"}, Deliver(q, r),
             UNCHANGED <<approvals, consent, pc>>,
             \A x \in Questions : row[x] # "absent" => row'[x] # "absent"
      PROVE  DeskInv'
  BY <1>5 DEF Deliver
<1>6. CASE ResolveInteraction \/ CancelInteraction \/ \E q \in Questions : WakeQuestion(q)
  <2>1. command \in {"answering", "cancelling"} => subject \in Questions
    BY DEF CommandInv
  <2> QED
    BY <1>5, <1>6, <2>1 DEF ResolveInteraction, CancelInteraction, WakeQuestion
<1>7. CASE \/ \E q \in Questions : AnswerQuestion(q) \/ CancelQuestion(q)
           \/ \E c \in Chats : StopChat(c)
           \/ ClearApprovals \/ ListPending \/ SettleRow \/ StopEnds \/ Sweep
  BY <1>7 DEF AnswerQuestion, CancelQuestion, StopChat, ClearApprovals, ListPending, SettleRow,
              StopEnds, Sweep, RowCancelled
<1>8. CASE Crash
  BY <1>8 DEF Crash
<1> QED
  BY <1>1, <1>2, <1>3, <1>4, <1>6, <1>7, <1>8, ClickKeepsDesk DEF Next, CallStep, MainStep

LEMMA DeskInvariant == Spec => []DeskInv
<1>1. Init => DeskInv
  BY DEF Init, DeskInv, ReplyInv, AskedInv, CardInv, Prompts
<1>2. Inv /\ DeskInv /\ [Next]_vars => DeskInv'
  BY DeskInvNext
<1> QED
  BY <1>1, <1>2, InvHolds, PTL DEF Spec

\* The stages of the desk, and how they follow the thread of a call.
Stages == [p \in Prompts |-> DeskStage(pc[p])]

LEMMA StageMoves ==
  ASSUME Inv, NEW p \in Prompts, NEW place \in Places, Goto(p, place)
  PROVE  Stages' = [Stages EXCEPT ![p] = DeskStage(place)]
BY DEF Inv, TypeOK, Goto, Stages

\* A thread that moves on between two places of one stage shows the desk nothing.
LEMMA StageStays ==
  ASSUME Inv, NEW p \in Prompts, NEW place \in Places, Goto(p, place),
         DeskStage(place) = DeskStage(pc[p])
  PROVE  Stages' = Stages
BY StageMoves DEF Stages

\* A wait that ends tells the call.
LEMMA ResumeTells ==
  ASSUME Inv, NEW p \in Prompts, NEW res \in Results, Resume(p, res), UNCHANGED consent,
         pc[p] \in {"waiting", "giving_up", "overdue"}
  PROVE  Desk!Tell(p, res)
<1>1. Stages[p] = "open"
  BY DEF Stages, DeskStage
<1>2. Stages' = [Stages EXCEPT ![p] = "told"]
  BY StageMoves DEF Resume, Places, DeskStage
<1> QED
  BY <1>1, <1>2 DEF Desk!Tell, Stages, Resume

LEMMA ApprovalMaps ==
  ASSUME Inv, DeskInv, NEW a \in Approvals, ApprovalStep(a)
  PROVE  [Desk!Next]_Desk!vars
<1> USE DEF Prompts
<1>1. CASE CheckToken(a)
  <2>1. UNCHANGED <<row, consent>> /\ pc[a] = "idle"
    BY <1>1 DEF CheckToken, Reached
  <2>2. CASE PromptChat[a] \in stopped
    <3>1. Stages[a] = "open" /\ Stages' = [Stages EXCEPT ![a] = "back"]
      BY <1>1, <2>1, <2>2, StageMoves DEF CheckToken, Places, DeskStage, Stages
    <3>2. Desk!Skip(a)
      BY <1>1, <2>1, <2>2, <3>1 DEF CheckToken, Desk!Skip, Stages
    <3> QED
      BY <3>2 DEF Desk!Next
  <2>3. CASE PromptChat[a] \notin stopped
    BY <1>1, <2>1, <2>3, StageStays DEF CheckToken, Places, DeskStage, Stages, Desk!vars
  <2> QED
    BY <2>2, <2>3
<1>2. CASE ParkApproval(a) \/ RegisterApproval(a) \/ ApprovalUnanswered(a)
  BY <1>2, StageStays
     DEF ParkApproval, RegisterApproval, ApprovalUnanswered, Places, DeskStage, Stages, Desk!vars
<1>3. CASE ApprovalAnswered(a)
  <2>1. PICK verdict \in {"allowed", "denied"} : verdict = reply[a]
    BY <1>3 DEF ApprovalAnswered, DeskInv, ReplyInv
  <2>2. Desk!Tell(a, verdict)
    BY <1>3, <2>1, ResumeTells DEF ApprovalAnswered, Results
  <2>3. verdict = "allowed" => Allowed(a)
    BY <2>1 DEF DeskInv, CardInv
  <2>4. Desk!TellApproval(a, verdict)
    BY <1>3, <2>2, <2>3 DEF ApprovalAnswered, Allowed, Desk!TellApproval
  <2> QED
    BY <2>4 DEF Desk!Next
<1>4. CASE GiveUp(a)
  <2>1. Desk!Tell(a, "denied")
    BY <1>4, ResumeTells DEF GiveUp, Results
  <2>2. Desk!TellApproval(a, "denied")
    BY <1>4, <2>1 DEF GiveUp, Desk!TellApproval
  <2> QED
    BY <2>2 DEF Desk!Next
<1> QED
  BY <1>1, <1>2, <1>3, <1>4 DEF ApprovalStep

LEMMA QuestionMaps ==
  ASSUME Inv, DeskInv, NEW q \in Questions, QuestionStep(q)
  PROVE  [Desk!Next]_Desk!vars
<1> USE DEF Prompts
<1>1. CASE AskQuestion(q)
  <2>1. pc[q] = "idle" /\ row[q] = "absent" /\ UNCHANGED <<result, consent>>
    BY <1>1 DEF AskQuestion, Reached, Inv, RowInv
  <2>2. Stages' = Stages
    BY <1>1, <2>1, StageStays DEF AskQuestion, Places, DeskStage
  <2>3. Desk!Ask(q)
    BY <1>1, <2>1, <2>2 DEF AskQuestion, DeskStage, Stages, Desk!Ask
  <2> QED
    BY <2>3 DEF Desk!Next
<1>2. CASE ParkQuestion(q) \/ RegisterQuestion(q) \/ QuestionTimesOut(q) \/ WithdrawQuestion(q)
  BY <1>2, StageStays
     DEF ParkQuestion, RegisterQuestion, QuestionTimesOut, WithdrawQuestion, Places, DeskStage,
         Stages, Desk!vars
<1>3. CASE QuestionAnswered(q)
  <2>1. PICK verdict \in {"answered", "cancelled"} : verdict = reply[q]
    BY <1>3 DEF QuestionAnswered, DeskInv, ReplyInv
  <2>2. Desk!Tell(q, verdict)
    BY <1>3, <2>1, ResumeTells DEF QuestionAnswered, Results
  <2>3. row[q] # "absent" /\ (verdict = "answered" => row[q] = "answered")
    BY <1>3, <2>1 DEF QuestionAnswered, DeskInv, AskedInv, Inv, RowInv
  <2>4. Desk!TellQuestion(q, verdict)
    BY <1>3, <2>2, <2>3 DEF QuestionAnswered, Desk!TellQuestion
  <2> QED
    BY <2>4 DEF Desk!Next
<1>4. CASE ExpireQuestion(q)
  <2>1. Desk!Tell(q, "timeout")
    BY <1>4, ResumeTells DEF ExpireQuestion, Results
  <2>2. row[q] # "absent"
    BY <1>4 DEF ExpireQuestion, DeskInv, AskedInv
  <2>3. Desk!TellTimeout(q)
    BY <1>4, <2>1, <2>2 DEF ExpireQuestion, RowCancelled, Desk!TellTimeout
  <2> QED
    BY <2>3 DEF Desk!Next
<1> QED
  BY <1>1, <1>2, <1>3, <1>4 DEF QuestionStep

\* A row that is cancelled is settled, or was settled before.
LEMMA CancelSettles ==
  ASSUME Inv, NEW q \in Questions, RowCancelled(q), UNCHANGED <<pc, result, consent>>
  PROVE  [Desk!Next]_Desk!vars
<1>1. CASE row[q] = "pending"
  <2>1. Desk!Settle(q, "cancelled")
    BY <1>1 DEF RowCancelled, Desk!Settle
  <2> QED
    BY <2>1 DEF Desk!Next
<1>2. CASE row[q] # "pending"
  <2>1. row' = row
    BY <1>2 DEF RowCancelled, Inv, TypeOK
  <2> QED
    BY <2>1 DEF Desk!vars
<1> QED
  BY <1>1, <1>2

LEMMA MainMaps ==
  ASSUME Inv, MainStep
  PROVE  [Desk!Next]_Desk!vars
<1>0. UNCHANGED <<pc, result>>
  BY MainMovesNoCall
<1>1. ASSUME NEW a \in Approvals, NEW d \in Decisions, ResolveApproval(a, d)
      PROVE  [Desk!Next]_Desk!vars
  <2>1. PICK verdict \in {"allowed", "denied"} : consent' = [consent EXCEPT ![a] = verdict]
    BY <1>1 DEF ResolveApproval
  <2>2. Stages[a] \in {"open", "told"} /\ consent[a] = "none" /\ row' = row
    BY <1>1 DEF ResolveApproval, Stages, DeskStage, Prompts
  <2>3. Desk!Click(a, verdict)
    BY <1>0, <2>1, <2>2 DEF Desk!Click, Stages
  <2> QED
    BY <2>3 DEF Desk!Next
<1>2. ASSUME NEW q \in Questions, AnswerQuestion(q)
      PROVE  [Desk!Next]_Desk!vars
  <2>1. Desk!Settle(q, "answered")
    BY <1>0, <1>2 DEF AnswerQuestion, Desk!Settle
  <2> QED
    BY <2>1 DEF Desk!Next
<1>3. ASSUME NEW q \in Questions, CancelQuestion(q)
      PROVE  [Desk!Next]_Desk!vars
  BY <1>0, <1>3, CancelSettles DEF CancelQuestion
<1>4. CASE SettleRow
  <2>1. subject \in Questions
    BY <1>4 DEF SettleRow, Inv, TypeOK, CommandInv
  <2>2. PICK q \in Questions : q = subject
    BY <2>1
  <2> QED
    BY <1>0, <1>4, <2>2, CancelSettles DEF SettleRow, RowCancelled
<1>5. CASE \/ ResolveInteraction \/ CancelInteraction \/ \E q \in Questions : WakeQuestion(q)
           \/ \E c \in Chats : StopChat(c)
           \/ ClearApprovals \/ ListPending \/ StopEnds
  BY <1>0, <1>5 DEF ResolveInteraction, CancelInteraction, WakeQuestion, StopChat, ClearApprovals,
                    ListPending, StopEnds, Desk!vars
<1> QED
  BY <1>1, <1>2, <1>3, <1>4, <1>5 DEF MainStep

\* Every step is a step of the desk or leaves it alone.
LEMMA DeskStep ==
  ASSUME Inv, DeskInv, [Next]_vars
  PROVE  [Desk!Next]_Desk!vars
<1>1. CASE UNCHANGED vars \/ Sweep
  BY <1>1 DEF vars, Sweep, Desk!vars
<1>2. ASSUME NEW p \in Prompts, ReturnToLoop(p)
      PROVE  [Desk!Next]_Desk!vars
  <2>1. Stages[p] = "told" /\ Stages' = [Stages EXCEPT ![p] = "back"]
    BY <1>2, StageMoves DEF ReturnToLoop, Places, DeskStage, Stages
  <2>2. Desk!Return(p)
    BY <1>2, <2>1 DEF ReturnToLoop, Desk!Return, Stages
  <2> QED
    BY <2>2 DEF Desk!Next, Desk!Prompts, Prompts
<1>3. CASE Crash
  <2>1. \A p \in Prompts : /\ pc'[p] = IF pc[p] = "done" THEN "done" ELSE "lost"
                           /\ Stages[p] = "back" <=> pc[p] = "done"
    BY <1>3 DEF Crash, Stages, DeskStage
  <2>2. Stages' = [p \in Prompts |-> IF Stages[p] = "back" THEN "back" ELSE "lost"]
    BY <2>1 DEF Stages, DeskStage
  <2>3. result' = [p \in Prompts |-> IF Stages[p] = "back" THEN result[p] ELSE "none"]
    BY <1>3, <2>1 DEF Crash
  <2>4. Desk!Die
    BY <1>3, <2>2, <2>3 DEF Crash, Desk!Die, Desk!Prompts, Prompts, Stages
  <2> QED
    BY <2>4 DEF Desk!Next
<1> QED
  BY <1>1, <1>2, <1>3, ApprovalMaps, QuestionMaps, MainMaps DEF Next, CallStep

\* Whatever threads, commands, timeouts and crashes interleave, and even where ids
\* repeat, calls are told once how their prompt ended, and nothing the user has
\* not done.
THEOREM PromptsImplementDesk == Spec => ImplementsPromptDesk
<1>1. Init => Desk!Init
  BY DEF Init, Desk!Init, Desk!Prompts, Prompts, DeskStage
<1>2. Inv /\ DeskInv /\ [Next]_vars => [Desk!Next]_Desk!vars
  BY DeskStep
<1> QED
  BY <1>1, <1>2, InvHolds, DeskInvariant, PTL DEF Spec, ImplementsPromptDesk, Desk!Spec
=============================================================================
