--------------------------- MODULE AgentLoopProofs ---------------------------
(***************************************************************************)
(* Proofs about AgentLoop for every set of chats, runs and steers and      *)
(* every value of the bounds.                                              *)
(***************************************************************************)
EXTENDS AgentLoop, TLAPS

\* The assumptions the module makes on its constants, in one name.
Assumptions == NoRun \notin Runs /\ RunChat \in [Runs -> Chats] /\ SteerChat \in [Steers -> Chats]

\* They are the module's ASSUMEs.
LEMMA AssumptionsHold == Assumptions
  BY NoRunAssumption, ChatAssumption DEF Assumptions

-----------------------------------------------------------------------------
(***************************************************************************)
(* Type correctness.                                                       *)
(***************************************************************************)

\* The initial state is type correct.
LEMMA TypeOKInit == Init => TypeOK
  BY DEF Init, TypeOK, Places, LoopPlaces, Results, Fates

\* A step of a run's thread preserves type correctness.
LEMMA TypeOKRun == ASSUME TypeOK, NEW r \in Runs, RunStep(r) PROVE TypeOK'
<1> USE AssumptionsHold DEF Assumptions, TypeOK, Places, LoopPlaces, Results, Fates,
                            loopVars, steerVars, Goto, Return
<1>1. CASE SetupRequired(r)
  BY <1>1 DEF SetupRequired
<1>2. CASE SendReturns(r)
  BY <1>2 DEF SendReturns
<1>3. CASE Register(r)
  BY <1>3 DEF Register, Executing
<1>4. CASE LoopTop(r)
  <2>1. \/ pc' = [pc EXCEPT ![r] = "unregister"] /\ result' = [result EXCEPT ![r] = "cancelled"]
        \/ pc' = [pc EXCEPT ![r] = "unregister"] /\ result' = [result EXCEPT ![r] = "hit_cap"]
        \/ pc' = [pc EXCEPT ![r] = "provider"] /\ result' = result
    <3> HIDE AssumptionsHold DEF TypeOK
    <3> QED
      BY <1>4 DEF LoopTop
  <2>2. pc' \in [Runs -> Places]
    <3>1. pc \in [Runs -> Places] /\ "unregister" \in Places /\ "provider" \in Places
      OBVIOUS
    <3> HIDE AssumptionsHold DEF TypeOK, Places, LoopPlaces
    <3> QED
      BY <2>1, <3>1
  <2>3. result' \in [Runs -> Results]
    <3>1. result \in [Runs -> Results] /\ {"cancelled", "hit_cap"} \subseteq Results
      OBVIOUS
    <3> HIDE AssumptionsHold DEF TypeOK, Results
    <3> QED
      BY <2>1, <3>1
  <2>4. iteration' \in [Runs -> Nat]
    BY <1>4 DEF LoopTop
  <2> QED
    BY <1>4, <2>2, <2>3, <2>4 DEF LoopTop
<1>5. ASSUME NEW streamed \in BOOLEAN, ProviderFails(r, streamed) PROVE TypeOK'
  BY <1>5 DEF ProviderFails
<1>6. CASE ProviderEmpty(r)
  BY <1>6 DEF ProviderEmpty
<1>7. ASSUME NEW empty \in BOOLEAN, ProviderAnswers(r, empty) PROVE TypeOK'
  BY <1>7 DEF ProviderAnswers
<1>8. CASE ProviderCallsTools(r)
  BY <1>8 DEF ProviderCallsTools
<1>9. CASE DrainSteers(r)
  BY <1>9 DEF DrainSteers, ApplySteers
<1>10. CASE FinishOrSteer(r)
  <2>1. \/ /\ pc' = [pc EXCEPT ![r] = "unregister"]
           /\ result' = [result EXCEPT ![r] = "completed"]
           /\ active' = [active EXCEPT ![RunChat[r]] = NoRun]
        \/ pc' = [pc EXCEPT ![r] = "top"] /\ result' = result /\ active' = active
    <3> HIDE AssumptionsHold DEF TypeOK
    <3> QED
      BY <1>10 DEF FinishOrSteer
  <2>2. pc' \in [Runs -> Places]
    <3>1. pc \in [Runs -> Places] /\ "unregister" \in Places /\ "top" \in Places
      OBVIOUS
    <3> HIDE AssumptionsHold DEF TypeOK, Places, LoopPlaces
    <3> QED
      BY <2>1, <3>1
  <2>3. result' \in [Runs -> Results]
    <3>1. result \in [Runs -> Results] /\ {"completed"} \subseteq Results
      OBVIOUS
    <3> HIDE AssumptionsHold DEF TypeOK, Results
    <3> QED
      BY <2>1, <3>1
  <2>4. active' \in [Chats -> Runs \cup {NoRun}]
    BY <2>1
  <2>5. pending' \in [Chats -> Seq(Steers)] /\ messages' \in [Runs -> Seq(Steers)]
    BY <1>10 DEF FinishOrSteer, ApplySteers
  <2>6. /\ iteration' \in [Runs -> Nat]
        /\ retries' \in [Runs -> Nat]
        /\ fate' \in [Steers -> Fates]
    BY <1>10 DEF FinishOrSteer, ApplySteers
  <2> QED
    BY <1>10, <2>2, <2>3, <2>4, <2>5, <2>6 DEF FinishOrSteer
<1>11. CASE Unregister(r)
  BY <1>11 DEF Unregister
<1>12. ASSUME NEW next \in Runs, Failover(r, next) PROVE TypeOK'
  <2>1. pc' \in [Runs -> Places]
    BY <1>12 DEF Failover
  <2>2. owner' \in [Chats -> Runs \cup {NoRun}]
    BY <1>12 DEF Failover
  <2>3. attempt' \in [Runs -> Nat]
    BY <1>12 DEF Failover
  <2> QED
    BY <1>12, <2>1, <2>2, <2>3 DEF Failover
<1> QED
  BY <1>1, <1>2, <1>3, <1>4, <1>5, <1>6, <1>7, <1>8, <1>9, <1>10, <1>11, <1>12 DEF RunStep

\* A step of a steer preserves type correctness.
LEMMA TypeOKSteer ==
    ASSUME TypeOK, NEW s \in Steers, CheckRunning(s) \/ SteerStep(s) PROVE TypeOK'
<1> USE AssumptionsHold DEF Assumptions, TypeOK, Fates, loopVars, SetFate
<1>1. CASE CheckRunning(s)
  BY <1>1 DEF CheckRunning
<1>2. CASE PersistSteer(s)
  BY <1>2 DEF PersistSteer
<1>3. CASE PushSteer(s)
  <2>1. \/ fate' = [fate EXCEPT ![s] = "rollback"] /\ pending' = pending /\ target' = target
        \/ /\ fate' = [fate EXCEPT ![s] = "queued"]
           /\ pending' = [pending EXCEPT ![SteerChat[s]] = Append(@, s)]
           /\ target' = [target EXCEPT ![s] = active[SteerChat[s]]]
    <3> HIDE AssumptionsHold DEF TypeOK
    <3> QED
      BY <1>3 DEF PushSteer
  <2>2. pending' \in [Chats -> Seq(Steers)]
    <3>1. pending \in [Chats -> Seq(Steers)] /\ SteerChat[s] \in Chats
      OBVIOUS
    <3> HIDE AssumptionsHold DEF TypeOK
    <3>2. Append(pending[SteerChat[s]], s) \in Seq(Steers)
      BY <3>1
    <3> QED
      BY <2>1, <3>1, <3>2
  <2>3. target' \in [Steers -> Runs \cup {NoRun}]
    BY <2>1
  <2>4. fate' \in [Steers -> Fates]
    BY <2>1
  <2> QED
    BY <1>3, <2>2, <2>3, <2>4 DEF PushSteer
<1>4. CASE RollbackSteer(s)
  BY <1>4 DEF RollbackSteer
<1> QED
  BY <1>1, <1>2, <1>3, <1>4 DEF SteerStep

\* Every step preserves type correctness.
LEMMA TypeOKStep == TypeOK /\ [Next]_vars => TypeOK'
<1> SUFFICES ASSUME TypeOK, [Next]_vars PROVE TypeOK'
  OBVIOUS
<1>0. ASSUME NEW r \in Runs, Send(r) PROVE TypeOK'
  BY <1>0, AssumptionsHold DEF Send, Assumptions, TypeOK, Places, LoopPlaces, loopVars,
                               steerVars, Goto
<1>1. ASSUME NEW r \in Runs, SendDetached(r) PROVE TypeOK'
  BY <1>1, AssumptionsHold DEF SendDetached, Assumptions, TypeOK, Places, LoopPlaces, loopVars,
                               steerVars, Goto
<1>2. ASSUME NEW r \in Runs, RunStep(r) PROVE TypeOK'
  BY <1>2, TypeOKRun
<1>3. ASSUME NEW c \in Chats, PressStop(c) PROVE TypeOK'
  BY <1>3, AssumptionsHold DEF PressStop, Assumptions, TypeOK, loopVars, steerVars
<1>4. ASSUME NEW c \in Chats, StopSetsToken(c) PROVE TypeOK'
  BY <1>4 DEF StopSetsToken, TypeOK, loopVars, steerVars
<1>5. ASSUME NEW c \in Chats, StopSweepsSteers(c) PROVE TypeOK'
  BY <1>5 DEF StopSweepsSteers, TypeOK, Fates, loopVars
<1>6. ASSUME NEW s \in Steers, CheckRunning(s) \/ SteerStep(s) PROVE TypeOK'
  BY <1>6, TypeOKSteer
<1>7. CASE UNCHANGED vars
  BY <1>7 DEF vars, TypeOK
<1> QED
  BY <1>0, <1>1, <1>2, <1>3, <1>4, <1>5, <1>6, <1>7 DEF Next, StopStep

\* TypeOK holds in every reachable state.
THEOREM TypeCorrect == Spec => []TypeOK
<1>1. Init => TypeOK
  BY TypeOKInit
<1>2. TypeOK /\ [Next]_vars => TypeOK'
  BY TypeOKStep
<1> QED
  BY <1>1, <1>2, PTL DEF Spec

-----------------------------------------------------------------------------
(***************************************************************************)
(* The steering hand-off.  NoOrphanSteer is inductive by itself; that the  *)
(* transcript agrees with the answers needs to know where the steers of a  *)
(* queue and of a conversation are in their own life.                      *)
(***************************************************************************)

QueueHoldsQueued ==
    \A c \in Chats : \A i \in 1..Len(pending[c]) :
        fate[pending[c][i]] = "queued" /\ SteerChat[pending[c][i]] = c

ConversationHoldsHeard ==
    \A r \in Runs : \A i \in 1..Len(messages[r]) : fate[messages[r][i]] = "heard"

RowsFollowFate ==
    \A s \in Steers :
        s \in rows <=>
            fate[s] \in {"persisted", "rollback", "queued", "heard", "swept", "dropped"}

HandoffInv ==
    /\ NoOrphanSteer
    /\ QueueHoldsQueued
    /\ ConversationHoldsHeard
    /\ RowsFollowFate

\* The state the hand-off is about.
handoffVars == <<active, pending, fate, rows, messages>>

\* Only nine actions touch that state.
LEMMA HandoffSteps ==
    ASSUME [Next]_vars
    PROVE  \/ UNCHANGED handoffVars
           \/ \E r \in Runs :
                  Register(r) \/ DrainSteers(r) \/ FinishOrSteer(r) \/ Unregister(r)
           \/ \E c \in Chats : StopSweepsSteers(c)
           \/ \E s \in Steers :
                  CheckRunning(s) \/ PersistSteer(s) \/ PushSteer(s) \/ RollbackSteer(s)
<1> USE DEF handoffVars, loopVars, steerVars, Return
<1>1. ASSUME NEW r \in Runs, Send(r) \/ SendDetached(r) PROVE UNCHANGED handoffVars
  BY <1>1 DEF Send, SendDetached
<1>2. ASSUME NEW r \in Runs, SetupRequired(r) \/ SendReturns(r) \/ LoopTop(r)
      PROVE  UNCHANGED handoffVars
  BY <1>2 DEF SetupRequired, SendReturns, LoopTop
<1>3. ASSUME NEW r \in Runs, ProviderEmpty(r) \/ ProviderCallsTools(r)
      PROVE  UNCHANGED handoffVars
  BY <1>3 DEF ProviderEmpty, ProviderCallsTools
<1>4. ASSUME NEW r \in Runs, NEW b \in BOOLEAN, ProviderFails(r, b) \/ ProviderAnswers(r, b)
      PROVE  UNCHANGED handoffVars
  BY <1>4 DEF ProviderFails, ProviderAnswers
<1>5. ASSUME NEW r \in Runs, NEW next \in Runs, Failover(r, next) PROVE UNCHANGED handoffVars
  BY <1>5 DEF Failover
<1>6. ASSUME NEW c \in Chats, PressStop(c) \/ StopSetsToken(c) PROVE UNCHANGED handoffVars
  BY <1>6 DEF PressStop, StopSetsToken
<1>7. CASE UNCHANGED vars
  BY <1>7 DEF vars
<1> QED
  BY <1>1, <1>2, <1>3, <1>4, <1>5, <1>6, <1>7 DEF Next, RunStep, StopStep, SteerStep

\* The hand-off invariant holds initially.
LEMMA HandoffInit == Init => HandoffInv
  BY DEF Init, HandoffInv, NoOrphanSteer, QueueHoldsQueued, ConversationHoldsHeard,
         RowsFollowFate

\* Emptying the queue of c into a conversation keeps the hand-off invariant.
LEMMA ApplyKeepsHandoff ==
    ASSUME TypeOK, HandoffInv, NEW r \in Runs, NEW c \in Chats, ApplySteers(r, c),
           pending' = [pending EXCEPT ![c] = <<>>], rows' = rows
    PROVE  QueueHoldsQueued' /\ ConversationHoldsHeard' /\ RowsFollowFate'
<1>1. /\ pending \in [Chats -> Seq(Steers)] /\ messages \in [Runs -> Seq(Steers)]
      /\ fate \in [Steers -> Fates]
  BY DEF TypeOK
<1>2. ASSUME NEW s \in Steers
      PROVE  fate'[s] = IF s \in QueuedFor(c) THEN "heard" ELSE fate[s]
  BY <1>1 DEF ApplySteers
<1>3. \A s \in QueuedFor(c) : s \in Steers /\ fate[s] = "queued" /\ SteerChat[s] = c
  BY <1>1 DEF QueuedFor, HandoffInv, QueueHoldsQueued
<1>4. RowsFollowFate'
  BY <1>2, <1>3 DEF HandoffInv, RowsFollowFate
<1>5. ConversationHoldsHeard'
  <2> SUFFICES ASSUME NEW q \in Runs, NEW i \in 1..Len(messages'[q])
               PROVE  fate'[messages'[q][i]] = "heard"
    BY DEF ConversationHoldsHeard
  <2>1. CASE q # r
    BY <1>1, <1>2, <2>1 DEF ApplySteers, HandoffInv, ConversationHoldsHeard
  <2>2. CASE q = r
    <3>1. messages'[r] = messages[r] \o pending[c]
      BY <1>1 DEF ApplySteers
    <3>2. CASE i \in 1..Len(messages[r])
      <4>1. messages'[r][i] = messages[r][i] /\ messages[r][i] \in Steers
        BY <1>1, <3>1, <3>2
      <4> QED
        BY <1>2, <2>2, <3>2, <4>1 DEF HandoffInv, ConversationHoldsHeard
    <3>3. CASE i \notin 1..Len(messages[r])
      <4>1. /\ i - Len(messages[r]) \in 1..Len(pending[c])
            /\ messages'[r][i] = pending[c][i - Len(messages[r])]
        BY <1>1, <2>2, <3>1, <3>3
      <4>2. messages'[r][i] \in QueuedFor(c)
        BY <4>1 DEF QueuedFor
      <4> QED
        BY <1>2, <1>3, <2>2, <4>2
    <3> QED
      BY <3>2, <3>3
  <2> QED
    BY <2>1, <2>2
<1>6. QueueHoldsQueued'
  <2> SUFFICES ASSUME NEW d \in Chats, NEW i \in 1..Len(pending'[d])
               PROVE  fate'[pending'[d][i]] = "queued" /\ SteerChat[pending'[d][i]] = d
    BY DEF QueueHoldsQueued
  <2>1. d # c /\ pending'[d] = pending[d] /\ pending[d][i] \in Steers
    BY <1>1
  <2>2. fate[pending[d][i]] = "queued" /\ SteerChat[pending[d][i]] = d
    BY <2>1 DEF HandoffInv, QueueHoldsQueued
  <2> QED
    BY <1>2, <1>3, <2>1, <2>2
<1> QED
  BY <1>4, <1>5, <1>6

\* Emptying the queue of c with another outcome keeps it as well.
LEMMA DiscardKeepsHandoff ==
    ASSUME TypeOK, HandoffInv, NEW c \in Chats, NEW f \in {"swept", "dropped"},
           fate' = [s \in Steers |-> IF s \in QueuedFor(c) THEN f ELSE fate[s]],
           pending' = [pending EXCEPT ![c] = <<>>], UNCHANGED <<rows, messages>>
    PROVE  QueueHoldsQueued' /\ ConversationHoldsHeard' /\ RowsFollowFate'
<1>1. /\ pending \in [Chats -> Seq(Steers)] /\ messages \in [Runs -> Seq(Steers)]
      /\ fate \in [Steers -> Fates]
  BY DEF TypeOK
<1>2. \A s \in QueuedFor(c) : s \in Steers /\ fate[s] = "queued" /\ SteerChat[s] = c
  BY <1>1 DEF QueuedFor, HandoffInv, QueueHoldsQueued
<1>3. RowsFollowFate'
  BY <1>2 DEF HandoffInv, RowsFollowFate
<1>4. ConversationHoldsHeard'
  <2> SUFFICES ASSUME NEW q \in Runs, NEW i \in 1..Len(messages[q])
               PROVE  fate'[messages[q][i]] = "heard"
    BY DEF ConversationHoldsHeard
  <2>1. messages[q][i] \in Steers /\ fate[messages[q][i]] = "heard"
    BY <1>1 DEF HandoffInv, ConversationHoldsHeard
  <2> QED
    BY <1>2, <2>1
<1>5. QueueHoldsQueued'
  <2> SUFFICES ASSUME NEW d \in Chats, NEW i \in 1..Len(pending'[d])
               PROVE  fate'[pending'[d][i]] = "queued" /\ SteerChat[pending'[d][i]] = d
    BY DEF QueueHoldsQueued
  <2>1. d # c /\ pending'[d] = pending[d] /\ pending[d][i] \in Steers
    BY <1>1
  <2>2. fate[pending[d][i]] = "queued" /\ SteerChat[pending[d][i]] = d
    BY <2>1 DEF HandoffInv, QueueHoldsQueued
  <2> QED
    BY <1>2, <2>1, <2>2
<1> QED
  BY <1>3, <1>4, <1>5

\* A steer that changes its own fate, outside every queue and conversation.
LEMMA SteerKeepsHandoff ==
    ASSUME TypeOK, HandoffInv, NEW s \in Steers, NEW f, f # "queued", f # "heard",
           fate[s] \notin {"queued", "heard"},
           fate' = [fate EXCEPT ![s] = f], UNCHANGED <<pending, messages>>
    PROVE  QueueHoldsQueued' /\ ConversationHoldsHeard'
<1>1. /\ pending \in [Chats -> Seq(Steers)] /\ messages \in [Runs -> Seq(Steers)]
      /\ fate \in [Steers -> Fates]
  BY DEF TypeOK
<1>2. ASSUME NEW c \in Chats, NEW i \in 1..Len(pending[c])
      PROVE  fate'[pending[c][i]] = "queued" /\ SteerChat[pending[c][i]] = c
  <2>1. /\ pending[c][i] \in Steers
        /\ fate[pending[c][i]] = "queued" /\ SteerChat[pending[c][i]] = c
    BY <1>1 DEF HandoffInv, QueueHoldsQueued
  <2> QED
    BY <1>1, <2>1
<1>3. ASSUME NEW r \in Runs, NEW i \in 1..Len(messages[r])
      PROVE  fate'[messages[r][i]] = "heard"
  <2>1. messages[r][i] \in Steers /\ fate[messages[r][i]] = "heard"
    BY <1>1 DEF HandoffInv, ConversationHoldsHeard
  <2> QED
    BY <1>1, <2>1
<1> QED
  BY <1>2, <1>3 DEF QueueHoldsQueued, ConversationHoldsHeard

\* An accepted steer joins the end of the queue of its chat.
LEMMA PushKeepsHandoff ==
    ASSUME TypeOK, HandoffInv, NEW s \in Steers, PushSteer(s)
    PROVE  HandoffInv'
<1>1. /\ pending \in [Chats -> Seq(Steers)] /\ messages \in [Runs -> Seq(Steers)]
      /\ fate \in [Steers -> Fates] /\ SteerChat[s] \in Chats
  BY AssumptionsHold DEF TypeOK, Assumptions
<1>2. fate[s] = "persisted" /\ UNCHANGED <<active, rows, messages>>
  BY DEF PushSteer, loopVars
<1>3. CASE active[SteerChat[s]] = NoRun
  <2>1. fate' = [fate EXCEPT ![s] = "rollback"] /\ pending' = pending
    BY <1>3 DEF PushSteer, SetFate
  <2>2. QueueHoldsQueued' /\ ConversationHoldsHeard'
    BY <1>2, <2>1, SteerKeepsHandoff
  <2>3. NoOrphanSteer' /\ RowsFollowFate'
    BY <1>1, <1>2, <2>1 DEF HandoffInv, NoOrphanSteer, RowsFollowFate
  <2> QED
    BY <2>2, <2>3 DEF HandoffInv
<1>4. CASE active[SteerChat[s]] # NoRun
  <2>1. /\ fate' = [fate EXCEPT ![s] = "queued"]
        /\ pending' = [pending EXCEPT ![SteerChat[s]] = Append(@, s)]
    BY <1>4 DEF PushSteer, SetFate
  <2>2. NoOrphanSteer' /\ RowsFollowFate'
    BY <1>1, <1>2, <1>4, <2>1 DEF HandoffInv, NoOrphanSteer, RowsFollowFate
  <2>3. ConversationHoldsHeard'
    <3> SUFFICES ASSUME NEW r \in Runs, NEW i \in 1..Len(messages[r])
                 PROVE  fate'[messages[r][i]] = "heard"
      BY <1>2 DEF ConversationHoldsHeard
    <3>1. messages[r][i] \in Steers /\ fate[messages[r][i]] = "heard"
      BY <1>1 DEF HandoffInv, ConversationHoldsHeard
    <3> QED
      BY <1>1, <1>2, <2>1, <3>1
  <2>4. QueueHoldsQueued'
    <3> SUFFICES ASSUME NEW d \in Chats, NEW i \in 1..Len(pending'[d])
                 PROVE  fate'[pending'[d][i]] = "queued" /\ SteerChat[pending'[d][i]] = d
      BY DEF QueueHoldsQueued
    <3>1. CASE d = SteerChat[s] /\ i = Len(pending[d]) + 1
      BY <1>1, <2>1, <3>1
    <3>2. CASE ~(d = SteerChat[s] /\ i = Len(pending[d]) + 1)
      <4>1. i \in 1..Len(pending[d]) /\ pending'[d][i] = pending[d][i]
        BY <1>1, <2>1, <3>2
      <4>2. /\ pending[d][i] \in Steers
            /\ fate[pending[d][i]] = "queued" /\ SteerChat[pending[d][i]] = d
        BY <1>1, <4>1 DEF HandoffInv, QueueHoldsQueued
      <4> QED
        BY <1>1, <1>2, <2>1, <4>1, <4>2
    <3> QED
      BY <3>1, <3>2
  <2> QED
    BY <2>2, <2>3, <2>4 DEF HandoffInv
<1> QED
  BY <1>3, <1>4

\* Every step preserves the hand-off invariant.
LEMMA HandoffStep == TypeOK /\ HandoffInv /\ [Next]_vars => HandoffInv'
<1> SUFFICES ASSUME TypeOK, HandoffInv, [Next]_vars PROVE HandoffInv'
  OBVIOUS
<1>0. /\ active \in [Chats -> Runs \cup {NoRun}] /\ pending \in [Chats -> Seq(Steers)]
      /\ \A r \in Runs : RunChat[r] \in Chats /\ r # NoRun
  BY AssumptionsHold DEF TypeOK, Assumptions
<1>1. CASE UNCHANGED handoffVars
  BY <1>1 DEF handoffVars, HandoffInv, NoOrphanSteer, QueueHoldsQueued,
              ConversationHoldsHeard, RowsFollowFate
<1>2. ASSUME NEW r \in Runs, Register(r) PROVE HandoffInv'
  <2>1. /\ active' = [active EXCEPT ![RunChat[r]] = r]
        /\ UNCHANGED <<pending, fate, rows, messages>>
    BY <1>2 DEF Register, loopVars, steerVars
  <2> QED
    BY <1>0, <2>1 DEF HandoffInv, NoOrphanSteer, QueueHoldsQueued,
                      ConversationHoldsHeard, RowsFollowFate
<1>3. ASSUME NEW r \in Runs, DrainSteers(r) PROVE HandoffInv'
  <2>1. QueueHoldsQueued' /\ ConversationHoldsHeard' /\ RowsFollowFate'
    BY <1>0, <1>3, ApplyKeepsHandoff DEF DrainSteers
  <2>2. NoOrphanSteer'
    BY <1>0, <1>3 DEF DrainSteers, HandoffInv, NoOrphanSteer
  <2> QED
    BY <2>1, <2>2 DEF HandoffInv
<1>4. ASSUME NEW r \in Runs, FinishOrSteer(r) PROVE HandoffInv'
  <2>1. QueueHoldsQueued' /\ ConversationHoldsHeard' /\ RowsFollowFate'
    BY <1>0, <1>4, ApplyKeepsHandoff DEF FinishOrSteer
  <2>2. /\ pending' = [pending EXCEPT ![RunChat[r]] = <<>>]
        /\ active' = active \/ active' = [active EXCEPT ![RunChat[r]] = NoRun]
    BY <1>4 DEF FinishOrSteer
  <2>3. NoOrphanSteer'
    BY <1>0, <2>2 DEF HandoffInv, NoOrphanSteer
  <2> QED
    BY <2>1, <2>3 DEF HandoffInv
<1>5. ASSUME NEW r \in Runs, Unregister(r) PROVE HandoffInv'
  <2>1. QueueHoldsQueued' /\ ConversationHoldsHeard' /\ RowsFollowFate'
    BY <1>0, <1>5, DiscardKeepsHandoff DEF Unregister
  <2>2. NoOrphanSteer'
    BY <1>0, <1>5 DEF Unregister, HandoffInv, NoOrphanSteer
  <2> QED
    BY <2>1, <2>2 DEF HandoffInv
<1>6. ASSUME NEW c \in Chats, StopSweepsSteers(c) PROVE HandoffInv'
  <2>1. QueueHoldsQueued' /\ ConversationHoldsHeard' /\ RowsFollowFate'
    BY <1>6, DiscardKeepsHandoff DEF StopSweepsSteers, loopVars
  <2>2. NoOrphanSteer'
    BY <1>0, <1>6 DEF StopSweepsSteers, HandoffInv, NoOrphanSteer
  <2> QED
    BY <2>1, <2>2 DEF HandoffInv
<1>7. ASSUME NEW s \in Steers, CheckRunning(s) \/ PersistSteer(s) \/ RollbackSteer(s)
      PROVE  HandoffInv'
  <2>1. /\ UNCHANGED <<active, pending, messages>>
        /\ \/ /\ fate[s] = "new" /\ rows' = rows
              /\ \/ fate' = [fate EXCEPT ![s] = "refused"]
                 \/ fate' = [fate EXCEPT ![s] = "checked"]
           \/ /\ fate[s] = "checked" /\ rows' = rows \cup {s}
              /\ fate' = [fate EXCEPT ![s] = "persisted"]
           \/ /\ fate[s] = "rollback" /\ rows' = rows \ {s}
              /\ fate' = [fate EXCEPT ![s] = "refused"]
    BY <1>7 DEF CheckRunning, PersistSteer, RollbackSteer, SetFate, loopVars
  <2>2. QueueHoldsQueued' /\ ConversationHoldsHeard'
    BY <2>1, SteerKeepsHandoff
  <2>3. NoOrphanSteer'
    BY <2>1 DEF HandoffInv, NoOrphanSteer
  <2>4. RowsFollowFate'
    BY <2>1 DEF TypeOK, HandoffInv, RowsFollowFate
  <2> QED
    BY <2>2, <2>3, <2>4 DEF HandoffInv
<1>8. ASSUME NEW s \in Steers, PushSteer(s) PROVE HandoffInv'
  BY <1>8, PushKeepsHandoff
<1> QED
  BY <1>1, <1>2, <1>3, <1>4, <1>5, <1>6, <1>7, <1>8, HandoffSteps

\* The hand-off invariant holds in every reachable state.
LEMMA HandoffInvariant == Spec => []HandoffInv
<1>1. Init => HandoffInv
  BY HandoffInit
<1>2. TypeOK /\ HandoffInv /\ [Next]_vars => HandoffInv'
  BY HandoffStep
<1> QED
  BY <1>1, <1>2, TypeCorrect, PTL DEF Spec

\* No steer waits in the queue of a chat without a registered run: push_steer
\* and finish_or_steer cannot miss each other.
THEOREM NoSteerIsOrphaned == Spec => []NoOrphanSteer
<1>1. HandoffInv => NoOrphanSteer
  BY DEF HandoffInv
<1> QED
  BY <1>1, HandoffInvariant, PTL

\* The user rows agree with what native_chat_steer answered.
THEOREM TranscriptAgrees == Spec => []TranscriptMatchesAnswer
<1>1. TypeOK /\ HandoffInv => TranscriptMatchesAnswer
  <2> SUFFICES ASSUME TypeOK, HandoffInv, NEW s \in Steers
               PROVE  /\ fate[s] \in {"queued", "heard", "swept", "dropped"} => s \in rows
                      /\ fate[s] = "refused" =>
                             /\ s \notin rows
                             /\ \A c \in Chats : s \notin QueuedFor(c)
                             /\ \A r \in Runs :
                                    \A i \in 1..Len(messages[r]) : messages[r][i] # s
    BY DEF TranscriptMatchesAnswer
  <2>1. fate[s] \in {"queued", "heard", "swept", "dropped"} => s \in rows
    BY DEF HandoffInv, RowsFollowFate
  <2>2. fate[s] = "refused" => s \notin rows
    BY DEF HandoffInv, RowsFollowFate
  <2>3. ASSUME NEW c \in Chats, s \in QueuedFor(c) PROVE fate[s] = "queued"
    BY <2>3 DEF HandoffInv, QueueHoldsQueued, QueuedFor
  <2>4. ASSUME NEW r \in Runs, NEW i \in 1..Len(messages[r]), messages[r][i] = s
        PROVE  fate[s] = "heard"
    BY <2>4 DEF HandoffInv, ConversationHoldsHeard
  <2> QED
    BY <2>1, <2>2, <2>3, <2>4
<1> QED
  BY <1>1, TypeCorrect, HandoffInvariant, PTL
-----------------------------------------------------------------------------
(***************************************************************************)
(* A run alone in its chat.  The registry has one entry per chat and the   *)
(* end of any run clears it, so what holds of a run depends on whether     *)
(* another one executed beside it (shared).                                *)
(***************************************************************************)

\* Until its loop returns a run has no result.
Before == LoopPlaces \cup {"idle", "register"}

\* Two runs that execute in one chat have met.
Companions ==
    \A c \in Chats : \A r, q \in Executing(c) : r # q => r \in shared

\* A registered run executes, and one that completed is registered no more.
RegisteredExecutes == \A c \in Chats : active[c] # NoRun => active[c] \in Executing(c)
NoResultYet == \A r \in Runs : pc[r] \in Before => result[r] = "none"
CompletedIsRetired == \A r \in Runs : result[r] = "completed" => active[RunChat[r]] # r

RunInv ==
    /\ SoleRunIsRegistered
    /\ Companions
    /\ RegisteredExecutes
    /\ NoResultYet
    /\ CompletedIsRetired

\* What every step does that neither registers a run nor ends one: the registry
\* stays, nobody enters a loop, nobody completes.
Uneventful ==
    /\ UNCHANGED <<active, shared>>
    /\ \A q \in Runs :
           /\ pc'[q] \in LoopPlaces => pc[q] \in LoopPlaces
           /\ pc'[q] \in LoopPlaces \cup {"unregister"} =>
                  pc[q] \in LoopPlaces \cup {"unregister"}
           /\ pc[q] \in LoopPlaces \cup {"unregister"} =>
                  pc'[q] \in LoopPlaces \cup {"unregister"}
           /\ pc'[q] \in Before => pc[q] \in Before /\ result'[q] = result[q]
           /\ pc'[q] \in {"idle", "register"} => pc[q] \in {"idle", "register"}
           /\ result'[q] = "completed" => result[q] = "completed"

\* A run ends by finishing or at the end of run_agent_turn.
Completes(r) ==
    /\ pc[r] = "finish"
    /\ pending[RunChat[r]] = <<>>
    /\ active' = [active EXCEPT ![RunChat[r]] = NoRun]
    /\ pc' = [pc EXCEPT ![r] = "unregister"]
    /\ result' = [result EXCEPT ![r] = "completed"]
    /\ shared' = shared

\* A step in the loop of r, to another place of the loop or to its end.
LEMMA LoopStepIsUneventful ==
    ASSUME TypeOK, NEW r \in Runs, pc[r] \in LoopPlaces, UNCHANGED <<active, shared>>,
           \/ /\ pc' \in {[pc EXCEPT ![r] = place] : place \in LoopPlaces}
              /\ result' = result
           \/ /\ pc' = [pc EXCEPT ![r] = "unregister"]
              /\ result' \in {[result EXCEPT ![r] = res] :
                                  res \in {"cancelled", "hit_cap", "failed", "pre_stream"}}
    PROVE  Uneventful
<1>1. pc \in [Runs -> Places] /\ result \in [Runs -> Results]
  BY DEF TypeOK
<1> QED
  BY <1>1 DEF Uneventful, Before, LoopPlaces

\* Every step registers a run, completes one, ends one or is uneventful.
LEMMA RunSteps ==
    ASSUME TypeOK, NoResultYet, [Next]_vars
    PROVE  \/ Uneventful
           \/ \E r \in Runs : Register(r) \/ Completes(r) \/ Unregister(r)
<1>1. pc \in [Runs -> Places] /\ result \in [Runs -> Results]
  BY DEF TypeOK
<1>2. ASSUME UNCHANGED <<active, shared, pc, result>> PROVE Uneventful
  BY <1>2 DEF Uneventful, Before
<1>3. ASSUME NEW r \in Runs, Send(r) \/ SendDetached(r) PROVE Uneventful
  BY <1>1, <1>3 DEF Send, SendDetached, Goto, loopVars, Uneventful, Before, LoopPlaces
<1>4. ASSUME NEW r \in Runs, SetupRequired(r) PROVE Uneventful
  BY <1>1, <1>4 DEF SetupRequired, Goto, Uneventful, Before, LoopPlaces
<1>5. ASSUME NEW r \in Runs, SendReturns(r) PROVE Uneventful
  BY <1>1, <1>5 DEF SendReturns, Goto, loopVars, Uneventful, Before, LoopPlaces
<1>6. ASSUME NEW r \in Runs, NEW next \in Runs, Failover(r, next) PROVE Uneventful
  BY <1>1, <1>6 DEF Failover, loopVars, Uneventful, Before, LoopPlaces
<1>7. ASSUME NEW r \in Runs, LoopTop(r) PROVE Uneventful
  <2>1. pc[r] \in LoopPlaces /\ UNCHANGED <<active, shared>>
    BY <1>7 DEF LoopTop, LoopPlaces
  <2>2. \/ pc' = [pc EXCEPT ![r] = "unregister"] /\ result' = [result EXCEPT ![r] = "cancelled"]
        \/ pc' = [pc EXCEPT ![r] = "unregister"] /\ result' = [result EXCEPT ![r] = "hit_cap"]
        \/ pc' = [pc EXCEPT ![r] = "provider"] /\ result' = result
    BY <1>7 DEF LoopTop, Goto, Return
  <2>3. "provider" \in LoopPlaces
    BY DEF LoopPlaces
  <2> QED
    BY <2>1, <2>2, <2>3, LoopStepIsUneventful
<1>8. ASSUME NEW r \in Runs, NEW b \in BOOLEAN, ProviderFails(r, b) PROVE Uneventful
  <2>1. pc[r] \in LoopPlaces /\ UNCHANGED <<active, shared>>
    BY <1>8 DEF ProviderFails, LoopPlaces
  <2>2. \/ pc' = [pc EXCEPT ![r] = "unregister"] /\ result' = [result EXCEPT ![r] = "pre_stream"]
        \/ pc' = [pc EXCEPT ![r] = "unregister"] /\ result' = [result EXCEPT ![r] = "failed"]
    BY <1>8 DEF ProviderFails, Goto, Return
  <2> QED
    BY <2>1, <2>2, LoopStepIsUneventful
<1>9. ASSUME NEW r \in Runs, ProviderEmpty(r) \/ ProviderCallsTools(r) PROVE Uneventful
  <2>1. pc[r] \in LoopPlaces /\ UNCHANGED <<active, shared, result>>
    BY <1>9 DEF ProviderEmpty, ProviderCallsTools, LoopPlaces
  <2>2. pc' = [pc EXCEPT ![r] = "top"] \/ pc' = [pc EXCEPT ![r] = "tools"]
    BY <1>9 DEF ProviderEmpty, ProviderCallsTools, Goto
  <2>3. {"top", "tools"} \subseteq LoopPlaces
    BY DEF LoopPlaces
  <2> QED
    BY <2>1, <2>2, <2>3, LoopStepIsUneventful
<1>10. ASSUME NEW r \in Runs, NEW b \in BOOLEAN, ProviderAnswers(r, b) PROVE Uneventful
  <2>1. /\ pc[r] \in LoopPlaces /\ UNCHANGED <<active, shared, result>>
        /\ pc' = [pc EXCEPT ![r] = "finish"] /\ "finish" \in LoopPlaces
    BY <1>10 DEF ProviderAnswers, Goto, LoopPlaces
  <2> QED
    BY <2>1, LoopStepIsUneventful
<1>11. ASSUME NEW r \in Runs, DrainSteers(r) PROVE Uneventful
  <2>1. /\ pc[r] \in LoopPlaces /\ UNCHANGED <<active, shared, result>>
        /\ pc' = [pc EXCEPT ![r] = "top"] /\ "top" \in LoopPlaces
    BY <1>11 DEF DrainSteers, Goto, LoopPlaces
  <2> QED
    BY <2>1, LoopStepIsUneventful
<1>12. ASSUME NEW r \in Runs, FinishOrSteer(r) PROVE Uneventful \/ Completes(r)
  <2>1. pc[r] = "finish" /\ pc[r] \in LoopPlaces /\ shared' = shared /\ "top" \in LoopPlaces
    BY <1>12 DEF FinishOrSteer, LoopPlaces
  <2>2. CASE pending[RunChat[r]] = <<>>
    BY <1>12, <2>1, <2>2 DEF FinishOrSteer, Return, Goto, Completes
  <2>3. CASE pending[RunChat[r]] # <<>>
    <3>1. pc' = [pc EXCEPT ![r] = "top"] /\ result' = result /\ active' = active
      BY <1>12, <2>3 DEF FinishOrSteer, Goto
    <3> QED
      BY <2>1, <3>1, LoopStepIsUneventful
  <2> QED
    BY <2>2, <2>3
<1>13. ASSUME NEW c \in Chats, PressStop(c) \/ StopStep(c) PROVE UNCHANGED <<active, shared, pc, result>>
  BY <1>13 DEF PressStop, StopStep, StopSetsToken, StopSweepsSteers, loopVars
<1>14. ASSUME NEW s \in Steers, CheckRunning(s) \/ SteerStep(s)
       PROVE  UNCHANGED <<active, shared, pc, result>>
  BY <1>14 DEF CheckRunning, SteerStep, PersistSteer, PushSteer, RollbackSteer, loopVars
<1>15. CASE UNCHANGED vars
  BY <1>2, <1>15 DEF vars, loopVars
<1> QED
  BY <1>2, <1>3, <1>4, <1>5, <1>6, <1>7, <1>8, <1>9, <1>10, <1>11, <1>12, <1>13, <1>14,
     <1>15 DEF Next, RunStep

\* A run that begins beside others makes them all meet.
LEMMA RegisterKeepsRunInv ==
    ASSUME TypeOK, RunInv, NEW r \in Runs, Register(r) PROVE RunInv'
<1>1. /\ pc \in [Runs -> Places] /\ active \in [Chats -> Runs \cup {NoRun}]
      /\ result \in [Runs -> Results]
      /\ \A q \in Runs : RunChat[q] \in Chats /\ q # NoRun
  BY AssumptionsHold DEF TypeOK, Assumptions
<1>2. /\ pc[r] = "register" /\ pc' = [pc EXCEPT ![r] = "top"] /\ result' = result
      /\ active' = [active EXCEPT ![RunChat[r]] = r]
      /\ shared' = IF Executing(RunChat[r]) = {} THEN shared
                   ELSE shared \cup Executing(RunChat[r]) \cup {r}
  BY DEF Register, Goto, loopVars
<1>3. \A c \in Chats : Executing(c)' = Executing(c) \cup (IF c = RunChat[r] THEN {r} ELSE {})
  BY <1>1, <1>2 DEF Executing, LoopPlaces
<1>4. SoleRunIsRegistered'
  <2> SUFFICES ASSUME NEW q \in Runs, pc'[q] \in LoopPlaces, q \notin shared'
               PROVE  active'[RunChat[q]] = q
    BY DEF SoleRunIsRegistered, Looping
  <2>1. CASE q = r
    BY <1>1, <1>2, <2>1
  <2>2. CASE q # r
    <3>1. pc[q] \in LoopPlaces /\ q \notin shared
      BY <1>1, <1>2, <2>2
    <3>2. active[RunChat[q]] = q
      BY <3>1 DEF RunInv, SoleRunIsRegistered, Looping
    <3>3. RunChat[q] # RunChat[r]
      BY <1>2, <3>1 DEF Executing
    <3> QED
      BY <1>1, <1>2, <3>2, <3>3
  <2> QED
    BY <2>1, <2>2
<1>5. Companions'
  <2> SUFFICES ASSUME NEW c \in Chats, NEW q \in Executing(c)', NEW p \in Executing(c)', q # p
               PROVE  q \in shared'
    BY DEF Companions
  <2>1. CASE c = RunChat[r] /\ Executing(c) # {}
    BY <1>2, <1>3, <2>1
  <2>2. CASE c = RunChat[r] /\ Executing(c) = {}
    BY <1>3, <2>2
  <2>3. CASE c # RunChat[r]
    BY <1>2, <1>3, <2>3 DEF RunInv, Companions
  <2> QED
    BY <2>1, <2>2, <2>3
<1>6. RegisteredExecutes'
  BY <1>1, <1>2, <1>3 DEF RunInv, RegisteredExecutes, Executing
<1>7. NoResultYet' /\ CompletedIsRetired'
  <2>1. result[r] = "none"
    BY <1>2 DEF RunInv, NoResultYet, Before
  <2>2. NoResultYet'
    BY <1>1, <1>2, <2>1 DEF RunInv, NoResultYet
  <2>3. CompletedIsRetired'
    BY <1>1, <1>2, <2>1 DEF RunInv, CompletedIsRetired
  <2> QED
    BY <2>2, <2>3
<1> QED
  BY <1>4, <1>5, <1>6, <1>7 DEF RunInv

\* A run that completes or ends clears the entry of its chat; a run that still
\* loops there has met it.
LEMMA EndKeepsRunInv ==
    ASSUME TypeOK, RunInv, NEW r \in Runs, Completes(r) \/ Unregister(r) PROVE RunInv'
<1>1. /\ pc \in [Runs -> Places] /\ active \in [Chats -> Runs \cup {NoRun}]
      /\ result \in [Runs -> Results]
      /\ \A q \in Runs : RunChat[q] \in Chats /\ q # NoRun
  BY AssumptionsHold DEF TypeOK, Assumptions
<1>2. /\ pc[r] \in {"finish", "unregister"}
      /\ pc' \in {[pc EXCEPT ![r] = place] : place \in {"unregister", "returned"}}
      /\ pc[r] = "unregister" => pc' = [pc EXCEPT ![r] = "returned"]
      /\ active' = [active EXCEPT ![RunChat[r]] = NoRun]
      /\ shared' = shared
      /\ result' = result \/ result' = [result EXCEPT ![r] = "completed"]
  BY DEF Completes, Unregister, Goto
<1>3. \A c \in Chats : Executing(c)' \subseteq Executing(c)
  BY <1>1, <1>2 DEF Executing, LoopPlaces
<1>4. SoleRunIsRegistered'
  <2> SUFFICES ASSUME NEW q \in Runs, pc'[q] \in LoopPlaces, q \notin shared
               PROVE  active'[RunChat[q]] = q
    BY <1>2 DEF SoleRunIsRegistered, Looping
  <2>1. q # r /\ pc[q] \in LoopPlaces
    BY <1>1, <1>2 DEF LoopPlaces
  <2>2. active[RunChat[q]] = q
    BY <2>1 DEF RunInv, SoleRunIsRegistered, Looping
  <2>3. RunChat[q] # RunChat[r]
    <3>1. r \in Executing(RunChat[r]) /\ q \in Executing(RunChat[q])
      BY <1>2, <2>1 DEF Executing, LoopPlaces
    <3> QED
      BY <1>1, <2>1, <3>1 DEF RunInv, Companions
  <2> QED
    BY <1>1, <1>2, <2>2, <2>3
<1>5. Companions'
  BY <1>2, <1>3 DEF RunInv, Companions
<1>6. RegisteredExecutes'
  <2> SUFFICES ASSUME NEW c \in Chats, active'[c] # NoRun PROVE active'[c] \in Executing(c)'
    BY DEF RegisteredExecutes
  <2>1. c # RunChat[r] /\ active'[c] = active[c]
    BY <1>1, <1>2
  <2>2. active[c] \in Executing(c)
    BY <2>1 DEF RunInv, RegisteredExecutes
  <2> QED
    BY <1>1, <1>2, <2>1, <2>2 DEF Executing
<1>7. NoResultYet'
  BY <1>1, <1>2 DEF RunInv, NoResultYet, Before, LoopPlaces
<1>8. CompletedIsRetired'
  BY <1>1, <1>2 DEF RunInv, CompletedIsRetired
<1> QED
  BY <1>4, <1>5, <1>6, <1>7, <1>8 DEF RunInv

\* Other steps keep it because they leave the registry alone.
LEMMA UneventfulKeepsRunInv ==
    ASSUME TypeOK, RunInv, Uneventful PROVE RunInv'
<1>1. UNCHANGED <<active, shared>>
  BY DEF Uneventful
<1>2. \A c \in Chats : Executing(c)' = Executing(c)
  BY DEF Uneventful, Executing
<1>3. SoleRunIsRegistered'
  BY <1>1 DEF Uneventful, RunInv, SoleRunIsRegistered, Looping
<1>4. Companions' /\ RegisteredExecutes'
  BY <1>1, <1>2 DEF RunInv, Companions, RegisteredExecutes
<1>5. NoResultYet'
  BY DEF Uneventful, RunInv, NoResultYet
<1>6. CompletedIsRetired'
  BY <1>1 DEF Uneventful, RunInv, CompletedIsRetired
<1> QED
  BY <1>3, <1>4, <1>5, <1>6 DEF RunInv

\* What the registry says of runs holds in every reachable state.
LEMMA RunInvariant == Spec => []RunInv
<1>1. Init => RunInv
  BY DEF Init, RunInv, SoleRunIsRegistered, Looping, Companions, RegisteredExecutes,
         NoResultYet, CompletedIsRetired, Executing, LoopPlaces, Before
<1>2. TypeOK /\ RunInv /\ [Next]_vars => RunInv'
  <2> SUFFICES ASSUME TypeOK, RunInv, [Next]_vars PROVE RunInv'
    OBVIOUS
  <2>1. NoResultYet
    BY DEF RunInv
  <2> QED
    BY <2>1, RunSteps, RegisterKeepsRunInv, EndKeepsRunInv, UneventfulKeepsRunInv
<1> QED
  BY <1>1, <1>2, TypeCorrect, PTL DEF Spec

\* A stop or a steer finds a run that has its chat to itself as long as it loops.
THEOREM SoleRunIsFound == Spec => []SoleRunIsRegistered
<1>1. RunInv => SoleRunIsRegistered
  BY DEF RunInv
<1> QED
  BY <1>1, RunInvariant, PTL

\* Where an accepted steer is: its target has begun and serves its chat, and as
\* long as it counts as queued it is in the queue of that chat.
TargetIsAccepted ==
    \A s \in Steers :
        target[s] # NoRun =>
            /\ fate[s] \in {"queued", "heard", "swept", "dropped"}
            /\ RunChat[target[s]] = SteerChat[s]
            /\ pc[target[s]] \notin {"idle", "register"}

QueuedIsInQueue == \A s \in Steers : fate[s] = "queued" => s \in QueuedFor(SteerChat[s])

\* Nothing but a stop takes a steer from a run that met nobody and still loops
\* or has completed, and one that completed left none in the queue.
SoleRunKeepsSteers ==
    \A r \in Runs, s \in Steers :
        /\ target[s] = r /\ r \notin shared
        /\ pc[r] \in LoopPlaces \/ result[r] = "completed"
        => /\ fate[s] \in {"queued", "heard", "swept"}
           /\ result[r] = "completed" => fate[s] # "queued"

SteerInv == TargetIsAccepted /\ QueuedIsInQueue /\ SoleRunKeepsSteers

\* The queue of chat c is emptied and its steers end as f.
Empties(c, f) ==
    /\ pending' = [pending EXCEPT ![c] = <<>>]
    /\ fate' = [s \in Steers |-> IF s \in QueuedFor(c) THEN f ELSE fate[s]]
    /\ target' = target

\* Steer s, which is in no queue, takes a step of its own.
Walks(s) ==
    /\ fate[s] \in {"new", "checked", "rollback"}
    /\ fate' \in {[fate EXCEPT ![s] = f] : f \in {"checked", "refused", "persisted"}}
    /\ UNCHANGED <<pending, target>>

\* What a step does to the steers.
LEMMA SteerSteps ==
    ASSUME TypeOK, [Next]_vars
    PROVE  \/ UNCHANGED <<pending, fate, target>>
           \/ \E r \in Runs : Unregister(r) /\ Empties(RunChat[r], "dropped")
           \/ \E c \in Chats, f \in {"heard", "swept"} : Empties(c, f)
           \/ \E s \in Steers : Walks(s)
           \/ \E s \in Steers : PushSteer(s)
<1>1. ASSUME NEW r \in Runs, Send(r) \/ SendDetached(r) \/ Register(r)
      PROVE  UNCHANGED <<pending, fate, target>>
  BY <1>1 DEF Send, SendDetached, Register, steerVars
<1>2. ASSUME NEW r \in Runs, SetupRequired(r) \/ SendReturns(r) \/ LoopTop(r)
      PROVE  UNCHANGED <<pending, fate, target>>
  BY <1>2 DEF SetupRequired, SendReturns, LoopTop, steerVars
<1>3. ASSUME NEW r \in Runs, ProviderEmpty(r) \/ ProviderCallsTools(r)
      PROVE  UNCHANGED <<pending, fate, target>>
  BY <1>3 DEF ProviderEmpty, ProviderCallsTools, steerVars
<1>4. ASSUME NEW r \in Runs, NEW b \in BOOLEAN, ProviderFails(r, b) \/ ProviderAnswers(r, b)
      PROVE  UNCHANGED <<pending, fate, target>>
  BY <1>4 DEF ProviderFails, ProviderAnswers, steerVars
<1>5. ASSUME NEW r \in Runs, NEW next \in Runs, Failover(r, next)
      PROVE  UNCHANGED <<pending, fate, target>>
  BY <1>5 DEF Failover, steerVars
<1>6. ASSUME NEW r \in Runs, DrainSteers(r) \/ FinishOrSteer(r)
      PROVE  \E c \in Chats, f \in {"heard", "swept"} : Empties(c, f)
  <2>1. Empties(RunChat[r], "heard") /\ RunChat[r] \in Chats
    BY <1>6, AssumptionsHold DEF DrainSteers, FinishOrSteer, ApplySteers, Empties, Assumptions
  <2> QED
    BY <2>1
<1>7. ASSUME NEW r \in Runs, Unregister(r) PROVE Empties(RunChat[r], "dropped")
  BY <1>7 DEF Unregister, Empties
<1>8. ASSUME NEW c \in Chats, PressStop(c) \/ StopSetsToken(c)
      PROVE  UNCHANGED <<pending, fate, target>>
  BY <1>8 DEF PressStop, StopSetsToken, steerVars
<1>9. ASSUME NEW c \in Chats, StopSweepsSteers(c) PROVE Empties(c, "swept")
  BY <1>9 DEF StopSweepsSteers, Empties
<1>10. ASSUME NEW s \in Steers, CheckRunning(s) \/ PersistSteer(s) \/ RollbackSteer(s)
       PROVE  Walks(s)
  <2>1. fate' = [fate EXCEPT ![s] = "checked"] \/ fate' = [fate EXCEPT ![s] = "refused"]
        \/ fate' = [fate EXCEPT ![s] = "persisted"]
    BY <1>10 DEF CheckRunning, PersistSteer, RollbackSteer, SetFate
  <2> QED
    BY <1>10, <2>1 DEF CheckRunning, PersistSteer, RollbackSteer, Walks
<1>11. CASE UNCHANGED vars
  BY <1>11 DEF vars, steerVars
<1> QED
  BY <1>1, <1>2, <1>3, <1>4, <1>5, <1>6, <1>7, <1>8, <1>9, <1>10, <1>11
     DEF Next, RunStep, StopStep, SteerStep

\* An accepted steer stays in its queue until the queue is emptied.
LEMMA SteerPlacesStep ==
    ASSUME TypeOK, HandoffInv, RunInv, TargetIsAccepted, QueuedIsInQueue, [Next]_vars
    PROVE  TargetIsAccepted' /\ QueuedIsInQueue'
<1>1. /\ pending \in [Chats -> Seq(Steers)] /\ fate \in [Steers -> Fates]
      /\ target \in [Steers -> Runs \cup {NoRun}] /\ pc \in [Runs -> Places]
      /\ active \in [Chats -> Runs \cup {NoRun}]
      /\ NoRun \notin Runs /\ \A s \in Steers : SteerChat[s] \in Chats
  BY AssumptionsHold DEF TypeOK, Assumptions
<1>2. \A c \in Chats : \A s \in QueuedFor(c) :
          s \in Steers /\ fate[s] = "queued" /\ SteerChat[s] = c
  BY <1>1 DEF QueuedFor, HandoffInv, QueueHoldsQueued
<1>3. \A r \in Runs : pc'[r] \in {"idle", "register"} => pc[r] \in {"idle", "register"}
  <2>1. NoResultYet
    BY DEF RunInv
  <2>2. ASSUME NEW q \in Runs, Register(q) \/ Completes(q) \/ Unregister(q)
        PROVE  \A r \in Runs : pc'[r] \in {"idle", "register"} => pc[r] \in {"idle", "register"}
    BY <1>1, <2>2 DEF Register, Completes, Unregister, Goto
  <2> QED
    BY <2>1, <2>2, RunSteps DEF Uneventful
<1>4. CASE UNCHANGED <<pending, fate, target>>
  BY <1>1, <1>3, <1>4 DEF TargetIsAccepted, QueuedIsInQueue, QueuedFor
<1>5. ASSUME NEW c \in Chats, NEW f \in {"heard", "swept", "dropped"}, Empties(c, f)
      PROVE  TargetIsAccepted' /\ QueuedIsInQueue'
  <2>1. \A s \in Steers : fate'[s] = IF s \in QueuedFor(c) THEN f ELSE fate[s]
    BY <1>5 DEF Empties
  <2>2. TargetIsAccepted'
    BY <1>1, <1>3, <1>5, <2>1 DEF TargetIsAccepted, Empties
  <2>3. QueuedIsInQueue'
    <3> SUFFICES ASSUME NEW s \in Steers, fate'[s] = "queued"
                 PROVE  s \in QueuedFor(SteerChat[s])'
      BY DEF QueuedIsInQueue
    <3>1. s \notin QueuedFor(c) /\ fate[s] = "queued"
      BY <2>1
    <3>2. s \in QueuedFor(SteerChat[s]) /\ SteerChat[s] # c
      BY <3>1 DEF QueuedIsInQueue
    <3>3. pending'[SteerChat[s]] = pending[SteerChat[s]]
      BY <1>1, <1>5, <3>2 DEF Empties
    <3> QED
      BY <3>2, <3>3 DEF QueuedFor
  <2> QED
    BY <2>2, <2>3
<1>6. ASSUME NEW s \in Steers, Walks(s) PROVE TargetIsAccepted' /\ QueuedIsInQueue'
  <2>1. target[s] = NoRun
    BY <1>6 DEF Walks, TargetIsAccepted
  <2>2. \A t \in Steers : t # s => fate'[t] = fate[t]
    BY <1>1, <1>6 DEF Walks
  <2>3. fate'[s] # "queued"
    BY <1>1, <1>6 DEF Walks
  <2>4. TargetIsAccepted'
    BY <1>1, <1>3, <1>6, <2>1, <2>2 DEF Walks, TargetIsAccepted
  <2>5. QueuedIsInQueue'
    BY <1>6, <2>2, <2>3 DEF Walks, QueuedIsInQueue, QueuedFor
  <2> QED
    BY <2>4, <2>5
<1>7. ASSUME NEW s \in Steers, PushSteer(s) PROVE TargetIsAccepted' /\ QueuedIsInQueue'
  <2>1. fate[s] = "persisted" /\ pc' = pc
    BY <1>7 DEF PushSteer
  <2>2. CASE active[SteerChat[s]] = NoRun
    <3>1. UNCHANGED <<pending, target>> /\ fate' = [fate EXCEPT ![s] = "rollback"]
      BY <1>7, <2>2 DEF PushSteer, SetFate
    <3>2. target[s] = NoRun
      BY <2>1 DEF TargetIsAccepted
    <3> QED
      BY <1>1, <2>1, <3>1, <3>2 DEF TargetIsAccepted, QueuedIsInQueue, QueuedFor
  <2>3. CASE active[SteerChat[s]] # NoRun
    <3> DEFINE c == SteerChat[s]
    <3>1. /\ fate' = [fate EXCEPT ![s] = "queued"]
          /\ pending' = [pending EXCEPT ![c] = Append(@, s)]
          /\ target' = [target EXCEPT ![s] = active[c]]
      BY <1>7, <2>3 DEF PushSteer, SetFate
    <3>2. active[c] \in Runs /\ RunChat[active[c]] = c /\ pc[active[c]] \notin {"idle", "register"}
      BY <1>1, <2>3 DEF RunInv, RegisteredExecutes, Executing, LoopPlaces
    <3>3. TargetIsAccepted'
      BY <1>1, <2>1, <3>1, <3>2 DEF TargetIsAccepted
    <3>4. QueuedIsInQueue'
      <4> SUFFICES ASSUME NEW t \in Steers, fate'[t] = "queued"
                   PROVE  t \in QueuedFor(SteerChat[t])'
        BY DEF QueuedIsInQueue
      <4>1. CASE t = s
        <5>1. pending[c] \in Seq(Steers)
          BY <1>1
        <5>2. /\ pending'[c] = Append(pending[c], s)
              /\ Len(pending'[c]) = Len(pending[c]) + 1
              /\ pending'[c][Len(pending[c]) + 1] = s
          BY <1>1, <3>1, <5>1
        <5>3. Len(pending[c]) + 1 \in 1..Len(pending'[c])
          BY <5>1, <5>2
        <5> QED
          BY <4>1, <5>2, <5>3 DEF QueuedFor
      <4>2. CASE t # s
        <5>1. t \in QueuedFor(SteerChat[t])
          BY <1>1, <3>1, <4>2 DEF QueuedIsInQueue
        <5>2. PICK i \in 1..Len(pending[SteerChat[t]]) : pending[SteerChat[t]][i] = t
          BY <5>1 DEF QueuedFor
        <5>3. i \in 1..Len(pending'[SteerChat[t]]) /\ pending'[SteerChat[t]][i] = t
          BY <1>1, <3>1, <5>2
        <5> QED
          BY <5>3 DEF QueuedFor
      <4> QED
        BY <4>1, <4>2
    <3> QED
      BY <3>3, <3>4
  <2> QED
    BY <2>2, <2>3
<1> QED
  <2>1. ASSUME NEW r \in Runs, Empties(RunChat[r], "dropped")
        PROVE  TargetIsAccepted' /\ QueuedIsInQueue'
    BY <1>5, <2>1, AssumptionsHold DEF Assumptions
  <2> QED
    BY <1>4, <1>5, <1>6, <1>7, <2>1, SteerSteps

\* A run that met nobody loses a steer to nothing but a stop.
LEMMA SoleRunKeepsSteersStep ==
    ASSUME TypeOK, HandoffInv, RunInv, SteerInv, [Next]_vars
    PROVE  SoleRunKeepsSteers'
<1>1. /\ pending \in [Chats -> Seq(Steers)] /\ fate \in [Steers -> Fates]
      /\ target \in [Steers -> Runs \cup {NoRun}] /\ pc \in [Runs -> Places]
      /\ active \in [Chats -> Runs \cup {NoRun}] /\ result \in [Runs -> Results]
      /\ NoRun \notin Runs /\ \A s \in Steers : SteerChat[s] \in Chats
      /\ \A r \in Runs : RunChat[r] \in Chats
  BY AssumptionsHold DEF TypeOK, Assumptions
<1>2. \A c \in Chats : \A s \in QueuedFor(c) :
          s \in Steers /\ fate[s] = "queued" /\ SteerChat[s] = c
  BY <1>1 DEF QueuedFor, HandoffInv, QueueHoldsQueued
<1> SUFFICES ASSUME NEW r \in Runs, NEW s \in Steers,
                    target'[s] = r, r \notin shared',
                    pc'[r] \in LoopPlaces \/ result'[r] = "completed"
             PROVE  /\ fate'[s] \in {"queued", "heard", "swept"}
                    /\ result'[r] = "completed" => fate'[s] # "queued"
  BY DEF SoleRunKeepsSteers
<1>3. CASE target[s] # r
  <2>1. ASSUME NEW t \in Steers, PushSteer(t), t # s PROVE target'[s] = target[s]
    BY <1>1, <2>1 DEF PushSteer
  <2>2. PushSteer(s)
    BY <1>3, <2>1, SteerSteps DEF Empties, Walks
  <2>3. active[SteerChat[s]] = r /\ fate'[s] = "queued" /\ result' = result
    BY <1>1, <1>3, <2>2 DEF PushSteer, SetFate, loopVars
  <2>4. RunChat[r] = SteerChat[s]
    BY <1>1, <2>3 DEF RunInv, RegisteredExecutes, Executing
  <2>5. result'[r] # "completed"
    BY <2>3, <2>4 DEF RunInv, CompletedIsRetired
  <2> QED
    BY <2>3, <2>5
<1>4. CASE target[s] = r
  <2>1. /\ fate[s] \in {"queued", "heard", "swept", "dropped"} /\ RunChat[r] = SteerChat[s]
        /\ pc[r] \notin {"idle", "register"}
    BY <1>1, <1>4 DEF SteerInv, TargetIsAccepted
  <2>2. NoResultYet
    BY DEF RunInv
  \* The run looped or had completed before the step.
  <2>3. r \notin shared /\ (pc[r] \in LoopPlaces \/ result[r] = "completed")
    <3>1. CASE Uneventful
      BY <3>1 DEF Uneventful
    <3>2. ASSUME NEW q \in Runs, Register(q)
          PROVE  r \notin shared /\ (pc[r] \in LoopPlaces \/ result[r] = "completed")
      BY <1>1, <2>1, <3>2 DEF Register, Goto, loopVars
    <3>3. ASSUME NEW q \in Runs, Completes(q)
          PROVE  r \notin shared /\ (pc[r] \in LoopPlaces \/ result[r] = "completed")
      BY <1>1, <3>3 DEF Completes, LoopPlaces
    <3>4. ASSUME NEW q \in Runs, Unregister(q)
          PROVE  r \notin shared /\ (pc[r] \in LoopPlaces \/ result[r] = "completed")
      BY <1>1, <3>4 DEF Unregister, Goto, LoopPlaces
    <3> QED
      BY <2>2, <3>1, <3>2, <3>3, <3>4, RunSteps
  <2>4. /\ fate[s] \in {"queued", "heard", "swept"}
        /\ result[r] = "completed" => fate[s] # "queued"
    BY <1>4, <2>3 DEF SteerInv, SoleRunKeepsSteers
  \* What is no longer queued keeps its fate.
  <2>5. fate[s] # "queued" => fate'[s] = fate[s]
    <3> SUFFICES ASSUME fate[s] # "queued" PROVE fate'[s] = fate[s]
      OBVIOUS
    <3>1. ASSUME NEW c \in Chats, NEW f, Empties(c, f) PROVE fate'[s] = fate[s]
      BY <1>2, <3>1 DEF Empties
    <3>2. ASSUME NEW t \in Steers, Walks(t) \/ PushSteer(t) PROVE fate'[s] = fate[s]
      BY <1>1, <2>4, <3>2 DEF Walks, PushSteer, SetFate
    <3> QED
      BY <1>1, <3>1, <3>2, SteerSteps
  \* A queued steer is heard, swept or stays; the end of another run of the chat
  \* would have met this one.
  <2>6. fate'[s] \in {"queued", "heard", "swept"}
    <3>1. CASE fate[s] # "queued"
      BY <2>4, <2>5, <3>1
    <3>2. CASE fate[s] = "queued"
      <4>1. pc[r] \in LoopPlaces
        BY <2>3, <2>4, <3>2
      <4>2. ASSUME NEW q \in Runs, Unregister(q), Empties(RunChat[q], "dropped")
            PROVE  fate'[s] = fate[s]
        <5>1. CASE s \notin QueuedFor(RunChat[q])
          BY <4>2, <5>1 DEF Empties
        <5>2. CASE s \in QueuedFor(RunChat[q])
          <6>1. RunChat[q] = RunChat[r]
            BY <1>1, <1>2, <2>1, <5>2
          <6>2. pc[q] = "unregister"
            BY <4>2 DEF Unregister
          <6>3. q # r /\ q \in Executing(RunChat[r]) /\ r \in Executing(RunChat[r])
            BY <4>1, <6>1, <6>2 DEF Executing, LoopPlaces
          <6>4. r \in shared
            BY <1>1, <6>3 DEF RunInv, Companions
          <6> QED
            BY <2>3, <6>4
        <5> QED
          BY <5>1, <5>2
      <4>3. ASSUME NEW c \in Chats, NEW f \in {"heard", "swept"}, Empties(c, f)
            PROVE  fate'[s] \in {"queued", "heard", "swept"}
        BY <3>2, <4>3 DEF Empties
      <4>4. ASSUME NEW t \in Steers, Walks(t) \/ PushSteer(t) PROVE fate'[s] = fate[s]
        BY <1>1, <3>2, <4>4 DEF Walks, PushSteer, SetFate
      <4> QED
        BY <3>2, <4>2, <4>3, <4>4, SteerSteps
    <3> QED
      BY <3>1, <3>2
  \* A run completes on an empty queue, where a queued steer of its own would be.
  <2>7. ASSUME result'[r] = "completed", fate[s] = "queued" PROVE FALSE
    <3>1. result[r] # "completed"
      BY <2>4, <2>7
    <3>2. ASSUME NEW q \in Runs, Register(q) \/ Unregister(q) PROVE result' = result
      BY <3>2 DEF Register, Unregister, loopVars
    <3>3. PICK q \in Runs : Completes(q)
      BY <2>2, <2>7, <3>1, <3>2, RunSteps DEF Uneventful
    <3>4. q = r
      BY <1>1, <2>7, <3>1, <3>3 DEF Completes
    <3>5. pending[SteerChat[s]] = <<>>
      BY <2>1, <3>3, <3>4 DEF Completes
    <3>6. s \in QueuedFor(SteerChat[s])
      BY <2>7 DEF SteerInv, QueuedIsInQueue
    <3> QED
      BY <3>5, <3>6 DEF QueuedFor
  <2> QED
    BY <2>4, <2>5, <2>6, <2>7
<1> QED
  BY <1>3, <1>4

\* Where the steers are holds in every reachable state.
LEMMA SteerInvariant == Spec => []SteerInv
<1>1. Init => SteerInv
  BY AssumptionsHold
     DEF Init, SteerInv, TargetIsAccepted, QueuedIsInQueue, SoleRunKeepsSteers, Assumptions
<1>2. TypeOK /\ HandoffInv /\ RunInv /\ SteerInv /\ [Next]_vars => SteerInv'
  BY SteerPlacesStep, SoleRunKeepsSteersStep DEF SteerInv
<1> QED
  BY <1>1, <1>2, TypeCorrect, HandoffInvariant, RunInvariant, PTL DEF Spec

\* A run that met no other and reports completion has heard every steer accepted
\* for it, but for those a stop took away.
THEOREM CompletedRunHeard == Spec => []CompletedRunHeardItsSteers
<1>1. SteerInv => CompletedRunHeardItsSteers
  BY DEF SteerInv, SoleRunKeepsSteers, CompletedRunHeardItsSteers
<1> QED
  BY <1>1, SteerInvariant, PTL

\* No steer stands twice in a queue.
QueueDistinct ==
    \A c \in Chats : \A i, j \in 1..Len(pending[c]) : pending[c][i] = pending[c][j] => i = j

OnceInv == HeardOnce /\ QueueDistinct

\* What a step does to the queues and the conversations.
LEMMA OnceSteps ==
    ASSUME TypeOK, [Next]_vars
    PROVE  \/ UNCHANGED <<pending, messages>>
           \/ \E r \in Runs : /\ messages' = [messages EXCEPT ![r] = @ \o pending[RunChat[r]]]
                              /\ pending' = [pending EXCEPT ![RunChat[r]] = <<>>]
           \/ \E c \in Chats : pending' = [pending EXCEPT ![c] = <<>>] /\ messages' = messages
           \/ \E s \in Steers : PushSteer(s)
<1>1. CASE UNCHANGED handoffVars
  BY <1>1 DEF handoffVars
<1>2. ASSUME NEW r \in Runs, Register(r) PROVE UNCHANGED <<pending, messages>>
  BY <1>2 DEF Register, loopVars
<1>3. ASSUME NEW r \in Runs, DrainSteers(r) \/ FinishOrSteer(r)
      PROVE  /\ messages' = [messages EXCEPT ![r] = @ \o pending[RunChat[r]]]
             /\ pending' = [pending EXCEPT ![RunChat[r]] = <<>>]
  BY <1>3 DEF DrainSteers, FinishOrSteer, ApplySteers
<1>4. ASSUME NEW r \in Runs, Unregister(r)
      PROVE  /\ pending' = [pending EXCEPT ![RunChat[r]] = <<>>] /\ messages' = messages
             /\ RunChat[r] \in Chats
  BY <1>4, AssumptionsHold DEF Unregister, Assumptions
<1>5. ASSUME NEW c \in Chats, StopSweepsSteers(c)
      PROVE  pending' = [pending EXCEPT ![c] = <<>>] /\ messages' = messages
  BY <1>5 DEF StopSweepsSteers, loopVars
<1>6. ASSUME NEW s \in Steers, CheckRunning(s) \/ PersistSteer(s) \/ RollbackSteer(s)
      PROVE  UNCHANGED <<pending, messages>>
  BY <1>6 DEF CheckRunning, PersistSteer, RollbackSteer, loopVars
<1> QED
  BY <1>1, <1>2, <1>3, <1>4, <1>5, <1>6, HandoffSteps

\* Emptying a queue keeps the other queues distinct.
LEMMA EmptyKeepsDistinct ==
    ASSUME TypeOK, QueueDistinct, NEW c \in Chats, pending' = [pending EXCEPT ![c] = <<>>]
    PROVE  QueueDistinct'
<1>1. pending \in [Chats -> Seq(Steers)]
  BY DEF TypeOK
<1> SUFFICES ASSUME NEW d \in Chats, NEW i \in 1..Len(pending'[d]), NEW j \in 1..Len(pending'[d]),
                    pending'[d][i] = pending'[d][j]
             PROVE  i = j
  BY DEF QueueDistinct
<1>2. CASE d = c
  BY <1>1, <1>2
<1>3. CASE d # c
  BY <1>1, <1>3 DEF QueueDistinct
<1> QED
  BY <1>2, <1>3

\* A conversation that takes a queue of queued steers repeats none.
LEMMA AppendKeepsHeardOnce ==
    ASSUME TypeOK, HandoffInv, OnceInv, NEW r \in Runs, NEW c \in Chats,
           messages' = [messages EXCEPT ![r] = @ \o pending[c]]
    PROVE  HeardOnce'
<1>1. pending \in [Chats -> Seq(Steers)] /\ messages \in [Runs -> Seq(Steers)]
  BY DEF TypeOK
<1>2. /\ messages'[r] = messages[r] \o pending[c]
      /\ \A q \in Runs : q # r => messages'[q] = messages[q]
  BY <1>1
\* An entry of a conversation is an old one, heard, or one of the queue.
<1>3. ASSUME NEW q \in Runs, NEW i \in 1..Len(messages'[q])
      PROVE  \/ /\ i \in 1..Len(messages[q]) /\ messages'[q][i] = messages[q][i]
                /\ fate[messages'[q][i]] = "heard"
             \/ /\ q = r /\ i - Len(messages[r]) \in 1..Len(pending[c])
                /\ messages'[q][i] = pending[c][i - Len(messages[r])]
                /\ fate[messages'[q][i]] = "queued"
  <2>1. CASE q # r
    BY <1>2, <2>1 DEF HandoffInv, ConversationHoldsHeard
  <2>2. CASE q = r /\ i \in 1..Len(messages[r])
    <3>1. messages'[r][i] = messages[r][i]
      BY <1>1, <1>2, <2>2
    <3> QED
      BY <2>2, <3>1 DEF HandoffInv, ConversationHoldsHeard
  <2>3. CASE q = r /\ i \notin 1..Len(messages[r])
    <3>1. /\ i - Len(messages[r]) \in 1..Len(pending[c])
          /\ messages'[r][i] = pending[c][i - Len(messages[r])]
      BY <1>1, <1>2, <2>3
    <3> QED
      BY <2>3, <3>1 DEF HandoffInv, QueueHoldsQueued
  <2> QED
    BY <2>1, <2>2, <2>3
<1> SUFFICES ASSUME NEW q \in Runs, NEW p \in Runs,
                    NEW i \in 1..Len(messages'[q]), NEW j \in 1..Len(messages'[p]),
                    messages'[q][i] = messages'[p][j]
             PROVE  q = p /\ i = j
  BY DEF HeardOnce
<1>4. CASE fate[messages'[q][i]] = "heard"
  <2>1. /\ i \in 1..Len(messages[q]) /\ j \in 1..Len(messages[p])
        /\ messages[q][i] = messages[p][j]
    BY <1>3, <1>4
  <2> QED
    BY <2>1 DEF OnceInv, HeardOnce
<1>5. CASE fate[messages'[q][i]] = "queued"
  <2>1. /\ q = r /\ p = r
        /\ i - Len(messages[r]) \in 1..Len(pending[c])
        /\ j - Len(messages[r]) \in 1..Len(pending[c])
        /\ pending[c][i - Len(messages[r])] = pending[c][j - Len(messages[r])]
    BY <1>3, <1>5
  <2>2. i - Len(messages[r]) = j - Len(messages[r])
    BY <2>1 DEF OnceInv, QueueDistinct
  <2>3. Len(messages[r]) \in Nat /\ i \in Int /\ j \in Int
    BY <1>1
  <2> QED
    BY <2>1, <2>2, <2>3
<1> QED
  BY <1>3, <1>4, <1>5

\* A steer is pushed once, so it joins no queue that holds it.
LEMMA PushKeepsDistinct ==
    ASSUME TypeOK, HandoffInv, QueueDistinct, NEW s \in Steers, PushSteer(s)
    PROVE  QueueDistinct'
<1>1. pending \in [Chats -> Seq(Steers)] /\ SteerChat[s] \in Chats
  BY AssumptionsHold DEF TypeOK, Assumptions
<1>2. fate[s] = "persisted"
  BY DEF PushSteer
<1>3. \A c \in Chats : \A i \in 1..Len(pending[c]) : pending[c][i] # s
  BY <1>2 DEF HandoffInv, QueueHoldsQueued
<1>4. pending' = pending \/ pending' = [pending EXCEPT ![SteerChat[s]] = Append(@, s)]
  BY DEF PushSteer
<1> SUFFICES ASSUME pending' = [pending EXCEPT ![SteerChat[s]] = Append(@, s)],
                    NEW d \in Chats, NEW i \in 1..Len(pending'[d]), NEW j \in 1..Len(pending'[d]),
                    pending'[d][i] = pending'[d][j]
             PROVE  i = j
  BY <1>4 DEF QueueDistinct
<1>5. CASE d # SteerChat[s]
  BY <1>1, <1>5 DEF QueueDistinct
<1>6. CASE d = SteerChat[s]
  <2>1. pending'[d] = Append(pending[d], s) /\ pending[d] \in Seq(Steers)
    BY <1>1, <1>6
  <2>2. ASSUME NEW k \in 1..Len(pending'[d])
        PROVE  \/ k \in 1..Len(pending[d]) /\ pending'[d][k] = pending[d][k]
               \/ k = Len(pending[d]) + 1 /\ pending'[d][k] = s
    BY <2>1
  <2> QED
    BY <1>3, <2>2 DEF QueueDistinct
<1> QED
  BY <1>5, <1>6

\* No steer enters a conversation twice.
THEOREM SteersAreHeardOnce == Spec => []HeardOnce
<1>1. Init => OnceInv
  BY DEF Init, OnceInv, HeardOnce, QueueDistinct
<1>2. TypeOK /\ HandoffInv /\ OnceInv /\ [Next]_vars => OnceInv'
  <2> SUFFICES ASSUME TypeOK, HandoffInv, OnceInv, [Next]_vars PROVE OnceInv'
    OBVIOUS
  <2>1. CASE UNCHANGED <<pending, messages>>
    BY <2>1 DEF OnceInv, HeardOnce, QueueDistinct
  <2>2. ASSUME NEW r \in Runs, messages' = [messages EXCEPT ![r] = @ \o pending[RunChat[r]]],
               pending' = [pending EXCEPT ![RunChat[r]] = <<>>]
        PROVE  OnceInv'
    <3>1. RunChat[r] \in Chats
      BY AssumptionsHold DEF Assumptions
    <3>2. QueueDistinct
      BY DEF OnceInv
    <3> QED
      BY <2>2, <3>1, <3>2, EmptyKeepsDistinct, AppendKeepsHeardOnce DEF OnceInv
  <2>3. ASSUME NEW c \in Chats, pending' = [pending EXCEPT ![c] = <<>>], messages' = messages
        PROVE  OnceInv'
    BY <2>3, EmptyKeepsDistinct DEF OnceInv, HeardOnce
  <2>4. ASSUME NEW s \in Steers, PushSteer(s) PROVE OnceInv'
    <3>1. messages' = messages
      BY <2>4 DEF PushSteer, loopVars
    <3> QED
      BY <2>4, <3>1, PushKeepsDistinct DEF OnceInv, HeardOnce
  <2> QED
    BY <2>1, <2>2, <2>3, <2>4, OnceSteps
<1>3. OnceInv => HeardOnce
  BY DEF OnceInv
<1> QED
  BY <1>1, <1>2, <1>3, TypeCorrect, HandoffInvariant, PTL DEF Spec
-----------------------------------------------------------------------------
(***************************************************************************)
(* AgentLoop implements SteerMailbox.                                      *)
(***************************************************************************)

\* What the mapping makes of each fate.
LEMMA OutcomeOf ==
    /\ Outcome("new") = "unsent" /\ Outcome("checked") = "unsent"
    /\ Outcome("persisted") = "unsent"
    /\ Outcome("queued") = "queued" /\ Outcome("heard") = "read"
    /\ Outcome("refused") = "refused" /\ Outcome("rollback") = "refused"
    /\ Outcome("swept") = "discarded" /\ Outcome("dropped") = "discarded"
  BY DEF Outcome

\* The initial states are initial states of the mailbox.
LEMMA MailboxInit == Init => Mailbox!Init
  BY OutcomeOf DEF Init, Mailbox!Init

\* A queue that is emptied with one fate for its steers settles the mailbox.
LEMMA SettleMaps ==
    ASSUME NEW c \in Chats, NEW f \in Fates,
           fate' = [s \in Steers |-> IF s \in QueuedFor(c) THEN f ELSE fate[s]]
    PROVE  Mailbox!Settle(c, Outcome(f))
  BY DEF QueuedFor, Mailbox!Queued, Mailbox!Settle

\* An empty queue leaves nothing to settle.
LEMMA NothingToSettle ==
    ASSUME TypeOK, NEW c \in Chats, pending[c] = <<>>, NEW f \in Fates,
           fate' = [s \in Steers |-> IF s \in QueuedFor(c) THEN f ELSE fate[s]]
    PROVE  fate' = fate
<1>1. QueuedFor(c) = {}
  BY DEF QueuedFor
<1>2. fate \in [Steers -> Fates]
  BY DEF TypeOK
<1> QED
  BY <1>1, <1>2

\* Registering a run opens the mailbox of its chat, or finds it open.
LEMMA RegisterMaps ==
    ASSUME TypeOK, NEW r \in Runs, Register(r)
    PROVE  Mailbox!Open(RunChat[r]) \/ UNCHANGED Mailbox!vars
<1>1. /\ active' = [active EXCEPT ![RunChat[r]] = r]
      /\ UNCHANGED <<pending, fate, messages>>
  BY DEF Register, loopVars, steerVars
<1>2. RunChat[r] \in Chats /\ r # NoRun /\ active \in [Chats -> Runs \cup {NoRun}]
  BY AssumptionsHold DEF Assumptions, TypeOK
<1>3. {c \in Chats : active[c] # NoRun}' = {c \in Chats : active[c] # NoRun} \cup {RunChat[r]}
  BY <1>1, <1>2
<1>4. UNCHANGED <<pending, [s \in Steers |-> Outcome(fate[s])], messages>>
  BY <1>1
<1> QED
  BY <1>2, <1>3, <1>4 DEF Mailbox!Open, Mailbox!vars

\* The drain is a read of the whole queue, or finds it empty.
LEMMA DrainMaps ==
    ASSUME TypeOK, NEW r \in Runs, ApplySteers(r, RunChat[r]),
           pending' = [pending EXCEPT ![RunChat[r]] = <<>>], UNCHANGED active
    PROVE  Mailbox!Read(r, RunChat[r]) \/ UNCHANGED Mailbox!vars
<1>1. /\ RunChat[r] \in Chats /\ "heard" \in Fates
      /\ pending \in [Chats -> Seq(Steers)] /\ messages \in [Runs -> Seq(Steers)]
  BY AssumptionsHold DEF Assumptions, TypeOK, Fates
<1>2. /\ fate' = [s \in Steers |-> IF s \in QueuedFor(RunChat[r]) THEN "heard" ELSE fate[s]]
      /\ messages' = [messages EXCEPT ![r] = @ \o pending[RunChat[r]]]
  BY DEF ApplySteers
<1>3. CASE pending[RunChat[r]] = <<>>
  <2>1. fate' = fate
    BY <1>1, <1>2, <1>3, NothingToSettle
  <2>2. messages' = messages
    <3>1. messages[r] \o <<>> = messages[r]
      BY <1>1
    <3> QED
      BY <1>1, <1>2, <1>3, <3>1
  <2>3. pending' = pending
    BY <1>1, <1>3
  <2> QED
    BY <2>1, <2>2, <2>3 DEF Mailbox!vars
<1>4. CASE pending[RunChat[r]] # <<>>
  <2>1. Mailbox!Settle(RunChat[r], "read")
    BY <1>1, <1>2, SettleMaps, OutcomeOf
  <2> QED
    BY <1>2, <1>4, <2>1 DEF Mailbox!Read
<1> QED
  BY <1>3, <1>4

\* Retiring the handle closes the mailbox, whose queue is discarded; there is
\* nothing to discard when the mailbox is already closed.
LEMMA CloseMaps ==
    ASSUME TypeOK, NoOrphanSteer, NEW c \in Chats, NEW f \in {"dropped", "swept"},
           active' = [active EXCEPT ![c] = NoRun],
           pending' = [pending EXCEPT ![c] = <<>>],
           fate' = [s \in Steers |-> IF s \in QueuedFor(c) THEN f ELSE fate[s]],
           UNCHANGED messages
    PROVE  Mailbox!Close(c) \/ UNCHANGED Mailbox!vars
<1>1. /\ active \in [Chats -> Runs \cup {NoRun}] /\ pending \in [Chats -> Seq(Steers)]
      /\ f \in Fates
  BY DEF TypeOK, Fates
<1>2. {d \in Chats : active[d] # NoRun}' = {d \in Chats : active[d] # NoRun} \ {c}
  BY <1>1
<1>3. CASE active[c] = NoRun
  <2>1. pending[c] = <<>>
    BY <1>3 DEF NoOrphanSteer
  <2>2. fate' = fate
    BY <1>1, <2>1, NothingToSettle
  <2>3. pending' = pending
    BY <1>1, <2>1
  <2>4. {d \in Chats : active[d] # NoRun}' = {d \in Chats : active[d] # NoRun}
    BY <1>2, <1>3
  <2> QED
    BY <2>2, <2>3, <2>4 DEF Mailbox!vars
<1>4. CASE active[c] # NoRun
  <2>1. Mailbox!Settle(c, "discarded")
    <3>1. Outcome(f) = "discarded"
      BY OutcomeOf
    <3> QED
      BY <1>1, <3>1, SettleMaps
  <2> QED
    BY <1>2, <1>4, <2>1 DEF Mailbox!Close
<1> QED
  BY <1>3, <1>4

\* finish_or_steer reads a non-empty queue or closes the mailbox.
LEMMA FinishMaps ==
    ASSUME TypeOK, NoOrphanSteer, NEW r \in Runs, FinishOrSteer(r)
    PROVE  \/ Mailbox!Read(r, RunChat[r])
           \/ Mailbox!Close(RunChat[r])
           \/ UNCHANGED Mailbox!vars
<1> DEFINE c == RunChat[r]
<1>1. /\ c \in Chats /\ {"heard", "dropped"} \subseteq Fates
      /\ messages \in [Runs -> Seq(Steers)] /\ fate \in [Steers -> Fates]
  BY AssumptionsHold DEF Assumptions, TypeOK, Fates
<1>2. ApplySteers(r, c) /\ pending' = [pending EXCEPT ![c] = <<>>]
  BY DEF FinishOrSteer
<1>3. CASE pending[c] = <<>>
  <2>1. active' = [active EXCEPT ![c] = NoRun]
    BY <1>3 DEF FinishOrSteer
  <2>2. fate' = fate
    BY <1>1, <1>2, <1>3, NothingToSettle DEF ApplySteers
  <2>3. fate' = [s \in Steers |-> IF s \in QueuedFor(c) THEN "dropped" ELSE fate[s]]
    BY <1>1, <1>3, <2>2 DEF QueuedFor
  <2>4. messages' = messages
    <3>1. messages[r] \o <<>> = messages[r]
      BY <1>1
    <3> QED
      BY <1>1, <1>2, <1>3, <3>1 DEF ApplySteers
  <2> QED
    BY <1>1, <1>2, <2>1, <2>3, <2>4, CloseMaps
<1>4. CASE pending[c] # <<>>
  <2>1. UNCHANGED active
    BY <1>4 DEF FinishOrSteer
  <2> QED
    BY <1>2, <2>1, DrainMaps
<1> QED
  BY <1>3, <1>4

\* The second half of cancel_run discards a queue, or finds it empty.
LEMMA SweepMaps ==
    ASSUME TypeOK, NEW c \in Chats, StopSweepsSteers(c)
    PROVE  Mailbox!Discard(c) \/ UNCHANGED Mailbox!vars
<1>1. /\ pending' = [pending EXCEPT ![c] = <<>>]
      /\ fate' = [s \in Steers |-> IF s \in QueuedFor(c) THEN "swept" ELSE fate[s]]
      /\ UNCHANGED <<active, messages>>
  BY DEF StopSweepsSteers, loopVars
<1>2. "swept" \in Fates /\ pending \in [Chats -> Seq(Steers)]
  BY DEF Fates, TypeOK
<1>3. CASE pending[c] = <<>>
  <2>1. fate' = fate
    BY <1>1, <1>2, <1>3, NothingToSettle
  <2> QED
    BY <1>1, <1>2, <1>3, <2>1 DEF Mailbox!vars
<1>4. CASE pending[c] # <<>>
  <2>1. Mailbox!Settle(c, "discarded")
    BY <1>1, <1>2, SettleMaps, OutcomeOf
  <2> QED
    BY <1>1, <1>4, <2>1 DEF Mailbox!Discard
<1> QED
  BY <1>3, <1>4

\* The steps of native_chat_steer accept, refuse, or are internal.
LEMMA SteerMaps ==
    ASSUME TypeOK, NEW s \in Steers, CheckRunning(s) \/ SteerStep(s)
    PROVE  \/ Mailbox!Accept(s, SteerChat[s])
           \/ Mailbox!Refuse(s, SteerChat[s])
           \/ UNCHANGED Mailbox!vars
<1> DEFINE c == SteerChat[s]
           before == [t \in Steers |-> Outcome(fate[t])]
<1>1. c \in Chats /\ fate \in [Steers -> Fates]
  BY AssumptionsHold DEF Assumptions, TypeOK
<1>2. ASSUME NEW f \in Fates, fate' = [fate EXCEPT ![s] = f]
      PROVE  before' = [before EXCEPT ![s] = Outcome(f)]
  BY <1>1, <1>2
<1>3. ASSUME NEW f \in Fates, fate' = [fate EXCEPT ![s] = f], Outcome(f) = Outcome(fate[s])
      PROVE  before' = before
  BY <1>1, <1>3
<1>4. ASSUME fate[s] \in {"new", "persisted"}, active[c] = NoRun,
             fate' = [fate EXCEPT ![s] = "refused"] \/ fate' = [fate EXCEPT ![s] = "rollback"],
             UNCHANGED <<active, pending, messages>>
      PROVE  Mailbox!Refuse(s, c)
  <2>1. before' = [before EXCEPT ![s] = "refused"]
    <3>1. "refused" \in Fates /\ "rollback" \in Fates
      BY DEF Fates
    <3> QED
      BY <1>2, <1>4, <3>1, OutcomeOf
  <2>2. before[s] = "unsent"
    BY <1>4, OutcomeOf
  <2> QED
    BY <1>4, <2>1, <2>2 DEF Mailbox!Refuse
<1>5. CASE CheckRunning(s)
  <2>1. fate[s] = "new" /\ UNCHANGED <<active, pending, messages>>
    BY <1>5 DEF CheckRunning, loopVars
  <2>2. CASE active[c] = NoRun
    BY <1>4, <1>5, <2>1, <2>2 DEF CheckRunning, SetFate
  <2>3. CASE active[c] # NoRun
    <3>1. fate' = [fate EXCEPT ![s] = "checked"] /\ "checked" \in Fates
      BY <1>5, <2>3 DEF CheckRunning, SetFate, Fates
    <3>2. before' = before
      BY <1>3, <2>1, <3>1, OutcomeOf
    <3> QED
      BY <2>1, <3>2 DEF Mailbox!vars
  <2> QED
    BY <2>2, <2>3
<1>6. CASE PersistSteer(s)
  <2>1. /\ fate[s] = "checked" /\ fate' = [fate EXCEPT ![s] = "persisted"]
        /\ "persisted" \in Fates /\ UNCHANGED <<active, pending, messages>>
    BY <1>6 DEF PersistSteer, SetFate, Fates, loopVars
  <2>2. before' = before
    BY <1>3, <2>1, OutcomeOf
  <2> QED
    BY <2>1, <2>2 DEF Mailbox!vars
<1>7. CASE PushSteer(s)
  <2>1. fate[s] = "persisted" /\ UNCHANGED <<active, messages>>
    BY <1>7 DEF PushSteer, loopVars
  <2>2. CASE active[c] = NoRun
    BY <1>4, <1>7, <2>1, <2>2 DEF PushSteer, SetFate
  <2>3. CASE active[c] # NoRun
    <3>1. /\ fate' = [fate EXCEPT ![s] = "queued"] /\ "queued" \in Fates
          /\ pending' = [pending EXCEPT ![c] = Append(@, s)]
      BY <1>7, <2>3 DEF PushSteer, SetFate, Fates
    <3>2. before' = [before EXCEPT ![s] = "queued"] /\ before[s] = "unsent"
      BY <1>2, <2>1, <3>1, OutcomeOf
    <3> QED
      BY <1>1, <2>1, <2>3, <3>1, <3>2 DEF Mailbox!Accept
  <2> QED
    BY <2>2, <2>3
<1>8. CASE RollbackSteer(s)
  <2>1. /\ fate[s] = "rollback" /\ fate' = [fate EXCEPT ![s] = "refused"]
        /\ "refused" \in Fates /\ UNCHANGED <<active, pending, messages>>
    BY <1>8 DEF RollbackSteer, SetFate, Fates, loopVars
  <2>2. before' = before
    BY <1>3, <2>1, OutcomeOf
  <2> QED
    BY <2>1, <2>2 DEF Mailbox!vars
<1> QED
  BY <1>5, <1>6, <1>7, <1>8 DEF SteerStep

\* Every step of the loop is a step of the mailbox or leaves it alone.
LEMMA MailboxStep ==
    TypeOK /\ NoOrphanSteer /\ [Next]_vars => [Mailbox!Next]_Mailbox!vars
<1> SUFFICES ASSUME TypeOK, NoOrphanSteer, [Next]_vars
             PROVE  Mailbox!Next \/ UNCHANGED Mailbox!vars
  OBVIOUS
<1>1. /\ \A r \in Runs : RunChat[r] \in Chats
      /\ \A s \in Steers : SteerChat[s] \in Chats
  BY AssumptionsHold DEF Assumptions
<1>2. CASE UNCHANGED handoffVars
  BY <1>2 DEF handoffVars, Mailbox!vars
<1>3. ASSUME NEW r \in Runs, Register(r) PROVE Mailbox!Next \/ UNCHANGED Mailbox!vars
  BY <1>1, <1>3, RegisterMaps DEF Mailbox!Next
<1>4. ASSUME NEW r \in Runs, DrainSteers(r) PROVE Mailbox!Next \/ UNCHANGED Mailbox!vars
  <2>1. /\ ApplySteers(r, RunChat[r]) /\ UNCHANGED active
        /\ pending' = [pending EXCEPT ![RunChat[r]] = <<>>]
    BY <1>4 DEF DrainSteers
  <2> QED
    BY <1>1, <2>1, DrainMaps DEF Mailbox!Next
<1>5. ASSUME NEW r \in Runs, FinishOrSteer(r) PROVE Mailbox!Next \/ UNCHANGED Mailbox!vars
  BY <1>1, <1>5, FinishMaps DEF Mailbox!Next
<1>6. ASSUME NEW r \in Runs, Unregister(r) PROVE Mailbox!Next \/ UNCHANGED Mailbox!vars
  <2>1. /\ active' = [active EXCEPT ![RunChat[r]] = NoRun]
        /\ pending' = [pending EXCEPT ![RunChat[r]] = <<>>]
        /\ fate' = [s \in Steers |->
                       IF s \in QueuedFor(RunChat[r]) THEN "dropped" ELSE fate[s]]
        /\ UNCHANGED messages
    BY <1>6 DEF Unregister
  <2> QED
    BY <1>1, <2>1, CloseMaps DEF Mailbox!Next
<1>7. ASSUME NEW c \in Chats, StopSweepsSteers(c)
      PROVE  Mailbox!Next \/ UNCHANGED Mailbox!vars
  BY <1>7, SweepMaps DEF Mailbox!Next
<1>8. ASSUME NEW s \in Steers, CheckRunning(s) \/ SteerStep(s)
      PROVE  Mailbox!Next \/ UNCHANGED Mailbox!vars
  BY <1>1, <1>8, SteerMaps DEF Mailbox!Next
<1> QED
  BY <1>2, <1>3, <1>4, <1>5, <1>6, <1>7, <1>8, HandoffSteps DEF SteerStep

\* The loop, its steers and its stops behave like the mailbox: a steer is
\* accepted only while a run is registered, refused only while none is, read
\* once and in order, and never left behind by a run that ends.
THEOREM LoopImplementsMailbox == Spec => ImplementsMailbox
<1>1. Init => Mailbox!Init
  BY MailboxInit
<1>2. TypeOK /\ NoOrphanSteer /\ [Next]_vars => [Mailbox!Next]_Mailbox!vars
  BY MailboxStep
<1> QED
  BY <1>1, <1>2, TypeCorrect, NoSteerIsOrphaned, PTL DEF Spec, ImplementsMailbox, Mailbox!Spec
=============================================================================
