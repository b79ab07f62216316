--------------------------- MODULE SubagentsProofs ---------------------------
(***************************************************************************)
(* Theorems about the subagents, for any number of chats, turns, children, *)
(* kickoffs, limits and crashes.  Inv relates where a child's thread is to *)
(* the registries (LifeInv) and to the permits (PermitsAddUp, which bounds *)
(* the gates and so is part of type correctness).  That a stop reaches     *)
(* every child is proved for chats that have one turn at a time: with two, *)
(* the second overwrites the entry subagent_admitted looks up.             *)
(***************************************************************************)
EXTENDS Subagents, FiniteSetTheorems, TLAPS

OneTurnPerChat == \A t, u \in Turns : TurnChat[t] = TurnChat[u] => t = u

\* A child is in CHILDREN from its creation to finish_child, and in ACTIVE_RUNS
\* while it is in its loop.
LifeInv ==
    /\ \A k \in live : child[k] \notin {"none", "return", "ended"}
    /\ \A k \in Children : child[k] \in {"created", "panicked", "withdraw", "noRuntime", "granted"}
                                          \cup Waiting \cup Looping => k \in live
    /\ \A k \in Children : child[k] \in Looping => k \in running

\* A running child of a cancelled turn that has no token set yet is still
\* ahead of the stop that cancelled the turn.
StopInv ==
    /\ \A c \in Chats : active[c] # NoTurn => TurnChat[active[c]] = c
    /\ \A k \in Children :
         child[k] \in Looping /\ ParentCancelled(k) /\ k \notin cancelled
         => \/ stop[ChatOf(k)].at = "approvals"
            \/ stop[ChatOf(k)].at \in {"children", "sweep"} /\ k \in stop[ChatOf(k)].victims

\* execute_task returns when all its children have: only a turn that joins has
\* children whose threads run.
CallInv ==
    \A t \in Turns :
        /\ turn[t] \in {"idle", "loop"} => \/ \A k \in ChildrenOf(t) : child[k] = "none"
                                         \/ \A k \in ChildrenOf(t) : child[k] = "ended"
        /\ turn[t] = "creating" => \A k \in ChildrenOf(t) : child[k] \in {"none", "created"}
        /\ turn[t] \in {"unregister", "done"}
           => \A k \in ChildrenOf(t) : child[k] \in {"none", "ended"}

\* Who waits for a permit of the provider, or has one, knows of which semaphore.
FetchedInv ==
    /\ \A x \in Children \cup Kickoffs : semOf[x] <= current
    /\ \A k \in Children : child[k] \in {"providerWait"} \cup HoldsProvider => semOf[k] > 0
    /\ \A d \in Kickoffs : kickoff[d] \in {"wait", "starting"} => semOf[d] > 0

\* The two halves of PermitsAddUp.
GateSum == \A t \in Turns : gateFree[t] + Cardinality(GateHolders(t)) = GateMax
ProviderSum ==
    \A g \in 1..current :
        semaphores[g].free + Cardinality(ProviderHolders(g))
            + Cardinality(KickoffHolders(g)) = semaphores[g].limit

Inv == TypeOK /\ CallInv /\ FetchedInv /\ LifeInv /\ GateSum /\ ProviderSum

-------------------------------------------------------------------------------
(* Permits *)

\* A child that goes to a place without the gate's permit, or to one with it,
\* changes the holders of its own turn's gate by itself only.
LEMMA GateHoldersMove ==
  ASSUME TypeOK, NEW k \in Children, NEW place \in ChildPlaces, ChildAt(k, place), NEW t \in Turns
  PROVE  /\ IsFiniteSet(GateHolders(t)) /\ IsFiniteSet(GateHolders(t)')
         /\ Cardinality(GateHolders(t)) \in Nat /\ Cardinality(GateHolders(t)') \in Nat
         /\ ChildTurn[k] # t => GateHolders(t)' = GateHolders(t)
         /\ (child[k] \in HoldsGate <=> place \in HoldsGate) => GateHolders(t)' = GateHolders(t)
         /\ ChildTurn[k] = t /\ child[k] \notin HoldsGate /\ place \in HoldsGate
            => Cardinality(GateHolders(t)') = Cardinality(GateHolders(t)) + 1
         /\ ChildTurn[k] = t /\ child[k] \in HoldsGate /\ place \notin HoldsGate
            => Cardinality(GateHolders(t)') = Cardinality(GateHolders(t)) - 1
<1>1. IsFiniteSet(GateHolders(t)) /\ IsFiniteSet(GateHolders(t)')
  BY FiniteAssumption, FS_Subset DEF GateHolders, ChildrenOf
<1>2. Cardinality(GateHolders(t)) \in Nat /\ Cardinality(GateHolders(t)') \in Nat
  BY <1>1, FS_CardinalityType
<1>3. ChildTurn[k] = t /\ child[k] \notin HoldsGate /\ place \in HoldsGate
      => GateHolders(t)' = GateHolders(t) \cup {k} /\ k \notin GateHolders(t)
  BY DEF TypeOK, GateHolders, ChildrenOf, ChildAt
<1>4. ChildTurn[k] = t /\ child[k] \in HoldsGate /\ place \notin HoldsGate
      => GateHolders(t)' = GateHolders(t) \ {k} /\ k \in GateHolders(t)
  BY DEF TypeOK, GateHolders, ChildrenOf, ChildAt
<1>5. ChildTurn[k] # t \/ (child[k] \in HoldsGate <=> place \in HoldsGate)
      => GateHolders(t)' = GateHolders(t)
  BY DEF TypeOK, GateHolders, ChildrenOf, ChildAt
<1>6. ChildTurn[k] = t /\ child[k] \notin HoldsGate /\ place \in HoldsGate
      => Cardinality(GateHolders(t)') = Cardinality(GateHolders(t)) + 1
  BY <1>1, <1>3, FS_AddElement
<1>7. ChildTurn[k] = t /\ child[k] \in HoldsGate /\ place \notin HoldsGate
      => Cardinality(GateHolders(t)') = Cardinality(GateHolders(t)) - 1
  BY <1>1, <1>4, FS_RemoveElement
<1>8. QED
  BY <1>1, <1>2, <1>5, <1>6, <1>7

\* The same for the semaphores: a child that goes to a place without the
\* provider's permit, or to one with it, changes the holders of its own only.
LEMMA ProviderHoldersMove ==
  ASSUME TypeOK, NEW k \in Children, NEW place \in ChildPlaces, ChildAt(k, place),
         UNCHANGED semOf, NEW g \in Nat
  PROVE  /\ IsFiniteSet(ProviderHolders(g)) /\ Cardinality(ProviderHolders(g)) \in Nat
         /\ semOf[k] # g \/ (child[k] \in HoldsProvider <=> place \in HoldsProvider)
            => ProviderHolders(g)' = ProviderHolders(g)
         /\ semOf[k] = g /\ child[k] \notin HoldsProvider /\ place \in HoldsProvider
            => Cardinality(ProviderHolders(g)') = Cardinality(ProviderHolders(g)) + 1
         /\ semOf[k] = g /\ child[k] \in HoldsProvider /\ place \notin HoldsProvider
            => Cardinality(ProviderHolders(g)') = Cardinality(ProviderHolders(g)) - 1
<1>1. IsFiniteSet(ProviderHolders(g))
  BY FiniteAssumption, FS_Subset DEF ProviderHolders
<1>2. Cardinality(ProviderHolders(g)) \in Nat
  BY <1>1, FS_CardinalityType
<1>3. semOf[k] = g /\ child[k] \notin HoldsProvider /\ place \in HoldsProvider
      => ProviderHolders(g)' = ProviderHolders(g) \cup {k} /\ k \notin ProviderHolders(g)
  BY DEF TypeOK, ProviderHolders, ChildAt
<1>4. semOf[k] = g /\ child[k] \in HoldsProvider /\ place \notin HoldsProvider
      => ProviderHolders(g)' = ProviderHolders(g) \ {k} /\ k \in ProviderHolders(g)
  BY DEF TypeOK, ProviderHolders, ChildAt
<1>5. semOf[k] # g \/ (child[k] \in HoldsProvider <=> place \in HoldsProvider)
      => ProviderHolders(g)' = ProviderHolders(g)
  BY DEF TypeOK, ProviderHolders, ChildAt
<1>6. semOf[k] = g /\ child[k] \notin HoldsProvider /\ place \in HoldsProvider
      => Cardinality(ProviderHolders(g)') = Cardinality(ProviderHolders(g)) + 1
  BY <1>1, <1>3, FS_AddElement
<1>7. semOf[k] = g /\ child[k] \in HoldsProvider /\ place \notin HoldsProvider
      => Cardinality(ProviderHolders(g)') = Cardinality(ProviderHolders(g)) - 1
  BY <1>1, <1>4, FS_RemoveElement
<1>8. QED
  BY <1>1, <1>2, <1>5, <1>6, <1>7

KickoffAt(d, place) == kickoff' = [kickoff EXCEPT ![d] = place]

\* A kickoff that takes the permit it waited for, or returns it.
LEMMA KickoffHoldersMove ==
  ASSUME TypeOK, NEW d \in Kickoffs, NEW place \in {"idle", "wait", "starting", "running"},
         KickoffAt(d, place), UNCHANGED semOf, NEW g \in Nat
  PROVE  /\ IsFiniteSet(KickoffHolders(g)) /\ Cardinality(KickoffHolders(g)) \in Nat
         /\ semOf[d] # g => KickoffHolders(g)' = KickoffHolders(g)
         /\ semOf[d] = g /\ kickoff[d] # "starting" /\ place = "starting"
            => Cardinality(KickoffHolders(g)') = Cardinality(KickoffHolders(g)) + 1
         /\ semOf[d] = g /\ kickoff[d] = "starting" /\ place # "starting"
            => Cardinality(KickoffHolders(g)') = Cardinality(KickoffHolders(g)) - 1
<1>1. IsFiniteSet(KickoffHolders(g))
  BY FiniteAssumption, FS_Subset DEF KickoffHolders
<1>2. Cardinality(KickoffHolders(g)) \in Nat
  BY <1>1, FS_CardinalityType
<1>3. semOf[d] = g /\ kickoff[d] # "starting" /\ place = "starting"
      => KickoffHolders(g)' = KickoffHolders(g) \cup {d} /\ d \notin KickoffHolders(g)
  BY DEF TypeOK, KickoffAt, KickoffHolders
<1>4. semOf[d] = g /\ kickoff[d] = "starting" /\ place # "starting"
      => KickoffHolders(g)' = KickoffHolders(g) \ {d} /\ d \in KickoffHolders(g)
  BY DEF TypeOK, KickoffAt, KickoffHolders
<1>5. semOf[d] # g => KickoffHolders(g)' = KickoffHolders(g)
  BY DEF TypeOK, KickoffAt, KickoffHolders
<1>6. semOf[d] = g /\ kickoff[d] # "starting" /\ place = "starting"
      => Cardinality(KickoffHolders(g)') = Cardinality(KickoffHolders(g)) + 1
  BY <1>1, <1>3, FS_AddElement
<1>7. semOf[d] = g /\ kickoff[d] = "starting" /\ place # "starting"
      => Cardinality(KickoffHolders(g)') = Cardinality(KickoffHolders(g)) - 1
  BY <1>1, <1>4, FS_RemoveElement
<1>8. QED
  BY <1>1, <1>2, <1>5, <1>6, <1>7

-------------------------------------------------------------------------------
(* The inductive invariant *)

LEMMA CallInvSame ==
  ASSUME CallInv, UNCHANGED <<turn, child>> PROVE CallInv'
BY DEF CallInv

\* Whoever has a thread belongs to a turn that waits for it.
LEMMA CallInvMoves ==
  ASSUME TypeOK, CallInv, NEW k \in Children, child[k] \notin {"none", "created", "ended"},
         NEW place, ChildAt(k, place), UNCHANGED turn
  PROVE  CallInv'
<1>0. ChildTurn[k] \in Turns /\ k \in ChildrenOf(ChildTurn[k])
  BY FamilyAssumption DEF ChildrenOf
<1>a. turn[ChildTurn[k]] \notin {"idle", "loop", "creating", "unregister", "done"}
  BY <1>0 DEF CallInv
<1>1. turn[ChildTurn[k]] = "joining"
  BY <1>0, <1>a DEF TypeOK
<1>2. \A t \in Turns : t # ChildTurn[k] => \A j \in ChildrenOf(t) : child'[j] = child[j]
  BY DEF TypeOK, ChildrenOf, ChildAt
<1>3. QED
  BY <1>1, <1>2 DEF CallInv

\* No step lets a child run whose turn does not wait for it.
LEMMA CallInvStep ==
  ASSUME TypeOK, CallInv, [Next]_vars PROVE CallInv'
<1>0. child \in [Children -> ChildPlaces] /\ turn \in [Turns -> {"idle", "loop", "creating", "joining", "unregister", "done"}]
  BY DEF TypeOK
<1>1. ASSUME NEW t \in Turns, StartTurn(t) PROVE CallInv'
  BY FamilyAssumption, <1>0, <1>1 DEF StartTurn, CallInv, ChildrenOf, ChildAt, TurnAt
<1>2. ASSUME NEW t \in Turns, CallTask(t) PROVE CallInv'
  BY FamilyAssumption, <1>0, <1>2 DEF CallTask, CallInv, ChildrenOf, ChildAt, TurnAt
<1>3. ASSUME NEW t \in Turns, SpawnChildren(t) PROVE CallInv'
  BY FamilyAssumption, <1>0, <1>3 DEF SpawnChildren, CallInv, ChildrenOf, ChildAt, TurnAt
<1>4. ASSUME NEW t \in Turns, JoinChildren(t) PROVE CallInv'
  BY FamilyAssumption, <1>0, <1>4 DEF JoinChildren, CallInv, ChildrenOf, ChildAt, TurnAt
<1>5. ASSUME NEW t \in Turns, EndTurn(t) PROVE CallInv'
  BY FamilyAssumption, <1>0, <1>5 DEF EndTurn, CallInv, ChildrenOf, ChildAt, TurnAt
<1>6. ASSUME NEW t \in Turns, UnregisterTurn(t) PROVE CallInv'
  BY FamilyAssumption, <1>0, <1>6 DEF UnregisterTurn, CallInv, ChildrenOf, ChildAt, TurnAt
<1>7. ASSUME NEW t \in Turns, NEW k \in ChildrenOf(t), CreateChild(t, k) PROVE CallInv'
  BY FamilyAssumption, <1>0, <1>7 DEF CreateChild, CallInv, ChildrenOf, ChildAt, TurnAt
<1>8. ASSUME NEW t \in Turns, NEW k \in ChildrenOf(t), CreateFails(t, k) PROVE CallInv'
  BY FamilyAssumption, <1>0, <1>8 DEF CreateFails, CallInv, ChildrenOf, ChildAt, TurnAt
<1>9. ASSUME NEW t \in Turns, NEW k \in ChildrenOf(t), JoinPanicked(t, k) PROVE CallInv'
  BY CallInvMoves, <1>9 DEF JoinPanicked, ChildrenOf, Waiting, Looping
<1>10. ASSUME NEW k \in Children, RuntimeFails(k) PROVE CallInv'
  BY CallInvMoves, <1>10 DEF RuntimeFails, ChildrenOf, Waiting, Looping
<1>11. ASSUME NEW k \in Children, CheckAtGate(k) PROVE CallInv'
  BY CallInvMoves, <1>11 DEF CheckAtGate, ChildrenOf, Waiting, Looping
<1>12. ASSUME NEW k \in Children, GrantGate(k) PROVE CallInv'
  BY CallInvMoves, <1>12 DEF GrantGate, ChildrenOf, Waiting, Looping
<1>13. ASSUME NEW k \in Children, WakeChild(k) PROVE CallInv'
  BY CallInvMoves, CallInvSame, <1>13 DEF WakeChild
<1>14. ASSUME NEW k \in Children, CheckAtProvider(k) PROVE CallInv'
  BY CallInvMoves, <1>14 DEF CheckAtProvider, ChildrenOf, Waiting, Looping
<1>15. ASSUME NEW k \in Children, GrantProvider(k) PROVE CallInv'
  BY CallInvMoves, <1>15 DEF GrantProvider, ChildrenOf, Waiting, Looping
<1>16. ASSUME NEW k \in Children, StartChild(k) PROVE CallInv'
  BY CallInvMoves, <1>16 DEF StartChild, ChildrenOf, Waiting, Looping
<1>17. ASSUME NEW k \in Children, BeginTool(k) PROVE CallInv'
  BY CallInvMoves, <1>17 DEF BeginTool, ChildrenOf, Waiting, Looping
<1>18. ASSUME NEW k \in Children, AskApproval(k) PROVE CallInv'
  BY CallInvMoves, <1>18 DEF AskApproval, ChildrenOf, Waiting, Looping
<1>19. ASSUME NEW k \in Children, ResolveApproval(k) PROVE CallInv'
  BY CallInvSame, <1>19 DEF ResolveApproval, permits, database, registries
<1>20. ASSUME NEW k \in Children, ApprovalReturns(k) PROVE CallInv'
  BY CallInvMoves, <1>20 DEF ApprovalReturns, ChildrenOf, Waiting, Looping
<1>21. ASSUME NEW k \in Children, ToolReturns(k) PROVE CallInv'
  BY CallInvMoves, <1>21 DEF ToolReturns, ChildrenOf, Waiting, Looping
<1>22. ASSUME NEW k \in Children, EndChildLoop(k) PROVE CallInv'
  BY CallInvMoves, <1>22 DEF EndChildLoop, ChildrenOf, Waiting, Looping
<1>23. ASSUME NEW k \in Children, FinishChild(k) PROVE CallInv'
  BY CallInvMoves, <1>23 DEF FinishChild, ChildrenOf, Waiting, Looping
<1>24. ASSUME NEW k \in Children, ReturnPermits(k) PROVE CallInv'
  BY CallInvMoves, <1>24 DEF ReturnPermits, ChildrenOf, Waiting, Looping
<1>25. ASSUME NEW k \in Children, FinishWithoutRun(k) PROVE CallInv'
  BY CallInvMoves, <1>25 DEF FinishWithoutRun, ChildrenOf, Waiting, Looping
<1>26. ASSUME NEW k \in Children, Panic(k) PROVE CallInv'
  BY CallInvMoves, <1>26 DEF Panic, ChildrenOf, Waiting, Looping
<1>27. ASSUME NEW c \in Chats, BeginStop(c) PROVE CallInv'
  BY CallInvSame, <1>27 DEF BeginStop, permits, database, registries
<1>28. ASSUME NEW c \in Chats, ListChildren(c) PROVE CallInv'
  BY CallInvSame, <1>28 DEF ListChildren, permits, database, registries
<1>29. ASSUME NEW c \in Chats, SweepChildApprovals(c) PROVE CallInv'
  BY CallInvSame, <1>29 DEF SweepChildApprovals, permits, database, registries
<1>30. ASSUME NEW c \in Chats, WakeChildren(c) PROVE CallInv'
  BY CallInvSame, <1>30 DEF WakeChildren, permits, database, registries
<1>31. ASSUME NEW c \in Chats, ClearApprovals(c) PROVE CallInv'
  BY CallInvSame, <1>31 DEF ClearApprovals, permits, database, registries
<1>32. ASSUME NEW c \in Chats, NEW k \in Children, CancelChild(c, k) PROVE CallInv'
  BY CallInvSame, <1>32 DEF CancelChild, permits, database, registries
<1>33. ASSUME NEW d \in Kickoffs, FetchForKickoff(d) PROVE CallInv'
  BY CallInvSame, <1>33 DEF FetchForKickoff, permits, database, registries
<1>34. ASSUME NEW d \in Kickoffs, GrantKickoff(d) PROVE CallInv'
  BY CallInvSame, <1>34 DEF GrantKickoff, permits, database, registries
<1>35. ASSUME NEW d \in Kickoffs, EndKickoff(d) PROVE CallInv'
  BY CallInvSame, <1>35 DEF EndKickoff, permits, database, registries
<1>36. CASE ChangeLimit
  BY CallInvSame, <1>36 DEF ChangeLimit, permits, database, registries
<1>37. CASE Crash
  BY FamilyAssumption, <1>0, <1>37 DEF Crash, CallInv, ChildrenOf
<1>38. CASE SweepInterrupted
  BY CallInvSame, <1>38 DEF SweepInterrupted, permits, database, registries
<1>39. CASE UNCHANGED vars
  BY CallInvSame, <1>39 DEF vars
<1>40. QED
  BY <1>1, <1>2, <1>3, <1>4, <1>5, <1>6, <1>7, <1>8, <1>9, <1>10, <1>11, <1>12, <1>13,
     <1>14, <1>15, <1>16, <1>17, <1>18, <1>19, <1>20, <1>21, <1>22, <1>23, <1>24, <1>25,
     <1>26, <1>27, <1>28, <1>29, <1>30, <1>31, <1>32, <1>33, <1>34, <1>35, <1>36, <1>37,
     <1>38, <1>39
     DEF Next, TurnStep, ChildStep, StopStep, KickoffStep

LEMMA LifeInvSame ==
  ASSUME LifeInv, UNCHANGED <<child, live, running>> PROVE LifeInv'
BY DEF LifeInv, Waiting, Looping

LEMMA LifeInvStep ==
  ASSUME TypeOK, CallInv, LifeInv, [Next]_vars PROVE LifeInv'
<1>0. child \in [Children -> ChildPlaces] /\ live \subseteq Children /\ running \subseteq Children
  BY DEF TypeOK
<1>1. ASSUME NEW t \in Turns, StartTurn(t) PROVE LifeInv'
  BY LifeInvSame, <1>1 DEF StartTurn, registries, permits, database
<1>2. ASSUME NEW t \in Turns, CallTask(t) PROVE LifeInv'
  BY LifeInvSame, <1>2 DEF CallTask, registries, permits, database
<1>3. ASSUME NEW t \in Turns, SpawnChildren(t) PROVE LifeInv'
  BY <1>0, <1>3 DEF SpawnChildren, LifeInv, ChildAt, ChildrenOf, Waiting, Looping, registries
<1>4. ASSUME NEW t \in Turns, JoinChildren(t) PROVE LifeInv'
  BY LifeInvSame, <1>4 DEF JoinChildren, registries, permits, database
<1>5. ASSUME NEW t \in Turns, EndTurn(t) PROVE LifeInv'
  BY LifeInvSame, <1>5 DEF EndTurn, registries, permits, database
<1>6. ASSUME NEW t \in Turns, UnregisterTurn(t) PROVE LifeInv'
  BY LifeInvSame, <1>6 DEF UnregisterTurn, registries, permits, database
<1>7. ASSUME NEW t \in Turns, NEW k \in ChildrenOf(t), CreateChild(t, k) PROVE LifeInv'
  BY <1>0, <1>7 DEF CreateChild, LifeInv, ChildAt, ChildrenOf, Waiting, Looping, registries
<1>8. ASSUME NEW t \in Turns, NEW k \in ChildrenOf(t), CreateFails(t, k) PROVE LifeInv'
  BY FamilyAssumption, <1>0, <1>8 DEF CreateFails, LifeInv, CallInv, ChildrenOf, Waiting, Looping
<1>9. ASSUME NEW t \in Turns, NEW k \in ChildrenOf(t), JoinPanicked(t, k) PROVE LifeInv'
  BY <1>0, <1>9 DEF JoinPanicked, LifeInv, ChildAt, ChildrenOf, Waiting, Looping, registries
<1>10. ASSUME NEW k \in Children, RuntimeFails(k) PROVE LifeInv'
  BY <1>0, <1>10 DEF RuntimeFails, LifeInv, ChildAt, ChildrenOf, Waiting, Looping, registries
<1>11. ASSUME NEW k \in Children, CheckAtGate(k) PROVE LifeInv'
  BY <1>0, <1>11 DEF CheckAtGate, LifeInv, ChildAt, ChildrenOf, Waiting, Looping, registries
<1>12. ASSUME NEW k \in Children, GrantGate(k) PROVE LifeInv'
  BY <1>0, <1>12 DEF GrantGate, LifeInv, ChildAt, ChildrenOf, Waiting, Looping, registries
<1>13. ASSUME NEW k \in Children, WakeChild(k) PROVE LifeInv'
  BY <1>0, <1>13 DEF WakeChild, LifeInv, ChildAt, ChildrenOf, Waiting, Looping, registries
<1>14. ASSUME NEW k \in Children, CheckAtProvider(k) PROVE LifeInv'
  BY <1>0, <1>14 DEF CheckAtProvider, LifeInv, ChildAt, ChildrenOf, Waiting, Looping, registries
<1>15. ASSUME NEW k \in Children, GrantProvider(k) PROVE LifeInv'
  BY <1>0, <1>15 DEF GrantProvider, LifeInv, ChildAt, ChildrenOf, Waiting, Looping, registries
<1>16. ASSUME NEW k \in Children, StartChild(k) PROVE LifeInv'
  BY <1>0, <1>16 DEF StartChild, LifeInv, ChildAt, ChildrenOf, Waiting, Looping, registries
<1>17. ASSUME NEW k \in Children, BeginTool(k) PROVE LifeInv'
  BY <1>0, <1>17 DEF BeginTool, LifeInv, ChildAt, ChildrenOf, Waiting, Looping, registries
<1>18. ASSUME NEW k \in Children, AskApproval(k) PROVE LifeInv'
  BY <1>0, <1>18 DEF AskApproval, LifeInv, ChildAt, ChildrenOf, Waiting, Looping, registries
<1>19. ASSUME NEW k \in Children, ResolveApproval(k) PROVE LifeInv'
  BY LifeInvSame, <1>19 DEF ResolveApproval, registries, permits, database
<1>20. ASSUME NEW k \in Children, ApprovalReturns(k) PROVE LifeInv'
  BY <1>0, <1>20 DEF ApprovalReturns, LifeInv, ChildAt, ChildrenOf, Waiting, Looping, registries
<1>21. ASSUME NEW k \in Children, ToolReturns(k) PROVE LifeInv'
  BY <1>0, <1>21 DEF ToolReturns, LifeInv, ChildAt, ChildrenOf, Waiting, Looping, registries
<1>22. ASSUME NEW k \in Children, EndChildLoop(k) PROVE LifeInv'
  BY <1>0, <1>22 DEF EndChildLoop, LifeInv, ChildAt, ChildrenOf, Waiting, Looping, registries
<1>23. ASSUME NEW k \in Children, FinishChild(k) PROVE LifeInv'
  BY <1>0, <1>23 DEF FinishChild, LifeInv, ChildAt, ChildrenOf, Waiting, Looping, registries
<1>24. ASSUME NEW k \in Children, ReturnPermits(k) PROVE LifeInv'
  BY <1>0, <1>24 DEF ReturnPermits, LifeInv, ChildAt, ChildrenOf, Waiting, Looping, registries
<1>25. ASSUME NEW k \in Children, FinishWithoutRun(k) PROVE LifeInv'
  BY <1>0, <1>25 DEF FinishWithoutRun, LifeInv, ChildAt, ChildrenOf, Waiting, Looping, registries
<1>26. ASSUME NEW k \in Children, Panic(k) PROVE LifeInv'
  BY <1>0, <1>26 DEF Panic, LifeInv, ChildAt, ChildrenOf, Waiting, Looping, registries
<1>27. ASSUME NEW c \in Chats, BeginStop(c) PROVE LifeInv'
  BY LifeInvSame, <1>27 DEF BeginStop, registries, permits, database
<1>28. ASSUME NEW c \in Chats, ListChildren(c) PROVE LifeInv'
  BY LifeInvSame, <1>28 DEF ListChildren, registries, permits, database
<1>29. ASSUME NEW c \in Chats, SweepChildApprovals(c) PROVE LifeInv'
  BY LifeInvSame, <1>29 DEF SweepChildApprovals, registries, permits, database
<1>30. ASSUME NEW c \in Chats, WakeChildren(c) PROVE LifeInv'
  BY LifeInvSame, <1>30 DEF WakeChildren, registries, permits, database
<1>31. ASSUME NEW c \in Chats, ClearApprovals(c) PROVE LifeInv'
  BY LifeInvSame, <1>31 DEF ClearApprovals, registries, permits, database
<1>32. ASSUME NEW c \in Chats, NEW k \in Children, CancelChild(c, k) PROVE LifeInv'
  BY LifeInvSame, <1>32 DEF CancelChild, registries, permits, database
<1>33. ASSUME NEW d \in Kickoffs, FetchForKickoff(d) PROVE LifeInv'
  BY LifeInvSame, <1>33 DEF FetchForKickoff, registries, permits, database
<1>34. ASSUME NEW d \in Kickoffs, GrantKickoff(d) PROVE LifeInv'
  BY LifeInvSame, <1>34 DEF GrantKickoff, registries, permits, database
<1>35. ASSUME NEW d \in Kickoffs, EndKickoff(d) PROVE LifeInv'
  BY LifeInvSame, <1>35 DEF EndKickoff, registries, permits, database
<1>36. CASE ChangeLimit
  BY LifeInvSame, <1>36 DEF ChangeLimit, registries, permits, database
<1>37. CASE Crash
  BY <1>37 DEF Crash, LifeInv, Waiting, Looping
<1>38. CASE SweepInterrupted
  BY LifeInvSame, <1>38 DEF SweepInterrupted, registries, permits, database
<1>39. CASE UNCHANGED vars
  BY LifeInvSame, <1>39 DEF vars, registries
<1>40. QED
  BY <1>1, <1>2, <1>3, <1>4, <1>5, <1>6, <1>7, <1>8, <1>9, <1>10, <1>11, <1>12, <1>13,
     <1>14, <1>15, <1>16, <1>17, <1>18, <1>19, <1>20, <1>21, <1>22, <1>23, <1>24, <1>25,
     <1>26, <1>27, <1>28, <1>29, <1>30, <1>31, <1>32, <1>33, <1>34, <1>35, <1>36, <1>37,
     <1>38, <1>39
     DEF Next, TurnStep, ChildStep, StopStep, KickoffStep

LEMMA FetchedInvSame ==
  ASSUME FetchedInv, UNCHANGED <<child, kickoff, semOf, current>> PROVE FetchedInv'
BY DEF FetchedInv, HoldsProvider, Looping

LEMMA FetchedInvStep ==
  ASSUME TypeOK, FetchedInv, [Next]_vars PROVE FetchedInv'
<1>0. /\ child \in [Children -> ChildPlaces] /\ current \in Nat
      /\ semOf \in [Children \cup Kickoffs -> Nat]
      /\ kickoff \in [Kickoffs -> {"idle", "wait", "starting", "running"}]
  BY CapAssumption DEF TypeOK
<1>1. ASSUME NEW t \in Turns, StartTurn(t) PROVE FetchedInv'
  BY FetchedInvSame, <1>1 DEF StartTurn, ChildAt, registries, permits, database
<1>2. ASSUME NEW t \in Turns, CallTask(t) PROVE FetchedInv'
  BY FetchedInvSame, <1>2 DEF CallTask, ChildAt, registries, permits, database
<1>3. ASSUME NEW t \in Turns, SpawnChildren(t) PROVE FetchedInv'
  BY <1>0, <1>3 DEF SpawnChildren, FetchedInv, ChildAt, ChildrenOf, HoldsProvider, Looping, permits
<1>4. ASSUME NEW t \in Turns, JoinChildren(t) PROVE FetchedInv'
  BY FetchedInvSame, <1>4 DEF JoinChildren, ChildAt, registries, permits, database
<1>5. ASSUME NEW t \in Turns, EndTurn(t) PROVE FetchedInv'
  BY FetchedInvSame, <1>5 DEF EndTurn, ChildAt, registries, permits, database
<1>6. ASSUME NEW t \in Turns, UnregisterTurn(t) PROVE FetchedInv'
  BY FetchedInvSame, <1>6 DEF UnregisterTurn, ChildAt, registries, permits, database
<1>7. ASSUME NEW t \in Turns, NEW k \in ChildrenOf(t), CreateChild(t, k) PROVE FetchedInv'
  BY <1>0, <1>7 DEF CreateChild, FetchedInv, ChildAt, ChildrenOf, HoldsProvider, Looping, permits
<1>8. ASSUME NEW t \in Turns, NEW k \in ChildrenOf(t), CreateFails(t, k) PROVE FetchedInv'
  BY <1>0, <1>8 DEF CreateFails, FetchedInv, ChildAt, ChildrenOf, HoldsProvider, Looping, permits
<1>9. ASSUME NEW t \in Turns, NEW k \in ChildrenOf(t), JoinPanicked(t, k) PROVE FetchedInv'
  BY <1>0, <1>9 DEF JoinPanicked, FetchedInv, ChildAt, ChildrenOf, HoldsProvider, Looping, permits
<1>10. ASSUME NEW k \in Children, RuntimeFails(k) PROVE FetchedInv'
  BY KindAssumption, <1>0, <1>10 DEF RuntimeFails, FetchedInv, ChildAt, HoldsProvider, Looping, permits
<1>11. ASSUME NEW k \in Children, CheckAtGate(k) PROVE FetchedInv'
  BY KindAssumption, <1>0, <1>11 DEF CheckAtGate, FetchedInv, ChildAt, HoldsProvider, Looping, permits
<1>12. ASSUME NEW k \in Children, GrantGate(k) PROVE FetchedInv'
  BY KindAssumption, <1>0, <1>12 DEF GrantGate, FetchedInv, ChildAt, HoldsProvider, Looping, permits
<1>13. ASSUME NEW k \in Children, WakeChild(k) PROVE FetchedInv'
  BY KindAssumption, <1>0, <1>13 DEF WakeChild, FetchedInv, ChildAt, HoldsProvider, Looping, permits
<1>14. ASSUME NEW k \in Children, CheckAtProvider(k) PROVE FetchedInv'
  BY KindAssumption, <1>0, <1>14 DEF CheckAtProvider, FetchedInv, FetchSemaphore, ChildAt, HoldsProvider, Looping
<1>15. ASSUME NEW k \in Children, GrantProvider(k) PROVE FetchedInv'
  BY KindAssumption, <1>0, <1>15 DEF GrantProvider, FetchedInv, ChildAt, HoldsProvider, Looping, permits
<1>16. ASSUME NEW k \in Children, StartChild(k) PROVE FetchedInv'
  BY KindAssumption, <1>0, <1>16 DEF StartChild, FetchedInv, ChildAt, HoldsProvider, Looping, permits
<1>17. ASSUME NEW k \in Children, BeginTool(k) PROVE FetchedInv'
  BY KindAssumption, <1>0, <1>17 DEF BeginTool, FetchedInv, ChildAt, HoldsProvider, Looping, permits
<1>18. ASSUME NEW k \in Children, AskApproval(k) PROVE FetchedInv'
  BY KindAssumption, <1>0, <1>18 DEF AskApproval, FetchedInv, ChildAt, HoldsProvider, Looping, permits
<1>19. ASSUME NEW k \in Children, ResolveApproval(k) PROVE FetchedInv'
  BY FetchedInvSame, <1>19 DEF ResolveApproval, ChildAt, registries, permits, database
<1>20. ASSUME NEW k \in Children, ApprovalReturns(k) PROVE FetchedInv'
  BY KindAssumption, <1>0, <1>20 DEF ApprovalReturns, FetchedInv, ChildAt, HoldsProvider, Looping, permits
<1>21. ASSUME NEW k \in Children, ToolReturns(k) PROVE FetchedInv'
  BY KindAssumption, <1>0, <1>21 DEF ToolReturns, FetchedInv, ChildAt, HoldsProvider, Looping, permits
<1>22. ASSUME NEW k \in Children, EndChildLoop(k) PROVE FetchedInv'
  BY KindAssumption, <1>0, <1>22 DEF EndChildLoop, FetchedInv, ChildAt, HoldsProvider, Looping, permits
<1>23. ASSUME NEW k \in Children, FinishChild(k) PROVE FetchedInv'
  BY KindAssumption, <1>0, <1>23 DEF FinishChild, FetchedInv, ChildAt, HoldsProvider, Looping, permits
<1>24. ASSUME NEW k \in Children, ReturnPermits(k) PROVE FetchedInv'
  BY KindAssumption, <1>0, <1>24 DEF ReturnPermits, FetchedInv, ChildAt, HoldsProvider, Looping, permits
<1>25. ASSUME NEW k \in Children, FinishWithoutRun(k) PROVE FetchedInv'
  BY KindAssumption, <1>0, <1>25 DEF FinishWithoutRun, FetchedInv, ChildAt, HoldsProvider, Looping, permits
<1>26. ASSUME NEW k \in Children, Panic(k) PROVE FetchedInv'
  BY KindAssumption, <1>0, <1>26 DEF Panic, FetchedInv, ChildAt, HoldsProvider, Looping, permits
<1>27. ASSUME NEW c \in Chats, BeginStop(c) PROVE FetchedInv'
  BY FetchedInvSame, <1>27 DEF BeginStop, ChildAt, registries, permits, database
<1>28. ASSUME NEW c \in Chats, ListChildren(c) PROVE FetchedInv'
  BY FetchedInvSame, <1>28 DEF ListChildren, ChildAt, registries, permits, database
<1>29. ASSUME NEW c \in Chats, SweepChildApprovals(c) PROVE FetchedInv'
  BY FetchedInvSame, <1>29 DEF SweepChildApprovals, ChildAt, registries, permits, database
<1>30. ASSUME NEW c \in Chats, WakeChildren(c) PROVE FetchedInv'
  BY FetchedInvSame, <1>30 DEF WakeChildren, ChildAt, registries, permits, database
<1>31. ASSUME NEW c \in Chats, ClearApprovals(c) PROVE FetchedInv'
  BY FetchedInvSame, <1>31 DEF ClearApprovals, ChildAt, registries, permits, database
<1>32. ASSUME NEW c \in Chats, NEW k \in Children, CancelChild(c, k) PROVE FetchedInv'
  BY FetchedInvSame, <1>32 DEF CancelChild, ChildAt, registries, permits, database
<1>33. ASSUME NEW d \in Kickoffs, FetchForKickoff(d) PROVE FetchedInv'
  BY KindAssumption, <1>0, <1>33 DEF FetchForKickoff, FetchedInv, FetchSemaphore, HoldsProvider, Looping
<1>34. ASSUME NEW d \in Kickoffs, GrantKickoff(d) PROVE FetchedInv'
  BY <1>0, <1>34 DEF GrantKickoff, FetchedInv, HoldsProvider, Looping
<1>35. ASSUME NEW d \in Kickoffs, EndKickoff(d) PROVE FetchedInv'
  BY <1>0, <1>35 DEF EndKickoff, FetchedInv, HoldsProvider, Looping
<1>36. CASE ChangeLimit
  BY FetchedInvSame, <1>36 DEF ChangeLimit, ChildAt, registries, permits, database
<1>37. CASE Crash
  BY <1>37 DEF Crash, FetchedInv, HoldsProvider, Looping
<1>38. CASE SweepInterrupted
  BY FetchedInvSame, <1>38 DEF SweepInterrupted, ChildAt, registries, permits, database
<1>39. CASE UNCHANGED vars
  BY FetchedInvSame, <1>39 DEF vars, permits
<1>40. QED
  BY <1>1, <1>2, <1>3, <1>4, <1>5, <1>6, <1>7, <1>8, <1>9, <1>10, <1>11, <1>12, <1>13,
     <1>14, <1>15, <1>16, <1>17, <1>18, <1>19, <1>20, <1>21, <1>22, <1>23, <1>24, <1>25,
     <1>26, <1>27, <1>28, <1>29, <1>30, <1>31, <1>32, <1>33, <1>34, <1>35, <1>36, <1>37,
     <1>38, <1>39
     DEF Next, TurnStep, ChildStep, StopStep, KickoffStep

\* The gates: nobody's place on the gate changes, nor its permits ...
LEMMA GateSumSame ==
  ASSUME GateSum, UNCHANGED gateFree, \A k \in Children : child'[k] \in HoldsGate <=> child[k] \in HoldsGate
  PROVE  GateSum'
<1>1. \A t \in Turns : GateHolders(t)' = GateHolders(t)
  BY DEF GateHolders, ChildrenOf
<1>2. QED
  BY <1>1 DEF GateSum

\* ... or one child takes a permit of its turn's gate, or returns it.
LEMMA GateSumMoves ==
  ASSUME TypeOK, GateSum, NEW k \in Children, NEW place \in ChildPlaces, ChildAt(k, place),
         \/ UNCHANGED gateFree /\ (child[k] \in HoldsGate <=> place \in HoldsGate)
         \/ /\ gateFree' = [gateFree EXCEPT ![ChildTurn[k]] = @ - 1]
            /\ child[k] \notin HoldsGate /\ place \in HoldsGate
         \/ /\ gateFree' = [gateFree EXCEPT ![ChildTurn[k]] = @ + 1]
            /\ child[k] \in HoldsGate /\ place \notin HoldsGate
  PROVE  GateSum'
<1> SUFFICES ASSUME NEW t \in Turns
             PROVE  gateFree'[t] + Cardinality(GateHolders(t)') = GateMax
  BY DEF GateSum
<1>1. gateFree \in [Turns -> Int] /\ gateFree[t] + Cardinality(GateHolders(t)) = GateMax
  BY CapAssumption DEF TypeOK, GateSum
<1>2. CASE ChildTurn[k] # t
  BY <1>1, <1>2, GateHoldersMove
<1>3. CASE ChildTurn[k] = t
  BY <1>1, <1>3, GateHoldersMove
<1>4. QED
  BY <1>2, <1>3

LEMMA GateSumStep ==
  ASSUME TypeOK, CallInv, GateSum, [Next]_vars PROVE GateSum'
<1>0. child \in [Children -> ChildPlaces]
  BY DEF TypeOK
<1>1. ASSUME NEW t \in Turns, StartTurn(t) PROVE GateSum'
  BY GateSumSame, <1>1 DEF StartTurn, permits
<1>2. ASSUME NEW t \in Turns, CallTask(t) PROVE GateSum'
  BY GateSumSame, <1>2 DEF CallTask, permits
<1>3. ASSUME NEW t \in Turns, SpawnChildren(t) PROVE GateSum'
  BY GateSumSame, <1>0, <1>3 DEF SpawnChildren, ChildAt, ChildrenOf, permits, HoldsGate, HoldsProvider, Looping
<1>4. ASSUME NEW t \in Turns, JoinChildren(t) PROVE GateSum'
  BY GateSumSame, <1>4 DEF JoinChildren, permits
<1>5. ASSUME NEW t \in Turns, EndTurn(t) PROVE GateSum'
  BY GateSumSame, <1>5 DEF EndTurn, permits
<1>6. ASSUME NEW t \in Turns, UnregisterTurn(t) PROVE GateSum'
  BY GateSumSame, <1>6 DEF UnregisterTurn, permits
<1>7. ASSUME NEW t \in Turns, NEW k \in ChildrenOf(t), CreateChild(t, k) PROVE GateSum'
  BY GateSumSame, <1>0, <1>7 DEF CreateChild, ChildAt, ChildrenOf, permits, HoldsGate, HoldsProvider, Looping
<1>8. ASSUME NEW t \in Turns, NEW k \in ChildrenOf(t), CreateFails(t, k) PROVE GateSum'
  BY FamilyAssumption, GateSumSame, <1>0, <1>8 DEF CreateFails, CallInv, ChildrenOf, permits, HoldsGate, HoldsProvider, Looping
<1>9. ASSUME NEW t \in Turns, NEW k \in ChildrenOf(t), JoinPanicked(t, k) PROVE GateSum'
  BY GateSumSame, <1>0, <1>9 DEF JoinPanicked, ChildAt, ChildrenOf, permits, HoldsGate, HoldsProvider, Looping
<1>10. ASSUME NEW k \in Children, RuntimeFails(k) PROVE GateSum'
  BY GateSumSame, <1>0, <1>10 DEF RuntimeFails, ChildAt, ChildrenOf, permits, HoldsGate, HoldsProvider, Looping
<1>11. ASSUME NEW k \in Children, CheckAtGate(k) PROVE GateSum'
  BY GateSumSame, <1>0, <1>11 DEF CheckAtGate, ChildAt, ChildrenOf, permits, HoldsGate, HoldsProvider, Looping
<1>12. ASSUME NEW k \in Children, GrantGate(k) PROVE GateSum'
  BY <1>0, GateSumMoves, <1>12 DEF GrantGate, ChildPlaces, Waiting, HoldsGate, HoldsProvider, Looping
<1>13. ASSUME NEW k \in Children, WakeChild(k) PROVE GateSum'
  BY <1>0, GateSumMoves, GateSumSame, <1>13 DEF WakeChild, ChildPlaces, Waiting, HoldsGate, HoldsProvider, Looping
<1>14. ASSUME NEW k \in Children, CheckAtProvider(k) PROVE GateSum'
  BY <1>0, GateSumMoves, <1>14 DEF CheckAtProvider, ChildPlaces, Waiting, HoldsGate, HoldsProvider, Looping
<1>15. ASSUME NEW k \in Children, GrantProvider(k) PROVE GateSum'
  BY <1>0, GateSumMoves, <1>15 DEF GrantProvider, ChildPlaces, Waiting, HoldsGate, HoldsProvider, Looping
<1>16. ASSUME NEW k \in Children, StartChild(k) PROVE GateSum'
  BY GateSumSame, <1>0, <1>16 DEF StartChild, ChildAt, ChildrenOf, permits, HoldsGate, HoldsProvider, Looping
<1>17. ASSUME NEW k \in Children, BeginTool(k) PROVE GateSum'
  BY GateSumSame, <1>0, <1>17 DEF BeginTool, ChildAt, ChildrenOf, permits, HoldsGate, HoldsProvider, Looping
<1>18. ASSUME NEW k \in Children, AskApproval(k) PROVE GateSum'
  BY GateSumSame, <1>0, <1>18 DEF AskApproval, ChildAt, ChildrenOf, permits, HoldsGate, HoldsProvider, Looping
<1>19. ASSUME NEW k \in Children, ResolveApproval(k) PROVE GateSum'
  BY GateSumSame, <1>19 DEF ResolveApproval, permits
<1>20. ASSUME NEW k \in Children, ApprovalReturns(k) PROVE GateSum'
  BY GateSumSame, <1>0, <1>20 DEF ApprovalReturns, ChildAt, ChildrenOf, permits, HoldsGate, HoldsProvider, Looping
<1>21. ASSUME NEW k \in Children, ToolReturns(k) PROVE GateSum'
  BY GateSumSame, <1>0, <1>21 DEF ToolReturns, ChildAt, ChildrenOf, permits, HoldsGate, HoldsProvider, Looping
<1>22. ASSUME NEW k \in Children, EndChildLoop(k) PROVE GateSum'
  BY GateSumSame, <1>0, <1>22 DEF EndChildLoop, ChildAt, ChildrenOf, permits, HoldsGate, HoldsProvider, Looping
<1>23. ASSUME NEW k \in Children, FinishChild(k) PROVE GateSum'
  BY GateSumSame, <1>0, <1>23 DEF FinishChild, ChildAt, ChildrenOf, permits, HoldsGate, HoldsProvider, Looping
<1>24. ASSUME NEW k \in Children, ReturnPermits(k) PROVE GateSum'
  BY <1>0, GateSumMoves, <1>24 DEF ReturnPermits, ChildPlaces, Waiting, HoldsGate, HoldsProvider, Looping
<1>25. ASSUME NEW k \in Children, FinishWithoutRun(k) PROVE GateSum'
  BY GateSumSame, <1>0, <1>25 DEF FinishWithoutRun, ChildAt, ChildrenOf, permits, HoldsGate, HoldsProvider, Looping
<1>26. ASSUME NEW k \in Children, Panic(k) PROVE GateSum'
  BY <1>0, GateSumMoves, <1>26 DEF Panic, ChildPlaces, Waiting, HoldsGate, HoldsProvider, Looping
<1>27. ASSUME NEW c \in Chats, BeginStop(c) PROVE GateSum'
  BY GateSumSame, <1>27 DEF BeginStop, permits
<1>28. ASSUME NEW c \in Chats, ListChildren(c) PROVE GateSum'
  BY GateSumSame, <1>28 DEF ListChildren, permits
<1>29. ASSUME NEW c \in Chats, SweepChildApprovals(c) PROVE GateSum'
  BY GateSumSame, <1>29 DEF SweepChildApprovals, permits
<1>30. ASSUME NEW c \in Chats, WakeChildren(c) PROVE GateSum'
  BY GateSumSame, <1>30 DEF WakeChildren, permits
<1>31. ASSUME NEW c \in Chats, ClearApprovals(c) PROVE GateSum'
  BY GateSumSame, <1>31 DEF ClearApprovals, permits
<1>32. ASSUME NEW c \in Chats, NEW k \in Children, CancelChild(c, k) PROVE GateSum'
  BY GateSumSame, <1>32 DEF CancelChild, permits
<1>33. ASSUME NEW d \in Kickoffs, FetchForKickoff(d) PROVE GateSum'
  BY GateSumSame, <1>33 DEF FetchForKickoff, permits
<1>34. ASSUME NEW d \in Kickoffs, GrantKickoff(d) PROVE GateSum'
  BY GateSumSame, <1>34 DEF GrantKickoff, permits
<1>35. ASSUME NEW d \in Kickoffs, EndKickoff(d) PROVE GateSum'
  BY GateSumSame, <1>35 DEF EndKickoff, permits
<1>36. CASE ChangeLimit
  BY GateSumSame, <1>36 DEF ChangeLimit, permits
<1>37. CASE Crash
  <2>1. \A t \in Turns : GateHolders(t)' = {}
    BY <1>37 DEF Crash, GateHolders, ChildrenOf, HoldsGate, HoldsProvider, Looping
  <2>2. Cardinality({}) = 0
    BY FS_EmptySet
  <2>3. \A t \in Turns : gateFree'[t] = GateMax
    BY <1>37 DEF Crash
  <2>4. QED
    BY <2>1, <2>2, <2>3, CapAssumption DEF GateSum
<1>38. CASE SweepInterrupted
  BY GateSumSame, <1>38 DEF SweepInterrupted, permits
<1>39. CASE UNCHANGED vars
  BY GateSumSame, <1>39 DEF vars, permits
<1>40. QED
  BY <1>1, <1>2, <1>3, <1>4, <1>5, <1>6, <1>7, <1>8, <1>9, <1>10, <1>11, <1>12, <1>13,
     <1>14, <1>15, <1>16, <1>17, <1>18, <1>19, <1>20, <1>21, <1>22, <1>23, <1>24, <1>25,
     <1>26, <1>27, <1>28, <1>29, <1>30, <1>31, <1>32, <1>33, <1>34, <1>35, <1>36, <1>37,
     <1>38, <1>39
     DEF Next, TurnStep, ChildStep, StopStep, KickoffStep

\* The semaphores, in the same way ...
LEMMA ProviderSumSame ==
  ASSUME ProviderSum, UNCHANGED <<semaphores, current, semOf, kickoff>>,
         \A k \in Children : child'[k] \in HoldsProvider <=> child[k] \in HoldsProvider
  PROVE  ProviderSum'
<1>1. \A g \in 1..current : /\ ProviderHolders(g)' = ProviderHolders(g)
                            /\ KickoffHolders(g)' = KickoffHolders(g)
  BY DEF ProviderHolders, KickoffHolders
<1>2. QED
  BY <1>1 DEF ProviderSum

LEMMA ProviderSumMoves ==
  ASSUME TypeOK, FetchedInv, ProviderSum, NEW k \in Children, NEW place \in ChildPlaces,
         ChildAt(k, place), UNCHANGED <<current, semOf, kickoff>>, semOf[k] > 0,
         \/ /\ semaphores' = [semaphores EXCEPT ![semOf[k]].free = @ - 1]
            /\ child[k] \notin HoldsProvider /\ place \in HoldsProvider
         \/ /\ semaphores' = [semaphores EXCEPT ![semOf[k]].free = @ + 1]
            /\ child[k] \in HoldsProvider /\ place \notin HoldsProvider
         \/ UNCHANGED semaphores /\ child[k] \notin HoldsProvider /\ place \notin HoldsProvider
  PROVE  ProviderSum'
<1> SUFFICES ASSUME NEW g \in 1..current
             PROVE  semaphores'[g].free + Cardinality(ProviderHolders(g)')
                      + Cardinality(KickoffHolders(g)') = semaphores'[g].limit
  BY DEF ProviderSum
<1>1. /\ semaphores \in [1..MaxSemaphores -> [limit : Nat, free : Nat]]
      /\ current \in 0..MaxSemaphores /\ MaxSemaphores \in Nat /\ g \in 1..MaxSemaphores
      /\ semaphores[g].free + Cardinality(ProviderHolders(g))
           + Cardinality(KickoffHolders(g)) = semaphores[g].limit
  BY CapAssumption DEF TypeOK, ProviderSum
<1>2. KickoffHolders(g)' = KickoffHolders(g)
  BY DEF KickoffHolders
<1>3. Cardinality(ProviderHolders(g)) \in Nat /\ Cardinality(KickoffHolders(g)) \in Nat
  BY FiniteAssumption, FS_Subset, FS_CardinalityType DEF ProviderHolders, KickoffHolders
<1>4. CASE semOf[k] # g
  <2>1. ProviderHolders(g)' = ProviderHolders(g)
    BY <1>4, ProviderHoldersMove
  <2>2. semaphores'[g] = semaphores[g]
    BY <1>1, <1>4
  <2>3. QED
    BY <1>1, <1>2, <2>1, <2>2
<1>5. CASE semOf[k] = g
  <2>1. CASE child[k] \notin HoldsProvider /\ place \in HoldsProvider
    <3>1. Cardinality(ProviderHolders(g)') = Cardinality(ProviderHolders(g)) + 1
      BY <1>5, <2>1, ProviderHoldersMove
    <3>2. semaphores'[g] = [semaphores[g] EXCEPT !.free = @ - 1]
      BY <1>1, <1>5, <2>1
    <3>3. QED
      BY <1>1, <1>2, <1>3, <3>1, <3>2
  <2>2. CASE child[k] \in HoldsProvider /\ place \notin HoldsProvider
    <3>1. Cardinality(ProviderHolders(g)') = Cardinality(ProviderHolders(g)) - 1
      BY <1>5, <2>2, ProviderHoldersMove
    <3>2. semaphores'[g] = [semaphores[g] EXCEPT !.free = @ + 1]
      BY <1>1, <1>5, <2>2
    <3>3. QED
      BY <1>1, <1>2, <1>3, <3>1, <3>2
  <2>3. CASE child[k] \notin HoldsProvider /\ place \notin HoldsProvider
    <3>1. ProviderHolders(g)' = ProviderHolders(g)
      BY <1>5, <2>3, ProviderHoldersMove
    <3>2. QED
      BY <1>1, <1>2, <2>3, <3>1
  <2>4. QED
    BY <2>1, <2>2, <2>3
<1>6. QED
  BY <1>4, <1>5

\* ... and for a kickoff.
LEMMA ProviderSumKickoff ==
  ASSUME TypeOK, FetchedInv, ProviderSum, NEW d \in Kickoffs,
         NEW place \in {"idle", "wait", "starting", "running"}, KickoffAt(d, place),
         UNCHANGED <<current, semOf, child>>, semOf[d] > 0,
         \/ /\ semaphores' = [semaphores EXCEPT ![semOf[d]].free = @ - 1]
            /\ kickoff[d] # "starting" /\ place = "starting"
         \/ /\ semaphores' = [semaphores EXCEPT ![semOf[d]].free = @ + 1]
            /\ kickoff[d] = "starting" /\ place # "starting"
  PROVE  ProviderSum'
<1> SUFFICES ASSUME NEW g \in 1..current
             PROVE  semaphores'[g].free + Cardinality(ProviderHolders(g)')
                      + Cardinality(KickoffHolders(g)') = semaphores'[g].limit
  BY DEF ProviderSum
<1>1. /\ semaphores \in [1..MaxSemaphores -> [limit : Nat, free : Nat]]
      /\ current \in 0..MaxSemaphores /\ MaxSemaphores \in Nat /\ g \in 1..MaxSemaphores
      /\ semaphores[g].free + Cardinality(ProviderHolders(g))
           + Cardinality(KickoffHolders(g)) = semaphores[g].limit
  BY CapAssumption DEF TypeOK, ProviderSum
<1>2. ProviderHolders(g)' = ProviderHolders(g)
  BY DEF ProviderHolders
<1>3. Cardinality(ProviderHolders(g)) \in Nat /\ Cardinality(KickoffHolders(g)) \in Nat
  BY FiniteAssumption, FS_Subset, FS_CardinalityType DEF ProviderHolders, KickoffHolders
<1>4. CASE semOf[d] # g
  <2>1. KickoffHolders(g)' = KickoffHolders(g)
    BY <1>1, <1>4, KickoffHoldersMove
  <2>2. semaphores'[g] = semaphores[g]
    BY <1>1, <1>4
  <2>3. QED
    BY <1>1, <1>2, <2>1, <2>2
<1>5. CASE semOf[d] = g
  <2>1. CASE kickoff[d] # "starting" /\ place = "starting"
    <3>1. Cardinality(KickoffHolders(g)') = Cardinality(KickoffHolders(g)) + 1
      BY <1>1, <1>5, <2>1, KickoffHoldersMove
    <3>2. semaphores'[g] = [semaphores[g] EXCEPT !.free = @ - 1]
      BY <1>1, <1>5, <2>1
    <3>3. QED
      BY <1>1, <1>2, <1>3, <3>1, <3>2
  <2>2. CASE kickoff[d] = "starting" /\ place # "starting"
    <3>1. Cardinality(KickoffHolders(g)') = Cardinality(KickoffHolders(g)) - 1
      BY <1>1, <1>5, <2>2, KickoffHoldersMove
    <3>2. semaphores'[g] = [semaphores[g] EXCEPT !.free = @ + 1]
      BY <1>1, <1>5, <2>2
    <3>3. QED
      BY <1>1, <1>2, <1>3, <3>1, <3>2
  <2>3. QED
    BY <2>1, <2>2
<1>6. QED
  BY <1>4, <1>5

\* Fetching a semaphore, which may replace it, while one holds none.
LEMMA ProviderSumFetched ==
  ASSUME TypeOK, FetchedInv, ProviderSum, NEW x \in Children \cup Kickoffs, FetchSemaphore(x),
         \A k \in Children : \/ child'[k] = child[k] /\ k # x
                             \/ child[k] \notin HoldsProvider /\ child'[k] \notin HoldsProvider,
         \A d \in Kickoffs : \/ kickoff'[d] = kickoff[d] /\ d # x
                             \/ kickoff[d] # "starting" /\ kickoff'[d] # "starting"
  PROVE  ProviderSum'
<1>1. /\ semaphores \in [1..MaxSemaphores -> [limit : Nat, free : Nat]]
      /\ semOf \in [Children \cup Kickoffs -> 0..MaxSemaphores]
      /\ current \in 0..MaxSemaphores /\ MaxSemaphores \in Nat /\ limit \in Nat
  BY CapAssumption DEF TypeOK
<1>2. \A y \in Children \cup Kickoffs : y # x => semOf'[y] = semOf[y]
  BY <1>1 DEF FetchSemaphore
<1>3. \A g \in 1..current : /\ ProviderHolders(g)' = ProviderHolders(g)
                            /\ KickoffHolders(g)' = KickoffHolders(g)
                            /\ semaphores'[g] = semaphores[g]
  <2> SUFFICES ASSUME NEW g \in 1..current
               PROVE  /\ ProviderHolders(g)' = ProviderHolders(g)
                      /\ KickoffHolders(g)' = KickoffHolders(g)
                      /\ semaphores'[g] = semaphores[g]
    OBVIOUS
  <2>1. ProviderHolders(g)' = ProviderHolders(g)
    BY <1>2 DEF ProviderHolders
  <2>2. KickoffHolders(g)' = KickoffHolders(g)
    BY <1>2 DEF KickoffHolders
  <2>3. semaphores'[g] = semaphores[g]
    BY <1>1 DEF FetchSemaphore
  <2>4. QED
    BY <2>1, <2>2, <2>3
<1>4. CASE current' = current
  BY <1>3, <1>4 DEF ProviderSum
<1>5. CASE current' = current + 1
  <2>1. ASSUME NEW g \in Nat, g = current + 1
        PROVE  ProviderHolders(g)' = {} /\ KickoffHolders(g)' = {}
    <3>1. \A y \in Children \cup Kickoffs : y # x => semOf'[y] # g
      BY <1>1, <1>2, <2>1 DEF FetchedInv
    <3>2. QED
      BY <3>1 DEF ProviderHolders, KickoffHolders
  <2>2. semaphores'[current + 1] = [limit |-> limit, free |-> limit]
    BY <1>1, <1>5 DEF FetchSemaphore
  <2>3. ASSUME NEW g \in 1..(current + 1)
        PROVE  semaphores'[g].free + Cardinality(ProviderHolders(g)')
                 + Cardinality(KickoffHolders(g)') = semaphores'[g].limit
    <3>1. CASE g = current + 1
      <4>1. Cardinality({}) = 0
        BY FS_EmptySet
      <4>2. ProviderHolders(g)' = {} /\ KickoffHolders(g)' = {}
        BY <1>1, <2>1, <3>1
      <4>3. semaphores'[g] = [limit |-> limit, free |-> limit]
        BY <2>2, <3>1
      <4>4. QED
        BY <1>1, <4>1, <4>2, <4>3
    <3>2. CASE g \in 1..current
      BY <1>3, <3>2 DEF ProviderSum
    <3>3. QED
      BY <1>1, <3>1, <3>2
  <2>4. QED
    BY <1>5, <2>3 DEF ProviderSum
<1>6. QED
  BY <1>4, <1>5 DEF FetchSemaphore

LEMMA ProviderSumStep ==
  ASSUME TypeOK, CallInv, FetchedInv, ProviderSum, [Next]_vars PROVE ProviderSum'
<1>0. /\ child \in [Children -> ChildPlaces] /\ current \in Nat
      /\ kickoff \in [Kickoffs -> {"idle", "wait", "starting", "running"}]
      /\ \A k \in Children : child[k] \in {"providerWait"} \cup HoldsProvider => semOf[k] > 0
      /\ \A d \in Kickoffs : kickoff[d] \in {"wait", "starting"} => semOf[d] > 0
  BY CapAssumption DEF TypeOK, FetchedInv
<1>1. ASSUME NEW t \in Turns, StartTurn(t) PROVE ProviderSum'
  BY ProviderSumSame, <1>1 DEF StartTurn, permits
<1>2. ASSUME NEW t \in Turns, CallTask(t) PROVE ProviderSum'
  BY ProviderSumSame, <1>2 DEF CallTask, permits
<1>3. ASSUME NEW t \in Turns, SpawnChildren(t) PROVE ProviderSum'
  BY ProviderSumSame, <1>0, <1>3 DEF SpawnChildren, ChildAt, ChildrenOf, permits, HoldsProvider, Looping
<1>4. ASSUME NEW t \in Turns, JoinChildren(t) PROVE ProviderSum'
  BY ProviderSumSame, <1>4 DEF JoinChildren, permits
<1>5. ASSUME NEW t \in Turns, EndTurn(t) PROVE ProviderSum'
  BY ProviderSumSame, <1>5 DEF EndTurn, permits
<1>6. ASSUME NEW t \in Turns, UnregisterTurn(t) PROVE ProviderSum'
  BY ProviderSumSame, <1>6 DEF UnregisterTurn, permits
<1>7. ASSUME NEW t \in Turns, NEW k \in ChildrenOf(t), CreateChild(t, k) PROVE ProviderSum'
  BY ProviderSumSame, <1>0, <1>7 DEF CreateChild, ChildAt, ChildrenOf, permits, HoldsProvider, Looping
<1>8. ASSUME NEW t \in Turns, NEW k \in ChildrenOf(t), CreateFails(t, k) PROVE ProviderSum'
  BY FamilyAssumption, ProviderSumSame, <1>0, <1>8 DEF CreateFails, CallInv, ChildrenOf, permits, HoldsProvider, Looping
<1>9. ASSUME NEW t \in Turns, NEW k \in ChildrenOf(t), JoinPanicked(t, k) PROVE ProviderSum'
  BY ProviderSumSame, <1>0, <1>9 DEF JoinPanicked, ChildAt, ChildrenOf, permits, HoldsProvider, Looping
<1>10. ASSUME NEW k \in Children, RuntimeFails(k) PROVE ProviderSum'
  BY ProviderSumSame, <1>0, <1>10 DEF RuntimeFails, ChildAt, ChildrenOf, permits, HoldsProvider, Looping
<1>11. ASSUME NEW k \in Children, CheckAtGate(k) PROVE ProviderSum'
  BY ProviderSumSame, <1>0, <1>11 DEF CheckAtGate, ChildAt, ChildrenOf, permits, HoldsProvider, Looping
<1>12. ASSUME NEW k \in Children, GrantGate(k) PROVE ProviderSum'
  BY ProviderSumSame, <1>0, <1>12 DEF GrantGate, ChildAt, ChildrenOf, permits, HoldsProvider, Looping
<1>13. ASSUME NEW k \in Children, WakeChild(k) PROVE ProviderSum'
  BY ProviderSumSame, <1>0, <1>13 DEF WakeChild, ChildAt, ChildrenOf, permits, HoldsProvider, Looping
<1>14. ASSUME NEW k \in Children, CheckAtProvider(k) PROVE ProviderSum'
  <2>1. child'[k] \notin HoldsProvider /\ child[k] \notin HoldsProvider /\ \A j \in Children : j # k => child'[j] = child[j]
    BY <1>0, <1>14 DEF CheckAtProvider, ChildAt, HoldsProvider, Looping
  <2>2. QED
    BY <2>1, <1>14, KindAssumption, ProviderSumFetched DEF CheckAtProvider
<1>15. ASSUME NEW k \in Children, GrantProvider(k) PROVE ProviderSum'
  BY <1>0, ProviderSumMoves, <1>15 DEF GrantProvider, ReleaseProvider, ChildPlaces, Waiting, HoldsProvider, Looping
<1>16. ASSUME NEW k \in Children, StartChild(k) PROVE ProviderSum'
  BY ProviderSumSame, <1>0, <1>16 DEF StartChild, ChildAt, ChildrenOf, permits, HoldsProvider, Looping
<1>17. ASSUME NEW k \in Children, BeginTool(k) PROVE ProviderSum'
  BY ProviderSumSame, <1>0, <1>17 DEF BeginTool, ChildAt, ChildrenOf, permits, HoldsProvider, Looping
<1>18. ASSUME NEW k \in Children, AskApproval(k) PROVE ProviderSum'
  BY ProviderSumSame, <1>0, <1>18 DEF AskApproval, ChildAt, ChildrenOf, permits, HoldsProvider, Looping
<1>19. ASSUME NEW k \in Children, ResolveApproval(k) PROVE ProviderSum'
  BY ProviderSumSame, <1>19 DEF ResolveApproval, permits
<1>20. ASSUME NEW k \in Children, ApprovalReturns(k) PROVE ProviderSum'
  BY ProviderSumSame, <1>0, <1>20 DEF ApprovalReturns, ChildAt, ChildrenOf, permits, HoldsProvider, Looping
<1>21. ASSUME NEW k \in Children, ToolReturns(k) PROVE ProviderSum'
  BY ProviderSumSame, <1>0, <1>21 DEF ToolReturns, ChildAt, ChildrenOf, permits, HoldsProvider, Looping
<1>22. ASSUME NEW k \in Children, EndChildLoop(k) PROVE ProviderSum'
  BY ProviderSumSame, <1>0, <1>22 DEF EndChildLoop, ChildAt, ChildrenOf, permits, HoldsProvider, Looping
<1>23. ASSUME NEW k \in Children, FinishChild(k) PROVE ProviderSum'
  BY ProviderSumSame, <1>0, <1>23 DEF FinishChild, ChildAt, ChildrenOf, permits, HoldsProvider, Looping
<1>24. ASSUME NEW k \in Children, ReturnPermits(k) PROVE ProviderSum'
  BY <1>0, ProviderSumMoves, <1>24 DEF ReturnPermits, ReleaseProvider, ChildPlaces, Waiting, HoldsProvider, Looping
<1>25. ASSUME NEW k \in Children, FinishWithoutRun(k) PROVE ProviderSum'
  BY ProviderSumSame, <1>0, <1>25 DEF FinishWithoutRun, ChildAt, ChildrenOf, permits, HoldsProvider, Looping
<1>26. ASSUME NEW k \in Children, Panic(k) PROVE ProviderSum'
  BY <1>0, ProviderSumMoves, <1>26 DEF Panic, ReleaseProvider, ChildPlaces, Waiting, HoldsProvider, Looping
<1>27. ASSUME NEW c \in Chats, BeginStop(c) PROVE ProviderSum'
  BY ProviderSumSame, <1>27 DEF BeginStop, permits
<1>28. ASSUME NEW c \in Chats, ListChildren(c) PROVE ProviderSum'
  BY ProviderSumSame, <1>28 DEF ListChildren, permits
<1>29. ASSUME NEW c \in Chats, SweepChildApprovals(c) PROVE ProviderSum'
  BY ProviderSumSame, <1>29 DEF SweepChildApprovals, permits
<1>30. ASSUME NEW c \in Chats, WakeChildren(c) PROVE ProviderSum'
  BY ProviderSumSame, <1>30 DEF WakeChildren, permits
<1>31. ASSUME NEW c \in Chats, ClearApprovals(c) PROVE ProviderSum'
  BY ProviderSumSame, <1>31 DEF ClearApprovals, permits
<1>32. ASSUME NEW c \in Chats, NEW k \in Children, CancelChild(c, k) PROVE ProviderSum'
  BY ProviderSumSame, <1>32 DEF CancelChild, permits
<1>33. ASSUME NEW d \in Kickoffs, FetchForKickoff(d) PROVE ProviderSum'
  <2>1. kickoff'[d] # "starting" /\ kickoff[d] # "starting" /\ \A j \in Kickoffs : j # d => kickoff'[j] = kickoff[j]
    BY <1>0, <1>33 DEF FetchForKickoff
  <2>2. QED
    BY <2>1, <1>33, KindAssumption, ProviderSumFetched DEF FetchForKickoff
<1>34. ASSUME NEW d \in Kickoffs, GrantKickoff(d) PROVE ProviderSum'
  BY <1>0, ProviderSumKickoff, <1>34 DEF GrantKickoff, KickoffAt
<1>35. ASSUME NEW d \in Kickoffs, EndKickoff(d) PROVE ProviderSum'
  BY <1>0, ProviderSumKickoff, <1>35 DEF EndKickoff, ReleaseProvider, KickoffAt
<1>36. CASE ChangeLimit
  BY ProviderSumSame, <1>36 DEF ChangeLimit, permits
<1>37. CASE Crash
  BY <1>37 DEF Crash, ProviderSum
<1>38. CASE SweepInterrupted
  BY ProviderSumSame, <1>38 DEF SweepInterrupted, permits
<1>39. CASE UNCHANGED vars
  BY ProviderSumSame, <1>39 DEF vars, permits
<1>40. QED
  BY <1>1, <1>2, <1>3, <1>4, <1>5, <1>6, <1>7, <1>8, <1>9, <1>10, <1>11, <1>12, <1>13,
     <1>14, <1>15, <1>16, <1>17, <1>18, <1>19, <1>20, <1>21, <1>22, <1>23, <1>24, <1>25,
     <1>26, <1>27, <1>28, <1>29, <1>30, <1>31, <1>32, <1>33, <1>34, <1>35, <1>36, <1>37,
     <1>38, <1>39
     DEF Next, TurnStep, ChildStep, StopStep, KickoffStep

\* The gates add up, so that no gate has more permits than it was built with.
LEMMA GateTyped ==
  ASSUME GateSum', gateFree' \in [Turns -> Nat] PROVE gateFree' \in [Turns -> 0..GateMax]
<1>1. \A t \in Turns : Cardinality(GateHolders(t)') \in Nat
  BY FiniteAssumption, FS_Subset, FS_CardinalityType DEF GateHolders, ChildrenOf
<1>2. \A t \in Turns : gateFree'[t] + Cardinality(GateHolders(t)') = GateMax
  BY DEF GateSum
<1>3. QED
  BY <1>1, <1>2, CapAssumption

LEMMA PermitTyped ==
  ASSUME semaphores \in [1..MaxSemaphores -> [limit : Nat, free : Nat]], NEW g,
         \/ semaphores' = [semaphores EXCEPT ![g].free = @ + 1]
         \/ semaphores' = [semaphores EXCEPT ![g].free = @ - 1] /\ semaphores[g].free > 0
         \/ UNCHANGED semaphores
  PROVE  semaphores' \in [1..MaxSemaphores -> [limit : Nat, free : Nat]]
<1>1. CASE semaphores' = [semaphores EXCEPT ![g].free = @ + 1]
  <2>1. \A h \in 1..MaxSemaphores :
          semaphores'[h] = IF h = g THEN [semaphores[h] EXCEPT !.free = @ + 1] ELSE semaphores[h]
    BY <1>1
  <2>2. ASSUME NEW h \in 1..MaxSemaphores PROVE semaphores'[h] \in [limit : Nat, free : Nat]
    <3>1. semaphores[h] \in [limit : Nat, free : Nat]
      OBVIOUS
    <3>2. [semaphores[h] EXCEPT !.free = @ + 1] \in [limit : Nat, free : Nat]
      BY <3>1
    <3>3. QED
      BY <2>1, <3>1, <3>2
  <2>3. QED
    BY <1>1, <2>2
<1>2. CASE semaphores' = [semaphores EXCEPT ![g].free = @ - 1] /\ semaphores[g].free > 0
  <2>1. \A h \in 1..MaxSemaphores :
          semaphores'[h] = IF h = g THEN [semaphores[h] EXCEPT !.free = @ - 1] ELSE semaphores[h]
    BY <1>2
  <2>2. \A h \in 1..MaxSemaphores : semaphores'[h] \in [limit : Nat, free : Nat]
    BY <1>2, <2>1
  <2>3. QED
    BY <1>2, <2>2
<1>3. QED
  BY <1>1, <1>2

LEMMA FetchTyped ==
  ASSUME semaphores \in [1..MaxSemaphores -> [limit : Nat, free : Nat]], current \in 0..MaxSemaphores,
         semOf \in [Children \cup Kickoffs -> 0..MaxSemaphores], limit \in Nat,
         NEW x, FetchSemaphore(x)
  PROVE  /\ semaphores' \in [1..MaxSemaphores -> [limit : Nat, free : Nat]]
         /\ semOf' \in [Children \cup Kickoffs -> 0..MaxSemaphores] /\ current' \in 0..MaxSemaphores
<1>1. CASE current > 0 /\ semaphores[current].limit = limit
  BY <1>1 DEF FetchSemaphore
<1>2. CASE ~(current > 0 /\ semaphores[current].limit = limit)
  <2>1. current' \in 0..MaxSemaphores /\ current' = current + 1 /\ current + 1 \in 1..MaxSemaphores
    BY <1>2, CapAssumption DEF FetchSemaphore
  <2>2. semOf' \in [Children \cup Kickoffs -> 0..MaxSemaphores]
    BY <1>2, <2>1 DEF FetchSemaphore
  <2>3. [limit |-> limit, free |-> limit] \in [limit : Nat, free : Nat]
    OBVIOUS
  <2>4. semaphores' \in [1..MaxSemaphores -> [limit : Nat, free : Nat]]
    BY <1>2, <2>3 DEF FetchSemaphore
  <2>5. QED
    BY <2>1, <2>2, <2>4
<1>3. QED
  BY <1>1, <1>2

LEMMA TypeOKStep ==
  ASSUME TypeOK, GateSum', [Next]_vars PROVE TypeOK'
<1>0. /\ child \in [Children -> ChildPlaces] /\ gateFree \in [Turns -> 0..GateMax] /\ limit \in Nat
      /\ semaphores \in [1..MaxSemaphores -> [limit : Nat, free : Nat]] /\ current \in 0..MaxSemaphores
      /\ semOf \in [Children \cup Kickoffs -> 0..MaxSemaphores]
  BY CapAssumption DEF TypeOK
<1>1. ASSUME NEW t \in Turns, StartTurn(t) PROVE TypeOK'
  BY FamilyAssumption, NoneAssumption, <1>1 DEF StartTurn, TypeOK, TurnAt, ChildAt, SetStatus, StopAt, ChildPlaces, Waiting, HoldsProvider, Looping, registries, permits, database
<1>2. ASSUME NEW t \in Turns, CallTask(t) PROVE TypeOK'
  BY FamilyAssumption, NoneAssumption, <1>2 DEF CallTask, TypeOK, TurnAt, ChildAt, SetStatus, StopAt, ChildPlaces, Waiting, HoldsProvider, Looping, registries, permits, database
<1>3. ASSUME NEW t \in Turns, SpawnChildren(t) PROVE TypeOK'
  BY <1>3 DEF SpawnChildren, ChildrenOf, TypeOK, TurnAt, ChildAt, SetStatus, StopAt, ChildPlaces, Waiting, HoldsProvider, Looping, registries, permits, database
<1>4. ASSUME NEW t \in Turns, JoinChildren(t) PROVE TypeOK'
  BY FamilyAssumption, NoneAssumption, <1>4 DEF JoinChildren, TypeOK, TurnAt, ChildAt, SetStatus, StopAt, ChildPlaces, Waiting, HoldsProvider, Looping, registries, permits, database
<1>5. ASSUME NEW t \in Turns, EndTurn(t) PROVE TypeOK'
  BY FamilyAssumption, NoneAssumption, <1>5 DEF EndTurn, TypeOK, TurnAt, ChildAt, SetStatus, StopAt, ChildPlaces, Waiting, HoldsProvider, Looping, registries, permits, database
<1>6. ASSUME NEW t \in Turns, UnregisterTurn(t) PROVE TypeOK'
  BY FamilyAssumption, NoneAssumption, <1>6 DEF UnregisterTurn, TypeOK, TurnAt, ChildAt, SetStatus, StopAt, ChildPlaces, Waiting, HoldsProvider, Looping, registries, permits, database
<1>7. ASSUME NEW t \in Turns, NEW k \in ChildrenOf(t), CreateChild(t, k) PROVE TypeOK'
  BY FamilyAssumption, <1>7 DEF CreateChild, Classify, Unfinished, Outcomes, ChildrenOf, TypeOK, TurnAt, ChildAt, SetStatus, StopAt, ChildPlaces, Waiting, HoldsProvider, Looping, registries, permits, database
<1>8. ASSUME NEW t \in Turns, NEW k \in ChildrenOf(t), CreateFails(t, k) PROVE TypeOK'
  BY FamilyAssumption, <1>8 DEF CreateFails, Classify, Unfinished, Outcomes, ChildrenOf, TypeOK, TurnAt, ChildAt, SetStatus, StopAt, ChildPlaces, Waiting, HoldsProvider, Looping, registries, permits, database
<1>9. ASSUME NEW t \in Turns, NEW k \in ChildrenOf(t), JoinPanicked(t, k) PROVE TypeOK'
  BY FamilyAssumption, <1>9 DEF JoinPanicked, Classify, Unfinished, Outcomes, ChildrenOf, TypeOK, TurnAt, ChildAt, SetStatus, StopAt, ChildPlaces, Waiting, HoldsProvider, Looping, registries, permits, database
<1>10. ASSUME NEW k \in Children, RuntimeFails(k) PROVE TypeOK'
  BY FamilyAssumption, NoneAssumption, <1>10 DEF RuntimeFails, TypeOK, TurnAt, ChildAt, SetStatus, StopAt, ChildPlaces, Waiting, HoldsProvider, Looping, registries, permits, database
<1>11. ASSUME NEW k \in Children, CheckAtGate(k) PROVE TypeOK'
  BY FamilyAssumption, NoneAssumption, <1>11 DEF CheckAtGate, TypeOK, TurnAt, ChildAt, SetStatus, StopAt, ChildPlaces, Waiting, HoldsProvider, Looping, registries, permits, database
<1>12. ASSUME NEW k \in Children, GrantGate(k) PROVE TypeOK'
  <2>1. gateFree' \in [Turns -> 0..GateMax]
    BY <1>0, GateTyped, CapAssumption, FamilyAssumption, <1>12 DEF GrantGate
  <2>2. child' \in [Children -> ChildPlaces]
    BY <1>0, <1>12 DEF GrantGate, ChildAt, ChildPlaces, Waiting, HoldsProvider, Looping
  <2>3. semaphores' \in [1..MaxSemaphores -> [limit : Nat, free : Nat]]
    BY <1>0, PermitTyped, <1>12 DEF GrantGate
  <2>4. semOf' \in [Children \cup Kickoffs -> 0..MaxSemaphores] /\ current' \in 0..MaxSemaphores
    BY <1>0, <1>12 DEF GrantGate
  <2>5. QED
    BY <2>1, <2>2, <2>3, <2>4, <1>12 DEF GrantGate, TypeOK, registries, permits, database
<1>13. ASSUME NEW k \in Children, WakeChild(k) PROVE TypeOK'
  <2>1. gateFree' \in [Turns -> 0..GateMax]
    <3>1. CASE ParentCancelled(k)
      <4>1. gateFree' = gateFree \/ gateFree' = [gateFree EXCEPT ![ChildTurn[k]] = gateFree[ChildTurn[k]] + 1]
        BY <3>1, <1>13 DEF WakeChild
      <4>2. gateFree' \in [Turns -> Nat]
        BY <1>0, <4>1, CapAssumption, FamilyAssumption
      <4>3. QED
        BY <4>2, GateTyped
    <3>2. CASE ~ParentCancelled(k)
      BY <1>0, <3>2, GateTyped, CapAssumption, FamilyAssumption, <1>13 DEF WakeChild
    <3>3. QED
      BY <3>1, <3>2
  <2>2. child' \in [Children -> ChildPlaces]
    BY <1>0, <1>13 DEF WakeChild, ChildAt, ChildPlaces, Waiting, HoldsProvider, Looping
  <2>3. semaphores' \in [1..MaxSemaphores -> [limit : Nat, free : Nat]]
    BY <1>0, PermitTyped, <1>13 DEF WakeChild
  <2>4. semOf' \in [Children \cup Kickoffs -> 0..MaxSemaphores] /\ current' \in 0..MaxSemaphores
    BY <1>0, <1>13 DEF WakeChild
  <2>5. QED
    BY <2>1, <2>2, <2>3, <2>4, <1>13 DEF WakeChild, TypeOK, registries, permits, database
<1>14. ASSUME NEW k \in Children, CheckAtProvider(k) PROVE TypeOK'
  <2>1. gateFree' \in [Turns -> 0..GateMax]
    <3>1. gateFree' = [gateFree EXCEPT ![ChildTurn[k]] = @ + 1] \/ gateFree' = gateFree
      BY <1>14 DEF CheckAtProvider
    <3>2. gateFree' \in [Turns -> Nat]
      BY <1>0, <3>1, CapAssumption, FamilyAssumption
    <3>3. QED
      BY <1>0, <3>2, GateTyped
  <2>2. child' \in [Children -> ChildPlaces]
    BY <1>0, <1>14 DEF CheckAtProvider, ChildAt, ChildPlaces, Waiting, HoldsProvider, Looping
  <2>3. semaphores' \in [1..MaxSemaphores -> [limit : Nat, free : Nat]]
    BY <1>0, FetchTyped, <1>14 DEF CheckAtProvider
  <2>4. semOf' \in [Children \cup Kickoffs -> 0..MaxSemaphores] /\ current' \in 0..MaxSemaphores
    BY <1>0, FetchTyped, <1>14 DEF CheckAtProvider
  <2>5. QED
    BY <2>1, <2>2, <2>3, <2>4, <1>14 DEF CheckAtProvider, TypeOK, registries, permits, database
<1>15. ASSUME NEW k \in Children, GrantProvider(k) PROVE TypeOK'
  <2>1. gateFree' \in [Turns -> 0..GateMax]
    <3>1. CASE ParentCancelled(k)
      <4>1. gateFree' = gateFree \/ gateFree' = [gateFree EXCEPT ![ChildTurn[k]] = gateFree[ChildTurn[k]] + 1]
        BY <3>1, <1>15 DEF GrantProvider
      <4>2. gateFree' \in [Turns -> Nat]
        BY <1>0, <4>1, CapAssumption, FamilyAssumption
      <4>3. QED
        BY <4>2, GateTyped
    <3>2. CASE ~ParentCancelled(k)
      BY <1>0, <3>2, GateTyped, CapAssumption, FamilyAssumption, <1>15 DEF GrantProvider
    <3>3. QED
      BY <3>1, <3>2
  <2>2. child' \in [Children -> ChildPlaces]
    BY <1>0, <1>15 DEF GrantProvider, ChildAt, ChildPlaces, Waiting, HoldsProvider, Looping
  <2>3. semaphores' \in [1..MaxSemaphores -> [limit : Nat, free : Nat]]
    BY <1>0, PermitTyped, <1>15 DEF GrantProvider
  <2>4. semOf' \in [Children \cup Kickoffs -> 0..MaxSemaphores] /\ current' \in 0..MaxSemaphores
    BY <1>0, <1>15 DEF GrantProvider
  <2>5. QED
    BY <2>1, <2>2, <2>3, <2>4, <1>15 DEF GrantProvider, TypeOK, registries, permits, database
<1>16. ASSUME NEW k \in Children, StartChild(k) PROVE TypeOK'
  <2>1. child' \in [Children -> ChildPlaces]
    BY <1>0, <1>16 DEF StartChild, ChildAt, ChildPlaces, HoldsProvider, Looping
  <2>2. row' \in [Children -> {"none"} \cup Unfinished \cup Outcomes] /\ running' \in SUBSET Children
    BY <1>16 DEF StartChild, TypeOK, SetStatus, Unfinished
  <2>3. QED
    BY <2>1, <2>2, <1>16 DEF StartChild, TypeOK, registries, permits, database
<1>17. ASSUME NEW k \in Children, BeginTool(k) PROVE TypeOK'
  BY FamilyAssumption, NoneAssumption, <1>17 DEF BeginTool, TypeOK, TurnAt, ChildAt, SetStatus, StopAt, ChildPlaces, Waiting, HoldsProvider, Looping, registries, permits, database
<1>18. ASSUME NEW k \in Children, AskApproval(k) PROVE TypeOK'
  BY FamilyAssumption, <1>18 DEF AskApproval, Classify, Unfinished, Outcomes, ChildrenOf, TypeOK, TurnAt, ChildAt, SetStatus, StopAt, ChildPlaces, Waiting, HoldsProvider, Looping, registries, permits, database
<1>19. ASSUME NEW k \in Children, ResolveApproval(k) PROVE TypeOK'
  BY FamilyAssumption, NoneAssumption, <1>19 DEF ResolveApproval, TypeOK, TurnAt, ChildAt, SetStatus, StopAt, ChildPlaces, Waiting, HoldsProvider, Looping, registries, permits, database
<1>20. ASSUME NEW k \in Children, ApprovalReturns(k) PROVE TypeOK'
  BY FamilyAssumption, <1>20 DEF ApprovalReturns, Classify, Unfinished, Outcomes, ChildrenOf, TypeOK, TurnAt, ChildAt, SetStatus, StopAt, ChildPlaces, Waiting, HoldsProvider, Looping, registries, permits, database
<1>21. ASSUME NEW k \in Children, ToolReturns(k) PROVE TypeOK'
  BY FamilyAssumption, NoneAssumption, <1>21 DEF ToolReturns, TypeOK, TurnAt, ChildAt, SetStatus, StopAt, ChildPlaces, Waiting, HoldsProvider, Looping, registries, permits, database
<1>22. ASSUME NEW k \in Children, EndChildLoop(k) PROVE TypeOK'
  BY FamilyAssumption, NoneAssumption, <1>22 DEF EndChildLoop, TypeOK, TurnAt, ChildAt, SetStatus, StopAt, ChildPlaces, Waiting, HoldsProvider, Looping, registries, permits, database
<1>23. ASSUME NEW k \in Children, FinishChild(k) PROVE TypeOK'
  BY FamilyAssumption, <1>23 DEF FinishChild, Classify, Unfinished, Outcomes, ChildrenOf, TypeOK, TurnAt, ChildAt, SetStatus, StopAt, ChildPlaces, Waiting, HoldsProvider, Looping, registries, permits, database
<1>24. ASSUME NEW k \in Children, ReturnPermits(k) PROVE TypeOK'
  <2>1. gateFree' \in [Turns -> 0..GateMax]
    BY <1>0, GateTyped, CapAssumption, FamilyAssumption, <1>24 DEF ReturnPermits
  <2>2. child' \in [Children -> ChildPlaces]
    BY <1>0, <1>24 DEF ReturnPermits, ChildAt, ChildPlaces, Waiting, HoldsProvider, Looping
  <2>3. semaphores' \in [1..MaxSemaphores -> [limit : Nat, free : Nat]]
    BY <1>0, PermitTyped, <1>24 DEF ReturnPermits, ReleaseProvider
  <2>4. semOf' \in [Children \cup Kickoffs -> 0..MaxSemaphores] /\ current' \in 0..MaxSemaphores
    BY <1>0, <1>24 DEF ReturnPermits
  <2>5. QED
    BY <2>1, <2>2, <2>3, <2>4, <1>24 DEF ReturnPermits, TypeOK, registries, permits, database
<1>25. ASSUME NEW k \in Children, FinishWithoutRun(k) PROVE TypeOK'
  BY FamilyAssumption, <1>25 DEF FinishWithoutRun, Classify, Unfinished, Outcomes, ChildrenOf, TypeOK, TurnAt, ChildAt, SetStatus, StopAt, ChildPlaces, Waiting, HoldsProvider, Looping, registries, permits, database
<1>26. ASSUME NEW k \in Children, Panic(k) PROVE TypeOK'
  <2>1. gateFree' \in [Turns -> 0..GateMax]
    BY <1>0, GateTyped, CapAssumption, FamilyAssumption, <1>26 DEF Panic
  <2>2. child' \in [Children -> ChildPlaces]
    BY <1>0, <1>26 DEF Panic, ChildAt, ChildPlaces, Waiting, HoldsProvider, Looping
  <2>3. semaphores' \in [1..MaxSemaphores -> [limit : Nat, free : Nat]]
    BY <1>0, PermitTyped, <1>26 DEF Panic, ReleaseProvider
  <2>4. semOf' \in [Children \cup Kickoffs -> 0..MaxSemaphores] /\ current' \in 0..MaxSemaphores
    BY <1>0, <1>26 DEF Panic
  <2>5. QED
    BY <2>1, <2>2, <2>3, <2>4, <1>26 DEF Panic, TypeOK, registries, permits, database
<1>27. ASSUME NEW c \in Chats, BeginStop(c) PROVE TypeOK'
  <2>1. cancelled' \in SUBSET (Turns \cup Children)
    BY <1>27 DEF BeginStop, TypeOK
  <2>2. stop' \in [Chats -> [at : {"none", "approvals", "list", "children", "sweep", "clear"}, victims : SUBSET Children, victim : Children \cup {NoChild}]]
    <3>1. stop \in [Chats -> [at : {"none", "approvals", "list", "children", "sweep", "clear"}, victims : SUBSET Children, victim : Children \cup {NoChild}]]
      BY DEF TypeOK
    <3>2. stop' = [stop EXCEPT ![c].at = "approvals"]
      BY <1>27 DEF BeginStop, StopAt
    <3>3. QED
      BY <3>1, <3>2
  <2>3. QED
    BY <2>1, <2>2, <1>27 DEF BeginStop, TypeOK, permits, database
<1>28. ASSUME NEW c \in Chats, ListChildren(c) PROVE TypeOK'
  <2>1. stop \in [Chats -> [at : {"none", "approvals", "list", "children", "sweep", "clear"}, victims : SUBSET Children, victim : Children \cup {NoChild}]] /\ live \subseteq Children
    BY DEF TypeOK
  <2>2. stop' \in [Chats -> [at : {"none", "approvals", "list", "children", "sweep", "clear"}, victims : SUBSET Children, victim : Children \cup {NoChild}]]
    BY NoneAssumption, <2>1, <1>28 DEF ListChildren, StopAt
  <2>3. QED
    BY <2>2, <1>28 DEF ListChildren, TypeOK, registries, permits, database
<1>29. ASSUME NEW c \in Chats, SweepChildApprovals(c) PROVE TypeOK'
  <2>1. stop \in [Chats -> [at : {"none", "approvals", "list", "children", "sweep", "clear"}, victims : SUBSET Children, victim : Children \cup {NoChild}]] /\ live \subseteq Children
    BY DEF TypeOK
  <2>2. stop' \in [Chats -> [at : {"none", "approvals", "list", "children", "sweep", "clear"}, victims : SUBSET Children, victim : Children \cup {NoChild}]]
    BY NoneAssumption, <2>1, <1>29 DEF SweepChildApprovals, StopAt
  <2>3. approvals' \in SUBSET Children
    BY <1>29 DEF SweepChildApprovals, TypeOK
  <2>4. QED
    BY <2>2, <2>3, <1>29 DEF SweepChildApprovals, TypeOK, registries, permits, database
<1>30. ASSUME NEW c \in Chats, WakeChildren(c) PROVE TypeOK'
  <2>1. stop \in [Chats -> [at : {"none", "approvals", "list", "children", "sweep", "clear"}, victims : SUBSET Children, victim : Children \cup {NoChild}]] /\ live \subseteq Children
    BY DEF TypeOK
  <2>2. stop' \in [Chats -> [at : {"none", "approvals", "list", "children", "sweep", "clear"}, victims : SUBSET Children, victim : Children \cup {NoChild}]]
    BY NoneAssumption, <2>1, <1>30 DEF WakeChildren, StopAt
  <2>3. wake' \in SUBSET Children
    BY <1>30 DEF WakeChildren, TypeOK
  <2>4. QED
    BY <2>2, <2>3, <1>30 DEF WakeChildren, TypeOK, registries, permits, database
<1>31. ASSUME NEW c \in Chats, ClearApprovals(c) PROVE TypeOK'
  BY <1>31 DEF ClearApprovals, TypeOK, NotStopping, registries, permits, database
<1>32. ASSUME NEW c \in Chats, NEW k \in Children, CancelChild(c, k) PROVE TypeOK'
  BY NoneAssumption, <1>32 DEF CancelChild, TypeOK, StopAt, registries, permits, database
<1>33. ASSUME NEW d \in Kickoffs, FetchForKickoff(d) PROVE TypeOK'
  <2>1. /\ semaphores' \in [1..MaxSemaphores -> [limit : Nat, free : Nat]]
        /\ semOf' \in [Children \cup Kickoffs -> 0..MaxSemaphores] /\ current' \in 0..MaxSemaphores
    BY <1>0, FetchTyped, <1>33 DEF FetchForKickoff
  <2>2. kickoff' \in [Kickoffs -> {"idle", "wait", "starting", "running"}]
    BY <1>33 DEF FetchForKickoff, TypeOK
  <2>3. QED
    BY <2>1, <2>2, <1>33 DEF FetchForKickoff, TypeOK, registries, permits, database
<1>34. ASSUME NEW d \in Kickoffs, GrantKickoff(d) PROVE TypeOK'
  <2>1. /\ semaphores' \in [1..MaxSemaphores -> [limit : Nat, free : Nat]]
        /\ semOf' \in [Children \cup Kickoffs -> 0..MaxSemaphores] /\ current' \in 0..MaxSemaphores
    BY <1>0, PermitTyped, <1>34 DEF GrantKickoff
  <2>2. kickoff' \in [Kickoffs -> {"idle", "wait", "starting", "running"}]
    BY <1>34 DEF GrantKickoff, TypeOK
  <2>3. QED
    BY <2>1, <2>2, <1>34 DEF GrantKickoff, TypeOK, registries, permits, database
<1>35. ASSUME NEW d \in Kickoffs, EndKickoff(d) PROVE TypeOK'
  <2>1. /\ semaphores' \in [1..MaxSemaphores -> [limit : Nat, free : Nat]]
        /\ semOf' \in [Children \cup Kickoffs -> 0..MaxSemaphores] /\ current' \in 0..MaxSemaphores
    BY <1>0, PermitTyped, <1>35 DEF EndKickoff, ReleaseProvider
  <2>2. kickoff' \in [Kickoffs -> {"idle", "wait", "starting", "running"}]
    BY <1>35 DEF EndKickoff, TypeOK
  <2>3. QED
    BY <2>1, <2>2, <1>35 DEF EndKickoff, TypeOK, registries, permits, database
<1>36. CASE ChangeLimit
  BY <1>36 DEF ChangeLimit, TypeOK, registries, permits, database
<1>37. CASE Crash
  BY CapAssumption, <1>37 DEF Crash, TypeOK, NotStopping, ChildPlaces, database
<1>38. CASE SweepInterrupted
  BY <1>38 DEF SweepInterrupted, TypeOK, Unfinished, Outcomes, registries, permits, database
<1>39. CASE UNCHANGED vars
  BY <1>39 DEF vars, TypeOK, registries, permits, database
<1>40. QED
  BY <1>1, <1>2, <1>3, <1>4, <1>5, <1>6, <1>7, <1>8, <1>9, <1>10, <1>11, <1>12, <1>13,
     <1>14, <1>15, <1>16, <1>17, <1>18, <1>19, <1>20, <1>21, <1>22, <1>23, <1>24, <1>25,
     <1>26, <1>27, <1>28, <1>29, <1>30, <1>31, <1>32, <1>33, <1>34, <1>35, <1>36, <1>37,
     <1>38, <1>39
     DEF Next, TurnStep, ChildStep, StopStep, KickoffStep

LEMMA OpenRowSame ==
  ASSUME OpenRowHasChild, UNCHANGED <<row, live, halfMade, process>> PROVE OpenRowHasChild'
BY DEF OpenRowHasChild

\* Every step that takes a child from CHILDREN settles its row in the same step.
\* A swept process takes no further step.
LEMMA OpenRowStep ==
  ASSUME TypeOK, LifeInv, OpenRowHasChild, [Next]_vars PROVE OpenRowHasChild'
<1>0. row \in [Children -> {"none"} \cup Unfinished \cup Outcomes] /\ live \subseteq Children
  BY DEF TypeOK
<1>1. ASSUME NEW t \in Turns, StartTurn(t), process = "up" PROVE OpenRowHasChild'
  BY OpenRowSame, <1>1 DEF StartTurn, registries, database
<1>2. ASSUME NEW t \in Turns, CallTask(t), process = "up" PROVE OpenRowHasChild'
  BY OpenRowSame, <1>2 DEF CallTask, registries, database
<1>3. ASSUME NEW t \in Turns, SpawnChildren(t), process = "up" PROVE OpenRowHasChild'
  BY OpenRowSame, <1>3 DEF SpawnChildren, registries, database
<1>4. ASSUME NEW t \in Turns, JoinChildren(t), process = "up" PROVE OpenRowHasChild'
  BY OpenRowSame, <1>4 DEF JoinChildren, registries, database
<1>5. ASSUME NEW t \in Turns, EndTurn(t), process = "up" PROVE OpenRowHasChild'
  BY OpenRowSame, <1>5 DEF EndTurn, registries, database
<1>6. ASSUME NEW t \in Turns, UnregisterTurn(t), process = "up" PROVE OpenRowHasChild'
  BY OpenRowSame, <1>6 DEF UnregisterTurn, registries, database
<1>7. ASSUME NEW t \in Turns, NEW k \in ChildrenOf(t), CreateChild(t, k), process = "up" PROVE OpenRowHasChild'
  BY <1>0, <1>7 DEF CreateChild, OpenRowHasChild, SetStatus, Classify, Unfinished, Outcomes, ChildrenOf, registries, database
<1>8. ASSUME NEW t \in Turns, NEW k \in ChildrenOf(t), CreateFails(t, k), process = "up" PROVE OpenRowHasChild'
  BY <1>0, <1>8 DEF CreateFails, OpenRowHasChild, SetStatus, Classify, Unfinished, Outcomes, ChildrenOf, registries, database
<1>9. ASSUME NEW t \in Turns, NEW k \in ChildrenOf(t), JoinPanicked(t, k), process = "up" PROVE OpenRowHasChild'
  BY <1>0, <1>9 DEF JoinPanicked, OpenRowHasChild, SetStatus, Classify, Unfinished, Outcomes, ChildrenOf, registries, database
<1>10. ASSUME NEW k \in Children, RuntimeFails(k), process = "up" PROVE OpenRowHasChild'
  BY OpenRowSame, <1>10 DEF RuntimeFails, registries, database
<1>11. ASSUME NEW k \in Children, CheckAtGate(k), process = "up" PROVE OpenRowHasChild'
  BY OpenRowSame, <1>11 DEF CheckAtGate, registries, database
<1>12. ASSUME NEW k \in Children, GrantGate(k), process = "up" PROVE OpenRowHasChild'
  BY OpenRowSame, <1>12 DEF GrantGate, registries, database
<1>13. ASSUME NEW k \in Children, WakeChild(k), process = "up" PROVE OpenRowHasChild'
  BY OpenRowSame, <1>13 DEF WakeChild, registries, database
<1>14. ASSUME NEW k \in Children, CheckAtProvider(k), process = "up" PROVE OpenRowHasChild'
  BY OpenRowSame, <1>14 DEF CheckAtProvider, registries, database
<1>15. ASSUME NEW k \in Children, GrantProvider(k), process = "up" PROVE OpenRowHasChild'
  BY OpenRowSame, <1>15 DEF GrantProvider, registries, database
<1>16. ASSUME NEW k \in Children, StartChild(k), process = "up" PROVE OpenRowHasChild'
  BY <1>0, <1>16 DEF StartChild, OpenRowHasChild, SetStatus, Unfinished, LifeInv, Looping, registries, database
<1>17. ASSUME NEW k \in Children, BeginTool(k), process = "up" PROVE OpenRowHasChild'
  BY OpenRowSame, <1>17 DEF BeginTool, registries, database
<1>18. ASSUME NEW k \in Children, AskApproval(k), process = "up" PROVE OpenRowHasChild'
  BY <1>0, <1>18 DEF AskApproval, OpenRowHasChild, SetStatus, Unfinished, LifeInv, Looping, registries, database
<1>19. ASSUME NEW k \in Children, ResolveApproval(k), process = "up" PROVE OpenRowHasChild'
  BY OpenRowSame, <1>19 DEF ResolveApproval, registries, database
<1>20. ASSUME NEW k \in Children, ApprovalReturns(k), process = "up" PROVE OpenRowHasChild'
  BY <1>0, <1>20 DEF ApprovalReturns, OpenRowHasChild, SetStatus, Unfinished, LifeInv, Looping, registries, database
<1>21. ASSUME NEW k \in Children, ToolReturns(k), process = "up" PROVE OpenRowHasChild'
  BY OpenRowSame, <1>21 DEF ToolReturns, registries, database
<1>22. ASSUME NEW k \in Children, EndChildLoop(k), process = "up" PROVE OpenRowHasChild'
  BY OpenRowSame, <1>22 DEF EndChildLoop, registries, database
<1>23. ASSUME NEW k \in Children, FinishChild(k), process = "up" PROVE OpenRowHasChild'
  BY <1>0, <1>23 DEF FinishChild, OpenRowHasChild, SetStatus, Classify, Unfinished, Outcomes, ChildrenOf, registries, database
<1>24. ASSUME NEW k \in Children, ReturnPermits(k), process = "up" PROVE OpenRowHasChild'
  BY OpenRowSame, <1>24 DEF ReturnPermits, registries, database
<1>25. ASSUME NEW k \in Children, FinishWithoutRun(k), process = "up" PROVE OpenRowHasChild'
  BY <1>0, <1>25 DEF FinishWithoutRun, OpenRowHasChild, SetStatus, Classify, Unfinished, Outcomes, ChildrenOf, registries, database
<1>26. ASSUME NEW k \in Children, Panic(k), process = "up" PROVE OpenRowHasChild'
  BY OpenRowSame, <1>26 DEF Panic, registries, database
<1>27. ASSUME NEW c \in Chats, BeginStop(c), process = "up" PROVE OpenRowHasChild'
  BY OpenRowSame, <1>27 DEF BeginStop, registries, database
<1>28. ASSUME NEW c \in Chats, ListChildren(c), process = "up" PROVE OpenRowHasChild'
  BY OpenRowSame, <1>28 DEF ListChildren, registries, database
<1>29. ASSUME NEW c \in Chats, SweepChildApprovals(c), process = "up" PROVE OpenRowHasChild'
  BY OpenRowSame, <1>29 DEF SweepChildApprovals, registries, database
<1>30. ASSUME NEW c \in Chats, WakeChildren(c), process = "up" PROVE OpenRowHasChild'
  BY OpenRowSame, <1>30 DEF WakeChildren, registries, database
<1>31. ASSUME NEW c \in Chats, ClearApprovals(c), process = "up" PROVE OpenRowHasChild'
  BY OpenRowSame, <1>31 DEF ClearApprovals, registries, database
<1>32. ASSUME NEW c \in Chats, NEW k \in Children, CancelChild(c, k), process = "up" PROVE OpenRowHasChild'
  BY OpenRowSame, <1>32 DEF CancelChild, registries, database
<1>33. ASSUME NEW d \in Kickoffs, FetchForKickoff(d), process = "up" PROVE OpenRowHasChild'
  BY OpenRowSame, <1>33 DEF FetchForKickoff, registries, database
<1>34. ASSUME NEW d \in Kickoffs, GrantKickoff(d), process = "up" PROVE OpenRowHasChild'
  BY OpenRowSame, <1>34 DEF GrantKickoff, registries, database
<1>35. ASSUME NEW d \in Kickoffs, EndKickoff(d), process = "up" PROVE OpenRowHasChild'
  BY OpenRowSame, <1>35 DEF EndKickoff, registries, database
<1>36. ASSUME ChangeLimit, process = "up" PROVE OpenRowHasChild'
  BY OpenRowSame, <1>36 DEF ChangeLimit, registries, database
<1>37. ASSUME Crash, process = "up" PROVE OpenRowHasChild'
  BY <1>37 DEF Crash, OpenRowHasChild
<1>38. CASE SweepInterrupted
  BY <1>0, <1>38 DEF SweepInterrupted, OpenRowHasChild, Unfinished
<1>39. CASE UNCHANGED vars
  BY OpenRowSame, <1>39 DEF vars, registries, database
<1>40. QED
  BY <1>1, <1>2, <1>3, <1>4, <1>5, <1>6, <1>7, <1>8, <1>9, <1>10, <1>11, <1>12, <1>13,
     <1>14, <1>15, <1>16, <1>17, <1>18, <1>19, <1>20, <1>21, <1>22, <1>23, <1>24, <1>25,
     <1>26, <1>27, <1>28, <1>29, <1>30, <1>31, <1>32, <1>33, <1>34, <1>35, <1>36, <1>37,
     <1>38, <1>39
     DEF Next, TurnStep, ChildStep, StopStep, KickoffStep

-------------------------------------------------------------------------------
(* A stop reaches every child *)

LEMMA StopInvSame ==
  ASSUME StopInv, UNCHANGED <<active, cancelled, stop, child>> PROVE StopInv'
BY DEF StopInv, ParentCancelled

LEMMA StopInvLeaves ==
  ASSUME StopInv, UNCHANGED <<active, cancelled, stop>>,
         \A k \in Children : child'[k] \in Looping => child[k] \in Looping
  PROVE  StopInv'
BY DEF StopInv, ParentCancelled

\* A child is in its loop only if it was admitted, and so before its parent was
\* cancelled; and then it is listed, cancelled and woken.
LEMMA StopInvStep ==
  ASSUME OneTurnPerChat, TypeOK, LifeInv, StopInv, [Next]_vars PROVE StopInv'
<1>0. /\ child \in [Children -> ChildPlaces] /\ live \subseteq Children
      /\ active \in [Chats -> Turns \cup {NoTurn}]
      /\ stop \in [Chats -> [at : {"none", "approvals", "list", "children", "sweep", "clear"},
                             victims : SUBSET Children, victim : Children \cup {NoChild}]]
      /\ \A k \in Children : ChatOf(k) \in Chats
  BY FamilyAssumption DEF TypeOK, ChatOf
<1>1. ASSUME NEW t \in Turns, StartTurn(t) PROVE StopInv'
  BY FamilyAssumption, <1>0, <1>1 DEF StartTurn, StopInv, ParentCancelled
<1>2. ASSUME NEW t \in Turns, CallTask(t) PROVE StopInv'
  BY StopInvSame, <1>2 DEF CallTask, registries
<1>3. ASSUME NEW t \in Turns, SpawnChildren(t) PROVE StopInv'
  BY <1>0, StopInvLeaves, <1>3 DEF SpawnChildren, ChildAt, ChildrenOf, Looping, registries
<1>4. ASSUME NEW t \in Turns, JoinChildren(t) PROVE StopInv'
  BY StopInvSame, <1>4 DEF JoinChildren, registries
<1>5. ASSUME NEW t \in Turns, EndTurn(t) PROVE StopInv'
  BY StopInvSame, <1>5 DEF EndTurn, registries
<1>6. ASSUME NEW t \in Turns, UnregisterTurn(t) PROVE StopInv'
  BY FamilyAssumption, <1>0, <1>6 DEF UnregisterTurn, StopInv, ParentCancelled
<1>7. ASSUME NEW t \in Turns, NEW k \in ChildrenOf(t), CreateChild(t, k) PROVE StopInv'
  BY <1>0, StopInvLeaves, <1>7 DEF CreateChild, ChildAt, ChildrenOf, Looping, registries
<1>8. ASSUME NEW t \in Turns, NEW k \in ChildrenOf(t), CreateFails(t, k) PROVE StopInv'
  BY <1>0, StopInvLeaves, <1>8 DEF CreateFails, ChildAt, ChildrenOf, Looping, registries
<1>9. ASSUME NEW t \in Turns, NEW k \in ChildrenOf(t), JoinPanicked(t, k) PROVE StopInv'
  BY <1>0, StopInvLeaves, <1>9 DEF JoinPanicked, ChildAt, ChildrenOf, Looping, registries
<1>10. ASSUME NEW k \in Children, RuntimeFails(k) PROVE StopInv'
  BY <1>0, StopInvLeaves, <1>10 DEF RuntimeFails, ChildAt, ChildrenOf, Looping, registries
<1>11. ASSUME NEW k \in Children, CheckAtGate(k) PROVE StopInv'
  BY <1>0, StopInvLeaves, <1>11 DEF CheckAtGate, ChildAt, ChildrenOf, Looping, registries
<1>12. ASSUME NEW k \in Children, GrantGate(k) PROVE StopInv'
  BY <1>0, StopInvLeaves, <1>12 DEF GrantGate, ChildAt, ChildrenOf, Looping, registries
<1>13. ASSUME NEW k \in Children, WakeChild(k) PROVE StopInv'
  BY <1>0, StopInvLeaves, <1>13 DEF WakeChild, ChildAt, ChildrenOf, Looping, registries
<1>14. ASSUME NEW k \in Children, CheckAtProvider(k) PROVE StopInv'
  BY <1>0, StopInvLeaves, <1>14 DEF CheckAtProvider, ChildAt, ChildrenOf, Looping, registries
<1>15. ASSUME NEW k \in Children, GrantProvider(k) PROVE StopInv'
  BY <1>0, StopInvLeaves, <1>15 DEF GrantProvider, ChildAt, ChildrenOf, Looping, registries
<1>16. ASSUME NEW k \in Children, StartChild(k) PROVE StopInv'
  <2>1. CASE SubagentAdmitted(k)
    <3>1. ~ParentCancelled(k)
      BY <2>1, FamilyAssumption, <1>0 DEF OneTurnPerChat, StopInv, SubagentAdmitted, ParentCancelled, ChatOf
    <3>2. \A j \in Children : j # k => child'[j] = child[j]
      BY <1>0, <2>1, <1>16 DEF StartChild, ChildAt
    <3>3. QED
      BY <3>1, <3>2, <1>16 DEF StartChild, StopInv, ParentCancelled
  <2>2. CASE ~SubagentAdmitted(k)
    BY <2>2, <1>0, StopInvLeaves, <1>16 DEF StartChild, ChildAt, Looping
  <2>3. QED
    BY <2>1, <2>2
<1>17. ASSUME NEW k \in Children, BeginTool(k) PROVE StopInv'
  BY <1>0, StopInvLeaves, <1>17 DEF BeginTool, ChildAt, ChildrenOf, Looping, registries
<1>18. ASSUME NEW k \in Children, AskApproval(k) PROVE StopInv'
  BY <1>0, StopInvLeaves, <1>18 DEF AskApproval, ChildAt, ChildrenOf, Looping, registries
<1>19. ASSUME NEW k \in Children, ResolveApproval(k) PROVE StopInv'
  BY StopInvSame, <1>19 DEF ResolveApproval
<1>20. ASSUME NEW k \in Children, ApprovalReturns(k) PROVE StopInv'
  BY <1>0, StopInvLeaves, <1>20 DEF ApprovalReturns, ChildAt, ChildrenOf, Looping, registries
<1>21. ASSUME NEW k \in Children, ToolReturns(k) PROVE StopInv'
  BY <1>0, StopInvLeaves, <1>21 DEF ToolReturns, ChildAt, ChildrenOf, Looping, registries
<1>22. ASSUME NEW k \in Children, EndChildLoop(k) PROVE StopInv'
  BY <1>0, StopInvLeaves, <1>22 DEF EndChildLoop, ChildAt, ChildrenOf, Looping, registries
<1>23. ASSUME NEW k \in Children, FinishChild(k) PROVE StopInv'
  BY <1>0, StopInvLeaves, <1>23 DEF FinishChild, ChildAt, ChildrenOf, Looping, registries
<1>24. ASSUME NEW k \in Children, ReturnPermits(k) PROVE StopInv'
  BY <1>0, StopInvLeaves, <1>24 DEF ReturnPermits, ChildAt, ChildrenOf, Looping, registries
<1>25. ASSUME NEW k \in Children, FinishWithoutRun(k) PROVE StopInv'
  BY <1>0, StopInvLeaves, <1>25 DEF FinishWithoutRun, ChildAt, ChildrenOf, Looping, registries
<1>26. ASSUME NEW k \in Children, Panic(k) PROVE StopInv'
  BY <1>0, StopInvLeaves, <1>26 DEF Panic, ChildAt, ChildrenOf, Looping, registries
<1>27. ASSUME NEW c \in Chats, BeginStop(c) PROVE StopInv'
  BY FamilyAssumption, NoneAssumption, <1>0, <1>27 DEF BeginStop, StopInv, StopAt, ParentCancelled, ChatOf
<1>28. ASSUME NEW c \in Chats, ListChildren(c) PROVE StopInv'
  BY <1>0, <1>28 DEF ListChildren, StopInv, LifeInv, ParentCancelled, registries
<1>29. ASSUME NEW c \in Chats, SweepChildApprovals(c) PROVE StopInv'
  BY <1>0, <1>29 DEF SweepChildApprovals, StopInv, ParentCancelled
<1>30. ASSUME NEW c \in Chats, WakeChildren(c) PROVE StopInv'
  BY <1>0, <1>30 DEF WakeChildren, StopInv, StopAt, ParentCancelled
<1>31. ASSUME NEW c \in Chats, ClearApprovals(c) PROVE StopInv'
  BY <1>0, <1>31 DEF ClearApprovals, StopInv, NotStopping, ParentCancelled
<1>32. ASSUME NEW c \in Chats, NEW k \in Children, CancelChild(c, k) PROVE StopInv'
  <2>1. stop'[c] = [at |-> "sweep", victims |-> stop[c].victims \ {k}, victim |-> k]
    BY <1>0, <1>32 DEF CancelChild
  <2>2. \A b \in Chats : b # c => stop'[b] = stop[b]
    BY <1>32 DEF CancelChild
  <2>3. ASSUME NEW j \in Children, child'[j] \in Looping, ParentCancelled(j)', j \notin cancelled'
        PROVE  \/ stop'[ChatOf(j)].at = "approvals"
               \/ stop'[ChatOf(j)].at \in {"children", "sweep"} /\ j \in stop'[ChatOf(j)].victims
    <3>1. child[j] \in Looping /\ ParentCancelled(j) /\ j \notin cancelled /\ j # k
      BY <2>3, KindAssumption, FamilyAssumption, <1>32 DEF CancelChild, LifeInv, ParentCancelled
    <3>2. QED
      BY <1>0, <2>1, <2>2, <3>1, <1>32 DEF StopInv, CancelChild
  <2>4. QED
    BY <2>3, <1>32 DEF StopInv, CancelChild, ChatOf
<1>33. ASSUME NEW d \in Kickoffs, FetchForKickoff(d) PROVE StopInv'
  BY StopInvSame, <1>33 DEF FetchForKickoff, registries
<1>34. ASSUME NEW d \in Kickoffs, GrantKickoff(d) PROVE StopInv'
  BY StopInvSame, <1>34 DEF GrantKickoff, registries
<1>35. ASSUME NEW d \in Kickoffs, EndKickoff(d) PROVE StopInv'
  BY StopInvSame, <1>35 DEF EndKickoff, registries
<1>36. CASE ChangeLimit
  BY StopInvSame, <1>36 DEF ChangeLimit, registries
<1>37. CASE Crash
  BY <1>37 DEF Crash, StopInv, Looping
<1>38. CASE SweepInterrupted
  BY StopInvSame, <1>38 DEF SweepInterrupted, registries
<1>39. CASE UNCHANGED vars
  BY StopInvSame, <1>39 DEF vars, registries
<1>40. QED
  BY <1>1, <1>2, <1>3, <1>4, <1>5, <1>6, <1>7, <1>8, <1>9, <1>10, <1>11, <1>12, <1>13,
     <1>14, <1>15, <1>16, <1>17, <1>18, <1>19, <1>20, <1>21, <1>22, <1>23, <1>24, <1>25,
     <1>26, <1>27, <1>28, <1>29, <1>30, <1>31, <1>32, <1>33, <1>34, <1>35, <1>36, <1>37,
     <1>38, <1>39
     DEF Next, TurnStep, ChildStep, StopStep, KickoffStep

-------------------------------------------------------------------------------
(* Theorems *)

LEMMA InitInv ==
  ASSUME Init PROVE Inv /\ OpenRowHasChild /\ StopInv
<1>1. TypeOK
  BY CapAssumption DEF Init, TypeOK, ChildPlaces, NotStopping
<1>2. CallInv /\ FetchedInv /\ LifeInv
  BY DEF Init, CallInv, FetchedInv, LifeInv, ChildrenOf, HoldsProvider, Waiting, Looping
<1>3. GateSum
  <2>1. \A t \in Turns : GateHolders(t) = {}
    BY DEF Init, GateHolders, ChildrenOf, HoldsGate, HoldsProvider, Looping
  <2>2. Cardinality({}) = 0
    BY FS_EmptySet
  <2>3. \A t \in Turns : gateFree[t] = GateMax
    BY DEF Init
  <2>4. QED
    BY <2>1, <2>2, <2>3, CapAssumption DEF GateSum
<1>4. ProviderSum
  BY DEF Init, ProviderSum
<1>5. OpenRowHasChild /\ StopInv
  BY DEF Init, OpenRowHasChild, StopInv, Unfinished, Looping
<1>6. QED
  BY <1>1, <1>2, <1>3, <1>4, <1>5 DEF Inv

LEMMA InvStep ==
  ASSUME Inv, [Next]_vars PROVE Inv'
<1>1. GateSum'
  BY GateSumStep DEF Inv
<1>2. TypeOK'
  BY <1>1, TypeOKStep DEF Inv
<1>3. QED
  BY <1>1, <1>2, CallInvStep, LifeInvStep, FetchedInvStep, ProviderSumStep DEF Inv

LEMMA InvHolds ==
  Spec => []Inv
<1>1. Init => Inv
  BY InitInv
<1>2. Inv /\ [Next]_vars => Inv'
  BY InvStep
<1>3. QED
  BY <1>1, <1>2, PTL DEF Spec

\* Every variable keeps its type; that a gate never has more permits than it
\* was built with is where PermitsAddUp is needed.
THEOREM TypeCorrect == Spec => []TypeOK
<1>1. Inv => TypeOK
  BY DEF Inv
<1>2. QED
  BY <1>1, InvHolds, PTL

\* Every permit, of a turn's gate and of the provider's semaphores, is free or
\* held by exactly one child or kickoff, on every path out of run_child.
THEOREM PermitsAreKept == Spec => []PermitsAddUp
<1>1. Inv => PermitsAddUp
  BY DEF Inv, PermitsAddUp, GateSum, ProviderSum
<1>2. QED
  BY <1>1, InvHolds, PTL

\* A row is open only while its child lives or waits for the next start's sweep.
THEOREM OpenRowsHaveChildren == Spec => []OpenRowHasChild
<1>1. Init => OpenRowHasChild
  BY InitInv
<1>2. Inv /\ OpenRowHasChild /\ [Next]_vars => OpenRowHasChild'
  BY OpenRowStep DEF Inv
<1>3. QED
  BY <1>1, <1>2, InvHolds, PTL DEF Spec

\* cancel_run leaves no running child of a cancelled turn without its own token
\* set, however its steps mix with the children's creation and admission.
THEOREM StopsReachChildren ==
  ASSUME OneTurnPerChat PROVE Spec => []StopReachesEveryChild
<1>1. Init => StopInv
  BY InitInv
<1>2. Inv /\ StopInv /\ [Next]_vars => StopInv'
  BY StopInvStep DEF Inv
<1>3. StopInv => StopReachesEveryChild
  BY DEF StopInv, StopReachesEveryChild
<1>4. QED
  BY <1>1, <1>2, <1>3, InvHolds, PTL DEF Spec
=============================================================================
