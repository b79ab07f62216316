------------------------ MODULE SpecGenerationProofs ------------------------
(***************************************************************************)
(* What SpecGeneration keeps, for any number of plans, requests, names and *)
(* deaths.  Most of the steps move one thread and leave files, names and   *)
(* links alone; what is left are the few that the arguments are about.     *)
(***************************************************************************)
EXTENDS SpecGeneration, TLAPS

USE NameAssumption, PlanAssumption, SwitchAssumption

\* The first step of every proof by cases: who takes the step.
LEMMA Steps ==
  ASSUME Next
  PROVE  \/ \E r \in Requests : Command(r) \/ Frame(r) \/ Stage(r) \/ Cancel(r)
         \/ \E p \in Plans : MovePlan(p)
         \/ Die
BY DEF Next

(***************************************************************************)
(* Types                                                                   *)
(***************************************************************************)

\* A stage that uses the directories of its change has picked its name.
NameInv == \A r \in Requests : pc[r] \in Staged => name[r] \in Names

Typed == TypeOK /\ NameInv

LEMMA CommandKeepsTypes ==
  ASSUME Typed, NEW r \in Requests, Command(r)
  PROVE  Typed'
<1> USE DEF Typed, NameInv, TypeOK, At, SetPlan, runs, plans, files, Places, Staged, Settled,
            Artifacts
<1>1. CASE Ask(r)
  BY <1>1 DEF Ask
<1>2. CASE KeepOpenspec(r)
  BY <1>2 DEF KeepOpenspec
<1>3. CASE SetOpenspec(r)
  BY <1>3 DEF SetOpenspec
<1>4. CASE Report(r)
  BY <1>4 DEF Report
<1>5. CASE Revert(r)
  BY <1>5 DEF Revert
<1> QED
  BY <1>1, <1>2, <1>3, <1>4, <1>5 DEF Command

LEMMA FrameKeepsTypes ==
  ASSUME Typed, NEW r \in Requests, Frame(r)
  PROVE  Typed'
<1> USE DEF Typed, NameInv, TypeOK, At, SetRow, runs, plans, files, Places, Staged, Settled,
            Artifacts
<1>1. CASE Refuse(r)
  BY <1>1 DEF Refuse
<1>2. CASE InsertRun(r)
  BY <1>2 DEF InsertRun
<1>3. CASE Register(r)
  BY <1>3 DEF Register
<1>4. CASE Start(r)
  BY <1>4 DEF Start
<1>5. CASE Release(r)
  BY <1>5 DEF Release
<1>6. CASE Settle(r)
  BY <1>6 DEF Settle, Verdict
<1> QED
  BY <1>1, <1>2, <1>3, <1>4, <1>5, <1>6 DEF Frame

LEMMA WriteKeepsTypes ==
  ASSUME Typed, NEW r \in Requests, Write(r)
  PROVE  Typed'
<1> USE DEF Typed, NameInv, TypeOK, At, StageAt, runs, plans, files, Places, Staged, Settled,
            Artifacts, Directory, Gone
<1>0. Gone \in Directory
  OBVIOUS
<1>1. CASE Clear(r)
  <2>1. temp' \in [Names -> Directory]
    BY <1>0, <1>1 DEF Clear
  <2> QED
    BY <1>1, <2>1 DEF Clear
<1>2. CASE Create(r)
  <2>1. name[r] \in Names /\ temp[name[r]] \in Directory
    BY <1>2 DEF Create
  <2>2. [temp[name[r]] EXCEPT !.there = TRUE] \in Directory
    BY <2>1
  <2>3. temp' \in [Names -> Directory]
    BY <1>2, <2>1, <2>2 DEF Create
  <2> QED
    BY <1>2, <2>3 DEF Create
<1>3. CASE WriteFile(r)
  BY <1>3 DEF WriteFile, NextPlace
<1>4. CASE Rename(r)
  BY <1>4 DEF Rename
<1>5. CASE RenameFails(r)
  BY <1>5 DEF RenameFails
<1> QED
  BY <1>1, <1>2, <1>3, <1>4, <1>5 DEF Write

LEMMA CheckKeepsTypes ==
  ASSUME Typed, NEW r \in Requests, Check(r)
  PROVE  Typed'
<1> USE DEF Typed, NameInv, TypeOK, At, StageAt, SetRow, runs, plans, files, Places, Staged,
            Settled, Artifacts
<1>1. CASE Validate(r)
  BY <1>1 DEF Validate
<1>2. CASE ValidationFails(r)
  BY <1>2 DEF ValidationFails
<1>3. CASE Assess(r)
  BY <1>3 DEF Assess
<1>4. CASE Fingerprint(r)
  BY <1>4 DEF Fingerprint
<1> QED
  BY <1>1, <1>2, <1>3, <1>4 DEF Check

LEMMA StageKeepsTypes ==
  ASSUME Typed, NEW r \in Requests, Stage(r)
  PROVE  Typed'
<1> USE DEF Typed, NameInv, TypeOK, At, StageAt, runs, plans, files, Places, Staged, Settled,
            Artifacts
<1>1. CASE StageFails(r)
  BY <1>1 DEF StageFails
<1>2. CASE Prepare(r)
  BY <1>2 DEF Prepare
<1>3. CASE Draft(r)
  BY <1>3 DEF Draft
<1>4. CASE SaveAssessment(r)
  BY <1>4 DEF SaveAssessment
<1>5. CASE LinkPlan(r)
  BY <1>5 DEF LinkPlan
<1> QED
  BY <1>1, <1>2, <1>3, <1>4, <1>5, WriteKeepsTypes, CheckKeepsTypes DEF Stage

LEMMA OthersKeepTypes ==
  ASSUME Typed,
         \/ \E r \in Requests : Cancel(r)
         \/ \E p \in Plans : MovePlan(p)
         \/ Die
  PROVE  Typed'
<1> USE DEF Typed, NameInv, TypeOK, runs, plans, files
<1>1. ASSUME NEW r \in Requests, Cancel(r)
      PROVE  Typed'
  BY <1>1 DEF Cancel, CancelFinds, CancelMisses, CancelMarks, SetRow
<1>2. ASSUME NEW p \in Plans, MovePlan(p)
      PROVE  Typed'
  BY <1>2 DEF MovePlan, SetPlan
<1>3. CASE Die
  BY <1>3 DEF Die, Places, Staged, AtRest, Artifacts
<1> QED
  BY <1>1, <1>2, <1>3

LEMMA TypedInvariant == Spec => []Typed
<1>1. Init => Typed
  BY DEF Init, Typed, TypeOK, NameInv, Places, Staged, Settled, Artifacts, Directory, Gone
<1>2. Typed /\ [Next]_vars => Typed'
  <2> SUFFICES ASSUME Typed, [Next]_vars
               PROVE  Typed'
    OBVIOUS
  <2>1. CASE Next
    BY <2>1, Steps, CommandKeepsTypes, FrameKeepsTypes, StageKeepsTypes, OthersKeepTypes
  <2>2. CASE UNCHANGED vars
    BY <2>2 DEF Typed, TypeOK, NameInv, vars, runs, plans, files
  <2> QED
    BY <2>1, <2>2
<1> QED
  BY <1>1, <1>2, PTL DEF Spec

\* Every reachable state has the types the module states.
THEOREM TypeCorrect == Spec => []TypeOK
<1>1. Typed => TypeOK
  BY DEF Typed
<1> QED
  BY <1>1, TypedInvariant, PTL

(***************************************************************************)
(* Steps that leave files, names and links alone                           *)
(***************************************************************************)

Quiet ==
    /\ UNCHANGED <<name, change, temp, link, assessed, crowded>>
    /\ \A q \in Requests :
        pc'[q] \in Staged => pc[q] \in Staged /\ (pc'[q] = pc[q] \/ pc'[q] = "clear")

\* The steps that are not quiet.
Eventful(r) ==
    \/ Prepare(r) \/ Write(r) \/ Validate(r) \/ Assess(r) \/ Fingerprint(r)
    \/ SaveAssessment(r) \/ LinkPlan(r)

LEMMA QuietSteps ==
  ASSUME Typed, [Next]_vars
  PROVE  Quiet \/ \E r \in Requests : Eventful(r)
<1> USE DEF Typed, TypeOK, Quiet, Staged, Artifacts, runs, plans, files
<1>1. ASSUME NEW r \in Requests, Command(r)
      PROVE  Quiet
  BY <1>1 DEF Command, Ask, KeepOpenspec, SetOpenspec, Report, Revert, At, SetPlan
<1>2. ASSUME NEW r \in Requests, Frame(r)
      PROVE  Quiet
  BY <1>2 DEF Frame, Refuse, InsertRun, Register, Start, Release, Settle, At, SetRow
<1>3. ASSUME NEW r \in Requests, Cancel(r)
      PROVE  Quiet
  BY <1>3 DEF Cancel, CancelFinds, CancelMisses, CancelMarks, SetRow
<1>4. ASSUME NEW r \in Requests, Stage(r)
      PROVE  Quiet \/ Eventful(r)
  BY <1>4 DEF Stage, Check, Eventful, StageFails, Draft, ValidationFails, At, StageAt, SetRow
<1>5. ASSUME NEW p \in Plans, MovePlan(p)
      PROVE  Quiet
  BY <1>5 DEF MovePlan, SetPlan
<1>6. CASE Die
  BY <1>6 DEF Die, AtRest
<1>7. CASE UNCHANGED vars
  BY <1>7 DEF vars
<1> QED
  BY <1>1, <1>2, <1>3, <1>4, <1>5, <1>6, <1>7, Steps

(***************************************************************************)
(* A linked change is whole                                                *)
(***************************************************************************)

\* What is not there holds nothing; a stage that is about to link has seen the
\* artifacts of its change where they stay.
GoneInv == \A n \in Names : ~ change[n].there => change[n].files = {}
SeenInv == \A r \in Requests :
               pc[r] \in {"save", "link"} => Evidence \subseteq change[name[r]].files

WholeInv == GoneInv /\ SeenInv /\ LinkedChangeIsWhole

\* A rename finds nothing or an empty directory, which nobody has seen whole.
LEMMA RenameKeepsWhole ==
  ASSUME Typed, WholeInv, NEW r \in Requests, Rename(r)
  PROVE  WholeInv'
<1> DEFINE n == name[r]
<1>1. n \in Names /\ change \in [Names -> Directory] /\ temp \in [Names -> Directory]
  BY DEF Typed, TypeOK, NameInv, Rename, Staged
<1>2. change' = [change EXCEPT ![n] = temp[n]] /\ temp[n].there /\ change[n].files = {}
  BY <1>1 DEF Rename, GivesWay, WholeInv, GoneInv
<1>3. \A q \in Requests : pc'[q] \in {"save", "link"} => pc'[q] = pc[q]
  BY DEF Rename, StageAt, At, Typed, TypeOK
<1>4. UNCHANGED <<name, link, assessed>>
  BY DEF Rename, StageAt, plans
<1>5. ~ Evidence \subseteq change[n].files
  BY <1>2 DEF Evidence, Required
<1>6. GoneInv'
  BY <1>1, <1>2 DEF WholeInv, GoneInv
<1>7. SeenInv'
  <2> SUFFICES ASSUME NEW q \in Requests, pc'[q] \in {"save", "link"}
               PROVE  Evidence \subseteq change'[name'[q]].files
    BY DEF SeenInv
  <2>1. name[q] \in Names /\ Evidence \subseteq change[name[q]].files
    BY <1>3 DEF WholeInv, SeenInv, Typed, NameInv, Staged
  <2> QED
    BY <1>1, <1>2, <1>4, <1>5, <2>1
<1>8. LinkedChangeIsWhole'
  <2> SUFFICES ASSUME NEW p \in Plans, NEW m \in Names, m \in {link'[p], assessed'[p]}
               PROVE  Evidence \subseteq change'[m].files
    BY DEF LinkedChangeIsWhole
  <2>1. Evidence \subseteq change[m].files
    BY <1>4 DEF WholeInv, LinkedChangeIsWhole
  <2> QED
    BY <1>1, <1>2, <1>5, <2>1
<1> QED
  BY <1>6, <1>7, <1>8 DEF WholeInv

\* The fingerprint sees the artifacts; who saves or links has seen them.
LEMMA LinkKeepsWhole ==
  ASSUME Typed, WholeInv, NEW r \in Requests,
         Fingerprint(r) \/ SaveAssessment(r) \/ LinkPlan(r)
  PROVE  WholeInv'
<1> USE DEF Typed, TypeOK, NameInv, WholeInv, GoneInv, SeenInv, LinkedChangeIsWhole, Staged,
            At, files
<1>1. CASE Fingerprint(r)
  BY <1>1 DEF Fingerprint, StageAt, plans
<1>2. CASE SaveAssessment(r)
  BY <1>2 DEF SaveAssessment
<1>3. CASE LinkPlan(r)
  BY <1>3 DEF LinkPlan
<1> QED
  BY <1>1, <1>2, <1>3

LEMMA WholeInvariant == Spec => []WholeInv
<1>1. Init => WholeInv
  BY DEF Init, WholeInv, GoneInv, SeenInv, LinkedChangeIsWhole, Gone
<1>2. Typed /\ WholeInv /\ [Next]_vars => WholeInv'
  <2> SUFFICES ASSUME Typed, WholeInv, [Next]_vars
               PROVE  WholeInv'
    OBVIOUS
  <2> USE DEF Typed, TypeOK, WholeInv, GoneInv, SeenInv, LinkedChangeIsWhole
  <2>1. CASE Quiet
    BY <2>1 DEF Quiet, Staged
  <2>2. ASSUME NEW r \in Requests, Prepare(r)
        PROVE  WholeInv'
    BY <2>2 DEF Prepare, At, files, plans
  <2>3. ASSUME NEW r \in Requests, Clear(r) \/ Create(r) \/ WriteFile(r) \/ RenameFails(r)
        PROVE  WholeInv'
    BY <2>3 DEF Clear, Create, WriteFile, RenameFails, StageAt, At, plans, NextPlace, Artifacts
  <2>4. ASSUME NEW r \in Requests, Validate(r) \/ Assess(r)
        PROVE  WholeInv'
    BY <2>4 DEF Validate, Assess, StageAt, At, plans, files
  <2> QED
    BY <2>1, <2>2, <2>3, <2>4, QuietSteps, RenameKeepsWhole, LinkKeepsWhole DEF Eventful, Write
<1> QED
  BY <1>1, <1>2, TypedInvariant, PTL DEF Spec

\* Whatever a plan is linked to or assessed from has its artifacts.
THEOREM LinkedChangesAreWhole == Spec => []LinkedChangeIsWhole
<1>1. WholeInv => LinkedChangeIsWhole
  BY DEF WholeInv
<1> QED
  BY <1>1, WholeInvariant, PTL

(***************************************************************************)
(* A name that one stage at a time has used                                *)
(***************************************************************************)

\* The artifacts that a stage at each place has written.
Written == [proposal |-> {}, spec |-> {"proposal"}, design |-> {"proposal", "spec"},
            tasks |-> {"proposal", "spec", "design"},
            stamp |-> {"proposal", "spec", "design", "tasks"}, rename |-> Artifacts]

\* Two stages that have picked one name crowd it, and what a stage alone has
\* written stands in its temporary directory.
AloneInv ==
    \A r, q \in Requests :
        r # q /\ pc[r] \in Staged /\ pc[q] \in Staged /\ name[r] = name[q] => name[r] \in crowded
WrittenInv ==
    \A r \in Requests :
        pc[r] \in Artifacts \cup {"rename"} /\ name[r] \notin crowded =>
            temp[name[r]].there /\ Written[pc[r]] \subseteq temp[name[r]].files

CrowdInv == AloneInv /\ WrittenInv /\ NoPartialChange

\* A stage that picks a name crowds it or finds nobody there.
LEMMA PrepareKeepsCrowd ==
  ASSUME Typed, CrowdInv, NEW r \in Requests, Prepare(r)
  PROVE  CrowdInv'
<1>1. /\ pc[r] = "prepare" /\ pc' = [pc EXCEPT ![r] = "draft"]
      /\ UNCHANGED <<change, temp>> /\ crowded \subseteq crowded'
  BY DEF Prepare, At, files
<1>2. PICK n \in Names : /\ name' = [name EXCEPT ![r] = n]
                         /\ Rivals(r, n) # {} => n \in crowded'
  BY DEF Prepare
<1>3. AloneInv'
  <2> SUFFICES ASSUME NEW q \in Requests, NEW x \in Requests, q # x, pc'[q] \in Staged,
                      pc'[x] \in Staged, name'[q] = name'[x]
               PROVE  name'[q] \in crowded'
    BY DEF AloneInv
  <2>1. CASE q = r
    BY <1>1, <1>2, <2>1 DEF Rivals, Typed, TypeOK
  <2>2. CASE x = r
    BY <1>1, <1>2, <2>2 DEF Rivals, Typed, TypeOK
  <2>3. CASE q # r /\ x # r
    BY <1>1, <1>2, <2>3 DEF CrowdInv, AloneInv, Typed, TypeOK
  <2> QED
    BY <2>1, <2>2, <2>3
<1>4. WrittenInv'
  BY <1>1, <1>2 DEF CrowdInv, WrittenInv, Typed, TypeOK, Artifacts
<1>5. NoPartialChange'
  BY <1>1 DEF CrowdInv, NoPartialChange
<1> QED
  BY <1>3, <1>4, <1>5 DEF CrowdInv

\* A stage that writes disturbs the directory of its own name only, and another
\* stage of that name would have crowded it.
LEMMA WriteKeepsCrowd ==
  ASSUME Typed, CrowdInv, NEW r \in Requests, Write(r)
  PROVE  CrowdInv'
<1> DEFINE n == name[r]
<1>1. /\ n \in Names /\ pc \in [Requests -> Places] /\ pc[r] \in Staged
      /\ change \in [Names -> Directory] /\ temp \in [Names -> Directory]
  BY DEF Typed, TypeOK, NameInv, Write, Clear, Create, WriteFile, Rename, RenameFails, Staged
<1>2. UNCHANGED <<name, crowded>>
  BY DEF Write, Clear, Create, WriteFile, Rename, RenameFails, StageAt
<1>3. \A q \in Requests : /\ q # r => pc'[q] = pc[q]
                          /\ pc'[q] \in Staged => pc[q] \in Staged
  BY <1>1 DEF Write, Clear, Create, WriteFile, Rename, RenameFails, StageAt, At, Staged,
              Artifacts, NextPlace
<1>4. \A m \in Names \ {n} : temp'[m] = temp[m] /\ change'[m] = change[m]
  BY <1>1 DEF Write, Clear, Create, WriteFile, Rename, RenameFails
<1>5. AloneInv'
  BY <1>2, <1>3 DEF CrowdInv, AloneInv
<1>6. \A q \in Requests \ {r} : pc[q] \in Staged /\ name[q] = n => n \in crowded
  BY <1>1 DEF CrowdInv, AloneInv
<1>7. ASSUME n \notin crowded, pc'[r] \in Artifacts \cup {"rename"}
      PROVE  temp'[n].there /\ Written[pc'[r]] \subseteq temp'[n].files
  <2>1. CASE Create(r)
    BY <1>1, <2>1 DEF Create, StageAt, At, Written, Directory
  <2>2. CASE WriteFile(r)
    <3>1. temp[n].there /\ Written[pc[r]] \subseteq temp[n].files
      BY <1>7, <2>2 DEF CrowdInv, WrittenInv, WriteFile
    <3>2. temp'[n] = [there |-> TRUE, files |-> temp[n].files \cup {pc[r]}]
      BY <1>1, <2>2 DEF WriteFile
    <3>3. pc'[r] = NextPlace[pc[r]] /\ pc[r] \in Artifacts
      BY <1>1, <2>2 DEF WriteFile, StageAt, At
    <3>4. Written[NextPlace[pc[r]]] \subseteq Written[pc[r]] \cup {pc[r]}
      BY <3>3 DEF Written, NextPlace, Artifacts
    <3> QED
      BY <3>1, <3>2, <3>3, <3>4
  <2>3. ~ (Clear(r) \/ Rename(r) \/ RenameFails(r))
    BY <1>1, <1>7 DEF Clear, Rename, RenameFails, StageAt, At, Artifacts
  <2> QED
    BY <2>1, <2>2, <2>3 DEF Write
<1>8. WrittenInv'
  <2> SUFFICES ASSUME NEW q \in Requests, pc'[q] \in Artifacts \cup {"rename"},
                      name'[q] \notin crowded'
               PROVE  temp'[name'[q]].there /\ Written[pc'[q]] \subseteq temp'[name'[q]].files
    BY DEF WrittenInv
  <2>1. CASE q = r
    BY <1>2, <1>7, <2>1
  <2>2. CASE q # r
    <3>1. pc'[q] = pc[q] /\ pc[q] \in Staged /\ name[q] \in Names /\ name[q] # n
      BY <1>2, <1>3, <1>6, <2>2 DEF Staged, Typed, NameInv
    <3> QED
      BY <1>2, <1>4, <3>1 DEF CrowdInv, WrittenInv
  <2> QED
    BY <2>1, <2>2
<1>9. NoPartialChange'
  <2> SUFFICES ASSUME NEW m \in Names \ crowded, change'[m].there
               PROVE  change'[m].files = Artifacts
    BY <1>2 DEF NoPartialChange
  <2>1. CASE change'[m] = change[m]
    BY <2>1 DEF CrowdInv, NoPartialChange
  <2>2. CASE change'[m] # change[m]
    <3>1. m = n /\ Rename(r) /\ change'[n] = temp[n]
      BY <1>1, <1>4, <2>2 DEF Write, Clear, Create, WriteFile, Rename, RenameFails
    <3>2. Artifacts \subseteq temp[n].files
      BY <3>1 DEF CrowdInv, WrittenInv, Written, Rename
    <3>3. temp[n].files \subseteq Artifacts
      BY <1>1 DEF Directory
    <3> QED
      BY <3>1, <3>2, <3>3
  <2> QED
    BY <2>1, <2>2
<1> QED
  BY <1>5, <1>8, <1>9 DEF CrowdInv

LEMMA CrowdInvariant == Spec => []CrowdInv
<1>1. Init => CrowdInv
  BY DEF Init, CrowdInv, AloneInv, WrittenInv, NoPartialChange, Gone, Staged, Artifacts
<1>2. Typed /\ CrowdInv /\ [Next]_vars => CrowdInv'
  <2> SUFFICES ASSUME Typed, CrowdInv, [Next]_vars
               PROVE  CrowdInv'
    OBVIOUS
  <2> USE DEF Typed, TypeOK, CrowdInv, AloneInv, WrittenInv, NoPartialChange
  <2>1. CASE Quiet
    BY <2>1 DEF Quiet, Staged, Artifacts
  <2>2. ASSUME NEW r \in Requests,
               \/ Validate(r) \/ Assess(r) \/ Fingerprint(r) \/ SaveAssessment(r) \/ LinkPlan(r)
        PROVE  CrowdInv'
    BY <2>2 DEF Validate, Assess, Fingerprint, SaveAssessment, LinkPlan, StageAt, At, files,
                Staged, Artifacts
  <2> QED
    BY <2>1, <2>2, QuietSteps, PrepareKeepsCrowd, WriteKeepsCrowd DEF Eventful
<1> QED
  BY <1>1, <1>2, TypedInvariant, PTL DEF Spec

\* Of a name that one stage at a time has used, no part of a change is left.
THEOREM ChangesAreComplete == Spec => []NoPartialChange
<1>1. CrowdInv => NoPartialChange
  BY DEF CrowdInv
<1> QED
  BY <1>1, CrowdInvariant, PTL

(***************************************************************************)
(* One plan per change                                                     *)
(***************************************************************************)

\* The stages whose rename has succeeded.
Past == {"validate", "assess", "fingerprint", "save", "link"}

\* A name whose change a further rename may replace.
Exempt(n) == ReplacesEmpty /\ n \in crowded

\* A change that a stage or a plan refers to is there, and unless it is exempt,
\* only one of them does.
ThereInv ==
    /\ \A r \in Requests : pc[r] \in Past => change[name[r]].there
    /\ \A p \in Plans : link[p] # NoName => change[link[p]].there
PastAlone ==
    \A r, q \in Requests :
        r # q /\ pc[r] \in Past /\ pc[q] \in Past /\ name[r] = name[q] => Exempt(name[r])
PastUnlinked ==
    \A r \in Requests, p \in Plans : pc[r] \in Past /\ link[p] = name[r] => Exempt(name[r])

OwnerInv == ThereInv /\ PastAlone /\ PastUnlinked /\ ChangeHasOnePlan

\* A rename that succeeds finds no change there, or one that is exempt: what a
\* stage alone has left is not empty.
LEMMA RenameKeepsOwner ==
  ASSUME Typed, CrowdInv, OwnerInv, NEW r \in Requests, Rename(r)
  PROVE  OwnerInv'
<1> DEFINE n == name[r]
<1>1. n \in Names /\ change \in [Names -> Directory] /\ pc \in [Requests -> Places]
  BY DEF Typed, TypeOK, NameInv, Rename, Staged
<1>2. /\ change' = [change EXCEPT ![n] = temp[n]] /\ temp[n].there
      /\ pc' = [pc EXCEPT ![r] = "validate"]
      /\ UNCHANGED <<name, link, crowded>>
  BY DEF Rename, StageAt, At, plans
<1>3. ~ change[n].there \/ Exempt(n)
  <2>1. CASE change[n].there
    <3>1. ReplacesEmpty /\ change[n].files = {}
      BY <2>1 DEF Rename, GivesWay
    <3>2. change[n].files # Artifacts
      BY <3>1 DEF Artifacts
    <3> QED
      BY <1>1, <2>1, <3>1, <3>2 DEF CrowdInv, NoPartialChange, Exempt
  <2> QED
    BY <2>1
<1>4. \A m : Exempt(m) => Exempt(m)'
  BY <1>2 DEF Exempt
<1>5. \A q \in Requests : pc'[q] \in Past => q = r \/ pc[q] \in Past
  BY <1>1, <1>2
<1>6. \A q \in Requests \ {r} : pc[q] \in Past /\ name[q] = n => Exempt(n)
  BY <1>3 DEF OwnerInv, ThereInv
<1>7. \A p \in Plans : link[p] = n => Exempt(n)
  BY <1>1, <1>3 DEF OwnerInv, ThereInv
<1>8. ThereInv'
  <2>1. \A m \in Names : change[m].there => change'[m].there
    BY <1>1, <1>2
  <2>2. \A q \in Requests : pc[q] \in Past => name[q] \in Names
    BY DEF Typed, NameInv, Past, Staged
  <2>3. \A p \in Plans : link[p] # NoName => link[p] \in Names
    BY DEF Typed, TypeOK
  <2> QED
    BY <1>1, <1>2, <1>5, <2>1, <2>2, <2>3 DEF OwnerInv, ThereInv
<1>9. PastAlone'
  BY <1>2, <1>4, <1>5, <1>6 DEF OwnerInv, PastAlone
<1>10. PastUnlinked'
  BY <1>2, <1>4, <1>5, <1>7 DEF OwnerInv, PastUnlinked
<1>11. ChangeHasOnePlan'
  BY <1>2 DEF OwnerInv, ChangeHasOnePlan
<1> QED
  BY <1>8, <1>9, <1>10, <1>11 DEF OwnerInv

\* A stage links a change to which neither a plan nor another stage refers.
LEMMA LinkKeepsOwner ==
  ASSUME Typed, OwnerInv, NEW r \in Requests, LinkPlan(r)
  PROVE  OwnerInv'
<1> DEFINE n == name[r]
<1>1. /\ pc[r] = "link" /\ pc' = [pc EXCEPT ![r] = "release"]
      /\ link' = [link EXCEPT ![PlanOf[r]] = n]
      /\ UNCHANGED <<name, change, crowded>>
  BY DEF LinkPlan, At, files
<1>2. /\ n \in Names /\ pc \in [Requests -> Places] /\ link \in [Plans -> Names \cup {NoName}]
      /\ r \in Requests /\ pc[r] \in Past /\ PlanOf[r] \in Plans
  BY <1>1 DEF Typed, TypeOK, NameInv, Staged, Past
<1>3. \A q \in Requests : pc'[q] \in Past => pc[q] \in Past /\ q # r
  BY <1>1, <1>2 DEF Past
<1>4. \A p \in Plans : link'[p] = link[p] \/ (p = PlanOf[r] /\ link'[p] = n)
  BY <1>1, <1>2
<1>5. \A m : Exempt(m) => Exempt(m)'
  BY <1>1 DEF Exempt
<1>6. ThereInv'
  BY <1>1, <1>2, <1>3, <1>4 DEF OwnerInv, ThereInv
<1>7. PastAlone'
  BY <1>1, <1>3, <1>5 DEF OwnerInv, PastAlone
<1>8. PastUnlinked'
  BY <1>1, <1>2, <1>3, <1>4, <1>5 DEF OwnerInv, PastAlone, PastUnlinked
<1>9. ChangeHasOnePlan'
  <2> SUFFICES ASSUME NEW p \in Plans, NEW q \in Plans, p # q, link'[p] = link'[q],
                      link'[p] # NoName
               PROVE  ReplacesEmpty /\ link'[p] \in crowded
    BY <1>1 DEF ChangeHasOnePlan
  <2>1. CASE link'[p] = link[p] /\ link'[q] = link[q]
    BY <2>1 DEF OwnerInv, ChangeHasOnePlan
  <2>2. CASE link'[p] # link[p]
    <3>1. p = PlanOf[r] /\ link'[p] = n /\ link[q] = n
      BY <1>4, <2>2
    <3> QED
      BY <1>2, <3>1 DEF OwnerInv, PastUnlinked, Exempt
  <2>3. CASE link'[q] # link[q]
    <3>1. q = PlanOf[r] /\ link'[q] = n /\ link[p] = n
      BY <1>4, <2>3
    <3> QED
      BY <1>2, <3>1 DEF OwnerInv, PastUnlinked, Exempt
  <2> QED
    BY <2>1, <2>2, <2>3
<1> QED
  BY <1>6, <1>7, <1>8, <1>9 DEF OwnerInv

LEMMA OwnerInvariant == Spec => []OwnerInv
<1>1. Init => OwnerInv
  BY DEF Init, OwnerInv, ThereInv, PastAlone, PastUnlinked, ChangeHasOnePlan, Past
<1>2. Typed /\ CrowdInv /\ OwnerInv /\ [Next]_vars => OwnerInv'
  <2> SUFFICES ASSUME Typed, CrowdInv, OwnerInv, [Next]_vars
               PROVE  OwnerInv'
    OBVIOUS
  <2> USE DEF Typed, TypeOK, OwnerInv, ThereInv, PastAlone, PastUnlinked, ChangeHasOnePlan,
              Exempt, Past
  <2>1. CASE Quiet
    BY <2>1 DEF Quiet, Staged
  <2>2. ASSUME NEW r \in Requests, Prepare(r)
        PROVE  OwnerInv'
    BY <2>2 DEF Prepare, At, files, plans
  <2>3. ASSUME NEW r \in Requests, Clear(r) \/ Create(r) \/ WriteFile(r) \/ RenameFails(r)
        PROVE  OwnerInv'
    BY <2>3 DEF Clear, Create, WriteFile, RenameFails, StageAt, At, plans, NextPlace, Artifacts
  <2>4. ASSUME NEW r \in Requests,
               Validate(r) \/ Assess(r) \/ Fingerprint(r) \/ SaveAssessment(r)
        PROVE  OwnerInv'
    BY <2>4 DEF Validate, Assess, Fingerprint, SaveAssessment, StageAt, At, plans, files
  <2> QED
    BY <2>1, <2>2, <2>3, <2>4, QuietSteps, RenameKeepsOwner, LinkKeepsOwner DEF Eventful, Write
<1> QED
  BY <1>1, <1>2, TypedInvariant, CrowdInvariant, PTL DEF Spec

\* Two plans of one title never end with one change, unless rename has replaced
\* the empty directory of another stage.
THEOREM ChangesHaveOnePlan == Spec => []ChangeHasOnePlan
<1>1. OwnerInv => ChangeHasOnePlan
  BY DEF OwnerInv
<1> QED
  BY <1>1, OwnerInvariant, PTL

(***************************************************************************)
(* Cancels                                                                 *)
(***************************************************************************)

\* A token can be found from its registration until the stage has returned: none
\* is set before the run is inserted, or when the row is settled by it.
ListedInv ==
    \A r \in listed : pc[r] \in {"start", "prepare"} \cup Staged \cup {"release"}
TokenInv ==
    \A r \in token : pc[r] \notin {"idle", "set", "keep", "cap", "register"}

CancelInv == ListedInv /\ TokenInv /\ HeardCancelIsHonoured

LEMMA ThreadKeepsCancel ==
  ASSUME Typed, CancelInv, NEW r \in Requests, Command(r) \/ Frame(r) \/ Stage(r)
  PROVE  CancelInv'
<1> USE DEF Typed, TypeOK, CancelInv, ListedInv, TokenInv, HeardCancelIsHonoured, At,
            SetRow, runs, Staged, Settled, Artifacts
<1>1. CASE Command(r)
  BY <1>1 DEF Command, Ask, KeepOpenspec, SetOpenspec, Report, Revert
<1>2. CASE Frame(r)
  <2>1. CASE Refuse(r)
    BY <2>1 DEF Refuse
  <2>2. CASE InsertRun(r)
    BY <2>2 DEF InsertRun
  <2>3. CASE Start(r)
    BY <2>3 DEF Start
  <2>4. CASE Register(r)
    BY <2>4 DEF Register
  <2>5. CASE Release(r)
    BY <2>5 DEF Release
  <2>6. CASE Settle(r)
    BY <2>6 DEF Settle, Verdict
  <2> QED
    BY <1>2, <2>1, <2>2, <2>3, <2>4, <2>5, <2>6 DEF Frame
<1>3. CASE Stage(r)
  <2>1. CASE Write(r)
    BY <2>1 DEF Write, Clear, Create, WriteFile, Rename, RenameFails, StageAt, NextPlace
  <2>2. CASE Check(r)
    BY <2>2 DEF Check, Validate, ValidationFails, Assess, Fingerprint, StageAt
  <2>3. CASE StageFails(r) \/ Prepare(r) \/ Draft(r) \/ SaveAssessment(r) \/ LinkPlan(r)
    BY <2>3 DEF StageFails, Prepare, Draft, SaveAssessment, LinkPlan, StageAt
  <2> QED
    BY <1>3, <2>1, <2>2, <2>3 DEF Stage
<1> QED
  BY <1>1, <1>2, <1>3

LEMMA CancelInvariant == Spec => []CancelInv
<1>1. Init => CancelInv
  BY DEF Init, CancelInv, ListedInv, TokenInv, HeardCancelIsHonoured
<1>2. Typed /\ CancelInv /\ [Next]_vars => CancelInv'
  <2> SUFFICES ASSUME Typed, CancelInv, [Next]_vars
               PROVE  CancelInv'
    OBVIOUS
  <2> USE DEF Typed, TypeOK, CancelInv, ListedInv, TokenInv, HeardCancelIsHonoured, runs
  <2>1. ASSUME NEW r \in Requests, Cancel(r)
        PROVE  CancelInv'
    BY <2>1 DEF Cancel, CancelFinds, CancelMisses, CancelMarks, SetRow, Settled, Staged, Artifacts
  <2>2. ASSUME NEW p \in Plans, MovePlan(p)
        PROVE  CancelInv'
    BY <2>2 DEF MovePlan
  <2>3. CASE Die
    BY <2>3 DEF Die, AtRest, Settled
  <2>4. CASE UNCHANGED vars
    BY <2>4 DEF vars
  <2> QED
    BY <2>1, <2>2, <2>3, <2>4, ThreadKeepsCancel, Steps
<1> QED
  BY <1>1, <1>2, TypedInvariant, PTL DEF Spec

\* A cancel that was heard is what the settled row says.
THEOREM HeardCancelsAreHonoured == Spec => []HeardCancelIsHonoured
<1>1. CancelInv => HeardCancelIsHonoured
  BY DEF CancelInv
<1> QED
  BY <1>1, CancelInvariant, PTL

(***************************************************************************)
(* SpecGeneration implements ChangeStore                                   *)
(***************************************************************************)

\* No plan is assessed from the change of a stage whose rename has succeeded,
\* but the stage's own plan once the stage has saved the assessment.
UnassessedInv ==
    \A r \in Requests, p \in Plans :
        pc[r] \in Past /\ assessed[p] = name[r]
        => Exempt(name[r]) \/ (pc[r] = "link" /\ p = PlanOf[r])

\* A rename that succeeds finds no change there, and so none that a plan was
\* assessed from, or one that is exempt.
LEMMA RenameFindsFree ==
  ASSUME Typed, CrowdInv, NEW r \in Requests, Rename(r)
  PROVE  ~ change[name[r]].there \/ (Exempt(name[r]) /\ change[name[r]].files = {})
<1> DEFINE n == name[r]
<1>1. n \in Names
  BY DEF Typed, NameInv, Rename, Staged
<1>2. SUFFICES ASSUME change[n].there
               PROVE  Exempt(n) /\ change[n].files = {}
  OBVIOUS
<1>3. ReplacesEmpty /\ change[n].files = {}
  BY <1>2 DEF Rename, GivesWay
<1>4. change[n].files # Artifacts
  BY <1>3 DEF Artifacts
<1> QED
  BY <1>1, <1>2, <1>3, <1>4 DEF CrowdInv, NoPartialChange, Exempt

\* What a plan was assessed from is there.
LEMMA AssessedIsThere ==
  ASSUME Typed, WholeInv, NEW p \in Plans, assessed[p] \in Names
  PROVE  change[assessed[p]].there
<1>1. Evidence \subseteq change[assessed[p]].files
  BY DEF WholeInv, LinkedChangeIsWhole
<1> QED
  BY <1>1 DEF WholeInv, GoneInv, Evidence, Required

LEMMA UnassessedInvariant == Spec => []UnassessedInv
<1>1. Init => UnassessedInv
  BY DEF Init, UnassessedInv, Past
<1>2. Typed /\ WholeInv /\ CrowdInv /\ OwnerInv /\ UnassessedInv /\ [Next]_vars => UnassessedInv'
  <2> SUFFICES ASSUME Typed, WholeInv, CrowdInv, OwnerInv, UnassessedInv, [Next]_vars
               PROVE  UnassessedInv'
    OBVIOUS
  <2> USE DEF Typed, TypeOK, UnassessedInv, Exempt, Past
  <2>1. CASE Quiet
    BY <2>1 DEF Quiet, Staged
  <2>2. ASSUME NEW r \in Requests, Prepare(r)
        PROVE  UnassessedInv'
    BY <2>2 DEF Prepare, At, plans
  <2>3. ASSUME NEW r \in Requests, Clear(r) \/ Create(r) \/ WriteFile(r) \/ RenameFails(r)
        PROVE  UnassessedInv'
    BY <2>3 DEF Clear, Create, WriteFile, RenameFails, StageAt, At, plans, NextPlace, Artifacts
  <2>4. ASSUME NEW r \in Requests, Validate(r) \/ Assess(r) \/ Fingerprint(r)
        PROVE  UnassessedInv'
    BY <2>4 DEF Validate, Assess, Fingerprint, StageAt, At, plans
  <2>5. ASSUME NEW r \in Requests, Rename(r)
        PROVE  UnassessedInv'
    <3>1. /\ pc' = [pc EXCEPT ![r] = "validate"]
          /\ UNCHANGED <<name, assessed, crowded>>
      BY <2>5 DEF Rename, StageAt, At, plans
    <3>2. \A p \in Plans : assessed[p] = name[r] => Exempt(name[r])
      <4>1. name[r] \in Names
        BY <2>5 DEF Rename, NameInv, Staged
      <4> QED
        BY <2>5, <4>1, RenameFindsFree, AssessedIsThere
    <3> QED
      BY <3>1, <3>2
  <2>6. ASSUME NEW r \in Requests, SaveAssessment(r)
        PROVE  UnassessedInv'
    <3>1. /\ pc[r] = "save" /\ pc' = [pc EXCEPT ![r] = "link"]
          /\ assessed' = [assessed EXCEPT ![PlanOf[r]] = name[r]]
          /\ UNCHANGED <<name, crowded>>
      BY <2>6 DEF SaveAssessment, At
    <3>2. \A q \in Requests \ {r} : pc[q] \in Past /\ name[q] = name[r] => Exempt(name[q])
      BY <3>1 DEF OwnerInv, PastAlone
    <3> QED
      BY <3>1, <3>2
  <2>7. ASSUME NEW r \in Requests, LinkPlan(r)
        PROVE  UnassessedInv'
    BY <2>7 DEF LinkPlan, At
  <2> QED
    BY <2>1, <2>2, <2>3, <2>4, <2>5, <2>6, <2>7, QuietSteps DEF Eventful, Write
<1> QED
  BY <1>1, <1>2, TypedInvariant, WholeInvariant, CrowdInvariant, OwnerInvariant, PTL DEF Spec

LEMMA StoreInit == Init => Store!Init
  BY DEF Init, Store!Init, Gone

\* A rename publishes the change.
LEMMA RenamePublishes ==
  ASSUME Typed, CrowdInv, NEW r \in Requests, Rename(r), NEW n \in Names, n = name[r]
  PROVE  Store!Publish(n)
<1> DEFINE present(c) == {m \in Names : c[m].there}
           content(c) == [m \in Names |-> c[m].files]
<1>1. n \in Names /\ change \in [Names -> Directory] /\ temp[n] \in Directory
  BY DEF Typed, TypeOK, NameInv, Rename, Staged
<1>2. /\ change' = [change EXCEPT ![n] = temp[n]] /\ temp[n].there
      /\ UNCHANGED <<link, assessed, crowded>>
  BY DEF Rename, StageAt, plans
<1>3. n \in present(change) => Exempt(n) /\ content(change)[n] = {}
  BY <1>1, RenameFindsFree
<1>4. present(change') = present(change) \cup {n}
  BY <1>1, <1>2
<1>5. content(change') = [content(change) EXCEPT ![n] = temp[n].files]
  BY <1>1, <1>2
<1>6. temp[n].files \in SUBSET Artifacts
  BY <1>1 DEF Directory
<1>7. n \notin crowded => temp[n].files = Artifacts
  <2>1. n \notin crowded => Artifacts \subseteq temp[n].files
    BY DEF Rename, CrowdInv, WrittenInv, Written
  <2> QED
    BY <1>6, <2>1
<1> QED
  BY <1>2, <1>3, <1>4, <1>5, <1>6, <1>7 DEF Store!Publish, Store!Exempt, Exempt

\* A stage that saves or links relies on its own change, which no other plan
\* claims.
LEMMA StageClaims ==
  ASSUME Typed, WholeInv, OwnerInv, UnassessedInv, NEW r \in Requests, pc[r] \in {"save", "link"}
  PROVE  name[r] \in Names /\ PlanOf[r] \in Plans /\ Store!Claimable(PlanOf[r], name[r])
<1> DEFINE n == name[r]
           kept == [m \in Names |-> change[m].files]
<1>1. n \in Names /\ PlanOf[r] \in Plans /\ pc[r] \in Past
  BY DEF Typed, NameInv, Staged, Past
<1>2. n \in {m \in Names : change[m].there} /\ Evidence \subseteq kept[n]
  BY <1>1 DEF OwnerInv, ThereInv, WholeInv, SeenInv
<1>3. \A q \in Plans \ {PlanOf[r]} : n \in {assessed[q], link[q]} => Exempt(n)
  BY <1>1 DEF OwnerInv, PastUnlinked, UnassessedInv
<1> QED
  BY <1>1, <1>2, <1>3 DEF Store!Claimable, Store!Exempt, Exempt

\* Every step is a step of the store or leaves it alone.
LEMMA StoreStep ==
  ASSUME Typed, WholeInv, CrowdInv, OwnerInv, UnassessedInv, [Next]_vars
  PROVE  [Store!Next]_Store!vars
<1>1. CASE Quiet
  BY <1>1 DEF Quiet, Store!vars
<1>2. ASSUME NEW r \in Requests, Prepare(r)
      PROVE  [Store!Next]_Store!vars
  <2>1. UNCHANGED <<change, link, assessed>>
    BY <1>2 DEF Prepare, plans, files
  <2>2. PICK n \in Names : crowded' = crowded \cup {n} \/ crowded' = crowded
    BY <1>2 DEF Prepare
  <2>3. Store!Crowd(n) \/ UNCHANGED Store!vars
    BY <2>1, <2>2 DEF Store!Crowd, Store!vars
  <2> QED
    BY <2>3 DEF Store!Next
<1>3. ASSUME NEW r \in Requests,
             \/ Clear(r) \/ Create(r) \/ WriteFile(r) \/ RenameFails(r)
             \/ Validate(r) \/ Assess(r) \/ Fingerprint(r)
      PROVE  UNCHANGED Store!vars
  BY <1>3 DEF Clear, Create, WriteFile, RenameFails, Validate, Assess, Fingerprint, StageAt,
              plans, files, Store!vars
<1>4. ASSUME NEW r \in Requests, Rename(r)
      PROVE  Store!Next
  <2>1. name[r] \in Names
    BY <1>4 DEF Rename, Typed, NameInv, Staged
  <2>2. PICK n \in Names : n = name[r]
    BY <2>1
  <2>3. Store!Publish(n)
    BY <1>4, <2>2, RenamePublishes
  <2> QED
    BY <2>3 DEF Store!Next
<1>5. ASSUME NEW r \in Requests, SaveAssessment(r)
      PROVE  Store!Next
  <2>1. pc[r] \in {"save", "link"} /\ UNCHANGED <<change, link, crowded>>
    BY <1>5 DEF SaveAssessment, files
  <2>2. Store!Assess(PlanOf[r], name[r])
    BY <1>5, <2>1, StageClaims DEF SaveAssessment, Store!Assess
  <2> QED
    BY <2>1, <2>2, StageClaims DEF Store!Next
<1>6. ASSUME NEW r \in Requests, LinkPlan(r)
      PROVE  Store!Next
  <2>1. pc[r] \in {"save", "link"} /\ UNCHANGED <<change, assessed, crowded>>
    BY <1>6 DEF LinkPlan, files
  <2>2. Store!Link(PlanOf[r], name[r])
    BY <1>6, <2>1, StageClaims DEF LinkPlan, Store!Link
  <2> QED
    BY <2>1, <2>2, StageClaims DEF Store!Next
<1> QED
  BY <1>1, <1>2, <1>3, <1>4, <1>5, <1>6, QuietSteps DEF Eventful, Write

\* Whatever stages, failures, cancels and deaths do, changes are published at
\* once and for good, and each is claimed by one plan.
THEOREM GenerationImplementsStore == Spec => ImplementsChangeStore
<1>1. Init => Store!Init
  BY StoreInit
<1>2. Typed /\ WholeInv /\ CrowdInv /\ OwnerInv /\ UnassessedInv /\ [Next]_vars
      => [Store!Next]_Store!vars
  BY StoreStep
<1> QED
  BY <1>1, <1>2, TypedInvariant, WholeInvariant, CrowdInvariant, OwnerInvariant,
     UnassessedInvariant, PTL DEF Spec, ImplementsChangeStore, Store!Spec
=============================================================================
