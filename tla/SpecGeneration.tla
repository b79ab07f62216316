--------------------------- MODULE SpecGeneration ---------------------------
(***************************************************************************)
(* Turning plans into OpenSpec changes: set_plan_status (commands/plans.rs)*)
(* starts a detached generate_openspec stage (pipeline_service.rs), which  *)
(* picks a free change name, drafts the artifacts with the model, writes   *)
(* them to a temporary directory and renames that (openspec_service.rs),   *)
(* validates and assesses what it finds there, and links the plan to it.   *)
(*                                                                         *)
(* The name is picked before the drafts and the directories are used after *)
(* them; nothing is locked in between, and plans whose titles give the     *)
(* same name share both directories.  The four calls of the model are one  *)
(* step, and so is the removal of a directory.  Archiving, links made by   *)
(* hand and the chat of a generation are left out.                         *)
(***************************************************************************)
EXTENDS Integers, Sequences

CONSTANTS Plans,
          Requests,     \* calls of set_plan_status(plan, "openspec"), each with its run
          PlanOf,       \* PlanOf[r]: the plan of request r
          Names,        \* change names
          Candidates,   \* Candidates[p]: the name of p's title, then with -2, -3, ...
          NoName,
          ReplacesEmpty,\* does rename replace an empty directory (POSIX)?
          MaxDeaths     \* bound on deaths of the process

ASSUME NameAssumption == NoName \notin Names
ASSUME PlanAssumption == PlanOf \in [Requests -> Plans]
ASSUME CandidateAssumption == Candidates \in [Plans -> Seq(Names)]
ASSUME SwitchAssumption == ReplacesEmpty \in BOOLEAN /\ MaxDeaths \in Nat

VARIABLES
    \* Threads, one per request.
    pc,         \* where it is
    name,       \* the change name it has picked
    result,     \* what its stage returned
    \* Runs.
    row,        \* status of the run's row
    listed,     \* RUNNING_STAGES: runs whose token cancel_run finds
    token,      \* runs whose CancellationToken is set
    missed,     \* calls of cancel_run that found no token and are about to write the row
    \* Plans.
    status,     \* "openspec", or "draft" for every other status
    assessed,   \* the change whose assessment is on the plan
    link,       \* change_name
    \* Files.
    change,     \* openspec/changes/<name>
    temp,       \* openspec/changes/.<name>.tmp
    \* History.
    crowded,    \* names that two stages had picked at one time
    deaths

runs == <<row, listed, token, missed>>
plans == <<status, assessed, link>>
files == <<change, temp>>
vars == <<pc, name, result, runs, plans, files, crowded, deaths>>

\* What a stage writes, in this order.
Artifacts == {"proposal", "spec", "design", "tasks", "stamp"}
NextPlace == [proposal |-> "spec", spec |-> "design", design |-> "tasks",
              tasks |-> "stamp", stamp |-> "rename"]

\* What validate_artifacts reads, and what the fingerprint reads.
Required == {"proposal", "spec", "tasks"}
Evidence == Required \cup {"design"}

Gone == [there |-> FALSE, files |-> {}]
Directory == [there : BOOLEAN, files : SUBSET Artifacts]

\* A stage has a name from its first step to its last.
Staged == {"draft", "clear", "create"} \cup Artifacts
            \cup {"rename", "validate", "assess", "fingerprint", "save", "link"}
Settled == {"report", "revert", "generated", "reverted"}
Places == {"idle", "set", "keep", "cap", "register", "start", "prepare"} \cup Staged
            \cup {"release", "settle"} \cup Settled \cup {"kept", "dead"}
AtRest == {"idle", "generated", "reverted", "kept", "dead"}

TypeOK ==
    /\ pc \in [Requests -> Places]
    /\ name \in [Requests -> Names \cup {NoName}]
    /\ result \in [Requests -> {"none", "ok", "error"}]
    /\ row \in [Requests -> {"none", "pending", "running", "succeeded", "failed", "cancelled"}]
    /\ listed \in SUBSET Requests
    /\ token \in SUBSET Requests
    /\ missed \in SUBSET Requests
    /\ status \in [Plans -> {"draft", "openspec"}]
    /\ assessed \in [Plans -> Names \cup {NoName}]
    /\ link \in [Plans -> Names \cup {NoName}]
    /\ change \in [Names -> Directory]
    /\ temp \in [Names -> Directory]
    /\ crowded \in SUBSET Names
    /\ deaths \in 0..MaxDeaths

Init ==
    /\ pc = [r \in Requests |-> "idle"]
    /\ name = [r \in Requests |-> NoName]
    /\ result = [r \in Requests |-> "none"]
    /\ row = [r \in Requests |-> "none"]
    /\ listed = {} /\ token = {} /\ missed = {}
    /\ status = [p \in Plans |-> "draft"]
    /\ assessed = [p \in Plans |-> NoName]
    /\ link = [p \in Plans |-> NoName]
    /\ change = [n \in Names |-> Gone]
    /\ temp = [n \in Names |-> Gone]
    /\ crowded = {}
    /\ deaths = 0

At(r, place) == pc' = [pc EXCEPT ![r] = place]
SetRow(r, s) == row' = [row EXCEPT ![r] = s]
SetPlan(p, s) == status' = [status EXCEPT ![p] = s]

(***************************************************************************)
(* set_plan_status                                                         *)
(***************************************************************************)

\* The command reads the plan.  One that says openspec is just written again.
Ask(r) ==
    /\ pc[r] = "idle"
    /\ At(r, IF status[PlanOf[r]] = "openspec" THEN "keep" ELSE "set")
    /\ UNCHANGED <<name, result, runs, plans, files, crowded, deaths>>

KeepOpenspec(r) ==
    /\ pc[r] = "keep"
    /\ At(r, "kept")
    /\ SetPlan(PlanOf[r], "openspec")
    /\ UNCHANGED <<name, result, runs, assessed, link, files, crowded, deaths>>

\* The status flips first; the stage is spawned detached.
SetOpenspec(r) ==
    /\ pc[r] = "set"
    /\ At(r, "cap")
    /\ SetPlan(PlanOf[r], "openspec")
    /\ UNCHANGED <<name, result, runs, assessed, link, files, crowded, deaths>>

\* The user edits the status (update_plan starts no stage), or a run of the plan
\* moves it.
MovePlan(p) ==
    /\ \E s \in {"draft", "openspec"} : SetPlan(p, s)
    /\ UNCHANGED <<pc, name, result, runs, assessed, link, files, crowded, deaths>>

\* The spawned task looks at what start_stage returned: an error, or the row as
\* it is by then.
Report(r) ==
    /\ pc[r] = "report"
    /\ At(r, IF row[r] = "succeeded" THEN "generated" ELSE "revert")
    /\ UNCHANGED <<name, result, runs, plans, files, crowded, deaths>>

\* The plan becomes a draft again, whatever it says.
Revert(r) ==
    /\ pc[r] = "revert"
    /\ At(r, "reverted")
    /\ SetPlan(PlanOf[r], "draft")
    /\ UNCHANGED <<name, result, runs, assessed, link, files, crowded, deaths>>

(***************************************************************************)
(* start_stage                                                             *)
(***************************************************************************)

\* The cap on active runs, which counts other runs too, or the insert refuses.
Refuse(r) ==
    /\ pc[r] = "cap"
    /\ At(r, "revert")
    /\ UNCHANGED <<name, result, runs, plans, files, crowded, deaths>>

InsertRun(r) ==
    /\ pc[r] = "cap"
    /\ At(r, "register")
    /\ SetRow(r, "pending")
    /\ UNCHANGED <<name, result, listed, token, missed, plans, files, crowded, deaths>>

Register(r) ==
    /\ pc[r] = "register"
    /\ At(r, "start")
    /\ listed' = listed \cup {r}
    /\ UNCHANGED <<name, result, row, token, missed, plans, files, crowded, deaths>>

Start(r) ==
    /\ pc[r] = "start"
    /\ At(r, "prepare")
    /\ SetRow(r, "running")
    /\ UNCHANGED <<name, result, listed, token, missed, plans, files, crowded, deaths>>

\* The stage has returned: its token leaves the map,
Release(r) ==
    /\ pc[r] = "release"
    /\ At(r, "settle")
    /\ listed' = listed \ {r}
    /\ UNCHANGED <<name, result, row, token, missed, plans, files, crowded, deaths>>

\* Mutant of Verdict: the result is looked at first.
VerdictResultFirst(r) ==
    IF result[r] = "ok" THEN "succeeded" ELSE IF r \in token THEN "cancelled" ELSE "failed"

\* and the row is settled, by the token first and the result second.
Verdict(r) ==
    IF r \in token THEN "cancelled" ELSE IF result[r] = "ok" THEN "succeeded" ELSE "failed"

Settle(r) ==
    /\ pc[r] = "settle"
    /\ At(r, "report")
    /\ SetRow(r, Verdict(r))
    /\ UNCHANGED <<name, result, listed, token, missed, plans, files, crowded, deaths>>

(***************************************************************************)
(* stage_generate_openspec                                                 *)
(***************************************************************************)

\* The stage of r goes on at place, with nothing changed but files.
StageAt(r, place) ==
    /\ At(r, place)
    /\ UNCHANGED <<name, result, runs, plans, crowded, deaths>>

\* It returns an error: of the model or its answer, of a file or of the plan,
\* or because the token was set when a call of the model returned.
StageFails(r) ==
    /\ pc[r] \in ({"prepare"} \cup Staged) \ {"clear", "rename", "validate", "link"}
    /\ At(r, "release")
    /\ result' = [result EXCEPT ![r] = "error"]
    /\ UNCHANGED <<name, runs, plans, files, crowded, deaths>>

\* resolve_unique_change_name: the first candidate without a directory.
IsFirstFree(p, n) ==
    \E i \in DOMAIN Candidates[p] :
        /\ Candidates[p][i] = n
        /\ ~ change[n].there
        /\ \A j \in 1..(i - 1) : change[Candidates[p][j]].there

\* Other stages that have picked n and may still use its directories.
Rivals(r, n) == {q \in Requests \ {r} : name[q] = n /\ pc[q] \in Staged}

Prepare(r) ==
    /\ pc[r] = "prepare"
    /\ \E n \in Names :
        /\ IsFirstFree(PlanOf[r], n)
        /\ name' = [name EXCEPT ![r] = n]
        /\ crowded' = IF Rivals(r, n) # {} THEN crowded \cup {n} ELSE crowded
    /\ At(r, "draft")
    /\ UNCHANGED <<result, runs, plans, files, deaths>>

\* Proposal, spec, design and tasks have come from the model.
Draft(r) ==
    /\ pc[r] = "draft"
    /\ r \notin token
    /\ StageAt(r, "clear")
    /\ UNCHANGED files

\* write_artifacts_atomic: what an earlier attempt left is removed, if it can be,
Clear(r) ==
    /\ pc[r] = "clear"
    /\ StageAt(r, "create")
    /\ \/ temp' = [temp EXCEPT ![name[r]] = Gone]
       \/ temp[name[r]].there /\ UNCHANGED temp
    /\ UNCHANGED change

Create(r) ==
    /\ pc[r] = "create"
    /\ StageAt(r, "proposal")
    /\ temp' = [temp EXCEPT ![name[r]].there = TRUE]
    /\ UNCHANGED change

\* Mutant of WriteFile: a file that cannot be written is passed over.
WriteFileIgnoresErrors(r) ==
    /\ pc[r] \in Artifacts
    /\ StageAt(r, NextPlace[pc[r]])
    /\ \/ temp' = [temp EXCEPT ![name[r]] =
                       [there |-> TRUE, files |-> temp[name[r]].files \cup {pc[r]}]]
       \/ UNCHANGED temp
    /\ UNCHANGED change

\* one file after the other is written, and only the directory of the spec
\* makes its parents; where there is no directory the stage fails.
WriteFile(r) ==
    /\ pc[r] \in Artifacts
    /\ temp[name[r]].there \/ pc[r] = "spec"
    /\ StageAt(r, NextPlace[pc[r]])
    /\ temp' = [temp EXCEPT ![name[r]] =
                    [there |-> TRUE, files |-> temp[name[r]].files \cup {pc[r]}]]
    /\ UNCHANGED change

\* Mutant of GivesWay: what is there is removed first, whatever it is.
GivesWayAlways(n) == TRUE

\* A directory gives way to a rename if nothing is there, or nothing is in it.
GivesWay(n) == ~ change[n].there \/ (ReplacesEmpty /\ change[n].files = {})

Rename(r) ==
    /\ pc[r] = "rename"
    /\ temp[name[r]].there
    /\ GivesWay(name[r])
    /\ StageAt(r, "validate")
    /\ change' = [change EXCEPT ![name[r]] = temp[name[r]]]
    /\ temp' = [temp EXCEPT ![name[r]] = Gone]

\* Mutant of RenameFails: a directory that is there already is taken for its own.
RenameAcceptsExisting(r) ==
    /\ pc[r] = "rename"
    /\ temp' = [temp EXCEPT ![name[r]] = Gone]
    /\ IF change[name[r]].there
         THEN At(r, "validate") /\ UNCHANGED result
         ELSE At(r, "release") /\ result' = [result EXCEPT ![r] = "error"]
    /\ UNCHANGED <<name, runs, plans, change, crowded, deaths>>

\* It fails otherwise, and the temporary directory is removed, whoever's it is.
RenameFails(r) ==
    /\ pc[r] = "rename"
    /\ At(r, "release")
    /\ result' = [result EXCEPT ![r] = "error"]
    /\ temp' = [temp EXCEPT ![name[r]] = Gone]
    /\ UNCHANGED <<name, runs, plans, change, crowded, deaths>>

\* Do the artifacts pass?  The texts may be at fault as well.
Validate(r) ==
    /\ pc[r] = "validate"
    /\ Required \subseteq change[name[r]].files
    /\ StageAt(r, "assess")
    /\ UNCHANGED files

ValidationFails(r) ==
    /\ pc[r] = "validate"
    /\ At(r, "release")
    /\ result' = [result EXCEPT ![r] = "error"]
    /\ SetRow(r, "failed")
    /\ UNCHANGED <<name, listed, token, missed, plans, files, crowded, deaths>>

\* One of three answers of the model is an assessment.
Assess(r) ==
    /\ pc[r] = "assess"
    /\ r \notin token
    /\ StageAt(r, "fingerprint")
    /\ UNCHANGED files

\* Mutant of Fingerprint: a file that is missing is passed over.
FingerprintSkipsMissing(r) ==
    /\ pc[r] = "fingerprint"
    /\ StageAt(r, "save")
    /\ UNCHANGED files

\* The fingerprint reads the artifacts back from the disk.
Fingerprint(r) ==
    /\ pc[r] = "fingerprint"
    /\ Evidence \subseteq change[name[r]].files
    /\ StageAt(r, "save")
    /\ UNCHANGED files

SaveAssessment(r) ==
    /\ pc[r] = "save"
    /\ At(r, "link")
    /\ assessed' = [assessed EXCEPT ![PlanOf[r]] = name[r]]
    /\ UNCHANGED <<name, result, runs, status, link, files, crowded, deaths>>

LinkPlan(r) ==
    /\ pc[r] = "link"
    /\ At(r, "release")
    /\ result' = [result EXCEPT ![r] = "ok"]
    /\ link' = [link EXCEPT ![PlanOf[r]] = name[r]]
    /\ UNCHANGED <<name, runs, status, assessed, files, crowded, deaths>>

(***************************************************************************)
(* cancel_run, and the process                                             *)
(***************************************************************************)

\* The token of a listed run is set, under the lock of the map.
CancelFinds(r) ==
    /\ r \in listed
    /\ token' = token \cup {r}
    /\ UNCHANGED <<pc, name, result, row, listed, missed, plans, files, crowded, deaths>>

\* Of one that is not listed, not yet or no more, the row is written afterwards,
CancelMisses(r) ==
    /\ row[r] # "none" /\ r \notin listed
    /\ missed' = missed \cup {r}
    /\ UNCHANGED <<pc, name, result, row, listed, token, plans, files, crowded, deaths>>

\* whatever the row says by then.
CancelMarks(r) ==
    /\ r \in missed
    /\ missed' = missed \ {r}
    /\ SetRow(r, "cancelled")
    /\ UNCHANGED <<pc, name, result, listed, token, plans, files, crowded, deaths>>

\* Threads and tokens are lost; rows, plans and directories stay.
Die ==
    /\ deaths < MaxDeaths
    /\ deaths' = deaths + 1
    /\ pc' = [r \in Requests |-> IF pc[r] \in AtRest THEN pc[r] ELSE "dead"]
    /\ listed' = {} /\ missed' = {}
    /\ UNCHANGED <<name, result, row, token, plans, files, crowded>>

Command(r) == Ask(r) \/ KeepOpenspec(r) \/ SetOpenspec(r) \/ Report(r) \/ Revert(r)
Frame(r) == Refuse(r) \/ InsertRun(r) \/ Register(r) \/ Start(r) \/ Release(r) \/ Settle(r)
Write(r) == Clear(r) \/ Create(r) \/ WriteFile(r) \/ Rename(r) \/ RenameFails(r)
Check(r) == Validate(r) \/ ValidationFails(r) \/ Assess(r) \/ Fingerprint(r)
Stage(r) ==
    \/ StageFails(r) \/ Prepare(r) \/ Draft(r) \/ Write(r) \/ Check(r)
    \/ SaveAssessment(r) \/ LinkPlan(r)
Cancel(r) == CancelFinds(r) \/ CancelMisses(r) \/ CancelMarks(r)

Next ==
    \/ \E r \in Requests : Command(r) \/ Frame(r) \/ Stage(r) \/ Cancel(r)
    \/ \E p \in Plans : MovePlan(p)
    \/ Die

Spec == Init /\ [][Next]_vars

(***************************************************************************)
(* Properties                                                              *)
(***************************************************************************)

\* The change that a plan is linked to, or assessed from, has every artifact,
\* although stages of one name clear, fill and rename one temporary directory:
\* whoever links has seen the artifacts where they stay (validate_artifacts and
\* assessment_artifact_fingerprint before save_assessment).
LinkedChangeIsWhole ==
    \A p \in Plans, n \in Names : n \in {link[p], assessed[p]} => Evidence \subseteq change[n].files

\* Two plans are never linked to one change, even when their stages picked its
\* name together: one rename only finds the place free.  Where rename replaces
\* an empty directory, a third stage can have left one there.
ChangeHasOnePlan ==
    \A p, q \in Plans :
        p # q /\ link[p] = link[q] /\ link[p] # NoName => ReplacesEmpty /\ link[p] \in crowded

\* No partial change directory is left by failures, cancels, deaths and later
\* attempts (write_artifacts_atomic), of a name that only one stage at a time
\* has used.
NoPartialChange ==
    \A n \in Names \ crowded : change[n].there => change[n].files = Artifacts

\* A cancel that found the token is what the row says when the run has settled,
\* and a run that is cancelled so is never taken for a generated one
\* (start_stage checks the token before the result).
HeardCancelIsHonoured ==
    \A r \in token : pc[r] \in Settled => row[r] = "cancelled" /\ pc[r] # "generated"

\* Stages, failures, cancels and deaths together keep the promise of ChangeStore:
\* what is there was published at once and stays as it is, and a plan claims what
\* no other plan claims (write_artifacts_atomic, save_assessment and
\* link_plan_to_change hold no lock in common).
Store == INSTANCE ChangeStore WITH
    present <- {n \in Names : change[n].there},
    content <- [n \in Names |-> change[n].files]

ImplementsChangeStore == Store!Spec
=============================================================================
