---------------------------- MODULE ChangeStore ----------------------------
(***************************************************************************)
(* What the generation of OpenSpec changes promises, without the stages,   *)
(* temporary directories, cancels and deaths behind it (openspec_service.rs*)
(* and stage_generate_openspec in pipeline_service.rs).                    *)
(*                                                                         *)
(* A change appears at once and with every artifact, and whatever it holds *)
(* is never touched again.  A plan is assessed from a change, and linked   *)
(* to one, only when the evidence is there and no other plan claims it.    *)
(*                                                                         *)
(* The promise is weaker for a name that two stages had picked together:   *)
(* it may appear with less, and where rename replaces an empty directory   *)
(* (POSIX), a change that appeared empty may appear again, to be claimed   *)
(* by another plan.                                                        *)
(***************************************************************************)

CONSTANTS Plans,
          Names,         \* change names
          NoName,
          Artifacts,     \* the files of a change
          Evidence,      \* those that an assessment rests on
          ReplacesEmpty  \* does rename replace an empty directory?

VARIABLES present,   \* the names under which there is a change
          content,   \* content[n]: its files
          assessed,  \* assessed[p]: the change from which plan p was assessed
          link,      \* link[p]: the change that p is linked to
          crowded    \* the names that two stages had picked together

vars == <<present, content, assessed, link, crowded>>

Init ==
    /\ present = {}
    /\ content = [n \in Names |-> {}]
    /\ assessed = [p \in Plans |-> NoName]
    /\ link = [p \in Plans |-> NoName]
    /\ crowded = {}

Exempt(n) == ReplacesEmpty /\ n \in crowded

Crowd(n) ==
    /\ crowded' = crowded \cup {n}
    /\ UNCHANGED <<present, content, assessed, link>>

Publish(n) ==
    /\ n \in present => Exempt(n) /\ content[n] = {}
    /\ present' = present \cup {n}
    /\ \E files \in SUBSET Artifacts :
        /\ n \notin crowded => files = Artifacts
        /\ content' = [content EXCEPT ![n] = files]
    /\ UNCHANGED <<assessed, link, crowded>>

\* Plan p can rely on the change n, and no other plan does.
Claimable(p, n) ==
    /\ n \in present /\ Evidence \subseteq content[n]
    /\ Exempt(n) \/ \A q \in Plans \ {p} : n \notin {assessed[q], link[q]}

Assess(p, n) ==
    /\ Claimable(p, n)
    /\ assessed' = [assessed EXCEPT ![p] = n]
    /\ UNCHANGED <<present, content, link, crowded>>

Link(p, n) ==
    /\ Claimable(p, n)
    /\ link' = [link EXCEPT ![p] = n]
    /\ UNCHANGED <<present, content, assessed, crowded>>

Next ==
    \E n \in Names :
        \/ Crowd(n) \/ Publish(n)
        \/ \E p \in Plans : Assess(p, n) \/ Link(p, n)

Spec == Init /\ [][Next]_vars
=============================================================================
