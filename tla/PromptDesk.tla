----------------------------- MODULE PromptDesk -----------------------------
(***************************************************************************)
(* What prompts promise, without the senders, waits and commands behind    *)
(* them (agent_loop_service.rs: execute_with_gateway, await_approval and   *)
(* execute_ask_user; interaction_service.rs).                              *)
(*                                                                         *)
(* A call is told once how its prompt ended, keeps to that and returns to  *)
(* its batch; when the process dies, a call that has not returned is told  *)
(* nothing any more.  A call is told that it may run only when the user    *)
(* has allowed a card of its id, and that it was answered only when the    *)
(* record of its question says so.  A record is settled once, by the time  *)
(* the call is told of a timeout at the latest.                            *)
(***************************************************************************)

CONSTANTS Approvals,  \* calls that need an approval; each shows a card
          Questions,  \* calls that ask a question
          CallKey     \* CallKey[a]: the id of approval a, its own or not

VARIABLES stage,      \* stage[p]: "open", "told", "back" at its batch, or "lost"
          outcome,    \* outcome[p]: what call p has been told
          record,     \* record[q]: the record of question q
          consent     \* consent[a]: what the user clicked on the card of a

vars == <<stage, outcome, record, consent>>

Prompts == Approvals \cup Questions

Init ==
    /\ stage = [p \in Prompts |-> "open"]
    /\ outcome = [p \in Prompts |-> "none"]
    /\ record = [q \in Questions |-> "absent"]
    /\ consent = [a \in Approvals |-> "none"]

\* The user decides on a card, once, though the call may know its outcome by then.
Click(a, verdict) ==
    /\ stage[a] \in {"open", "told"} /\ consent[a] = "none"
    /\ consent' = [consent EXCEPT ![a] = verdict]
    /\ UNCHANGED <<stage, outcome, record>>

Ask(q) ==
    /\ stage[q] = "open" /\ record[q] = "absent"
    /\ record' = [record EXCEPT ![q] = "pending"]
    /\ UNCHANGED <<stage, outcome, consent>>

Settle(q, verdict) ==
    /\ record[q] = "pending"
    /\ record' = [record EXCEPT ![q] = verdict]
    /\ UNCHANGED <<stage, outcome, consent>>

Tell(p, result) ==
    /\ stage[p] = "open"
    /\ stage' = [stage EXCEPT ![p] = "told"]
    /\ outcome' = [outcome EXCEPT ![p] = result]
    /\ UNCHANGED consent

TellApproval(a, result) ==
    /\ Tell(a, result)
    /\ result = "allowed" =>
         \E b \in Approvals : CallKey[b] = CallKey[a] /\ consent[b] = "allowed"
    /\ UNCHANGED record

TellQuestion(q, result) ==
    /\ Tell(q, result)
    /\ record[q] # "absent"
    /\ result = "answered" => record[q] = "answered"
    /\ UNCHANGED record

TellTimeout(q) ==
    /\ Tell(q, "timeout")
    /\ record[q] # "absent"
    /\ record' = [record EXCEPT ![q] = IF @ = "pending" THEN "cancelled" ELSE @]

\* The chat was stopped before the call began.
Skip(a) ==
    /\ stage[a] = "open"
    /\ stage' = [stage EXCEPT ![a] = "back"]
    /\ outcome' = [outcome EXCEPT ![a] = "skipped"]
    /\ UNCHANGED <<record, consent>>

Return(p) ==
    /\ stage[p] = "told"
    /\ stage' = [stage EXCEPT ![p] = "back"]
    /\ UNCHANGED <<outcome, record, consent>>

Die ==
    /\ stage' = [p \in Prompts |-> IF stage[p] = "back" THEN "back" ELSE "lost"]
    /\ outcome' = [p \in Prompts |-> IF stage[p] = "back" THEN outcome[p] ELSE "none"]
    /\ UNCHANGED <<record, consent>>

Next ==
    \/ \E a \in Approvals :
        \/ \E verdict \in {"allowed", "denied"} : Click(a, verdict) \/ TellApproval(a, verdict)
        \/ Skip(a)
    \/ \E q \in Questions :
        \/ Ask(q) \/ TellTimeout(q)
        \/ \E verdict \in {"answered", "cancelled"} : Settle(q, verdict) \/ TellQuestion(q, verdict)
    \/ \E p \in Prompts : Return(p)
    \/ Die

Spec == Init /\ [][Next]_vars
=============================================================================
