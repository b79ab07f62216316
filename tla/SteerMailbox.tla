---------------------------- MODULE SteerMailbox ----------------------------
(***************************************************************************)
(* What mid-run steering promises, without the loop that implements it     *)
(* (agent_loop_service.rs: push_steer, drain_steers, finish_or_steer,      *)
(* cancel_run and the end of run_agent_turn).                              *)
(*                                                                         *)
(* Every chat has a mailbox.  A message is accepted only while the mailbox *)
(* is open and is refused only while it is closed.  A reader takes the     *)
(* whole queue at once, in the order of acceptance.  A mailbox that closes *)
(* leaves nothing queued: what nobody read is discarded at that moment and *)
(* is never shown to a later reader.                                       *)
(***************************************************************************)
EXTENDS Naturals, Sequences

CONSTANTS Chats,     \* chat sessions
          Readers,   \* agent runs
          Messages   \* steering messages

VARIABLES open,      \* the chats for which some run is registered
          queue,     \* queue[c]: accepted messages nobody has read yet
          outcome,   \* outcome[m]: what became of message m
          inbox      \* inbox[r]: the messages run r has read, in order

vars == <<open, queue, outcome, inbox>>

Outcomes == {"unsent", "queued", "read", "refused", "discarded"}

\* The messages waiting in the mailbox of c.
Queued(c) == {queue[c][i] : i \in 1..Len(queue[c])}

\* Every message queued for c gets the outcome o, the others keep theirs.
Settle(c, o) ==
    outcome' = [m \in Messages |-> IF m \in Queued(c) THEN o ELSE outcome[m]]

Init ==
    /\ open = {}
    /\ queue = [c \in Chats |-> <<>>]
    /\ outcome = [m \in Messages |-> "unsent"]
    /\ inbox = [r \in Readers |-> <<>>]

Open(c) ==
    /\ c \notin open
    /\ open' = open \cup {c}
    /\ UNCHANGED <<queue, outcome, inbox>>

Accept(m, c) ==
    /\ c \in open
    /\ outcome[m] = "unsent"
    /\ outcome' = [outcome EXCEPT ![m] = "queued"]
    /\ queue' = [queue EXCEPT ![c] = Append(@, m)]
    /\ UNCHANGED <<open, inbox>>

Refuse(m, c) ==
    /\ c \notin open
    /\ outcome[m] = "unsent"
    /\ outcome' = [outcome EXCEPT ![m] = "refused"]
    /\ UNCHANGED <<open, queue, inbox>>

Read(r, c) ==
    /\ queue[c] # <<>>
    /\ inbox' = [inbox EXCEPT ![r] = @ \o queue[c]]
    /\ Settle(c, "read")
    /\ queue' = [queue EXCEPT ![c] = <<>>]
    /\ UNCHANGED open

Discard(c) ==
    /\ queue[c] # <<>>
    /\ Settle(c, "discarded")
    /\ queue' = [queue EXCEPT ![c] = <<>>]
    /\ UNCHANGED <<open, inbox>>

Close(c) ==
    /\ c \in open
    /\ open' = open \ {c}
    /\ Settle(c, "discarded")
    /\ queue' = [queue EXCEPT ![c] = <<>>]
    /\ UNCHANGED inbox

Next ==
    \E c \in Chats :
        \/ Open(c) \/ Discard(c) \/ Close(c)
        \/ \E m \in Messages : Accept(m, c) \/ Refuse(m, c)
        \/ \E r \in Readers : Read(r, c)

Spec == Init /\ [][Next]_vars
=============================================================================
