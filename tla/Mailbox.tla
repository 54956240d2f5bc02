------------------------------ MODULE Mailbox ------------------------------
(***************************************************************************)
(* What the delivery queue promises its callers: a mailbox per destination.*)
(* A job is accepted into its destination's mailbox while the queue is     *)
(* open; jobs of one destination are handled one at a time, in the order   *)
(* they were accepted, each exactly once, also after the queue was closed. *)
(* Destinations do not wait for one another.                               *)
(***************************************************************************)
EXTENDS Sequences

CONSTANTS Targets, Job

VARIABLES
    inbox,    \* accepted and not handled, per destination
    handled,  \* handled, per destination
    open      \* the queue still accepts

mailVars == <<inbox, handled, open>>

Init ==
    /\ inbox = [t \in Targets |-> <<>>]
    /\ handled = [t \in Targets |-> <<>>]
    /\ open = TRUE

Accept(j) ==
    /\ open
    /\ inbox' = [inbox EXCEPT ![j.to] = Append(@, j)]
    /\ UNCHANGED <<handled, open>>

Handle(t) ==
    /\ inbox[t] # <<>>
    /\ handled' = [handled EXCEPT ![t] = Append(@, Head(inbox[t]))]
    /\ inbox' = [inbox EXCEPT ![t] = Tail(@)]
    /\ UNCHANGED open

Close ==
    /\ open
    /\ open' = FALSE
    /\ UNCHANGED <<inbox, handled>>

Next ==
    \/ \E j \in Job : Accept(j)
    \/ \E t \in Targets : Handle(t)
    \/ Close

Spec ==
    /\ Init
    /\ [][Next]_mailVars
    /\ \A t \in Targets : WF_mailVars(Handle(t))
=============================================================================
