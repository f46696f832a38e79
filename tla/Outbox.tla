------------------------------- MODULE Outbox -------------------------------
(***************************************************************************)
(* What the outgoing path promises the user who sent a message: once the   *)
(* node has taken a message over it stays pending until it ends as         *)
(* delivered or failed, exactly once; an ended message is only ever        *)
(* dropped, to make room; and no message is called delivered that never    *)
(* was on the air.  TxScheduler implements it, across power losses.        *)
(***************************************************************************)
CONSTANTS Ids

VARIABLES
    mail,   \* what became of each message
    heard   \* messages that have been on the air

outboxVars == <<mail, heard>>

OutboxInit ==
    /\ mail = [id \in Ids |-> "new"]
    /\ heard = {}

Take(id) ==
    /\ mail[id] = "new"
    /\ mail' = [mail EXCEPT ![id] = "pending"]
    /\ UNCHANGED heard

Deliver(id) ==
    /\ mail[id] = "pending"
    /\ id \in heard
    /\ mail' = [mail EXCEPT ![id] = "delivered"]
    /\ UNCHANGED heard

GiveUp(id) ==
    /\ mail[id] = "pending"
    /\ mail' = [mail EXCEPT ![id] = "failed"]
    /\ UNCHANGED heard

Drop(id) ==
    /\ mail[id] \in {"delivered", "failed"}
    /\ mail' = [mail EXCEPT ![id] = "dropped"]
    /\ UNCHANGED heard

\* The copy in the radio's queue may go out when the message has already
\* ended, or was dropped.
GoOnAir(id) ==
    /\ mail[id] # "new"
    /\ heard' = heard \cup {id}
    /\ UNCHANGED mail

Settle(id) == Deliver(id) \/ GiveUp(id)

OutboxNext == \E id \in Ids : Take(id) \/ Settle(id) \/ Drop(id) \/ GoOnAir(id)

OutboxSafety == OutboxInit /\ [][OutboxNext]_outboxVars

OutboxSpec == OutboxSafety /\ \A id \in Ids : WF_outboxVars(Settle(id))
=============================================================================
