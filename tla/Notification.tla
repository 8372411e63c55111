---------------------------- MODULE Notification ----------------------------
(***************************************************************************)
(* What the n8n outbox promises about the notification of a committed      *)
(* change, whatever dispatchers, crashes and retries do behind it.  An     *)
(* event is pending until n8n accepts it, an operator has to look at it,   *)
(* or it is too old.  A settled event stays settled; only an operator      *)
(* makes a rejected one pending again.                                     *)
(***************************************************************************)
CONSTANT Events

VARIABLES
    state,     \* event -> where it stands
    accepted   \* the events n8n has answered with success

notificationVars == <<state, accepted>>

State == {"UNQUEUED", "PENDING", "DELIVERED", "PERMANENT", "EXPIRED", "DELETED"}

Move(e, from, to) == /\ state[e] = from
                     /\ state' = [state EXCEPT ![e] = to]
                     /\ UNCHANGED accepted

\* An answer may come late, even after the event is settled.
Accept(e) == /\ state[e] # "UNQUEUED"
             /\ accepted' = accepted \cup {e}
             /\ UNCHANGED state

Queue(e)   == Move(e, "UNQUEUED", "PENDING")
Deliver(e) == e \in accepted /\ Move(e, "PENDING", "DELIVERED")
Fail(e)    == Move(e, "PENDING", "PERMANENT")
Requeue(e) == Move(e, "PERMANENT", "PENDING")

\* Retention applies to many events at once.
Retain(from, to) == \E S \in SUBSET {e \in Events : state[e] \in from} :
                       /\ state' = [e \in Events |-> IF e \in S THEN to ELSE state[e]]
                       /\ UNCHANGED accepted

Init == state = [e \in Events |-> "UNQUEUED"] /\ accepted = {}

Next == \/ \E e \in Events : \/ Accept(e) \/ Queue(e) \/ Deliver(e)
                             \/ Fail(e) \/ Requeue(e)
        \/ Retain({"PENDING", "PERMANENT"}, "EXPIRED")
        \/ Retain({"DELIVERED", "EXPIRED"}, "DELETED")

Spec == Init /\ [][Next]_notificationVars

=============================================================================
