------------------------------- MODULE Outbox -------------------------------
(***************************************************************************)
(* The n8n outbox (integrations/n8n_client.py) and the receipts that keep  *)
(* the n8n workflow from notifying twice (integrations/n8n_receipts.py).   *)
(*                                                                         *)
(* A request commits an event with its change and then tries to send it    *)
(* itself (the flush); sweepers, in the app or started by hand, send what  *)
(* is left.  Either leases the row, sends without a transaction, and       *)
(* records the outcome only if its token still holds the lease.            *)
(*                                                                         *)
(* Time is abstracted to what the code compares with now: whether a lease  *)
(* lies in the future, and whether a row is past the retention cutoff.     *)
(* The delay until next_attempt_at is the time that may pass before a      *)
(* claim.  The workflow lives outside the repository; it is modelled from  *)
(* the endpoints it calls and the stand-in of test_n8n_receipts.py.        *)
(*                                                                         *)
(* A definition whose comment starts with "Mutant:" is a deliberately      *)
(* wrong form of the one after it; no specification uses it.               *)
(***************************************************************************)
EXTENDS Naturals

CONSTANTS
    Events,        \* an event also stands for the request that queues it
    Sweepers,
    Deliveries,    \* bound: executions of the workflow at one time
    Retention,     \* N8N_FAILURE_RETENTION_DAYS is set
    MaxTries,      \* N8N_MAX_ATTEMPTS: HTTP tries of one dispatch
    MaxAttempts,   \* N8N_OUTBOX_MAX_ATTEMPTS: HTTP tries of one event
    NoOne

ASSUME OutboxAssumption ==
    /\ Retention \in BOOLEAN
    /\ MaxTries \in Nat \ {0}
    /\ MaxAttempts \in Nat \ {0}
    /\ Events \cap Sweepers = {}
    /\ NoOne \notin Events \cup Sweepers

Dispatchers == Events \cup Sweepers

VARIABLES
    row,        \* event -> its n8n_outbox row
    dispatch,   \* dispatcher -> the event it is sending, and how far it is
    purge,      \* the step the purge task is at
    receipt,    \* event -> its n8n_receipts row
    delivery,   \* execution of the workflow -> its event and step
    accepted,   \* the events n8n has answered with 2xx
    notified    \* event -> how many notifications went out, up to two

outboxVars == <<row, dispatch, purge, receipt, delivery, accepted, notified>>

receiverVars == <<receipt, delivery, notified>>

-----------------------------------------------------------------------------
(* Rows.  leased: lease_until lies in the future.  old, quiet: created_at, *)
(* updated_at or claimed_at lies before the retention cutoff.              *)

Row == [status : {"PENDING", "DELIVERED", "PERMANENT", "EXPIRED"}, attempts : Nat,
        holder : Dispatchers \cup {NoOne}, leased : BOOLEAN, redacted : BOOLEAN,
        old : BOOLEAN, quiet : BOOLEAN]

NoRow == [status |-> "NONE"]

NewRow == [status |-> "PENDING", attempts |-> 0, holder |-> NoOne, leased |-> FALSE,
           redacted |-> FALSE, old |-> FALSE, quiet |-> FALSE]

\* Every update sets updated_at.
Update(e, r) == row' = [row EXCEPT ![e] = [r EXCEPT !.quiet = FALSE]]

Unleased(r) == [r EXCEPT !.holder = NoOne, !.leased = FALSE]

Idle == [at |-> "idle"]

Go(d, step) == dispatch' = [dispatch EXCEPT ![d] = step]

Init ==
    /\ row      = [e \in Events |-> NoRow]
    /\ dispatch = [d \in Dispatchers |-> IF d \in Events THEN [at |-> "unqueued"] ELSE Idle]
    /\ purge    = "idle"
    /\ receipt  = [e \in Events |-> NoRow]
    /\ delivery = [u \in Deliveries |-> Idle]
    /\ accepted = {}
    /\ notified = [e \in Events |-> 0]

-----------------------------------------------------------------------------
(* Queueing, leasing and sending.                                          *)

\* queue_event, at the commit of the caller's transaction.
QueueEvent(e) ==
    /\ dispatch[e].at = "unqueued"
    /\ row' = [row EXCEPT ![e] = NewRow]
    /\ Go(e, [at |-> "committed"])
    /\ UNCHANGED <<purge, receiverVars, accepted>>

\* Mutant: an expired lease is not taken over.
ClaimableIfReleased(e) == row[e].status = "PENDING" /\ row[e].holder = NoOne

Claimable(e) == row[e].status = "PENDING" /\ ~row[e].leased

\* _claim: the token is random, so it names this dispatch and no other.
Claim(d, e) ==
    /\ Claimable(e)
    /\ Update(e, [row[e] EXCEPT !.holder = d, !.leased = TRUE])
    /\ Go(d, [at |-> "sending", event |-> e, tries |-> 0])
    /\ UNCHANGED <<purge, receiverVars, accepted>>

FlushClaim(e) == dispatch[e].at = "committed" /\ Claim(e, e)

SweepClaim(d, e) == d \in Sweepers /\ dispatch[d] = Idle /\ Claim(d, e)

\* The flush budget is spent, the row is not claimable, or the process died.
FlushSkips(e) ==
    /\ dispatch[e].at = "committed"
    /\ Go(e, Idle)
    /\ UNCHANGED <<row, purge, receiverVars, accepted>>

Busy(d) == dispatch[d].at \in {"sending", "posting", "settling"}

\* Mutant: whoever has something to record may record it.
HoldsAnything(d) == row[dispatch[d].event] # NoRow

\* The row still carries this dispatch's token.
Holds(d) == row[dispatch[d].event] # NoRow /\ row[dispatch[d].event].holder = d

\* A dispatch starts no try after its deadline, which is short of its lease's end.
InTime(d) == Holds(d) /\ row[dispatch[d].event].leased

Post(d) ==
    /\ dispatch[d].at = "sending"
    /\ InTime(d)
    /\ Go(d, [dispatch[d] EXCEPT !.at = "posting"])
    /\ UNCHANGED <<row, purge, receiverVars, accepted>>

Settle(d, tries, result) ==
    Go(d, [at |-> "settling", event |-> dispatch[d].event, tries |-> tries, result |-> result])

\* One more try has failed: wait and try again, or give up.
TryFailed(d) ==
    LET tries == dispatch[d].tries + 1
    IN  IF tries < MaxTries
        THEN Go(d, [at |-> "sending", event |-> dispatch[d].event, tries |-> tries])
        ELSE Settle(d, tries, "transient")

\* The workflow starts on the event.
Arrive(e) == \E u \in Deliveries :
                 /\ delivery[u] = Idle
                 /\ delivery' = [delivery EXCEPT ![u] = [at |-> "arrived", event |-> e]]

\* The try ends, possibly after its lease: a 2xx answer; an event that arrives while
\* its answer is lost or a 5xx; one that never arrives; a 4xx, which is not retried;
\* an error nobody expected, which ends the dispatch and counts as one try.
Answer(d) ==
    /\ dispatch[d].at = "posting"
    /\ \/ /\ Arrive(dispatch[d].event)
          /\ accepted' = accepted \cup {dispatch[d].event}
          /\ Settle(d, dispatch[d].tries + 1, "ok")
       \/ Arrive(dispatch[d].event) /\ TryFailed(d) /\ UNCHANGED accepted
       \/ TryFailed(d) /\ UNCHANGED <<delivery, accepted>>
       \/ /\ Settle(d, dispatch[d].tries + 1, "permanent")
          /\ UNCHANGED <<delivery, accepted>>
       \/ /\ Arrive(dispatch[d].event) \/ UNCHANGED delivery
          /\ Settle(d, 1, "transient")
          /\ UNCHANGED accepted
    /\ UNCHANGED <<row, purge, receipt, notified>>

\* The budget is spent.  Only a flush may have no time for a first try.
GiveUp(d) ==
    /\ dispatch[d].at = "sending"
    /\ dispatch[d].tries > 0 \/ d \in Events \/ ~InTime(d)
    /\ Settle(d, dispatch[d].tries, "transient")
    /\ UNCHANGED <<row, purge, receiverVars, accepted>>

\* Mutant: off by one.
ExhaustedLate(attempts) == attempts > MaxAttempts

Exhausted(attempts) == attempts >= MaxAttempts

Outcome(r, tries, result) ==
    IF result = "ok" THEN [r EXCEPT !.status = "DELIVERED", !.redacted = TRUE]
    ELSE [r EXCEPT !.attempts = @ + tries,
                   !.status   = IF result = "permanent" \/ Exhausted(r.attempts + tries)
                                THEN "PERMANENT" ELSE "PENDING"]

\* _record_outcome; without the lease nothing is recorded.
RecordOutcome(d) ==
    LET e == dispatch[d].event
    IN  /\ dispatch[d].at = "settling"
        /\ IF Holds(d)
           THEN Update(e, Unleased(Outcome(row[e], dispatch[d].tries, dispatch[d].result)))
           ELSE UNCHANGED row
        /\ Go(d, Idle)
        /\ UNCHANGED <<purge, receiverVars, accepted>>

\* The task is cancelled while it sends: the lease is given back.
CancelSend(d) ==
    /\ dispatch[d].at \in {"sending", "posting"}
    /\ IF Holds(d) THEN Update(dispatch[d].event, Unleased(row[dispatch[d].event]))
       ELSE UNCHANGED row
    /\ Go(d, Idle)
    /\ UNCHANGED <<purge, receiverVars, accepted>>

\* The process dies, or the outcome cannot be written: the lease is left to expire.
Abandon(d) ==
    /\ Busy(d)
    /\ Go(d, Idle)
    /\ UNCHANGED <<row, purge, receiverVars, accepted>>

LeaseExpires(e) ==
    /\ row[e] # NoRow /\ row[e].leased
    /\ row' = [row EXCEPT ![e].leased = FALSE]
    /\ UNCHANGED <<dispatch, purge, receiverVars, accepted>>

-----------------------------------------------------------------------------
(* The operator, and retention.                                            *)

\* Mutant: any settled event may be sent again.
RequeueSettled(e) ==
    /\ row[e].status \in {"PERMANENT", "EXPIRED"}
    /\ Update(e, Unleased([row[e] EXCEPT !.status = "PENDING", !.attempts = 0]))
    /\ UNCHANGED <<dispatch, purge, receiverVars, accepted>>

\* requeue_permanent_event.
Requeue(e) ==
    /\ row[e].status = "PERMANENT"
    /\ ~row[e].redacted
    /\ Update(e, Unleased([row[e] EXCEPT !.status = "PENDING", !.attempts = 0]))
    /\ UNCHANGED <<dispatch, purge, receiverVars, accepted>>

\* Mutant: rows being dispatched are not spared.
RetainedLeased(statuses) == {e \in Events : row[e] # NoRow /\ row[e].status \in statuses}

\* Rows another transaction has locked are skipped, so any of these may be left out.
Retained(statuses) ==
    {e \in Events : row[e] # NoRow /\ row[e].status \in statuses /\ ~row[e].leased}

\* The first loop of purge_outbox.
ExpireOld ==
    /\ Retention /\ purge = "idle"
    /\ \E S \in SUBSET {e \in Retained({"PENDING", "PERMANENT"}) : row[e].old} :
          row' = [e \in Events |->
                     IF e \in S THEN Unleased([row[e] EXCEPT !.status = "EXPIRED",
                                                   !.redacted = TRUE, !.quiet = FALSE])
                     ELSE row[e]]
    /\ purge' = "deleting"
    /\ UNCHANGED <<dispatch, receiverVars, accepted>>

\* The second loop.
DeleteOld ==
    /\ purge = "deleting"
    /\ \E S \in SUBSET {e \in Retained({"DELIVERED", "EXPIRED"}) : row[e].quiet} :
          row' = [e \in Events |-> IF e \in S THEN NoRow ELSE row[e]]
    /\ purge' = "receipts"
    /\ UNCHANGED <<dispatch, receiverVars, accepted>>

\* purge_receipts, which does not look at the outbox.
PurgeReceipts ==
    /\ purge = "receipts"
    /\ receipt' = [e \in Events |-> IF receipt[e] # NoRow /\ receipt[e].old THEN NoRow
                                    ELSE receipt[e]]
    /\ purge' = "idle"
    /\ UNCHANGED <<row, dispatch, delivery, accepted, notified>>

\* Retention is at least a day, and nothing that runs takes that long.
Quiescent(e) == /\ purge = "idle" /\ dispatch[e].at # "committed"
                /\ \A d \in Dispatchers : Busy(d) => dispatch[d].event # e
                /\ \A u \in Deliveries : delivery[u] # Idle => delivery[u].event # e

\* created_at, and then updated_at, pass the cutoff.
GrowOld(e) ==
    /\ Retention /\ row[e] # NoRow /\ Quiescent(e)
    /\ \/ ~row[e].old /\ row' = [row EXCEPT ![e].old = TRUE]
       \/ /\ row[e].old /\ ~row[e].quiet /\ ~row[e].leased
          /\ row' = [row EXCEPT ![e].quiet = TRUE]
    /\ UNCHANGED <<dispatch, purge, receiverVars, accepted>>

\* A receipt is younger than its event.
ReceiptGrowsOld(e) ==
    /\ Retention /\ receipt[e] # NoRow /\ ~receipt[e].old /\ Quiescent(e)
    /\ row[e] # NoRow => row[e].old
    /\ receipt' = [receipt EXCEPT ![e].old = TRUE]
    /\ UNCHANGED <<row, dispatch, purge, delivery, accepted, notified>>

-----------------------------------------------------------------------------
(* The workflow: claim; the winner notifies; then complete, or release     *)
(* after a clean failure.                                                  *)

Step(u, step) == delivery' = [delivery EXCEPT ![u] = step]

At(u, at) == delivery[u] # Idle /\ delivery[u].at = at

\* Mutant: only a notification known to be sent makes a duplicate.
ClaimReceiptUnlessSent(u) ==
    LET e == delivery[u].event
    IN  /\ At(u, "arrived")
        /\ IF receipt[e].status # "SENT"
           THEN /\ receipt' = [receipt EXCEPT ![e] = [status |-> "CLAIMED", old |-> FALSE]]
                /\ Step(u, [at |-> "won", event |-> e])
           ELSE Step(u, Idle) /\ UNCHANGED receipt
        /\ UNCHANGED <<row, dispatch, purge, accepted, notified>>

\* claim: INSERT ... ON CONFLICT DO NOTHING; a duplicate ends there.
ClaimReceipt(u) ==
    LET e == delivery[u].event
    IN  /\ At(u, "arrived")
        /\ IF receipt[e] = NoRow
           THEN /\ receipt' = [receipt EXCEPT ![e] = [status |-> "CLAIMED", old |-> FALSE]]
                /\ Step(u, [at |-> "won", event |-> e])
           ELSE Step(u, Idle) /\ UNCHANGED receipt
        /\ UNCHANGED <<row, dispatch, purge, accepted, notified>>

\* The notifications are counted up to two.
Notify(u) ==
    /\ At(u, "won")
    /\ notified' = [notified EXCEPT ![delivery[u].event] = IF @ = 0 THEN 1 ELSE 2]
    /\ Step(u, [delivery[u] EXCEPT !.at = "sent"])
    /\ UNCHANGED <<row, dispatch, purge, receipt, accepted>>

\* complete: CLAIMED becomes SENT.
CompleteReceipt(u) ==
    LET e == delivery[u].event
    IN  /\ At(u, "sent")
        /\ receipt' = [receipt EXCEPT ![e] = IF @.status = "CLAIMED"
                                             THEN [@ EXCEPT !.status = "SENT"] ELSE @]
        /\ Step(u, Idle)
        /\ UNCHANGED <<row, dispatch, purge, accepted, notified>>

\* release after a clean failure: CLAIMED is deleted.
ReleaseReceipt(u) ==
    LET e == delivery[u].event
    IN  /\ At(u, "won")
        /\ receipt' = [receipt EXCEPT ![e] = IF @.status = "CLAIMED" THEN NoRow ELSE @]
        /\ Step(u, Idle)
        /\ UNCHANGED <<row, dispatch, purge, accepted, notified>>

DeliveryDies(u) ==
    /\ delivery[u] # Idle
    /\ Step(u, Idle)
    /\ UNCHANGED <<row, dispatch, purge, receipt, accepted, notified>>

-----------------------------------------------------------------------------
Next ==
    \/ \E e \in Events : \/ QueueEvent(e) \/ FlushClaim(e) \/ FlushSkips(e)
                         \/ LeaseExpires(e) \/ Requeue(e)
                         \/ GrowOld(e) \/ ReceiptGrowsOld(e)
    \/ \E d \in Dispatchers : \/ \E e \in Events : SweepClaim(d, e)
                              \/ Post(d) \/ Answer(d) \/ GiveUp(d) \/ RecordOutcome(d)
                              \/ CancelSend(d) \/ Abandon(d)
    \/ ExpireOld \/ DeleteOld \/ PurgeReceipts
    \/ \E u \in Deliveries : \/ ClaimReceipt(u) \/ Notify(u) \/ CompleteReceipt(u)
                             \/ ReleaseReceipt(u) \/ DeliveryDies(u)

Spec == Init /\ [][Next]_outboxVars

\* A sweeper takes the event that is due longest; what runs goes on running.
Fairness ==
    /\ \A e \in Events : /\ SF_outboxVars(\E d \in Sweepers : SweepClaim(d, e))
                         /\ WF_outboxVars(LeaseExpires(e))
    /\ \A d \in Dispatchers : WF_outboxVars(Post(d) \/ Answer(d) \/ GiveUp(d) \/ RecordOutcome(d))

FairSpec == Spec /\ Fairness

-----------------------------------------------------------------------------
(* Properties.                                                             *)

Sending == [at : {"sending", "posting"}, event : Events, tries : 0..MaxTries - 1]
Settling == [at : {"settling"}, event : Events, tries : 0..MaxTries,
             result : {"ok", "transient", "permanent"}]

\* Rows, dispatches and receipts have the shape the code gives them; an event that is
\* still to be sent has tries left, across all its dispatches (n8n_client.py:466).
OutboxTypeOK ==
    /\ row \in [Events -> Row \cup {NoRow}]
    /\ \A e \in Events : row[e].status = "PENDING" => row[e].attempts < MaxAttempts
    /\ dispatch \in [Dispatchers -> {Idle, [at |-> "unqueued"], [at |-> "committed"]}
                                    \cup Sending \cup Settling]
    /\ purge \in {"idle", "deleting", "receipts"}
    /\ receipt \in [Events -> [status : {"CLAIMED", "SENT"}, old : BOOLEAN] \cup {NoRow}]
    /\ delivery \in [Deliveries -> {Idle} \cup [at : {"arrived", "won", "sent"}, event : Events]]
    /\ accepted \subseteq Events
    /\ notified \in [Events -> 0..2]

Standing(e) == IF row[e] # NoRow THEN row[e].status
               ELSE IF dispatch[e].at = "unqueued" THEN "UNQUEUED" ELSE "DELETED"

Promise == INSTANCE Notification WITH state <- [e \in Events |-> Standing(e)]

\* With leases lost, outcomes unrecorded and rows purged in between, an event is
\* DELIVERED only if n8n accepted it, and what is settled is never undone by a
\* dispatcher that comes back late.
KeepsPromise == Promise!Spec

\* While a lease lasts, nobody but its holder changes where the row stands or who
\* holds it: concurrent flushes, sweeps and purges leave it alone.
LeaseIsRespected ==
    [][\A e \in Events : row[e] # NoRow /\ row[e].leased =>
         \/ row'[e] # NoRow /\ row'[e].status = row[e].status /\ row'[e].holder = row[e].holder
         \/ dispatch'[row[e].holder] # dispatch[row[e].holder]]_outboxVars

\* An event that can be sent, now or after an operator's requeue, still has the whole
\* payload; a row that lost its personal fields is never sent again.
SendableIsComplete ==
    \A e \in Events : row[e].status \in {"PENDING", "PERMANENT"} => ~row[e].redacted

\* However often an event is sent, the customer is notified once.
NotifiedOnce == \A e \in Events : notified[e] <= 1

Disturbance ==
    \/ \E d \in Dispatchers : CancelSend(d) \/ Abandon(d)
    \/ \E e \in Events : LeaseExpires(e) /\ \E d \in Dispatchers : Busy(d) /\ dispatch[d].event = e

\* Once dispatchers are no longer interrupted and no longer outlive their leases, every
\* pending event is settled, whatever happened to the dispatches before.
PendingEnds ==
    <>[][~Disturbance]_outboxVars =>
        \A e \in Events : row[e].status = "PENDING" ~> row[e].status # "PENDING"

=============================================================================
