---------------------------- MODULE Outbox_proofs ----------------------------
(***************************************************************************)
(* Proofs about Outbox for any number of events, sweepers and executions   *)
(* of the workflow, and any bounds on the tries: type correctness and the  *)
(* cap on tries, that a sendable event keeps its payload, that a lease is  *)
(* respected, that the outbox implements Notification, and, while nothing  *)
(* is purged, that a customer is notified once.                            *)
(***************************************************************************)
EXTENDS Outbox, TLAPS

-----------------------------------------------------------------------------
(* Rows.  Everything the invariant says of a row it says of the row alone. *)

\* A row that is pending has tries left; only a pending row has a holder, and only a
\* held row is leased; the personal fields leave only a row that is settled for good.
GoodRow(r) ==
    \/ r = NoRow
    \/ /\ r \in Row
       /\ r.status = "PENDING" => r.attempts < MaxAttempts
       /\ r.leased => r.holder # NoOne
       /\ r.holder # NoOne => r.status = "PENDING"
       /\ r.status \in {"PENDING", "PERMANENT"} => ~r.redacted

LEMMA GoodRowOfStatus ==
    ASSUME NEW r, GoodRow(r), r.status # "NONE"
    PROVE  r \in Row /\ r # NoRow
  BY DEF GoodRow, NoRow

\* queue_event inserts a row with all its tries left and no holder.
LEMMA NewRowIsGood ==
    GoodRow(NewRow) /\ NewRow # NoRow
  BY OutboxAssumption DEF GoodRow, NewRow, NoRow, Row

\* _claim.
LEMMA ClaimedRowIsGood ==
    ASSUME NEW r, GoodRow(r), r.status = "PENDING", NEW d \in Dispatchers
    PROVE  /\ GoodRow([[r EXCEPT !.holder = d, !.leased = TRUE] EXCEPT !.quiet = FALSE])
           /\ [[r EXCEPT !.holder = d, !.leased = TRUE] EXCEPT !.quiet = FALSE].status = r.status
           /\ [[r EXCEPT !.holder = d, !.leased = TRUE] EXCEPT !.quiet = FALSE] # NoRow
  <1>1. r \in Row
    BY GoodRowOfStatus
  <1>2. d # NoOne
    BY OutboxAssumption DEF Dispatchers
  <1> QED  BY <1>1, <1>2 DEF GoodRow, Row, NoRow

\* A lease that is given back.
LEMMA ReturnedRowIsGood ==
    ASSUME NEW r, GoodRow(r), r # NoRow
    PROVE  /\ GoodRow([Unleased(r) EXCEPT !.quiet = FALSE])
           /\ [Unleased(r) EXCEPT !.quiet = FALSE].status = r.status
           /\ [Unleased(r) EXCEPT !.quiet = FALSE] # NoRow
  BY DEF GoodRow, Row, NoRow, Unleased

Recorded(r, tries, result) == [Unleased(Outcome(r, tries, result)) EXCEPT !.quiet = FALSE]

\* _record_outcome on the row of a pending event: it stays pending only with tries
\* left, is delivered only if n8n answered, and loses its personal fields only then.
LEMMA OutcomeIsGood ==
    ASSUME NEW r, GoodRow(r), r.status = "PENDING", NEW tries \in Nat,
           NEW result \in {"ok", "transient", "permanent"}
    PROVE  /\ GoodRow(Recorded(r, tries, result)) /\ Recorded(r, tries, result) # NoRow
           /\ result = "ok" => Recorded(r, tries, result).status = "DELIVERED"
           /\ result # "ok" => Recorded(r, tries, result).status \in {"PENDING", "PERMANENT"}
  <1>1. r \in Row /\ ~r.redacted /\ r.attempts + tries \in Nat
    BY GoodRowOfStatus DEF GoodRow, Row, NoRow
  <1>2. CASE result = "ok"
    BY <1>1, <1>2 DEF Recorded, Outcome, Unleased, GoodRow, Row, NoRow
  <1>3. CASE result # "ok"
    <2> DEFINE status == IF result = "permanent" \/ Exhausted(r.attempts + tries)
                         THEN "PERMANENT" ELSE "PENDING"
    <2>1. status = "PENDING" => r.attempts + tries < MaxAttempts
      BY <1>1, OutboxAssumption DEF Exhausted
    <2>2. Outcome(r, tries, result) =
            [r EXCEPT !.attempts = r.attempts + tries, !.status = status]
      BY <1>3 DEF Outcome
    <2>3. status \in {"PENDING", "PERMANENT"}
      OBVIOUS
    <2> HIDE DEF status
    <2> QED  BY <1>1, <1>3, <2>1, <2>2, <2>3 DEF Recorded, Unleased, GoodRow, Row, NoRow
  <1> QED  BY <1>2, <1>3

\* requeue_permanent_event.
LEMMA RequeuedRowIsGood ==
    ASSUME NEW r, GoodRow(r), r.status = "PERMANENT"
    PROVE  LET after == [Unleased([r EXCEPT !.status = "PENDING", !.attempts = 0])
                            EXCEPT !.quiet = FALSE]
           IN  GoodRow(after) /\ after # NoRow /\ after.status = "PENDING"
  <1> DEFINE pending == [r EXCEPT !.status = "PENDING", !.attempts = 0]
  <1>1. r \in Row /\ ~r.redacted
    BY GoodRowOfStatus DEF GoodRow, NoRow
  <1>2. pending \in Row /\ pending.status = "PENDING" /\ pending.attempts = 0 /\ ~pending.redacted
    BY <1>1 DEF Row
  <1>3. 0 < MaxAttempts
    BY OutboxAssumption
  <1> HIDE DEF pending
  <1>4. GoodRow([Unleased(pending) EXCEPT !.quiet = FALSE])
    BY <1>2, <1>3 DEF Unleased, GoodRow, Row
  <1>5. /\ [Unleased(pending) EXCEPT !.quiet = FALSE] # NoRow
        /\ [Unleased(pending) EXCEPT !.quiet = FALSE].status = "PENDING"
    BY <1>2 DEF Unleased, Row, NoRow
  <1> QED  BY <1>4, <1>5 DEF pending

\* The first loop of purge_outbox.
LEMMA ExpiredRowIsGood ==
    ASSUME NEW r, GoodRow(r), r # NoRow
    PROVE  LET after == Unleased([r EXCEPT !.status = "EXPIRED", !.redacted = TRUE,
                                           !.quiet = FALSE])
           IN  GoodRow(after) /\ after # NoRow /\ after.status = "EXPIRED"
  BY DEF Unleased, GoodRow, Row, NoRow

\* What time alone changes of a row.
LEMMA AgedRowIsGood ==
    ASSUME NEW r, GoodRow(r), r # NoRow
    PROVE  /\ GoodRow([r EXCEPT !.leased = FALSE])
           /\ GoodRow([r EXCEPT !.old = TRUE])
           /\ GoodRow([r EXCEPT !.quiet = TRUE])
  BY DEF GoodRow, Row, NoRow

-----------------------------------------------------------------------------
(* The inductive invariant.                                                *)

Dispatch == {Idle, [at |-> "unqueued"], [at |-> "committed"]} \cup Sending \cup Settling

RowsAreGood == row \in [Events -> Row \cup {NoRow}] /\ \A e \in Events : GoodRow(row[e])

\* Nothing is sent, and nothing has been settled, before the event is committed.
QueuedFirst ==
    \A e \in Events : dispatch[e].at = "unqueued" =>
        /\ row[e] = NoRow
        /\ \A d \in Dispatchers : Busy(d) => dispatch[d].event # e

\* A dispatch that is about to record a delivery has its answer from n8n.
OkIsAccepted ==
    \A d \in Dispatchers : dispatch[d].at = "settling" /\ dispatch[d].result = "ok"
                             => dispatch[d].event \in accepted

OutboxInvariant ==
    /\ RowsAreGood
    /\ dispatch \in [Dispatchers -> Dispatch]
    /\ purge \in {"idle", "deleting", "receipts"}
    /\ receipt \in [Events -> [status : {"CLAIMED", "SENT"}, old : BOOLEAN] \cup {NoRow}]
    /\ delivery \in [Deliveries -> {Idle} \cup [at : {"arrived", "won", "sent"}, event : Events]]
    /\ accepted \subseteq Events
    /\ notified \in [Events -> 0..2]
    /\ QueuedFirst
    /\ OkIsAccepted

\* The invariant contains the type invariant and the completeness of what can be sent.
LEMMA InvariantImplies ==
    ASSUME OutboxInvariant
    PROVE  OutboxTypeOK /\ SendableIsComplete
  <1>1. \A e \in Events : row[e].status = "PENDING" => row[e].attempts < MaxAttempts
    BY GoodRowOfStatus DEF OutboxInvariant, RowsAreGood, GoodRow, NoRow
  <1>2. SendableIsComplete
    BY DEF OutboxInvariant, RowsAreGood, GoodRow, NoRow, SendableIsComplete
  <1> QED  BY <1>1, <1>2 DEF OutboxInvariant, RowsAreGood, OutboxTypeOK, Dispatch

LEMMA OutboxInit ==
    Init => OutboxInvariant
  <1> SUFFICES ASSUME Init PROVE OutboxInvariant
    OBVIOUS
  <1>1. \A d \in Dispatchers : dispatch[d] \in {Idle, [at |-> "unqueued"]}
    BY DEF Init
  <1>2. dispatch \in [Dispatchers -> Dispatch] /\ \A d \in Dispatchers : ~Busy(d)
    <2>1. dispatch = [d \in Dispatchers |-> dispatch[d]]
      BY DEF Init
    <2> QED  BY <1>1, <2>1 DEF Dispatch, Idle, Busy
  <1>3. RowsAreGood
    BY DEF Init, RowsAreGood, GoodRow
  <1>4. QueuedFirst /\ OkIsAccepted
    BY <1>2 DEF Init, QueuedFirst, OkIsAccepted, Busy
  <1> QED  BY <1>2, <1>3, <1>4 DEF Init, OutboxInvariant

-----------------------------------------------------------------------------
(* What a step may do, in the terms the proofs need: each kind of step     *)
(* keeps the invariant, and every action is a step of one kind.            *)

\* A dispatch moves on to a step that is well formed, for an event that is queued, and
\* with an answer if it claims one.
GoodDispatch(d, step) ==
    /\ step \in Dispatch
    /\ step.at # "unqueued"
    /\ step.at \in {"sending", "posting", "settling"} => dispatch[step.event].at # "unqueued"
    /\ step.at = "settling" /\ step.result = "ok" => step.event \in accepted'

LEMMA DispatchStep ==
    ASSUME OutboxInvariant, NEW d \in Dispatchers, NEW step,
           GoodDispatch(d, step), Go(d, step), accepted \subseteq accepted',
           \A e \in Events \ {d} :
               row[e] = NoRow /\ dispatch[e].at = "unqueued" => row'[e] = NoRow
    PROVE  dispatch' \in [Dispatchers -> Dispatch] /\ QueuedFirst' /\ OkIsAccepted'
  <1>1. dispatch \in [Dispatchers -> Dispatch]
    BY DEF OutboxInvariant
  <1>2. dispatch' \in [Dispatchers -> Dispatch]
    BY <1>1 DEF Go, GoodDispatch
  <1>3. QueuedFirst'
    <2> SUFFICES ASSUME NEW e \in Events, dispatch'[e].at = "unqueued"
                 PROVE  /\ row'[e] = NoRow
                        /\ \A c \in Dispatchers : Busy(c)' => dispatch'[c].event # e
      BY DEF QueuedFirst
    <2>1. e # d /\ dispatch[e].at = "unqueued"
      BY <1>1 DEF Go, GoodDispatch, Dispatchers
    <2>2. row[e] = NoRow /\ \A c \in Dispatchers : Busy(c) => dispatch[c].event # e
      BY <2>1 DEF OutboxInvariant, QueuedFirst
    <2>3. ASSUME NEW c \in Dispatchers, Busy(c)'
          PROVE  dispatch'[c].event # e
      <3>1. CASE c = d
        BY <3>1, <2>1, <2>3, <1>1 DEF Go, GoodDispatch, Busy
      <3>2. CASE c # d
        BY <3>2, <2>2, <2>3, <1>1 DEF Go, Busy
      <3> QED  BY <3>1, <3>2
    <2> QED  BY <2>1, <2>2, <2>3
  <1>4. OkIsAccepted'
    <2> SUFFICES ASSUME NEW c \in Dispatchers,
                        dispatch'[c].at = "settling", dispatch'[c].result = "ok"
                 PROVE  dispatch'[c].event \in accepted'
      BY DEF OkIsAccepted
    <2>1. CASE c = d
      BY <2>1, <1>1 DEF Go, GoodDispatch
    <2>2. CASE c # d
      BY <2>2, <1>1 DEF Go, OutboxInvariant, OkIsAccepted
    <2> QED  BY <2>1, <2>2
  <1> QED  BY <1>2, <1>3, <1>4

\* Idle is where every dispatch ends.
LEMMA IdleIsGood ==
    ASSUME NEW d
    PROVE  GoodDispatch(d, Idle)
  BY DEF GoodDispatch, Dispatch, Idle

\* What a dispatch that is under way works on.
LEMMA BusyDispatch ==
    ASSUME OutboxInvariant, NEW d \in Dispatchers
    PROVE  /\ dispatch[d].at \in {"sending", "posting"} => dispatch[d] \in Sending
           /\ dispatch[d].at = "settling" => dispatch[d] \in Settling
           /\ Busy(d) => /\ dispatch[d].event \in Events
                         /\ dispatch[d].tries \in Nat
                         /\ dispatch[dispatch[d].event].at # "unqueued"
  <1>1. dispatch[d] \in Dispatch
    BY DEF OutboxInvariant
  <1>2. /\ dispatch[d].at \in {"sending", "posting"} => dispatch[d] \in Sending
        /\ dispatch[d].at = "settling" => dispatch[d] \in Settling
    BY <1>1 DEF Dispatch, Idle, Sending, Settling
  <1>3. Busy(d) => dispatch[d].event \in Events /\ dispatch[d].tries \in Nat
    BY <1>2, OutboxAssumption DEF Busy, Sending, Settling
  <1>4. Busy(d) => dispatch[dispatch[d].event].at # "unqueued"
    BY <1>3 DEF OutboxInvariant, QueuedFirst
  <1> QED  BY <1>2, <1>3, <1>4

\* A step that writes one row at most, and leaves a good one.
LEMMA RowStep ==
    ASSUME RowsAreGood, NEW e \in Events, NEW r, GoodRow(r), row' = [row EXCEPT ![e] = r]
    PROVE  RowsAreGood'
  <1>1. r \in Row \cup {NoRow}
    BY DEF GoodRow
  <1> QED  BY <1>1 DEF RowsAreGood

\* Where the events stand, as Notification sees it.
Stands == [e \in Events |-> Standing(e)]

\* The step that LeaseIsRespected allows.
LeaseStep ==
    \A e \in Events : row[e] # NoRow /\ row[e].leased =>
         \/ row'[e] # NoRow /\ row'[e].status = row[e].status /\ row'[e].holder = row[e].holder
         \/ dispatch'[row[e].holder] # dispatch[row[e].holder]

\* What is proved of every action: it keeps the invariant, it is a step of Notification
\* or none, and it leaves leased rows to their holders.
StepIsSafe ==
    /\ OutboxInvariant'
    /\ [Promise!Next]_<<Stands, accepted>>
    /\ LeaseStep

SameQueued ==
    \A e \in Events : dispatch'[e].at = "unqueued" <=> dispatch[e].at = "unqueued"

\* A step that changes the rows without moving an event changes nothing for Notification.
LEMMA StandsStill ==
    ASSUME SameQueued,
           \A e \in Events : /\ row'[e] = NoRow <=> row[e] = NoRow
                             /\ row'[e].status = row[e].status
    PROVE  Stands' = Stands
  <1>1. \A e \in Events : Standing(e)' = Standing(e)
    BY DEF Standing, SameQueued
  <1> QED  BY <1>1 DEF Stands

\* A step that moves one event.
LEMMA StandsMoved ==
    ASSUME SameQueued, row \in [Events -> Row \cup {NoRow}], NEW e \in Events, NEW r,
           r # NoRow, row' = [row EXCEPT ![e] = r]
    PROVE  Stands' = [Stands EXCEPT ![e] = r.status]
  <1>1. Standing(e)' = r.status
    BY DEF Standing
  <1>2. \A f \in Events \ {e} : Standing(f)' = Standing(f)
    BY DEF Standing, SameQueued
  <1> QED  BY <1>1, <1>2 DEF Stands

LEMMA QueueEventStep ==
    ASSUME OutboxInvariant, NEW e \in Events, QueueEvent(e)
    PROVE  StepIsSafe
  <1> DEFINE step == [at |-> "committed"]
  <1>1. row[e] = NoRow /\ dispatch[e].at = "unqueued"
    BY DEF OutboxInvariant, QueuedFirst, QueueEvent
  <1>2. GoodDispatch(e, step) /\ e \in Dispatchers
    BY DEF GoodDispatch, Dispatch, Dispatchers
  <1>3. RowsAreGood'
    BY NewRowIsGood, RowStep DEF OutboxInvariant, QueueEvent
  <1>4. dispatch \in [Dispatchers -> Dispatch] /\ row \in [Events -> Row \cup {NoRow}]
    BY DEF OutboxInvariant, RowsAreGood
  <1>5. dispatch' = [dispatch EXCEPT ![e] = step] /\ row' = [row EXCEPT ![e] = NewRow]
    BY DEF QueueEvent, Go
  <1>6. dispatch' \in [Dispatchers -> Dispatch] /\ QueuedFirst' /\ OkIsAccepted'
    BY <1>2, <1>4, <1>5, DispatchStep DEF QueueEvent
  <1>7. OutboxInvariant'
    BY <1>3, <1>6 DEF OutboxInvariant, QueueEvent, receiverVars
  <1>8. Promise!Queue(e)
    <2>1. Stands[e] = "UNQUEUED"
      BY <1>1 DEF Stands, Standing
    <2>2. Standing(e)' = "PENDING"
      BY <1>4, <1>5, NewRowIsGood DEF Standing, NewRow
    <2>3. \A f \in Events \ {e} : Standing(f)' = Standing(f)
      BY <1>2, <1>4, <1>5 DEF Standing
    <2>4. Stands' = [Stands EXCEPT ![e] = "PENDING"]
      BY <2>2, <2>3 DEF Stands
    <2> QED  BY <2>1, <2>4 DEF Promise!Queue, Promise!Move, Stands, QueueEvent
  <1>9. LeaseStep
    BY <1>1, <1>4, <1>5 DEF LeaseStep
  <1> QED  BY <1>7, <1>8, <1>9 DEF StepIsSafe, Promise!Next

\* A step of a dispatch leaves everything queued that was.
LEMMA GoKeepsQueued ==
    ASSUME OutboxInvariant, NEW d \in Dispatchers, NEW step,
           dispatch[d].at # "unqueued", step.at # "unqueued", Go(d, step)
    PROVE  SameQueued
  BY DEF SameQueued, Go, OutboxInvariant, Dispatchers

\* A dispatch that moves on and touches no row: at most it learns that n8n accepted.
LEMMA SendStep ==
    ASSUME OutboxInvariant, NEW d \in Dispatchers, NEW step, dispatch[d].at # "unqueued",
           GoodDispatch(d, step), Go(d, step), UNCHANGED <<row, purge, receipt, notified>>,
           delivery' \in [Deliveries -> {Idle} \cup
                                        [at : {"arrived", "won", "sent"}, event : Events]],
           \/ accepted' = accepted
           \/ Busy(d) /\ accepted' = accepted \cup {dispatch[d].event}
    PROVE  StepIsSafe
  <1>1. accepted \subseteq accepted' /\ accepted' \subseteq Events
    BY BusyDispatch DEF OutboxInvariant
  <1>2. dispatch' \in [Dispatchers -> Dispatch] /\ QueuedFirst' /\ OkIsAccepted'
    BY <1>1, DispatchStep
  <1>3. OutboxInvariant'
    BY <1>1, <1>2 DEF OutboxInvariant, RowsAreGood
  <1>4. Stands' = Stands
    BY GoKeepsQueued, StandsStill DEF GoodDispatch
  <1>5. [Promise!Next]_<<Stands, accepted>>
    <2>1. CASE accepted' = accepted
      BY <2>1, <1>4
    <2>2. CASE Busy(d) /\ accepted' = accepted \cup {dispatch[d].event}
      <3> DEFINE e == dispatch[d].event
      <3>1. e \in Events /\ dispatch[e].at # "unqueued"
        BY <2>2, BusyDispatch
      <3>2. Stands[e] # "UNQUEUED"
        BY <3>1 DEF Stands, Standing, OutboxInvariant, RowsAreGood, Row
      <3>3. Promise!Accept(e)
        BY <2>2, <3>2, <1>4 DEF Promise!Accept, Stands
      <3> QED  BY <3>1, <3>3 DEF Promise!Next
    <2> QED  BY <2>1, <2>2
  <1>6. LeaseStep
    BY DEF LeaseStep
  <1> QED  BY <1>3, <1>5, <1>6 DEF StepIsSafe

\* A step that changes one row and leaves its event where it stood.
LEMMA RowStaysStep ==
    ASSUME OutboxInvariant, NEW e \in Events, NEW r, GoodRow(r), r # NoRow, row[e] # NoRow,
           r.status = row[e].status, row' = [row EXCEPT ![e] = r],
           \/ ~row[e].leased
           \/ r.holder = row[e].holder
           \/ dispatch'[row[e].holder] # dispatch[row[e].holder],
           dispatch' \in [Dispatchers -> Dispatch], QueuedFirst', OkIsAccepted', SameQueued,
           UNCHANGED <<purge, receiverVars, accepted>>
    PROVE  StepIsSafe
  <1>1. RowsAreGood /\ row \in [Events -> Row \cup {NoRow}]
    BY DEF OutboxInvariant, RowsAreGood
  <1>2. OutboxInvariant'
    BY <1>1, RowStep DEF OutboxInvariant, receiverVars
  <1>3. Stands' = Stands
    BY <1>1, StandsStill
  <1>4. LeaseStep
    BY <1>1 DEF LeaseStep
  <1> QED  BY <1>2, <1>3, <1>4 DEF StepIsSafe

\* A step of the workflow or of the receipts changes neither rows nor dispatches.
LEMMA ReceiverStep ==
    ASSUME OutboxInvariant, UNCHANGED <<row, dispatch, accepted>>,
           purge' \in {"idle", "deleting", "receipts"},
           receipt' \in [Events -> [status : {"CLAIMED", "SENT"}, old : BOOLEAN] \cup {NoRow}],
           delivery' \in [Deliveries -> {Idle} \cup
                                        [at : {"arrived", "won", "sent"}, event : Events]],
           notified' \in [Events -> 0..2]
    PROVE  StepIsSafe
  <1>1. OutboxInvariant'
    BY DEF OutboxInvariant, RowsAreGood, QueuedFirst, OkIsAccepted, Busy
  <1>2. Stands' = Stands
    BY DEF Stands, Standing
  <1> QED  BY <1>1, <1>2 DEF StepIsSafe, LeaseStep

-----------------------------------------------------------------------------
(* Every action is safe.                                                   *)

LEMMA ClaimStep ==
    ASSUME OutboxInvariant, NEW d \in Dispatchers, NEW e \in Events, Claim(d, e),
           dispatch[d].at # "unqueued"
    PROVE  StepIsSafe
  <1> DEFINE step == [at |-> "sending", event |-> e, tries |-> 0]
             r    == [[row[e] EXCEPT !.holder = d, !.leased = TRUE] EXCEPT !.quiet = FALSE]
  <1>1. row[e].status = "PENDING" /\ ~row[e].leased /\ GoodRow(row[e]) /\ row[e] # NoRow
    BY DEF Claim, Claimable, OutboxInvariant, RowsAreGood, NoRow
  <1>2. GoodRow(r) /\ r # NoRow /\ r.status = row[e].status
    BY <1>1, ClaimedRowIsGood
  <1>3. row' = [row EXCEPT ![e] = r] /\ Go(d, step)
    BY DEF Claim, Update
  <1>4. dispatch[e].at # "unqueued"
    BY <1>1 DEF OutboxInvariant, QueuedFirst
  <1>5. GoodDispatch(d, step)
    BY <1>4, OutboxAssumption DEF GoodDispatch, Dispatch, Sending
  <1>6. dispatch' \in [Dispatchers -> Dispatch] /\ QueuedFirst' /\ OkIsAccepted'
    <2>1. \A f \in Events : row[f] = NoRow => row'[f] = NoRow
      BY <1>1, <1>3 DEF OutboxInvariant, RowsAreGood
    <2>2. accepted' = accepted
      BY DEF Claim
    <2> HIDE DEF step, r
    <2> QED  BY <1>3, <1>5, <2>1, <2>2, DispatchStep
  <1>7. SameQueued
    BY <1>3, GoKeepsQueued
  <1> HIDE DEF step, r
  <1> QED  BY <1>1, <1>2, <1>3, <1>6, <1>7, RowStaysStep DEF Claim

LEMMA FlushSkipsStep ==
    ASSUME OutboxInvariant, NEW e \in Events, FlushSkips(e)
    PROVE  StepIsSafe
  <1>1. e \in Dispatchers /\ dispatch[e].at # "unqueued"
    BY DEF FlushSkips, Dispatchers
  <1> QED  BY <1>1, IdleIsGood, SendStep DEF FlushSkips, receiverVars, OutboxInvariant

LEMMA PostStep ==
    ASSUME OutboxInvariant, NEW d \in Dispatchers, Post(d)
    PROVE  StepIsSafe
  <1> DEFINE step == [dispatch[d] EXCEPT !.at = "posting"]
  <1>1. dispatch[d] \in Sending /\ Busy(d)
    BY BusyDispatch DEF Post, Busy
  <1>2. step \in Sending /\ step.at = "posting" /\ step.event = dispatch[d].event
    BY <1>1 DEF Sending
  <1>3. GoodDispatch(d, step)
    BY <1>1, <1>2, BusyDispatch DEF GoodDispatch, Dispatch
  <1> HIDE DEF step
  <1> QED  BY <1>1, <1>3, SendStep DEF step, Post, Busy, receiverVars, OutboxInvariant

\* One more try has failed.
LEMMA TryFailedIsGood ==
    ASSUME OutboxInvariant, NEW d \in Dispatchers, dispatch[d].at = "posting", TryFailed(d)
    PROVE  \E step : GoodDispatch(d, step) /\ Go(d, step)
  <1> DEFINE e     == dispatch[d].event
             tries == dispatch[d].tries + 1
             again == [at |-> "sending", event |-> e, tries |-> tries]
             ended == [at |-> "settling", event |-> e, tries |-> tries, result |-> "transient"]
  <1>1. dispatch[d] \in Sending /\ Busy(d) /\ e \in Events /\ dispatch[e].at # "unqueued"
    BY BusyDispatch DEF Busy
  <1>2. dispatch[d].tries \in 0..MaxTries - 1
    BY <1>1 DEF Sending
  <1>3. CASE tries < MaxTries
    <2>1. tries \in 0..MaxTries - 1
      BY <1>2, <1>3, OutboxAssumption
    <2>2. again \in Sending
      BY <1>1, <2>1 DEF Sending
    <2>3. GoodDispatch(d, again) /\ Go(d, again)
      BY <1>1, <1>3, <2>2 DEF GoodDispatch, Dispatch, TryFailed
    <2> QED  BY <2>3
  <1>4. CASE ~(tries < MaxTries)
    <2>1. tries \in 0..MaxTries
      BY <1>2, OutboxAssumption
    <2>2. ended \in Settling
      BY <1>1, <2>1 DEF Settling
    <2>3. GoodDispatch(d, ended) /\ Go(d, ended)
      BY <1>1, <1>4, <2>2 DEF GoodDispatch, Dispatch, TryFailed, Settle
    <2> QED  BY <2>3
  <1> QED  BY <1>3, <1>4

\* A dispatch that ends its tries.
LEMMA SettleIsGood ==
    ASSUME OutboxInvariant, NEW d \in Dispatchers, Busy(d), NEW tries \in 0..MaxTries,
           NEW result \in {"ok", "transient", "permanent"}, Settle(d, tries, result),
           result = "ok" => dispatch[d].event \in accepted'
    PROVE  \E step : GoodDispatch(d, step) /\ Go(d, step)
  <1> DEFINE step == [at |-> "settling", event |-> dispatch[d].event, tries |-> tries,
                      result |-> result]
  <1>1. dispatch[d].event \in Events /\ dispatch[dispatch[d].event].at # "unqueued"
    BY BusyDispatch
  <1>2. step \in Settling
    BY <1>1 DEF Settling
  <1>3. GoodDispatch(d, step) /\ Go(d, step)
    BY <1>1, <1>2 DEF GoodDispatch, Dispatch, Settle
  <1> QED  BY <1>3

LEMMA AnswerStep ==
    ASSUME OutboxInvariant, NEW d \in Dispatchers, Answer(d)
    PROVE  StepIsSafe
  <1> DEFINE e == dispatch[d].event
  <1>1. /\ Busy(d) /\ dispatch[d].at = "posting" /\ dispatch[d].at # "unqueued"
        /\ e \in Events
        /\ dispatch[d].tries + 1 \in 0..MaxTries /\ 1 \in 0..MaxTries
    <2>1. dispatch[d].at = "posting" /\ dispatch[d] \in Sending
      BY BusyDispatch DEF Answer
    <2>2. dispatch[d].tries \in 0..MaxTries - 1
      BY <2>1 DEF Sending
    <2> QED  BY <2>1, <2>2, OutboxAssumption, BusyDispatch DEF Busy
  <1>2. Arrive(e) => delivery' \in [Deliveries -> {Idle} \cup
                                       [at : {"arrived", "won", "sent"}, event : Events]]
    BY <1>1 DEF Arrive, OutboxInvariant
  <1>3. delivery' = delivery => delivery' \in [Deliveries -> {Idle} \cup
                                       [at : {"arrived", "won", "sent"}, event : Events]]
    BY DEF OutboxInvariant
  <1>4. UNCHANGED <<row, purge, receipt, notified>>
    BY DEF Answer
  <1>5. ASSUME Arrive(e), accepted' = accepted \cup {e}, Settle(d, dispatch[d].tries + 1, "ok")
        PROVE  StepIsSafe
    BY <1>1, <1>2, <1>4, <1>5, SettleIsGood, SendStep
  <1>6. ASSUME Arrive(e) \/ UNCHANGED delivery, TryFailed(d), UNCHANGED accepted
        PROVE  StepIsSafe
    BY <1>1, <1>2, <1>3, <1>4, <1>6, TryFailedIsGood, SendStep
  <1>7. ASSUME Arrive(e) \/ UNCHANGED delivery, UNCHANGED accepted,
               \/ Settle(d, dispatch[d].tries + 1, "permanent")
               \/ Settle(d, 1, "transient")
        PROVE  StepIsSafe
    BY <1>1, <1>2, <1>3, <1>4, <1>7, SettleIsGood, SendStep
  <1> QED  BY <1>5, <1>6, <1>7 DEF Answer

LEMMA GiveUpStep ==
    ASSUME OutboxInvariant, NEW d \in Dispatchers, GiveUp(d)
    PROVE  StepIsSafe
  <1>1. Busy(d) /\ dispatch[d].at # "unqueued" /\ dispatch[d].tries \in 0..MaxTries
    BY BusyDispatch, OutboxAssumption DEF GiveUp, Busy, Sending
  <1>2. delivery' = delivery
    BY DEF GiveUp, receiverVars
  <1>3. delivery' \in [Deliveries -> {Idle} \cup
                                     [at : {"arrived", "won", "sent"}, event : Events]]
    BY <1>2 DEF OutboxInvariant
  <1> QED  BY <1>1, <1>3, SettleIsGood, SendStep DEF GiveUp, receiverVars

LEMMA RecordOutcomeStep ==
    ASSUME OutboxInvariant, NEW d \in Dispatchers, RecordOutcome(d)
    PROVE  StepIsSafe
  <1> DEFINE e      == dispatch[d].event
             tries  == dispatch[d].tries
             result == dispatch[d].result
             after  == Recorded(row[e], tries, result)
  <1>1. /\ Busy(d) /\ dispatch[d].at = "settling" /\ e \in Events /\ tries \in Nat
        /\ result \in {"ok", "transient", "permanent"} /\ dispatch[e].at # "unqueued"
        /\ result = "ok" => e \in accepted
    BY BusyDispatch DEF RecordOutcome, Busy, Settling, OutboxInvariant, OkIsAccepted
  <1>2. Go(d, Idle) /\ GoodDispatch(d, Idle) /\ UNCHANGED <<purge, receiverVars, accepted>>
    BY IdleIsGood DEF RecordOutcome
  <1>3. CASE ~Holds(d)
    <2>1. UNCHANGED row
      BY <1>3 DEF RecordOutcome
    <2> QED  BY <1>1, <1>2, <2>1, SendStep DEF receiverVars, OutboxInvariant
  <1>4. CASE Holds(d)
    <2>1. row[e] # NoRow /\ row[e].holder = d /\ GoodRow(row[e]) /\ d # NoOne
      BY <1>1, <1>4, OutboxAssumption DEF Holds, OutboxInvariant, RowsAreGood, Dispatchers
    <2>2. row[e].status = "PENDING"
      BY <2>1 DEF GoodRow
    <2>3. row' = [row EXCEPT ![e] = after]
      BY <1>4 DEF RecordOutcome, Update, Recorded
    <2>4. /\ GoodRow(after) /\ after # NoRow
          /\ result = "ok" => after.status = "DELIVERED"
          /\ result # "ok" => after.status \in {"PENDING", "PERMANENT"}
      BY <1>1, <2>1, <2>2, OutcomeIsGood
    <2> HIDE DEF after
    <2>5. RowsAreGood' /\ row \in [Events -> Row \cup {NoRow}]
      BY <1>1, <2>3, <2>4, RowStep DEF OutboxInvariant, RowsAreGood
    <2>6. \A f \in Events : row[f] = NoRow => row'[f] = NoRow
      BY <2>1, <2>3, <2>5
    <2>7. dispatch' \in [Dispatchers -> Dispatch] /\ QueuedFirst' /\ OkIsAccepted'
      BY <1>2, <2>6, DispatchStep
    <2>8. OutboxInvariant'
      BY <1>2, <2>5, <2>7 DEF OutboxInvariant, receiverVars
    <2>9. Stands' = [Stands EXCEPT ![e] = after.status]
      <3>1. SameQueued
        BY <1>1, <1>2, GoKeepsQueued DEF GoodDispatch
      <3> QED  BY <1>1, <2>3, <2>4, <2>5, <3>1, StandsMoved
    <2>10. Stands[e] = "PENDING"
      BY <1>1, <2>1, <2>2 DEF Stands, Standing
    <2>11. [Promise!Next]_<<Stands, accepted>>
      <3>1. CASE after.status = "DELIVERED"
        <4>1. e \in accepted
          BY <1>1, <2>4, <3>1
        <4>2. Promise!Deliver(e)
          BY <1>2, <2>9, <2>10, <3>1, <4>1 DEF Promise!Deliver, Promise!Move, Stands
        <4> QED  BY <1>1, <4>2 DEF Promise!Next
      <3>2. CASE after.status = "PERMANENT"
        <4>1. Promise!Fail(e)
          BY <1>2, <2>9, <2>10, <3>2 DEF Promise!Fail, Promise!Move, Stands
        <4> QED  BY <1>1, <4>1 DEF Promise!Next
      <3>3. CASE after.status = "PENDING"
        <4>1. Stands' = Stands
          BY <1>1, <2>9, <2>10, <3>3 DEF Stands
        <4> QED  BY <1>2, <4>1
      <3> QED  BY <1>1, <2>4, <3>1, <3>2, <3>3
    <2>12. LeaseStep
      <3>1. dispatch'[d] # dispatch[d]
        BY <1>1, <1>2 DEF Go, Idle, OutboxInvariant
      <3> QED  BY <1>1, <2>1, <2>3, <2>5, <3>1 DEF LeaseStep
    <2> QED  BY <2>8, <2>11, <2>12 DEF StepIsSafe
  <1> QED  BY <1>3, <1>4

LEMMA CancelSendStep ==
    ASSUME OutboxInvariant, NEW d \in Dispatchers, CancelSend(d)
    PROVE  StepIsSafe
  <1> DEFINE e == dispatch[d].event
             r == [Unleased(row[e]) EXCEPT !.quiet = FALSE]
  <1>1. Busy(d) /\ dispatch[d].at # "idle" /\ e \in Events /\ dispatch[d].at # "unqueued"
    BY BusyDispatch DEF CancelSend, Busy
  <1>2. Go(d, Idle) /\ GoodDispatch(d, Idle) /\ UNCHANGED <<purge, receiverVars, accepted>>
    BY IdleIsGood DEF CancelSend
  <1>3. CASE ~Holds(d)
    <2>1. UNCHANGED row
      BY <1>3 DEF CancelSend
    <2> QED  BY <1>1, <1>2, <2>1, SendStep DEF receiverVars, OutboxInvariant
  <1>4. CASE Holds(d)
    <2>1. row[e] # NoRow /\ row[e].holder = d /\ GoodRow(row[e])
      BY <1>1, <1>4 DEF Holds, OutboxInvariant, RowsAreGood
    <2>2. GoodRow(r) /\ r # NoRow /\ r.status = row[e].status /\ row' = [row EXCEPT ![e] = r]
      BY <1>4, <2>1, ReturnedRowIsGood DEF CancelSend, Update
    <2> HIDE DEF r
    <2>3. \A f \in Events : row[f] = NoRow => row'[f] = NoRow
      BY <2>1, <2>2 DEF OutboxInvariant, RowsAreGood
    <2>4. dispatch' \in [Dispatchers -> Dispatch] /\ QueuedFirst' /\ OkIsAccepted'
      BY <1>2, <2>3, DispatchStep
    <2>5. SameQueued
      BY <1>1, <1>2, GoKeepsQueued DEF GoodDispatch
    <2>6. dispatch'[row[e].holder] # dispatch[row[e].holder]
      BY <1>1, <1>2, <2>1 DEF Go, Idle, OutboxInvariant
    <2> QED  BY <1>1, <1>2, <2>1, <2>2, <2>4, <2>5, <2>6, RowStaysStep
  <1> QED  BY <1>3, <1>4

LEMMA AbandonStep ==
    ASSUME OutboxInvariant, NEW d \in Dispatchers, Abandon(d)
    PROVE  StepIsSafe
  BY IdleIsGood, SendStep DEF Abandon, Busy, receiverVars, OutboxInvariant

\* A step of time, or of the operator, changes one row and no dispatch.
LEMMA NoDispatchStep ==
    ASSUME OutboxInvariant, UNCHANGED <<dispatch, accepted>>,
           \A e \in Events : row[e] = NoRow => row'[e] = NoRow
    PROVE  dispatch' \in [Dispatchers -> Dispatch] /\ QueuedFirst' /\ OkIsAccepted' /\ SameQueued
  BY DEF OutboxInvariant, QueuedFirst, OkIsAccepted, SameQueued, Busy

LEMMA LeaseExpiresStep ==
    ASSUME OutboxInvariant, NEW e \in Events, LeaseExpires(e)
    PROVE  StepIsSafe
  <1> DEFINE r == [row[e] EXCEPT !.leased = FALSE]
  <1>1. /\ row[e] # NoRow /\ row[e] \in Row /\ GoodRow(row[e])
        /\ row \in [Events -> Row \cup {NoRow}]
    BY DEF LeaseExpires, OutboxInvariant, RowsAreGood
  <1>2. GoodRow(r) /\ r # NoRow /\ r.status = row[e].status /\ r.holder = row[e].holder
    BY <1>1, AgedRowIsGood DEF Row, NoRow
  <1>3. row' = [row EXCEPT ![e] = r] /\ UNCHANGED <<dispatch, purge, receiverVars, accepted>>
    BY DEF LeaseExpires
  <1> HIDE DEF r
  <1>4. \A f \in Events : row[f] = NoRow => row'[f] = NoRow
    BY <1>1, <1>3
  <1> QED  BY <1>1, <1>2, <1>3, <1>4, NoDispatchStep, RowStaysStep

LEMMA GrowOldStep ==
    ASSUME OutboxInvariant, NEW e \in Events, GrowOld(e)
    PROVE  StepIsSafe
  <1>1. /\ row[e] # NoRow /\ row[e] \in Row /\ GoodRow(row[e])
        /\ row \in [Events -> Row \cup {NoRow}]
        /\ UNCHANGED <<dispatch, purge, receiverVars, accepted>>
    BY DEF GrowOld, OutboxInvariant, RowsAreGood
  <1>2. PICK r : /\ GoodRow(r) /\ r # NoRow /\ r.status = row[e].status
                 /\ r.holder = row[e].holder /\ row' = [row EXCEPT ![e] = r]
    <2>1. CASE row' = [row EXCEPT ![e].old = TRUE]
      <3> DEFINE r == [row[e] EXCEPT !.old = TRUE]
      <3>1. GoodRow(r) /\ r # NoRow /\ r.status = row[e].status /\ r.holder = row[e].holder
        BY <1>1, AgedRowIsGood DEF Row, NoRow
      <3> QED  BY <2>1, <3>1
    <2>2. CASE row' = [row EXCEPT ![e].quiet = TRUE]
      <3> DEFINE r == [row[e] EXCEPT !.quiet = TRUE]
      <3>1. GoodRow(r) /\ r # NoRow /\ r.status = row[e].status /\ r.holder = row[e].holder
        BY <1>1, AgedRowIsGood DEF Row, NoRow
      <3> QED  BY <2>2, <3>1
    <2> QED  BY <2>1, <2>2 DEF GrowOld
  <1>3. \A f \in Events : row[f] = NoRow => row'[f] = NoRow
    BY <1>1, <1>2
  <1> QED  BY <1>1, <1>2, <1>3, NoDispatchStep, RowStaysStep

LEMMA RequeueStep ==
    ASSUME OutboxInvariant, NEW e \in Events, Requeue(e)
    PROVE  StepIsSafe
  <1> DEFINE r == [Unleased([row[e] EXCEPT !.status = "PENDING", !.attempts = 0])
                     EXCEPT !.quiet = FALSE]
  <1>1. /\ row[e].status = "PERMANENT" /\ row[e] # NoRow /\ row[e] \in Row /\ GoodRow(row[e])
        /\ row \in [Events -> Row \cup {NoRow}]
        /\ UNCHANGED <<dispatch, purge, receiverVars, accepted>>
    BY DEF Requeue, OutboxInvariant, RowsAreGood, NoRow
  <1>2. row' = [row EXCEPT ![e] = r] /\ GoodRow(r) /\ r # NoRow /\ r.status = "PENDING"
    BY <1>1, RequeuedRowIsGood DEF Requeue, Update
  <1> HIDE DEF r
  <1>3. dispatch' \in [Dispatchers -> Dispatch] /\ QueuedFirst' /\ OkIsAccepted' /\ SameQueued
    BY <1>1, <1>2, NoDispatchStep
  <1>4. RowsAreGood'
    BY <1>2, RowStep DEF OutboxInvariant
  <1>5. OutboxInvariant'
    BY <1>1, <1>3, <1>4 DEF OutboxInvariant, receiverVars
  <1>6. Promise!Requeue(e)
    <2>1. Stands[e] = "PERMANENT"
      BY <1>1 DEF Stands, Standing
    <2>2. Stands' = [Stands EXCEPT ![e] = "PENDING"]
      BY <1>1, <1>2, <1>3, StandsMoved, ZenonT(60)
    <2> QED  BY <1>1, <2>1, <2>2 DEF Promise!Requeue, Promise!Move, Stands
  <1>7. LeaseStep
    <2>1. ~row[e].leased
      BY <1>1 DEF GoodRow
    <2> QED  BY <1>1, <1>2, <2>1 DEF LeaseStep
  <1> QED  BY <1>5, <1>6, <1>7 DEF StepIsSafe, Promise!Next

LEMMA ExpireOldStep ==
    ASSUME OutboxInvariant, ExpireOld
    PROVE  StepIsSafe
  <1> DEFINE expired(e) == Unleased([row[e] EXCEPT !.status = "EXPIRED", !.redacted = TRUE,
                                                   !.quiet = FALSE])
  <1>1. PICK S \in SUBSET {e \in Retained({"PENDING", "PERMANENT"}) : row[e].old} :
            row' = [e \in Events |-> IF e \in S THEN expired(e) ELSE row[e]]
    BY DEF ExpireOld
  <1>2. /\ UNCHANGED <<dispatch, receiverVars, accepted>> /\ purge' = "deleting"
        /\ row \in [Events -> Row \cup {NoRow}] /\ \A e \in Events : GoodRow(row[e])
    BY DEF ExpireOld, OutboxInvariant, RowsAreGood
  <1>3. \A e \in S : /\ e \in Events /\ row[e] # NoRow /\ ~row[e].leased
                     /\ row[e].status \in {"PENDING", "PERMANENT"}
    BY DEF Retained
  <1>4. \A e \in S : /\ GoodRow(expired(e)) /\ expired(e) # NoRow
                     /\ expired(e).status = "EXPIRED"
    BY <1>2, <1>3, ExpiredRowIsGood
  <1> HIDE DEF expired
  <1>5. RowsAreGood'
    <2>1. \A e \in Events : row'[e] = IF e \in S THEN expired(e) ELSE row[e]
      BY <1>1
    <2>2. \A e \in Events : GoodRow(row'[e])
      BY <1>2, <1>4, <2>1
    <2>3. \A e \in Events : row'[e] \in Row \cup {NoRow}
      BY <2>2 DEF GoodRow
    <2>4. row' = [e \in Events |-> row'[e]]
      BY <1>1
    <2> QED  BY <2>2, <2>3, <2>4 DEF RowsAreGood
  <1>6. \A e \in Events : row[e] = NoRow => row'[e] = NoRow
    BY <1>1, <1>3
  <1>7. dispatch' \in [Dispatchers -> Dispatch] /\ QueuedFirst' /\ OkIsAccepted' /\ SameQueued
    BY <1>2, <1>6, NoDispatchStep
  <1>8. OutboxInvariant'
    BY <1>2, <1>5, <1>7 DEF OutboxInvariant, receiverVars
  <1>9. Promise!Retain({"PENDING", "PERMANENT"}, "EXPIRED")
    <2>1. S \in SUBSET {e \in Events : Stands[e] \in {"PENDING", "PERMANENT"}}
      BY <1>3 DEF Stands, Standing
    <2>2. \A e \in Events : Standing(e)' = IF e \in S THEN "EXPIRED" ELSE Standing(e)
      BY <1>1, <1>4, <1>7 DEF Standing, SameQueued
    <2>3. Stands' = [e \in Events |-> IF e \in S THEN "EXPIRED" ELSE Stands[e]]
      BY <2>2 DEF Stands
    <2> QED  BY <1>2, <2>1, <2>3 DEF Promise!Retain, Stands
  <1>10. LeaseStep
    BY <1>1, <1>3 DEF LeaseStep
  <1> QED  BY <1>8, <1>9, <1>10 DEF StepIsSafe, Promise!Next

LEMMA DeleteOldStep ==
    ASSUME OutboxInvariant, DeleteOld
    PROVE  StepIsSafe
  <1>1. PICK S \in SUBSET {e \in Retained({"DELIVERED", "EXPIRED"}) : row[e].quiet} :
            row' = [e \in Events |-> IF e \in S THEN NoRow ELSE row[e]]
    BY DEF DeleteOld
  <1>2. /\ UNCHANGED <<dispatch, receiverVars, accepted>> /\ purge' = "receipts"
        /\ row \in [Events -> Row \cup {NoRow}] /\ \A e \in Events : GoodRow(row[e])
    BY DEF DeleteOld, OutboxInvariant, RowsAreGood
  <1>3. \A e \in S : /\ e \in Events /\ row[e] # NoRow /\ ~row[e].leased
                     /\ row[e].status \in {"DELIVERED", "EXPIRED"}
    BY DEF Retained
  <1>4. RowsAreGood'
    BY <1>1, <1>2 DEF RowsAreGood, GoodRow
  <1>5. \A e \in Events : row[e] = NoRow => row'[e] = NoRow
    BY <1>1, <1>3
  <1>6. dispatch' \in [Dispatchers -> Dispatch] /\ QueuedFirst' /\ OkIsAccepted' /\ SameQueued
    BY <1>2, <1>5, NoDispatchStep
  <1>7. OutboxInvariant'
    BY <1>2, <1>4, <1>6 DEF OutboxInvariant, receiverVars
  <1>8. Promise!Retain({"DELIVERED", "EXPIRED"}, "DELETED")
    <2>1. S \in SUBSET {e \in Events : Stands[e] \in {"DELIVERED", "EXPIRED"}}
      BY <1>3 DEF Stands, Standing
    <2>2. \A e \in S : dispatch'[e].at # "unqueued"
      BY <1>3, <1>6 DEF SameQueued, OutboxInvariant, QueuedFirst
    <2>3. \A e \in Events : Standing(e)' = IF e \in S THEN "DELETED" ELSE Standing(e)
      BY <1>1, <1>2, <2>2 DEF Standing
    <2>4. Stands' = [e \in Events |-> IF e \in S THEN "DELETED" ELSE Stands[e]]
      BY <2>3 DEF Stands
    <2> QED  BY <1>2, <2>1, <2>4 DEF Promise!Retain, Stands
  <1>9. LeaseStep
    BY <1>1, <1>3 DEF LeaseStep
  <1> QED  BY <1>7, <1>8, <1>9 DEF StepIsSafe, Promise!Next

LEMMA PurgeReceiptsStep ==
    ASSUME OutboxInvariant, PurgeReceipts
    PROVE  StepIsSafe
  BY ReceiverStep DEF OutboxInvariant, PurgeReceipts

LEMMA ReceiptGrowsOldStep ==
    ASSUME OutboxInvariant, NEW e \in Events, ReceiptGrowsOld(e)
    PROVE  StepIsSafe
  <1>1. receipt[e] \in [status : {"CLAIMED", "SENT"}, old : BOOLEAN]
    BY DEF OutboxInvariant, ReceiptGrowsOld
  <1>2. [receipt[e] EXCEPT !.old = TRUE] \in [status : {"CLAIMED", "SENT"}, old : BOOLEAN]
    BY <1>1
  <1>3. receipt' \in [Events -> [status : {"CLAIMED", "SENT"}, old : BOOLEAN] \cup {NoRow}]
    BY <1>2 DEF OutboxInvariant, ReceiptGrowsOld
  <1> QED  BY <1>3, ReceiverStep DEF OutboxInvariant, ReceiptGrowsOld

\* The five steps of an execution of the workflow.
LEMMA WorkflowStep ==
    ASSUME OutboxInvariant, NEW u \in Deliveries,
           \/ ClaimReceipt(u) \/ Notify(u) \/ CompleteReceipt(u)
           \/ ReleaseReceipt(u) \/ DeliveryDies(u)
    PROVE  StepIsSafe
  <1> DEFINE e           == delivery[u].event
             Receipts    == [status : {"CLAIMED", "SENT"}, old : BOOLEAN]
             Executions  == [at : {"arrived", "won", "sent"}, event : Events]
  <1>1. /\ delivery[u] # Idle => delivery[u] \in Executions /\ e \in Events
        /\ receipt[e] # NoRow /\ e \in Events => receipt[e] \in Receipts
    BY DEF OutboxInvariant
  <1>2. Idle \in {Idle} \cup Executions /\ NoRow.status # "CLAIMED"
    BY DEF NoRow
  <1>3. CASE ClaimReceipt(u)
    <2>1. delivery[u] # Idle
      BY <1>3 DEF ClaimReceipt, At
    <2>2. [status |-> "CLAIMED", old |-> FALSE] \in Receipts
          /\ [at |-> "won", event |-> e] \in Executions
      BY <1>1, <2>1
    <2>3. receipt' \in [Events -> Receipts \cup {NoRow}]
      BY <1>3, <2>2 DEF OutboxInvariant, ClaimReceipt
    <2>4. delivery' \in [Deliveries -> {Idle} \cup Executions]
      BY <1>3, <2>2 DEF OutboxInvariant, ClaimReceipt, Step
    <2> QED  BY <1>3, <2>3, <2>4, ReceiverStep DEF OutboxInvariant, ClaimReceipt
  <1>4. CASE Notify(u)
    <2>1. delivery[u] # Idle
      BY <1>4 DEF Notify, At
    <2>2. [delivery[u] EXCEPT !.at = "sent"] \in Executions
      BY <1>1, <2>1
    <2> QED  BY <1>4, <2>1, <2>2, ReceiverStep DEF OutboxInvariant, Notify, Step
  <1>5. CASE CompleteReceipt(u)
    <2>1. delivery[u] # Idle
      BY <1>5 DEF CompleteReceipt, At
    <2>2. receipt[e].status = "CLAIMED" => [receipt[e] EXCEPT !.status = "SENT"] \in Receipts
      BY <1>1, <1>2, <2>1
    <2>3. receipt' \in [Events -> Receipts \cup {NoRow}]
      BY <1>1, <1>5, <2>1, <2>2 DEF OutboxInvariant, CompleteReceipt
    <2> QED  BY <1>5, <2>1, <2>3, ReceiverStep DEF OutboxInvariant, CompleteReceipt, Step
  <1>6. CASE ReleaseReceipt(u)
    <2>1. delivery[u] # Idle
      BY <1>6 DEF ReleaseReceipt, At
    <2>2. receipt' \in [Events -> Receipts \cup {NoRow}]
      BY <1>1, <1>6, <2>1 DEF OutboxInvariant, ReleaseReceipt
    <2> QED  BY <1>6, <2>1, <2>2, ReceiverStep DEF OutboxInvariant, ReleaseReceipt, Step
  <1>7. CASE DeliveryDies(u)
    BY <1>7, ReceiverStep DEF OutboxInvariant, DeliveryDies, Step
  <1> QED  BY <1>3, <1>4, <1>5, <1>6, <1>7

\* Every step of the outbox, its sweepers, its operator and its retention.
LEMMA NextIsSafe ==
    ASSUME OutboxInvariant, Next
    PROVE  StepIsSafe
  <1>1. ASSUME NEW e \in Events,
               \/ QueueEvent(e) \/ FlushClaim(e) \/ FlushSkips(e) \/ LeaseExpires(e)
               \/ Requeue(e) \/ GrowOld(e) \/ ReceiptGrowsOld(e)
        PROVE  StepIsSafe
    <2>1. ASSUME FlushClaim(e) PROVE StepIsSafe
      <3>1. e \in Dispatchers /\ dispatch[e].at # "unqueued" /\ Claim(e, e)
        BY <2>1 DEF FlushClaim, Dispatchers
      <3> QED  BY <3>1, ClaimStep
    <2> QED  BY <1>1, <2>1, QueueEventStep, FlushSkipsStep, LeaseExpiresStep, RequeueStep,
                GrowOldStep, ReceiptGrowsOldStep
  <1>2. ASSUME NEW d \in Dispatchers,
               \/ \E e \in Events : SweepClaim(d, e)
               \/ Post(d) \/ Answer(d) \/ GiveUp(d) \/ RecordOutcome(d)
               \/ CancelSend(d) \/ Abandon(d)
        PROVE  StepIsSafe
    <2>1. ASSUME NEW e \in Events, SweepClaim(d, e) PROVE StepIsSafe
      <3>1. dispatch[d].at # "unqueued" /\ Claim(d, e)
        BY <2>1 DEF SweepClaim, Idle
      <3> QED  BY <3>1, ClaimStep
    <2> QED  BY <1>2, <2>1, PostStep, AnswerStep, GiveUpStep, RecordOutcomeStep,
                CancelSendStep, AbandonStep
  <1> QED  BY <1>1, <1>2, ExpireOldStep, DeleteOldStep, PurgeReceiptsStep, WorkflowStep DEF Next

LEMMA StutterIsSafe ==
    ASSUME OutboxInvariant, UNCHANGED outboxVars
    PROVE  StepIsSafe
  <1>1. OutboxInvariant'
    BY DEF OutboxInvariant, RowsAreGood, QueuedFirst, OkIsAccepted, Busy, outboxVars
  <1>2. Stands' = Stands
    BY DEF Stands, Standing, outboxVars
  <1> QED  BY <1>1, <1>2 DEF StepIsSafe, LeaseStep, outboxVars

\* The invariant holds throughout, and every step is safe.
THEOREM OutboxIsSafe ==
    Spec => []OutboxInvariant
  <1>1. OutboxInvariant /\ [Next]_outboxVars => OutboxInvariant'
    BY NextIsSafe, StutterIsSafe DEF StepIsSafe
  <1> QED  BY <1>1, OutboxInit, PTL DEF Spec

\* Rows, dispatches and receipts have the shape the code gives them, and an event that is
\* pending has tries left, across all its dispatches and requeues.
THEOREM OutboxTypeCorrect ==
    Spec => []OutboxTypeOK
  BY OutboxIsSafe, InvariantImplies, PTL

\* What can be sent, now or after a requeue, has not lost its personal fields.
THEOREM SendableKeepsItsPayload ==
    Spec => []SendableIsComplete
  BY OutboxIsSafe, InvariantImplies, PTL

\* While a lease lasts, nobody but its holder moves the event or takes it over.
THEOREM LeaseRespected ==
    Spec => LeaseIsRespected
  <1>1. OutboxInvariant /\ [Next]_outboxVars => LeaseStep
    BY NextIsSafe, StutterIsSafe DEF StepIsSafe
  <1> QED  BY <1>1, OutboxIsSafe, PTL DEF LeaseIsRespected, LeaseStep, Spec

\* The outbox with its leases, retries, crashes and purges implements Notification: an
\* event is delivered only if n8n accepted it, and what is settled is not undone.
THEOREM OutboxKeepsPromise ==
    Spec => KeepsPromise
  <1>1. Init => Promise!Init
    <2> SUFFICES ASSUME Init PROVE Promise!Init
      OBVIOUS
    <2>1. \A e \in Events : Standing(e) = "UNQUEUED"
      BY DEF Init, Standing, Dispatchers
    <2> QED  BY <2>1 DEF Init, Promise!Init
  <1>2. OutboxInvariant /\ [Next]_outboxVars => [Promise!Next]_(Promise!notificationVars)
    BY NextIsSafe, StutterIsSafe DEF StepIsSafe, Stands, Promise!notificationVars
  <1> QED  BY <1>1, <1>2, OutboxIsSafe, PTL DEF KeepsPromise, Promise!Spec, Spec

-----------------------------------------------------------------------------
(* The receipts.  As long as they are kept, they let one execution notify. *)

\* An execution between its claim and its end.
Owns(u) == delivery[u] # Idle /\ delivery[u].at \in {"won", "sent"}

\* An execution that won the claim has a receipt of its own and has not notified before;
\* an event without a receipt has not been notified.
ReceiptInvariant ==
    /\ \A u \in Deliveries : Owns(u) => receipt[delivery[u].event] # NoRow
    /\ \A u, v \in Deliveries :
          Owns(u) /\ Owns(v) /\ delivery[u].event = delivery[v].event => u = v
    /\ \A u \in Deliveries : At(u, "won") => notified[delivery[u].event] = 0
    /\ \A e \in Events : receipt[e] = NoRow => notified[e] = 0
    /\ NotifiedOnce

LEMMA ReceiptInit ==
    Init => ReceiptInvariant
  BY DEF Init, ReceiptInvariant, Owns, At, NotifiedOnce

\* A step by which executions only end or arrive, and receipts are kept.
LEMMA NoClaimStep ==
    ASSUME ReceiptInvariant, UNCHANGED notified,
           \A e \in Events : receipt'[e] = NoRow => receipt[e] = NoRow,
           \A u \in Deliveries : \/ delivery'[u] = delivery[u]
                                 \/ delivery'[u] = Idle
                                 \/ delivery'[u].at = "arrived",
           \A u \in Deliveries : Owns(u) => delivery[u].event \in Events
    PROVE  ReceiptInvariant'
  <1>1. \A u \in Deliveries : Owns(u)' => Owns(u) /\ delivery'[u] = delivery[u]
    BY DEF Owns
  <1>2. \A u \in Deliveries : At(u, "won")' => At(u, "won") /\ delivery'[u] = delivery[u]
    BY DEF At
  <1> QED  BY <1>1, <1>2 DEF ReceiptInvariant, NotifiedOnce

LEMMA ReceiptStep ==
    ASSUME OutboxInvariant, ReceiptInvariant, Next, ~PurgeReceipts
    PROVE  ReceiptInvariant'
  <1>1. /\ \A u \in Deliveries : delivery[u] # Idle => delivery[u].event \in Events
        /\ \A u \in Deliveries : Owns(u) => delivery[u].event \in Events
        /\ \A u \in Deliveries, at \in {"won", "sent"} : At(u, at) => Owns(u)
        /\ NoRow.status # "CLAIMED"
    BY DEF OutboxInvariant, Owns, At, NoRow
  <1>2. CASE UNCHANGED receiverVars
    BY <1>1, <1>2, NoClaimStep DEF receiverVars
  <1>3. ASSUME NEW d \in Dispatchers, Answer(d)
        PROVE  ReceiptInvariant'
    <2>1. \/ UNCHANGED delivery
          \/ \E u \in Deliveries :
                delivery' = [delivery EXCEPT ![u] = [at  |-> "arrived",
                                                     event |-> dispatch[d].event]]
      BY <1>3 DEF Answer, Arrive
    <2>2. \A u \in Deliveries : delivery'[u] = delivery[u] \/ delivery'[u].at = "arrived"
      BY <2>1 DEF OutboxInvariant
    <2> QED  BY <1>1, <1>3, <2>2, NoClaimStep DEF Answer
  <1>4. ASSUME NEW e \in Events, ReceiptGrowsOld(e)
        PROVE  ReceiptInvariant'
    <2>1. [receipt[e] EXCEPT !.old = TRUE] # NoRow
      BY <1>4 DEF ReceiptGrowsOld, OutboxInvariant, NoRow
    <2>2. \A f \in Events : receipt'[f] = NoRow => receipt[f] = NoRow
      BY <1>4, <2>1 DEF ReceiptGrowsOld, OutboxInvariant
    <2> QED  BY <1>1, <1>4, <2>2, NoClaimStep DEF ReceiptGrowsOld
  <1>5. ASSUME NEW u \in Deliveries, ClaimReceipt(u)
        PROVE  ReceiptInvariant'
    <2> DEFINE e == delivery[u].event
    <2>1. delivery[u] # Idle /\ e \in Events /\ ~Owns(u)
      BY <1>1, <1>5 DEF ClaimReceipt, At, Owns
    <2>2. CASE receipt[e] # NoRow
      <3>1. UNCHANGED <<receipt, notified>> /\ delivery' = [delivery EXCEPT ![u] = Idle]
        BY <1>5, <2>2 DEF ClaimReceipt, Step
      <3> QED  BY <1>1, <3>1, NoClaimStep DEF OutboxInvariant
    <2>3. CASE receipt[e] = NoRow
      <3> DEFINE new == [status |-> "CLAIMED", old |-> FALSE]
                 won == [at |-> "won", event |-> e]
      <3>1. /\ receipt' = [receipt EXCEPT ![e] = new]
            /\ delivery' = [delivery EXCEPT ![u] = won]
            /\ UNCHANGED notified
        BY <1>5, <2>3 DEF ClaimReceipt, Step
      <3>2. new # NoRow /\ won # Idle
        BY DEF NoRow, Idle
      <3>3. notified[e] = 0 /\ \A v \in Deliveries : Owns(v) => delivery[v].event # e
        BY <2>1, <2>3 DEF ReceiptInvariant
      <3> HIDE DEF new
      <3>4. /\ receipt'[e] # NoRow
            /\ \A f \in Events : receipt'[f] = NoRow => receipt[f] = NoRow
        BY <2>1, <3>1, <3>2 DEF OutboxInvariant
      <3>5. \A v \in Deliveries \ {u} : delivery'[v] = delivery[v]
        BY <3>1 DEF OutboxInvariant
      <3>6. delivery'[u] = won
        BY <3>1 DEF OutboxInvariant
      <3>7. \A v \in Deliveries \ {u} : (Owns(v)' <=> Owns(v)) /\ (At(v, "won")' <=> At(v, "won"))
        BY <3>5 DEF Owns, At
      <3> QED  BY <1>1, <3>1, <3>3, <3>4, <3>5, <3>6, <3>7 DEF ReceiptInvariant, NotifiedOnce
    <2> QED  BY <2>2, <2>3
  <1>6. ASSUME NEW u \in Deliveries, Notify(u)
        PROVE  ReceiptInvariant'
    <2> DEFINE e    == delivery[u].event
               sent == [delivery[u] EXCEPT !.at = "sent"]
    <2>1. At(u, "won") /\ Owns(u) /\ e \in Events /\ receipt[e] # NoRow /\ notified[e] = 0
      BY <1>1, <1>6 DEF Notify, ReceiptInvariant
    <2>2. sent.event = e /\ sent.at = "sent" /\ sent # Idle
      BY <2>1 DEF At, OutboxInvariant, Idle
    <2>3. /\ delivery'[u] = sent
          /\ \A v \in Deliveries \ {u} : delivery'[v] = delivery[v]
          /\ notified' = [notified EXCEPT ![e] = 1]
          /\ UNCHANGED receipt
      <3>1. delivery' = [delivery EXCEPT ![u] = sent] /\ UNCHANGED receipt
            /\ notified' = [notified EXCEPT ![e] = IF @ = 0 THEN 1 ELSE 2]
        BY <1>6 DEF Notify, Step
      <3> QED  BY <2>1, <3>1 DEF OutboxInvariant
    <2>4. notified'[e] = 1 /\ \A f \in Events \ {e} : notified'[f] = notified[f]
      BY <2>1, <2>3 DEF OutboxInvariant
    <2> HIDE DEF sent
    <2>5. /\ Owns(u)' /\ ~At(u, "won")'
          /\ \A v \in Deliveries \ {u} : (Owns(v)' <=> Owns(v)) /\ (At(v, "won")' <=> At(v, "won"))
      BY <2>2, <2>3 DEF Owns, At
    <2>6. \A v \in Deliveries \ {u} : Owns(v) => delivery[v].event # e
      BY <2>1 DEF ReceiptInvariant
    <2> QED  BY <1>1, <2>1, <2>2, <2>3, <2>4, <2>5, <2>6 DEF ReceiptInvariant, NotifiedOnce
  <1>7. ASSUME NEW u \in Deliveries, CompleteReceipt(u)
        PROVE  ReceiptInvariant'
    <2> DEFINE e == delivery[u].event
    <2>1. e \in Events
      BY <1>1, <1>7 DEF CompleteReceipt, At
    <2>2. receipt[e].status = "CLAIMED" => [receipt[e] EXCEPT !.status = "SENT"] # NoRow
      BY <2>1 DEF OutboxInvariant, NoRow
    <2>3. \A f \in Events : receipt'[f] = NoRow => receipt[f] = NoRow
      BY <1>1, <1>7, <2>1, <2>2 DEF CompleteReceipt, OutboxInvariant
    <2>4. \A v \in Deliveries : delivery'[v] = delivery[v] \/ delivery'[v] = Idle
      BY <1>7 DEF CompleteReceipt, Step, OutboxInvariant
    <2> QED  BY <1>1, <1>7, <2>3, <2>4, NoClaimStep DEF CompleteReceipt
  <1>8. ASSUME NEW u \in Deliveries, ReleaseReceipt(u)
        PROVE  ReceiptInvariant'
    <2> DEFINE e == delivery[u].event
    <2>1. At(u, "won") /\ Owns(u) /\ e \in Events /\ notified[e] = 0
      BY <1>1, <1>8 DEF ReleaseReceipt, ReceiptInvariant
    <2>2. /\ delivery'[u] = Idle
          /\ \A v \in Deliveries \ {u} : delivery'[v] = delivery[v]
          /\ \A f \in Events \ {e} : receipt'[f] = receipt[f]
          /\ UNCHANGED notified
      BY <1>8, <2>1 DEF ReleaseReceipt, Step, OutboxInvariant
    <2>3. \A v \in Deliveries \ {u} : Owns(v) => delivery[v].event # e
      BY <2>1 DEF ReceiptInvariant
    <2>4. /\ ~Owns(u)' /\ ~At(u, "won")'
          /\ \A v \in Deliveries \ {u} : (Owns(v)' <=> Owns(v)) /\ (At(v, "won")' <=> At(v, "won"))
      BY <2>2 DEF Owns, At, Idle
    <2> QED  BY <1>1, <2>1, <2>2, <2>3, <2>4 DEF ReceiptInvariant, NotifiedOnce
  <1>9. ASSUME NEW u \in Deliveries, DeliveryDies(u)
        PROVE  ReceiptInvariant'
    <2>1. \A v \in Deliveries : delivery'[v] = delivery[v] \/ delivery'[v] = Idle
      BY <1>9 DEF DeliveryDies, Step, OutboxInvariant
    <2> QED  BY <1>1, <1>9, <2>1, NoClaimStep DEF DeliveryDies
  <1>10. \/ UNCHANGED receiverVars
         \/ \E d \in Dispatchers : Answer(d)
         \/ \E e \in Events : ReceiptGrowsOld(e)
         \/ \E u \in Deliveries : \/ ClaimReceipt(u) \/ Notify(u) \/ CompleteReceipt(u)
                                  \/ ReleaseReceipt(u) \/ DeliveryDies(u)
    <2>1. ASSUME NEW e \in Events,
                 \/ QueueEvent(e) \/ FlushClaim(e) \/ FlushSkips(e) \/ LeaseExpires(e)
                 \/ Requeue(e) \/ GrowOld(e)
          PROVE  UNCHANGED receiverVars
      BY <2>1 DEF QueueEvent, FlushClaim, Claim, FlushSkips, LeaseExpires, Requeue, GrowOld
    <2>2. ASSUME NEW d \in Dispatchers,
                 \/ \E e \in Events : SweepClaim(d, e)
                 \/ Post(d) \/ GiveUp(d) \/ RecordOutcome(d) \/ CancelSend(d) \/ Abandon(d)
          PROVE  UNCHANGED receiverVars
      BY <2>2 DEF SweepClaim, Claim, Post, GiveUp, RecordOutcome, CancelSend, Abandon
    <2>3. ExpireOld \/ DeleteOld => UNCHANGED receiverVars
      BY DEF ExpireOld, DeleteOld
    <2> QED  BY <2>1, <2>2, <2>3 DEF Next
  <1> QED  BY <1>2, <1>3, <1>4, <1>5, <1>6, <1>7, <1>8, <1>9, <1>10

\* However often an event is sent, and whatever dies on the way, the customer is notified
\* once, as long as no receipt is purged.
THEOREM NotifiedOnceWhileReceiptsAreKept ==
    Spec /\ [][~PurgeReceipts]_outboxVars => []NotifiedOnce
  <1>1. OutboxInvariant /\ ReceiptInvariant /\ [Next]_outboxVars /\ [~PurgeReceipts]_outboxVars
          => ReceiptInvariant'
    <2>1. ASSUME ReceiptInvariant, UNCHANGED outboxVars PROVE ReceiptInvariant'
      BY <2>1 DEF ReceiptInvariant, Owns, At, NotifiedOnce, outboxVars
    <2> QED  BY <2>1, ReceiptStep
  <1>2. ReceiptInvariant => NotifiedOnce
    BY DEF ReceiptInvariant
  <1> QED  BY <1>1, <1>2, ReceiptInit, OutboxIsSafe, PTL DEF Spec

\* Where N8N_FAILURE_RETENTION_DAYS is not set no receipt is ever purged.
THEOREM NotifiedOnceWithoutRetention ==
    ASSUME ~Retention
    PROVE  Spec => []NotifiedOnce
  <1>1. Init => purge = "idle"
    BY DEF Init
  <1>2. purge = "idle" /\ [Next]_outboxVars => (purge = "idle")'
    BY DEF Next, QueueEvent, FlushClaim, FlushSkips, LeaseExpires, Requeue, GrowOld,
       ReceiptGrowsOld, SweepClaim, Claim, Post, Answer, GiveUp, RecordOutcome, CancelSend,
       Abandon, ExpireOld, DeleteOld, PurgeReceipts, ClaimReceipt, Notify, CompleteReceipt,
       ReleaseReceipt, DeliveryDies, outboxVars
  <1>3. purge = "idle" => [~PurgeReceipts]_outboxVars
    BY DEF PurgeReceipts
  <1>4. Spec => [][~PurgeReceipts]_outboxVars
    BY <1>1, <1>2, <1>3, PTL DEF Spec
  <1> QED  BY <1>4, NotifiedOnceWhileReceiptsAreKept, PTL

=============================================================================
