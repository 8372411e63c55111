----------------------------- MODULE Trail_proofs -----------------------------
(***************************************************************************)
(* Proofs about what the history of a journey accounts for, for every      *)
(* pack, every number of journeys, clients and keys: the audit trail gives *)
(* the state the customer sees, a completion is announced once, READY is   *)
(* earned, and a question never has two open cases.                        *)
(*                                                                         *)
(* The first part reduces the operations to the three things they can do   *)
(* to a history: begin it, extend it by one mutation, or leave it alone.   *)
(* Everything after that is proved of those three.                         *)
(***************************************************************************)
EXTENDS Journeys_proofs

-----------------------------------------------------------------------------
(* What a transaction holds ready to write.                                *)

\* What a passed check writes; it does not depend on what the evidence row says.
GivenValue(in) == IF in.upload # NoUpload /\ in.action \in EvidenceActions
                  THEN "given" ELSE in.typed

LEMMA GivenValueIsNewValue ==
    ASSUME NEW in
    PROVE  NewValue(in.action, EvidenceRow(in), in.typed) = GivenValue(in)
  BY DEF NewValue, UsesEvidence, EvidenceRow, NoRow, GivenValue

\* The snapshot a running action will commit is the one its request asks for, on top of
\* the snapshot the client expected.
Prepared(c) ==
    pc[c] \in {"open", "wrote"} =>
        tx[c].snapshot = Successor(request[c].journey, request[c].expected,
                                   Satisfies[request[c].input.action],
                                   GivenValue(request[c].input), Question(request[c].input))

AllPrepared == \A c \in Clients : Prepared(c)

\* Histories are only appended to.
LEMMA MutationAppends ==
    ASSUME TypeOK, NEW j \in JourneyIds, NEW snapshot \in Snapshot, NEW event \in AuditEvent,
           WriteMutation(j, snapshot, event)
    PROVE  /\ Len(snapshots[j]) \in Nat /\ Len(audit[j]) \in Nat
           /\ DOMAIN snapshots[j] = 1..Len(snapshots[j]) /\ DOMAIN audit[j] = 1..Len(audit[j])
           /\ DOMAIN snapshots'[j] = 1..Len(snapshots[j]) + 1
           /\ DOMAIN audit'[j] = 1..Len(audit[j]) + 1
           /\ Len(snapshots'[j]) = Len(snapshots[j]) + 1
           /\ Len(audit'[j]) = Len(audit[j]) + 1
           /\ \A i \in DOMAIN snapshots[j] : snapshots'[j][i] = snapshots[j][i]
           /\ \A i \in DOMAIN audit[j] : audit'[j][i] = audit[j][i]
           /\ snapshots'[j][Len(snapshots[j]) + 1] = snapshot
           /\ audit'[j][Len(audit[j]) + 1] = event
           /\ journey'[j] = RowFor(Len(snapshots[j]) + 1, snapshot)
           /\ \A k \in JourneyIds \ {j} : /\ snapshots'[k] = snapshots[k]
                                          /\ audit'[k] = audit[k]
                                          /\ journey'[k] = journey[k]
  <1>1. /\ snapshots \in [JourneyIds -> Seq(Snapshot)]
        /\ journey \in [JourneyIds -> JourneyRow]
        /\ audit \in [JourneyIds -> Seq(AuditEvent)]
    BY DEF TypeOK
  <1>2. /\ snapshots'[j] = Append(snapshots[j], snapshot)
        /\ audit'[j] = Append(audit[j], event)
        /\ journey'[j] = RowFor(Len(snapshots[j]) + 1, snapshot)
        /\ \A k \in JourneyIds \ {j} : /\ snapshots'[k] = snapshots[k]
                                       /\ audit'[k] = audit[k]
                                       /\ journey'[k] = journey[k]
    BY <1>1 DEF WriteMutation
  <1>3. snapshots[j] \in Seq(Snapshot) /\ audit[j] \in Seq(AuditEvent)
    BY <1>1
  <1>4. /\ Len(snapshots[j]) \in Nat /\ DOMAIN snapshots[j] = 1..Len(snapshots[j])
        /\ Len(audit[j]) \in Nat /\ DOMAIN audit[j] = 1..Len(audit[j])
    BY <1>3, LenProperties
  <1>5. /\ DOMAIN snapshots'[j] = 1..Len(snapshots[j]) + 1
        /\ Len(snapshots'[j]) = Len(snapshots[j]) + 1
        /\ \A i \in DOMAIN snapshots[j] : snapshots'[j][i] = snapshots[j][i]
        /\ snapshots'[j][Len(snapshots[j]) + 1] = snapshot
    BY <1>2, <1>3, <1>4, AppendProperties, LenProperties
  <1>6. /\ DOMAIN audit'[j] = 1..Len(audit[j]) + 1
        /\ Len(audit'[j]) = Len(audit[j]) + 1
        /\ \A i \in DOMAIN audit[j] : audit'[j][i] = audit[j][i]
        /\ audit'[j][Len(audit[j]) + 1] = event
    BY <1>2, <1>3, <1>4, AppendProperties, LenProperties
  <1> QED  BY <1>2, <1>4, <1>5, <1>6

-----------------------------------------------------------------------------
(* The three kinds of step.                                                *)

\* The mutation that writes a value to the fields its event names, and the event that
\* announces a completion.
Mutates(j, snapshot, event) ==
    /\ WriteMutation(j, snapshot, event)
    /\ \E question \in Ambiguities \cup {NoAmbiguity} :
          LET plain == Successor(j, journey[j].current, event.fields, event.value, question)
          IN  snapshot \in {plain, [plain EXCEPT !.readiness = "NEEDS_REVIEW"]}
    /\ outbox' \in {[outbox EXCEPT ![j] = @ \o CompletedEvents(j, snapshot)],
                    [outbox EXCEPT ![j] = (@ \o CompletedEvents(j, snapshot))
                                            \o <<"REVIEW_REQUIRED">>]}

LeavesHistory ==
    /\ UNCHANGED journeyVars
    /\ \/ outbox' = outbox
       \/ \E j \in JourneyIds, event \in EventType \ {"JOURNEY_COMPLETED"} :
             outbox' = [outbox EXCEPT ![j] = Append(@, event)]

\* A journey that can be mutated has been created.
Mutation(j, snapshot, event) ==
    /\ Mutates(j, snapshot, event)
    /\ journey[j].current = Len(snapshots[j])
    /\ journey[j].current \in DOMAIN snapshots[j]

LEMMA CommitKind ==
    ASSUME ChainInvariant, NEW c \in Clients, Prepared(c), CommitApply(c) \/ ReopenAndCommit(c)
    PROVE  /\ request[c].journey \in JourneyIds
           /\ tx[c].snapshot \in Snapshot
           /\ ActionExecuted(request[c]) \in AuditEvent
           /\ Mutation(request[c].journey, tx[c].snapshot, ActionExecuted(request[c]))
  <1> DEFINE req == request[c]
             j   == req.journey
             in  == req.input
  <1>1. pc[c] = "open"
    BY DEF CommitApply, ReopenAndCommit
  <1>2. /\ j \in JourneyIds /\ req \in ApplyRequest /\ tx[c].snapshot \in Snapshot
        /\ journey[j].current = Len(snapshots[j])
        /\ journey[j].current \in DOMAIN snapshots[j]
    BY <1>1, RequestContext, OpenContext
  <1>3. req.expected = journey[j].current
    BY <1>1, <1>2, GroundedIsInvariant DEF Grounded
  <1>4. /\ ActionExecuted(req) \in AuditEvent
        /\ ActionExecuted(req).fields = Satisfies[in.action]
        /\ ActionExecuted(req).value = GivenValue(in)
        /\ Question(in) \in Ambiguities \cup {NoAmbiguity}
    BY <1>2, ActionTypes, GivenValueIsNewValue DEF ActionExecuted
  <1>5. tx[c].snapshot = Successor(j, journey[j].current, ActionExecuted(req).fields,
                                   ActionExecuted(req).value, Question(in))
    BY <1>1, <1>3, <1>4 DEF Prepared
  <1>6. WriteMutation(j, tx[c].snapshot, ActionExecuted(req))
    BY DEF CommitApply, ReopenAndCommit
  <1>7. outbox' \in {[outbox EXCEPT ![j] = @ \o CompletedEvents(j, tx[c].snapshot)],
                     [outbox EXCEPT ![j] = (@ \o CompletedEvents(j, tx[c].snapshot))
                                             \o <<"REVIEW_REQUIRED">>]}
    <2>1. CASE ReopenAndCommit(c)
      BY <2>1 DEF ReopenAndCommit
    <2>2. CASE CommitApply(c)
      <3>1. outbox' = [outbox EXCEPT ![j] = (@ \o CompletedEvents(j, tx[c].snapshot))
                          \o IF tx[c].case.found = "new" THEN <<"REVIEW_REQUIRED">> ELSE <<>>]
        BY <2>2 DEF CommitApply
      <3>2. outbox[j] \o CompletedEvents(j, tx[c].snapshot) \in Seq(EventType)
        BY <1>2, CompletedEventsType, ConcatProperties DEF ChainInvariant, TypeOK
      <3>3. (outbox[j] \o CompletedEvents(j, tx[c].snapshot)) \o <<>>
              = outbox[j] \o CompletedEvents(j, tx[c].snapshot)
        BY <3>2, ConcatEmptySeq
      <3> QED  BY <3>1, <3>3
    <2> QED  BY <2>1, <2>2
  <1> HIDE DEF req, j, in
  <1>8. Mutates(j, tx[c].snapshot, ActionExecuted(req))
    BY <1>4, <1>5, <1>6, <1>7 DEF Mutates
  <1> QED  BY <1>2, <1>4, <1>8 DEF Mutation, j, req

LEMMA AnswerKind ==
    ASSUME TypeOK, NEW j \in JourneyIds, NEW a \in Ambiguities, NEW v \in Value,
           journey[j].current = Len(snapshots[j]), journey[j].current \in DOMAIN snapshots[j],
           WriteAnswer(j, a, v)
    PROVE  \E snapshot \in Snapshot, event \in AuditEvent :
              Mutation(j, snapshot, event) /\ event.key = NoKey /\ event.event # "JOURNEY_CREATED"
  <1> DEFINE event == [event |-> "CLARIFICATION_ANSWERED", what |-> a,
                       fields |-> {AmbiguityField[a]}, value |-> v, key |-> NoKey]
             next  == NextQuestion(j, a)
  <1>1. Clarified(j, a, v) \in Snapshot
    BY ClarifiedType
  <1>2. AmbiguityField[a] \in Fields
    BY PackAssumption
  <1>3. event \in AuditEvent /\ next \in Ambiguities \cup {NoAmbiguity}
    BY <1>2 DEF AuditEvent, NextQuestion
  <1>4. Clarified(j, a, v) =
          IF next = NoAmbiguity
          THEN Successor(j, journey[j].current, event.fields, event.value, next)
          ELSE [Successor(j, journey[j].current, event.fields, event.value, next)
                   EXCEPT !.readiness = "NEEDS_REVIEW"]
    BY DEF Clarified
  <1>5. /\ WriteMutation(j, Clarified(j, a, v), event)
        /\ outbox' = [outbox EXCEPT ![j] = @ \o CompletedEvents(j, Clarified(j, a, v))]
    BY DEF WriteAnswer
  <1>6. event.key = NoKey /\ event.event # "JOURNEY_CREATED"
    OBVIOUS
  <1> HIDE DEF event, next
  <1>7. Mutation(j, Clarified(j, a, v), event)
    BY <1>3, <1>4, <1>5 DEF Mutation, Mutates
  <1> QED  BY <1>1, <1>3, <1>6, <1>7

\* Every step of the customer side is of one of the three kinds.
LEMMA StepKinds ==
    ASSUME ChainInvariant, AllPrepared, [Next]_vars
    PROVE  \/ LeavesHistory
           \/ \E j \in JourneyIds : CreateJourney(j)
           \/ \E j \in JourneyIds, snapshot \in Snapshot, event \in AuditEvent :
                 Mutation(j, snapshot, event)
  <1>1. ASSUME NEW c \in Clients,
               \/ BeginApply(c) \/ BeginClarify(c) \/ ReplayAfterWait(c) \/ RejectApply(c)
               \/ OpenApply(c) \/ RejectClarify(c) \/ CollideOnKey(c) \/ CollideOnNumber(c)
               \/ FinishApply(c) \/ Crash(c) \/ Return(c)
        PROVE  LeavesHistory
    BY <1>1 DEF BeginApply, BeginClarify, ReplayAfterWait, RejectApply, OpenApply,
       RejectClarify, CollideOnKey, CollideOnNumber, FinishApply, Crash, Return, LeavesHistory
  <1>2. ASSUME NEW c \in Clients, Clarify(c)
        PROVE  \E j \in JourneyIds, snapshot \in Snapshot, event \in AuditEvent :
                 Mutation(j, snapshot, event)
    <2> DEFINE req == request[c]
               j   == req.journey
    <2>1. pc[c] = "waiting" /\ req.op = "clarify"
      BY <1>2 DEF Clarify, Granted
    <2>2. /\ j \in JourneyIds /\ journey[j].current \in DOMAIN snapshots[j] /\ req \in Request
          /\ journey[j].current = Len(snapshots[j])
      BY <2>1, RequestContext
    <2>3. req.input \in Answer
      BY <2>1, <2>2, InputsAssumption DEF Request, ApplyRequest, ClarifyRequest
    <2>4. req.input.ambiguity \in Ambiguities /\ req.input.typed \in Value
      BY <2>3 DEF Answer, Value
    <2>5. WriteAnswer(j, req.input.ambiguity, req.input.typed)
      BY <1>2 DEF Clarify
    <2> QED  BY <2>2, <2>4, <2>5, AnswerKind DEF ChainInvariant
  <1>3. ASSUME NEW c \in Clients, CommitApply(c) \/ ReopenAndCommit(c)
        PROVE  \E j \in JourneyIds, snapshot \in Snapshot, event \in AuditEvent :
                 Mutation(j, snapshot, event)
    BY <1>3, CommitKind DEF AllPrepared
  <1>4. ASSUME NEW u \in Uploads, AnalyseEvidence(u) \/ StoreEvidence(u) \/ AbortEvidence(u)
        PROVE  LeavesHistory
    <2>1. CASE AnalyseEvidence(u) \/ AbortEvidence(u)
      BY <2>1 DEF AnalyseEvidence, AbortEvidence, LeavesHistory
    <2>2. CASE StoreEvidence(u)
      <3> DEFINE j == evidence[u].journey
      <3>1. /\ UNCHANGED journeyVars
            /\ outbox' = [outbox EXCEPT ![j] = Append(@, "EVIDENCE_UPLOADED")]
        BY <2>2 DEF StoreEvidence
      <3>2. "EVIDENCE_UPLOADED" \in EventType \ {"JOURNEY_COMPLETED"}
        BY DEF EventType
      <3>3. CASE j \in JourneyIds
        BY <3>1, <3>2, <3>3 DEF LeavesHistory
      <3>4. CASE j \notin JourneyIds
        <4>1. outbox' = outbox
          BY <3>1, <3>4 DEF ChainInvariant, TypeOK
        <4> QED  BY <3>1, <4>1 DEF LeavesHistory
      <3> QED  BY <3>3, <3>4
    <2> QED  BY <1>4, <2>1, <2>2
  <1>5. ASSUME NEW j \in JourneyIds, AskCustomer(j)
        PROVE  LeavesHistory
    <2>1. "CUSTOMER_ACTION_REQUIRED" \in EventType \ {"JOURNEY_COMPLETED"}
      BY DEF EventType
    <2> QED  BY <1>5, <2>1 DEF AskCustomer, LeavesHistory
  <1>6. CASE UNCHANGED vars
    BY <1>6 DEF vars, LeavesHistory, journeyVars
  <1> QED  BY <1>1, <1>2, <1>3, <1>4, <1>5, <1>6 DEF Next, CustomerNext, Serve, Finish

\* A row of the history, once written, is never written again.
LEMMA HistoryIsKept ==
    ASSUME TypeOK, NEW k \in JourneyIds,
           \/ LeavesHistory
           \/ \E j \in JourneyIds : CreateJourney(j)
           \/ \E j \in JourneyIds, snapshot \in Snapshot, event \in AuditEvent :
                 Mutation(j, snapshot, event)
    PROVE  \A i \in DOMAIN snapshots[k] :
              i \in DOMAIN snapshots'[k] /\ snapshots'[k][i] = snapshots[k][i]
  <1>1. CASE LeavesHistory
    BY <1>1 DEF LeavesHistory, journeyVars
  <1>2. ASSUME NEW j \in JourneyIds, CreateJourney(j)
        PROVE  \A i \in DOMAIN snapshots[k] :
                  i \in DOMAIN snapshots'[k] /\ snapshots'[k][i] = snapshots[k][i]
    <2>1. CASE k = j
      BY <1>2, <2>1 DEF CreateJourney, Created
    <2>2. CASE k # j
      BY <1>2, <2>2 DEF CreateJourney, TypeOK
    <2> QED  BY <2>1, <2>2
  <1>3. ASSUME NEW j \in JourneyIds, NEW snapshot \in Snapshot, NEW event \in AuditEvent,
               Mutation(j, snapshot, event)
        PROVE  \A i \in DOMAIN snapshots[k] :
                  i \in DOMAIN snapshots'[k] /\ snapshots'[k][i] = snapshots[k][i]
    <2>1. WriteMutation(j, snapshot, event)
      BY <1>3 DEF Mutation, Mutates
    <2>2. CASE k = j
      <3>1. DOMAIN snapshots[j] \subseteq DOMAIN snapshots'[j]
        BY <2>1, MutationAppends
      <3> QED  BY <2>1, <2>2, MutationAppends
    <2>3. CASE k # j
      BY <2>1, <2>3, MutationAppends
    <2> QED  BY <2>2, <2>3
  <1> QED  BY <1>1, <1>2, <1>3

\* What a transaction has ready depends on rows that are never written again.
LEMMA PreparedIsKept ==
    ASSUME ChainInvariant, NEW d \in Clients, Prepared(d),
           pc[d] \in {"open", "wrote"}, request'[d] = request[d], tx'[d] = tx[d],
           \A k \in JourneyIds : \A i \in DOMAIN snapshots[k] :
              i \in DOMAIN snapshots'[k] /\ snapshots'[k][i] = snapshots[k][i]
    PROVE  Prepared(d)'
  <1>1. request[d].journey \in JourneyIds
        /\ request[d].expected \in DOMAIN snapshots[request[d].journey]
    BY RequestContext, GroundedIsInvariant DEF Grounded
  <1>2. snapshots'[request[d].journey][request[d].expected]
          = snapshots[request[d].journey][request[d].expected]
    BY <1>1
  <1> QED  BY <1>2 DEF Prepared, Successor

\* A request on its way to a commit keeps what it will write.
GoesOn(d) == /\ pc[d] \in {"open", "wrote"}
             /\ pc'[d] = "open" => pc[d] = "open"
             /\ request'[d] = request[d] /\ tx'[d] = tx[d]

\* Only OpenApply prepares; a request that is further on is as it was.
LEMMA OpenedBefore ==
    ASSUME ChainInvariant, [Next]_vars, NEW d \in Clients, ~OpenApply(d),
           pc'[d] \in {"open", "wrote"}
    PROVE  GoesOn(d)
  <1>1. /\ pc \in [Clients -> {"idle", "waiting", "open", "wrote", "answered"}]
        /\ request \in [Clients -> Request \cup {None}]
        /\ tx \in [Clients -> Writes \cup {None}]
    BY DEF ChainInvariant, TypeOK
  <1>2. ASSUME NEW c \in Clients, NEW outcome, Answered(c, outcome), UNCHANGED request
        PROVE  GoesOn(d)
    BY <1>1, <1>2 DEF Answered, GoesOn
  <1>3. ASSUME NEW c \in Clients, BeginApply(c) \/ BeginClarify(c)
        PROVE  GoesOn(d)
    <2>1. /\ \E r \in Request : request' = [request EXCEPT ![c] = r]
          /\ \/ \E outcome \in {"ok", "refused"} : Answered(c, outcome)
             \/ pc' = [pc EXCEPT ![c] = "waiting"] /\ UNCHANGED <<tx, reply>>
      BY <1>3, BegunRequest DEF ChainInvariant
    <2> QED  BY <1>1, <2>1 DEF Answered, GoesOn
  <1>4. ASSUME NEW c \in Clients, c # d, OpenApply(c)
        PROVE  GoesOn(d)
    BY <1>1, <1>4 DEF OpenApply, GoesOn
  <1>5. ASSUME NEW c \in Clients, ReopenAndCommit(c)
        PROVE  GoesOn(d)
    BY <1>1, <1>5 DEF ReopenAndCommit, GoesOn
  <1>6. ASSUME NEW c \in Clients, Return(c)
        PROVE  GoesOn(d)
    BY <1>1, <1>6 DEF Return, GoesOn
  <1>7. ASSUME NEW c \in Clients,
               \/ ReplayAfterWait(c) \/ RejectApply(c) \/ Clarify(c) \/ RejectClarify(c)
               \/ CommitApply(c) \/ CollideOnKey(c) \/ CollideOnNumber(c) \/ FinishApply(c)
               \/ Crash(c)
        PROVE  GoesOn(d)
    <2>1. UNCHANGED request /\ \E outcome : Answered(c, outcome)
      BY <1>7 DEF ReplayAfterWait, RejectApply, Clarify, RejectClarify, CommitApply,
         CollideOnKey, CollideOnNumber, FinishApply, Crash
    <2> QED  BY <1>2, <2>1
  <1>8. CASE UNCHANGED clientVars
    BY <1>8 DEF clientVars, GoesOn
  <1>9. \/ UNCHANGED clientVars
        \/ \E c \in Clients : \/ BeginApply(c) \/ BeginClarify(c) \/ OpenApply(c)
                              \/ ReopenAndCommit(c) \/ Return(c)
                              \/ ReplayAfterWait(c) \/ RejectApply(c) \/ Clarify(c)
                              \/ RejectClarify(c) \/ CommitApply(c) \/ CollideOnKey(c)
                              \/ CollideOnNumber(c) \/ FinishApply(c) \/ Crash(c)
    <2>1. ASSUME NEW j \in JourneyIds, CreateJourney(j) \/ AskCustomer(j)
          PROVE  UNCHANGED clientVars
      BY <2>1 DEF CreateJourney, AskCustomer
    <2>2. ASSUME NEW u \in Uploads, AnalyseEvidence(u) \/ StoreEvidence(u) \/ AbortEvidence(u)
          PROVE  UNCHANGED clientVars
      BY <2>2 DEF AnalyseEvidence, StoreEvidence, AbortEvidence
    <2>3. UNCHANGED vars => UNCHANGED clientVars
      BY DEF vars, clientVars
    <2> QED  BY <2>1, <2>2, <2>3 DEF Next, CustomerNext, Serve, Finish
  <1> QED  BY <1>3, <1>4, <1>5, <1>6, <1>7, <1>8, <1>9

LEMMA PreparedStep ==
    ASSUME ChainInvariant, AllPrepared, [Next]_vars
    PROVE  AllPrepared'
  <1>1. \A k \in JourneyIds : \A i \in DOMAIN snapshots[k] :
           i \in DOMAIN snapshots'[k] /\ snapshots'[k][i] = snapshots[k][i]
    BY StepKinds, HistoryIsKept DEF ChainInvariant
  <1>2. ASSUME NEW d \in Clients, ~OpenApply(d)
        PROVE  Prepared(d)'
    <2>1. CASE pc'[d] \in {"open", "wrote"}
      BY <1>1, <1>2, <2>1, OpenedBefore, PreparedIsKept DEF AllPrepared, GoesOn
    <2>2. CASE pc'[d] \notin {"open", "wrote"}
      BY <2>2 DEF Prepared
    <2> QED  BY <2>1, <2>2
  <1>3. ASSUME NEW d \in Clients, OpenApply(d)
        PROVE  Prepared(d)'
    <2> DEFINE req == request[d]
               j   == req.journey
               in  == req.input
    <2>1. pc[d] = "waiting" /\ req.expected = journey[j].current
      BY <1>3 DEF OpenApply, Granted, Checked, UpToDate
    <2>2. PICK read : tx' = [tx EXCEPT ![d] =
             [snapshot |-> Successor(j, journey[j].current, Satisfies[in.action],
                                     NewValue(in.action, EvidenceRow(in), in.typed),
                                     Question(in)),
              case |-> read]]
      BY <1>3 DEF OpenApply
    <2>3. tx'[d].snapshot = Successor(j, req.expected, Satisfies[in.action], GivenValue(in),
                                      Question(in))
      BY <2>1, <2>2, GivenValueIsNewValue DEF ChainInvariant, TypeOK
    <2>4. UNCHANGED <<request, snapshots>>
      BY <1>3 DEF OpenApply, journeyVars
    <2> QED  BY <2>3, <2>4 DEF Prepared, Successor
  <1> QED  BY <1>2, <1>3 DEF AllPrepared

-----------------------------------------------------------------------------
(* The audit trail accounts for the state.                                 *)

WritesTo(j, f) == {i \in DOMAIN audit[j] : f \in audit[j][i].fields}

\* What AuditAccountsForState says of one journey, with the trail as long as the history
\* from the start, and with a last write wherever there is a write.
Accounted(j) ==
    /\ Len(audit[j]) = Len(snapshots[j])
    /\ \A f \in Fields : WritesTo(j, f) # {} =>
          \E m \in WritesTo(j, f) : \A i \in WritesTo(j, f) : m >= i
    /\ Created(j) => /\ Current(j).value = DeriveValue([f \in Fields |-> Replayed(j, f)])
                     /\ journey[j].readiness = Current(j).readiness

LEMMA MaxIsLast ==
    ASSUME NEW S \in SUBSET Nat, NEW m \in S, \A i \in S : m >= i
    PROVE  Max(S) = m
  <1> DEFINE greatest == Max(S)
  <1>1. greatest \in S /\ \A i \in S : greatest >= i
    BY DEF Max
  <1>2. greatest >= m /\ m >= greatest /\ greatest \in Nat /\ m \in Nat
    BY <1>1
  <1> HIDE DEF greatest
  <1>3. greatest = m
    BY <1>2
  <1> QED  BY <1>3 DEF greatest

\* The rows a mutation makes current, and what the trail then says of each field.
LEMMA MutationContext ==
    ASSUME TypeOK, NEW j \in JourneyIds, NEW snapshot \in Snapshot, NEW event \in AuditEvent,
           Mutation(j, snapshot, event)
    PROVE  /\ WriteMutation(j, snapshot, event)
           /\ Created(j) /\ Created(j)'
           /\ Current(j) = snapshots[j][Len(snapshots[j])]
           /\ Current(j)' = snapshot
           /\ journey'[j].readiness = snapshot.readiness
           /\ snapshot.value = DeriveValue([f \in Fields |-> IF f \in event.fields
                                               THEN event.value ELSE Current(j).value[f]])
  <1>1. WriteMutation(j, snapshot, event)
    BY DEF Mutation, Mutates
  <1>2. /\ journey[j].current = Len(snapshots[j])
        /\ Len(snapshots[j]) \in DOMAIN snapshots[j]
    BY DEF Mutation
  <1>3. /\ Len(snapshots[j]) \in Nat
        /\ snapshots'[j][Len(snapshots[j]) + 1] = snapshot
        /\ Len(snapshots'[j]) = Len(snapshots[j]) + 1
        /\ DOMAIN snapshots[j] = 1..Len(snapshots[j])
        /\ journey'[j] = RowFor(Len(snapshots[j]) + 1, snapshot)
    BY <1>1, MutationAppends
  <1>4. Current(j)' = snapshot /\ journey'[j].readiness = snapshot.readiness
    BY <1>3 DEF Current, RowFor
  <1>5. Created(j) /\ Created(j)' /\ Current(j) = snapshots[j][Len(snapshots[j])]
    BY <1>2, <1>3 DEF Created, Current
  <1>6. snapshot.value = DeriveValue([f \in Fields |-> IF f \in event.fields
                                         THEN event.value ELSE Current(j).value[f]])
    <2>1. PICK question \in Ambiguities \cup {NoAmbiguity} :
             LET plain == Successor(j, journey[j].current, event.fields, event.value, question)
             IN  snapshot \in {plain, [plain EXCEPT !.readiness = "NEEDS_REVIEW"]}
      BY DEF Mutation, Mutates
    <2>2. snapshot.value =
             Successor(j, journey[j].current, event.fields, event.value, question).value
      BY <2>1 DEF Successor
    <2> QED  BY <2>2, <1>2 DEF Successor, Current
  <1> QED  BY <1>1, <1>4, <1>5, <1>6

\* After a mutation the trail gives a field what the mutation wrote, or what it gave before.
LEMMA ReplayedAfter ==
    ASSUME TypeOK, NEW j \in JourneyIds, NEW snapshot \in Snapshot, NEW event \in AuditEvent,
           WriteMutation(j, snapshot, event), Accounted(j), NEW f \in Fields
    PROVE  /\ Replayed(j, f)' = IF f \in event.fields THEN event.value ELSE Replayed(j, f)
           /\ WritesTo(j, f)' # {} =>
                 \E m \in WritesTo(j, f)' : \A i \in WritesTo(j, f)' : m >= i
  <1> DEFINE n      == Len(audit[j])
             writes == WritesTo(j, f)
  <1>1. /\ n \in Nat /\ DOMAIN audit[j] = 1..n /\ DOMAIN audit'[j] = 1..n + 1
        /\ \A i \in 1..n : audit'[j][i] = audit[j][i]
        /\ audit'[j][n + 1] = event
    BY MutationAppends
  <1>2. writes \in SUBSET (1..n) /\ WritesTo(j, f)' \in SUBSET (1..n + 1)
    BY <1>1 DEF WritesTo
  <1>3. CASE f \in event.fields
    <2>1. WritesTo(j, f)' = writes \cup {n + 1}
      BY <1>1, <1>3 DEF WritesTo
    <2>2. \A i \in WritesTo(j, f)' : n + 1 >= i
      BY <1>1, <1>2
    <2>3. Max(WritesTo(j, f)') = n + 1
      <3>1. WritesTo(j, f)' \in SUBSET Nat /\ n + 1 \in WritesTo(j, f)'
        BY <1>1, <1>2, <2>1
      <3> HIDE DEF n
      <3> QED  BY <2>2, <3>1, MaxIsLast
    <2>4. Replayed(j, f)' = audit'[j][Max(WritesTo(j, f)')].value
      BY <2>1 DEF Replayed, WritesTo
    <2> QED  BY <1>1, <1>3, <2>1, <2>2, <2>3, <2>4
  <1>4. CASE f \notin event.fields
    <2>1. WritesTo(j, f)' = writes
      BY <1>1, <1>4 DEF WritesTo
    <2>2. CASE writes = {}
      BY <1>4, <2>1, <2>2 DEF Replayed, WritesTo
    <2>3. CASE writes # {}
      <3>1. PICK m \in writes : \A i \in writes : m >= i
        BY <2>3 DEF Accounted
      <3>2. Max(writes) = m /\ m \in 1..n
        <4>1. writes \in SUBSET Nat
          BY <1>1, <1>2
        <4> HIDE DEF writes
        <4> QED  BY <1>2, <3>1, <4>1, MaxIsLast
      <3>3. Replayed(j, f) = audit[j][m].value
        BY <2>3, <3>2 DEF Replayed, WritesTo
      <3>4. Replayed(j, f)' = audit'[j][m].value
        BY <2>1, <2>3, <3>2 DEF Replayed, WritesTo
      <3> QED  BY <1>1, <1>4, <2>1, <3>1, <3>2, <3>3, <3>4
    <2> QED  BY <2>2, <2>3
  <1> QED  BY <1>3, <1>4

LEMMA MutationIsAccounted ==
    ASSUME TypeOK, NEW j \in JourneyIds, NEW snapshot \in Snapshot, NEW event \in AuditEvent,
           Mutation(j, snapshot, event), Accounted(j)
    PROVE  Accounted(j)'
  <1>1. /\ WriteMutation(j, snapshot, event)
        /\ Created(j) /\ Created(j)' /\ Current(j)' = snapshot
        /\ journey'[j].readiness = snapshot.readiness
        /\ snapshot.value = DeriveValue([f \in Fields |-> IF f \in event.fields
                                            THEN event.value ELSE Current(j).value[f]])
    BY MutationContext
  <1>2. Len(audit'[j]) = Len(snapshots'[j])
    BY <1>1, MutationAppends DEF Accounted
  <1>3. \A f \in Fields :
          /\ Replayed(j, f)' = IF f \in event.fields THEN event.value ELSE Replayed(j, f)
          /\ WritesTo(j, f)' # {} =>
                \E m \in WritesTo(j, f)' : \A i \in WritesTo(j, f)' : m >= i
    BY <1>1, ReplayedAfter
  <1>4. Current(j).value = DeriveValue([f \in Fields |-> Replayed(j, f)])
    BY <1>1 DEF Accounted
  <1>5. ASSUME NEW f \in Fields, Applicable(f)
        PROVE  Current(j).value[f] = Replayed(j, f)
    BY <1>4, <1>5 DEF DeriveValue
  <1>6. snapshot.value = DeriveValue([f \in Fields |-> Replayed(j, f)'])
    BY <1>1, <1>3, <1>5 DEF DeriveValue
  <1> QED  BY <1>1, <1>2, <1>3, <1>6 DEF Accounted, DeriveValue, Applicable

\* A journey that no step touches keeps its account.
LEMMA UntouchedIsAccounted ==
    ASSUME NEW k \in JourneyIds, Accounted(k), snapshots'[k] = snapshots[k],
           audit'[k] = audit[k], journey'[k] = journey[k]
    PROVE  Accounted(k)'
  BY DEF Accounted, WritesTo, Created, Current, Replayed

\* A new journey: its first event writes no field, and no field was written before.
LEMMA CreatedIsAccounted ==
    ASSUME TypeOK, NEW j \in JourneyIds, CreateJourney(j)
    PROVE  Accounted(j)'
  <1>1. /\ snapshots'[j] = <<InitialSnapshot>>
        /\ journey'[j] = [current |-> 1, status |-> "IN_PROGRESS",
                          readiness |-> InitialSnapshot.readiness]
        /\ audit'[j] = <<[event |-> "JOURNEY_CREATED", what |-> None, fields |-> {},
                          value |-> "none", key |-> NoKey]>>
    BY DEF CreateJourney, TypeOK
  <1>2. \A f \in Fields : WritesTo(j, f)' = {} /\ Replayed(j, f)' = InitialValue[f]
    BY <1>1 DEF WritesTo, Replayed
  <1>3. Current(j)' = InitialSnapshot
    BY <1>1 DEF Current
  <1>4. InitialSnapshot.value = DeriveValue([f \in Fields |-> Replayed(j, f)'])
    BY <1>2 DEF InitialSnapshot, DeriveValue
  <1>5. Len(audit'[j]) = 1 /\ Len(snapshots'[j]) = 1
    BY <1>1
  <1> QED  BY <1>1, <1>2, <1>3, <1>4, <1>5 DEF Accounted

LEMMA AccountedStep ==
    ASSUME TypeOK, NEW k \in JourneyIds, Accounted(k),
           \/ LeavesHistory
           \/ \E j \in JourneyIds : CreateJourney(j)
           \/ \E j \in JourneyIds, snapshot \in Snapshot, event \in AuditEvent :
                 Mutation(j, snapshot, event)
    PROVE  Accounted(k)'
  <1>1. CASE LeavesHistory
    BY <1>1, UntouchedIsAccounted DEF LeavesHistory, journeyVars
  <1>2. ASSUME NEW j \in JourneyIds, CreateJourney(j)
        PROVE  Accounted(k)'
    <2>1. CASE k = j
      BY <1>2, <2>1, CreatedIsAccounted
    <2>2. CASE k # j
      <3>1. /\ snapshots'[k] = snapshots[k] /\ audit'[k] = audit[k]
            /\ journey'[k] = journey[k]
        BY <1>2, <2>2 DEF CreateJourney, TypeOK
      <3> QED  BY <3>1, UntouchedIsAccounted
    <2> QED  BY <2>1, <2>2
  <1>3. ASSUME NEW j \in JourneyIds, NEW snapshot \in Snapshot, NEW event \in AuditEvent,
               Mutation(j, snapshot, event)
        PROVE  Accounted(k)'
    <2>1. CASE k = j
      BY <1>3, <2>1, MutationIsAccounted
    <2>2. CASE k # j
      <3>1. /\ snapshots'[k] = snapshots[k] /\ audit'[k] = audit[k]
            /\ journey'[k] = journey[k]
        BY <1>3, <2>2, MutationAppends DEF Mutation, Mutates
      <3> QED  BY <3>1, UntouchedIsAccounted
    <2> QED  BY <2>1, <2>2
  <1> QED  BY <1>1, <1>2, <1>3


-----------------------------------------------------------------------------
(* A completion is announced once.                                         *)

CompletionEvents(queue) == {n \in DOMAIN queue : queue[n] = "JOURNEY_COMPLETED"}

Completions(j) == {i \in DOMAIN snapshots[j] \ {1} :
                      /\ snapshots[j][i].readiness = "READY"
                      /\ snapshots[j][i - 1].readiness # "READY"}

AnnouncedOnce(j) == Cardinality(CompletionEvents(outbox[j])) = Cardinality(Completions(j))

\* One more event in the queue announces one completion, or none.
LEMMA AnnouncedAfter ==
    ASSUME NEW queue \in Seq(EventType), NEW event \in EventType
    PROVE  /\ Cardinality(CompletionEvents(queue)) \in Nat
           /\ Cardinality(CompletionEvents(Append(queue, event))) =
                 IF event = "JOURNEY_COMPLETED" THEN Cardinality(CompletionEvents(queue)) + 1
                 ELSE Cardinality(CompletionEvents(queue))
  <1> DEFINE n    == Len(queue)
             more == Append(queue, event)
  <1>1. /\ n \in Nat /\ DOMAIN queue = 1..n /\ DOMAIN more = 1..n + 1
        /\ \A i \in 1..n : more[i] = queue[i]
        /\ more[n + 1] = event
    BY LenProperties, AppendProperties
  <1>2. CompletionEvents(queue) \in SUBSET (1..n)
    BY <1>1 DEF CompletionEvents
  <1>3. IsFiniteSet(CompletionEvents(queue)) /\ Cardinality(CompletionEvents(queue)) \in Nat
    <2>1. IsFiniteSet(1..n)
      BY <1>1, FS_Interval
    <2>2. IsFiniteSet(CompletionEvents(queue))
      BY <1>2, <2>1, FS_Subset
    <2> QED  BY <2>2, FS_CardinalityType
  <1>4. CASE event = "JOURNEY_COMPLETED"
    <2>1. /\ CompletionEvents(more) = CompletionEvents(queue) \cup {n + 1}
          /\ n + 1 \notin CompletionEvents(queue)
      BY <1>1, <1>4 DEF CompletionEvents
    <2> QED  BY <1>3, <1>4, <2>1, FS_AddElement
  <1>5. CASE event # "JOURNEY_COMPLETED"
    <2>1. CompletionEvents(more) = CompletionEvents(queue)
      BY <1>1, <1>5 DEF CompletionEvents
    <2> QED  BY <1>3, <1>5, <2>1
  <1> QED  BY <1>3, <1>4, <1>5

\* A mutation queues the announcement exactly when it enters READY.
LEMMA MutationIsAnnounced ==
    ASSUME TypeOK, NEW j \in JourneyIds, NEW snapshot \in Snapshot, NEW event \in AuditEvent,
           Mutation(j, snapshot, event), Accounted(j), AnnouncedOnce(j)
    PROVE  AnnouncedOnce(j)'
  <1> DEFINE n      == Len(snapshots[j])
             enters == snapshots[j][n].readiness # "READY" /\ snapshot.readiness = "READY"
             queue  == outbox[j] \o CompletedEvents(j, snapshot)
  <1>1. /\ WriteMutation(j, snapshot, event)
        /\ Created(j) /\ Current(j) = snapshots[j][n]
    BY MutationContext
  <1>2. /\ n \in Nat \ {0} /\ DOMAIN snapshots[j] = 1..n /\ DOMAIN snapshots'[j] = 1..n + 1
        /\ \A i \in 1..n : snapshots'[j][i] = snapshots[j][i]
        /\ snapshots'[j][n + 1] = snapshot
    BY <1>1, MutationAppends DEF Mutation
  <1>3. CompletedEvents(j, snapshot) = IF enters THEN <<"JOURNEY_COMPLETED">> ELSE <<>>
    BY <1>1 DEF Accounted, CompletedEvents
  <1>4. outbox[j] \in Seq(EventType)
    BY DEF TypeOK
  <1>5. /\ queue \in Seq(EventType)
        /\ Cardinality(CompletionEvents(outbox[j])) \in Nat
        /\ Cardinality(CompletionEvents(queue)) = IF enters THEN Cardinality(CompletionEvents(outbox[j])) + 1
                                           ELSE Cardinality(CompletionEvents(outbox[j]))
    <2>1. "JOURNEY_COMPLETED" \in EventType
      BY DEF EventType
    <2>2. queue = IF enters THEN Append(outbox[j], "JOURNEY_COMPLETED") ELSE outbox[j]
      BY <1>3, <1>4, <2>1, AppendIsConcat, ConcatEmptySeq, ZenonT(60)
    <2> HIDE DEF enters, queue
    <2> QED  BY <1>4, <2>1, <2>2, AnnouncedAfter, AppendProperties
  <1>6. Cardinality(CompletionEvents(outbox'[j])) = Cardinality(CompletionEvents(queue))
    <2>1. outbox'[j] = queue \/ outbox'[j] = queue \o <<"REVIEW_REQUIRED">>
      <3>1. \/ outbox' = [outbox EXCEPT ![j] = queue]
            \/ outbox' = [outbox EXCEPT ![j] = queue \o <<"REVIEW_REQUIRED">>]
        BY DEF Mutation, Mutates
      <3> HIDE DEF queue
      <3> QED  BY <3>1 DEF TypeOK
    <2>2. "REVIEW_REQUIRED" \in EventType
      BY DEF EventType
    <2> HIDE DEF queue, enters
    <2>3. queue \in Seq(EventType)
      BY <1>5
    <2>4. queue \o <<"REVIEW_REQUIRED">> = Append(queue, "REVIEW_REQUIRED")
      BY <2>2, <2>3, AppendIsConcat
    <2>5. Cardinality(CompletionEvents(Append(queue, "REVIEW_REQUIRED")))
            = Cardinality(CompletionEvents(queue))
      BY <2>2, <2>3, AnnouncedAfter
    <2> QED  BY <2>1, <2>4, <2>5
  <1>7. Completions(j) \in SUBSET (1..n)
    BY <1>2 DEF Completions
  <1>8. Completions(j)' = IF enters THEN Completions(j) \cup {n + 1} ELSE Completions(j)
    <2>1. ASSUME NEW i \in 1..n + 1
          PROVE  i \in Completions(j)' <=> IF i = n + 1 THEN enters ELSE i \in Completions(j)
      <3>1. CASE i = n + 1
        BY <1>2, <3>1 DEF Completions
      <3>2. CASE i # n + 1 /\ i # 1
        <4>1. i \in 1..n /\ i - 1 \in 1..n
          BY <1>2, <3>2
        <4> QED  BY <1>2, <3>2, <4>1 DEF Completions
      <3>3. CASE i = 1
        BY <1>2, <3>3 DEF Completions
      <3> QED  BY <3>1, <3>2, <3>3
    <2>2. Completions(j)' \in SUBSET (1..n + 1)
      BY <1>2 DEF Completions
    <2>3. Completions(j) \in SUBSET (1..n + 1) /\ n + 1 \notin Completions(j)
      BY <1>2, <1>7
    <2>4. n + 1 \in 1..n + 1
      BY <1>2
    <2> HIDE DEF enters, n
    <2> DEFINE before == Completions(j)
               after  == Completions(j)'
    <2>5. /\ before \in SUBSET (1..n + 1) /\ after \in SUBSET (1..n + 1)
          /\ \A i \in 1..n + 1 : i \in after <=> IF i = n + 1 THEN enters ELSE i \in before
      BY <2>1, <2>2, <2>3
    <2> HIDE DEF before, after
    <2>6. CASE enters
      <3>1. after = before \cup {n + 1}
        BY <2>4, <2>5, <2>6
      <3> QED  BY <2>6, <3>1 DEF before, after
    <2>7. CASE ~enters
      <3>1. after = before
        BY <2>3, <2>5, <2>7 DEF before
      <3> QED  BY <2>7, <3>1 DEF before, after
    <2> QED  BY <2>6, <2>7
  <1>9. /\ IsFiniteSet(Completions(j)) /\ n + 1 \notin Completions(j)
    <2>1. IsFiniteSet(1..n)
      BY <1>2, FS_Interval
    <2>2. IsFiniteSet(Completions(j))
      BY <1>7, <2>1, FS_Subset
    <2> QED  BY <1>2, <1>7, <2>2
  <1> HIDE DEF n, enters, queue
  <1>10. Cardinality(Completions(j)') = IF enters THEN Cardinality(Completions(j)) + 1
                                        ELSE Cardinality(Completions(j))
    BY <1>8, <1>9, FS_AddElement
  <1> QED  BY <1>5, <1>6, <1>10 DEF AnnouncedOnce

LEMMA AnnouncedStep ==
    ASSUME TypeOK, NEW k \in JourneyIds, Accounted(k), AnnouncedOnce(k),
           \/ LeavesHistory
           \/ \E j \in JourneyIds : CreateJourney(j)
           \/ \E j \in JourneyIds, snapshot \in Snapshot, event \in AuditEvent :
                 Mutation(j, snapshot, event)
    PROVE  AnnouncedOnce(k)'
  <1>0. outbox[k] \in Seq(EventType)
    BY DEF TypeOK
  <1>1. CASE LeavesHistory
    <2>1. Completions(k)' = Completions(k)
      BY <1>1 DEF LeavesHistory, journeyVars, Completions
    <2>2. \/ outbox'[k] = outbox[k]
          \/ \E event \in EventType \ {"JOURNEY_COMPLETED"} :
                outbox'[k] = Append(outbox[k], event)
      BY <1>1 DEF LeavesHistory, TypeOK
    <2>3. Cardinality(CompletionEvents(outbox'[k])) = Cardinality(CompletionEvents(outbox[k]))
      BY <1>0, <2>2, AnnouncedAfter
    <2> QED  BY <2>1, <2>3 DEF AnnouncedOnce
  <1>2. ASSUME NEW j \in JourneyIds, CreateJourney(j)
        PROVE  AnnouncedOnce(k)'
    <2>1. outbox' = outbox
      BY <1>2 DEF CreateJourney
    <2>2. Completions(k)' = Completions(k)
      <3>1. CASE k = j
        <4>1. snapshots[k] = <<>> /\ snapshots'[k] = <<InitialSnapshot>>
          BY <1>2, <3>1 DEF CreateJourney, Created, TypeOK
        <4> QED  BY <4>1 DEF Completions
      <3>2. CASE k # j
        <4>1. snapshots'[k] = snapshots[k]
          BY <1>2, <3>2 DEF CreateJourney, TypeOK
        <4> QED  BY <4>1 DEF Completions
      <3> QED  BY <3>1, <3>2
    <2> QED  BY <2>1, <2>2 DEF AnnouncedOnce
  <1>3. ASSUME NEW j \in JourneyIds, NEW snapshot \in Snapshot, NEW event \in AuditEvent,
               Mutation(j, snapshot, event)
        PROVE  AnnouncedOnce(k)'
    <2>1. CASE k = j
      BY <1>3, <2>1, MutationIsAnnounced
    <2>2. CASE k # j
      <3>1. snapshots'[k] = snapshots[k] /\ outbox'[k] = outbox[k]
        BY <1>3, <2>2, MutationAppends, SMTT(30) DEF Mutation, Mutates, TypeOK
      <3> QED  BY <3>1 DEF AnnouncedOnce, Completions
    <2> QED  BY <2>1, <2>2
  <1> QED  BY <1>1, <1>2, <1>3


-----------------------------------------------------------------------------
(* READY is earned.                                                        *)

SettlesOn(S, f, value, explicit, question) ==
    \/ ~Applicable(f)
    \/ /\ Prerequisites(f) \subseteq S
       /\ ~AskedAbout(f, question)
       /\ Supplied(f, value, explicit)

LEMMA PrerequisitesAreFields ==
    ASSUME NEW f
    PROVE  Prerequisites(f) \subseteq Fields
  BY PackAssumption DEF Prerequisites

\* The fields that settle together: the greatest set whose members settle on it.
LEMMA SettlingSet ==
    ASSUME NEW value, NEW explicit, NEW question
    PROVE  \E S \in SUBSET Fields :
              \A f \in Fields : f \in S <=> SettlesOn(S, f, value, explicit, question)
  <1> DEFINE Stable(T) == \A f \in T : SettlesOn(T, f, value, explicit, question)
             all       == {f \in Fields : \E T \in SUBSET Fields : Stable(T) /\ f \in T}
  <1>1. \A S, T \in SUBSET Fields : S \subseteq T =>
           \A f : SettlesOn(S, f, value, explicit, question)
                    => SettlesOn(T, f, value, explicit, question)
    BY DEF SettlesOn
  <1>2. ASSUME NEW f \in all
        PROVE  SettlesOn(all, f, value, explicit, question)
    <2>1. PICK T \in SUBSET Fields : Stable(T) /\ f \in T
      OBVIOUS
    <2>2. T \subseteq all
      BY <2>1
    <2>3. SettlesOn(T, f, value, explicit, question)
      BY <2>1
    <2>4. all \in SUBSET Fields
      OBVIOUS
    <2> HIDE DEF all
    <2> QED  BY <1>1, <2>2, <2>3, <2>4
  <1>3. ASSUME NEW f \in Fields, SettlesOn(all, f, value, explicit, question)
        PROVE  f \in all
    <2> DEFINE more == all \cup {f}
    <2>1. all \in SUBSET Fields /\ more \in SUBSET Fields /\ all \subseteq more
      OBVIOUS
    <2>2. ASSUME NEW g \in more
          PROVE  SettlesOn(more, g, value, explicit, question)
      <3>1. SettlesOn(all, g, value, explicit, question)
        BY <1>2, <1>3
      <3> HIDE DEF more, all
      <3> QED  BY <1>1, <2>1, <3>1
    <2>3. Stable(more) /\ f \in more
      BY <2>2
    <2> HIDE DEF more
    <2> QED  BY <2>1, <2>3
  <1>4. all \in SUBSET Fields
    OBVIOUS
  <1> HIDE DEF all
  <1> QED  BY <1>2, <1>3, <1>4

\* derive_field_states gives a field its settled flag from its prerequisites' flags.
LEMMA SettledUnfolds ==
    ASSUME NEW value, NEW explicit, NEW question, NEW f \in Fields
    PROVE  Settled(value, explicit, question)[f] <=>
              \/ ~Applicable(f)
              \/ /\ \A p \in Prerequisites(f) : Settled(value, explicit, question)[p]
                 /\ ~AskedAbout(f, question)
                 /\ Supplied(f, value, explicit)
  <1> DEFINE Body(s, g) == \/ ~Applicable(g)
                           \/ /\ \A p \in Prerequisites(g) : s[p]
                              /\ ~AskedAbout(g, question)
                              /\ Supplied(g, value, explicit)
             settled == CHOOSE s : s = [g \in Fields |-> Body(s, g)]
  <1>1. \E s : s = [g \in Fields |-> Body(s, g)]
    <2>1. PICK S \in SUBSET Fields :
             \A g \in Fields : g \in S <=> SettlesOn(S, g, value, explicit, question)
      BY SettlingSet
    <2> DEFINE flags == [g \in Fields |-> g \in S]
    <2>2. ASSUME NEW g \in Fields
          PROVE  g \in S <=> Body(flags, g)
      <3>1. (\A p \in Prerequisites(g) : flags[p]) <=> Prerequisites(g) \subseteq S
        BY PrerequisitesAreFields
      <3>2. g \in S <=> SettlesOn(S, g, value, explicit, question)
        BY <2>1
      <3> HIDE DEF flags
      <3> QED  BY <3>1, <3>2 DEF SettlesOn
    <2> DEFINE body(g) == Body(flags, g)
    <2>3. ASSUME NEW g \in Fields
          PROVE  (g \in S) = body(g)
      <3>1. (g \in S) \in BOOLEAN /\ body(g) \in BOOLEAN
        OBVIOUS
      <3>2. g \in S <=> body(g)
        BY <2>2
      <3> HIDE DEF body
      <3> QED  BY <3>1, <3>2
    <2> HIDE DEF body
    <2>4. flags = [g \in Fields |-> body(g)]
      BY <2>3
    <2>5. flags = [g \in Fields |-> Body(flags, g)]
      BY <2>4 DEF body
    <2> HIDE DEF flags
    <2> QED  BY <2>5
  <1>2. settled = [g \in Fields |-> Body(settled, g)]
    BY <1>1
  <1>3. Settled(value, explicit, question) = settled
    BY DEF Settled
  <1> HIDE DEF settled
  <1>4. settled[f] = Body(settled, f)
    BY <1>2
  <1> QED  BY <1>3, <1>4


\* What the engine's statuses say: a field is SATISFIED or AMBIGUOUS for a reason, and READY
\* needs a reason for each mandatory field that applies and for its prerequisites.
LEMMA StatusesMean ==
    ASSUME NEW value, NEW explicit, NEW question, NEW f \in Fields
    PROVE  LET status == DeriveStatus(value, explicit, question)
               reason(g) == ~Applicable(g) \/ Supplied(g, value, explicit)
           IN  /\ status[f] = "SATISFIED" => reason(f) /\ \A p \in Prerequisites(f) : reason(p)
               /\ status[f] = "AMBIGUOUS" => AskedAbout(f, question)
               /\ status[f] = "NOT_APPLICABLE" <=> ~Applicable(f)
  <1> DEFINE settled == Settled(value, explicit, question)
             status  == DeriveStatus(value, explicit, question)
  <1>1. \A g \in Fields : settled[g] => ~Applicable(g) \/ Supplied(g, value, explicit)
    BY SettledUnfolds
  <1>2. status[f] = IF ~Applicable(f) THEN "NOT_APPLICABLE"
                    ELSE IF \E p \in Prerequisites(f) : ~settled[p] THEN "BLOCKED"
                    ELSE IF AskedAbout(f, question) THEN "AMBIGUOUS"
                    ELSE IF settled[f] THEN "SATISFIED" ELSE "BLOCKED"
    BY DEF DeriveStatus
  <1> HIDE DEF settled, status
  <1>3. status[f] = "SATISFIED" => settled[f] /\ \A p \in Prerequisites(f) : settled[p]
    BY <1>2
  <1>4. status[f] = "AMBIGUOUS" => AskedAbout(f, question)
    BY <1>2
  <1>5. status[f] = "NOT_APPLICABLE" <=> ~Applicable(f)
    BY <1>2
  <1> QED  BY <1>1, <1>3, <1>4, <1>5, PrerequisitesAreFields DEF status

\* Whatever set of fields holds those that do not apply and those that are supplied holds
\* every field the engine then counts, and all that a READY verdict rests on.
LEMMA CountedFields ==
    ASSUME NEW value, NEW explicit, NEW question, NEW E,
           \A f \in Fields : ~Applicable(f) \/ Supplied(f, value, explicit) => f \in E
    PROVE  LET status == DeriveStatus(value, explicit, question)
           IN  /\ \A f \in Fields :
                     status[f] = "SATISFIED" \/ DeriveValue(value)[f] = "given" => f \in E
               /\ ReadinessOf(DeriveValue(value), status) = "READY" =>
                     \A f \in MandatoryFields : Applicable(f) =>
                        f \in E /\ \A p \in Prerequisites(f) : p \in E
  <1> DEFINE status == DeriveStatus(value, explicit, question)
             held   == DeriveValue(value)
  <1>1. \A f \in Fields : held[f] = "given" => value[f] = "given"
    BY DEF DeriveValue
  <1>2. ASSUME NEW f \in Fields
        PROVE  /\ status[f] = "SATISFIED" => f \in E /\ \A p \in Prerequisites(f) : p \in E
               /\ status[f] = "NOT_APPLICABLE" => ~Applicable(f)
    <2>1. /\ status[f] = "SATISFIED" =>
                /\ ~Applicable(f) \/ Supplied(f, value, explicit)
                /\ \A p \in Prerequisites(f) : ~Applicable(p) \/ Supplied(p, value, explicit)
          /\ status[f] = "NOT_APPLICABLE" => ~Applicable(f)
      BY StatusesMean
    <2> HIDE DEF status
    <2> QED  BY <2>1, PrerequisitesAreFields
  <1>3. \A f \in Fields : held[f] = "given" => f \in E
    BY <1>1 DEF Supplied
  <1>4. ReadinessOf(held, status) = "READY" =>
           \A f \in MandatoryFields : status[f] \in {"SATISFIED", "NOT_APPLICABLE"}
    BY DEF ReadinessOf
  <1>5. MandatoryFields \subseteq Fields
    BY PackAssumption
  <1> HIDE DEF status, held
  <1>6. ReadinessOf(held, status) = "READY" =>
           \A f \in MandatoryFields : Applicable(f) =>
              f \in E /\ \A p \in Prerequisites(f) : p \in E
    BY <1>2, <1>4, <1>5
  <1> QED  BY <1>2, <1>3, <1>6 DEF status, held

\* What counts on the current snapshot was earned, as ReadyIsEarned says of READY, and a
\* field is AMBIGUOUS only if the snapshot's question is about it.
EarnedSoFar(j) ==
    Created(j) =>
        /\ \A f \in Fields : Current(j).status[f] = "SATISFIED" \/ Current(j).value[f] = "given"
               => Earned(j, f)
        /\ Current(j).readiness = "READY" =>
               \A f \in MandatoryFields : Applicable(f) =>
                   Earned(j, f) /\ \A p \in Prerequisites(f) : Earned(j, p)
        /\ \A f \in Fields : Current(j).status[f] = "AMBIGUOUS"
               => AskedAbout(f, Current(j).pending)

LEMMA MutationIsEarned ==
    ASSUME TypeOK, NEW j \in JourneyIds, NEW snapshot \in Snapshot, NEW event \in AuditEvent,
           Mutation(j, snapshot, event), EarnedSoFar(j)
    PROVE  EarnedSoFar(j)'
  <1>1. /\ WriteMutation(j, snapshot, event)
        /\ Created(j) /\ Current(j)' = snapshot
        /\ Current(j) = snapshots[j][Len(snapshots[j])]
    BY MutationContext
  <1>2. PICK question \in Ambiguities \cup {NoAmbiguity} :
           LET plain == Successor(j, journey[j].current, event.fields, event.value, question)
           IN  snapshot \in {plain, [plain EXCEPT !.readiness = "NEEDS_REVIEW"]}
    BY DEF Mutation, Mutates
  <1> DEFINE base     == snapshots[j][journey[j].current]
             value    == [f \in Fields |-> IF f \in event.fields THEN event.value
                                           ELSE base.value[f]]
             explicit == [f \in Fields |-> IF f \notin event.fields THEN base.status[f]
                                           ELSE IF AskedAbout(f, question) THEN "AMBIGUOUS"
                                           ELSE "SATISFIED"]
             status   == DeriveStatus(value, explicit, question)
             E        == {f \in Fields : Earned(j, f)'}
  <1>3. base = Current(j)
    BY DEF Current
  <1>4. \A f \in Fields : f \in event.fields \/ Earned(j, f) => f \in E
    <2>1. /\ DOMAIN audit[j] = 1..Len(audit[j]) /\ Len(audit[j]) \in Nat
          /\ DOMAIN audit'[j] = 1..Len(audit[j]) + 1
          /\ \A i \in DOMAIN audit[j] : audit'[j][i] = audit[j][i]
          /\ audit'[j][Len(audit[j]) + 1] = event
      BY <1>1, MutationAppends
    <2>2. /\ DOMAIN audit[j] \subseteq DOMAIN audit'[j]
          /\ Len(audit[j]) + 1 \in DOMAIN audit'[j]
      BY <2>1
    <2> QED  BY <2>1, <2>2 DEF Earned
  <1>5. \A f \in Fields : ~Applicable(f) \/ Supplied(f, value, explicit) => f \in E
    <2>1. ASSUME NEW f \in Fields, Supplied(f, value, explicit), f \notin event.fields
          PROVE  Earned(j, f)
      <3>1. base.status[f] = "SATISFIED" \/ base.value[f] = "given"
        BY <2>1 DEF Supplied
      <3> QED  BY <1>1, <1>3, <3>1 DEF EarnedSoFar
    <2>2. \A f \in Fields : ~Applicable(f) => Earned(j, f)
      BY DEF Earned
    <2> QED  BY <1>4, <2>1, <2>2
  <1>6. /\ snapshot.value = DeriveValue(value)
        /\ snapshot.status = status
        /\ snapshot.pending = question
        /\ snapshot.readiness \in {ReadinessOf(DeriveValue(value), status), "NEEDS_REVIEW"}
    <2> DEFINE plain == Successor(j, journey[j].current, event.fields, event.value, question)
    <2>1. plain = [ver       |-> base.ver + 1,
                   prev      |-> journey[j].current,
                   value     |-> DeriveValue(value),
                   status    |-> status,
                   readiness |-> ReadinessOf(DeriveValue(value), status),
                   pending   |-> question]
      BY DEF Successor
    <2>2. snapshot \in {plain, [plain EXCEPT !.readiness = "NEEDS_REVIEW"]}
      BY <1>2
    <2> HIDE DEF plain, base, value, status
    <2> QED  BY <2>1, <2>2
  <1>7. \A f \in Fields : status[f] = "AMBIGUOUS" => AskedAbout(f, question)
    BY StatusesMean
  <1>8. /\ \A f \in Fields :
              status[f] = "SATISFIED" \/ DeriveValue(value)[f] = "given" => f \in E
        /\ ReadinessOf(DeriveValue(value), status) = "READY" =>
              \A f \in MandatoryFields : Applicable(f) =>
                 f \in E /\ \A p \in Prerequisites(f) : p \in E
    <2> HIDE DEF value, explicit, E
    <2> QED  BY <1>5, CountedFields
  <1> HIDE DEF value, explicit, status, base
  <1>9. /\ \A f \in Fields : Current(j)'.status[f] = "SATISFIED" \/ Current(j)'.value[f] = "given"
               => f \in E
        /\ Current(j)'.readiness = "READY" =>
               \A f \in MandatoryFields : Applicable(f) =>
                   f \in E /\ \A p \in Prerequisites(f) : p \in E
        /\ \A f \in Fields : Current(j)'.status[f] = "AMBIGUOUS"
               => AskedAbout(f, Current(j)'.pending)
    BY <1>1, <1>6, <1>7, <1>8
  <1> QED  BY <1>9 DEF EarnedSoFar

LEMMA CreatedIsEarned ==
    ASSUME TypeOK, NEW j \in JourneyIds, CreateJourney(j)
    PROVE  EarnedSoFar(j)'
  <1> DEFINE status == DeriveStatus(InitialValue, InitialExplicit, NoAmbiguity)
             E      == {f \in Fields : Earned(j, f)'}
  <1>1. Current(j)' = InitialSnapshot
    BY DEF CreateJourney, TypeOK, Current
  <1>2. \A f \in Fields : ~Applicable(f) \/ Supplied(f, InitialValue, InitialExplicit) => f \in E
    BY DEF Supplied, InitialValue, InitialExplicit, Earned
  <1>3. /\ InitialSnapshot.value = DeriveValue(InitialValue)
        /\ InitialSnapshot.status = status
        /\ InitialSnapshot.pending = NoAmbiguity
        /\ InitialSnapshot.readiness = ReadinessOf(DeriveValue(InitialValue), status)
    BY DEF InitialSnapshot
  <1>4. \A f \in Fields : status[f] = "AMBIGUOUS" => AskedAbout(f, NoAmbiguity)
    BY StatusesMean
  <1>5. /\ \A f \in Fields :
              status[f] = "SATISFIED" \/ DeriveValue(InitialValue)[f] = "given" => f \in E
        /\ ReadinessOf(DeriveValue(InitialValue), status) = "READY" =>
              \A f \in MandatoryFields : Applicable(f) =>
                 f \in E /\ \A p \in Prerequisites(f) : p \in E
    <2> HIDE DEF E
    <2> QED  BY <1>2, CountedFields
  <1> HIDE DEF status
  <1> QED  BY <1>1, <1>3, <1>4, <1>5 DEF EarnedSoFar

LEMMA EarnedStep ==
    ASSUME TypeOK, NEW k \in JourneyIds, EarnedSoFar(k),
           \/ LeavesHistory
           \/ \E j \in JourneyIds : CreateJourney(j)
           \/ \E j \in JourneyIds, snapshot \in Snapshot, event \in AuditEvent :
                 Mutation(j, snapshot, event)
    PROVE  EarnedSoFar(k)'
  <1>0. ASSUME snapshots'[k] = snapshots[k], audit'[k] = audit[k], journey'[k] = journey[k]
        PROVE  EarnedSoFar(k)'
    BY <1>0 DEF EarnedSoFar, Created, Current, Earned
  <1>1. CASE LeavesHistory
    BY <1>0, <1>1 DEF LeavesHistory, journeyVars
  <1>2. ASSUME NEW j \in JourneyIds, CreateJourney(j)
        PROVE  EarnedSoFar(k)'
    <2>1. CASE k = j
      BY <1>2, <2>1, CreatedIsEarned
    <2>2. CASE k # j
      BY <1>0, <1>2, <2>2 DEF CreateJourney, TypeOK
    <2> QED  BY <2>1, <2>2
  <1>3. ASSUME NEW j \in JourneyIds, NEW snapshot \in Snapshot, NEW event \in AuditEvent,
               Mutation(j, snapshot, event)
        PROVE  EarnedSoFar(k)'
    <2>1. CASE k = j
      BY <1>3, <2>1, MutationIsEarned
    <2>2. CASE k # j
      BY <1>0, <1>3, <2>2, MutationAppends DEF Mutation, Mutates
    <2> QED  BY <2>1, <2>2
  <1> QED  BY <1>1, <1>2, <1>3


\* A snapshot has one question, so its answer leaves none.
LEMMA NoSecondQuestion ==
    ASSUME NEW j \in JourneyIds, Created(j), EarnedSoFar(j),
           NEW a \in Ambiguities, Current(j).pending = a
    PROVE  NextQuestion(j, a) = NoAmbiguity
  <1>1. ASSUME NEW b \in Ambiguities,
               AmbiguityField[b] # AmbiguityField[a],
               Current(j).status[AmbiguityField[b]] = "AMBIGUOUS"
        PROVE  FALSE
    <2>1. AmbiguityField[b] \in Fields
      BY PackAssumption
    <2> QED  BY <1>1, <2>1 DEF EarnedSoFar, AskedAbout
  <1> QED  BY <1>1 DEF NextQuestion

-----------------------------------------------------------------------------
(* The invariant and what follows from it.                                 *)

TrailInvariant ==
    /\ ChainInvariant
    /\ AllPrepared
    /\ \A j \in JourneyIds : Accounted(j) /\ AnnouncedOnce(j) /\ EarnedSoFar(j)

LEMMA TrailInit ==
    ASSUME Init
    PROVE  TrailInvariant
  <1>1. ChainInvariant
    BY ChainInit
  <1>2. AllPrepared
    BY DEF Init, AllPrepared, Prepared
  <1>3. ASSUME NEW j \in JourneyIds
        PROVE  Accounted(j) /\ AnnouncedOnce(j) /\ EarnedSoFar(j)
    <2>1. snapshots[j] = <<>> /\ audit[j] = <<>> /\ outbox[j] = <<>>
      BY DEF Init
    <2>2. ~Created(j)
      BY <2>1 DEF Created
    <2>3. Accounted(j)
      BY <2>1, <2>2 DEF Accounted, WritesTo
    <2>4. CompletionEvents(outbox[j]) = {} /\ Completions(j) = {}
      BY <2>1 DEF CompletionEvents, Completions
    <2> QED  BY <2>2, <2>3, <2>4 DEF AnnouncedOnce, EarnedSoFar
  <1> QED  BY <1>1, <1>2, <1>3 DEF TrailInvariant

LEMMA TrailStep ==
    ASSUME TrailInvariant, [Next]_vars
    PROVE  TrailInvariant'
  <1>1. /\ ChainInvariant /\ TypeOK /\ AllPrepared
        /\ \A j \in JourneyIds : Accounted(j) /\ AnnouncedOnce(j) /\ EarnedSoFar(j)
    BY DEF TrailInvariant, ChainInvariant
  <1>2. ChainInvariant' /\ AllPrepared'
    BY <1>1, ChainStep, PreparedStep
  <1>3. ASSUME NEW j \in JourneyIds
        PROVE  Accounted(j)' /\ AnnouncedOnce(j)' /\ EarnedSoFar(j)'
    BY <1>1, StepKinds, AccountedStep, AnnouncedStep, EarnedStep
  <1> QED  BY <1>2, <1>3 DEF TrailInvariant

\* What the history of every journey accounts for, in every reachable state.
THEOREM TrailInvariantHolds == Spec => []TrailInvariant
  <1>1. Init => TrailInvariant
    BY TrailInit
  <1>2. TrailInvariant /\ [Next]_vars => TrailInvariant'
    BY TrailStep
  <1> QED  BY <1>1, <1>2, PTL DEF Spec

\* Every operation that writes a journey appends the audit event that explains the write,
\* in the same transaction: the values the customer sees are those the trail replays to.
THEOREM TrailAccountsForState == Spec => []AuditAccountsForState
  <1>1. TrailInvariant => AuditAccountsForState
    BY DEF TrailInvariant, Accounted, AuditAccountsForState
  <1> QED  BY <1>1, TrailInvariantHolds, PTL

\* Every transition into READY is announced by one JOURNEY_COMPLETED, and nothing else is,
\* whichever of the two commits of apply_action or the answer of a customer made it.
THEOREM CompletionIsAnnouncedOnce == Spec => []CompletedOncePerReady
  <1>1. TrailInvariant => CompletedOncePerReady
    BY DEF TrailInvariant, AnnouncedOnce, CompletionEvents, Completions, CompletedOncePerReady
  <1> QED  BY <1>1, TrailInvariantHolds, PTL

\* No pack, however its fields depend on each other, lets a journey be READY while a
\* mandatory field that applies, or a prerequisite of one, was never written.
THEOREM ReadyRestsOnWrites == Spec => []ReadyIsEarned
  <1>1. TrailInvariant => ReadyIsEarned
    BY DEF TrailInvariant, EarnedSoFar, ReadyIsEarned
  <1> QED  BY <1>1, TrailInvariantHolds, PTL

-----------------------------------------------------------------------------
(* A question never has two open cases.  A request reads the cases of its  *)
(* question without locking them, and an upload writes back the cases it   *)
(* listed, whatever happened to them in between.  What is read stays true  *)
(* nevertheless: the customer holds the journey row, and whoever changes a *)
(* case inserts an audit event, which needs a share lock on that row.  And *)
(* a case an upload puts back under review was open when it was listed,    *)
(* after which no case of the journey can be opened until the upload has   *)
(* ended.                                                                  *)

\* A case has a reviewer from its first claim on, and nobody cancels one.
WellReviewed(case) ==
    /\ case.status # "CANCELLED"
    /\ case.status = "REVIEW_REQUIRED" <=> case.reviewer = NoReviewer

\* The row is as it was read, up to the time its reviewer's lock has left.
AsRead(case, read) ==
    /\ case.ambiguity = read.ambiguity /\ case.status = read.status
    /\ case.reviewer = read.reviewer /\ case.version = read.version

\* Until an action commits, what it read of the cases of its question stays true.
ReadStaysTrue(c) ==
    pc[c] = "open" =>
        LET j    == request[c].journey
            read == tx[c].case
            a    == tx[c].snapshot.pending
        IN  /\ ~Uploading(j)
            /\ read.found = "none" => a = NoAmbiguity
            /\ read.found = "new" => OpenCases(j, a) = {}
            /\ read.found = "open" => /\ read.index \in OpenCases(j, a)
                                      /\ AsRead(cases[j][read.index], read.row)

Handing(u, j) == evidence[u].at = "handing" /\ evidence[u].journey = j

\* What an upload listed are cases of its journey, which may have moved on since.
HandoverIsKnown(u) ==
    \A j \in JourneyIds : Handing(u, j) =>
        \A i \in DOMAIN evidence[u].seen :
            LET seen == evidence[u].seen[i]
            IN  /\ i \in DOMAIN cases[j]
                /\ seen.ambiguity = cases[j][i].ambiguity
                /\ WellReviewed(seen)
                /\ seen.reviewer # NoReviewer => cases[j][i].reviewer # NoReviewer

\* An upload will put the case back under review, be it resolved by then or not.
ComesBack(j, i) ==
    \E u \in Uploads : /\ Handing(u, j)
                       /\ i \in DOMAIN evidence[u].seen
                       /\ evidence[u].seen[i].status = "ADDITIONAL_INFO_REQUIRED"

MayBeOpen(j, i) == cases[j][i].status \notin Terminal \/ ComesBack(j, i)

\* OneOpenCasePerQuestion, counting the cases that uploads will open again.
OneCase(j) ==
    \A m, n \in DOMAIN cases[j] :
        MayBeOpen(j, m) /\ MayBeOpen(j, n) /\ cases[j][m].ambiguity = cases[j][n].ambiguity
            => m = n

\* The inductive invariant.
CaseInvariant ==
    /\ \A j \in JourneyIds : OneCase(j) /\ \A i \in DOMAIN cases[j] : WellReviewed(cases[j][i])
    /\ \A c \in Clients : ReadStaysTrue(c)
    /\ \A u \in Uploads : HandoverIsKnown(u)

-----------------------------------------------------------------------------
(* Steps that rewrite rows, or none: no request reads, and no upload lists *)
(* anything new.                                                           *)

ClientsGoOn == \A c \in Clients : pc'[c] = "open" => GoesOn(c)

HandoversGoOn ==
    \A u \in Uploads, j \in JourneyIds :
        Handing(u, j)' => Handing(u, j) /\ evidence'[u].seen = evidence[u].seen

\* What becomes of row i: an open row was open or comes back, and it changes only where
\* no running action has read it.
RowGoesOn(j, i) ==
    LET old == cases[j][i]
        new == cases'[j][i]
    IN  /\ WellReviewed(new)
        /\ new.ambiguity = old.ambiguity
        /\ old.reviewer # NoReviewer => new.reviewer # NoReviewer
        /\ new.status \notin Terminal => MayBeOpen(j, i)
        /\ \/ AsRead(new, old)
           \/ \A c \in Clients : pc'[c] = "open" => request[c].journey # j

LEMMA RowsGoOn ==
    ASSUME ChainInvariant, CaseInvariant, ClientsGoOn, HandoversGoOn,
           \A j \in JourneyIds : /\ DOMAIN cases'[j] = DOMAIN cases[j]
                                 /\ \A i \in DOMAIN cases[j] : RowGoesOn(j, i)
    PROVE  CaseInvariant'
  <1>1. ASSUME NEW j \in JourneyIds, NEW i
        PROVE  ComesBack(j, i)' => ComesBack(j, i)
    BY DEF HandoversGoOn, ComesBack
  <1>2. ASSUME NEW j \in JourneyIds
        PROVE  OneCase(j)' /\ \A i \in DOMAIN cases'[j] : WellReviewed(cases'[j][i])
    <2>1. \A i \in DOMAIN cases[j] : MayBeOpen(j, i)' => MayBeOpen(j, i)
      BY <1>1 DEF RowGoesOn, MayBeOpen
    <2> QED  BY <2>1 DEF CaseInvariant, OneCase, RowGoesOn
  <1>3. ASSUME NEW c \in Clients
        PROVE  ReadStaysTrue(c)'
    <2> SUFFICES ASSUME pc'[c] = "open"
                 PROVE  ReadStaysTrue(c)'
      BY DEF ReadStaysTrue
    <2>1. pc[c] = "open" /\ request'[c] = request[c] /\ tx'[c] = tx[c]
      BY DEF ClientsGoOn, GoesOn
    <2>2. PICK j \in JourneyIds : j = request[c].journey
      BY <2>1, RequestContext
    <2>3. PICK read, a : read = tx[c].case /\ a = tx[c].snapshot.pending
      OBVIOUS
    <2>4. /\ ~Uploading(j)
          /\ read.found = "none" => a = NoAmbiguity
          /\ read.found = "new" => OpenCases(j, a) = {}
          /\ read.found = "open" => /\ read.index \in OpenCases(j, a)
                                    /\ AsRead(cases[j][read.index], read.row)
      BY <2>1, <2>2, <2>3 DEF CaseInvariant, ReadStaysTrue
    <2>5. \A i \in DOMAIN cases[j] : AsRead(cases'[j][i], cases[j][i])
      BY <2>2 DEF RowGoesOn
    <2>6. ~Uploading(j)'
      BY <2>4 DEF HandoversGoOn, Handing, Uploading
    <2>7. OpenCases(j, a)' = OpenCases(j, a)
      BY <2>5 DEF OpenCases, AsRead
    <2>8. read.found = "open" => AsRead(cases'[j][read.index], read.row)
      BY <2>4, <2>5 DEF AsRead, OpenCases
    <2> QED  BY <2>1, <2>2, <2>3, <2>4, <2>6, <2>7, <2>8 DEF ReadStaysTrue
  <1>4. ASSUME NEW u \in Uploads
        PROVE  HandoverIsKnown(u)'
    BY DEF CaseInvariant, HandoverIsKnown, HandoversGoOn, RowGoesOn
  <1> QED  BY <1>2, <1>3, <1>4 DEF CaseInvariant

\* A step that writes no case.
LEMMA CasesUntouched ==
    ASSUME ChainInvariant, CaseInvariant, ClientsGoOn, HandoversGoOn, UNCHANGED cases
    PROVE  CaseInvariant'
  <1>1. \A j \in JourneyIds : \A i \in DOMAIN cases[j] : RowGoesOn(j, i)
    BY DEF RowGoesOn, CaseInvariant, MayBeOpen, AsRead
  <1> QED  BY <1>1, RowsGoOn

\* A step that writes one row.
LEMMA CaseRewritten ==
    ASSUME ChainInvariant, CaseInvariant, ClientsGoOn, HandoversGoOn,
           NEW j \in JourneyIds, NEW i \in DOMAIN cases[j], NEW row,
           cases' = [cases EXCEPT ![j] = [@ EXCEPT ![i] = row]],
           RowGoesOn(j, i)
    PROVE  CaseInvariant'
  <1>1. cases \in [JourneyIds -> Seq(Case)]
    BY DEF ChainInvariant, TypeOK
  <1>2. DOMAIN cases'[j] = DOMAIN cases[j]
    BY <1>1
  <1>3. \A n \in DOMAIN cases[j] \ {i} : cases'[j][n] = cases[j][n]
    BY <1>1
  <1>4. \A k \in JourneyIds \ {j} : cases'[k] = cases[k]
    BY <1>1
  <1>5. ASSUME NEW k \in JourneyIds, NEW n \in DOMAIN cases[k], k # j \/ n # i
        PROVE  RowGoesOn(k, n)
    <2>1. cases'[k][n] = cases[k][n]
      BY <1>3, <1>4, <1>5
    <2> QED  BY <2>1 DEF RowGoesOn, CaseInvariant, MayBeOpen, AsRead
  <1> QED  BY <1>2, <1>4, <1>5, RowsGoOn

-----------------------------------------------------------------------------
(* The steps that read, open or list cases.                                *)

\* A check that passes reads the cases as they are, and no upload is under way then.
LEMMA OpenReads ==
    ASSUME ChainInvariant, CaseInvariant, NEW c \in Clients, OpenApply(c)
    PROVE  CaseInvariant'
  <1>1. PICK j \in JourneyIds : j = request[c].journey
    <2>1. pc[c] = "waiting"
      BY DEF OpenApply, Granted
    <2> QED  BY <2>1, RequestContext
  <1>2. /\ ~Uploading(j)
        /\ UNCHANGED <<cases, evidence, request>>
        /\ pc' = [pc EXCEPT ![c] = "open"]
    BY <1>1 DEF OpenApply, Granted, Free
  <1>3. PICK question, read :
           /\ read \in ReadCase(j, question)
           /\ \E snapshot : /\ tx' = [tx EXCEPT ![c] = [snapshot |-> snapshot, case |-> read]]
                            /\ snapshot.pending = question
    BY <1>1 DEF OpenApply, Successor
  <1>4. /\ pc \in [Clients -> {"idle", "waiting", "open", "wrote", "answered"}]
        /\ tx \in [Clients -> Writes \cup {None}]
    BY DEF ChainInvariant, TypeOK
  <1>5. ASSUME NEW d \in Clients, d # c
        PROVE  ReadStaysTrue(d)'
    <2>1. pc'[d] = pc[d] /\ tx'[d] = tx[d] /\ request'[d] = request[d]
      BY <1>2, <1>3, <1>4, <1>5
    <2>2. PICK k, a : k = request[d].journey /\ a = tx[d].snapshot.pending
      OBVIOUS
    <2>3. Uploading(k)' = Uploading(k) /\ OpenCases(k, a)' = OpenCases(k, a)
      BY <1>2 DEF Uploading, OpenCases
    <2>4. ReadStaysTrue(d)
      BY DEF CaseInvariant
    <2> QED  BY <1>2, <2>1, <2>2, <2>3, <2>4 DEF ReadStaysTrue
  <1>6. ReadStaysTrue(c)'
    <2>1. /\ tx'[c].case = read /\ tx'[c].snapshot.pending = question
          /\ request'[c].journey = j
      BY <1>1, <1>2, <1>3, <1>4
    <2>2. ~Uploading(j)' /\ OpenCases(j, question)' = OpenCases(j, question)
      BY <1>2 DEF Uploading, OpenCases
    <2>3. /\ read.found = "none" => question = NoAmbiguity
          /\ read.found = "new" => OpenCases(j, question) = {}
          /\ read.found = "open" => /\ read.index \in OpenCases(j, question)
                                    /\ AsRead(cases[j][read.index], read.row)
      BY <1>3 DEF ReadCase, AsRead
    <2> QED  BY <1>2, <2>1, <2>2, <2>3 DEF ReadStaysTrue
  <1>7. \A u \in Uploads : HandoverIsKnown(u)'
    BY <1>2 DEF CaseInvariant, HandoverIsKnown, Handing
  <1>8. \A k \in JourneyIds : OneCase(k)' /\ \A i \in DOMAIN cases'[k] : WellReviewed(cases'[k][i])
    BY <1>2 DEF CaseInvariant, OneCase, MayBeOpen, ComesBack, Handing
  <1> QED  BY <1>5, <1>6, <1>7, <1>8 DEF CaseInvariant

\* An action that commits opens a case only for a question that has none.
LEMMA CommitOpens ==
    ASSUME ChainInvariant, CaseInvariant, NEW c \in Clients, CommitApply(c), ClientsGoOn,
           tx[c].case.found = "new"
    PROVE  CaseInvariant'
  <1>1. pc[c] = "open" /\ UNCHANGED evidence
    BY DEF CommitApply
  <1>2. PICK j \in JourneyIds : j = request[c].journey
    BY <1>1, RequestContext
  <1>3. PICK a, row : /\ a = tx[c].snapshot.pending
                      /\ row = NewCase(j, a, tx[c].case.number)
                      /\ cases' = [cases EXCEPT ![j] = Append(@, row)]
    BY <1>2 DEF CommitApply
  <1>4. /\ row.ambiguity = a /\ row.status = "REVIEW_REQUIRED"
        /\ WellReviewed(row)
    BY <1>3 DEF NewCase, WellReviewed
  <1>5. ~Uploading(j) /\ OpenCases(j, a) = {}
    BY <1>1, <1>2, <1>3 DEF CaseInvariant, ReadStaysTrue
  <1>6. /\ cases \in [JourneyIds -> Seq(Case)] /\ TypeOK'
        /\ cases' \in [JourneyIds -> Seq(Case)]
    BY CommitTypes DEF ChainInvariant, TypeOK
  <1>7. /\ DOMAIN cases'[j] = DOMAIN cases[j] \cup {Len(cases[j]) + 1}
        /\ Len(cases[j]) + 1 \notin DOMAIN cases[j]
        /\ cases'[j][Len(cases[j]) + 1] = row
        /\ \A i \in DOMAIN cases[j] : cases'[j][i] = cases[j][i]
        /\ \A k \in JourneyIds \ {j} : cases'[k] = cases[k]
    <2>1. cases[j] \in Seq(Case) /\ cases'[j] = Append(cases[j], row)
      BY <1>3, <1>6
    <2>2. Len(cases[j]) \in Nat /\ DOMAIN cases[j] = 1..Len(cases[j])
      BY <2>1, LenProperties
    <2>3. /\ DOMAIN Append(cases[j], row) = 1..Len(cases[j]) + 1
          /\ \A i \in 1..Len(cases[j]) : Append(cases[j], row)[i] = cases[j][i]
          /\ Append(cases[j], row)[Len(cases[j]) + 1] = row
      BY <2>1, <2>2
    <2>4. \A k \in JourneyIds \ {j} : cases'[k] = cases[k]
      BY <1>3, <1>6
    <2> QED  BY <2>1, <2>2, <2>3, <2>4
  <1>8. ASSUME NEW k \in JourneyIds
        PROVE  OneCase(k)' /\ \A i \in DOMAIN cases'[k] : WellReviewed(cases'[k][i])
    <2>1. \A i : ComesBack(k, i)' <=> ComesBack(k, i)
      BY <1>1 DEF ComesBack, Handing
    <2>2. CASE k # j
      <3>1. cases'[k] = cases[k]
        BY <1>7, <2>2
      <3> QED  BY <2>1, <3>1 DEF CaseInvariant, OneCase, MayBeOpen
    <2>3. CASE k = j
      <3>1. \A i : ~ComesBack(j, i)
        BY <1>5 DEF ComesBack, Handing, Uploading
      <3>2. \A i \in DOMAIN cases[j] : cases[j][i].ambiguity = a => cases[j][i].status \in Terminal
        BY <1>5 DEF OpenCases
      <3>3. \A m, n \in DOMAIN cases[j] :
               /\ cases[j][m].status \notin Terminal /\ cases[j][n].status \notin Terminal
               /\ cases[j][m].ambiguity = cases[j][n].ambiguity
               => m = n
        BY DEF CaseInvariant, OneCase, MayBeOpen
      <3>4. OneCase(j)'
        BY <1>4, <1>7, <2>1, <2>3, <3>1, <3>2, <3>3 DEF OneCase, MayBeOpen
      <3>5. \A i \in DOMAIN cases'[j] : WellReviewed(cases'[j][i])
        BY <1>4, <1>7 DEF CaseInvariant
      <3> QED  BY <2>3, <3>4, <3>5
    <2> QED  BY <2>2, <2>3
  <1>9. ASSUME NEW d \in Clients
        PROVE  ReadStaysTrue(d)'
    <2> SUFFICES ASSUME pc'[d] = "open"
                 PROVE  ReadStaysTrue(d)'
      BY DEF ReadStaysTrue
    <2>1. pc[d] = "open" /\ request'[d] = request[d] /\ tx'[d] = tx[d]
      BY DEF ClientsGoOn, GoesOn
    <2>2. PICK k \in JourneyIds : k = request[d].journey
      BY <2>1, RequestContext
    <2>3. d # c
      BY DEF CommitApply, Answered, ChainInvariant, TypeOK
    <2>4. k # j
      BY <1>1, <1>2, <2>1, <2>2, <2>3, GroundedIsInvariant DEF Grounded
    <2>5. cases'[k] = cases[k] /\ (Uploading(k)' <=> Uploading(k))
      BY <1>1, <1>7, <2>4 DEF Uploading
    <2> QED  BY <2>1, <2>2, <2>5 DEF CaseInvariant, ReadStaysTrue, OpenCases
  <1>10. ASSUME NEW u \in Uploads
         PROVE  HandoverIsKnown(u)'
    BY <1>1, <1>7 DEF CaseInvariant, HandoverIsKnown, Handing
  <1> QED  BY <1>8, <1>9, <1>10 DEF CaseInvariant


\* Where a request holds the journey row, no other request has read cases.
LEMMA OthersElsewhere ==
    ASSUME ChainInvariant, ClientsGoOn, NEW c \in Clients, pc[c] = "open", pc'[c] # "open"
    PROVE  \A d \in Clients : pc'[d] = "open" => request[d].journey # request[c].journey
  BY GroundedIsInvariant DEF ClientsGoOn, GoesOn, Grounded

\* Where the journey row is free, or an upload is under way, no request has.
LEMMA NobodyReads ==
    ASSUME ChainInvariant, CaseInvariant, ClientsGoOn, NEW j \in JourneyIds,
           lock[j] = NoOne \/ Uploading(j)
    PROVE  \A d \in Clients : pc'[d] = "open" => request[d].journey # j
  BY GroundedIsInvariant, JourneysAssumption
     DEF ClientsGoOn, GoesOn, Grounded, CaseInvariant, ReadStaysTrue

\* A case that waited for the customer has a reviewer, and goes back to that one.
LEMMA ReopenedRow ==
    ASSUME NEW case \in Case, NEW read, WellReviewed(read),
           read.status = "ADDITIONAL_INFO_REQUIRED", case.reviewer # NoReviewer
    PROVE  LET row == Reopen(case, read)
           IN  /\ row.status = "UNDER_REVIEW" /\ WellReviewed(row)
               /\ row.ambiguity = case.ambiguity /\ row.reviewer = case.reviewer
               /\ row.resolution = case.resolution
  BY DEF Reopen, WellReviewed, Case

LEMMA CommitReopens ==
    ASSUME ChainInvariant, CaseInvariant, ClientsGoOn, NEW c \in Clients, ReopenAndCommit(c)
    PROVE  CaseInvariant'
  <1>1. pc[c] = "open" /\ Reopens(c) /\ UNCHANGED evidence
    BY DEF ReopenAndCommit
  <1>2. PICK j \in JourneyIds : j = request[c].journey
    BY <1>1, RequestContext
  <1>3. PICK i, read : i = tx[c].case.index /\ read = tx[c].case.row
    OBVIOUS
  <1>4. /\ i \in DOMAIN cases[j] /\ cases[j][i].status \notin Terminal
        /\ AsRead(cases[j][i], read)
        /\ read.status = "ADDITIONAL_INFO_REQUIRED"
    BY <1>1, <1>2, <1>3 DEF CaseInvariant, ReadStaysTrue, OpenCases, Reopens
  <1>5. cases' = [cases EXCEPT ![j] = [@ EXCEPT ![i] = Reopen(cases[j][i], read)]]
    BY <1>2, <1>3 DEF ReopenAndCommit
  <1>6. /\ cases[j] \in Seq(Case) /\ cases[j][i] \in Case
        /\ cases \in [JourneyIds -> Seq(Case)]
    BY <1>4, CaseRowType DEF ChainInvariant, TypeOK
  <1>7. cases'[j][i] = Reopen(cases[j][i], read)
    BY <1>4, <1>5, <1>6
  <1>8. WellReviewed(read) /\ cases[j][i].reviewer # NoReviewer
    <2>1. WellReviewed(cases[j][i])
      BY <1>4 DEF CaseInvariant
    <2> QED  BY <1>4, <2>1 DEF AsRead, WellReviewed
  <1>9. RowGoesOn(j, i)
    <2>1. \A d \in Clients : pc'[d] = "open" => request[d].journey # j
      <3>1. pc'[c] # "open"
        BY DEF ReopenAndCommit, ChainInvariant, TypeOK
      <3> QED  BY <1>1, <1>2, <3>1, OthersElsewhere
    <2> QED  BY <1>4, <1>6, <1>7, <1>8, <2>1, ReopenedRow DEF RowGoesOn, MayBeOpen
  <1>10. HandoversGoOn
    BY <1>1 DEF HandoversGoOn, Handing
  <1> QED  BY <1>4, <1>5, <1>9, <1>10, CaseRewritten

\* An upload lists the cases while nobody holds the journey row.
LEMMA UploadLists ==
    ASSUME ChainInvariant, CaseInvariant, ClientsGoOn, NEW u \in Uploads, AnalyseEvidence(u)
    PROVE  CaseInvariant'
  <1>1. PICK j \in JourneyIds :
           /\ lock[j] = NoOne
           /\ \E d \in DocTypes, v \in Verdicts :
                 evidence' = [evidence EXCEPT ![u] = [at |-> "handing", journey |-> j, doc |-> d,
                                 verified |-> v.verified, complete |-> v.complete,
                                 seen |-> cases[j]]]
           /\ UNCHANGED cases
    BY DEF AnalyseEvidence
  <1>2. /\ evidence'[u].at = "handing" /\ evidence'[u].journey = j
        /\ evidence'[u].seen = cases[j]
        /\ \A v \in Uploads \ {u} : evidence'[v] = evidence[v]
    BY <1>1 DEF ChainInvariant, TypeOK
  <1>3. ASSUME NEW k \in JourneyIds
        PROVE  OneCase(k)' /\ \A i \in DOMAIN cases'[k] : WellReviewed(cases'[k][i])
    <2>1. ASSUME NEW i \in DOMAIN cases[k]
          PROVE  MayBeOpen(k, i)' => MayBeOpen(k, i)
      <3>1. ComesBack(k, i)' =>
               ComesBack(k, i) \/ cases[k][i].status = "ADDITIONAL_INFO_REQUIRED"
        BY <1>2 DEF ComesBack, Handing
      <3> QED  BY <1>1, <3>1 DEF MayBeOpen, Terminal
    <2> QED  BY <1>1, <2>1 DEF CaseInvariant, OneCase
  <1>4. ASSUME NEW d \in Clients
        PROVE  ReadStaysTrue(d)'
    <2> SUFFICES ASSUME pc'[d] = "open"
                 PROVE  ReadStaysTrue(d)'
      BY DEF ReadStaysTrue
    <2>1. pc[d] = "open" /\ request'[d] = request[d] /\ tx'[d] = tx[d]
      BY DEF ClientsGoOn, GoesOn
    <2>2. PICK k \in JourneyIds : k = request[d].journey
      BY <2>1, RequestContext
    <2>3. k # j
      BY <1>1, <2>2, NobodyReads
    <2>4. ~Uploading(k) => ~Uploading(k)'
      BY <1>2, <2>3 DEF Uploading
    <2>5. PICK a : a = tx[d].snapshot.pending
      OBVIOUS
    <2>6. OpenCases(k, a)' = OpenCases(k, a)
      BY <1>1 DEF OpenCases
    <2> QED  BY <1>1, <2>1, <2>2, <2>4, <2>5, <2>6 DEF CaseInvariant, ReadStaysTrue
  <1>5. ASSUME NEW v \in Uploads
        PROVE  HandoverIsKnown(v)'
    BY <1>1, <1>2 DEF CaseInvariant, HandoverIsKnown, Handing
  <1> QED  BY <1>3, <1>4, <1>5 DEF CaseInvariant

\* An upload puts back under review what it listed, and may reopen a case by that.
LEMMA UploadHandsBack ==
    ASSUME ChainInvariant, CaseInvariant, ClientsGoOn, NEW u \in Uploads, StoreEvidence(u)
    PROVE  CaseInvariant'
  <1> DEFINE j       == evidence[u].journey
             seen    == evidence[u].seen
             waiting == {i \in DOMAIN seen : seen[i].status = "ADDITIONAL_INFO_REQUIRED"}
  <1>0. /\ cases \in [JourneyIds -> Seq(Case)]
        /\ evidence \in [Uploads -> EvidenceState]
    BY DEF ChainInvariant, TypeOK
  <1>1. /\ evidence[u].at = "handing"
        /\ cases' = [cases EXCEPT ![j] = [i \in DOMAIN cases[j] |->
                        IF i \in waiting THEN Reopen(cases[j][i], seen[i]) ELSE cases[j][i]]]
        /\ evidence' = [evidence EXCEPT ![u].at = "stored", ![u].seen = <<>>]
    BY DEF StoreEvidence
  <1>2. HandoversGoOn
    <2>1. evidence'[u].at # "handing" /\ \A v \in Uploads \ {u} : evidence'[v] = evidence[v]
      BY <1>0, <1>1 DEF EvidenceState
    <2> QED  BY <2>1 DEF HandoversGoOn, Handing
  <1>3. ASSUME NEW k \in JourneyIds
        PROVE  /\ DOMAIN cases'[k] = DOMAIN cases[k]
               /\ \A i \in DOMAIN cases[k] : RowGoesOn(k, i)
    <2>1. CASE k # j
      <3>1. cases'[k] = cases[k]
        BY <1>0, <1>1, <2>1
      <3> QED  BY <3>1 DEF RowGoesOn, CaseInvariant, MayBeOpen, AsRead
    <2>2. CASE k = j
      <3>1. Handing(u, k) /\ Uploading(k)
        BY <1>1, <2>2 DEF Handing, Uploading
      <3>2. DOMAIN cases'[k] = DOMAIN cases[k]
        BY <1>0, <1>1, <2>2
      <3>3. ASSUME NEW i \in DOMAIN cases[k], i \notin waiting
            PROVE  RowGoesOn(k, i)
        <4>1. cases'[k][i] = cases[k][i]
          BY <1>0, <1>1, <2>2, <3>3
        <4> QED  BY <4>1 DEF RowGoesOn, CaseInvariant, MayBeOpen, AsRead
      <3>4. ASSUME NEW i \in DOMAIN cases[k], i \in waiting
            PROVE  RowGoesOn(k, i)
        <4>1. cases'[k][i] = Reopen(cases[k][i], seen[i])
          BY <1>0, <1>1, <2>2, <3>4
        <4>2. /\ WellReviewed(seen[i]) /\ seen[i].status = "ADDITIONAL_INFO_REQUIRED"
              /\ seen[i].reviewer # NoReviewer => cases[k][i].reviewer # NoReviewer
          BY <2>2, <3>1, <3>4 DEF CaseInvariant, HandoverIsKnown
        <4>3. cases[k][i].reviewer # NoReviewer
          BY <4>2 DEF WellReviewed
        <4>4. cases[k][i] \in Case
          BY CaseRowType DEF ChainInvariant
        <4>5. MayBeOpen(k, i)
          BY <3>1, <3>4 DEF MayBeOpen, ComesBack
        <4>6. \A d \in Clients : pc'[d] = "open" => request[d].journey # k
          BY <3>1, NobodyReads
        <4> QED  BY <4>1, <4>2, <4>3, <4>4, <4>5, <4>6, ReopenedRow DEF RowGoesOn
      <3> QED  BY <3>2, <3>3, <3>4
    <2> QED  BY <2>1, <2>2
  <1> QED  BY <1>2, <1>3, RowsGoOn


-----------------------------------------------------------------------------
(* The invariant and what follows from it.                                 *)

\* The rows of the uploads stay as they are.
LEMMA UploadsUntouched ==
    ASSUME UNCHANGED evidence
    PROVE  HandoversGoOn
  BY DEF HandoversGoOn, Handing

\* The customer side keeps the invariant, whether reviewers do as AskCustomer says or not.
LEMMA CustomerCases ==
    ASSUME ChainInvariant, CaseInvariant, CustomerNext
    PROVE  CaseInvariant'
  <1>1. CASE \E c \in Clients : OpenApply(c)
    BY <1>1, OpenReads
  <1> SUFFICES ASSUME ~\E c \in Clients : OpenApply(c)
               PROVE  CaseInvariant'
    BY <1>1
  <1>2. ClientsGoOn
    BY OpenedBefore DEF ClientsGoOn, Next
  <1>3. ASSUME NEW c \in Clients, CommitApply(c)
        PROVE  CaseInvariant'
    <2>1. CASE tx[c].case.found = "new"
      BY <1>2, <1>3, <2>1, CommitOpens
    <2>2. CASE tx[c].case.found # "new"
      <3>1. UNCHANGED <<cases, evidence>>
        BY <1>3, <2>2 DEF CommitApply
      <3> QED  BY <1>2, <3>1, UploadsUntouched, CasesUntouched
    <2> QED  BY <2>1, <2>2
  <1>4. ASSUME NEW c \in Clients, ReopenAndCommit(c)
        PROVE  CaseInvariant'
    BY <1>2, <1>4, CommitReopens
  <1>5. ASSUME NEW c \in Clients,
               \/ BeginApply(c) \/ BeginClarify(c) \/ ReplayAfterWait(c) \/ RejectApply(c)
               \/ Clarify(c) \/ RejectClarify(c) \/ CollideOnKey(c) \/ CollideOnNumber(c)
               \/ FinishApply(c) \/ Crash(c) \/ Return(c)
        PROVE  CaseInvariant'
    <2>1. UNCHANGED <<cases, evidence>>
      BY <1>5 DEF BeginApply, BeginClarify, ReplayAfterWait, RejectApply, Clarify,
         RejectClarify, CollideOnKey, CollideOnNumber, FinishApply, Crash, Return
    <2> QED  BY <1>2, <2>1, UploadsUntouched, CasesUntouched
  <1>6. ASSUME NEW j \in JourneyIds, CreateJourney(j)
        PROVE  CaseInvariant'
    <2>1. UNCHANGED <<cases, evidence>>
      BY <1>6 DEF CreateJourney
    <2> QED  BY <1>2, <2>1, UploadsUntouched, CasesUntouched
  <1>7. ASSUME NEW u \in Uploads, AbortEvidence(u)
        PROVE  CaseInvariant'
    <2>1. UNCHANGED cases /\ evidence' = [evidence EXCEPT ![u] = NoEvidence]
      BY <1>7 DEF AbortEvidence
    <2>2. HandoversGoOn
      BY <2>1 DEF HandoversGoOn, Handing, NoEvidence, ChainInvariant, TypeOK
    <2> QED  BY <1>2, <2>1, <2>2, CasesUntouched
  <1>8. ASSUME NEW u \in Uploads, AnalyseEvidence(u) \/ StoreEvidence(u)
        PROVE  CaseInvariant'
    BY <1>2, <1>8, UploadLists, UploadHandsBack
  <1> QED  BY <1>3, <1>4, <1>5, <1>6, <1>7, <1>8 DEF CustomerNext, Serve, Finish

LEMMA AskedCases ==
    ASSUME ChainInvariant, CaseInvariant, NEW j \in JourneyIds, AskCustomer(j)
    PROVE  CaseInvariant'
  <1>1. PICK i \in DOMAIN cases[j], r \in Reviewers :
           /\ cases[j][i].status = "REVIEW_REQUIRED"
           /\ cases' = [cases EXCEPT ![j] = [@ EXCEPT ![i] = Asked(cases[j][i], r)]]
           /\ lock[j] = NoOne /\ UNCHANGED evidence
           /\ UNCHANGED clientVars
    BY DEF AskCustomer
  <1>2. ClientsGoOn
    BY <1>1 DEF ClientsGoOn, GoesOn, clientVars
  <1>3. cases[j] \in Seq(Case) /\ cases[j][i] \in Case
    BY CaseRowType DEF ChainInvariant
  <1>4. cases'[j][i] = Asked(cases[j][i], r)
    BY <1>1, <1>3 DEF ChainInvariant, TypeOK
  <1>5. RowGoesOn(j, i)
    <2>1. \A d \in Clients : pc'[d] = "open" => request[d].journey # j
      BY <1>1, <1>2, NobodyReads
    <2>2. /\ cases'[j][i].status = "ADDITIONAL_INFO_REQUIRED"
          /\ cases'[j][i].reviewer = r /\ r # NoReviewer
          /\ cases'[j][i].ambiguity = cases[j][i].ambiguity
      BY <1>3, <1>4, JourneysAssumption DEF Asked, Case
    <2> QED  BY <1>1, <2>1, <2>2 DEF RowGoesOn, WellReviewed, MayBeOpen, Terminal
  <1> QED  BY <1>1, <1>2, <1>5, UploadsUntouched, CaseRewritten

LEMMA CaseInit ==
    ASSUME Init
    PROVE  CaseInvariant
  BY DEF Init, CaseInvariant, OneCase, ReadStaysTrue, HandoverIsKnown, Handing, NoEvidence

LEMMA CaseStep ==
    ASSUME ChainInvariant, CaseInvariant, [Next]_vars
    PROVE  CaseInvariant'
  <1>1. CASE UNCHANGED vars
    <2>1. ClientsGoOn /\ UNCHANGED <<cases, evidence>>
      BY <1>1 DEF vars, ClientsGoOn, GoesOn
    <2> QED  BY <2>1, UploadsUntouched, CasesUntouched
  <1> QED  BY <1>1, CustomerCases, AskedCases DEF Next

\* A set any two members of which are equal has at most one.
LEMMA AtMostOne ==
    ASSUME NEW S, \A m, n \in S : m = n
    PROVE  Cardinality(S) <= 1
  <1>1. CASE S = {}
    <2>1. Cardinality(S) = 0
      BY <1>1, FS_EmptySet
    <2> QED  BY <2>1
  <1>2. ASSUME NEW m \in S
        PROVE  Cardinality(S) <= 1
    <2>1. S = {m}
      BY <1>2
    <2>2. Cardinality(S) = 1
      BY <2>1, FS_Singleton
    <2> QED  BY <2>2
  <1> QED  BY <1>1, <1>2

LEMMA OneOpenCase ==
    ASSUME CaseInvariant
    PROVE  OneOpenCasePerQuestion
  <1>1. ASSUME NEW j \in JourneyIds, NEW a \in Ambiguities
        PROVE  \A m, n \in OpenCases(j, a) : m = n
    BY DEF CaseInvariant, OneCase, MayBeOpen, OpenCases
  <1> QED  BY <1>1, AtMostOne DEF OneOpenCasePerQuestion

\* The inductive invariant of the cases, in every reachable state of the customer side.
THEOREM CaseInvariantHolds == Spec => []CaseInvariant
  <1>1. Init => CaseInvariant
    BY CaseInit
  <1>2. ChainInvariant /\ CaseInvariant /\ [Next]_vars => CaseInvariant'
    BY CaseStep
  <1> QED  BY <1>1, <1>2, ChainInvariantHolds, PTL DEF Spec

\* However many conflicts, retries and uploads there are at once, a question never has two
\* open cases that reviewers could decide differently.
THEOREM OneCaseToDecide == Spec => []OneOpenCasePerQuestion
  <1>1. CaseInvariant => OneOpenCasePerQuestion
    BY OneOpenCase
  <1> QED  BY <1>1, CaseInvariantHolds, PTL


===============================================================================
