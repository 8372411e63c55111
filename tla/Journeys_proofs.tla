--------------------------- MODULE Journeys_proofs ---------------------------
(***************************************************************************)
(* Proofs about Journeys for every pack, every number of journeys, clients *)
(* and keys: type correctness, and that the history of a journey is a      *)
(* line that concurrent requests extend one at a time.                     *)
(***************************************************************************)
EXTENDS Journeys, SequenceTheorems, FiniteSetTheorems, TLAPS

-----------------------------------------------------------------------------
(* The rows the operations write have the types of their tables.           *)

\* The engine only computes known statuses and verdicts (derive_field_states and
\* evaluate_readiness return members of their enums).
LEMMA DerivedTypes ==
    ASSUME NEW value \in [Fields -> Value], NEW explicit, NEW question
    PROVE  /\ DeriveStatus(value, explicit, question) \in [Fields -> Status]
           /\ DeriveValue(value) \in [Fields -> Value]
           /\ \A status : ReadinessOf(value, status) \in Readiness
  <1>1. DeriveStatus(value, explicit, question) \in [Fields -> Status]
    BY DEF DeriveStatus, Status
  <1>2. DeriveValue(value) \in [Fields -> Value]
    BY DEF DeriveValue, Value
  <1>3. \A status : ReadinessOf(value, status) \in Readiness
    BY DEF ReadinessOf, Readiness
  <1> QED  BY <1>1, <1>2, <1>3

\* create_journey writes a well-formed first snapshot.
LEMMA InitialSnapshotType ==
    InitialSnapshot \in Snapshot /\ InitialSnapshot.ver = 1 /\ InitialSnapshot.prev = 0
  <1>1. InitialValue \in [Fields -> Value]
    BY DEF InitialValue, Value
  <1>2. DeriveValue(InitialValue) \in [Fields -> Value]
    BY <1>1, DerivedTypes
  <1>3. DeriveStatus(InitialValue, InitialExplicit, NoAmbiguity) \in [Fields -> Status]
    BY <1>1, DerivedTypes
  <1>4. \A status : ReadinessOf(DeriveValue(InitialValue), status) \in Readiness
    BY <1>2, DerivedTypes
  <1> QED  BY <1>2, <1>3, <1>4 DEF InitialSnapshot, Snapshot, Version

\* Every mutation writes a well-formed snapshot, one version after the one it replaces.
LEMMA SuccessorType ==
    ASSUME TypeOK, NEW j \in JourneyIds, NEW i \in DOMAIN snapshots[j], NEW written,
           NEW v \in Value, NEW question \in Ambiguities \cup {NoAmbiguity}
    PROVE  /\ Successor(j, i, written, v, question) \in Snapshot
           /\ Successor(j, i, written, v, question).ver = snapshots[j][i].ver + 1
           /\ Successor(j, i, written, v, question).prev = i
           /\ Successor(j, i, written, v, question).pending = question
  <1> DEFINE base     == snapshots[j][i]
             value    == [f \in Fields |-> IF f \in written THEN v ELSE base.value[f]]
             explicit == [f \in Fields |-> IF f \notin written THEN base.status[f]
                                           ELSE IF AskedAbout(f, question) THEN "AMBIGUOUS"
                                           ELSE "SATISFIED"]
  <1>1. snapshots[j] \in Seq(Snapshot) /\ i \in Nat /\ base \in Snapshot
    <2>1. snapshots[j] \in Seq(Snapshot)
      BY DEF TypeOK
    <2> QED  BY <2>1, ElementOfSeq, LenProperties
  <1>2. base.ver \in Version /\ base.value \in [Fields -> Value]
    BY <1>1 DEF Snapshot
  <1>3. value \in [Fields -> Value]
    BY <1>2
  <1> HIDE DEF base, value, explicit
  <1>4. /\ DeriveValue(value) \in [Fields -> Value]
        /\ DeriveStatus(value, explicit, question) \in [Fields -> Status]
    BY <1>3, DerivedTypes
  <1>5. \A status : ReadinessOf(DeriveValue(value), status) \in Readiness
    BY <1>4, DerivedTypes
  <1>6. Successor(j, i, written, v, question) =
          [ver       |-> base.ver + 1,
           prev      |-> i,
           value     |-> DeriveValue(value),
           status    |-> DeriveStatus(value, explicit, question),
           readiness |-> ReadinessOf(DeriveValue(value),
                                     DeriveStatus(value, explicit, question)),
           pending   |-> question]
    BY DEF Successor, base, value, explicit
  <1> QED  BY <1>1, <1>2, <1>4, <1>5, <1>6 DEF Snapshot, Version, base

\* Updating one row of a table, or none, leaves a table of the same rows.
LEMMA UpdateType ==
    ASSUME NEW S, NEW s \in Seq(S), NEW n, NEW x, n \in DOMAIN s => x \in S
    PROVE  [s EXCEPT ![n] = x] \in Seq(S)
  <1>1. CASE n \in DOMAIN s
    <2>1. n \in 1..Len(s) /\ x \in S
      BY <1>1, LenProperties
    <2> QED  BY <2>1, ExceptSeq
  <1>2. CASE n \notin DOMAIN s
    <2>1. s \in [1..Len(s) -> S] /\ DOMAIN s = 1..Len(s)
      BY LenProperties
    <2>2. [s EXCEPT ![n] = x] = s
      BY <1>2, <2>1
    <2> QED  BY <2>2
  <1> QED  BY <1>1, <1>2

LEMMA CaseRowType ==
    ASSUME TypeOK, NEW j \in JourneyIds, NEW i \in DOMAIN cases[j]
    PROVE  cases[j] \in Seq(Case) /\ i \in Version /\ cases[j][i] \in Case
  <1>1. cases[j] \in Seq(Case)
    BY DEF TypeOK
  <1> QED  BY <1>1, ElementOfSeq, LenProperties DEF Version

\* MAX(case_seq) + 1 is a number, whatever cases there are.
LEMMA NextCaseNumberType ==
    ASSUME TypeOK
    PROVE  NextCaseNumber \in Nat
  <1>1. \A n \in CaseNumbers : n \in Nat
    BY CaseRowType DEF CaseNumbers, Case
  <1>2. CASE \E n \in CaseNumbers : Greatest(n, CaseNumbers)
    <2>1. (CHOOSE n \in CaseNumbers : Greatest(n, CaseNumbers)) \in CaseNumbers
      BY <1>2
    <2> QED  BY <2>1, <1>1, <1>2 DEF NextCaseNumber
  <1>3. CASE ~\E n \in CaseNumbers : Greatest(n, CaseNumbers)
    BY <1>3 DEF NextCaseNumber
  <1> QED  BY <1>2, <1>3

LEMMA ReadCaseType ==
    ASSUME TypeOK, NEW j \in JourneyIds, NEW question, NEW read \in ReadCase(j, question)
    PROVE  read \in CaseRead
  <1>1. NextCaseNumber \in Nat
    BY NextCaseNumberType
  <1>2. \A i \in OpenCases(j, question) : i \in Version /\ cases[j][i] \in Case
    BY CaseRowType DEF OpenCases
  <1> QED  BY <1>1, <1>2 DEF ReadCase, CaseRead

\* A new case counts the attempts before it and starts at version 1.
LEMMA NewCaseType ==
    ASSUME TypeOK, NEW j \in JourneyIds, NEW a \in Ambiguities, NEW number \in Nat
    PROVE  NewCase(j, a, number) \in Case
  <1> DEFINE before == {i \in DOMAIN cases[j] : cases[j][i].ambiguity = a}
  <1>1. cases[j] \in Seq(Case)
    BY DEF TypeOK
  <1>2. IsFiniteSet(DOMAIN cases[j])
    BY <1>1, LenProperties, FS_Interval
  <1>3. Cardinality(before) \in Nat
    BY <1>2, FS_Subset, FS_CardinalityType
  <1> QED  BY <1>3 DEF NewCase, Case, CaseStatus, Version

LEMMA ReopenType ==
    ASSUME NEW case \in Case, NEW read \in Case
    PROVE  Reopen(case, read) \in Case
  <1> DEFINE status == IF read.reviewer # NoReviewer THEN "UNDER_REVIEW" ELSE "REVIEW_REQUIRED"
  <1>1. read.version + 1 \in Version /\ status \in CaseStatus
    BY DEF Case, CaseStatus, Version
  <1>2. Reopen(case, read) = [case EXCEPT !.status = status, !.version = read.version + 1]
    BY DEF Reopen
  <1> HIDE DEF status
  <1> QED  BY <1>1, <1>2 DEF Case

LEMMA CompletedEventsType ==
    ASSUME NEW j, NEW snapshot
    PROVE  CompletedEvents(j, snapshot) \in Seq(EventType)
  <1>1. << >> \in Seq(EventType) /\ <<"JOURNEY_COMPLETED">> \in Seq(EventType)
    BY DEF EventType
  <1> QED  BY <1>1 DEF CompletedEvents

\* A request that ends leaves its client in a proper state.
LEMMA AnsweredType ==
    ASSUME TypeOK, NEW c \in Clients, NEW outcome \in {"ok", "refused", "error", "lost"},
           Answered(c, outcome)
    PROVE  /\ pc' \in [Clients -> {"idle", "waiting", "open", "wrote", "answered"}]
           /\ tx' \in [Clients -> Writes \cup {None}]
           /\ reply' \in [Clients -> {"none", "ok", "refused", "error", "lost"}]
  BY DEF TypeOK, Answered

\* The three rows of one mutation are well formed.
LEMMA WriteMutationType ==
    ASSUME TypeOK, NEW j \in JourneyIds, NEW snapshot \in Snapshot,
           NEW event \in AuditEvent, WriteMutation(j, snapshot, event)
    PROVE  /\ snapshots' \in [JourneyIds -> Seq(Snapshot)]
           /\ journey' \in [JourneyIds -> JourneyRow]
           /\ audit' \in [JourneyIds -> Seq(AuditEvent)]
  <1>1. snapshots[j] \in Seq(Snapshot) /\ Len(snapshots[j]) \in Nat
    BY LenProperties DEF TypeOK
  <1>2. RowFor(Len(snapshots[j]) + 1, snapshot) \in JourneyRow
    BY <1>1 DEF RowFor, StatusFor, JourneyRow, JourneyStatus, Snapshot, Readiness
  <1>3. Append(snapshots[j], snapshot) \in Seq(Snapshot)
    BY <1>1
  <1>4. Append(audit[j], event) \in Seq(AuditEvent)
    BY DEF TypeOK
  <1> QED  BY <1>2, <1>3, <1>4 DEF WriteMutation, TypeOK

-----------------------------------------------------------------------------
(* Snapshots a running request can rely on.                                *)

\* A request that waits or runs names a journey that exists, with a current snapshot.
LEMMA RequestContext ==
    ASSUME ChainInvariant, NEW c \in Clients, pc[c] \in {"waiting", "open", "wrote"}
    PROVE  LET j == request[c].journey
           IN  /\ request[c] \in Request
               /\ j \in JourneyIds
               /\ journey[j].current = Len(snapshots[j])
               /\ journey[j].current \in DOMAIN snapshots[j]
               /\ Current(j) \in Snapshot
               /\ Current(j).ver = Len(snapshots[j])
  <1> DEFINE j == request[c].journey
  <1>1. request[c] \in Request /\ request[c].expected \in DOMAIN snapshots[j]
    BY DEF ChainInvariant, RequestsAreGrounded, TypeOK
  <1>2. j \in JourneyIds
    BY <1>1 DEF Request, ApplyRequest, ClarifyRequest
  <1>3. snapshots[j] \in Seq(Snapshot)
    BY <1>2 DEF ChainInvariant, TypeOK
  <1>4. /\ DOMAIN snapshots[j] = 1..Len(snapshots[j])
        /\ Len(snapshots[j]) \in Nat
    BY <1>3, LenProperties
  <1>5. journey[j].current = Len(snapshots[j])
    BY <1>2 DEF ChainInvariant, ChainIsLinear
  <1>6. journey[j].current \in DOMAIN snapshots[j]
    BY <1>1, <1>4, <1>5
  <1>7. Current(j) \in Snapshot
    BY <1>3, <1>6, ElementOfSeq, <1>4 DEF Current
  <1>8. Current(j).ver = Len(snapshots[j])
    BY <1>2, <1>5, <1>6 DEF ChainInvariant, ChainIsLinear, Current
  <1> QED  BY <1>1, <1>2, <1>5, <1>6, <1>7, <1>8

\* An action past its check is an ActionRequest whose writes are well formed.
LEMMA OpenContext ==
    ASSUME ChainInvariant, NEW c \in Clients, pc[c] \in {"open", "wrote"}
    PROVE  /\ request[c] \in ApplyRequest
           /\ tx[c].snapshot \in Snapshot
           /\ tx[c].case \in CaseRead
           /\ tx[c].case.found # "none" => tx[c].snapshot.pending \in Ambiguities
  <1>1. request[c] \in Request /\ request[c].op = "apply"
    BY RequestContext DEF ChainInvariant, RequestsAreGrounded
  <1>2. request[c] \in ApplyRequest
    BY <1>1 DEF Request, ApplyRequest, ClarifyRequest
  <1>3. tx[c] \in Writes
    BY DEF ChainInvariant, RequestsAreGrounded
  <1>4. tx[c].case.found # "none" => tx[c].snapshot.pending \in Ambiguities
    BY <1>3 DEF ChainInvariant, RequestsAreGrounded, Snapshot, Writes
  <1> QED  BY <1>2, <1>3, <1>4 DEF Writes

\* The request of an action is well formed, and so is what it would write.
LEMMA ActionTypes ==
    ASSUME NEW req \in ApplyRequest
    PROVE  /\ req.input.action \in Actions
           /\ Satisfies[req.input.action] \subseteq Fields
           /\ NewValue(req.input.action, EvidenceRow(req.input), req.input.typed) \in Value
           /\ Question(req.input) \in Ambiguities \cup {NoAmbiguity}
           /\ ActionExecuted(req) \in AuditEvent
  <1>1. req.input \in Input /\ req.key \in Keys
    BY InputsAssumption DEF ApplyRequest
  <1>2. /\ req.input.action \in Actions
        /\ req.input.typed \in Value
        /\ req.input.ambiguity \in Ambiguities \cup {NoAmbiguity}
    BY <1>1 DEF Input
  <1>3. Satisfies[req.input.action] \subseteq Fields
    BY <1>2, PackAssumption
  <1>4. NewValue(req.input.action, EvidenceRow(req.input), req.input.typed) \in Value
    BY <1>2 DEF NewValue, Value
  <1>5. Question(req.input) \in Ambiguities \cup {NoAmbiguity}
    BY <1>2 DEF Question
  <1>6. ActionExecuted(req) \in AuditEvent
    BY <1>1, <1>2, <1>3, <1>4 DEF ActionExecuted, AuditEvent
  <1> QED  BY <1>2, <1>3, <1>4, <1>5, <1>6

\* An answer writes a well-formed snapshot, one version after the current one.
LEMMA ClarifiedType ==
    ASSUME TypeOK, NEW j \in JourneyIds, journey[j].current \in DOMAIN snapshots[j],
           NEW a \in Ambiguities, NEW v \in Value
    PROVE  /\ Clarified(j, a, v) \in Snapshot
           /\ Clarified(j, a, v).ver = Current(j).ver + 1
           /\ Clarified(j, a, v).prev = journey[j].current
  <1> DEFINE next == NextQuestion(j, a)
             plain == Successor(j, journey[j].current, {AmbiguityField[a]}, v, next)
  <1>1. next \in Ambiguities \cup {NoAmbiguity}
    BY DEF NextQuestion
  <1>2. /\ plain \in Snapshot
        /\ plain.ver = Current(j).ver + 1
        /\ plain.prev = journey[j].current
    BY <1>1, SuccessorType DEF Current
  <1>3. Clarified(j, a, v) =
          IF next = NoAmbiguity THEN plain ELSE [plain EXCEPT !.readiness = "NEEDS_REVIEW"]
    BY DEF Clarified
  <1> HIDE DEF plain, next
  <1>4. [plain EXCEPT !.readiness = "NEEDS_REVIEW"] \in Snapshot
    BY <1>2 DEF Snapshot, Readiness
  <1>5. /\ [plain EXCEPT !.readiness = "NEEDS_REVIEW"].ver = plain.ver
        /\ [plain EXCEPT !.readiness = "NEEDS_REVIEW"].prev = plain.prev
    BY <1>2 DEF Snapshot
  <1> QED  BY <1>2, <1>3, <1>4, <1>5

\* The answer of a customer or a reviewer leaves well-formed rows.
LEMMA WriteAnswerType ==
    ASSUME TypeOK, NEW j \in JourneyIds, journey[j].current \in DOMAIN snapshots[j],
           NEW a \in Ambiguities, NEW v \in Value, WriteAnswer(j, a, v)
    PROVE  /\ snapshots' \in [JourneyIds -> Seq(Snapshot)]
           /\ journey' \in [JourneyIds -> JourneyRow]
           /\ audit' \in [JourneyIds -> Seq(AuditEvent)]
           /\ outbox' \in [JourneyIds -> Seq(EventType)]
  <1>1. Clarified(j, a, v) \in Snapshot
    BY ClarifiedType
  <1>2. AmbiguityField[a] \in Fields
    BY PackAssumption
  <1>3. [event |-> "CLARIFICATION_ANSWERED", what |-> a, fields |-> {AmbiguityField[a]},
         value |-> v, key |-> NoKey] \in AuditEvent
    BY <1>2 DEF AuditEvent
  <1>4. /\ snapshots' \in [JourneyIds -> Seq(Snapshot)]
        /\ journey' \in [JourneyIds -> JourneyRow]
        /\ audit' \in [JourneyIds -> Seq(AuditEvent)]
    BY <1>1, <1>3, WriteMutationType DEF WriteAnswer
  <1>5. outbox[j] \o CompletedEvents(j, Clarified(j, a, v)) \in Seq(EventType)
    BY CompletedEventsType, ConcatProperties DEF TypeOK
  <1> QED  BY <1>4, <1>5 DEF WriteAnswer, TypeOK

-----------------------------------------------------------------------------
(* Type correctness of each step.                                          *)

\* What starting a request does: the client has a well-formed request about a snapshot of
\* its journey, and either waits for the row lock or has been answered.
LEMMA BegunRequest ==
    ASSUME TypeOK, NEW c \in Clients, BeginApply(c) \/ BeginClarify(c)
    PROVE  /\ \E r \in Request :
                /\ r.expected \in DOMAIN snapshots[r.journey]
                /\ request' = [request EXCEPT ![c] = r]
           /\ \/ \E outcome \in {"ok", "refused"} : Answered(c, outcome)
              \/ pc' = [pc EXCEPT ![c] = "waiting"] /\ UNCHANGED <<tx, reply>>
           /\ UNCHANGED <<journeyVars, outbox, records, cases, evidence, lock, rowLock>>
  <1>1. ASSUME NEW j \in JourneyIds, NEW expected \in DOMAIN snapshots[j]
        PROVE  expected \in Nat
    <2>1. snapshots[j] \in Seq(Snapshot)
      BY DEF TypeOK
    <2> QED  BY <2>1, LenProperties
  <1>2. CASE BeginApply(c)
    <2>1. PICK k \in Keys, j \in JourneyIds, in \in Inputs :
            \E expected \in DOMAIN snapshots[j] :
             LET req == [op |-> "apply", key |-> k, journey |-> j,
                         expected |-> expected, input |-> in]
             IN  /\ request' = [request EXCEPT ![c] = req]
                 /\ IF records[k] # None
                    THEN Answered(c, ReplayOutcome(k, req))
                    ELSE pc' = [pc EXCEPT ![c] = "waiting"] /\ UNCHANGED <<tx, reply>>
      BY <1>2 DEF BeginApply
    <2>2. PICK expected \in DOMAIN snapshots[j] :
             LET req == [op |-> "apply", key |-> k, journey |-> j,
                         expected |-> expected, input |-> in]
             IN  /\ request' = [request EXCEPT ![c] = req]
                 /\ IF records[k] # None
                    THEN Answered(c, ReplayOutcome(k, req))
                    ELSE pc' = [pc EXCEPT ![c] = "waiting"] /\ UNCHANGED <<tx, reply>>
      BY <2>1
    <2> DEFINE req == [op |-> "apply", key |-> k, journey |-> j,
                       expected |-> expected, input |-> in]
    <2>3. req \in Request
      BY <1>1 DEF Request, ApplyRequest
    <2>4. req.expected \in DOMAIN snapshots[req.journey]
      OBVIOUS
    <2>5. ReplayOutcome(k, req) \in {"ok", "refused"}
      BY DEF ReplayOutcome
    <2>6. /\ request' = [request EXCEPT ![c] = req]
          /\ \/ Answered(c, ReplayOutcome(k, req))
             \/ pc' = [pc EXCEPT ![c] = "waiting"] /\ UNCHANGED <<tx, reply>>
      BY <2>2
    <2> HIDE DEF req
    <2> QED  BY <1>2, <2>3, <2>4, <2>5, <2>6 DEF BeginApply
  <1>3. CASE BeginClarify(c)
    <2>1. PICK j \in JourneyIds, in \in Answers :
            \E expected \in DOMAIN snapshots[j] :
              /\ request' = [request EXCEPT ![c] = [op |-> "clarify", journey |-> j,
                                                    expected |-> expected, input |-> in]]
              /\ IF journey[j].current # expected
                 THEN Answered(c, "refused")
                 ELSE pc' = [pc EXCEPT ![c] = "waiting"] /\ UNCHANGED <<tx, reply>>
      BY <1>3 DEF BeginClarify
    <2>2. PICK expected \in DOMAIN snapshots[j] :
              /\ request' = [request EXCEPT ![c] = [op |-> "clarify", journey |-> j,
                                                    expected |-> expected, input |-> in]]
              /\ IF journey[j].current # expected
                 THEN Answered(c, "refused")
                 ELSE pc' = [pc EXCEPT ![c] = "waiting"] /\ UNCHANGED <<tx, reply>>
      BY <2>1
    <2> DEFINE req == [op |-> "clarify", journey |-> j, expected |-> expected, input |-> in]
    <2>3. req \in Request
      BY <1>1 DEF Request, ClarifyRequest
    <2>4. req.expected \in DOMAIN snapshots[req.journey]
      OBVIOUS
    <2>5. request' = [request EXCEPT ![c] = req]
      BY <2>2
    <2> HIDE DEF req
    <2> QED  BY <1>3, <2>2, <2>3, <2>4, <2>5 DEF BeginClarify
  <1> QED  BY <1>2, <1>3

\* Starting a request.
LEMMA BeginTypes ==
    ASSUME TypeOK, NEW c \in Clients, BeginApply(c) \/ BeginClarify(c)
    PROVE  TypeOK'
  <1>1. /\ \E r \in Request : request' = [request EXCEPT ![c] = r]
        /\ \/ \E outcome \in {"ok", "refused"} : Answered(c, outcome)
           \/ pc' = [pc EXCEPT ![c] = "waiting"] /\ UNCHANGED <<tx, reply>>
        /\ UNCHANGED <<journeyVars, outbox, records, cases, evidence, lock, rowLock>>
    BY BegunRequest
  <1>2. request' \in [Clients -> Request \cup {None}]
    BY <1>1 DEF TypeOK
  <1>3. /\ pc' \in [Clients -> {"idle", "waiting", "open", "wrote", "answered"}]
        /\ tx' \in [Clients -> Writes \cup {None}]
        /\ reply' \in [Clients -> {"none", "ok", "refused", "error", "lost"}]
    <2>1. CASE \E outcome \in {"ok", "refused"} : Answered(c, outcome)
      BY <2>1, AnsweredType
    <2>2. CASE pc' = [pc EXCEPT ![c] = "waiting"] /\ UNCHANGED <<tx, reply>>
      BY <2>2 DEF TypeOK
    <2> QED  BY <1>1, <2>1, <2>2
  <1> QED  BY <1>1, <1>2, <1>3 DEF journeyVars, TypeOK

\* POST /actions, up to the point where the transaction is open.
LEMMA ApplyTypes ==
    ASSUME ChainInvariant, NEW c \in Clients,
           BeginApply(c) \/ ReplayAfterWait(c) \/ RejectApply(c) \/ OpenApply(c)
    PROVE  TypeOK'
  <1> USE DEF ChainInvariant
  <1>1. CASE BeginApply(c)
    BY <1>1, BeginTypes
  <1>2. CASE ReplayAfterWait(c)
    <2>1. ReplayOutcome(request[c].key, request[c]) \in {"ok", "refused", "error", "lost"}
      BY DEF ReplayOutcome
    <2> QED  BY <1>2, <2>1, AnsweredType DEF ReplayAfterWait, journeyVars, TypeOK
  <1>3. CASE RejectApply(c)
    BY <1>3, AnsweredType DEF RejectApply, journeyVars, TypeOK
  <1>4. CASE OpenApply(c)
    <2> DEFINE req == request[c]
               j   == req.journey
               next == Successor(j, journey[j].current, Satisfies[req.input.action],
                                 NewValue(req.input.action, EvidenceRow(req.input),
                                          req.input.typed),
                                 Question(req.input))
    <2>1. pc[c] = "waiting" /\ req.op = "apply"
      BY <1>4 DEF OpenApply, Granted
    <2>2. j \in JourneyIds /\ journey[j].current \in DOMAIN snapshots[j] /\ req \in Request
      BY <2>1, RequestContext
    <2>3. req \in ApplyRequest
      BY <2>1, <2>2 DEF Request, ApplyRequest, ClarifyRequest
    <2>4. next \in Snapshot
      BY <2>2, <2>3, ActionTypes, SuccessorType
    <2>5. PICK read \in ReadCase(j, Question(req.input)) :
             tx' = [tx EXCEPT ![c] = [snapshot |-> next, case |-> read]]
      BY <1>4 DEF OpenApply
    <2>6. read \in CaseRead
      BY <2>2, ReadCaseType
    <2> HIDE DEF next
    <2>7. tx' \in [Clients -> Writes \cup {None}]
      BY <2>4, <2>5, <2>6 DEF Writes, TypeOK
    <2>8. /\ lock' = [lock EXCEPT ![j] = c]
          /\ pc' = [pc EXCEPT ![c] = "open"]
          /\ UNCHANGED <<journeyVars, outbox, records, cases, evidence, rowLock, request, reply>>
      BY <1>4 DEF OpenApply
    <2> QED  BY <2>2, <2>7, <2>8 DEF journeyVars, TypeOK
  <1> QED  BY <1>1, <1>2, <1>3, <1>4

\* The idempotency row of a committed action.
LEMMA RecordType ==
    ASSUME ChainInvariant, NEW c \in Clients, pc[c] \in {"open", "wrote"}, Record(c)
    PROVE  records' \in [Keys -> IdempotencyRow \cup {None}]
  <1>1. request[c] \in ApplyRequest /\ tx[c].snapshot \in Snapshot
    BY OpenContext
  <1>2. [request |-> request[c], ver |-> tx[c].snapshot.ver] \in IdempotencyRow
    BY <1>1 DEF IdempotencyRow, Snapshot
  <1>3. records \in [Keys -> IdempotencyRow \cup {None}]
    BY DEF ChainInvariant, TypeOK
  <1> QED  BY <1>2, <1>3 DEF Record

\* The end of apply_action.
LEMMA CommitTypes ==
    ASSUME ChainInvariant, NEW c \in Clients,
           \/ CommitApply(c) \/ CollideOnKey(c) \/ CollideOnNumber(c)
           \/ ReopenAndCommit(c) \/ FinishApply(c)
    PROVE  TypeOK'
  <1> DEFINE j == request[c].journey
             next == tx[c].snapshot
  <1>1. CASE CommitApply(c)
    <2>1. pc[c] = "open"
      BY <1>1 DEF CommitApply
    <2>2. /\ j \in JourneyIds /\ request[c] \in ApplyRequest /\ next \in Snapshot
          /\ tx[c].case \in CaseRead
          /\ tx[c].case.found # "none" => next.pending \in Ambiguities
      BY <2>1, RequestContext, OpenContext
    <2>3. WriteMutation(j, next, ActionExecuted(request[c]))
      BY <1>1 DEF CommitApply
    <2>4. TypeOK
      BY DEF ChainInvariant
    <2>5. /\ snapshots' \in [JourneyIds -> Seq(Snapshot)]
          /\ journey' \in [JourneyIds -> JourneyRow]
          /\ audit' \in [JourneyIds -> Seq(AuditEvent)]
      BY <2>2, <2>3, <2>4, ActionTypes, WriteMutationType
    <2>6. cases' \in [JourneyIds -> Seq(Case)]
      <3>1. CASE tx[c].case.found = "new"
        <4>1. tx[c].case.number \in Nat
          BY <2>2, <3>1 DEF CaseRead
        <4>2. NewCase(j, next.pending, tx[c].case.number) \in Case
          BY <2>2, <2>4, <3>1, <4>1, NewCaseType
        <4>3. cases \in [JourneyIds -> Seq(Case)]
          BY <2>4 DEF TypeOK
        <4>4. Append(cases[j], NewCase(j, next.pending, tx[c].case.number)) \in Seq(Case)
          BY <2>2, <4>2, <4>3
        <4> QED  BY <1>1, <3>1, <4>3, <4>4 DEF CommitApply
      <3>2. CASE tx[c].case.found # "new"
        BY <1>1, <2>4, <3>2 DEF CommitApply, TypeOK
      <3> QED  BY <3>1, <3>2
    <2>7. outbox' \in [JourneyIds -> Seq(EventType)]
      <3>1. outbox \in [JourneyIds -> Seq(EventType)]
        BY <2>4 DEF TypeOK
      <3>2. outbox[j] \o CompletedEvents(j, next) \in Seq(EventType)
        BY <2>2, <3>1, CompletedEventsType, ConcatProperties
      <3> DEFINE opened == IF tx[c].case.found = "new" THEN <<"REVIEW_REQUIRED">> ELSE <<>>
      <3>3. opened \in Seq(EventType)
        <4>1. <<"REVIEW_REQUIRED">> \in Seq(EventType) /\ <<>> \in Seq(EventType)
          BY DEF EventType
        <4> QED  BY <4>1
      <3>4. outbox' = [outbox EXCEPT ![j] = (@ \o CompletedEvents(j, next)) \o opened]
        BY <1>1 DEF CommitApply
      <3> HIDE DEF opened
      <3>5. (outbox[j] \o CompletedEvents(j, next)) \o opened \in Seq(EventType)
        BY <3>2, <3>3, ConcatProperties
      <3> QED  BY <3>1, <3>4, <3>5
    <2>8. records' \in [Keys -> IdempotencyRow \cup {None}]
      BY <1>1, <2>1, RecordType DEF CommitApply
    <2>9. /\ pc' \in [Clients -> {"idle", "waiting", "open", "wrote", "answered"}]
          /\ tx' \in [Clients -> Writes \cup {None}]
          /\ reply' \in [Clients -> {"none", "ok", "refused", "error", "lost"}]
      BY <1>1, <2>4, AnsweredType DEF CommitApply
    <2>10. UNCHANGED <<evidence, rowLock, request>> /\ lock' = [lock EXCEPT ![j] = NoOne]
      BY <1>1 DEF CommitApply, Unlock
    <2> QED  BY <2>2, <2>4, <2>5, <2>6, <2>7, <2>8, <2>9, <2>10 DEF TypeOK
  <1>2. CASE CollideOnKey(c)
    <2>1. ReplayOutcome(request[c].key, request[c]) \in {"ok", "refused", "error", "lost"}
      BY DEF ReplayOutcome
    <2>2. TypeOK
      BY DEF ChainInvariant
    <2> QED  BY <1>2, <2>1, <2>2, AnsweredType DEF CollideOnKey, Unlock, journeyVars, TypeOK
  <1>3. CASE CollideOnNumber(c)
    <2>1. TypeOK
      BY DEF ChainInvariant
    <2> QED  BY <1>3, <2>1, AnsweredType DEF CollideOnNumber, Unlock, journeyVars, TypeOK
  <1>4. CASE ReopenAndCommit(c)
    <2>1. pc[c] = "open"
      BY <1>4 DEF ReopenAndCommit
    <2>2. /\ j \in JourneyIds /\ request[c] \in ApplyRequest /\ next \in Snapshot
          /\ tx[c].case \in CaseRead
      BY <2>1, RequestContext, OpenContext
    <2>3. WriteMutation(j, next, ActionExecuted(request[c]))
      BY <1>4 DEF ReopenAndCommit
    <2>4. TypeOK
      BY DEF ChainInvariant
    <2>5. /\ snapshots' \in [JourneyIds -> Seq(Snapshot)]
          /\ journey' \in [JourneyIds -> JourneyRow]
          /\ audit' \in [JourneyIds -> Seq(AuditEvent)]
      BY <2>2, <2>3, <2>4, ActionTypes, WriteMutationType
    <2>6. cases' \in [JourneyIds -> Seq(Case)]
      <3> DEFINE n   == tx[c].case.index
                 row == Reopen(cases[j][n], tx[c].case.row)
      <3>1. tx[c].case.row \in Case
        BY <1>4, <2>2 DEF ReopenAndCommit, Reopens, CaseRead
      <3>2. cases \in [JourneyIds -> Seq(Case)]
        BY <2>4 DEF TypeOK
      <3>3. cases' = [cases EXCEPT ![j] = [@ EXCEPT ![n] = row]]
        BY <1>4 DEF ReopenAndCommit
      <3>4. n \in DOMAIN cases[j] => row \in Case
        BY <2>2, <2>4, <3>1, CaseRowType, ReopenType
      <3>5. cases[j] \in Seq(Case)
        BY <2>2, <3>2
      <3> HIDE DEF row, n
      <3>6. [cases[j] EXCEPT ![n] = row] \in Seq(Case)
        BY <3>4, <3>5, UpdateType
      <3> QED  BY <2>2, <3>2, <3>3, <3>6
    <2>7. outbox' \in [JourneyIds -> Seq(EventType)]
      <3>1. outbox \in [JourneyIds -> Seq(EventType)]
        BY <2>4 DEF TypeOK
      <3>2. outbox[j] \o CompletedEvents(j, next) \in Seq(EventType)
        BY <2>2, <3>1, CompletedEventsType, ConcatProperties
      <3> QED  BY <1>4, <3>1, <3>2 DEF ReopenAndCommit
    <2>8. /\ UNCHANGED <<records, evidence, rowLock, request, tx, reply>>
          /\ lock' = [lock EXCEPT ![j] = NoOne]
          /\ pc' = [pc EXCEPT ![c] = "wrote"]
      BY <1>4 DEF ReopenAndCommit, Unlock
    <2> QED  BY <2>2, <2>4, <2>5, <2>6, <2>7, <2>8 DEF TypeOK
  <1>5. CASE FinishApply(c)
    <2>1. TypeOK
      BY DEF ChainInvariant
    <2>2. ReplayOutcome(request[c].key, request[c]) \in {"ok", "refused", "error", "lost"}
      BY DEF ReplayOutcome
    <2>3. \/ Record(c) /\ Answered(c, "ok")
          \/ Answered(c, ReplayOutcome(request[c].key, request[c])) /\ UNCHANGED records
      BY <1>5 DEF FinishApply
    <2>4. records' \in [Keys -> IdempotencyRow \cup {None}]
      BY <1>5, <2>1, <2>3, RecordType DEF FinishApply, TypeOK
    <2>5. /\ pc' \in [Clients -> {"idle", "waiting", "open", "wrote", "answered"}]
          /\ tx' \in [Clients -> Writes \cup {None}]
          /\ reply' \in [Clients -> {"none", "ok", "refused", "error", "lost"}]
      BY <2>1, <2>2, <2>3, AnsweredType
    <2>6. UNCHANGED <<journeyVars, outbox, cases, evidence, lock, rowLock, request>>
      BY <1>5 DEF FinishApply
    <2> QED  BY <2>1, <2>4, <2>5, <2>6 DEF journeyVars, TypeOK
  <1> QED  BY <1>1, <1>2, <1>3, <1>4, <1>5

\* POST /clarifications.
LEMMA ClarifyTypes ==
    ASSUME ChainInvariant, NEW c \in Clients,
           BeginClarify(c) \/ Clarify(c) \/ RejectClarify(c)
    PROVE  TypeOK'
  <1>0. TypeOK
    BY DEF ChainInvariant
  <1>1. CASE BeginClarify(c)
    BY <1>0, <1>1, BeginTypes
  <1>2. CASE Clarify(c)
    <2> DEFINE req == request[c]
               j   == req.journey
    <2>1. pc[c] = "waiting" /\ req.op = "clarify"
      BY <1>2 DEF Clarify, Granted
    <2>2. j \in JourneyIds /\ journey[j].current \in DOMAIN snapshots[j] /\ req \in Request
      BY <2>1, RequestContext
    <2>3. req.input \in Answer
      BY <2>1, <2>2, InputsAssumption DEF Request, ApplyRequest, ClarifyRequest
    <2>4. req.input.ambiguity \in Ambiguities /\ req.input.typed \in Value
      BY <2>3 DEF Answer, Value
    <2>5. WriteAnswer(j, req.input.ambiguity, req.input.typed) /\ Answered(c, "ok")
      BY <1>2 DEF Clarify
    <2>6. UNCHANGED <<records, cases, evidence, lock, rowLock, request>>
      BY <1>2 DEF Clarify
    <2>7. /\ snapshots' \in [JourneyIds -> Seq(Snapshot)]
          /\ journey' \in [JourneyIds -> JourneyRow]
          /\ audit' \in [JourneyIds -> Seq(AuditEvent)]
          /\ outbox' \in [JourneyIds -> Seq(EventType)]
      BY <1>0, <2>2, <2>4, <2>5, WriteAnswerType
    <2>8. /\ pc' \in [Clients -> {"idle", "waiting", "open", "wrote", "answered"}]
          /\ tx' \in [Clients -> Writes \cup {None}]
          /\ reply' \in [Clients -> {"none", "ok", "refused", "error", "lost"}]
      BY <1>0, <2>5, AnsweredType
    <2> QED  BY <1>0, <2>6, <2>7, <2>8 DEF TypeOK
  <1>3. CASE RejectClarify(c)
    BY <1>0, <1>3, AnsweredType DEF RejectClarify, journeyVars, TypeOK
  <1> QED  BY <1>1, <1>2, <1>3

\* An upload, from its row to the cases it hands back to the reviewers.
LEMMA EvidenceTypes ==
    ASSUME TypeOK, NEW u \in Uploads,
           AnalyseEvidence(u) \/ StoreEvidence(u) \/ AbortEvidence(u)
    PROVE  TypeOK'
  <1>1. CASE AnalyseEvidence(u)
    <2>1. PICK j \in JourneyIds, d \in DocTypes, v \in Verdict :
             evidence' = [evidence EXCEPT ![u] = [at |-> "handing", journey |-> j, doc |-> d,
                            verified |-> v.verified, complete |-> v.complete,
                            seen |-> cases[j]]]
      BY <1>1, InputsAssumption DEF AnalyseEvidence
    <2>2. cases[j] \in Seq(Case)
      BY DEF TypeOK
    <2>3. evidence' \in [Uploads -> EvidenceState]
      BY <2>1, <2>2 DEF Verdict, EvidenceState, TypeOK
    <2> QED  BY <1>1, <2>3 DEF AnalyseEvidence, journeyVars, clientVars, TypeOK
  <1>2. CASE StoreEvidence(u)
    <2> DEFINE j       == evidence[u].journey
               seen    == evidence[u].seen
               waiting == {i \in DOMAIN seen : seen[i].status = "ADDITIONAL_INFO_REQUIRED"}
               row(i)  == IF i \in waiting THEN Reopen(cases[j][i], seen[i]) ELSE cases[j][i]
    <2>1. /\ cases' = [cases EXCEPT ![j] = [i \in DOMAIN cases[j] |-> row(i)]]
          /\ outbox' = [outbox EXCEPT ![j] = Append(@, "EVIDENCE_UPLOADED")]
          /\ evidence' = [evidence EXCEPT ![u].at = "stored", ![u].seen = <<>>]
          /\ UNCHANGED <<journeyVars, records, lock, rowLock, clientVars>>
      BY <1>2 DEF StoreEvidence
    <2>2. evidence' \in [Uploads -> EvidenceState]
      <3>1. <<>> \in Seq(Case) /\ evidence[u] \in EvidenceState
        BY DEF TypeOK
      <3>2. [evidence[u] EXCEPT !.at = "stored", !.seen = <<>>] \in EvidenceState
        BY <3>1 DEF EvidenceState
      <3>3. evidence' = [evidence EXCEPT ![u] = [evidence[u] EXCEPT !.at = "stored",
                                                                    !.seen = <<>>]]
        BY <2>1, <3>1 DEF EvidenceState, TypeOK
      <3> QED  BY <3>2, <3>3 DEF TypeOK
    <2>3. outbox' \in [JourneyIds -> Seq(EventType)]
      <3> HIDE DEF j
      <3>1. "EVIDENCE_UPLOADED" \in EventType
        BY DEF EventType
      <3>2. j \in JourneyIds => Append(outbox[j], "EVIDENCE_UPLOADED") \in Seq(EventType)
        BY <3>1 DEF TypeOK
      <3> QED  BY <2>1, <3>2 DEF TypeOK
    <2>4. seen \in Seq(Case)
      BY DEF EvidenceState, TypeOK
    <2>5. ASSUME j \in JourneyIds
          PROVE  [i \in DOMAIN cases[j] |-> row(i)] \in Seq(Case)
      <3>1. cases[j] \in Seq(Case)
        BY <2>5 DEF TypeOK
      <3>2. ASSUME NEW i \in DOMAIN cases[j]
            PROVE  row(i) \in Case
        <4>1. cases[j][i] \in Case
          BY <2>5, CaseRowType
        <4>2. i \in waiting => seen[i] \in Case
          BY <2>4, ElementOfSeq, LenProperties
        <4> QED  BY <4>1, <4>2, ReopenType
      <3>3. DOMAIN cases[j] = 1..Len(cases[j]) /\ Len(cases[j]) \in Nat
        BY <3>1, LenProperties
      <3> HIDE DEF row
      <3> QED  BY <3>2, <3>3, SeqDef
    <2>6. cases' \in [JourneyIds -> Seq(Case)]
      <3> HIDE DEF row, j
      <3> QED  BY <2>1, <2>5 DEF TypeOK
    <2> QED  BY <2>1, <2>2, <2>3, <2>6 DEF journeyVars, clientVars, TypeOK
  <1>3. CASE AbortEvidence(u)
    <2>1. NoEvidence \in EvidenceState
      BY DEF NoEvidence, EvidenceState
    <2> QED  BY <1>3, <2>1 DEF AbortEvidence, journeyVars, clientVars, TypeOK
  <1> QED  BY <1>1, <1>2, <1>3

\* Creating a journey, losing a request, and taking a reply.
LEMMA OtherTypes ==
    ASSUME TypeOK,
           \/ \E j \in JourneyIds : CreateJourney(j)
           \/ \E c \in Clients : Crash(c) \/ Return(c)
    PROVE  TypeOK'
  <1>1. CASE \E j \in JourneyIds : CreateJourney(j)
    <2>1. PICK j \in JourneyIds : CreateJourney(j)
      BY <1>1
    <2>2. InitialSnapshot \in Snapshot
      BY InitialSnapshotType
    <2>3. <<InitialSnapshot>> \in Seq(Snapshot)
      BY <2>2
    <2>4. [current |-> 1, status |-> "IN_PROGRESS", readiness |-> InitialSnapshot.readiness]
             \in JourneyRow
      BY <2>2 DEF Snapshot, JourneyRow, JourneyStatus
    <2>5. <<[event |-> "JOURNEY_CREATED", what |-> None, fields |-> {}, value |-> "none",
             key |-> NoKey]>> \in Seq(AuditEvent)
      BY DEF AuditEvent, Value
    <2> QED  BY <2>1, <2>3, <2>4, <2>5 DEF CreateJourney, clientVars, TypeOK
  <1>2. ASSUME NEW c \in Clients, Crash(c)
        PROVE  TypeOK'
    BY <1>2, AnsweredType DEF Crash, journeyVars, TypeOK
  <1>3. ASSUME NEW c \in Clients, Return(c)
        PROVE  TypeOK'
    BY <1>3 DEF Return, journeyVars, TypeOK
  <1> QED  BY <1>1, <1>2, <1>3

\* A reviewer's question to the customer.
LEMMA AskTypes ==
    ASSUME TypeOK, NEW j \in JourneyIds, AskCustomer(j)
    PROVE  TypeOK'
  <1>1. PICK i \in DOMAIN cases[j], r \in Reviewers :
            /\ cases'  = [cases EXCEPT ![j][i] = Asked(@, r)]
            /\ outbox' = [outbox EXCEPT ![j] = Append(@, "CUSTOMER_ACTION_REQUIRED")]
            /\ UNCHANGED <<journeyVars, records, evidence, lock, rowLock, clientVars>>
    BY DEF AskCustomer
  <1> DEFINE row == Asked(cases[j][i], r)
  <1>2. cases[j] \in Seq(Case) /\ cases[j][i] \in Case
    BY CaseRowType
  <1>3. row \in Case
    <2>1. cases[j][i].version \in Version
      BY <1>2 DEF Case
    <2>2. cases[j][i].version + 2 \in Version
      BY <2>1 DEF Version
    <2>3. "ADDITIONAL_INFO_REQUIRED" \in CaseStatus
      BY DEF CaseStatus
    <2> QED  BY <1>2, <2>2, <2>3 DEF Asked, Case
  <1>4. cases' = [cases EXCEPT ![j] = [@ EXCEPT ![i] = row]]
    BY <1>1
  <1> HIDE DEF row
  <1>5. [cases[j] EXCEPT ![i] = row] \in Seq(Case)
    BY <1>2, <1>3, UpdateType
  <1>6. cases' \in [JourneyIds -> Seq(Case)]
    BY <1>4, <1>5 DEF TypeOK
  <1>7. outbox' \in [JourneyIds -> Seq(EventType)]
    <2>1. outbox[j] \in Seq(EventType) /\ "CUSTOMER_ACTION_REQUIRED" \in EventType
      BY DEF TypeOK, EventType
    <2>2. Append(outbox[j], "CUSTOMER_ACTION_REQUIRED") \in Seq(EventType)
      BY <2>1, AppendProperties
    <2> QED  BY <1>1, <2>2 DEF TypeOK
  <1> QED  BY <1>1, <1>6, <1>7 DEF journeyVars, clientVars, TypeOK

-----------------------------------------------------------------------------
(* The history of a journey.  What a request knows about its journey is    *)
(* stated per client, so that a step need only look at its own client and  *)
(* show that it leaves the others undisturbed.                             *)

\* What RequestsAreGrounded and ExpectedStaysCurrent say of one client.
Grounded(c) ==
    /\ pc[c] \in {"waiting", "open", "wrote"} =>
          /\ request[c] \in Request
          /\ request[c].expected \in DOMAIN snapshots[request[c].journey]
    /\ pc[c] \in {"open", "wrote"} =>
          /\ request[c].op = "apply"
          /\ tx[c] \in Writes
          /\ tx[c].snapshot.ver = request[c].expected + 1
          /\ tx[c].case.found # "none" => tx[c].snapshot.pending # NoAmbiguity
    /\ pc[c] = "open" =>
          /\ lock[request[c].journey] = c
          /\ request[c].expected = Len(snapshots[request[c].journey])
          /\ tx[c].snapshot.prev = request[c].expected

LEMMA GroundedIsInvariant ==
    ASSUME ChainInvariant, NEW c \in Clients
    PROVE  Grounded(c)
  BY DEF Grounded, ChainInvariant, RequestsAreGrounded, ExpectedStaysCurrent

LEMMA GroundedSuffices ==
    ASSUME \A c \in Clients : Grounded(c)'
    PROVE  RequestsAreGrounded' /\ ExpectedStaysCurrent'
  BY DEF Grounded, RequestsAreGrounded, ExpectedStaysCurrent

\* A client that does not take part in a step keeps what it knows, if histories only
\* grow and the journey it has locked stays as it is.
LEMMA Undisturbed ==
    ASSUME ChainInvariant, NEW d \in Clients,
           pc'[d] = pc[d], request'[d] = request[d], tx'[d] = tx[d],
           \A k \in JourneyIds : DOMAIN snapshots[k] \subseteq DOMAIN snapshots'[k],
           pc[d] = "open" => /\ lock'[request[d].journey] = d
                             /\ snapshots'[request[d].journey] = snapshots[request[d].journey]
    PROVE  Grounded(d)'
  <1>1. Grounded(d)
    BY GroundedIsInvariant
  <1>2. pc[d] \in {"waiting", "open", "wrote"} => request[d].journey \in JourneyIds
    BY <1>1 DEF Grounded, Request, ApplyRequest, ClarifyRequest
  <1> QED  BY <1>1, <1>2 DEF Grounded

\* A request that has ended knows nothing.
LEMMA EndedIsGrounded ==
    ASSUME NEW c, pc'[c] \in {"idle", "answered"}
    PROVE  Grounded(c)'
  BY DEF Grounded

\* A step that leaves the rows of the journeys alone leaves the chains alone.
LEMMA ChainUnchanged ==
    ASSUME ChainInvariant, UNCHANGED journeyVars
    PROVE  /\ ChainIsLinear'
           /\ \A k \in JourneyIds : snapshots'[k] = snapshots[k]
  BY DEF ChainInvariant, ChainIsLinear, journeyVars

\* A mutation that continues the newest version keeps the chain a line.
LEMMA HistoryGrows ==
    ASSUME ChainInvariant, NEW j \in JourneyIds, NEW snapshot \in Snapshot, NEW event,
           WriteMutation(j, snapshot, event),
           snapshot.prev = Len(snapshots[j]), snapshot.ver = Len(snapshots[j]) + 1
    PROVE  /\ ChainIsLinear'
           /\ \A k \in JourneyIds : DOMAIN snapshots[k] \subseteq DOMAIN snapshots'[k]
           /\ \A k \in JourneyIds \ {j} : snapshots'[k] = snapshots[k]
  <1> DEFINE s == snapshots[j]
             n == Len(s) + 1
  <1>1. /\ snapshots \in [JourneyIds -> Seq(Snapshot)]
        /\ journey \in [JourneyIds -> JourneyRow]
        /\ ChainIsLinear
    BY DEF ChainInvariant, TypeOK
  <1>2. s \in Seq(Snapshot) /\ Len(s) \in Nat
    BY <1>1, LenProperties
  <1>3. snapshots' = [snapshots EXCEPT ![j] = Append(s, snapshot)]
    BY DEF WriteMutation
  <1>4. /\ Len(Append(s, snapshot)) = n
        /\ DOMAIN Append(s, snapshot) = 1..n
        /\ DOMAIN s = 1..Len(s)
        /\ \A i \in 1..Len(s) : Append(s, snapshot)[i] = s[i]
        /\ Append(s, snapshot)[n] = snapshot
    BY <1>2, AppendProperties, LenProperties
  <1>5. journey' = [journey EXCEPT ![j] = RowFor(n, snapshot)]
    BY DEF WriteMutation
  <1>6. journey'[j].current = n
    BY <1>1, <1>5 DEF RowFor
  <1>7. \A k \in JourneyIds \ {j} : snapshots'[k] = snapshots[k] /\ journey'[k] = journey[k]
    BY <1>1, <1>3, <1>5
  <1>8. snapshots'[j] = Append(s, snapshot)
    BY <1>1, <1>3
  <1>9. ASSUME NEW i \in DOMAIN snapshots'[j]
        PROVE  snapshots'[j][i].ver = i /\ snapshots'[j][i].prev = i - 1
    <2>1. CASE i \in 1..Len(s)
      BY <1>1, <1>4, <1>8, <2>1 DEF ChainIsLinear
    <2>2. CASE i = n
      BY <1>2, <1>4, <1>8, <2>2
    <2> QED  BY <1>2, <1>4, <1>8, <1>9, <2>1, <2>2
  <1>10. ChainIsLinear'
    <2>1. journey'[j].current = Len(snapshots'[j])
      BY <1>4, <1>6, <1>8
    <2> HIDE DEF s, n
    <2> QED  BY <1>1, <1>7, <1>9, <2>1, SMTT(30) DEF ChainIsLinear
  <1> QED  BY <1>2, <1>4, <1>7, <1>8, <1>10

\* Most steps end a request, free a lock or touch other tables: histories stay as they are.
LEMMA QuietStep ==
    ASSUME ChainInvariant, NEW c, UNCHANGED journeyVars,
           pc'[c] \in {"idle", "answered"},
           \A d \in Clients \ {c} :
              /\ pc'[d] = pc[d] /\ request'[d] = request[d] /\ tx'[d] = tx[d]
              /\ pc[d] = "open" => lock'[request[d].journey] = d
    PROVE  ChainIsLinear' /\ ExpectedStaysCurrent' /\ RequestsAreGrounded'
  <1>1. \A k \in JourneyIds : DOMAIN snapshots[k] \subseteq DOMAIN snapshots'[k]
    BY ChainUnchanged
  <1>2. ASSUME NEW d \in Clients, d # c
        PROVE  Grounded(d)'
    <2>1. pc[d] = "open" => snapshots'[request[d].journey] = snapshots[request[d].journey]
      BY DEF journeyVars
    <2> QED  BY <1>1, <1>2, <2>1, Undisturbed
  <1>3. \A d \in Clients : Grounded(d)'
    BY <1>2, EndedIsGrounded
  <1> QED  BY <1>3, ChainUnchanged, GroundedSuffices

\* A new request expects a snapshot its journey has.
LEMMA BeginHistory ==
    ASSUME ChainInvariant, NEW c \in Clients, BeginApply(c) \/ BeginClarify(c)
    PROVE  ChainIsLinear' /\ ExpectedStaysCurrent' /\ RequestsAreGrounded'
  <1>0. PICK r \in Request : /\ r.expected \in DOMAIN snapshots[r.journey]
                             /\ request' = [request EXCEPT ![c] = r]
    BY BegunRequest DEF ChainInvariant
  <1>a. /\ UNCHANGED <<journeyVars, lock>>
        /\ \/ \E outcome : Answered(c, outcome)
           \/ pc' = [pc EXCEPT ![c] = "waiting"] /\ UNCHANGED tx
    BY BegunRequest DEF ChainInvariant
  <1>1. /\ pc \in [Clients -> {"idle", "waiting", "open", "wrote", "answered"}]
        /\ request \in [Clients -> Request \cup {None}]
        /\ tx \in [Clients -> Writes \cup {None}]
    BY DEF ChainInvariant, TypeOK
  <1>2. ASSUME NEW d \in Clients, d # c
        PROVE  Grounded(d)'
    <2>1. pc'[d] = pc[d] /\ request'[d] = request[d] /\ tx'[d] = tx[d]
      BY <1>0, <1>1, <1>2, <1>a DEF Answered
    <2>2. pc[d] = "open" => lock'[request[d].journey] = d
      BY <1>a, GroundedIsInvariant DEF Grounded
    <2>3. /\ \A k \in JourneyIds : DOMAIN snapshots[k] \subseteq DOMAIN snapshots'[k]
          /\ snapshots'[request[d].journey] = snapshots[request[d].journey]
      BY <1>a DEF journeyVars
    <2> QED  BY <2>1, <2>2, <2>3, Undisturbed
  <1>3. Grounded(c)'
    <2>1. CASE \E outcome : Answered(c, outcome)
      BY <1>1, <2>1, EndedIsGrounded DEF Answered
    <2>2. CASE pc' = [pc EXCEPT ![c] = "waiting"]
      <3>1. pc'[c] = "waiting" /\ request'[c] = r
        BY <1>0, <1>1, <2>2
      <3>2. r.expected \in DOMAIN snapshots'[r.journey]
        BY <1>0, <1>a DEF journeyVars
      <3> QED  BY <1>0, <3>1, <3>2 DEF Grounded
    <2> QED  BY <1>a, <2>1, <2>2
  <1>4. \A d \in Clients : Grounded(d)'
    BY <1>2, <1>3
  <1> QED  BY <1>4, <1>a, ChainUnchanged, GroundedSuffices

\* POST /actions, up to the point where the transaction is open.
LEMMA ApplyHistory ==
    ASSUME ChainInvariant, NEW c \in Clients,
           BeginApply(c) \/ ReplayAfterWait(c) \/ RejectApply(c) \/ OpenApply(c)
    PROVE  ChainIsLinear' /\ ExpectedStaysCurrent' /\ RequestsAreGrounded'
  <1>0. /\ pc \in [Clients -> {"idle", "waiting", "open", "wrote", "answered"}]
        /\ request \in [Clients -> Request \cup {None}]
        /\ tx \in [Clients -> Writes \cup {None}]
        /\ lock \in [JourneyIds -> Clients \cup {NoOne}]
    BY DEF ChainInvariant, TypeOK
  <1>1. \A d \in Clients : pc[d] = "open" => lock[request[d].journey] = d
    BY GroundedIsInvariant DEF Grounded
  <1>2. CASE BeginApply(c)
    BY <1>2, BeginHistory
  <1>3. CASE ReplayAfterWait(c) \/ RejectApply(c)
    <2>1. UNCHANGED <<journeyVars, lock, request>> /\ \E outcome : Answered(c, outcome)
      BY <1>3 DEF ReplayAfterWait, RejectApply
    <2>2. /\ pc'[c] = "answered"
          /\ \A d \in Clients \ {c} : pc'[d] = pc[d] /\ tx'[d] = tx[d]
      BY <1>0, <2>1 DEF Answered
    <2> QED  BY <1>1, <2>1, <2>2, QuietStep
  <1>4. CASE OpenApply(c)
    <2> DEFINE req == request[c]
               j   == req.journey
               next == Successor(j, journey[j].current, Satisfies[req.input.action],
                                 NewValue(req.input.action, EvidenceRow(req.input),
                                          req.input.typed),
                                 Question(req.input))
    <2>1. pc[c] = "waiting" /\ req.op = "apply" /\ lock[j] = NoOne
      BY <1>4 DEF OpenApply, Granted, Free
    <2>2. /\ j \in JourneyIds /\ journey[j].current \in DOMAIN snapshots[j] /\ req \in Request
          /\ journey[j].current = Len(snapshots[j])
          /\ Current(j).ver = Len(snapshots[j])
      BY <2>1, RequestContext
    <2>3. req \in ApplyRequest
      BY <2>1, <2>2 DEF Request, ApplyRequest, ClarifyRequest
    <2>4. /\ next \in Snapshot
          /\ next.ver = Current(j).ver + 1
          /\ next.prev = journey[j].current
          /\ next.pending = Question(req.input)
      BY <2>2, <2>3, ActionTypes, SuccessorType DEF ChainInvariant, Current
    <2>5. PICK read \in ReadCase(j, Question(req.input)) :
             tx' = [tx EXCEPT ![c] = [snapshot |-> next, case |-> read]]
      BY <1>4 DEF OpenApply
    <2>6. /\ read \in CaseRead
          /\ read.found # "none" => Question(req.input) # NoAmbiguity
      <3>1. TypeOK
        BY DEF ChainInvariant
      <3>2. read \in CaseRead
        BY <2>2, <2>5, <3>1, ReadCaseType
      <3>3. Question(req.input) = NoAmbiguity => read = [found |-> "none"]
        BY <2>5 DEF ReadCase
      <3> QED  BY <3>2, <3>3
    <2>7. req.expected = journey[j].current
      BY <1>4 DEF OpenApply, Checked, UpToDate
    <2>8. /\ lock' = [lock EXCEPT ![j] = c]
          /\ pc' = [pc EXCEPT ![c] = "open"]
          /\ UNCHANGED <<journeyVars, request>>
      BY <1>4 DEF OpenApply
    <2> HIDE DEF next
    <2>9. ASSUME NEW d \in Clients, d # c
          PROVE  Grounded(d)'
      <3>1. pc'[d] = pc[d] /\ request'[d] = request[d] /\ tx'[d] = tx[d]
        BY <1>0, <2>5, <2>8, <2>9
      <3>2. pc[d] = "open" => request[d].journey # j
        BY <1>1, <2>1, JourneysAssumption
      <3>3. pc[d] = "open" => lock'[request[d].journey] = d
        BY <1>0, <1>1, <2>8, <3>2
      <3>4. /\ \A k \in JourneyIds : DOMAIN snapshots[k] \subseteq DOMAIN snapshots'[k]
            /\ snapshots'[request[d].journey] = snapshots[request[d].journey]
        BY <2>8 DEF journeyVars
      <3> QED  BY <3>1, <3>3, <3>4, Undisturbed
    <2>10. Grounded(c)'
      <3>1. /\ pc'[c] = "open" /\ request'[c] = req /\ lock'[j] = c
            /\ tx'[c] = [snapshot |-> next, case |-> read]
            /\ snapshots' = snapshots
        BY <1>0, <2>2, <2>5, <2>8 DEF journeyVars
      <3>2. tx'[c] \in Writes
        BY <2>4, <2>6, <3>1 DEF Writes
      <3> QED  BY <2>1, <2>2, <2>4, <2>6, <2>7, <3>1, <3>2 DEF Grounded
    <2> QED  BY <2>8, <2>9, <2>10, ChainUnchanged, GroundedSuffices
  <1> QED  BY <1>2, <1>3, <1>4

\* The end of apply_action: the row lock made sure that nobody else wrote in between.
LEMMA CommitHistory ==
    ASSUME ChainInvariant, NEW c \in Clients,
           \/ CommitApply(c) \/ CollideOnKey(c) \/ CollideOnNumber(c)
           \/ ReopenAndCommit(c) \/ FinishApply(c)
    PROVE  ChainIsLinear' /\ ExpectedStaysCurrent' /\ RequestsAreGrounded'
  <1>0. /\ pc \in [Clients -> {"idle", "waiting", "open", "wrote", "answered"}]
        /\ tx \in [Clients -> Writes \cup {None}]
        /\ lock \in [JourneyIds -> Clients \cup {NoOne}]
    BY DEF ChainInvariant, TypeOK
  <1>1. \A d \in Clients : pc[d] = "open" => lock[request[d].journey] = d
    BY GroundedIsInvariant DEF Grounded
  <1> DEFINE j == request[c].journey
             next == tx[c].snapshot
  <1>2. CASE CommitApply(c) \/ ReopenAndCommit(c)
    <2>1. /\ pc[c] = "open"
          /\ WriteMutation(j, next, ActionExecuted(request[c]))
          /\ lock' = [lock EXCEPT ![j] = NoOne]
          /\ UNCHANGED request
          /\ \/ Answered(c, "ok")
             \/ pc' = [pc EXCEPT ![c] = "wrote"] /\ UNCHANGED tx
      BY <1>2 DEF CommitApply, ReopenAndCommit, Unlock
    <2>2. j \in JourneyIds /\ next \in Snapshot
      BY <2>1, RequestContext, OpenContext
    <2>3. Grounded(c)
      BY GroundedIsInvariant
    <2>4. next.prev = Len(snapshots[j]) /\ next.ver = Len(snapshots[j]) + 1
      BY <2>1, <2>3 DEF Grounded
    <2>5. /\ ChainIsLinear'
          /\ \A k \in JourneyIds : DOMAIN snapshots[k] \subseteq DOMAIN snapshots'[k]
          /\ \A k \in JourneyIds \ {j} : snapshots'[k] = snapshots[k]
      BY <2>1, <2>2, <2>4, HistoryGrows
    <2>6. ASSUME NEW d \in Clients, d # c
          PROVE  Grounded(d)'
      <3>1. pc'[d] = pc[d] /\ request'[d] = request[d] /\ tx'[d] = tx[d]
        BY <1>0, <2>1, <2>6 DEF Answered
      <3>2. pc[d] = "open" => request[d].journey \in JourneyIds \ {j}
        BY <1>1, <2>1, <2>6, RequestContext
      <3>3. pc[d] = "open" => /\ lock'[request[d].journey] = d
                              /\ snapshots'[request[d].journey] = snapshots[request[d].journey]
        BY <1>0, <1>1, <2>1, <2>5, <3>2
      <3> QED  BY <2>5, <3>1, <3>3, Undisturbed
    <2>7. Grounded(c)'
      <3>1. CASE Answered(c, "ok")
        BY <1>0, <3>1, EndedIsGrounded DEF Answered
      <3>2. CASE pc' = [pc EXCEPT ![c] = "wrote"] /\ UNCHANGED tx
        <4>1. pc'[c] = "wrote" /\ request' = request /\ tx' = tx
          BY <1>0, <2>1, <3>2
        <4> QED  BY <2>1, <2>2, <2>3, <2>5, <4>1 DEF Grounded
      <3> QED  BY <2>1, <3>1, <3>2
    <2> QED  BY <2>5, <2>6, <2>7, GroundedSuffices
  <1>3. CASE CollideOnKey(c) \/ CollideOnNumber(c)
    <2>1. /\ pc[c] = "open"
          /\ lock' = [lock EXCEPT ![j] = NoOne]
          /\ UNCHANGED <<journeyVars, request>>
          /\ \E outcome : Answered(c, outcome)
      BY <1>3 DEF CollideOnKey, CollideOnNumber, Unlock
    <2>2. pc'[c] = "answered"
      BY <1>0, <2>1 DEF Answered
    <2>3. ASSUME NEW d \in Clients \ {c}
          PROVE  /\ pc'[d] = pc[d] /\ request'[d] = request[d] /\ tx'[d] = tx[d]
                 /\ pc[d] = "open" => lock'[request[d].journey] = d
      <3>1. pc'[d] = pc[d] /\ request'[d] = request[d] /\ tx'[d] = tx[d]
        BY <1>0, <2>1 DEF Answered
      <3>2. pc[d] = "open" => request[d].journey \in JourneyIds \ {j}
        BY <1>1, <2>1, RequestContext
      <3> QED  BY <1>0, <1>1, <2>1, <3>1, <3>2
    <2> QED  BY <2>1, <2>2, <2>3, QuietStep
  <1>4. CASE FinishApply(c)
    <2>1. UNCHANGED <<journeyVars, lock, request>> /\ \E outcome : Answered(c, outcome)
      BY <1>4 DEF FinishApply
    <2>2. /\ pc'[c] = "answered"
          /\ \A d \in Clients \ {c} : pc'[d] = pc[d] /\ tx'[d] = tx[d]
      BY <1>0, <2>1 DEF Answered
    <2> QED  BY <1>1, <2>1, <2>2, QuietStep
  <1> QED  BY <1>2, <1>3, <1>4

\* POST /clarifications: an answer is written only while no action holds the journey.
LEMMA ClarifyHistory ==
    ASSUME ChainInvariant, NEW c \in Clients,
           BeginClarify(c) \/ Clarify(c) \/ RejectClarify(c)
    PROVE  ChainIsLinear' /\ ExpectedStaysCurrent' /\ RequestsAreGrounded'
  <1>0. /\ pc \in [Clients -> {"idle", "waiting", "open", "wrote", "answered"}]
        /\ tx \in [Clients -> Writes \cup {None}]
    BY DEF ChainInvariant, TypeOK
  <1>1. \A d \in Clients : pc[d] = "open" => lock[request[d].journey] = d
    BY GroundedIsInvariant DEF Grounded
  <1>2. CASE BeginClarify(c)
    BY <1>2, BeginHistory
  <1>3. CASE Clarify(c)
    <2> DEFINE req  == request[c]
               j    == req.journey
               next == Clarified(j, req.input.ambiguity, req.input.typed)
    <2>1. /\ pc[c] = "waiting" /\ req.op = "clarify" /\ lock[j] = NoOne
          /\ WriteAnswer(j, req.input.ambiguity, req.input.typed)
          /\ Answered(c, "ok")
          /\ UNCHANGED <<lock, request>>
      BY <1>3 DEF Clarify, Granted, Free
    <2>2. /\ j \in JourneyIds /\ journey[j].current \in DOMAIN snapshots[j] /\ req \in Request
          /\ journey[j].current = Len(snapshots[j])
          /\ Current(j).ver = Len(snapshots[j])
      BY <2>1, RequestContext
    <2>3. req.input \in Answer
      BY <2>1, <2>2, InputsAssumption DEF Request, ApplyRequest, ClarifyRequest
    <2>4. req.input.ambiguity \in Ambiguities /\ req.input.typed \in Value
      BY <2>3 DEF Answer, Value
    <2>5. /\ next \in Snapshot
          /\ next.ver = Len(snapshots[j]) + 1
          /\ next.prev = Len(snapshots[j])
      <3>1. TypeOK
        BY DEF ChainInvariant
      <3> QED  BY <2>2, <2>4, <3>1, ClarifiedType
    <2>6. \E event : WriteMutation(j, next, event)
      BY <2>1 DEF WriteAnswer
    <2> HIDE DEF next
    <2>7. /\ ChainIsLinear'
          /\ \A k \in JourneyIds : DOMAIN snapshots[k] \subseteq DOMAIN snapshots'[k]
          /\ \A k \in JourneyIds \ {j} : snapshots'[k] = snapshots[k]
      BY <2>2, <2>5, <2>6, HistoryGrows
    <2>8. ASSUME NEW d \in Clients, d # c
          PROVE  Grounded(d)'
      <3>1. pc'[d] = pc[d] /\ request'[d] = request[d] /\ tx'[d] = tx[d]
        BY <1>0, <2>1, <2>8 DEF Answered
      <3>2. pc[d] = "open" => request[d].journey \in JourneyIds \ {j}
        BY <1>1, <2>1, RequestContext, JourneysAssumption
      <3> QED  BY <1>1, <2>1, <2>7, <3>1, <3>2, Undisturbed
    <2>9. Grounded(c)'
      BY <1>0, <2>1, EndedIsGrounded DEF Answered
    <2> QED  BY <2>7, <2>8, <2>9, GroundedSuffices
  <1>4. CASE RejectClarify(c)
    <2>1. UNCHANGED <<journeyVars, lock, request>> /\ \E outcome : Answered(c, outcome)
      BY <1>4 DEF RejectClarify
    <2>2. /\ pc'[c] = "answered"
          /\ \A d \in Clients \ {c} : pc'[d] = pc[d] /\ tx'[d] = tx[d]
      BY <1>0, <2>1 DEF Answered
    <2> QED  BY <1>1, <2>1, <2>2, QuietStep
  <1> QED  BY <1>2, <1>3, <1>4

\* Uploads and reviewers write no history, and a request that dies or returns gives up what it knew.
LEMMA OtherHistory ==
    ASSUME ChainInvariant,
           \/ \E u \in Uploads : AnalyseEvidence(u) \/ StoreEvidence(u) \/ AbortEvidence(u)
           \/ \E j \in JourneyIds : AskCustomer(j)
           \/ \E c \in Clients : Crash(c) \/ Return(c)
    PROVE  ChainIsLinear' /\ ExpectedStaysCurrent' /\ RequestsAreGrounded'
  <1>0. /\ pc \in [Clients -> {"idle", "waiting", "open", "wrote", "answered"}]
        /\ request \in [Clients -> Request \cup {None}]
        /\ tx \in [Clients -> Writes \cup {None}]
        /\ lock \in [JourneyIds -> Clients \cup {NoOne}]
    BY DEF ChainInvariant, TypeOK
  <1>1. \A d \in Clients : pc[d] = "open" => /\ lock[request[d].journey] = d
                                             /\ request[d].journey \in JourneyIds
    BY GroundedIsInvariant, RequestContext DEF Grounded
  <1>2. CASE \/ \E u \in Uploads : AnalyseEvidence(u) \/ StoreEvidence(u) \/ AbortEvidence(u)
             \/ \E j \in JourneyIds : AskCustomer(j)
    <2>1. UNCHANGED <<journeyVars, lock, pc, request, tx>>
      BY <1>2 DEF AnalyseEvidence, StoreEvidence, AbortEvidence, AskCustomer, clientVars
    <2>2. ASSUME NEW d \in Clients
          PROVE  Grounded(d)'
      BY <1>1, <2>1, Undisturbed DEF journeyVars
    <2> QED  BY <2>1, <2>2, ChainUnchanged, GroundedSuffices
  <1>3. ASSUME NEW c \in Clients, Crash(c)
        PROVE  ChainIsLinear' /\ ExpectedStaysCurrent' /\ RequestsAreGrounded'
    <2>1. /\ UNCHANGED <<journeyVars, request>>
          /\ lock' = [k \in JourneyIds |-> IF lock[k] = c THEN NoOne ELSE lock[k]]
          /\ Answered(c, "lost")
      BY <1>3 DEF Crash
    <2>2. /\ pc'[c] = "answered"
          /\ \A d \in Clients \ {c} : pc'[d] = pc[d] /\ tx'[d] = tx[d]
      BY <1>0, <2>1 DEF Answered
    <2>3. \A d \in Clients \ {c} : pc[d] = "open" => lock'[request[d].journey] = d
      BY <1>1, <2>1
    <2> QED  BY <2>1, <2>2, <2>3, QuietStep
  <1>4. ASSUME NEW c \in Clients, Return(c)
        PROVE  ChainIsLinear' /\ ExpectedStaysCurrent' /\ RequestsAreGrounded'
    <2>1. /\ UNCHANGED <<journeyVars, lock>>
          /\ pc'[c] = "idle"
          /\ \A d \in Clients \ {c} :
                pc'[d] = pc[d] /\ request'[d] = request[d] /\ tx'[d] = tx[d]
      BY <1>0, <1>4 DEF Return
    <2> QED  BY <1>1, <2>1, QuietStep
  <1> QED  BY <1>2, <1>3, <1>4

\* A new journey starts its own chain.
LEMMA CreateHistory ==
    ASSUME ChainInvariant, NEW j \in JourneyIds, CreateJourney(j)
    PROVE  ChainIsLinear' /\ ExpectedStaysCurrent' /\ RequestsAreGrounded'
  <1>1. /\ snapshots \in [JourneyIds -> Seq(Snapshot)]
        /\ journey \in [JourneyIds -> JourneyRow]
        /\ ChainIsLinear
    BY DEF ChainInvariant, TypeOK
  <1>2. /\ snapshots[j] = <<>>
        /\ snapshots' = [snapshots EXCEPT ![j] = <<InitialSnapshot>>]
        /\ journey' = [journey EXCEPT ![j] = [current |-> 1, status |-> "IN_PROGRESS",
                                              readiness |-> InitialSnapshot.readiness]]
        /\ UNCHANGED <<lock, pc, request, tx>>
    BY DEF CreateJourney, Created, clientVars
  <1>3. /\ snapshots'[j] = <<InitialSnapshot>>
        /\ journey'[j].current = 1
        /\ \A k \in JourneyIds \ {j} : snapshots'[k] = snapshots[k] /\ journey'[k] = journey[k]
    BY <1>1, <1>2
  <1>4. ChainIsLinear'
    <2>1. /\ Len(snapshots'[j]) = 1
          /\ \A i \in DOMAIN snapshots'[j] :
                snapshots'[j][i].ver = i /\ snapshots'[j][i].prev = i - 1
      BY <1>3, InitialSnapshotType
    <2>2. ASSUME NEW k \in JourneyIds \ {j}
          PROVE  /\ \A i \in DOMAIN snapshots'[k] :
                        snapshots'[k][i].ver = i /\ snapshots'[k][i].prev = i - 1
                 /\ journey'[k].current = Len(snapshots'[k])
      BY <1>1, <1>3 DEF ChainIsLinear
    <2>3. journey'[j].current = Len(snapshots'[j])
      BY <1>3, <2>1
    <2> QED  BY <2>1, <2>2, <2>3 DEF ChainIsLinear
  <1>5. ASSUME NEW d \in Clients
        PROVE  Grounded(d)'
    <2>1. Grounded(d)
      BY GroundedIsInvariant
    <2>2. pc[d] = "open" => request[d].journey \in JourneyIds \ {j}
      BY <1>2, <2>1 DEF Grounded, Request, ApplyRequest, ClarifyRequest
    <2>3. \A k \in JourneyIds : DOMAIN snapshots[k] \subseteq DOMAIN snapshots'[k]
      BY <1>2, <1>3
    <2> QED  BY <1>2, <1>3, <2>1, <2>2, <2>3, Undisturbed DEF Grounded
  <1> QED  BY <1>4, <1>5, GroundedSuffices

-----------------------------------------------------------------------------
(* The invariant and what follows from it.                                 *)

LEMMA ChainInit ==
    ASSUME Init
    PROVE  ChainInvariant
  <1>1. TypeOK
    <2>1. <<>> \in Seq(Snapshot) /\ <<>> \in Seq(AuditEvent) /\ <<>> \in Seq(EventType)
          /\ <<>> \in Seq(Case)
      OBVIOUS
    <2>2. [current |-> 0, readiness |-> "NOT_READY", status |-> "IN_PROGRESS"] \in JourneyRow
      BY DEF JourneyRow, Readiness, JourneyStatus
    <2>3. NoEvidence \in EvidenceState
      BY DEF NoEvidence, EvidenceState
    <2> QED  BY <2>1, <2>2, <2>3 DEF Init, TypeOK
  <1>2. ChainIsLinear
    BY DEF Init, ChainIsLinear
  <1>3. ExpectedStaysCurrent /\ RequestsAreGrounded
    BY DEF Init, ExpectedStaysCurrent, RequestsAreGrounded
  <1> QED  BY <1>1, <1>2, <1>3 DEF ChainInvariant

LEMMA ChainStep ==
    ASSUME ChainInvariant, [Next]_vars
    PROVE  ChainInvariant'
  <1>0. TypeOK
    BY DEF ChainInvariant
  <1>1. ASSUME NEW j \in JourneyIds, CreateJourney(j)
        PROVE  ChainInvariant'
    BY <1>0, <1>1, OtherTypes, CreateHistory DEF ChainInvariant
  <1>2. ASSUME NEW c \in Clients,
               BeginApply(c) \/ ReplayAfterWait(c) \/ RejectApply(c) \/ OpenApply(c)
        PROVE  ChainInvariant'
    <2>1. TypeOK'
      BY <1>2, ApplyTypes
    <2>2. ChainIsLinear' /\ ExpectedStaysCurrent' /\ RequestsAreGrounded'
      BY <1>2, ApplyHistory
    <2> QED  BY <2>1, <2>2 DEF ChainInvariant
  <1>3. ASSUME NEW c \in Clients,
               BeginClarify(c) \/ Clarify(c) \/ RejectClarify(c)
        PROVE  ChainInvariant'
    <2>1. TypeOK'
      BY <1>3, ClarifyTypes
    <2>2. ChainIsLinear' /\ ExpectedStaysCurrent' /\ RequestsAreGrounded'
      BY <1>3, ClarifyHistory
    <2> QED  BY <2>1, <2>2 DEF ChainInvariant
  <1>4. ASSUME NEW c \in Clients, Finish(c)
        PROVE  ChainInvariant'
    <2>1. TypeOK'
      BY <1>4, CommitTypes DEF Finish
    <2>2. ChainIsLinear' /\ ExpectedStaysCurrent' /\ RequestsAreGrounded'
      BY <1>4, CommitHistory DEF Finish
    <2> QED  BY <2>1, <2>2 DEF ChainInvariant
  <1>5. ASSUME NEW c \in Clients, Crash(c) \/ Return(c)
        PROVE  ChainInvariant'
    <2>1. TypeOK'
      BY <1>0, <1>5, OtherTypes
    <2>2. ChainIsLinear' /\ ExpectedStaysCurrent' /\ RequestsAreGrounded'
      BY <1>5, OtherHistory
    <2> QED  BY <2>1, <2>2 DEF ChainInvariant
  <1>6. ASSUME NEW u \in Uploads,
               AnalyseEvidence(u) \/ StoreEvidence(u) \/ AbortEvidence(u)
        PROVE  ChainInvariant'
    <2>1. TypeOK'
      BY <1>0, <1>6, EvidenceTypes
    <2>2. ChainIsLinear' /\ ExpectedStaysCurrent' /\ RequestsAreGrounded'
      BY <1>6, OtherHistory
    <2> QED  BY <2>1, <2>2 DEF ChainInvariant
  <1>7. ASSUME NEW j \in JourneyIds, AskCustomer(j)
        PROVE  ChainInvariant'
    BY <1>0, <1>7, AskTypes, OtherHistory DEF ChainInvariant
  <1>8. CASE UNCHANGED vars
    BY <1>8 DEF vars, clientVars, ChainInvariant, TypeOK, ChainIsLinear, ExpectedStaysCurrent,
                RequestsAreGrounded
  <1> QED  BY <1>1, <1>2, <1>3, <1>4, <1>5, <1>6, <1>7, <1>8
           DEF Next, CustomerNext, Serve

\* The inductive invariant holds in every reachable state of the customer side.
THEOREM ChainInvariantHolds == Spec => []ChainInvariant
  <1>1. Init => ChainInvariant
    BY ChainInit
  <1>2. ChainInvariant /\ [Next]_vars => ChainInvariant'
    BY ChainStep
  <1> QED  BY <1>1, <1>2, PTL DEF Spec

\* Whatever the pack and however many clients, journeys and keys there are, every row the
\* operations write and every request they serve has the shape of its table or schema.
THEOREM TypeCorrect == Spec => []TypeOK
  <1>1. ChainInvariant => TypeOK
    BY DEF ChainInvariant
  <1> QED  BY <1>1, ChainInvariantHolds, PTL

\* No interleaving of actions, answers, uploads and crashes forks the history of a
\* journey: the row lock and the checks made under it suffice.
THEOREM HistoryIsLinear == Spec => []ChainIsLinear
  <1>1. ChainInvariant => ChainIsLinear
    BY DEF ChainInvariant
  <1> QED  BY <1>1, ChainInvariantHolds, PTL

\* No checked action commits on a snapshot other than the one its client expected.
THEOREM NoActionOnUnseenState == Spec => []ExpectedStaysCurrent
  <1>1. ChainInvariant => ExpectedStaysCurrent
    BY DEF ChainInvariant
  <1> QED  BY <1>1, ChainInvariantHolds, PTL

=============================================================================
