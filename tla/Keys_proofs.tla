----------------------------- MODULE Keys_proofs -----------------------------
(***************************************************************************)
(* Proofs about idempotency keys, for every pack, every number of          *)
(* journeys, clients and keys: what a client was told it can rely on.      *)
(*                                                                         *)
(* That success is durable holds always.  That a key is applied once, and  *)
(* that a refusal is final, hold as long as no action reopens a case,      *)
(* which commits it before its idempotency record is written.              *)
(***************************************************************************)
EXTENDS Trail_proofs

-----------------------------------------------------------------------------
(* What is needed of the history.  It holds of reviewers, too.             *)

\* Histories form chains, requests have prepared what they ask for, and every version has
\* its event.
HistoryInvariant == ChainInvariant /\ AllPrepared /\ \A j \in JourneyIds : Accounted(j)

\* Every step of the customer side keeps the history so.
LEMMA HistoryStep ==
    ASSUME HistoryInvariant, [Next]_vars
    PROVE  HistoryInvariant'
  <1>1. ChainInvariant' /\ AllPrepared'
    BY ChainStep, PreparedStep DEF HistoryInvariant
  <1>2. \A j \in JourneyIds : Accounted(j)'
    BY StepKinds, AccountedStep DEF HistoryInvariant, ChainInvariant
  <1> QED  BY <1>1, <1>2 DEF HistoryInvariant

-----------------------------------------------------------------------------
(* The events written under a key.                                         *)

\* A step adds to the events of a key only the one its mutation writes under it.
LEMMA EventsAfter ==
    ASSUME TypeOK, \A j \in JourneyIds : Accounted(j), NEW j \in JourneyIds,
           NEW snapshot \in Snapshot, NEW event \in AuditEvent, Mutation(j, snapshot, event),
           NEW k \in Keys
    PROVE  EventsOf(k)' = EventsOf(k) \cup (IF event.key = k THEN {<<j, Len(snapshots[j]) + 1>>}
                                            ELSE {})
  <1> DEFINE under(trail) == {i \in DOMAIN trail : trail[i].key = k}
             new          == IF event.key = k THEN {Len(audit[j]) + 1} ELSE {}
  <1>1. WriteMutation(j, snapshot, event)
    BY MutationContext
  <1>2. /\ Len(audit[j]) \in Nat
        /\ DOMAIN audit[j] = 1..Len(audit[j]) /\ DOMAIN audit'[j] = 1..Len(audit[j]) + 1
        /\ \A i \in DOMAIN audit[j] : audit'[j][i] = audit[j][i]
        /\ audit'[j][Len(audit[j]) + 1] = event
        /\ \A i \in JourneyIds \ {j} : audit'[i] = audit[i]
    BY <1>1, MutationAppends
  <1>3. under(audit'[j]) = under(audit[j]) \cup new
    BY <1>2
  <1>4. \A i \in JourneyIds \ {j} : under(audit'[i]) = under(audit[i])
    BY <1>2
  <1>5. Len(audit[j]) = Len(snapshots[j])
    BY DEF Accounted
  <1> HIDE DEF new, under
  <1>6. EventsOf(k) = UNION {{<<i, n>> : n \in under(audit[i])} : i \in JourneyIds}
    BY DEF EventsOf, under
  <1>7. EventsOf(k)' = UNION {{<<i, n>> : n \in under(audit'[i])} : i \in JourneyIds}
    BY DEF EventsOf, under
  <1>8. EventsOf(k)' = EventsOf(k) \cup {<<j, n>> : n \in new}
    BY <1>3, <1>4, <1>6, <1>7
  <1> QED  BY <1>5, <1>8 DEF new

\* The first event of a journey is under no key.
LEMMA CreatedUnderNoKey ==
    ASSUME TypeOK, NEW j \in JourneyIds, CreateJourney(j), Accounted(j), NEW k \in Keys
    PROVE  EventsOf(k)' = EventsOf(k)
  <1> DEFINE under(trail) == {i \in DOMAIN trail : trail[i].key = k}
  <1>1. /\ audit'[j] = <<[event |-> "JOURNEY_CREATED", what |-> None, fields |-> {},
                          value |-> "none", key |-> NoKey]>>
        /\ \A i \in JourneyIds \ {j} : audit'[i] = audit[i]
        /\ snapshots[j] = <<>>
    BY DEF CreateJourney, Created, TypeOK
  <1>2. audit[j] \in Seq(AuditEvent) /\ Len(audit[j]) = 0
    BY <1>1 DEF Accounted, TypeOK
  <1>3. under(audit[j]) = {}
    BY <1>2, LenProperties
  <1>4. under(audit'[j]) = {}
    BY <1>1, JourneysAssumption
  <1>5. \A i \in JourneyIds : under(audit'[i]) = under(audit[i])
    BY <1>1, <1>3, <1>4
  <1> QED  BY <1>5 DEF EventsOf

\* No step takes an event from a key.
LEMMA EventsStay ==
    ASSUME HistoryInvariant, NEW k \in Keys,
           \/ LeavesHistory
           \/ \E j \in JourneyIds : CreateJourney(j)
           \/ \E j \in JourneyIds, snapshot \in Snapshot, event \in AuditEvent :
                 Mutation(j, snapshot, event)
    PROVE  EventsOf(k) \subseteq EventsOf(k)'
  <1>1. TypeOK /\ \A j \in JourneyIds : Accounted(j)
    BY DEF HistoryInvariant, ChainInvariant
  <1>2. CASE LeavesHistory
    BY <1>2 DEF LeavesHistory, journeyVars, EventsOf
  <1>3. CASE \E j \in JourneyIds : CreateJourney(j)
    BY <1>1, <1>3, CreatedUnderNoKey
  <1>4. ASSUME NEW j \in JourneyIds, NEW snapshot \in Snapshot, NEW event \in AuditEvent,
               Mutation(j, snapshot, event)
        PROVE  EventsOf(k) \subseteq EventsOf(k)'
    BY <1>1, <1>4, EventsAfter
  <1> QED  BY <1>2, <1>3, <1>4

\* A committed action is the event of its version, under its key.
LEMMA CommitEvents ==
    ASSUME HistoryInvariant, NEW c \in Clients, CommitApply(c) \/ ReopenAndCommit(c), NEW k \in Keys
    PROVE  /\ request[c] \in ApplyRequest /\ tx[c].snapshot \in Snapshot
           /\ EventsOf(k)' = EventsOf(k) \cup
                 (IF request[c].key = k THEN {<<request[c].journey, tx[c].snapshot.ver>>} ELSE {})
  <1>1. /\ ChainInvariant /\ TypeOK /\ AllPrepared /\ pc[c] = "open"
        /\ \A j \in JourneyIds : Accounted(j)
    BY DEF HistoryInvariant, ChainInvariant, CommitApply, ReopenAndCommit
  <1>2. /\ request[c].journey \in JourneyIds /\ request[c] \in ApplyRequest
        /\ tx[c].snapshot \in Snapshot
        /\ ActionExecuted(request[c]) \in AuditEvent
        /\ Mutation(request[c].journey, tx[c].snapshot, ActionExecuted(request[c]))
    BY <1>1, CommitKind, OpenContext DEF AllPrepared
  <1>3. PICK j \in JourneyIds, snapshot \in Snapshot, event \in AuditEvent :
           /\ j = request[c].journey /\ snapshot = tx[c].snapshot
           /\ event = ActionExecuted(request[c])
    BY <1>2
  <1>4. EventsOf(k)' = EventsOf(k) \cup (IF event.key = k THEN {<<j, Len(snapshots[j]) + 1>>}
                                         ELSE {})
    BY <1>1, <1>2, <1>3, EventsAfter
  <1>5. event.key = request[c].key
    BY <1>3 DEF ActionExecuted
  <1>6. tx[c].snapshot.ver = Len(snapshots[j]) + 1
    BY <1>1, <1>3 DEF ChainInvariant, ExpectedStaysCurrent, RequestsAreGrounded
  <1> QED  BY <1>2, <1>3, <1>4, <1>5, <1>6

-----------------------------------------------------------------------------
(* What the clients were told.                                             *)

\* The row of a key is about a request under this key, and names an event it wrote.
RecordIsTrue(k) ==
    records[k] # None => /\ records[k].request.key = k
                         /\ <<records[k].request.journey, records[k].ver>> \in EventsOf(k)

\* A client told of success has its record; one whose action has been committed but not yet
\* recorded has its event.
ReplyIsTrue(c) ==
    /\ pc[c] = "answered" /\ reply[c] = "ok" /\ request[c].op = "apply" =>
          /\ request[c] \in ApplyRequest
          /\ records[request[c].key] # None
          /\ records[request[c].key].request = request[c]
    /\ pc[c] = "wrote" =>
          <<request[c].journey, tx[c].snapshot.ver>> \in EventsOf(request[c].key)

KeysInvariant == /\ HistoryInvariant
                 /\ \A k \in Keys : RecordIsTrue(k)
                 /\ \A c \in Clients : ReplyIsTrue(c)

\* The idempotency row is written for a key that has none, by the request that ends so.
Records(c) == /\ pc[c] \in {"open", "wrote"}
              /\ ~KeyTaken(c)
              /\ Record(c)
              /\ Answered(c, "ok")
              /\ UNCHANGED request

LEMMA RecordContext ==
    ASSUME ChainInvariant, NEW c \in Clients, Records(c)
    PROVE  /\ request[c] \in ApplyRequest /\ request[c].key \in Keys
           /\ records[request[c].key] = None
           /\ records'[request[c].key] = [request |-> request[c], ver |-> tx[c].snapshot.ver]
           /\ records'[request[c].key] # None
           /\ \A k \in Keys \ {request[c].key} : records'[k] = records[k]
  <1>1. request[c] \in ApplyRequest /\ tx[c].snapshot \in Snapshot
    BY OpenContext DEF Records
  <1>2. request[c].key \in Keys
    BY <1>1 DEF ApplyRequest
  <1>3. [request |-> request[c], ver |-> tx[c].snapshot.ver] \in IdempotencyRow
    BY <1>1 DEF IdempotencyRow, Snapshot
  <1>4. records \in [Keys -> IdempotencyRow \cup {None}]
    BY DEF ChainInvariant, TypeOK
  <1> QED  BY <1>1, <1>2, <1>3, <1>4, RecordAssumption DEF Records, KeyTaken, Record

\* A step leaves the idempotency rows alone, or writes one.
LEMMA RecordSteps ==
    ASSUME [Next]_vars
    PROVE  records' = records \/ \E c \in Clients : Records(c) /\ (CommitApply(c) \/ FinishApply(c))
  <1>1. ASSUME NEW c \in Clients, CommitApply(c)
        PROVE  Records(c)
    BY <1>1 DEF CommitApply, Records
  <1>2. ASSUME NEW c \in Clients, FinishApply(c)
        PROVE  records' = records \/ Records(c)
    BY <1>2 DEF FinishApply, Records
  <1>3. ASSUME NEW c \in Clients,
               \/ BeginApply(c) \/ BeginClarify(c) \/ ReplayAfterWait(c) \/ RejectApply(c)
               \/ OpenApply(c) \/ Clarify(c) \/ RejectClarify(c) \/ CollideOnKey(c)
               \/ CollideOnNumber(c) \/ ReopenAndCommit(c) \/ Crash(c) \/ Return(c)
        PROVE  records' = records
    BY <1>3 DEF BeginApply, BeginClarify, ReplayAfterWait, RejectApply, OpenApply, Clarify,
       RejectClarify, CollideOnKey, CollideOnNumber, ReopenAndCommit, Crash, Return
  <1>4. ASSUME NEW u \in Uploads, AnalyseEvidence(u) \/ StoreEvidence(u) \/ AbortEvidence(u)
        PROVE  records' = records
    BY <1>4 DEF AnalyseEvidence, StoreEvidence, AbortEvidence
  <1>5. ASSUME NEW j \in JourneyIds, CreateJourney(j) \/ AskCustomer(j)
        PROVE  records' = records
    BY <1>5 DEF CreateJourney, AskCustomer
  <1>6. UNCHANGED vars => records' = records
    BY DEF vars
  <1> QED  BY <1>1, <1>2, <1>3, <1>4, <1>5, <1>6 DEF Next, CustomerNext, Serve, Finish

\* An idempotency row, once written, is never written again.
LEMMA RecordsStay ==
    ASSUME ChainInvariant, [Next]_vars, NEW k \in Keys, records[k] # None
    PROVE  records'[k] = records[k]
  <1>1. ASSUME NEW c \in Clients, Records(c)
        PROVE  records'[k] = records[k]
    BY <1>1, RecordContext
  <1> QED  BY <1>1, RecordSteps

\* What keys have, they keep.
KeysStay == \A k \in Keys : /\ EventsOf(k) \subseteq EventsOf(k)'
                            /\ records[k] # None => records'[k] = records[k]

LEMMA NextKeepsKeys ==
    ASSUME HistoryInvariant, [Next]_vars
    PROVE  KeysStay
  <1>1. \A k \in Keys : EventsOf(k) \subseteq EventsOf(k)'
    BY StepKinds, EventsStay DEF HistoryInvariant
  <1>2. \A k \in Keys : records[k] # None => records'[k] = records[k]
    BY RecordsStay DEF HistoryInvariant
  <1> QED  BY <1>1, <1>2 DEF KeysStay

\* A row that is written names the event that its request has written.
LEMMA RecordIsTrueStep ==
    ASSUME KeysInvariant, [Next]_vars, NEW k \in Keys
    PROVE  RecordIsTrue(k)'
  <1>1. HistoryInvariant /\ ChainInvariant /\ RecordIsTrue(k)
    BY DEF KeysInvariant, HistoryInvariant
  <1>2. EventsOf(k) \subseteq EventsOf(k)'
    BY <1>1, NextKeepsKeys DEF KeysStay
  <1>3. CASE records[k] # None
    <2>1. records'[k] = records[k]
      BY <1>1, <1>3, NextKeepsKeys DEF KeysStay
    <2> QED  BY <1>1, <1>2, <1>3, <2>1 DEF RecordIsTrue
  <1>4. CASE records'[k] = None
    BY <1>4 DEF RecordIsTrue
  <1>5. CASE records[k] = None /\ records'[k] # None
    <2>1. PICK c \in Clients : Records(c) /\ (CommitApply(c) \/ FinishApply(c))
      BY <1>5, RecordSteps
    <2>2. /\ request[c].key = k
          /\ records'[k] = [request |-> request[c], ver |-> tx[c].snapshot.ver]
      BY <1>1, <1>5, <2>1, RecordContext
    <2>3. <<request[c].journey, tx[c].snapshot.ver>> \in EventsOf(k)'
      <3>1. CASE CommitApply(c)
        BY <1>1, <2>2, <3>1, CommitEvents
      <3>2. CASE FinishApply(c)
        BY <1>2, <2>2, <3>2 DEF KeysInvariant, ReplyIsTrue, FinishApply
      <3> QED  BY <2>1, <3>1, <3>2
    <2> QED  BY <2>2, <2>3 DEF RecordIsTrue
  <1> QED  BY <1>3, <1>4, <1>5

\* An answer that ends a request tells the truth if it replays the record of the key.
LEMMA ReplayIsTrue ==
    ASSUME NEW c \in Clients, pc'[c] = "answered", request'[c] \in ApplyRequest,
           records' = records, records[request'[c].key] # None,
           reply'[c] = ReplayOutcome(request'[c].key, request'[c])
    PROVE  ReplyIsTrue(c)'
  BY DEF ReplyIsTrue, ReplayOutcome


\* A request is served by itself: the others' progress and answers stay what they were.
LEMMA OthersWait ==
    ASSUME ChainInvariant, NEW c \in Clients,
           \/ BeginApply(c) \/ BeginClarify(c) \/ Serve(c) \/ Finish(c) \/ Crash(c) \/ Return(c)
    PROVE  \A d \in Clients \ {c} : /\ pc'[d] = pc[d] /\ reply'[d] = reply[d]
                                    /\ request'[d] = request[d] /\ tx'[d] = tx[d]
  <1>0. /\ pc \in [Clients -> {"idle", "waiting", "open", "wrote", "answered"}]
        /\ reply \in [Clients -> {"none", "ok", "refused", "error", "lost"}]
        /\ request \in [Clients -> Request \cup {None}]
        /\ tx \in [Clients -> Writes \cup {None}]
    BY DEF ChainInvariant, TypeOK
  <1> DEFINE Wait == \A d \in Clients \ {c} : /\ pc'[d] = pc[d] /\ reply'[d] = reply[d]
                                              /\ request'[d] = request[d] /\ tx'[d] = tx[d]
  <1>1. CASE BeginApply(c) \/ BeginClarify(c)
    <2>1. /\ \E r \in Request : request' = [request EXCEPT ![c] = r]
          /\ \/ \E outcome \in {"ok", "refused"} : Answered(c, outcome)
             \/ pc' = [pc EXCEPT ![c] = "waiting"] /\ UNCHANGED <<tx, reply>>
      BY <1>1, BegunRequest DEF ChainInvariant
    <2> QED  BY <1>0, <2>1 DEF Answered
  <1>2. CASE OpenApply(c)
    BY <1>0, <1>2 DEF OpenApply
  <1>3. CASE ReopenAndCommit(c)
    BY <1>0, <1>3 DEF ReopenAndCommit
  <1>4. CASE Return(c)
    BY <1>0, <1>4 DEF Return
  <1>5. CASE \/ ReplayAfterWait(c) \/ RejectApply(c) \/ Clarify(c) \/ RejectClarify(c)
             \/ CommitApply(c) \/ CollideOnKey(c) \/ CollideOnNumber(c) \/ FinishApply(c)
             \/ Crash(c)
    <2>1. UNCHANGED request /\ \E outcome : Answered(c, outcome)
      BY <1>5 DEF ReplayAfterWait, RejectApply, Clarify, RejectClarify, CommitApply,
         CollideOnKey, CollideOnNumber, FinishApply, Crash
    <2> QED  BY <1>0, <2>1 DEF Answered
  <1> QED  BY <1>1, <1>2, <1>3, <1>4, <1>5 DEF Serve, Finish

\* Whoever waits for his turn, or has his answer, can still rely on it afterwards.
LEMMA BystanderIsTrue ==
    ASSUME KeysInvariant, KeysStay, NEW d \in Clients,
           pc'[d] = pc[d], reply'[d] = reply[d], request'[d] = request[d], tx'[d] = tx[d]
    PROVE  ReplyIsTrue(d)'
  <1>1. HistoryInvariant /\ ChainInvariant /\ ReplyIsTrue(d)
    BY DEF KeysInvariant, HistoryInvariant
  <1>2. ASSUME pc[d] = "answered" /\ reply[d] = "ok" /\ request[d].op = "apply"
        PROVE  /\ request'[d] \in ApplyRequest
               /\ records'[request'[d].key] # None
               /\ records'[request'[d].key].request = request'[d]
    <2>1. /\ request[d] \in ApplyRequest /\ request[d].key \in Keys
          /\ records[request[d].key] # None
          /\ records[request[d].key].request = request[d]
      BY <1>1, <1>2 DEF ReplyIsTrue, ApplyRequest
    <2>2. PICK k \in Keys : k = request[d].key
      BY <2>1
    <2>3. records'[k] = records[k]
      BY <2>1, <2>2 DEF KeysStay
    <2> QED  BY <2>1, <2>2, <2>3
  <1>3. ASSUME pc[d] = "wrote"
        PROVE  <<request'[d].journey, tx'[d].snapshot.ver>> \in EventsOf(request[d].key)'
    <2>1. /\ request[d].key \in Keys
          /\ <<request[d].journey, tx[d].snapshot.ver>> \in EventsOf(request[d].key)
      BY <1>1, <1>3, OpenContext DEF ReplyIsTrue, ApplyRequest
    <2>2. PICK k \in Keys : k = request[d].key
      BY <2>1
    <2>3. EventsOf(k) \subseteq EventsOf(k)'
      BY DEF KeysStay
    <2>4. EventsOf(request[d].key)' = EventsOf(k)'
      BY <2>2 DEF EventsOf
    <2> QED  BY <2>1, <2>2, <2>3, <2>4
  <1> QED  BY <1>2, <1>3 DEF ReplyIsTrue

LEMMA ReplyIsTrueStep ==
    ASSUME KeysInvariant, [Next]_vars, NEW d \in Clients
    PROVE  ReplyIsTrue(d)'
  <1>0. /\ HistoryInvariant /\ ChainInvariant /\ ReplyIsTrue(d) /\ TypeOK
        /\ pc \in [Clients -> {"idle", "waiting", "open", "wrote", "answered"}]
        /\ reply \in [Clients -> {"none", "ok", "refused", "error", "lost"}]
        /\ request \in [Clients -> Request \cup {None}]
    BY DEF KeysInvariant, HistoryInvariant, ChainInvariant, TypeOK
  <1>1. ASSUME pc'[d] \in {"idle", "waiting", "open"}
        PROVE  ReplyIsTrue(d)'
    BY <1>1 DEF ReplyIsTrue
  <1>2. ASSUME NEW outcome \in {"refused", "error", "lost"}, Answered(d, outcome)
        PROVE  ReplyIsTrue(d)'
    BY <1>0, <1>2 DEF ReplyIsTrue, Answered
  <1>3. ASSUME pc[d] \in {"waiting", "open", "wrote"}, request[d].op = "apply",
               records[request[d].key] # None, records' = records, request' = request,
               Answered(d, ReplayOutcome(request[d].key, request[d]))
        PROVE  ReplyIsTrue(d)'
    <2>1. request[d] \in ApplyRequest
      BY <1>0, <1>3, RequestContext DEF Request, ApplyRequest, ClarifyRequest
    <2> QED  BY <1>0, <1>3, <2>1, ReplayIsTrue DEF Answered
  <1>4. CASE BeginApply(d)
    <2>1. PICK k \in Keys, j \in JourneyIds, in \in Inputs :
            \E expected \in DOMAIN snapshots[j] :
             LET req == [op |-> "apply", key |-> k, journey |-> j,
                         expected |-> expected, input |-> in]
             IN  /\ request' = [request EXCEPT ![d] = req]
                 /\ IF records[k] # None
                    THEN Answered(d, ReplayOutcome(k, req))
                    ELSE pc' = [pc EXCEPT ![d] = "waiting"] /\ UNCHANGED <<tx, reply>>
      BY <1>4 DEF BeginApply
    <2>2. PICK expected \in DOMAIN snapshots[j] :
             LET req == [op |-> "apply", key |-> k, journey |-> j,
                         expected |-> expected, input |-> in]
             IN  /\ request' = [request EXCEPT ![d] = req]
                 /\ IF records[k] # None
                    THEN Answered(d, ReplayOutcome(k, req))
                    ELSE pc' = [pc EXCEPT ![d] = "waiting"] /\ UNCHANGED <<tx, reply>>
      BY <2>1
    <2> DEFINE req == [op |-> "apply", key |-> k, journey |-> j,
                       expected |-> expected, input |-> in]
    <2>3. req \in ApplyRequest
      <3>1. snapshots[j] \in Seq(Snapshot)
        BY <1>0 DEF TypeOK
      <3>2. expected \in Nat
        BY <3>1, LenProperties
      <3> QED  BY <3>2 DEF ApplyRequest
    <2>4. records' = records
      BY <1>4 DEF BeginApply
    <2>5. req.key = k
      OBVIOUS
    <2>6. /\ request' = [request EXCEPT ![d] = req]
          /\ \/ records[k] # None /\ Answered(d, ReplayOutcome(k, req))
             \/ pc' = [pc EXCEPT ![d] = "waiting"]
      BY <2>2
    <2> HIDE DEF req
    <2>7. CASE records[k] # None /\ Answered(d, ReplayOutcome(k, req))
      BY <1>0, <2>3, <2>4, <2>5, <2>6, <2>7, ReplayIsTrue DEF Answered
    <2>8. CASE pc' = [pc EXCEPT ![d] = "waiting"]
      BY <1>0, <1>1, <2>8
    <2> QED  BY <2>6, <2>7, <2>8
  <1>5. CASE BeginClarify(d)
    <2>1. Answered(d, "refused") \/ pc' = [pc EXCEPT ![d] = "waiting"]
      BY <1>5 DEF BeginClarify
    <2> QED  BY <1>0, <1>1, <1>2, <2>1
  <1>6. CASE OpenApply(d) \/ Return(d)
    BY <1>0, <1>1, <1>6 DEF OpenApply, Return
  <1>7. CASE RejectApply(d) \/ RejectClarify(d) \/ CollideOnNumber(d) \/ Crash(d)
    BY <1>2, <1>7 DEF RejectApply, RejectClarify, CollideOnNumber, Crash
  <1>8. CASE Clarify(d)
    <2>1. request'[d].op = "clarify" /\ pc'[d] = "answered"
      BY <1>0, <1>8 DEF Clarify, Granted, Answered
    <2> QED  BY <2>1 DEF ReplyIsTrue
  <1>9. CASE ReplayAfterWait(d)
    BY <1>3, <1>9 DEF ReplayAfterWait, Granted
  <1>10. CASE CollideOnKey(d)
    <2>1. pc[d] = "open" /\ request[d].op = "apply"
      BY <1>0, <1>10 DEF CollideOnKey, ChainInvariant, RequestsAreGrounded
    <2> QED  BY <1>3, <1>10, <2>1 DEF CollideOnKey, KeyTaken
  <1>11. CASE Records(d)
    <2>1. /\ request[d] \in ApplyRequest
          /\ records'[request[d].key] = [request |-> request[d], ver |-> tx[d].snapshot.ver]
          /\ records'[request[d].key] # None
          /\ pc'[d] = "answered" /\ request'[d] = request[d]
      BY <1>0, <1>11, RecordContext DEF Records, Answered
    <2> QED  BY <2>1 DEF ReplyIsTrue
  <1>12. CASE CommitApply(d)
    BY <1>11, <1>12 DEF CommitApply, Records
  <1>13. CASE FinishApply(d)
    <2>1. pc[d] = "wrote" /\ request[d].op = "apply"
      BY <1>0, <1>13 DEF FinishApply, ChainInvariant, RequestsAreGrounded
    <2>2. \/ Records(d)
          \/ /\ KeyTaken(d) /\ records' = records /\ request' = request
             /\ Answered(d, ReplayOutcome(request[d].key, request[d]))
      BY <1>13 DEF FinishApply, Records
    <2> QED  BY <1>3, <1>11, <2>1, <2>2 DEF KeyTaken
  <1>14. CASE ReopenAndCommit(d)
    <2>1. /\ pc'[d] = "wrote" /\ request' = request /\ tx' = tx
      BY <1>0, <1>14 DEF ReopenAndCommit
    <2>2. request[d].key \in Keys
      BY <1>0, <1>14, OpenContext DEF ReopenAndCommit, ApplyRequest
    <2>3. PICK k \in Keys : k = request[d].key
      BY <2>2
    <2>4. <<request[d].journey, tx[d].snapshot.ver>> \in EventsOf(k)'
      BY <1>0, <1>14, <2>3, CommitEvents
    <2>5. EventsOf(request[d].key)' = EventsOf(k)'
      BY <2>1, <2>3 DEF EventsOf
    <2> QED  BY <2>1, <2>4, <2>5 DEF ReplyIsTrue
  <1>15. ASSUME UNCHANGED clientVars
         PROVE  ReplyIsTrue(d)'
    BY <1>0, <1>15, NextKeepsKeys, BystanderIsTrue DEF clientVars
  <1>16. ASSUME NEW c \in Clients \ {d},
                \/ BeginApply(c) \/ BeginClarify(c) \/ Serve(c) \/ Finish(c)
                \/ Crash(c) \/ Return(c)
         PROVE  ReplyIsTrue(d)'
    BY <1>0, <1>16, OthersWait, NextKeepsKeys, BystanderIsTrue
  <1>17. ASSUME \/ BeginApply(d) \/ BeginClarify(d) \/ Serve(d) \/ Finish(d)
                \/ Crash(d) \/ Return(d)
         PROVE  ReplyIsTrue(d)'
    BY <1>4, <1>5, <1>6, <1>7, <1>8, <1>9, <1>10, <1>12, <1>13, <1>14, <1>17 DEF Serve, Finish
  <1>18. \/ UNCHANGED clientVars
         \/ \E c \in Clients : \/ BeginApply(c) \/ BeginClarify(c) \/ Serve(c) \/ Finish(c)
                               \/ Crash(c) \/ Return(c)
    <2>1. ASSUME NEW j \in JourneyIds, CreateJourney(j) \/ AskCustomer(j)
          PROVE  UNCHANGED clientVars
      BY <2>1 DEF CreateJourney, AskCustomer
    <2>2. ASSUME NEW u \in Uploads, AnalyseEvidence(u) \/ StoreEvidence(u) \/ AbortEvidence(u)
          PROVE  UNCHANGED clientVars
      BY <2>2 DEF AnalyseEvidence, StoreEvidence, AbortEvidence
    <2>3. UNCHANGED vars => UNCHANGED clientVars
      BY DEF vars, clientVars
    <2> QED  BY <2>1, <2>2, <2>3 DEF Next, CustomerNext
  <1> QED  BY <1>15, <1>16, <1>17, <1>18


LEMMA KeysInit ==
    ASSUME Init
    PROVE  KeysInvariant
  <1>1. HistoryInvariant
    BY TrailInit DEF TrailInvariant, HistoryInvariant
  <1>2. \A k \in Keys : RecordIsTrue(k)
    BY DEF Init, RecordIsTrue
  <1>3. \A c \in Clients : ReplyIsTrue(c)
    BY DEF Init, ReplyIsTrue
  <1> QED  BY <1>1, <1>2, <1>3 DEF KeysInvariant

LEMMA KeysStep ==
    ASSUME KeysInvariant, [Next]_vars
    PROVE  KeysInvariant'
  <1>1. HistoryInvariant'
    BY HistoryStep DEF KeysInvariant
  <1>2. \A k \in Keys : RecordIsTrue(k)'
    BY RecordIsTrueStep
  <1>3. \A c \in Clients : ReplyIsTrue(c)'
    BY ReplyIsTrueStep
  <1> QED  BY <1>1, <1>2, <1>3 DEF KeysInvariant

\* What the idempotency rows and the answers of the service say is so.
THEOREM KeysInvariantHolds == Spec => []KeysInvariant
  <1>1. Init => KeysInvariant
    BY KeysInit
  <1>2. KeysInvariant /\ [Next]_vars => KeysInvariant'
    BY KeysStep
  <1> QED  BY <1>1, <1>2, PTL DEF Spec

\* Records and answers that are true make an answer of success reliable.
LEMMA TrueAnswersLast == KeysInvariant => AcknowledgedIsDurable
  <1>1. ASSUME KeysInvariant, NEW c \in Clients,
               pc[c] = "answered", reply[c] = "ok", request[c].op = "apply"
        PROVE  /\ records[request[c].key] # None
               /\ records[request[c].key].request = request[c]
               /\ <<request[c].journey, records[request[c].key].ver>> \in EventsOf(request[c].key)
    <2>1. /\ request[c] \in ApplyRequest
          /\ records[request[c].key] # None
          /\ records[request[c].key].request = request[c]
      BY <1>1 DEF KeysInvariant, ReplyIsTrue
    <2>2. request[c].key \in Keys
      BY <2>1 DEF ApplyRequest
    <2> QED  BY <1>1, <2>1, <2>2 DEF KeysInvariant, RecordIsTrue
  <1> QED  BY <1>1 DEF AcknowledgedIsDurable

\* Whichever path of apply_action told the client that its action succeeded (the commit, the
\* late record, a replay before or after the lock, or the loser of a collision), the record
\* is of this very request, and the event of the version it names is under its key.
THEOREM SuccessIsDurable == Spec => []AcknowledgedIsDurable
  BY TrueAnswersLast, KeysInvariantHolds, PTL

-----------------------------------------------------------------------------
(* Keys as long as no action is committed before its record.               *)

\* create_or_get_open_case finds no case that waits for the customer, so that it does not
\* commit in the middle of apply_action.
NoEarlyCommit == \A c \in Clients : ~ReopenAndCommit(c)

\* A key has the one event its record names, and none without a record.
AppliedOnce(k) ==
    EventsOf(k) = IF records[k] = None THEN {}
                  ELSE {<<records[k].request.journey, records[k].ver>>}

OnceInvariant == KeysInvariant /\ \A k \in Keys : AppliedOnce(k)

LEMMA OnceInit ==
    ASSUME Init
    PROVE  OnceInvariant
  <1>1. \A j \in JourneyIds : audit[j] = <<>>
    BY DEF Init
  <1>2. \A k \in Keys : EventsOf(k) = {}
    BY <1>1 DEF EventsOf
  <1>3. \A k \in Keys : records[k] = None
    BY DEF Init
  <1> QED  BY <1>2, <1>3, KeysInit DEF OnceInvariant, AppliedOnce

\* Without an early commit, the events of a key change only when its record is written.
LEMMA EventsWithRecord ==
    ASSUME HistoryInvariant, [Next]_vars, NoEarlyCommit, NEW k \in Keys,
           \A c \in Clients : CommitApply(c) => request[c].key # k
    PROVE  EventsOf(k)' = EventsOf(k)
  <1>1. TypeOK /\ ChainInvariant /\ \A j \in JourneyIds : Accounted(j)
    BY DEF HistoryInvariant, ChainInvariant
  <1>2. ASSUME NEW c \in Clients, CommitApply(c)
        PROVE  EventsOf(k)' = EventsOf(k)
    BY <1>2, CommitEvents
  <1>3. ASSUME NEW c \in Clients, Clarify(c)
        PROVE  EventsOf(k)' = EventsOf(k)
    <2> DEFINE req == request[c]
    <2>1. /\ pc[c] = "waiting" /\ req.op = "clarify"
          /\ WriteAnswer(req.journey, req.input.ambiguity, req.input.typed)
      BY <1>3 DEF Clarify, Granted
    <2>2. /\ req.journey \in JourneyIds /\ req \in Request
          /\ journey[req.journey].current = Len(snapshots[req.journey])
          /\ journey[req.journey].current \in DOMAIN snapshots[req.journey]
      BY <1>1, <2>1, RequestContext
    <2>3. req.input \in Answer
      BY <2>1, <2>2, InputsAssumption DEF Request, ApplyRequest, ClarifyRequest
    <2>4. req.input.ambiguity \in Ambiguities /\ req.input.typed \in Value
      BY <2>3 DEF Answer, Value
    <2>5. PICK j \in JourneyIds : j = req.journey
      BY <2>2
    <2>6. PICK snapshot \in Snapshot, event \in AuditEvent :
             Mutation(j, snapshot, event) /\ event.key = NoKey
      BY <1>1, <2>1, <2>2, <2>4, <2>5, AnswerKind
    <2>7. event.key # k
      BY <2>6, JourneysAssumption
    <2>8. EventsOf(k)' = EventsOf(k) \cup {}
      BY <1>1, <2>6, <2>7, EventsAfter
    <2> QED  BY <2>8
  <1>4. ASSUME NEW j \in JourneyIds, CreateJourney(j)
        PROVE  EventsOf(k)' = EventsOf(k)
    BY <1>1, <1>4, CreatedUnderNoKey
  <1>5. ASSUME NEW c \in Clients,
               \/ BeginApply(c) \/ BeginClarify(c) \/ ReplayAfterWait(c) \/ RejectApply(c)
               \/ OpenApply(c) \/ RejectClarify(c) \/ CollideOnKey(c)
               \/ CollideOnNumber(c) \/ FinishApply(c) \/ Crash(c) \/ Return(c)
        PROVE  audit' = audit
    BY <1>5 DEF BeginApply, BeginClarify, ReplayAfterWait, RejectApply, OpenApply, RejectClarify,
       CollideOnKey, CollideOnNumber, FinishApply, Crash, Return, journeyVars
  <1>6. ASSUME NEW u \in Uploads, AnalyseEvidence(u) \/ StoreEvidence(u) \/ AbortEvidence(u)
        PROVE  audit' = audit
    BY <1>6 DEF AnalyseEvidence, StoreEvidence, AbortEvidence, journeyVars
  <1>7. ASSUME NEW j \in JourneyIds, AskCustomer(j)
        PROVE  audit' = audit
    BY <1>7 DEF AskCustomer, journeyVars
  <1>8. CASE audit' = audit
    BY <1>8 DEF EventsOf
  <1>9. UNCHANGED vars => audit' = audit
    BY DEF vars
  <1> QED  BY <1>2, <1>3, <1>4, <1>5, <1>6, <1>7, <1>8, <1>9
           DEF Next, CustomerNext, Serve, Finish, NoEarlyCommit

LEMMA OnceStep ==
    ASSUME OnceInvariant, [Next]_vars, NoEarlyCommit
    PROVE  OnceInvariant'
  <1>1. KeysInvariant /\ HistoryInvariant /\ ChainInvariant /\ \A k \in Keys : AppliedOnce(k)
    BY DEF OnceInvariant, KeysInvariant, HistoryInvariant
  <1>2. KeysInvariant'
    BY <1>1, KeysStep
  <1>3. ASSUME NEW c \in Clients, CommitApply(c)
        PROVE  Records(c)
    BY <1>3 DEF CommitApply, Records
  <1>4. ASSUME NEW c \in Clients, FinishApply(c), Records(c)
        PROVE  FALSE
    <2>1. /\ request[c].key \in Keys /\ records[request[c].key] = None
          /\ pc[c] = "wrote"
      BY <1>1, <1>4, RecordContext DEF FinishApply
    <2>2. EventsOf(request[c].key) # {}
      BY <1>1, <2>1 DEF KeysInvariant, ReplyIsTrue
    <2> QED  BY <1>1, <2>1, <2>2 DEF AppliedOnce
  <1>5. ASSUME NEW k \in Keys
        PROVE  AppliedOnce(k)'
    <2>1. CASE \E c \in Clients : CommitApply(c) /\ request[c].key = k
      <3>1. PICK c \in Clients : CommitApply(c) /\ request[c].key = k
        BY <2>1
      <3>2. /\ records[k] = None /\ records'[k] # None
            /\ records'[k] = [request |-> request[c], ver |-> tx[c].snapshot.ver]
        BY <1>1, <1>3, <3>1, RecordContext
      <3>3. EventsOf(k)' = EventsOf(k) \cup {<<request[c].journey, tx[c].snapshot.ver>>}
        BY <1>1, <3>1, CommitEvents
      <3>4. EventsOf(k) = {}
        BY <1>1, <3>2 DEF AppliedOnce
      <3> QED  BY <3>2, <3>3, <3>4 DEF AppliedOnce
    <2>2. CASE ~\E c \in Clients : CommitApply(c) /\ request[c].key = k
      <3>1. EventsOf(k)' = EventsOf(k)
        BY <1>1, <2>2, EventsWithRecord
      <3>2. records'[k] = records[k]
        <4>1. ASSUME NEW c \in Clients, Records(c), CommitApply(c)
              PROVE  records'[k] = records[k]
          BY <1>1, <2>2, <4>1, RecordContext
        <4> QED  BY <1>4, <4>1, RecordSteps
      <3> QED  BY <1>1, <3>1, <3>2 DEF AppliedOnce
    <2> QED  BY <2>1, <2>2
  <1> QED  BY <1>2, <1>5 DEF OnceInvariant

\* While no action is committed before its record, the events under a key are those its
\* record names.
THEOREM OnceInvariantHolds == Spec /\ [][NoEarlyCommit]_vars => []OnceInvariant
  <1>1. Init => OnceInvariant
    BY OnceInit
  <1>2. OnceInvariant /\ [Next]_vars /\ [NoEarlyCommit]_vars => OnceInvariant'
    <2>1. ASSUME OnceInvariant, UNCHANGED vars
          PROVE  OnceInvariant'
      <3>1. KeysInvariant'
        BY <2>1, KeysStep DEF OnceInvariant
      <3>2. records' = records /\ audit' = audit
        BY <2>1 DEF vars
      <3> QED  BY <2>1, <3>1, <3>2 DEF OnceInvariant, AppliedOnce, EventsOf
    <2> QED  BY <2>1, OnceStep
  <1> QED  BY <1>1, <1>2, PTL DEF Spec

LEMMA OnceImpliesApplied == OnceInvariant => KeyAppliedOnce
  <1>1. ASSUME OnceInvariant, NEW k \in Keys
        PROVE  Cardinality(EventsOf(k)) <= 1
    <2>1. EventsOf(k) = {} \/ \E e : EventsOf(k) = {e}
      BY <1>1 DEF OnceInvariant, AppliedOnce
    <2>2. Cardinality(EventsOf(k)) = 0 \/ Cardinality(EventsOf(k)) = 1
      BY <2>1, FS_EmptySet, FS_Singleton
    <2> QED  BY <2>2
  <1> QED  BY <1>1 DEF KeyAppliedOnce

\* A refusal that ends a request under a used key found the record of another request.
LEMMA RefusalIsEarned ==
    ASSUME OnceInvariant, [Next]_vars, NEW c \in Clients,
           pc[c] # "answered", pc'[c] = "answered", reply'[c] = "refused",
           request'[c].op = "apply",
           <<request'[c].journey, request'[c].expected + 1>> \in EventsOf(request'[c].key)
    PROVE  /\ records[request'[c].key] # None
           /\ records[request'[c].key].request # request'[c]
  <1>0. /\ HistoryInvariant /\ ChainInvariant /\ TypeOK /\ \A k \in Keys : AppliedOnce(k)
        /\ pc \in [Clients -> {"idle", "waiting", "open", "wrote", "answered"}]
        /\ reply \in [Clients -> {"none", "ok", "refused", "error", "lost"}]
        /\ request \in [Clients -> Request \cup {None}]
    BY DEF OnceInvariant, KeysInvariant, HistoryInvariant, ChainInvariant, TypeOK
  <1>1. request'[c].key \in Keys => records[request'[c].key] # None
    BY <1>0 DEF AppliedOnce
  <1>2. ASSUME request'[c].key \in Keys,
               reply'[c] = ReplayOutcome(request'[c].key, request'[c])
        PROVE  /\ records[request'[c].key] # None
               /\ records[request'[c].key].request # request'[c]
    BY <1>1, <1>2 DEF ReplayOutcome
  <1>3. CASE BeginApply(c)
    <2>1. PICK k \in Keys, j \in JourneyIds, in \in Inputs :
            \E expected \in DOMAIN snapshots[j] :
             LET req == [op |-> "apply", key |-> k, journey |-> j,
                         expected |-> expected, input |-> in]
             IN  /\ request' = [request EXCEPT ![c] = req]
                 /\ IF records[k] # None
                    THEN Answered(c, ReplayOutcome(k, req))
                    ELSE pc' = [pc EXCEPT ![c] = "waiting"] /\ UNCHANGED <<tx, reply>>
      BY <1>3 DEF BeginApply
    <2>2. \E req : /\ req.key = k
                   /\ request' = [request EXCEPT ![c] = req]
                   /\ \/ Answered(c, ReplayOutcome(k, req))
                      \/ pc' = [pc EXCEPT ![c] = "waiting"]
      BY <2>1
    <2>3. PICK req : /\ req.key = k
                     /\ request' = [request EXCEPT ![c] = req]
                     /\ \/ Answered(c, ReplayOutcome(k, req))
                        \/ pc' = [pc EXCEPT ![c] = "waiting"]
      BY <2>2
    <2>4. Answered(c, ReplayOutcome(k, req))
      BY <1>0, <2>3
    <2> QED  BY <1>0, <1>2, <2>3, <2>4 DEF Answered
  <1>4. ASSUME pc[c] \in {"waiting", "open", "wrote"}, request' = request,
               request[c].op = "apply"
        PROVE  request'[c].key \in Keys
    BY <1>0, <1>4, RequestContext DEF Request, ApplyRequest, ClarifyRequest
  <1>5. CASE ReplayAfterWait(c)
    BY <1>0, <1>2, <1>4, <1>5 DEF ReplayAfterWait, Granted, Answered
  <1>6. CASE CollideOnKey(c)
    BY <1>0, <1>2, <1>4, <1>6 DEF CollideOnKey, Answered
  <1>7. CASE FinishApply(c)
    <2>1. reply'[c] = "ok" \/ reply'[c] = ReplayOutcome(request[c].key, request[c])
      BY <1>0, <1>7 DEF FinishApply, Answered
    <2> QED  BY <1>2, <1>4, <1>7, <2>1 DEF FinishApply
  <1>8. CASE RejectApply(c)
    BY <1>0, <1>1, <1>4, <1>8 DEF RejectApply, Granted
  <1>9. CASE RejectClarify(c)
    BY <1>9 DEF RejectClarify, Granted
  <1>10. CASE BeginClarify(c)
    <2>1. \E r : r.op = "clarify" /\ request' = [request EXCEPT ![c] = r]
      BY <1>10 DEF BeginClarify
    <2> QED  BY <1>0, <2>1
  <1>11. CASE CommitApply(c) \/ Clarify(c) \/ CollideOnNumber(c) \/ Crash(c)
    <2>1. \E outcome \in {"ok", "error", "lost"} : Answered(c, outcome)
      BY <1>11 DEF CommitApply, Clarify, CollideOnNumber, Crash
    <2> QED  BY <1>0, <2>1 DEF Answered
  <1>12. CASE OpenApply(c) \/ ReopenAndCommit(c) \/ Return(c)
    BY <1>0, <1>12 DEF OpenApply, ReopenAndCommit, Return
  <1>13. ASSUME NEW d \in Clients, d # c,
                \/ BeginApply(d) \/ BeginClarify(d) \/ Serve(d) \/ Finish(d)
                \/ Crash(d) \/ Return(d)
         PROVE  FALSE
    BY <1>0, <1>13, OthersWait
  <1>14. ~UNCHANGED clientVars
    BY DEF clientVars
  <1>15. ASSUME NEW j \in JourneyIds, CreateJourney(j) \/ AskCustomer(j)
         PROVE  UNCHANGED clientVars
    BY <1>15 DEF CreateJourney, AskCustomer
  <1>16. ASSUME NEW u \in Uploads, AnalyseEvidence(u) \/ StoreEvidence(u) \/ AbortEvidence(u)
         PROVE  UNCHANGED clientVars
    BY <1>16 DEF AnalyseEvidence, StoreEvidence, AbortEvidence
  <1>17. UNCHANGED vars => UNCHANGED clientVars
    BY DEF vars, clientVars
  <1>18. \/ BeginApply(c) \/ BeginClarify(c) \/ Serve(c) \/ Finish(c) \/ Crash(c) \/ Return(c)
    BY <1>13, <1>14, <1>15, <1>16, <1>17 DEF Next, CustomerNext
  <1> QED  BY <1>3, <1>5, <1>6, <1>7, <1>8, <1>9, <1>10, <1>11, <1>12, <1>18 DEF Serve, Finish

\* However often a key is sent, to however many journeys and however crashes fall, at most
\* one action is executed under it, unless an action reopens a case.
THEOREM KeyIsAppliedOnce == Spec /\ [][NoEarlyCommit]_vars => []KeyAppliedOnce
  BY OnceInvariantHolds, OnceImpliesApplied, PTL

\* An action that was refused was not executed, unless an action reopens a case (the run
\* review_retry shows how it then can be).
THEOREM RefusalIsFinal == Spec /\ [][NoEarlyCommit]_vars => RefusedWasNotExecuted
  <1>1. OnceInvariant /\ [Next]_vars =>
           [\A c \in Clients :
              /\ pc[c] # "answered" /\ pc'[c] = "answered" /\ reply'[c] = "refused"
              /\ request'[c].op = "apply"
              => LET req == request'[c]
                 IN  <<req.journey, req.expected + 1>> \in EventsOf(req.key) =>
                         records[req.key] # None /\ records[req.key].request # req]_vars
    BY RefusalIsEarned
  <1>2. Spec => [][Next]_vars
    BY PTL DEF Spec
  <1>3. Spec /\ [][NoEarlyCommit]_vars =>
           [][\A c \in Clients :
              /\ pc[c] # "answered" /\ pc'[c] = "answered" /\ reply'[c] = "refused"
              /\ request'[c].op = "apply"
              => LET req == request'[c]
                 IN  <<req.journey, req.expected + 1>> \in EventsOf(req.key) =>
                         records[req.key] # None /\ records[req.key].request # req]_vars
    BY <1>1, <1>2, OnceInvariantHolds, PTL
  <1> QED  BY <1>3 DEF RefusedWasNotExecuted


-----------------------------------------------------------------------------
(* Without reviewers there are no early commits.                           *)

\* No case waits for the customer, and no action has read one that did.
Unasked ==
    /\ ChainInvariant
    /\ \A j \in JourneyIds : \A i \in DOMAIN cases[j] :
          cases[j][i].status # "ADDITIONAL_INFO_REQUIRED"
    /\ \A c \in Clients : pc[c] \in {"open", "wrote"} => ~Reopens(c)

LEMMA UnaskedStep ==
    ASSUME Reviewers = {}, Unasked, [Next]_vars
    PROVE  Unasked'
  <1>0. /\ ChainInvariant /\ TypeOK /\ cases \in [JourneyIds -> Seq(Case)]
        /\ \A c \in Clients : pc[c] \in {"open", "wrote"} => ~Reopens(c)
        /\ \A j \in JourneyIds : \A i \in DOMAIN cases[j] :
              cases[j][i].status # "ADDITIONAL_INFO_REQUIRED"
    BY DEF Unasked, ChainInvariant, TypeOK
  <1> DEFINE Waits(table) == \E j \in JourneyIds : \E i \in DOMAIN table[j] :
                                table[j][i].status = "ADDITIONAL_INFO_REQUIRED"
  <1>1. ChainInvariant'
    BY <1>0, ChainStep
  <1>2. ASSUME NEW c \in Clients, CommitApply(c)
        PROVE  ~Waits(cases')
    <2> DEFINE j    == request[c].journey
               case == NewCase(j, tx[c].snapshot.pending, tx[c].case.number)
    <2>1. cases' = cases \/ cases' = [cases EXCEPT ![j] = Append(@, case)]
      BY <1>2 DEF CommitApply
    <2>2. case.status = "REVIEW_REQUIRED"
      BY DEF NewCase
    <2>3. j \in JourneyIds
      BY <1>0, <1>2, RequestContext DEF CommitApply
    <2> HIDE DEF case
    <2>4. /\ DOMAIN Append(cases[j], case) = 1..Len(cases[j]) + 1
          /\ DOMAIN cases[j] = 1..Len(cases[j]) /\ Len(cases[j]) \in Nat
          /\ \A i \in 1..Len(cases[j]) : Append(cases[j], case)[i] = cases[j][i]
          /\ Append(cases[j], case)[Len(cases[j]) + 1] = case
      <3>1. cases[j] \in Seq(Case)
        BY <1>0, <2>3
      <3> QED  BY <3>1
    <2>5. \A i \in DOMAIN Append(cases[j], case) :
             Append(cases[j], case)[i].status # "ADDITIONAL_INFO_REQUIRED"
      BY <1>0, <2>2, <2>3, <2>4
    <2> QED  BY <1>0, <2>1, <2>5
  <1>3. ASSUME NEW u \in Uploads, StoreEvidence(u)
        PROVE  ~Waits(cases')
    <2> DEFINE seen    == evidence[u].seen
               waiting == {i \in DOMAIN seen : seen[i].status = "ADDITIONAL_INFO_REQUIRED"}
    <2>1. cases' = [cases EXCEPT ![evidence[u].journey] = [i \in DOMAIN @ |->
                       IF i \in waiting THEN Reopen(@[i], seen[i]) ELSE @[i]]]
      BY <1>3 DEF StoreEvidence
    <2>2. ASSUME NEW k \in JourneyIds
          PROVE  /\ DOMAIN cases'[k] = DOMAIN cases[k]
                 /\ \A i \in DOMAIN cases[k] :
                       \/ cases'[k][i] = cases[k][i]
                       \/ \E read : cases'[k][i] = Reopen(cases[k][i], read)
      <3> HIDE DEF waiting, seen
      <3> QED  BY <1>0, <2>1
    <2>3. ASSUME NEW k \in JourneyIds, NEW i \in DOMAIN cases[k]
          PROVE  \A read : Reopen(cases[k][i], read).status # "ADDITIONAL_INFO_REQUIRED"
      BY <1>0, CaseRowType DEF Reopen, Case
    <2> QED  BY <1>0, <2>2, <2>3
  <1>4. ASSUME NEW c \in Clients, ReopenAndCommit(c)
        PROVE  FALSE
    BY <1>0, <1>4 DEF ReopenAndCommit
  <1>5. ASSUME NEW c \in Clients,
               \/ BeginApply(c) \/ BeginClarify(c) \/ ReplayAfterWait(c) \/ RejectApply(c)
               \/ OpenApply(c) \/ Clarify(c) \/ RejectClarify(c) \/ CollideOnKey(c)
               \/ CollideOnNumber(c) \/ FinishApply(c) \/ Crash(c) \/ Return(c)
        PROVE  cases' = cases
    BY <1>5 DEF BeginApply, BeginClarify, ReplayAfterWait, RejectApply, OpenApply, Clarify,
       RejectClarify, CollideOnKey, CollideOnNumber, FinishApply, Crash, Return
  <1>6. ASSUME NEW u \in Uploads, AnalyseEvidence(u) \/ AbortEvidence(u)
        PROVE  cases' = cases
    BY <1>6 DEF AnalyseEvidence, AbortEvidence
  <1>7. ASSUME NEW j \in JourneyIds, CreateJourney(j) \/ AskCustomer(j)
        PROVE  cases' = cases
    BY <1>7 DEF CreateJourney, AskCustomer
  <1>8. UNCHANGED vars => cases' = cases
    BY DEF vars
  <1>9. cases' = cases => ~Waits(cases')
    BY <1>0
  <1>10. ~Waits(cases')
    BY <1>2, <1>3, <1>4, <1>5, <1>6, <1>7, <1>8, <1>9 DEF Next, CustomerNext, Serve, Finish
  <1>11. ASSUME NEW c \in Clients, pc'[c] \in {"open", "wrote"}
         PROVE  ~Reopens(c)'
    <2>1. CASE OpenApply(c)
      <3>1. PICK read \in ReadCase(request[c].journey, Question(request[c].input)) :
               \E snapshot : tx' = [tx EXCEPT ![c] = [snapshot |-> snapshot, case |-> read]]
        BY <2>1 DEF OpenApply
      <3>2. tx'[c].case = read
        BY <1>0, <3>1 DEF TypeOK
      <3>3. request[c].journey \in JourneyIds
        BY <1>0, <2>1, RequestContext DEF OpenApply, Granted
      <3>4. read.found = "open" => read.row.status # "ADDITIONAL_INFO_REQUIRED"
        BY <1>0, <3>3 DEF ReadCase, OpenCases
      <3> QED  BY <3>2, <3>4 DEF Reopens
    <2>2. CASE ~OpenApply(c)
      <3>1. pc[c] \in {"open", "wrote"} /\ tx'[c] = tx[c]
        BY <1>0, <1>11, <2>2, OpenedBefore DEF GoesOn
      <3> QED  BY <1>0, <3>1 DEF Reopens
    <2> QED  BY <2>1, <2>2
  <1> QED  BY <1>1, <1>10, <1>11 DEF Unasked

\* Where no reviewer asks customers for more, no action reopens a case, so that keys are
\* applied once and refusals are final.
THEOREM KeysWithoutReviewers ==
    ASSUME Reviewers = {}
    PROVE  Spec => []KeyAppliedOnce /\ RefusedWasNotExecuted
  <1>1. Init => Unasked
    <2>1. ASSUME Init
          PROVE  Unasked
      <3>1. ChainInvariant
        BY <2>1, ChainInit
      <3> QED  BY <2>1, <3>1 DEF Init, Unasked
    <2> QED  BY <2>1
  <1>2. Unasked /\ [Next]_vars => Unasked'
    BY UnaskedStep
  <1>3. Unasked /\ [Next]_vars => [NoEarlyCommit]_vars
    BY DEF Unasked, NoEarlyCommit, ReopenAndCommit
  <1>4. Spec => [][NoEarlyCommit]_vars
    BY <1>1, <1>2, <1>3, PTL DEF Spec
  <1> QED  BY <1>4, KeyIsAppliedOnce, RefusalIsFinal, PTL


===============================================================================
