------------------------------ MODULE Journeys ------------------------------
(***************************************************************************)
(* The customer side of the PaytmFlow backend: creating a journey, the     *)
(* single mutation path JourneyService.apply_action, answering an open     *)
(* question with submit_clarification, uploading evidence, and the review  *)
(* cases these operations open and reopen.                                 *)
(*                                                                         *)
(* Every request is a process with its own database transaction.  Several  *)
(* run at once; they meet at the journey row (SELECT ... FOR UPDATE), at   *)
(* the idempotency key and case number (unique), and at the case rows,     *)
(* which this side reads without locking.  What a transaction has not yet  *)
(* committed is private to it (tx), and a crash loses it.                  *)
(*                                                                         *)
(* PostgreSQL also takes a share lock (FOR KEY SHARE) on the journey row   *)
(* for each row inserted that refers to it: evidence, audit events, cases, *)
(* idempotency keys.  It waits for, and holds up, FOR UPDATE.              *)
(*                                                                         *)
(* A definition whose comment starts with "Mutant:" is a deliberately      *)
(* wrong form of the one after it; no specification uses it.               *)
(***************************************************************************)
EXTENDS Pack, Sequences, FiniteSetsExt

CONSTANTS
    JourneyIds, Clients, Keys, Uploads, DocTypes,
    Verdicts,         \* what the provider may say of a document, see Verdict
    Inputs,           \* the action requests clients make, see Input
    Answers,          \* the clarification answers clients give, see Answer
    EvidenceOptional, \* _evidence_less_actions_allowed()
    MaxVersion,       \* bound: only retries start on a journey this long
    Reviewers,
    NoReviewer, NoUpload, NoKey, NoOne, None

ASSUME JourneysAssumption ==
    /\ MaxVersion \in Nat \ {0}
    /\ EvidenceOptional \in BOOLEAN
    /\ NoReviewer \notin Reviewers
    /\ NoUpload \notin Uploads
    /\ NoKey \notin Keys
    /\ NoOne \notin Clients

VARIABLES
    snapshots,  \* journey -> its journey_snapshots rows; a row's id is its index
    journey,    \* journey -> its journeys row
    audit,      \* journey -> the audit events replay reads, in order
    outbox,     \* journey -> the n8n events queued by committed transactions
    records,    \* idempotency key -> its row, or None
    cases,      \* journey -> its review_cases rows, in creation order
    evidence,   \* upload -> the progress of POST /evidence and its row
    lock,       \* journey -> the client whose transaction holds its row FOR UPDATE
    rowLock,    \* case rows <<journey, index>> locked across several steps
    pc,         \* client -> where its request is
    request,    \* client -> the request it is making
    tx,         \* client -> the uncommitted writes of its transaction
    reply       \* client -> how its last request ended

journeyVars == <<snapshots, journey, audit>>
clientVars  == <<pc, request, tx, reply>>
vars == <<snapshots, journey, audit, outbox, records, cases, evidence,
          lock, rowLock, pc, request, tx, reply>>

-----------------------------------------------------------------------------
(* Rows and requests.                                                      *)

Version == Nat \ {0}

Snapshot == [ver : Version, prev : Nat, value : [Fields -> Value],
             status : [Fields -> Status], readiness : Readiness,
             pending : Ambiguities \cup {NoAmbiguity}]

JourneyStatus == {"IN_PROGRESS", "COMPLETED", "NEEDS_REVIEW"}
JourneyRow    == [current : Nat, readiness : Readiness, status : JourneyStatus]

CaseStatus == {"REVIEW_REQUIRED", "UNDER_REVIEW", "ADDITIONAL_INFO_REQUIRED",
               "RESOLVED", "ESCALATED", "CANCELLED"}

\* locked: review_lock_until lies in the future.
Case == [ambiguity : Ambiguities, attempt : Nat, number : Nat, status : CaseStatus,
         reviewer : Reviewers \cup {NoReviewer}, locked : BOOLEAN, version : Version,
         resolution : {"NONE", "EVIDENCE_SUFFICIENT", "OTHER"}]

Terminal == {"RESOLVED", "CANCELLED"}

\* key is the idempotency key of the request that wrote the event.
AuditEvent == [event : {"JOURNEY_CREATED", "ACTION_EXECUTED", "CLARIFICATION_ANSWERED"},
               what : Actions \cup Ambiguities \cup {None}, fields : SUBSET Fields,
               value : Value, key : Keys \cup {NoKey}]

\* upload: the evidence_id the input names.  ambiguity: its ambiguity_id.
\* typed: what the input (or a simulation default) gives the satisfied fields.
Input  == [action : Actions, upload : Uploads \cup {NoUpload},
           ambiguity : Ambiguities \cup {NoAmbiguity}, typed : Value, valid : BOOLEAN]
Answer == [ambiguity : Ambiguities, typed : {"false", "given"}, valid : BOOLEAN]

\* Whether a document is verified, and whether each field was read from it.
Verdict == [verified : BOOLEAN, complete : BOOLEAN]

ASSUME InputsAssumption ==
    Inputs \subseteq Input /\ Answers \subseteq Answer /\ Verdicts \subseteq Verdict

ApplyRequest   == [op : {"apply"}, key : Keys, journey : JourneyIds,
                   expected : Nat, input : Inputs]
ClarifyRequest == [op : {"clarify"}, journey : JourneyIds, expected : Nat, input : Answers]

IdempotencyRow == [request : ApplyRequest, ver : Version]

\* The repository's get returns None only for a key without a row.
ASSUME RecordAssumption == None \notin IdempotencyRow

-----------------------------------------------------------------------------
(* Reading the database.                                                   *)

Created(j) == snapshots[j] # <<>>

Current(j) == snapshots[j][journey[j].current]

\* get_latest_by_journey_id: ORDER BY version_number DESC LIMIT 1.
LatestId(j) == CHOOSE i \in DOMAIN snapshots[j] :
                  \A k \in DOMAIN snapshots[j] : snapshots[j][k].ver <= snapshots[j][i].ver

OpenCases(j, a) ==
    {i \in DOMAIN cases[j] : cases[j][i].ambiguity = a /\ cases[j][i].status \notin Terminal}

CaseNumbers == UNION {{cases[j][i].number : i \in DOMAIN cases[j]} : j \in JourneyIds}

Greatest(n, S) == n \in S /\ \A m \in S : m <= n

\* COALESCE(MAX(case_seq), 0) + 1 over every journey.
NextCaseNumber ==
    IF \E n \in CaseNumbers : Greatest(n, CaseNumbers)
    THEN 1 + CHOOSE n \in CaseNumbers : Greatest(n, CaseNumbers) ELSE 1

\* The evidence row an input refers to, as deterministic_check sees it.
NoEvidence == [at |-> "none", journey |-> None, doc |-> None, verified |-> FALSE,
               complete |-> FALSE, seen |-> <<>>]

NoRow == [given |-> FALSE]
EvidenceRow(in) == IF in.upload = NoUpload THEN NoRow
                   ELSE [given |-> TRUE, doc |-> evidence[in.upload].doc,
                         verified |-> evidence[in.upload].verified,
                         complete |-> evidence[in.upload].complete]

-----------------------------------------------------------------------------
(* New rows.                                                               *)

StatusFor(readiness) == CASE readiness = "READY"        -> "COMPLETED"
                          [] readiness = "NEEDS_REVIEW" -> "NEEDS_REVIEW"
                          [] OTHER                      -> "IN_PROGRESS"

\* SnapshotRepository.create after the fixpoint: the snapshot that writes v to
\* the fields written, on top of row i of journey j, with one open question.
Successor(j, i, written, v, question) ==
    LET base     == snapshots[j][i]
        value    == [f \in Fields |-> IF f \in written THEN v ELSE base.value[f]]
        explicit == [f \in Fields |-> IF f \notin written THEN base.status[f]
                                      ELSE IF AskedAbout(f, question) THEN "AMBIGUOUS"
                                      ELSE "SATISFIED"]
        status   == DeriveStatus(value, explicit, question)
    IN  [ver       |-> base.ver + 1,
         prev      |-> i,
         value     |-> DeriveValue(value),
         status    |-> status,
         readiness |-> ReadinessOf(DeriveValue(value), status),
         pending   |-> question]

\* Mutant: the status column gets the readiness.
RowForConfused(id, snapshot) == [current |-> id, readiness |-> snapshot.readiness,
                                 status |-> snapshot.readiness]

RowFor(id, snapshot) == [current |-> id, readiness |-> snapshot.readiness,
                         status |-> StatusFor(snapshot.readiness)]

\* Mutant: every write of a READY journey is announced.
CompletedEventsEachTime(j, snapshot) ==
    IF snapshot.readiness = "READY" THEN <<"JOURNEY_COMPLETED">> ELSE <<>>

\* JOURNEY_COMPLETED is queued on the edge into READY, judged by the journey row.
CompletedEvents(j, snapshot) ==
    IF journey[j].readiness # "READY" /\ snapshot.readiness = "READY"
    THEN <<"JOURNEY_COMPLETED">> ELSE <<>>

NewCase(j, a, number) ==
    [ambiguity |-> a,
     attempt   |-> 1 + Cardinality({i \in DOMAIN cases[j] : cases[j][i].ambiguity = a}),
     number    |-> number, status |-> "REVIEW_REQUIRED", reviewer |-> NoReviewer,
     locked    |-> FALSE, version |-> 1, resolution |-> "NONE"]

\* A case the customer came back to, written from the copy that was read.
Reopen(case, read) ==
    [case EXCEPT !.status  = IF read.reviewer # NoReviewer THEN "UNDER_REVIEW"
                             ELSE "REVIEW_REQUIRED",
                 !.version = read.version + 1]

-----------------------------------------------------------------------------
(* The initial state, and creating a journey.                              *)

Init ==
    /\ snapshots = [j \in JourneyIds |-> <<>>]
    /\ journey   = [j \in JourneyIds |-> [current |-> 0, readiness |-> "NOT_READY",
                                          status |-> "IN_PROGRESS"]]
    /\ audit     = [j \in JourneyIds |-> <<>>]
    /\ outbox    = [j \in JourneyIds |-> <<>>]
    /\ records   = [k \in Keys |-> None]
    /\ cases     = [j \in JourneyIds |-> <<>>]
    /\ evidence  = [u \in Uploads |-> NoEvidence]
    /\ lock      = [j \in JourneyIds |-> NoOne]
    /\ rowLock   = {}
    /\ pc        = [c \in Clients |-> "idle"]
    /\ request   = [c \in Clients |-> None]
    /\ tx        = [c \in Clients |-> None]
    /\ reply     = [c \in Clients |-> "none"]

InitialSnapshot ==
    LET status == DeriveStatus(InitialValue, InitialExplicit, NoAmbiguity)
        value  == DeriveValue(InitialValue)
    IN  [ver |-> 1, prev |-> 0, value |-> value, status |-> status,
         readiness |-> ReadinessOf(value, status), pending |-> NoAmbiguity]

\* One transaction writes the journey row, its first snapshot and the audit event.
CreateJourney(j) ==
    /\ ~Created(j)
    /\ snapshots' = [snapshots EXCEPT ![j] = <<InitialSnapshot>>]
    /\ journey'   = [journey EXCEPT ![j] = [current |-> 1, status |-> "IN_PROGRESS",
                                            readiness |-> InitialSnapshot.readiness]]
    /\ audit'     = [audit EXCEPT ![j] = <<[event |-> "JOURNEY_CREATED", what |-> None,
                                            fields |-> {}, value |-> "none", key |-> NoKey]>>]
    /\ UNCHANGED <<outbox, records, cases, evidence, lock, rowLock, clientVars>>

-----------------------------------------------------------------------------
(* POST /actions.  A request that ends puts its outcome in reply and waits *)
(* for the client to take it.                                              *)

Answered(c, outcome) ==
    /\ pc'    = [pc EXCEPT ![c] = "answered"]
    /\ reply' = [reply EXCEPT ![c] = outcome]
    /\ tx'    = [tx EXCEPT ![c] = None]

\* Mutant: any use of a known key gets the recorded answer.
ReplayAlways(key, req) == "ok"

\* Mutant: a retry is refused once the journey has moved on.
ReplayIfCurrent(key, req) ==
    IF records[key].request = req /\ journey[req.journey].current = records[key].ver
    THEN "ok" ELSE "refused"

\* _replay_idempotent_action: only the same journey and payload get the answer.
ReplayOutcome(key, req) == IF records[key].request = req THEN "ok" ELSE "refused"

\* The lookup made before the row lock is taken.
BeginApply(c) ==
    \E k \in Keys, j \in JourneyIds, in \in Inputs :
        /\ pc[c] = "idle"
        /\ Created(j)
        /\ Len(snapshots[j]) < MaxVersion \/ records[k] # None
        /\ \E expected \in DOMAIN snapshots[j] :
            LET req == [op |-> "apply", key |-> k, journey |-> j,
                        expected |-> expected, input |-> in]
            IN  /\ request' = [request EXCEPT ![c] = req]
                /\ IF records[k] # None
                   THEN Answered(c, ReplayOutcome(k, req))
                   ELSE pc' = [pc EXCEPT ![c] = "waiting"] /\ UNCHANGED <<tx, reply>>
        /\ UNCHANGED <<journeyVars, outbox, records, cases, evidence, lock, rowLock>>

\* An upload that inserted its evidence row and has not committed.
Uploading(j) == \E u \in Uploads : evidence[u].at = "handing" /\ evidence[u].journey = j

\* FOR UPDATE is granted when nobody holds the row, exclusively or shared.
Free(j) == lock[j] = NoOne /\ ~Uploading(j)

\* Mutant: the row is read without FOR UPDATE.
GrantedUnlocked(c, op) == pc[c] = "waiting" /\ request[c].op = op

Granted(c, op) ==
    /\ pc[c] = "waiting"
    /\ request[c].op = op
    /\ Free(request[c].journey)

\* The key was committed while the request waited for the lock.
ReplayAfterWait(c) ==
    /\ Granted(c, "apply")
    /\ records[request[c].key] # None
    /\ Answered(c, ReplayOutcome(request[c].key, request[c]))
    /\ UNCHANGED <<journeyVars, outbox, records, cases, evidence, lock, rowLock, request>>

\* What apply_action looks up and tests before deterministic_check: evidence is
\* there when the action needs it, and belongs to this journey.
EvidenceResolves(j, in) ==
    /\ in.action \in EvidenceActions /\ in.upload = NoUpload => EvidenceOptional
    /\ in.upload # NoUpload => /\ evidence[in.upload].at = "stored"
                               /\ evidence[in.upload].journey = j

\* Mutant: any snapshot of the journey will do.
UpToDateEver(req) == req.expected \in DOMAIN snapshots[req.journey]

UpToDate(req) == req.expected = journey[req.journey].current

\* The check sees the previous fields derived afresh, without any open question.
Checked(req) ==
    LET j   == req.journey
        now == Current(j)
    IN  /\ EvidenceResolves(j, req.input)
        /\ UpToDate(req)
        /\ DeterministicCheck(DeriveStatus(now.value, now.status, NoAmbiguity),
                              req.input.action, EvidenceRow(req.input), req.input.valid)
        /\ req.input.ambiguity # NoAmbiguity => req.input.upload = NoUpload
        /\ LatestId(j) = journey[j].current

\* A refused request leaves at most an ACTION_REJECTED audit event.
RejectApply(c) ==
    /\ Granted(c, "apply")
    /\ records[request[c].key] = None
    /\ ~Checked(request[c])
    /\ Answered(c, "refused")
    /\ UNCHANGED <<journeyVars, outbox, records, cases, evidence, lock, rowLock, request>>

\* An ambiguity_id counts only when its rule is about a field this action writes.
Question(in) == IF /\ in.ambiguity # NoAmbiguity
                   /\ AmbiguityField[in.ambiguity] \in Satisfies[in.action]
                THEN in.ambiguity ELSE NoAmbiguity

\* Mutant: a case of the question, decided or not, is enough.
ReadCaseOnce(j, question) ==
    IF question = NoAmbiguity THEN {[found |-> "none"]}
    ELSE IF ~\E i \in DOMAIN cases[j] : cases[j][i].ambiguity = question
         THEN {[found |-> "new", number |-> NextCaseNumber]}
    ELSE {[found |-> "open", index |-> i, row |-> cases[j][i]] :
              i \in {h \in DOMAIN cases[j] : cases[j][h].ambiguity = question}}

\* Mutant: the open case is not looked for.
ReadCaseAlwaysNew(j, question) ==
    IF question = NoAmbiguity THEN {[found |-> "none"]}
    ELSE {[found |-> "new", number |-> NextCaseNumber]}

\* What create_or_get_open_case reads, without locking the case rows.
ReadCase(j, question) ==
    IF question = NoAmbiguity THEN {[found |-> "none"]}
    ELSE IF OpenCases(j, question) = {} THEN {[found |-> "new", number |-> NextCaseNumber]}
    ELSE {[found |-> "open", index |-> i, row |-> cases[j][i]] : i \in OpenCases(j, question)}

\* The check passes: the transaction computes its writes, holding the journey row.
OpenApply(c) ==
    LET req == request[c]
        j   == req.journey
        in  == req.input
    IN  /\ Granted(c, "apply")
        /\ records[req.key] = None
        /\ Checked(req)
        /\ \E read \in ReadCase(j, Question(in)) :
              tx' = [tx EXCEPT ![c] =
                        [snapshot |-> Successor(j, journey[j].current, Satisfies[in.action],
                                                NewValue(in.action, EvidenceRow(in), in.typed),
                                                Question(in)),
                         case |-> read]]
        /\ lock' = [lock EXCEPT ![j] = c]
        /\ pc'   = [pc EXCEPT ![c] = "open"]
        /\ UNCHANGED <<journeyVars, outbox, records, cases, evidence, rowLock, request, reply>>

-----------------------------------------------------------------------------
(* The end of apply_action.                                                *)

\* Mutant: whatever the open case waits for, it goes back to the reviewers.
ReopensAny(c) == tx[c].case.found = "open"

\* The case that was read was waiting for the customer.
Reopens(c) == /\ tx[c].case.found = "open"
              /\ tx[c].case.row.status = "ADDITIONAL_INFO_REQUIRED"

\* Another transaction took the case number this one computed: IntegrityError.
NumberTaken(c) ==
    /\ tx[c].case.found = "new"
    /\ \E j \in JourneyIds : \E i \in DOMAIN cases[j] :
          cases[j][i].number = tx[c].case.number

\* Mutant: the key is unique within a journey only.
KeyTakenHere(c) ==
    records[request[c].key] # None /\ records[request[c].key].request.journey = request[c].journey

\* The idempotency key is the primary key of its table.
KeyTaken(c) == records[request[c].key] # None

\* Mutant: the trail records only the writes that change the readiness.
WriteMutationQuietly(j, snapshot, event) ==
    /\ snapshots' = [snapshots EXCEPT ![j] = Append(@, snapshot)]
    /\ journey'   = [journey EXCEPT ![j] = RowFor(Len(snapshots[j]) + 1, snapshot)]
    /\ audit'     = IF snapshot.readiness = journey[j].readiness THEN audit
                    ELSE [audit EXCEPT ![j] = Append(@, event)]

\* The snapshot, the journey row and the audit event of one mutation.
WriteMutation(j, snapshot, event) ==
    /\ snapshots' = [snapshots EXCEPT ![j] = Append(@, snapshot)]
    /\ journey'   = [journey EXCEPT ![j] = RowFor(Len(snapshots[j]) + 1, snapshot)]
    /\ audit'     = [audit EXCEPT ![j] = Append(@, event)]

ActionExecuted(req) ==
    [event |-> "ACTION_EXECUTED", what |-> req.input.action,
     fields |-> Satisfies[req.input.action],
     value |-> NewValue(req.input.action, EvidenceRow(req.input), req.input.typed),
     key |-> req.key]

Record(c) == records' = [records EXCEPT ![request[c].key] =
                            [request |-> request[c], ver |-> tx[c].snapshot.ver]]

Unlock(j) == lock' = [lock EXCEPT ![j] = NoOne]

CommitApply(c) ==
    LET req == request[c]
        j   == req.journey
    IN  /\ pc[c] = "open"
        /\ ~Reopens(c) /\ ~NumberTaken(c) /\ ~KeyTaken(c)
        /\ WriteMutation(j, tx[c].snapshot, ActionExecuted(req))
        /\ cases'  = IF tx[c].case.found = "new"
                     THEN [cases EXCEPT ![j] = Append(@, NewCase(j, tx[c].snapshot.pending,
                                                                 tx[c].case.number))]
                     ELSE cases
        /\ outbox' = [outbox EXCEPT ![j] = @ \o CompletedEvents(j, tx[c].snapshot)
                         \o IF tx[c].case.found = "new" THEN <<"REVIEW_REQUIRED">> ELSE <<>>]
        /\ Record(c)
        /\ Unlock(j)
        /\ Answered(c, "ok")
        /\ UNCHANGED <<evidence, rowLock, request>>

\* A request on another journey committed the same key first: roll back and replay.
CollideOnKey(c) ==
    /\ pc[c] = "open"
    /\ ~Reopens(c) /\ ~NumberTaken(c) /\ KeyTaken(c)
    /\ Unlock(request[c].journey)
    /\ Answered(c, ReplayOutcome(request[c].key, request[c]))
    /\ UNCHANGED <<journeyVars, outbox, records, cases, evidence, rowLock, request>>

\* The insert of the case fails outside any handler: the request ends in an error.
CollideOnNumber(c) ==
    /\ pc[c] = "open"
    /\ NumberTaken(c)
    /\ Unlock(request[c].journey)
    /\ Answered(c, "error")
    /\ UNCHANGED <<journeyVars, outbox, records, cases, evidence, rowLock, request>>

\* create_or_get_open_case reopens the case and commits, which ends apply_action's
\* transaction early: everything so far is durable, the row lock is gone, and the
\* idempotency record is still to be written.
ReopenAndCommit(c) ==
    LET j == request[c].journey
        i == tx[c].case.index
    IN  /\ pc[c] = "open"
        /\ Reopens(c)
        /\ <<j, i>> \notin rowLock
        /\ WriteMutation(j, tx[c].snapshot, ActionExecuted(request[c]))
        /\ cases'  = [cases EXCEPT ![j][i] = Reopen(@, tx[c].case.row)]
        /\ outbox' = [outbox EXCEPT ![j] = @ \o CompletedEvents(j, tx[c].snapshot)]
        /\ Unlock(j)
        /\ pc' = [pc EXCEPT ![c] = "wrote"]
        /\ UNCHANGED <<records, evidence, rowLock, request, tx, reply>>

FinishApply(c) ==
    /\ pc[c] = "wrote"
    /\ lock[request[c].journey] = NoOne
    /\ \/ ~KeyTaken(c) /\ Record(c) /\ Answered(c, "ok")
       \/ /\ KeyTaken(c) /\ UNCHANGED records
          /\ Answered(c, ReplayOutcome(request[c].key, request[c]))
    /\ UNCHANGED <<journeyVars, outbox, cases, evidence, lock, rowLock, request>>

-----------------------------------------------------------------------------
(* POST /clarifications.                                                   *)

\* The stale test made before the row lock is taken.
BeginClarify(c) ==
    \E j \in JourneyIds, in \in Answers :
        /\ pc[c] = "idle"
        /\ Created(j)
        /\ Len(snapshots[j]) < MaxVersion
        /\ \E expected \in DOMAIN snapshots[j] :
            /\ request' = [request EXCEPT ![c] = [op |-> "clarify", journey |-> j,
                                                  expected |-> expected, input |-> in]]
            /\ IF journey[j].current # expected
               THEN Answered(c, "refused")
               ELSE pc' = [pc EXCEPT ![c] = "waiting"] /\ UNCHANGED <<tx, reply>>
        /\ UNCHANGED <<journeyVars, outbox, records, cases, evidence, lock, rowLock>>

\* The journey has not moved, and the question is open on its current snapshot.
Answerable(j, expected, ambiguity, valid) ==
    /\ journey[j].current = expected
    /\ Current(j).pending = ambiguity
    /\ valid
    /\ LatestId(j) = expected

\* Another rule whose field is AMBIGUOUS now is asked next.
NextQuestion(j, ambiguity) ==
    LET others == {b \in Ambiguities \ {ambiguity} :
                      /\ AmbiguityField[b] # AmbiguityField[ambiguity]
                      /\ Current(j).status[AmbiguityField[b]] = "AMBIGUOUS"}
    IN  IF others = {} THEN NoAmbiguity ELSE CHOOSE b \in others : TRUE

Clarified(j, ambiguity, v) ==
    LET next     == NextQuestion(j, ambiguity)
        snapshot == Successor(j, journey[j].current, {AmbiguityField[ambiguity]}, v, next)
    IN  IF next = NoAmbiguity THEN snapshot
        ELSE [snapshot EXCEPT !.readiness = "NEEDS_REVIEW"]

\* submit_clarification once it holds the journey row: one transaction.
WriteAnswer(j, ambiguity, v) ==
    /\ WriteMutation(j, Clarified(j, ambiguity, v),
                     [event |-> "CLARIFICATION_ANSWERED", what |-> ambiguity,
                      fields |-> {AmbiguityField[ambiguity]}, value |-> v, key |-> NoKey])
    /\ outbox' = [outbox EXCEPT ![j] = @ \o CompletedEvents(j, Clarified(j, ambiguity, v))]

Clarify(c) ==
    LET req == request[c]
    IN  /\ Granted(c, "clarify")
        /\ Answerable(req.journey, req.expected, req.input.ambiguity, req.input.valid)
        /\ WriteAnswer(req.journey, req.input.ambiguity, req.input.typed)
        /\ Answered(c, "ok")
        /\ UNCHANGED <<records, cases, evidence, lock, rowLock, request>>

RejectClarify(c) ==
    LET req == request[c]
    IN  /\ Granted(c, "clarify")
        /\ ~Answerable(req.journey, req.expected, req.input.ambiguity, req.input.valid)
        /\ Answered(c, "refused")
        /\ UNCHANGED <<journeyVars, outbox, records, cases, evidence, lock, rowLock, request>>

-----------------------------------------------------------------------------
(* POST /evidence.  A stale submission is refused before anything is read   *)
(* and changes nothing, so only the others are modelled; the provider's    *)
(* verdict is any of Verdicts.                                             *)

\* The evidence row is inserted, and then the cases are listed.
AnalyseEvidence(u) ==
    \E j \in JourneyIds, d \in DocTypes, v \in Verdicts :
        /\ evidence[u].at = "none"
        /\ Created(j) /\ lock[j] = NoOne
        /\ evidence' = [evidence EXCEPT ![u] = [at |-> "handing", journey |-> j, doc |-> d,
                            verified |-> v.verified, complete |-> v.complete,
                            seen |-> cases[j]]]
        /\ UNCHANGED <<journeyVars, outbox, records, cases, lock, rowLock, clientVars>>

\* The evidence row, the event and the case updates commit together; each waiting
\* case is written from the copy read when the list was loaded.
StoreEvidence(u) ==
    LET j       == evidence[u].journey
        seen    == evidence[u].seen
        waiting == {i \in DOMAIN seen : seen[i].status = "ADDITIONAL_INFO_REQUIRED"}
    IN  /\ evidence[u].at = "handing"
        /\ \A i \in waiting : <<j, i>> \notin rowLock
        /\ cases'    = [cases EXCEPT ![j] = [i \in DOMAIN @ |->
                           IF i \in waiting THEN Reopen(@[i], seen[i]) ELSE @[i]]]
        /\ outbox'   = [outbox EXCEPT ![j] = Append(@, "EVIDENCE_UPLOADED")]
        /\ evidence' = [evidence EXCEPT ![u].at = "stored", ![u].seen = <<>>]
        /\ UNCHANGED <<journeyVars, records, lock, rowLock, clientVars>>

\* The process dies, or the client gives up, before the commit.
AbortEvidence(u) ==
    /\ evidence[u].at = "handing"
    /\ evidence' = [evidence EXCEPT ![u] = NoEvidence]
    /\ UNCHANGED <<journeyVars, outbox, records, cases, lock, rowLock, clientVars>>

-----------------------------------------------------------------------------
(* The process serving a request dies: its open transaction is rolled back.*)

Crash(c) ==
    /\ pc[c] \in {"waiting", "open", "wrote"}
    /\ lock' = [j \in JourneyIds |-> IF lock[j] = c THEN NoOne ELSE lock[j]]
    /\ Answered(c, "lost")
    /\ UNCHANGED <<journeyVars, outbox, records, cases, evidence, rowLock, request>>

\* The client takes the reply and may make another request, a retry included.
Return(c) ==
    /\ pc[c] = "answered"
    /\ pc'      = [pc EXCEPT ![c] = "idle"]
    /\ request' = [request EXCEPT ![c] = None]
    /\ reply'   = [reply EXCEPT ![c] = "none"]
    /\ UNCHANGED <<journeyVars, outbox, records, cases, evidence, lock, rowLock, tx>>

Serve(c)  == \/ ReplayAfterWait(c) \/ RejectApply(c) \/ OpenApply(c)
             \/ Clarify(c) \/ RejectClarify(c)

Finish(c) == \/ CommitApply(c) \/ CollideOnKey(c) \/ CollideOnNumber(c)
             \/ ReopenAndCommit(c) \/ FinishApply(c)

CustomerNext ==
    \/ \E j \in JourneyIds : CreateJourney(j)
    \/ \E c \in Clients : \/ BeginApply(c) \/ BeginClarify(c)
                          \/ Serve(c) \/ Finish(c)
                          \/ Crash(c) \/ Return(c)
    \/ \E u \in Uploads : AnalyseEvidence(u) \/ StoreEvidence(u) \/ AbortEvidence(u)

Asked(case, r) == [case EXCEPT !.status = "ADDITIONAL_INFO_REQUIRED", !.reviewer = r,
                               !.locked = TRUE, !.version = @ + 2]

\* What a reviewer does as this side sees it: claim a case and, in a second request,
\* ask the customer for more.  ReviewCenter has the reviewers' operations one by one.
AskCustomer(j) ==
    \E i \in DOMAIN cases[j], r \in Reviewers :
        /\ cases[j][i].status = "REVIEW_REQUIRED"
        /\ <<j, i>> \notin rowLock /\ lock[j] = NoOne
        /\ cases'  = [cases EXCEPT ![j][i] = Asked(@, r)]
        /\ outbox' = [outbox EXCEPT ![j] = Append(@, "CUSTOMER_ACTION_REQUIRED")]
        /\ UNCHANGED <<journeyVars, records, evidence, lock, rowLock, clientVars>>

Next == CustomerNext \/ \E j \in JourneyIds : AskCustomer(j)

Spec == Init /\ [][Next]_vars

-----------------------------------------------------------------------------
(* Properties.                                                             *)

Request == ApplyRequest \cup ClarifyRequest

CaseRead == [found : {"none"}] \cup [found : {"new"}, number : Nat]
            \cup [found : {"open"}, index : Version, row : Case]

Writes == [snapshot : Snapshot, case : CaseRead]

EvidenceState == [at : {"none", "handing", "stored"}, journey : JourneyIds \cup {None},
                  doc : DocTypes \cup {None}, verified : BOOLEAN, complete : BOOLEAN,
                  seen : Seq(Case)]

EventType == {"JOURNEY_COMPLETED", "REVIEW_REQUIRED", "EVIDENCE_UPLOADED",
              "CUSTOMER_ACTION_REQUIRED", "ESCALATED", "JOURNEY_RESOLVED"}

\* Every row and every request has the shape the code gives it.
TypeOK ==
    /\ snapshots \in [JourneyIds -> Seq(Snapshot)]
    /\ journey \in [JourneyIds -> JourneyRow]
    /\ audit \in [JourneyIds -> Seq(AuditEvent)]
    /\ outbox \in [JourneyIds -> Seq(EventType)]
    /\ records \in [Keys -> IdempotencyRow \cup {None}]
    /\ cases \in [JourneyIds -> Seq(Case)]
    /\ evidence \in [Uploads -> EvidenceState]
    /\ lock \in [JourneyIds -> Clients \cup {NoOne}]
    /\ rowLock \in SUBSET (JourneyIds \X Version)
    /\ pc \in [Clients -> {"idle", "waiting", "open", "wrote", "answered"}]
    /\ request \in [Clients -> Request \cup {None}]
    /\ tx \in [Clients -> Writes \cup {None}]
    /\ reply \in [Clients -> {"none", "ok", "refused", "error", "lost"}]

\* Versions run 1, 2, 3, ... and each snapshot follows the one before it, so the
\* history never forks; the journey row names the newest one.  Two transactions on
\* one journey would break this without the row lock.
ChainIsLinear ==
    \A j \in JourneyIds :
        /\ \A i \in DOMAIN snapshots[j] :
              snapshots[j][i].ver = i /\ snapshots[j][i].prev = i - 1
        /\ journey[j].current = Len(snapshots[j])

\* While a checked action waits to commit, the snapshot its client expected is still
\* the newest one, and the client owns the row lock: no action lands on a state its
\* client did not see.
ExpectedStaysCurrent ==
    \A c \in Clients : pc[c] = "open" =>
        /\ lock[request[c].journey] = c
        /\ request[c].expected = Len(snapshots[request[c].journey])
        /\ tx[c].snapshot.prev = request[c].expected

\* The value the audit trail gives a field: what the last event that wrote it wrote.
Replayed(j, f) ==
    LET writes == {i \in DOMAIN audit[j] : f \in audit[j][i].fields}
    IN  IF writes = {} THEN InitialValue[f] ELSE audit[j][Max(writes)].value

\* The append-only audit trail has one event per version and accounts for every value
\* the customer's current state shows; the journey row shows that state's verdict.  A
\* write without its event, or an event of a write that was rolled back, breaks it.
AuditAccountsForState ==
    \A j \in JourneyIds : Created(j) =>
        /\ Len(audit[j]) = Len(snapshots[j])
        /\ Current(j).value = DeriveValue([f \in Fields |-> Replayed(j, f)])
        /\ journey[j].readiness = Current(j).readiness

EventsOf(key) == UNION {{<<j, n>> : n \in {i \in DOMAIN audit[j] : audit[j][i].key = key}}
                          : j \in JourneyIds}

\* However often a key is sent, and to however many journeys at once, at most one
\* action is executed under it.
KeyAppliedOnce == \A k \in Keys : Cardinality(EventsOf(k)) <= 1

\* A client told that its action succeeded (by the run itself or by a replay) can rely
\* on it: the record is there for this very request and names the version it wrote.
AcknowledgedIsDurable ==
    \A c \in Clients :
        pc[c] = "answered" /\ reply[c] = "ok" /\ request[c].op = "apply" =>
            LET record == records[request[c].key]
            IN  /\ record # None
                /\ record.request = request[c]
                /\ <<request[c].journey, record.ver>> \in EventsOf(request[c].key)

\* A client told that its action failed can rely on that too: when a request is refused,
\* no action has been executed for it, unless its key records a different request.
RefusedWasNotExecuted ==
    [][\A c \in Clients :
         /\ pc[c] # "answered" /\ pc'[c] = "answered" /\ reply'[c] = "refused"
         /\ request'[c].op = "apply"
         => LET req == request'[c]
            IN  <<req.journey, req.expected + 1>> \in EventsOf(req.key) =>
                    records[req.key] # None /\ records[req.key].request # req]_vars

\* What a running request knows: it expects a snapshot of its journey, and an action
\* past its check writes the version after that one, with a question if it has a case.
RequestsAreGrounded ==
    \A c \in Clients :
        /\ pc[c] \in {"waiting", "open", "wrote"} =>
              /\ request[c] \in Request
              /\ request[c].expected \in DOMAIN snapshots[request[c].journey]
        /\ pc[c] \in {"open", "wrote"} =>
              /\ request[c].op = "apply"
              /\ tx[c] \in Writes
              /\ tx[c].snapshot.ver = request[c].expected + 1
              /\ tx[c].case.found # "none" => tx[c].snapshot.pending # NoAmbiguity

\* The inductive invariant behind ChainIsLinear.
ChainInvariant == TypeOK /\ ChainIsLinear /\ ExpectedStaysCurrent /\ RequestsAreGrounded

\* The customer hears that the journey is complete once per transition into READY:
\* never twice for one, and never for a write that was rolled back.
CompletedOncePerReady ==
    \A j \in JourneyIds :
        Cardinality({n \in DOMAIN outbox[j] : outbox[j][n] = "JOURNEY_COMPLETED"}) =
        Cardinality({i \in DOMAIN snapshots[j] \ {1} :
                        /\ snapshots[j][i].readiness = "READY"
                        /\ snapshots[j][i - 1].readiness # "READY"})

Earned(j, f) == \/ ~Applicable(f) \/ f \in DefaultFields
                \/ \E i \in DOMAIN audit[j] : f \in audit[j][i].fields

\* A journey is READY only when each mandatory field, and each field it depends on, was
\* a default or was written by some executed action or answer.
ReadyIsEarned ==
    \A j \in JourneyIds : Created(j) /\ Current(j).readiness = "READY" =>
        \A f \in MandatoryFields :
            Applicable(f) => Earned(j, f) /\ \A p \in Prerequisites(f) : Earned(j, p)

\* One conflict never yields two cases that reviewers could decide differently.
OneOpenCasePerQuestion ==
    \A j \in JourneyIds, a \in Ambiguities : Cardinality(OpenCases(j, a)) <= 1

\* Every request that was started ends: no client waits for a lock forever.
RequestsEnd ==
    \A c \in Clients : pc[c] \in {"waiting", "open", "wrote"} ~> pc[c] = "answered"

=============================================================================
