# A verification project for the PaytmFlow backend

PaytmFlow guides a customer through a financial journey (lending, KYC,
insurance, ...). A pure rule engine decides what is settled; every change goes
through one mutation path with a row lock, an expected snapshot and an
idempotency key; conflicts go to human reviewers; and an n8n workflow is told
what happened. Around that core a planner recommends the next action, documents
are read by one of several AI engines, and every request passes a session, a
rate limit and a role check. This directory models all of this in TLA+, checks
it with TLC and proves the most important facts about it with TLAPS.

Paths below are relative to `backend/app/` unless they start otherwise.

## 1. Inventory

| Component | State it keeps | Operations | Hard about it | What makes it correct |
|---|---|---|---|---|
| Rule engine (`core/rules.py`, `readiness.py`, `dependencies.py`, `deterministic_check.py`) | none | field fixpoint, readiness verdict, check of an action | order of the rules; what counts as supplied | READY is earned; no action without its preconditions and evidence |
| Journey service (`services/journey_service.py`, repositories, `audit/writer.py`) | journeys, immutable snapshots, audit events | create, apply an action, answer a question; reads | concurrent requests, stale clients, several writes per request | one unforked history; the audit trail accounts for it; completion announced once per edge |
| Idempotency (`db/repositories/idempotency.py`) | key -> request hash and answer | look up, record, replay | duplicates in flight, on one journey or two; crash before the record | a key is executed at most once; an answer given can be relied on |
| Human Review Center (`core/review.py`, `services/review_service.py`) | review cases with a version and a 15 minute lock | open, reopen, claim, ask, escalate, resolve | stale pages, two reviewers, resolution in two transactions, lock order | the state machine; one open case per question; a resolution is what it says |
| Evidence (`evidence/`, `api/v1/evidence.py`) | evidence rows, files, waiting cases | submit | long AI call between read and write; cases read without a lock | only verified documents count; an upload is answered; the row says who judged it |
| AI providers, guardrails (`ai/`) | none; jobs at Sarvam | interpret a document, choose an action, chat | timeouts that cancel, one retry, a fallback to another engine | advisory only; bounded; never a wrong label |
| Document AI (`docai/`) | none | read, classify, extract, compare | several tolerances and thresholds, templates | verified means consistent and confident |
| n8n outbox (`integrations/n8n_client.py`) | outbox rows with lease, attempts, status | queue, flush, sweep, record, requeue, purge | crashes, lost answers, leases that run out, retention | a settled event stays settled; nothing is tried for ever or forgotten |
| n8n receipts (`integrations/n8n_receipts.py`) | a receipt per event | claim, complete, release, purge | duplicate and overlapping deliveries | never notify twice |
| Planner, diff, simulation (`core/planner.py`, `diff.py`, `simulate.py`) | none | recommend, compare, preview | missing or cyclic paths; four readers that derive the state each in its own way | a plan can be executed and leads to READY; what is predicted happens |
| Audit replay (`audit/replay.py`) | none | rebuild a journey from its events | it repeats the engine's rules | replay equals the snapshot |
| Packs (`packs/`) | manifests | load, validate | cycles, unreachable fields | the validator refuses what the engine cannot handle |
| Sessions, reviewer role, rate limiting (`security/`) | session rows with a JSON column, buckets in memory | authorise, grant a role, count | rows read early and written whole; eviction; window edges; a rotated code | only who showed the code is a reviewer; limits hold; Retry-After is true |
| API, configuration, demo, evaluation | settings | parse, wire, reset, measure | little | - |
| Web client (`frontend/`) | caches, pages | show, submit, retry | stale pages, repeated submissions | the server decides |

How they interact: an endpoint opens a database session and calls one service;
the service reads and writes through repositories, and queues n8n events in the
same transaction. After its commit the request tries to send them (the flush);
a background task sends what is left (the sweeper). Services call each other
directly: `apply_action` opens or reopens a review case, and resolving a case
with EVIDENCE_SUFFICIENT answers the customer's question through
`submit_clarification`. Requests meet only in PostgreSQL: at the journey row
(`SELECT ... FOR UPDATE`), at case rows, at unique keys and at outbox leases.
The n8n workflow calls back to claim, complete or release a receipt. An upload
calls the AI provider in the middle of its transaction, behind a guardrail that
bounds the time; its stored row is what an EVIDENCE action later draws on.

`PROJECT.json` lists the hazards of this code, each at its line with the
properties that cover it.

## 2. Modules

| Module | Models | Composed with |
|---|---|---|
| `Pack` | a manifest under one goal, and the rule engine over it | - |
| `Manifest` | the rest of a manifest, and `packs/validator.py` over it | extends `Pack` |
| `Planner` | plan, recommendation, views, diff and simulation, as functions of a snapshot | extends `Manifest` |
| `Advice` | one journey driven by a customer who follows or ignores the advice; the audit replay | instantiates `Planner` per pack |
| `Advice_proofs` | theorems: replay, simulation, diff, offered actions, recommendations, plans | extends `Advice` |
| `Journeys` | the customer's requests, as processes with transactions | extends `Pack` |
| `Journeys_proofs` | theorems: types, linear history, no action on an unseen state | extends `Journeys` |
| `Trail_proofs` | theorems: audit trail, completion, READY, one open case per question | extends `Journeys_proofs` |
| `Keys_proofs` | theorems: idempotency keys | extends `Trail_proofs` |
| `ReviewCenter` | reviewers' pages and requests | extends `Journeys`: both act on the same journeys and cases |
| `Review_proofs` | theorems about `ReviewCenter` | extends `ReviewCenter` and `Keys_proofs` |
| `Documents` | what an engine makes of one document | - |
| `Uploads` | concurrent uploads, the guardrail, Sarvam's jobs, the evidence table, the actions that use it | extends `Documents` |
| `Uploads_proofs` | theorems about `Uploads` and the engines of `Documents` | extends `Uploads` |
| `FrontDoor` | sessions, roles, rate limits | - |
| `FrontDoor_proofs` | theorems about `FrontDoor` | extends `FrontDoor` |
| `Notification` | the abstract promise of the outbox | - |
| `Outbox` | outbox rows, dispatchers, retention, receipts, the workflow | implements `Notification` |
| `Outbox_proofs` | theorems about `Outbox`, the refinement among them | extends `Outbox` |
| `MCJourneys`, `MCReview`, `MCOutbox`, `MCAdvice`, `MCUploads`, `MCFront` | small instances | the systems of those names |

### State and actions against the code

**Pack.** A field's value is `"none"` (None), `"false"` (a stored False, which
the engine does not count as supplied) or `"given"`. A goal is fixed with the
manifest, so a conditional dependency is just met or unmet. `Settled` and
`DeriveStatus` are the loop of `derive_field_states` as a function over the
acyclic graph; `ReadinessOf` tries the verdicts in the order of
`evaluate_readiness`; `DeterministicCheck` is what `deterministic_check` tests
after its stale test, and `NewValue` is the value its token carries. Dead ends
are pairs of a field and a value; dead ends over the goal alone are left out,
being constant for a journey.

**Journeys.** `snapshots`, `journey`, `audit`, `records`, `cases`, `evidence`
and `outbox` are the tables; a row's id is its index, and `outbox` keeps only
the types of the events that were committed. `lock` and `rowLock` are the row
locks. `pc`, `request`, `tx` and `reply` are the client's request, the writes
its transaction has not committed, and its answer.

- `apply_action` is `BeginApply` (the key lookup before the lock), then under
  the lock `ReplayAfterWait`, `RejectApply` or `OpenApply` (everything from the
  check to the flush of the case lookup), then one of `CommitApply`,
  `CollideOnKey`, `CollideOnNumber`, or, when an open case is reopened,
  `ReopenAndCommit` followed by `FinishApply`. The last pair exists because
  `create_or_get_open_case` commits in the middle of `apply_action`.
- `submit_clarification` is `BeginClarify` (stale test before the lock), then
  `Clarify` or `RejectClarify`.
- `submit_evidence` is `AnalyseEvidence` (insert, then list the cases),
  `StoreEvidence` (write them back and commit) or `AbortEvidence`.
- `Crash` loses what is uncommitted; `Return` lets the client go on, and
  nothing stops it from sending the same request again.
- `AskCustomer` stands for the reviewers when `Journeys` is checked alone: a
  case is claimed and the customer asked, so that a second conflict reopens it.
  `ReviewCenter` composes `CustomerNext` with the reviewers' own operations
  instead.

An insert that refers to the journey takes a share lock on its row (`FOR KEY
SHARE`), which waits for `FOR UPDATE` and holds it up: hence `Uploading`, and
the guards on `lock` in `AnalyseEvidence` and `FinishApply`.

**ReviewCenter.** A desk is one page of one reviewer; it remembers the case
version it shows. `ClaimCase`, `RequestInformation`,
`EscalateCase` and `ResolveOther` are single transactions. Resolving with
EVIDENCE_SUFFICIENT is `BeginSufficient` (lock and check the case),
`AnswerForCase` or `RejectAnswer` (`submit_clarification`, whose commit also
releases the case row), and `FinishSufficient` (save the case from the old
copy). `BreakDeadlock` is PostgreSQL's answer to a customer who holds the
journey row and wants the case row while a desk holds the case row and wants
the journey row, and `BreakUploadDeadlock` the same with an upload, whose evidence
row shares the lock on the journey, in place of the customer. Other lock cycles involve a transaction that is one action
here; PostgreSQL aborting it looks like the action not having happened, or like
`Crash`, `AbortEvidence` or `CrashDesk`.

**Outbox.** `row` is the n8n_outbox table, `dispatch` what each flush or
sweeper is doing, `receipt` the n8n_receipts table, `delivery` the running
executions of the workflow, `purge` the step of the sweeper loop's cleanup.
A process dispatches one event at a time, so its name stands for the lease
token. Time is reduced to what the code compares with now: a lease is in the
future or not, a row or receipt is past the cutoff or not. Retention is at
least a day, so nothing that runs spans a cutoff (`Quiescent`), and an event is
older than its receipt. `next_attempt_at` is the time that may pass before a
claim. `Post` starts within the lease only, but the answer may come after it.
The workflow is not in the repository; its steps follow the endpoints it calls
and the stand-in in `backend/tests/integration/test_n8n_receipts.py`.

**Manifest, Planner, Advice.** `Manifest` adds to `Pack` what only the
validator and the planner read: the order of actions and fields, groups and
their primary actions, evidence mappings. `Violations` is the set of codes
`validate_manifest` reports. `Planner` keeps the differences between the
readers, which is where they can disagree: `plan`, the views, `compute_diff`
and `simulate` derive the fields again, with or without the open question and
the stored statuses. `Plan` follows `core/planner.py` with its tie-breaks;
`Recommendable` is the set the AI may choose from, since the guardrail accepts
any candidate; `PathLength` is `minimum_path_length`. `Advice` executes actions
and answers, keeps the audit trail's values as `replay_journey` folds them
(`replayed`), and compares. An initial state is one per pack that the
validator accepts.

**Documents.** A text is a record of what the engines measure and find in it
(words, OCR confidence, the classifier's first class, marker scores, figures,
names), so that regular expressions and trained models are data and every
decision on them is a definition: `ReadFile` is the order text layer,
Tesseract, template; `Classify` and `Refine` the outcome with its markers;
`FactConflicts`, `SlipConflicts` and `ValueConflicts` the consistency checks
with their tolerances; `Confidence` the calibration in hundredths of a percent.
`LocalVerdict`, `MockVerdict` and `SarvamVerdict` are the three engines. They
differ in the code, and so do they here: Sarvam tolerates 15 percent, compares
no names and leaves no facts; MockAI supplies a value where it finds none.

**Uploads.** An upload is `Submit` (the early returns, and everything read
before the AI call), then either `Interpret` (an engine that computes without
waiting) or a job at Sarvam, `CreateJob`, `PollRunning`, `PollFinished`,
`Download`, any of which may end in `SarvamFails` (the provider's handlers, and
the local engine in its place) or be cut off by `TimeOut` (the guardrail's
`wait_for`, which cancels past those handlers, tries once more and then gives
up). `Store` is everything after the call. `UseEvidence` is what an action
takes from a stored row. Rows are in the order of their commits, which is that
of their timestamps up to the clock.

**FrontDoor.** A request is `Enter` (its session's row is found) or `Missing`
and `Insert`; then, without a wait, the limiter and the authorization
(`Admit`); then, if it writes the session's JSON column, `SetMeta`, which waits
for the lock of the row and writes what was merged into the row as it was read;
then `Finish`, the commit. The kinds are the role switch both ways, the
creation of a journey (which stores the customer's address in that column) and
the chat (which writes nothing). `hits` is the limiter's dictionary with ages
for times; `served`, `told` and `shown` are history. A fingerprint of a code is
the code. The bucket per IP address works like the global one and is left out;
so are installations without any code, where local development is open to all.

## 3. Runs

| Run | Instance | Checks | Result |
|---|---|---|---|
| `journeys_race` | 1 journey, 2 clients, 3 keys, 4 versions, a reviewer who asks | type, linear history, no action on an unseen state, audit trail, completion, READY is earned | holds, 673k states |
| `journeys_keys` | 2 journeys, 2 clients, 2 keys, an upload with any verdict for either | a key is executed once, success and refusal are reliable | holds, 658k |
| `review_cases` | 1 journey, 1 customer, 2 reviewers | type, one open case, no question is asked behind the reviewers' backs, resolutions are answered and announced | holds, 347k |
| `review_live` | 1 journey, 1 customer, 1 upload, 1 desk, fairness | the state machine, uploads excepted; reviewers' and customers' requests end, through deadlocks | holds, 280k |
| `outbox_leases` | 1 event, its flush, 1 sweeper, 2 executions, fairness | type, tries, never notified twice, a pending event is settled | holds, 81k |
| `outbox_retention` | the same with retention, 2 sweepers, 1 execution | refinement, leases, what can be sent is complete | holds, 715k |
| `advice` | three shipped manifests and the edits of two of them a pack author could make and the validator accepts | plans lead to READY and are minimal, advice can be carried out and gets nearer, simulation, diff and replay agree with the engine | holds, 2.9k |
| `uploads` | mock: 2 uploads at a time; local: 3 one after another, 2 without Tesseract; Sarvam: 2 at a time, with 3 answers; 8 documents and forms, two of them used one after the other | type, jobs, labels, verified is earned, names agree with the latest, previews lead somewhere, an overwrite is of an unseen income, answers | holds, 102k |
| `front` | 3 requests of one session without limits; 1 request at a time of two sessions with limits; 2 codes | limits hold through eviction, Retry-After is true, only shown codes grant, requests end | holds, 117k |
| `review_retry`, `review_double`, `outbox_purge` | | see section 4 | violated |

Each property of a passing run was also checked against a wrong form of the
code (the definitions marked `Mutant:`, listed in `PROJECT.json`), under which
it fails.

**Bounds, and why they are enough.** The properties relate at most two requests
and the history, so two clients, two keys (three where two actions and a retry
meet) and two journeys (where the collision is across journeys) give every
interleaving that matters; one more client repeats an existing role.
`MaxVersion` 3 or 4 is long enough to leave READY and come back, which needs
three mutations. `MaxCaseVersion` bounds claims and requests for information
only, so that a case can always still be resolved. In `review_live` the upload
has one verdict, since no action there reads its document. Two sweepers and a flush are
the dispatchers of one event that can hold a lease one after another; two
executions of the workflow are a duplicate and its original. Notifications are
counted up to two, because the property is about the second. Symmetry is used
over clients, keys, journeys, desks, sweepers and executions, which the
specifications never distinguish, and in no run with a liveness property.
In `advice` every action and answer of a journey is explored to its end,
which is finite: values are only added, but for one refusal (`MaxRefusals`).
The edits drop or condition each dependency, and empty each action's
preconditions, targets or group, which are the ways manifests of this form
differ. In `uploads`, three uploads one after another are what it takes for the
latest name to differ from an older one; two at a time for one to be judged on
a journey that changed, and `MaxVersion` 3 for both to be used, the second to
overwrite what the first recorded unseen by it; the documents lie on both sides of each threshold and
tolerance (82, 83, 84 and 90 thousand against 85 and against each other; a slip
that contradicts itself; one that is genuine but below its threshold; one of
another accepted type than declared). `MaxPolls` 2 has a poll that goes on and a
last one. In `front`, a window of two ticks has hits of every age, two tracked
keys (`MaxKeys`) make the limiter evict, and limits of one and two are reached
by one session, and by two together. Three requests of one session are an early
reader, a writer in between and one that is queued behind it.
`CHECK_DEADLOCK FALSE` is set for the outbox and for `uploads`, which may really
have nothing left to do.

**Fairness.** A request that runs keeps running (the process does not stop
without crashing), and PostgreSQL queues the waiters of a row lock, so a
request that waits again and again is served: strong fairness of `Serve` and
`Finish`, and of a desk's steps. PostgreSQL looks for deadlocks: weak fairness
of `BreakDeadlock` and `BreakUploadDeadlock`. An upload goes on and ends: the
AI's answer is bounded by the guardrail, and what it stores then waits for row
locks only: strong fairness of `StoreEvidence`. Clients and reviewers promise nothing: `Begin...`, `Return`
and every page action are without fairness. A sweeper takes the event that is
due longest: strong fairness of a sweep of each event; time passes: weak
fairness of `LeaseExpires`; and a dispatch goes on. `PendingEnds` assumes in
addition that from some point on dispatches are neither interrupted nor outlive
their leases: otherwise an event can be claimed and lost for ever, and the code
promises no more. In `Uploads` the event loop runs what is ready and its timers
fire: weak fairness of `Interpret`, `TimeOut` and `Store`; Sarvam owes nothing.
In `FrontDoor` a request goes on, and PostgreSQL queues the waiters of a row:
strong fairness of `Work`; the AI's answer is bounded by the guardrail.

## 4. Findings

Three are runs in which TLC finds the property violated by what the code does.

1. `review_retry`: `create_or_get_open_case` commits in the middle of
   `apply_action` (`services/review_service.py:195`); after a crash there, the
   retry of an executed action is refused.
2. `review_double`: the customer's answer commits and releases the case row
   before the case is saved (`services/review_service.py:607`), so a second
   resolution passes its checks in between: the case is resolved, and the
   customer told, twice, which `test_review_cases.py:269` rules out for
   submissions one after the other.
3. `outbox_purge`: with retention, the receipt of an event that is being sent
   can be purged, and the customer notified twice
   (`integrations/n8n_receipts.py:159`).

Further disagreements between the code and what is written about it are in the
models, and no run is spent on them:

- An action on another field drops an open question
  (`services/journey_service.py:1305`); the field then counts as settled, and
  the case stays open without a question to answer. No property claims otherwise:
  `QuestionsReachReviewers` is about questions that stand.
- A question may be closed unseen. Between the two commits of a resolution with
  EVIDENCE_SUFFICIENT (`services/review_service.py:607`) the answered question may
  be asked anew; `create_or_get_open_case` finds the case still open and keeps it,
  and the second commit then closes it. Its docstring
  (`services/review_service.py:166`) promises a later occurrence "its own fresh,
  attempt-numbered case rather than being silently swallowed".
- An upload lists the cases without locking them and puts those that were waiting
  back under review (`evidence/reconcile.py:458`), also one that a reviewer
  resolved in between, although a resolved case is terminal (`core/review.py`,
  `backend/tests/unit/test_review_state_machine.py:56`, which tests the function
  `validate_transition` that an upload does not call). It is the one exception that
  `CaseFollowsTransitions` states, and `review_live` reaches it.
- Where Tesseract is not installed, an image that cannot be read is given the text
  of a template chosen by its file name or raw bytes (`docai/ocr.py:570`), with 95
  percent confidence, and the local engine verifies it;
  `docai/document_validator.py:12` says a file name is never trusted alone.
- `claim_case` ignores the version that the page sends
  (`services/review_service.py:525`).
- A reviewer's answer expects whatever snapshot is current, not the one the page
  showed (`services/review_service.py:613`), while the project's README asks
  every mutation for the version its sender saw. And an upload moves a waiting
  case (`evidence/reconcile.py:458`), which the comment at `core/review.py:38`
  denies.
- `ai/sarvam.py:22` promises a fallback and a true label on any failure. The
  guardrail's timeout cancels the provider past its handlers: there is no
  fallback, and the (unverified) row is labelled "sarvam" though nobody
  answered. `VerifiedIsEarned` therefore looks at the label of verified rows only.
- The comment on the column `evidence.verified` (`db/models.py:133`) says that it
  holds `evidence_is_genuine`, "deliberately NOT the same as" `is_verified`, which
  "also requires confidence >= the manifest threshold". The code stores
  `is_verified` (`evidence/reconcile.py:332`, `409`): a genuine document below its
  threshold cannot be used by an action. `VerifiedIsEarned` states the code's rule.
- `ai/models.py` and the comment at `evidence/reconcile.py:300` say that only the
  local engine resolves a document type; MockAI does, too
  (`ai/mock.py:345`).
- The identifier of an earlier document is looked up under the declared type and
  stored under the resolved one (`evidence/reconcile.py:270`), and facts are
  stored from documents that were not verified.
- A lost update: the customer's address, written while another request of
  the session switches roles, may be overwritten
  (`db/repositories/sessions.py:35`). So may a demotion: a stale write of the column
  can bring back a role that was given up meanwhile, which `AccessIsGranted`
  permits, as the session once showed the code in force. What such a write cannot
  do is make a reviewer of a session that never showed it.
- The validator accepts manifests whose actions are offered before their fields'
  prerequisites are met; the AI may then recommend the same action again, which
  is why `AdviceMakesProgress` and `OfferedActionHelps` have the conditions they
  have. The registry loads manifests without validating them, and two that ship
  are known to violate it (`backend/tests/packs/test_all_manifests.py`). Nor does
  the validator look for actions that precondition each other's fields: such a
  manifest passes, and none of its journeys has a plan.
- `get_diff` and the list of journeys derive fields without the open question;
  `StoredDiff` says the same as the action's own answer only without one.

## 5. Proofs

Every theorem holds for all values of the constants that satisfy the named
`ASSUME`s of the module: any pack, any number of journeys, clients, keys,
reviewers, events, executions, uploads and sessions, and any bound.

The assumptions are the finite shapes of the manifest and acyclic dependencies
(`PackAssumption`, `AcyclicAssumption`), distinct null values and inputs of the
right shape (`JourneysAssumption`, `InputsAssumption`, `RecordAssumption`), each
desk has its reviewer (`ReviewAssumption`), manifests are finite files that list
their actions and name their groups (`PacksAssumption`), dispatchers are not
events and tries are positive (`OutboxAssumption`), settings
(`SettingsAssumption`, `LimitAssumption`, `NullAssumption`, `UploadAssumption`)
and what is measured of a document (`DocumentAssumption`). TLC evaluates each of
them on the runs of the modules that extend its module.

**The history of a journey** (`Journeys_proofs`, `Trail_proofs`).

| Theorem | States |
|---|---|
| `ChainInvariantHolds` | `Spec => []ChainInvariant` |
| `TypeCorrect` | `Spec => []TypeOK` |
| `HistoryIsLinear` | `Spec => []ChainIsLinear` |
| `NoActionOnUnseenState` | `Spec => []ExpectedStaysCurrent` |
| `TrailInvariantHolds` | `Spec => []TrailInvariant` |
| `TrailAccountsForState` | `Spec => []AuditAccountsForState` |
| `CompletionIsAnnouncedOnce` | `Spec => []CompletedOncePerReady` |
| `ReadyRestsOnWrites` | `Spec => []ReadyIsEarned` |

`ChainIsLinear` is not inductive by itself: `CommitApply` appends the snapshot
computed when the request was opened, so one must know that nothing was
appended since. `ExpectedStaysCurrent` says so (the client owns the row lock,
and its expected snapshot is the newest), and `RequestsAreGrounded` says what a
running request knows about the snapshot it will write. With the types they
form `ChainInvariant`, which one lemma per action shows to be preserved. Lemmas
about the engine (`DeriveStatus`, `ReadinessOf`, `Successor` and so on return
what `Snapshot` says) carry the type part.

`TrailInvariant` adds what an open transaction holds ready to write
(`AllPrepared`: the snapshot is the one the request asks for, its event names the
right versions, and it is a completion exactly on an edge to READY). The operations are then reduced to the three things they do to a
history, begin it, extend it by one mutation, or leave it alone, and each of the
three properties is proved of those three. One of the lemmas, `NoSecondQuestion`,
shows that on the customer's side `NextQuestion` never finds another question.

**Idempotency keys** (`Keys_proofs`; with reviewers, `Review_proofs`).

| Theorem | States |
|---|---|
| `KeysInvariantHolds` | `Spec => []KeysInvariant` |
| `SuccessIsDurable` | `Spec => []AcknowledgedIsDurable` |
| `OnceInvariantHolds` | `Spec /\ [][NoEarlyCommit]_vars => []OnceInvariant` |
| `KeyIsAppliedOnce` | `Spec /\ [][NoEarlyCommit]_vars => []KeyAppliedOnce` |
| `RefusalIsFinal` | `Spec /\ [][NoEarlyCommit]_vars => RefusedWasNotExecuted` |
| `KeysWithoutReviewers` | with no reviewers, `Spec => []KeyAppliedOnce /\ RefusedWasNotExecuted` |
| `ReviewersKeepKeys` | `ReviewSpec => []ReviewKeysInvariant` |
| `ReviewersKeepSuccess` | `ReviewSpec => []AcknowledgedIsDurable` |
| `ReviewersKeepOnce` | `ReviewSpec /\ [][NoEarlyCommit]_reviewVars => []ReviewOnceInvariant` |
| `ReviewersApplyOnce` | `ReviewSpec /\ [][NoEarlyCommit]_reviewVars => []KeyAppliedOnce` |
| `ReviewersKeepRefusals` | `ReviewSpec /\ [][NoEarlyCommit]_reviewVars => RefusedWasNotExecuted` |

A stored record names an event that is in the trail, and an answer that was
given is that of a record (`KeysInvariant`): this needs of the history only what
a request holds ready to write and that each version has its event
(`HistoryInvariant`), which reviewers leave true as well, since what they write
carries no key. The other half, that a key has no event but that of its record,
is what finding 1 breaks: an action that reopens a case commits before its
record. `NoEarlyCommit` rules out that one step and nothing else, and where no
reviewer ever asks the customer for more, it never happens
(`KeysWithoutReviewers`). In `journeys_keys`, TLC checks both properties without
reviewers.

**Review cases** (`Trail_proofs` for the customer side, `Review_proofs` for the
Human Review Center composed with it).

| Theorem | States |
|---|---|
| `CaseInvariantHolds` | `Spec => []CaseInvariant` |
| `OneCaseToDecide` | `Spec => []OneOpenCasePerQuestion` |
| `ReviewInvariantHolds` | `ReviewSpec => []ReviewInvariant` |
| `ReviewTypeCorrect` | `ReviewSpec => []ReviewTypeOK` |
| `ReviewersKeepHistory` | `ReviewSpec =>` always `ChainIsLinear`, `ExpectedStaysCurrent`, `AuditAccountsForState`, `CompletedOncePerReady` and `ReadyIsEarned` |
| `ReviewersDecideOneCase` | `ReviewSpec => []OneOpenCasePerQuestion` |
| `CasesFollowTransitions` | `ReviewSpec => CaseFollowsTransitions` |
| `QuestionsAreSeen` | `ReviewSpec => QuestionsReachReviewers` |
| `ResolutionsAreCarriedOut` | `ReviewSpec => []ResolutionIsCarriedOut` |

A request reads the cases of its question without a lock, decides, and opens one
if there was none; an upload writes back the cases it listed, whatever happened
in between. What keeps the first from opening a second case is that it holds the
journey row: whoever changes a case also inserts an audit event, whose foreign
key needs a share lock on that row (`ReadStaysTrue`). What keeps the second from
bringing a closed case back beside a new one is that a case it puts back under
review was open when it was listed, and none of that journey can be opened until
the upload has ended (`HandoverIsKnown`).

In `Review_proofs` a desk's operations are reduced to what they do to one case
(`Moves`: one row, along the state machine, while nobody holds the journey row or
up to the time its reviewer's lock has left), so that a part of the invariant is
proved of one kind of step and not of six operations. What an upload
writes back is excepted in `CaseFollowsTransitions`, because it really does reopen
resolved cases (section 4); that nothing else departs from the state machine
includes the second half of a resolution, which saves a case it no longer has
locked. `ResolutionIsCarriedOut` counts: a reviewer's second half may run
after another's, so no resolved case can be matched with one answer. The
invariant says instead that a question's sufficient resolutions, together with
the desks that have answered and not yet saved, are at most the answers in the
trail (`AnswersSuffice`), and that resolved cases are at most the resolution
events (`EventsSuffice`).

A reviewer may close a case with another resolution while its question stays open,
so that every open question has an open case is not true of the whole system.
`QuestionsReachReviewers` says what is: a question has no open case only because a
reviewer decided that case while the question stood. For a question that is asked,
this rests on what the action read of the cases before it asked: an open case it
found is still open when it commits (`ReadStaysTrue`). Answers ask nothing
(`NoSecondQuestion`). The second half of a resolution closes the case of a question
its own first half answered (`AnswerSettled`), so a question it leaves behind was
asked in between: the window of section 4, which the property names
(`DecidedAt`). TLC reaches that window only with four versions, one more than
`review_cases` has; with one desk and `MaxVersion` 4 (67,303 states, not kept as a
run) the property holds as well, and `at = "viewing"` alone in `DecidedAt` fails. The
theorem covers every number of versions.

**The outbox** (`Outbox_proofs`).

| Theorem | States |
|---|---|
| `OutboxIsSafe` | `Spec => []OutboxInvariant` |
| `OutboxTypeCorrect` | `Spec => []OutboxTypeOK` |
| `SendableKeepsItsPayload` | `Spec => []SendableIsComplete` |
| `LeaseRespected` | `Spec => LeaseIsRespected` |
| `OutboxKeepsPromise` | `Spec => KeepsPromise`, that is `Promise!Spec` of `Notification` |
| `NotifiedOnceWhileReceiptsAreKept` | `Spec /\ [][~PurgeReceipts]_outboxVars => []NotifiedOnce` |
| `NotifiedOnceWithoutRetention` | without retention, `Spec => []NotifiedOnce` |

The invariant says of a row, by itself, that a pending one has tries left, that
only a pending one is held and only a held one leased, and that personal fields
leave only what is settled for good (`GoodRow`); that a row is queued before it
is sent (`QueuedFirst`); and that a positive outcome still to be recorded is of
an accepted event (`OkIsAccepted`), which makes the step that records it a step
of the promise. The refinement is proved action by action: each maps to a step of
`Notification` or to a stutter. `NotifiedOnce` rests on who owns a receipt
(`ReceiptInvariant`): an execution past its claim owns it alone, one that has just
won it has not notified before, and an event without a receipt never was
notified. A purge of receipts breaks exactly that, which
is finding 3; without retention there is none.

**The front door** (`FrontDoor_proofs`).

| Theorem | States |
|---|---|
| `GrantsAreEarned` | `Spec => []GrantInvariant` |
| `OnlyShownCodesGrant` | `Spec => []AccessIsGranted` |
| `LimitsAreKept` | `Spec => []LimiterInvariant` |
| `LimitsAreRespected` | `Spec => []WindowRespected` |
| `RetryAfterIsTrue` | `Spec => WaitingHelps` |
| `FrontTypeCorrect` | `Spec => []FrontTypeOK` |

A request writes back a row that it read earlier, so `AccessIsGranted`, which
speaks of the table and of the code in force, is not inductive.
`GrantInvariant` says of every row, in the table or in a request, that a
reviewer's grant in it was shown by the row's session, whatever code is in force
now (`Earned`), and of a promotion that was admitted that the code in force is
among those shown (`Admitted`): a code changes only with the process, and a new
process has no requests.

For the limiter, a key's hits are in the order of their ages (`HitsAreOrdered`),
and what was served to a key is what the limiter still remembers of the last
window, also for keys it has evicted (`ServedIsTracked`); so counting hits counts
served requests. `WaitIsEnough` says of a refused key that enough of its hits are
gone after the time it was told. The proof needs that a set of natural numbers
that is not empty has a least one; the induction theorems of the library cannot
be used, so this comes from the pigeonhole theorem. `FrontTypeCorrect` needs that
a request in its critical section holds its row's lock (`LocksAreHeld`).

**Evidence** (`Uploads_proofs`).

| Theorem | States |
|---|---|
| `EvidenceIsFair` | `Spec => []IInv` |
| `UploadsTypeCorrect` | `Spec => []UploadsTypeOK` |
| `VerifiedWasEarned` | `Spec => []VerifiedIsEarned` |
| `NamesAgree` | `Spec => []NameAgreesWithLatest` |
| `PreviewsLead` | `Spec => []PreviewLeadsSomewhere` |
| `OverwritesAreSeen` | where the pack has a rule about income, `Spec => OverwritesOnlyUnseen` |

First, what each of the three engines promises of its verdict, given what the
upload saw of the journey (`FairVerdict`): lemmas about `LocalVerdict`,
`MockVerdict` and `SarvamVerdict`. A verdict then waits in its request
(`FairRequest`), is stored as a row (`FairRow`) and stays, while other uploads and
actions go on. The names seen are those of the first rows in the table, as
many as there were (`listed`); rows are only appended, so they remain what they
were. What was seen of the journey is never newer than the journey, and of the
same version has the same values (`Informed`), which is what `OverwritesAreSeen`
turns on. That rows and previews are bounded follows by the pigeonhole theorem,
as each upload stores one row at most. The hypothesis of `OverwritesAreSeen` is
needed: without a rule about income the local engine does not compare it, and
overwrites without asking; the run has such a rule.

**Advice, plan and replay** (`Advice_proofs`).

| Theorem | States |
|---|---|
| `AdviceInvariantHolds` | `Spec => []AdviceInvariant` |
| `TrailRebuilds` | `Spec => []ReplayRebuilds` |
| `SimulationFollowsEngine` | `Spec => []StatePredicted` |
| `SimulationIsTrue` | `Spec => [](OneMeasure(pack) => SimulationPredicts)` |
| `DiffIsTrue` | where every pack has `OneMeasure`, `Spec => DiffTellsTheTruth` |
| `PlanInvariantHolds` | `Spec => []PlanInvariant` |
| `OffersHelp` | `Spec => [](Regular(pack) => OfferedActionHelps)` |
| `AdviceCanBeFollowed` | `Spec => [](Regular(pack) => AdviceIsExecutable)` |
| `FollowedAdviceProgresses` | `Spec => [](Regular(pack) => AdviceMakesProgress)` |
| `PlanIsTrue` | `Spec => [](Regular(pack) => PlanIsExact)` |

These hold for manifests of any size. The statuses of a snapshot are the loop of
`derive_field_states`, a recursive function, and the readers derive them again
from other inputs. What makes them agree is that the loop has one fixpoint: one
exists, as the least set closed under a pass (`FixpointExists`), and there is no
other, because the validator rejects cycles. So statuses are the right ones as
soon as they satisfy a rule local to each field (`Fits`), and two computations
agree as soon as the rules do. `AdviceInvariant` says that the stored snapshot is
coherent in this sense, that its values are those the trail folds to, and that
the readiness is the engine's; `StatePredicted` is that part of
`SimulationPredicts` that needs no hypothesis on the pack.

The plan needs more: that a field no action can supply has its value from the
start, and that no question is about one (`Rooted`, in `PlanInvariant`). Then
the walk over missing fields finds an action for every one of them; Kahn's order
is complete since guards close no cycle; each action of the order is accepted
when its turn comes, and the fields it stands for are then settled; and with
fewer actions something is missing, since no one action can stand in for two of
the plan. Every count in these proofs (a least number, a length that decreases)
comes from the pigeonhole theorem of the library, whose induction theorems
cannot be used; that the recursive functions are what their equations say is
proved from the existence of their finite approximations.

The hypotheses are on the manifest, and are not hollow. `Regular` is what the six
packs that ship have in common beyond what the validator asks (`account_opening`,
`credit_card`, `insurance`, `investment`, `kyc`, `lending`): every field is
mandatory and applies, an action is guarded by at least the prerequisites of its
fields, and the guards close no cycle. `OneMeasure` says that the schema and the
readiness rules mean the same fields by mandatory. `MCAdvice` assumes, and TLC
evaluates, that the three manifests of the run are `Regular` and that all 57 of
its packs have `OneMeasure`; 15 of the 39 that the validator accepts are
`Regular`. Two of the six, `account_opening` and `investment`, are outside the
specification, which starts from accepted packs: they violate a rule about their
size and about the routing of one document. Of the validator's verdict the proofs
use that references resolve, dependencies have no cycle (`Sound`), fields can be
reached and the actions for one field form a group (`RegularFacts`), none of which
these two violate. Section 4 says what an unguarded or cyclic manifest
would break.

**Only model-checked.** Liveness (that pending events, requests, uploads and
reviews end) and everything that depends on `ENABLED` or fairness. That advice
also helps on those accepted edits of the manifests that are not `Regular`, where
the properties hold in `advice` though the proof does not reach them.
And what the code does break (section 4).

## 6. Not modelled

- The review queue, dashboard and summaries: reads without a decision.
- What the AI only says: goal parsing, explanations, chat, speech and
  translation, and the scan of their wording; the hosted LLM provider
  (`ai/llm.py`), whose answers go through the same guardrail.
- What the regular expressions of `docai/extraction.py` find in a text, and what
  the trained classifier says of it: data of a text in `Documents`. Training,
  datasets and benchmarks.
- A typed form may carry a field "name" that later uploads compare with; the
  forms in the model name only fields of the pack.
- The evidence files on disk: nothing reads them back.
- `extraction_keys`, further fields a mapping may ask Sarvam for
  (`packs/contract.py:87`): no manifest sets them.
- The number of database connections (`db/session.py:26`); a request keeps one
  while the AI works, and a wait for one is a later step of the same request.
- Two creations of a journey with one key (`api/v1/journeys.py:67`): the second
  fails at the primary key and has created nothing. `CreateJourney` has no key.
- That case numbers differ: the unique key on them decides, and the loser's
  error is a step (`CollideOnNumber`).
- The demo reset, which deletes everything; start-up; the web client beyond a
  reviewer's page; the signing of cookies.
- The immutability triggers of `db/session.py`: no operation of the model
  updates a snapshot or an audit event.
- `ACTION_REJECTED` and `STATE_TRANSITION` audit events, which nothing reads.
- `NextQuestion` (a second AMBIGUOUS field after an answer) is modelled but never
  finds one for a customer's answer (`NoSecondQuestion` in `Trail_proofs`): a
  snapshot has one open question.

## 7. Plan

Done: the engine, the customer side, the review center, the outbox with its
abstract promise, advice and replay, uploads and the front door are modelled and
checked, and every invariant and action property of the passing runs is a
theorem: `KeyAppliedOnce`, `RefusedWasNotExecuted` and `NotifiedOnce` under a
hypothesis that leaves out what section 4 shows to break them, `OverwritesOnlyUnseen` for packs with a rule about income, and
those about advice, plans and predictions for packs shaped like the ones that
ship.

Next, in this order:

1. An abstract specification of the evidence store (a row, once stored, is
   verified for good and only by an accepted document) that both `Journeys` and
   `Uploads` implement, with the step lemmas of the two refinements.
2. Plans of packs with optional or derived fields, which no manifest has yet.
3. The web client's start-up and retry loop.
