---------------------------- MODULE ReviewCenter ----------------------------
(***************************************************************************)
(* The Human Review Center (ReviewCaseService), composed with the customer *)
(* side in Journeys: reviewers open a case, claim it, ask the customer for *)
(* more, escalate it or resolve it, while the customer goes on working on  *)
(* the same journey.                                                       *)
(*                                                                         *)
(* A desk is one browser page of a reviewer.  It remembers the version of  *)
(* the case it shows, which every operation but claiming tests.  An        *)
(* operation holds the case row FOR UPDATE, and its audit event needs a    *)
(* share lock on the journey row.  All are single transactions, except     *)
(* resolving with EVIDENCE_SUFFICIENT: the answer it gives for the         *)
(* customer commits before the case does.  What is refused changes nothing *)
(* and is left out.                                                        *)
(***************************************************************************)
EXTENDS Journeys

CONSTANTS
    Desks,
    ReviewerOf,      \* desk -> the reviewer who sits there
    MaxCaseVersion   \* bound: no claim or request for information beyond it

ASSUME ReviewAssumption ==
    /\ ReviewerOf \in [Desks -> Reviewers]
    /\ MaxCaseVersion \in Nat

VARIABLE desk        \* desk -> its page and the request it is making

reviewVars == <<vars, desk>>

NoPage == [at |-> "idle"]

\* ALLOWED_TRANSITIONS of core/review.py.
AllowedFrom(status) ==
    CASE status = "REVIEW_REQUIRED"          -> {"UNDER_REVIEW", "CANCELLED"}
      [] status = "UNDER_REVIEW"             -> CaseStatus \ {"REVIEW_REQUIRED"}
      [] status = "ADDITIONAL_INFO_REQUIRED" -> {"REVIEW_REQUIRED", "UNDER_REVIEW",
                                                 "RESOLVED", "CANCELLED"}
      [] status = "ESCALATED"                -> Terminal
      [] status \in Terminal                 -> {}

\* check_lock: a live lock keeps every other reviewer out.
LockedByOther(case, reviewer) ==
    case.locked /\ case.reviewer \notin {NoReviewer, reviewer}

OnPage(d) == cases[desk[d].journey][desk[d].case]

\* The case is as the page shows it.
Fresh(d) == OnPage(d).version = desk[d].seen

\* Mutant: the case is read without FOR UPDATE.
MayMoveUnlocked(d, status) ==
    /\ desk[d].at = "viewing"
    /\ ~LockedByOther(OnPage(d), ReviewerOf[d])
    /\ status \in AllowedFrom(OnPage(d).status)

\* The two tests after the version test, and the row locks of one short transaction.
MayMove(d, status) ==
    /\ desk[d].at = "viewing"
    /\ <<desk[d].journey, desk[d].case>> \notin rowLock
    /\ ~LockedByOther(OnPage(d), ReviewerOf[d])
    /\ status \in AllowedFrom(OnPage(d).status)

AuditWritable(j) == lock[j] = NoOne

Queue(j, event) == outbox' = [outbox EXCEPT ![j] = Append(@, event)]

-----------------------------------------------------------------------------
ReviewInit == Init /\ desk = [d \in Desks |-> NoPage]

OpenPage(d) ==
    \E j \in JourneyIds : \E i \in DOMAIN cases[j] :
        /\ desk[d].at \in {"idle", "viewing"}
        /\ desk' = [desk EXCEPT ![d] = [at |-> "viewing", journey |-> j, case |-> i,
                                        seen |-> cases[j][i].version, expected |-> 0]]
        /\ desk' # desk
        /\ UNCHANGED vars

\* The page is left, or reloaded with the answer.
ClosePage(d) == desk' = [desk EXCEPT ![d] = NoPage]

Claimed(case, reviewer) == [case EXCEPT !.status = "UNDER_REVIEW", !.reviewer = reviewer,
                                        !.locked = TRUE, !.version = @ + 1]

\* claim_case ignores the version the page sends.  Claiming one's own case again
\* changes nothing, so it does not renew the lock.
ClaimCase(d) ==
    /\ MayMove(d, "UNDER_REVIEW")
    /\ AuditWritable(desk[d].journey)
    /\ OnPage(d).status = "UNDER_REVIEW" => OnPage(d).reviewer # ReviewerOf[d]
    /\ OnPage(d).version < MaxCaseVersion
    /\ cases' = [cases EXCEPT ![desk[d].journey][desk[d].case] = Claimed(@, ReviewerOf[d])]
    /\ ClosePage(d)
    /\ UNCHANGED <<journeyVars, outbox, records, evidence, lock, rowLock, clientVars>>

Decided(case, status, resolution) == [case EXCEPT !.status = status, !.resolution = resolution,
                                                  !.version = @ + 1]

Decide(d, status, resolution, event) ==
    /\ MayMove(d, status)
    /\ Fresh(d)
    /\ AuditWritable(desk[d].journey)
    /\ cases' = [cases EXCEPT ![desk[d].journey][desk[d].case] =
                     Decided(@, status, resolution)]
    /\ Queue(desk[d].journey, event)
    /\ ClosePage(d)
    /\ UNCHANGED <<journeyVars, records, evidence, lock, rowLock, clientVars>>

RequestInformation(d) ==
    /\ desk[d].at = "viewing" => OnPage(d).version < MaxCaseVersion
    /\ Decide(d, "ADDITIONAL_INFO_REQUIRED", "NONE", "CUSTOMER_ACTION_REQUIRED")

EscalateCase(d) == Decide(d, "ESCALATED", "NONE", "ESCALATED")

\* resolve_case with any resolution but EVIDENCE_SUFFICIENT.
ResolveOther(d) == Decide(d, "RESOLVED", "OTHER", "JOURNEY_RESOLVED")

-----------------------------------------------------------------------------
(* resolve_case with EVIDENCE_SUFFICIENT.                                  *)

\* The case row is locked and checked, and the journey read without a lock.
BeginSufficient(d) ==
    /\ MayMove(d, "RESOLVED")
    /\ Fresh(d)
    /\ rowLock' = rowLock \cup {<<desk[d].journey, desk[d].case>>}
    /\ desk' = [desk EXCEPT ![d].at = "answering",
                            ![d].expected = journey[desk[d].journey].current]
    /\ UNCHANGED <<journeyVars, outbox, records, cases, evidence, lock, clientVars>>

Answering(d) == desk[d].at = "answering"

\* Mutant: the transaction is left open.
ReleaseCaseForgotten(d) == UNCHANGED rowLock

ReleaseCase(d) == rowLock' = rowLock \ {<<desk[d].journey, desk[d].case>>}

\* submit_clarification for the customer: its commit ends the transaction that
\* holds the case row.
AnswerForCase(d) ==
    \E in \in Answers :
        LET j == desk[d].journey
        IN  /\ Answering(d)
            /\ Free(j)
            /\ in.ambiguity = OnPage(d).ambiguity
            /\ Answerable(j, desk[d].expected, in.ambiguity, in.valid)
            /\ WriteAnswer(j, in.ambiguity, in.typed)
            /\ ReleaseCase(d)
            /\ desk' = [desk EXCEPT ![d].at = "answered"]
            /\ UNCHANGED <<records, cases, evidence, lock, clientVars>>

\* Mutant: the refusal is swallowed, and the case resolved nevertheless.
RejectAnswerSwallowed(d) ==
    \E in \in Answers :
        /\ Answering(d)
        /\ Free(desk[d].journey)
        /\ in.ambiguity = OnPage(d).ambiguity
        /\ ~Answerable(desk[d].journey, desk[d].expected, in.ambiguity, in.valid)
        /\ ReleaseCase(d)
        /\ desk' = [desk EXCEPT ![d].at = "answered"]
        /\ UNCHANGED <<journeyVars, outbox, records, cases, evidence, lock, clientVars>>

\* Mutant: only an invalid answer is refused.
RejectAnswerIfInvalid(d) ==
    \E in \in Answers :
        /\ Answering(d)
        /\ Free(desk[d].journey)
        /\ in.ambiguity = OnPage(d).ambiguity
        /\ ~in.valid
        /\ ReleaseCase(d)
        /\ ClosePage(d)
        /\ UNCHANGED <<journeyVars, outbox, records, cases, evidence, lock, clientVars>>

\* submit_clarification refuses: the reviewer gets its error and nothing is kept.
RejectAnswer(d) ==
    \E in \in Answers :
        /\ Answering(d)
        /\ Free(desk[d].journey)
        /\ in.ambiguity = OnPage(d).ambiguity
        /\ ~Answerable(desk[d].journey, desk[d].expected, in.ambiguity, in.valid)
        /\ ReleaseCase(d)
        /\ ClosePage(d)
        /\ UNCHANGED <<journeyVars, outbox, records, cases, evidence, lock, clientVars>>

\* The case is written from the copy read before the answer was given.
FinishSufficient(d) ==
    LET j == desk[d].journey
        i == desk[d].case
    IN  /\ desk[d].at = "answered"
        /\ <<j, i>> \notin rowLock
        /\ AuditWritable(j)
        /\ cases' = [cases EXCEPT ![j][i] =
                        [@ EXCEPT !.status = "RESOLVED", !.resolution = "EVIDENCE_SUFFICIENT",
                                  !.version = desk[d].seen + 1]]
        /\ Queue(j, "JOURNEY_RESOLVED")
        /\ ClosePage(d)
        /\ UNCHANGED <<journeyVars, records, evidence, lock, rowLock, clientVars>>

-----------------------------------------------------------------------------
(* Time, crashes and deadlocks.                                            *)

Expired(case) == [case EXCEPT !.locked = FALSE]

\* review_lock_until passes, 15 minutes after the claim.
LockExpires(j) ==
    \E i \in DOMAIN cases[j] :
        /\ cases[j][i].locked
        /\ cases' = [cases EXCEPT ![j][i] = Expired(@)]
        /\ UNCHANGED <<journeyVars, outbox, records, evidence, lock, rowLock, clientVars, desk>>

\* The process serving the desk dies: what it has not committed is gone.
CrashDesk(d) ==
    /\ desk[d].at \in {"answering", "answered"}
    /\ rowLock' = IF Answering(d) THEN rowLock \ {<<desk[d].journey, desk[d].case>>}
                  ELSE rowLock
    /\ ClosePage(d)
    /\ UNCHANGED <<journeyVars, outbox, records, cases, evidence, lock, clientVars>>

\* A customer's action holds the journey row and wants the case row to reopen the
\* case; a desk holds the case row and wants the journey row.
Deadlocked(c, d) ==
    /\ pc[c] = "open" /\ Reopens(c)
    /\ Answering(d)
    /\ <<desk[d].journey, desk[d].case>> = <<request[c].journey, tx[c].case.index>>

\* PostgreSQL aborts one of the two; its request fails.
BreakDeadlock(c, d) ==
    /\ Deadlocked(c, d)
    /\ \/ /\ Unlock(request[c].journey)
          /\ Answered(c, "error")
          /\ UNCHANGED <<rowLock, request, desk>>
       \/ /\ ReleaseCase(d)
          /\ ClosePage(d)
          /\ UNCHANGED <<lock, clientVars>>
    /\ UNCHANGED <<journeyVars, outbox, records, cases, evidence>>

\* Likewise an upload: its evidence row holds the share lock on the journey, and it
\* waits for a case row to hand back.  Either of the two ends.
BreakUploadDeadlock(u, d) ==
    /\ evidence[u].at = "handing" /\ Answering(d) /\ evidence[u].journey = desk[d].journey
    /\ desk[d].case \in DOMAIN evidence[u].seen
    /\ evidence[u].seen[desk[d].case].status = "ADDITIONAL_INFO_REQUIRED"
    /\ \/ AbortEvidence(u) /\ UNCHANGED desk
       \/ CrashDesk(d)

ServeDesk(d)  == AnswerForCase(d) \/ RejectAnswer(d)

DeskNext(d) ==
    \/ OpenPage(d) \/ ClaimCase(d) \/ RequestInformation(d) \/ EscalateCase(d)
    \/ ResolveOther(d) \/ BeginSufficient(d) \/ ServeDesk(d) \/ FinishSufficient(d)
    \/ CrashDesk(d)

ReviewNext ==
    \/ CustomerNext /\ UNCHANGED desk
    \/ \E d \in Desks : DeskNext(d)
    \/ \E j \in JourneyIds : LockExpires(j)
    \/ \E c \in Clients, d \in Desks : BreakDeadlock(c, d)

ReviewSpec == ReviewInit /\ [][ReviewNext]_reviewVars

\* Requests that run keep running, PostgreSQL queues the waiters of a row lock, so one
\* that waits again and again is served, and it looks for deadlocks.  Clients and
\* reviewers promise nothing.
ReviewFairness ==
    /\ \A c \in Clients : SF_reviewVars((Serve(c) \/ Finish(c)) /\ UNCHANGED desk)
    /\ \A u \in Uploads : SF_reviewVars(StoreEvidence(u) /\ UNCHANGED desk)
    /\ \A d \in Desks : /\ SF_reviewVars(ServeDesk(d) \/ FinishSufficient(d))
                        /\ \A c \in Clients : WF_reviewVars(BreakDeadlock(c, d))
                        /\ \A u \in Uploads : WF_reviewVars(BreakUploadDeadlock(u, d))

FairReviewSpec == ReviewSpec /\ ReviewFairness

-----------------------------------------------------------------------------
(* Properties.                                                             *)

Page == [at : {"viewing", "answering", "answered"}, journey : JourneyIds, case : Version,
         seen : Version, expected : Nat]

\* The pages, and the case rows that requests of desks hold, are those the code makes.
ReviewTypeOK ==
    /\ TypeOK
    /\ desk \in [Desks -> Page \cup {NoPage}]
    /\ rowLock = {<<desk[d].journey, desk[d].case>> : d \in {e \in Desks : Answering(e)}}
    /\ \A d, e \in Desks : Answering(d) /\ Answering(e) /\ d # e =>
          <<desk[d].journey, desk[d].case>> # <<desk[e].journey, desk[e].case>>

\* The commit of an upload writes back case i, which waited for the customer when the
\* upload listed it.
HandedBack(j, i) ==
    \E u \in Uploads : /\ evidence[u].at = "handing" /\ evidence'[u].at = "stored"
                       /\ evidence[u].journey = j /\ i \in DOMAIN evidence[u].seen
                       /\ evidence[u].seen[i].status = "ADDITIONAL_INFO_REQUIRED"

\* A customer's new conflict follows the state machine of core/review.py like the
\* reviewers, who alone test it, and so does a resolution that writes the case back after
\* its answer.  An upload need not: reconcile.py:456 puts back under review what waited
\* when it was listed, be it RESOLVED by now, which test_review_state_machine.py:56 says
\* nothing leaves.  No other step departs from the state machine.
CaseFollowsTransitions ==
    [][\A j \in JourneyIds : \A i \in DOMAIN cases[j] :
         cases'[j][i].status # cases[j][i].status =>
             \/ cases'[j][i].status \in AllowedFrom(cases[j][i].status)
             \/ HandedBack(j, i)]_reviewVars

\* The journey asks a question, and no reviewer sees an open case for it.
Unseen(j) == /\ Created(j)
             /\ Current(j).pending # NoAmbiguity
             /\ OpenCases(j, Current(j).pending) = {}

\* A reviewer at desk d decides the open case of the question.  When this ends a
\* resolution that gave an answer itself, the question has been asked anew since.
DecidedAt(d, j) ==
    /\ desk[d].at \in {"viewing", "answered"} /\ desk'[d] = NoPage
    /\ desk[d].journey = j
    /\ desk[d].case \in OpenCases(j, Current(j).pending)
    /\ desk[d].at = "answered" => Current(j).ver > desk[d].expected + 1

\* No question is asked behind the reviewers' backs.  An action reads the cases without
\* a lock and asks later; what it read stays true because each decision writes an audit
\* event, which needs a share lock on the journey.  So a question without an open case is
\* one that a reviewer has decided while it stood: knowingly, or (the flaw of the
\* early commit) by finishing the resolution of its earlier occurrence.
QuestionsReachReviewers ==
    [][\A j \in JourneyIds : Unseen(j)' =>
         \/ Unseen(j) /\ snapshots'[j] = snapshots[j]
         \/ \E d \in Desks : DecidedAt(d, j)]_reviewVars

AnswersTo(j, a) ==
    {i \in DOMAIN audit[j] : audit[j][i].event = "CLARIFICATION_ANSWERED" /\ audit[j][i].what = a}

SufficientFor(j, a) == {i \in DOMAIN cases[j] : /\ cases[j][i].ambiguity = a
                                                /\ cases[j][i].resolution = "EVIDENCE_SUFFICIENT"}

Announced(j, event) == Cardinality({n \in DOMAIN outbox[j] : outbox[j][n] = event})

Resolved(j) == Cardinality({i \in DOMAIN cases[j] : cases[j][i].status = "RESOLVED"})

\* What a case says of its resolution has happened, whatever fails between the two
\* commits: behind each case closed as EVIDENCE_SUFFICIENT there is an answer of its own
\* in the audit trail of the journey, and behind each resolution the event that tells
\* the customer (review_service.py:607).
ResolutionIsCarriedOut ==
    \A j \in JourneyIds :
        /\ \A a \in Ambiguities : Cardinality(SufficientFor(j, a)) <= Cardinality(AnswersTo(j, a))
        /\ Resolved(j) <= Announced(j, "JOURNEY_RESOLVED")

\* "double_submit_resolve_is_rejected_not_duplicated" (test_review_cases.py:269): a case
\* is resolved, and the customer told so, once.
ResolvedOnce == \A j \in JourneyIds : Announced(j, "JOURNEY_RESOLVED") <= Resolved(j)

\* A reviewer's request ends too, even when it meets a customer's request halfway.
ReviewsEnd ==
    \A d \in Desks : desk[d].at \in {"answering", "answered"} ~> desk[d].at = "idle"

=============================================================================
