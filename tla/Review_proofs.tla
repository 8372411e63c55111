----------------------------- MODULE Review_proofs -----------------------------
(***************************************************************************)
(* Proofs about the Human Review Center composed with the customer side,   *)
(* for every pack and every number of journeys, clients, uploads, desks    *)
(* and reviewers: the state machine of the cases, one open case per        *)
(* question, resolutions that are what they say, and everything Journeys   *)
(* promises of a history, which reviewers now write too.                   *)
(*                                                                         *)
(* The operations of a desk are reduced to what they do to one case        *)
(* (Moves), so that each part of the invariant is proved of one kind of    *)
(* step instead of six operations.                                         *)
(***************************************************************************)
EXTENDS ReviewCenter, Keys_proofs

\* A page shows a case that exists; one that is being resolved has been claimed before.
PageIsKnown(d) ==
    desk[d].at # "idle" =>
        /\ desk[d].case \in DOMAIN cases[desk[d].journey]
        /\ desk[d].at \in {"answering", "answered"} => OnPage(d).reviewer # NoReviewer

RowsHeld ==
    /\ rowLock = {<<desk[d].journey, desk[d].case>> : d \in {e \in Desks : Answering(e)}}
    /\ \A d, e \in Desks : Answering(d) /\ Answering(e) /\ d # e =>
          <<desk[d].journey, desk[d].case>> # <<desk[e].journey, desk[e].case>>

\* Cases are about journeys that exist.
CasesHaveJourneys == \A j \in JourneyIds : DOMAIN cases[j] # {} => Created(j)

\* The inductive invariant of tables, requests and pages.
ReviewInvariant ==
    /\ ChainInvariant
    /\ CaseInvariant
    /\ CasesHaveJourneys
    /\ desk \in [Desks -> Page \cup {NoPage}]
    /\ RowsHeld
    /\ \A d \in Desks : PageIsKnown(d)

-----------------------------------------------------------------------------
(* What one operation does to a case.                                      *)

\* One row is rewritten along the state machine while nobody holds the journey row, or up
\* to the time that its reviewer's lock has left.
Moves(j, i, row) ==
    /\ cases' = [cases EXCEPT ![j] = [@ EXCEPT ![i] = row]]
    /\ row.ambiguity = cases[j][i].ambiguity
    /\ WellReviewed(row)
    /\ cases[j][i].reviewer # NoReviewer => row.reviewer # NoReviewer
    /\ row.status # cases[j][i].status => row.status \in AllowedFrom(cases[j][i].status)
    /\ AsRead(row, cases[j][i]) \/ lock[j] = NoOne
    /\ \/ outbox' = outbox
       \/ \E event \in EventType \ {"JOURNEY_COMPLETED"} :
             outbox' = [outbox EXCEPT ![j] = Append(@, event)]
    /\ row.status = "RESOLVED" =>
          \/ cases[j][i].status = "RESOLVED"
          \/ outbox' = [outbox EXCEPT ![j] = Append(@, "JOURNEY_RESOLVED")]
    /\ UNCHANGED <<journeyVars, records, evidence, lock, rowLock, clientVars>>

\* The page an operation starts from, and the case on it.
LEMMA PageContext ==
    ASSUME ReviewInvariant, NEW d \in Desks, desk[d].at # "idle"
    PROVE  /\ desk[d] \in Page
           /\ desk[d].journey \in JourneyIds
           /\ desk[d].case \in DOMAIN cases[desk[d].journey]
           /\ OnPage(d) \in Case /\ WellReviewed(OnPage(d))
           /\ OnPage(d) = cases[desk[d].journey][desk[d].case]
           /\ Created(desk[d].journey)
  <1>1. desk[d] \in Page
    BY DEF ReviewInvariant, NoPage
  <1>2. PICK j \in JourneyIds : j = desk[d].journey
    BY <1>1 DEF Page
  <1>3. desk[d].case \in DOMAIN cases[j]
    BY <1>2 DEF ReviewInvariant, PageIsKnown
  <1>4. cases[j][desk[d].case] \in Case
    BY <1>3, CaseRowType DEF ReviewInvariant, ChainInvariant
  <1>5. WellReviewed(cases[j][desk[d].case]) /\ Created(j)
    BY <1>3 DEF ReviewInvariant, CaseInvariant, CasesHaveJourneys
  <1> QED  BY <1>1, <1>2, <1>3, <1>4, <1>5 DEF OnPage

LEMMA ClaimMoves ==
    ASSUME ReviewInvariant, NEW d \in Desks, ClaimCase(d)
    PROVE  \E row \in Case : /\ Moves(desk[d].journey, desk[d].case, row)
                             /\ row.resolution = OnPage(d).resolution
                             /\ row.status = "UNDER_REVIEW"
  <1>1. PICK j, i, old, r :
           /\ j = desk[d].journey /\ i = desk[d].case /\ old = cases[j][i]
           /\ r = ReviewerOf[d]
    OBVIOUS
  <1> DEFINE row == Claimed(old, r)
  <1>2. desk[d].at # "idle" /\ "UNDER_REVIEW" \in AllowedFrom(OnPage(d).status)
    BY DEF ClaimCase, MayMove
  <1>3. old \in Case /\ old = OnPage(d) /\ j \in JourneyIds /\ i \in DOMAIN cases[j]
    BY <1>1, <1>2, PageContext
  <1>4. r \in Reviewers /\ r # NoReviewer
    BY <1>1, ReviewAssumption, JourneysAssumption
  <1>5. cases' = [cases EXCEPT ![j] = [@ EXCEPT ![i] = row]]
    BY <1>1 DEF ClaimCase
  <1>6. /\ outbox' = outbox /\ lock[j] = NoOne
        /\ UNCHANGED <<journeyVars, records, evidence, lock, rowLock, clientVars>>
    BY <1>1 DEF ClaimCase, AuditWritable
  <1>7. row \in Case
    <2>1. old.version + 1 \in Version /\ "UNDER_REVIEW" \in CaseStatus
      BY <1>3 DEF Case, Version, CaseStatus
    <2> QED  BY <1>3, <1>4, <2>1 DEF Claimed, Case
  <1>8. /\ row.ambiguity = old.ambiguity /\ row.status = "UNDER_REVIEW"
        /\ row.reviewer = r /\ row.resolution = old.resolution
    BY <1>3 DEF Claimed, Case
  <1> HIDE DEF row
  <1>9. Moves(j, i, row)
    BY <1>1, <1>2, <1>3, <1>4, <1>5, <1>6, <1>8 DEF Moves, WellReviewed
  <1> QED  BY <1>1, <1>3, <1>7, <1>8, <1>9

\* The other short operations: the tests of MayMove imply that the case was claimed.
LEMMA DecideMoves ==
    ASSUME ReviewInvariant, NEW d \in Desks,
           NEW status \in {"ADDITIONAL_INFO_REQUIRED", "ESCALATED", "RESOLVED"},
           NEW resolution \in {"NONE", "OTHER"},
           NEW event \in EventType \ {"JOURNEY_COMPLETED"},
           status = "RESOLVED" => event = "JOURNEY_RESOLVED",
           Decide(d, status, resolution, event)
    PROVE  \E row \in Case : /\ Moves(desk[d].journey, desk[d].case, row)
                             /\ row.resolution = resolution /\ row.status = status
  <1>1. PICK j, i, old : j = desk[d].journey /\ i = desk[d].case /\ old = cases[j][i]
    OBVIOUS
  <1> DEFINE row == Decided(old, status, resolution)
  <1>2. desk[d].at # "idle" /\ status \in AllowedFrom(OnPage(d).status)
    BY DEF Decide, MayMove
  <1>3. /\ old \in Case /\ old = OnPage(d) /\ j \in JourneyIds /\ i \in DOMAIN cases[j]
        /\ WellReviewed(old)
    BY <1>1, <1>2, PageContext
  <1>4. cases' = [cases EXCEPT ![j] = [@ EXCEPT ![i] = row]]
    BY <1>1 DEF Decide
  <1>5. /\ outbox' = [outbox EXCEPT ![j] = Append(@, event)] /\ lock[j] = NoOne
        /\ UNCHANGED <<journeyVars, records, evidence, lock, rowLock, clientVars>>
    BY <1>1 DEF Decide, AuditWritable, Queue
  <1>6. row \in Case
    <2>1. old.version + 1 \in Version /\ status \in CaseStatus
      BY <1>3 DEF Case, Version, CaseStatus
    <2> QED  BY <1>3, <2>1 DEF Decided, Case
  <1>7. /\ row.ambiguity = old.ambiguity /\ row.status = status
        /\ row.reviewer = old.reviewer /\ row.resolution = resolution
    BY <1>3 DEF Decided, Case
  <1>8. old.status # "REVIEW_REQUIRED"
    BY <1>2, <1>3 DEF AllowedFrom
  <1>9. WellReviewed(row)
    BY <1>3, <1>7, <1>8 DEF WellReviewed
  <1> HIDE DEF row
  <1>10. Moves(j, i, row)
    BY <1>1, <1>2, <1>3, <1>4, <1>5, <1>7, <1>9 DEF Moves
  <1> QED  BY <1>1, <1>6, <1>7, <1>10

\* The end of resolving writes a case that others may have moved since it was checked, but
\* none to where it cannot be resolved from.
LEMMA FinishMoves ==
    ASSUME ReviewInvariant, NEW d \in Desks, FinishSufficient(d)
    PROVE  \E row \in Case : /\ Moves(desk[d].journey, desk[d].case, row)
                             /\ row.resolution = "EVIDENCE_SUFFICIENT"
                             /\ row.status = "RESOLVED"
  <1>1. PICK j, i, old, seen :
           /\ j = desk[d].journey /\ i = desk[d].case /\ old = cases[j][i]
           /\ seen = desk[d].seen
    OBVIOUS
  <1> DEFINE row == [old EXCEPT !.status = "RESOLVED", !.resolution = "EVIDENCE_SUFFICIENT",
                                !.version = seen + 1]
  <1>2. desk[d].at = "answered"
    BY DEF FinishSufficient
  <1>3. /\ old \in Case /\ old = OnPage(d) /\ j \in JourneyIds /\ i \in DOMAIN cases[j]
        /\ WellReviewed(old) /\ seen \in Version
    BY <1>1, <1>2, PageContext DEF Page
  <1>4. cases' = [cases EXCEPT ![j] = [@ EXCEPT ![i] = row]]
    BY <1>1 DEF FinishSufficient
  <1>5. /\ outbox' = [outbox EXCEPT ![j] = Append(@, "JOURNEY_RESOLVED")] /\ lock[j] = NoOne
        /\ UNCHANGED <<journeyVars, records, evidence, lock, rowLock, clientVars>>
    BY <1>1 DEF FinishSufficient, AuditWritable, Queue
  <1>6. row \in Case
    <2>1. seen + 1 \in Version /\ "RESOLVED" \in CaseStatus
      BY <1>3 DEF Version, CaseStatus
    <2> QED  BY <1>3, <2>1 DEF Case
  <1>7. /\ row.ambiguity = old.ambiguity /\ row.status = "RESOLVED"
        /\ row.reviewer = old.reviewer /\ row.resolution = "EVIDENCE_SUFFICIENT"
    BY <1>3 DEF Case
  <1>8. old.reviewer # NoReviewer /\ old.status # "REVIEW_REQUIRED"
    BY <1>2, <1>3 DEF ReviewInvariant, PageIsKnown, WellReviewed
  <1>9. WellReviewed(row)
    BY <1>7, <1>8 DEF WellReviewed
  <1>10. row.status # old.status => row.status \in AllowedFrom(old.status)
    BY <1>3, <1>7, <1>8 DEF AllowedFrom, CaseStatus, Case, WellReviewed, Terminal
  <1>11. "JOURNEY_RESOLVED" \in EventType \ {"JOURNEY_COMPLETED"}
    BY DEF EventType
  <1> HIDE DEF row
  <1>12. Moves(j, i, row)
    BY <1>1, <1>4, <1>5, <1>7, <1>8, <1>9, <1>10, <1>11 DEF Moves
  <1> QED  BY <1>1, <1>6, <1>7, <1>12

\* A reviewer's lock runs out: nothing else about the case changes.
LEMMA ExpiryMoves ==
    ASSUME ReviewInvariant, NEW j \in JourneyIds, LockExpires(j)
    PROVE  \E i \in DOMAIN cases[j], row \in Case :
              /\ Moves(j, i, row) /\ row.resolution = cases[j][i].resolution
              /\ AsRead(row, cases[j][i])
  <1>1. PICK i \in DOMAIN cases[j] :
           cases' = [cases EXCEPT ![j] = [@ EXCEPT ![i] = Expired(cases[j][i])]]
    BY DEF LockExpires
  <1>2. /\ outbox' = outbox
        /\ UNCHANGED <<journeyVars, records, evidence, lock, rowLock, clientVars>>
    BY DEF LockExpires
  <1>3. cases[j][i] \in Case /\ WellReviewed(cases[j][i])
    BY CaseRowType DEF ReviewInvariant, ChainInvariant, CaseInvariant
  <1>4. /\ Expired(cases[j][i]) \in Case
        /\ AsRead(Expired(cases[j][i]), cases[j][i])
        /\ Expired(cases[j][i]).resolution = cases[j][i].resolution
    BY <1>3 DEF Expired, Case, AsRead
  <1>5. Moves(j, i, Expired(cases[j][i]))
    BY <1>1, <1>2, <1>3, <1>4 DEF Moves, WellReviewed, AsRead
  <1> QED  BY <1>4, <1>5

-----------------------------------------------------------------------------
(* Such a step keeps the invariants of the customer side.                  *)

LEMMA MovesTypes ==
    ASSUME TypeOK, NEW j \in JourneyIds, NEW i, NEW row \in Case, Moves(j, i, row)
    PROVE  TypeOK'
  <1>1. cases \in [JourneyIds -> Seq(Case)] /\ outbox \in [JourneyIds -> Seq(EventType)]
    BY DEF TypeOK
  <1>2. [cases[j] EXCEPT ![i] = row] \in Seq(Case)
    <2>1. cases[j] \in Seq(Case)
      BY <1>1
    <2> QED  BY <2>1, UpdateType
  <1>3. cases' = [cases EXCEPT ![j] = [cases[j] EXCEPT ![i] = row]]
    BY DEF Moves
  <1>4. cases' \in [JourneyIds -> Seq(Case)]
    BY <1>1, <1>2, <1>3
  <1>5. outbox' \in [JourneyIds -> Seq(EventType)]
    <2>1. CASE outbox' = outbox
      BY <1>1, <2>1
    <2>2. ASSUME NEW event \in EventType,
                 outbox' = [outbox EXCEPT ![j] = Append(@, event)]
          PROVE  outbox' \in [JourneyIds -> Seq(EventType)]
      <3>1. Append(outbox[j], event) \in Seq(EventType)
        BY <1>1, AppendProperties
      <3> QED  BY <1>1, <2>2, <3>1
    <2> QED  BY <2>1, <2>2 DEF Moves
  <1> QED  BY <1>4, <1>5 DEF Moves, TypeOK, journeyVars, clientVars

LEMMA MovesHistory ==
    ASSUME ChainInvariant, NEW j \in JourneyIds, NEW i, NEW row \in Case, Moves(j, i, row)
    PROVE  ChainInvariant'
  <1>1. UNCHANGED <<journeyVars, lock, pc, request, tx>>
    BY DEF Moves, clientVars
  <1>2. \A d \in Clients : pc[d] = "open" => /\ lock[request[d].journey] = d
                                             /\ request[d].journey \in JourneyIds
    BY GroundedIsInvariant, RequestContext DEF Grounded
  <1>3. ASSUME NEW d \in Clients
        PROVE  Grounded(d)'
    BY <1>1, <1>2, Undisturbed DEF journeyVars
  <1>4. TypeOK'
    BY MovesTypes DEF ChainInvariant
  <1> QED  BY <1>1, <1>3, <1>4, ChainUnchanged, GroundedSuffices DEF ChainInvariant

\* What a request has read of a case stays true, and a closed case stays closed.
LEMMA MovesCases ==
    ASSUME ChainInvariant, CaseInvariant, NEW j \in JourneyIds, NEW i \in DOMAIN cases[j],
           NEW row \in Case, Moves(j, i, row)
    PROVE  CaseInvariant'
  <1>1. ClientsGoOn /\ HandoversGoOn
    BY UploadsUntouched DEF Moves, ClientsGoOn, GoesOn, clientVars
  <1>2. cases[j] \in Seq(Case) /\ cases \in [JourneyIds -> Seq(Case)]
    BY DEF ChainInvariant, TypeOK
  <1>3. cases' = [cases EXCEPT ![j] = [@ EXCEPT ![i] = row]]
    BY DEF Moves
  <1>4. cases'[j][i] = row
    BY <1>2, <1>3
  <1>5. RowGoesOn(j, i)
    <2>1. lock[j] = NoOne => \A d \in Clients : pc'[d] = "open" => request[d].journey # j
      BY <1>1, NobodyReads
    <2>2. row.status \notin Terminal => MayBeOpen(j, i)
      <3>1. cases[j][i].status \in Terminal => AllowedFrom(cases[j][i].status) = {}
        BY DEF AllowedFrom, Terminal
      <3> QED  BY <3>1 DEF MayBeOpen, Moves
    <2> QED  BY <1>4, <2>1, <2>2 DEF RowGoesOn, Moves
  <1> QED  BY <1>1, <1>3, <1>5, CaseRewritten

-----------------------------------------------------------------------------
(* Pages and the cases on them.                                            *)

\* Cases neither vanish nor lose their reviewer, and belong to journeys that exist.
CasesStay ==
    \A j \in JourneyIds :
        /\ DOMAIN cases'[j] # {} => Created(j)'
        /\ \A i \in DOMAIN cases[j] :
              /\ i \in DOMAIN cases'[j]
              /\ cases[j][i].reviewer # NoReviewer => cases'[j][i].reviewer # NoReviewer

LEMMA PageStays ==
    ASSUME ReviewInvariant, CasesStay, NEW d \in Desks, desk'[d] \in {desk[d], NoPage}
    PROVE  PageIsKnown(d)'
  <1>1. CASE desk'[d] = NoPage
    BY <1>1 DEF PageIsKnown, NoPage
  <1>2. CASE desk'[d] = desk[d] /\ desk[d].at = "idle"
    BY <1>2 DEF PageIsKnown
  <1>3. CASE desk'[d] = desk[d] /\ desk[d].at # "idle"
    <2>1. desk[d].journey \in JourneyIds
      BY <1>3, PageContext
    <2>2. PICK j, i : j = desk[d].journey /\ i = desk[d].case
      OBVIOUS
    <2>3. i \in DOMAIN cases[j]
      BY <1>3, <2>2, PageContext
    <2>4. desk[d].at \in {"answering", "answered"} => cases[j][i].reviewer # NoReviewer
      BY <1>3, <2>2 DEF ReviewInvariant, PageIsKnown, OnPage
    <2> QED  BY <1>3, <2>1, <2>2, <2>3, <2>4 DEF CasesStay, PageIsKnown, OnPage
  <1> QED  BY <1>1, <1>2, <1>3

\* A desk that holds no case row leaves its page, or none does anything.
LEMMA PagesStay ==
    ASSUME ReviewInvariant, CasesStay, UNCHANGED rowLock,
           \/ UNCHANGED desk
           \/ \E d \in Desks : ~Answering(d) /\ ClosePage(d)
    PROVE  /\ CasesHaveJourneys'
           /\ desk' \in [Desks -> Page \cup {NoPage}]
           /\ RowsHeld'
           /\ \A e \in Desks : PageIsKnown(e)'
  <1>1. CasesHaveJourneys'
    BY DEF CasesStay, CasesHaveJourneys
  <1>2. desk \in [Desks -> Page \cup {NoPage}]
    BY DEF ReviewInvariant
  <1>3. \A e \in Desks : desk'[e] \in {desk[e], NoPage}
    BY <1>2 DEF ClosePage
  <1>4. desk' \in [Desks -> Page \cup {NoPage}]
    BY <1>2 DEF ClosePage
  <1>5. RowsHeld'
    <2>1. \A e \in Desks : /\ Answering(e)' <=> Answering(e)
                           /\ Answering(e) => desk'[e] = desk[e]
      BY <1>2 DEF ClosePage, Answering, NoPage
    <2>2. {e \in Desks : Answering(e)'} = {e \in Desks : Answering(e)}
      BY <2>1
    <2>3. {<<desk'[d].journey, desk'[d].case>> : d \in {e \in Desks : Answering(e)'}} =
          {<<desk[d].journey, desk[d].case>> : d \in {e \in Desks : Answering(e)}}
      BY <2>1, <2>2
    <2>4. \A d, e \in Desks : Answering(d)' /\ Answering(e)' /\ d # e =>
             <<desk'[d].journey, desk'[d].case>> # <<desk'[e].journey, desk'[e].case>>
      BY <2>1 DEF ReviewInvariant, RowsHeld
    <2> QED  BY <2>3, <2>4 DEF ReviewInvariant, RowsHeld
  <1>6. \A e \in Desks : PageIsKnown(e)'
    BY <1>3, PageStays
  <1> QED  BY <1>1, <1>4, <1>5, <1>6

\* An operation of a reviewer, or of time, that moves one case.
LEMMA MoveStep ==
    ASSUME ReviewInvariant, NEW j \in JourneyIds, NEW i \in DOMAIN cases[j],
           NEW row \in Case, Moves(j, i, row),
           \/ UNCHANGED desk
           \/ \E d \in Desks : ~Answering(d) /\ ClosePage(d)
    PROVE  ReviewInvariant'
  <1>1. ChainInvariant' /\ CaseInvariant'
    BY MovesHistory, MovesCases DEF ReviewInvariant
  <1>2. CasesStay
    <2>1. cases \in [JourneyIds -> Seq(Case)]
      BY DEF ReviewInvariant, ChainInvariant, TypeOK
    <2>2. cases' = [cases EXCEPT ![j] = [@ EXCEPT ![i] = row]] /\ snapshots' = snapshots
      BY DEF Moves, journeyVars
    <2>3. \A k \in JourneyIds \ {j} : cases'[k] = cases[k]
      BY <2>1, <2>2
    <2>4. DOMAIN cases'[j] = DOMAIN cases[j] /\ cases'[j][i] = row
      BY <2>1, <2>2
    <2>5. \A n \in DOMAIN cases[j] \ {i} : cases'[j][n] = cases[j][n]
      BY <2>1, <2>2
    <2>6. cases[j][i].reviewer # NoReviewer => row.reviewer # NoReviewer
      BY DEF Moves
    <2> QED  BY <2>2, <2>3, <2>4, <2>5, <2>6
             DEF CasesStay, ReviewInvariant, CasesHaveJourneys, Created
  <1>3. UNCHANGED rowLock
    BY DEF Moves
  <1> QED  BY <1>1, <1>2, <1>3, PagesStay DEF ReviewInvariant

-----------------------------------------------------------------------------
(* Resolving with EVIDENCE_SUFFICIENT, and what interrupts it.             *)

\* A request of a desk locks a row that no other one holds.
LEMMA RowTaken ==
    ASSUME ReviewInvariant, NEW d \in Desks, ~Answering(d),
           <<desk[d].journey, desk[d].case>> \notin rowLock,
           rowLock' = rowLock \cup {<<desk[d].journey, desk[d].case>>},
           Answering(d)', desk'[d].journey = desk[d].journey, desk'[d].case = desk[d].case,
           \A e \in Desks \ {d} : desk'[e] = desk[e]
    PROVE  RowsHeld'
  <1>1. PICK row : row = <<desk[d].journey, desk[d].case>>
    OBVIOUS
  <1>2. \A e \in Desks \ {d} : Answering(e)' <=> Answering(e)
    BY DEF Answering
  <1>3. rowLock' = {<<desk'[e].journey, desk'[e].case>> : e \in {f \in Desks : Answering(f)'}}
    <2>1. \A e \in Desks : Answering(e)' <=> Answering(e) \/ e = d
      BY <1>2
    <2>2. \A e \in Desks : /\ desk'[e].journey = desk[e].journey
                           /\ desk'[e].case = desk[e].case
      OBVIOUS
    <2>3. rowLock' = {<<desk[e].journey, desk[e].case>> : e \in {f \in Desks : Answering(f)}}
                        \cup {<<desk[d].journey, desk[d].case>>}
      BY DEF ReviewInvariant, RowsHeld
    <2> QED  BY <2>1, <2>2, <2>3
  <1>4. \A e \in Desks : Answering(e) => <<desk[e].journey, desk[e].case>> # row
    BY <1>1 DEF ReviewInvariant, RowsHeld
  <1>5. ASSUME NEW e \in Desks, NEW f \in Desks, Answering(e)', Answering(f)', e # f
        PROVE  <<desk'[e].journey, desk'[e].case>> # <<desk'[f].journey, desk'[f].case>>
    BY <1>1, <1>2, <1>4, <1>5 DEF ReviewInvariant, RowsHeld
  <1> QED  BY <1>3, <1>5 DEF RowsHeld

\* The row is released at the end, and no other request held it.
LEMMA RowReleased ==
    ASSUME ReviewInvariant, NEW d \in Desks, Answering(d), ReleaseCase(d), ~Answering(d)',
           \A e \in Desks \ {d} : desk'[e] = desk[e]
    PROVE  RowsHeld'
  <1>1. \A e \in Desks : /\ Answering(e)' <=> Answering(e) /\ e # d
                         /\ Answering(e)' => desk'[e] = desk[e]
    BY DEF Answering
  <1>2. \A e \in Desks \ {d} : Answering(e) =>
           <<desk[e].journey, desk[e].case>> # <<desk[d].journey, desk[d].case>>
    BY DEF ReviewInvariant, RowsHeld
  <1>3. rowLock' = {<<desk'[e].journey, desk'[e].case>> : e \in {f \in Desks : Answering(f)'}}
    <2>1. rowLock' = {<<desk[e].journey, desk[e].case>> : e \in {f \in Desks : Answering(f)}}
                        \ {<<desk[d].journey, desk[d].case>>}
      BY DEF ReviewInvariant, RowsHeld, ReleaseCase
    <2> QED  BY <1>1, <1>2, <2>1
  <1>4. \A e, f \in Desks : Answering(e)' /\ Answering(f)' /\ e # f =>
           <<desk'[e].journey, desk'[e].case>> # <<desk'[f].journey, desk'[f].case>>
    BY <1>1 DEF ReviewInvariant, RowsHeld
  <1> QED  BY <1>3, <1>4 DEF RowsHeld

\* A step that writes nothing but pages and their locks.
LEMMA TablesStay ==
    ASSUME ReviewInvariant, UNCHANGED <<journeyVars, outbox, records, cases, evidence>>,
           UNCHANGED <<lock, clientVars>>,
           desk' \in [Desks -> Page \cup {NoPage}], RowsHeld'
    PROVE  ChainInvariant' /\ CaseInvariant' /\ CasesStay
  <1>1. rowLock' \in SUBSET (JourneyIds \X Version)
    <2>1. \A d \in Desks : Answering(d)' => desk'[d] \in Page
      BY DEF Answering, NoPage
    <2> QED  BY <2>1 DEF RowsHeld, Page
  <1>2. TypeOK'
    BY <1>1 DEF ReviewInvariant, ChainInvariant, TypeOK, journeyVars, clientVars
  <1>3. \A d \in Clients : Grounded(d)'
    BY GroundedIsInvariant DEF Grounded, ReviewInvariant, journeyVars, clientVars
  <1>4. ClientsGoOn /\ HandoversGoOn
    BY UploadsUntouched DEF ClientsGoOn, GoesOn, clientVars
  <1>5. CasesStay
    BY DEF CasesStay, ReviewInvariant, CasesHaveJourneys, Created, journeyVars
  <1> QED  BY <1>2, <1>3, <1>4, <1>5, ChainUnchanged, GroundedSuffices, CasesUntouched
           DEF ReviewInvariant, ChainInvariant

LEMMA OpenPageStep ==
    ASSUME ReviewInvariant, NEW d \in Desks, OpenPage(d)
    PROVE  ReviewInvariant'
  <1>0. PICK j \in JourneyIds : \E i \in DOMAIN cases[j] :
           /\ desk[d].at \in {"idle", "viewing"}
           /\ desk' = [desk EXCEPT ![d] = [at |-> "viewing", journey |-> j, case |-> i,
                                           seen |-> cases[j][i].version, expected |-> 0]]
           /\ UNCHANGED vars
    BY DEF OpenPage
  <1>1. PICK i \in DOMAIN cases[j] :
           /\ desk[d].at \in {"idle", "viewing"}
           /\ desk' = [desk EXCEPT ![d] = [at |-> "viewing", journey |-> j, case |-> i,
                                           seen |-> cases[j][i].version, expected |-> 0]]
           /\ UNCHANGED vars
    BY <1>0
  <1>2. desk \in [Desks -> Page \cup {NoPage}]
    BY DEF ReviewInvariant
  <1>3. cases[j][i] \in Case /\ i \in Version
    BY CaseRowType DEF ReviewInvariant, ChainInvariant
  <1>4. desk' \in [Desks -> Page \cup {NoPage}]
    BY <1>1, <1>2, <1>3 DEF Page, Case
  <1>5. /\ desk'[d].at = "viewing" /\ desk'[d].journey = j /\ desk'[d].case = i
        /\ \A e \in Desks \ {d} : desk'[e] = desk[e]
    BY <1>1, <1>2
  <1>6. RowsHeld'
    <2>1. /\ ~Answering(d) /\ ~Answering(d)'
          /\ \A e \in Desks \ {d} : Answering(e)' <=> Answering(e)
      BY <1>1, <1>5 DEF Answering
    <2> QED  BY <1>1, <1>5, <2>1 DEF ReviewInvariant, RowsHeld, vars
  <1>7. ChainInvariant' /\ CaseInvariant' /\ CasesStay
    BY <1>1, <1>4, <1>6, TablesStay DEF vars, journeyVars, clientVars
  <1>8. PageIsKnown(d)'
    BY <1>1, <1>5 DEF PageIsKnown, vars
  <1>9. \A e \in Desks \ {d} : PageIsKnown(e)'
    BY <1>5, <1>7, PageStays
  <1> QED  BY <1>4, <1>6, <1>7, <1>8, <1>9 DEF ReviewInvariant, CasesStay, CasesHaveJourneys

LEMMA BeginStep ==
    ASSUME ReviewInvariant, NEW d \in Desks, BeginSufficient(d)
    PROVE  ReviewInvariant'
  <1>1. /\ desk[d].at = "viewing"
        /\ "RESOLVED" \in AllowedFrom(OnPage(d).status)
        /\ desk' = [desk EXCEPT ![d].at = "answering",
                                ![d].expected = journey[desk[d].journey].current]
        /\ UNCHANGED <<journeyVars, outbox, records, cases, evidence, lock, clientVars>>
    BY DEF BeginSufficient, MayMove
  <1>2. desk \in [Desks -> Page \cup {NoPage}] /\ journey \in [JourneyIds -> JourneyRow]
    BY DEF ReviewInvariant, ChainInvariant, TypeOK
  <1>3. /\ desk[d] \in Page /\ desk[d].journey \in JourneyIds
        /\ desk[d].case \in DOMAIN cases[desk[d].journey]
        /\ OnPage(d) \in Case /\ WellReviewed(OnPage(d))
    BY <1>1, PageContext
  <1>4. /\ Answering(d)' /\ desk'[d] \in Page
        /\ desk'[d].journey = desk[d].journey /\ desk'[d].case = desk[d].case
        /\ \A e \in Desks \ {d} : desk'[e] = desk[e]
    <2>1. journey[desk[d].journey].current \in Nat
      BY <1>2, <1>3 DEF JourneyRow
    <2> QED  BY <1>1, <1>2, <1>3, <2>1 DEF Page, Answering
  <1>5. desk' \in [Desks -> Page \cup {NoPage}]
    BY <1>1, <1>2, <1>4
  <1>6. RowsHeld'
    BY <1>1, <1>4, RowTaken DEF BeginSufficient, MayMove, Answering
  <1>7. ChainInvariant' /\ CaseInvariant' /\ CasesStay
    BY <1>1, <1>5, <1>6, TablesStay
  <1>8. PageIsKnown(d)'
    <2>1. OnPage(d).reviewer # NoReviewer
      BY <1>1, <1>3 DEF AllowedFrom, WellReviewed
    <2> QED  BY <1>1, <1>3, <1>4, <2>1 DEF PageIsKnown, OnPage
  <1>9. \A e \in Desks \ {d} : PageIsKnown(e)'
    BY <1>4, <1>7, PageStays
  <1> QED  BY <1>5, <1>6, <1>7, <1>8, <1>9 DEF ReviewInvariant, CasesStay, CasesHaveJourneys

\* A refusal, a crash and a deadlock end the request without a trace.
LEMMA ReleaseStep ==
    ASSUME ReviewInvariant, NEW d \in Desks, Answering(d), ReleaseCase(d), ClosePage(d),
           UNCHANGED <<journeyVars, outbox, records, cases, evidence>>,
           UNCHANGED <<lock, clientVars>>
    PROVE  ReviewInvariant'
  <1>1. desk \in [Desks -> Page \cup {NoPage}]
    BY DEF ReviewInvariant
  <1>2. /\ desk' \in [Desks -> Page \cup {NoPage}]
        /\ ~Answering(d)' /\ desk'[d] = NoPage
        /\ \A e \in Desks \ {d} : desk'[e] = desk[e]
    BY <1>1 DEF ClosePage, Answering, NoPage
  <1>3. RowsHeld'
    BY <1>2, RowReleased
  <1>4. ChainInvariant' /\ CaseInvariant' /\ CasesStay
    BY <1>2, <1>3, TablesStay
  <1>5. \A e \in Desks : PageIsKnown(e)'
    BY <1>2, <1>4, PageStays
  <1> QED  BY <1>2, <1>3, <1>4, <1>5 DEF ReviewInvariant, CasesStay, CasesHaveJourneys

LEMMA RefusalStep ==
    ASSUME ReviewInvariant, NEW d \in Desks, RejectAnswer(d) \/ CrashDesk(d)
    PROVE  ReviewInvariant'
  <1>1. UNCHANGED <<journeyVars, outbox, records, cases, evidence, lock, clientVars>>
    BY DEF RejectAnswer, CrashDesk
  <1>2. ClosePage(d)
    BY DEF RejectAnswer, CrashDesk
  <1>3. CASE Answering(d)
    <2>1. ReleaseCase(d)
      BY <1>3 DEF RejectAnswer, CrashDesk, ReleaseCase
    <2> QED  BY <1>1, <1>2, <1>3, <2>1, ReleaseStep
  <1>4. CASE ~Answering(d)
    <2>1. UNCHANGED rowLock
      BY <1>4 DEF RejectAnswer, CrashDesk
    <2>2. CasesStay
      BY <1>1 DEF CasesStay, ReviewInvariant, CasesHaveJourneys, Created, journeyVars
    <2>3. /\ CasesHaveJourneys' /\ desk' \in [Desks -> Page \cup {NoPage}] /\ RowsHeld'
          /\ \A e \in Desks : PageIsKnown(e)'
      BY <1>2, <1>4, <2>1, <2>2, PagesStay
    <2>4. ChainInvariant' /\ CaseInvariant'
      BY <1>1, <2>3, TablesStay
    <2> QED  BY <2>3, <2>4 DEF ReviewInvariant
  <1> QED  BY <1>3, <1>4

\* The answer is about a journey that exists, and about the question of the case.
LEMMA AnswerContext ==
    ASSUME ReviewInvariant, NEW d \in Desks, AnswerForCase(d)
    PROVE  \E j \in JourneyIds, a \in Ambiguities, v \in Value :
              /\ j = desk[d].journey /\ a = OnPage(d).ambiguity
              /\ WriteAnswer(j, a, v)
              /\ lock[j] = NoOne
              /\ Created(j)
              /\ journey[j].current = Len(snapshots[j])
              /\ journey[j].current \in DOMAIN snapshots[j]
              /\ Current(j).ver = Len(snapshots[j])
  <1>1. PICK in \in Answers :
           /\ Answering(d) /\ Free(desk[d].journey)
           /\ in.ambiguity = OnPage(d).ambiguity
           /\ WriteAnswer(desk[d].journey, in.ambiguity, in.typed)
    BY DEF AnswerForCase
  <1>2. PICK j \in JourneyIds : j = desk[d].journey /\ Created(j)
    BY <1>1, PageContext DEF Answering
  <1>3. PICK a \in Ambiguities, v \in Value : a = in.ambiguity /\ v = in.typed
    BY InputsAssumption DEF Answer, Value
  <1>4. snapshots[j] \in Seq(Snapshot)
    BY DEF ReviewInvariant, ChainInvariant, TypeOK
  <1>5. Len(snapshots[j]) \in DOMAIN snapshots[j]
    BY <1>2, <1>4, LenProperties DEF Created
  <1>6. /\ journey[j].current = Len(snapshots[j])
        /\ snapshots[j][Len(snapshots[j])].ver = Len(snapshots[j])
    BY <1>5 DEF ReviewInvariant, ChainInvariant, ChainIsLinear
  <1> QED  BY <1>1, <1>2, <1>3, <1>5, <1>6 DEF Free, Current

LEMMA AnswerStep ==
    ASSUME ReviewInvariant, NEW d \in Desks, AnswerForCase(d)
    PROVE  ReviewInvariant'
  <1>1. PICK j \in JourneyIds, a \in Ambiguities, v \in Value :
           /\ j = desk[d].journey
           /\ WriteAnswer(j, a, v)
           /\ lock[j] = NoOne /\ Created(j)
           /\ journey[j].current = Len(snapshots[j])
           /\ journey[j].current \in DOMAIN snapshots[j]
           /\ Current(j).ver = Len(snapshots[j])
    BY AnswerContext
  <1>2. /\ Answering(d) /\ ReleaseCase(d)
        /\ desk' = [desk EXCEPT ![d].at = "answered"]
        /\ UNCHANGED <<records, cases, evidence, lock, clientVars>>
    BY DEF AnswerForCase
  <1>3. TypeOK /\ desk \in [Desks -> Page \cup {NoPage}]
    BY DEF ReviewInvariant, ChainInvariant
  <1>4. desk[d] \in Page
    BY <1>2, PageContext DEF Answering
  <1>5. /\ desk' \in [Desks -> Page \cup {NoPage}]
        /\ desk'[d].at = "answered"
        /\ desk'[d].journey = desk[d].journey /\ desk'[d].case = desk[d].case
        /\ \A e \in Desks \ {d} : desk'[e] = desk[e]
    BY <1>2, <1>3, <1>4 DEF Page
  <1>6. RowsHeld'
    BY <1>2, <1>5, RowReleased DEF Answering
  <1>7. /\ Clarified(j, a, v) \in Snapshot
        /\ Clarified(j, a, v).ver = Len(snapshots[j]) + 1
        /\ Clarified(j, a, v).prev = Len(snapshots[j])
    BY <1>1, <1>3, ClarifiedType
  <1>8. \E event : WriteMutation(j, Clarified(j, a, v), event)
    BY <1>1 DEF WriteAnswer
  <1>9. /\ ChainIsLinear'
        /\ \A k \in JourneyIds : DOMAIN snapshots[k] \subseteq DOMAIN snapshots'[k]
        /\ \A k \in JourneyIds \ {j} : snapshots'[k] = snapshots[k]
    BY <1>7, <1>8, HistoryGrows DEF ReviewInvariant
  <1>10. TypeOK'
    <2>1. /\ snapshots' \in [JourneyIds -> Seq(Snapshot)]
          /\ journey' \in [JourneyIds -> JourneyRow]
          /\ audit' \in [JourneyIds -> Seq(AuditEvent)]
          /\ outbox' \in [JourneyIds -> Seq(EventType)]
      BY <1>1, <1>3, WriteAnswerType
    <2>2. rowLock' \in SUBSET (JourneyIds \X Version)
      BY <1>2, <1>3 DEF ReleaseCase, TypeOK
    <2> QED  BY <1>2, <1>3, <2>1, <2>2 DEF TypeOK, clientVars
  <1>11. ASSUME NEW c \in Clients
         PROVE  Grounded(c)'
    <2>1. pc[c] = "open" => lock[request[c].journey] = c /\ request[c].journey \in JourneyIds
      BY GroundedIsInvariant, RequestContext DEF Grounded, ReviewInvariant
    <2>2. pc[c] = "open" => request[c].journey \in JourneyIds \ {j}
      BY <1>1, <2>1, JourneysAssumption
    <2> QED  BY <1>2, <1>9, <2>1, <2>2, Undisturbed DEF ReviewInvariant, clientVars
  <1>12. ChainInvariant'
    BY <1>9, <1>10, <1>11, GroundedSuffices DEF ChainInvariant
  <1>13. CaseInvariant'
    <2>1. ClientsGoOn /\ HandoversGoOn
      BY <1>2, UploadsUntouched DEF ClientsGoOn, GoesOn, clientVars
    <2> QED  BY <1>2, <2>1, CasesUntouched DEF ReviewInvariant
  <1>14. CasesStay
    <2>1. \A k \in JourneyIds : Created(k) => Created(k)'
      <3>1. snapshots'[j] # <<>>
        BY <1>1, <1>9
      <3> QED  BY <1>9, <3>1 DEF Created
    <2> QED  BY <1>2, <2>1 DEF CasesStay, ReviewInvariant, CasesHaveJourneys
  <1>15. PageIsKnown(d)'
    BY <1>2, <1>5 DEF ReviewInvariant, PageIsKnown, OnPage, Answering
  <1>16. \A e \in Desks \ {d} : PageIsKnown(e)'
    BY <1>5, <1>14, PageStays
  <1> QED  BY <1>5, <1>6, <1>12, <1>13, <1>14, <1>15, <1>16
           DEF ReviewInvariant, CasesStay, CasesHaveJourneys

LEMMA DeadlockStep ==
    ASSUME ReviewInvariant, NEW c \in Clients, NEW d \in Desks, BreakDeadlock(c, d)
    PROVE  ReviewInvariant'
  <1>1. /\ pc[c] = "open" /\ Answering(d)
        /\ UNCHANGED <<journeyVars, outbox, records, cases, evidence>>
    BY DEF BreakDeadlock, Deadlocked
  <1>2. CASE ReleaseCase(d) /\ ClosePage(d) /\ UNCHANGED <<lock, clientVars>>
    BY <1>1, <1>2, ReleaseStep
  <1>3. CASE /\ Unlock(request[c].journey) /\ Answered(c, "error")
             /\ UNCHANGED <<rowLock, request, desk>>
    <2>1. TypeOK'
      <3>1. TypeOK
        BY DEF ReviewInvariant, ChainInvariant
      <3>2. lock' \in [JourneyIds -> Clients \cup {NoOne}]
        BY <1>3, <3>1 DEF Unlock, TypeOK
      <3>3. /\ pc' \in [Clients -> {"idle", "waiting", "open", "wrote", "answered"}]
            /\ tx' \in [Clients -> Writes \cup {None}]
            /\ reply' \in [Clients -> {"none", "ok", "refused", "error", "lost"}]
        BY <1>3, <3>1, AnsweredType
      <3> QED  BY <1>1, <1>3, <3>1, <3>2, <3>3 DEF TypeOK, journeyVars
    <2>2. /\ pc'[c] = "answered"
          /\ \A b \in Clients \ {c} : pc'[b] = pc[b] /\ tx'[b] = tx[b]
      BY <1>3 DEF Answered, ReviewInvariant, ChainInvariant, TypeOK
    <2>3. \A b \in Clients \ {c} : pc[b] = "open" => lock'[request[b].journey] = b
      <3>1. \A b \in Clients : pc[b] = "open" => /\ lock[request[b].journey] = b
                                                 /\ request[b].journey \in JourneyIds
        BY GroundedIsInvariant, RequestContext DEF Grounded, ReviewInvariant
      <3>2. lock \in [JourneyIds -> Clients \cup {NoOne}]
        BY DEF ReviewInvariant, ChainInvariant, TypeOK
      <3> QED  BY <1>1, <1>3, <3>1, <3>2 DEF Unlock
    <2>4. ChainIsLinear' /\ ExpectedStaysCurrent' /\ RequestsAreGrounded'
      BY <1>1, <1>3, <2>2, <2>3, QuietStep DEF ReviewInvariant
    <2>5. CaseInvariant'
      <3>1. ClientsGoOn
        BY <1>3, <2>2 DEF ClientsGoOn, GoesOn
      <3> QED  BY <1>1, <3>1, UploadsUntouched, CasesUntouched DEF ReviewInvariant
    <2>6. CasesStay
      BY <1>1 DEF CasesStay, ReviewInvariant, CasesHaveJourneys, Created, journeyVars
    <2> QED  BY <1>3, <2>1, <2>4, <2>5, <2>6, PagesStay DEF ReviewInvariant, ChainInvariant
  <1> QED  BY <1>2, <1>3 DEF BreakDeadlock

-----------------------------------------------------------------------------
(* What the customer side does to cases.                                   *)

\* It never decides one: a case it finds goes back to its reviewer at most.
RowKept(j, i) ==
    LET old == cases[j][i]
        new == cases'[j][i]
    IN  /\ i \in DOMAIN cases'[j]
        /\ new.ambiguity = old.ambiguity
        /\ new.resolution = old.resolution
        /\ new.reviewer = old.reviewer
        /\ new.status # old.status => new.status = "UNDER_REVIEW"

RowIsNew(j, i) ==
    cases'[j][i].status = "REVIEW_REQUIRED" /\ cases'[j][i].resolution = "NONE"

CustomerRows ==
    \A j \in JourneyIds :
        /\ \A i \in DOMAIN cases[j] : RowKept(j, i)
        /\ \A i \in DOMAIN cases'[j] \ DOMAIN cases[j] : RowIsNew(j, i)
        /\ DOMAIN cases'[j] # DOMAIN cases[j] => Created(j)'

LEMMA CommitRows ==
    ASSUME ReviewInvariant, NEW c \in Clients, CommitApply(c)
    PROVE  /\ CustomerRows
           /\ \A j \in JourneyIds : \A i \in DOMAIN cases[j] : cases'[j][i] = cases[j][i]
  <1>1. CASE tx[c].case.found # "new"
    <2>1. UNCHANGED cases
      BY <1>1 DEF CommitApply
    <2> QED  BY <2>1 DEF CustomerRows, RowKept
  <1>2. CASE tx[c].case.found = "new"
    <2>1. PICK j \in JourneyIds : j = request[c].journey
      BY RequestContext DEF CommitApply, ReviewInvariant
    <2>2. PICK row : /\ row.status = "REVIEW_REQUIRED" /\ row.resolution = "NONE"
                     /\ cases' = [cases EXCEPT ![j] = Append(@, row)]
      BY <1>2, <2>1 DEF CommitApply, NewCase
    <2>3. snapshots' = [snapshots EXCEPT ![j] = Append(@, tx[c].snapshot)]
      BY <2>1 DEF CommitApply, WriteMutation
    <2>4. /\ cases \in [JourneyIds -> Seq(Case)] /\ snapshots \in [JourneyIds -> Seq(Snapshot)]
          /\ TypeOK'
      BY CommitTypes DEF ReviewInvariant, ChainInvariant, TypeOK
    <2>5. cases[j] \in Seq(Case) /\ cases'[j] = Append(cases[j], row)
      BY <2>2, <2>4
    <2>6. /\ DOMAIN cases'[j] = DOMAIN cases[j] \cup {Len(cases[j]) + 1}
          /\ cases'[j][Len(cases[j]) + 1] = row
          /\ \A i \in DOMAIN cases[j] : cases'[j][i] = cases[j][i]
      <3>1. Len(cases[j]) \in Nat /\ DOMAIN cases[j] = 1..Len(cases[j])
        BY <2>5, LenProperties
      <3>2. /\ DOMAIN Append(cases[j], row) = 1..Len(cases[j]) + 1
            /\ \A i \in 1..Len(cases[j]) : Append(cases[j], row)[i] = cases[j][i]
            /\ Append(cases[j], row)[Len(cases[j]) + 1] = row
        BY <2>5, <3>1
      <3> QED  BY <2>5, <3>1, <3>2
    <2>7. \A k \in JourneyIds \ {j} : cases'[k] = cases[k]
      BY <2>2, <2>4
    <2>8. Created(j)'
      <3>1. snapshots[j] \in Seq(Snapshot) /\ snapshots'[j] = Append(snapshots[j], tx[c].snapshot)
        BY <2>3, <2>4
      <3> QED  BY <3>1 DEF Created
    <2> QED  BY <2>2, <2>6, <2>7, <2>8 DEF CustomerRows, RowKept, RowIsNew
  <1> QED  BY <1>1, <1>2

LEMMA ReopenRows ==
    ASSUME ReviewInvariant, NEW c \in Clients, ReopenAndCommit(c)
    PROVE  /\ CustomerRows
           /\ \A j \in JourneyIds : \A i \in DOMAIN cases[j] :
                 cases'[j][i].status # cases[j][i].status =>
                     cases[j][i].status = "ADDITIONAL_INFO_REQUIRED"
  <1>1. pc[c] = "open" /\ Reopens(c)
    BY DEF ReopenAndCommit
  <1>2. PICK j \in JourneyIds : j = request[c].journey
    BY <1>1, RequestContext DEF ReviewInvariant
  <1>3. PICK i, read : i = tx[c].case.index /\ read = tx[c].case.row
    OBVIOUS
  <1>4. /\ i \in DOMAIN cases[j] /\ AsRead(cases[j][i], read)
        /\ read.status = "ADDITIONAL_INFO_REQUIRED"
    BY <1>1, <1>2, <1>3 DEF ReviewInvariant, CaseInvariant, ReadStaysTrue, OpenCases, Reopens
  <1>5. cases' = [cases EXCEPT ![j] = [@ EXCEPT ![i] = Reopen(cases[j][i], read)]]
    BY <1>2, <1>3 DEF ReopenAndCommit
  <1>6. /\ cases[j] \in Seq(Case) /\ cases[j][i] \in Case
        /\ cases \in [JourneyIds -> Seq(Case)]
    BY <1>4, CaseRowType DEF ReviewInvariant, ChainInvariant, TypeOK
  <1>7. /\ cases'[j][i] = Reopen(cases[j][i], read)
        /\ DOMAIN cases'[j] = DOMAIN cases[j]
    BY <1>4, <1>5, <1>6
  <1>8. /\ \A n \in DOMAIN cases[j] \ {i} : cases'[j][n] = cases[j][n]
        /\ \A k \in JourneyIds \ {j} : cases'[k] = cases[k]
    BY <1>5, <1>6
  <1>9. WellReviewed(read) /\ cases[j][i].reviewer # NoReviewer
    <2>1. WellReviewed(cases[j][i])
      BY <1>4 DEF ReviewInvariant, CaseInvariant
    <2> QED  BY <1>4, <2>1 DEF AsRead, WellReviewed
  <1>10. /\ RowKept(j, i)
         /\ cases[j][i].status = "ADDITIONAL_INFO_REQUIRED"
    BY <1>4, <1>6, <1>7, <1>9, ReopenedRow DEF RowKept, AsRead
  <1> QED  BY <1>7, <1>8, <1>10 DEF CustomerRows, RowKept

LEMMA UploadRows ==
    ASSUME ReviewInvariant, NEW u \in Uploads, StoreEvidence(u)
    PROVE  CustomerRows
  <1>1. PICK j, seen : /\ j = evidence[u].journey /\ seen = evidence[u].seen
    OBVIOUS
  <1>2. PICK waiting :
           /\ waiting = {i \in DOMAIN seen : seen[i].status = "ADDITIONAL_INFO_REQUIRED"}
           /\ cases' = [cases EXCEPT ![j] = [i \in DOMAIN cases[j] |->
                           IF i \in waiting THEN Reopen(cases[j][i], seen[i]) ELSE cases[j][i]]]
    BY <1>1 DEF StoreEvidence
  <1>3. cases \in [JourneyIds -> Seq(Case)]
    BY DEF ReviewInvariant, ChainInvariant, TypeOK
  <1>4. ASSUME NEW k \in JourneyIds, k # j
        PROVE  cases'[k] = cases[k]
    BY <1>2, <1>3, <1>4
  <1>5. ASSUME NEW k \in JourneyIds, k = j
        PROVE  /\ DOMAIN cases'[k] = DOMAIN cases[k]
               /\ \A i \in DOMAIN cases[k] : RowKept(k, i)
    <2>1. DOMAIN cases'[k] = DOMAIN cases[k]
      BY <1>2, <1>3, <1>5
    <2>2. ASSUME NEW i \in DOMAIN cases[k], i \notin waiting
          PROVE  RowKept(k, i)
      <3>1. cases'[k][i] = cases[k][i]
        BY <1>2, <1>3, <1>5, <2>2
      <3> QED  BY <2>1, <3>1 DEF RowKept
    <2>3. ASSUME NEW i \in DOMAIN cases[k], i \in waiting
          PROVE  RowKept(k, i)
      <3>1. cases'[k][i] = Reopen(cases[k][i], seen[i])
        BY <1>2, <1>3, <1>5, <2>3
      <3>2. Handing(u, k)
        BY <1>1, <1>5 DEF Handing, StoreEvidence
      <3>3. /\ WellReviewed(seen[i]) /\ seen[i].status = "ADDITIONAL_INFO_REQUIRED"
            /\ seen[i].reviewer # NoReviewer => cases[k][i].reviewer # NoReviewer
        BY <1>1, <1>2, <2>3, <3>2 DEF ReviewInvariant, CaseInvariant, HandoverIsKnown
      <3>4. cases[k][i].reviewer # NoReviewer
        BY <3>3 DEF WellReviewed
      <3>5. cases[k][i] \in Case
        BY CaseRowType DEF ReviewInvariant, ChainInvariant
      <3> QED  BY <2>1, <3>1, <3>3, <3>4, <3>5, ReopenedRow DEF RowKept
    <2> QED  BY <2>1, <2>2, <2>3
  <1> QED  BY <1>4, <1>5 DEF CustomerRows, RowKept

LEMMA CustomerKeepsRows ==
    ASSUME ReviewInvariant, CustomerNext
    PROVE  CustomerRows /\ UNCHANGED rowLock
  <1>1. ASSUME UNCHANGED cases
        PROVE  CustomerRows
    BY <1>1 DEF CustomerRows, RowKept
  <1>2. ASSUME NEW c \in Clients,
               \/ BeginApply(c) \/ BeginClarify(c) \/ ReplayAfterWait(c) \/ RejectApply(c)
               \/ OpenApply(c) \/ Clarify(c) \/ RejectClarify(c) \/ CollideOnKey(c)
               \/ CollideOnNumber(c) \/ FinishApply(c) \/ Crash(c) \/ Return(c)
        PROVE  UNCHANGED <<cases, rowLock>>
    BY <1>2 DEF BeginApply, BeginClarify, ReplayAfterWait, RejectApply, OpenApply, Clarify,
       RejectClarify, CollideOnKey, CollideOnNumber, FinishApply, Crash, Return
  <1>3. ASSUME NEW c \in Clients, CommitApply(c) \/ ReopenAndCommit(c)
        PROVE  CustomerRows /\ UNCHANGED rowLock
    BY <1>3, CommitRows, ReopenRows DEF CommitApply, ReopenAndCommit
  <1>4. ASSUME NEW j \in JourneyIds, CreateJourney(j)
        PROVE  UNCHANGED <<cases, rowLock>>
    BY <1>4 DEF CreateJourney
  <1>5. ASSUME NEW u \in Uploads, AnalyseEvidence(u) \/ AbortEvidence(u)
        PROVE  UNCHANGED <<cases, rowLock>>
    BY <1>5 DEF AnalyseEvidence, AbortEvidence
  <1>6. ASSUME NEW u \in Uploads, StoreEvidence(u)
        PROVE  CustomerRows /\ UNCHANGED rowLock
    BY <1>6, UploadRows DEF StoreEvidence
  <1> QED  BY <1>1, <1>2, <1>3, <1>4, <1>5, <1>6 DEF CustomerNext, Serve, Finish

-----------------------------------------------------------------------------
(* The inductive step.                                                     *)

\* An operation that writes a case, and what it may write as its resolution.
LEMMA DeskMoves ==
    ASSUME ReviewInvariant, NEW d \in Desks,
           \/ ClaimCase(d) \/ RequestInformation(d) \/ EscalateCase(d)
           \/ ResolveOther(d) \/ FinishSufficient(d)
    PROVE  /\ desk[d].journey \in JourneyIds
           /\ desk[d].case \in DOMAIN cases[desk[d].journey]
           /\ ClosePage(d) /\ ~Answering(d)
           /\ \E row \in Case :
                 /\ Moves(desk[d].journey, desk[d].case, row)
                 /\ row.resolution = "EVIDENCE_SUFFICIENT" =>
                       OnPage(d).resolution = "EVIDENCE_SUFFICIENT" \/ desk[d].at = "answered"
  <1>1. CASE ClaimCase(d)
    <2>1. desk[d].at = "viewing" /\ ClosePage(d)
      BY <1>1 DEF ClaimCase, MayMove
    <2> QED  BY <1>1, <2>1, ClaimMoves, PageContext DEF Answering
  <1>2. ASSUME NEW status \in {"ADDITIONAL_INFO_REQUIRED", "ESCALATED", "RESOLVED"},
               NEW resolution \in {"NONE", "OTHER"},
               NEW event \in EventType \ {"JOURNEY_COMPLETED"},
               status = "RESOLVED" => event = "JOURNEY_RESOLVED",
               Decide(d, status, resolution, event)
        PROVE  /\ ClosePage(d) /\ desk[d].at = "viewing"
               /\ \E row \in Case : /\ Moves(desk[d].journey, desk[d].case, row)
                                    /\ row.resolution # "EVIDENCE_SUFFICIENT"
    <2>1. ClosePage(d) /\ desk[d].at = "viewing"
      BY <1>2 DEF Decide, MayMove
    <2>2. resolution # "EVIDENCE_SUFFICIENT"
      OBVIOUS
    <2>3. \E row \in Case : /\ Moves(desk[d].journey, desk[d].case, row)
                            /\ row.resolution = resolution
      BY <1>2, DecideMoves
    <2> QED  BY <2>1, <2>2, <2>3
  <1>3. CASE RequestInformation(d) \/ EscalateCase(d) \/ ResolveOther(d)
    <2>1. {"CUSTOMER_ACTION_REQUIRED", "ESCALATED", "JOURNEY_RESOLVED"}
             \subseteq EventType \ {"JOURNEY_COMPLETED"}
      BY DEF EventType
    <2>2. /\ ClosePage(d) /\ desk[d].at = "viewing"
          /\ \E row \in Case : /\ Moves(desk[d].journey, desk[d].case, row)
                               /\ row.resolution # "EVIDENCE_SUFFICIENT"
      <3>1. CASE RequestInformation(d)
        BY <1>2, <2>1, <3>1 DEF RequestInformation
      <3>2. CASE EscalateCase(d)
        BY <1>2, <2>1, <3>2 DEF EscalateCase
      <3>3. CASE ResolveOther(d)
        BY <1>2, <2>1, <3>3 DEF ResolveOther
      <3> QED  BY <1>3, <3>1, <3>2, <3>3
    <2> QED  BY <2>2, PageContext DEF Answering
  <1>4. CASE FinishSufficient(d)
    <2>1. desk[d].at = "answered" /\ ClosePage(d)
      BY <1>4 DEF FinishSufficient
    <2> QED  BY <1>4, <2>1, FinishMoves, PageContext DEF Answering
  <1> QED  BY <1>1, <1>3, <1>4

\* What a desk, time or the deadlock detector does.
DeskStep ==
    \/ \E d \in Desks : DeskNext(d)
    \/ \E j \in JourneyIds : LockExpires(j)
    \/ \E c \in Clients, d \in Desks : BreakDeadlock(c, d)

LEMMA DeskStepKeeps ==
    ASSUME ReviewInvariant, DeskStep
    PROVE  ReviewInvariant'
  <1>1. ASSUME NEW d \in Desks, DeskNext(d)
        PROVE  ReviewInvariant'
    <2>1. CASE \/ ClaimCase(d) \/ RequestInformation(d) \/ EscalateCase(d)
               \/ ResolveOther(d) \/ FinishSufficient(d)
      <3>1. PICK j \in JourneyIds : j = desk[d].journey
        BY <2>1, DeskMoves
      <3>2. PICK i \in DOMAIN cases[j] : i = desk[d].case
        BY <2>1, <3>1, DeskMoves
      <3>3. /\ \E row \in Case : Moves(j, i, row)
            /\ ClosePage(d) /\ ~Answering(d)
        BY <2>1, <3>1, <3>2, DeskMoves
      <3> QED  BY <3>3, MoveStep
    <2> QED  BY <1>1, <2>1, OpenPageStep, BeginStep, AnswerStep, RefusalStep
             DEF DeskNext, ServeDesk
  <1>2. ASSUME NEW j \in JourneyIds, LockExpires(j)
        PROVE  ReviewInvariant'
    <2>1. UNCHANGED desk
      BY <1>2 DEF LockExpires
    <2> QED  BY <1>2, <2>1, ExpiryMoves, MoveStep
  <1> QED  BY <1>1, <1>2, DeadlockStep DEF DeskStep

LEMMA CustomerStepKeeps ==
    ASSUME ReviewInvariant, AllPrepared, CustomerNext, UNCHANGED desk
    PROVE  ReviewInvariant'
  <1>1. ChainInvariant' /\ CaseInvariant'
    BY ChainStep, CustomerCases DEF ReviewInvariant, Next
  <1>2. CustomerRows /\ UNCHANGED rowLock
    BY CustomerKeepsRows
  <1>3. \A j \in JourneyIds : Created(j) => Created(j)'
    <2>1. ASSUME NEW j \in JourneyIds, Created(j)
          PROVE  Created(j)'
      <3>1. \A i \in DOMAIN snapshots[j] : i \in DOMAIN snapshots'[j]
        BY StepKinds, HistoryIsKept DEF ReviewInvariant, ChainInvariant, Next
      <3>2. snapshots[j] \in Seq(Snapshot) /\ snapshots'[j] \in Seq(Snapshot)
        BY <1>1 DEF ReviewInvariant, ChainInvariant, TypeOK
      <3> QED  BY <2>1, <3>1, <3>2, LenProperties DEF Created
    <2> QED  BY <2>1
  <1>4. CasesStay
    BY <1>2, <1>3 DEF CasesStay, CustomerRows, RowKept, ReviewInvariant, CasesHaveJourneys
  <1> QED  BY <1>1, <1>2, <1>4, PagesStay DEF ReviewInvariant

-----------------------------------------------------------------------------
(* The history, with reviewers who write it too.                           *)

Trailed(j) == Accounted(j) /\ AnnouncedOnce(j) /\ EarnedSoFar(j)

\* Every step is of one of the three kinds that Trail_proofs reasons about.
LEMMA ReviewKinds ==
    ASSUME ReviewInvariant, AllPrepared, ReviewNext
    PROVE  \/ LeavesHistory
           \/ \E j \in JourneyIds : CreateJourney(j)
           \/ \E j \in JourneyIds, snapshot \in Snapshot, event \in AuditEvent :
                 Mutation(j, snapshot, event)
  <1>1. CASE CustomerNext
    BY <1>1, StepKinds DEF ReviewInvariant, Next
  <1>2. ASSUME NEW d \in Desks,
               \/ ClaimCase(d) \/ RequestInformation(d) \/ EscalateCase(d)
               \/ ResolveOther(d) \/ FinishSufficient(d)
        PROVE  LeavesHistory
    BY <1>2, DeskMoves DEF Moves, LeavesHistory
  <1>3. ASSUME NEW j \in JourneyIds, LockExpires(j)
        PROVE  LeavesHistory
    BY <1>3 DEF LockExpires, LeavesHistory
  <1>4. ASSUME NEW d \in Desks, AnswerForCase(d)
        PROVE  \E j \in JourneyIds, snapshot \in Snapshot, event \in AuditEvent :
                  Mutation(j, snapshot, event)
    BY <1>4, AnswerContext, AnswerKind DEF ReviewInvariant, ChainInvariant
  <1>5. ASSUME NEW d \in Desks,
               OpenPage(d) \/ BeginSufficient(d) \/ RejectAnswer(d) \/ CrashDesk(d)
        PROVE  LeavesHistory
    BY <1>5 DEF OpenPage, BeginSufficient, RejectAnswer, CrashDesk, LeavesHistory, vars,
       journeyVars
  <1>6. ASSUME NEW c \in Clients, NEW d \in Desks, BreakDeadlock(c, d)
        PROVE  LeavesHistory
    BY <1>6 DEF BreakDeadlock, LeavesHistory
  <1> QED  BY <1>1, <1>2, <1>3, <1>4, <1>5, <1>6 DEF ReviewNext, DeskNext, ServeDesk

\* A desk tells no client anything, except that PostgreSQL broke a deadlock with its request.
LEMMA DeskTellsErrors ==
    ASSUME ReviewInvariant, DeskStep
    PROVE  \/ UNCHANGED clientVars
           \/ \E c \in Clients : Answered(c, "error") /\ UNCHANGED request
  <1>1. ASSUME NEW d \in Desks, DeskNext(d)
        PROVE  UNCHANGED clientVars
    <2>1. CASE \/ ClaimCase(d) \/ RequestInformation(d) \/ EscalateCase(d)
               \/ ResolveOther(d) \/ FinishSufficient(d)
      BY <2>1, DeskMoves DEF Moves
    <2>2. CASE \/ OpenPage(d) \/ BeginSufficient(d) \/ AnswerForCase(d) \/ RejectAnswer(d)
               \/ CrashDesk(d)
      BY <2>2 DEF OpenPage, BeginSufficient, AnswerForCase, RejectAnswer, CrashDesk, vars,
         clientVars
    <2> QED  BY <1>1, <2>1, <2>2 DEF DeskNext, ServeDesk
  <1>2. ASSUME NEW j \in JourneyIds, LockExpires(j)
        PROVE  UNCHANGED clientVars
    BY <1>2 DEF LockExpires
  <1>3. ASSUME NEW c \in Clients, NEW d \in Desks, BreakDeadlock(c, d)
        PROVE  UNCHANGED clientVars \/ (Answered(c, "error") /\ UNCHANGED request)
    BY <1>3 DEF BreakDeadlock
  <1> QED  BY <1>1, <1>2, <1>3 DEF DeskStep

\* No step of a desk prepares or changes what a client's transaction will write.
LEMMA DeskLeavesClients ==
    ASSUME ReviewInvariant, DeskStep
    PROVE  ClientsGoOn /\ \A c \in Clients : pc'[c] = "wrote" => GoesOn(c)
  <1>1. CASE UNCHANGED clientVars
    BY <1>1 DEF ClientsGoOn, GoesOn, clientVars
  <1>2. ASSUME NEW c \in Clients, Answered(c, "error"), UNCHANGED request
        PROVE  ClientsGoOn /\ \A b \in Clients : pc'[b] = "wrote" => GoesOn(b)
    <2>1. /\ pc \in [Clients -> {"idle", "waiting", "open", "wrote", "answered"}]
          /\ tx \in [Clients -> Writes \cup {None}]
      BY DEF ReviewInvariant, ChainInvariant, TypeOK
    <2>2. pc'[c] = "answered" /\ \A b \in Clients \ {c} : pc'[b] = pc[b] /\ tx'[b] = tx[b]
      BY <1>2, <2>1 DEF Answered
    <2> QED  BY <1>2, <2>2 DEF ClientsGoOn, GoesOn
  <1> QED  BY <1>1, <1>2, DeskTellsErrors

LEMMA TrailKept ==
    ASSUME ReviewInvariant, AllPrepared, \A j \in JourneyIds : Trailed(j), ReviewNext
    PROVE  AllPrepared' /\ \A j \in JourneyIds : Trailed(j)'
  <1>1. \/ LeavesHistory
        \/ \E j \in JourneyIds : CreateJourney(j)
        \/ \E j \in JourneyIds, snapshot \in Snapshot, event \in AuditEvent :
              Mutation(j, snapshot, event)
    BY ReviewKinds
  <1>2. TypeOK
    BY DEF ReviewInvariant, ChainInvariant
  <1>3. ASSUME NEW k \in JourneyIds
        PROVE  Trailed(k)'
    BY <1>1, <1>2, AccountedStep, AnnouncedStep, EarnedStep DEF Trailed
  <1>4. AllPrepared'
    <2>1. CASE CustomerNext
      BY <2>1, PreparedStep DEF ReviewInvariant, Next
    <2>2. CASE ~CustomerNext
      <3> SUFFICES ASSUME NEW c \in Clients, pc'[c] \in {"open", "wrote"}
                   PROVE  Prepared(c)'
        BY DEF AllPrepared, Prepared
      <3>1. GoesOn(c)
        BY <2>2, DeskLeavesClients DEF ReviewNext, DeskStep, ClientsGoOn
      <3>2. \A k \in JourneyIds : \A i \in DOMAIN snapshots[k] :
               i \in DOMAIN snapshots'[k] /\ snapshots'[k][i] = snapshots[k][i]
        BY <1>1, <1>2, HistoryIsKept
      <3> QED  BY <3>1, <3>2, PreparedIsKept DEF GoesOn, AllPrepared, ReviewInvariant
    <2> QED  BY <2>1, <2>2
  <1> QED  BY <1>3, <1>4

-----------------------------------------------------------------------------
(* Theorems about histories and cases under reviewers.                     *)

\* The initial state has no journeys, cases or pages.
LEMMA ReviewStart ==
    ASSUME ReviewInit
    PROVE  ReviewInvariant /\ AllPrepared /\ \A j \in JourneyIds : Trailed(j)
  <1>1. Init /\ desk = [d \in Desks |-> NoPage]
    BY DEF ReviewInit
  <1>2. TrailInvariant /\ CaseInvariant
    BY <1>1, TrailInit, CaseInit
  <1>3. CasesHaveJourneys
    BY <1>1 DEF Init, CasesHaveJourneys
  <1>4. desk \in [Desks -> Page \cup {NoPage}] /\ RowsHeld /\ \A d \in Desks : PageIsKnown(d)
    BY <1>1 DEF Init, RowsHeld, Answering, PageIsKnown, NoPage
  <1> QED  BY <1>2, <1>3, <1>4 DEF TrailInvariant, ReviewInvariant, Trailed

\* Pages that look at cases which go on existing change nothing when nothing happens.
LEMMA ReviewStutters ==
    ASSUME ReviewInvariant, AllPrepared, \A j \in JourneyIds : Trailed(j),
           UNCHANGED reviewVars
    PROVE  ReviewInvariant' /\ AllPrepared' /\ \A j \in JourneyIds : Trailed(j)'
  <1>1. UNCHANGED vars /\ UNCHANGED desk
    BY DEF reviewVars
  <1>2. ChainInvariant' /\ CaseInvariant' /\ AllPrepared'
    BY <1>1, ChainStep, CaseStep, PreparedStep DEF ReviewInvariant
  <1>3. CasesStay /\ UNCHANGED rowLock
    BY <1>1 DEF vars, CasesStay, ReviewInvariant, CasesHaveJourneys, Created
  <1>4. ReviewInvariant'
    BY <1>1, <1>2, <1>3, PagesStay DEF ReviewInvariant
  <1>5. \A k \in JourneyIds : Trailed(k)'
    <2>1. LeavesHistory /\ TypeOK
      BY <1>1 DEF vars, LeavesHistory, journeyVars, ReviewInvariant, ChainInvariant
    <2> QED  BY <2>1, AccountedStep, AnnouncedStep, EarnedStep DEF Trailed
  <1> QED  BY <1>2, <1>4, <1>5

LEMMA ReviewStep ==
    ASSUME ReviewInvariant, AllPrepared, \A j \in JourneyIds : Trailed(j),
           [ReviewNext]_reviewVars
    PROVE  ReviewInvariant' /\ AllPrepared' /\ \A j \in JourneyIds : Trailed(j)'
  <1>1. CASE UNCHANGED reviewVars
    BY <1>1, ReviewStutters
  <1>2. CASE ReviewNext
    <2>1. CASE CustomerNext /\ UNCHANGED desk
      BY <1>2, <2>1, CustomerStepKeeps, TrailKept
    <2>2. CASE DeskStep
      BY <1>2, <2>2, DeskStepKeeps, TrailKept
    <2> QED  BY <1>2, <2>1, <2>2 DEF ReviewNext, DeskStep
  <1> QED  BY <1>1, <1>2

\* The inductive invariant of the composition, in every reachable state.
THEOREM ReviewInvariantHolds ==
    ReviewSpec => [](ReviewInvariant /\ AllPrepared /\ \A j \in JourneyIds : Trailed(j))
  <1>1. ReviewInit => ReviewInvariant /\ AllPrepared /\ \A j \in JourneyIds : Trailed(j)
    BY ReviewStart
  <1>2. /\ ReviewInvariant /\ AllPrepared /\ \A j \in JourneyIds : Trailed(j)
        /\ [ReviewNext]_reviewVars
        => (ReviewInvariant /\ AllPrepared /\ \A j \in JourneyIds : Trailed(j))'
    BY ReviewStep
  <1> QED  BY <1>1, <1>2, PTL DEF ReviewSpec

\* Pages, tables and requests keep their shape, and the case rows that are locked are
\* those of the requests that run, each by one of them.
THEOREM ReviewTypeCorrect == ReviewSpec => []ReviewTypeOK
  <1>1. ReviewInvariant => ReviewTypeOK
    BY DEF ReviewInvariant, ChainInvariant, RowsHeld, ReviewTypeOK
  <1> QED  BY <1>1, ReviewInvariantHolds, PTL

\* What the customer side promises of a history holds when reviewers answer too: it does
\* not fork, its trail accounts for it, and its completions are announced once each.
THEOREM ReviewersKeepHistory ==
    ReviewSpec => [](/\ ChainIsLinear /\ ExpectedStaysCurrent
                     /\ AuditAccountsForState /\ CompletedOncePerReady /\ ReadyIsEarned)
  <1>1. ReviewInvariant => ChainIsLinear /\ ExpectedStaysCurrent
    BY DEF ReviewInvariant, ChainInvariant
  <1>2. (\A j \in JourneyIds : Trailed(j)) =>
            AuditAccountsForState /\ CompletedOncePerReady /\ ReadyIsEarned
    BY DEF Trailed, Accounted, AuditAccountsForState, AnnouncedOnce, CompletionEvents,
       Completions, CompletedOncePerReady, EarnedSoFar, ReadyIsEarned
  <1> QED  BY <1>1, <1>2, ReviewInvariantHolds, PTL

\* A question has one open case at most while reviewers claim, resolve and escalate cases,
\* and whatever uploads bring back.
THEOREM ReviewersDecideOneCase == ReviewSpec => []OneOpenCasePerQuestion
  <1>1. ReviewInvariant => OneOpenCasePerQuestion
    BY OneOpenCase DEF ReviewInvariant
  <1> QED  BY <1>1, ReviewInvariantHolds, PTL

-----------------------------------------------------------------------------
(* Idempotency keys, with reviewers who answer under none.                 *)

LEMMA ReviewHistory ==
    ASSUME ReviewInvariant, AllPrepared, \A j \in JourneyIds : Trailed(j)
    PROVE  HistoryInvariant
  BY DEF ReviewInvariant, Trailed, HistoryInvariant

\* No step of a desk writes under a key: its answers are submit_clarification's, which has
\* no key.
LEMMA DeskLeavesKeys ==
    ASSUME ReviewInvariant, HistoryInvariant, DeskStep
    PROVE  records' = records /\ \A k \in Keys : EventsOf(k)' = EventsOf(k)
  <1>1. ASSUME NEW d \in Desks, AnswerForCase(d), NEW k \in Keys
        PROVE  EventsOf(k)' = EventsOf(k)
    <2>1. PICK j \in JourneyIds, snapshot \in Snapshot, event \in AuditEvent :
             Mutation(j, snapshot, event) /\ event.key = NoKey
      BY <1>1, AnswerContext, AnswerKind DEF ReviewInvariant, ChainInvariant
    <2>2. event.key # k
      BY <2>1, JourneysAssumption
    <2>3. EventsOf(k)' = EventsOf(k) \cup {}
      BY <2>1, <2>2, EventsAfter DEF HistoryInvariant, ChainInvariant
    <2> QED  BY <2>3
  <1>2. ASSUME NEW d \in Desks,
               \/ ClaimCase(d) \/ RequestInformation(d) \/ EscalateCase(d)
               \/ ResolveOther(d) \/ FinishSufficient(d)
        PROVE  records' = records /\ audit' = audit
    BY <1>2, DeskMoves DEF Moves, journeyVars
  <1>3. ASSUME NEW d \in Desks,
               OpenPage(d) \/ BeginSufficient(d) \/ RejectAnswer(d) \/ CrashDesk(d)
        PROVE  records' = records /\ audit' = audit
    BY <1>3 DEF OpenPage, BeginSufficient, RejectAnswer, CrashDesk, vars, journeyVars
  <1>4. ASSUME NEW d \in Desks, AnswerForCase(d)
        PROVE  records' = records
    BY <1>4 DEF AnswerForCase
  <1>5. ASSUME NEW j \in JourneyIds, LockExpires(j)
        PROVE  records' = records /\ audit' = audit
    BY <1>5 DEF LockExpires, journeyVars
  <1>6. ASSUME NEW c \in Clients, NEW d \in Desks, BreakDeadlock(c, d)
        PROVE  records' = records /\ audit' = audit
    BY <1>6 DEF BreakDeadlock, journeyVars
  <1>7. audit' = audit => \A k \in Keys : EventsOf(k)' = EventsOf(k)
    BY DEF EventsOf
  <1> QED  BY <1>1, <1>2, <1>3, <1>4, <1>5, <1>6, <1>7 DEF DeskStep, DeskNext, ServeDesk

\* Clients can rely on what they were told while desks work.
LEMMA DeskKeepsReplies ==
    ASSUME ReviewInvariant, KeysInvariant, DeskStep, NEW d \in Clients
    PROVE  ReplyIsTrue(d)'
  <1>1. HistoryInvariant
    BY DEF KeysInvariant
  <1>2. KeysStay
    BY <1>1, DeskLeavesKeys DEF KeysStay
  <1>3. CASE UNCHANGED clientVars
    BY <1>2, <1>3, BystanderIsTrue DEF clientVars
  <1>4. ASSUME NEW c \in Clients, Answered(c, "error"), UNCHANGED request
        PROVE  ReplyIsTrue(d)'
    <2>1. /\ pc \in [Clients -> {"idle", "waiting", "open", "wrote", "answered"}]
          /\ reply \in [Clients -> {"none", "ok", "refused", "error", "lost"}]
          /\ tx \in [Clients -> Writes \cup {None}]
      BY DEF ReviewInvariant, ChainInvariant, TypeOK
    <2>2. CASE d = c
      BY <1>4, <2>1, <2>2 DEF Answered, ReplyIsTrue
    <2>3. CASE d # c
      <3>1. pc'[d] = pc[d] /\ reply'[d] = reply[d] /\ request'[d] = request[d] /\ tx'[d] = tx[d]
        BY <1>4, <2>1, <2>3 DEF Answered
      <3> QED  BY <1>2, <3>1, BystanderIsTrue
    <2> QED  BY <2>2, <2>3
  <1> QED  BY <1>3, <1>4, DeskTellsErrors

\* The whole of what is known in the composition, keys included.
ReviewKeysInvariant == /\ ReviewInvariant
                       /\ \A j \in JourneyIds : Trailed(j)
                       /\ KeysInvariant

LEMMA ReviewKeysStep ==
    ASSUME ReviewKeysInvariant, [ReviewNext]_reviewVars
    PROVE  ReviewKeysInvariant'
  <1>1. /\ ReviewInvariant /\ KeysInvariant /\ HistoryInvariant /\ AllPrepared
        /\ \A j \in JourneyIds : Trailed(j)
    BY DEF ReviewKeysInvariant, KeysInvariant, HistoryInvariant
  <1>2. ReviewInvariant' /\ AllPrepared' /\ \A j \in JourneyIds : Trailed(j)'
    BY <1>1, ReviewStep
  <1>3. HistoryInvariant'
    BY <1>2 DEF ReviewInvariant, Trailed, HistoryInvariant
  <1>4. CASE [Next]_vars
    BY <1>1, <1>2, <1>4, KeysStep DEF ReviewKeysInvariant
  <1>5. CASE DeskStep
    <2>1. \A k \in Keys : RecordIsTrue(k)'
      BY <1>1, <1>5, DeskLeavesKeys DEF KeysInvariant, RecordIsTrue
    <2>2. \A d \in Clients : ReplyIsTrue(d)'
      BY <1>1, <1>5, DeskKeepsReplies
    <2> QED  BY <1>2, <1>3, <2>1, <2>2 DEF KeysInvariant, ReviewKeysInvariant
  <1> QED  BY <1>4, <1>5 DEF ReviewNext, DeskStep, Next, reviewVars

LEMMA ReviewKeysStart ==
    ASSUME ReviewInit
    PROVE  ReviewKeysInvariant
  BY ReviewStart, KeysInit DEF ReviewInit, ReviewKeysInvariant

\* With reviewers that answer, claim, resolve and escalate, idempotency rows and answers
\* still say what is so.
THEOREM ReviewersKeepKeys == ReviewSpec => []ReviewKeysInvariant
  <1>1. ReviewInit => ReviewKeysInvariant
    BY ReviewKeysStart
  <1>2. ReviewKeysInvariant /\ [ReviewNext]_reviewVars => ReviewKeysInvariant'
    BY ReviewKeysStep
  <1> QED  BY <1>1, <1>2, PTL DEF ReviewSpec

\* A success told to a client stays true whatever reviewers do to the journey and its
\* cases, also when the action reopened a case and its record came late.
THEOREM ReviewersKeepSuccess == ReviewSpec => []AcknowledgedIsDurable
  <1>1. ReviewKeysInvariant => AcknowledgedIsDurable
    BY TrueAnswersLast DEF ReviewKeysInvariant
  <1> QED  BY <1>1, ReviewersKeepKeys, PTL

ReviewOnceInvariant == ReviewKeysInvariant /\ OnceInvariant

LEMMA ReviewOnceStep ==
    ASSUME ReviewOnceInvariant, [ReviewNext]_reviewVars, [NoEarlyCommit]_reviewVars
    PROVE  ReviewOnceInvariant'
  <1>1. /\ ReviewInvariant /\ HistoryInvariant /\ OnceInvariant
        /\ \A k \in Keys : AppliedOnce(k)
    BY DEF ReviewOnceInvariant, ReviewKeysInvariant, KeysInvariant, OnceInvariant
  <1>2. ReviewKeysInvariant' /\ KeysInvariant'
    BY ReviewKeysStep DEF ReviewOnceInvariant, ReviewKeysInvariant
  <1>3. CASE CustomerNext /\ UNCHANGED desk /\ NoEarlyCommit
    BY <1>1, <1>2, <1>3, OnceStep DEF Next, ReviewOnceInvariant
  <1>4. CASE DeskStep
    <2>1. \A k \in Keys : AppliedOnce(k)'
      BY <1>1, <1>4, DeskLeavesKeys DEF AppliedOnce
    <2> QED  BY <1>2, <2>1 DEF OnceInvariant, ReviewOnceInvariant
  <1>5. CASE UNCHANGED reviewVars
    <2>1. records' = records /\ audit' = audit
      BY <1>5 DEF reviewVars, vars
    <2> QED  BY <1>1, <1>2, <2>1 DEF AppliedOnce, EventsOf, OnceInvariant, ReviewOnceInvariant
  <1> QED  BY <1>3, <1>4, <1>5 DEF ReviewNext, DeskStep

\* While no action is committed before its record, keys and events go together under
\* reviewers, too.
THEOREM ReviewersKeepOnce ==
    ReviewSpec /\ [][NoEarlyCommit]_reviewVars => []ReviewOnceInvariant
  <1>1. ReviewInit => ReviewOnceInvariant
    BY ReviewKeysStart, OnceInit DEF ReviewInit, ReviewOnceInvariant
  <1>2. ReviewOnceInvariant /\ [ReviewNext]_reviewVars /\ [NoEarlyCommit]_reviewVars
           => ReviewOnceInvariant'
    BY ReviewOnceStep
  <1> QED  BY <1>1, <1>2, PTL DEF ReviewSpec

\* One action at most is executed under a key, whatever reviewers do, unless one reopens a
\* case that they left waiting for the customer.
THEOREM ReviewersApplyOnce ==
    ReviewSpec /\ [][NoEarlyCommit]_reviewVars => []KeyAppliedOnce
  <1>1. ReviewOnceInvariant => KeyAppliedOnce
    BY OnceImpliesApplied DEF ReviewOnceInvariant
  <1> QED  BY <1>1, ReviewersKeepOnce, PTL

\* And what was refused was not executed: finding 1, in the composition where TLC finds
\* it, needs exactly the step that is excluded here.
THEOREM ReviewersKeepRefusals ==
    ReviewSpec /\ [][NoEarlyCommit]_reviewVars => RefusedWasNotExecuted
  <1> DEFINE Final == \A c \in Clients :
              /\ pc[c] # "answered" /\ pc'[c] = "answered" /\ reply'[c] = "refused"
              /\ request'[c].op = "apply"
              => LET req == request'[c]
                 IN  <<req.journey, req.expected + 1>> \in EventsOf(req.key) =>
                         records[req.key] # None /\ records[req.key].request # req
  <1>1. ReviewOnceInvariant /\ [ReviewNext]_reviewVars => [Final]_vars
    <2>1. ASSUME ReviewOnceInvariant, [Next]_vars
          PROVE  Final
      BY <2>1, RefusalIsEarned DEF ReviewOnceInvariant
    <2>2. ASSUME ReviewOnceInvariant, DeskStep
          PROVE  Final
      <3>1. /\ pc \in [Clients -> {"idle", "waiting", "open", "wrote", "answered"}]
            /\ reply \in [Clients -> {"none", "ok", "refused", "error", "lost"}]
        BY <2>2 DEF ReviewOnceInvariant, ReviewKeysInvariant, ReviewInvariant, ChainInvariant,
           TypeOK
      <3>2. \/ UNCHANGED clientVars
            \/ \E c \in Clients : Answered(c, "error") /\ UNCHANGED request
        BY <2>2, DeskTellsErrors DEF ReviewOnceInvariant, ReviewKeysInvariant
      <3>3. ASSUME NEW c \in Clients, pc[c] # "answered", pc'[c] = "answered",
                   reply'[c] = "refused"
            PROVE  FALSE
        BY <3>1, <3>2, <3>3 DEF Answered, clientVars
      <3> QED  BY <3>3
    <2> HIDE DEF Final
    <2> QED  BY <2>1, <2>2 DEF ReviewNext, DeskStep, Next, reviewVars
  <1>2. ReviewSpec => [][ReviewNext]_reviewVars
    BY PTL DEF ReviewSpec
  <1>3. ReviewSpec /\ [][NoEarlyCommit]_reviewVars => [][Final]_vars
    <2> HIDE DEF Final
    <2> QED  BY <1>1, <1>2, ReviewersKeepOnce, PTL
  <1> QED  BY <1>3 DEF RefusedWasNotExecuted

-----------------------------------------------------------------------------
(* The state machine of core/review.py.                                    *)

\* The commit of an upload rewrites cases it hands back, and no others.
LEMMA UploadFollows ==
    ASSUME ReviewInvariant, NEW u \in Uploads, StoreEvidence(u),
           NEW j \in JourneyIds, NEW i \in DOMAIN cases[j],
           cases'[j][i].status # cases[j][i].status
    PROVE  HandedBack(j, i)
  <1>1. PICK k, seen : k = evidence[u].journey /\ seen = evidence[u].seen
    OBVIOUS
  <1>2. PICK waiting :
           /\ waiting = {n \in DOMAIN seen : seen[n].status = "ADDITIONAL_INFO_REQUIRED"}
           /\ cases' = [cases EXCEPT ![k] = [n \in DOMAIN cases[k] |->
                           IF n \in waiting THEN Reopen(cases[k][n], seen[n]) ELSE cases[k][n]]]
    BY <1>1 DEF StoreEvidence
  <1>3. /\ cases \in [JourneyIds -> Seq(Case)]
        /\ evidence \in [Uploads -> EvidenceState]
    BY DEF ReviewInvariant, ChainInvariant, TypeOK
  <1>4. j = k
    BY <1>2, <1>3
  <1>5. i \in waiting
    BY <1>2, <1>3, <1>4
  <1>6. evidence[u].at = "handing" /\ evidence'[u].at = "stored"
    BY <1>3 DEF StoreEvidence, EvidenceState
  <1> QED  BY <1>1, <1>2, <1>4, <1>5, <1>6 DEF HandedBack

\* Every case but one an upload hands back moves along the state machine.
LEMMA CustomerFollows ==
    ASSUME ReviewInvariant, CustomerNext,
           NEW j \in JourneyIds, NEW i \in DOMAIN cases[j],
           cases'[j][i].status # cases[j][i].status
    PROVE  cases'[j][i].status \in AllowedFrom(cases[j][i].status) \/ HandedBack(j, i)
  <1>1. ASSUME NEW c \in Clients, ReopenAndCommit(c)
        PROVE  cases'[j][i].status \in AllowedFrom(cases[j][i].status)
    <2>1. CustomerRows /\ cases[j][i].status = "ADDITIONAL_INFO_REQUIRED"
      BY <1>1, ReopenRows
    <2>2. cases'[j][i].status = "UNDER_REVIEW"
      BY <2>1 DEF CustomerRows, RowKept
    <2>3. "UNDER_REVIEW" \in AllowedFrom("ADDITIONAL_INFO_REQUIRED")
      BY DEF AllowedFrom, Terminal
    <2> QED  BY <2>1, <2>2, <2>3
  <1>2. ASSUME NEW c \in Clients,
               \/ BeginApply(c) \/ BeginClarify(c) \/ ReplayAfterWait(c) \/ RejectApply(c)
               \/ OpenApply(c) \/ Clarify(c) \/ RejectClarify(c) \/ CollideOnKey(c)
               \/ CollideOnNumber(c) \/ FinishApply(c) \/ Crash(c) \/ Return(c)
        PROVE  UNCHANGED cases
    BY <1>2 DEF BeginApply, BeginClarify, ReplayAfterWait, RejectApply, OpenApply, Clarify,
       RejectClarify, CollideOnKey, CollideOnNumber, FinishApply, Crash, Return
  <1>3. \A k \in JourneyIds, u \in Uploads :
           CreateJourney(k) \/ AnalyseEvidence(u) \/ AbortEvidence(u) => UNCHANGED cases
    BY DEF CreateJourney, AnalyseEvidence, AbortEvidence
  <1>4. \A k \in JourneyIds : CreateJourney(k) => UNCHANGED cases
    BY DEF CreateJourney
  <1> QED  BY <1>1, <1>2, <1>3, <1>4, CommitRows, UploadFollows DEF CustomerNext, Serve, Finish

LEMMA MovesFollow ==
    ASSUME ReviewInvariant, NEW k \in JourneyIds, NEW n \in DOMAIN cases[k],
           NEW row \in Case, Moves(k, n, row),
           NEW j \in JourneyIds, NEW i \in DOMAIN cases[j],
           cases'[j][i].status # cases[j][i].status
    PROVE  cases'[j][i].status \in AllowedFrom(cases[j][i].status)
  <1>1. cases \in [JourneyIds -> Seq(Case)]
    BY DEF ReviewInvariant, ChainInvariant, TypeOK
  <1>2. cases' = [cases EXCEPT ![k] = [@ EXCEPT ![n] = row]]
    BY DEF Moves
  <1>3. j = k
    BY <1>1, <1>2
  <1>4. i = n
    BY <1>1, <1>2, <1>3
  <1>5. cases'[j][i] = row
    BY <1>1, <1>2, <1>3, <1>4
  <1>6. row.status # cases[k][n].status => row.status \in AllowedFrom(cases[k][n].status)
    BY DEF Moves
  <1> QED  BY <1>3, <1>4, <1>5, <1>6

LEMMA DesksFollow ==
    ASSUME ReviewInvariant, DeskStep, NEW j \in JourneyIds, NEW i \in DOMAIN cases[j],
           cases'[j][i].status # cases[j][i].status
    PROVE  cases'[j][i].status \in AllowedFrom(cases[j][i].status)
  <1>1. ASSUME NEW d \in Desks,
               \/ ClaimCase(d) \/ RequestInformation(d) \/ EscalateCase(d)
               \/ ResolveOther(d) \/ FinishSufficient(d)
        PROVE  cases'[j][i].status \in AllowedFrom(cases[j][i].status)
    <2>1. PICK k \in JourneyIds : k = desk[d].journey
      BY <1>1, DeskMoves
    <2>2. PICK n \in DOMAIN cases[k] : n = desk[d].case
      BY <1>1, <2>1, DeskMoves
    <2>3. \E row \in Case : Moves(k, n, row)
      BY <1>1, <2>1, <2>2, DeskMoves
    <2> QED  BY <2>3, MovesFollow
  <1>2. ASSUME NEW k \in JourneyIds, LockExpires(k)
        PROVE  cases'[j][i].status \in AllowedFrom(cases[j][i].status)
    BY <1>2, ExpiryMoves, MovesFollow
  <1>3. ASSUME NEW d \in Desks,
               \/ OpenPage(d) \/ BeginSufficient(d) \/ AnswerForCase(d) \/ RejectAnswer(d)
               \/ CrashDesk(d)
        PROVE  UNCHANGED cases
    BY <1>3 DEF OpenPage, BeginSufficient, AnswerForCase, RejectAnswer, CrashDesk, vars
  <1>4. ASSUME NEW c \in Clients, NEW d \in Desks, BreakDeadlock(c, d)
        PROVE  UNCHANGED cases
    BY <1>4 DEF BreakDeadlock
  <1> QED  BY <1>1, <1>2, <1>3, <1>4 DEF DeskStep, DeskNext, ServeDesk

\* A reviewer, the customer's next conflict and the second half of a resolution, which
\* tests nothing, all follow the state machine, in every state and however they interleave.
\* The one exception is the write-back of an upload, and it concerns no other case than
\* those that waited for the customer when the upload listed them.
THEOREM CasesFollowTransitions == ReviewSpec => CaseFollowsTransitions
  <1>1. ASSUME ReviewInvariant, [ReviewNext]_reviewVars
        PROVE  [\A j \in JourneyIds : \A i \in DOMAIN cases[j] :
                  cases'[j][i].status # cases[j][i].status =>
                      \/ cases'[j][i].status \in AllowedFrom(cases[j][i].status)
                      \/ HandedBack(j, i)]_reviewVars
    BY <1>1, CustomerFollows, DesksFollow DEF ReviewNext, DeskStep
  <1> QED  BY <1>1, ReviewInvariantHolds, PTL DEF ReviewSpec, CaseFollowsTransitions

-----------------------------------------------------------------------------
(* Behind each resolution there is what it says.                           *)

\* Requests past the answer that the case is to be resolved by.
AnsweredDesks(j, a) ==
    {d \in Desks : /\ desk[d].at = "answered" /\ desk[d].journey = j
                   /\ OnPage(d).ambiguity = a}

ResolvedCases(j) == {i \in DOMAIN cases[j] : cases[j][i].status = "RESOLVED"}
Resolutions(j)   == {n \in DOMAIN outbox[j] : outbox[j][n] = "JOURNEY_RESOLVED"}

\* ResolutionIsCarriedOut, counting the answers that have not closed their case yet: an
\* answer serves one case, even when two requests answer for the same one.
AnswersSuffice(j, a) ==
    /\ IsFiniteSet(AnsweredDesks(j, a))
    /\ Cardinality(SufficientFor(j, a)) + Cardinality(AnsweredDesks(j, a))
           <= Cardinality(AnswersTo(j, a))

EventsSuffice(j) == Cardinality(ResolvedCases(j)) <= Cardinality(Resolutions(j))

\* Positions of a sequence are finitely many.
LEMMA FinitePart ==
    ASSUME NEW S, NEW s \in Seq(S), NEW T \in SUBSET DOMAIN s
    PROVE  IsFiniteSet(T) /\ Cardinality(T) \in Nat
  <1>1. Len(s) \in Nat /\ DOMAIN s = 1..Len(s)
    BY LenProperties
  <1>2. IsFiniteSet(1..Len(s))
    BY <1>1, FS_Interval
  <1>3. IsFiniteSet(T)
    BY <1>1, <1>2, FS_Subset
  <1> QED  BY <1>3, FS_CardinalityType

LEMMA AtMostAsMany ==
    ASSUME NEW T, IsFiniteSet(T), NEW S \in SUBSET T
    PROVE  /\ IsFiniteSet(S) /\ Cardinality(S) \in Nat /\ Cardinality(T) \in Nat
           /\ Cardinality(S) <= Cardinality(T)
  <1>1. IsFiniteSet(S) /\ Cardinality(S) <= Cardinality(T)
    BY FS_Subset
  <1>2. Cardinality(S) \in Nat
    BY <1>1, FS_CardinalityType
  <1>3. Cardinality(T) \in Nat
    BY FS_CardinalityType
  <1> QED  BY <1>1, <1>2, <1>3

LEMMA AtMostOneMore ==
    ASSUME NEW T, IsFiniteSet(T), NEW x, NEW S \in SUBSET (T \cup {x})
    PROVE  /\ IsFiniteSet(S) /\ Cardinality(S) \in Nat /\ Cardinality(T) \in Nat
           /\ Cardinality(S) <= Cardinality(T) + 1
  <1>1. IsFiniteSet(T \cup {x}) /\ Cardinality(T \cup {x}) <= Cardinality(T) + 1
    <2>1. Cardinality(T) \in Nat
      BY FS_CardinalityType
    <2>2. /\ IsFiniteSet(T \cup {x})
          /\ Cardinality(T \cup {x}) = IF x \in T THEN Cardinality(T) ELSE Cardinality(T) + 1
      BY FS_AddElement
    <2> QED  BY <2>1, <2>2
  <1>2. /\ IsFiniteSet(S) /\ Cardinality(S) \in Nat /\ Cardinality(T \cup {x}) \in Nat
        /\ Cardinality(S) <= Cardinality(T \cup {x})
    BY <1>1, AtMostAsMany
  <1>3. Cardinality(T) \in Nat
    BY FS_CardinalityType
  <1> QED  BY <1>1, <1>2, <1>3

LEMMA OneMore ==
    ASSUME NEW T, IsFiniteSet(T), NEW x \in T, NEW S \in SUBSET (T \ {x})
    PROVE  /\ IsFiniteSet(S) /\ Cardinality(S) \in Nat /\ Cardinality(T) \in Nat
           /\ Cardinality(S) + 1 <= Cardinality(T)
  <1>1. IsFiniteSet(T \ {x}) /\ Cardinality(T \ {x}) = Cardinality(T) - 1
    BY FS_RemoveElement
  <1>2. /\ IsFiniteSet(S) /\ Cardinality(S) \in Nat /\ Cardinality(T \ {x}) \in Nat
        /\ Cardinality(S) <= Cardinality(T \ {x})
    BY <1>1, AtMostAsMany
  <1>3. Cardinality(T) \in Nat
    BY FS_CardinalityType
  <1> QED  BY <1>1, <1>2, <1>3

LEMMA ConcatKeeps ==
    ASSUME NEW S, NEW s \in Seq(S), NEW t \in Seq(S)
    PROVE  /\ s \o t \in Seq(S)
           /\ \A i \in DOMAIN s : i \in DOMAIN (s \o t) /\ (s \o t)[i] = s[i]
  <1>1. /\ s \o t \in Seq(S)
        /\ Len(s \o t) = Len(s) + Len(t)
        /\ \A i \in 1..Len(s) + Len(t) : (s \o t)[i] =
               IF i <= Len(s) THEN s[i] ELSE t[i - Len(s)]
    BY ConcatProperties
  <1>2. /\ Len(s) \in Nat /\ Len(t) \in Nat /\ DOMAIN s = 1..Len(s)
        /\ DOMAIN (s \o t) = 1..Len(s \o t)
    BY <1>1, LenProperties
  <1> QED  BY <1>1, <1>2

\* Queues and trails are only appended to.
LEMMA QueueGrows ==
    ASSUME TypeOK, NEW k \in JourneyIds,
           \/ LeavesHistory
           \/ \E j \in JourneyIds : CreateJourney(j)
           \/ \E j \in JourneyIds, snapshot \in Snapshot, event \in AuditEvent :
                 Mutation(j, snapshot, event)
    PROVE  Resolutions(k) \subseteq Resolutions(k)'
  <1>1. outbox \in [JourneyIds -> Seq(EventType)]
    BY DEF TypeOK
  <1>2. ASSUME \A n \in DOMAIN outbox[k] : n \in DOMAIN outbox'[k] /\ outbox'[k][n] = outbox[k][n]
        PROVE  Resolutions(k) \subseteq Resolutions(k)'
    <2>1. ASSUME NEW n \in Resolutions(k)
          PROVE  n \in Resolutions(k)'
      BY <1>2 DEF Resolutions
    <2> QED  BY <2>1
  <1>3. ASSUME NEW event \in EventType, outbox'[k] = Append(outbox[k], event)
        PROVE  Resolutions(k) \subseteq Resolutions(k)'
    <2>1. outbox[k] \in Seq(EventType)
      BY <1>1
    <2>2. \A n \in DOMAIN outbox[k] : /\ n \in DOMAIN Append(outbox[k], event)
                                      /\ Append(outbox[k], event)[n] = outbox[k][n]
      BY <2>1, AppendProperties, LenProperties
    <2> QED  BY <1>2, <1>3, <2>2
  <1>4. CASE outbox'[k] = outbox[k]
    BY <1>4 DEF Resolutions
  <1>5. CASE LeavesHistory
    <2>1. CASE outbox' = outbox
      BY <1>4, <2>1
    <2>2. ASSUME NEW j \in JourneyIds, NEW event \in EventType,
                 outbox' = [outbox EXCEPT ![j] = Append(@, event)]
          PROVE  Resolutions(k) \subseteq Resolutions(k)'
      <3>1. outbox'[k] = outbox[k] \/ outbox'[k] = Append(outbox[k], event)
        BY <1>1, <2>2
      <3> QED  BY <1>3, <1>4, <3>1
    <2> QED  BY <1>5, <2>1, <2>2 DEF LeavesHistory
  <1>6. ASSUME NEW j \in JourneyIds, CreateJourney(j)
        PROVE  Resolutions(k) \subseteq Resolutions(k)'
    BY <1>4, <1>6 DEF CreateJourney
  <1>7. ASSUME NEW j \in JourneyIds, NEW snapshot \in Snapshot, NEW event \in AuditEvent,
               Mutation(j, snapshot, event)
        PROVE  Resolutions(k) \subseteq Resolutions(k)'
    <2>1. PICK done \in Seq(EventType) : done = CompletedEvents(j, snapshot)
      BY CompletedEventsType
    <2>2. PICK queue \in Seq(EventType) : queue = outbox[k]
      BY <1>1
    <2>3. /\ queue \o done \in Seq(EventType)
          /\ \A n \in DOMAIN queue : n \in DOMAIN (queue \o done) /\ (queue \o done)[n] = queue[n]
      BY <2>1, <2>2, ConcatKeeps
    <2>4. CASE outbox' = [outbox EXCEPT ![j] = @ \o done]
      <3>1. outbox'[k] = outbox[k] \/ outbox'[k] = queue \o done
        BY <1>1, <2>2, <2>4
      <3> QED  BY <1>2, <1>4, <2>2, <2>3, <3>1
    <2>5. CASE outbox' = [outbox EXCEPT ![j] = (@ \o done) \o <<"REVIEW_REQUIRED">>]
      <3>1. PICK long \in Seq(EventType) : long = queue \o done
        BY <2>3
      <3>2. PICK asked : asked = <<"REVIEW_REQUIRED">>
        OBVIOUS
      <3>3. asked \in Seq(EventType)
        <4>1. "REVIEW_REQUIRED" \in EventType
          BY DEF EventType
        <4> QED  BY <3>2, <4>1
      <3>4. outbox'[k] = outbox[k] \/ outbox'[k] = long \o asked
        BY <1>1, <2>2, <2>5, <3>1, <3>2
      <3>5. \A n \in DOMAIN long : n \in DOMAIN (long \o asked) /\ (long \o asked)[n] = long[n]
        BY <3>1, <3>3, ConcatKeeps
      <3> QED  BY <1>2, <1>4, <2>2, <2>3, <3>1, <3>4, <3>5
    <2> QED  BY <1>7, <2>1, <2>4, <2>5 DEF Mutation, Mutates
  <1> QED  BY <1>5, <1>6, <1>7

LEMMA AnswersStay ==
    ASSUME TypeOK, NEW k \in JourneyIds, Accounted(k), NEW a,
           \/ LeavesHistory
           \/ \E j \in JourneyIds : CreateJourney(j)
           \/ \E j \in JourneyIds, snapshot \in Snapshot, event \in AuditEvent :
                 Mutation(j, snapshot, event)
    PROVE  AnswersTo(k, a) \subseteq AnswersTo(k, a)'
  <1>1. audit \in [JourneyIds -> Seq(AuditEvent)] /\ snapshots \in [JourneyIds -> Seq(Snapshot)]
    BY DEF TypeOK
  <1>2. CASE LeavesHistory
    BY <1>2 DEF LeavesHistory, journeyVars, AnswersTo
  <1>3. ASSUME NEW j \in JourneyIds, CreateJourney(j)
        PROVE  AnswersTo(k, a) \subseteq AnswersTo(k, a)'
    <2>1. CASE k = j
      <3>1. Len(audit[k]) = 0 /\ audit[k] \in Seq(AuditEvent)
        BY <1>1, <1>3, <2>1 DEF CreateJourney, Created, Accounted
      <3>2. AnswersTo(k, a) = {}
        BY <3>1, LenProperties DEF AnswersTo
      <3> QED  BY <3>2
    <2>2. CASE k # j
      <3>1. audit'[k] = audit[k]
        BY <1>1, <1>3, <2>2 DEF CreateJourney
      <3> QED  BY <3>1 DEF AnswersTo
    <2> QED  BY <2>1, <2>2
  <1>4. ASSUME NEW j \in JourneyIds, NEW snapshot \in Snapshot, NEW event \in AuditEvent,
               Mutation(j, snapshot, event)
        PROVE  AnswersTo(k, a) \subseteq AnswersTo(k, a)'
    <2>1. WriteMutation(j, snapshot, event)
      BY <1>4 DEF Mutation, Mutates
    <2>2. \A i \in DOMAIN audit[k] : i \in DOMAIN audit'[k] /\ audit'[k][i] = audit[k][i]
      BY <2>1, MutationAppends
    <2> QED  BY <2>2 DEF AnswersTo
  <1> QED  BY <1>2, <1>3, <1>4

LEMMA AccountIsFinite ==
    ASSUME TypeOK, TypeOK', NEW j \in JourneyIds, NEW a
    PROVE  IsFiniteSet(SufficientFor(j, a)) /\ IsFiniteSet(AnswersTo(j, a)')
  <1>1. cases[j] \in Seq(Case) /\ audit'[j] \in Seq(AuditEvent)
    BY DEF TypeOK
  <1>2. /\ SufficientFor(j, a) \in SUBSET DOMAIN cases[j]
        /\ AnswersTo(j, a)' \in SUBSET DOMAIN audit'[j]
    BY DEF SufficientFor, AnswersTo
  <1> QED  BY <1>1, <1>2, FinitePart

\* Three ways to keep the account: nothing new, a case that uses up an answer, an answer.
LEMMA AccountKept ==
    ASSUME TypeOK', NEW j \in JourneyIds, NEW a, TypeOK, AnswersSuffice(j, a),
           SufficientFor(j, a)' \subseteq SufficientFor(j, a),
           AnsweredDesks(j, a)' \subseteq AnsweredDesks(j, a),
           AnswersTo(j, a) \subseteq AnswersTo(j, a)'
    PROVE  AnswersSuffice(j, a)'
  <1>1. PICK S, D, A, S1, D1, A1 :
           /\ S = SufficientFor(j, a) /\ D = AnsweredDesks(j, a) /\ A = AnswersTo(j, a)
           /\ S1 = SufficientFor(j, a)' /\ D1 = AnsweredDesks(j, a)' /\ A1 = AnswersTo(j, a)'
    OBVIOUS
  <1>2. IsFiniteSet(S) /\ IsFiniteSet(A1)
    BY <1>1, AccountIsFinite
  <1>3. IsFiniteSet(D) /\ Cardinality(S) + Cardinality(D) <= Cardinality(A)
    BY <1>1 DEF AnswersSuffice
  <1>4. /\ Cardinality(S1) \in Nat /\ Cardinality(S) \in Nat
        /\ Cardinality(S1) <= Cardinality(S)
    BY <1>1, <1>2, AtMostAsMany
  <1>5. /\ IsFiniteSet(D1) /\ Cardinality(D1) \in Nat /\ Cardinality(D) \in Nat
        /\ Cardinality(D1) <= Cardinality(D)
    BY <1>1, <1>3, AtMostAsMany
  <1>6. /\ Cardinality(A) \in Nat /\ Cardinality(A1) \in Nat
        /\ Cardinality(A) <= Cardinality(A1)
    BY <1>1, <1>2, AtMostAsMany
  <1>7. Cardinality(S1) + Cardinality(D1) <= Cardinality(A1)
    BY <1>3, <1>4, <1>5, <1>6
  <1> QED  BY <1>1, <1>5, <1>7 DEF AnswersSuffice

LEMMA AnswerIsUsed ==
    ASSUME TypeOK', NEW j \in JourneyIds, NEW a, TypeOK, AnswersSuffice(j, a),
           NEW i, SufficientFor(j, a)' \subseteq SufficientFor(j, a) \cup {i},
           NEW d \in AnsweredDesks(j, a),
           AnsweredDesks(j, a)' \subseteq AnsweredDesks(j, a) \ {d},
           AnswersTo(j, a) \subseteq AnswersTo(j, a)'
    PROVE  AnswersSuffice(j, a)'
  <1>1. PICK S, D, A, S1, D1, A1 :
           /\ S = SufficientFor(j, a) /\ D = AnsweredDesks(j, a) /\ A = AnswersTo(j, a)
           /\ S1 = SufficientFor(j, a)' /\ D1 = AnsweredDesks(j, a)' /\ A1 = AnswersTo(j, a)'
    OBVIOUS
  <1>2. IsFiniteSet(S) /\ IsFiniteSet(A1)
    BY <1>1, AccountIsFinite
  <1>3. IsFiniteSet(D) /\ Cardinality(S) + Cardinality(D) <= Cardinality(A)
    BY <1>1 DEF AnswersSuffice
  <1>4. /\ Cardinality(S1) \in Nat /\ Cardinality(S) \in Nat
        /\ Cardinality(S1) <= Cardinality(S) + 1
    BY <1>1, <1>2, AtMostOneMore
  <1>5. /\ IsFiniteSet(D1) /\ Cardinality(D1) \in Nat /\ Cardinality(D) \in Nat
        /\ Cardinality(D1) + 1 <= Cardinality(D)
    BY <1>1, <1>3, OneMore
  <1>6. /\ Cardinality(A) \in Nat /\ Cardinality(A1) \in Nat
        /\ Cardinality(A) <= Cardinality(A1)
    BY <1>1, <1>2, AtMostAsMany
  <1>7. Cardinality(S1) + Cardinality(D1) <= Cardinality(A1)
    BY <1>3, <1>4, <1>5, <1>6
  <1> QED  BY <1>1, <1>5, <1>7 DEF AnswersSuffice

LEMMA AnswerIsAdded ==
    ASSUME TypeOK', NEW j \in JourneyIds, NEW a, TypeOK, AnswersSuffice(j, a),
           SufficientFor(j, a)' \subseteq SufficientFor(j, a),
           NEW d, AnsweredDesks(j, a)' \subseteq AnsweredDesks(j, a) \cup {d},
           NEW n \in AnswersTo(j, a)', AnswersTo(j, a) \subseteq AnswersTo(j, a)' \ {n}
    PROVE  AnswersSuffice(j, a)'
  <1>1. PICK S, D, A, S1, D1, A1 :
           /\ S = SufficientFor(j, a) /\ D = AnsweredDesks(j, a) /\ A = AnswersTo(j, a)
           /\ S1 = SufficientFor(j, a)' /\ D1 = AnsweredDesks(j, a)' /\ A1 = AnswersTo(j, a)'
    OBVIOUS
  <1>2. IsFiniteSet(S) /\ IsFiniteSet(A1)
    BY <1>1, AccountIsFinite
  <1>3. IsFiniteSet(D) /\ Cardinality(S) + Cardinality(D) <= Cardinality(A)
    BY <1>1 DEF AnswersSuffice
  <1>4. /\ Cardinality(S1) \in Nat /\ Cardinality(S) \in Nat
        /\ Cardinality(S1) <= Cardinality(S)
    BY <1>1, <1>2, AtMostAsMany
  <1>5. /\ IsFiniteSet(D1) /\ Cardinality(D1) \in Nat /\ Cardinality(D) \in Nat
        /\ Cardinality(D1) <= Cardinality(D) + 1
    BY <1>1, <1>3, AtMostOneMore
  <1>6. /\ Cardinality(A) \in Nat /\ Cardinality(A1) \in Nat
        /\ Cardinality(A) + 1 <= Cardinality(A1)
    BY <1>1, <1>2, OneMore
  <1>7. Cardinality(S1) + Cardinality(D1) <= Cardinality(A1)
    BY <1>3, <1>4, <1>5, <1>6
  <1> QED  BY <1>1, <1>5, <1>7 DEF AnswersSuffice

\* The pages past their answer are about the questions they were about.
LEMMA AnsweredStay ==
    ASSUME ReviewInvariant, NEW j \in JourneyIds, NEW a,
           \A i \in DOMAIN cases[j] : cases'[j][i].ambiguity = cases[j][i].ambiguity,
           \A d \in Desks : desk'[d] = desk[d] \/ desk'[d].at # "answered"
    PROVE  AnsweredDesks(j, a)' \subseteq AnsweredDesks(j, a)
  <1>1. ASSUME NEW d \in Desks, desk'[d].at = "answered", desk'[d].journey = j
        PROVE  desk[d] = desk'[d] /\ OnPage(d)'.ambiguity = OnPage(d).ambiguity
    <2>1. desk[d] = desk'[d]
      BY <1>1
    <2>2. desk[d].case \in DOMAIN cases[j]
      BY <1>1, <2>1 DEF ReviewInvariant, PageIsKnown
    <2> QED  BY <1>1, <2>1, <2>2 DEF OnPage
  <1> QED  BY <1>1 DEF AnsweredDesks

\* One row is rewritten and the others stay.
LEMMA MovedRows ==
    ASSUME TypeOK, NEW j \in JourneyIds, NEW i \in DOMAIN cases[j], NEW row \in Case,
           Moves(j, i, row)
    PROVE  /\ cases'[j][i] = row
           /\ \A k \in JourneyIds : /\ DOMAIN cases'[k] = DOMAIN cases[k]
                                    /\ \A n \in DOMAIN cases[k] :
                                          k # j \/ n # i => cases'[k][n] = cases[k][n]
           /\ \A k \in JourneyIds : \A n \in DOMAIN cases[k] :
                 cases'[k][n].ambiguity = cases[k][n].ambiguity
  <1>1. cases \in [JourneyIds -> Seq(Case)] /\ cases[j] \in Seq(Case)
    BY DEF TypeOK
  <1>2. cases' = [cases EXCEPT ![j] = [@ EXCEPT ![i] = row]]
    BY DEF Moves
  <1>3. \A k \in JourneyIds \ {j} : cases'[k] = cases[k]
    BY <1>1, <1>2
  <1>4. /\ DOMAIN cases'[j] = DOMAIN cases[j] /\ cases'[j][i] = row
        /\ \A n \in DOMAIN cases[j] \ {i} : cases'[j][n] = cases[j][n]
    BY <1>1, <1>2
  <1>5. row.ambiguity = cases[j][i].ambiguity
    BY DEF Moves
  <1> QED  BY <1>3, <1>4, <1>5

\* The second half of a resolution closes one case with the answer its first half gave.
LEMMA FinishUsesAnswer ==
    ASSUME ReviewInvariant, TypeOK', NEW e \in Desks, FinishSufficient(e),
           NEW j \in JourneyIds, NEW a, AnswersSuffice(j, a),
           AnswersTo(j, a) \subseteq AnswersTo(j, a)'
    PROVE  AnswersSuffice(j, a)'
  <1>1. PICK k \in JourneyIds : k = desk[e].journey
    BY DeskMoves
  <1>2. PICK i \in DOMAIN cases[k] : i = desk[e].case
    BY <1>1, DeskMoves
  <1>3. PICK row \in Case : Moves(k, i, row)
    BY <1>1, <1>2, DeskMoves
  <1>4. /\ cases'[k][i] = row
        /\ \A l \in JourneyIds : /\ DOMAIN cases'[l] = DOMAIN cases[l]
                                 /\ \A n \in DOMAIN cases[l] :
                                       l # k \/ n # i => cases'[l][n] = cases[l][n]
        /\ \A l \in JourneyIds : \A n \in DOMAIN cases[l] :
              cases'[l][n].ambiguity = cases[l][n].ambiguity
    BY <1>3, MovedRows DEF ReviewInvariant, ChainInvariant
  <1>5. /\ desk[e].at = "answered" /\ desk'[e] = NoPage
        /\ \A d \in Desks \ {e} : desk'[d] = desk[d]
    BY DEF FinishSufficient, ClosePage, ReviewInvariant
  <1>6. AnsweredDesks(j, a)' \subseteq AnsweredDesks(j, a) \ {e}
    <2>1. AnsweredDesks(j, a)' \subseteq AnsweredDesks(j, a)
      BY <1>4, <1>5, AnsweredStay DEF NoPage
    <2>2. e \notin AnsweredDesks(j, a)'
      BY <1>5 DEF AnsweredDesks, NoPage
    <2> QED  BY <2>1, <2>2
  <1>7. CASE j = k /\ cases[k][i].ambiguity = a
    <2>1. SufficientFor(j, a)' \subseteq SufficientFor(j, a) \cup {i}
      BY <1>4, <1>7 DEF SufficientFor
    <2>2. e \in AnsweredDesks(j, a)
      BY <1>1, <1>2, <1>5, <1>7 DEF AnsweredDesks, OnPage
    <2> QED  BY <1>6, <2>1, <2>2, AnswerIsUsed DEF ReviewInvariant, ChainInvariant
  <1>8. CASE j # k \/ cases[k][i].ambiguity # a
    <2>1. SufficientFor(j, a)' \subseteq SufficientFor(j, a)
      BY <1>4, <1>8 DEF SufficientFor
    <2> QED  BY <1>6, <2>1, AccountKept DEF ReviewInvariant, ChainInvariant
  <1> QED  BY <1>7, <1>8

\* The other operations resolve no case by an answer, and forget answers at most.
LEMMA MoveUsesNone ==
    ASSUME ReviewInvariant, TypeOK',
           NEW k \in JourneyIds, NEW i \in DOMAIN cases[k], NEW row \in Case, Moves(k, i, row),
           row.resolution = "EVIDENCE_SUFFICIENT" =>
               cases[k][i].resolution = "EVIDENCE_SUFFICIENT",
           \A d \in Desks : desk'[d] \in {desk[d], NoPage},
           NEW j \in JourneyIds, NEW a, AnswersSuffice(j, a),
           AnswersTo(j, a) \subseteq AnswersTo(j, a)'
    PROVE  AnswersSuffice(j, a)'
  <1>1. /\ cases'[k][i] = row
        /\ \A l \in JourneyIds : /\ DOMAIN cases'[l] = DOMAIN cases[l]
                                 /\ \A n \in DOMAIN cases[l] :
                                       l # k \/ n # i => cases'[l][n] = cases[l][n]
        /\ \A l \in JourneyIds : \A n \in DOMAIN cases[l] :
              cases'[l][n].ambiguity = cases[l][n].ambiguity
    BY MovedRows DEF ReviewInvariant, ChainInvariant
  <1>2. AnsweredDesks(j, a)' \subseteq AnsweredDesks(j, a)
    BY <1>1, AnsweredStay DEF NoPage
  <1>3. SufficientFor(j, a)' \subseteq SufficientFor(j, a)
    BY <1>1 DEF SufficientFor
  <1> QED  BY <1>2, <1>3, AccountKept DEF ReviewInvariant, ChainInvariant

\* An answer is written for one desk, in the trail of its journey.
LEMMA AnswerIsWritten ==
    ASSUME ReviewInvariant, TypeOK', NEW e \in Desks, AnswerForCase(e),
           NEW j \in JourneyIds, NEW a, AnswersSuffice(j, a),
           AnswersTo(j, a) \subseteq AnswersTo(j, a)'
    PROVE  AnswersSuffice(j, a)'
  <1>1. PICK k \in JourneyIds, b \in Ambiguities, v \in Value :
           /\ k = desk[e].journey /\ b = OnPage(e).ambiguity
           /\ WriteAnswer(k, b, v)
    BY AnswerContext
  <1>2. /\ UNCHANGED cases
        /\ desk' = [desk EXCEPT ![e].at = "answered"]
    BY DEF AnswerForCase
  <1>3. SufficientFor(j, a)' \subseteq SufficientFor(j, a)
    BY <1>2 DEF SufficientFor
  <1>4. /\ \A d \in Desks \ {e} : desk'[d] = desk[d]
        /\ desk'[e].journey = desk[e].journey /\ desk'[e].case = desk[e].case
    <2>1. desk \in [Desks -> Page \cup {NoPage}] /\ desk[e].at # "idle"
      BY DEF ReviewInvariant, AnswerForCase, Answering
    <2>2. desk[e] \in Page
      BY <2>1, PageContext
    <2> QED  BY <1>2, <2>1, <2>2 DEF Page
  <1>5. \A d \in Desks : OnPage(d)' = OnPage(d)
    BY <1>2, <1>4 DEF OnPage
  <1>6. CASE j = k /\ a = b
    <2> DEFINE n == Len(audit[j]) + 1
    <2>1. AnsweredDesks(j, a)' \subseteq AnsweredDesks(j, a) \cup {e}
      BY <1>4, <1>5 DEF AnsweredDesks
    <2>2. /\ audit' = [audit EXCEPT ![k] = Append(@, [event |-> "CLARIFICATION_ANSWERED",
                          what |-> b, fields |-> {AmbiguityField[b]}, value |-> v,
                          key |-> NoKey])]
          /\ audit \in [JourneyIds -> Seq(AuditEvent)]
      BY <1>1 DEF WriteAnswer, WriteMutation, ReviewInvariant, ChainInvariant, TypeOK
    <2>3. PICK event : /\ event.event = "CLARIFICATION_ANSWERED" /\ event.what = a
                       /\ audit'[j] = Append(audit[j], event)
      BY <1>6, <2>2
    <2>4. n \notin DOMAIN audit[j] /\ n \in DOMAIN audit'[j] /\ audit'[j][n] = event
      <3>1. audit[j] \in Seq(AuditEvent)
        BY <2>2
      <3>2. Len(audit[j]) \in Nat /\ DOMAIN audit[j] = 1..Len(audit[j])
        BY <3>1, LenProperties
      <3>3. /\ DOMAIN Append(audit[j], event) = 1..Len(audit[j]) + 1
            /\ Append(audit[j], event)[Len(audit[j]) + 1] = event
        BY <3>1, <3>2
      <3> QED  BY <2>3, <3>2, <3>3
    <2> HIDE DEF n
    <2>5. n \in AnswersTo(j, a)' /\ n \notin AnswersTo(j, a)
      BY <2>3, <2>4 DEF AnswersTo
    <2> QED  BY <1>3, <2>1, <2>5, AnswerIsAdded DEF ReviewInvariant, ChainInvariant
  <1>7. CASE j # k \/ a # b
    <2>1. AnsweredDesks(j, a)' \subseteq AnsweredDesks(j, a)
      BY <1>1, <1>4, <1>5, <1>7 DEF AnsweredDesks
    <2> QED  BY <1>3, <2>1, AccountKept DEF ReviewInvariant, ChainInvariant
  <1> QED  BY <1>6, <1>7

LEMMA AccountStep ==
    ASSUME ReviewInvariant, AllPrepared, \A k \in JourneyIds : Trailed(k), ReviewNext,
           TypeOK', NEW j \in JourneyIds, NEW a, AnswersSuffice(j, a)
    PROVE  AnswersSuffice(j, a)'
  <1>1. AnswersTo(j, a) \subseteq AnswersTo(j, a)'
    BY ReviewKinds, AnswersStay DEF ReviewInvariant, ChainInvariant, Trailed
  <1>2. ASSUME CustomerRows, UNCHANGED desk
        PROVE  AnswersSuffice(j, a)'
    <2>1. AnsweredDesks(j, a)' \subseteq AnsweredDesks(j, a)
      BY <1>2, AnsweredStay DEF CustomerRows, RowKept
    <2>2. SufficientFor(j, a)' \subseteq SufficientFor(j, a)
      BY <1>2 DEF SufficientFor, CustomerRows, RowKept, RowIsNew
    <2> QED  BY <1>1, <2>1, <2>2, AccountKept DEF ReviewInvariant, ChainInvariant
  <1>3. ASSUME NEW d \in Desks,
               \/ ClaimCase(d) \/ RequestInformation(d) \/ EscalateCase(d) \/ ResolveOther(d)
        PROVE  AnswersSuffice(j, a)'
    <2>1. PICK k \in JourneyIds : k = desk[d].journey
      BY <1>3, DeskMoves
    <2>2. PICK i \in DOMAIN cases[k] : i = desk[d].case
      BY <1>3, <2>1, DeskMoves
    <2>3. desk[d].at = "viewing"
      BY <1>3 DEF ClaimCase, RequestInformation, EscalateCase, ResolveOther, Decide, MayMove
    <2>4. PICK row \in Case : /\ Moves(k, i, row)
                              /\ row.resolution = "EVIDENCE_SUFFICIENT" =>
                                    cases[k][i].resolution = "EVIDENCE_SUFFICIENT"
      BY <1>3, <2>1, <2>2, <2>3, DeskMoves DEF OnPage
    <2>5. \A e \in Desks : desk'[e] \in {desk[e], NoPage}
      BY <1>3, DeskMoves DEF ClosePage, ReviewInvariant
    <2> QED  BY <1>1, <2>4, <2>5, MoveUsesNone
  <1>4. ASSUME NEW k \in JourneyIds, LockExpires(k)
        PROVE  AnswersSuffice(j, a)'
    <2>1. UNCHANGED desk
      BY <1>4 DEF LockExpires
    <2> QED  BY <1>1, <1>4, <2>1, ExpiryMoves, MoveUsesNone
  <1>5. ASSUME NEW d \in Desks,
               OpenPage(d) \/ BeginSufficient(d) \/ RejectAnswer(d) \/ CrashDesk(d)
        PROVE  AnswersSuffice(j, a)'
    <2>1. UNCHANGED cases
      BY <1>5 DEF OpenPage, BeginSufficient, RejectAnswer, CrashDesk, vars
    <2>2. desk \in [Desks -> Page \cup {NoPage}]
      BY DEF ReviewInvariant
    <2>3. desk'[d].at # "answered" /\ \A e \in Desks \ {d} : desk'[e] = desk[e]
      <3>1. CASE OpenPage(d)
        BY <2>2, <3>1 DEF OpenPage
      <3>2. CASE BeginSufficient(d)
        <4>1. desk[d] \in Page
          BY <3>2, PageContext DEF BeginSufficient, MayMove
        <4> QED  BY <2>2, <3>2, <4>1 DEF BeginSufficient, Page
      <3>3. CASE RejectAnswer(d) \/ CrashDesk(d)
        BY <2>2, <3>3 DEF RejectAnswer, CrashDesk, ClosePage, NoPage
      <3> QED  BY <1>5, <3>1, <3>2, <3>3
    <2>4. AnsweredDesks(j, a)' \subseteq AnsweredDesks(j, a)
      BY <2>1, <2>3, AnsweredStay
    <2>5. SufficientFor(j, a)' \subseteq SufficientFor(j, a)
      BY <2>1 DEF SufficientFor
    <2> QED  BY <1>1, <2>4, <2>5, AccountKept DEF ReviewInvariant, ChainInvariant
  <1>6. ASSUME NEW c \in Clients, NEW d \in Desks, BreakDeadlock(c, d)
        PROVE  AnswersSuffice(j, a)'
    <2>1. UNCHANGED cases
      BY <1>6 DEF BreakDeadlock
    <2>2. \A e \in Desks : desk'[e] = desk[e] \/ desk'[e] = NoPage
      BY <1>6 DEF BreakDeadlock, ClosePage, ReviewInvariant
    <2>3. AnsweredDesks(j, a)' \subseteq AnsweredDesks(j, a)
      BY <2>1, <2>2, AnsweredStay DEF NoPage
    <2>4. SufficientFor(j, a)' \subseteq SufficientFor(j, a)
      BY <2>1 DEF SufficientFor
    <2> QED  BY <1>1, <2>3, <2>4, AccountKept DEF ReviewInvariant, ChainInvariant
  <1>7. CASE CustomerNext /\ UNCHANGED desk
    BY <1>2, <1>7, CustomerKeepsRows
  <1> QED  BY <1>1, <1>3, <1>4, <1>5, <1>6, <1>7, FinishUsesAnswer, AnswerIsWritten
           DEF ReviewNext, DeskNext, ServeDesk

LEMMA EventsAreFinite ==
    ASSUME TypeOK, TypeOK', NEW j \in JourneyIds
    PROVE  IsFiniteSet(ResolvedCases(j)) /\ IsFiniteSet(Resolutions(j)')
  <1>1. cases[j] \in Seq(Case) /\ outbox'[j] \in Seq(EventType)
    BY DEF TypeOK
  <1>2. /\ ResolvedCases(j) \in SUBSET DOMAIN cases[j]
        /\ Resolutions(j)' \in SUBSET DOMAIN outbox'[j]
    BY DEF ResolvedCases, Resolutions
  <1> QED  BY <1>1, <1>2, FinitePart

LEMMA EventsKept ==
    ASSUME TypeOK, TypeOK', NEW j \in JourneyIds, EventsSuffice(j),
           ResolvedCases(j)' \subseteq ResolvedCases(j), Resolutions(j) \subseteq Resolutions(j)'
    PROVE  EventsSuffice(j)'
  <1>1. PICK R, E, R1, E1 : /\ R = ResolvedCases(j) /\ E = Resolutions(j)
                            /\ R1 = ResolvedCases(j)' /\ E1 = Resolutions(j)'
    OBVIOUS
  <1>2. IsFiniteSet(R) /\ IsFiniteSet(E1)
    BY <1>1, EventsAreFinite
  <1>3. /\ Cardinality(R1) \in Nat /\ Cardinality(R) \in Nat
        /\ Cardinality(R1) <= Cardinality(R)
    BY <1>1, <1>2, AtMostAsMany
  <1>4. /\ Cardinality(E) \in Nat /\ Cardinality(E1) \in Nat
        /\ Cardinality(E) <= Cardinality(E1)
    BY <1>1, <1>2, AtMostAsMany
  <1>5. Cardinality(R) <= Cardinality(E)
    BY <1>1 DEF EventsSuffice
  <1>6. Cardinality(R1) <= Cardinality(E1)
    BY <1>3, <1>4, <1>5
  <1> QED  BY <1>1, <1>6 DEF EventsSuffice

LEMMA EventAdded ==
    ASSUME TypeOK, TypeOK', NEW j \in JourneyIds, EventsSuffice(j),
           NEW i, ResolvedCases(j)' \subseteq ResolvedCases(j) \cup {i},
           NEW n \in Resolutions(j)', Resolutions(j) \subseteq Resolutions(j)' \ {n}
    PROVE  EventsSuffice(j)'
  <1>1. PICK R, E, R1, E1 : /\ R = ResolvedCases(j) /\ E = Resolutions(j)
                            /\ R1 = ResolvedCases(j)' /\ E1 = Resolutions(j)'
    OBVIOUS
  <1>2. IsFiniteSet(R) /\ IsFiniteSet(E1)
    BY <1>1, EventsAreFinite
  <1>3. /\ Cardinality(R1) \in Nat /\ Cardinality(R) \in Nat
        /\ Cardinality(R1) <= Cardinality(R) + 1
    BY <1>1, <1>2, AtMostOneMore
  <1>4. /\ Cardinality(E) \in Nat /\ Cardinality(E1) \in Nat
        /\ Cardinality(E) + 1 <= Cardinality(E1)
    BY <1>1, <1>2, OneMore
  <1>5. Cardinality(R) <= Cardinality(E)
    BY <1>1 DEF EventsSuffice
  <1>6. Cardinality(R1) <= Cardinality(E1)
    BY <1>3, <1>4, <1>5
  <1> QED  BY <1>1, <1>6 DEF EventsSuffice

\* A case becomes RESOLVED in the transaction that queues the event.
LEMMA MoveIsTold ==
    ASSUME ReviewInvariant, TypeOK',
           NEW k \in JourneyIds, NEW i \in DOMAIN cases[k], NEW row \in Case, Moves(k, i, row),
           NEW j \in JourneyIds, EventsSuffice(j), Resolutions(j) \subseteq Resolutions(j)'
    PROVE  EventsSuffice(j)'
  <1>1. TypeOK
    BY DEF ReviewInvariant, ChainInvariant
  <1>2. /\ cases'[k][i] = row
        /\ \A l \in JourneyIds : /\ DOMAIN cases'[l] = DOMAIN cases[l]
                                 /\ \A n \in DOMAIN cases[l] :
                                       l # k \/ n # i => cases'[l][n] = cases[l][n]
    BY <1>1, MovedRows
  <1>3. CASE j # k \/ row.status # "RESOLVED" \/ cases[k][i].status = "RESOLVED"
    <2>1. ResolvedCases(j)' \subseteq ResolvedCases(j)
      BY <1>2, <1>3 DEF ResolvedCases
    <2> QED  BY <1>1, <2>1, EventsKept
  <1>4. CASE j = k /\ row.status = "RESOLVED" /\ cases[k][i].status # "RESOLVED"
    <2> DEFINE n == Len(outbox[j]) + 1
    <2>1. ResolvedCases(j)' \subseteq ResolvedCases(j) \cup {i}
      BY <1>2, <1>4 DEF ResolvedCases
    <2>2. outbox' = [outbox EXCEPT ![j] = Append(@, "JOURNEY_RESOLVED")]
      BY <1>4 DEF Moves
    <2>3. PICK event : event = "JOURNEY_RESOLVED" /\ outbox'[j] = Append(outbox[j], event)
      BY <1>1, <2>2 DEF TypeOK
    <2>4. n \notin DOMAIN outbox[j] /\ n \in DOMAIN outbox'[j] /\ outbox'[j][n] = event
      <3>1. outbox[j] \in Seq(EventType)
        BY <1>1 DEF TypeOK
      <3>2. Len(outbox[j]) \in Nat /\ DOMAIN outbox[j] = 1..Len(outbox[j])
        BY <3>1, LenProperties
      <3>3. /\ DOMAIN Append(outbox[j], event) = 1..Len(outbox[j]) + 1
            /\ Append(outbox[j], event)[Len(outbox[j]) + 1] = event
        BY <3>1, <3>2
      <3> QED  BY <2>3, <3>2, <3>3
    <2> HIDE DEF n
    <2>5. n \in Resolutions(j)' /\ n \notin Resolutions(j)
      BY <2>3, <2>4 DEF Resolutions
    <2> QED  BY <1>1, <2>1, <2>5, EventAdded
  <1> QED  BY <1>3, <1>4

LEMMA EventsStep ==
    ASSUME ReviewInvariant, AllPrepared, ReviewNext, TypeOK',
           NEW j \in JourneyIds, EventsSuffice(j)
    PROVE  EventsSuffice(j)'
  <1>1. TypeOK
    BY DEF ReviewInvariant, ChainInvariant
  <1>2. Resolutions(j) \subseteq Resolutions(j)'
    BY <1>1, ReviewKinds, QueueGrows
  <1>3. ASSUME CustomerRows
        PROVE  EventsSuffice(j)'
    <2>1. ResolvedCases(j)' \subseteq ResolvedCases(j)
      BY <1>3 DEF ResolvedCases, CustomerRows, RowKept, RowIsNew
    <2> QED  BY <1>1, <1>2, <2>1, EventsKept
  <1>4. ASSUME NEW d \in Desks,
               \/ ClaimCase(d) \/ RequestInformation(d) \/ EscalateCase(d)
               \/ ResolveOther(d) \/ FinishSufficient(d)
        PROVE  EventsSuffice(j)'
    <2>1. PICK k \in JourneyIds : k = desk[d].journey
      BY <1>4, DeskMoves
    <2>2. PICK i \in DOMAIN cases[k] : i = desk[d].case
      BY <1>4, <2>1, DeskMoves
    <2>3. \E row \in Case : Moves(k, i, row)
      BY <1>4, <2>1, <2>2, DeskMoves
    <2> QED  BY <1>2, <2>3, MoveIsTold
  <1>5. ASSUME NEW k \in JourneyIds, LockExpires(k)
        PROVE  EventsSuffice(j)'
    BY <1>2, <1>5, ExpiryMoves, MoveIsTold
  <1>6. CASE UNCHANGED cases
    BY <1>1, <1>2, <1>6, EventsKept DEF ResolvedCases
  <1>7. ASSUME NEW d \in Desks,
               \/ OpenPage(d) \/ BeginSufficient(d) \/ AnswerForCase(d) \/ RejectAnswer(d)
               \/ CrashDesk(d)
        PROVE  UNCHANGED cases
    BY <1>7 DEF OpenPage, BeginSufficient, AnswerForCase, RejectAnswer, CrashDesk, vars
  <1>8. ASSUME NEW c \in Clients, NEW d \in Desks, BreakDeadlock(c, d)
        PROVE  UNCHANGED cases
    BY <1>8 DEF BreakDeadlock
  <1> QED  BY <1>3, <1>4, <1>5, <1>6, <1>7, <1>8, CustomerKeepsRows
           DEF ReviewNext, DeskNext, ServeDesk

ResolutionInvariant ==
    \A j \in JourneyIds : EventsSuffice(j) /\ \A a \in Ambiguities : AnswersSuffice(j, a)

LEMMA ResolutionInit ==
    ASSUME ReviewInit
    PROVE  ResolutionInvariant
  <1>1. ASSUME NEW j \in JourneyIds
        PROVE  /\ ResolvedCases(j) = {} /\ Resolutions(j) = {}
               /\ \A a \in Ambiguities : /\ SufficientFor(j, a) = {}
                                         /\ AnswersTo(j, a) = {}
                                         /\ AnsweredDesks(j, a) = {}
    BY DEF ReviewInit, Init, ResolvedCases, Resolutions, SufficientFor, AnswersTo,
       AnsweredDesks, NoPage
  <1>2. IsFiniteSet({}) /\ Cardinality({}) = 0
    BY FS_EmptySet
  <1>3. ASSUME NEW j \in JourneyIds
        PROVE  EventsSuffice(j)
    <2>1. Cardinality(ResolvedCases(j)) = 0 /\ Cardinality(Resolutions(j)) = 0
      BY <1>1, <1>2
    <2> QED  BY <2>1 DEF EventsSuffice
  <1>4. ASSUME NEW j \in JourneyIds, NEW a \in Ambiguities
        PROVE  AnswersSuffice(j, a)
    <2>1. /\ SufficientFor(j, a) = {} /\ AnswersTo(j, a) = {}
          /\ AnsweredDesks(j, a) = {}
      BY <1>1
    <2>2. /\ Cardinality(SufficientFor(j, a)) = 0 /\ Cardinality(AnswersTo(j, a)) = 0
          /\ Cardinality(AnsweredDesks(j, a)) = 0 /\ IsFiniteSet(AnsweredDesks(j, a))
      BY <1>2, <2>1
    <2> QED  BY <2>2 DEF AnswersSuffice
  <1> QED  BY <1>3, <1>4 DEF ResolutionInvariant

LEMMA ResolutionStutters ==
    ASSUME ReviewInvariant, ResolutionInvariant, UNCHANGED reviewVars
    PROVE  ResolutionInvariant'
  <1>1. UNCHANGED <<cases, outbox, audit, desk>>
    BY DEF reviewVars, vars
  <1>2. ASSUME NEW j \in JourneyIds
        PROVE  EventsSuffice(j)'
    <2>1. ResolvedCases(j)' = ResolvedCases(j) /\ Resolutions(j)' = Resolutions(j)
      BY <1>1 DEF ResolvedCases, Resolutions
    <2> QED  BY <2>1 DEF ResolutionInvariant, EventsSuffice
  <1>3. ASSUME NEW j \in JourneyIds, NEW a \in Ambiguities
        PROVE  AnswersSuffice(j, a)'
    <2>1. /\ SufficientFor(j, a)' = SufficientFor(j, a) /\ AnswersTo(j, a)' = AnswersTo(j, a)
          /\ AnsweredDesks(j, a)' = AnsweredDesks(j, a)
      BY <1>1 DEF SufficientFor, AnswersTo, AnsweredDesks, OnPage
    <2> QED  BY <2>1 DEF ResolutionInvariant, AnswersSuffice
  <1> QED  BY <1>2, <1>3 DEF ResolutionInvariant

\* Whatever crashes between the two commits of a resolution, and whichever requests answer
\* for the same case at once: a case closed as EVIDENCE_SUFFICIENT has an answer of its own
\* in the trail, and each case that is resolved has the event that tells the customer.
THEOREM ResolutionsAreCarriedOut == ReviewSpec => []ResolutionIsCarriedOut
  <1>1. ReviewInit => ResolutionInvariant
    BY ResolutionInit
  <1>2. ASSUME ReviewInvariant, AllPrepared, \A j \in JourneyIds : Trailed(j),
               ResolutionInvariant, [ReviewNext]_reviewVars
        PROVE  ResolutionInvariant'
    <2>1. CASE UNCHANGED reviewVars
      BY <1>2, <2>1, ResolutionStutters
    <2>2. CASE ReviewNext
      <3>1. TypeOK'
        BY <1>2, ReviewStep DEF ReviewInvariant, ChainInvariant
      <3>2. \A j \in JourneyIds : EventsSuffice(j)'
        BY <1>2, <2>2, <3>1, EventsStep DEF ResolutionInvariant
      <3>3. \A j \in JourneyIds, a \in Ambiguities : AnswersSuffice(j, a)'
        BY <1>2, <2>2, <3>1, AccountStep DEF ResolutionInvariant
      <3> QED  BY <3>2, <3>3 DEF ResolutionInvariant
    <2> QED  BY <1>2, <2>1, <2>2
  <1>3. ASSUME ReviewInvariant, ResolutionInvariant
        PROVE  ResolutionIsCarriedOut
    <2>1. TypeOK
      BY <1>3 DEF ReviewInvariant, ChainInvariant
    <2>2. ASSUME NEW j \in JourneyIds, NEW a \in Ambiguities
          PROVE  Cardinality(SufficientFor(j, a)) <= Cardinality(AnswersTo(j, a))
      <3>1. /\ cases[j] \in Seq(Case) /\ audit[j] \in Seq(AuditEvent)
            /\ SufficientFor(j, a) \in SUBSET DOMAIN cases[j]
            /\ AnswersTo(j, a) \in SUBSET DOMAIN audit[j]
        BY <2>1 DEF TypeOK, SufficientFor, AnswersTo
      <3>2. /\ Cardinality(SufficientFor(j, a)) \in Nat
            /\ Cardinality(AnswersTo(j, a)) \in Nat
        BY <3>1, FinitePart
      <3>3. /\ IsFiniteSet(AnsweredDesks(j, a))
            /\ Cardinality(SufficientFor(j, a)) + Cardinality(AnsweredDesks(j, a))
                   <= Cardinality(AnswersTo(j, a))
        BY <1>3 DEF ResolutionInvariant, AnswersSuffice
      <3>4. Cardinality(AnsweredDesks(j, a)) \in Nat
        BY <3>3, FS_CardinalityType
      <3> QED  BY <3>2, <3>3, <3>4
    <2>3. ASSUME NEW j \in JourneyIds
          PROVE  Resolved(j) <= Announced(j, "JOURNEY_RESOLVED")
      BY <1>3 DEF ResolutionInvariant, EventsSuffice, ResolvedCases, Resolutions, Resolved,
         Announced
    <2> QED  BY <2>2, <2>3 DEF ResolutionIsCarriedOut
  <1> QED  BY <1>1, <1>2, <1>3, ReviewInvariantHolds, PTL DEF ReviewSpec

-----------------------------------------------------------------------------
(* Questions reach the reviewers.  What an action read of the cases of its *)
(* question is still true when it commits (ReadStaysTrue), an answer       *)
(* leaves nothing to ask, and all that is left are the decisions of        *)
(* reviewers.  A resolution past its own answer has left its journey       *)
(* without a question, so a question it closes a case of was asked later.  *)

\* The answer a resolution gave is in the history of its journey, and asks nothing.
AnswerSettled(d) ==
    desk[d].at = "answered" =>
        LET answer == desk[d].expected + 1
        IN  /\ answer \in DOMAIN snapshots[desk[d].journey]
            /\ snapshots[desk[d].journey][answer].pending = NoAmbiguity

\* The invariant behind QuestionsReachReviewers.
SeenInvariant ==
    /\ ReviewInvariant
    /\ AllPrepared
    /\ \A j \in JourneyIds : Trailed(j)
    /\ \A d \in Desks : AnswerSettled(d)

\* Cases that were open stay so, and the journey stays as it is.
LEMMA UnseenBefore ==
    ASSUME NEW j \in JourneyIds, snapshots'[j] = snapshots[j], journey'[j] = journey[j],
           \A i \in DOMAIN cases[j] :
              /\ i \in DOMAIN cases'[j]
              /\ cases'[j][i].ambiguity = cases[j][i].ambiguity
              /\ cases[j][i].status \notin Terminal => cases'[j][i].status \notin Terminal,
           Unseen(j)'
    PROVE  Unseen(j) /\ snapshots'[j] = snapshots[j]
  <1>1. Created(j) /\ Current(j)' = Current(j)
    BY DEF Unseen, Created, Current
  <1>2. \A a : OpenCases(j, a) \subseteq OpenCases(j, a)'
    BY DEF OpenCases
  <1>3. PICK a : a = Current(j).pending
    OBVIOUS
  <1>4. OpenCases(j, a)' = {} /\ a # NoAmbiguity
    BY <1>1, <1>3 DEF Unseen, OpenCases
  <1> QED  BY <1>1, <1>2, <1>3, <1>4 DEF Unseen

\* An answer leaves its journey without a question.
LEMMA AnswerLeavesNone ==
    ASSUME ChainInvariant, NEW j \in JourneyIds, Trailed(j), Created(j),
           NEW a \in Ambiguities, NEW v \in Value,
           journey[j].current \in DOMAIN snapshots[j], Current(j).pending = a,
           WriteAnswer(j, a, v)
    PROVE  /\ Len(snapshots[j]) + 1 \in DOMAIN snapshots'[j]
           /\ snapshots'[j][Len(snapshots[j]) + 1].pending = NoAmbiguity
           /\ Current(j)'.pending = NoAmbiguity
           /\ \A k \in JourneyIds \ {j} : /\ snapshots'[k] = snapshots[k]
                                          /\ journey'[k] = journey[k]
  <1> DEFINE event == [event |-> "CLARIFICATION_ANSWERED", what |-> a,
                       fields |-> {AmbiguityField[a]}, value |-> v, key |-> NoKey]
  <1>1. NextQuestion(j, a) = NoAmbiguity
    BY NoSecondQuestion DEF Trailed
  <1>2. PICK next \in Snapshot : next = Clarified(j, a, v)
    BY ClarifiedType DEF ChainInvariant
  <1>3. next.pending = NoAmbiguity
    BY <1>1, <1>2 DEF Clarified, Successor
  <1>4. event \in AuditEvent
    <2>1. AmbiguityField[a] \in Fields
      BY PackAssumption
    <2> QED  BY <2>1 DEF AuditEvent
  <1>5. WriteMutation(j, next, event)
    BY <1>2 DEF WriteAnswer
  <1> HIDE DEF event
  <1>6. /\ DOMAIN snapshots'[j] = 1..Len(snapshots[j]) + 1 /\ Len(snapshots[j]) \in Nat
        /\ snapshots'[j][Len(snapshots[j]) + 1] = next
        /\ journey'[j] = RowFor(Len(snapshots[j]) + 1, next)
        /\ \A k \in JourneyIds \ {j} : /\ snapshots'[k] = snapshots[k]
                                       /\ journey'[k] = journey[k]
    BY <1>4, <1>5, MutationAppends DEF ChainInvariant
  <1>7. Current(j)' = next
    BY <1>6 DEF Current, RowFor
  <1> QED  BY <1>3, <1>6, <1>7

LEMMA ClarifySettles ==
    ASSUME SeenInvariant, NEW c \in Clients, Clarify(c), NEW k \in JourneyIds, Unseen(k)'
    PROVE  Unseen(k) /\ snapshots'[k] = snapshots[k]
  <1>1. /\ pc[c] = "waiting"
        /\ Answerable(request[c].journey, request[c].expected, request[c].input.ambiguity,
                      request[c].input.valid)
        /\ WriteAnswer(request[c].journey, request[c].input.ambiguity, request[c].input.typed)
        /\ request[c].op = "clarify" /\ UNCHANGED cases
    BY DEF Clarify, Granted
  <1>2. PICK j \in JourneyIds : /\ j = request[c].journey
                                /\ journey[j].current \in DOMAIN snapshots[j]
    BY <1>1, RequestContext DEF SeenInvariant, ReviewInvariant
  <1>3. request[c].input \in Answer
    BY <1>1, RequestContext, InputsAssumption
       DEF SeenInvariant, ReviewInvariant, Request, ApplyRequest, ClarifyRequest
  <1>4. PICK a \in Ambiguities, v \in Value :
           a = request[c].input.ambiguity /\ v = request[c].input.typed
    BY <1>3 DEF Answer, Value
  <1>5. Created(j) /\ Current(j).pending = a
    BY <1>1, <1>2, <1>4 DEF Created, Answerable
  <1>6. /\ Current(j)'.pending = NoAmbiguity
        /\ \A l \in JourneyIds \ {j} : snapshots'[l] = snapshots[l] /\ journey'[l] = journey[l]
    BY <1>1, <1>2, <1>4, <1>5, AnswerLeavesNone DEF SeenInvariant, ReviewInvariant
  <1>7. k # j
    BY <1>6 DEF Unseen
  <1> QED  BY <1>1, <1>6, <1>7, UnseenBefore

\* The same answer given by a desk, which is then past it.
LEMMA DeskSettles ==
    ASSUME SeenInvariant, NEW d \in Desks, AnswerForCase(d)
    PROVE  /\ AnswerSettled(d)'
           /\ \A k \in JourneyIds : Unseen(k)' => Unseen(k) /\ snapshots'[k] = snapshots[k]
  <1>1. PICK in \in Answers :
           /\ Answering(d)
           /\ Answerable(desk[d].journey, desk[d].expected, in.ambiguity, in.valid)
           /\ WriteAnswer(desk[d].journey, in.ambiguity, in.typed)
           /\ desk' = [desk EXCEPT ![d].at = "answered"] /\ UNCHANGED cases
    BY DEF AnswerForCase
  <1>2. PICK a \in Ambiguities, v \in Value : a = in.ambiguity /\ v = in.typed
    BY InputsAssumption DEF Answer, Value
  <1>3. PICK j \in JourneyIds :
           /\ j = desk[d].journey
           /\ Created(j) /\ journey[j].current \in DOMAIN snapshots[j]
           /\ journey[j].current = Len(snapshots[j])
    BY AnswerContext DEF SeenInvariant
  <1>4. desk[d].expected = Len(snapshots[j]) /\ Current(j).pending = a
    BY <1>1, <1>2, <1>3 DEF Answerable
  <1>5. /\ Len(snapshots[j]) + 1 \in DOMAIN snapshots'[j]
        /\ snapshots'[j][Len(snapshots[j]) + 1].pending = NoAmbiguity
        /\ Current(j)'.pending = NoAmbiguity
        /\ \A k \in JourneyIds \ {j} : snapshots'[k] = snapshots[k] /\ journey'[k] = journey[k]
    BY <1>1, <1>2, <1>3, <1>4, AnswerLeavesNone DEF SeenInvariant, ReviewInvariant
  <1>6. desk'[d].journey = j /\ desk'[d].expected = desk[d].expected
    <2>1. desk \in [Desks -> Page \cup {NoPage}] /\ desk[d] \in Page
      BY <1>1, PageContext DEF Answering, SeenInvariant, ReviewInvariant
    <2> QED  BY <1>1, <1>3, <2>1 DEF Page
  <1>7. AnswerSettled(d)'
    BY <1>4, <1>5, <1>6 DEF AnswerSettled
  <1>8. ASSUME NEW k \in JourneyIds, Unseen(k)'
        PROVE  Unseen(k) /\ snapshots'[k] = snapshots[k]
    <2>1. k # j
      BY <1>5, <1>8 DEF Unseen
    <2> QED  BY <1>1, <1>5, <1>8, <2>1, UnseenBefore
  <1> QED  BY <1>7, <1>8

\* An action that asks a question commits with an open case for it: one it opens, or one
\* that it found and that nobody has closed since.
LEMMA CommitIsSeen ==
    ASSUME SeenInvariant, NEW c \in Clients, CommitApply(c) \/ ReopenAndCommit(c),
           NEW k \in JourneyIds, Unseen(k)'
    PROVE  Unseen(k) /\ snapshots'[k] = snapshots[k]
  <1>1. pc[c] = "open" /\ ReviewInvariant /\ ChainInvariant /\ TypeOK /\ Prepared(c)
    BY DEF CommitApply, ReopenAndCommit, SeenInvariant, ReviewInvariant, ChainInvariant,
       AllPrepared
  <1>2. PICK j \in JourneyIds, next \in Snapshot :
           j = request[c].journey /\ next = tx[c].snapshot
    BY <1>1, CommitKind
  <1>3. PICK read : read = tx[c].case
    OBVIOUS
  <1>4. PICK event \in AuditEvent : Mutation(j, next, event)
    BY <1>1, <1>2, CommitKind
  <1>5. /\ Current(j)' = next
        /\ \A l \in JourneyIds \ {j} : snapshots'[l] = snapshots[l] /\ journey'[l] = journey[l]
    BY <1>1, <1>4, MutationContext, MutationAppends DEF Mutation, Mutates
  <1>6. CustomerRows
    BY <1>1, CommitRows, ReopenRows
  <1>7. ASSUME next.pending # NoAmbiguity
        PROVE  OpenCases(j, next.pending)' # {}
    <2>1. /\ read.found = "none" => next.pending = NoAmbiguity
          /\ read.found = "open" => read.index \in OpenCases(j, next.pending)
      BY <1>1, <1>2, <1>3 DEF ReviewInvariant, CaseInvariant, ReadStaysTrue
    <2>2. read.found \in {"none", "new", "open"}
      BY <1>1, <1>2, <1>3 DEF ChainInvariant, RequestsAreGrounded, Writes, CaseRead
    <2>3. CASE read.found = "open"
      <3>1. /\ read.index \in DOMAIN cases[j]
            /\ cases[j][read.index].ambiguity = next.pending
            /\ cases[j][read.index].status \notin Terminal
        BY <2>1, <2>3 DEF OpenCases
      <3>2. RowKept(j, read.index)
        BY <1>6, <3>1 DEF CustomerRows
      <3>3. read.index \in OpenCases(j, next.pending)'
        BY <3>1, <3>2 DEF RowKept, OpenCases, Terminal
      <3> QED  BY <3>3
    <2>4. CASE read.found = "new"
      <3>1. CommitApply(c)
        BY <1>2, <1>3, <2>4 DEF ReopenAndCommit, Reopens
      <3>2. PICK row : /\ row.ambiguity = next.pending /\ row.status = "REVIEW_REQUIRED"
                       /\ cases' = [cases EXCEPT ![j] = Append(@, row)]
        BY <1>2, <1>3, <2>4, <3>1 DEF CommitApply, NewCase
      <3>3. cases[j] \in Seq(Case) /\ cases'[j] = Append(cases[j], row)
        BY <1>1, <3>2 DEF TypeOK
      <3>4. Len(cases[j]) + 1 \in DOMAIN cases'[j] /\ cases'[j][Len(cases[j]) + 1] = row
        <4>1. Len(cases[j]) \in Nat
          BY <3>3, LenProperties
        <4>2. /\ DOMAIN Append(cases[j], row) = 1..Len(cases[j]) + 1
              /\ Append(cases[j], row)[Len(cases[j]) + 1] = row
          BY <3>3, <4>1
        <4> QED  BY <3>3, <4>1, <4>2
      <3>5. Len(cases[j]) + 1 \in OpenCases(j, next.pending)'
        BY <3>2, <3>4 DEF OpenCases, Terminal
      <3> QED  BY <3>5
    <2> QED  BY <1>7, <2>1, <2>2, <2>3, <2>4
  <1>8. k # j
    BY <1>5, <1>7 DEF Unseen, OpenCases
  <1> QED  BY <1>5, <1>6, <1>8, UnseenBefore DEF CustomerRows, RowKept, Terminal

\* The steps of the customer side: only a commit or an answer asks anything, and no step
\* closes a case.
LEMMA CustomerIsSeen ==
    ASSUME SeenInvariant, CustomerNext, NEW k \in JourneyIds, Unseen(k)'
    PROVE  Unseen(k) /\ snapshots'[k] = snapshots[k]
  <1>1. ReviewInvariant /\ CustomerRows
    BY CustomerKeepsRows DEF SeenInvariant
  <1>2. ASSUME UNCHANGED journeyVars
        PROVE  Unseen(k) /\ snapshots'[k] = snapshots[k]
    BY <1>1, <1>2, UnseenBefore DEF journeyVars, CustomerRows, RowKept, Terminal
  <1>3. ASSUME NEW c \in Clients,
               \/ BeginApply(c) \/ BeginClarify(c) \/ ReplayAfterWait(c) \/ RejectApply(c)
               \/ OpenApply(c) \/ RejectClarify(c) \/ CollideOnKey(c)
               \/ CollideOnNumber(c) \/ FinishApply(c) \/ Crash(c) \/ Return(c)
        PROVE  UNCHANGED journeyVars
    BY <1>3 DEF BeginApply, BeginClarify, ReplayAfterWait, RejectApply, OpenApply,
       RejectClarify, CollideOnKey, CollideOnNumber, FinishApply, Crash, Return
  <1>4. ASSUME NEW u \in Uploads, AnalyseEvidence(u) \/ StoreEvidence(u) \/ AbortEvidence(u)
        PROVE  UNCHANGED journeyVars
    BY <1>4 DEF AnalyseEvidence, StoreEvidence, AbortEvidence
  <1>5. ASSUME NEW j \in JourneyIds, CreateJourney(j)
        PROVE  Unseen(k) /\ snapshots'[k] = snapshots[k]
    <2>1. /\ snapshots \in [JourneyIds -> Seq(Snapshot)]
          /\ journey \in [JourneyIds -> JourneyRow]
      BY <1>1 DEF ReviewInvariant, ChainInvariant, TypeOK
    <2>2. /\ snapshots' = [snapshots EXCEPT ![j] = <<InitialSnapshot>>]
          /\ journey' = [journey EXCEPT ![j] = [current |-> 1, status |-> "IN_PROGRESS",
                                                readiness |-> InitialSnapshot.readiness]]
      BY <1>5 DEF CreateJourney
    <2>3. Current(j)' = InitialSnapshot
      <3>1. snapshots'[j] = <<InitialSnapshot>> /\ journey'[j].current = 1
        BY <2>1, <2>2
      <3>2. \A s : <<s>>[1] = s
        OBVIOUS
      <3> QED  BY <3>1, <3>2 DEF Current
    <2>4. k # j
      BY <2>3 DEF Unseen, InitialSnapshot
    <2>5. snapshots'[k] = snapshots[k] /\ journey'[k] = journey[k]
      BY <2>1, <2>2, <2>4
    <2> QED  BY <1>1, <2>5, UnseenBefore DEF CustomerRows, RowKept, Terminal
  <1> QED  BY <1>2, <1>3, <1>4, <1>5, CommitIsSeen, ClarifySettles
           DEF CustomerNext, Serve, Finish

\* A desk that rewrites a case hides at most the question of that case, and a resolution
\* past its answer only one that was asked after the answer.
LEMMA MoveHides ==
    ASSUME SeenInvariant, NEW d \in Desks,
           \/ ClaimCase(d) \/ RequestInformation(d) \/ EscalateCase(d)
           \/ ResolveOther(d) \/ FinishSufficient(d),
           NEW k \in JourneyIds, Unseen(k)', ~Unseen(k)
    PROVE  DecidedAt(d, k)
  <1>1. ReviewInvariant /\ ChainInvariant /\ TypeOK
    BY DEF SeenInvariant, ReviewInvariant, ChainInvariant
  <1>2. PICK j \in JourneyIds : j = desk[d].journey /\ ClosePage(d)
    BY <1>1, DeskMoves
  <1>3. PICK i \in DOMAIN cases[j] : i = desk[d].case
    BY <1>1, <1>2, DeskMoves
  <1>4. PICK row \in Case : Moves(j, i, row)
    BY <1>1, <1>2, <1>3, DeskMoves
  <1>5. /\ UNCHANGED <<snapshots, journey>>
        /\ \A l \in JourneyIds : /\ DOMAIN cases'[l] = DOMAIN cases[l]
                                 /\ \A n \in DOMAIN cases[l] :
                                       l # j \/ n # i => cases'[l][n] = cases[l][n]
        /\ \A l \in JourneyIds : \A n \in DOMAIN cases[l] :
              cases'[l][n].ambiguity = cases[l][n].ambiguity
    BY <1>1, <1>4, MovedRows DEF Moves, journeyVars
  <1>6. PICK a : a = Current(k).pending
    OBVIOUS
  <1>7. /\ Created(k) /\ a # NoAmbiguity
        /\ OpenCases(k, a)' = {} /\ OpenCases(k, a) # {}
    BY <1>5, <1>6 DEF Unseen, Created, Current, OpenCases
  <1>8. k = j /\ i \in OpenCases(j, a)
    BY <1>5, <1>7 DEF OpenCases
  <1>9. desk[d].at \in {"viewing", "answered"} /\ desk'[d] = NoPage
    <2>1. desk \in [Desks -> Page \cup {NoPage}]
      BY <1>1 DEF ReviewInvariant
    <2>2. desk[d].at \in {"viewing", "answered"}
      BY DEF ClaimCase, RequestInformation, EscalateCase, ResolveOther, Decide, MayMove,
         FinishSufficient
    <2> QED  BY <1>2, <2>1, <2>2 DEF ClosePage
  <1>10. ASSUME desk[d].at = "answered"
         PROVE  Current(j).ver > desk[d].expected + 1
    <2> DEFINE answer == desk[d].expected + 1
    <2>1. /\ answer \in DOMAIN snapshots[j]
          /\ snapshots[j][answer].pending = NoAmbiguity
      BY <1>2, <1>10 DEF SeenInvariant, AnswerSettled
    <2>2. snapshots[j] \in Seq(Snapshot)
      BY <1>1 DEF TypeOK
    <2>3. DOMAIN snapshots[j] = 1..Len(snapshots[j]) /\ Len(snapshots[j]) \in Nat
      BY <2>2, LenProperties
    <2>4. /\ journey[j].current = Len(snapshots[j])
          /\ \A n \in DOMAIN snapshots[j] : snapshots[j][n].ver = n
      BY <1>1 DEF ChainInvariant, ChainIsLinear
    <2>5. journey[j].current # answer
      BY <1>6, <1>7, <1>8, <2>1 DEF Current
    <2> HIDE DEF answer
    <2>6. Len(snapshots[j]) > answer /\ Len(snapshots[j]) \in DOMAIN snapshots[j]
      BY <2>1, <2>3, <2>4, <2>5
    <2>7. Current(j).ver > answer
      BY <2>4, <2>6 DEF Current
    <2> QED  BY <2>7 DEF answer
  <1> QED  BY <1>2, <1>3, <1>6, <1>8, <1>9, <1>10 DEF DecidedAt

LEMMA DesksAreSeen ==
    ASSUME SeenInvariant, DeskStep, NEW k \in JourneyIds, Unseen(k)'
    PROVE  \/ Unseen(k) /\ snapshots'[k] = snapshots[k]
           \/ \E d \in Desks : DecidedAt(d, k)
  <1>1. ReviewInvariant /\ ChainInvariant /\ TypeOK
    BY DEF SeenInvariant, ReviewInvariant, ChainInvariant
  <1>2. ASSUME UNCHANGED <<journeyVars, cases>>
        PROVE  Unseen(k) /\ snapshots'[k] = snapshots[k]
    BY <1>2, UnseenBefore DEF journeyVars
  <1>3. ASSUME NEW d \in Desks,
               \/ ClaimCase(d) \/ RequestInformation(d) \/ EscalateCase(d)
               \/ ResolveOther(d) \/ FinishSufficient(d)
        PROVE  \/ Unseen(k) /\ snapshots'[k] = snapshots[k]
               \/ DecidedAt(d, k)
    <2>1. snapshots'[k] = snapshots[k]
      BY <1>1, <1>3, DeskMoves DEF Moves, journeyVars
    <2> QED  BY <1>3, <2>1, MoveHides
  <1>4. ASSUME NEW d \in Desks,
               OpenPage(d) \/ BeginSufficient(d) \/ RejectAnswer(d) \/ CrashDesk(d)
        PROVE  UNCHANGED <<journeyVars, cases>>
    BY <1>4 DEF OpenPage, BeginSufficient, RejectAnswer, CrashDesk, vars, journeyVars
  <1>5. ASSUME NEW c \in Clients, NEW d \in Desks, BreakDeadlock(c, d)
        PROVE  UNCHANGED <<journeyVars, cases>>
    BY <1>5 DEF BreakDeadlock
  <1>6. ASSUME NEW j \in JourneyIds, LockExpires(j)
        PROVE  Unseen(k) /\ snapshots'[k] = snapshots[k]
    <2>1. PICK i \in DOMAIN cases[j], row \in Case : Moves(j, i, row) /\ AsRead(row, cases[j][i])
      BY <1>1, <1>6, ExpiryMoves
    <2>2. \A l \in JourneyIds : \A n \in DOMAIN cases[l] :
             /\ n \in DOMAIN cases'[l]
             /\ cases'[l][n].ambiguity = cases[l][n].ambiguity
             /\ cases'[l][n].status = cases[l][n].status
      BY <1>1, <2>1, MovedRows DEF AsRead
    <2>3. UNCHANGED <<snapshots, journey>>
      BY <2>1 DEF Moves, journeyVars
    <2> QED  BY <2>2, <2>3, UnseenBefore
  <1> QED  BY <1>2, <1>3, <1>4, <1>5, <1>6, DeskSettles DEF DeskStep, DeskNext, ServeDesk

\* A page is past its answer when it was so before, or when it has just given it.
LEMMA NewlyAnswered ==
    ASSUME ReviewInvariant, ReviewNext, NEW e \in Desks,
           desk'[e].at = "answered", desk'[e] # desk[e]
    PROVE  AnswerForCase(e)
  <1>1. desk \in [Desks -> Page \cup {NoPage}]
    BY DEF ReviewInvariant
  <1>2. ASSUME NEW d \in Desks, desk'[d].at # "answered",
               \E page : desk' = [desk EXCEPT ![d] = page]
        PROVE  FALSE
    BY <1>1, <1>2
  <1>3. ASSUME NEW d \in Desks, ClosePage(d)
        PROVE  FALSE
    BY <1>1, <1>3 DEF ClosePage, NoPage
  <1>4. ASSUME NEW d \in Desks,
               \/ ClaimCase(d) \/ RequestInformation(d) \/ EscalateCase(d)
               \/ ResolveOther(d) \/ FinishSufficient(d) \/ RejectAnswer(d) \/ CrashDesk(d)
        PROVE  ClosePage(d)
    BY <1>4, DeskMoves DEF RejectAnswer, CrashDesk
  <1>5. ASSUME NEW d \in Desks, OpenPage(d)
        PROVE  FALSE
    BY <1>1, <1>5 DEF OpenPage
  <1>6. ASSUME NEW d \in Desks, BeginSufficient(d)
        PROVE  FALSE
    <2>1. desk[d] \in Page
      BY <1>6, PageContext DEF BeginSufficient, MayMove
    <2> QED  BY <1>1, <1>6, <2>1 DEF BeginSufficient, Page
  <1>7. ASSUME NEW d \in Desks, AnswerForCase(d)
        PROVE  AnswerForCase(e)
    <2>1. d = e
      BY <1>1, <1>7 DEF AnswerForCase
    <2> QED  BY <1>7, <2>1
  <1>8. ASSUME NEW c \in Clients, NEW d \in Desks, BreakDeadlock(c, d)
        PROVE  FALSE
    BY <1>3, <1>8 DEF BreakDeadlock
  <1>9. ASSUME NEW j \in JourneyIds, LockExpires(j)
        PROVE  FALSE
    BY <1>9 DEF LockExpires
  <1> QED  BY <1>3, <1>4, <1>5, <1>6, <1>7, <1>8, <1>9 DEF ReviewNext, DeskNext, ServeDesk

LEMMA SettledStep ==
    ASSUME SeenInvariant, [ReviewNext]_reviewVars
    PROVE  SeenInvariant'
  <1>1. ReviewInvariant' /\ AllPrepared' /\ \A j \in JourneyIds : Trailed(j)'
    BY ReviewStep DEF SeenInvariant
  <1>2. ASSUME NEW d \in Desks
        PROVE  AnswerSettled(d)'
    <2>1. CASE UNCHANGED reviewVars
      BY <2>1 DEF reviewVars, vars, SeenInvariant, AnswerSettled
    <2>2. CASE ReviewNext /\ desk'[d] # desk[d]
      BY <2>2, NewlyAnswered, DeskSettles DEF SeenInvariant, AnswerSettled
    <2>3. CASE ReviewNext /\ desk'[d] = desk[d] /\ desk[d].at = "answered"
      <3>1. PICK j \in JourneyIds : j = desk[d].journey
        BY <2>3, PageContext DEF SeenInvariant
      <3>2. \A i \in DOMAIN snapshots[j] :
               i \in DOMAIN snapshots'[j] /\ snapshots'[j][i] = snapshots[j][i]
        BY <2>3, ReviewKinds, HistoryIsKept DEF SeenInvariant, ReviewInvariant, ChainInvariant
      <3> QED  BY <2>3, <3>1, <3>2 DEF SeenInvariant, AnswerSettled
    <2> QED  BY <2>1, <2>2, <2>3 DEF AnswerSettled
  <1> QED  BY <1>1, <1>2 DEF SeenInvariant

\* However customers, uploads and reviewers interleave, a question of a journey lacks an
\* open case only after a reviewer decided it while it stood.  That a resolution past its
\* own answer may do so to a question asked anew since then is the early commit's fault,
\* and it never does so to the question it answered.
THEOREM QuestionsAreSeen == ReviewSpec => QuestionsReachReviewers
  <1>1. ReviewInit => SeenInvariant
    <2>1. ReviewInit => \A d \in Desks : AnswerSettled(d)
      BY DEF ReviewInit, AnswerSettled, NoPage
    <2> QED  BY <2>1, ReviewStart DEF SeenInvariant
  <1>2. SeenInvariant /\ [ReviewNext]_reviewVars => SeenInvariant'
    BY SettledStep
  <1>3. ASSUME SeenInvariant, [ReviewNext]_reviewVars
        PROVE  [\A j \in JourneyIds : Unseen(j)' =>
                  \/ Unseen(j) /\ snapshots'[j] = snapshots[j]
                  \/ \E d \in Desks : DecidedAt(d, j)]_reviewVars
    BY <1>3, CustomerIsSeen, DesksAreSeen DEF ReviewNext, DeskStep
  <1> QED  BY <1>1, <1>2, <1>3, PTL DEF ReviewSpec, QuestionsReachReviewers

===============================================================================
