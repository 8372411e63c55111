-------------------------- MODULE FrontDoor_proofs --------------------------
(***************************************************************************)
(* Only who has shown the reviewer's access code that is in force now is a *)
(* reviewer, for any number of sessions, requests and codes.               *)
(*                                                                         *)
(* The role travels in rows: from the table into a request that reads it,  *)
(* and back when the request writes the whole column.  A row may be old,   *)
(* so AccessIsGranted has to be strengthened to what holds of every row,   *)
(* wherever it is: its grant was shown by the session (Earned).  Codes     *)
(* change only with a new process, which has no requests, so a promotion   *)
(* that was admitted writes the very code that was shown (Admitted).       *)
(*                                                                         *)
(* The rate limiter forgets: it pops old hits and evicts whole keys.  What *)
(* it was really asked for is the history variable served; the invariant   *)
(* says that the deque, popped to what is recent, is that history, and     *)
(* that a wait it told leaves too few hits to be refused again.  The last  *)
(* part is about the row locks of the sessions.                            *)
(***************************************************************************)
EXTENDS FrontDoor, SequenceTheorems, FiniteSetTheorems, TLAPS

Row == [role : {"CUSTOMER", "REVIEW_OFFICER"}, grant : Codes \cup {NoCode}]

Request == [at : {"idle", "inserting", "writing", "working"}, kind : Kinds,
            session : Sessions \cup {Nobody}, code : Codes \cup {NoCode},
            row : Row \cup {Nobody}]

Shapes ==
    /\ setting \in Settings /\ code \in Codes \cup {NoCode}
    /\ table \in [Sessions -> Row \cup {Nobody}]
    /\ request \in [Clients -> Request]
    /\ shown \in [Sessions -> SUBSET Codes]

Earned(row, s) == row.role = "REVIEW_OFFICER" => row.grant \in shown[s]

RowsAreEarned == \A s \in Sessions : table[s] # Nobody => Earned(table[s], s)

\* A request beyond its admission holds a row of its own session.
Holds(r) == /\ r.session \in Sessions
            /\ r.at \in {"writing", "working"} => r.row \in Row /\ Earned(r.row, r.session)
Admitted(r) == r.at = "writing" /\ r.kind = "promote" => code \in shown[r.session]

RequestsAreEarned ==
    \A c \in Clients : request[c].at # "idle" => Holds(request[c]) /\ Admitted(request[c])

GrantInvariant == Shapes /\ RowsAreEarned /\ RequestsAreEarned

-----------------------------------------------------------------------------

\* Initially nobody has a row, and no request is under way.
LEMMA GrantInit == Init => GrantInvariant
  <1> SUFFICES ASSUME Init PROVE GrantInvariant
    OBVIOUS
  <1>1. Idle \in Request
    BY DEF Idle, Request, Kinds
  <1>2. Shapes
    BY <1>1 DEF Init, Shapes
  <1> QED
    BY <1>2 DEF Init, GrantInvariant, RowsAreEarned, RequestsAreEarned, Idle

\* What set_meta writes was earned, if the row it is based on was and the code in
\* force was shown by whom it promotes.
LEMMA MergedIsEarned ==
    ASSUME GrantInvariant, NEW c \in Clients, request[c].at = "writing"
    PROVE  LET r == request[c]
               merged == Merged(r.row, r.kind)
           IN  merged \in Row /\ Earned(merged, r.session)
  <1> DEFINE r == request[c]
  <1>1. r \in Request /\ Holds(r) /\ Admitted(r) /\ r.row \in Row
    BY DEF GrantInvariant, Shapes, RequestsAreEarned, Holds
  <1>2. code \in Codes \cup {NoCode}
    BY DEF GrantInvariant, Shapes
  <1>3. CASE r.kind = "promote"
    <2>1. Merged(r.row, r.kind) = [role |-> "REVIEW_OFFICER", grant |-> code]
      BY <1>1, <1>3 DEF Merged, Row
    <2> QED
      BY <1>1, <1>2, <1>3, <2>1 DEF Row, Earned, Admitted
  <1>4. CASE r.kind = "demote"
    <2>1. Merged(r.row, r.kind) = [role |-> "CUSTOMER", grant |-> NoCode]
      BY <1>1, <1>4 DEF Merged, Row
    <2> QED
      BY <2>1 DEF Row, Earned
  <1>5. CASE r.kind \notin {"promote", "demote"}
    BY <1>1, <1>5 DEF Merged, Holds
  <1> QED
    BY <1>3, <1>4, <1>5

\* The invariant survives a step that changes at most one request, to a good one,
\* and forgets nothing that was shown.
LEMMA OneRequest ==
    ASSUME GrantInvariant, NEW c \in Clients, UNCHANGED <<setting, code, table>>,
           request' \in [Clients -> Request],
           \A d \in Clients \ {c} : request'[d] = request[d],
           (request[c].at # "idle" => Holds(request[c]) /\ Admitted(request[c]))',
           shown' \in [Sessions -> SUBSET Codes], \A s \in Sessions : shown[s] \subseteq shown'[s]
    PROVE  GrantInvariant'
  <1>1. Shapes'
    BY DEF GrantInvariant, Shapes
  <1>2. RowsAreEarned'
    BY DEF GrantInvariant, RowsAreEarned, Earned
  <1>3. RequestsAreEarned'
    <2> SUFFICES ASSUME NEW d \in Clients \ {c}, request'[d].at # "idle"
                 PROVE  Holds(request[d])' /\ Admitted(request[d])'
      BY DEF RequestsAreEarned
    <2>1. Holds(request[d]) /\ Admitted(request[d])
      BY DEF GrantInvariant, RequestsAreEarned
    <2> QED
      BY <2>1 DEF Holds, Admitted, Earned
  <1> QED
    BY <1>1, <1>2, <1>3 DEF GrantInvariant

\* A refused request changes no row.
LEMMA DismissKeeps ==
    ASSUME GrantInvariant, NEW c \in Clients, Dismiss(c), UNCHANGED <<setting, code, table>>
    PROVE  GrantInvariant'
  <1>1. Idle \in Request /\ Idle.at = "idle"
    BY DEF Idle, Request, Kinds
  <1>2. shown' = shown /\ shown \in [Sessions -> SUBSET Codes]
    BY DEF Dismiss, GrantInvariant, Shapes
  <1>3. request' = [request EXCEPT ![c] = Idle] /\ request \in [Clients -> Request]
    BY DEF Dismiss, GrantInvariant, Shapes
  <1> QED
    BY <1>1, <1>2, <1>3, OneRequest

\* The three outcomes of an admission, for a row that its session has earned.
LEMMA AdmitKeeps ==
    ASSUME GrantInvariant, NEW c \in Clients, NEW new \in BOOLEAN,
           NEW STATE kind, NEW STATE s, NEW STATE shownCode, NEW STATE row,
           kind \in Kinds, s \in Sessions, shownCode \in Codes \cup {NoCode}, row \in Row,
           Earned(row, s), Admit(c, kind, s, shownCode, row, new),
           UNCHANGED <<setting, code, table>>
    PROVE  GrantInvariant'
  <1>1. CASE Dismiss(c)
    BY <1>1, DismissKeeps
  <1>2. CASE ~ Dismiss(c)
    <2> DEFINE at == IF kind = "chat" THEN "working" ELSE "writing"
               r == [at |-> at, kind |-> kind, session |-> s, code |-> NoCode, row |-> row]
    <2>1. /\ Authorized(kind, shownCode)
          /\ request' = [request EXCEPT ![c] = r]
          /\ shown' = IF kind = "promote" THEN [shown EXCEPT ![s] = @ \cup {shownCode}] ELSE shown
      BY <1>2 DEF Admit
    <2>2. r \in Request
      BY DEF Request
    <2>3. kind = "promote" => shownCode = code /\ code \in Codes
      BY <2>1 DEF Authorized, GrantInvariant, Shapes
    <2>4. /\ shown' \in [Sessions -> SUBSET Codes]
          /\ \A t \in Sessions : shown[t] \subseteq shown'[t]
      BY <2>1, <2>3 DEF GrantInvariant, Shapes
    <2>5. request' \in [Clients -> Request] /\ request'[c] = r
          /\ \A d \in Clients \ {c} : request'[d] = request[d]
      BY <2>1, <2>2 DEF GrantInvariant, Shapes
    <2>6. Holds(request[c])'
      BY <2>4, <2>5 DEF Holds, Earned
    <2>7. Admitted(request[c])'
      BY <2>1, <2>3, <2>5 DEF Admitted, GrantInvariant, Shapes
    <2> QED
      BY <2>4, <2>5, <2>6, <2>7, OneRequest
  <1> QED
    BY <1>1, <1>2

-----------------------------------------------------------------------------
(* One lemma per action                                                    *)

LEMMA BeginKeeps ==
    ASSUME GrantInvariant, NEW c \in Clients, NEW kind \in Kinds, NEW s \in Sessions,
           NEW shownCode \in Codes \cup {NoCode}, Begin(c, kind, s, shownCode)
    PROVE  GrantInvariant'
  <1>1. CASE Enter(c, kind, s, shownCode)
    <2>1. table[s] \in Row /\ Earned(table[s], s)
      BY <1>1 DEF Enter, GrantInvariant, Shapes, RowsAreEarned
    <2> QED
      BY <1>1, <2>1, AdmitKeeps DEF Enter
  <1>2. CASE Missing(c, kind, s, shownCode)
    <2> DEFINE r == [at |-> "inserting", kind |-> kind, session |-> s, code |-> shownCode,
                     row |-> Nobody]
    <2>1. r \in Request
      BY DEF Request
    <2>2. request' = [request EXCEPT ![c] = r] /\ UNCHANGED <<setting, code, table, shown>>
      BY <1>2 DEF Missing
    <2>3. /\ request' \in [Clients -> Request] /\ request'[c] = r
          /\ \A d \in Clients \ {c} : request'[d] = request[d]
          /\ shown \in [Sessions -> SUBSET Codes]
      BY <2>1, <2>2 DEF GrantInvariant, Shapes
    <2>4. Holds(request[c])' /\ Admitted(request[c])'
      BY <2>3 DEF Holds, Admitted
    <2> QED
      BY <2>2, <2>3, <2>4, OneRequest
  <1> QED
    BY <1>1, <1>2 DEF Begin

LEMMA InsertKeeps ==
    ASSUME GrantInvariant, NEW c \in Clients, Insert(c)
    PROVE  GrantInvariant'
  <1>1. request[c] \in Request /\ request[c].session \in Sessions
    BY DEF Insert, GrantInvariant, Shapes, RequestsAreEarned, Holds
  <1>2. UNCHANGED <<setting, code, table>>
    BY DEF Insert
  <1>3. CASE Dismiss(c)
    BY <1>2, <1>3, DismissKeeps
  <1>4. CASE Admit(c, request[c].kind, request[c].session, request[c].code, Fresh, TRUE)
    <2>1. Fresh \in Row /\ Earned(Fresh, request[c].session)
      BY DEF Fresh, Row, Earned
    <2>2. request[c].kind \in Kinds /\ request[c].code \in Codes \cup {NoCode}
      BY <1>1 DEF Request
    <2> QED
      BY <1>1, <1>2, <1>4, <2>1, <2>2, AdmitKeeps
  <1> QED
    BY <1>3, <1>4 DEF Insert

LEMMA SetMetaKeeps ==
    ASSUME GrantInvariant, NEW c \in Clients, SetMeta(c)
    PROVE  GrantInvariant'
  <1> DEFINE merged == Merged(request[c].row, request[c].kind)
             r == [request[c] EXCEPT !.at = "working", !.row = merged]
  <1>1. request[c] \in Request /\ Holds(request[c]) /\ request[c].at = "writing"
    BY DEF SetMeta, GrantInvariant, Shapes, RequestsAreEarned
  <1>2. merged \in Row /\ Earned(merged, request[c].session)
    BY <1>1, MergedIsEarned
  <1>3. UNCHANGED <<setting, code, table, shown>> /\ shown \in [Sessions -> SUBSET Codes]
    BY DEF SetMeta, GrantInvariant, Shapes
  <1> HIDE DEF merged
  <1>4. r \in Request /\ r.at = "working" /\ r.row = merged /\ r.session = request[c].session
    BY <1>1, <1>2 DEF Request
  <1>5. request' = [request EXCEPT ![c] = r] /\ request \in [Clients -> Request]
    BY <1>1 DEF SetMeta, GrantInvariant, Shapes, Request, merged
  <1>6. /\ request' \in [Clients -> Request] /\ request'[c] = r
        /\ \A d \in Clients \ {c} : request'[d] = request[d]
    BY <1>4, <1>5
  <1>7. Holds(request[c])' /\ Admitted(request[c])'
    BY <1>1, <1>2, <1>3, <1>4, <1>6 DEF Holds, Admitted, Earned
  <1> QED
    BY <1>3, <1>6, <1>7, OneRequest

LEMMA FinishKeeps ==
    ASSUME GrantInvariant, NEW c \in Clients, Finish(c)
    PROVE  GrantInvariant'
  <1> DEFINE r == request[c]
  <1>1. r \in Request /\ Holds(r) /\ r.row \in Row
    BY DEF Finish, GrantInvariant, Shapes, RequestsAreEarned, Holds
  <1>2. table' = table \/ table' = [table EXCEPT ![r.session] = r.row]
    BY DEF Finish
  <1>3. UNCHANGED <<setting, code, shown>> /\ request' = [request EXCEPT ![c] = Idle]
    BY DEF Finish
  <1>4. Idle \in Request /\ Idle.at = "idle"
    BY DEF Idle, Request, Kinds
  <1>5. Shapes'
    BY <1>1, <1>2, <1>3, <1>4 DEF GrantInvariant, Shapes
  <1>6. RowsAreEarned'
    BY <1>1, <1>2, <1>3 DEF GrantInvariant, Shapes, RowsAreEarned, Holds, Earned, Finish
  <1>7. RequestsAreEarned'
    BY <1>3, <1>4 DEF GrantInvariant, Shapes, RequestsAreEarned, Holds, Admitted, Earned
  <1> QED
    BY <1>5, <1>6, <1>7 DEF GrantInvariant

LEMMA RestartKeeps == GrantInvariant /\ Restart => GrantInvariant'
  <1> SUFFICES ASSUME GrantInvariant, Restart PROVE GrantInvariant'
    OBVIOUS
  <1>1. Idle \in Request /\ Idle.at = "idle"
    BY DEF Idle, Request, Kinds
  <1>2. Shapes'
    BY <1>1 DEF Restart, GrantInvariant, Shapes
  <1> QED
    BY <1>1, <1>2 DEF Restart, GrantInvariant, RowsAreEarned, RequestsAreEarned, Earned

\* What GrantInvariant is about stays as it is.
LEMMA StutterKeeps ==
    GrantInvariant /\ UNCHANGED <<setting, code, table, request, shown>> => GrantInvariant'
  BY DEF GrantInvariant, Shapes, RowsAreEarned, RequestsAreEarned, Holds, Admitted, Earned

LEMMA GrantStep == GrantInvariant /\ [Next]_vars => GrantInvariant'
  <1> SUFFICES ASSUME GrantInvariant, [Next]_vars PROVE GrantInvariant'
    OBVIOUS
  <1>1. CASE Begins
    <2>1. /\ setting.clients \subseteq Clients /\ setting.sessions \subseteq Sessions
          /\ setting.kinds \subseteq Kinds
      BY SettingsAssumption DEF GrantInvariant, Shapes
    <2>2. PICK c \in setting.clients, kind \in setting.kinds, s \in setting.sessions :
             \E shownCode \in Codes \cup {NoCode} : Begin(c, kind, s, shownCode)
      BY <1>1 DEF Begins
    <2> QED
      BY <2>1, <2>2, BeginKeeps
  <1>2. ASSUME NEW c \in Clients, Work(c) PROVE GrantInvariant'
    BY <1>2, InsertKeeps, SetMetaKeeps, FinishKeeps DEF Work
  <1>3. CASE Restart
    BY <1>3, RestartKeeps
  <1>4. CASE Tick
    BY <1>4, StutterKeeps DEF Tick
  <1>5. CASE UNCHANGED vars
    BY <1>5, StutterKeeps DEF vars
  <1> QED
    BY <1>1, <1>2, <1>3, <1>4, <1>5 DEF Next

-----------------------------------------------------------------------------

\* Every row, stored or held by a request, carries a grant only as its session has
\* earned it (SessionRepository.set_meta, set_session_role).
THEOREM GrantsAreEarned == Spec => []GrantInvariant
  BY GrantInit, GrantStep, PTL DEF Spec

\* A session is a reviewer only if it has itself shown the code that is in force now
\* (has_valid_reviewer_grant).
THEOREM OnlyShownCodesGrant == Spec => []AccessIsGranted
  <1>1. GrantInvariant => AccessIsGranted
    BY DEF GrantInvariant, RowsAreEarned, Earned, AccessIsGranted, Reviewer, Grant
  <1> QED
    BY <1>1, GrantsAreEarned, PTL

-----------------------------------------------------------------------------
(* What popleft leaves of the hits of a key.                               *)

\* Ages of hits, oldest first.
Ordered(ages) == /\ ages \in Seq(Ages)
                 /\ \A m, n \in 1..Len(ages) : m <= n => ages[n] <= ages[m]

\* The first k ages are those that are gone.
Gone(ages, k) == /\ k \in 0..Len(ages)
                 /\ \A n \in 1..k : ~ Inside(ages[n])
                 /\ k < Len(ages) => Inside(ages[k + 1])

\* Natural numbers that go up to n, contain 0 and the next of each, are all of them.
LEMMA NoGap ==
    ASSUME NEW n \in Nat, NEW D \in SUBSET (0..n), 0 \in D, \A x \in D : x + 1 \in D
    PROVE  FALSE
  <1> DEFINE f == [x \in D |-> x + 1]
  <1>1. IsFiniteSet(0..n)
    BY FS_Interval
  <1>2. IsFiniteSet(D)
    BY <1>1, FS_Subset
  <1>3. Cardinality(D \ {0}) = Cardinality(D) - 1 /\ IsFiniteSet(D \ {0})
    BY <1>2, FS_RemoveElement
  <1>4. Cardinality(D) \in Nat
    BY <1>2, FS_CardinalityType
  <1>5. f \in [D -> D \ {0}]
    OBVIOUS
  <1>6. \A x, y \in D : f[x] = f[y] => x = y
    OBVIOUS
  <1>7. Cardinality(D \ {0}) < Cardinality(D)
    BY <1>3, <1>4
  <1> HIDE DEF f
  <1>8. \E x, y \in D : x # y /\ f[x] = f[y]
    BY <1>2, <1>3, <1>5, <1>7, FS_PigeonHole
  <1> QED  BY <1>6, <1>8

LEMMA SomeAreGone ==
    ASSUME NEW ages \in Seq(Ages)
    PROVE  \E k \in 0..Len(ages) : Gone(ages, k)
  <1> DEFINE D == {k \in 0..Len(ages) : \A n \in 1..k : ~ Inside(ages[n])}
  <1> SUFFICES ASSUME \A k \in 0..Len(ages) : ~ Gone(ages, k)
               PROVE  FALSE
    OBVIOUS
  <1>1. Len(ages) \in Nat
    BY LenProperties
  <1>2. 0 \in D
    BY <1>1
  <1>3. \A x \in D : x + 1 \in D
    BY <1>1 DEF Gone
  <1> HIDE DEF D
  <1>4. D \in SUBSET (0..Len(ages))
    BY DEF D
  <1> QED  BY <1>1, <1>2, <1>3, <1>4, NoGap

\* The loop ends in one place only.
LEMMA RecentIs ==
    ASSUME NEW ages \in Seq(Ages), NEW k, Gone(ages, k)
    PROVE  Recent(ages) = SubSeq(ages, k + 1, Len(ages))
  <1>1. \A l \in 0..Len(ages) : Gone(ages, l) => l = k
    BY LenProperties DEF Gone
  <1>2. k = CHOOSE l \in 0..Len(ages) : /\ \A n \in 1..l : ~ Inside(ages[n])
                                        /\ l < Len(ages) => Inside(ages[l + 1])
    BY <1>1 DEF Gone
  <1> QED  BY <1>2 DEF Recent

LEMMA RecentAges ==
    ASSUME NEW ages, Ordered(ages), NEW k, Gone(ages, k)
    PROVE  /\ Recent(ages) = SubSeq(ages, k + 1, Len(ages))
           /\ Ordered(Recent(ages)) /\ Len(Recent(ages)) = Len(ages) - k
           /\ \A n \in 1..Len(ages) - k : /\ Recent(ages)[n] = ages[k + n]
                                          /\ Inside(Recent(ages)[n])
  <1>1. ages \in Seq(Ages) /\ Len(ages) \in Nat /\ ages \in [1..Len(ages) -> Ages]
    BY LenProperties DEF Ordered
  <1>2. Recent(ages) = SubSeq(ages, k + 1, Len(ages))
    BY <1>1, RecentIs
  <1>3. /\ Recent(ages) \in Seq(Ages) /\ Len(Recent(ages)) = Len(ages) - k
        /\ \A n \in 1..Len(ages) - k : Recent(ages)[n] = ages[k + n]
    <2>1. /\ k \in Nat /\ k <= Len(ages) /\ k + 1 \in Int /\ Len(ages) \in Int
          /\ \A i \in k + 1..Len(ages) : ages[i] \in Ages
      BY <1>1 DEF Gone
    <2>2. /\ SubSeq(ages, k + 1, Len(ages)) \in Seq(Ages)
          /\ Len(SubSeq(ages, k + 1, Len(ages)))
                = IF k + 1 <= Len(ages) THEN Len(ages) - (k + 1) + 1 ELSE 0
          /\ \A i \in 1..Len(ages) - (k + 1) + 1 :
                SubSeq(ages, k + 1, Len(ages))[i] = ages[(k + 1) + i - 1]
      BY <2>1, SubSeqProperties
    <2>3. /\ Recent(ages) \in Seq(Ages) /\ Len(Recent(ages)) = Len(ages) - k
      BY <1>1, <1>2, <2>1, <2>2
    <2>4. ASSUME NEW n \in 1..Len(ages) - k
          PROVE  Recent(ages)[n] = ages[k + n]
      <3>1. n \in 1..Len(ages) - (k + 1) + 1 /\ (k + 1) + n - 1 = k + n
        BY <1>1, <2>1, SMTT(30)
      <3> QED  BY <1>2, <2>2, <3>1
    <2> QED  BY <2>3, <2>4
  <1>4. \A n \in 1..Len(ages) - k : Inside(ages[k + n])
    BY <1>1, LimitAssumption DEF Gone, Ordered, Inside, Ages
  <1>5. Ordered(Recent(ages))
    BY <1>1, <1>3 DEF Ordered, Gone
  <1> QED  BY <1>2, <1>3, <1>4, <1>5

\* What is left is ordered and inside the window.
LEMMA RecentIsInside ==
    ASSUME NEW ages, Ordered(ages)
    PROVE  /\ Ordered(Recent(ages)) /\ Len(Recent(ages)) <= Len(ages)
           /\ \A n \in 1..Len(Recent(ages)) : Inside(Recent(ages)[n])
  <1>1. PICK k \in 0..Len(ages) : Gone(ages, k)
    BY SomeAreGone DEF Ordered
  <1>2. Len(ages) \in Nat
    BY LenProperties DEF Ordered
  <1> QED  BY <1>1, <1>2, RecentAges

\* Nothing is lost of ages that are all inside, and nothing left of ages that are not.
LEMMA AllRecent ==
    ASSUME NEW ages \in Seq(Ages), \A n \in 1..Len(ages) : Inside(ages[n])
    PROVE  Recent(ages) = ages
  <1>1. Len(ages) \in Nat
    BY LenProperties
  <1>2. Gone(ages, 0)
    BY <1>1 DEF Gone
  <1>3. PICK k : k = 0
    OBVIOUS
  <1>4. Recent(ages) = SubSeq(ages, k + 1, Len(ages))
    BY <1>2, <1>3, RecentIs
  <1>5. k + 1 = 1
    BY <1>3
  <1> QED  BY <1>4, <1>5, SubSeqFull

LEMMA NoneRecent ==
    ASSUME NEW ages, Ordered(ages), Stale(ages)
    PROVE  Recent(ages) = <<>>
  <1>1. ages \in Seq(Ages) /\ Len(ages) \in Nat /\ ages \in [1..Len(ages) -> Ages]
    BY LenProperties DEF Ordered
  <1>2. ages # <<>> => Len(ages) \in Nat \ {0}
    BY <1>1, EmptySeq
  <1>3. ages = <<>> => Len(ages) = 0
    BY <1>1
  <1>4. \A n \in 1..Len(ages) : ~ Inside(ages[n])
    BY <1>1, <1>2, <1>3, LimitAssumption DEF Ordered, Stale, Inside, Ages
  <1>5. Gone(ages, Len(ages))
    BY <1>1, <1>4 DEF Gone
  <1>6. Recent(ages) = SubSeq(ages, Len(ages) + 1, Len(ages))
    BY <1>1, <1>5, RecentIs
  <1> QED  BY <1>1, <1>6, SubSeqEmpty

LEMMA OlderAges ==
    ASSUME NEW ages, Ordered(ages)
    PROVE  /\ Ordered(Older(ages)) /\ Len(Older(ages)) = Len(ages)
           /\ \A n \in 1..Len(ages) :
                 /\ ages[n] \in Ages
                 /\ Older(ages)[n] = IF Inside(ages[n]) THEN ages[n] + 1 ELSE Window
  <1>1. ages \in Seq(Ages) /\ Len(ages) \in Nat /\ DOMAIN ages = 1..Len(ages)
        /\ \A n \in 1..Len(ages) : ages[n] \in Ages
    BY LenProperties, ElementOfSeq DEF Ordered
  <1>2. /\ \A n \in 1..Len(ages) :
              /\ Older(ages)[n] = IF Inside(ages[n]) THEN ages[n] + 1 ELSE Window
              /\ Older(ages)[n] \in Ages
        /\ DOMAIN Older(ages) = 1..Len(ages) /\ Older(ages) \in [1..Len(ages) -> Ages]
    BY <1>1, LimitAssumption DEF Older, Inside, Ages
  <1>3. Older(ages) \in Seq(Ages) /\ Len(Older(ages)) = Len(ages)
    BY <1>1, <1>2
  <1>4. ASSUME NEW m \in 1..Len(ages), NEW n \in 1..Len(ages), m <= n
        PROVE  Older(ages)[n] <= Older(ages)[m]
    <2>1. ages[m] \in 0..Window /\ ages[n] \in 0..Window /\ ages[n] <= ages[m]
      BY <1>1, <1>4 DEF Ordered, Ages
    <2>2. /\ Older(ages)[m] = IF ages[m] < Window THEN ages[m] + 1 ELSE Window
          /\ Older(ages)[n] = IF ages[n] < Window THEN ages[n] + 1 ELSE Window
      BY <1>2 DEF Inside
    <2>3. Window \in Nat
      BY LimitAssumption
    <2> QED  BY <2>1, <2>2, <2>3
  <1>5. Ordered(Older(ages))
    BY <1>3, <1>4 DEF Ordered
  <1> QED  BY <1>1, <1>2, <1>3, <1>5

\* It makes no difference whether old hits are removed before time passes, too.
LEMMA RecentLater ==
    ASSUME NEW ages, Ordered(ages)
    PROVE  Recent(Older(Recent(ages))) = Recent(Older(ages))
  <1> DEFINE left == Recent(ages)
  <1>1. ages \in Seq(Ages) /\ Len(ages) \in Nat
    BY LenProperties DEF Ordered
  <1>2. /\ Ordered(Older(ages)) /\ Len(Older(ages)) = Len(ages)
        /\ \A n \in 1..Len(ages) :
              /\ ages[n] \in Ages
              /\ Older(ages)[n] = IF Inside(ages[n]) THEN ages[n] + 1 ELSE Window
    BY OlderAges
  <1>3. PICK k \in 0..Len(ages) : Gone(ages, k)
    BY <1>1, SomeAreGone
  <1>4. /\ Ordered(left) /\ Len(left) = Len(ages) - k
        /\ \A n \in 1..Len(ages) - k : left[n] = ages[k + n]
    BY <1>3, RecentAges
  <1>5. PICK l \in 0..Len(ages) : Gone(Older(ages), l)
    BY <1>2, SomeAreGone DEF Ordered
  <1> HIDE DEF left
  <1>6. /\ Ordered(Older(left)) /\ Len(Older(left)) = Len(ages) - k
        /\ \A n \in 1..Len(ages) - k : Older(left)[n] = Older(ages)[k + n]
    <2>1. /\ Ordered(Older(left)) /\ Len(Older(left)) = Len(left)
          /\ \A n \in 1..Len(left) :
                Older(left)[n] = IF Inside(left[n]) THEN left[n] + 1 ELSE Window
      BY <1>4, OlderAges
    <2>2. ASSUME NEW n \in 1..Len(ages) - k
          PROVE  Older(left)[n] = Older(ages)[k + n]
      <3>1. k + n \in 1..Len(ages)
        BY <1>1, <1>3
      <3> QED  BY <1>2, <1>4, <2>1, <3>1
    <2> QED  BY <1>4, <2>1, <2>2
  <1>7. k <= l
    BY <1>1, <1>2, <1>3, <1>5, LimitAssumption DEF Gone, Inside, Ages
  <1>8. Gone(Older(left), l - k)
    <2>1. k \in Nat /\ l \in Nat /\ l - k \in Nat /\ l - k <= Len(ages) - k
      BY <1>1, <1>7
    <2>2. ASSUME NEW n \in 1..l - k
          PROVE  ~ Inside(Older(left)[n])
      <3>1. n \in 1..Len(ages) - k /\ k + n \in 1..l
        BY <1>1, <2>1
      <3> QED  BY <1>5, <1>6, <3>1 DEF Gone
    <2>3. ASSUME l - k < Len(ages) - k
          PROVE  Inside(Older(left)[(l - k) + 1])
      <3>1. l < Len(ages) /\ (l - k) + 1 \in 1..Len(ages) - k /\ k + ((l - k) + 1) = l + 1
        BY <1>1, <2>1, <2>3
      <3>2. Older(left)[(l - k) + 1] = Older(ages)[l + 1]
        BY <1>6, <3>1
      <3> QED  BY <1>2, <1>5, <3>1, <3>2 DEF Gone
    <2> QED  BY <1>1, <1>6, <2>1, <2>2, <2>3 DEF Gone
  <1>9. /\ Ordered(Recent(Older(left))) /\ Len(Recent(Older(left))) = Len(ages) - l
        /\ \A n \in 1..Len(ages) - l : Recent(Older(left))[n] = Older(ages)[l + n]
    <2> DEFINE older == Older(left)
    <2>1. /\ Ordered(Recent(older)) /\ Len(Recent(older)) = Len(older) - (l - k)
          /\ \A n \in 1..Len(older) - (l - k) : Recent(older)[n] = older[(l - k) + n]
      <3> HIDE DEF older
      <3> QED  BY <1>6, <1>8, RecentAges, ZenonT(60) DEF older
    <2>2. /\ Len(older) - (l - k) = Len(ages) - l
          /\ \A n \in 1..Len(ages) - l : /\ (l - k) + n \in 1..Len(ages) - k
                                         /\ k + ((l - k) + n) = l + n
      BY <1>1, <1>6, <1>7
    <2> QED  BY <1>6, <2>1, <2>2
  <1>10. /\ Ordered(Recent(Older(ages))) /\ Len(Recent(Older(ages))) = Len(ages) - l
         /\ \A n \in 1..Len(ages) - l : Recent(Older(ages))[n] = Older(ages)[l + n]
    <2> DEFINE older == Older(ages)
    <2> HIDE DEF older
    <2>1. /\ Ordered(Recent(older)) /\ Len(Recent(older)) = Len(older) - l
          /\ \A n \in 1..Len(older) - l : Recent(older)[n] = older[l + n]
      BY <1>2, <1>5, RecentAges DEF older
    <2> QED  BY <1>2, <2>1 DEF older
  <1>11. Recent(Older(left)) = Recent(Older(ages))
    BY <1>9, <1>10, SeqEqual DEF Ordered
  <1> QED  BY <1>11 DEF left

-----------------------------------------------------------------------------
(* The limiter.                                                            *)

HitsAreOrdered == DOMAIN hits \subseteq Keys /\ \A key \in DOMAIN hits : Ordered(hits[key])

\* What the limiter has not forgotten is all that was served in the window.
ServedIsTracked == /\ served \in [Keys -> Seq(Ages)]
                   /\ \A key \in Keys : served[key] = HitsOf(key)

\* When the time that was told is over, no key has reached its limit.
WaitIsEnough(w) ==
    told[w] # Untold => \A key \in KeysOf(w[1], w[2]) :
                           Len(served[key]) >= LimitOf(key) => Window - served[key][1] <= told[w]

LimiterInvariant ==
    /\ HitsAreOrdered /\ ServedIsTracked /\ WindowRespected
    /\ told \in [(DOMAIN Scope) \X Sessions -> 0..Untold]
    /\ \A w \in (DOMAIN Scope) \X Sessions : WaitIsEnough(w)

LEMMA LimitsCount ==
    /\ \A key \in Keys : LimitOf(key) \in Nat \ {0}
    /\ \A kind \in DOMAIN Scope, s \in Sessions : KeysOf(kind, s) \subseteq Keys
    /\ Window \in Nat \ {0} /\ Untold \in Nat /\ Window < Untold
  BY LimitAssumption DEF Keys, KeysOf, LimitOf, Untold

LEMMA NoAges == Ordered(<<>>) /\ Recent(<<>>) = <<>> /\ Older(<<>>) = <<>>
  <1>1. <<>> \in Seq(Ages) /\ Len(<<>>) = 0
    BY EmptySeq
  <1>2. Ordered(<<>>)
    BY <1>1 DEF Ordered
  <1>3. Recent(<<>>) = <<>>
    <2>1. PICK ages \in Seq(Ages) : ages = <<>> /\ Len(ages) = 0
      BY <1>1
    <2>2. \A n \in 1..Len(ages) : Inside(ages[n])
      BY <2>1
    <2>3. Recent(ages) = ages
      BY <2>2, AllRecent
    <2> QED  BY <2>1, <2>3
  <1>4. Older(<<>>) = <<>>
    BY DEF Older
  <1> QED  BY <1>2, <1>3, <1>4

LEMMA ServedAges ==
    ASSUME HitsAreOrdered, ServedIsTracked, NEW key \in Keys
    PROVE  /\ Ordered(served[key]) /\ Recent(served[key]) = served[key]
           /\ served[key] \in Seq(Ages) /\ Len(served[key]) \in Nat
           /\ \A n \in 1..Len(served[key]) : Inside(served[key][n]) /\ served[key][n] \in Ages
  <1>1. served[key] \in Seq(Ages) /\ Len(served[key]) \in Nat
        /\ \A n \in 1..Len(served[key]) : served[key][n] \in Ages
    BY LenProperties, ElementOfSeq DEF ServedIsTracked
  <1>2. CASE key \in DOMAIN hits
    <2>1. Ordered(hits[key]) /\ served[key] = Recent(hits[key])
      BY <1>2 DEF HitsAreOrdered, ServedIsTracked, HitsOf
    <2>2. Ordered(served[key]) /\ \A n \in 1..Len(served[key]) : Inside(served[key][n])
      BY <2>1, RecentIsInside
    <2> QED  BY <1>1, <2>2, AllRecent
  <1>3. CASE key \notin DOMAIN hits
    <2>1. served[key] = <<>>
      BY <1>3 DEF ServedIsTracked, HitsOf
    <2>2. \A n \in 1..Len(served[key]) : Inside(served[key][n])
      BY <2>1
    <2> QED  BY <1>1, <2>1, <2>2, NoAges
  <1> QED  BY <1>2, <1>3

LEMMA OneMoreHit ==
    ASSUME NEW ages, Ordered(ages), \A n \in 1..Len(ages) : Inside(ages[n])
    PROVE  LET more == Append(ages, 0)
           IN  /\ more = ages \o <<0>> /\ Ordered(more) /\ Recent(more) = more
               /\ Len(more) = Len(ages) + 1
  <1> DEFINE more == Append(ages, 0)
  <1>1. ages \in Seq(Ages) /\ Len(ages) \in Nat /\ 0 \in Ages
        /\ \A n \in 1..Len(ages) : ages[n] \in Ages
    BY LenProperties, ElementOfSeq, LimitsCount DEF Ordered, Ages
  <1>2. more = ages \o <<0>>
    BY <1>1, AppendIsConcat
  <1>3. /\ more \in Seq(Ages) /\ Len(more) = Len(ages) + 1
        /\ \A n \in 1..Len(ages) : more[n] = ages[n]
        /\ more[Len(ages) + 1] = 0
    BY <1>1, AppendProperties
  <1> HIDE DEF more
  <1>4. \A n \in 1..Len(more) : Inside(more[n])
    BY <1>1, <1>3, LimitsCount DEF Inside
  <1>5. Ordered(more)
    BY <1>1, <1>3 DEF Ordered, Ages
  <1> QED  BY <1>2, <1>3, <1>4, <1>5, AllRecent DEF more

\* A hit is recorded on its keys, and only keys without recent hits are forgotten.
LEMMA HitIsTracked ==
    ASSUME LimiterInvariant, NEW kind \in DOMAIN Scope, NEW s \in Sessions,
           setting.limited, Hit(kind, s)
    PROVE  HitsAreOrdered' /\ ServedIsTracked'
  <1> DEFINE keys    == KeysOf(kind, s)
             tracked == Pruned(keys)
             kept    == Kept(tracked)
  <1>1. keys \subseteq Keys /\ HitsAreOrdered /\ ServedIsTracked
    BY LimitsCount DEF LimiterInvariant
  <1>2. /\ DOMAIN hits' = kept \cup keys
        /\ \A key \in kept \cup keys :
              hits'[key] = (IF key \in kept THEN tracked[key] ELSE <<>>)
                           \o (IF key \in keys THEN <<0>> ELSE <<>>)
        /\ served' = [key \in Keys |-> IF key \in keys THEN Append(served[key], 0)
                                       ELSE served[key]]
    BY DEF Hit, Limited
  <1>3. /\ DOMAIN tracked = DOMAIN hits
        /\ \A key \in DOMAIN hits :
              tracked[key] = IF key \in keys THEN HitsOf(key) ELSE hits[key]
    BY DEF Pruned
  <1>4. kept \subseteq DOMAIN hits /\ \A key \in DOMAIN hits \ kept : Stale(tracked[key])
    BY <1>3 DEF Kept
  <1> HIDE DEF keys, tracked, kept
  <1>5. ASSUME NEW key \in keys
        PROVE  /\ key \in DOMAIN hits' /\ Ordered(hits'[key])
               /\ served'[key] \in Seq(Ages) /\ served'[key] = HitsOf(key)'
    <2>1. /\ Ordered(served[key]) /\ Recent(served[key]) = served[key]
          /\ served[key] \in Seq(Ages) /\ served[key] = HitsOf(key)
          /\ \A n \in 1..Len(served[key]) : Inside(served[key][n])
      BY <1>1, ServedAges DEF ServedIsTracked
    <2>2. (IF key \in kept THEN tracked[key] ELSE <<>>) = served[key]
      <3>1. CASE key \in kept
        BY <1>3, <1>4, <2>1, <3>1
      <3>2. CASE key \in DOMAIN hits \ kept
        BY <1>3, <1>4, <2>1, <3>2, NoneRecent
      <3>3. CASE key \notin DOMAIN hits
        BY <1>4, <2>1, <3>3 DEF HitsOf
      <3> QED  BY <3>1, <3>2, <3>3
    <2>3. key \in DOMAIN hits' /\ hits'[key] = served[key] \o <<0>>
      BY <1>2, <2>2
    <2>4. served'[key] = Append(served[key], 0)
      BY <1>1, <1>2
    <2>5. /\ hits'[key] = served'[key] /\ Ordered(served'[key])
          /\ Recent(served'[key]) = served'[key]
      BY <2>1, <2>3, <2>4, OneMoreHit
    <2> QED  BY <2>3, <2>5 DEF HitsOf, Ordered
  <1>6. ASSUME NEW key \in Keys \ keys
        PROVE  /\ key \in DOMAIN hits' => Ordered(hits'[key])
               /\ served'[key] = served[key] /\ served'[key] = HitsOf(key)'
    <2>1. served'[key] = served[key] /\ served[key] = HitsOf(key)
      BY <1>1, <1>2, <1>6 DEF ServedIsTracked
    <2>2. CASE key \in kept
      <3>1. key \in DOMAIN hits /\ Ordered(hits[key]) /\ hits[key] \in Seq(Ages)
        BY <1>1, <1>4, <2>2 DEF HitsAreOrdered, Ordered
      <3>2. key \in DOMAIN hits' /\ hits'[key] = hits[key]
        BY <1>2, <1>3, <1>6, <2>2, <3>1, ConcatEmptySeq
      <3> QED  BY <2>1, <3>1, <3>2 DEF HitsOf
    <2>3. CASE key \in DOMAIN hits \ kept
      <3>1. Ordered(hits[key]) /\ Stale(hits[key])
        BY <1>1, <1>3, <1>4, <1>6, <2>3 DEF HitsAreOrdered
      <3>2. served[key] = <<>> /\ key \notin DOMAIN hits'
        BY <1>2, <1>6, <2>1, <2>3, <3>1, NoneRecent DEF HitsOf
      <3> QED  BY <2>1, <3>2 DEF HitsOf
    <2>4. CASE key \notin DOMAIN hits
      BY <1>2, <1>4, <1>6, <2>1, <2>4 DEF HitsOf
    <2> QED  BY <2>2, <2>3, <2>4
  <1>7. HitsAreOrdered'
    BY <1>1, <1>2, <1>4, <1>5, <1>6 DEF HitsAreOrdered
  <1>8. served' \in [Keys -> Seq(Ages)]
    <2>1. \A key \in Keys : served'[key] \in Seq(Ages)
      BY <1>1, <1>5, <1>6 DEF ServedIsTracked
    <2> QED  BY <1>2, <2>1
  <1> QED  BY <1>5, <1>6, <1>7, <1>8 DEF ServedIsTracked

LEMMA HitKeepsLimits ==
    ASSUME LimiterInvariant, NEW kind \in Kinds, NEW s \in Sessions,
           Room(kind, s), Hit(kind, s)
    PROVE  LimiterInvariant'
  <1>1. CASE ~ Limited(kind)
    <2>1. UNCHANGED limiter
      BY <1>1 DEF Hit
    <2> QED  BY <2>1 DEF LimiterInvariant, limiter, HitsAreOrdered, ServedIsTracked, HitsOf,
             WindowRespected, WaitIsEnough
  <1>2. CASE Limited(kind)
    <2> DEFINE keys == KeysOf(kind, s)
    <2>1. kind \in DOMAIN Scope /\ setting.limited /\ keys \subseteq Keys /\ Full(keys) = {}
      BY <1>2, LimitsCount DEF Limited, Room
    <2>2. HitsAreOrdered' /\ ServedIsTracked' /\ HitsAreOrdered /\ ServedIsTracked
      BY <2>1, HitIsTracked DEF LimiterInvariant
    <2>3. /\ \A key \in Keys :
                served'[key] = IF key \in keys THEN Append(served[key], 0) ELSE served[key]
          /\ told' = [w \in DOMAIN told |->
                         IF KeysOf(w[1], w[2]) \cap keys # {} THEN Untold ELSE told[w]]
      BY <1>2 DEF Hit
    <2>4. ASSUME NEW key \in Keys
          PROVE  Len(served'[key]) <= LimitOf(key)
      <3>1. LimitOf(key) \in Nat /\ Len(served[key]) \in Nat /\ Len(served[key]) <= LimitOf(key)
        BY <2>2, LimitsCount, ServedAges DEF LimiterInvariant, WindowRespected
      <3>2. CASE key \in keys
        <4>1. ~ Len(served[key]) >= LimitOf(key)
          BY <2>1, <2>2, <3>2 DEF Full, ServedIsTracked
        <4>2. Len(served'[key]) = Len(served[key]) + 1
          BY <2>2, <2>3, <3>2, ServedAges, OneMoreHit
        <4> QED  BY <3>1, <4>1, <4>2
      <3>3. CASE key \notin keys
        BY <2>3, <3>1, <3>3
      <3> QED  BY <3>2, <3>3
    <2>5. told' \in [(DOMAIN Scope) \X Sessions -> 0..Untold]
      BY <2>3, LimitsCount DEF LimiterInvariant
    <2>6. ASSUME NEW w \in (DOMAIN Scope) \X Sessions
          PROVE  WaitIsEnough(w)'
      <3>1. told'[w] = IF KeysOf(w[1], w[2]) \cap keys # {} THEN Untold ELSE told[w]
        BY <2>3 DEF LimiterInvariant
      <3>2. CASE KeysOf(w[1], w[2]) \cap keys = {}
        <4>1. told'[w] = told[w] /\ \A key \in KeysOf(w[1], w[2]) : served'[key] = served[key]
          BY <2>3, <3>1, <3>2, LimitsCount
        <4> QED  BY <4>1 DEF LimiterInvariant, WaitIsEnough
      <3>3. CASE KeysOf(w[1], w[2]) \cap keys # {}
        BY <3>1, <3>3 DEF WaitIsEnough
      <3> QED  BY <3>2, <3>3
    <2> QED  BY <2>2, <2>4, <2>5, <2>6 DEF LimiterInvariant, WindowRespected
  <1> QED  BY <1>1, <1>2

\* The time that a 429 tells is the longest of the keys that are full.
LEMMA LongestWait ==
    ASSUME LimiterInvariant, NEW kind \in DOMAIN Scope, NEW s \in Sessions,
           Full(KeysOf(kind, s)) # {}
    PROVE  LET wait == RetryAfter(Full(KeysOf(kind, s)))
           IN  /\ wait \in 0..Untold
               /\ \A key \in Full(KeysOf(kind, s)) : Window - served[key][1] <= wait
  <1> DEFINE full  == Full(KeysOf(kind, s))
             one   == <<Scope[kind].scope, s>>
             all   == <<Scope[kind].pool, "global">>
             times == {FreeIn(key) : key \in full}
  <1>1. HitsAreOrdered /\ ServedIsTracked /\ KeysOf(kind, s) \subseteq Keys
        /\ KeysOf(kind, s) = {one, all}
    BY LimitsCount DEF LimiterInvariant, KeysOf
  <1>2. ASSUME NEW key \in full
        PROVE  FreeIn(key) \in 0..Window /\ FreeIn(key) = Window - served[key][1]
    <2>1. key \in Keys /\ Len(HitsOf(key)) >= LimitOf(key) /\ HitsOf(key) = served[key]
      BY <1>1, <1>2 DEF Full, ServedIsTracked
    <2>2. Len(served[key]) \in Nat /\ Len(served[key]) >= 1
      BY <1>1, <2>1, LimitsCount, ServedAges
    <2>3. served[key][1] \in Ages
      BY <1>1, <2>1, <2>2, ServedAges
    <2> QED  BY <2>1, <2>3, LimitsCount DEF FreeIn, Ages
  <1>3. \E t \in times : \A key \in full : t >= FreeIn(key)
    <2>1. full \subseteq {one, all}
      BY <1>1 DEF Full
    <2>2. CASE one \notin full \/ all \notin full
      <3>1. PICK key \in full : \A k2 \in full : k2 = key
        BY <2>1, <2>2
      <3> QED  BY <1>2, <3>1
    <2>3. CASE one \in full /\ all \in full
      <3>1. FreeIn(one) \in 0..Window /\ FreeIn(all) \in 0..Window
        BY <1>2, <2>3
      <3>2. FreeIn(one) >= FreeIn(all) \/ FreeIn(all) >= FreeIn(one)
        BY <3>1, LimitsCount
      <3>3. FreeIn(one) >= FreeIn(one) /\ FreeIn(all) >= FreeIn(all)
        BY <3>1, LimitsCount
      <3> HIDE DEF one, all, full
      <3> QED  BY <2>1, <2>3, <3>2, <3>3
    <2> QED  BY <2>2, <2>3
  <1>4. /\ RetryAfter(full) \in times
        /\ \A key \in full : RetryAfter(full) >= FreeIn(key)
    BY <1>3 DEF RetryAfter
  <1> HIDE DEF full
  <1>5. PICK key \in full : RetryAfter(full) = FreeIn(key)
    BY <1>4
  <1>6. RetryAfter(full) \in 0..Window
    BY <1>2, <1>5
  <1>7. RetryAfter(full) \in 0..Untold
    BY <1>6, LimitsCount
  <1> QED  BY <1>2, <1>4, <1>7 DEF full

LEMMA TooManyKeepsLimits ==
    ASSUME LimiterInvariant, NEW kind \in Kinds, NEW s \in Sessions,
           ~ Room(kind, s), TooMany(kind, s)
    PROVE  LimiterInvariant'
  <1> DEFINE keys == KeysOf(kind, s)
  <1>1. kind \in DOMAIN Scope /\ keys \subseteq Keys /\ Full(keys) # {}
        /\ HitsAreOrdered /\ ServedIsTracked
    BY LimitsCount DEF Room, Limited, LimiterInvariant
  <1>2. /\ hits' = Pruned(keys) /\ served' = served
        /\ told' = [told EXCEPT ![<<kind, s>>] = RetryAfter(Full(keys))]
    BY DEF TooMany
  <1>3. /\ DOMAIN hits' = DOMAIN hits
        /\ \A key \in DOMAIN hits :
              hits'[key] = IF key \in keys THEN HitsOf(key) ELSE hits[key]
    BY <1>2 DEF Pruned
  <1>4. ASSUME NEW key \in DOMAIN hits
        PROVE  Ordered(hits'[key]) /\ Recent(hits'[key]) = Recent(hits[key])
    <2>1. CASE key \in keys
      <3>1. hits'[key] = served[key] /\ served[key] = Recent(hits[key])
        BY <1>1, <1>3, <2>1 DEF ServedIsTracked, HitsOf
      <3> QED  BY <1>1, <2>1, <3>1, ServedAges
    <2>2. CASE key \notin keys
      BY <1>1, <1>3, <2>2 DEF HitsAreOrdered
    <2> QED  BY <2>1, <2>2
  <1>5. HitsAreOrdered' /\ ServedIsTracked' /\ WindowRespected'
    BY <1>1, <1>2, <1>3, <1>4 DEF HitsAreOrdered, ServedIsTracked, HitsOf, WindowRespected,
       LimiterInvariant
  <1>6. /\ RetryAfter(Full(keys)) \in 0..Untold
        /\ \A key \in Full(keys) : Window - served[key][1] <= RetryAfter(Full(keys))
    BY <1>1, LongestWait
  <1>7. told' \in [(DOMAIN Scope) \X Sessions -> 0..Untold]
    BY <1>2, <1>6 DEF LimiterInvariant
  <1>8. ASSUME NEW w \in (DOMAIN Scope) \X Sessions
        PROVE  WaitIsEnough(w)'
    <2>1. CASE w = <<kind, s>>
      <3>1. told'[w] = RetryAfter(Full(keys)) /\ KeysOf(w[1], w[2]) = keys
        BY <1>1, <1>2, <2>1 DEF LimiterInvariant
      <3>2. ASSUME NEW key \in keys, Len(served[key]) >= LimitOf(key)
            PROVE  key \in Full(keys)
        BY <1>1, <3>2 DEF Full, ServedIsTracked
      <3> QED  BY <1>2, <1>6, <3>1, <3>2 DEF WaitIsEnough
    <2>2. CASE w # <<kind, s>>
      <3>1. told'[w] = told[w]
        BY <1>2, <2>2 DEF LimiterInvariant
      <3> QED  BY <1>2, <3>1 DEF LimiterInvariant, WaitIsEnough
    <2> QED  BY <2>1, <2>2
  <1> QED  BY <1>1, <1>2, <1>5, <1>7, <1>8 DEF LimiterInvariant

LEMMA TickKeepsLimits ==
    ASSUME LimiterInvariant, Tick
    PROVE  LimiterInvariant'
  <1>1. /\ HitsAreOrdered /\ ServedIsTracked
        /\ DOMAIN hits' = DOMAIN hits
        /\ \A key \in DOMAIN hits : hits'[key] = Older(hits[key])
        /\ served' = [key \in Keys |-> Recent(Older(served[key]))]
        /\ told' = [w \in DOMAIN told |->
                       IF told[w] \in {0, Untold} THEN told[w] ELSE told[w] - 1]
    BY DEF Tick, LimiterInvariant
  <1>2. HitsAreOrdered'
    BY <1>1, OlderAges DEF HitsAreOrdered
  <1>3. ASSUME NEW key \in Keys
        PROVE  /\ served'[key] = Recent(Older(served[key])) /\ served'[key] = HitsOf(key)'
    <2>1. CASE key \in DOMAIN hits
      <3>1. served[key] = Recent(hits[key]) /\ Ordered(hits[key])
        BY <1>1, <2>1 DEF ServedIsTracked, HitsAreOrdered, HitsOf
      <3> QED  BY <1>1, <2>1, <3>1, RecentLater DEF HitsOf
    <2>2. CASE key \notin DOMAIN hits
      <3>1. served[key] = <<>>
        BY <1>1, <2>2 DEF ServedIsTracked, HitsOf
      <3> QED  BY <1>1, <2>2, <3>1, NoAges DEF HitsOf
    <2> QED  BY <2>1, <2>2
  <1>4. ASSUME NEW key \in Keys
        PROVE  /\ Ordered(Older(served[key])) /\ Len(Older(served[key])) = Len(served[key])
               /\ served'[key] \in Seq(Ages) /\ Len(served'[key]) \in Nat
               /\ Len(served'[key]) <= Len(served[key])
    <2>1. Ordered(Older(served[key])) /\ Len(Older(served[key])) = Len(served[key])
      BY <1>1, ServedAges, OlderAges
    <2>2. Ordered(served'[key]) /\ Len(served'[key]) <= Len(served[key])
      BY <1>3, <2>1, RecentIsInside
    <2> QED  BY <2>1, <2>2, LenProperties DEF Ordered
  <1>5. ServedIsTracked'
    BY <1>1, <1>3, <1>4 DEF ServedIsTracked
  <1>6. WindowRespected'
    <2>1. ASSUME NEW key \in Keys
          PROVE  Len(served'[key]) <= LimitOf(key)
      <3>1. Len(served[key]) \in Nat /\ LimitOf(key) \in Nat
            /\ Len(served[key]) <= LimitOf(key)
        BY <1>1, LimitsCount, ServedAges DEF LimiterInvariant, WindowRespected
      <3> QED  BY <1>4, <3>1
    <2> QED  BY <2>1 DEF WindowRespected
  <1>7. told' \in [(DOMAIN Scope) \X Sessions -> 0..Untold]
    <2>1. told \in [(DOMAIN Scope) \X Sessions -> 0..Untold] /\ Untold \in Nat
      BY LimitsCount DEF LimiterInvariant
    <2>2. \A w \in (DOMAIN Scope) \X Sessions :
             (IF told[w] \in {0, Untold} THEN told[w] ELSE told[w] - 1) \in 0..Untold
      <3>1. \A n \in 0..Untold : (IF n \in {0, Untold} THEN n ELSE n - 1) \in 0..Untold
        BY <2>1
      <3> QED  BY <2>1, <3>1
    <2> QED  BY <1>1, <2>1, <2>2
  <1>8. ASSUME NEW w \in (DOMAIN Scope) \X Sessions, told'[w] # Untold,
               NEW key \in KeysOf(w[1], w[2]), Len(served'[key]) >= LimitOf(key)
        PROVE  Window - served'[key][1] <= told'[w]
    <2>1. key \in Keys
      BY <1>8, LimitsCount
    <2>2. /\ Len(served[key]) \in Nat /\ LimitOf(key) \in Nat \ {0}
          /\ Len(served[key]) <= LimitOf(key)
      BY <1>1, <2>1, LimitsCount, ServedAges DEF LimiterInvariant, WindowRespected
    <2>3. Len(served'[key]) = Len(served[key]) /\ Len(served[key]) >= 1
          /\ Len(served[key]) >= LimitOf(key)
      BY <1>4, <1>8, <2>1, <2>2
    <2>4. PICK k \in 0..Len(Older(served[key])) : Gone(Older(served[key]), k)
      BY <1>4, <2>1, SomeAreGone DEF Ordered
    <2>5. /\ Len(served'[key]) = Len(served[key]) - k
          /\ \A n \in 1..Len(served[key]) - k : served'[key][n] = Older(served[key])[k + n]
      <3> DEFINE older == Older(served[key])
      <3>1. Ordered(older) /\ Gone(older, k) /\ Len(older) = Len(served[key])
        BY <1>4, <2>1, <2>4
      <3>2. served'[key] = Recent(older)
        BY <1>3, <2>1
      <3> HIDE DEF older
      <3>3. /\ Len(Recent(older)) = Len(older) - k
            /\ \A n \in 1..Len(older) - k : Recent(older)[n] = older[k + n]
        BY <3>1, RecentAges
      <3> QED  BY <3>1, <3>2, <3>3 DEF older
    <2>6. k = 0
      BY <1>4, <2>1, <2>2, <2>3, <2>4, <2>5
    <2>7. served'[key][1] = Older(served[key])[1]
      BY <2>2, <2>3, <2>5, <2>6
    <2>8. served[key][1] \in Ages /\ Inside(served[key][1])
      BY <1>1, <2>1, <2>2, <2>3, ServedAges
    <2>9. Older(served[key])[1] = served[key][1] + 1
      BY <1>1, <2>1, <2>2, <2>3, <2>8, ServedAges, OlderAges
    <2>10. told[w] \in 0..Untold
           /\ told'[w] = IF told[w] \in {0, Untold} THEN told[w] ELSE told[w] - 1
      BY <1>1, <1>8 DEF LimiterInvariant
    <2>11. Window - served[key][1] <= told[w]
      BY <1>8, <2>3, <2>10 DEF LimiterInvariant, WaitIsEnough
    <2> QED  BY <1>8, <2>7, <2>8, <2>9, <2>10, <2>11, LimitsCount, SMTT(30) DEF Inside, Ages
  <1> QED  BY <1>2, <1>5, <1>6, <1>7, <1>8 DEF LimiterInvariant, WaitIsEnough

LEMMA ForgottenLimits ==
    ASSUME Forgotten
    PROVE  LimiterInvariant'
  <1>1. /\ DOMAIN hits' = {} /\ served' = [key \in Keys |-> <<>>]
        /\ told' = [w \in (DOMAIN Scope) \X Sessions |-> Untold]
    BY DEF Forgotten
  <1>2. <<>> \in Seq(Ages) /\ Len(<<>>) = 0
    BY EmptySeq
  <1>3. HitsAreOrdered' /\ ServedIsTracked'
    BY <1>1, <1>2 DEF HitsAreOrdered, ServedIsTracked, HitsOf
  <1>4. WindowRespected'
    BY <1>1, <1>2, LimitsCount DEF WindowRespected
  <1>5. told' \in [(DOMAIN Scope) \X Sessions -> 0..Untold]
    BY <1>1, LimitsCount
  <1> QED  BY <1>1, <1>3, <1>4, <1>5 DEF LimiterInvariant, WaitIsEnough

-----------------------------------------------------------------------------
(* The limiter and the locks in every reachable state.                     *)

\* A request enters with a kind and a session, or has them from its entry.
LEMMA WhoIsAdmitted ==
    ASSUME GrantInvariant, NEW c \in Clients, Insert(c)
    PROVE  request[c].session \in Sessions /\ request[c].kind \in Kinds
  BY DEF GrantInvariant, Shapes, RequestsAreEarned, Holds, Insert, Request

LEMMA AdmitKeepsLimits ==
    ASSUME LimiterInvariant, NEW c, NEW kind \in Kinds, NEW s \in Sessions, NEW shownCode,
           NEW row, NEW new, Admit(c, kind, s, shownCode, row, new)
    PROVE  LimiterInvariant'
  BY HitKeepsLimits, TooManyKeepsLimits DEF Admit

LEMMA LimiterStep ==
    ASSUME GrantInvariant, LimiterInvariant, [Next]_vars
    PROVE  LimiterInvariant'
  <1>1. CASE UNCHANGED limiter
    BY <1>1 DEF LimiterInvariant, limiter, HitsAreOrdered, ServedIsTracked, HitsOf,
       WindowRespected, WaitIsEnough
  <1>2. CASE Begins
    <2>1. PICK c \in Clients, kind \in Kinds, s \in Sessions, shownCode \in Codes \cup {NoCode} :
             Enter(c, kind, s, shownCode) \/ Missing(c, kind, s, shownCode)
      BY <1>2, SettingsAssumption DEF Begins, Begin, GrantInvariant, Shapes
    <2> QED  BY <1>1, <2>1, AdmitKeepsLimits DEF Enter, Missing
  <1>3. ASSUME NEW c \in Clients, Insert(c)
        PROVE  LimiterInvariant'
    BY <1>1, <1>3, WhoIsAdmitted, AdmitKeepsLimits DEF Insert
  <1>4. ASSUME NEW c \in Clients, SetMeta(c) \/ Finish(c)
        PROVE  UNCHANGED limiter
    BY <1>4 DEF SetMeta, Finish
  <1>5. CASE Restart
    BY <1>5, ForgottenLimits DEF Restart
  <1>6. CASE Tick
    BY <1>6, TickKeepsLimits
  <1>7. CASE UNCHANGED vars
    BY <1>1, <1>7 DEF vars, limiter
  <1> QED  BY <1>1, <1>2, <1>3, <1>4, <1>5, <1>6, <1>7 DEF Next, Work

LEMMA LimiterInit == Init => LimiterInvariant
  <1> SUFFICES ASSUME Init PROVE LimiterInvariant
    OBVIOUS
  <1>1. /\ DOMAIN hits = {} /\ served = [key \in Keys |-> <<>>]
        /\ told = [w \in (DOMAIN Scope) \X Sessions |-> Untold]
    BY DEF Init
  <1>2. <<>> \in Seq(Ages) /\ Len(<<>>) = 0
    BY EmptySeq
  <1>3. HitsAreOrdered /\ ServedIsTracked
    BY <1>1, <1>2 DEF HitsAreOrdered, ServedIsTracked, HitsOf
  <1>4. WindowRespected
    BY <1>1, <1>2, LimitsCount DEF WindowRespected
  <1>5. told \in [(DOMAIN Scope) \X Sessions -> 0..Untold]
    BY <1>1, LimitsCount
  <1> QED  BY <1>1, <1>3, <1>4, <1>5 DEF LimiterInvariant, WaitIsEnough

\* Whatever is evicted, the limiter has every hit that counts, in every reachable state.
THEOREM LimitsAreKept == Spec => []LimiterInvariant
  <1>1. Init => LimiterInvariant
    BY LimiterInit
  <1>2. GrantInvariant /\ LimiterInvariant /\ [Next]_vars => LimiterInvariant'
    BY LimiterStep
  <1> QED  BY <1>1, <1>2, GrantsAreEarned, PTL DEF Spec

\* No session, and not all of them together, are served more often in any window than the
\* limit says, however many keys the limiter tracks and forgets.
THEOREM LimitsAreRespected == Spec => []WindowRespected
  <1>1. LimiterInvariant => WindowRespected
    BY DEF LimiterInvariant
  <1> QED  BY <1>1, LimitsAreKept, PTL

\* When the time told is over, a step cannot refuse the same request again.
LEMMA WaitIsOver ==
    ASSUME GrantInvariant, LimiterInvariant, [Next]_vars, NEW w \in DOMAIN told, told[w] = 0
    PROVE  told'[w] \in {0, Untold}
  <1>1. /\ w \in (DOMAIN Scope) \X Sessions /\ w = <<w[1], w[2]>>
        /\ told \in [(DOMAIN Scope) \X Sessions -> 0..Untold]
        /\ HitsAreOrdered /\ ServedIsTracked
    BY DEF LimiterInvariant
  <1>2. Full(KeysOf(w[1], w[2])) = {}
    <2> SUFFICES ASSUME NEW key \in KeysOf(w[1], w[2]), Len(HitsOf(key)) >= LimitOf(key)
                 PROVE  FALSE
      BY DEF Full
    <2>1. key \in Keys /\ Len(served[key]) >= LimitOf(key) /\ LimitOf(key) \in Nat \ {0}
      BY <1>1, LimitsCount DEF ServedIsTracked
    <2>2. Window - served[key][1] <= 0
      BY <1>1, <2>1, LimitsCount DEF LimiterInvariant, WaitIsEnough
    <2>3. served[key][1] \in Ages /\ Inside(served[key][1])
      BY <1>1, <2>1, ServedAges
    <2> QED  BY <2>2, <2>3, LimitsCount DEF Inside, Ages
  <1>3. ASSUME NEW c, NEW kind \in Kinds, NEW s \in Sessions, NEW shownCode, NEW row, NEW new,
               Admit(c, kind, s, shownCode, row, new)
        PROVE  told'[w] \in {0, Untold}
    <2>1. CASE Hit(kind, s)
      BY <1>1, <2>1 DEF Hit, limiter
    <2>2. CASE ~ Room(kind, s) /\ TooMany(kind, s)
      <3>1. w # <<kind, s>>
        BY <1>1, <1>2, <2>2 DEF Room
      <3> QED  BY <1>1, <2>2, <3>1 DEF TooMany
    <2> QED  BY <1>3, <2>1, <2>2 DEF Admit
  <1>4. CASE Begins
    <2>1. PICK c \in Clients, kind \in Kinds, s \in Sessions, shownCode \in Codes \cup {NoCode} :
             Enter(c, kind, s, shownCode) \/ Missing(c, kind, s, shownCode)
      BY <1>4, SettingsAssumption DEF Begins, Begin, GrantInvariant, Shapes
    <2> QED  BY <1>3, <2>1 DEF Enter, Missing, limiter
  <1>5. ASSUME NEW c \in Clients, Insert(c)
        PROVE  told'[w] \in {0, Untold}
    BY <1>3, <1>5, WhoIsAdmitted DEF Insert, limiter
  <1>6. ASSUME NEW c \in Clients, SetMeta(c) \/ Finish(c)
        PROVE  told' = told
    BY <1>6 DEF SetMeta, Finish, limiter
  <1>7. CASE Restart
    BY <1>1, <1>7 DEF Restart, Forgotten
  <1>8. CASE Tick
    BY <1>8 DEF Tick
  <1>9. CASE UNCHANGED vars
    BY <1>9 DEF vars
  <1> QED  BY <1>4, <1>5, <1>6, <1>7, <1>8, <1>9 DEF Next, Work

\* Retry-After is true: who waits that long, while nobody else takes the room, is served.
THEOREM RetryAfterIsTrue == Spec => WaitingHelps
  <1>1. GrantInvariant /\ LimiterInvariant /\ [Next]_vars
            => [\A w \in DOMAIN told : told[w] = 0 => told'[w] \in {0, Untold}]_vars
    BY WaitIsOver
  <1> QED  BY <1>1, LimitsAreKept, GrantsAreEarned, PTL DEF Spec, WaitingHelps

-----------------------------------------------------------------------------

LocksAreHeld ==
    /\ lock \in [Sessions -> Clients \cup {Nobody}]
    /\ \A s \in Sessions : lock[s] # Nobody =>
          request[lock[s]].session = s /\ request[lock[s]].at \in {"writing", "working"}

\* A request that is refused had written nothing.
LEMMA AdmitKeepsLocks ==
    ASSUME GrantInvariant, LocksAreHeld, NEW c \in Clients, NEW kind \in Kinds,
           NEW s \in Sessions, NEW shownCode, NEW row, NEW new \in BOOLEAN,
           request[c].at \in {"idle", "inserting"}, new => lock[s] = Nobody,
           Admit(c, kind, s, shownCode, row, new)
    PROVE  LocksAreHeld'
  <1>1. request \in [Clients -> Request] /\ Nobody \notin Clients
    BY NullAssumption DEF GrantInvariant, Shapes
  <1>2. \A t \in Sessions : lock[t] # c
    BY <1>1 DEF LocksAreHeld
  <1>3. CASE Dismiss(c)
    BY <1>1, <1>2, <1>3 DEF Dismiss, LocksAreHeld
  <1>4. CASE /\ request' = [request EXCEPT ![c] =
                   [at |-> IF kind = "chat" THEN "working" ELSE "writing", kind |-> kind,
                    session |-> s, code |-> NoCode, row |-> row]]
             /\ lock' = IF new THEN [lock EXCEPT ![s] = c] ELSE lock
    BY <1>1, <1>2, <1>4 DEF LocksAreHeld
  <1> QED  BY <1>3, <1>4 DEF Admit

LEMMA LockStep ==
    ASSUME GrantInvariant, LocksAreHeld, [Next]_vars
    PROVE  LocksAreHeld'
  <1>1. request \in [Clients -> Request] /\ Nobody \notin Clients
    BY NullAssumption DEF GrantInvariant, Shapes
  <1>2. CASE UNCHANGED <<lock, request>>
    BY <1>2 DEF LocksAreHeld
  <1>3. CASE Begins
    <2>1. PICK c \in Clients, kind \in Kinds, s \in Sessions, shownCode \in Codes \cup {NoCode} :
             Enter(c, kind, s, shownCode) \/ Missing(c, kind, s, shownCode)
      BY <1>3, SettingsAssumption DEF Begins, Begin, GrantInvariant, Shapes
    <2>2. CASE Enter(c, kind, s, shownCode)
      BY <2>2, AdmitKeepsLocks DEF Enter
    <2>3. CASE Missing(c, kind, s, shownCode)
      <3>1. \A t \in Sessions : lock[t] # c
        BY <1>1, <2>3 DEF Missing, LocksAreHeld
      <3> QED  BY <1>1, <2>3, <3>1 DEF Missing, LocksAreHeld
    <2> QED  BY <2>1, <2>2, <2>3
  <1>4. ASSUME NEW c \in Clients, Insert(c)
        PROVE  LocksAreHeld'
    <2>1. /\ request[c].session \in Sessions /\ request[c].kind \in Kinds
          /\ request[c].at = "inserting" /\ lock[request[c].session] = Nobody
      BY <1>4, WhoIsAdmitted DEF Insert
    <2>2. CASE Dismiss(c)
      <3>1. \A t \in Sessions : lock[t] # c
        BY <1>1, <2>1 DEF LocksAreHeld
      <3> QED  BY <1>1, <2>2, <3>1 DEF Dismiss, LocksAreHeld
    <2> QED  BY <1>4, <2>1, <2>2, AdmitKeepsLocks DEF Insert
  <1>5. ASSUME NEW c \in Clients, SetMeta(c)
        PROVE  LocksAreHeld'
    <2> DEFINE s == request[c].session
    <2>1. /\ request'[c].session = s /\ request'[c].at = "working"
          /\ \A d \in Clients \ {c} : request'[d] = request[d]
      BY <1>1, <1>5 DEF SetMeta, Request
    <2>2. s \in Sessions /\ request[c].at = "writing" /\ lock' = [lock EXCEPT ![s] = c]
      BY <1>5 DEF SetMeta, GrantInvariant, RequestsAreEarned, Holds
    <2> HIDE DEF s
    <2>3. lock' \in [Sessions -> Clients \cup {Nobody}]
      BY <2>2 DEF LocksAreHeld
    <2>4. ASSUME NEW t \in Sessions, lock'[t] # Nobody
          PROVE  /\ request'[lock'[t]].session = t
                 /\ request'[lock'[t]].at \in {"writing", "working"}
      <3>1. CASE t = s
        <4>1. lock'[t] = c
          BY <2>2, <3>1 DEF LocksAreHeld
        <4> QED  BY <2>1, <3>1, <4>1
      <3>2. CASE t # s
        <4>1. lock'[t] = lock[t] /\ lock[t] \in Clients /\ request[lock[t]].session = t
              /\ request[lock[t]].at \in {"writing", "working"}
          BY <2>2, <2>4, <3>2 DEF LocksAreHeld
        <4>2. lock[t] # c
          BY <3>2, <4>1 DEF s
        <4> QED  BY <2>1, <4>1, <4>2
      <3> QED  BY <3>1, <3>2
    <2> QED  BY <2>3, <2>4 DEF LocksAreHeld
  <1>6. ASSUME NEW c \in Clients, Finish(c)
        PROVE  LocksAreHeld'
    BY <1>1, <1>6 DEF Finish, Released, LocksAreHeld
  <1>7. CASE Restart
    BY <1>7 DEF Restart, LocksAreHeld
  <1>8. CASE Tick
    BY <1>2, <1>8 DEF Tick
  <1>9. CASE UNCHANGED vars
    BY <1>2, <1>9 DEF vars
  <1> QED  BY <1>3, <1>4, <1>5, <1>6, <1>7, <1>8, <1>9 DEF Next, Work

\* Requests and the limiter keep their shape, and who holds a row's lock is at work on it.
THEOREM FrontTypeCorrect == Spec => []FrontTypeOK
  <1>1. Init => LocksAreHeld
    BY DEF Init, LocksAreHeld
  <1>2. GrantInvariant /\ LocksAreHeld /\ [Next]_vars => LocksAreHeld'
    BY LockStep
  <1>3. ASSUME GrantInvariant, LimiterInvariant, LocksAreHeld
        PROVE  FrontTypeOK
    <2>1. DOMAIN hits \subseteq Keys
          /\ \A key \in DOMAIN hits : \A n \in DOMAIN hits[key] : hits[key][n] \in Ages
      <3>1. ASSUME NEW key \in DOMAIN hits
            PROVE  \A n \in DOMAIN hits[key] : hits[key][n] \in Ages
        <4>1. hits[key] \in Seq(Ages)
          BY <1>3 DEF LimiterInvariant, HitsAreOrdered, Ordered
        <4> QED  BY <4>1, LenProperties
      <3> QED  BY <1>3, <3>1 DEF LimiterInvariant, HitsAreOrdered
    <2>2. \A c \in Clients : request[c].at \in {"idle", "inserting", "writing", "working"}
      BY <1>3 DEF GrantInvariant, Shapes, Request
    <2> QED  BY <1>3, <2>1, <2>2 DEF GrantInvariant, Shapes, LocksAreHeld, FrontTypeOK
  <1> QED  BY <1>1, <1>2, <1>3, GrantsAreEarned, LimitsAreKept, PTL DEF Spec

=============================================================================
