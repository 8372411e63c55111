----------------------------- MODULE FrontDoor ------------------------------
(***************************************************************************)
(* What every request passes before it reaches a journey: the browser's    *)
(* session (security/session.py), the sliding-window limits of the AI and  *)
(* role endpoints (security/rate_limit.py), and the reviewer's role, which *)
(* a session keeps with the customer's address in one JSON column that is  *)
(* read, merged and written back as a whole (db/repositories/sessions.py). *)
(*                                                                         *)
(* A request runs in one transaction.  It keeps the row of the session as  *)
(* it read it first, so its write is based on that; only the write itself  *)
(* waits for other transactions, on the lock of the row.                   *)
(*                                                                         *)
(* A hit is represented by its age, up to Window; the clock only makes the *)
(* hits older.                                                             *)
(***************************************************************************)
EXTENDS Naturals, Sequences, FiniteSets

CONSTANTS
    Clients,       \* requests that can be under way at the same time
    Sessions, Codes, NoCode, Nobody,
    Settings,      \* [limited: RATE_LIMIT_ENABLED; kinds, clients, sessions: bounds, the
                   \*  requests to explore]
    Scope,         \* kind of a limited request -> its scope and its pool
    SessionLimit,  \* scope -> hits in a window for one session
    GlobalLimit,   \* pool  -> hits in a window for all
    Window,        \* WINDOW_SECONDS
    MaxKeys        \* _MAX_KEYS

Kinds == {"promote", "demote", "create", "chat"}

ASSUME SettingsAssumption ==
    \A x \in Settings : /\ x.clients \subseteq Clients /\ x.sessions \subseteq Sessions
                        /\ x.kinds \subseteq Kinds

\* A limit of 0, which allows nothing, is left out.
ASSUME LimitAssumption ==
    /\ DOMAIN Scope \subseteq Kinds
    /\ \A k \in DOMAIN Scope : /\ SessionLimit[Scope[k].scope] \in Nat \ {0}
                               /\ GlobalLimit[Scope[k].pool] \in Nat \ {0}
    /\ Window \in Nat \ {0}
    /\ "global" \notin Sessions

\* A null value is no client, session, code or row.
ASSUME NullAssumption ==
    /\ Nobody \notin Clients \cup Sessions /\ NoCode \notin Codes
    /\ Nobody \notin [role : {"CUSTOMER", "REVIEW_OFFICER"}, grant : Codes \cup {NoCode}]

VARIABLES
    setting,
    hits,      \* tracked key -> ages of its hits, oldest first
    code,      \* REVIEWER_ACCESS_CODE of the running process
    table,     \* session -> its committed row, or Nobody
    lock,      \* session -> the client whose transaction has written the row, or Nobody
    request,
    served,    \* history: key -> ages of all that were served in the last window
    told,      \* history: <<kind, session>> -> what is left of the time it was told to wait
    shown      \* history: session -> codes it has shown when they were in force

limiter == <<hits, served, told>>
vars == <<setting, hits, code, table, lock, request, served, told, shown>>

Ages == 0..Window
Untold == Window + 1

\* What else is in the column, the customer's address, is written along.
Fresh == [role |-> "CUSTOMER", grant |-> NoCode]
Idle  == [at |-> "idle", kind |-> "chat", session |-> Nobody, code |-> NoCode, row |-> Nobody]

-----------------------------------------------------------------------------
(* SlidingWindowLimiter                                                    *)

Keys == {<<Scope[k].scope, s>> : k \in DOMAIN Scope, s \in Sessions}
        \cup {<<Scope[k].pool, "global">> : k \in DOMAIN Scope}

KeysOf(kind, s) == {<<Scope[kind].scope, s>>, <<Scope[kind].pool, "global">>}
LimitOf(key) == IF key[2] = "global" THEN GlobalLimit[key[1]] ELSE SessionLimit[key[1]]

Inside(age) == age < Window

\* popleft, as long as the first hit is too old.
Recent(ages) ==
    LET gone == CHOOSE k \in 0..Len(ages) : /\ \A n \in 1..k : ~ Inside(ages[n])
                                            /\ k < Len(ages) => Inside(ages[k + 1])
    IN  SubSeq(ages, gone + 1, Len(ages))

HitsOf(key) == IF key \in DOMAIN hits THEN Recent(hits[key]) ELSE <<>>

Full(keys) == {key \in keys : Len(HitsOf(key)) >= LimitOf(key)}
FreeIn(key) == Window - HitsOf(key)[1]

\* Mutant: the first key to have room again.
RetryEarly(full) == CHOOSE t \in {FreeIn(key) : key \in full} : \A key \in full : t <= FreeIn(key)

RetryAfter(full) == CHOOSE t \in {FreeIn(key) : key \in full} : \A key \in full : t >= FreeIn(key)

\* Mutant: the oldest hit decides.
StaleByFirst(ages) == ages = <<>> \/ ~ Inside(ages[1])

\* _evict forgets a key when its last hit has left the window.
Stale(ages) == ages = <<>> \/ ~ Inside(ages[Len(ages)])

Pruned(keys) == [key \in DOMAIN hits |-> IF key \in keys THEN HitsOf(key) ELSE hits[key]]

Kept(tracked) == IF Cardinality(DOMAIN tracked) > MaxKeys
                 THEN {key \in DOMAIN tracked : ~ Stale(tracked[key])} ELSE DOMAIN tracked

Limited(kind) == setting.limited /\ kind \in DOMAIN Scope

Room(kind, s) == Limited(kind) => Full(KeysOf(kind, s)) = {}

\* A hit on every key.
Hit(kind, s) ==
    IF ~ Limited(kind) THEN UNCHANGED limiter
    ELSE LET keys == KeysOf(kind, s)
             tracked == Pruned(keys)
             kept == Kept(tracked)
         IN  /\ hits' = [key \in kept \cup keys |->
                            (IF key \in kept THEN tracked[key] ELSE <<>>)
                            \o (IF key \in keys THEN <<0>> ELSE <<>>)]
             /\ served' = [key \in Keys |-> IF key \in keys THEN Append(served[key], 0)
                                            ELSE served[key]]
             /\ told' = [w \in DOMAIN told |->
                            IF KeysOf(w[1], w[2]) \cap keys # {} THEN Untold ELSE told[w]]

\* 429 with Retry-After: nothing is recorded but the pruning.
TooMany(kind, s) ==
    LET keys == KeysOf(kind, s)
    IN  /\ hits' = Pruned(keys)
        /\ told' = [told EXCEPT ![<<kind, s>>] = RetryAfter(Full(keys))]
        /\ UNCHANGED served

-----------------------------------------------------------------------------
(* Roles                                                                   *)

\* authorize_role_switch; without a configured code nobody is promoted.
Authorized(kind, shownCode) == kind = "promote" => code # NoCode /\ shownCode = code

\* Mutant: a role that was granted stays valid.
GrantForGood(row) == row.grant # NoCode

\* has_valid_reviewer_grant: the fingerprint is that of the code in force.
Grant(row) == code # NoCode /\ row.grant = code

\* verify_reviewer
Reviewer(row) == row # Nobody /\ row.role = "REVIEW_OFFICER" /\ Grant(row)

\* set_meta with the updates of set_session_role and of create_journey.
Merged(row, kind) ==
    IF kind = "promote" THEN [row EXCEPT !.role = "REVIEW_OFFICER", !.grant = code]
    ELSE IF kind = "demote" THEN [row EXCEPT !.role = "CUSTOMER", !.grant = NoCode]
    ELSE row

-----------------------------------------------------------------------------
(* The life of a request                                                   *)

\* From the session's row to the next wait: the limiter, then the authorization.  A
\* refusal rolls the transaction back; new says that it has inserted the row.
Dismiss(c) ==
    /\ request' = [request EXCEPT ![c] = Idle]
    /\ UNCHANGED <<lock, shown>>

Admit(c, kind, s, shownCode, row, new) ==
    \/ ~ Room(kind, s) /\ TooMany(kind, s) /\ Dismiss(c)
    \/ /\ Room(kind, s) /\ Hit(kind, s)
       /\ ~ Authorized(kind, shownCode)
       /\ Dismiss(c)
    \/ /\ Room(kind, s) /\ Hit(kind, s)
       /\ Authorized(kind, shownCode)
       /\ request' = [request EXCEPT ![c] =
             [at |-> IF kind = "chat" THEN "working" ELSE "writing", kind |-> kind,
              session |-> s, code |-> NoCode, row |-> row]]
       /\ lock' = IF new THEN [lock EXCEPT ![s] = c] ELSE lock
       /\ shown' = IF kind = "promote" THEN [shown EXCEPT ![s] = @ \cup {shownCode}] ELSE shown

\* get_current_session finds the row, or finds none and will insert it.
Enter(c, kind, s, shownCode) ==
    /\ request[c].at = "idle" /\ table[s] # Nobody
    /\ Admit(c, kind, s, shownCode, table[s], FALSE)
    /\ UNCHANGED <<setting, code, table>>

Missing(c, kind, s, shownCode) ==
    /\ request[c].at = "idle" /\ table[s] = Nobody
    /\ request' = [request EXCEPT ![c] =
          [at |-> "inserting", kind |-> kind, session |-> s, code |-> shownCode, row |-> Nobody]]
    /\ UNCHANGED <<setting, limiter, code, table, lock, shown>>

\* The primary key makes a second insert wait for the first, and fail if that commits.
Insert(c) ==
    LET s == request[c].session
    IN  /\ request[c].at = "inserting" /\ lock[s] = Nobody
        /\ \/ table[s] = Nobody /\ Admit(c, request[c].kind, s, request[c].code, Fresh, TRUE)
           \/ table[s] # Nobody /\ Dismiss(c) /\ UNCHANGED limiter
        /\ UNCHANGED <<setting, code, table>>

\* SessionRepository.set_meta: the whole column, based on the row as it was read.
SetMeta(c) ==
    LET s == request[c].session
    IN  /\ request[c].at = "writing" /\ lock[s] \in {Nobody, c}
        /\ lock' = [lock EXCEPT ![s] = c]
        /\ request' = [request EXCEPT ![c].at = "working",
                                      ![c].row = Merged(request[c].row, request[c].kind)]
        /\ UNCHANGED <<setting, limiter, code, table, shown>>

\* Mutant: an answer is given without the end of the transaction.
ReleasedLater(c) == lock

Released(c) == [s \in Sessions |-> IF lock[s] = c THEN Nobody ELSE lock[s]]

\* The AI provider answers, or the guardrail's timeout answers for it; the transaction
\* commits.
Finish(c) ==
    LET s == request[c].session
    IN  /\ request[c].at = "working"
        /\ table' = IF lock[s] = c THEN [table EXCEPT ![s] = request[c].row] ELSE table
        /\ lock' = Released(c)
        /\ request' = [request EXCEPT ![c] = Idle]
        /\ UNCHANGED <<setting, limiter, code, shown>>

Forgotten ==
    /\ hits' = [key \in {} |-> <<>>]
    /\ served' = [key \in Keys |-> <<>>]
    /\ told' = [w \in (DOMAIN Scope) \X Sessions |-> Untold]

\* A new process, perhaps with another code.
Restart ==
    /\ code' \in Codes \cup {NoCode}
    /\ request' = [c \in Clients |-> Idle]
    /\ lock' = [s \in Sessions |-> Nobody]
    /\ Forgotten
    /\ UNCHANGED <<setting, table, shown>>

Older(ages) == [n \in DOMAIN ages |-> IF Inside(ages[n]) THEN ages[n] + 1 ELSE Window]

Tick ==
    /\ hits' = [key \in DOMAIN hits |-> Older(hits[key])]
    /\ served' = [key \in Keys |-> Recent(Older(served[key]))]
    /\ told' = [w \in DOMAIN told |-> IF told[w] \in {0, Untold} THEN told[w] ELSE told[w] - 1]
    /\ UNCHANGED <<setting, code, table, lock, request, shown>>

Init ==
    /\ setting \in Settings /\ code \in Codes
    /\ hits = [key \in {} |-> <<>>]
    /\ served = [key \in Keys |-> <<>>]
    /\ told = [w \in (DOMAIN Scope) \X Sessions |-> Untold]
    /\ table = [s \in Sessions |-> Nobody] /\ lock = [s \in Sessions |-> Nobody]
    /\ request = [c \in Clients |-> Idle]
    /\ shown = [s \in Sessions |-> {}]

\* A request begins; the code counts only for a promotion.
Begin(c, kind, s, shownCode) == /\ kind # "promote" => shownCode = NoCode
                                /\ Enter(c, kind, s, shownCode) \/ Missing(c, kind, s, shownCode)

Begins == \E c \in setting.clients, kind \in setting.kinds, s \in setting.sessions :
             \E shownCode \in Codes \cup {NoCode} : Begin(c, kind, s, shownCode)

Work(c) == Insert(c) \/ SetMeta(c) \/ Finish(c)

Next == Begins \/ (\E c \in Clients : Work(c)) \/ Restart \/ Tick

\* The event loop runs what is ready, and a lock goes to who waits for it in turn.
Fairness == \A c \in Clients : SF_vars(Work(c))

Spec     == Init /\ [][Next]_vars
FairSpec == Spec /\ Fairness

-----------------------------------------------------------------------------
(* Properties                                                              *)

\* Type invariant; who holds the lock of a row is at work on it.
FrontTypeOK ==
    /\ setting \in Settings /\ code \in Codes \cup {NoCode}
    /\ DOMAIN hits \subseteq Keys
    /\ \A key \in DOMAIN hits : \A n \in DOMAIN hits[key] : hits[key][n] \in Ages
    /\ \A c \in Clients : request[c].at \in {"idle", "inserting", "writing", "working"}
    /\ \A s \in Sessions : lock[s] # Nobody =>
          request[lock[s]].session = s /\ request[lock[s]].at \in {"writing", "working"}

\* Whatever the limiter forgets to save memory, no session, and not all of them
\* together, are served more often in any window than the limit says, for as long as
\* the process lives (security/rate_limit.py:50).
WindowRespected == \A key \in Keys : Len(served[key]) <= LimitOf(key)

\* Who has waited as long as the 429 said, while nobody else used up the room, is not
\* refused again (security/rate_limit.py:70).
WaitingHelps == [][ \A w \in DOMAIN told : told[w] = 0 => told'[w] \in {0, Untold} ]_vars

\* A session is a reviewer only if it has itself shown the code that is in force now:
\* rotating the code takes the role from everybody, and a write based on a row that
\* was read earlier can bring back only what was earned (security/reviewer.py:132).
AccessIsGranted == \A s \in Sessions : Reviewer(table[s]) => code \in shown[s]

\* Every request ends, though requests of one session wait for each other's rows.
RequestEnds == \A c \in Clients : request[c].at # "idle" ~> request[c].at = "idle"

=============================================================================
