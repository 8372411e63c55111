------------------------------ MODULE Planner -------------------------------
(***************************************************************************)
(* What the service computes from a snapshot without changing it: the plan *)
(* (core/planner.py), the recommendation and the views of a journey        *)
(* (journey_service.py), the diff of two snapshots (core/diff.py) and the  *)
(* simulation of an action (core/simulate.py).                             *)
(*                                                                         *)
(* A snapshot is a record [value, status, pending, readiness].             *)
(***************************************************************************)
EXTENDS Manifest

\* The ids in alphabetical order: the planner breaks ties by name.
CONSTANT Alphabet

Done == {"SATISFIED", "NOT_APPLICABLE"}

\* Readers derive the fields again; whether they know of the open question
\* differs from reader to reader.
Rederived(s, question) == DeriveStatus(s.value, s.status, question)

Downstream(f) ==
    LET upTo[n \in 0..Cardinality(Fields)] ==
            IF n = 0 THEN {g \in Fields : f \in Prerequisites(g)}
            ELSE LET near == upTo[n - 1]
                 IN  near \cup {g \in Fields : Prerequisites(g) \cap near # {}}
    IN  upTo[Cardinality(Fields)]

Upstream(f) == {g \in Fields : f \in Downstream(g)}

-----------------------------------------------------------------------------
(* plan                                                                    *)

FirstListed(S) ==
    ActionList[CHOOSE i \in DOMAIN ActionList :
                   /\ ActionList[i] \in S
                   /\ \A k \in 1..(i - 1) : ActionList[k] \notin S]

\* The first action that satisfies the field, or its group's primary.
ActionFor(f) ==
    LET first == FirstListed(Actors(f))
    IN  IF GroupOf[first] \in Groups /\ Primary[GroupOf[first]] \in Actions
        THEN Primary[GroupOf[first]] ELSE first

\* Mandatory fields still to be settled.  Derived ones are nobody's to supply.
Lacking(s) == LET status == Rederived(s, NoAmbiguity)
              IN  {f \in Required \ Derived : status[f] \notin Done}

Needed(s) == {ActionFor(f) : f \in Lacking(s)}

UnblockCount(a, needed) ==
    LET freed == UNION {Downstream(f) : f \in Satisfies[a]}
    IN  Cardinality({b \in needed \ {a} : Preconditions[b] \cap freed # {}})

\* Actions that must come before b: they satisfy one of its preconditions or
\* a field such a precondition rests on.
Feeders(b, needed) ==
    LET wanted == UNION {{p} \cup Upstream(p) : p \in Preconditions[b]}
    IN  {a \in needed \ {b} : Satisfies[a] \cap wanted # {}}

Place(a) == CHOOSE i \in DOMAIN Alphabet : Alphabet[i] = a

Sooner(a, b, needed) ==
    \/ UnblockCount(a, needed) > UnblockCount(b, needed)
    \/ UnblockCount(a, needed) = UnblockCount(b, needed) /\ Place(a) < Place(b)

\* Kahn's order with a sorted queue; it stops short on a cycle.
Ordered(needed) ==
    LET placed(seq) == {seq[i] : i \in DOMAIN seq}
        ready(seq)  == {b \in needed \ placed(seq) : Feeders(b, needed) \subseteq placed(seq)}
        best(seq)   == CHOOSE a \in ready(seq) :
                           \A b \in ready(seq) \ {a} : Sooner(a, b, needed)
        upTo[n \in 0..Cardinality(needed)] ==
            IF n = 0 THEN <<>>
            ELSE LET seq == upTo[n - 1]
                 IN  IF ready(seq) = {} THEN seq ELSE Append(seq, best(seq))
    IN  upTo[Cardinality(needed)]

NoPath == [found |-> FALSE, actions |-> <<>>]

Plan(s) ==
    IF \E f \in Lacking(s) : Actors(f) = {} THEN NoPath
    ELSE LET needed  == Needed(s)
             ordered == Ordered(needed)
         IN  IF Len(ordered) < Cardinality(needed) THEN NoPath
             ELSE [found |-> TRUE, actions |-> ordered]

-----------------------------------------------------------------------------
(* get_recommendation.  The guardrail around the AI returns one of the     *)
(* candidates, whatever the model answers.                                 *)

\* Mutant: an action whose fields are all satisfied is a candidate too.
ExecutableAgain(s) ==
    LET status == Rederived(s, NoAmbiguity)
    IN  {a \in Actions : \A p \in Preconditions[a] : status[p] = "SATISFIED"}

\* Mutant: one precondition is enough.
ExecutableEarly(s) ==
    LET status == Rederived(s, NoAmbiguity)
    IN  {a \in Actions : /\ Preconditions[a] # {} => \E p \in Preconditions[a] : status[p] = "SATISFIED"
                         /\ \E f \in Satisfies[a] : status[f] # "SATISFIED"}

Executable(s) ==
    LET status == Rederived(s, NoAmbiguity)
    IN  {a \in Actions : /\ \A p \in Preconditions[a] : status[p] = "SATISFIED"
                         /\ \E f \in Satisfies[a] : status[f] # "SATISFIED"}

Candidates(s) ==
    LET planned == Plan(s).actions
    IN  Executable(s) \cup (IF planned # <<>> THEN {planned[1]} ELSE {})

\* The actions that may be recommended: none once the journey has ended, the
\* clarification while a question is open, else the AI's choice.
Recommendable(s) ==
    IF s.readiness \in {"READY", "DEAD_END", "NEEDS_REVIEW"} THEN {} ELSE Candidates(s)

\* minimum_path_length, at least one while the journey goes on.
PathLength(s) ==
    IF s.readiness \in {"READY", "DEAD_END"} THEN 0
    ELSE IF s.readiness = "NEEDS_REVIEW" THEN 1
    ELSE LET planned == Plan(s).actions IN IF planned = <<>> THEN 1 ELSE Len(planned)

ResumeScreen(journeyStatus, readiness, version) ==
    CASE journeyStatus = "COMPLETED" \/ readiness = "READY" -> "COMPLETE"
      [] journeyStatus = "NEEDS_REVIEW" \/ readiness = "NEEDS_REVIEW" -> "NEEDS_REVIEW"
      [] readiness = "NOT_READY" /\ version # 1 -> "RECOMMENDATION"
      [] OTHER -> "STATUS"

-----------------------------------------------------------------------------
(* build_field_states_response: the action offered beside a field.         *)

\* Mutant: the field's own action, whatever it waits for.
ResolveActionItself(f, status) == {ActionFor(f) : a \in Actors(f)}

\* The field's action, or that of the one prerequisite it waits for.  All edges
\* count here, and NOT_APPLICABLE does not count as satisfied.
ResolveAction(f, status) ==
    LET waiting == {e[1] : e \in {d \in Dependencies : d[2] = f}}
                       \cap {g \in Fields : status[g] # "SATISFIED"}
        before  == {g \in waiting : /\ waiting = {g}
                                    /\ Actors(g) # {}
                                    /\ \/ Preconditions[ActionFor(f)] = {}
                                       \/ g \in Preconditions[ActionFor(f)]}
    IN  IF Actors(f) = {} THEN {}
        ELSE IF before # {} THEN {ActionFor(g) : g \in before} ELSE {ActionFor(f)}

\* Fields that do not apply are not shown; satisfied ones offer no action.
Shown(s) == {f \in Fields : s.status[f] # "NOT_APPLICABLE"}

Offered(s, f) ==
    IF s.status[f] = "SATISFIED" THEN {} ELSE ResolveAction(f, Rederived(s, s.pending))

-----------------------------------------------------------------------------
(* Progress counts, diff and simulation.                                   *)

Counted(status) == {f \in Required : status[f] # "NOT_APPLICABLE"}

\* compute_diff counts as blockers the blocked fields whose prerequisites are
\* settled; derive_field_states counts every blocked field.
Progress(status, blockers) ==
    LET completed == Cardinality({f \in Counted(status) : status[f] = "SATISFIED"})
    IN  [completed |-> completed,
         pending   |-> Cardinality(Counted(status)) - completed,
         total     |-> Cardinality(Counted(status)),
         blockers  |-> Cardinality(blockers)]

Blocked(status) == {f \in Counted(status) : status[f] = "BLOCKED"}

DiffProgress(status) ==
    Progress(status, {f \in Blocked(status) : \A p \in Prerequisites(f) : status[p] \in Done})

\* Mutant: one settled precondition is enough.
ActiveEarly(status) ==
    {a \in Actions : /\ \E p \in Preconditions[a] : status[p] \in Done
                     /\ \E f \in Satisfies[a] : status[f] # "SATISFIED"}

Active(status) ==
    {a \in Actions : /\ \A p \in Preconditions[a] : status[p] \in Done
                     /\ \E f \in Satisfies[a] : status[f] # "SATISFIED"}

FieldsChanged(a, b) ==
    {f \in Fields : \/ a.status[f] # b.status[f]
                    \/ a.value[f] # b.value[f]
                    \/ (a.status[f] = "AMBIGUOUS") # (b.status[f] = "AMBIGUOUS")}

Diff(a, b, direct) ==
    [changed   |-> FieldsChanged(a, b),
     cascaded  |-> FieldsChanged(a, b) \ direct,
     unlocked  |-> Active(b.status) \ Active(a.status),
     removed   |-> Active(a.status) \ Active(b.status),
     readiness |-> <<a.readiness, b.readiness>>,
     progress  |-> <<DiffProgress(a.status), DiffProgress(b.status)>>]

\* get_diff derives both ends without the question that was open, and does not
\* know the direct fields: it calls the derived ones cascaded.
StoredDiff(a, b) ==
    LET diff == Diff([a EXCEPT !.status = Rederived(a, NoAmbiguity)],
                     [b EXCEPT !.status = Rederived(b, NoAmbiguity)], {})
    IN  [diff EXCEPT !.cascaded = @ \cap Derived]

Nothing == [f \in Fields |-> "BLOCKED"]

\* Mutant: the prediction starts from the old values.
SimulateOld(s, a, typed) ==
    LET status == DeriveStatus(s.value, Nothing, NoAmbiguity)
    IN  [status |-> status, satisfied |-> {}, unlocked |-> {}, blocked |-> {},
         readiness |-> ReadinessOf(s.value, status)]

\* Statuses and questions of the snapshot are not used, only its values.
Simulate(s, a, typed) ==
    LET value  == [f \in Fields |-> IF f \in Satisfies[a] THEN typed ELSE s.value[f]]
        status == DeriveStatus(value, Nothing, NoAmbiguity)
        open(b, st) == \A p \in Preconditions[b] : st[p] \in Done
    IN  [status    |-> status,
         satisfied |-> {f \in Satisfies[a] : status[f] = "SATISFIED" /\ s.status[f] # "SATISFIED"},
         unlocked  |-> {b \in Actions \ {a} : open(b, status) /\ ~ open(b, s.status)},
         blocked   |-> {f \in Required : status[f] = "BLOCKED"},
         readiness |-> ReadinessOf(DeriveValue(value), status)]

=============================================================================
