------------------------------- MODULE Advice -------------------------------
(***************************************************************************)
(* One journey on one of several packs, driven by a customer who follows   *)
(* or ignores what the service recommends: what the planner, the diff, the *)
(* simulation, the views and the replay of the audit trail say of every    *)
(* snapshot on the way, against what the engine then does.                 *)
(*                                                                         *)
(* Races on a journey are in Journeys; here requests come one at a time.   *)
(* A document, where an action needs one, is accepted and verified.        *)
(***************************************************************************)
EXTENDS Naturals, FiniteSets, Sequences

CONSTANTS
    Packs,        \* manifests, as records with a field for each constant of Planner
    NoAmbiguity,
    NoGroup,
    MimeTypes,
    MaxRefusals   \* how many answers of a customer are a refusal (a stored False)

\* A manifest is a finite file: it lists its actions, whose names can be sorted, and
\* its groups have names.
ASSUME PacksAssumption ==
    \A p \in Packs :
        /\ IsFiniteSet(p.fields) /\ IsFiniteSet(DOMAIN p.satisfies)
        /\ NoGroup \notin DOMAIN p.primary
        /\ \A list \in {p.actions, p.alphabet} :
              /\ list \in Seq(DOMAIN p.satisfies)
              /\ \A a \in DOMAIN p.satisfies : \E i \in DOMAIN list : list[i] = a

VARIABLES
    pack,      \* the manifest of the journey
    snapshot,  \* the current snapshot
    replayed,  \* the values that replay_journey has rebuilt from the trail so far
    refusals   \* how often the customer has refused

vars == <<pack, snapshot, replayed, refusals>>

\* Everything the service computes from a snapshot under the manifest p.
On(p) == INSTANCE Planner WITH
    Fields <- p.fields, DefaultFields <- p.defaults, InitiallyFalse <- p.accepted,
    MandatoryFields <- p.mandatory, Dependencies <- p.dependencies, UnmetGoals <- p.unmet,
    DeadEnds <- p.deadEnds, Actions <- DOMAIN p.satisfies, EvidenceActions <- DOMAIN p.accepts,
    Satisfies <- p.satisfies, Preconditions <- p.preconditions,
    AcceptedDocs <- [a \in DOMAIN p.satisfies |->
                        IF a \in DOMAIN p.accepts THEN p.accepts[a] ELSE {}],
    Ambiguities <- DOMAIN p.ambiguity, AmbiguityField <- p.ambiguity,
    Required <- p.required, Derived <- p.derived, ActionList <- p.actions,
    GroupOf <- p.group, Groups <- DOMAIN p.primary, Members <- p.members,
    Primary <- p.primary, Mappings <- p.mappings, BannedClaims <- p.claims,
    Alphabet <- p.alphabet

-----------------------------------------------------------------------------
(* The engine, as create_journey, apply_action and submit_clarification    *)
(* use it.                                                                 *)

Snapshot(p, value, explicit, question) ==
    LET status == On(p)!DeriveStatus(value, explicit, question)
        stored == On(p)!DeriveValue(value)
    IN  [value |-> stored, status |-> status, pending |-> question,
         readiness |-> On(p)!ReadinessOf(stored, status)]

InitialSnapshot(p) ==
    Snapshot(p, On(p)!InitialValue, On(p)!InitialExplicit, NoAmbiguity)

\* The snapshot after the fields have been written with a value.
After(p, s, written, v, question) ==
    Snapshot(p, [f \in p.fields |-> IF f \in written THEN v ELSE s.value[f]],
             [f \in p.fields |-> IF f \notin written THEN s.status[f]
                                 ELSE IF On(p)!AskedAbout(f, question) THEN "AMBIGUOUS"
                                 ELSE "SATISFIED"],
             question)

Acceptable(p, s, a) ==
    On(p)!DeterministicCheck(On(p)!DeriveStatus(s.value, s.status, NoAmbiguity), a,
                             [given |-> FALSE], TRUE)

Executed(p, s, a) == After(p, s, p.satisfies[a], "given", NoAmbiguity)

-----------------------------------------------------------------------------
(* replay_journey: one iteration of its loop over the audit trail.  The    *)
(* trail has no event for a question that an action opens.                 *)

\* Mutant: an answer is not replayed.
ReplayEventActionsOnly(value, event) ==
    IF event.type = "ACTION_EXECUTED"
    THEN [f \in DOMAIN value |-> IF f \in event.fields THEN event.value ELSE value[f]]
    ELSE value

ReplayEvent(value, event) ==
    [f \in DOMAIN value |-> IF f \in event.fields THEN event.value ELSE value[f]]

Replay(p, value) ==
    Snapshot(p, value, [f \in p.fields |-> "BLOCKED"], NoAmbiguity)

-----------------------------------------------------------------------------

\* The packs' tests refuse a manifest with violations; the service loads any.
Validated == {p \in Packs : On(p)!Violations = {}}

Init ==
    /\ pack \in Validated
    /\ snapshot = InitialSnapshot(pack)
    /\ replayed = On(pack)!InitialValue
    /\ refusals = 0

\* A refusal is a False in a form that asks for consent.
May(v, refusable) ==
    /\ v \in {"given", "false"}
    /\ v = "false" => refusable /\ refusals < MaxRefusals
    /\ refusals' = refusals + (IF v = "false" THEN 1 ELSE 0)

Write(next, event) ==
    /\ snapshot' = next
    /\ replayed' = ReplayEvent(replayed, event)
    /\ UNCHANGED pack

ApplyAction(a, v, question) ==
    /\ Acceptable(pack, snapshot, a)
    /\ May(v, a \in pack.consents)
    /\ question # NoAmbiguity => pack.ambiguity[question] \in pack.satisfies[a]
    /\ Write(After(pack, snapshot, pack.satisfies[a], v, question),
             [type |-> "ACTION_EXECUTED", fields |-> pack.satisfies[a], value |-> v])

SubmitClarification(v) ==
    /\ snapshot.pending # NoAmbiguity
    /\ LET field == pack.ambiguity[snapshot.pending]
       IN  /\ May(v, TRUE)
           /\ Write(After(pack, snapshot, {field}, v, NoAmbiguity),
                    [type |-> "CLARIFICATION_ANSWERED", fields |-> {field}, value |-> v])

Act == \E a \in DOMAIN pack.satisfies, v \in {"given", "false"},
          question \in DOMAIN pack.ambiguity \cup {NoAmbiguity} : ApplyAction(a, v, question)

Answer == \E v \in {"given", "false"} : SubmitClarification(v)

Next == Act \/ Answer

Spec == Init /\ [][Next]_vars

-----------------------------------------------------------------------------
(* Properties.                                                             *)

\* The snapshots after 0, 1, ... actions of a plan, up to the first refused one.
Following(s, plan) ==
    LET at[n \in 0..Len(plan)] ==
            IF n = 0 THEN <<s>>
            ELSE LET sofar == at[n - 1]
                 IN  IF Len(sofar) = n /\ Acceptable(pack, sofar[n], plan[n])
                     THEN Append(sofar, Executed(pack, sofar[n], plan[n])) ELSE sofar
    IN  at[Len(plan)]

\* From every snapshot that is not ready, plan() of core/planner.py finds actions
\* that the deterministic check accepts one after the other and that make the
\* journey READY.  (The manifests of the runs; one whose actions precondition each
\* other's fields passes the validator and has no plan.)  minimum_path_length is
\* what its name says: with one action less, whichever they are and in whatever
\* order, something is missing.  (Not so once a value was stored ahead of a
\* prerequisite: the plan then asks for it again.)
PlanIsExact ==
    snapshot.readiness = "NOT_READY" =>
        LET plan == On(pack)!Plan(snapshot)
            walk == Following(snapshot, plan.actions)
            less == On(pack)!PathLength(snapshot) - 1
        IN  /\ plan.found
            /\ Len(walk) = Len(plan.actions) + 1
            /\ walk[Len(walk)].readiness = "READY"
            /\ (\A f \in pack.fields :
                   snapshot.value[f] = "given" => snapshot.status[f] = "SATISFIED") =>
                  \A T \in {S \in SUBSET DOMAIN pack.satisfies : Cardinality(S) = less} :
                      After(pack, snapshot, UNION {pack.satisfies[a] : a \in T}, "given",
                            NoAmbiguity).readiness # "READY"

\* get_recommendation always has something to recommend on the screen a customer
\* resumes at, and whatever the AI picks passes the deterministic check.
AdviceIsExecutable ==
    /\ \A a \in On(pack)!Recommendable(snapshot) : Acceptable(pack, snapshot, a)
    /\ \A version \in {1, 2} :
          LET status == IF snapshot.readiness = "READY" THEN "COMPLETED"
                        ELSE IF snapshot.readiness = "NEEDS_REVIEW" THEN "NEEDS_REVIEW"
                        ELSE "IN_PROGRESS"
              screen == On(pack)!ResumeScreen(status, snapshot.readiness, version)
          IN  /\ (screen = "RECOMMENDATION") => On(pack)!Recommendable(snapshot) # {}
              /\ (screen = "NEEDS_REVIEW") => snapshot.pending # NoAmbiguity
              /\ (screen = "COMPLETE") => On(pack)!PathLength(snapshot) = 0

\* The packs that ship guard each action by exactly the prerequisites of its
\* fields; an author may ask for more.
Guarded ==
    \A a \in DOMAIN pack.satisfies : \A f \in pack.satisfies[a] :
        On(pack)!Applicable(f) /\ On(pack)!Prerequisites(f) \subseteq pack.preconditions[a]

ExactlyGuarded ==
    Guarded /\ \A a \in DOMAIN pack.satisfies : \A f \in pack.satisfies[a] :
                  pack.preconditions[a] \subseteq On(pack)!Prerequisites(f)

\* What is mandatory to the schema is so to the readiness rules, also a field that a
\* question can be about; and no value ends a journey.
OneMeasure(p) ==
    /\ p.required = p.mandatory /\ p.required \subseteq p.fields
    /\ p.deadEnds = {}
    /\ \A b \in DOMAIN p.ambiguity : p.ambiguity[b] \in p.required

\* The fields that f waits for, in the engine or in the check of an action for it.
Awaited(p, f) == On(p)!Prerequisites(f) \cup UNION {p.preconditions[a] : a \in On(p)!Actors(f)}

\* What the packs that ship have in common beyond what the validator asks of a
\* manifest: every field is mandatory and applies, a field settled from the start
\* waits for none, no value ends a journey, an action is guarded by the prerequisites
\* of its fields and its guards close no cycle, and a group's actions and its primary
\* are its members.
Regular(p) ==
    /\ p.required = p.fields /\ p.mandatory = p.fields
    /\ p.derived = {} /\ p.deadEnds = {} /\ p.unmet = {}
    /\ \A f \in p.defaults : On(p)!Prerequisites(f) = {}
    /\ \A a \in DOMAIN p.satisfies : \A f \in p.satisfies[a] :
          On(p)!Prerequisites(f) \subseteq p.preconditions[a]
    /\ \A S \in (SUBSET p.fields) \ {{}} : \E f \in S : Awaited(p, f) \cap S = {}
    /\ \A a \in DOMAIN p.satisfies :
          p.group[a] # NoGroup =>
              /\ p.group[a] \in DOMAIN p.primary
              /\ {a, p.primary[p.group[a]]} \subseteq p.members[p.group[a]]

\* A customer who follows the recommendations gets nearer to READY with each,
\* whichever candidate the AI picks: the path length is a variant.
AdviceMakesProgress ==
    Guarded => LET before == On(pack)!PathLength(snapshot)
               IN  \A a \in On(pack)!Recommendable(snapshot) :
                       On(pack)!PathLength(Executed(pack, snapshot, a)) < before

\* The action shown beside a blocked field by get_resolve_action_id can be done
\* now, if the field waits for at most one field and that one for none.
OfferedActionHelps ==
    (ExactlyGuarded /\ snapshot.pending = NoAmbiguity) =>
        \A f \in On(pack)!Shown(snapshot) :
            LET unmet(g) == {p \in On(pack)!Prerequisites(g) : snapshot.status[p] # "SATISFIED"}
            IN  (Cardinality(unmet(f)) <= 1 /\ \A p \in unmet(f) : unmet(p) = {}) =>
                    \A a \in On(pack)!Offered(snapshot, f) : Acceptable(pack, snapshot, a)

\* No question is open, and no False counts as an answer.
Plain(s) == /\ s.pending = NoAmbiguity
            /\ \A f \in pack.fields : s.status[f] = "SATISFIED" => s.value[f] = "given"

\* simulate() predicts exactly what executing the action then does.
SimulationPredicts ==
    Plain(snapshot) => \A a \in {b \in DOMAIN pack.satisfies : Acceptable(pack, snapshot, b)} :
        LET predicted == On(pack)!Simulate(snapshot, a, "given")
            actual    == Executed(pack, snapshot, a)
        IN  /\ predicted.status = actual.status
            /\ predicted.readiness = actual.readiness
            /\ predicted.unlocked \cap On(pack)!Active(snapshot.status) = {}
            /\ (predicted.blocked = {}) <=> (actual.readiness = "READY")

\* replay_journey rebuilds every value from the audit trail, and the whole
\* snapshot where no question is open and no refusal counts as an answer.
ReplayRebuilds ==
    LET rebuilt == Replay(pack, replayed)
    IN  /\ rebuilt.value = snapshot.value
        /\ Plain(snapshot) => rebuilt = snapshot

\* What apply_action answers as the diff: beyond the fields it wrote, a field
\* changes only after a prerequisite, or because its question was dropped; what
\* is called unlocked can be done; get_diff later tells the same of two
\* snapshots without a question.
DiffTellsTheTruth ==
    [][\A a \in DOMAIN pack.satisfies, v \in {"given", "false"} :
          ApplyAction(a, v, snapshot'.pending) =>
              LET diff == On(pack)!Diff(snapshot, snapshot', pack.satisfies[a])
              IN  /\ \A f \in diff.cascaded : \/ On(pack)!Prerequisites(f) \cap diff.changed # {}
                                              \/ snapshot.status[f] = "AMBIGUOUS"
                  /\ \A b \in diff.unlocked :
                        snapshot'.pending = NoAmbiguity => Acceptable(pack, snapshot', b)
                  /\ diff.progress[2].pending = 0 <=> snapshot'.readiness = "READY"
                  /\ {snapshot.pending, snapshot'.pending} = {NoAmbiguity} =>
                        On(pack)!StoredDiff(snapshot, snapshot')
                            = [diff EXCEPT !.cascaded = diff.changed \cap pack.derived]]_vars

=============================================================================
