-------------------------------- MODULE Pack --------------------------------
(***************************************************************************)
(* A journey pack (one YAML manifest) together with the goal a customer    *)
(* chose, and the pure rule engine of backend/app/core over it: the field  *)
(* fixpoint, the readiness verdict and the deterministic check.            *)
(*                                                                         *)
(* A field's value is abstracted to what the engine tells apart: "none"    *)
(* (None), "false" (a stored False) and "given" (anything else).           *)
(*                                                                         *)
(* A definition whose comment starts with "Mutant:" is a deliberately      *)
(* wrong form of the one after it; no specification uses it.               *)
(***************************************************************************)
EXTENDS Naturals, FiniteSets

CONSTANTS
    Fields,          \* state_schema keys
    DefaultFields,   \* fields whose default_status is SATISFIED
    InitiallyFalse,  \* boolean fields named *_accepted, created as False
    MandatoryFields, \* readiness_rules.mandatory_fields
    Dependencies,    \* edges <<source, target>>
    UnmetGoals,      \* the edges whose goal condition is false
    DeadEnds,        \* dead_end_conditions, as pairs <<field, value>>
    Actions,         \* action ids of the manifest
    EvidenceActions, \* the actions of kind EVIDENCE
    Satisfies,       \* action -> fields it satisfies
    Preconditions,   \* action -> fields that must be settled before it
    AcceptedDocs,    \* action -> document types it accepts
    Ambiguities,     \* ambiguity_rules ids
    AmbiguityField,  \* ambiguity -> the field it is about
    NoAmbiguity

Value     == {"none", "false", "given"}
Status    == {"SATISFIED", "BLOCKED", "AMBIGUOUS", "NOT_APPLICABLE"}
Readiness == {"READY", "NOT_READY", "NEEDS_REVIEW", "DEAD_END"}

ASSUME PackAssumption ==
    /\ DefaultFields \subseteq Fields
    /\ InitiallyFalse \subseteq Fields \ DefaultFields
    /\ MandatoryFields \subseteq Fields
    /\ Dependencies \subseteq Fields \X Fields
    /\ UnmetGoals \subseteq Dependencies
    /\ DeadEnds \subseteq Fields \X (Value \ {"none"})
    /\ EvidenceActions \subseteq Actions
    /\ Satisfies \in [Actions -> SUBSET Fields]
    /\ Preconditions \in [Actions -> SUBSET Fields]
    /\ DOMAIN AcceptedDocs = Actions
    /\ AmbiguityField \in [Ambiguities -> Fields]
    /\ NoAmbiguity \notin Ambiguities

-----------------------------------------------------------------------------
(* The dependency graph under the goal (core/dependencies.py).             *)

\* A field some conditional edge of which the goal does not meet.
Applicable(f) == \A e \in UnmetGoals : e[2] # f

\* Edges whose condition fails are not in the graph.
Prerequisites(f) == {e[1] : e \in {d \in Dependencies \ UnmetGoals : d[2] = f}}

\* The validator refuses a manifest whose graph has a cycle.
ASSUME AcyclicAssumption ==
    \A S \in (SUBSET Fields) \ {{}} : \E f \in S : Prerequisites(f) \cap S = {}

-----------------------------------------------------------------------------
(* derive_field_states: one pass over the fields in topological order.  A  *)
(* field counts towards its dependents once it is settled.                 *)

\* Mutant: a stored False counts as an answer.
SuppliedIfStored(f, value, explicit) == explicit[f] = "SATISFIED" \/ value[f] # "none"

Supplied(f, value, explicit) == explicit[f] = "SATISFIED" \/ value[f] = "given"

AskedAbout(f, question) == question # NoAmbiguity /\ AmbiguityField[question] = f

Settled(value, explicit, question) ==
    LET settled[f \in Fields] ==
            \/ ~Applicable(f)
            \/ /\ \A p \in Prerequisites(f) : settled[p]
               /\ ~AskedAbout(f, question)
               /\ Supplied(f, value, explicit)
    IN  settled

DeriveStatus(value, explicit, question) ==
    LET settled == Settled(value, explicit, question)
    IN  [f \in Fields |->
            IF ~Applicable(f) THEN "NOT_APPLICABLE"
            ELSE IF \E p \in Prerequisites(f) : ~settled[p] THEN "BLOCKED"
            ELSE IF AskedAbout(f, question) THEN "AMBIGUOUS"
            ELSE IF settled[f] THEN "SATISFIED" ELSE "BLOCKED"]

DeriveValue(value) == [f \in Fields |-> IF Applicable(f) THEN value[f] ELSE "none"]

\* The verdicts in the order the code tries them (core/readiness.py).
ReadinessOf(value, status) ==
    IF \E d \in DeadEnds : value[d[1]] = d[2] THEN "DEAD_END"
    ELSE IF \E f \in Fields : status[f] = "AMBIGUOUS" THEN "NEEDS_REVIEW"
    ELSE IF \A f \in MandatoryFields : status[f] \in {"SATISFIED", "NOT_APPLICABLE"}
         THEN "READY" ELSE "NOT_READY"

-----------------------------------------------------------------------------
(* create_journey: the values and statuses a journey starts with.          *)

InitialValue == [f \in Fields |-> IF f \in DefaultFields THEN "given"
                                  ELSE IF f \in InitiallyFalse THEN "false" ELSE "none"]

InitialExplicit == [f \in Fields |-> IF f \in DefaultFields THEN "SATISFIED" ELSE "BLOCKED"]

-----------------------------------------------------------------------------
(* deterministic_check after its stale test: the action exists, evidence   *)
(* given to an EVIDENCE action is accepted, verified and carries a value,  *)
(* the preconditions are settled, and the input matches its schema.        *)

UsesEvidence(action, row) == row.given /\ action \in EvidenceActions

DeterministicCheck(status, action, row, valid) ==
    /\ action \in Actions
    /\ UsesEvidence(action, row) => /\ row.doc \in AcceptedDocs[action]
                                    /\ row.verified
                                    /\ row.complete
    /\ \A p \in Preconditions[action] : status[p] \in {"SATISFIED", "NOT_APPLICABLE"}
    /\ valid

\* What a passed check writes to every field the action satisfies.
NewValue(action, row, typed) == IF UsesEvidence(action, row) THEN "given" ELSE typed

=============================================================================
