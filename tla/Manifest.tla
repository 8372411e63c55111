------------------------------ MODULE Manifest ------------------------------
(***************************************************************************)
(* The parts of a journey pack that the rule engine does not read but the  *)
(* validator and the planner do: the order of the actions, their groups,   *)
(* the evidence mappings; and packs/validator.py over all of it, as the    *)
(* set of violation codes it reports.                                      *)
(*                                                                         *)
(* A manifest that the validator has not seen may name fields and actions  *)
(* that do not exist, so nothing is assumed of these constants.            *)
(***************************************************************************)
EXTENDS Pack, Sequences

CONSTANTS
    Required,      \* fields whose schema entry says mandatory
    Derived,       \* fields whose schema entry says derived
    ActionList,    \* the actions in manifest order
    GroupOf,       \* action -> its action_group, or NoGroup
    Groups,        \* the groups action_groups defines
    Members,       \* group -> its members
    Primary,       \* group -> its primary action
    NoGroup,
    Mappings,      \* evidence_mappings, as records [doc, field, action]
    MimeTypes,     \* entries of "accepts" that contain a slash
    BannedClaims   \* prohibited terms found in the pack's texts

Actors(f) == {a \in Actions : f \in Satisfies[a]}

-----------------------------------------------------------------------------
(* validate_referential_integrity, validate_cycles, validate_contract_floor *)

UnknownReference ==
    \/ \E e \in Dependencies : {e[1], e[2]} \ Fields # {}
    \/ \E a \in Actions : (Satisfies[a] \cup Preconditions[a]) \ Fields # {}
    \/ \E m \in Mappings : m.field \notin Fields \/ m.action \notin Actions
    \/ \E b \in Ambiguities : AmbiguityField[b] \notin Fields

\* Kahn's algorithm leaves fields over: each has a source among them.
\* Conditions on edges are ignored, unlike in the graph of a journey.
Cyclic ==
    \E S \in (SUBSET Fields) \ {{}} :
        \A f \in S : \E e \in Dependencies : e[2] = f /\ e[1] \in S

BelowFloor ==
    \/ Cardinality(Fields) < 5
    \/ Cardinality(Dependencies) < 4
    \/ Cardinality(Actions) < 5
    \/ Cardinality(Mappings) < 3
    \/ Cardinality(Ambiguities) < 2

-----------------------------------------------------------------------------
(* validate_planner_preconditions                                          *)

\* More than one action satisfies the field and they do not share one group.
DuplicateSatisfier(f) ==
    /\ Cardinality(Actors(f)) > 1
    /\ LET groups == {GroupOf[a] : a \in Actors(f)}
       IN  NoGroup \in groups \/ Cardinality(groups) > 1

InconsistentGroup(g) ==
    \/ ~ Members[g] \subseteq Actions
    \/ \E a, b \in Members[g] : Satisfies[a] # Satisfies[b]

\* Mutant: the schema's mandatory fields are taken for derived.
UnreachableFieldDerived(f) == f \in Required \cap Derived /\ Actors(f) = {}

UnreachableField(f) ==
    f \in (Required \ Derived) \ DefaultFields /\ Actors(f) = {}

-----------------------------------------------------------------------------
(* validate_depth_quality: a search over the sets of satisfied fields.     *)

Shallow == ~ \E d, e \in Dependencies : d[2] = e[1] /\ {d[1], e[2]} \subseteq Fields

\* Actions whose preconditions hold and that satisfy something new.
Useful(done) == {a \in Actions : Preconditions[a] \subseteq done /\ ~ Satisfies[a] \subseteq done}

Searched ==
    LET upTo[n \in 0..Cardinality(Fields)] ==
            IF n = 0 THEN {DefaultFields}
            ELSE LET found == upTo[n - 1]
                 IN  found \cup UNION {{done \cup Satisfies[a] : a \in Useful(done)} :
                                           done \in found}
    IN  upTo[Cardinality(Fields)]

\* How many other actions become possible once a has been done.
Unlocks(a, done) ==
    Cardinality({b \in Actions \ {a} : /\ ~ Preconditions[b] \subseteq done
                                       /\ Preconditions[b] \subseteq done \cup Satisfies[a]})

TrivialOrdering ==
    ~ \E done \in Searched :
        /\ Cardinality(Useful(done)) >= 3
        /\ Cardinality({Unlocks(a, done) : a \in Useful(done)}) >= 2

UnreachableAmbiguity == \E b \in Ambiguities : AmbiguityField[b] \notin UNION Searched

-----------------------------------------------------------------------------
(* validate_evidence_integrity, validate_claims, validate_all              *)

ConflictingMapping == \E m, n \in Mappings : m.doc = n.doc /\ m.field # n.field

Routed(m)   == m.doc \in AcceptedDocs[m.action]
OnTarget(m) == m.field \in Satisfies[m.action]

Violations ==
    LET known == {m \in Mappings : m.action \in Actions}
        report(code, found) == IF found THEN {code} ELSE {}
    IN  report("UNKNOWN_FIELD_REF", UnknownReference)
        \cup report("CYCLIC_DEPENDENCY", Cyclic)
        \cup report("BELOW_CONTRACT_FLOOR", BelowFloor)
        \cup report("DUPLICATE_SATISFIER", \E f \in UNION {Satisfies[a] : a \in Actions} :
                                              DuplicateSatisfier(f))
        \cup report("INCONSISTENT_GROUP", \E g \in Groups : InconsistentGroup(g))
        \cup report("UNREACHABLE_FIELD", \E f \in Fields : UnreachableField(f))
        \cup (IF Cyclic THEN {}
              ELSE report("SHALLOW_CASCADE", Shallow)
                   \cup report("TRIVIAL_ORDERING", TrivialOrdering)
                   \cup report("UNREACHABLE_AMBIGUITY", UnreachableAmbiguity))
        \cup report("PROHIBITED_CLAIM", BannedClaims # {})
        \cup report("CONFLICTING_EVIDENCE_MAPPING", ConflictingMapping)
        \cup report("ACTION_TARGET_FIELD_MISMATCH", \E m \in known : ~ OnTarget(m))
        \cup report("EVIDENCE_DOC_TYPE_NOT_ROUTABLE", \E m \in known : ~ Routed(m))
        \cup report("ACCEPTS_LOOKS_LIKE_MIME_TYPE",
                    \E a \in EvidenceActions : AcceptedDocs[a] \cap MimeTypes # {})

=============================================================================
