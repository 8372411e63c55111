--------------------------- MODULE Advice_proofs ----------------------------
(***************************************************************************)
(* Proofs about what the service tells a customer, for every pack and      *)
(* every number of refusals: the replay of the audit trail, simulate() and *)
(* the diff agree with the engine, what is recommended or offered can be   *)
(* done and helps, and the plan leads to READY by the shortest way.        *)
(*                                                                         *)
(* Everything rests on one fact: the statuses a snapshot stores are the    *)
(* only ones that satisfy a rule local to each field (Fits), because the   *)
(* validator rejects cyclic dependencies.  Two computations that start     *)
(* from different inputs then agree as soon as the rule does.              *)
(*                                                                         *)
(* The theorems on advice need, beyond what the validator checks, what the *)
(* shipped manifests have in common (Regular, and OneMeasure for the       *)
(* predictions); the proofs say of each part where it is needed.           *)
(***************************************************************************)
EXTENDS Advice, FiniteSetTheorems, SequenceTheorems, TLAPS

-----------------------------------------------------------------------------
(* What the validator guarantees of a manifest.                            *)

\* No unknown reference and no cycle.
Sound(p) ==
    /\ \A f \in p.fields : On(p)!Prerequisites(f) \subseteq p.fields
    /\ \A S \in (SUBSET p.fields) \ {{}} : \E f \in S : On(p)!Prerequisites(f) \cap S = {}
    /\ \A a \in DOMAIN p.satisfies :
          p.satisfies[a] \subseteq p.fields /\ p.preconditions[a] \subseteq p.fields
    /\ \A b \in DOMAIN p.ambiguity : p.ambiguity[b] \in p.fields

\* Validator.validate rejects unknown references and cycles.
LEMMA ValidatedIsSound ==
    ASSUME NEW p \in Validated
    PROVE  Sound(p)
  <1>1. On(p)!Violations = {}
    BY DEF Validated
  <1>2. ~ On(p)!UnknownReference /\ ~ On(p)!Cyclic
    BY <1>1 DEF On!Violations
  <1>3. \A f \in p.fields : On(p)!Prerequisites(f) \subseteq p.fields
    BY <1>2 DEF On!UnknownReference, On!Prerequisites
  <1>4. \A S \in (SUBSET p.fields) \ {{}} : \E f \in S : On(p)!Prerequisites(f) \cap S = {}
    BY <1>2 DEF On!Cyclic, On!Prerequisites
  <1>5. \A a \in DOMAIN p.satisfies :
          p.satisfies[a] \subseteq p.fields /\ p.preconditions[a] \subseteq p.fields
    BY <1>2 DEF On!UnknownReference
  <1>6. \A b \in DOMAIN p.ambiguity : p.ambiguity[b] \in p.fields
    BY <1>2 DEF On!UnknownReference
  <1> QED  BY <1>3, <1>4, <1>5, <1>6 DEF Sound

-----------------------------------------------------------------------------
(* The fixpoint of derive_field_states exists and is unique.               *)

\* A set of fields that one more pass of the loop leaves as it is.
HasFixpoint(F, A, S, pre) ==
    \E L \in SUBSET F : \A f \in F : f \in L <=> f \in A \/ (pre[f] \subseteq L /\ f \in S)

\* The least set of fields closed under one pass of the loop is a fixpoint of it.
LEMMA FixpointExists ==
    ASSUME NEW F, NEW A, NEW S, NEW pre, \A f \in F : pre[f] \subseteq F
    PROVE  HasFixpoint(F, A, S, pre)
  <1> DEFINE Pass(X) == {f \in F : f \in A \/ (pre[f] \subseteq X /\ f \in S)}
             Least   == {f \in F : \A X \in SUBSET F : Pass(X) \subseteq X => f \in X}
  <1>1. ASSUME NEW X \in SUBSET F, NEW Y \in SUBSET F, X \subseteq Y
        PROVE  Pass(X) \subseteq Pass(Y)
    BY <1>1
  <1>2. \A X \in SUBSET F : Pass(X) \subseteq X => Least \subseteq X
    OBVIOUS
  <1>3. Least \in SUBSET F /\ \A X \in SUBSET F : Pass(X) \in SUBSET F
    OBVIOUS
  <1>4. Pass(Least) \subseteq Least
    <2>1. ASSUME NEW f \in Pass(Least), NEW X \in SUBSET F, Pass(X) \subseteq X
          PROVE  f \in X
      <3>1. Least \subseteq X
        BY <1>2, <2>1
      <3>2. Pass(Least) \subseteq Pass(X)
        BY <1>1, <1>3, <3>1
      <3> QED  BY <2>1, <3>2
    <2> QED  BY <2>1
  <1>5. Least \subseteq Pass(Least)
    <2>1. Pass(Pass(Least)) \subseteq Pass(Least)
      BY <1>1, <1>3, <1>4
    <2> QED  BY <1>2, <1>3, <2>1
  <1>6. \A f \in F : f \in Pass(Least) <=> f \in A \/ (pre[f] \subseteq Least /\ f \in S)
    OBVIOUS
  <1> HIDE DEF Least, Pass
  <1>7. \A f \in F : f \in Least <=> f \in Pass(Least)
    BY <1>4, <1>5
  <1> QED  BY <1>3, <1>6, <1>7 DEF HasFixpoint

\* What the loop makes of one field when it is settled which of its prerequisites are.
Settles(p, settled, f, value, explicit, question) ==
    \/ ~On(p)!Applicable(f)
    \/ /\ \A x \in On(p)!Prerequisites(f) : settled[x]
       /\ ~On(p)!AskedAbout(f, question)
       /\ On(p)!Supplied(f, value, explicit)

\* The CHOOSE that stands for the loop finds a fixpoint.
LEMMA SettledIsFixpoint ==
    ASSUME NEW p, Sound(p), NEW value, NEW explicit, NEW question
    PROVE  LET settled == On(p)!Settled(value, explicit, question)
           IN  settled = [f \in p.fields |-> Settles(p, settled, f, value, explicit, question)]
  <1> DEFINE A   == {f \in p.fields : ~On(p)!Applicable(f)}
             S   == {f \in p.fields : /\ ~On(p)!AskedAbout(f, question)
                                      /\ On(p)!Supplied(f, value, explicit)}
             pre == [f \in p.fields |-> On(p)!Prerequisites(f)]
  <1>1. \A f \in p.fields : pre[f] \subseteq p.fields
    BY DEF Sound
  <1>2. PICK L \in SUBSET p.fields :
           \A f \in p.fields : f \in L <=> f \in A \/ (pre[f] \subseteq L /\ f \in S)
    <2> HIDE DEF A, S, pre
    <2>1. HasFixpoint(p.fields, A, S, pre)
      BY <1>1, FixpointExists
    <2> QED  BY <2>1 DEF HasFixpoint
  <1> DEFINE g == [f \in p.fields |-> f \in L]
  <1>3. ASSUME NEW f \in p.fields
        PROVE  f \in L <=> Settles(p, g, f, value, explicit, question)
    <2>1. (\A x \in On(p)!Prerequisites(f) : g[x]) <=> pre[f] \subseteq L
      BY DEF Sound
    <2>2. f \in L <=> f \in A \/ (pre[f] \subseteq L /\ f \in S)
      BY <1>2
    <2>3. /\ f \in A <=> ~On(p)!Applicable(f)
          /\ f \in S <=> ~On(p)!AskedAbout(f, question) /\ On(p)!Supplied(f, value, explicit)
      OBVIOUS
    <2> HIDE DEF A, S, pre, g
    <2> QED  BY <2>1, <2>2, <2>3 DEF Settles
  <1>4. g = [f \in p.fields |-> Settles(p, g, f, value, explicit, question)]
    <2>1. ASSUME NEW f \in p.fields
          PROVE  (f \in L) = Settles(p, g, f, value, explicit, question)
      <3> HIDE DEF g
      <3>1. f \in L <=> Settles(p, g, f, value, explicit, question)
        BY <1>3
      <3>2. Settles(p, g, f, value, explicit, question) \in BOOLEAN
        BY Zenon DEF Settles
      <3>3. (f \in L) \in BOOLEAN
        OBVIOUS
      <3> QED  BY <3>1, <3>2, <3>3
    <2>2. g = [f \in p.fields |-> f \in L]
      OBVIOUS
    <2> HIDE DEF g
    <2> QED  BY <2>1, <2>2, Zenon
  <1> HIDE DEF g
  <1>5. \E h : h = [f \in p.fields |-> Settles(p, h, f, value, explicit, question)]
    BY <1>4
  <1> QED  BY <1>5 DEF On!Settled, Settles

-----------------------------------------------------------------------------
(* Statuses by their local rule.  A field is settled by its status.        *)

\* Every prerequisite of f is done.
Open(p, status, f) == \A x \in On(p)!Prerequisites(f) : status[x] \in On(p)!Done

\* The status of f by the statuses of the fields it waits for.
Ruling(p, status, f, value, explicit, question) ==
    IF ~On(p)!Applicable(f) THEN "NOT_APPLICABLE"
    ELSE IF ~Open(p, status, f) THEN "BLOCKED"
    ELSE IF On(p)!AskedAbout(f, question) THEN "AMBIGUOUS"
    ELSE IF On(p)!Supplied(f, value, explicit) THEN "SATISFIED" ELSE "BLOCKED"

\* Every status is the one its field's rule gives.
Fits(p, status, value, explicit, question) ==
    /\ DOMAIN status = p.fields
    /\ status = [f \in p.fields |-> status[f]]
    /\ \A f \in p.fields : status[f] = Ruling(p, status, f, value, explicit, question)

\* derive_field_states gives every field the status of its local rule.
LEMMA DerivedFits ==
    ASSUME NEW p, Sound(p), NEW value, NEW explicit, NEW question
    PROVE  Fits(p, On(p)!DeriveStatus(value, explicit, question), value, explicit, question)
  <1> DEFINE settled == On(p)!Settled(value, explicit, question)
             status  == On(p)!DeriveStatus(value, explicit, question)
  <1>1. \A f \in p.fields :
           settled[f] = Settles(p, settled, f, value, explicit, question)
    BY SettledIsFixpoint
  <1>2. status = [f \in p.fields |->
            IF ~On(p)!Applicable(f) THEN "NOT_APPLICABLE"
            ELSE IF \E x \in On(p)!Prerequisites(f) : ~settled[x] THEN "BLOCKED"
            ELSE IF On(p)!AskedAbout(f, question) THEN "AMBIGUOUS"
            ELSE IF settled[f] THEN "SATISFIED" ELSE "BLOCKED"]
    BY DEF On!DeriveStatus
  <1> HIDE DEF settled, status
  <1>3. ASSUME NEW f \in p.fields
        PROVE  settled[f] <=> status[f] \in On(p)!Done
    <2>1. settled[f] <=> Settles(p, settled, f, value, explicit, question)
      BY <1>1
    <2> QED  BY <1>2, <2>1 DEF Settles, On!Done
  <1>4. ASSUME NEW f \in p.fields
        PROVE  status[f] = Ruling(p, status, f, value, explicit, question)
    <2>1. settled[f] <=> Settles(p, settled, f, value, explicit, question)
      BY <1>1
    <2>2. Open(p, status, f) <=> \A x \in On(p)!Prerequisites(f) : settled[x]
      BY <1>3 DEF Open, Sound
    <2> QED  BY <1>2, <2>1, <2>2 DEF Settles, Ruling
  <1>5. DOMAIN status = p.fields /\ status = [f \in p.fields |-> status[f]]
    BY <1>2
  <1> QED  BY <1>4, <1>5 DEF Fits, status

\* Two derivations that decide alike on every field whose prerequisites are settled in both
\* are the same: a first field where they differ would have none.
LEMMA FitsAreUnique ==
    ASSUME NEW p, Sound(p),
           NEW st1, NEW value1, NEW explicit1, NEW question1,
           NEW st2, NEW value2, NEW explicit2, NEW question2,
           Fits(p, st1, value1, explicit1, question1),
           Fits(p, st2, value2, explicit2, question2),
           \A f \in p.fields :
              On(p)!Applicable(f) /\ Open(p, st1, f) /\ Open(p, st2, f)
              => /\ On(p)!AskedAbout(f, question1) <=> On(p)!AskedAbout(f, question2)
                 /\ ~On(p)!AskedAbout(f, question1)
                    => (On(p)!Supplied(f, value1, explicit1)
                            <=> On(p)!Supplied(f, value2, explicit2))
    PROVE  st1 = st2
  <1> DEFINE Differ == {f \in p.fields : st1[f] # st2[f]}
  <1>1. ASSUME Differ # {}
        PROVE  FALSE
    <2>1. PICK f \in Differ : On(p)!Prerequisites(f) \cap Differ = {}
      BY <1>1 DEF Sound
    <2>2. \A x \in On(p)!Prerequisites(f) : st1[x] = st2[x]
      BY <2>1 DEF Sound
    <2>3. Open(p, st1, f) <=> Open(p, st2, f)
      BY <2>2 DEF Open
    <2>4. /\ st1[f] = Ruling(p, st1, f, value1, explicit1, question1)
          /\ st2[f] = Ruling(p, st2, f, value2, explicit2, question2)
      BY <2>1 DEF Fits
    <2>5. Ruling(p, st1, f, value1, explicit1, question1)
              = Ruling(p, st2, f, value2, explicit2, question2)
      BY <2>1, <2>3 DEF Ruling
    <2> QED  BY <2>1, <2>4, <2>5
  <1>2. \A f \in p.fields : st1[f] = st2[f]
    BY <1>1
  <1> QED  BY <1>2 DEF Fits

\* Deriving again from the statuses themselves changes nothing.
LEMMA FitsItself ==
    ASSUME NEW p, NEW status, NEW value, NEW explicit, NEW question,
           Fits(p, status, value, explicit, question)
    PROVE  Fits(p, status, value, status, question)
  <1>1. ASSUME NEW f \in p.fields
        PROVE  Ruling(p, status, f, value, status, question)
                  = Ruling(p, status, f, value, explicit, question)
    BY DEF Fits, Ruling, On!Supplied
  <1> QED  BY <1>1 DEF Fits

-----------------------------------------------------------------------------
(* Snapshots.                                                              *)

\* What a field holds, as far as the engine tells it apart.
Value == {"none", "false", "given"}

\* A snapshot that derives to itself.
Coherent(p, s) ==
    /\ s = [value |-> s.value, status |-> s.status, pending |-> s.pending,
            readiness |-> On(p)!ReadinessOf(s.value, s.status)]
    /\ s.value \in [p.fields -> Value]
    /\ \A f \in p.fields : ~On(p)!Applicable(f) => s.value[f] = "none"
    /\ s.pending \in DOMAIN p.ambiguity \cup {NoAmbiguity}
    /\ Fits(p, s.status, s.value, s.status, s.pending)

\* Whatever is written, derive makes values, statuses and readiness agree.
LEMMA SnapshotCoheres ==
    ASSUME NEW p, Sound(p), NEW value \in [p.fields -> Value], NEW explicit,
           NEW question \in DOMAIN p.ambiguity \cup {NoAmbiguity}
    PROVE  LET s == Snapshot(p, value, explicit, question)
           IN  /\ Coherent(p, s)
               /\ s.value = On(p)!DeriveValue(value)
               /\ s.pending = question
               /\ Fits(p, s.status, s.value, explicit, question)
  <1> DEFINE s == Snapshot(p, value, explicit, question)
  <1>1. /\ s.status = On(p)!DeriveStatus(value, explicit, question)
        /\ s.value = On(p)!DeriveValue(value)
        /\ s.pending = question
        /\ s.readiness = On(p)!ReadinessOf(s.value, s.status)
        /\ s = [value |-> s.value, status |-> s.status, pending |-> s.pending,
                readiness |-> s.readiness]
    BY DEF Snapshot
  <1>2. s.value = [f \in p.fields |-> IF On(p)!Applicable(f) THEN value[f] ELSE "none"]
    BY <1>1 DEF On!DeriveValue
  <1>3. Fits(p, s.status, value, explicit, question)
    BY <1>1, DerivedFits
  <1> HIDE DEF s
  <1>4. Fits(p, s.status, s.value, explicit, question)
    <2>1. ASSUME NEW f \in p.fields
          PROVE  Ruling(p, s.status, f, value, explicit, question)
                    = Ruling(p, s.status, f, s.value, explicit, question)
      BY <1>2 DEF Ruling, On!Supplied
    <2> QED  BY <1>3, <2>1 DEF Fits
  <1>5. Fits(p, s.status, s.value, s.status, question)
    BY <1>4, FitsItself
  <1>6. /\ s.value \in [p.fields -> Value]
        /\ \A f \in p.fields : ~On(p)!Applicable(f) => s.value[f] = "none"
    BY <1>2 DEF Value
  <1> QED  BY <1>1, <1>4, <1>5, <1>6 DEF Coherent, s

\* A journey's values and statuses agree, and the replay has its values.
AdviceInvariant ==
    /\ pack \in Validated
    /\ Coherent(pack, snapshot)
    /\ replayed \in [pack.fields -> Value]
    /\ On(pack)!DeriveValue(replayed) = snapshot.value

\* The statuses a write hands to derive, and the values.
Explicit(p, s, written, question) ==
    [f \in p.fields |-> IF f \notin written THEN s.status[f]
                       ELSE IF On(p)!AskedAbout(f, question) THEN "AMBIGUOUS" ELSE "SATISFIED"]

Written(p, value, written, v) == [f \in p.fields |-> IF f \in written THEN v ELSE value[f]]

\* The same of a snapshot written on top of another.
LEMMA AfterCoheres ==
    ASSUME NEW p, Sound(p), NEW s, Coherent(p, s), NEW written, NEW v \in {"given", "false"},
           NEW question \in DOMAIN p.ambiguity \cup {NoAmbiguity}
    PROVE  LET t == After(p, s, written, v, question)
           IN  /\ Coherent(p, t)
               /\ t.value = On(p)!DeriveValue(Written(p, s.value, written, v))
               /\ t.pending = question
               /\ Fits(p, t.status, t.value, Explicit(p, s, written, question), question)
  <1>1. After(p, s, written, v, question)
           = Snapshot(p, Written(p, s.value, written, v), Explicit(p, s, written, question),
                      question)
    BY DEF After, Written, Explicit
  <1>2. Written(p, s.value, written, v) \in [p.fields -> Value]
    BY DEF Written, Coherent, Value
  <1> QED  BY <1>1, <1>2, SnapshotCoheres

\* Every step writes some fields with a value, in the journey and in the replay.
Writes(written, v, question) ==
    /\ v \in {"given", "false"}
    /\ question \in DOMAIN pack.ambiguity \cup {NoAmbiguity}
    /\ written \subseteq pack.fields
    /\ snapshot' = After(pack, snapshot, written, v, question)
    /\ replayed' = [f \in DOMAIN replayed |-> IF f \in written THEN v ELSE replayed[f]]
    /\ pack' = pack

\* An action and an answer are both such a write.
LEMMA StepsWrite ==
    ASSUME AdviceInvariant, Next
    PROVE  \E written, v, question : Writes(written, v, question)
  <1>1. Sound(pack) /\ snapshot.pending \in DOMAIN pack.ambiguity \cup {NoAmbiguity}
    BY ValidatedIsSound DEF AdviceInvariant, Coherent
  <1>2. ASSUME NEW a \in DOMAIN pack.satisfies, NEW v \in {"given", "false"},
               NEW question \in DOMAIN pack.ambiguity \cup {NoAmbiguity},
               ApplyAction(a, v, question)
        PROVE  Writes(pack.satisfies[a], v, question)
    BY <1>1, <1>2 DEF ApplyAction, Write, ReplayEvent, Writes, Sound
  <1>3. ASSUME NEW v \in {"given", "false"}, SubmitClarification(v)
        PROVE  Writes({pack.ambiguity[snapshot.pending]}, v, NoAmbiguity)
    BY <1>1, <1>3 DEF SubmitClarification, Write, ReplayEvent, Writes, Sound
  <1> QED  BY <1>2, <1>3 DEF Next, Act, Answer

\* A journey begins with values and statuses that agree.
LEMMA AdviceInit ==
    ASSUME Init
    PROVE  AdviceInvariant
  <1>1. pack \in Validated /\ Sound(pack)
    BY ValidatedIsSound DEF Init
  <1>2. On(pack)!InitialValue \in [pack.fields -> Value]
    BY DEF On!InitialValue, Value
  <1>3. snapshot = Snapshot(pack, On(pack)!InitialValue, On(pack)!InitialExplicit, NoAmbiguity)
    BY DEF Init, InitialSnapshot
  <1> QED  BY <1>1, <1>2, <1>3, SnapshotCoheres DEF Init, AdviceInvariant

\* Every request keeps them so, and appends to the trail what it wrote.
LEMMA AdviceStep ==
    ASSUME AdviceInvariant, [Next]_vars
    PROVE  AdviceInvariant'
  <1>1. CASE UNCHANGED vars
    BY <1>1 DEF vars, AdviceInvariant
  <1>2. CASE Next
    <2>1. PICK written, v, question : Writes(written, v, question)
      BY <1>2, StepsWrite
    <2>2. Sound(pack) /\ Coherent(pack, snapshot) /\ pack \in Validated
      BY ValidatedIsSound DEF AdviceInvariant
    <2>3. /\ Coherent(pack, snapshot')
          /\ snapshot'.value = On(pack)!DeriveValue(Written(pack, snapshot.value, written, v))
      BY <2>1, <2>2, AfterCoheres DEF Writes
    <2>4. replayed' \in [pack.fields -> Value]
      BY <2>1 DEF AdviceInvariant, Writes, Value
    <2>5. On(pack)!DeriveValue(replayed') = snapshot'.value
      <3>1. ASSUME NEW f \in pack.fields, On(pack)!Applicable(f)
            PROVE  snapshot.value[f] = replayed[f]
        BY <3>1 DEF AdviceInvariant, On!DeriveValue
      <3>2. ASSUME NEW f \in pack.fields, On(pack)!Applicable(f)
            PROVE  replayed'[f] = Written(pack, snapshot.value, written, v)[f]
        BY <2>1, <3>1, <3>2 DEF Writes, Written, AdviceInvariant
      <3> QED  BY <2>3, <3>2 DEF On!DeriveValue
    <2>6. pack' = pack
      BY <2>1 DEF Writes
    <2> QED  BY <2>2, <2>3, <2>4, <2>5, <2>6 DEF AdviceInvariant
  <1> QED  BY <1>1, <1>2

\* Whatever a customer does, values, statuses and readiness of the current snapshot agree,
\* and the audit trail replayed so far has its values (create_journey, apply_action,
\* submit_clarification).
THEOREM AdviceInvariantHolds == Spec => []AdviceInvariant
  <1>1. Init => AdviceInvariant
    BY AdviceInit
  <1>2. AdviceInvariant /\ [Next]_vars => AdviceInvariant'
    BY AdviceStep
  <1> QED  BY <1>1, <1>2, PTL DEF Spec

\* replay_journey rebuilds from the audit trail every value a customer sees, and the whole
\* snapshot as long as no question is open and no refusal counts as an answer.
THEOREM TrailRebuilds == Spec => []ReplayRebuilds
  <1>1. AdviceInvariant => ReplayRebuilds
    <2> SUFFICES ASSUME AdviceInvariant PROVE ReplayRebuilds
      OBVIOUS
    <2> DEFINE blank   == [f \in pack.fields |-> "BLOCKED"]
               rebuilt == Replay(pack, replayed)
    <2>1. Sound(pack) /\ Coherent(pack, snapshot) /\ replayed \in [pack.fields -> Value]
      BY ValidatedIsSound DEF AdviceInvariant
    <2>2. rebuilt = Snapshot(pack, replayed, blank, NoAmbiguity)
      BY DEF Replay
    <2>3. /\ Coherent(pack, rebuilt) /\ rebuilt.pending = NoAmbiguity
          /\ rebuilt.value = On(pack)!DeriveValue(replayed)
          /\ Fits(pack, rebuilt.status, rebuilt.value, blank, NoAmbiguity)
      <3> HIDE DEF rebuilt, blank
      <3> QED  BY <2>1, <2>2, SnapshotCoheres
    <2>4. rebuilt.value = snapshot.value
      BY <2>3 DEF AdviceInvariant
    <2>5. ASSUME Plain(snapshot)
          PROVE  rebuilt = snapshot
      <3>1. snapshot.pending = NoAmbiguity
        BY <2>5 DEF Plain
      <3>2. Fits(pack, snapshot.status, snapshot.value, snapshot.status, NoAmbiguity)
        BY <2>1, <3>1 DEF Coherent
      <3>3. ASSUME NEW f \in pack.fields
            PROVE  On(pack)!Supplied(f, rebuilt.value, blank)
                      <=> On(pack)!Supplied(f, snapshot.value, snapshot.status)
        <4> HIDE DEF rebuilt
        <4> QED  BY <2>4, <2>5, <3>3 DEF On!Supplied, Plain
      <3>4. rebuilt.status = snapshot.status
        <4> HIDE DEF rebuilt, blank
        <4> QED  BY <2>1, <2>3, <3>2, <3>3, FitsAreUnique
      <3> HIDE DEF rebuilt
      <3> QED  BY <2>1, <2>3, <2>4, <3>1, <3>4 DEF Coherent
    <2> QED  BY <2>4, <2>5 DEF ReplayRebuilds
  <1> QED  BY <1>1, AdviceInvariantHolds, PTL

-----------------------------------------------------------------------------
(* simulate().                                                             *)

\* SimulationPredicts without the list of blocked fields.
StatePredicted ==
    Plain(snapshot) => \A a \in {b \in DOMAIN pack.satisfies : Acceptable(pack, snapshot, b)} :
        LET predicted == On(pack)!Simulate(snapshot, a, "given")
            actual    == Executed(pack, snapshot, a)
        IN  /\ predicted.status = actual.status
            /\ predicted.readiness = actual.readiness
            /\ predicted.unlocked \cap On(pack)!Active(snapshot.status) = {}

\* A field is AMBIGUOUS only because of the open question.
LEMMA StatusesAre ==
    ASSUME NEW p, NEW s, Coherent(p, s), NEW f \in p.fields
    PROVE  /\ s.status[f] \in {"SATISFIED", "BLOCKED", "AMBIGUOUS", "NOT_APPLICABLE"}
           /\ s.status[f] = "AMBIGUOUS" => s.pending # NoAmbiguity /\ p.ambiguity[s.pending] = f
  BY DEF Coherent, Fits, Ruling, On!AskedAbout

\* simulate() starts from no explicit statuses, apply_action from the stored ones; where
\* no refusal counts as an answer, the values alone decide.
LEMMA SimulatedStatus ==
    ASSUME AdviceInvariant, Plain(snapshot), NEW a \in DOMAIN pack.satisfies
    PROVE  LET predicted == On(pack)!Simulate(snapshot, a, "given")
               actual    == Executed(pack, snapshot, a)
           IN  /\ predicted.status = actual.status
               /\ predicted.readiness = actual.readiness
  <1> DEFINE value  == Written(pack, snapshot.value, pack.satisfies[a], "given")
             status == On(pack)!DeriveStatus(value, On(pack)!Nothing, NoAmbiguity)
             actual == Executed(pack, snapshot, a)
             given  == Explicit(pack, snapshot, pack.satisfies[a], NoAmbiguity)
  <1>1. /\ On(pack)!Simulate(snapshot, a, "given").status = status
        /\ On(pack)!Simulate(snapshot, a, "given").readiness
              = On(pack)!ReadinessOf(On(pack)!DeriveValue(value), status)
    BY DEF On!Simulate, Written
  <1>2. Sound(pack) /\ Coherent(pack, snapshot)
    BY ValidatedIsSound DEF AdviceInvariant
  <1>3. actual = After(pack, snapshot, pack.satisfies[a], "given", NoAmbiguity)
    BY DEF Executed
  <1>4. /\ Coherent(pack, actual)
        /\ actual.value = On(pack)!DeriveValue(value)
        /\ Fits(pack, actual.status, actual.value, given, NoAmbiguity)
    <2> HIDE DEF actual, value, given
    <2> QED  BY <1>2, <1>3, AfterCoheres DEF value, given
  <1>5. Fits(pack, status, value, On(pack)!Nothing, NoAmbiguity)
    BY <1>2, DerivedFits
  <1>6. ASSUME NEW f \in pack.fields, On(pack)!Applicable(f)
        PROVE  On(pack)!Supplied(f, value, On(pack)!Nothing)
                  <=> On(pack)!Supplied(f, actual.value, given)
    <2>1. actual.value[f] = value[f]
      <3> HIDE DEF actual, value
      <3> QED  BY <1>4, <1>6 DEF On!DeriveValue
    <2>2. On(pack)!Nothing[f] = "BLOCKED"
      BY DEF On!Nothing
    <2>3. CASE f \in pack.satisfies[a]
      <3>1. value[f] = "given"
        BY <2>3 DEF Written
      <3> HIDE DEF actual, value
      <3> QED  BY <2>1, <3>1 DEF On!Supplied
    <2>4. CASE f \notin pack.satisfies[a]
      <3>1. value[f] = snapshot.value[f] /\ given[f] = snapshot.status[f]
        BY <2>4 DEF Written, Explicit
      <3> HIDE DEF actual, value, given
      <3> QED  BY <2>1, <2>2, <3>1 DEF On!Supplied, Plain
    <2> QED  BY <2>3, <2>4
  <1> HIDE DEF actual, value, status, given
  <1>7. status = actual.status
    BY <1>2, <1>4, <1>5, <1>6, FitsAreUnique
  <1>8. actual.readiness = On(pack)!ReadinessOf(actual.value, actual.status)
    BY <1>4 DEF Coherent
  <1> QED  BY <1>1, <1>4, <1>7, <1>8 DEF actual

\* What can be done already is not called unlocked.
LEMMA NothingElseUnlocks ==
    ASSUME NEW a \in DOMAIN pack.satisfies
    PROVE  On(pack)!Simulate(snapshot, a, "given").unlocked
              \cap On(pack)!Active(snapshot.status) = {}
  BY DEF On!Simulate, On!Active

\* No field blocked is READY, where both mean the same fields.
LEMMA NothingBlocksReady ==
    ASSUME NEW p, OneMeasure(p), NEW s, Coherent(p, s), s.pending = NoAmbiguity
    PROVE  {f \in p.required : s.status[f] = "BLOCKED"} = {} <=> s.readiness = "READY"
  <1>1. \A f \in p.fields : s.status[f] \in {"SATISFIED", "BLOCKED", "NOT_APPLICABLE"}
    BY StatusesAre
  <1>2. s.readiness = On(p)!ReadinessOf(s.value, s.status)
    BY DEF Coherent
  <1>3. s.readiness = IF \A f \in p.required : s.status[f] \in {"SATISFIED", "NOT_APPLICABLE"}
                      THEN "READY" ELSE "NOT_READY"
    BY <1>1, <1>2 DEF On!ReadinessOf, OneMeasure
  <1> QED  BY <1>1, <1>3 DEF OneMeasure

\* For every validated manifest, simulate() of core/planner.py computes the statuses and
\* the readiness that apply_action then stores, and calls nothing unlocked that was
\* active before.
THEOREM SimulationFollowsEngine == Spec => []StatePredicted
  <1>1. AdviceInvariant => StatePredicted
    BY SimulatedStatus, NothingElseUnlocks DEF StatePredicted
  <1> QED  BY <1>1, AdviceInvariantHolds, PTL

\* simulate() predicts exactly what executing the action does, also what remains blocked,
\* where the schema and the readiness rules mean the same fields by mandatory.
THEOREM SimulationIsTrue == Spec => [](OneMeasure(pack) => SimulationPredicts)
  <1>1. AdviceInvariant => (OneMeasure(pack) => SimulationPredicts)
    <2>1. ASSUME AdviceInvariant, OneMeasure(pack), Plain(snapshot), NEW a \in DOMAIN pack.satisfies
          PROVE  LET predicted == On(pack)!Simulate(snapshot, a, "given")
                     actual    == Executed(pack, snapshot, a)
                 IN  predicted.blocked = {} <=> actual.readiness = "READY"
      <3> DEFINE actual == Executed(pack, snapshot, a)
      <3>1. Sound(pack) /\ Coherent(pack, snapshot) /\ OneMeasure(pack)
        BY <2>1, ValidatedIsSound DEF AdviceInvariant
      <3>2. Coherent(pack, actual) /\ actual.pending = NoAmbiguity
        BY <3>1, AfterCoheres DEF Executed
      <3>3. On(pack)!Simulate(snapshot, a, "given").status = actual.status
        BY <2>1, SimulatedStatus
      <3>4. On(pack)!Simulate(snapshot, a, "given").blocked
               = {f \in pack.required :
                     On(pack)!Simulate(snapshot, a, "given").status[f] = "BLOCKED"}
        BY DEF On!Simulate
      <3> HIDE DEF actual
      <3>5. {f \in pack.required : actual.status[f] = "BLOCKED"} = {}
               <=> actual.readiness = "READY"
        BY <3>1, <3>2, NothingBlocksReady
      <3> QED  BY <3>3, <3>4, <3>5 DEF actual
    <2> QED  BY <2>1, SimulatedStatus, NothingElseUnlocks DEF SimulationPredicts
  <1> QED  BY <1>1, AdviceInvariantHolds, PTL

-----------------------------------------------------------------------------
(* The diff.                                                               *)

\* Readers who derive a coherent snapshot again find what is stored.
LEMMA Rederive ==
    ASSUME NEW p, Sound(p), NEW s, Coherent(p, s), s.pending = NoAmbiguity
    PROVE  On(p)!DeriveStatus(s.value, s.status, NoAmbiguity) = s.status
  <1>1. Fits(p, s.status, s.value, s.status, NoAmbiguity)
    BY DEF Coherent
  <1>2. Fits(p, On(p)!DeriveStatus(s.value, s.status, NoAmbiguity), s.value, s.status,
             NoAmbiguity)
    BY DerivedFits
  <1> QED  BY <1>1, <1>2, FitsAreUnique

\* The part of the diff that holds of every manifest.
CascadeExplained(p, s, t, direct) ==
    \A f \in On(p)!Diff(s, t, direct).cascaded :
        \/ On(p)!Prerequisites(f) \cap On(p)!Diff(s, t, direct).changed # {}
        \/ s.status[f] = "AMBIGUOUS"

\* A field the write did not touch changes only after one it waits for.
LEMMA CascadesHaveCauses ==
    ASSUME NEW p, Sound(p), NEW s, Coherent(p, s), NEW written \in SUBSET p.fields,
           NEW v \in {"given", "false"}, NEW question \in DOMAIN p.ambiguity \cup {NoAmbiguity},
           question # NoAmbiguity => p.ambiguity[question] \in written
    PROVE  CascadeExplained(p, s, After(p, s, written, v, question), written)
  <1> DEFINE t     == After(p, s, written, v, question)
             given == Explicit(p, s, written, question)
             value == Written(p, s.value, written, v)
             changed == On(p)!FieldsChanged(s, t)
  <1>1. /\ Coherent(p, t)
        /\ t.value = On(p)!DeriveValue(value)
        /\ Fits(p, t.status, t.value, given, question)
    <2> HIDE DEF t, given, value
    <2> QED  BY AfterCoheres DEF t, given, value
  <1>2. /\ On(p)!Diff(s, t, written).changed = changed
        /\ On(p)!Diff(s, t, written).cascaded = changed \ written
    BY DEF On!Diff
  <1>3. changed = {f \in p.fields : \/ s.status[f] # t.status[f] \/ s.value[f] # t.value[f]
                                    \/ (s.status[f] = "AMBIGUOUS") # (t.status[f] = "AMBIGUOUS")}
    BY DEF On!FieldsChanged
  <1>4. ASSUME NEW f \in p.fields, f \notin written
        PROVE  value[f] = s.value[f] /\ given[f] = s.status[f]
    BY <1>4 DEF Written, Explicit
  <1> HIDE DEF t, given, value, changed
  <1>5. ASSUME NEW f \in p.fields, f \notin written
        PROVE  t.value[f] = s.value[f]
    BY <1>1, <1>4, <1>5 DEF Coherent, On!DeriveValue
  <1>6. ASSUME NEW f \in p.fields, f \notin written, On(p)!Prerequisites(f) \cap changed = {},
               s.status[f] # "AMBIGUOUS"
        PROVE  t.status[f] = s.status[f]
    <2>1. /\ s.status[f] = Ruling(p, s.status, f, s.value, s.status, s.pending)
          /\ t.status[f] = Ruling(p, t.status, f, t.value, given, question)
      BY <1>1 DEF Coherent, Fits
    <2>2. Open(p, s.status, f) <=> Open(p, t.status, f)
      BY <1>3, <1>6 DEF Open, Sound
    <2>3. ~On(p)!AskedAbout(f, question)
      BY <1>6 DEF On!AskedAbout
    <2>4. On(p)!Supplied(f, s.value, s.status) <=> On(p)!Supplied(f, t.value, given)
      BY <1>4, <1>5, <1>6 DEF On!Supplied
    <2> QED  BY <1>6, <2>1, <2>2, <2>3, <2>4 DEF Ruling
  <1>7. ASSUME NEW f \in changed \ written
        PROVE  On(p)!Prerequisites(f) \cap changed # {} \/ s.status[f] = "AMBIGUOUS"
    <2>1. SUFFICES ASSUME On(p)!Prerequisites(f) \cap changed = {}, s.status[f] # "AMBIGUOUS"
                   PROVE  FALSE
      OBVIOUS
    <2>2. f \in p.fields
      BY <1>3
    <2>3. t.status[f] = s.status[f] /\ t.value[f] = s.value[f]
      BY <1>5, <1>6, <2>1, <2>2
    <2> QED  BY <1>3, <2>3
  <1> QED  BY <1>2, <1>7 DEF CascadeExplained, t

\* What the service calls active passes the deterministic check.
LEMMA ActiveIsAcceptable ==
    ASSUME NEW p, Sound(p), NEW s, Coherent(p, s), s.pending = NoAmbiguity,
           NEW b \in On(p)!Active(s.status)
    PROVE  Acceptable(p, s, b)
  <1>1. On(p)!DeriveStatus(s.value, s.status, NoAmbiguity) = s.status
    BY Rederive
  <1> QED  BY <1>1 DEF Acceptable, On!Active, On!DeterministicCheck, On!UsesEvidence, On!Done

\* The library's operator is the same one in the instance.
LEMMA InstanceCardinality ==
    ASSUME NEW p, NEW S
    PROVE  On(p)!Cardinality(S) = Cardinality(S)
  BY Zenon DEF On!Cardinality, Cardinality, On!IsFiniteSet, IsFiniteSet

\* Nothing counted is left pending exactly when the journey is READY.
LEMMA NothingPendingIsReady ==
    ASSUME NEW p, OneMeasure(p), IsFiniteSet(p.fields), NEW s, Coherent(p, s)
    PROVE  On(p)!DiffProgress(s.status).pending = 0 <=> s.readiness = "READY"
  <1> DEFINE counted   == {f \in p.required : s.status[f] # "NOT_APPLICABLE"}
             completed == {f \in counted : s.status[f] = "SATISFIED"}
  <1>1. On(p)!DiffProgress(s.status).pending = Cardinality(counted) - Cardinality(completed)
    BY InstanceCardinality DEF On!DiffProgress, On!Progress, On!Counted
  <1>2. IsFiniteSet(counted) /\ completed \subseteq counted
    BY FS_Subset DEF OneMeasure
  <1>3. \A f \in p.fields : s.status[f] \in {"SATISFIED", "BLOCKED", "AMBIGUOUS", "NOT_APPLICABLE"}
    BY StatusesAre
  <1>4. completed = counted <=> s.readiness = "READY"
    <2>1. s.readiness = On(p)!ReadinessOf(s.value, s.status)
      BY DEF Coherent
    <2>2. ASSUME NEW f \in p.fields, s.status[f] = "AMBIGUOUS"
          PROVE  f \in p.required
      BY <2>2, StatusesAre DEF OneMeasure, Coherent
    <2>3. s.readiness = "READY"
             <=> \A f \in p.required : s.status[f] \in {"SATISFIED", "NOT_APPLICABLE"}
      BY <2>1, <2>2 DEF On!ReadinessOf, OneMeasure
    <2> QED  BY <1>3, <2>3 DEF OneMeasure
  <1> HIDE DEF counted, completed
  <1>5. /\ Cardinality(counted) \in Nat /\ Cardinality(completed) \in Nat
        /\ Cardinality(counted) = Cardinality(completed) <=> counted = completed
    BY <1>2, FS_Subset, FS_CardinalityType
  <1> QED  BY <1>1, <1>4, <1>5

\* get_diff, which derives both snapshots again, finds the same difference.
LEMMA StoredDiffAgrees ==
    ASSUME NEW p, Sound(p), NEW s, Coherent(p, s), s.pending = NoAmbiguity,
           NEW t, Coherent(p, t), t.pending = NoAmbiguity, NEW direct
    PROVE  On(p)!StoredDiff(s, t)
              = [On(p)!Diff(s, t, direct) EXCEPT
                    !.cascaded = On(p)!Diff(s, t, direct).changed \cap p.derived]
  <1>1. [s EXCEPT !.status = On(p)!Rederived(s, NoAmbiguity)] = s
    <2>1. On(p)!Rederived(s, NoAmbiguity) = s.status
      BY Rederive DEF On!Rederived
    <2> QED  BY <2>1 DEF Coherent
  <1>2. [t EXCEPT !.status = On(p)!Rederived(t, NoAmbiguity)] = t
    <2>1. On(p)!Rederived(t, NoAmbiguity) = t.status
      BY Rederive DEF On!Rederived
    <2> QED  BY <2>1 DEF Coherent
  <1>3. On(p)!StoredDiff(s, t)
           = [On(p)!Diff(s, t, {}) EXCEPT !.cascaded = On(p)!Diff(s, t, {}).cascaded \cap p.derived]
    BY <1>1, <1>2 DEF On!StoredDiff
  <1>4. On(p)!Diff(s, t, {}).cascaded = On(p)!Diff(s, t, direct).changed
    BY DEF On!Diff
  <1> DEFINE told == On(p)!Diff(s, t, direct).changed \cap p.derived
  <1>5. [On(p)!Diff(s, t, {}) EXCEPT !.cascaded = told]
           = [On(p)!Diff(s, t, direct) EXCEPT !.cascaded = told]
    <2> HIDE DEF told
    <2> QED  BY DEF On!Diff
  <1> QED  BY <1>3, <1>4, <1>5

\* The diff that apply_action answers names a cause for each cascaded field, calls unlocked
\* only what can be done, counts nothing pending exactly when the journey is READY, and
\* get_diff later tells the same of the two stored snapshots.
THEOREM DiffIsTrue ==
    ASSUME \A p \in Packs : OneMeasure(p)
    PROVE  Spec => DiffTellsTheTruth
  <1> DEFINE Told(a) ==
          LET diff == On(pack)!Diff(snapshot, snapshot', pack.satisfies[a])
          IN  /\ \A f \in diff.cascaded : \/ On(pack)!Prerequisites(f) \cap diff.changed # {}
                                          \/ snapshot.status[f] = "AMBIGUOUS"
              /\ \A b \in diff.unlocked :
                    snapshot'.pending = NoAmbiguity => Acceptable(pack, snapshot', b)
              /\ diff.progress[2].pending = 0 <=> snapshot'.readiness = "READY"
              /\ {snapshot.pending, snapshot'.pending} = {NoAmbiguity} =>
                    On(pack)!StoredDiff(snapshot, snapshot')
                        = [diff EXCEPT !.cascaded = diff.changed \cap pack.derived]
  <1>1. ASSUME AdviceInvariant, AdviceInvariant', NEW a \in DOMAIN pack.satisfies,
               NEW v \in {"given", "false"}, ApplyAction(a, v, snapshot'.pending)
        PROVE  Told(a)
    <2> DEFINE diff == On(pack)!Diff(snapshot, snapshot', pack.satisfies[a])
    <2>1. /\ Sound(pack) /\ OneMeasure(pack) /\ IsFiniteSet(pack.fields)
          /\ Coherent(pack, snapshot) /\ Coherent(pack, snapshot')
      BY <1>1, ValidatedIsSound, PacksAssumption
      DEF AdviceInvariant, Validated, ApplyAction, Write
    <2>2. \A f \in diff.cascaded : \/ On(pack)!Prerequisites(f) \cap diff.changed # {}
                                   \/ snapshot.status[f] = "AMBIGUOUS"
      <3>1. /\ snapshot' = After(pack, snapshot, pack.satisfies[a], v, snapshot'.pending)
            /\ snapshot'.pending \in DOMAIN pack.ambiguity \cup {NoAmbiguity}
            /\ snapshot'.pending # NoAmbiguity
                  => pack.ambiguity[snapshot'.pending] \in pack.satisfies[a]
            /\ pack.satisfies[a] \in SUBSET pack.fields
        BY <1>1, <2>1 DEF ApplyAction, Write, Coherent, Sound
      <3> HIDE DEF diff
      <3>2. CascadeExplained(pack, snapshot, snapshot', pack.satisfies[a])
        BY <2>1, <3>1, CascadesHaveCauses
      <3> QED  BY <3>2 DEF CascadeExplained, diff
    <2>3. \A b \in diff.unlocked :
              snapshot'.pending = NoAmbiguity => Acceptable(pack, snapshot', b)
      <3>1. diff.unlocked \subseteq On(pack)!Active(snapshot'.status)
        BY DEF On!Diff
      <3> HIDE DEF diff
      <3> QED  BY <2>1, <3>1, ActiveIsAcceptable
    <2>4. diff.progress[2].pending = 0 <=> snapshot'.readiness = "READY"
      <3>1. diff.progress[2] = On(pack)!DiffProgress(snapshot'.status)
        BY DEF On!Diff
      <3> HIDE DEF diff
      <3> QED  BY <2>1, <3>1, NothingPendingIsReady
    <2>5. {snapshot.pending, snapshot'.pending} = {NoAmbiguity} =>
              On(pack)!StoredDiff(snapshot, snapshot')
                  = [diff EXCEPT !.cascaded = diff.changed \cap pack.derived]
      BY <2>1, StoredDiffAgrees
    <2> QED  BY <2>2, <2>3, <2>4, <2>5
  <1>2. AdviceInvariant /\ AdviceInvariant' /\ [Next]_vars
           => [\A a \in DOMAIN pack.satisfies, v \in {"given", "false"} :
                  ApplyAction(a, v, snapshot'.pending) => Told(a)]_vars
    <2> HIDE DEF Told
    <2> QED  BY <1>1
  <1>3. Spec => [][\A a \in DOMAIN pack.satisfies, v \in {"given", "false"} :
                      ApplyAction(a, v, snapshot'.pending) => Told(a)]_vars
    <2> HIDE DEF Told
    <2> QED  BY <1>2, AdviceInvariantHolds, PTL DEF Spec
  <1> QED  BY <1>3 DEF DiffTellsTheTruth

-----------------------------------------------------------------------------
(* Numbers.                                                                *)

\* Natural numbers up to n with 0 and the next of each would be without end.
LEMMA NoLast ==
    ASSUME NEW n \in Nat, NEW D \in SUBSET (0..n), 0 \in D, \A x \in D : x + 1 \in D
    PROVE  FALSE
  <1> DEFINE f == [x \in D |-> x + 1]
  <1>1. IsFiniteSet(0..n)
    BY FS_Interval
  <1>2. IsFiniteSet(D)
    BY <1>1, FS_Subset
  <1>3. Cardinality(D \ {0}) = Cardinality(D) - 1 /\ IsFiniteSet(D \ {0})
    BY <1>2, FS_RemoveElement
  <1>4. Cardinality(D) \in Nat
    BY <1>2, FS_CardinalityType
  <1>5. Cardinality(D \ {0}) < Cardinality(D)
    BY <1>3, <1>4
  <1>6. f \in [D -> D \ {0}] /\ \A x, y \in D : f[x] = f[y] => x = y
    OBVIOUS
  <1> HIDE DEF f
  <1>7. \E x, y \in D : x # y /\ f[x] = f[y]
    BY <1>2, <1>3, <1>5, <1>6, FS_PigeonHole, ZenonT(60)
  <1> QED  BY <1>6, <1>7

\* Induction up to n, over a set of numbers.
LEMMA UpTo ==
    ASSUME NEW n \in Nat, NEW D \in SUBSET (0..n), 0 \in D, \A x \in D : x < n => x + 1 \in D
    PROVE  \A x \in 0..n : x \in D
  <1> SUFFICES ASSUME NEW m \in 0..n, m \notin D
               PROVE  FALSE
    OBVIOUS
  <1> DEFINE E == {x \in 0..n : x \in D /\ x < m}
  <1>1. 0 \in E /\ E \in SUBSET (0..n)
    OBVIOUS
  <1>2. ASSUME NEW x \in E
        PROVE  x + 1 \in E
    <2>1. x \in D /\ x < m /\ x \in Nat /\ x + 1 \in D
      OBVIOUS
    <2>2. x + 1 # m
      BY <2>1
    <2> QED  BY <2>1, <2>2
  <1> HIDE DEF E
  <1> QED  BY <1>1, <1>2, NoLast

\* A set of numbers has a least one.
LEMMA SomeLeast ==
    ASSUME NEW S \in SUBSET Nat, S # {}
    PROVE  \E m \in S : \A k \in S : m <= k
  <1>1. PICK n \in S : TRUE
    OBVIOUS
  <1> DEFINE D == {x \in 0..n : \A k \in S : x <= k}
  <1> SUFFICES ASSUME \A m \in S : \E k \in S : ~ m <= k
               PROVE  FALSE
    OBVIOUS
  <1>2. n \in Nat /\ 0 \in D /\ D \in SUBSET (0..n)
    BY <1>1
  <1>3. ASSUME NEW x \in D
        PROVE  x + 1 \in D
    <2>1. x \in Nat /\ \A k \in S : x <= k /\ k \in Nat
      OBVIOUS
    <2>2. x \notin S
      BY <2>1
    <2>3. \A k \in S : x + 1 <= k
      BY <2>1, <2>2
    <2> QED  BY <1>2, <2>1, <2>3
  <1> HIDE DEF D
  <1> QED  BY <1>2, <1>3, NoLast

\* A function that is defined for 0 and, from each number, for the next one exists.
Recurrence(k, base, step, h) ==
    /\ DOMAIN h = 0..k
    /\ h = [n \in 0..k |-> IF n = 0 THEN base ELSE step[<<n, h[n - 1]>>]]

\* A function that follows the recurrence exists.
HasRecurrence(k, base, step, X) == \E h \in [0..k -> X] : Recurrence(k, base, step, h)

\* A recursive definition over 0..k defines a function.
LEMMA RecurrenceExists ==
    ASSUME NEW k \in Nat, NEW X, NEW base \in X, NEW step \in [(1..k) \X X -> X]
    PROVE  HasRecurrence(k, base, step, X)
  <1> DEFINE D == {n \in 0..k : HasRecurrence(n, base, step, X)}
  <1>1. 0 \in D
    <2> DEFINE h == [n \in 0..0 |-> base]
    <2>1. h \in [0..0 -> X] /\ h = [n \in 0..0 |-> IF n = 0 THEN base ELSE step[<<n, h[n - 1]>>]]
      OBVIOUS
    <2> HIDE DEF h
    <2> QED  BY <2>1 DEF HasRecurrence, Recurrence
  <1>2. ASSUME NEW x \in D, x < k
        PROVE  x + 1 \in D
    <2>1. PICK h \in [0..x -> X] : Recurrence(x, base, step, h)
      BY DEF HasRecurrence
    <2> DEFINE g == [n \in 0..(x + 1) |-> IF n = x + 1 THEN step[<<x + 1, h[x]>>] ELSE h[n]]
    <2>2. x \in 0..x /\ <<x + 1, h[x]>> \in (1..k) \X X
      BY <1>2
    <2>3. g \in [0..(x + 1) -> X]
      BY <2>2
    <2>4. \A n \in 0..(x + 1) : g[n] = IF n = 0 THEN base ELSE step[<<n, g[n - 1]>>]
      <3> TAKE n \in 0..(x + 1)
      <3>1. CASE n = 0
        BY <2>1, <3>1 DEF Recurrence
      <3>2. CASE n = x + 1
        <4>1. x \in 0..(x + 1) /\ x # x + 1 /\ n - 1 = x /\ n # 0
          BY <3>2
        <4>2. g[n - 1] = h[x] /\ g[n] = step[<<x + 1, h[x]>>]
          BY <3>2, <4>1
        <4> QED  BY <3>2, <4>1, <4>2
      <3>3. CASE n # 0 /\ n # x + 1
        <4>1. n \in 0..x /\ n - 1 \in 0..x /\ n - 1 # x + 1
          BY <3>3
        <4>2. g[n] = h[n] /\ g[n - 1] = h[n - 1]
          BY <4>1, <3>3
        <4>3. h[n] = step[<<n, h[n - 1]>>]
          BY <2>1, <3>3, <4>1 DEF Recurrence
        <4> QED  BY <3>3, <4>2, <4>3
      <3> QED  BY <3>1, <3>2, <3>3
    <2> HIDE DEF g
    <2>5. Recurrence(x + 1, base, step, g)
      BY <2>3, <2>4 DEF Recurrence
    <2> QED  BY <1>2, <2>3, <2>5 DEF HasRecurrence
  <1>3. D \in SUBSET (0..k) /\ k \in 0..k
    OBVIOUS
  <1> HIDE DEF D
  <1>4. k \in D
    BY <1>1, <1>2, <1>3, UpTo
  <1> QED  BY <1>4 DEF D

\* Two elements are more than one.
LEMMA TwoAreMany ==
    ASSUME NEW S, NEW T \in SUBSET S, IsFiniteSet(S), NEW a \in T, NEW b \in T, a # b
    PROVE  Cardinality(T) > 1
  <1>1. IsFiniteSet(T) /\ Cardinality(T) \in Nat
    BY FS_Subset, FS_CardinalityType
  <1>2. Cardinality(T) # 0 /\ Cardinality(T) # 1
    BY <1>1, FS_EmptySet, FS_Singleton
  <1> QED  BY <1>1, <1>2

-----------------------------------------------------------------------------
(* Actions of a manifest.                                                  *)

\* What a validated, regular manifest is.
Plannable(p) == p \in Validated /\ Regular(p)

\* What the validator and the form of the shipped manifests give together.
LEMMA RegularFacts ==
    ASSUME NEW p, Plannable(p)
    PROVE  /\ Sound(p) /\ Regular(p) /\ p \in Packs
           /\ IsFiniteSet(p.fields) /\ IsFiniteSet(DOMAIN p.satisfies)
           /\ \A f \in p.fields : On(p)!Applicable(f)
           /\ \A f \in p.fields : f \notin p.defaults => On(p)!Actors(f) # {}
           /\ \A f \in p.fields : \A a, b \in On(p)!Actors(f) :
                 a # b => p.group[a] = p.group[b] /\ p.group[a] # NoGroup
           /\ \A g \in DOMAIN p.primary :
                 /\ p.members[g] \subseteq DOMAIN p.satisfies
                 /\ \A a, b \in p.members[g] : p.satisfies[a] = p.satisfies[b]
  <1>1. /\ p \in Packs /\ Regular(p) /\ Sound(p) /\ On(p)!Violations = {}
        /\ IsFiniteSet(p.fields) /\ IsFiniteSet(DOMAIN p.satisfies)
    BY ValidatedIsSound, PacksAssumption DEF Plannable, Validated
  <1>2. \A f \in p.fields : On(p)!Applicable(f)
    BY <1>1 DEF On!Applicable, Regular
  <1>3. /\ \A f \in p.fields : ~On(p)!UnreachableField(f)
        /\ \A g \in DOMAIN p.primary : ~On(p)!InconsistentGroup(g)
        /\ \A f \in UNION {p.satisfies[a] : a \in DOMAIN p.satisfies} :
              ~On(p)!DuplicateSatisfier(f)
    BY <1>1 DEF On!Violations
  <1>4. \A f \in p.fields : f \notin p.defaults => On(p)!Actors(f) # {}
    BY <1>1, <1>3 DEF On!UnreachableField, Regular
  <1>5. ASSUME NEW f \in p.fields, NEW a \in On(p)!Actors(f), NEW b \in On(p)!Actors(f), a # b
        PROVE  p.group[a] = p.group[b] /\ p.group[a] # NoGroup
    <2> DEFINE groups == {p.group[c] : c \in On(p)!Actors(f)}
    <2>1. On(p)!Actors(f) \subseteq DOMAIN p.satisfies
          /\ f \in UNION {p.satisfies[c] : c \in DOMAIN p.satisfies}
      BY <1>5 DEF On!Actors
    <2>2. ~ (/\ Cardinality(On(p)!Actors(f)) > 1
             /\ NoGroup \in groups \/ Cardinality(groups) > 1)
      BY <1>3, <2>1, InstanceCardinality DEF On!DuplicateSatisfier
    <2>3. Cardinality(On(p)!Actors(f)) > 1
      BY <1>1, <1>5, <2>1, TwoAreMany
    <2>4. IsFiniteSet(groups)
      <3>1. IsFiniteSet(On(p)!Actors(f))
        BY <1>1, <2>1, FS_Subset
      <3> DEFINE h == [c \in On(p)!Actors(f) |-> p.group[c]]
      <3>2. h \in Surjection(On(p)!Actors(f), groups)
        BY DEF Surjection
      <3> HIDE DEF h, groups
      <3> QED  BY <3>1, <3>2, FS_Surjection
    <2>5. p.group[a] \in groups /\ p.group[b] \in groups
      BY <1>5
    <2> HIDE DEF groups
    <2>6. ~ Cardinality(groups) > 1 /\ NoGroup \notin groups
      BY <2>2, <2>3
    <2> QED  BY <2>4, <2>5, <2>6, TwoAreMany
  <1>6. ASSUME NEW g \in DOMAIN p.primary
        PROVE  /\ p.members[g] \subseteq DOMAIN p.satisfies
               /\ \A a, b \in p.members[g] : p.satisfies[a] = p.satisfies[b]
    BY <1>3 DEF On!InconsistentGroup
  <1> QED  BY <1>1, <1>2, <1>4, <1>5, <1>6

\* The planner's search for the first action listed finds one.
LEMMA FirstListedIsOne ==
    ASSUME NEW p \in Packs, NEW S \in SUBSET DOMAIN p.satisfies, S # {}
    PROVE  On(p)!FirstListed(S) \in S
  <1> DEFINE found == {i \in DOMAIN p.actions : p.actions[i] \in S}
  <1>1. p.actions \in Seq(DOMAIN p.satisfies)
        /\ \A a \in DOMAIN p.satisfies : \E i \in DOMAIN p.actions : p.actions[i] = a
    BY PacksAssumption
  <1>2. DOMAIN p.actions = 1..Len(p.actions) /\ Len(p.actions) \in Nat
    BY <1>1
  <1>3. found \in SUBSET Nat /\ found # {}
    BY <1>1, <1>2
  <1> HIDE DEF found
  <1>4. PICK i \in found : \A k \in found : i <= k
    BY <1>3, SomeLeast
  <1>5. i \in DOMAIN p.actions /\ p.actions[i] \in S
    BY <1>4 DEF found
  <1>6. \A k \in 1..(i - 1) : p.actions[k] \notin S
    <2> SUFFICES ASSUME NEW k \in 1..(i - 1), p.actions[k] \in S
                 PROVE  FALSE
      OBVIOUS
    <2>1. k \in DOMAIN p.actions /\ ~ i <= k
      BY <1>2, <1>5
    <2>2. k \in found
      BY <2>1 DEF found
    <2> QED  BY <1>4, <2>1, <2>2
  <1> QED  BY <1>5, <1>6 DEF On!FirstListed

\* Whoever satisfies a field satisfies what its other actors do.
LEMMA ActorsAgree ==
    ASSUME NEW p, Plannable(p), NEW f \in p.fields, NEW a \in On(p)!Actors(f),
           NEW b \in On(p)!Actors(f)
    PROVE  p.satisfies[a] = p.satisfies[b]
  <1>1. CASE a = b
    BY <1>1
  <1>2. CASE a # b
    <2>1. p.group[a] = p.group[b] /\ p.group[a] # NoGroup
      BY <1>2, RegularFacts
    <2>2. a \in DOMAIN p.satisfies /\ b \in DOMAIN p.satisfies
      BY DEF On!Actors
    <2>3. p.group[a] \in DOMAIN p.primary /\ {a, b} \subseteq p.members[p.group[a]]
      BY <2>1, <2>2, RegularFacts DEF Regular
    <2> QED  BY <2>3, RegularFacts
  <1> QED  BY <1>1, <1>2

\* The action the planner picks for a field satisfies it.
LEMMA ActionForActs ==
    ASSUME NEW p, Plannable(p), NEW f \in p.fields, On(p)!Actors(f) # {}
    PROVE  On(p)!ActionFor(f) \in On(p)!Actors(f)
  <1> DEFINE first   == On(p)!FirstListed(On(p)!Actors(f))
             primary == p.primary[p.group[first]]
  <1>1. p \in Packs /\ On(p)!Actors(f) \subseteq DOMAIN p.satisfies
    BY RegularFacts DEF On!Actors
  <1>2. first \in On(p)!Actors(f)
    BY <1>1, FirstListedIsOne
  <1>3. On(p)!ActionFor(f)
           = IF p.group[first] \in DOMAIN p.primary /\ primary \in DOMAIN p.satisfies
             THEN primary ELSE first
    BY DEF On!ActionFor
  <1> HIDE DEF first
  <1>4. ASSUME p.group[first] \in DOMAIN p.primary, primary \in DOMAIN p.satisfies
        PROVE  primary \in On(p)!Actors(f)
    <2> p.group[first] # NoGroup
      BY <1>1, <1>4, PacksAssumption
    <2>1. {first, primary} \subseteq p.members[p.group[first]]
      BY <1>1, <1>2, <1>4, RegularFacts DEF Regular
    <2>2. p.satisfies[primary] = p.satisfies[first]
      BY <1>4, <2>1, RegularFacts
    <2> QED  BY <1>2, <1>4, <2>2 DEF On!Actors
  <1> QED  BY <1>2, <1>3, <1>4

-----------------------------------------------------------------------------
(* What nobody supplies was there from the start, and stays.               *)

\* A field that no action supplies has its value, and no question is about one.
Rooted(p, s) ==
    /\ \A f \in p.fields : On(p)!Actors(f) = {} => s.value[f] = "given"
    /\ s.pending # NoAmbiguity => On(p)!Actors(p.ambiguity[s.pending]) # {}

\* The inductive invariant behind the plan.
PlanInvariant == AdviceInvariant /\ (Regular(pack) => Rooted(pack, snapshot))

\* A write keeps what nobody supplies.
LEMMA RootedAfter ==
    ASSUME NEW p, Plannable(p), NEW s, Coherent(p, s), Rooted(p, s),
           NEW written, NEW v \in {"given", "false"},
           \A f \in written : On(p)!Actors(f) # {},
           NEW question \in DOMAIN p.ambiguity \cup {NoAmbiguity},
           question # NoAmbiguity => p.ambiguity[question] \in written
    PROVE  Rooted(p, After(p, s, written, v, question))
  <1> DEFINE t == After(p, s, written, v, question)
  <1>1. Sound(p) /\ \A f \in p.fields : On(p)!Applicable(f)
    BY RegularFacts
  <1>2. t.value = On(p)!DeriveValue(Written(p, s.value, written, v)) /\ t.pending = question
    BY <1>1, AfterCoheres
  <1> HIDE DEF t
  <1>3. \A f \in p.fields : f \notin written => t.value[f] = s.value[f]
    BY <1>1, <1>2 DEF On!DeriveValue, Written
  <1> QED  BY <1>2, <1>3 DEF Rooted, t

\* create_journey gives the default fields their values.
LEMMA PlanInit ==
    ASSUME Init
    PROVE  PlanInvariant
  <1>1. AdviceInvariant
    BY AdviceInit
  <1>2. ASSUME Regular(pack)
        PROVE  Rooted(pack, snapshot)
    <2>1. Plannable(pack)
      BY <1>2 DEF Init, Plannable
    <2>2. /\ Sound(pack)
          /\ \A f \in pack.fields : On(pack)!Applicable(f)
          /\ \A f \in pack.fields : f \notin pack.defaults => On(pack)!Actors(f) # {}
      BY <2>1, RegularFacts
    <2>3. On(pack)!InitialValue \in [pack.fields -> Value]
      BY DEF On!InitialValue, Value
    <2>4. snapshot = Snapshot(pack, On(pack)!InitialValue, On(pack)!InitialExplicit, NoAmbiguity)
      BY DEF Init, InitialSnapshot
    <2>5. /\ snapshot.value = On(pack)!DeriveValue(On(pack)!InitialValue)
          /\ snapshot.pending = NoAmbiguity
      BY <2>2, <2>3, <2>4, SnapshotCoheres
    <2>6. \A f \in pack.fields : snapshot.value[f] = On(pack)!InitialValue[f]
      BY <2>2, <2>5 DEF On!DeriveValue
    <2> QED  BY <2>2, <2>5, <2>6 DEF Rooted, On!InitialValue
  <1> QED  BY <1>1, <1>2 DEF PlanInvariant

\* No request writes to what no action supplies.
LEMMA PlanStep ==
    ASSUME PlanInvariant, [Next]_vars
    PROVE  PlanInvariant'
  <1>1. AdviceInvariant'
    BY AdviceStep DEF PlanInvariant
  <1>2. CASE UNCHANGED vars
    BY <1>1, <1>2 DEF vars, PlanInvariant
  <1>3. CASE Next
    <2>1. pack' = pack
      BY <1>3 DEF Next, Act, Answer, ApplyAction, SubmitClarification, Write
    <2>2. ASSUME Regular(pack)
          PROVE  Rooted(pack, snapshot')
      <3>1. /\ Plannable(pack) /\ Coherent(pack, snapshot) /\ Rooted(pack, snapshot)
            /\ Sound(pack)
        BY <2>2, ValidatedIsSound DEF PlanInvariant, AdviceInvariant, Plannable
      <3>2. ASSUME NEW a \in DOMAIN pack.satisfies, NEW v \in {"given", "false"},
                   NEW question \in DOMAIN pack.ambiguity \cup {NoAmbiguity},
                   ApplyAction(a, v, question)
            PROVE  Rooted(pack, snapshot')
        <4>1. snapshot' = After(pack, snapshot, pack.satisfies[a], v, question)
              /\ (question # NoAmbiguity => pack.ambiguity[question] \in pack.satisfies[a])
          BY <3>2 DEF ApplyAction, Write
        <4>2. \A f \in pack.satisfies[a] : On(pack)!Actors(f) # {}
          BY DEF On!Actors
        <4> QED  BY <3>1, <4>1, <4>2, RootedAfter
      <3>3. ASSUME NEW v \in {"given", "false"}, SubmitClarification(v)
            PROVE  Rooted(pack, snapshot')
        <4> DEFINE field == pack.ambiguity[snapshot.pending]
        <4>1. snapshot' = After(pack, snapshot, {field}, v, NoAmbiguity)
          BY <3>3 DEF SubmitClarification, Write
        <4>2. On(pack)!Actors(field) # {}
          BY <3>1, <3>3 DEF SubmitClarification, Rooted
        <4> HIDE DEF field
        <4> QED  BY <3>1, <4>1, <4>2, RootedAfter
      <3> QED  BY <1>3, <3>2, <3>3 DEF Next, Act, Answer
    <2> QED  BY <1>1, <2>1, <2>2 DEF PlanInvariant
  <1> QED  BY <1>2, <1>3

\* On a regular manifest, a field that no action supplies has its value from
\* create_journey on and keeps it, and no question is ever about one.
THEOREM PlanInvariantHolds == Spec => []PlanInvariant
  <1>1. Init => PlanInvariant
    BY PlanInit
  <1>2. PlanInvariant /\ [Next]_vars => PlanInvariant'
    BY PlanStep
  <1> QED  BY <1>1, <1>2, PTL DEF Spec

-----------------------------------------------------------------------------
(* The action offered beside a blocked field.                              *)

\* The action offered for a field with one unmet prerequisite is that prerequisite's, and
\* it waits for nothing else.
LEMMA OfferedIsAcceptable ==
    ASSUME NEW p, Plannable(p), NEW s, Coherent(p, s), Rooted(p, s), s.pending = NoAmbiguity,
           \A a \in DOMAIN p.satisfies : \A f \in p.satisfies[a] :
              p.preconditions[a] = On(p)!Prerequisites(f),
           NEW f \in p.fields,
           LET unmet(g) == {x \in On(p)!Prerequisites(g) : s.status[x] # "SATISFIED"}
           IN  Cardinality(unmet(f)) <= 1 /\ \A x \in unmet(f) : unmet(x) = {},
           NEW a \in On(p)!Offered(s, f)
    PROVE  Acceptable(p, s, a)
  <1> DEFINE unmet(g) == {x \in On(p)!Prerequisites(g) : s.status[x] # "SATISFIED"}
             status   == On(p)!Rederived(s, s.pending)
             waiting  == {e[1] : e \in {d \in p.dependencies : d[2] = f}}
                            \cap {g \in p.fields : status[g] # "SATISFIED"}
             before   == {g \in waiting : /\ waiting = {g}
                                          /\ On(p)!Actors(g) # {}
                                          /\ \/ p.preconditions[On(p)!ActionFor(f)] = {}
                                             \/ g \in p.preconditions[On(p)!ActionFor(f)]}
  <1>1. Sound(p) /\ Regular(p) /\ IsFiniteSet(p.fields) /\ \A g \in p.fields : On(p)!Applicable(g)
    BY RegularFacts
  <1>2. status = s.status /\ On(p)!DeriveStatus(s.value, s.status, NoAmbiguity) = s.status
    BY <1>1, Rederive DEF On!Rederived
  <1>3. On(p)!Offered(s, f) = IF s.status[f] = "SATISFIED" \/ On(p)!Actors(f) = {} THEN {}
                              ELSE IF before # {} THEN {On(p)!ActionFor(g) : g \in before}
                              ELSE {On(p)!ActionFor(f)}
    BY Zenon DEF On!Offered, On!ResolveAction
  <1>4. waiting = unmet(f)
    <2>1. On(p)!Prerequisites(f) = {e[1] : e \in {d \in p.dependencies : d[2] = f}}
      BY <1>1 DEF On!Prerequisites, Regular
    <2> QED  BY <1>1, <1>2, <2>1 DEF Sound
  <1> HIDE DEF status, waiting, before
  <1>5. ASSUME NEW g \in p.fields, On(p)!Actors(g) # {}, a = On(p)!ActionFor(g),
               \A x \in unmet(g) : s.status[x] = "NOT_APPLICABLE"
        PROVE  Acceptable(p, s, a)
    <2>1. a \in DOMAIN p.satisfies /\ g \in p.satisfies[a]
      BY <1>5, ActionForActs DEF On!Actors
    <2>2. p.preconditions[a] = On(p)!Prerequisites(g)
      BY <2>1
    <2>3. \A x \in p.preconditions[a] : s.status[x] \in {"SATISFIED", "NOT_APPLICABLE"}
      BY <1>5, <2>2
    <2> QED  BY <1>2, <2>1, <2>3 DEF Acceptable, On!DeterministicCheck, On!UsesEvidence
  <1>6. CASE before # {}
    <2>1. PICK g \in before : a = On(p)!ActionFor(g)
      BY <1>3, <1>6
    <2>2. g \in unmet(f) /\ On(p)!Actors(g) # {} /\ g \in p.fields
      BY <1>1, <1>4, <2>1 DEF before, Sound
    <2>3. unmet(g) = {}
      BY <2>2
    <2> QED  BY <1>5, <2>1, <2>2, <2>3
  <1>7. CASE before = {}
    <2>1. a = On(p)!ActionFor(f) /\ On(p)!Actors(f) # {}
      BY <1>3, <1>7
    <2>2. p.preconditions[a] = On(p)!Prerequisites(f)
      BY <2>1, ActionForActs DEF On!Actors
    <2>3. ASSUME NEW g \in unmet(f)
          PROVE  s.status[g] = "NOT_APPLICABLE"
      <3>1. IsFiniteSet(unmet(f)) /\ unmet(f) \in SUBSET p.fields
        BY <1>1, FS_Subset DEF Sound
      <3>2. unmet(f) = {g}
        <4> SUFFICES ASSUME NEW h \in unmet(f), h # g
                     PROVE  FALSE
          BY <2>3
        <4>1. Cardinality(unmet(f)) > 1 /\ Cardinality(unmet(f)) \in Nat
          <5> HIDE DEF unmet
          <5> QED  BY <1>1, <2>3, <3>1, TwoAreMany, FS_CardinalityType
        <4> QED  BY <4>1
      <3>3. On(p)!Actors(g) = {}
        BY <1>4, <1>7, <2>1, <2>2, <2>3, <3>2 DEF before
      <3>4. g \in p.fields /\ unmet(g) = {}
        BY <1>1, <2>3 DEF Sound
      <3>5. s.value[g] = "given"
        BY <3>3, <3>4 DEF Rooted
      <3>6. s.status[g] = Ruling(p, s.status, g, s.value, s.status, NoAmbiguity)
        BY <3>4 DEF Coherent, Fits
      <3>7. Open(p, s.status, g)
        BY <3>4 DEF Open, On!Done
      <3> QED  BY <2>3, <3>5, <3>6, <3>7 DEF Ruling, On!AskedAbout, On!Supplied
    <2> QED  BY <1>5, <2>1, <2>3
  <1> QED  BY <1>6, <1>7

\* The action that get_resolve_action_id shows beside a blocked field is accepted at once,
\* when that field waits for at most one field and that one for none.
THEOREM OffersHelp == Spec => [](Regular(pack) => OfferedActionHelps)
  <1>1. PlanInvariant => (Regular(pack) => OfferedActionHelps)
    <2> SUFFICES ASSUME PlanInvariant, Regular(pack), ExactlyGuarded,
                        snapshot.pending = NoAmbiguity,
                        NEW f \in On(pack)!Shown(snapshot),
                        LET unmet(g) == {x \in On(pack)!Prerequisites(g) :
                                            snapshot.status[x] # "SATISFIED"}
                        IN  Cardinality(unmet(f)) <= 1 /\ \A x \in unmet(f) : unmet(x) = {},
                        NEW a \in On(pack)!Offered(snapshot, f)
                 PROVE  Acceptable(pack, snapshot, a)
      BY DEF OfferedActionHelps
    <2>1. Plannable(pack) /\ Coherent(pack, snapshot) /\ Rooted(pack, snapshot)
      BY DEF PlanInvariant, AdviceInvariant, Plannable
    <2>2. f \in pack.fields
      BY DEF On!Shown
    <2>3. \A b \in DOMAIN pack.satisfies : \A g \in pack.satisfies[b] :
              pack.preconditions[b] = On(pack)!Prerequisites(g)
      BY DEF ExactlyGuarded, Guarded
    <2> QED  BY <2>1, <2>2, <2>3, OfferedIsAcceptable
  <1> QED  BY <1>1, PlanInvariantHolds, PTL

-----------------------------------------------------------------------------
(* What a plannable journey lacks while no question is open.               *)

\* No field is AMBIGUOUS.
Quiet(p, s) == Coherent(p, s) /\ s.readiness # "NEEDS_REVIEW"

\* Without a question a field is SATISFIED as soon as it has a value and what it waits for.
LEMMA QuietFacts ==
    ASSUME NEW p, Plannable(p), NEW s, Quiet(p, s)
    PROVE  /\ On(p)!Rederived(s, NoAmbiguity) = s.status
           /\ \A f \in p.fields : s.status[f] \in {"SATISFIED", "BLOCKED"}
           /\ \A f \in p.fields : On(p)!Prerequisites(f) \subseteq p.fields
           /\ \A f \in p.fields : s.status[f] = "SATISFIED" =>
                 \A x \in On(p)!Prerequisites(f) : s.status[x] = "SATISFIED"
           /\ \A f \in p.fields :
                 (s.value[f] = "given"
                    /\ \A x \in On(p)!Prerequisites(f) : s.status[x] = "SATISFIED")
                 => s.status[f] = "SATISFIED"
           /\ On(p)!Lacking(s) = {f \in p.fields : s.status[f] # "SATISFIED"}
           /\ s.readiness = IF On(p)!Lacking(s) = {} THEN "READY" ELSE "NOT_READY"
  <1>1. Sound(p) /\ Regular(p) /\ \A f \in p.fields : On(p)!Applicable(f)
    BY RegularFacts
  <1>2. /\ Fits(p, s.status, s.value, s.status, s.pending)
        /\ s.readiness = On(p)!ReadinessOf(s.value, s.status)
    BY DEF Quiet, Coherent
  <1>3. \A f \in p.fields : s.status[f] = Ruling(p, s.status, f, s.value, s.status, s.pending)
    BY <1>2 DEF Fits
  <1>4. \A f \in p.fields : s.status[f] # "AMBIGUOUS"
    BY <1>1, <1>2 DEF Quiet, On!ReadinessOf, Regular
  <1>5. \A f \in p.fields : Open(p, s.status, f) => ~On(p)!AskedAbout(f, s.pending)
    BY <1>1, <1>3, <1>4 DEF Ruling
  <1>6. On(p)!Rederived(s, NoAmbiguity) = s.status
    <2> DEFINE again == On(p)!DeriveStatus(s.value, s.status, NoAmbiguity)
    <2>1. Fits(p, again, s.value, s.status, NoAmbiguity)
      BY <1>1, DerivedFits
    <2>2. \A f \in p.fields : ~On(p)!AskedAbout(f, NoAmbiguity)
      BY DEF On!AskedAbout
    <2> HIDE DEF again
    <2>3. again = s.status
      BY <1>1, <1>2, <1>5, <2>1, <2>2, FitsAreUnique
    <2> QED  BY <2>3 DEF On!Rederived, again
  <1>7. \A f \in p.fields : s.status[f] \in {"SATISFIED", "BLOCKED"}
    BY <1>1, <1>3, <1>4 DEF Ruling
  <1>8. /\ \A f \in p.fields : On(p)!Prerequisites(f) \subseteq p.fields
        /\ \A f \in p.fields : Open(p, s.status, f)
              <=> \A x \in On(p)!Prerequisites(f) : s.status[x] = "SATISFIED"
    BY <1>1, <1>7 DEF Open, On!Done, Sound
  <1>9. \A f \in p.fields : s.status[f] = "SATISFIED" =>
           \A x \in On(p)!Prerequisites(f) : s.status[x] = "SATISFIED"
    BY <1>1, <1>3, <1>8 DEF Ruling
  <1>10. ASSUME NEW f \in p.fields, s.value[f] = "given",
                \A x \in On(p)!Prerequisites(f) : s.status[x] = "SATISFIED"
         PROVE  s.status[f] = "SATISFIED"
    <2>1. Open(p, s.status, f)
      BY <1>8, <1>10
    <2> QED  BY <1>1, <1>3, <1>5, <1>10, <2>1 DEF Ruling, On!Supplied
  <1>11. On(p)!Lacking(s) = {f \in p.fields : s.status[f] # "SATISFIED"}
    BY <1>1, <1>6, <1>7 DEF On!Lacking, On!Done, Regular
  <1>12. s.readiness = IF \A f \in p.fields : s.status[f] \in {"SATISFIED", "NOT_APPLICABLE"}
                       THEN "READY" ELSE "NOT_READY"
    BY <1>1, <1>2, <1>4 DEF On!ReadinessOf, Regular
  <1>13. s.readiness = IF On(p)!Lacking(s) = {} THEN "READY" ELSE "NOT_READY"
    BY <1>7, <1>11, <1>12
  <1> QED  BY <1>6, <1>7, <1>8, <1>9, <1>10, <1>11, <1>13

\* Every field that is lacking has an action.
LEMMA LackingHasActor ==
    ASSUME NEW p, Plannable(p), NEW s, Quiet(p, s), Rooted(p, s), NEW f \in On(p)!Lacking(s)
    PROVE  f \in p.fields /\ On(p)!Actors(f) # {} /\ On(p)!ActionFor(f) \in On(p)!Actors(f)
  <1>1. f \in p.fields /\ s.status[f] # "SATISFIED"
    BY QuietFacts
  <1>2. SUFFICES ASSUME On(p)!Actors(f) = {}
                 PROVE  FALSE
    BY <1>1, ActionForActs
  <1>3. f \in p.defaults /\ s.value[f] = "given"
    BY <1>1, <1>2, RegularFacts DEF Rooted
  <1>4. On(p)!Prerequisites(f) = {}
    BY <1>3, RegularFacts DEF Regular
  <1> QED  BY <1>1, <1>3, <1>4, QuietFacts

\* An action whose preconditions are settled is accepted, and what it writes is settled after.
LEMMA AcceptableWhenSettled ==
    ASSUME NEW p, Plannable(p), NEW s, Quiet(p, s), NEW a \in DOMAIN p.satisfies
    PROVE  Acceptable(p, s, a) <=> \A x \in p.preconditions[a] : s.status[x] = "SATISFIED"
  <1>1. p.preconditions[a] \subseteq p.fields
    BY RegularFacts DEF Sound
  <1>2. /\ On(p)!DeriveStatus(s.value, s.status, NoAmbiguity) = s.status
        /\ \A f \in p.fields : s.status[f] \in {"SATISFIED", "BLOCKED"}
    BY QuietFacts DEF On!Rederived
  <1> QED  BY <1>1, <1>2 DEF Acceptable, On!DeterministicCheck, On!UsesEvidence

\* What is done after some fields have been given: what was, and what then follows.
LEMMA GivenIsQuiet ==
    ASSUME NEW p, Plannable(p), NEW s, Quiet(p, s), Rooted(p, s), NEW written \in SUBSET p.fields
    PROVE  LET t == After(p, s, written, "given", NoAmbiguity)
           IN  /\ Quiet(p, t) /\ Rooted(p, t) /\ t.pending = NoAmbiguity
               /\ \A f \in p.fields : s.status[f] = "SATISFIED" => t.status[f] = "SATISFIED"
               /\ \A f \in p.fields : (f \in written \/ s.value[f] = "given") =>
                     t.value[f] = "given"
               /\ \A f \in p.fields : t.status[f] = "SATISFIED" =>
                     f \in written \/ s.value[f] = "given" \/ s.status[f] = "SATISFIED"
  <1> DEFINE t     == After(p, s, written, "given", NoAmbiguity)
             given == Explicit(p, s, written, NoAmbiguity)
  <1>1. Sound(p) /\ Regular(p) /\ Coherent(p, s) /\ \A f \in p.fields : On(p)!Applicable(f)
    BY RegularFacts DEF Quiet
  <1>2. /\ Coherent(p, t)
        /\ t.value = On(p)!DeriveValue(Written(p, s.value, written, "given"))
        /\ t.pending = NoAmbiguity
        /\ Fits(p, t.status, t.value, given, NoAmbiguity)
    <2> HIDE DEF t, given
    <2> QED  BY <1>1, AfterCoheres DEF t, given
  <1> HIDE DEF t
  <1>3. \A f \in p.fields : t.status[f] # "AMBIGUOUS"
    BY <1>2, StatusesAre
  <1>4. Quiet(p, t)
    <2>1. t.readiness = On(p)!ReadinessOf(t.value, t.status)
      BY <1>2 DEF Coherent
    <2> QED  BY <1>1, <1>2, <1>3, <2>1 DEF Quiet, On!ReadinessOf, Regular
  <1>5. \A f \in p.fields : t.value[f] = IF f \in written THEN "given" ELSE s.value[f]
    BY <1>1, <1>2 DEF On!DeriveValue, Written
  <1>6. Rooted(p, t)
    BY <1>2, <1>5 DEF Rooted
  <1>7. \A f \in p.fields : t.status[f] = Ruling(p, t.status, f, t.value, given, NoAmbiguity)
    BY <1>2 DEF Fits
  <1>8. \A f \in p.fields : given[f] = IF f \in written THEN "SATISFIED" ELSE s.status[f]
    BY DEF Explicit, On!AskedAbout
  <1> HIDE DEF given
  <1>9. \A f \in p.fields : s.status[f] = "SATISFIED" => t.status[f] = "SATISFIED"
    <2> DEFINE Lost == {f \in p.fields : s.status[f] = "SATISFIED" /\ t.status[f] # "SATISFIED"}
    <2> SUFFICES ASSUME Lost # {} PROVE FALSE
      OBVIOUS
    <2>1. PICK f \in Lost : On(p)!Prerequisites(f) \cap Lost = {}
      BY <1>1 DEF Sound
    <2>2. \A x \in On(p)!Prerequisites(f) : t.status[x] = "SATISFIED"
      BY <2>1, QuietFacts
    <2>3. Open(p, t.status, f)
      BY <2>2 DEF Open, On!Done
    <2> QED  BY <1>1, <1>7, <1>8, <2>1, <2>3 DEF Ruling, On!AskedAbout, On!Supplied
  <1>10. \A f \in p.fields : t.status[f] = "SATISFIED" =>
            f \in written \/ s.value[f] = "given" \/ s.status[f] = "SATISFIED"
    BY <1>1, <1>5, <1>7, <1>8 DEF Ruling, On!Supplied
  <1> QED  BY <1>2, <1>4, <1>5, <1>6, <1>9, <1>10 DEF t

\* An accepted action settles its fields.
LEMMA ExecutedSettles ==
    ASSUME NEW p, Plannable(p), NEW s, Quiet(p, s), Rooted(p, s),
           NEW a \in DOMAIN p.satisfies, Acceptable(p, s, a)
    PROVE  LET t == Executed(p, s, a)
           IN  /\ Quiet(p, t) /\ Rooted(p, t) /\ t.pending = NoAmbiguity
               /\ \A f \in p.fields :
                     s.status[f] = "SATISFIED" \/ f \in p.satisfies[a]
                         => t.status[f] = "SATISFIED"
  <1> DEFINE t == Executed(p, s, a)
  <1>1. p.satisfies[a] \in SUBSET p.fields /\ p.preconditions[a] \subseteq p.fields
    BY RegularFacts DEF Sound
  <1>2. /\ Quiet(p, t) /\ Rooted(p, t) /\ t.pending = NoAmbiguity
        /\ \A f \in p.fields : s.status[f] = "SATISFIED" => t.status[f] = "SATISFIED"
        /\ \A f \in p.satisfies[a] : t.value[f] = "given"
    BY <1>1, GivenIsQuiet DEF Executed
  <1> HIDE DEF t
  <1>3. \A x \in p.preconditions[a] : t.status[x] = "SATISFIED"
    BY <1>1, <1>2, AcceptableWhenSettled
  <1>4. \A f \in p.satisfies[a] : On(p)!Prerequisites(f) \subseteq p.preconditions[a]
    BY RegularFacts DEF Regular
  <1>5. \A f \in p.satisfies[a] : t.status[f] = "SATISFIED"
    BY <1>1, <1>2, <1>3, <1>4, QuietFacts
  <1> QED  BY <1>2, <1>5 DEF t

-----------------------------------------------------------------------------
(* Needed actions and what they wait for.                                  *)

\* The planner needs one action for each lacking field, and no others.
LEMMA NeededFacts ==
    ASSUME NEW p, Plannable(p), NEW s, Quiet(p, s), Rooted(p, s)
    PROVE  /\ On(p)!Needed(s) \subseteq DOMAIN p.satisfies /\ IsFiniteSet(On(p)!Needed(s))
           /\ \A a \in On(p)!Needed(s) : \E f \in On(p)!Lacking(s) :
                 f \in p.satisfies[a] /\ a = On(p)!ActionFor(f)
           /\ \A f \in On(p)!Lacking(s) : \E a \in On(p)!Needed(s) :
                 f \in p.satisfies[a] /\ a = On(p)!ActionFor(f)
  <1>1. On(p)!Needed(s) = {On(p)!ActionFor(f) : f \in On(p)!Lacking(s)}
    BY DEF On!Needed
  <1>2. \A f \in On(p)!Lacking(s) :
           On(p)!ActionFor(f) \in DOMAIN p.satisfies /\ f \in p.satisfies[On(p)!ActionFor(f)]
    BY LackingHasActor DEF On!Actors
  <1>3. On(p)!Needed(s) \subseteq DOMAIN p.satisfies
    BY <1>1, <1>2
  <1>4. IsFiniteSet(On(p)!Needed(s))
    BY <1>3, RegularFacts, FS_Subset
  <1> QED  BY <1>1, <1>2, <1>3, <1>4

\* The search downstream from a field stays in every set that contains the fields after it
\* and the fields after its own members.
LEMMA DownstreamStays ==
    ASSUME NEW p, IsFiniteSet(p.fields), NEW f, NEW X,
           \A g \in p.fields : f \in On(p)!Prerequisites(g) => g \in X,
           \A g \in p.fields : On(p)!Prerequisites(g) \cap X # {} => g \in X
    PROVE  On(p)!Downstream(f) \subseteq X
  <1> DEFINE k        == On(p)!Cardinality(p.fields)
             base     == {g \in p.fields : f \in On(p)!Prerequisites(g)}
             after(Y) == Y \cup {g \in p.fields : On(p)!Prerequisites(g) \cap Y # {}}
             step     == [e \in (1..k) \X SUBSET p.fields |-> after(e[2])]
             upTo     == CHOOSE u : u = [n \in 0..k |-> IF n = 0 THEN base ELSE after(u[n - 1])]
  <1>1. k \in Nat
    BY InstanceCardinality, FS_CardinalityType
  <1>2. base \in SUBSET p.fields /\ step \in [(1..k) \X SUBSET p.fields -> SUBSET p.fields]
    OBVIOUS
  <1>3. PICK h \in [0..k -> SUBSET p.fields] : Recurrence(k, base, step, h)
    <2> HIDE DEF k, base, step
    <2>1. HasRecurrence(k, base, step, SUBSET p.fields)
      BY <1>1, <1>2, RecurrenceExists
    <2> QED  BY <2>1 DEF HasRecurrence
  <1>4. h = [n \in 0..k |-> IF n = 0 THEN base ELSE after(h[n - 1])]
    <2>1. \A n \in 0..k : n # 0 => step[<<n, h[n - 1]>>] = after(h[n - 1])
      <3> TAKE n \in 0..k
      <3> HAVE n # 0
      <3>1. n \in 1..k /\ n - 1 \in 0..k
        BY <1>1
      <3>2. <<n, h[n - 1]>> \in (1..k) \X SUBSET p.fields
        BY <3>1, <1>3
      <3> HIDE DEF k, after
      <3> QED  BY <3>2
    <2> HIDE DEF k, base, step, after
    <2> QED  BY <1>3, <2>1 DEF Recurrence
  <1>5. upTo = [n \in 0..k |-> IF n = 0 THEN base ELSE after(upTo[n - 1])]
    <2> HIDE DEF k, base, after
    <2> QED  BY <1>4
  <1>6. On(p)!Downstream(f) = upTo[k]
    BY Zenon DEF On!Downstream
  <1> HIDE DEF upTo, k
  <1> DEFINE D == {n \in 0..k : upTo[n] \subseteq X}
  <1>7. 0 \in D
    BY <1>1, <1>5
  <1>8. ASSUME NEW n \in D, n < k
        PROVE  n + 1 \in D
    <2>1. n \in 0..k /\ n + 1 \in 0..k /\ n + 1 # 0 /\ (n + 1) - 1 = n
      BY <1>1, <1>8
    <2>2. upTo[n + 1] = after(upTo[n])
      <3> HIDE DEF base, after
      <3> QED  BY <1>5, <2>1
    <2>3. upTo[n] \subseteq X
      OBVIOUS
    <2>4. after(upTo[n]) \subseteq X
      BY <2>3
    <2> QED  BY <2>1, <2>2, <2>4
  <1>9. D \in SUBSET (0..k) /\ k \in 0..k
    BY <1>1
  <1> HIDE DEF D
  <1>10. k \in D
    BY <1>1, <1>7, <1>8, <1>9, UpTo
  <1> QED  BY <1>6, <1>10 DEF D

\* Among any actions, one waits for none of the others: a field of theirs with no awaited
\* field downstream of theirs.
LEMMA SomeActionIsFree ==
    ASSUME NEW p, Plannable(p), NEW needed \in SUBSET DOMAIN p.satisfies,
           NEW N \in SUBSET needed, N # {}, \A a \in N : p.satisfies[a] # {}
    PROVE  \E b \in N : On(p)!Feeders(b, needed) \cap N = {}
  <1> DEFINE S        == UNION {p.satisfies[a] : a \in N}
             closed(X) == \A g \in p.fields : Awaited(p, g) \cap (S \cup X) # {} => g \in X
             Beyond   == {f \in p.fields : \A X \in SUBSET p.fields : closed(X) => f \in X}
  <1>1. /\ Sound(p) /\ Regular(p) /\ IsFiniteSet(p.fields)
        /\ S \in SUBSET p.fields /\ S # {}
        /\ \A f \in p.fields : On(p)!Prerequisites(f) \subseteq Awaited(p, f)
    BY RegularFacts DEF Sound, Awaited
  <1> SUFFICES ASSUME \A b \in N : On(p)!Feeders(b, needed) \cap N # {}
               PROVE  FALSE
    OBVIOUS
  <1>2. Beyond \in SUBSET p.fields /\ \A X \in SUBSET p.fields : closed(X) => Beyond \subseteq X
    OBVIOUS
  <1>3. closed(Beyond)
    <2> SUFFICES ASSUME NEW g \in p.fields, Awaited(p, g) \cap (S \cup Beyond) # {},
                        NEW X \in SUBSET p.fields, closed(X)
                 PROVE  g \in X
      OBVIOUS
    <2>1. Beyond \subseteq X
      BY <1>2
    <2> HIDE DEF Beyond, S
    <2>2. Awaited(p, g) \cap (S \cup X) # {}
      BY <2>1
    <2> QED  BY <2>2
  <1>4. ASSUME NEW f \in Beyond
        PROVE  Awaited(p, f) \cap (S \cup Beyond) # {}
    <2> SUFFICES ASSUME Awaited(p, f) \cap (S \cup Beyond) = {}
                 PROVE  FALSE
      OBVIOUS
    <2> DEFINE X == Beyond \ {f}
    <2>1. X \in SUBSET p.fields
      OBVIOUS
    <2>2. closed(X)
      <3> SUFFICES ASSUME NEW g \in p.fields, Awaited(p, g) \cap (S \cup X) # {}
                   PROVE  g \in X
        OBVIOUS
      <3> HIDE DEF Beyond, S
      <3>1. Awaited(p, g) \cap (S \cup Beyond) # {}
        OBVIOUS
      <3>2. g \in Beyond
        BY <1>3, <3>1
      <3>3. g # f
        BY <3>1
      <3> QED  BY <3>2, <3>3
    <2> HIDE DEF X, closed, Beyond
    <2>3. Beyond \subseteq X
      BY <1>2, <2>1, <2>2
    <2> QED  BY <2>3, <1>4 DEF X
  <1>5. ASSUME NEW x \in S
        PROVE  Awaited(p, x) \cap (S \cup Beyond) # {}
    <2>1. PICK b \in N : x \in p.satisfies[b]
      OBVIOUS
    <2>2. PICK a \in N : a \in On(p)!Feeders(b, needed)
      OBVIOUS
    <2>3. PICK y \in p.satisfies[a], q \in p.preconditions[b] :
             y = q \/ (y \in p.fields /\ q \in On(p)!Downstream(y))
      BY <2>2 DEF On!Feeders, On!Upstream
    <2>4. x \in p.fields /\ y \in S /\ q \in Awaited(p, x)
      <3>1. b \in On(p)!Actors(x)
        BY <2>1 DEF On!Actors
      <3> QED  BY <1>1, <2>1, <2>3, <3>1 DEF Awaited
    <2>5. CASE y = q
      BY <2>4, <2>5
    <2>6. CASE q \in On(p)!Downstream(y)
      <3>1. \A g \in p.fields : y \in On(p)!Prerequisites(g) => g \in Beyond
        <4> HIDE DEF S, Beyond
        <4> QED  BY <1>1, <1>3, <2>4
      <3>2. \A g \in p.fields : On(p)!Prerequisites(g) \cap Beyond # {} => g \in Beyond
        <4> HIDE DEF S, Beyond
        <4> QED  BY <1>1, <1>3
      <3> HIDE DEF S, Beyond
      <3>3. On(p)!Downstream(y) \subseteq Beyond
        BY <1>1, <3>1, <3>2, DownstreamStays
      <3> QED  BY <2>4, <2>6, <3>3
    <2> QED  BY <2>3, <2>5, <2>6
  <1> DEFINE C == S \cup Beyond
  <1>6. C \in (SUBSET p.fields) \ {{}}
    BY <1>1, <1>2
  <1>7. \A f \in C : Awaited(p, f) \cap C # {}
    BY <1>4, <1>5
  <1> HIDE DEF C
  <1> QED  BY <1>1, <1>6, <1>7 DEF Regular

-----------------------------------------------------------------------------
(* Kahn's order.                                                           *)

\* Of any actions, one comes before all others in the planner's order of preference.
LEMMA SomeActionIsBest ==
    ASSUME NEW p \in Packs, NEW needed \in SUBSET DOMAIN p.satisfies,
           NEW R \in SUBSET needed, R # {}
    PROVE  \E a \in R : \A b \in R \ {a} : On(p)!Sooner(a, b, needed)
  <1> DEFINE count(a) == On(p)!UnblockCount(a, needed)
             most     == Cardinality(needed)
             S        == {most - count(a) : a \in R}
  <1>1. most \in Nat /\ \A a \in R : count(a) \in Nat /\ count(a) <= most
    <2>1. IsFiniteSet(needed) /\ most \in Nat
      BY PacksAssumption, FS_Subset, FS_CardinalityType
    <2>2. ASSUME NEW a \in R
          PROVE  count(a) \in Nat /\ count(a) <= most
      <3> DEFINE freed == UNION {On(p)!Downstream(f) : f \in p.satisfies[a]}
                 T     == {b \in needed \ {a} : p.preconditions[b] \cap freed # {}}
      <3>1. count(a) = Cardinality(T)
        BY InstanceCardinality DEF On!UnblockCount
      <3>2. T \in SUBSET needed
        OBVIOUS
      <3> HIDE DEF T
      <3>3. IsFiniteSet(T) /\ Cardinality(T) <= Cardinality(needed) /\ Cardinality(T) \in Nat
        BY <2>1, <3>2, FS_Subset, FS_CardinalityType
      <3> QED  BY <3>1, <3>3
    <2> QED  BY <2>1, <2>2
  <1> HIDE DEF count, most
  <1>2. S \in SUBSET Nat /\ S # {}
    BY <1>1
  <1>3. PICK m \in S : \A k \in S : m <= k
    <2> HIDE DEF S
    <2> QED  BY <1>2, SomeLeast
  <1>4. PICK c \in R : m = most - count(c)
    BY <1>3
  <1>5. \A a \in R : count(a) <= count(c)
    <2> TAKE a \in R
    <2>1. m <= most - count(a)
      BY <1>3
    <2> QED  BY <1>1, <1>4, <2>1
  <1> DEFINE top == {a \in R : count(a) = count(c)}
             P   == {On(p)!Place(a) : a \in top}
  <1>6. \A a \in R : On(p)!Place(a) \in Nat /\ p.alphabet[On(p)!Place(a)] = a
    <2>1. /\ p.alphabet \in Seq(DOMAIN p.satisfies)
          /\ \A a \in DOMAIN p.satisfies : \E i \in DOMAIN p.alphabet : p.alphabet[i] = a
      BY PacksAssumption
    <2>2. \A a \in R : /\ On(p)!Place(a) \in DOMAIN p.alphabet
                       /\ p.alphabet[On(p)!Place(a)] = a
      BY <2>1 DEF On!Place
    <2>3. DOMAIN p.alphabet \subseteq Nat
      BY <2>1
    <2> QED  BY <2>2, <2>3
  <1>7. P \in SUBSET Nat /\ P # {}
    BY <1>4, <1>6
  <1>8. PICK l \in P : \A k \in P : l <= k
    <2> HIDE DEF P
    <2> QED  BY <1>7, SomeLeast
  <1>9. PICK a \in top : l = On(p)!Place(a)
    BY <1>8
  <1>10. ASSUME NEW b \in R \ {a}
         PROVE  On(p)!Sooner(a, b, needed)
    <2>1. a \in R /\ count(a) = count(c) /\ count(b) <= count(a)
      BY <1>5, <1>9
    <2>2. CASE count(b) = count(a)
      <3>1. b \in top
        BY <2>1, <2>2
      <3>2. On(p)!Place(a) <= On(p)!Place(b)
        BY <1>8, <1>9, <3>1
      <3>3. On(p)!Place(a) # On(p)!Place(b)
        BY <1>6, <2>1
      <3>4. On(p)!Place(a) < On(p)!Place(b)
        BY <1>6, <2>1, <3>2, <3>3
      <3> QED  BY <2>2, <3>4 DEF On!Sooner, count
    <2>3. CASE count(b) # count(a)
      <3>1. count(a) > count(b)
        BY <1>1, <2>1, <2>3
      <3> QED  BY <3>1 DEF On!Sooner, count
    <2> QED  BY <2>2, <2>3
  <1> QED  BY <1>9, <1>10

\* The actions in an order in which each comes after what it waits for.
InOrder(p, needed, seq) ==
    /\ seq \in Seq(needed)
    /\ \A i, j \in DOMAIN seq : seq[i] = seq[j] => i = j
    /\ \A i \in DOMAIN seq : \A a \in On(p)!Feeders(seq[i], needed) :
          \E j \in DOMAIN seq : j < i /\ seq[j] = a

\* The actions a sequence has placed.
Placed(seq) == {seq[i] : i \in DOMAIN seq}

\* The needed actions that wait for none of the needed ones not yet placed.
ReadyAfter(p, needed, seq) ==
    {b \in needed \ Placed(seq) : On(p)!Feeders(b, needed) \subseteq Placed(seq)}

\* Of those the one the heap yields.
BestAfter(p, needed, seq) ==
    CHOOSE a \in ReadyAfter(p, needed, seq) :
        \A b \in ReadyAfter(p, needed, seq) \ {a} : On(p)!Sooner(a, b, needed)

\* The sequence with that one appended, if there is one.
Continued(p, needed, seq) ==
    IF ReadyAfter(p, needed, seq) = {} THEN seq ELSE Append(seq, BestAfter(p, needed, seq))

\* One turn of the queue places one more action while one is left.
LEMMA QueueTurns ==
    ASSUME NEW p, Plannable(p), NEW needed \in SUBSET DOMAIN p.satisfies,
           \A a \in needed : p.satisfies[a] # {},
           NEW seq, InOrder(p, needed, seq), Len(seq) < Cardinality(needed)
    PROVE  /\ InOrder(p, needed, Continued(p, needed, seq))
           /\ Len(Continued(p, needed, seq)) = Len(seq) + 1
  <1> DEFINE left == needed \ Placed(seq)
             n    == Len(seq)
  <1>1. /\ n \in Nat /\ DOMAIN seq = 1..n /\ IsFiniteSet(needed) /\ p \in Packs
        /\ Cardinality(needed) \in Nat /\ seq \in Seq(needed)
    BY RegularFacts, FS_Subset, FS_CardinalityType DEF InOrder
  <1>2. left # {}
    <2> SUFFICES ASSUME needed \subseteq Placed(seq)
                 PROVE  FALSE
      OBVIOUS
    <2>1. seq \in Surjection(1..n, needed)
      BY <1>1 DEF Surjection, Placed
    <2>2. IsFiniteSet(1..n) /\ Cardinality(1..n) = n
      <3> HIDE DEF n
      <3>1. 1 \in Int /\ n \in Int /\ n \in Nat
        BY <1>1
      <3>2. IsFiniteSet(1..n) /\ Cardinality(1..n) = IF 1 > n THEN 0 ELSE n - 1 + 1
        BY <3>1, FS_Interval
      <3> QED  BY <3>1, <3>2
    <2>3. Cardinality(needed) <= n
      BY <2>1, <2>2, FS_Surjection
    <2> QED  BY <1>1, <2>3
  <1>3. PICK b \in left : On(p)!Feeders(b, needed) \cap left = {}
    <2>1. left \in SUBSET needed
      OBVIOUS
    <2> HIDE DEF left
    <2> QED  BY <1>2, <2>1, SomeActionIsFree
  <1>4. ReadyAfter(p, needed, seq) # {} /\ ReadyAfter(p, needed, seq) \in SUBSET needed
    BY <1>3 DEF ReadyAfter, On!Feeders
  <1> DEFINE a == BestAfter(p, needed, seq)
  <1>5. a \in ReadyAfter(p, needed, seq)
    BY <1>1, <1>4, SomeActionIsBest DEF BestAfter
  <1>6. Continued(p, needed, seq) = Append(seq, a)
    BY <1>4 DEF Continued
  <1> HIDE DEF a
  <1>7. a \in needed /\ a \notin Placed(seq) /\ On(p)!Feeders(a, needed) \subseteq Placed(seq)
    BY <1>5 DEF ReadyAfter
  <1> DEFINE next == Append(seq, a)
  <1>8. /\ next \in Seq(needed) /\ Len(next) = n + 1 /\ DOMAIN next = 1..(n + 1)
        /\ next[n + 1] = a /\ \A i \in 1..n : next[i] = seq[i]
    BY <1>1, <1>7
  <1> HIDE DEF next
  <1>9. ASSUME NEW i \in DOMAIN next, NEW j \in DOMAIN next, next[i] = next[j]
        PROVE  i = j
    <2>1. \A k \in 1..n : seq[k] # a
      BY <1>1, <1>7 DEF Placed
    <2> QED  BY <1>1, <1>8, <1>9, <2>1 DEF InOrder
  <1>10. ASSUME NEW i \in DOMAIN next, NEW c \in On(p)!Feeders(next[i], needed)
         PROVE  \E j \in DOMAIN next : j < i /\ next[j] = c
    <2>1. CASE i = n + 1
      <3>1. PICK j \in 1..n : seq[j] = c
        BY <1>1, <1>7, <1>8, <1>10, <2>1 DEF Placed
      <3> QED  BY <1>1, <1>8, <2>1, <3>1
    <2>2. CASE i \in 1..n
      <3>1. PICK j \in DOMAIN seq : j < i /\ seq[j] = c
        BY <1>1, <1>8, <1>10, <2>2 DEF InOrder
      <3> QED  BY <1>1, <1>8, <3>1
    <2> QED  BY <1>1, <1>8, <2>1, <2>2
  <1>11. InOrder(p, needed, next)
    BY <1>8, <1>9, <1>10 DEF InOrder
  <1> QED  BY <1>6, <1>8, <1>11 DEF next

\* Kahn's order is complete: the queue does not run dry before every action is placed.
LEMMA OrderIsComplete ==
    ASSUME NEW p, Plannable(p), NEW needed \in SUBSET DOMAIN p.satisfies,
           \A a \in needed : p.satisfies[a] # {}
    PROVE  LET order == On(p)!Ordered(needed)
           IN  /\ InOrder(p, needed, order)
               /\ Len(order) = Cardinality(needed)
               /\ Placed(order) = needed
  <1> DEFINE k    == On(p)!Cardinality(needed)
             step == [e \in (1..k) \X Seq(needed) |-> Continued(p, needed, e[2])]
             upTo == CHOOSE u :
                        u = [n \in 0..k |-> IF n = 0 THEN <<>> ELSE Continued(p, needed, u[n - 1])]
  <1>1. k = Cardinality(needed) /\ k \in Nat /\ IsFiniteSet(needed) /\ p \in Packs
    BY InstanceCardinality, RegularFacts, FS_Subset, FS_CardinalityType
  <1>2. \A seq \in Seq(needed) : Continued(p, needed, seq) \in Seq(needed)
    <2> TAKE seq \in Seq(needed)
    <2>1. CASE ReadyAfter(p, needed, seq) = {}
      BY <2>1 DEF Continued
    <2>2. CASE ReadyAfter(p, needed, seq) # {}
      <3>1. ReadyAfter(p, needed, seq) \in SUBSET needed
        BY DEF ReadyAfter
      <3>2. BestAfter(p, needed, seq) \in needed
        BY <1>1, <2>2, <3>1, SomeActionIsBest DEF BestAfter
      <3> QED  BY <2>2, <3>2 DEF Continued
    <2> QED  BY <2>1, <2>2
  <1>3. <<>> \in Seq(needed) /\ step \in [(1..k) \X Seq(needed) -> Seq(needed)]
    BY <1>2
  <1>4. PICK h \in [0..k -> Seq(needed)] : Recurrence(k, <<>>, step, h)
    <2> HIDE DEF k, step
    <2>1. HasRecurrence(k, <<>>, step, Seq(needed))
      BY <1>1, <1>3, RecurrenceExists
    <2> QED  BY <2>1 DEF HasRecurrence
  <1>5. h = [n \in 0..k |-> IF n = 0 THEN <<>> ELSE Continued(p, needed, h[n - 1])]
    <2>1. \A n \in 0..k : n # 0 => step[<<n, h[n - 1]>>] = Continued(p, needed, h[n - 1])
      <3> TAKE n \in 0..k
      <3> HAVE n # 0
      <3>1. n \in 1..k /\ n - 1 \in 0..k
        BY <1>1
      <3>2. <<n, h[n - 1]>> \in (1..k) \X Seq(needed)
        BY <3>1, <1>4
      <3> HIDE DEF k
      <3> QED  BY <3>2
    <2> HIDE DEF k, step
    <2> QED  BY <1>4, <2>1 DEF Recurrence
  <1>6. upTo = [n \in 0..k |-> IF n = 0 THEN <<>> ELSE Continued(p, needed, upTo[n - 1])]
    <2> HIDE DEF k
    <2> QED  BY <1>5
  <1>7. On(p)!Ordered(needed) = upTo[k]
    BY Zenon DEF On!Ordered, Continued, BestAfter, ReadyAfter, Placed
  <1> HIDE DEF upTo, k
  <1> DEFINE D == {n \in 0..k : InOrder(p, needed, upTo[n]) /\ Len(upTo[n]) = n}
  <1>8. 0 \in D
    <2>1. 0 \in 0..k /\ upTo[0] = <<>>
      BY <1>1, <1>6
    <2>2. InOrder(p, needed, <<>>) /\ Len(<<>>) = 0
      BY DEF InOrder
    <2> HIDE DEF InOrder
    <2> QED  BY <2>1, <2>2
  <1>9. ASSUME NEW n \in D, n < k
        PROVE  n + 1 \in D
    <2>1. n \in 0..k /\ n + 1 \in 0..k /\ n + 1 # 0 /\ (n + 1) - 1 = n
      BY <1>1, <1>9
    <2>2. upTo[n + 1] = Continued(p, needed, upTo[n])
      BY <1>6, <2>1
    <2>3. InOrder(p, needed, upTo[n]) /\ Len(upTo[n]) = n
      OBVIOUS
    <2>4. Len(upTo[n]) < Cardinality(needed)
      BY <1>1, <1>9, <2>3
    <2>5. /\ InOrder(p, needed, upTo[n + 1])
          /\ Len(upTo[n + 1]) = n + 1
      <3> HIDE DEF D
      <3>1. /\ InOrder(p, needed, Continued(p, needed, upTo[n]))
            /\ Len(Continued(p, needed, upTo[n])) = Len(upTo[n]) + 1
        BY <2>3, <2>4, QueueTurns
      <3> QED  BY <2>2, <2>3, <3>1
    <2> QED  BY <2>1, <2>5
  <1>10. D \in SUBSET (0..k) /\ k \in 0..k
    BY <1>1
  <1> DEFINE order == upTo[k]
  <1>11. InOrder(p, needed, order) /\ Len(order) = k
    <2> HIDE DEF D
    <2>1. k \in D
      BY <1>1, <1>8, <1>9, <1>10, UpTo
    <2> QED  BY <2>1 DEF D
  <1>12. Placed(order) = needed
    <2> HIDE DEF order
    <2>1. DOMAIN order = 1..k /\ order \in [1..k -> needed]
      BY <1>11 DEF InOrder
    <2>2. order \in Injection(1..k, needed)
      BY <1>11, <2>1 DEF InOrder, Injection, IsInjective
    <2>3. IsFiniteSet(1..k) /\ Cardinality(1..k) = k
      <3>1. 1 \in Int /\ k \in Int
        BY <1>1
      <3>2. IsFiniteSet(1..k) /\ Cardinality(1..k) = IF 1 > k THEN 0 ELSE k - 1 + 1
        BY <3>1, FS_Interval
      <3> QED  BY <1>1, <3>2
    <2>4. order \in Surjection(1..k, needed)
      BY <1>1, <2>2, <2>3, FS_Injection
    <2> QED  BY <2>1, <2>4 DEF Surjection, Placed
  <1> QED  BY <1>1, <1>7, <1>11, <1>12

\* The plan of a journey that is not ready: all needed actions, each after what it waits for.
LEMMA PlanIsFound ==
    ASSUME NEW p, Plannable(p), NEW s, Quiet(p, s), Rooted(p, s), s.readiness = "NOT_READY"
    PROVE  /\ On(p)!Plan(s).found
           /\ On(p)!Plan(s).actions # <<>>
           /\ Len(On(p)!Plan(s).actions) = Cardinality(On(p)!Needed(s))
           /\ On(p)!PathLength(s) = Cardinality(On(p)!Needed(s))
           /\ InOrder(p, On(p)!Needed(s), On(p)!Plan(s).actions)
           /\ Placed(On(p)!Plan(s).actions) = On(p)!Needed(s)
  <1> DEFINE needed == On(p)!Needed(s)
             order  == On(p)!Ordered(needed)
  <1>1. /\ needed \in SUBSET DOMAIN p.satisfies /\ IsFiniteSet(needed)
        /\ \A a \in needed : p.satisfies[a] # {}
        /\ needed # {}
    <2>1. On(p)!Lacking(s) # {}
      BY QuietFacts
    <2> QED  BY <2>1, NeededFacts
  <1>2. /\ InOrder(p, needed, order)
        /\ Len(order) = Cardinality(needed)
        /\ Placed(order) = needed
    <2> HIDE DEF needed
    <2> QED  BY <1>1, OrderIsComplete
  <1>3. Cardinality(needed) \in Nat /\ Cardinality(needed) # 0
    <2> HIDE DEF needed
    <2> QED  BY <1>1, FS_CardinalityType, FS_EmptySet
  <1>4. On(p)!Plan(s) = [found |-> TRUE, actions |-> order]
    <2>1. \A f \in On(p)!Lacking(s) : On(p)!Actors(f) # {}
      BY LackingHasActor
    <2>2. ~ Len(order) < On(p)!Cardinality(needed)
      BY <1>2, <1>3, InstanceCardinality
    <2> QED  BY <2>1, <2>2 DEF On!Plan
  <1>5. On(p)!PathLength(s) = Len(order)
    <2> HIDE DEF order
    <2>1. On(p)!Plan(s).actions = order /\ order # <<>>
      BY <1>2, <1>3, <1>4 DEF InOrder
    <2> QED  BY <2>1 DEF On!PathLength
  <1> HIDE DEF order
  <1>6. order # <<>>
    BY <1>2, <1>3
  <1> QED  BY <1>2, <1>4, <1>5, <1>6

-----------------------------------------------------------------------------
(* The recommendation.                                                     *)

\* A needed action is accepted once the fields of the actions it waits for are settled.
LEMMA PlannedInTime ==
    ASSUME NEW p, Plannable(p), NEW s, Quiet(p, s), Rooted(p, s), NEW t, Quiet(p, t),
           \A f \in p.fields : s.status[f] = "SATISFIED" => t.status[f] = "SATISFIED",
           NEW a \in On(p)!Needed(s),
           \A b \in On(p)!Feeders(a, On(p)!Needed(s)) : \A f \in p.satisfies[b] :
              t.status[f] = "SATISFIED"
    PROVE  Acceptable(p, t, a)
  <1>1. a \in DOMAIN p.satisfies /\ p.preconditions[a] \subseteq p.fields
    BY NeededFacts, RegularFacts DEF Sound
  <1>2. ASSUME NEW x \in p.preconditions[a], s.status[x] # "SATISFIED"
        PROVE  t.status[x] = "SATISFIED"
    <2>1. x \in On(p)!Lacking(s)
      BY <1>1, <1>2, QuietFacts
    <2>2. PICK b \in On(p)!Needed(s) : x \in p.satisfies[b]
      BY <2>1, NeededFacts
    <2>3. b # a
      <3> SUFFICES ASSUME x \in p.satisfies[a]
                   PROVE  FALSE
        BY <2>2
      <3>1. x \in p.fields /\ x \in Awaited(p, x)
        BY <1>1, <1>2 DEF Awaited, On!Actors
      <3>2. {x} \in (SUBSET p.fields) \ {{}} /\ \A f \in {x} : Awaited(p, f) \cap {x} # {}
        BY <3>1
      <3> QED  BY <3>2, RegularFacts DEF Regular
    <2>4. b \in On(p)!Feeders(a, On(p)!Needed(s))
      BY <1>2, <2>2, <2>3 DEF On!Feeders
    <2> QED  BY <2>2, <2>4
  <1>3. \A x \in p.preconditions[a] : t.status[x] = "SATISFIED"
    BY <1>1, <1>2
  <1> QED  BY <1>1, <1>3, AcceptableWhenSettled

\* Every candidate is accepted, and there is one.
LEMMA CandidatesAreAcceptable ==
    ASSUME NEW p, Plannable(p), NEW s, Quiet(p, s), Rooted(p, s), s.readiness = "NOT_READY"
    PROVE  /\ On(p)!Recommendable(s) # {}
           /\ \A a \in On(p)!Recommendable(s) :
                 /\ a \in DOMAIN p.satisfies /\ Acceptable(p, s, a)
                 /\ \E f \in On(p)!Lacking(s) : f \in p.satisfies[a]
  <1>1. On(p)!Recommendable(s) = On(p)!Executable(s) \cup {On(p)!Plan(s).actions[1]}
    BY PlanIsFound DEF On!Recommendable, On!Candidates
  <1>2. \A a : a \in On(p)!Executable(s) <=>
                  /\ a \in DOMAIN p.satisfies
                  /\ \A x \in p.preconditions[a] : s.status[x] = "SATISFIED"
                  /\ \E f \in p.satisfies[a] : s.status[f] # "SATISFIED"
    BY QuietFacts DEF On!Executable
  <1>3. ASSUME NEW a \in On(p)!Executable(s)
        PROVE  /\ a \in DOMAIN p.satisfies /\ Acceptable(p, s, a)
               /\ \E f \in On(p)!Lacking(s) : f \in p.satisfies[a]
    <2>1. p.satisfies[a] \subseteq p.fields
      BY <1>2, RegularFacts DEF Sound
    <2> QED  BY <1>2, <2>1, AcceptableWhenSettled, QuietFacts
  <1>4. LET a == On(p)!Plan(s).actions[1]
        IN  /\ a \in DOMAIN p.satisfies /\ Acceptable(p, s, a)
            /\ \E f \in On(p)!Lacking(s) : f \in p.satisfies[a]
    <2> DEFINE plan == On(p)!Plan(s).actions
               a    == plan[1]
    <2>1. InOrder(p, On(p)!Needed(s), plan) /\ plan # <<>>
      BY PlanIsFound
    <2> HIDE DEF plan
    <2>2. 1 \in DOMAIN plan /\ DOMAIN plan \subseteq Nat \ {0} /\ a \in On(p)!Needed(s)
      BY <2>1 DEF InOrder
    <2>3. On(p)!Feeders(a, On(p)!Needed(s)) = {}
      BY <2>1, <2>2 DEF InOrder
    <2> HIDE DEF a
    <2>4. Acceptable(p, s, a)
      BY <2>2, <2>3, PlannedInTime
    <2>5. a \in DOMAIN p.satisfies /\ \E f \in On(p)!Lacking(s) : f \in p.satisfies[a]
      BY <2>2, NeededFacts
    <2> QED  BY <2>4, <2>5 DEF a, plan
  <1> QED  BY <1>1, <1>3, <1>4

\* get_recommendation always has a candidate on the screen a customer resumes at, and the
\* deterministic check accepts every candidate, whichever the AI picks.
THEOREM AdviceCanBeFollowed == Spec => [](Regular(pack) => AdviceIsExecutable)
  <1>1. PlanInvariant => (Regular(pack) => AdviceIsExecutable)
    <2> SUFFICES ASSUME PlanInvariant, Regular(pack)
                 PROVE  AdviceIsExecutable
      OBVIOUS
    <2>1. Plannable(pack) /\ Coherent(pack, snapshot) /\ Rooted(pack, snapshot)
      BY DEF PlanInvariant, AdviceInvariant, Plannable
    <2>2. snapshot.readiness \in {"READY", "NOT_READY", "NEEDS_REVIEW"}
      BY <2>1, RegularFacts DEF Coherent, On!ReadinessOf, Regular
    <2>3. CASE snapshot.readiness = "NOT_READY"
      <3>1. Quiet(pack, snapshot)
        BY <2>1, <2>3 DEF Quiet
      <3>2. /\ On(pack)!Recommendable(snapshot) # {}
            /\ \A a \in On(pack)!Recommendable(snapshot) : Acceptable(pack, snapshot, a)
        BY <2>1, <2>3, <3>1, CandidatesAreAcceptable
      <3> QED  BY <2>3, <3>2 DEF AdviceIsExecutable, On!ResumeScreen
    <2>4. CASE snapshot.readiness = "NEEDS_REVIEW"
      <3>1. On(pack)!Recommendable(snapshot) = {}
        BY <2>4 DEF On!Recommendable
      <3>2. snapshot.pending # NoAmbiguity
        <4>1. \E f \in pack.fields : snapshot.status[f] = "AMBIGUOUS"
          BY <2>1, <2>4, RegularFacts DEF Coherent, On!ReadinessOf
        <4> QED  BY <2>1, <4>1, StatusesAre
      <3> QED  BY <2>4, <3>1, <3>2 DEF AdviceIsExecutable, On!ResumeScreen
    <2>5. CASE snapshot.readiness = "READY"
      <3>1. On(pack)!Recommendable(snapshot) = {} /\ On(pack)!PathLength(snapshot) = 0
        BY <2>5 DEF On!Recommendable, On!PathLength
      <3> QED  BY <2>5, <3>1 DEF AdviceIsExecutable, On!ResumeScreen
    <2> QED  BY <2>2, <2>3, <2>4, <2>5
  <1> QED  BY <1>1, PlanInvariantHolds, PTL

\* Executing an action for a lacking field leaves strictly fewer actions needed.
LEMMA FewerAreNeeded ==
    ASSUME NEW p, Plannable(p), NEW s, Quiet(p, s), Rooted(p, s),
           NEW a \in DOMAIN p.satisfies, Acceptable(p, s, a),
           \E f \in On(p)!Lacking(s) : f \in p.satisfies[a]
    PROVE  LET t == Executed(p, s, a)
           IN  Cardinality(On(p)!Needed(t)) < Cardinality(On(p)!Needed(s))
  <1> DEFINE t == Executed(p, s, a)
  <1>1. /\ Quiet(p, t) /\ Rooted(p, t)
        /\ \A f \in p.fields :
              (s.status[f] = "SATISFIED" \/ f \in p.satisfies[a]) => t.status[f] = "SATISFIED"
    BY ExecutedSettles
  <1> HIDE DEF t
  <1>2. \A f \in On(p)!Lacking(t) : f \in On(p)!Lacking(s) /\ f \notin p.satisfies[a]
    BY <1>1, QuietFacts
  <1>3. On(p)!Needed(t) \subseteq On(p)!Needed(s)
    BY <1>2 DEF On!Needed
  <1>4. PICK f \in On(p)!Lacking(s) : f \in p.satisfies[a]
    OBVIOUS
  <1>5. PICK c \in On(p)!Needed(s) : f \in p.satisfies[c] /\ c = On(p)!ActionFor(f)
    BY NeededFacts
  <1>6. p.satisfies[c] = p.satisfies[a]
    <2>1. f \in p.fields /\ a \in On(p)!Actors(f) /\ c \in On(p)!Actors(f)
      BY <1>4, <1>5, LackingHasActor, NeededFacts DEF On!Actors
    <2> QED  BY <2>1, ActorsAgree
  <1>7. c \notin On(p)!Needed(t)
    <2> SUFFICES ASSUME c \in On(p)!Needed(t)
                 PROVE  FALSE
      OBVIOUS
    <2>1. PICK g \in On(p)!Lacking(t) : g \in p.satisfies[c]
      BY <1>1, NeededFacts
    <2> QED  BY <1>2, <1>6, <2>1
  <1>8. IsFiniteSet(On(p)!Needed(s))
    BY NeededFacts
  <1> DEFINE before == On(p)!Needed(s)
             after  == On(p)!Needed(t)
  <1>9. after \subseteq before /\ c \in before /\ c \notin after /\ IsFiniteSet(before)
    BY <1>3, <1>5, <1>7, <1>8
  <1> HIDE DEF before, after
  <1>10. /\ Cardinality(after) <= Cardinality(before)
         /\ Cardinality(after) # Cardinality(before)
         /\ Cardinality(after) \in Nat /\ Cardinality(before) \in Nat
    BY <1>9, FS_Subset, FS_CardinalityType
  <1>11. Cardinality(after) < Cardinality(before)
    BY <1>10
  <1> QED  BY <1>11 DEF before, after, t

\* Each recommended action, whichever the AI picks, makes minimum_path_length smaller. With
\* AdviceCanBeFollowed (while a journey is not READY there is one, and it is accepted), a
\* customer who follows the advice reaches READY in at most that many actions.
THEOREM FollowedAdviceProgresses == Spec => [](Regular(pack) => AdviceMakesProgress)
  <1>1. PlanInvariant => (Regular(pack) => AdviceMakesProgress)
    <2> SUFFICES ASSUME PlanInvariant, Regular(pack),
                        NEW a \in On(pack)!Recommendable(snapshot)
                 PROVE  On(pack)!PathLength(Executed(pack, snapshot, a))
                            < On(pack)!PathLength(snapshot)
      BY DEF AdviceMakesProgress
    <2> DEFINE t == Executed(pack, snapshot, a)
    <2>1. Plannable(pack) /\ Coherent(pack, snapshot) /\ Rooted(pack, snapshot)
      BY DEF PlanInvariant, AdviceInvariant, Plannable
    <2>2. snapshot.readiness = "NOT_READY" /\ Quiet(pack, snapshot)
      <3>1. snapshot.readiness \in {"READY", "NOT_READY", "NEEDS_REVIEW"}
        BY <2>1, RegularFacts DEF Coherent, On!ReadinessOf, Regular
      <3> QED  BY <2>1, <3>1 DEF On!Recommendable, Quiet
    <2>3. /\ a \in DOMAIN pack.satisfies /\ Acceptable(pack, snapshot, a)
          /\ \E f \in On(pack)!Lacking(snapshot) : f \in pack.satisfies[a]
      BY <2>1, <2>2, CandidatesAreAcceptable
    <2>4. Quiet(pack, t) /\ Rooted(pack, t)
      BY <2>1, <2>2, <2>3, ExecutedSettles
    <2>5. Cardinality(On(pack)!Needed(t)) < Cardinality(On(pack)!Needed(snapshot))
      BY <2>1, <2>2, <2>3, FewerAreNeeded
    <2>6. On(pack)!PathLength(snapshot) = Cardinality(On(pack)!Needed(snapshot))
      BY <2>1, <2>2, PlanIsFound
    <2>7. On(pack)!PathLength(t) <= Cardinality(On(pack)!Needed(t))
          /\ On(pack)!PathLength(t) \in Nat /\ Cardinality(On(pack)!Needed(t)) \in Nat
          /\ Cardinality(On(pack)!Needed(snapshot)) \in Nat
      <3> HIDE DEF t
      <3>1. /\ Cardinality(On(pack)!Needed(t)) \in Nat
            /\ Cardinality(On(pack)!Needed(snapshot)) \in Nat
        BY <2>1, <2>2, <2>4, NeededFacts, FS_CardinalityType
      <3>2. CASE t.readiness = "READY"
        BY <3>1, <3>2 DEF On!PathLength
      <3>3. CASE t.readiness = "NOT_READY"
        <4>1. On(pack)!PathLength(t) = Cardinality(On(pack)!Needed(t))
          BY <2>1, <2>4, <3>3, PlanIsFound
        <4> QED  BY <3>1, <4>1
      <3> QED  BY <2>1, <2>4, <3>2, <3>3, QuietFacts
    <2> HIDE DEF t
    <2>8. On(pack)!PathLength(t) < On(pack)!PathLength(snapshot)
      BY <2>5, <2>6, <2>7
    <2> QED  BY <2>8 DEF t
  <1> QED  BY <1>1, PlanInvariantHolds, PTL

-----------------------------------------------------------------------------
(* The plan, followed to its end.                                          *)

\* The snapshots a plan can lead through.
Snapshots(p) ==
    {s \in [value : [p.fields -> Value],
            status : [p.fields -> {"SATISFIED", "BLOCKED", "AMBIGUOUS", "NOT_APPLICABLE"}],
            pending : DOMAIN p.ambiguity \cup {NoAmbiguity},
            readiness : {"READY", "NOT_READY", "NEEDS_REVIEW", "DEAD_END"}] :
        Quiet(p, s) /\ Rooted(p, s)}

\* The walk of a plan stays among these.
LEMMA SnapshotsAre ==
    ASSUME NEW p, NEW s, Quiet(p, s), Rooted(p, s)
    PROVE  s \in Snapshots(p)
  <1>1. Coherent(p, s)
    BY DEF Quiet
  <1>2. s.readiness \in {"READY", "NOT_READY", "NEEDS_REVIEW", "DEAD_END"}
    BY <1>1 DEF Coherent, On!ReadinessOf
  <1>3. s.status \in [p.fields -> {"SATISFIED", "BLOCKED", "AMBIGUOUS", "NOT_APPLICABLE"}]
    <2>1. s.status = [f \in p.fields |-> s.status[f]]
      BY <1>1 DEF Coherent, Fits
    <2> QED  BY <1>1, <2>1, StatusesAre
  <1>4. /\ s = [value |-> s.value, status |-> s.status, pending |-> s.pending,
                readiness |-> s.readiness]
        /\ s.value \in [p.fields -> Value]
        /\ s.pending \in DOMAIN p.ambiguity \cup {NoAmbiguity}
    BY <1>1 DEF Coherent
  <1> QED  BY <1>2, <1>3, <1>4 DEF Snapshots

\* One iteration of the walk.
Extended(p, plan, n, sofar) ==
    IF Len(sofar) = n /\ Acceptable(p, sofar[n], plan[n])
    THEN Append(sofar, Executed(p, sofar[n], plan[n])) ELSE sofar

\* The snapshots after 0 to n actions of a plan, the last one with their fields settled.
Walked(p, s, plan, n, sofar) ==
    /\ sofar \in Seq(Snapshots(p)) /\ Len(sofar) = n + 1
    /\ \A f \in p.fields : s.status[f] = "SATISFIED" => sofar[n + 1].status[f] = "SATISFIED"
    /\ \A i \in 1..n : \A f \in p.satisfies[plan[i]] : sofar[n + 1].status[f] = "SATISFIED"

\* The next action of a plan is accepted, because what it waits for came before it.
LEMMA WalkGoesOn ==
    ASSUME NEW p, Plannable(p), NEW s, Quiet(p, s), Rooted(p, s),
           NEW plan, InOrder(p, On(p)!Needed(s), plan),
           NEW n \in Nat, n < Len(plan), NEW sofar, Walked(p, s, plan, n, sofar)
    PROVE  Walked(p, s, plan, n + 1, Extended(p, plan, n + 1, sofar))
  <1> DEFINE last == sofar[n + 1]
             a    == plan[n + 1]
             next == Append(sofar, Executed(p, last, a))
  <1>1. /\ Len(plan) \in Nat /\ DOMAIN plan = 1..Len(plan) /\ n + 1 \in DOMAIN plan
        /\ a \in On(p)!Needed(s)
    BY DEF InOrder
  <1>2. /\ sofar \in Seq(Snapshots(p)) /\ Len(sofar) = n + 1 /\ n + 1 \in DOMAIN sofar
        /\ last \in Snapshots(p)
        /\ \A f \in p.fields : s.status[f] = "SATISFIED" => last.status[f] = "SATISFIED"
        /\ \A i \in 1..n : \A f \in p.satisfies[plan[i]] : last.status[f] = "SATISFIED"
    BY DEF Walked
  <1> HIDE DEF last, a
  <1>3. Quiet(p, last) /\ Rooted(p, last)
    BY <1>2 DEF Snapshots
  <1>4. \A b \in On(p)!Feeders(a, On(p)!Needed(s)) : \A f \in p.satisfies[b] :
           last.status[f] = "SATISFIED"
    <2> TAKE b \in On(p)!Feeders(a, On(p)!Needed(s))
    <2>1. PICK j \in DOMAIN plan : j < n + 1 /\ plan[j] = b
      BY <1>1 DEF InOrder, a
    <2>2. j \in 1..n
      BY <1>1, <2>1
    <2> QED  BY <1>2, <2>1, <2>2
  <1>5. Acceptable(p, last, a)
    BY <1>1, <1>2, <1>3, <1>4, PlannedInTime
  <1>6. a \in DOMAIN p.satisfies /\ p.satisfies[a] \subseteq p.fields
        /\ \A b \in On(p)!Needed(s) : p.satisfies[b] \subseteq p.fields
    BY <1>1, NeededFacts, RegularFacts DEF Sound
  <1> DEFINE t == Executed(p, last, a)
  <1>7. /\ Quiet(p, t) /\ Rooted(p, t)
        /\ \A f \in p.fields :
              (last.status[f] = "SATISFIED" \/ f \in p.satisfies[a]) => t.status[f] = "SATISFIED"
    BY <1>3, <1>5, <1>6, ExecutedSettles
  <1>8. t \in Snapshots(p)
    <2> HIDE DEF t
    <2> QED  BY <1>7, SnapshotsAre
  <1> HIDE DEF t
  <1>9. /\ next \in Seq(Snapshots(p)) /\ Len(next) = (n + 1) + 1 /\ next[(n + 1) + 1] = t
    BY <1>2, <1>8 DEF t
  <1>10. Extended(p, plan, n + 1, sofar) = next
    BY <1>2, <1>5 DEF Extended, last, a
  <1>11. ASSUME NEW i \in 1..(n + 1), NEW f \in p.satisfies[plan[i]]
         PROVE  t.status[f] = "SATISFIED"
    <2>1. CASE i = n + 1
      BY <1>6, <1>7, <1>11, <2>1 DEF a
    <2>2. CASE i \in 1..n
      <3>1. i \in DOMAIN plan /\ plan[i] \in On(p)!Needed(s)
        BY <1>1, <2>2 DEF InOrder
      <3> QED  BY <1>2, <1>6, <1>7, <1>11, <2>2, <3>1
    <2> QED  BY <2>1, <2>2
  <1> HIDE DEF next
  <1> QED  BY <1>2, <1>7, <1>9, <1>10, <1>11 DEF Walked

\* Following a plan is defined, and reaches its end with every needed field settled.
LEMMA PlanCanBeFollowed ==
    ASSUME Plannable(pack), NEW s, Quiet(pack, s), Rooted(pack, s),
           NEW plan, InOrder(pack, On(pack)!Needed(s), plan)
    PROVE  Walked(pack, s, plan, Len(plan), Following(s, plan))
  <1> DEFINE k    == Len(plan)
             X    == Seq(Snapshots(pack))
             step == [e \in (1..k) \X X |-> Extended(pack, plan, e[1], e[2])]
             at   == CHOOSE u : u = [n \in 0..k |-> IF n = 0 THEN <<s>>
                                                    ELSE Extended(pack, plan, n, u[n - 1])]
  <1>1. k \in Nat /\ \A n \in 1..k : plan[n] \in DOMAIN pack.satisfies
    BY NeededFacts DEF InOrder
  <1>2. \A n \in 1..k, sofar \in X : Extended(pack, plan, n, sofar) \in X
    <2> TAKE n \in 1..k, sofar \in X
    <2>1. CASE Len(sofar) = n /\ Acceptable(pack, sofar[n], plan[n])
      <3>1. sofar[n] \in Snapshots(pack)
        BY <2>1
      <3>2. Quiet(pack, sofar[n]) /\ Rooted(pack, sofar[n]) /\ plan[n] \in DOMAIN pack.satisfies
        BY <1>1, <3>1 DEF Snapshots
      <3> DEFINE t == Executed(pack, sofar[n], plan[n])
      <3>3. Quiet(pack, t) /\ Rooted(pack, t)
        BY <2>1, <3>2, ExecutedSettles
      <3> HIDE DEF t
      <3>4. t \in Snapshots(pack)
        BY <3>3, SnapshotsAre
      <3> QED  BY <2>1, <3>4 DEF Extended, t
    <2>2. CASE ~ (Len(sofar) = n /\ Acceptable(pack, sofar[n], plan[n]))
      BY <2>2 DEF Extended
    <2> QED  BY <2>1, <2>2
  <1>3. <<s>> \in X /\ step \in [(1..k) \X X -> X]
    <2>1. s \in Snapshots(pack)
      BY SnapshotsAre
    <2> QED  BY <1>2, <2>1
  <1>4. PICK h \in [0..k -> X] : Recurrence(k, <<s>>, step, h)
    <2> HIDE DEF k, step, X
    <2>1. HasRecurrence(k, <<s>>, step, X)
      BY <1>1, <1>3, RecurrenceExists
    <2> QED  BY <2>1 DEF HasRecurrence
  <1>5. h = [n \in 0..k |-> IF n = 0 THEN <<s>> ELSE Extended(pack, plan, n, h[n - 1])]
    <2>1. \A n \in 0..k : n # 0 => step[<<n, h[n - 1]>>] = Extended(pack, plan, n, h[n - 1])
      <3> TAKE n \in 0..k
      <3> HAVE n # 0
      <3>1. n \in 1..k /\ n - 1 \in 0..k
        BY <1>1
      <3>2. <<n, h[n - 1]>> \in (1..k) \X X
        BY <3>1, <1>4
      <3> HIDE DEF k, X
      <3> QED  BY <3>2
    <2> HIDE DEF k, step, X
    <2> QED  BY <1>4, <2>1 DEF Recurrence
  <1>6. at = [n \in 0..k |-> IF n = 0 THEN <<s>> ELSE Extended(pack, plan, n, at[n - 1])]
    <2> HIDE DEF k
    <2> QED  BY <1>5
  <1>7. Following(s, plan) = at[k]
    BY Zenon DEF Following, Extended
  <1> HIDE DEF at, k
  <1> DEFINE D == {n \in 0..k : Walked(pack, s, plan, n, at[n])}
  <1>8. 0 \in D
    <2>1. 0 \in 0..k /\ at[0] = <<s>>
      BY <1>1, <1>6
    <2>2. <<s>> \in Seq(Snapshots(pack)) /\ Len(<<s>>) = 0 + 1 /\ <<s>>[0 + 1] = s /\ 1..0 = {}
      BY <1>3
    <2>3. Walked(pack, s, plan, 0, <<s>>)
      BY <2>2 DEF Walked
    <2> QED  BY <2>1, <2>3
  <1>9. ASSUME NEW n \in D, n < k
        PROVE  n + 1 \in D
    <2>1. n \in 0..k /\ n + 1 \in 0..k /\ n + 1 # 0 /\ (n + 1) - 1 = n /\ n \in Nat
      BY <1>1, <1>9
    <2>2. at[n + 1] = Extended(pack, plan, n + 1, at[n])
      BY <1>6, <2>1
    <2>3. Walked(pack, s, plan, n, at[n])
      OBVIOUS
    <2>4. Walked(pack, s, plan, n + 1, at[n + 1])
      BY <1>9, <2>1, <2>2, <2>3, WalkGoesOn DEF k
    <2> QED  BY <2>1, <2>4
  <1>10. D \in SUBSET (0..k) /\ k \in 0..k
    BY <1>1
  <1> HIDE DEF D
  <1>11. k \in D
    BY <1>1, <1>8, <1>9, <1>10, UpTo
  <1> QED  BY <1>7, <1>11 DEF D, k

\* The pigeonhole principle, for functions that are not given as a formula.
LEMMA TwoShare ==
    ASSUME NEW S, IsFiniteSet(S), NEW T, IsFiniteSet(T), Cardinality(T) < Cardinality(S),
           NEW f \in [S -> T]
    PROVE  \E x, y \in S : x # y /\ f[x] = f[y]
  BY FS_PigeonHole, Zenon

\* No smaller set of actions settles what is lacking: each lacking field needs one of its
\* own actors, and needed actions have no actor's field in common.
LEMMA FewerDoNotDo ==
    ASSUME NEW p, Plannable(p), NEW s, Quiet(p, s), Rooted(p, s),
           \A f \in p.fields : s.value[f] = "given" => s.status[f] = "SATISFIED",
           NEW T \in SUBSET DOMAIN p.satisfies,
           Cardinality(T) < Cardinality(On(p)!Needed(s))
    PROVE  After(p, s, UNION {p.satisfies[a] : a \in T}, "given", NoAmbiguity).readiness # "READY"
  <1> DEFINE written == UNION {p.satisfies[a] : a \in T}
             t       == After(p, s, written, "given", NoAmbiguity)
             needed  == On(p)!Needed(s)
             Does(c, a) == \E f \in On(p)!Lacking(s) :
                               /\ f \in p.satisfies[c] /\ c = On(p)!ActionFor(f)
                               /\ f \in p.satisfies[a]
             doer    == [c \in needed |-> CHOOSE a \in T : Does(c, a)]
  <1> SUFFICES ASSUME t.readiness = "READY"
               PROVE  FALSE
    OBVIOUS
  <1>1. written \in SUBSET p.fields
    BY RegularFacts DEF Sound
  <1>2. /\ Quiet(p, t)
        /\ \A f \in p.fields : t.status[f] = "SATISFIED" =>
              f \in written \/ s.value[f] = "given" \/ s.status[f] = "SATISFIED"
    <2> HIDE DEF written, t
    <2> QED  BY <1>1, GivenIsQuiet DEF t
  <1>3. \A f \in p.fields : t.status[f] = "SATISFIED"
    <2> HIDE DEF t
    <2> QED  BY <1>2, QuietFacts
  <1>4. \A f \in On(p)!Lacking(s) : \E a \in T : f \in p.satisfies[a]
    <2> TAKE f \in On(p)!Lacking(s)
    <2>1. f \in p.fields /\ s.status[f] # "SATISFIED"
      BY QuietFacts
    <2>2. f \in written
      <3> HIDE DEF written, t
      <3> QED  BY <1>2, <1>3, <2>1
    <2> QED  BY <2>2
  <1>5. \A c \in needed : \E a \in T : Does(c, a)
    BY <1>4, NeededFacts
  <1>6. doer \in [needed -> T] /\ \A c \in needed : Does(c, doer[c])
    <2> HIDE DEF Does, needed
    <2> QED  BY <1>5
  <1>7. IsFiniteSet(needed) /\ IsFiniteSet(T)
    BY NeededFacts, RegularFacts, FS_Subset
  <1> HIDE DEF doer
  <1>8. PICK c \in needed, d \in needed : c # d /\ doer[c] = doer[d]
    <2>1. Cardinality(T) < Cardinality(needed)
      OBVIOUS
    <2> HIDE DEF needed, Does
    <2>2. doer \in [needed -> T]
      BY <1>6
    <2>3. \E x, y \in needed : x # y /\ doer[x] = doer[y]
      BY <1>7, <2>1, <2>2, TwoShare
    <2> QED  BY <2>3
  <1> DEFINE a == doer[c]
  <1>9. PICK f \in On(p)!Lacking(s) : c = On(p)!ActionFor(f) /\ f \in p.satisfies[a]
    BY <1>6
  <1>10. PICK g \in On(p)!Lacking(s) : d = On(p)!ActionFor(g) /\ g \in p.satisfies[a]
    BY <1>6, <1>8
  <1>11. a \in DOMAIN p.satisfies /\ f \in p.fields /\ g \in p.fields
    BY <1>6, LackingHasActor
  <1> HIDE DEF a
  <1>12. ASSUME NEW x \in p.fields, NEW y \in p.fields, x \in p.satisfies[a], y \in p.satisfies[a]
         PROVE  On(p)!Actors(x) \subseteq On(p)!Actors(y)
    <2> SUFFICES ASSUME NEW b \in On(p)!Actors(x)
                 PROVE  b \in On(p)!Actors(y)
      OBVIOUS
    <2>1. a \in On(p)!Actors(x)
      BY <1>11, <1>12 DEF On!Actors
    <2>2. p.satisfies[b] = p.satisfies[a]
      BY <2>1, ActorsAgree
    <2> QED  BY <1>12, <2>2 DEF On!Actors
  <1>13. On(p)!Actors(f) = On(p)!Actors(g)
    BY <1>9, <1>10, <1>11, <1>12
  <1>14. On(p)!ActionFor(f) = On(p)!ActionFor(g)
    BY <1>13 DEF On!ActionFor
  <1> QED  BY <1>8, <1>9, <1>10, <1>14

\* From every snapshot that is not ready plan() finds a plan, the deterministic check
\* accepts its actions one after the other, the last makes the journey READY, and no
\* smaller set of actions does, in any order.
THEOREM PlanIsTrue == Spec => [](Regular(pack) => PlanIsExact)
  <1>1. PlanInvariant => (Regular(pack) => PlanIsExact)
    <2> SUFFICES ASSUME PlanInvariant, Regular(pack), snapshot.readiness = "NOT_READY"
                 PROVE  PlanIsExact
      BY DEF PlanIsExact
    <2> DEFINE plan == On(pack)!Plan(snapshot)
               walk == Following(snapshot, plan.actions)
               less == On(pack)!PathLength(snapshot) - 1
               last == walk[Len(walk)]
    <2>1. Plannable(pack) /\ Rooted(pack, snapshot) /\ Quiet(pack, snapshot)
      BY DEF PlanInvariant, AdviceInvariant, Plannable, Quiet
    <2>2. /\ plan.found
          /\ InOrder(pack, On(pack)!Needed(snapshot), plan.actions)
          /\ Placed(plan.actions) = On(pack)!Needed(snapshot)
          /\ On(pack)!PathLength(snapshot) = Cardinality(On(pack)!Needed(snapshot))
      BY <2>1, PlanIsFound
    <2>3. Walked(pack, snapshot, plan.actions, Len(plan.actions), walk)
      <3> HIDE DEF plan
      <3> QED  BY <2>1, <2>2, PlanCanBeFollowed
    <2>4. /\ Len(walk) = Len(plan.actions) + 1 /\ Len(plan.actions) \in Nat
          /\ last \in Snapshots(pack)
          /\ \A f \in pack.fields : snapshot.status[f] = "SATISFIED" => last.status[f] = "SATISFIED"
          /\ \A i \in DOMAIN plan.actions : \A f \in pack.satisfies[plan.actions[i]] :
                last.status[f] = "SATISFIED"
      <3> HIDE DEF plan, walk
      <3> QED  BY <2>2, <2>3 DEF Walked, InOrder
    <2>5. last.readiness = "READY"
      <3> HIDE DEF last, plan, walk
      <3>1. Quiet(pack, last)
        BY <2>4 DEF Snapshots
      <3>2. \A f \in On(pack)!Lacking(snapshot) : last.status[f] = "SATISFIED"
        <4> TAKE f \in On(pack)!Lacking(snapshot)
        <4>1. PICK a \in On(pack)!Needed(snapshot) : f \in pack.satisfies[a]
          BY <2>1, NeededFacts
        <4>2. PICK i \in DOMAIN plan.actions : plan.actions[i] = a
          BY <2>2 DEF Placed
        <4> QED  BY <2>4, <4>1, <4>2
      <3>3. On(pack)!Lacking(last) = {}
        BY <2>1, <2>4, <3>1, <3>2, QuietFacts
      <3> QED  BY <2>1, <3>1, <3>3, QuietFacts
    <2>6. ASSUME \A f \in pack.fields :
                    snapshot.value[f] = "given" => snapshot.status[f] = "SATISFIED",
                 NEW T \in SUBSET DOMAIN pack.satisfies, Cardinality(T) = less
          PROVE  After(pack, snapshot, UNION {pack.satisfies[a] : a \in T}, "given",
                       NoAmbiguity).readiness # "READY"
      <3>1. Cardinality(On(pack)!Needed(snapshot)) \in Nat
        BY <2>1, NeededFacts, FS_CardinalityType
      <3>2. Cardinality(T) < Cardinality(On(pack)!Needed(snapshot))
        BY <2>2, <2>6, <3>1
      <3> QED  BY <2>1, <2>6, <3>2, FewerDoNotDo
    <2> HIDE DEF plan, walk, less
    <2>7. /\ plan.found
          /\ Len(walk) = Len(plan.actions) + 1
          /\ walk[Len(walk)].readiness = "READY"
          /\ (\A f \in pack.fields :
                 snapshot.value[f] = "given" => snapshot.status[f] = "SATISFIED") =>
                \A T \in {S \in SUBSET DOMAIN pack.satisfies : Cardinality(S) = less} :
                    After(pack, snapshot, UNION {pack.satisfies[a] : a \in T}, "given",
                          NoAmbiguity).readiness # "READY"
      BY <2>2, <2>4, <2>5, <2>6
    <2> QED  BY <2>7 DEF PlanIsExact, plan, walk, less
  <1> QED  BY <1>1, PlanInvariantHolds, PTL

=============================================================================
