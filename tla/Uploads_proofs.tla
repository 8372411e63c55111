--------------------------- MODULE Uploads_proofs ---------------------------
(***************************************************************************)
(* What the evidence table says of a document was earned by the document,  *)
(* for any pack, documents, settings and number of concurrent uploads.     *)
(*                                                                         *)
(* The engines come first: FairVerdict is what each of them promises of    *)
(* its verdict, given what the upload saw of the journey.  A verdict then  *)
(* waits in its request, is stored as a row, and the row stays: the        *)
(* inductive invariant says that it is fair at each of these places, to    *)
(* what that upload saw, whatever other uploads store in the meantime.     *)
(***************************************************************************)
EXTENDS Uploads, SequenceTheorems, FiniteSetTheorems, TLAPS

-----------------------------------------------------------------------------
(* The greatest of a set of numbers, which the models CHOOSE.              *)

\* Natural numbers up to n with 0 and the next of each would be without end.
LEMMA NoLast ==
    ASSUME NEW n \in Nat, NEW D \in SUBSET (0..n), 0 \in D, \A x \in D : x + 1 \in D
    PROVE  FALSE
  <1> DEFINE f == [x \in D |-> x + 1]
  <1>1. IsFiniteSet(0..n)
    BY FS_Interval
  <1>2. IsFiniteSet(D)
    BY <1>1, FS_Subset
  <1>3. Cardinality(D \ {0}) = Cardinality(D) - 1 /\ IsFiniteSet(D \ {0})
    BY <1>2, FS_RemoveElement
  <1>4. Cardinality(D) \in Nat
    BY <1>2, FS_CardinalityType
  <1>5. Cardinality(D \ {0}) < Cardinality(D)
    BY <1>3, <1>4
  <1>6. f \in [D -> D \ {0}] /\ \A x, y \in D : f[x] = f[y] => x = y
    OBVIOUS
  <1> HIDE DEF f
  <1>7. \E x, y \in D : x # y /\ f[x] = f[y]
    BY <1>2, <1>3, <1>5, <1>6, FS_PigeonHole, ZenonT(60)
  <1> QED  BY <1>6, <1>7

LEMMA SomeGreatest ==
    ASSUME NEW n \in Nat, NEW S \in SUBSET (0..n), S # {}
    PROVE  \E m \in S : \A k \in S : k <= m
  <1> DEFINE D == {x \in 0..n : \E k \in S : x <= k}
  <1> SUFFICES ASSUME \A m \in S : \E k \in S : ~ k <= m
               PROVE  FALSE
    OBVIOUS
  <1>1. 0 \in D
    <2>1. PICK k \in S : TRUE
      OBVIOUS
    <2>2. k \in Nat /\ 0 <= k /\ 0 \in 0..n
      BY <2>1
    <2> QED  BY <2>2
  <1>2. \A x \in D : x + 1 \in D
    <2> TAKE x \in D
    <2>1. PICK k \in S : x <= k
      OBVIOUS
    <2>2. PICK l \in S : ~ l <= k
      OBVIOUS
    <2>3. x + 1 <= l /\ x + 1 \in 0..n
      BY <2>1, <2>2
    <2> QED  BY <2>2, <2>3
  <1>3. D \in SUBSET (0..n)
    OBVIOUS
  <1> HIDE DEF D
  <1> QED  BY <1>1, <1>2, <1>3, NoLast

LEMMA LatestIsOne ==
    ASSUME NEW n \in Nat, NEW S \in SUBSET (1..n), S # {}
    PROVE  Latest(S) \in S
  <1>1. S \in SUBSET (0..n)
    OBVIOUS
  <1>2. \E m \in S : \A k \in S : k <= m
    BY <1>1, SomeGreatest
  <1> QED  BY <1>2 DEF Latest

-----------------------------------------------------------------------------
(* Texts and types.                                                        *)

LEMMA TextIsMeasured ==
    ASSUME NEW file, Measured(file.layer), Measured(file.scan), NEW tesseract
    PROVE  Measured(ReadFile(file, tesseract))
  BY DocumentAssumption DEF ReadFile, LayerOf, ScanOf, Substitute

LEMMA OwnTypeIsAccepted ==
    ASSUME NEW declared \in DocTypes
    PROVE  declared \in AcceptedWith(declared) /\ AcceptedWith(declared) \subseteq DocTypes
  BY DocumentAssumption DEF AcceptedWith, Mapped

LEMMA LikeliestIsOne ==
    ASSUME NEW text, Measured(text), NEW among \in SUBSET DocTypes, among # {}
    PROVE  Likeliest(text, among) \in among
  <1> DEFINE S == {text.score[d] : d \in among}
  <1>1. S \in SUBSET (Percentages) /\ S # {}
    BY DEF Measured
  <1> HIDE DEF S
  <1>2. PICK m \in S : \A k \in S : k <= m
    BY <1>1, SomeGreatest DEF Percentages
  <1>3. PICK d \in among : text.score[d] = m
    BY <1>2 DEF S
  <1>4. \A e \in among : text.score[e] <= m
    BY <1>2 DEF S
  <1>5. \A e \in among : text.score[d] >= text.score[e]
    BY <1>3, <1>4 DEF Measured
  <1> QED  BY <1>5 DEF Likeliest

-----------------------------------------------------------------------------
(* What each engine promises.                                              *)

\* The type a document is taken for.
TakenFor(verdict, declared) == IF verdict.doc = NoDoc THEN declared ELSE verdict.doc

Asked(doc) == doc \in Mapped /\ Mapping[doc].field \in Ruled

FairVerdict(verdict, declared, name) ==
    /\ verdict.confidence \in Confidences
    /\ verdict.verified =>
          /\ verdict.conflicts = {} /\ DOMAIN verdict.values # {} /\ Numbers(verdict.values)
          /\ TakenFor(verdict, declared) \in AcceptedWith(declared)
          /\ /\ verdict.name # None /\ name # None
             /\ Asked(TakenFor(verdict, declared))
             => NamesMatch(verdict.name, name)

LEMMA RejectionIsFair ==
    ASSUME NEW confidence \in Confidences, NEW doc, NEW declared, NEW name
    PROVE  FairVerdict(Rejected(confidence, doc), declared, name)
  BY DEF Rejected, Verdict, FairVerdict

LEMMA PercentOfPercent ==
    ASSUME NEW a \in Percentages, NEW b \in Percentages
    PROVE  a * b \in Confidences
  BY SMTT(60) DEF Percentages, Confidences

LEMMA ComposedConfidence ==
    ASSUME NEW base \in Confidences, NEW found, NEW valid
    PROVE  Composed(base, found, valid) \in Confidences
  <1>1. (base * 6) \div 10 \in Confidences /\ base \div 4 \in Confidences
    <2>1. base \in Nat /\ base <= 10000
      BY DEF Confidences
    <2>2. (base * 6) \div 10 \in Confidences
      BY <2>1, SMTT(60) DEF Confidences
    <2>3. base \div 4 \in Confidences
      BY <2>1, SMTT(60) DEF Confidences
    <2> QED  BY <2>2, <2>3
  <1> QED  BY <1>1 DEF Composed

LEMMA AtMostLifted ==
    ASSUME NEW n \in Nat
    PROVE  Lesser(9600, n) \in Confidences
  <1>1. CASE 9600 >= n
    BY <1>1, SMTT(60) DEF Lesser, Confidences
  <1>2. CASE ~ 9600 >= n
    BY <1>2, SMTT(60) DEF Lesser, Confidences
  <1> QED  BY <1>1, <1>2

\* The lift of a clear document, which is at most 96 percent.
LEMMA LiftedConfidence ==
    ASSUME NEW base \in Confidences, NEW ocr \in Percentages, ocr >= 70
    PROVE  Lesser(9600, Greater(base, 8800 + 8 * (ocr - 70))) \in Confidences
  <1>1. base \in Nat
    BY DEF Confidences
  <1>2. 8800 + 8 * (ocr - 70) \in Nat
    BY DEF Percentages
  <1>3. Greater(base, 8800 + 8 * (ocr - 70)) \in Nat
    BY <1>1, <1>2 DEF Greater
  <1> QED  BY <1>3, AtMostLifted

LEMMA LocalConfidence ==
    ASSUME NEW text, Measured(text), NEW doc, NEW p \in Percentages, NEW conflicts
    PROVE  Confidence(text, doc, p, conflicts) \in Confidences
  <1> DEFINE found == DOMAIN Found(text, doc) # {}
             valid == AllValid(text, doc)
             composed == Composed(text.ocr * p, found, valid)
  <1>1. text.ocr \in Percentages
    BY DEF Measured
  <1>2. text.ocr * p \in Confidences
    BY <1>1, PercentOfPercent
  <1>3. composed \in Confidences
    BY <1>2, ComposedConfidence
  <1>4. text.ocr >= 70
        => Lesser(9600, Greater(composed, 8800 + 8 * (text.ocr - 70))) \in Confidences
    BY <1>1, <1>3, LiftedConfidence
  <1> HIDE DEF composed
  <1>5. \/ Confidence(text, doc, p, conflicts) = composed
        \/ /\ text.ocr >= 70
           /\ Confidence(text, doc, p, conflicts)
                 = Lesser(9600, Greater(composed, 8800 + 8 * (text.ocr - 70)))
    BY DEF Confidence, composed
  <1> QED  BY <1>3, <1>4, <1>5

\* What LocalMLProvider takes a document for is accepted with the declared type.
LEMMA ClassIsAccepted ==
    ASSUME NEW text, Measured(text), NEW declared \in DocTypes
    PROVE  LET class == Refine(text, declared, Classify(text, declared))
           IN  /\ class.p \in Percentages
               /\ class.outcome = "CORRECT" => class.doc \in AcceptedWith(declared)
  <1> DEFINE first == Classify(text, declared)
             best  == Likeliest(text, AcceptedWith(declared))
  <1>1. /\ first.p \in Percentages
        /\ first.outcome = "CORRECT" => first.doc \in AcceptedWith(declared)
    BY DEF Classify, Measured, Percentages
  <1>2. best \in AcceptedWith(declared) /\ declared \in AcceptedWith(declared)
    BY OwnTypeIsAccepted, LikeliestIsOne
  <1> HIDE DEF first, best
  <1>3. Greater(first.p, 85) \in Percentages
    BY <1>1 DEF Greater, Percentages
  <1>4. Refine(text, declared, first) \in
           {first, [outcome |-> "CORRECT", doc |-> declared, p |-> Greater(first.p, 85)],
                   [outcome |-> "CORRECT", doc |-> best, p |-> Greater(first.p, 85)]}
    BY DEF Refine, best
  <1>5. /\ Refine(text, declared, first).p \in Percentages
        /\ Refine(text, declared, first).outcome = "CORRECT"
              => Refine(text, declared, first).doc \in AcceptedWith(declared)
    BY <1>1, <1>2, <1>3, <1>4
  <1> QED  BY <1>5 DEF first

\* A name that the rules ask about and that differs is a conflict.
LEMMA OtherNameConflicts ==
    ASSUME NEW text, NEW doc, NEW prior, FactConflicts(text, doc, prior) = {},
           Asked(doc), text.name # None, prior.name # None
    PROVE  NamesMatch(text.name, prior.name)
  BY DEF FactConflicts, Asked

\* What is found are numbers, and an income is found only where it is sought.
LEMMA FoundAreNumbers ==
    ASSUME NEW text, Measured(text), NEW doc
    PROVE  /\ Numbers(Found(text, doc)) /\ Numbers(MockFound(text, doc))
           /\ Income \in DOMAIN Found(text, doc) => Income \in Sought[doc]
  <1> DEFINE seen   == Extracted(text, doc)
             target == IF doc \in Mapped THEN {Mapping[doc].field} \cap BooleanFields ELSE {}
             found  == Found(text, doc)
             supplied == IF doc \in Mapped /\ DOMAIN found = {} THEN {Mapping[doc].field} ELSE {}
  <1>1. Numbers(seen) /\ (Income \in DOMAIN seen => Income \in Sought[doc])
    BY DEF Measured, Numbers, Extracted, Only
  <1>2. found = [f \in DOMAIN seen \cup target |-> IF f \in DOMAIN seen THEN seen[f] ELSE 1]
    BY DEF Found
  <1>3. Income \notin target
    BY DocumentAssumption
  <1> HIDE DEF seen, target
  <1>4. Numbers(found) /\ (Income \in DOMAIN found => Income \in Sought[doc])
    BY <1>1, <1>2, <1>3 DEF Numbers
  <1>5. MockFound(text, doc) = [f \in DOMAIN found \cup supplied |->
                                  IF f \in DOMAIN found THEN found[f] ELSE MockValue[f]]
    BY DEF MockFound
  <1>6. \A f \in supplied : MockValue[f] \in Nat
    BY DocumentAssumption DEF Mapped
  <1> HIDE DEF found, supplied
  <1>7. Numbers(MockFound(text, doc))
    BY <1>4, <1>5, <1>6 DEF Numbers
  <1> QED  BY <1>4, <1>7 DEF found

\* It is enough to look at a verdict field by field.
LEMMA FairByFields ==
    ASSUME NEW verdict, NEW declared, NEW prior, NEW text,
           NEW doc \in AcceptedWith(declared), doc # NoDoc,
           verdict.doc = doc, verdict.name = text.name, verdict.confidence \in Confidences,
           verdict.verified => /\ verdict.conflicts = {} /\ DOMAIN verdict.values # {}
                               /\ Numbers(verdict.values)
                               /\ FactConflicts(text, doc, prior) = {}
    PROVE  FairVerdict(verdict, declared, prior.name)
  <1>1. TakenFor(verdict, declared) = doc
    BY DEF TakenFor
  <1>2. SUFFICES ASSUME verdict.verified
                 PROVE  /\ verdict.name # None /\ prior.name # None /\ Asked(doc)
                        => NamesMatch(verdict.name, prior.name)
    BY <1>1 DEF FairVerdict
  <1>3. FactConflicts(text, doc, prior) = {}
    BY <1>2
  <1> QED  BY <1>3, OtherNameConflicts

LEMMA InterpretedIsFair ==
    ASSUME NEW text, Measured(text), NEW declared \in DocTypes, NEW prior,
           NEW doc \in AcceptedWith(declared), NEW p \in Percentages
    PROVE  FairVerdict(Interpreted(text, doc, p, prior), declared, prior.name)
  <1> DEFINE verdict == Interpreted(text, doc, p, prior)
  <1>1. verdict.confidence \in Confidences
    <2>1. verdict.confidence = Confidence(text, doc, p, LocalConflicts(text, doc, prior))
      BY DEF Interpreted, Verdict
    <2> QED  BY <2>1, LocalConfidence
  <1>2. verdict.doc = doc /\ verdict.name = text.name
    BY DEF Interpreted, Verdict
  <1>3. verdict.verified => /\ verdict.conflicts = {} /\ DOMAIN verdict.values # {}
                            /\ verdict.values = Found(text, doc)
                            /\ FactConflicts(text, doc, prior) = {}
    BY DEF Interpreted, Verdict, LocalConflicts
  <1>4. doc # NoDoc
    BY OwnTypeIsAccepted, DocumentAssumption
  <1> HIDE DEF verdict
  <1>5. FairVerdict(verdict, declared, prior.name)
    BY <1>1, <1>2, <1>3, <1>4, FairByFields, FoundAreNumbers
  <1> QED  BY <1>5 DEF verdict

LEMMA LocalIsFair ==
    ASSUME NEW text, Measured(text), NEW declared \in DocTypes, NEW prior, NEW trained
    PROVE  FairVerdict(LocalVerdict(text, declared, prior, trained), declared, prior.name)
  <1> DEFINE class == Refine(text, declared, Classify(text, declared))
             local == LocalVerdict(text, declared, prior, trained)
  <1>1. /\ class.p \in Percentages
        /\ class.outcome = "CORRECT" => class.doc \in AcceptedWith(declared)
    BY ClassIsAccepted
  <1>2. text.ocr * class.p \in Confidences /\ 35 * text.ocr \in Confidences
    <2>1. text.ocr \in Percentages /\ 35 \in Percentages
      BY DEF Measured, Percentages
    <2> HIDE DEF class
    <2> QED  BY <1>1, <2>1, PercentOfPercent
  <1>3. CASE Typed(text)
    <2>1. local = Verdict(TRUE, 9500, Only(text.manual, Fields), {}, Blank, declared)
      BY <1>3 DEF LocalVerdict
    <2>2. DOMAIN Only(text.manual, Fields) # {} /\ Numbers(Only(text.manual, Fields))
      BY <1>3 DEF Typed, Only, Measured, Numbers
    <2>3. local.name = None /\ local.doc = declared
      BY <2>1, DocumentAssumption DEF Verdict
    <2>4. TakenFor(local, declared) \in AcceptedWith(declared)
      BY <2>3, OwnTypeIsAccepted DEF TakenFor
    <2>5. /\ local.confidence = 9500 /\ local.conflicts = {}
          /\ DOMAIN local.values # {} /\ Numbers(local.values)
      BY <2>1, <2>2 DEF Verdict
    <2> QED  BY <2>3, <2>4, <2>5 DEF FairVerdict, Confidences
  <1>4. CASE ~ Typed(text)
    <2>1. \/ local \in {Rejected(0, NoDoc), Rejected(text.ocr * class.p, NoDoc),
                        Rejected(35 * text.ocr, class.doc)}
          \/ class.outcome = "CORRECT" /\ local = Interpreted(text, class.doc, class.p, prior)
      BY <1>4 DEF LocalVerdict
    <2> HIDE DEF class, local
    <2>2. CASE class.outcome = "CORRECT" /\ local = Interpreted(text, class.doc, class.p, prior)
      <3>1. PICK doc \in AcceptedWith(declared) : doc = class.doc
        BY <1>1, <2>2
      <3>2. PICK p \in Percentages : p = class.p
        BY <1>1
      <3>3. local = Interpreted(text, doc, p, prior)
        BY <2>2, <3>1, <3>2
      <3>4. FairVerdict(Interpreted(text, doc, p, prior), declared, prior.name)
        BY InterpretedIsFair
      <3> QED  BY <3>3, <3>4 DEF local
    <2>3. CASE local \in {Rejected(0, NoDoc), Rejected(text.ocr * class.p, NoDoc),
                          Rejected(35 * text.ocr, class.doc)}
      <3>1. 0 \in Confidences
        BY DEF Confidences
      <3>2. FairVerdict(local, declared, prior.name)
        BY <1>2, <2>3, <3>1, RejectionIsFair
      <3> QED  BY <3>2 DEF local
    <2> QED  BY <2>1, <2>2, <2>3 DEF local
  <1> QED  BY <1>3, <1>4

LEMMA MockIsFair ==
    ASSUME NEW text, Measured(text), NEW declared \in DocTypes, NEW prior
    PROVE  FairVerdict(MockVerdict(text, declared, prior), declared, prior.name)
  <1> DEFINE doc       == MockType(text, declared)
             conflicts == MockConflicts(text, doc, prior)
             found     == MockFound(text, doc)
             mock      == MockVerdict(text, declared, prior)
             plain     == Verdict(conflicts = {}, 95 * 95, found, conflicts, text, doc)
  <1>1. \/ mock \in {Rejected(95 * 85, doc), Rejected(4500, doc)}
        \/ mock = Simulated(text, doc, conflicts)
        \/ doc \in AcceptedWith(declared) /\ DOMAIN found # {} /\ mock = plain
    BY DEF MockVerdict
  <1>2. CASE mock = Simulated(text, doc, conflicts)
    <2>1. mock.verified = FALSE /\ mock.confidence = 8100
      BY <1>2 DEF Simulated, Verdict
    <2> QED  BY <2>1 DEF FairVerdict, Confidences
  <1>3. CASE mock \in {Rejected(95 * 85, doc), Rejected(4500, doc)}
    <2> HIDE DEF doc, mock
    <2>1. 95 * 85 \in Confidences /\ 4500 \in Confidences
      BY DEF Confidences
    <2>2. FairVerdict(mock, declared, prior.name)
      BY <1>3, <2>1, RejectionIsFair
    <2> QED  BY <2>2 DEF mock
  <1>4. CASE doc \in AcceptedWith(declared) /\ DOMAIN found # {} /\ mock = plain
    <2>1. doc # NoDoc
      BY <1>4, OwnTypeIsAccepted, DocumentAssumption
    <2>2. mock.confidence = 95 * 95 /\ mock.name = text.name /\ mock.doc = doc
      BY <1>4 DEF Verdict
    <2>3. /\ mock.verified = (conflicts = {}) /\ mock.conflicts = conflicts
          /\ mock.values = found
          /\ conflicts = {} => FactConflicts(text, doc, prior) = {}
      BY <1>4 DEF Verdict, MockConflicts
    <2>4. PICK kind \in AcceptedWith(declared) : kind = doc
      BY <1>4
    <2> HIDE DEF doc, conflicts, found, mock
    <2>5. mock.confidence \in Confidences
      BY <2>2 DEF Confidences
    <2>6. Numbers(mock.values)
      BY <2>3, FoundAreNumbers DEF found
    <2>7. FairVerdict(mock, declared, prior.name)
      BY <1>4, <2>1, <2>2, <2>3, <2>4, <2>5, <2>6, FairByFields, ZenonT(60)
    <2> QED  BY <2>7 DEF mock
  <1> QED  BY <1>1, <1>2, <1>3, <1>4

LEMMA SarvamIsFair ==
    ASSUME NEW answer, NEW declared \in DocTypes, NEW prior,
           Numbers(answer.values),
           SarvamVerdict(answer, declared, prior).confidence \in Confidences
    PROVE  /\ FairVerdict(SarvamVerdict(answer, declared, prior), declared, prior.name)
           /\ SarvamVerdict(answer, declared, prior).engine = "sarvam"
           /\ SarvamVerdict(answer, declared, prior).verified => answer.status = "completed"
  <1> DEFINE verdict == SarvamVerdict(answer, declared, prior)
  <1>1. verdict.name = None /\ verdict.doc = NoDoc /\ verdict.engine = "sarvam"
    BY DocumentAssumption DEF SarvamVerdict, Verdict
  <1>2. verdict.verified => /\ verdict.conflicts = {} /\ DOMAIN verdict.values # {}
                            /\ Numbers(verdict.values)
                            /\ answer.status = "completed"
    BY DEF SarvamVerdict, Verdict, Only, Numbers
  <1>3. TakenFor(verdict, declared) \in AcceptedWith(declared)
    BY <1>1, OwnTypeIsAccepted DEF TakenFor
  <1>4. verdict.confidence \in Confidences
    OBVIOUS
  <1> HIDE DEF verdict
  <1>5. FairVerdict(verdict, declared, prior.name)
    BY <1>1, <1>2, <1>3, <1>4 DEF FairVerdict
  <1> QED  BY <1>1, <1>2, <1>5 DEF verdict

-----------------------------------------------------------------------------
(* The income that a verdict brings, against the one that the upload saw.  *)

Close(old, new) == Apart(new, old) * 100 <= 15 * old

FairIncome(verdict, seen, read) ==
    /\ verdict.verified /\ read
    /\ Income \in DOMAIN verdict.values /\ Income \in DOMAIN seen /\ seen[Income] # 0
    => Close(seen[Income], verdict.values[Income])

\* Ten percent of the larger one is less than fifteen of the older one.
LEMMA TenIsWithinFifteen ==
    ASSUME NEW old \in Nat, NEW new \in Nat, old # 0, ~ IncomeDiffers(old, new)
    PROVE  Close(old, new)
  BY DEF IncomeDiffers, Close, Apart, Greater

LEMMA NoIncomeConflict ==
    ASSUME NEW found, Numbers(found), NEW prior, Numbers(prior.values), NEW asked,
           Income \in asked, ValueConflicts(found, prior, asked) = {},
           Income \in DOMAIN found, Income \in DOMAIN prior.values, prior.values[Income] # 0
    PROVE  Close(prior.values[Income], found[Income])
  <1>1. ~ IncomeDiffers(prior.values[Income], found[Income])
    BY DEF ValueConflicts, LocalDiffers
  <1>2. prior.values[Income] \in Nat /\ found[Income] \in Nat
    BY DEF Numbers
  <1> QED  BY <1>1, <1>2, TenIsWithinFifteen

LEMMA LocalIncome ==
    ASSUME NEW text, Measured(text), NEW declared, NEW prior, Numbers(prior.values), NEW trained,
           Income \in Ruled
    PROVE  FairIncome(LocalVerdict(text, declared, prior, trained), prior.values, ~ Typed(text))
  <1> DEFINE class == Refine(text, declared, Classify(text, declared))
             local == LocalVerdict(text, declared, prior, trained)
             found == Found(text, class.doc)
             asked == Ruled \cap Sought[class.doc]
  <1>1. SUFFICES ASSUME local.verified, ~ Typed(text), Income \in DOMAIN local.values,
                        Income \in DOMAIN prior.values, prior.values[Income] # 0
                 PROVE  Close(prior.values[Income], local.values[Income])
    BY DEF FairIncome
  <1>2. local = Interpreted(text, class.doc, class.p, prior)
    BY <1>1 DEF LocalVerdict, Rejected, Verdict
  <1>3. local.values = found /\ ValueConflicts(found, prior, asked) = {}
    <2>1. /\ local.verified = (DOMAIN found # {} /\ LocalConflicts(text, class.doc, prior) = {})
          /\ local.values = found
      <3> HIDE DEF class
      <3> QED  BY <1>2 DEF Interpreted, Verdict
    <2>2. LocalConflicts(text, class.doc, prior) = {}
      BY <1>1, <2>1
    <2> HIDE DEF class, local
    <2> QED  BY <2>1, <2>2 DEF LocalConflicts
  <1> HIDE DEF class
  <1>4. Numbers(found) /\ (Income \in DOMAIN found => Income \in Sought[class.doc])
    BY FoundAreNumbers
  <1> HIDE DEF local, found
  <1> QED  BY <1>1, <1>3, <1>4, NoIncomeConflict

LEMMA MockIncome ==
    ASSUME NEW text, Measured(text), NEW declared, NEW prior, Numbers(prior.values),
           Income \in Ruled, NEW doc, doc = MockVerdict(text, declared, prior).doc
    PROVE  FairIncome(MockVerdict(text, declared, prior), prior.values,
                      Income \in DOMAIN Found(text, doc))
  <1> DEFINE mock  == MockVerdict(text, declared, prior)
             kind  == MockType(text, declared)
             found == Found(text, kind)
             asked == Ruled \cap {Income}
  <1>1. SUFFICES ASSUME mock.verified, Income \in DOMAIN Found(text, doc),
                        Income \in DOMAIN prior.values, prior.values[Income] # 0
                 PROVE  Close(prior.values[Income], mock.values[Income])
    BY DEF FairIncome
  <1>2. mock = Verdict(MockConflicts(text, kind, prior) = {}, 95 * 95, MockFound(text, kind),
                       MockConflicts(text, kind, prior), text, kind)
    BY <1>1 DEF MockVerdict, Rejected, Simulated, Verdict
  <1> HIDE DEF kind
  <1>3. /\ mock.verified = (MockConflicts(text, kind, prior) = {}) /\ mock.doc = kind
        /\ mock.values = MockFound(text, kind)
    BY <1>2 DEF Verdict
  <1>4. ValueConflicts(found, prior, asked) = {}
    BY <1>1, <1>3 DEF MockConflicts
  <1>5. Income \in DOMAIN found
    BY <1>1, <1>3
  <1>6. mock.values[Income] = found[Income]
    BY <1>3, <1>5 DEF MockFound
  <1>7. Numbers(found)
    BY FoundAreNumbers
  <1> HIDE DEF mock, found
  <1> QED  BY <1>1, <1>4, <1>5, <1>6, <1>7, NoIncomeConflict

LEMMA SarvamIncome ==
    ASSUME NEW answer, Numbers(answer.values), NEW declared, NEW prior, Numbers(prior.values)
    PROVE  FairIncome(SarvamVerdict(answer, declared, prior), prior.values, TRUE)
  <1> DEFINE verdict == SarvamVerdict(answer, declared, prior)
             found   == Only(answer.values, Requested(declared))
  <1>1. /\ verdict.verified => SarvamConflicts(found, prior) = {}
        /\ verdict.values = found
    BY DEF SarvamVerdict, Verdict
  <1>2. Numbers(found)
    BY DEF Only, Numbers
  <1> HIDE DEF verdict, found
  <1>3. SUFFICES ASSUME verdict.verified, Income \in DOMAIN found,
                        Income \in DOMAIN prior.values, prior.values[Income] # 0
                 PROVE  Close(prior.values[Income], found[Income])
    BY <1>1 DEF FairIncome, verdict
  <1>4. ~ SarvamDiffers(Income, prior.values[Income], found[Income])
    BY <1>1, <1>3 DEF SarvamConflicts
  <1>5. PICK old \in Nat, new \in Nat : old = prior.values[Income] /\ new = found[Income]
    BY <1>2, <1>3 DEF Numbers
  <1> QED  BY <1>3, <1>4, <1>5 DEF SarvamDiffers, Close, Apart

-----------------------------------------------------------------------------
(* The inductive invariant.                                                *)

\* What Prior reads: the name on the latest of the first k rows that has one.
NameAmong(seq, k) ==
    LET named == {n \in 1..k : seq[n].name # None}
    IN  IF named = {} THEN None ELSE seq[Latest(named)].name

\* TextOf, of a file and the settings.
TextIn(file, x) == IF file.kind = "form" THEN file.layer ELSE ReadFile(file, x.tesseract)

IncomeRead(x, file, doc) ==
    /\ ~ Typed(TextIn(file, x))
    /\ x.provider # "mock" \/ Income \in DOMAIN Found(TextIn(file, x), doc)

LabelIn(verdict, x) == IF verdict.engine = None THEN x.provider ELSE verdict.engine

\* A verdict labelled as Sarvam's verifies only what its completed job answered.
HonestLabel(verdict, x, remote) ==
    /\ LabelIn(verdict, x) \in Providers
    /\ verdict.verified /\ LabelIn(verdict, x) = "sarvam" => remote = "completed"

IsRequest(r) == DOMAIN r = {"at", "file", "doc", "version", "values", "listed", "attempt",
                            "polls", "jobs", "remote", "verdict", "answer"}

Bounded(r, stored) ==
    /\ IsRequest(r) /\ r.at \in Steps /\ r.attempt \in 1..2 /\ r.polls \in 0..(MaxPolls - 1)
    /\ r.jobs \in 0..r.attempt /\ (r.at = "asked" => r.jobs < r.attempt)
    /\ r.listed \in 0..stored

\* What an upload in flight or stored has seen of the journey, whose current
\* snapshot is now.
Informed(r, now) ==
    /\ r.version \in 1..now.version /\ Numbers(r.values)
    /\ r.version = now.version => r.values = now.values

Legible(r) == r.doc \in DocTypes /\ Measured(r.file.layer) /\ Measured(r.file.scan)

JudgedFairly(r, x, seq) ==
    /\ FairVerdict(r.verdict, r.doc, NameAmong(seq, r.listed))
    /\ HonestLabel(r.verdict, x, r.remote)
    /\ Income \in Ruled
       => FairIncome(r.verdict, r.values, IncomeRead(x, r.file, TakenFor(r.verdict, r.doc)))

LeadsSomewhere(answer) == /\ answer.preview => answer.verified \/ answer.review
                          /\ ~ (answer.verified /\ answer.review)

FairRequest(r, x, seq, now) ==
    /\ Bounded(r, Len(seq))
    /\ r.at \in Waiting \cup {"judged"} => Legible(r)
    /\ r.at \in Waiting \cup {"judged", "stored"} => Informed(r, now)
    /\ r.at = "judged" => JudgedFairly(r, x, seq)
    /\ r.at = "stored" => LeadsSomewhere(r.answer)

\* row, with r the request that stored it.
FairRow(row, r, x, seq) ==
    /\ r.at = "stored" /\ row.confidence \in Confidences /\ row.provider \in Providers
    /\ row.verified =>
          /\ row.of \in AcceptedWith(row.declared) /\ row.confidence >= ThresholdOf(row.of)
          /\ DOMAIN row.values # {} /\ Numbers(row.values)
          /\ row.provider = "sarvam" => r.remote = "completed"
          /\ row.name # None /\ NameAmong(seq, r.listed) # None /\ Asked(row.of)
             => NamesMatch(row.name, NameAmong(seq, r.listed))
    /\ Income \in Ruled => FairIncome(row, r.values, IncomeRead(x, r.file, row.of))

IsSeq(s) == s \in Seq({s[n] : n \in DOMAIN s})

SoundJourney == /\ journey.version \in 1..MaxVersion
                /\ DOMAIN journey.values \subseteq Fields /\ Numbers(journey.values)

IInv ==
    /\ settings \in Settings /\ SoundJourney /\ IsSeq(rows)
    /\ upload = [u \in Uploads |-> upload[u]]
    /\ \A u \in Uploads : FairRequest(upload[u], settings, rows, journey)
    /\ \A n \in DOMAIN rows : /\ rows[n].upload \in Uploads
                              /\ FairRow(rows[n], upload[rows[n].upload], settings, rows)
    /\ \A m, n \in DOMAIN rows : rows[m].upload = rows[n].upload => m = n

-----------------------------------------------------------------------------
(* What was fair stays fair, when rows are appended and the journey goes   *)
(* on, and a step of one request disturbs no other.                        *)

LEMMA NamesStay ==
    ASSUME NEW s, NEW t, NEW k \in Nat, \A n \in 1..k : t[n] = s[n]
    PROVE  NameAmong(t, k) = NameAmong(s, k)
  <1> DEFINE S == {n \in 1..k : s[n].name # None}
             T == {n \in 1..k : t[n].name # None}
  <1>1. S = T
    OBVIOUS
  <1>2. S # {} => Latest(S) \in S
    BY LatestIsOne
  <1>3. S # {} => t[Latest(S)] = s[Latest(S)]
    BY <1>2
  <1> HIDE DEF S, T
  <1>4. (IF T = {} THEN None ELSE t[Latest(T)].name) = (IF S = {} THEN None ELSE s[Latest(S)].name)
    BY <1>1, <1>3
  <1> QED  BY <1>4 DEF NameAmong, S, T

Extends(t, s) == /\ Len(s) \in Nat /\ Len(t) \in Nat /\ Len(s) <= Len(t)
                 /\ \A n \in 1..Len(s) : t[n] = s[n]

LEMMA NamesOfListed ==
    ASSUME NEW s, NEW t, Extends(t, s), NEW k \in 0..Len(s)
    PROVE  NameAmong(t, k) = NameAmong(s, k)
  <1>1. k \in Nat /\ \A n \in 1..k : t[n] = s[n]
    BY DEF Extends
  <1> QED  BY <1>1, NamesStay

LEMMA RequestStaysFair ==
    ASSUME NEW r, NEW x, NEW s, NEW t, NEW now, NEW later, FairRequest(r, x, s, now),
           Extends(t, s), now.version \in Nat,
           later = now \/ later.version = now.version + 1
    PROVE  FairRequest(r, x, t, later)
  <1>1. r.listed \in 0..Len(s)
    BY DEF FairRequest, Bounded
  <1>2. NameAmong(t, r.listed) = NameAmong(s, r.listed)
    BY <1>1, NamesOfListed
  <1>3. Bounded(r, Len(t))
    BY DEF FairRequest, Bounded, Extends
  <1>4. Informed(r, now) => Informed(r, later)
    BY DEF Informed
  <1>5. JudgedFairly(r, x, s) => JudgedFairly(r, x, t)
    BY <1>2 DEF JudgedFairly
  <1> QED  BY <1>3, <1>4, <1>5 DEF FairRequest

LEMMA RowStaysFair ==
    ASSUME NEW row, NEW r, NEW x, NEW s, NEW t, FairRow(row, r, x, s),
           Extends(t, s), r.listed \in 0..Len(s)
    PROVE  FairRow(row, r, x, t)
  <1>1. NameAmong(t, r.listed) = NameAmong(s, r.listed)
    BY NamesOfListed
  <1> QED  BY <1>1 DEF FairRow

LEMMA OneRequest ==
    ASSUME IInv, NEW u \in Uploads, upload[u].at # "stored",
           NEW r, FairRequest(r, settings, rows, journey),
           upload' = [upload EXCEPT ![u] = r], UNCHANGED <<settings, journey, rows>>
    PROVE  IInv'
  <1>1. /\ upload'[u] = r /\ \A w \in Uploads \ {u} : upload'[w] = upload[w]
        /\ upload' = [w \in Uploads |-> upload'[w]]
    BY DEF IInv
  <1>2. \A w \in Uploads : FairRequest(upload'[w], settings, rows, journey)
    BY <1>1 DEF IInv
  <1>3. \A n \in DOMAIN rows : rows[n].upload \in Uploads \ {u}
    BY DEF IInv, FairRow
  <1>4. \A n \in DOMAIN rows : FairRow(rows[n], upload'[rows[n].upload], settings, rows)
    BY <1>1, <1>3 DEF IInv
  <1> QED  BY <1>1, <1>2, <1>3, <1>4 DEF IInv, SoundJourney, IsSeq

-----------------------------------------------------------------------------
(* The steps of a request that is in flight.                               *)

LEMMA IdleIsFair ==
    ASSUME NEW x, NEW seq, NEW now, Len(seq) \in Nat,
           NEW at \in {"idle", "refused", "lost"},
           NEW answer, NEW r,
           r \in {[Idle EXCEPT !.at = at], [Idle EXCEPT !.at = at, !.answer = answer]}
    PROVE  FairRequest(r, x, seq, now)
  <1>1. /\ IsRequest(r) /\ r.at = at /\ r.attempt = 1 /\ r.polls = 0 /\ r.jobs = 0
        /\ r.listed = 0
    BY DEF Idle, IsRequest
  <1>2. Bounded(r, Len(seq))
    BY <1>1, UploadAssumption DEF Bounded, Steps
  <1>3. r.at \notin Waiting \cup {"judged", "stored"}
    BY <1>1 DEF Waiting
  <1> QED  BY <1>2, <1>3 DEF FairRequest

LEMMA Submitted ==
    ASSUME NEW x, NEW seq, NEW now, Len(seq) \in Nat, now.version \in Nat \ {0},
           Numbers(now.values),
           NEW file, NEW doc \in DocTypes, Measured(file.layer), Measured(file.scan)
    PROVE  FairRequest([Idle EXCEPT !.at = "asked", !.file = file, !.doc = doc,
                                    !.version = now.version, !.values = now.values,
                                    !.listed = Len(seq)], x, seq, now)
  <1> DEFINE q == [Idle EXCEPT !.at = "asked", !.file = file, !.doc = doc,
                               !.version = now.version, !.values = now.values,
                               !.listed = Len(seq)]
  <1>1. /\ IsRequest(q) /\ q.at = "asked" /\ q.attempt = 1 /\ q.polls = 0 /\ q.jobs = 0
        /\ q.listed = Len(seq) /\ q.file = file /\ q.doc = doc
        /\ q.version = now.version /\ q.values = now.values
    BY DEF Idle, IsRequest
  <1> HIDE DEF q
  <1>2. Bounded(q, Len(seq))
    BY <1>1, UploadAssumption DEF Bounded, Steps
  <1>3. Legible(q) /\ Informed(q, now)
    BY <1>1 DEF Legible, Informed
  <1>4. FairRequest(q, x, seq, now)
    BY <1>1, <1>2, <1>3 DEF FairRequest
  <1> QED  BY <1>4 DEF q

\* A request that goes on waiting keeps what it has seen.
LEMMA StillWaiting ==
    ASSUME NEW r, NEW x, NEW seq, NEW now, FairRequest(r, x, seq, now), r.at \in Waiting,
           NEW q, Bounded(q, Len(seq)), q.at \in Waiting, q.doc = r.doc, q.file = r.file,
           q.version = r.version, q.values = r.values
    PROVE  FairRequest(q, x, seq, now)
  <1>1. Legible(r) /\ Informed(r, now)
    BY DEF FairRequest
  <1>2. Legible(q) /\ Informed(q, now)
    BY <1>1 DEF Legible, Informed
  <1>3. q.at # "judged" /\ q.at # "stored"
    BY DEF Waiting
  <1> QED  BY <1>2, <1>3 DEF FairRequest

LEMMA JobCreated ==
    ASSUME NEW r, NEW x, NEW seq, NEW now, FairRequest(r, x, seq, now), r.at = "asked"
    PROVE  FairRequest([r EXCEPT !.at = "created", !.polls = 0, !.jobs = @ + 1], x, seq, now)
  <1> DEFINE q == [r EXCEPT !.at = "created", !.polls = 0, !.jobs = @ + 1]
  <1>1. Bounded(r, Len(seq)) /\ r.at \in Waiting
    BY DEF FairRequest, Waiting
  <1>2. /\ IsRequest(q) /\ q.at = "created" /\ q.attempt = r.attempt /\ q.polls = 0
        /\ q.jobs = r.jobs + 1 /\ q.listed = r.listed /\ q.file = r.file /\ q.doc = r.doc
        /\ q.version = r.version /\ q.values = r.values
    BY <1>1 DEF Bounded, IsRequest
  <1> HIDE DEF q
  <1>3. Bounded(q, Len(seq)) /\ q.at \in Waiting
    BY <1>1, <1>2, UploadAssumption DEF Bounded, Steps, Waiting
  <1>4. FairRequest(q, x, seq, now)
    BY <1>1, <1>2, <1>3, StillWaiting
  <1> QED  BY <1>4 DEF q

LEMMA Polled ==
    ASSUME NEW r, NEW x, NEW seq, NEW now, FairRequest(r, x, seq, now), r.at = "created",
           r.polls + 1 < MaxPolls
    PROVE  FairRequest([r EXCEPT !.at = "created", !.polls = r.polls + 1], x, seq, now)
  <1> DEFINE q == [r EXCEPT !.at = "created", !.polls = r.polls + 1]
  <1>1. Bounded(r, Len(seq)) /\ r.at \in Waiting
    BY DEF FairRequest, Waiting
  <1>2. /\ IsRequest(q) /\ q.at = "created" /\ q.attempt = r.attempt
        /\ q.polls = r.polls + 1
        /\ q.jobs = r.jobs /\ q.listed = r.listed /\ q.file = r.file /\ q.doc = r.doc
        /\ q.version = r.version /\ q.values = r.values
    BY <1>1 DEF Bounded, IsRequest
  <1> HIDE DEF q
  <1>3. Bounded(q, Len(seq)) /\ q.at \in Waiting
    BY <1>1, <1>2, UploadAssumption DEF Bounded, Steps, Waiting
  <1>4. FairRequest(q, x, seq, now)
    BY <1>1, <1>2, <1>3, StillWaiting
  <1> QED  BY <1>4 DEF q

LEMMA JobEnded ==
    ASSUME NEW r, NEW x, NEW seq, NEW now, FairRequest(r, x, seq, now), r.at = "created",
           NEW status
    PROVE  FairRequest([r EXCEPT !.at = "finished", !.remote = status], x, seq, now)
  <1> DEFINE q == [r EXCEPT !.at = "finished", !.remote = status]
  <1>1. Bounded(r, Len(seq)) /\ r.at \in Waiting
    BY DEF FairRequest, Waiting
  <1>2. /\ IsRequest(q) /\ q.at = "finished" /\ q.attempt = r.attempt /\ q.polls = r.polls
        /\ q.jobs = r.jobs /\ q.listed = r.listed /\ q.file = r.file /\ q.doc = r.doc
        /\ q.version = r.version /\ q.values = r.values
    BY <1>1 DEF Bounded, IsRequest
  <1> HIDE DEF q
  <1>3. Bounded(q, Len(seq)) /\ q.at \in Waiting
    BY <1>1, <1>2 DEF Bounded, Steps, Waiting
  <1>4. FairRequest(q, x, seq, now)
    BY <1>1, <1>2, <1>3, StillWaiting
  <1> QED  BY <1>4 DEF q

\* At most as many jobs as attempts have been started, so one more is within the bound.
LEMMA Retried ==
    ASSUME NEW r, NEW x, NEW seq, NEW now, FairRequest(r, x, seq, now), r.at \in Waiting,
           r.attempt < 2
    PROVE  FairRequest([r EXCEPT !.at = "asked", !.attempt = @ + 1, !.remote = None],
                       x, seq, now)
  <1> DEFINE q == [r EXCEPT !.at = "asked", !.attempt = @ + 1, !.remote = None]
  <1>1. Bounded(r, Len(seq))
    BY DEF FairRequest
  <1>2. /\ IsRequest(q) /\ q.at = "asked" /\ q.attempt = r.attempt + 1 /\ q.polls = r.polls
        /\ q.jobs = r.jobs /\ q.listed = r.listed /\ q.file = r.file /\ q.doc = r.doc
        /\ q.version = r.version /\ q.values = r.values
    BY <1>1 DEF Bounded, IsRequest
  <1> HIDE DEF q
  <1>3. Bounded(q, Len(seq)) /\ q.at \in Waiting
    BY <1>1, <1>2 DEF Bounded, Steps, Waiting
  <1>4. FairRequest(q, x, seq, now)
    BY <1>2, <1>3, StillWaiting
  <1> QED  BY <1>4 DEF q

LEMMA VerdictGiven ==
    ASSUME NEW r, NEW x, NEW seq, NEW now, FairRequest(r, x, seq, now), r.at \in Waiting,
           NEW verdict, FairVerdict(verdict, r.doc, NameAmong(seq, r.listed)),
           HonestLabel(verdict, x, r.remote),
           Income \in Ruled
             => FairIncome(verdict, r.values, IncomeRead(x, r.file, TakenFor(verdict, r.doc)))
    PROVE  FairRequest([r EXCEPT !.at = "judged", !.verdict = verdict], x, seq, now)
  <1> DEFINE q == [r EXCEPT !.at = "judged", !.verdict = verdict]
  <1>1. Bounded(r, Len(seq)) /\ Legible(r) /\ Informed(r, now)
    BY DEF FairRequest
  <1>2. /\ IsRequest(q) /\ q.at = "judged" /\ q.attempt = r.attempt /\ q.polls = r.polls
        /\ q.jobs = r.jobs /\ q.listed = r.listed /\ q.file = r.file /\ q.doc = r.doc
        /\ q.version = r.version /\ q.values = r.values /\ q.remote = r.remote
        /\ q.verdict = verdict
    BY <1>1 DEF Bounded, IsRequest
  <1> HIDE DEF q
  <1>3. Bounded(q, Len(seq))
    BY <1>1, <1>2 DEF Bounded, Steps
  <1>4. Legible(q) /\ Informed(q, now) /\ JudgedFairly(q, x, seq)
    BY <1>1, <1>2 DEF Legible, Informed, JudgedFairly
  <1>5. FairRequest(q, x, seq, now)
    BY <1>2, <1>3, <1>4 DEF FairRequest, Waiting
  <1> QED  BY <1>5 DEF q

-----------------------------------------------------------------------------
(* The verdict that a request is given.                                    *)

IsVerdict(verdict) == DOMAIN verdict = {"verified", "confidence", "values", "conflicts",
                                        "name", "id", "doc", "engine"}

LEMMA LocalNamesNoEngine ==
    ASSUME NEW text, NEW declared, NEW prior, NEW trained
    PROVE  /\ IsVerdict(LocalVerdict(text, declared, prior, trained))
           /\ LocalVerdict(text, declared, prior, trained).engine = None
  <1> DEFINE class == Refine(text, declared, Classify(text, declared))
             local == LocalVerdict(text, declared, prior, trained)
  <1>1. Typed(text)
        => local = Verdict(TRUE, 9500, Only(text.manual, Fields), {}, Blank, declared)
    BY DEF LocalVerdict
  <1>2. ~ Typed(text)
        => \/ local \in {Rejected(0, NoDoc), Rejected(text.ocr * class.p, NoDoc),
                         Rejected(35 * text.ocr, class.doc)}
           \/ local = Interpreted(text, class.doc, class.p, prior)
    BY DEF LocalVerdict
  <1> HIDE DEF class, local
  <1>3. IsVerdict(local) /\ local.engine = None
    BY <1>1, <1>2 DEF Rejected, Interpreted, Verdict, IsVerdict
  <1> QED  BY <1>3 DEF local

LEMMA MockNamesNoEngine ==
    ASSUME NEW text, Measured(text), NEW declared \in DocTypes, NEW prior
    PROVE  /\ MockVerdict(text, declared, prior).engine = None
           /\ MockVerdict(text, declared, prior).doc \in DocTypes
  <1> DEFINE doc  == MockType(text, declared)
             mock == MockVerdict(text, declared, prior)
  <1>1. doc \in DocTypes
    BY LikeliestIsOne DEF MockType
  <1>2. \/ mock \in {Rejected(95 * 85, doc), Rejected(4500, doc)}
        \/ mock = Simulated(text, doc, MockConflicts(text, doc, prior))
        \/ mock = Verdict(MockConflicts(text, doc, prior) = {}, 95 * 95, MockFound(text, doc),
                          MockConflicts(text, doc, prior), text, doc)
    BY DEF MockVerdict
  <1> HIDE DEF doc, mock
  <1>3. mock.engine = None /\ mock.doc = doc
    BY <1>2 DEF Rejected, Simulated, Verdict
  <1> QED  BY <1>1, <1>3 DEF mock

\* The fallback only puts another name on the verdict.
LEMMA FallbackIsFair ==
    ASSUME NEW verdict, IsVerdict(verdict), NEW declared, NEW name, NEW seen, NEW read,
           FairVerdict(verdict, declared, name)
    PROVE  /\ FairVerdict(Fallback(verdict), declared, name)
           /\ Fallback(verdict).engine = "local_ml"
           /\ TakenFor(Fallback(verdict), declared) = TakenFor(verdict, declared)
           /\ FairIncome(verdict, seen, read) => FairIncome(Fallback(verdict), seen, read)
  <1> DEFINE other == Fallback(verdict)
  <1>1. /\ other.verified = verdict.verified /\ other.confidence = verdict.confidence
        /\ other.values = verdict.values /\ other.conflicts = verdict.conflicts
        /\ other.name = verdict.name /\ other.doc = verdict.doc /\ other.engine = "local_ml"
    BY DEF IsVerdict, Fallback
  <1> HIDE DEF other
  <1>2. TakenFor(other, declared) = TakenFor(verdict, declared)
    BY <1>1 DEF TakenFor
  <1>3. FairVerdict(other, declared, name)
    BY <1>1, <1>2 DEF FairVerdict
  <1>4. FairIncome(verdict, seen, read) => FairIncome(other, seen, read)
    BY <1>1 DEF FairIncome
  <1> QED  BY <1>1, <1>2, <1>3, <1>4 DEF other

LEMMA WhatIsRead ==
    ASSUME IInv, NEW u \in Uploads, upload[u].at \in Waiting
    PROVE  /\ TextOf(u) = TextIn(upload[u].file, settings) /\ Measured(TextOf(u))
           /\ upload[u].doc \in DocTypes
           /\ Prior(u).name = NameAmong(rows, upload[u].listed)
           /\ Prior(u).values = upload[u].values /\ Numbers(Prior(u).values)
           /\ settings.provider \in Providers
  <1>1. Legible(upload[u]) /\ Informed(upload[u], journey)
    BY DEF IInv, FairRequest
  <1>2. TextOf(u) = TextIn(upload[u].file, settings)
    BY DEF TextOf, TextIn
  <1>3. Measured(TextOf(u))
    BY <1>1, TextIsMeasured DEF TextOf, Legible
  <1>4. /\ Prior(u).name = NameAmong(rows, upload[u].listed)
        /\ Prior(u).values = upload[u].values
    BY DEF Prior, NameIn, NameAmong
  <1>5. settings.provider \in Providers
    BY UploadAssumption DEF IInv
  <1> QED  BY <1>1, <1>2, <1>3, <1>4, <1>5 DEF Legible, Informed

LEMMA LocalEngineIsFair ==
    ASSUME IInv, NEW u \in Uploads, upload[u].at \in Waiting
    PROVE  /\ FairVerdict(LocalEngine(u), upload[u].doc, NameAmong(rows, upload[u].listed))
           /\ HonestLabel(LocalEngine(u), settings, upload[u].remote)
           /\ Income \in Ruled
              => FairIncome(LocalEngine(u), upload[u].values,
                            IncomeRead(settings, upload[u].file,
                                       TakenFor(LocalEngine(u), upload[u].doc)))
  <1> DEFINE text  == TextOf(u)
             doc   == upload[u].doc
             prior == Prior(u)
             local == LocalVerdict(text, doc, prior, settings.trained)
             mock  == MockVerdict(text, doc, prior)
             name  == NameAmong(rows, upload[u].listed)
  <1>1. /\ text = TextIn(upload[u].file, settings) /\ Measured(text) /\ doc \in DocTypes
        /\ prior.name = name /\ prior.values = upload[u].values /\ Numbers(prior.values)
        /\ settings.provider \in Providers
    BY WhatIsRead
  <1>2. /\ settings.provider = "mock" => LocalEngine(u) = mock
        /\ settings.provider = "local_ml" => LocalEngine(u) = local
        /\ settings.provider = "sarvam" => LocalEngine(u) = Fallback(local)
    BY DEF LocalEngine
  <1> HIDE DEF text, doc, prior, name
  <1>3. /\ FairVerdict(local, doc, name) /\ IsVerdict(local) /\ local.engine = None
        /\ Income \in Ruled => FairIncome(local, prior.values, ~ Typed(text))
    BY <1>1, LocalIsFair, LocalNamesNoEngine, LocalIncome
  <1>4. /\ FairVerdict(mock, doc, name) /\ mock.engine = None /\ mock.doc \in DocTypes
        /\ Income \in Ruled
           => FairIncome(mock, prior.values, Income \in DOMAIN Found(text, mock.doc))
    BY <1>1, MockIsFair, MockNamesNoEngine, MockIncome
  <1> HIDE DEF local, mock
  <1>5. CASE settings.provider = "mock"
    <2>1. TakenFor(mock, doc) = mock.doc
      BY <1>4, DocumentAssumption DEF TakenFor
    <2>2. IncomeRead(settings, upload[u].file, mock.doc)
          => Income \in DOMAIN Found(text, mock.doc)
      BY <1>1, <1>5 DEF IncomeRead
    <2>3. Income \in Ruled
          => FairIncome(mock, prior.values, IncomeRead(settings, upload[u].file, mock.doc))
      BY <1>4, <2>2 DEF FairIncome
    <2>4. HonestLabel(mock, settings, upload[u].remote)
      BY <1>4, <1>5 DEF HonestLabel, LabelIn, Providers
    <2> QED  BY <1>1, <1>2, <1>4, <1>5, <2>1, <2>3, <2>4 DEF doc, name
  <1>6. \A read : read = IncomeRead(settings, upload[u].file, TakenFor(local, doc))
                 => (read => ~ Typed(text))
    BY <1>1 DEF IncomeRead
  <1>7. Income \in Ruled
        => FairIncome(local, prior.values,
                      IncomeRead(settings, upload[u].file, TakenFor(local, doc)))
    BY <1>3, <1>6 DEF FairIncome
  <1>8. CASE settings.provider = "local_ml"
    <2>1. HonestLabel(local, settings, upload[u].remote)
      BY <1>3, <1>8 DEF HonestLabel, LabelIn, Providers
    <2> QED  BY <1>1, <1>2, <1>3, <1>7, <1>8, <2>1 DEF doc, name
  <1>9. CASE settings.provider = "sarvam"
    <2>1. /\ FairVerdict(Fallback(local), doc, name) /\ Fallback(local).engine = "local_ml"
          /\ TakenFor(Fallback(local), doc) = TakenFor(local, doc)
          /\ Income \in Ruled
             => FairIncome(Fallback(local), prior.values,
                           IncomeRead(settings, upload[u].file, TakenFor(local, doc)))
      BY <1>3, <1>7, FallbackIsFair
    <2>2. HonestLabel(Fallback(local), settings, upload[u].remote)
      BY <2>1, UploadAssumption DEF HonestLabel, LabelIn, Providers
    <2> QED  BY <1>1, <1>2, <1>9, <2>1, <2>2 DEF doc, name
  <1> QED  BY <1>1, <1>5, <1>8, <1>9 DEF Providers

-----------------------------------------------------------------------------
(* The actions.                                                            *)

LEMMA StartIsFair ==
    ASSUME Init
    PROVE  IInv
  <1>1. /\ settings \in Settings /\ journey.version = 1 /\ journey.values \in Starts
        /\ rows = <<>> /\ upload = [u \in Uploads |-> Idle]
    BY DEF Init
  <1>2. SoundJourney
    BY <1>1, UploadAssumption DEF SoundJourney
  <1>3. rows \in Seq({}) /\ Len(rows) = 0 /\ DOMAIN rows = {}
    BY <1>1
  <1>4. IsSeq(rows)
    BY <1>3 DEF IsSeq
  <1>5. Idle.at = "idle" /\ Idle = [Idle EXCEPT !.at = "idle"]
    BY DEF Idle
  <1>6. \A u \in Uploads : FairRequest(upload[u], settings, rows, journey)
    <2> DEFINE q == [Idle EXCEPT !.at = "idle"]
    <2>1. Len(rows) \in Nat
      BY <1>3
    <2>2. FairRequest(q, settings, rows, journey)
      BY <2>1, IdleIsFair
    <2> HIDE DEF q
    <2>3. FairRequest(Idle, settings, rows, journey)
      BY <1>5, <2>2 DEF q
    <2> QED  BY <1>1, <2>3
  <1> QED  BY <1>1, <1>2, <1>3, <1>4, <1>6 DEF IInv

LEMMA SubmitIsFair ==
    ASSUME IInv, NEW u \in Uploads, NEW case \in Cases[settings.provider],
           NEW version, Submit(u, case.file, case.doc, version)
    PROVE  IInv'
  <1> DEFINE asked == [Idle EXCEPT !.at = "asked", !.file = case.file, !.doc = case.doc,
                                   !.version = version, !.values = journey.values,
                                   !.listed = Len(rows)]
             answer  == Refusal(version, case.file)
             refused == [Idle EXCEPT !.at = "refused", !.answer = answer]
  <1>1. upload[u].at = "idle" /\ UNCHANGED <<settings, journey, rows>>
    BY DEF Submit
  <1>2. Len(rows) \in Nat /\ journey.version \in Nat \ {0} /\ Numbers(journey.values)
    BY UploadAssumption DEF IInv, IsSeq, SoundJourney
  <1>3. case.doc \in DocTypes /\ Measured(case.file.layer) /\ Measured(case.file.scan)
    BY UploadAssumption DEF IInv
  <1>4. CASE answer = "none"
    <2>1. version = journey.version
      BY <1>4 DEF Refusal
    <2>2. upload' = [upload EXCEPT ![u] = asked]
      BY <1>4 DEF Submit
    <2>3. FairRequest(asked, settings, rows, journey)
      BY <1>2, <1>3, <2>1, Submitted
    <2> HIDE DEF asked
    <2> QED  BY <1>1, <2>2, <2>3, OneRequest
  <1>5. CASE answer # "none"
    <2>1. upload' = [upload EXCEPT ![u] = refused]
      BY <1>5 DEF Submit
    <2>2. FairRequest(refused, settings, rows, journey)
      BY <1>2, IdleIsFair
    <2> HIDE DEF refused
    <2> QED  BY <1>1, <2>1, <2>2, OneRequest
  <1> QED  BY <1>4, <1>5

LEMMA JudgedIsFair ==
    ASSUME IInv, NEW u \in Uploads, upload[u].at \in Waiting, NEW verdict, Judged(u, verdict),
           UNCHANGED <<settings, journey, rows>>,
           FairVerdict(verdict, upload[u].doc, NameAmong(rows, upload[u].listed)),
           HonestLabel(verdict, settings, upload[u].remote),
           Income \in Ruled
             => FairIncome(verdict, upload[u].values,
                           IncomeRead(settings, upload[u].file, TakenFor(verdict, upload[u].doc)))
    PROVE  IInv'
  <1> DEFINE r == [upload[u] EXCEPT !.at = "judged", !.verdict = verdict]
  <1>1. FairRequest(upload[u], settings, rows, journey)
    BY DEF IInv
  <1>2. FairRequest(r, settings, rows, journey)
    BY <1>1, VerdictGiven
  <1>3. upload' = [upload EXCEPT ![u] = r]
    BY DEF Judged, IInv
  <1>4. upload[u].at # "stored"
    BY DEF Waiting
  <1> HIDE DEF r
  <1> QED  BY <1>2, <1>3, <1>4, OneRequest

LEMMA LocalAnswerIsFair ==
    ASSUME IInv, NEW u \in Uploads, Interpret(u) \/ SarvamFails(u)
    PROVE  IInv'
  <1>1. /\ upload[u].at \in Waiting /\ Judged(u, LocalEngine(u))
        /\ UNCHANGED <<settings, journey, rows>>
    BY DEF Interpret, SarvamFails, Waiting
  <1>2. PICK verdict : verdict = LocalEngine(u)
    OBVIOUS
  <1> QED  BY <1>1, LocalEngineIsFair, JudgedIsFair

LEMMA CreateJobIsFair ==
    ASSUME IInv, NEW u \in Uploads, CreateJob(u)
    PROVE  IInv'
  <1> DEFINE r == [upload[u] EXCEPT !.at = "created", !.polls = 0, !.jobs = @ + 1]
  <1>1. FairRequest(upload[u], settings, rows, journey) /\ upload[u].at = "asked"
    BY DEF IInv, CreateJob
  <1>2. FairRequest(r, settings, rows, journey)
    BY <1>1, JobCreated
  <1>3. upload' = [upload EXCEPT ![u] = r] /\ UNCHANGED <<settings, journey, rows>>
    BY DEF CreateJob, IInv
  <1> HIDE DEF r
  <1> QED  BY <1>1, <1>2, <1>3, OneRequest

LEMMA PollIsFair ==
    ASSUME IInv, NEW u \in Uploads, PollRunning(u) \/ PollFinished(u)
    PROVE  IInv'
  <1>1. /\ FairRequest(upload[u], settings, rows, journey) /\ upload[u].at = "created"
        /\ UNCHANGED <<settings, journey, rows>>
    BY DEF IInv, PollRunning, PollFinished
  <1>2. CASE PollRunning(u)
    <2> DEFINE r == [upload[u] EXCEPT !.at = "created", !.polls = upload[u].polls + 1]
    <2>1. upload[u].polls + 1 < MaxPolls
      BY <1>2 DEF PollRunning
    <2>2. FairRequest(r, settings, rows, journey)
      BY <1>1, <2>1, Polled
    <2>3. upload' = [upload EXCEPT ![u] = r]
      BY <1>2 DEF PollRunning, Proceed, IInv
    <2> HIDE DEF r
    <2> QED  BY <1>1, <2>2, <2>3, OneRequest
  <1>3. CASE PollFinished(u)
    <2>1. PICK status : upload' = [upload EXCEPT ![u].at = "finished", ![u].remote = status]
      BY <1>3 DEF PollFinished
    <2> DEFINE r == [upload[u] EXCEPT !.at = "finished", !.remote = status]
    <2>2. FairRequest(r, settings, rows, journey)
      BY <1>1, JobEnded
    <2>3. upload' = [upload EXCEPT ![u] = r]
      BY <2>1 DEF IInv
    <2> HIDE DEF r
    <2> QED  BY <1>1, <2>2, <2>3, OneRequest
  <1> QED  BY <1>2, <1>3

LEMMA DownloadIsFair ==
    ASSUME IInv, NEW u \in Uploads, Download(u)
    PROVE  IInv'
  <1>1. upload[u].at \in Waiting /\ UNCHANGED <<settings, journey, rows>>
    BY DEF Download, Waiting
  <1>2. PICK answer \in Answers :
           /\ answer.status = upload[u].remote
           /\ SarvamVerdict(answer, upload[u].doc, Prior(u)).confidence \in Confidences
           /\ Judged(u, SarvamVerdict(answer, upload[u].doc, Prior(u)))
    BY DEF Download
  <1> DEFINE prior   == Prior(u)
             doc     == upload[u].doc
             verdict == SarvamVerdict(answer, doc, prior)
  <1>3. /\ doc \in DocTypes /\ prior.name = NameAmong(rows, upload[u].listed)
        /\ prior.values = upload[u].values /\ Numbers(prior.values)
    BY <1>1, WhatIsRead
  <1>4. Numbers(answer.values)
    BY UploadAssumption
  <1> HIDE DEF prior, doc
  <1>5. /\ FairVerdict(verdict, doc, prior.name) /\ verdict.engine = "sarvam"
        /\ verdict.verified => answer.status = "completed"
    BY <1>2, <1>3, <1>4, SarvamIsFair DEF prior, doc
  <1>6. FairIncome(verdict, prior.values, TRUE)
    BY <1>3, <1>4, SarvamIncome
  <1> HIDE DEF verdict
  <1>7. HonestLabel(verdict, settings, upload[u].remote)
    BY <1>2, <1>5, UploadAssumption DEF HonestLabel, LabelIn, Providers
  <1>8. FairIncome(verdict, upload[u].values,
                   IncomeRead(settings, upload[u].file, TakenFor(verdict, upload[u].doc)))
    BY <1>3, <1>6 DEF FairIncome
  <1>9. Judged(u, verdict)
    BY <1>2 DEF verdict, prior, doc
  <1> QED  BY <1>1, <1>3, <1>5, <1>7, <1>8, <1>9, JudgedIsFair DEF doc

LEMMA TimeOutIsFair ==
    ASSUME IInv, NEW u \in Uploads, TimeOut(u)
    PROVE  IInv'
  <1>1. upload[u].at \in Waiting /\ UNCHANGED <<settings, journey, rows>>
    BY DEF TimeOut, Cancelled
  <1>2. FairRequest(upload[u], settings, rows, journey)
    BY DEF IInv
  <1>3. CASE Retry(u)
    <2> DEFINE r == [upload[u] EXCEPT !.at = "asked", !.attempt = @ + 1, !.remote = None]
    <2>1. FairRequest(r, settings, rows, journey)
      BY <1>1, <1>2, <1>3, Retried DEF Retry
    <2>2. upload' = [upload EXCEPT ![u] = r]
      BY <1>3 DEF TimeOut, IInv
    <2>3. upload[u].at # "stored"
      BY <1>1 DEF Waiting
    <2> HIDE DEF r
    <2> QED  BY <1>1, <2>1, <2>2, <2>3, OneRequest
  <1>4. CASE ~ Retry(u)
    <2>1. Judged(u, Unavailable)
      BY <1>4 DEF TimeOut
    <2>2. 0 \in Confidences
      BY DEF Confidences
    <2>3. FairVerdict(Unavailable, upload[u].doc, NameAmong(rows, upload[u].listed))
      BY <2>2, RejectionIsFair DEF Unavailable
    <2>4. Unavailable.verified = FALSE /\ Unavailable.engine = None
      BY DEF Unavailable, Rejected, Verdict
    <2>5. HonestLabel(Unavailable, settings, upload[u].remote)
      BY <2>4, <1>1, WhatIsRead DEF HonestLabel, LabelIn
    <2>6. FairIncome(Unavailable, upload[u].values,
                     IncomeRead(settings, upload[u].file, TakenFor(Unavailable, upload[u].doc)))
      BY <2>4 DEF FairIncome
    <2> QED  BY <1>1, <2>1, <2>3, <2>5, <2>6, JudgedIsFair
  <1> QED  BY <1>3, <1>4

LEMMA RowAppended ==
    ASSUME NEW s, IsSeq(s), NEW row
    PROVE  /\ IsSeq(Append(s, row)) /\ Extends(Append(s, row), s)
           /\ Len(s) \in Nat /\ DOMAIN s = 1..Len(s)
           /\ DOMAIN Append(s, row) = 1..(Len(s) + 1)
           /\ Append(s, row)[Len(s) + 1] = row
  <1> DEFINE S == {s[n] : n \in DOMAIN s}
             t == Append(s, row)
  <1>1. s \in Seq(S \cup {row}) /\ s \in Seq(S)
    <2>1. s \in Seq(S)
      BY DEF IsSeq
    <2> HIDE DEF S
    <2> QED  BY <2>1
  <1> HIDE DEF S
  <1>2. /\ t \in Seq(S \cup {row}) /\ Len(t) = Len(s) + 1 /\ Len(s) \in Nat
        /\ DOMAIN s = 1..Len(s) /\ DOMAIN t = 1..(Len(s) + 1)
        /\ t[Len(s) + 1] = row /\ \A n \in 1..Len(s) : t[n] = s[n]
    BY <1>1, AppendProperties
  <1> HIDE DEF t
  <1>3. t \in Seq({t[n] : n \in DOMAIN t})
    BY <1>2
  <1>4. IsSeq(t) /\ Extends(t, s)
    BY <1>2, <1>3 DEF IsSeq, Extends
  <1> QED  BY <1>2, <1>4 DEF t

LEMMA StoredRowIsFair ==
    ASSUME IInv, NEW u \in Uploads, upload[u].at = "judged", NEW r, r.at = "stored",
           r.listed = upload[u].listed, r.remote = upload[u].remote, r.file = upload[u].file,
           r.values = upload[u].values
    PROVE  FairRow(Row(u), r, settings, rows)
  <1> DEFINE q == upload[u]
             verdict == upload[u].verdict
             row == Row(u)
  <1>1. Legible(q) /\ JudgedFairly(q, settings, rows) /\ q.listed \in 0..Len(rows)
    BY DEF IInv, FairRequest, Bounded
  <1>2. /\ row.declared = q.doc /\ row.of = TypeOf(u) /\ row.verified = Verified(u)
        /\ row.values = verdict.values /\ row.confidence = verdict.confidence
        /\ row.name = verdict.name /\ row.provider = Label(u) /\ row.upload = u
    BY DEF Row
  <1>3. TypeOf(u) = TakenFor(verdict, q.doc)
    BY DEF TypeOf, TakenFor
  <1>4. Verified(u) => /\ verdict.verified /\ verdict.confidence >= ThresholdOf(TypeOf(u))
    BY DEF Verified, Genuine, Sufficient
  <1>5. Label(u) = LabelIn(verdict, settings)
    BY DEF Label, LabelIn
  <1>6. /\ FairVerdict(verdict, q.doc, NameAmong(rows, q.listed))
        /\ HonestLabel(verdict, settings, q.remote)
        /\ Income \in Ruled => FairIncome(verdict, q.values,
                                          IncomeRead(settings, q.file, TakenFor(verdict, q.doc)))
    BY <1>1 DEF JudgedFairly
  <1> HIDE DEF row, verdict, q
  <1>7. row.confidence \in Confidences /\ row.provider \in Providers
    BY <1>2, <1>5, <1>6 DEF FairVerdict, HonestLabel
  <1>8. row.verified =>
          /\ row.of \in AcceptedWith(row.declared) /\ row.confidence >= ThresholdOf(row.of)
          /\ DOMAIN row.values # {} /\ Numbers(row.values)
          /\ row.provider = "sarvam" => q.remote = "completed"
          /\ row.name # None /\ NameAmong(rows, q.listed) # None /\ Asked(row.of)
             => NamesMatch(row.name, NameAmong(rows, q.listed))
    BY <1>2, <1>3, <1>4, <1>5, <1>6 DEF FairVerdict, HonestLabel
  <1>9. Income \in Ruled => FairIncome(row, q.values, IncomeRead(settings, q.file, row.of))
    BY <1>2, <1>3, <1>4, <1>6 DEF FairIncome
  <1>10. FairRow(row, r, settings, rows)
    BY <1>7, <1>8, <1>9 DEF FairRow, q
  <1> QED  BY <1>10 DEF row

\* A document that is genuine is sufficient, or has the values for a reviewer.
LEMMA ResponseLeadsSomewhere ==
    ASSUME IInv, NEW u \in Uploads, upload[u].at = "judged"
    PROVE  LeadsSomewhere(Response(u))
  <1>1. FairVerdict(upload[u].verdict, upload[u].doc, NameAmong(rows, upload[u].listed))
    BY DEF IInv, FairRequest, JudgedFairly
  <1>2. Genuine(u) => DOMAIN upload[u].verdict.values # {}
    BY <1>1 DEF Genuine, FairVerdict
  <1>3. /\ Response(u).verified = Verified(u) /\ Response(u).review = NeedsReview(u)
        /\ Response(u).preview = Previews(u)
    BY DEF Response
  <1>4. /\ Previews(u) => Verified(u) \/ NeedsReview(u)
        /\ ~ (Verified(u) /\ NeedsReview(u))
    BY <1>2 DEF Previews, Verified, NeedsReview, Genuine
  <1> QED  BY <1>3, <1>4 DEF LeadsSomewhere

LEMMA StoreIsFair ==
    ASSUME IInv, NEW u \in Uploads, Store(u)
    PROVE  IInv'
  <1> DEFINE r == [Idle EXCEPT !.at = "stored", !.file = upload[u].file, !.doc = upload[u].doc,
                               !.version = upload[u].version, !.values = upload[u].values,
                               !.listed = upload[u].listed, !.remote = upload[u].remote,
                               !.answer = Response(u)]
  <1>1. /\ upload[u].at = "judged" /\ rows' = Append(rows, Row(u))
        /\ upload' = [upload EXCEPT ![u] = r] /\ settings' = settings /\ journey' = journey
    BY DEF Store
  <1>2. FairRequest(upload[u], settings, rows, journey)
    BY DEF IInv
  <1>3. /\ IsRequest(r) /\ r.at = "stored" /\ r.attempt = 1 /\ r.polls = 0 /\ r.jobs = 0
        /\ r.file = upload[u].file /\ r.version = upload[u].version
        /\ r.values = upload[u].values /\ r.listed = upload[u].listed
        /\ r.remote = upload[u].remote /\ r.answer = Response(u)
    BY DEF Idle, IsRequest
  <1> HIDE DEF r
  <1>4. FairRequest(r, settings, rows, journey)
    <2>1. Bounded(r, Len(rows))
      BY <1>2, <1>3, UploadAssumption DEF FairRequest, Bounded, Steps
    <2>2. Informed(r, journey)
      BY <1>1, <1>2, <1>3 DEF FairRequest, Informed
    <2>3. LeadsSomewhere(r.answer)
      BY <1>1, <1>3, ResponseLeadsSomewhere
    <2> QED  BY <1>3, <2>1, <2>2, <2>3 DEF FairRequest, Waiting
  <1>5. FairRow(Row(u), r, settings, rows) /\ Row(u).upload = u
    BY <1>1, <1>3, StoredRowIsFair DEF Row
  <1>6. /\ IsSeq(rows') /\ Extends(rows', rows) /\ Len(rows) \in Nat
        /\ DOMAIN rows = 1..Len(rows) /\ DOMAIN rows' = 1..(Len(rows) + 1)
        /\ rows'[Len(rows) + 1] = Row(u)
    BY <1>1, RowAppended DEF IInv
  <1>7. /\ upload'[u] = r /\ \A w \in Uploads \ {u} : upload'[w] = upload[w]
        /\ upload' = [w \in Uploads |-> upload'[w]]
    BY <1>1 DEF IInv
  <1>8. journey.version \in Nat
    BY UploadAssumption DEF IInv, SoundJourney
  <1>9. \A w \in Uploads : FairRequest(upload'[w], settings, rows', journey)
    <2> TAKE w \in Uploads
    <2>1. FairRequest(upload'[w], settings, rows, journey)
      BY <1>4, <1>7 DEF IInv
    <2> QED  BY <1>6, <1>8, <2>1, RequestStaysFair
  <1>10. \A n \in DOMAIN rows : /\ rows'[n] = rows[n] /\ rows[n].upload \in Uploads \ {u}
                               /\ FairRow(rows[n], upload[rows[n].upload], settings, rows')
    <2> TAKE n \in DOMAIN rows
    <2>1. PICK w \in Uploads : w = rows[n].upload /\ FairRow(rows[n], upload[w], settings, rows)
      BY DEF IInv
    <2>2. w # u
      BY <1>1, <2>1 DEF FairRow
    <2>3. upload[w].listed \in 0..Len(rows)
      BY DEF IInv, FairRequest, Bounded
    <2>4. FairRow(rows[n], upload[w], settings, rows')
      BY <1>6, <2>1, <2>3, RowStaysFair
    <2>5. rows'[n] = rows[n]
      BY <1>6 DEF Extends
    <2> QED  BY <2>1, <2>2, <2>4, <2>5
  <1>11. FairRow(Row(u), r, settings, rows')
    <2>1. r.listed \in 0..Len(rows)
      BY <1>4 DEF FairRequest, Bounded
    <2> QED  BY <1>5, <1>6, <2>1, RowStaysFair
  <1>12. \A n \in DOMAIN rows' : /\ rows'[n].upload \in Uploads
                                /\ FairRow(rows'[n], upload'[rows'[n].upload], settings, rows')
    <2> TAKE n \in DOMAIN rows'
    <2>1. CASE n \in DOMAIN rows
      BY <1>7, <1>10, <2>1
    <2>2. CASE n = Len(rows) + 1
      BY <1>5, <1>6, <1>7, <1>11, <2>2
    <2> QED  BY <1>6, <2>1, <2>2
  <1>13. \A m, n \in DOMAIN rows' : rows'[m].upload = rows'[n].upload => m = n
    <2>1. \A n \in DOMAIN rows : rows'[n].upload = rows[n].upload /\ rows[n].upload # u
      BY <1>10
    <2>2. rows'[Len(rows) + 1].upload = u
      BY <1>5, <1>6
    <2>3. \A n \in DOMAIN rows' : n \in DOMAIN rows \/ n = Len(rows) + 1
      BY <1>6
    <2> QED  BY <2>1, <2>2, <2>3 DEF IInv
  <1> QED  BY <1>1, <1>6, <1>7, <1>9, <1>12, <1>13 DEF IInv, SoundJourney

LEMMA CrashIsFair ==
    ASSUME IInv, Crash
    PROVE  IInv'
  <1> DEFINE lost == [Idle EXCEPT !.at = "lost"]
  <1>1. /\ UNCHANGED <<settings, journey, rows>>
        /\ upload' = [u \in Uploads |-> IF InFlight(u) THEN lost ELSE upload[u]]
    BY DEF Crash
  <1>2. Len(rows) \in Nat
    BY DEF IInv, IsSeq
  <1>3. FairRequest(lost, settings, rows, journey)
    BY <1>2, IdleIsFair
  <1> HIDE DEF lost
  <1>4. \A u \in Uploads : FairRequest(upload'[u], settings, rows, journey)
    BY <1>1, <1>3 DEF IInv
  <1>5. \A n \in DOMAIN rows : FairRow(rows[n], upload'[rows[n].upload], settings, rows)
    <2> TAKE n \in DOMAIN rows
    <2>1. /\ rows[n].upload \in Uploads /\ upload[rows[n].upload].at = "stored"
          /\ FairRow(rows[n], upload[rows[n].upload], settings, rows)
      BY DEF IInv, FairRow
    <2>2. ~ InFlight(rows[n].upload)
      BY <2>1 DEF InFlight, Waiting
    <2> QED  BY <1>1, <2>1, <2>2
  <1>6. upload' = [u \in Uploads |-> upload'[u]]
    BY <1>1
  <1> QED  BY <1>1, <1>4, <1>5, <1>6 DEF IInv, SoundJourney, IsSeq

LEMMA UseEvidenceIsFair ==
    ASSUME IInv, NEW n \in DOMAIN rows, NEW a \in DOMAIN Accepts, UseEvidence(n, a)
    PROVE  IInv'
  <1>1. /\ rows[n].verified /\ Satisfies[a] \subseteq DOMAIN rows[n].values
        /\ journey.version < MaxVersion /\ UNCHANGED <<settings, rows, upload>>
        /\ journey'.version = journey.version + 1
        /\ journey'.values = [f \in DOMAIN journey.values \cup Satisfies[a] |->
                                 IF f \in Satisfies[a] THEN rows[n].values[f]
                                 ELSE journey.values[f]]
    BY DEF UseEvidence
  <1>2. Numbers(rows[n].values) /\ Satisfies[a] \subseteq Fields
    BY <1>1, UploadAssumption DEF IInv, FairRow
  <1>3. SoundJourney'
    BY <1>1, <1>2, UploadAssumption DEF IInv, SoundJourney, Numbers
  <1>4. Extends(rows, rows) /\ journey.version \in Nat
    BY UploadAssumption DEF IInv, IsSeq, SoundJourney, Extends
  <1>5. \A u \in Uploads : FairRequest(upload[u], settings, rows, journey')
    <2> TAKE u \in Uploads
    <2>1. FairRequest(upload[u], settings, rows, journey)
      BY DEF IInv
    <2> QED  BY <1>1, <1>4, <2>1, RequestStaysFair
  <1> QED  BY <1>1, <1>3, <1>5 DEF IInv, IsSeq

\* Whatever uploads interleave, crash, time out and fall back, each verdict in flight
\* and each stored row is fair to what its own upload saw.
THEOREM EvidenceIsFair == Spec => []IInv
  <1>1. Init => IInv
    BY StartIsFair
  <1>2. IInv /\ [Next]_vars => IInv'
    <2> SUFFICES ASSUME IInv, [Next]_vars
                 PROVE  IInv'
      OBVIOUS
    <2>1. CASE Submits
      BY <2>1, SubmitIsFair DEF Submits
    <2>2. CASE \E u \in Uploads : Serve(u)
      BY <2>2, LocalAnswerIsFair, CreateJobIsFair, PollIsFair, DownloadIsFair, TimeOutIsFair,
         StoreIsFair DEF Serve
    <2>3. CASE Crash
      BY <2>3, CrashIsFair
    <2>4. CASE \E n \in DOMAIN rows, a \in DOMAIN Accepts : UseEvidence(n, a)
      BY <2>4, UseEvidenceIsFair
    <2>5. CASE UNCHANGED vars
      BY <2>5 DEF vars, IInv, SoundJourney, IsSeq
    <2> QED  BY <2>1, <2>2, <2>3, <2>4, <2>5 DEF Next
  <1> QED  BY <1>1, <1>2, PTL DEF Spec

-----------------------------------------------------------------------------
(* What the invariant says of the evidence table.                          *)

\* Rows are as many as the uploads that stored them, so no upload counts more
\* rows than there are uploads.
LEMMA RowsAreFew ==
    ASSUME IInv
    PROVE  Len(rows) <= MaxUploads
  <1>1. /\ Len(rows) \in Nat /\ DOMAIN rows = 1..Len(rows) /\ MaxUploads \in Nat
        /\ \A n \in DOMAIN rows : rows[n].upload \in Uploads
        /\ \A m, n \in DOMAIN rows : rows[m].upload = rows[n].upload => m = n
    BY UploadAssumption DEF IInv, IsSeq
  <1> DEFINE f == [n \in 1..Len(rows) |-> rows[n].upload]
  <1>2. f \in [1..Len(rows) -> Uploads]
    BY <1>1
  <1>3. \A m, n \in 1..Len(rows) : f[m] = f[n] => m = n
    BY <1>1
  <1> HIDE DEF f
  <1>4. /\ IsFiniteSet(1..Len(rows)) /\ Cardinality(1..Len(rows)) = Len(rows)
        /\ IsFiniteSet(Uploads) /\ Cardinality(Uploads) = MaxUploads
    <2>1. \A k \in Nat : IsFiniteSet(1..k) /\ Cardinality(1..k) = k
      <3> TAKE k \in Nat
      <3>1. /\ IsFiniteSet(1..k)
            /\ Cardinality(1..k) = IF 1 > k THEN 0 ELSE k - 1 + 1
        BY FS_Interval
      <3> QED  BY <3>1
    <2> QED  BY <1>1, <2>1 DEF Uploads
  <1>5. ~ Cardinality(Uploads) < Cardinality(1..Len(rows))
    BY <1>2, <1>3, <1>4, FS_PigeonHole
  <1> QED  BY <1>1, <1>4, <1>5

\* Types; every row is labelled with an engine and an upload starts at most two jobs.
THEOREM UploadsTypeCorrect == Spec => []UploadsTypeOK
  <1>1. IInv => UploadsTypeOK
    <2> SUFFICES ASSUME IInv
                 PROVE  UploadsTypeOK
      OBVIOUS
    <2>1. Len(rows) <= MaxUploads /\ Len(rows) \in Nat /\ MaxUploads \in Nat
      BY RowsAreFew, UploadAssumption DEF IInv, IsSeq
    <2>2. \A u \in Uploads : /\ upload[u].at \in Steps /\ upload[u].attempt \in 1..2
                             /\ upload[u].polls \in 0..(MaxPolls - 1)
                             /\ upload[u].jobs \in 0..2
                             /\ upload[u].listed \in 0..MaxUploads
      <3> TAKE u \in Uploads
      <3>1. Bounded(upload[u], Len(rows))
        BY DEF IInv, FairRequest
      <3> QED  BY <2>1, <3>1 DEF Bounded
    <2>3. \A n \in DOMAIN rows : /\ rows[n].upload \in Uploads
                                 /\ rows[n].confidence \in Confidences
                                 /\ rows[n].provider \in Providers
      BY DEF IInv, FairRow
    <2> QED  BY <2>2, <2>3 DEF UploadsTypeOK, IInv, SoundJourney
  <1> QED  BY <1>1, EvidenceIsFair, PTL

\* A verified row has the confidence, the type and the values that verify it, and what
\* is labelled as Sarvam's was answered by a completed job.
THEOREM VerifiedWasEarned == Spec => []VerifiedIsEarned
  <1>1. IInv => VerifiedIsEarned
    BY DEF IInv, FairRow, VerifiedIsEarned
  <1> QED  BY <1>1, EvidenceIsFair, PTL

\* A verified document bears a name like the one on the latest document listed before.
THEOREM NamesAgree == Spec => []NameAgreesWithLatest
  <1>1. IInv => NameAgreesWithLatest
    <2> SUFFICES ASSUME IInv, NEW n \in DOMAIN rows
                 PROVE  LET named == {k \in 1..upload[rows[n].upload].listed :
                                        rows[k].name # None}
                        IN  /\ rows[n].verified /\ rows[n].name # None /\ named # {}
                            /\ rows[n].of \in Mapped /\ Mapping[rows[n].of].field \in Ruled
                            => NamesMatch(rows[n].name, rows[Latest(named)].name)
      BY DEF NameAgreesWithLatest
    <2>1. PICK u \in Uploads : u = rows[n].upload
      BY DEF IInv
    <2>2. PICK k \in Nat : k = upload[u].listed
      BY DEF IInv, IsSeq, FairRequest, Bounded
    <2> DEFINE named == {m \in 1..k : rows[m].name # None}
    <2>3. named # {} => Latest(named) \in named
      BY LatestIsOne
    <2>4. named # {} => /\ NameAmong(rows, k) = rows[Latest(named)].name
                        /\ NameAmong(rows, k) # None
      BY <2>3 DEF NameAmong
    <2>5. rows[n].verified /\ rows[n].name # None /\ NameAmong(rows, k) # None
          /\ Asked(rows[n].of) => NamesMatch(rows[n].name, NameAmong(rows, k))
      BY <2>1, <2>2 DEF IInv, FairRow
    <2> QED  BY <2>1, <2>2, <2>4, <2>5 DEF Asked
  <1> QED  BY <1>1, EvidenceIsFair, PTL

\* An answer that previews an action reports a verified or a reviewed document.
THEOREM PreviewsLead == Spec => []PreviewLeadsSomewhere
  <1>1. IInv => PreviewLeadsSomewhere
    BY DEF IInv, FairRequest, LeadsSomewhere, PreviewLeadsSomewhere
  <1> QED  BY <1>1, EvidenceIsFair, PTL

\* The comparison at the time of the judgement and the version that the upload saw.
LEMMA UseIsSeen ==
    ASSUME IInv, Income \in Ruled, NEW n \in DOMAIN rows, rows[n].verified,
           Income \in DOMAIN journey.values, journey.values[Income] # 0,
           IncomeIsRead(n), ~ upload[rows[n].upload].version < journey.version
    PROVE  Close(journey.values[Income], rows[n].values[Income])
  <1>1. PICK u \in Uploads : u = rows[n].upload
    BY DEF IInv
  <1>2. /\ FairRow(rows[n], upload[u], settings, rows)
        /\ FairRequest(upload[u], settings, rows, journey)
    BY <1>1 DEF IInv
  <1>3. Informed(upload[u], journey)
    BY <1>2 DEF FairRow, FairRequest
  <1>4. journey.version \in Nat
    BY UploadAssumption DEF IInv, SoundJourney
  <1>5. upload[u].values = journey.values
    BY <1>1, <1>3, <1>4 DEF Informed
  <1>6. IncomeRead(settings, upload[u].file, rows[n].of) /\ Income \in DOMAIN rows[n].values
    BY <1>1 DEF IncomeIsRead, IncomeRead, TextOf, TextIn
  <1>7. FairIncome(rows[n], journey.values, IncomeRead(settings, upload[u].file, rows[n].of))
    BY <1>2, <1>5 DEF FairRow
  <1> QED  BY <1>6, <1>7 DEF FairIncome

\* Where the pack has a rule about the income, an income that was read replaces a
\* contradicting one only if it was judged before that one was recorded.
THEOREM OverwritesAreSeen ==
    ASSUME Income \in Ruled
    PROVE  Spec => OverwritesOnlyUnseen
  <1> DEFINE Excused(new) ==
                \E n \in DOMAIN rows :
                   /\ rows[n].verified /\ Income \in DOMAIN rows[n].values
                   /\ rows[n].values[Income] = new
                   /\ ~ IncomeIsRead(n) \/ upload[rows[n].upload].version < journey.version
             Step ==
                \A old \in {journey.values[f] : f \in {Income} \cap DOMAIN journey.values} :
                   old # 0 /\ Apart(journey'.values[Income], old) * 100 > 15 * old
                   => Excused(journey'.values[Income])
  <1>1. IInv /\ [Next]_vars => Step
    <2> SUFFICES ASSUME IInv, [Next]_vars, Income \in DOMAIN journey.values,
                        NEW old, old = journey.values[Income], old # 0,
                        Apart(journey'.values[Income], old) * 100 > 15 * old
                 PROVE  Excused(journey'.values[Income])
      OBVIOUS
    <2>1. old \in Nat
      BY DEF IInv, SoundJourney, Numbers
    <2>2. journey'.values[Income] # old
      BY <2>1 DEF Apart
    <2>3. PICK n \in DOMAIN rows, a \in DOMAIN Accepts : UseEvidence(n, a)
      BY <2>2 DEF Next, vars, Submits, Submit, Serve, Interpret, CreateJob, PollRunning,
         PollFinished, Download, SarvamFails, TimeOut, Store, Crash
    <2>4. /\ rows[n].verified /\ Satisfies[a] \subseteq DOMAIN rows[n].values
          /\ journey'.values = [f \in DOMAIN journey.values \cup Satisfies[a] |->
                                  IF f \in Satisfies[a] THEN rows[n].values[f]
                                  ELSE journey.values[f]]
      BY <2>3 DEF UseEvidence
    <2>5. Income \in Satisfies[a] /\ journey'.values[Income] = rows[n].values[Income]
      BY <2>2, <2>4
    <2>6. PICK new \in Nat : new = rows[n].values[Income]
      BY <2>4, <2>5 DEF IInv, FairRow, Numbers
    <2>7. ~ Close(old, new)
      BY <2>1, <2>5, <2>6 DEF Close, Apart
    <2>8. ~ IncomeIsRead(n) \/ upload[rows[n].upload].version < journey.version
      BY <2>4, <2>6, <2>7, UseIsSeen
    <2> QED  BY <2>4, <2>5, <2>8
  <1>2. IInv /\ [Next]_vars => [Step]_vars
    BY <1>1
  <1> QED  BY <1>2, EvidenceIsFair, PTL DEF Spec, OverwritesOnlyUnseen

=============================================================================
