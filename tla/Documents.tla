----------------------------- MODULE Documents ------------------------------
(***************************************************************************)
(* What becomes of one uploaded document, without the service around it:   *)
(* how its text is obtained (docai/ocr.py), and the verdicts of the three  *)
(* engines: the local Document AI (ai/local_ml.py with docai/), MockAI     *)
(* with docai/document_validator.py, and the answer of Sarvam's extraction *)
(* job (ai/sarvam.py).                                                     *)
(*                                                                         *)
(* A text is a record of what the engines measure and find in it: words    *)
(* and ocr (the OCR confidence); top and p, the classifier's first class   *)
(* and its probability; score, the share of each type's markers found;     *)
(* intact, the types whose content validation it passes; the validated     *)
(* name and id (None if not found); values, the figures and names next to  *)
(* labels, of which those in valid are plausible; gross and deductions of  *)
(* a salary slip (or None); trouble, the words by which MockAI simulates a *)
(* conflict; manual, the fields of a form typed by hand.                   *)
(*                                                                         *)
(* Values are numbers, an employer's name too; a name or an identifier is  *)
(* a model value.                                                          *)
(***************************************************************************)
EXTENDS Naturals, FiniteSets

CONSTANTS
    DocTypes, NoDoc,
    Fields,          \* the fields of the state schema
    BooleanFields,
    Income,          \* the field monthly_income
    SalarySlip,      \* the document type SALARY_SLIP
    Mapping,         \* mapped type -> [field, action, threshold], from evidence_mappings
    Ruled,           \* the fields that an ambiguity rule is about
    Sought,          \* type -> fields that extract_fields_for_doc_type looks for
    IdentifierDocs,  \* types with an identifier of a known format
    AlikeNames,      \* pairs of different names that names_match accepts
    MockValue,       \* field -> the value MockAI supplies when it finds none
    MockClash,       \* the income MockAI reports with a simulated conflict
    Template,        \* type -> the text that stands in for an unreadable document
    Blank,           \* the text of a document from which nothing could be read
    None

Percentages == 0..100
Confidences == 0..10000

Numbers(values) == \A f \in DOMAIN values : values[f] \in Nat

\* What the engines measure is in percent.
Measured(text) == /\ text.ocr \in Percentages /\ text.p \in Percentages
                  /\ \A d \in DocTypes : text.score[d] \in Percentages
                  /\ Numbers(text.values) /\ Numbers(text.manual)

ASSUME DocumentAssumption ==
    /\ NoDoc \notin DocTypes /\ DOMAIN Mapping \subseteq DocTypes
    /\ Income \notin BooleanFields
    /\ \A d \in DOMAIN Mapping : MockValue[Mapping[d].field] \in Nat
    /\ Measured(Blank) /\ Blank.name = None
    /\ \A d \in DOMAIN Template : Measured(Template[d])

Greater(a, b) == IF a >= b THEN a ELSE b
Lesser(a, b)  == IF a >= b THEN b ELSE a
Apart(a, b)   == IF a >= b THEN a - b ELSE b - a
Mapped == DOMAIN Mapping
NoValues == [f \in {} |-> 0]
Only(values, S) == [f \in DOMAIN values \cap S |-> values[f]]

-----------------------------------------------------------------------------
(* extract_text: a PDF's text layer, else Tesseract, else a template.  A   *)
(* file's layer and scan are its texts as the one or the other reads them; *)
(* title and bytes are the types that its name and raw bytes suggest.      *)

Readable(text) == text.words >= 5

\* _detect_doc_type_from_name_or_content
Suggested(file) == IF file.title # NoDoc THEN file.title ELSE file.bytes

\* _fallback_extract_for_doc_type
Substitute(doc) == IF doc \in DOMAIN Template THEN Template[doc] ELSE Blank

LayerOf(file) == IF file.kind = "pdf" THEN file.layer ELSE Blank
ScanOf(file, tesseract) == IF tesseract THEN file.scan ELSE Blank

ReadFile(file, tesseract) ==
    IF Readable(LayerOf(file)) THEN LayerOf(file)
    ELSE IF Readable(ScanOf(file, tesseract)) THEN ScanOf(file, tesseract)
    ELSE IF Suggested(file) # NoDoc THEN Substitute(Suggested(file))
    ELSE LayerOf(file)

-----------------------------------------------------------------------------
(* Consistency with what the journey already knows: prior.values are the   *)
(* values of the snapshot, prior.name and prior.id are facts of earlier    *)
(* documents, the id only of documents of the type prior.doc.              *)

NamesMatch(a, b) == a = b \/ {a, b} \in AlikeNames

\* Findings about the name and identifier count only if a rule is about the
\* field that documents of this type are evidence for.
FactConflicts(text, doc, prior) ==
    LET asked == doc \in Mapped /\ Mapping[doc].field \in Ruled
    IN  (IF asked /\ None \notin {text.name, prior.name} /\ ~ NamesMatch(text.name, prior.name)
         THEN {"name"} ELSE {})
        \cup (IF asked /\ doc \in IdentifierDocs /\ doc = prior.doc
                 /\ None \notin {text.id, prior.id} /\ text.id # prior.id
              THEN {"identifier"} ELSE {})

\* More than ten percent of the larger one.
IncomeDiffers(old, new) == old # 0 /\ Apart(old, new) * 10 > Greater(old, new)

\* Gross pay less deductions is not the net pay on the same slip.
SlipDisagrees(text, net) ==
    /\ None \notin {text.gross, text.deductions} /\ text.gross > text.deductions
    /\ text.gross - text.deductions # net

SlipConflicts(text, doc, found) ==
    IF doc = SalarySlip /\ Income \in DOMAIN found /\ SlipDisagrees(text, found[Income])
    THEN {Income} ELSE {}

LocalDiffers(f, old, new) == IF f = Income THEN IncomeDiffers(old, new) ELSE old # new

\* Mutant: the difference without its absolute value.
SarvamDiffersRise(f, old, new) ==
    IF f \in BooleanFields \cup {Income} THEN old # 0 /\ (new - old) * 100 > 15 * old
    ELSE old # new

\* Sarvam's check has a tolerance of its own for what Python counts as numbers.
SarvamDiffers(f, old, new) ==
    IF f \in BooleanFields \cup {Income} THEN old # 0 /\ Apart(old, new) * 100 > 15 * old
    ELSE old # new

ValueConflicts(found, prior, asked) ==
    {f \in DOMAIN found \cap DOMAIN prior.values \cap asked :
        LocalDiffers(f, prior.values[f], found[f])}

-----------------------------------------------------------------------------
(* AIInterpretationResult.  doc is resolved_doc_type, engine is provider.  *)

Verdict(ok, confidence, values, conflicts, text, doc) ==
    [verified |-> ok, confidence |-> confidence, values |-> values, conflicts |-> conflicts,
     name |-> text.name, id |-> IF doc \in IdentifierDocs THEN text.id ELSE None,
     doc |-> doc, engine |-> None]

Rejected(confidence, doc) == Verdict(FALSE, confidence, NoValues, {}, Blank, doc)

-----------------------------------------------------------------------------
(* LocalMLProvider.reconcile_evidence                                      *)

\* A typed form is taken at its word, if it names a field of the schema.
Typed(text) == DOMAIN text.manual \cap Fields # {}

\* All types that are accepted for the same action as the declared one.
AcceptedWith(declared) ==
    IF declared \in Mapped
    THEN {d \in Mapped : Mapping[d].action = Mapping[declared].action} ELSE {declared}

Likeliest(text, among) ==
    CHOOSE d \in among : \A e \in among : text.score[d] >= text.score[e]

\* DocumentClassifier.classify, the trained model being what text says of it.
Classify(text, declared) ==
    IF text.words < 3 \/ text.ocr < 35 THEN [outcome |-> "UNREADABLE", doc |-> NoDoc, p |-> 0]
    ELSE [doc |-> text.top, p |-> text.p,
          outcome |-> IF text.p < 45 THEN "AMBIGUOUS"
                      ELSE IF text.top \in AcceptedWith(declared) THEN "CORRECT" ELSE "WRONG"]

\* Markers in the content settle what the model leaves open.
Refine(text, declared, class) ==
    LET best == Likeliest(text, AcceptedWith(declared))
        settled(d) == [outcome |-> "CORRECT", doc |-> d, p |-> Greater(class.p, 85)]
    IN  IF class.outcome \notin {"AMBIGUOUS", "UNREADABLE"} \/ text.words < 5 THEN class
        ELSE IF text.score[declared] >= 35 THEN settled(declared)
        ELSE IF text.score[best] >= 40 THEN settled(best)
        ELSE class

\* extract_fields_for_doc_type, as far as the schema has the field.
Extracted(text, doc) == Only(text.values, Sought[doc] \cap Fields)

\* What is found for the fields of the schema; a document of the right type is
\* itself the proof of a Boolean field.
Found(text, doc) ==
    LET seen == Extracted(text, doc)
        target == IF doc \in Mapped THEN {Mapping[doc].field} \cap BooleanFields ELSE {}
    IN  [f \in DOMAIN seen \cup target |-> IF f \in DOMAIN seen THEN seen[f] ELSE 1]

AllValid(text, doc) == \A f \in Sought[doc] \cap Fields : f \in DOMAIN text.values \cap text.valid

\* compose_confidence
Composed(base, found, valid) ==
    IF found /\ valid THEN base ELSE IF found THEN (base * 6) \div 10 ELSE base \div 4

\* A clear and complete document without any defect is lifted to 88 percent or more.
Confidence(text, doc, p, conflicts) ==
    LET found == DOMAIN Found(text, doc) # {}
        valid == AllValid(text, doc)
        composed == Composed(text.ocr * p, found, valid)
    IN  IF found /\ valid /\ conflicts = {} /\ text.ocr >= 70 /\ text.words >= 15 /\ p >= 40
        THEN Lesser(9600, Greater(composed, 8800 + 8 * (text.ocr - 70))) ELSE composed

LocalConflicts(text, doc, prior) ==
    LET found == Found(text, doc)
    IN  FactConflicts(text, doc, prior) \cup SlipConflicts(text, doc, found)
        \cup ValueConflicts(found, prior, Ruled \cap Sought[doc])

\* The content of a passport or a cheque is checked strictly.
ContentHolds(text, doc) == doc \in text.intact

Interpreted(text, doc, p, prior) ==
    LET conflicts == LocalConflicts(text, doc, prior)
        found == Found(text, doc)
    IN  Verdict(DOMAIN found # {} /\ conflicts = {}, Confidence(text, doc, p, conflicts), found,
                IF DOMAIN found = {} THEN {} ELSE conflicts, text, doc)

\* trained: there is a model for this kind of journey.
LocalVerdict(text, declared, prior, trained) ==
    LET class == Refine(text, declared, Classify(text, declared))
    IN  IF Typed(text) THEN Verdict(TRUE, 9500, Only(text.manual, Fields), {}, Blank, declared)
        ELSE IF ~ trained THEN Rejected(0, NoDoc)
        ELSE IF class.outcome # "CORRECT" THEN Rejected(text.ocr * class.p, NoDoc)
        ELSE IF ~ ContentHolds(text, class.doc) THEN Rejected(35 * text.ocr, class.doc)
        ELSE Interpreted(text, class.doc, class.p, prior)

-----------------------------------------------------------------------------
(* validate_document as MockAI calls it: content never disqualifies, and   *)
(* the OCR confidence is taken to be 95 percent.                           *)

MockType(text, declared) ==
    LET best == Likeliest(text, DocTypes)
    IN  IF text.score[best] < 40 \/ text.score[declared] >= 35 THEN declared ELSE best

MockFound(text, doc) ==
    LET found == Found(text, doc)
        supplied == IF doc \in Mapped /\ DOMAIN found = {} THEN {Mapping[doc].field} ELSE {}
    IN  [f \in DOMAIN found \cup supplied |-> IF f \in DOMAIN found THEN found[f] ELSE MockValue[f]]

MockConflicts(text, doc, prior) ==
    LET found == Found(text, doc)
    IN  FactConflicts(text, doc, prior) \cup SlipConflicts(text, doc, found)
        \cup ValueConflicts(found, prior, Ruled \cap {Income})

\* Words in the text that stand for a conflict, with an income to go with them.
Simulated(text, doc, conflicts) ==
    LET found == Found(text, doc)
        clash == IF Income \in Ruled THEN Income ELSE CHOOSE f \in Ruled : TRUE
    IN  Verdict(FALSE, 8100, [f \in DOMAIN found \cup {Income} |->
                                 IF f = Income THEN MockClash ELSE found[f]],
                conflicts \cup {clash}, text, doc)

MockVerdict(text, declared, prior) ==
    LET doc == MockType(text, declared)
        conflicts == MockConflicts(text, doc, prior)
    IN  IF doc \notin AcceptedWith(declared) THEN Rejected(95 * 85, doc)
        ELSE IF text.trouble /\ Ruled # {} THEN Simulated(text, doc, conflicts)
        ELSE IF DOMAIN MockFound(text, doc) = {} THEN Rejected(4500, doc)
        ELSE Verdict(conflicts = {}, 95 * 95, MockFound(text, doc), conflicts, text, doc)

-----------------------------------------------------------------------------
(* The result of a successful extraction job.  It resolves no document     *)
(* type and leaves no facts for later documents.                           *)

\* _build_extract_schema: what the job is asked for, and so what it can answer.  A mapping
\* may name further extraction_keys (packs/contract.py:87); no manifest does.
Requested(declared) == IF declared \in Mapped THEN {Mapping[declared].field} ELSE {}

Rating(answer, found) ==
    IF answer.blank THEN 0
    ELSE IF answer.rated THEN 100 * answer.rating
    ELSE IF answer.pages > 0 THEN (10000 * answer.read) \div answer.pages
    ELSE IF DOMAIN found # {} THEN 8500 ELSE 0

SarvamConflicts(found, prior) ==
    {f \in DOMAIN found \cap DOMAIN prior.values : SarvamDiffers(f, prior.values[f], found[f])}

SarvamVerdict(answer, declared, prior) ==
    LET found == Only(answer.values, Requested(declared))
        conflicts == SarvamConflicts(found, prior)
        confidence == Rating(answer, found)
        sound == /\ DOMAIN found # {} /\ conflicts = {}
                 /\ answer.status = "completed" /\ ~ answer.blank
    IN  [Verdict(sound, confidence, found, conflicts, Blank, NoDoc) EXCEPT !.engine = "sarvam"]

=============================================================================
