------------------------------ MODULE Uploads -------------------------------
(***************************************************************************)
(* POST /journeys/{id}/evidence on one journey: several uploads at a time, *)
(* each read, interpreted by the configured AI provider behind the         *)
(* guardrail, judged against the pack, stored and answered; and the        *)
(* actions that then use the stored evidence.                              *)
(*                                                                         *)
(* What the journey knows is read before the provider is awaited.  Sarvam  *)
(* is a remote service that may answer anything, at any time or never; the *)
(* local engines compute their verdict without waiting.  The cases that an *)
(* upload hands back to the reviewer are in Journeys.                      *)
(***************************************************************************)
EXTENDS Documents, Sequences

CONSTANTS
    Starts,       \* what earlier actions have recorded in the journey
    MaxUploads,
    Cases,        \* provider -> what is submitted to it: [file, doc], files and forms with
                  \* the types they are declared to be
    Answers,      \* results of Sarvam's extraction jobs
    Settings,     \* [provider, sarvam, tesseract, trained] as configured, and
                  \* bounds: uploads in all, and together, in flight at a time
    Accepts,      \* action -> the document types it accepts, in the pack
    Satisfies,    \* action -> the fields it satisfies
    MaxPolls,     \* SARVAM_MAX_POLL_ATTEMPTS
    MaxVersion

Providers == {"mock", "local_ml", "sarvam"}

ASSUME UploadAssumption ==
    /\ MaxUploads \in Nat /\ MaxPolls \in Nat \ {0} /\ MaxVersion \in Nat \ {0}
    /\ None \notin Providers
    /\ \A x \in Settings :
          /\ x.provider \in Providers
          /\ \A case \in Cases[x.provider] :
                /\ case.doc \in DocTypes
                /\ Measured(case.file.layer) /\ Measured(case.file.scan)
    /\ \A answer \in Answers : Numbers(answer.values)
    /\ \A values \in Starts : DOMAIN values \subseteq Fields /\ Numbers(values)
    /\ \A a \in DOMAIN Accepts : Satisfies[a] \subseteq Fields

VARIABLES
    settings,
    journey,   \* [version, values]: the current snapshot
    rows,      \* the evidence table, in the order of the commits
    upload     \* upload -> progress of the request

vars == <<settings, journey, rows, upload>>

\* Uploads are numbered in the order in which they are submitted.
Uploads == 1..MaxUploads

Idle == [at |-> "idle", file |-> None, doc |-> NoDoc, version |-> 0, values |-> NoValues,
         listed |-> 0, attempt |-> 1, polls |-> 0, jobs |-> 0, remote |-> None,
         verdict |-> Rejected(0, NoDoc), answer |-> None]

Waiting == {"asked", "created", "finished"}
InFlight(u) == upload[u].at \in Waiting \cup {"judged"}

-----------------------------------------------------------------------------
(* What one upload sees                                                    *)

TextOf(u) == IF upload[u].file.kind = "form" THEN upload[u].file.layer
             ELSE ReadFile(upload[u].file, settings.tesseract)

\* The rows are listed newest first; the first one with a fact supplies it.
Latest(S) == CHOOSE n \in S : \A m \in S : m <= n

\* Mutant: in the order in which they were stored.
Oldest(S) == CHOOSE n \in S : \A m \in S : n <= m
NameInOldest(listed) ==
    LET named == {n \in 1..listed : rows[n].name # None}
    IN  IF named = {} THEN None ELSE rows[Oldest(named)].name

NameIn(listed) ==
    LET named == {n \in 1..listed : rows[n].name # None}
    IN  IF named = {} THEN None ELSE rows[Latest(named)].name

IdIn(listed, doc) ==
    LET same == {n \in 1..listed : rows[n].of = doc /\ rows[n].id # None}
    IN  IF same = {} THEN None ELSE rows[Latest(same)].id

Prior(u) == [values |-> upload[u].values, name |-> NameIn(upload[u].listed),
             doc |-> upload[u].doc, id |-> IdIn(upload[u].listed, upload[u].doc)]

-----------------------------------------------------------------------------
(* The providers, and GuardrailedAIProvider.reconcile_evidence             *)

\* SarvamProvider goes to the service only with a file and a mapping for it.
AsksSarvam(u) == /\ settings.provider = "sarvam" /\ settings.sarvam
                 /\ upload[u].file.kind # "form" /\ Requested(upload[u].doc) # {}

Fallback(verdict) == [verdict EXCEPT !.engine = "local_ml"]

LocalEngine(u) ==
    IF settings.provider = "mock" THEN MockVerdict(TextOf(u), upload[u].doc, Prior(u))
    ELSE LET local == LocalVerdict(TextOf(u), upload[u].doc, Prior(u), settings.trained)
         IN  IF settings.provider = "sarvam" THEN Fallback(local) ELSE local

Judged(u, verdict) == upload' = [upload EXCEPT ![u].at = "judged", ![u].verdict = verdict]

Proceed(u, at, polls) == upload' = [upload EXCEPT ![u].at = at, ![u].polls = polls]

Interpret(u) ==
    /\ upload[u].at = "asked" /\ ~ AsksSarvam(u)
    /\ Judged(u, LocalEngine(u))
    /\ UNCHANGED <<settings, journey, rows>>

CreateJob(u) ==
    /\ upload[u].at = "asked" /\ AsksSarvam(u)
    /\ upload' = [upload EXCEPT ![u].at = "created", ![u].polls = 0, ![u].jobs = @ + 1]
    /\ UNCHANGED <<settings, journey, rows>>

\* _poll_until_terminal: the job is still running, or has ended.
PollRunning(u) ==
    /\ upload[u].at = "created" /\ upload[u].polls + 1 < MaxPolls
    /\ Proceed(u, "created", upload[u].polls + 1)
    /\ UNCHANGED <<settings, journey, rows>>

PollFinished(u) ==
    /\ upload[u].at = "created"
    /\ \E status \in {"completed", "partially_completed"} :
          upload' = [upload EXCEPT ![u].at = "finished", ![u].remote = status]
    /\ UNCHANGED <<settings, journey, rows>>

Download(u) ==
    /\ upload[u].at = "finished"
    /\ \E answer \in Answers :
          LET verdict == SarvamVerdict(answer, upload[u].doc, Prior(u))
          IN  /\ answer.status = upload[u].remote
              /\ verdict.confidence \in Confidences
              /\ Judged(u, verdict)
    /\ UNCHANGED <<settings, journey, rows>>

\* A request fails, is refused or answers nonsense, the job fails or is rejected,
\* the polls are used up, the archive cannot be read, or its rating is out of range.
SarvamFails(u) ==
    /\ upload[u].at \in Waiting /\ AsksSarvam(u)
    /\ Judged(u, LocalEngine(u))
    /\ UNCHANGED <<settings, journey, rows>>

Unavailable == Rejected(0, NoDoc)

\* The guardrail's timeout cancels whatever the provider is waiting for: no
\* exception handler of the provider runs, and a new attempt starts a new job.
\* Mutant: a third attempt.
RetryOnceMore(u) == upload[u].attempt <= 2
\* Mutant: a request that was never answered is not given up.
CancelledAnswered(u) == upload[u].at \in {"created", "finished"}

Retry(u) == upload[u].attempt < 2
Cancelled(u) == upload[u].at \in Waiting

TimeOut(u) ==
    /\ Cancelled(u) /\ AsksSarvam(u)
    /\ IF Retry(u)
       THEN upload' = [upload EXCEPT ![u].at = "asked", ![u].attempt = @ + 1, ![u].remote = None]
       ELSE Judged(u, Unavailable)
    /\ UNCHANGED <<settings, journey, rows>>

-----------------------------------------------------------------------------
(* EvidenceReconciliationService.submit_evidence                           *)

\* validate_upload
FileError(file) == IF file.flaw = "too_large" THEN "413"
                   ELSE IF file.flaw # "none" THEN "400" ELSE "none"

\* The early returns, in their order; version is the client's expected snapshot.
Refusal(version, file) == IF version # journey.version THEN "ACTION_STALE" ELSE FileError(file)

Submit(u, file, doc, version) ==
    /\ u <= settings.uploads /\ upload[u].at = "idle"
    /\ \A w \in 1..(u - 1) : upload[w].at # "idle"
    /\ Cardinality({w \in Uploads : InFlight(w)}) < settings.together
    /\ upload' = [upload EXCEPT ![u] =
          IF Refusal(version, file) = "none"
          THEN [Idle EXCEPT !.at = "asked", !.file = file, !.doc = doc, !.version = version,
                            !.values = journey.values, !.listed = Len(rows)]
          ELSE [Idle EXCEPT !.at = "refused", !.answer = Refusal(version, file)]]
    /\ UNCHANGED <<settings, journey, rows>>

\* The type that decides: the resolved one if the engine resolved any.
TypeOf(u) == IF upload[u].verdict.doc = NoDoc THEN upload[u].doc ELSE upload[u].verdict.doc

ThresholdOf(doc) == IF doc \in Mapped THEN 100 * Mapping[doc].threshold ELSE 8000

\* Mutant: the type the client declared decides.
SufficientAsDeclared(u) == upload[u].verdict.confidence >= ThresholdOf(upload[u].doc)

Sufficient(u) == upload[u].verdict.confidence >= ThresholdOf(TypeOf(u))

Genuine(u)  == upload[u].verdict.verified /\ upload[u].verdict.conflicts = {}
Verified(u) == Genuine(u) /\ Sufficient(u)

NeedsReview(u) ==
    LET verdict == upload[u].verdict
    IN  \/ verdict.conflicts # {}
        \/ verdict.verified /\ ~ Sufficient(u) /\ DOMAIN verdict.values # {}

Proposed(u) == \E a \in DOMAIN Accepts : upload[u].doc \in Accepts[a]

\* The preview simulates the proposed action on the snapshot that was read.
\* Mutant: whatever the verdict.
PreviewsAll(u) == Proposed(u)

Previews(u) == Proposed(u) /\ Genuine(u)

\* The column evidence.provider.
Label(u) == IF upload[u].verdict.engine = None THEN settings.provider
            ELSE upload[u].verdict.engine

Row(u) ==
    LET verdict == upload[u].verdict
    IN  [upload |-> u, declared |-> upload[u].doc, of |-> TypeOf(u), verified |-> Verified(u),
         values |-> verdict.values, confidence |-> verdict.confidence,
         name |-> verdict.name, id |-> verdict.id, provider |-> Label(u)]

Response(u) == [verified |-> Verified(u), review |-> NeedsReview(u), preview |-> Previews(u)]

\* Row, audit event and queued event commit together; then the answer.
Store(u) ==
    /\ upload[u].at = "judged"
    /\ rows' = Append(rows, Row(u))
    /\ upload' = [upload EXCEPT ![u] =
          [Idle EXCEPT !.at = "stored", !.file = upload[u].file, !.doc = upload[u].doc,
                       !.version = upload[u].version, !.values = upload[u].values,
                       !.listed = upload[u].listed, !.remote = upload[u].remote,
                       !.answer = Response(u)]]
    /\ UNCHANGED <<settings, journey>>

\* The process dies, or the client's connection does: nothing was written yet.
Crash ==
    /\ \E u \in Uploads : InFlight(u)
    /\ upload' = [u \in Uploads |-> IF InFlight(u) THEN [Idle EXCEPT !.at = "lost"]
                                    ELSE upload[u]]
    /\ UNCHANGED <<settings, journey, rows>>

\* apply_action of an EVIDENCE action with this row (deterministic_check): what it
\* satisfies takes the values of the row, and nothing else changes.
UseEvidence(n, a) ==
    /\ rows[n].verified /\ rows[n].declared \in Accepts[a]
    /\ Satisfies[a] \subseteq DOMAIN rows[n].values
    /\ journey.version < MaxVersion
    /\ journey' = [version |-> journey.version + 1,
                   values |-> [f \in DOMAIN journey.values \cup Satisfies[a] |->
                                  IF f \in Satisfies[a] THEN rows[n].values[f]
                                  ELSE journey.values[f]]]
    /\ UNCHANGED <<settings, rows, upload>>

-----------------------------------------------------------------------------

Init ==
    /\ settings \in Settings
    /\ journey \in [version : {1}, values : Starts]
    /\ rows = <<>>
    /\ upload = [u \in Uploads |-> Idle]

Submits == \E u \in Uploads, case \in Cases[settings.provider], version \in 1..journey.version :
              Submit(u, case.file, case.doc, version)

Serve(u) == \/ Interpret(u) \/ CreateJob(u) \/ PollRunning(u) \/ PollFinished(u)
            \/ Download(u) \/ SarvamFails(u) \/ TimeOut(u) \/ Store(u)

Next ==
    \/ Submits
    \/ \E u \in Uploads : Serve(u)
    \/ Crash
    \/ \E n \in DOMAIN rows, a \in DOMAIN Accepts : UseEvidence(n, a)

\* The event loop runs what is ready, and its timers fire.  Sarvam owes nothing.
Progress(u) == Interpret(u) \/ TimeOut(u) \/ Store(u)
Fairness == \A u \in Uploads : WF_vars(Progress(u))

Spec     == Init /\ [][Next]_vars
FairSpec == Spec /\ Fairness

-----------------------------------------------------------------------------
(* Properties                                                              *)

Steps == {"idle", "refused", "asked", "created", "finished", "judged", "stored", "lost"}

\* Type invariant; a stored row always names the engine behind it, and however often
\* Sarvam is late one upload starts at most two extraction jobs (ai/guardrails.py:142).
UploadsTypeOK ==
    /\ settings \in Settings
    /\ journey.version \in 1..MaxVersion /\ DOMAIN journey.values \subseteq Fields
    /\ \A u \in Uploads : /\ upload[u].at \in Steps /\ upload[u].attempt \in 1..2
                          /\ upload[u].polls \in 0..(MaxPolls - 1) /\ upload[u].jobs \in 0..2
                          /\ upload[u].listed \in 0..MaxUploads
    /\ \A n \in DOMAIN rows : /\ rows[n].upload \in Uploads
                              /\ rows[n].confidence \in Confidences
                              /\ rows[n].provider \in Providers

\* A row is verified only as a document that is accepted in place of the declared
\* one, with the confidence that documents of that very type must reach, and with
\* a value.  The threshold belongs to the type the engine resolved, not to the one
\* the client declared (evidence/reconcile.py:283).  If the row is labelled as
\* Sarvam's, the job whose result was used completed: a fallback never bears its
\* label (ai/sarvam.py:264).  This is the rule of the code, which stores is_verified
\* (reconcile.py:332 and 409).  The comment on the column says that the row holds
\* evidence_is_genuine, "deliberately NOT the same as" is_verified (db/models.py:133),
\* which asks for no threshold; but that value (line 340) serves the preview and the wording
\* of the answer, and a genuine document below its threshold is stored as not verified.
VerifiedIsEarned ==
    \A n \in DOMAIN rows : rows[n].verified =>
        /\ rows[n].of \in AcceptedWith(rows[n].declared)
        /\ rows[n].confidence >= ThresholdOf(rows[n].of)
        /\ DOMAIN rows[n].values # {}
        /\ rows[n].provider = "sarvam" => upload[rows[n].upload].remote = "completed"

\* The name on a verified document that the local engines compared is alike to the
\* one on the latest document stored before the upload began, however many other
\* names were stored before that (evidence/reconcile.py:265).
NameAgreesWithLatest ==
    \A n \in DOMAIN rows :
        LET named == {k \in 1..upload[rows[n].upload].listed : rows[k].name # None}
        IN  rows[n].verified /\ rows[n].name # None /\ named # {}
            /\ rows[n].of \in Mapped /\ Mapping[rows[n].of].field \in Ruled
              => NamesMatch(rows[n].name, rows[Latest(named)].name)

\* An upload that is answered with the preview of an action was verified or went to
\* the reviewer, and nothing is both: a rejected document leads nowhere
\* (evidence/reconcile.py:329, 472).
PreviewLeadsSomewhere ==
    \A u \in Uploads : upload[u].at = "stored" =>
        /\ upload[u].answer.preview => upload[u].answer.verified \/ upload[u].answer.review
        /\ ~ (upload[u].answer.verified /\ upload[u].answer.review)

\* Was the income on this row read from a document?  A typed form is taken at its
\* word, and MockAI supplies a value when it finds none.
IncomeIsRead(n) ==
    LET text == TextOf(rows[n].upload)
    IN  /\ Income \in DOMAIN rows[n].values /\ ~ Typed(text)
        /\ settings.provider # "mock" \/ Income \in DOMAIN Found(text, rows[n].of)

\* An income that was read from a document replaces one it contradicts by more than
\* fifteen percent only if the document was judged before that one was recorded:
\* the comparison is with the snapshot the upload saw (evidence/reconcile.py:254).  An
\* income of zero counts as none, as it does in the code.
OverwritesOnlyUnseen ==
    [][ \A old \in {journey.values[f] : f \in {Income} \cap DOMAIN journey.values} :
          old # 0 /\ Apart(journey'.values[Income], old) * 100 > 15 * old =>
            \E n \in DOMAIN rows :
               /\ rows[n].verified /\ Income \in DOMAIN rows[n].values
               /\ rows[n].values[Income] = journey'.values[Income]
               /\ ~ IncomeIsRead(n) \/ upload[rows[n].upload].version < journey.version
      ]_vars

\* Every accepted upload is answered, whatever Sarvam does, unless the process or
\* the connection is lost (ai/guardrails.py:142).
UploadIsAnswered ==
    \A u \in Uploads : upload[u].at = "asked" ~> upload[u].at \in {"stored", "lost"}

=============================================================================
