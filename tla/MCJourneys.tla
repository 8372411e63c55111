----------------------------- MODULE MCJourneys -----------------------------
(***************************************************************************)
(* Small instances of Journeys: a cut of the lending pack in which income  *)
(* depends on kyc, the offer on income, and a field about a co-applicant   *)
(* does not apply because the goal does not ask for one.                   *)
(***************************************************************************)
EXTENDS Journeys, TLC

MCFields         == {"kyc", "income", "offer", "coapplicant"}
MCDefault        == {"kyc"}
MCInitiallyFalse == {"offer"}
MCMandatory      == {"income", "offer", "coapplicant"}
MCDependencies   == {<<"kyc", "income">>, <<"income", "offer">>, <<"kyc", "coapplicant">>}
MCUnmetGoals     == {<<"kyc", "coapplicant">>}
MCDeadEnds       == {<<"income", "false">>}

MCActions         == {"UPLOAD", "LINK", "ACCEPT"}
MCEvidenceActions == {"UPLOAD"}
MCSatisfies       == [a \in MCActions |-> IF a = "ACCEPT" THEN {"offer"} ELSE {"income"}]
MCPreconditions   == [a \in MCActions |-> IF a = "ACCEPT" THEN {"income"} ELSE {"kyc"}]
MCAcceptedDocs    == [a \in MCActions |-> IF a = "UPLOAD" THEN {"SLIP"} ELSE {}]
MCAmbiguityField  == [a \in {"INCOME_MISMATCH"} |-> "income"]

Form(action, ambiguity, typed) ==
    [action |-> action, upload |-> NoUpload, ambiguity |-> ambiguity, typed |-> typed,
     valid |-> TRUE]

Proof(action, upload) ==
    [action |-> action, upload |-> upload, ambiguity |-> NoAmbiguity, typed |-> "given",
     valid |-> TRUE]

\* One journey, a conflict in the declared income, an offer refused or accepted.
MCRaceInputs == {Form("LINK", NoAmbiguity, "given"), Form("LINK", "INCOME_MISMATCH", "given"),
                 Form("ACCEPT", NoAmbiguity, "given"), Form("ACCEPT", "INCOME_MISMATCH", "false")}

\* Keys sent to two journeys, with conflicts that open cases on both and with a
\* document, which may have been uploaded for either.
MCKeyInputs == {Form("LINK", "INCOME_MISMATCH", "given")}
               \cup {Proof("UPLOAD", u) : u \in Uploads} \cup {Form("UPLOAD", NoAmbiguity, "given")}

MCAnswers == {[ambiguity |-> "INCOME_MISMATCH", typed |-> "given", valid |-> TRUE]}
MCAllAnswers == MCAnswers \cup
    {[ambiguity |-> "INCOME_MISMATCH", typed |-> "given", valid |-> FALSE],
     [ambiguity |-> "INCOME_MISMATCH", typed |-> "false", valid |-> TRUE]}

MCVerdicts == Verdict

RequestSymmetry == Permutations(Clients) \cup Permutations(Keys)

KeySymmetry     == RequestSymmetry \cup Permutations(JourneyIds)

=============================================================================
