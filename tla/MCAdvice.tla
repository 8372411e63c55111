------------------------------ MODULE MCAdvice ------------------------------
(***************************************************************************)
(* The packs of backend/app/packs/manifests, with their fields, actions    *)
(* and groups, and variants a pack author could write.                     *)
(***************************************************************************)
EXTENDS Advice, TLC

Route(doc, field, action) == [doc |-> doc, field |-> field, action |-> action]

\* All shipped packs require every field, derive none and have no condition.
Shipped(fields, defaults, accepted, dependencies, satisfies, preconditions, accepts,
        ambiguity, actions, alphabet, group, primary, members, mappings, consents) ==
    [fields |-> fields, defaults |-> defaults, accepted |-> accepted, mandatory |-> fields,
     dependencies |-> dependencies, unmet |-> {}, deadEnds |-> {}, satisfies |-> satisfies,
     preconditions |-> preconditions, accepts |-> accepts, ambiguity |-> ambiguity,
     required |-> fields, derived |-> {}, actions |-> actions, group |-> group,
     primary |-> primary, members |-> members, mappings |-> mappings, claims |-> {},
     alphabet |-> alphabet, consents |-> consents]

\* lending.yaml
Lending == Shipped(
    {"kyc", "pan", "bank", "income", "employment", "employer", "offer"},
    {"kyc", "pan", "bank"}, {"offer"},
    {<<"kyc", "income">>, <<"kyc", "employment">>, <<"employment", "employer">>,
     <<"income", "offer">>, <<"employer", "offer">>},
    "UPLOAD_INCOME_PROOF" :> {"income"} @@ "LINK_AA_ACCOUNT" :> {"income"}
        @@ "SUBMIT_EMPLOYMENT_INFO" :> {"employment"} @@ "VERIFY_EMPLOYER_RECORD" :> {"employer"}
        @@ "UPLOAD_WORK_ID" :> {"employer"} @@ "ACCEPT_LOAN_TERMS" :> {"offer"},
    "UPLOAD_INCOME_PROOF" :> {"kyc"} @@ "LINK_AA_ACCOUNT" :> {"kyc"}
        @@ "SUBMIT_EMPLOYMENT_INFO" :> {"kyc"} @@ "VERIFY_EMPLOYER_RECORD" :> {"employment"}
        @@ "UPLOAD_WORK_ID" :> {"employment"} @@ "ACCEPT_LOAN_TERMS" :> {"income", "employer"},
    "UPLOAD_INCOME_PROOF" :> {"SALARY_SLIP", "BANK_STATEMENT"}
        @@ "UPLOAD_WORK_ID" :> {"OFFICE_ID_CARD", "OFFER_LETTER"},
    "INCOME_MISMATCH" :> "income" @@ "EMPLOYER_UNVERIFIED" :> "employer",
    <<"UPLOAD_INCOME_PROOF", "LINK_AA_ACCOUNT", "SUBMIT_EMPLOYMENT_INFO",
      "VERIFY_EMPLOYER_RECORD", "UPLOAD_WORK_ID", "ACCEPT_LOAN_TERMS">>,
    <<"ACCEPT_LOAN_TERMS", "LINK_AA_ACCOUNT", "SUBMIT_EMPLOYMENT_INFO",
      "UPLOAD_INCOME_PROOF", "UPLOAD_WORK_ID", "VERIFY_EMPLOYER_RECORD">>,
    "UPLOAD_INCOME_PROOF" :> "INCOME" @@ "LINK_AA_ACCOUNT" :> "INCOME"
        @@ "SUBMIT_EMPLOYMENT_INFO" :> NoGroup @@ "VERIFY_EMPLOYER_RECORD" :> "EMPLOYER"
        @@ "UPLOAD_WORK_ID" :> "EMPLOYER" @@ "ACCEPT_LOAN_TERMS" :> NoGroup,
    "INCOME" :> "UPLOAD_INCOME_PROOF" @@ "EMPLOYER" :> "VERIFY_EMPLOYER_RECORD",
    "INCOME" :> {"UPLOAD_INCOME_PROOF", "LINK_AA_ACCOUNT"}
        @@ "EMPLOYER" :> {"VERIFY_EMPLOYER_RECORD", "UPLOAD_WORK_ID"},
    {Route("SALARY_SLIP", "income", "UPLOAD_INCOME_PROOF"),
     Route("BANK_STATEMENT", "income", "UPLOAD_INCOME_PROOF"),
     Route("OFFICE_ID_CARD", "employer", "UPLOAD_WORK_ID"),
     Route("OFFER_LETTER", "employer", "UPLOAD_WORK_ID")},
    {"ACCEPT_LOAN_TERMS"})

\* kyc.yaml
Kyc == Shipped(
    {"aadhaar", "pan", "ovd", "photo", "geo", "undertaking"}, {"aadhaar"}, {},
    {<<"aadhaar", "pan">>, <<"aadhaar", "ovd">>, <<"aadhaar", "photo">>, <<"photo", "geo">>,
     <<"pan", "undertaking">>, <<"ovd", "undertaking">>, <<"geo", "undertaking">>},
    "link_pan_record" :> {"pan"} @@ "upload_passport_ovd" :> {"ovd"}
        @@ "upload_voter_id_ovd" :> {"ovd"} @@ "capture_liveness_selfie" :> {"photo"}
        @@ "validate_gps_location" :> {"geo"} @@ "sign_rekyc_undertaking" :> {"undertaking"},
    "link_pan_record" :> {"aadhaar"} @@ "upload_passport_ovd" :> {"aadhaar"}
        @@ "upload_voter_id_ovd" :> {"aadhaar"} @@ "capture_liveness_selfie" :> {"aadhaar"}
        @@ "validate_gps_location" :> {"photo"}
        @@ "sign_rekyc_undertaking" :> {"pan", "ovd", "geo"},
    "upload_passport_ovd" :> {"PASSPORT_SCAN", "DRIVING_LICENCE"}
        @@ "upload_voter_id_ovd" :> {"VOTER_ID_CARD"},
    "AMB_NAME_DISCREPANCY" :> "pan" @@ "AMB_EXPIRED_DOCUMENT" :> "ovd",
    <<"link_pan_record", "upload_passport_ovd", "upload_voter_id_ovd",
      "capture_liveness_selfie", "validate_gps_location", "sign_rekyc_undertaking">>,
    <<"capture_liveness_selfie", "link_pan_record", "sign_rekyc_undertaking",
      "upload_passport_ovd", "upload_voter_id_ovd", "validate_gps_location">>,
    "link_pan_record" :> NoGroup @@ "upload_passport_ovd" :> "ovd_satisfaction"
        @@ "upload_voter_id_ovd" :> "ovd_satisfaction" @@ "capture_liveness_selfie" :> NoGroup
        @@ "validate_gps_location" :> NoGroup @@ "sign_rekyc_undertaking" :> NoGroup,
    "ovd_satisfaction" :> "upload_passport_ovd",
    "ovd_satisfaction" :> {"upload_passport_ovd", "upload_voter_id_ovd"},
    {Route("PASSPORT_SCAN", "ovd", "upload_passport_ovd"),
     Route("DRIVING_LICENCE", "ovd", "upload_passport_ovd"),
     Route("VOTER_ID_CARD", "ovd", "upload_voter_id_ovd")},
    {"validate_gps_location", "sign_rekyc_undertaking"})

\* insurance.yaml
Insurance == Shipped(
    {"kyc", "medical", "ped", "tele", "mandate", "terms"}, {"kyc"}, {"terms"},
    {<<"kyc", "medical">>, <<"medical", "ped">>, <<"ped", "tele">>, <<"tele", "terms">>,
     <<"kyc", "mandate">>, <<"mandate", "terms">>},
    "submit_medical_declaration" :> {"medical"} @@ "submit_ped_records" :> {"ped"}
        @@ "submit_ped_exemption" :> {"ped"} @@ "schedule_tele_mer" :> {"tele"}
        @@ "setup_insurance_mandate" :> {"mandate"} @@ "accept_insurance_policy" :> {"terms"},
    "submit_medical_declaration" :> {"kyc"} @@ "submit_ped_records" :> {"medical"}
        @@ "submit_ped_exemption" :> {"medical"} @@ "schedule_tele_mer" :> {"ped"}
        @@ "setup_insurance_mandate" :> {"kyc"}
        @@ "accept_insurance_policy" :> {"tele", "mandate"},
    "submit_ped_records" :> {"MEDICAL_DISCHARGE_SUMMARY", "HEALTH_CHECKUP_REPORT",
                             "PREVIOUS_POLICY_COPY"},
    "AMB_PRE_EXISTING_ILLNESS" :> "ped" @@ "AMB_SMOKING_STATUS" :> "medical",
    <<"submit_medical_declaration", "submit_ped_records", "submit_ped_exemption",
      "schedule_tele_mer", "setup_insurance_mandate", "accept_insurance_policy">>,
    <<"accept_insurance_policy", "schedule_tele_mer", "setup_insurance_mandate",
      "submit_medical_declaration", "submit_ped_exemption", "submit_ped_records">>,
    "submit_medical_declaration" :> NoGroup @@ "submit_ped_records" :> "ped_satisfaction"
        @@ "submit_ped_exemption" :> "ped_satisfaction" @@ "schedule_tele_mer" :> NoGroup
        @@ "setup_insurance_mandate" :> NoGroup @@ "accept_insurance_policy" :> NoGroup,
    "ped_satisfaction" :> "submit_ped_records",
    "ped_satisfaction" :> {"submit_ped_records", "submit_ped_exemption"},
    {Route("MEDICAL_DISCHARGE_SUMMARY", "ped", "submit_ped_records"),
     Route("HEALTH_CHECKUP_REPORT", "ped", "submit_ped_records"),
     Route("PREVIOUS_POLICY_COPY", "ped", "submit_ped_records")},
    {"submit_medical_declaration", "submit_ped_exemption", "accept_insurance_policy"})

\* What a pack author may change: an edge left out or made conditional, an action
\* without preconditions, one that satisfies nothing, one without its group.
Edits(p) ==
    {p} \cup {[p EXCEPT !.dependencies = @ \ {e}] : e \in p.dependencies}
    \cup {[p EXCEPT !.unmet = {e}] : e \in p.dependencies}
    \cup {[p EXCEPT !.preconditions[a] = {}] : a \in DOMAIN p.satisfies}
    \cup {[p EXCEPT !.satisfies[a] = {}] : a \in DOMAIN p.satisfies}
    \cup {[p EXCEPT !.group[a] = NoGroup] : a \in DOMAIN p.satisfies}

MCPacks == Edits(Lending) \cup Edits(Kyc) \cup {Insurance}

\* What the theorems ask of a manifest holds of these.
ASSUME ShippedAreRegular == \A p \in {Lending, Kyc, Insurance} : Regular(p)
ASSUME AllOneMeasure == \A p \in MCPacks : OneMeasure(p)

=============================================================================
