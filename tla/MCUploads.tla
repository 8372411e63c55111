----------------------------- MODULE MCUploads ------------------------------
(***************************************************************************)
(* Two ways of the lending pack to prove an income, an employer's record,  *)
(* and a cheque that is itself the proof of a Boolean field.  Incomes are  *)
(* in thousands of rupees.                                                 *)
(***************************************************************************)
EXTENDS Uploads, TLC

CONSTANTS rahul, priya, amit, ifsc

MCDocTypes == {"SALARY_SLIP", "BANK_STATEMENT", "OFFER_LETTER", "CANCELLED_CHEQUE"}

Route(field, action, threshold) == [field |-> field, action |-> action, threshold |-> threshold]

MCMapping ==
    "SALARY_SLIP"         :> Route("monthly_income", "UPLOAD_INCOME_PROOF", 85)
    @@ "BANK_STATEMENT"   :> Route("monthly_income", "UPLOAD_INCOME_PROOF", 80)
    @@ "CANCELLED_CHEQUE" :> Route("bank_account_verified", "UPLOAD_CHEQUE", 68)

MCSought ==
    "SALARY_SLIP" :> {"monthly_income"} @@ "BANK_STATEMENT" :> {"monthly_income"}
    @@ "OFFER_LETTER" :> {} @@ "CANCELLED_CHEQUE" :> {}

MCAccepts ==
    "UPLOAD_INCOME_PROOF" :> {"SALARY_SLIP", "BANK_STATEMENT"}
    @@ "UPLOAD_CHEQUE" :> {"CANCELLED_CHEQUE"} @@ "ACCEPT_OFFER" :> {"OFFER_LETTER"}

MCSatisfies ==
    "UPLOAD_INCOME_PROOF" :> {"monthly_income"} @@ "UPLOAD_CHEQUE" :> {"bank_account_verified"}
    @@ "ACCEPT_OFFER" :> {}

MCMockValue == "monthly_income" :> 85 @@ "bank_account_verified" :> 1

-----------------------------------------------------------------------------
(* Texts, files and settings                                               *)

Scores(doc) == [d \in MCDocTypes |-> IF d = doc THEN 60 ELSE 10]

Paper(doc, name, income) ==
    [words |-> 40, ocr |-> 95, top |-> doc, p |-> 95, score |-> Scores(doc),
     intact |-> MCDocTypes, name |-> name, id |-> None,
     values |-> "monthly_income" :> income, valid |-> {"monthly_income"},
     gross |-> None, deductions |-> None, trouble |-> FALSE, manual |-> NoValues]

MCBlank == [Paper("SALARY_SLIP", None, 0) EXCEPT !.words = 0, !.ocr = 0, !.values = NoValues,
                                                 !.p = 20, !.score = [d \in MCDocTypes |-> 0]]

Sample(doc) == [Paper(doc, rahul, 66) EXCEPT !.p = 40]
MCTemplate == "SALARY_SLIP" :> Sample("SALARY_SLIP")

Pdf(text)   == [kind |-> "pdf", flaw |-> "none", layer |-> text, scan |-> MCBlank,
                title |-> NoDoc, bytes |-> NoDoc]
Image(text, title) == [Pdf(MCBlank) EXCEPT !.kind = "image", !.scan = text, !.title = title]
Form(values) == [Pdf([MCBlank EXCEPT !.manual = values, !.words = 1]) EXCEPT !.kind = "form"]

Slip      == Paper("SALARY_SLIP", rahul, 82)
Raise     == Paper("SALARY_SLIP", priya, 90)
Short     == [Paper("SALARY_SLIP", amit, 84) EXCEPT !.words = 12, !.ocr = 90, !.p = 92,
                                                        !.trouble = TRUE]
Padded    == [Paper("SALARY_SLIP", rahul, 83) EXCEPT !.gross = 100, !.deductions = 10]
Letter    == Paper("OFFER_LETTER", priya, 66)
Cheque    == [Paper("CANCELLED_CHEQUE", rahul, 0) EXCEPT !.id = ifsc, !.values = NoValues]

Case(file, doc) == [file |-> file, doc |-> doc]

LocalCases == {
    Case(Pdf(Slip), "SALARY_SLIP"),
    Case(Pdf(Raise), "BANK_STATEMENT"),
    Case(Image(Short, "SALARY_SLIP"), "BANK_STATEMENT"),
    Case(Pdf(Padded), "SALARY_SLIP"),
    Case(Pdf(Letter), "OFFER_LETTER")}

\* Sarvam is asked about the documents and not about the form; when it fails, the
\* local engine answers.
RemoteCases == {
    Case(Pdf(Slip), "SALARY_SLIP"),
    Case(Pdf(Raise), "BANK_STATEMENT"),
    Case(Pdf(Cheque), "CANCELLED_CHEQUE"),
    Case(Form("monthly_income" :> 50), "SALARY_SLIP")}

Refused == Case([Pdf(Slip) EXCEPT !.flaw = "too_large"], "SALARY_SLIP")

MCCases == "mock" :> LocalCases \cup RemoteCases \cup {Refused}
           @@ "local_ml" :> LocalCases @@ "sarvam" :> RemoteCases

Configured(provider, tesseract, uploads, together) ==
    [provider |-> provider, sarvam |-> provider = "sarvam", tesseract |-> tesseract,
     trained |-> TRUE, uploads |-> uploads, together |-> together]

MCSettings == {Configured("mock", TRUE, 2, 2),
               Configured("local_ml", TRUE, 3, 1),
               Configured("local_ml", FALSE, 2, 1),
               Configured("sarvam", TRUE, 2, 2)}

Answer(status, values, rating) ==
    [status |-> status, values |-> values, blank |-> FALSE, rated |-> TRUE, rating |-> rating,
     pages |-> 1, read |-> 1]

MCAnswers == {Answer("completed", "monthly_income" :> 68, 90),
              Answer("completed", "monthly_income" :> 90, 82),
              Answer("partially_completed", "monthly_income" :> 68, 90)}

\* The linked account of another action told this income.
MCStarts == {"monthly_income" :> 85}

=============================================================================
