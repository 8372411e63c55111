------------------------------ MODULE MCReview ------------------------------
(***************************************************************************)
(* Small instances of ReviewCenter: one journey whose declared income is   *)
(* in conflict, one customer, and two desks, of one reviewer (the same     *)
(* page twice) or of two.                                                  *)
(***************************************************************************)
EXTENDS ReviewCenter, TLC

MCFields         == {"income"}
MCSatisfies      == [a \in {"LINK"} |-> {"income"}]
MCNoFields       == [a \in {"LINK"} |-> {}]
MCAmbiguityField == [a \in {"INCOME_MISMATCH"} |-> "income"]

MCInputs == {[action |-> "LINK", upload |-> NoUpload, ambiguity |-> "INCOME_MISMATCH",
              typed |-> "given", valid |-> TRUE]}

MCAnswers    == {[ambiguity |-> "INCOME_MISMATCH", typed |-> "given", valid |-> TRUE]}
MCAllAnswers == MCAnswers \cup {[ambiguity |-> "INCOME_MISMATCH", typed |-> "given", valid |-> FALSE]}

\* No action reads a document here, so what the provider says of it makes no difference.
MCVerdicts == {[verified |-> TRUE, complete |-> TRUE]}

MCSameReviewer == [d \in Desks |-> CHOOSE r \in Reviewers : TRUE]

\* Each reviewer at one desk: the reviewers are named after their desks.
MCOwnDesk == [d \in Desks |-> d]

KeySymmetry  == Permutations(Keys)
DeskSymmetry == Permutations(Keys) \cup Permutations(Desks)

=============================================================================
