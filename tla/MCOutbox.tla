------------------------------ MODULE MCOutbox ------------------------------
(***************************************************************************)
(* Small instances of Outbox: the flush of each event and one or two       *)
(* sweepers, and as many executions of the workflow at a time as there     *)
(* are deliveries.                                                         *)
(***************************************************************************)
EXTENDS Outbox, TLC

SweepSymmetry == Permutations(Sweepers) \cup Permutations(Deliveries)

=============================================================================
