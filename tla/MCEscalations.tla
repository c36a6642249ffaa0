--------------------------- MODULE MCEscalations ---------------------------
(* Instances of Escalations for TLC.                                       *)
EXTENDS Escalations, TLC

ActorSymmetry == Permutations(Task) \cup Permutations(Operator)

=============================================================================
