--------------------------- MODULE MCFinancePipeline ---------------------------
(* Instances of FinancePipeline for TLC. *)
EXTENDS FinancePipeline, TLC

CONSTANTS a1, t1, s1, s2, food, rent

MCAmounts == {-1}
MCOpenings == {0}
MCSymmetry == Permutations(Sessions) \cup Permutations(Categories)
=============================================================================
