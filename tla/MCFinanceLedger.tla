--------------------------- MODULE MCFinanceLedger ---------------------------
(* Instances of FinanceLedger for TLC. *)
EXTENDS FinanceLedger, TLC

CONSTANTS a1, t1, t2, s1, s2, s3, food

MCAmounts == {-2, 1}
MCOpenings == {1}
MCSymmetry == Permutations(Sessions) \cup Permutations(Txs)
=============================================================================
