--------------------------- MODULE MCSecondFactor ---------------------------
(* Model-checking instance of SecondFactor. *)
EXTENDS SecondFactor, TLC

FactorSymmetry == Permutations(Attempts) \cup Permutations(Handlers)

=============================================================================
