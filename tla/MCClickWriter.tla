--------------------------- MODULE MCClickWriter ---------------------------
(* Model-checking instance of ClickWriter. *)
EXTENDS ClickWriter, TLC

ClickSymmetry == Permutations(Clicks)

=============================================================================
