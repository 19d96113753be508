---------------------------- MODULE MCClickLimit ----------------------------
(* Model-checking instance of ClickLimit. *)
EXTENDS ClickLimit, TLC

VisitorSymmetry == Permutations(Visitors)

=============================================================================
