---------------------------- MODULE MCLinkTable ----------------------------
(* Model-checking instance of LinkTable. *)
EXTENDS LinkTable, TLC

TableSymmetry ==
  Permutations(Ids) \cup Permutations(Codes) \cup Permutations(Users)
    \cup Permutations(Handlers)

=============================================================================
