----------------------------- MODULE MCAccounts -----------------------------
(* Model-checking instance of Accounts. *)
EXTENDS Accounts, TLC

AccountsSymmetry ==
  Permutations(Users) \cup Permutations(Subjects) \cup Permutations(Handlers)
    \cup Permutations(Sessions)

=============================================================================
