---------------------------- MODULE MCLinkCache ----------------------------
(* Instances of LinkCache for TLC.                                         *)
EXTENDS LinkCache, TLC

\* Two spellings of one code; two codes.
OneCode  == {"go", "Go"}
TwoCodes == {"go", "up"}
Fold(S)  == [c \in S |-> IF c = "Go" THEN "go" ELSE c]
LowerOneCode  == Fold(OneCode)
LowerTwoCodes == Fold(TwoCodes)

\* Requests are interchangeable, and so are handlers.
RequestSymmetry == Permutations(Requests)
MutatorSymmetry == Permutations(Mutators)

=============================================================================
