------------------------------- MODULE MCLogin -------------------------------
(* Model-checking instance of Login: addresses are interchangeable. *)
EXTENDS Login, TLC

MCSymmetry == Permutations(Addresses)

=============================================================================
