----------------------------- MODULE MCDeployer -----------------------------
(* Model-checking instances of Deployer. *)
EXTENDS Deployer, TLC

TaskSymmetry == Permutations(Tasks)

=============================================================================
