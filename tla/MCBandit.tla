------------------------------ MODULE MCBandit ------------------------------
(* Bandit with interchangeable arms, threads and runs.                     *)
EXTENDS Bandit, TLC

MCSymmetry == Permutations(Handlers) \union Permutations(Runs)
=============================================================================
