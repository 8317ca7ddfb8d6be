---------------------------- MODULE MCDeployment ----------------------------
(* A finite instance of Deployment.                                         *)
EXTENDS Deployment, TLC

MCSymmetry == Permutations(Emails) \cup Permutations(Passwords) \cup Permutations(Requests)
=============================================================================
