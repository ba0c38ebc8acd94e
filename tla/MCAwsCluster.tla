---------------------------- MODULE MCAwsCluster ----------------------------
(* Instances of AwsCluster for TLC; the configurations give the constants. *)
EXTENDS AwsCluster, TLC

Symmetry == Permutations(Procs)
=============================================================================
