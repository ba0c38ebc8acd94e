--------------------------- MODULE MCLocalCluster ---------------------------
(***************************************************************************)
(* Two processes, a machine with docker and podman, and somebody else who  *)
(* may take the second member's name in docker.                            *)
(***************************************************************************)
EXTENDS LocalCluster

TwoRuntimes == <<"docker", "podman">>
SecondInDocker == {<<"docker", 2>>}
=============================================================================
