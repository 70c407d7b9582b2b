--------------------------- MODULE MCWorkspaceOps ---------------------------
(* Instances of WorkspaceOps for TLC: the clients of one account are        *)
(* interchangeable, so runs without liveness may take them as symmetric.    *)
EXTENDS WorkspaceOps, TLC

ClientSymmetry == Permutations(Clients)
=============================================================================
