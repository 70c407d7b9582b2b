---------------------------- MODULE MCPtySession ----------------------------
(* Instances of PtySession for TLC: the clients of one account are          *)
(* interchangeable, so runs without liveness may take them as symmetric.    *)
EXTENDS PtySession, TLC

ClientSymmetry == Permutations(Clients)
=============================================================================
