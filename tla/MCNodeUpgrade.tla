--------------------------- MODULE MCNodeUpgrade ---------------------------
(* Small instances of NodeUpgrade for TLC.  The two tenants are alike in every *)
(* constant, so a run without liveness properties may permute them.            *)
EXTENDS NodeUpgradeProps, TLC
CONSTANTS t1, t2, s1, restartAgent, applyFirewall
Symmetry == Permutations(Tenants)
=============================================================================
