-------------------------- MODULE MCFirewallApply --------------------------
(* Small instances of FirewallApply for TLC: the hosts and the tables -- two *)
(* let the operator in, `lock` only while the run's own source is allowed,   *)
(* `shut` never.                                                             *)
EXTENDS FirewallApply, TLC
CONSTANTS h1, h2, old, new, lock, shut

\* The hosts are alike; the run that uses it checks invariants only.
HostSymmetry == Permutations(Hosts)
=============================================================================
