------------------------------ MODULE MCVault ------------------------------
(* Two processes with the default identity, a user proxy, so that either   *)
(* may walk the vault.  Which app they serve, or whether they are plain    *)
(* engines, is chosen anew whenever they open.  Ids, apps, keys and        *)
(* processes are interchangeable.                                          *)
EXTENDS Vault, TLC

Symmetry == Permutations(Ids) \cup Permutations(Apps) \cup Permutations(Keys)
            \cup Permutations(Clients)
=============================================================================
