------------------------------ MODULE MCStores ------------------------------
(* Stores, with two Postgres connections that are alike. *)
EXTENDS Stores, TLC

ConnSymmetry == Permutations(Conn)
=============================================================================
