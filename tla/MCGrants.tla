------------------------------ MODULE MCGrants ------------------------------
(* Grants for TLC: one app of "user", who has a friend. *)
EXTENDS Grants, TLC

Everybody == {"user", "friend"}
UserOwns == [a \in Apps |-> "user"]

\* The owner, an agent that claims to be a proxy, and one of little trust.
Asking ==
  {[name |-> "user", trust |-> HighTrust, filtration |-> FALSE, proxy |-> TRUE],
   [name |-> "agent", trust |-> HighTrust, filtration |-> FALSE, proxy |-> TRUE],
   [name |-> "agent", trust |-> Session, filtration |-> FALSE, proxy |-> FALSE]}

\* The first two cover reading from the surface only between them.
Asked ==
  {[reservoirs |-> {"surface"}, operations |-> {"expose_to_user"}],
   [reservoirs |-> {"groundwater"}, operations |-> {"read"}],
   [reservoirs |-> {"surface", "groundwater"}, operations |-> {"read"}]}

Places == {"surface", "groundwater"}
Interchangeable == Permutations(Requests) \cup Permutations(Ids)
=============================================================================
