---------------------------- MODULE MCWaterCycle ----------------------------
(* WaterCycle for TLC: the agents of the checks; ids are interchangeable. *)
EXTENDS WaterCycle, TLC

SessionAgent == [name |-> "session", trust |-> Session,
                 filtration |-> FALSE, proxy |-> FALSE]
TrustedAgent == [name |-> "trusted", trust |-> HighTrust,
                 filtration |-> FALSE, proxy |-> FALSE]
FilterAgent  == [name |-> "filtration", trust |-> Session,
                 filtration |-> TRUE, proxy |-> FALSE]
Owner        == [name |-> "user", trust |-> HighTrust,
                 filtration |-> FALSE, proxy |-> TRUE]

AllAgents == {SessionAgent, TrustedAgent, FilterAgent, Owner}

Symmetry == Permutations(Id)
=============================================================================
