------------------------------ MODULE MCRecall ------------------------------
(* Recall for TLC: an agent that some reservoirs admit and others do not. *)
EXTENDS Recall

TrustedAgent == [name |-> "trusted", trust |-> HighTrust,
                 filtration |-> FALSE, proxy |-> FALSE]

OneAgent == {TrustedAgent}

\* No step and no property of this run reads dirty.
WithoutDirty == <<rows, held, tick, forgotten, calls>>
=============================================================================
