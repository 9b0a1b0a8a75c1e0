------------------------------- MODULE MCMesh -------------------------------
(* Mesh for TLC: the mesh's three reactions and one relay. *)
EXTENDS Mesh

AllSubs == {"relay", "assess", "filter", "reverify"}

\* The relay hears of what the mesh works on and of what it did.
Topics == [s \in Sub |-> CASE s = "assess"   -> {"absorbed"}
                               [] s = "filter"   -> {"polluted"}
                               [] s = "reverify" -> {"distilled"}
                               [] OTHER          -> {"absorbed", "transformed"}]

Filtration == [name |-> "filtration", trust |-> HighTrust,
               filtration |-> TRUE, proxy |-> FALSE]

\* ReflectionAgent and HydrologistAgent are APPROVED; so is the relay.
Identities == [s \in Sub |->
    IF s \in {"assess", "filter"} THEN Filtration
    ELSE [name |-> IF s = "reverify" THEN "reflection" ELSE s,
          trust |-> Approved, filtration |-> FALSE, proxy |-> FALSE]]

RestHere == {"surface"}
=============================================================================
