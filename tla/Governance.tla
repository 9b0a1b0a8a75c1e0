----------------------------- MODULE Governance -----------------------------
(***************************************************************************)
(* The access decision of hydromemory/governance: the reservoir rules of   *)
(* policy_data.json and check_access, the one function that combines a     *)
(* reservoir's rule with a droplet's own permissions.                      *)
(*                                                                         *)
(* A droplet is seen here as a record with at least                        *)
(*   reservoir : Reservoir     where the droplet rests                     *)
(*   tainted   : BOOLEAN       meta usable_for_generation = False          *)
(*   allowed   : SUBSET Name   permissions.allowed_agents                  *)
(*   private   : BOOLEAN       permissions.visibility is PRIVATE           *)
(* Obligations are left out: check_access returns them and applies none.   *)
(***************************************************************************)
EXTENDS Naturals

Reservoir == {"working_stream", "surface", "groundwater", "glacier",
              "cloud", "ocean", "contaminated", "sacred"}

Operation == {"read", "expose_to_user", "mutate", "transform", "overwrite",
              "use_for_generation"}

\* TrustLevel, by its rank.
Session   == 0
Approved  == 1
HighTrust == 2
Trust     == Session..HighTrust

\* AccessContext: consent_granted and thaw_granted are what a decision reads.
AccessContext == [consent : BOOLEAN, thaw : BOOLEAN]

\* The context permission_score uses, and any caller that passes none.
NeutralContext == [consent |-> FALSE, thaw |-> FALSE]

(***************************************************************************)
(* The rules.  A set of reservoirs per flag stands for policy_data.json.   *)
(***************************************************************************)
\* Minimum trust of the access level each reservoir's rule names.
RequiredTrust(r) ==
    CASE r \in {"surface", "cloud"}                                -> Approved
      [] r \in {"groundwater", "ocean"}                            -> HighTrust
      [] r \in {"working_stream", "glacier", "contaminated", "sacred"} -> Session

FiltrationOnly   == {"contaminated"}
RequiresThaw     == {"glacier"}
RequiresConsent  == {"sacred"}
OverwriteBlocked == {"sacred"}
UserVisible      == {"surface"}
UnusableRule     == {"contaminated"}

-----------------------------------------------------------------------------
AgentInPermissions(d, agent) ==
    agent.proxy \/ d.allowed = {} \/ agent.name \in d.allowed

TrustOk(d, agent) == agent.trust >= RequiredTrust(d.reservoir)

\* usable_for_generation of the decision.  The local is set to FALSE once more
\* for a filtration-only reservoir, whose rule says so already.
UsableForGeneration(d) == d.reservoir \notin UnusableRule /\ ~d.tainted

\* The gates every operation passes, in the order check_access tests them.
ReservoirAdmits(d, agent, ctx) ==
    /\ d.reservoir \in FiltrationOnly => agent.filtration
    /\ AgentInPermissions(d, agent)
    /\ (agent.filtration /\ d.reservoir \in FiltrationOnly) \/ TrustOk(d, agent)
    /\ d.reservoir \in RequiresThaw => ctx.thaw /\ ctx.consent
    /\ d.reservoir \in RequiresConsent => ctx.consent \/ agent.proxy

\* check_access(droplet, agent, context, operation).allowed
CheckAccess(d, agent, ctx, op) ==
    /\ ReservoirAdmits(d, agent, ctx)
    /\ op = "overwrite" => d.reservoir \notin OverwriteBlocked
    /\ op = "expose_to_user" =>
          d.reservoir \in UserVisible /\ (d.private => agent.proxy)
    /\ op = "use_for_generation" => UsableForGeneration(d)
=============================================================================
