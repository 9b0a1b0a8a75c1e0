------------------------------- MODULE Grants -------------------------------
(***************************************************************************)
(* An app's memory and the grants it is used under (platform/apps.py,      *)
(* platform/grants.py).  An app absorbs into its scope of the vault and    *)
(* asks for access; owners approve, deny and revoke; recall takes the      *)
(* candidates out of the vault in one query and then puts each through     *)
(* enforce_grant, which reads the grants and the clock again every time.   *)
(* Between any two of these steps owners decide, time passes, and verbs    *)
(* move the memories.                                                      *)
(***************************************************************************)
EXTENDS Governance

CONSTANTS Apps,       \* app ids, which are also the names of the apps' vaults
          Owners,     \* names of the people whose memories these are
          OwnerOf,    \* AppMemory.owner: [Apps -> Owners]
          Requests,   \* request ids
          Ids,        \* droplet ids
          Agents,     \* the identities recall is called with
          Offers,     \* what may be asked for: sets of reservoirs and operations
          Rests,      \* bound: the reservoirs memories rest in
          Expiries,   \* bound: the expiries asked for, past MaxNow for none
          MaxNow      \* bound: the clock

ASSUME GrantsAssumption ==
  /\ OwnerOf \in [Apps -> Owners]
  /\ Agents \subseteq [name : STRING, trust : Trust, filtration : BOOLEAN, proxy : BOOLEAN]
  /\ Offers \subseteq [reservoirs : SUBSET Reservoir, operations : SUBSET Operation]
  /\ Rests \subseteq Reservoir
  /\ Expiries \subseteq Nat
  /\ MaxNow \in Nat

VARIABLES rows,     \* the droplets
          terms,    \* what each request asks for
          status,   \* the stored status of each request
          now,      \* the wall clock
          recall,   \* the recall each app is in the middle of
          live      \* requests in force at some moment of that recall

vars == <<rows, terms, status, now, recall, live>>

Droplet == [reservoir : Rests, tainted : {FALSE}, allowed : {{}}, private : {TRUE},
            owner : Owners, app : Apps, id : Ids]
NoRow == [app |-> "none"]

Terms == [app : Apps, owner : Owners, offer : Offers, expiry : Expiries]
NoTerms == [app |-> "none"]
Status == {"none", "pending", "approved", "denied", "revoked"}

NoRecall == [running |-> FALSE, left |-> {}, out |-> {}]
Callers == Agents \cup {[agent EXCEPT !.proxy = FALSE] : agent \in Agents}
Recall == [running : {TRUE}, agent : Callers, left : SUBSET Droplet, out : SUBSET Droplet]

TypeOK ==
  /\ rows \in [Ids -> Droplet \cup {NoRow}]
  /\ terms \in [Requests -> Terms \cup {NoTerms}]
  /\ status \in [Requests -> Status]
  /\ \A r \in Requests : status[r] # "none" => terms[r] \in Terms
  /\ now \in 0..MaxNow
  /\ recall \in [Apps -> Recall \cup {NoRecall}]
  /\ live \in [Apps -> SUBSET Requests]

Init ==
  /\ rows = [d \in Ids |-> NoRow]
  /\ terms = [r \in Requests |-> NoTerms]
  /\ status = [r \in Requests |-> "none"]
  /\ now = 0
  /\ recall = [a \in Apps |-> NoRecall]
  /\ live = [a \in Apps |-> {}]

-----------------------------------------------------------------------------
(* Grants *)

\* In force: approved by the owner, and not past its expiry.
InForce(r, s, t) == s[r] = "approved" /\ terms[r].expiry > t

\* A grant that is in force now has been so during every recall under way.
Lived(s) ==
  live' = [a \in Apps |->
             IF recall[a].running THEN live[a] \cup {r \in Requests : InForce(r, s, now)}
                                  ELSE {}]

\* AppMemory.request_access and GrantStore.request.
RequestAccess(a, r) ==
  /\ status[r] = "none"
  /\ \E offer \in Offers, expiry \in Expiries :
       terms' = [terms EXCEPT ![r] = [app |-> a, owner |-> OwnerOf[a],
                                      offer |-> offer, expiry |-> expiry]]
  /\ status' = [status EXCEPT ![r] = "pending"]
  /\ UNCHANGED <<rows, now, recall, live>>

\* Mutant of _set_status: the request is not looked up first.
DecideUnread(o, r, s) ==
  /\ terms[r] # NoTerms => terms[r].owner = o
  /\ status' = [status EXCEPT ![r] = s]
  /\ UNCHANGED <<rows, terms, now, recall, live>>

\* approve, deny and revoke: the request's owner only, whatever its status.
Decide(o, r, s) ==
  /\ status[r] # "none" /\ terms[r].owner = o
  /\ status' = [status EXCEPT ![r] = s]
  /\ Lived(status')
  /\ UNCHANGED <<rows, terms, now, recall>>

Tick ==
  /\ now < MaxNow
  /\ now' = now + 1
  /\ UNCHANGED <<rows, terms, status, recall, live>>

-----------------------------------------------------------------------------
(* Memories *)

\* The identity an app's scoped vault is opened under.
VaultIdentity(a) == [name |-> a, trust |-> Approved, filtration |-> FALSE, proxy |-> FALSE]

\* absorb.  A vault that denies the write stores nothing; absorb goes on.
Absorb(a, d) ==
  /\ rows[d] = NoRow
  /\ \E res \in Rests, o \in Owners :
       LET new == [reservoir |-> res, tainted |-> FALSE, allowed |-> {}, private |-> TRUE,
                   owner |-> o, app |-> a, id |-> d] IN
       /\ CheckAccess(new, VaultIdentity(a), NeutralContext, "mutate")
       /\ rows' = [rows EXCEPT ![d] = new]
  /\ UNCHANGED <<terms, status, now, recall, live>>

\* Some verb of the owner's moves a memory.
Move(d) ==
  /\ rows[d] # NoRow
  /\ \E res \in Rests : rows' = [rows EXCEPT ![d].reservoir = res]
  /\ UNCHANGED <<terms, status, now, recall, live>>

-----------------------------------------------------------------------------
(* Recall *)

\* Mutant of _authorize_identity: the proxy flag is taken as it comes.
AuthorizeAnyProxy(a, agent) == agent

\* Only the owner acting directly keeps the user-proxy flag.
AuthorizeIdentity(a, agent) ==
  IF agent.name = OwnerOf[a] THEN agent ELSE [agent EXCEPT !.proxy = FALSE]

\* VaultRepository.query: the rows of the scope its identity may read.
Candidates(a) ==
  {rows[d] : d \in {d \in Ids :
     /\ rows[d] # NoRow
     /\ rows[d].app = a
     /\ CheckAccess(rows[d], VaultIdentity(a), NeutralContext, "read")}}

RecallBegins(a, agent) ==
  /\ ~recall[a].running
  /\ recall' = [recall EXCEPT ![a] =
       [running |-> TRUE, agent |-> AuthorizeIdentity(a, agent),
        left |-> Candidates(a), out |-> {}]]
  /\ live' = [live EXCEPT ![a] =
       {r \in Requests : InForce(r, status, now)}]
  /\ UNCHANGED <<rows, terms, status, now>>

\* Mutant of active_for: the stored status alone decides.
ActiveByStatus(a) == {r \in Requests : status[r] = "approved" /\ terms[r].app = a}

\* active_for: approved, and an expiry at this very moment is past.
ActiveFor(a) ==
  {r \in Requests : status[r] = "approved" /\ terms[r].app = a /\ terms[r].expiry > now}

Covers(r, drop, operation) ==
  /\ terms[r].owner = drop.owner
  /\ drop.reservoir \in terms[r].offer.reservoirs
  /\ operation \in terms[r].offer.operations

\* Mutant of enforce_grant: an active grant is enough.
EnforceGrantOnly(drop, agent, operation, a) ==
  agent.proxy \/ \E r \in ActiveFor(a) : Covers(r, drop, operation)

\* enforce_grant(...).allowed
EnforceGrant(drop, agent, operation, a) ==
  /\ CheckAccess(drop, agent, NeutralContext, operation)
  /\ agent.proxy \/ \E r \in ActiveFor(a) : Covers(r, drop, operation)

\* One turn of recall's loop.
Check(a, drop) ==
  /\ recall[a].running /\ drop \in recall[a].left
  /\ recall' = [recall EXCEPT
       ![a].left = @ \ {drop},
       ![a].out = IF EnforceGrant(drop, recall[a].agent, "read", a)
                    THEN @ \cup {drop} ELSE @]
  /\ UNCHANGED <<rows, terms, status, now, live>>

\* The caller has its list and is done with it.
RecallReturns(a) ==
  /\ recall[a].running /\ recall[a].left = {}
  /\ recall' = [recall EXCEPT ![a] = NoRecall]
  /\ live' = [live EXCEPT ![a] = {}]
  /\ UNCHANGED <<rows, terms, status, now>>

-----------------------------------------------------------------------------
Next ==
  \/ \E a \in Apps :
       \/ \E r \in Requests : RequestAccess(a, r)
       \/ \E d \in Ids : Absorb(a, d)
       \/ \E agent \in Agents : RecallBegins(a, agent)
       \/ \E drop \in recall[a].left : Check(a, drop)
       \/ RecallReturns(a)
  \/ \E o \in Owners, r \in Requests, s \in {"approved", "denied", "revoked"} :
       Decide(o, r, s)
  \/ \E d \in Ids : Move(d)
  \/ Tick

Spec == Init /\ [][Next]_vars

-----------------------------------------------------------------------------
(* Properties *)

\* docs/integration-levels.md: an approved grant is enforced on every access.
\* What a recall for anyone but the owner holds was covered, reservoir and
\* operation together, by one grant that was in force at some moment of this very
\* recall: none revoked, denied or expired before it began, and no two grants
\* that would cover it only between them.
ReturnedWasGranted ==
  \A a \in Apps : recall[a].running =>
    \A drop \in recall[a].out :
      \/ recall[a].agent.proxy /\ recall[a].agent.name = OwnerOf[a]
      \/ \E r \in live[a] : terms[r].app = a /\ Covers(r, drop, "read")

\* A grant can only narrow: whatever it says, the app gets only memories of its
\* own scope that governance lets both the app's vault and the agent read.
GrantsOnlyNarrow ==
  \A a \in Apps : recall[a].running =>
    \A drop \in recall[a].out :
      /\ drop.app = a
      /\ CheckAccess(drop, VaultIdentity(a), NeutralContext, "read")
      /\ CheckAccess(drop, recall[a].agent, NeutralContext, "read")
=============================================================================
