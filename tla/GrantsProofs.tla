---------------------------- MODULE GrantsProofs ----------------------------
(***************************************************************************)
(* That recall hands out only what a grant in force and governance both    *)
(* cover, for any apps, owners, requests, agents, offers and clock.        *)
(***************************************************************************)
EXTENDS Grants, TLAPS

\* Terms do not change once a request is filed, so what is said of a grant in
\* live stays true; only the owner keeps the proxy flag through recall.
GrantsInv ==
  /\ TypeOK
  /\ \A a \in Apps : live[a] \subseteq {r \in Requests : status[r] # "none"}
  /\ \A a \in Apps : recall[a].running =>
       /\ \A r \in Requests : InForce(r, status, now) => r \in live[a]
       /\ recall[a].agent.proxy => recall[a].agent.name = OwnerOf[a]

\* What waits to be checked came out of the app's own scoped query.
ScopeInv ==
  /\ TypeOK
  /\ \A a \in Apps : recall[a].running =>
       \A drop \in recall[a].left :
         drop.app = a /\ CheckAccess(drop, VaultIdentity(a), NeutralContext, "read")

-----------------------------------------------------------------------------
\* A recall under way has the whole record.
LEMMA RunningRecall ==
  ASSUME TypeOK, NEW a \in Apps, recall[a].running
  PROVE  recall[a] \in Recall
BY DEF TypeOK, NoRecall

\* Every step keeps the types.
LEMMA TypeStep == TypeOK /\ [Next]_vars => TypeOK'
<1> SUFFICES ASSUME TypeOK, [Next]_vars PROVE TypeOK'
  OBVIOUS
<1> USE GrantsAssumption DEF TypeOK
<1>1. ASSUME NEW a \in Apps, NEW r \in Requests, RequestAccess(a, r) PROVE TypeOK'
  <2>1. PICK offer \in Offers, expiry \in Expiries :
          terms' = [terms EXCEPT ![r] = [app |-> a, owner |-> OwnerOf[a],
                                         offer |-> offer, expiry |-> expiry]]
    BY <1>1 DEF RequestAccess
  <2>2. [app |-> a, owner |-> OwnerOf[a], offer |-> offer, expiry |-> expiry] \in Terms
    BY DEF Terms
  <2>3. terms' \in [Requests -> Terms \cup {NoTerms}]
    BY <2>1, <2>2
  <2>4. status' \in [Requests -> Status]
    BY <1>1 DEF RequestAccess, Status
  <2>5. \A q \in Requests : status'[q] # "none" => terms'[q] \in Terms
    BY <1>1, <2>1, <2>2 DEF RequestAccess
  <2> QED  BY <1>1, <2>3, <2>4, <2>5 DEF RequestAccess
<1>2. ASSUME NEW a \in Apps, NEW d \in Ids, Absorb(a, d) PROVE TypeOK'
  <2>1. PICK res \in Rests, o \in Owners :
          rows' = [rows EXCEPT ![d] =
                     [reservoir |-> res, tainted |-> FALSE, allowed |-> {},
                      private |-> TRUE, owner |-> o, app |-> a, id |-> d]]
    BY <1>2 DEF Absorb
  <2>2. [reservoir |-> res, tainted |-> FALSE, allowed |-> {}, private |-> TRUE,
         owner |-> o, app |-> a, id |-> d] \in Droplet
    BY DEF Droplet
  <2>3. rows' \in [Ids -> Droplet \cup {NoRow}]
    BY <2>1, <2>2
  <2> QED  BY <1>2, <2>3 DEF Absorb
<1>3. ASSUME NEW a \in Apps, NEW agent \in Agents, RecallBegins(a, agent) PROVE TypeOK'
  <2>1. AuthorizeIdentity(a, agent) \in Callers
    BY DEF AuthorizeIdentity, Callers
  <2>2. Candidates(a) \subseteq Droplet
    BY DEF Candidates
  <2>3. [running |-> TRUE, agent |-> AuthorizeIdentity(a, agent),
         left |-> Candidates(a), out |-> {}] \in Recall
    BY <2>1, <2>2 DEF Recall
  <2>4. recall' \in [Apps -> Recall \cup {NoRecall}]
    BY <1>3, <2>3 DEF RecallBegins
  <2>5. live' \in [Apps -> SUBSET Requests]
    BY <1>3 DEF RecallBegins
  <2> QED  BY <1>3, <2>4, <2>5 DEF RecallBegins
<1>4. ASSUME NEW a \in Apps, NEW drop \in recall[a].left, Check(a, drop) PROVE TypeOK'
  <2>1. recall[a] \in Recall
    BY <1>4, RunningRecall DEF Check
  <2>2. PICK out \in SUBSET Droplet :
          recall' = [recall EXCEPT ![a].left = @ \ {drop}, ![a].out = out]
    BY <1>4, <2>1 DEF Check, Recall
  <2>3. [recall[a] EXCEPT !.left = @ \ {drop}, !.out = out] \in Recall
    BY <2>1 DEF Recall
  <2>4. recall' \in [Apps -> Recall \cup {NoRecall}]
    BY <2>2, <2>3
  <2> QED  BY <1>4, <2>4 DEF Check
<1>5. ASSUME NEW a \in Apps, RecallReturns(a) PROVE TypeOK'
  BY <1>5 DEF RecallReturns
<1>6. ASSUME NEW o \in Owners, NEW r \in Requests,
             NEW s \in {"approved", "denied", "revoked"}, Decide(o, r, s)
      PROVE  TypeOK'
  <2>1. status' \in [Requests -> Status]
    BY <1>6 DEF Decide, Status
  <2>2. \A q \in Requests : status'[q] # "none" => terms'[q] \in Terms
    BY <1>6 DEF Decide
  <2>3. live' \in [Apps -> SUBSET Requests]
    BY <1>6 DEF Decide, Lived
  <2> QED  BY <1>6, <2>1, <2>2, <2>3 DEF Decide
<1>7. ASSUME NEW d \in Ids, Move(d) PROVE TypeOK'
  <2>1. PICK res \in Rests : rows' = [rows EXCEPT ![d].reservoir = res]
    BY <1>7 DEF Move
  <2>2. rows[d] \in Droplet
    BY <1>7 DEF Move
  <2>3. [rows[d] EXCEPT !.reservoir = res] \in Droplet
    BY <2>2 DEF Droplet
  <2> QED  BY <1>7, <2>1, <2>3 DEF Move
<1>8. CASE Tick
  BY <1>8 DEF Tick
<1>9. CASE UNCHANGED vars
  BY <1>9 DEF vars
<1> QED  BY <1>1, <1>2, <1>3, <1>4, <1>5, <1>6, <1>7, <1>8, <1>9 DEF Next

\* The variables of the store, the clock and the recalls keep their types.
THEOREM GrantsTypes == Spec => []TypeOK
<1>1. Init => TypeOK
  BY GrantsAssumption DEF Init, TypeOK, Status, NoRecall, NoRow, NoTerms
<1> QED  BY <1>1, TypeStep, PTL DEF Spec

-----------------------------------------------------------------------------
\* The two flags recall depends on are settled before the first check.
LEMMA GrantsInvStep == GrantsInv /\ [Next]_vars => GrantsInv'
<1> SUFFICES ASSUME GrantsInv, [Next]_vars PROVE GrantsInv'
  OBVIOUS
<1>t. TypeOK /\ TypeOK'
  BY TypeStep DEF GrantsInv
<1> DEFINE Known == \A a \in Apps : live[a] \subseteq {r \in Requests : status[r] # "none"}
           Covered == \A a \in Apps : recall[a].running =>
                        \A r \in Requests : InForce(r, status, now) => r \in live[a]
           Owned == \A a \in Apps : recall[a].running =>
                      (recall[a].agent.proxy => recall[a].agent.name = OwnerOf[a])
<1>i. Known /\ Covered /\ Owned
  BY DEF GrantsInv
<1> SUFFICES Known' /\ Covered' /\ Owned'
  BY <1>t DEF GrantsInv
<1>1. ASSUME NEW a \in Apps, NEW r \in Requests, RequestAccess(a, r)
      PROVE  Known' /\ Covered' /\ Owned'
  <2>1. \A q \in Requests : InForce(q, status, now)' => InForce(q, status, now)
    <3>1. \A q \in Requests : q # r => terms'[q] = terms[q] /\ status'[q] = status[q]
      BY <1>1, <1>t DEF RequestAccess, TypeOK
    <3>2. status'[r] = "pending" /\ now' = now
      BY <1>1, <1>t DEF RequestAccess, TypeOK
    <3> QED  BY <3>1, <3>2 DEF InForce
  <2>2. recall' = recall /\ live' = live
    BY <1>1 DEF RequestAccess
  <2>3. \A q \in Requests : status[q] # "none" => status'[q] # "none"
    BY <1>1, <1>t DEF RequestAccess, TypeOK
  <2> QED  BY <1>i, <2>1, <2>2, <2>3
<1>2. ASSUME NEW a \in Apps, NEW d \in Ids, Absorb(a, d)
      PROVE  Known' /\ Covered' /\ Owned'
  BY <1>2, <1>i DEF Absorb, InForce
<1>3. ASSUME NEW a \in Apps, NEW agent \in Agents, RecallBegins(a, agent)
      PROVE  Known' /\ Covered' /\ Owned'
  <2>1. Known'
    BY <1>3, <1>i, <1>t DEF RecallBegins, TypeOK, InForce
  <2>2. Covered'
    BY <1>3, <1>i, <1>t DEF RecallBegins, TypeOK, InForce
  <2>3. AuthorizeIdentity(a, agent).proxy =>
          AuthorizeIdentity(a, agent).name = OwnerOf[a]
    BY GrantsAssumption DEF AuthorizeIdentity
  <2>4. /\ \A b \in Apps \ {a} : recall'[b] = recall[b]
        /\ recall'[a].agent = AuthorizeIdentity(a, agent)
    BY <1>3, <1>t DEF RecallBegins, TypeOK
  <2>5. ASSUME NEW b \in Apps, recall'[b].running
        PROVE  recall'[b].agent.proxy => recall'[b].agent.name = OwnerOf[b]
    <3>1. CASE b = a
      BY <2>3, <2>4, <3>1
    <3>2. CASE b # a
      <4>1. recall'[b] = recall[b]
        BY <2>4, <3>2
      <4> QED  BY <1>i, <2>5, <4>1
    <3> QED  BY <3>1, <3>2
  <2>6. Owned'
    BY <2>5
  <2> QED  BY <2>1, <2>2, <2>6
<1>4. ASSUME NEW a \in Apps, NEW drop \in recall[a].left, Check(a, drop)
      PROVE  Known' /\ Covered' /\ Owned'
  <2>1. /\ \A b \in Apps : /\ recall'[b].running = recall[b].running
                           /\ recall[b].running => recall'[b].agent = recall[b].agent
        /\ UNCHANGED <<terms, status, now, live>>
    BY <1>4, <1>t, RunningRecall DEF Check, TypeOK, Recall
  <2> QED  BY <1>i, <2>1 DEF InForce
<1>5. ASSUME NEW a \in Apps, RecallReturns(a)
      PROVE  Known' /\ Covered' /\ Owned'
  <2>1. /\ recall' = [recall EXCEPT ![a] = NoRecall]
        /\ live' = [live EXCEPT ![a] = {}]
        /\ UNCHANGED <<terms, status, now>>
    BY <1>5 DEF RecallReturns
  <2> QED  BY <1>i, <1>t, <2>1 DEF InForce, TypeOK, NoRecall
<1>6. ASSUME NEW o \in Owners, NEW r \in Requests,
             NEW s \in {"approved", "denied", "revoked"}, Decide(o, r, s)
      PROVE  Known' /\ Covered' /\ Owned'
  <2>1. \A q \in Requests : status[q] # "none" => status'[q] # "none"
    BY <1>6, <1>t DEF Decide, TypeOK
  <2>2. UNCHANGED <<terms, now, recall>> /\ Lived(status')
    BY <1>6 DEF Decide
  <2>3. Known'
    BY <1>i, <2>1, <2>2 DEF Lived, InForce
  <2>4. Covered'
    BY <1>i, <2>2 DEF Lived, InForce
  <2> QED  BY <1>i, <2>2, <2>3, <2>4
<1>7. ASSUME NEW d \in Ids, Move(d) PROVE Known' /\ Covered' /\ Owned'
  BY <1>7, <1>i DEF Move, InForce
<1>8. CASE Tick
  <2>1. UNCHANGED <<terms, status, recall, live>> /\ now' = now + 1
    BY <1>8 DEF Tick
  <2>2. \A q \in Requests : InForce(q, status, now)' => InForce(q, status, now)
    <3> SUFFICES ASSUME NEW q \in Requests, InForce(q, status, now)'
                 PROVE  InForce(q, status, now)
      OBVIOUS
    <3>1. status[q] = "approved" /\ terms[q].expiry > now + 1
      BY <2>1 DEF InForce
    <3>2. now \in Nat
      BY <1>t, GrantsAssumption DEF TypeOK
    <3>3. terms[q] \in Terms
      BY <1>t, <3>1 DEF TypeOK
    <3>4. terms[q].expiry \in Nat
      BY <3>3, GrantsAssumption DEF Terms
    <3> QED  BY <3>1, <3>2, <3>4 DEF InForce
  <2> QED  BY <1>i, <2>1, <2>2
<1>9. CASE UNCHANGED vars
  BY <1>9, <1>i DEF vars, InForce
<1> QED  BY <1>1, <1>2, <1>3, <1>4, <1>5, <1>6, <1>7, <1>8, <1>9 DEF Next

\* The invariant of the two checks recall relies on holds throughout.
LEMMA GrantsInvHolds == Spec => []GrantsInv
<1>1. Init => GrantsInv
  <2>1. Init => TypeOK
    BY GrantsAssumption DEF Init, TypeOK, Status, NoRecall, NoRow, NoTerms
  <2> QED  BY <2>1 DEF Init, GrantsInv, NoRecall
<1> QED  BY <1>1, GrantsInvStep, PTL DEF Spec

-----------------------------------------------------------------------------
\* What a check lets through was covered by a grant already recorded as live.
LEMMA CheckedIsCovered ==
  ASSUME GrantsInv, NEW a \in Apps, NEW drop, Check(a, drop),
         EnforceGrant(drop, recall[a].agent, "read", a)
  PROVE  \/ recall[a].agent.proxy /\ recall[a].agent.name = OwnerOf[a]
         \/ \E r \in live[a] : terms[r].app = a /\ Covers(r, drop, "read")
<1>1. recall[a].running
  BY DEF Check
<1>2. CASE recall[a].agent.proxy
  BY <1>1, <1>2 DEF GrantsInv
<1>3. CASE ~recall[a].agent.proxy
  <2>1. PICK r \in ActiveFor(a) : Covers(r, drop, "read")
    BY <1>3 DEF EnforceGrant
  <2>2. r \in Requests /\ InForce(r, status, now) /\ terms[r].app = a
    BY <2>1 DEF ActiveFor, InForce
  <2>3. r \in live[a]
    BY <1>1, <2>2 DEF GrantsInv
  <2> QED  BY <2>1, <2>2, <2>3
<1> QED  BY <1>2, <1>3

\* A step that leaves the lists, the callers and the filed terms alone, and only
\* adds to live, leaves what was granted granted.
LEMMA GrantedStays ==
  ASSUME ReturnedWasGranted,
         \A a \in Apps : recall'[a].running =>
           /\ recall[a].running
           /\ recall'[a].out = recall[a].out /\ recall'[a].agent = recall[a].agent
           /\ \A r \in live[a] : r \in live'[a] /\ terms'[r] = terms[r]
  PROVE  ReturnedWasGranted'
<1> SUFFICES ASSUME NEW a \in Apps, recall'[a].running, NEW drop \in recall'[a].out
             PROVE  \/ recall'[a].agent.proxy /\ recall'[a].agent.name = OwnerOf[a]
                    \/ \E r \in live'[a] : terms'[r].app = a /\ Covers(r, drop, "read")'
  BY DEF ReturnedWasGranted
<1>1. /\ recall[a].running
      /\ recall'[a].out = recall[a].out /\ recall'[a].agent = recall[a].agent
      /\ \A r \in live[a] : r \in live'[a] /\ terms'[r] = terms[r]
  OBVIOUS
<1>2. CASE recall[a].agent.proxy /\ recall[a].agent.name = OwnerOf[a]
  BY <1>1, <1>2
<1>3. CASE ~(recall[a].agent.proxy /\ recall[a].agent.name = OwnerOf[a])
  <2>1. PICK r \in live[a] : terms[r].app = a /\ Covers(r, drop, "read")
    BY <1>1, <1>3 DEF ReturnedWasGranted
  <2>2. r \in live'[a] /\ terms'[r] = terms[r]
    BY <1>1, <2>1
  <2> QED  BY <2>1, <2>2 DEF Covers
<1> QED  BY <1>2, <1>3

\* Whatever owners decide and however the clock runs while a recall is under way.
LEMMA GrantedStep == GrantsInv /\ ReturnedWasGranted /\ [Next]_vars => ReturnedWasGranted'
<1> SUFFICES ASSUME GrantsInv, ReturnedWasGranted, [Next]_vars
             PROVE  ReturnedWasGranted'
  OBVIOUS
<1>t. TypeOK
  BY DEF GrantsInv
<1>1. ASSUME NEW a \in Apps, NEW r \in Requests, RequestAccess(a, r)
      PROVE  ReturnedWasGranted'
  <2>1. \A q \in Requests : q # r => terms'[q] = terms[q]
    BY <1>1, <1>t DEF RequestAccess, TypeOK
  <2>2. \A b \in Apps : r \notin live[b]
    BY <1>1 DEF RequestAccess, GrantsInv
  <2>3. recall' = recall /\ live' = live
    BY <1>1 DEF RequestAccess
  <2> QED  BY <1>t, <2>1, <2>2, <2>3, GrantedStays DEF TypeOK
<1>2. ASSUME NEW a \in Apps, NEW d \in Ids, Absorb(a, d) PROVE ReturnedWasGranted'
  BY <1>2, GrantedStays DEF Absorb
<1>3. ASSUME NEW a \in Apps, NEW agent \in Agents, RecallBegins(a, agent)
      PROVE  ReturnedWasGranted'
  <2>1. /\ \A b \in Apps \ {a} : recall'[b] = recall[b] /\ live'[b] = live[b]
        /\ recall'[a].out = {} /\ terms' = terms
    BY <1>3, <1>t DEF RecallBegins, TypeOK
  <2> QED  BY <2>1 DEF ReturnedWasGranted, Covers
<1>4. ASSUME NEW a \in Apps, NEW drop \in recall[a].left, Check(a, drop)
      PROVE  ReturnedWasGranted'
  <2> DEFINE keep == EnforceGrant(drop, recall[a].agent, "read", a)
  <2>1. /\ \A b \in Apps \ {a} : recall'[b] = recall[b]
        /\ recall[a].running /\ recall'[a].agent = recall[a].agent
        /\ recall'[a].out = IF keep THEN recall[a].out \cup {drop} ELSE recall[a].out
        /\ live' = live /\ terms' = terms
    BY <1>4, <1>t, RunningRecall DEF Check, TypeOK, Recall
  <2>2. keep => \/ recall[a].agent.proxy /\ recall[a].agent.name = OwnerOf[a]
                \/ \E r \in live[a] : terms[r].app = a /\ Covers(r, drop, "read")
    BY <1>4, CheckedIsCovered
  <2> HIDE DEF keep
  <2> QED  BY <2>1, <2>2 DEF ReturnedWasGranted, Covers
<1>5. ASSUME NEW a \in Apps, RecallReturns(a) PROVE ReturnedWasGranted'
  <2>1. /\ \A b \in Apps \ {a} : recall'[b] = recall[b] /\ live'[b] = live[b]
        /\ ~recall'[a].running /\ terms' = terms
    BY <1>5, <1>t DEF RecallReturns, TypeOK, NoRecall
  <2> QED  BY <2>1, GrantedStays
<1>6. ASSUME NEW o \in Owners, NEW r \in Requests,
             NEW s \in {"approved", "denied", "revoked"}, Decide(o, r, s)
      PROVE  ReturnedWasGranted'
  <2>1. UNCHANGED <<terms, recall>> /\ Lived(status')
    BY <1>6 DEF Decide
  <2> QED  BY <2>1, GrantedStays DEF Lived
<1>7. ASSUME NEW d \in Ids, Move(d) PROVE ReturnedWasGranted'
  BY <1>7, GrantedStays DEF Move
<1>8. CASE Tick
  BY <1>8, GrantedStays DEF Tick
<1>9. CASE UNCHANGED vars
  BY <1>9, GrantedStays DEF vars
<1> QED  BY <1>1, <1>2, <1>3, <1>4, <1>5, <1>6, <1>7, <1>8, <1>9 DEF Next

\* Every memory a recall hands to anyone but the owner was covered by one grant
\* that was in force at some moment of that recall.
THEOREM GrantedSafety == Spec => []ReturnedWasGranted
<1>1. Init => ReturnedWasGranted
  BY DEF Init, ReturnedWasGranted, NoRecall
<1> QED  BY <1>1, GrantedStep, GrantsInvHolds, PTL DEF Spec

-----------------------------------------------------------------------------
\* Candidates wait, and are handed out, only under both readings of governance.
LEMMA ScopeStep ==
  TypeOK /\ ScopeInv /\ GrantsOnlyNarrow /\ [Next]_vars => (ScopeInv /\ GrantsOnlyNarrow)'
<1> SUFFICES ASSUME ScopeInv, GrantsOnlyNarrow, [Next]_vars
             PROVE  ScopeInv' /\ GrantsOnlyNarrow'
  OBVIOUS
<1>t. TypeOK /\ TypeOK'
  BY TypeStep DEF ScopeInv
<1> DEFINE Waits == \A a \in Apps : recall[a].running =>
             \A drop \in recall[a].left :
               drop.app = a /\ CheckAccess(drop, VaultIdentity(a), NeutralContext, "read")
<1>i. Waits /\ GrantsOnlyNarrow
  BY DEF ScopeInv
<1> SUFFICES Waits' /\ GrantsOnlyNarrow'
  BY <1>t DEF ScopeInv
<1>0. ASSUME UNCHANGED recall PROVE Waits' /\ GrantsOnlyNarrow'
  BY <1>0, <1>i DEF GrantsOnlyNarrow
<1>1. ASSUME NEW a \in Apps, NEW r \in Requests, RequestAccess(a, r)
      PROVE  Waits' /\ GrantsOnlyNarrow'
  BY <1>0, <1>1 DEF RequestAccess
<1>2. ASSUME NEW a \in Apps, NEW d \in Ids, Absorb(a, d)
      PROVE  Waits' /\ GrantsOnlyNarrow'
  BY <1>0, <1>2 DEF Absorb
<1>3. ASSUME NEW a \in Apps, NEW agent \in Agents, RecallBegins(a, agent)
      PROVE  Waits' /\ GrantsOnlyNarrow'
  <2>1. /\ \A b \in Apps \ {a} : recall'[b] = recall[b]
        /\ recall'[a].left = Candidates(a) /\ recall'[a].out = {}
    BY <1>3, <1>t DEF RecallBegins, TypeOK
  <2>2. \A drop \in Candidates(a) :
          drop.app = a /\ CheckAccess(drop, VaultIdentity(a), NeutralContext, "read")
    BY DEF Candidates
  <2>3. Waits'
    BY <1>i, <2>1, <2>2
  <2>4. GrantsOnlyNarrow'
    BY <1>i, <2>1 DEF GrantsOnlyNarrow
  <2> QED  BY <2>3, <2>4
<1>4. ASSUME NEW a \in Apps, NEW drop \in recall[a].left, Check(a, drop)
      PROVE  Waits' /\ GrantsOnlyNarrow'
  <2> DEFINE keep == EnforceGrant(drop, recall[a].agent, "read", a)
  <2>1. /\ \A b \in Apps \ {a} : recall'[b] = recall[b]
        /\ recall[a].running /\ recall'[a].agent = recall[a].agent
        /\ recall'[a].left = recall[a].left \ {drop}
        /\ recall'[a].out = IF keep THEN recall[a].out \cup {drop} ELSE recall[a].out
    BY <1>4, <1>t, RunningRecall DEF Check, TypeOK, Recall
  <2>2. keep => CheckAccess(drop, recall[a].agent, NeutralContext, "read")
    BY DEF EnforceGrant
  <2>3. drop.app = a /\ CheckAccess(drop, VaultIdentity(a), NeutralContext, "read")
    BY <1>i, <1>4, <2>1
  <2> HIDE DEF keep
  <2>4. Waits'
    BY <1>i, <2>1
  <2>5. GrantsOnlyNarrow'
    BY <1>i, <2>1, <2>2, <2>3 DEF GrantsOnlyNarrow
  <2> QED  BY <2>4, <2>5
<1>5. ASSUME NEW a \in Apps, RecallReturns(a) PROVE Waits' /\ GrantsOnlyNarrow'
  <2>1. (\A b \in Apps \ {a} : recall'[b] = recall[b]) /\ ~recall'[a].running
    BY <1>5, <1>t DEF RecallReturns, TypeOK, NoRecall
  <2> QED  BY <1>i, <2>1 DEF GrantsOnlyNarrow
<1>6. ASSUME NEW o \in Owners, NEW r \in Requests,
             NEW s \in {"approved", "denied", "revoked"}, Decide(o, r, s)
      PROVE  Waits' /\ GrantsOnlyNarrow'
  BY <1>0, <1>6 DEF Decide
<1>7. ASSUME NEW d \in Ids, Move(d) PROVE Waits' /\ GrantsOnlyNarrow'
  BY <1>0, <1>7 DEF Move
<1>8. CASE Tick
  BY <1>0, <1>8 DEF Tick
<1>9. CASE UNCHANGED vars
  BY <1>0, <1>9 DEF vars
<1> QED  BY <1>1, <1>2, <1>3, <1>4, <1>5, <1>6, <1>7, <1>8, <1>9 DEF Next

\* Whatever the grants say, recall hands out only memories of the app's own scope
\* that governance lets both the app's vault and the calling agent read.
THEOREM NarrowSafety == Spec => []GrantsOnlyNarrow
<1>1. Init => ScopeInv /\ GrantsOnlyNarrow
  <2>1. Init => TypeOK
    BY GrantsAssumption DEF Init, TypeOK, Status, NoRecall, NoRow, NoTerms
  <2> QED  BY <2>1 DEF Init, ScopeInv, GrantsOnlyNarrow, NoRecall
<1> QED  BY <1>1, ScopeStep, GrantsTypes, PTL DEF Spec
=============================================================================
