-------------------------- MODULE GovernanceProofs --------------------------
(***************************************************************************)
(* Theorems of Governance, for every council of four, every timelock, every *)
(* set of versions and verifiers and every bound on proposals and time.     *)
(*                                                                         *)
(* The tally of approvals and the path a verifier came by are not inductive *)
(* on their own: GovInv adds when a proposal may run and that it ran.       *)
(***************************************************************************)
EXTENDS Governance, FiniteSetTheorems, TLAPS

\* What a proposal says of itself: its tally, when it may run, and that it ran
\* on three approvals and not before its time.
ProposalConsistent(p) ==
    /\ proposals[p].approvals = Cardinality(hasApproved[p])
    /\ proposals[p].executableAt =
         IF IsTimelocked(proposals[p].action) THEN proposals[p].proposedAt + Timelock
                                              ELSE proposals[p].proposedAt
    /\ proposals[p].executed => /\ proposals[p].approvals >= COUNCIL_THRESHOLD
                                /\ now >= proposals[p].executableAt

\* What the registration of version v says of the proposal it spent.
RegistrationConsistent(v) ==
    LET p == registration[v].proposalId IN
    /\ p \in proposalConsumed
    /\ p \in 1 .. proposalCount
    /\ proposals[p].executed
    /\ proposals[p].action = "ActivateVerifierVersion"
    /\ proposals[p].payload = [version |-> v, impl |-> verifier[v]]
    /\ registration[v].registeredAt >= proposals[p].executableAt

\* The inductive invariant.
GovInv ==
    /\ GovTypeOK
    /\ \A p \in 1 .. proposalCount : ProposalConsistent(p)
    /\ \A v \in Versions : VersionRegistered(v) => RegistrationConsistent(v)

-----------------------------------------------------------------------------
(* Lemmas.                                                                 *)

\* Approvals are counted in 0 .. 4: a set of members is finite, and no larger
\* than the council.
LEMMA ApproversBounded ==
    ASSUME NEW S \in SUBSET Council
    PROVE  IsFiniteSet(S) /\ Cardinality(S) \in 0 .. COUNCIL_SIZE
<1>1. IsFiniteSet(Council) /\ Cardinality(Council) = COUNCIL_SIZE
  BY GovernanceAssumption
<1>2. IsFiniteSet(S) /\ Cardinality(S) <= Cardinality(Council)
  BY <1>1, FS_Subset
<1>3. Cardinality(S) \in Nat
  BY <1>2, FS_CardinalityType
<1> QED
  BY <1>1, <1>2, <1>3 DEF COUNCIL_SIZE

\* A member who has not approved raises the count of the distinct approvers by one.
LEMMA NewApproverCounts ==
    ASSUME NEW S \in SUBSET Council, NEW m \in Council, m \notin S
    PROVE  Cardinality(S \cup {m}) = Cardinality(S) + 1
BY ApproversBounded, FS_AddElement

\* A first approver counts for one.
LEMMA OneApprover ==
    ASSUME NEW m
    PROVE  Cardinality({m}) = 1
BY FS_Singleton

\* Governance starts in the invariant: no proposal, no registered version.
LEMMA InitEstablishesGovInv == GovInit => GovInv
<1> SUFFICES ASSUME GovInit PROVE GovInv
  OBVIOUS
<1>0. MaxTime \in Nat \ {0} /\ MaxProposals \in Nat
  BY GovernanceAssumption, ControlAssumption
<1>1. ControlTypeOK
  <2>1. 1 \in 1 .. MaxTime
    BY <1>0
  <2> QED
    BY <2>1 DEF GovInit, ControlInit, ControlTypeOK
<1>2. GovTypeOK
  <2>1. NoProposal \in Proposals
    BY <1>0 DEF NoProposal, Proposals, NoPayload, Payloads, ActionType, COUNCIL_SIZE
  <2>2. NoRegistration \in [proposalId : 0 .. MaxProposals, registeredAt : 0 .. MaxTime]
    BY <1>0 DEF NoRegistration
  <2> QED
    BY <1>0, <1>1, <2>1, <2>2 DEF GovInit, GovTypeOK
<1>3. \A p \in 1 .. proposalCount : ProposalConsistent(p)
  BY DEF GovInit
<1>4. \A v \in Versions : ~VersionRegistered(v)
  BY DEF GovInit, ControlInit, VersionRegistered
<1> QED
  BY <1>2, <1>3, <1>4 DEF GovInv

-----------------------------------------------------------------------------
(* The steps.                                                              *)

\* A tick leaves the record alone and only makes proposals older.
LEMMA TickPreservesGovInv ==
    ASSUME GovInv, GovTick PROVE GovInv'
<1>0. MaxTime \in Nat \ {0} /\ MaxProposals \in Nat
  BY ControlAssumption, GovernanceAssumption
<1> USE DEF GovTick, Tick, govOnlyVars
<1>1. now \in Nat /\ now' = now + 1 /\ now' \in 1 .. MaxTime
  BY <1>0 DEF GovInv, GovTypeOK, ControlTypeOK
<1>2. GovTypeOK'
  BY <1>1 DEF GovInv, GovTypeOK, ControlTypeOK
<1>3. ASSUME NEW p \in (1 .. proposalCount)' PROVE ProposalConsistent(p)'
  <2>1. p \in ProposalIds /\ proposals[p] \in Proposals
    BY <1>0 DEF GovInv, GovTypeOK, ProposalIds
  <2>2. proposals[p].executableAt \in Nat
    BY <2>1 DEF Proposals
  <2> QED
    BY <1>1, <2>2 DEF GovInv, ProposalConsistent
<1>4. ASSUME NEW v \in Versions, VersionRegistered(v)' PROVE RegistrationConsistent(v)'
  BY <1>4 DEF GovInv, VersionRegistered, RegistrationConsistent
<1> QED
  BY <1>2, <1>3, <1>4 DEF GovInv

\* A proposal enters with its proposer's approval and its timelock ahead of it,
\* at a number no other proposal and no registration refers to.
LEMMA ProposePreservesGovInv ==
    ASSUME GovInv, NEW m, NEW action \in Actions, NEW payload \in PayloadsOf(action),
           Propose(m, action, payload)
    PROVE  GovInv'
<1>0. /\ MaxTime \in Nat \ {0} /\ Timelock \in Nat /\ MaxProposals \in Nat
      /\ action \in ActionType
  BY ControlAssumption, GovernanceAssumption
<1> DEFINE q == proposalCount + 1
           new == [action |-> action, payload |-> payload, proposedAt |-> now,
                   executableAt |-> ExecutableFrom(action), approvals |-> 1,
                   executed |-> FALSE]
<1>1. /\ m \in Council /\ proposalCount < MaxProposals
      /\ proposalCount' = q
      /\ proposals' = [proposals EXCEPT ![q] = new]
      /\ hasApproved' = [hasApproved EXCEPT ![q] = {m}]
      /\ UNCHANGED <<controlVars, proposalConsumed, registration>>
  BY DEF Propose, IsCouncilMember
<1>2. /\ proposalCount \in 0 .. MaxProposals
      /\ q \in ProposalIds
      /\ 1 .. proposalCount \subseteq ProposalIds
      /\ (1 .. proposalCount)' = 1 .. proposalCount \cup {q}
      /\ q \notin 1 .. proposalCount
  BY <1>0, <1>1 DEF GovInv, GovTypeOK, ProposalIds
<1>3. /\ proposals \in [ProposalIds -> Proposals]
      /\ hasApproved \in [ProposalIds -> SUBSET Council]
      /\ now \in 1 .. MaxTime
  BY DEF GovInv, GovTypeOK, ControlTypeOK
<1>4. payload \in Payloads
  BY DEF PayloadsOf, Payloads
<1>5. ExecutableFrom(action) \in Nat
  BY <1>0, <1>3 DEF ExecutableFrom
<1>6. new \in Proposals
  BY <1>0, <1>3, <1>4, <1>5 DEF Proposals, COUNCIL_SIZE
<1>7. GovTypeOK'
  <2>1. proposals' \in [ProposalIds -> Proposals]
    BY <1>1, <1>2, <1>3, <1>6
  <2>2. hasApproved' \in [ProposalIds -> SUBSET Council]
    BY <1>1, <1>2, <1>3
  <2>3. proposalCount' \in 0 .. MaxProposals
    BY <1>0, <1>1, <1>2
  <2> QED
    BY <1>1, <2>1, <2>2, <2>3 DEF GovInv, GovTypeOK, ControlTypeOK, controlVars
<1>8. ASSUME NEW p \in (1 .. proposalCount)' PROVE ProposalConsistent(p)'
  <2>1. CASE p = q
    <3>1. proposals'[p] = new /\ hasApproved'[p] = {m}
      BY <1>1, <1>2, <1>3, <2>1
    <3>2. Cardinality({m}) = 1
      BY OneApprover
    <3> QED
      BY <3>1, <3>2 DEF ProposalConsistent, ExecutableFrom
  <2>2. CASE p # q
    <3>1. p \in 1 .. proposalCount /\ ProposalConsistent(p)
      BY <1>2, <2>2 DEF GovInv
    <3>2. proposals'[p] = proposals[p] /\ hasApproved'[p] = hasApproved[p] /\ now' = now
      BY <1>1, <1>2, <1>3, <2>2, <3>1 DEF controlVars
    <3> QED
      BY <3>1, <3>2 DEF ProposalConsistent
  <2> QED
    BY <2>1, <2>2
<1>9. ASSUME NEW v \in Versions, VersionRegistered(v)' PROVE RegistrationConsistent(v)'
  <2> DEFINE p == registration[v].proposalId
  <2>1. RegistrationConsistent(v) /\ p \in 1 .. proposalCount
    BY <1>1, <1>9 DEF GovInv, VersionRegistered, controlVars, RegistrationConsistent
  <2>2. proposals'[p] = proposals[p] /\ p \in (1 .. proposalCount)'
    BY <1>1, <1>2, <1>3, <2>1
  <2> QED
    BY <1>1, <2>1, <2>2 DEF RegistrationConsistent, controlVars
<1> QED
  BY <1>7, <1>8, <1>9 DEF GovInv

\* An approval is one more distinct member; nothing that ran is touched.
LEMMA ApprovePreservesGovInv ==
    ASSUME GovInv, NEW m, NEW q \in ProposalIds, Approve(m, q) PROVE GovInv'
<1>1. /\ m \in Council
      /\ q \in 1 .. proposalCount /\ ~proposals[q].executed /\ m \notin hasApproved[q]
      /\ hasApproved' = [hasApproved EXCEPT ![q] = @ \cup {m}]
      /\ proposals' = [proposals EXCEPT ![q].approvals = @ + 1]
      /\ UNCHANGED <<controlVars, proposalCount, proposalConsumed, registration>>
  BY DEF Approve, IsCouncilMember, MayApprove, Exists
<1>2. /\ proposals \in [ProposalIds -> Proposals]
      /\ hasApproved \in [ProposalIds -> SUBSET Council]
      /\ ProposalConsistent(q)
  BY <1>1 DEF GovInv, GovTypeOK
<1>3. /\ hasApproved'[q] = hasApproved[q] \cup {m}
      /\ hasApproved'[q] \in SUBSET Council
      /\ Cardinality(hasApproved'[q]) = Cardinality(hasApproved[q]) + 1
  BY <1>1, <1>2, NewApproverCounts
<1>4. proposals[q].approvals + 1 \in 0 .. COUNCIL_SIZE
  BY <1>2, <1>3, ApproversBounded DEF ProposalConsistent
<1>5. /\ \A p \in ProposalIds : p # q => /\ proposals'[p] = proposals[p]
                                        /\ hasApproved'[p] = hasApproved[p]
      /\ proposals'[q] = [proposals[q] EXCEPT !.approvals = @ + 1]
  BY <1>1, <1>2
<1>6. GovTypeOK'
  <2>1. proposals'[q] \in Proposals
    BY <1>2, <1>4, <1>5 DEF Proposals
  <2>2. proposals' \in [ProposalIds -> Proposals]
    BY <1>1, <1>2, <1>5, <2>1
  <2>3. hasApproved' \in [ProposalIds -> SUBSET Council]
    BY <1>1, <1>2, <1>3
  <2> QED
    BY <1>1, <2>2, <2>3 DEF GovInv, GovTypeOK, ControlTypeOK, controlVars
<1>7. \A p \in ProposalIds :
        /\ proposals'[p].action = proposals[p].action
        /\ proposals'[p].payload = proposals[p].payload
        /\ proposals'[p].proposedAt = proposals[p].proposedAt
        /\ proposals'[p].executableAt = proposals[p].executableAt
        /\ proposals'[p].executed = proposals[p].executed
  BY <1>2, <1>5 DEF Proposals
<1>8. 1 .. proposalCount \subseteq ProposalIds /\ (1 .. proposalCount)' = 1 .. proposalCount
  BY <1>1, GovernanceAssumption DEF GovInv, GovTypeOK, ProposalIds
<1>9. ASSUME NEW p \in (1 .. proposalCount)' PROVE ProposalConsistent(p)'
  <2>1. CASE p = q
    <3>1. proposals'[p].approvals = Cardinality(hasApproved'[p])
      BY <1>2, <1>3, <1>5, <2>1 DEF ProposalConsistent, Proposals
    <3> QED
      BY <1>1, <1>2, <1>7, <2>1, <3>1 DEF ProposalConsistent
  <2>2. CASE p # q
    BY <1>1, <1>5, <1>8, <2>2 DEF GovInv, ProposalConsistent, controlVars
  <2> QED
    BY <2>1, <2>2
<1>10. ASSUME NEW v \in Versions, VersionRegistered(v)' PROVE RegistrationConsistent(v)'
  <2>1. RegistrationConsistent(v) /\ registration[v].proposalId \in ProposalIds
    BY <1>1, <1>8, <1>10 DEF GovInv, VersionRegistered, controlVars, RegistrationConsistent
  <2> QED
    BY <1>1, <1>7, <2>1 DEF RegistrationConsistent, controlVars
<1> QED
  BY <1>6, <1>9, <1>10 DEF GovInv

\* An execution marks a proposal that has its approvals and its age.
LEMMA ExecutePreservesGovInv ==
    ASSUME GovInv, NEW m, NEW q \in ProposalIds, Execute(m, q) PROVE GovInv'
<1>1. /\ q \in 1 .. proposalCount
      /\ proposals[q].approvals >= COUNCIL_THRESHOLD
      /\ now >= proposals[q].executableAt
      /\ proposals' = [proposals EXCEPT ![q].executed = TRUE]
      /\ UNCHANGED <<now, verifier, proposalCount, hasApproved, proposalConsumed,
                     registration>>
  BY DEF Execute, Executable, Exists
<1>2. paused' \in BOOLEAN
  BY DEF Execute, SwitchEffect, GovInv, GovTypeOK, ControlTypeOK
<1>3. /\ proposals \in [ProposalIds -> Proposals]
      /\ \A p \in ProposalIds : p # q => proposals'[p] = proposals[p]
      /\ proposals'[q] = [proposals[q] EXCEPT !.executed = TRUE]
  BY <1>1 DEF GovInv, GovTypeOK
<1>4. GovTypeOK'
  <2>1. proposals'[q] \in Proposals
    BY <1>3 DEF Proposals
  <2>2. proposals' \in [ProposalIds -> Proposals]
    BY <1>1, <1>3, <2>1
  <2> QED
    BY <1>1, <1>2, <2>2 DEF GovInv, GovTypeOK, ControlTypeOK
<1>5. \A p \in ProposalIds :
        /\ proposals'[p].action = proposals[p].action
        /\ proposals'[p].payload = proposals[p].payload
        /\ proposals'[p].proposedAt = proposals[p].proposedAt
        /\ proposals'[p].executableAt = proposals[p].executableAt
        /\ proposals'[p].approvals = proposals[p].approvals
        /\ proposals[p].executed => proposals'[p].executed
  BY <1>3 DEF Proposals
<1>6. 1 .. proposalCount \subseteq ProposalIds /\ (1 .. proposalCount)' = 1 .. proposalCount
  BY <1>1, GovernanceAssumption DEF GovInv, GovTypeOK, ProposalIds
<1>7. ASSUME NEW p \in (1 .. proposalCount)' PROVE ProposalConsistent(p)'
  <2>1. ProposalConsistent(p) /\ p \in ProposalIds
    BY <1>6 DEF GovInv
  <2>2. CASE p = q
    BY <1>1, <1>5, <2>1, <2>2 DEF ProposalConsistent
  <2>3. CASE p # q
    BY <1>1, <1>3, <2>1, <2>3 DEF ProposalConsistent
  <2> QED
    BY <2>2, <2>3
<1>8. ASSUME NEW v \in Versions, VersionRegistered(v)' PROVE RegistrationConsistent(v)'
  <2>1. RegistrationConsistent(v) /\ registration[v].proposalId \in ProposalIds
    BY <1>1, <1>6, <1>8 DEF GovInv, VersionRegistered, RegistrationConsistent
  <2> QED
    BY <1>1, <1>5, <2>1 DEF RegistrationConsistent
<1> QED
  BY <1>4, <1>7, <1>8 DEF GovInv

\* A registration is of an unset version, and spends an executed proposal for it,
\* which ran no earlier than its time and therefore no later than now.
LEMMA RegisterPreservesGovInv ==
    ASSUME GovInv, NEW m, NEW q \in ProposalIds, NEW r \in Registrations,
           RegisterVerifier(m, q, r)
    PROVE  GovInv'
<1>1. /\ ~VersionRegistered(r.version)
      /\ q \in 1 .. proposalCount
      /\ proposals[q].executed
      /\ proposals[q].action = "ActivateVerifierVersion"
      /\ proposals[q].payload = r
      /\ proposalConsumed' = proposalConsumed \cup {q}
      /\ verifier' = [verifier EXCEPT ![r.version] = r.impl]
      /\ registration' = [registration EXCEPT ![r.version] =
                            [proposalId |-> q, registeredAt |-> now]]
      /\ UNCHANGED <<now, paused, proposalCount, proposals, hasApproved>>
  BY DEF RegisterVerifier, VersionUnset, Authorises, Exists
<1>2. r.version \in Versions /\ r.impl \in Impls /\ r = [version |-> r.version, impl |-> r.impl]
  BY DEF Registrations
<1>3. /\ now \in 1 .. MaxTime /\ q \in 0 .. MaxProposals
      /\ verifier \in [Versions -> Impls \cup {NoImpl}]
      /\ registration \in
           [Versions -> [proposalId : 0 .. MaxProposals, registeredAt : 0 .. MaxTime]]
  BY ControlAssumption, GovernanceAssumption DEF GovInv, GovTypeOK, ControlTypeOK, ProposalIds
<1>4. GovTypeOK'
  <2>1. verifier' \in [Versions -> Impls \cup {NoImpl}]
    BY <1>1, <1>2, <1>3
  <2>2. [proposalId |-> q, registeredAt |-> now] \in
          [proposalId : 0 .. MaxProposals, registeredAt : 0 .. MaxTime]
    BY <1>3, ControlAssumption
  <2>3. registration' \in
          [Versions -> [proposalId : 0 .. MaxProposals, registeredAt : 0 .. MaxTime]]
    BY <1>1, <1>2, <1>3, <2>2
  <2> QED
    BY <1>1, <2>1, <2>3 DEF GovInv, GovTypeOK, ControlTypeOK
<1>5. ASSUME NEW p \in (1 .. proposalCount)' PROVE ProposalConsistent(p)'
  BY <1>1, <1>5 DEF GovInv, ProposalConsistent
<1>6. ASSUME NEW v \in Versions, VersionRegistered(v)' PROVE RegistrationConsistent(v)'
  <2>1. CASE v = r.version
    <3>1. /\ registration'[v].proposalId = q /\ registration'[v].registeredAt = now
          /\ verifier'[v] = r.impl
      BY <1>1, <1>2, <1>3, <2>1
    <3>2. now >= proposals[q].executableAt
      BY <1>1 DEF GovInv, ProposalConsistent
    <3> QED
      BY <1>1, <1>2, <2>1, <3>1, <3>2 DEF RegistrationConsistent
  <2>2. CASE v # r.version
    <3>1. registration'[v] = registration[v] /\ verifier'[v] = verifier[v]
      BY <1>1, <1>2, <1>3, <2>2
    <3>2. RegistrationConsistent(v)
      BY <1>6, <3>1 DEF GovInv, VersionRegistered
    <3> QED
      BY <1>1, <3>1, <3>2 DEF RegistrationConsistent
  <2> QED
    BY <2>1, <2>2
<1> QED
  BY <1>4, <1>5, <1>6 DEF GovInv

\* A step of the specification, or none, keeps the invariant.
LEMMA NextPreservesGovInv == GovInv /\ [GovNext]_govVars => GovInv'
<1> SUFFICES ASSUME GovInv, [GovNext]_govVars PROVE GovInv'
  OBVIOUS
<1>1. CASE GovTick
  BY <1>1, TickPreservesGovInv
<1>2. ASSUME NEW m \in Callers, NEW action \in Actions, NEW payload \in PayloadsOf(action),
             Propose(m, action, payload)
      PROVE  GovInv'
  BY <1>2, ProposePreservesGovInv
<1>3. ASSUME NEW m \in Callers, NEW p \in ProposalIds, Approve(m, p) PROVE GovInv'
  BY <1>3, ApprovePreservesGovInv
<1>4. ASSUME NEW m \in Callers, NEW p \in ProposalIds, Execute(m, p) PROVE GovInv'
  BY <1>4, ExecutePreservesGovInv
<1>5. ASSUME NEW m \in Callers, NEW p \in ProposalIds, NEW r \in Registrations,
             RegisterVerifier(m, p, r)
      PROVE  GovInv'
  BY <1>5, RegisterPreservesGovInv
<1>6. CASE UNCHANGED govVars
  BY <1>6 DEF GovInv, GovTypeOK, ControlTypeOK, ProposalConsistent, RegistrationConsistent,
              VersionRegistered, govVars, govOnlyVars, controlVars
<1> QED
  BY <1>1, <1>2, <1>3, <1>4, <1>5, <1>6 DEF GovNext

\* The inductive invariant holds of every reachable state.
THEOREM GovInvariant == GovSpec => []GovInv
<1>1. GovInit => GovInv
  BY InitEstablishesGovInv
<1>2. GovInv /\ [GovNext]_govVars => GovInv'
  BY NextPreservesGovInv
<1> QED
  BY <1>1, <1>2, PTL DEF GovSpec

-----------------------------------------------------------------------------
(* The properties the runs check.                                          *)

\* Every variable keeps its type; in particular the 8-bit tally never leaves 0..4.
THEOREM GovTyped == GovSpec => []GovTypeOK
<1>1. GovInv => GovTypeOK
  BY DEF GovInv
<1> QED
  BY <1>1, GovInvariant, PTL

\* The tally is the number of distinct members who approved, and what ran has three.
THEOREM ApprovalsDistinct == GovSpec => []ApprovalsAreDistinctMembers
<1>1. GovInv => ApprovalsAreDistinctMembers
  BY DEF GovInv, ApprovalsAreDistinctMembers, ProposalConsistent
<1> QED
  BY <1>1, GovInvariant, PTL

\* No verifier without a timelock's notice and three members' approval of exactly it.
THEOREM VerifiersAuthorised == GovSpec => []VerifierAuthorised
<1>1. ASSUME GovInv PROVE VerifierAuthorised
  <2> SUFFICES ASSUME NEW v \in Versions, VersionRegistered(v)
               PROVE  LET p == registration[v].proposalId IN
                        /\ p \in proposalConsumed
                        /\ p \in 1 .. proposalCount
                        /\ proposals[p].action = "ActivateVerifierVersion"
                        /\ proposals[p].payload = [version |-> v, impl |-> verifier[v]]
                        /\ Cardinality(hasApproved[p]) >= COUNCIL_THRESHOLD
                        /\ registration[v].registeredAt >= proposals[p].proposedAt + Timelock
    BY DEF VerifierAuthorised
  <2> DEFINE p == registration[v].proposalId
  <2>1. RegistrationConsistent(v)
    BY <1>1 DEF GovInv
  <2>2. ProposalConsistent(p)
    BY <1>1, <2>1 DEF GovInv, RegistrationConsistent
  <2>3. proposals[p].executableAt = proposals[p].proposedAt + Timelock
    BY <2>1, <2>2 DEF RegistrationConsistent, ProposalConsistent, IsTimelocked
  <2> QED
    BY <2>1, <2>2, <2>3 DEF RegistrationConsistent, ProposalConsistent
<1> QED
  BY <1>1, GovInvariant, PTL

-----------------------------------------------------------------------------
(* Refinement: the proposals implement the control plane the tenders see.  *)

\* Every step of Governance moves the control plane by one of its steps or not at all.
LEMMA StepImplementsControl ==
    GovInv /\ [GovNext]_govVars => [ControlNext]_controlVars
<1> SUFFICES ASSUME GovInv, [GovNext]_govVars PROVE [ControlNext]_controlVars
  OBVIOUS
<1>1. CASE GovTick
  BY <1>1 DEF GovTick, ControlNext
<1>2. ASSUME NEW m \in Callers, NEW action \in Actions, NEW payload \in PayloadsOf(action),
             Propose(m, action, payload)
      PROVE  UNCHANGED controlVars
  BY <1>2 DEF Propose
<1>3. ASSUME NEW m \in Callers, NEW p \in ProposalIds, Approve(m, p)
      PROVE  UNCHANGED controlVars
  BY <1>3 DEF Approve
<1>4. ASSUME NEW m \in Callers, NEW p \in ProposalIds, Execute(m, p)
      PROVE  TogglePause \/ UNCHANGED controlVars
  BY <1>4 DEF Execute, SwitchEffect, TogglePause, controlVars
<1>5. ASSUME NEW m \in Callers, NEW p \in ProposalIds, NEW r \in Registrations,
             RegisterVerifier(m, p, r)
      PROVE  ControlNext
  <2>1. r.version \in Versions /\ r.impl \in Impls
    BY DEF Registrations
  <2>2. ActivateVersion(r.version, r.impl)
    BY <1>5 DEF RegisterVerifier, VersionUnset, ActivateVersion
  <2> QED
    BY <2>1, <2>2 DEF ControlNext
<1>6. CASE UNCHANGED govVars
  BY <1>6 DEF govVars, controlVars
<1> QED
  BY <1>1, <1>2, <1>3, <1>4, <1>5, <1>6 DEF GovNext, ControlNext

\* The contracts that read the pause switch and the versions may rely on ControlSpec:
\* the proposals of Governance implement it.
THEOREM GovernanceImplementsControl == GovSpec => ControlSpec
<1>1. GovInit => ControlInit
  BY DEF GovInit
<1>2. GovInv /\ [GovNext]_govVars => [ControlNext]_controlVars
  BY StepImplementsControl
<1> QED
  BY <1>1, <1>2, GovInvariant, PTL DEF GovSpec, ControlSpec

-----------------------------------------------------------------------------
(* The switch and the record.                                              *)

\* What ran is a finite set.
LEMMA RanFinite ==
    ASSUME GovInv, NEW action PROVE IsFiniteSet(Ran(action)) /\ Cardinality(Ran(action)) \in Nat
<1>1. IsFiniteSet(1 .. proposalCount)
  BY FS_Interval, GovernanceAssumption DEF GovInv, GovTypeOK
<1>2. IsFiniteSet(Ran(action))
  BY <1>1, FS_Subset DEF Ran
<1> QED
  BY <1>2, FS_CardinalityType

\* A step other than an execution adds nothing to what ran.
LEMMA RanUnmoved ==
    ASSUME GovInv, GovInv', NEW action,
           proposalCount' >= proposalCount,
           \A p \in 1 .. proposalCount :
               /\ proposals'[p].executed = proposals[p].executed
               /\ proposals'[p].action = proposals[p].action,
           \A p \in 1 .. proposalCount' :
               p \notin 1 .. proposalCount => ~proposals'[p].executed
    PROVE  Ran(action)' = Ran(action)
<1>1. proposalCount \in Nat /\ proposalCount' \in Nat
  BY GovernanceAssumption DEF GovInv, GovTypeOK
<1>2. 1 .. proposalCount \subseteq 1 .. proposalCount'
  BY <1>1
<1> QED
  BY <1>2 DEF Ran

\* An execution adds exactly the proposal it runs.
LEMMA RanGrows ==
    ASSUME GovInv, NEW m, NEW q \in ProposalIds, Execute(m, q), NEW action
    PROVE  Cardinality(Ran(action))' =
             Cardinality(Ran(action)) + (IF proposals[q].action = action THEN 1 ELSE 0)
<1>1. /\ q \in 1 .. proposalCount /\ ~proposals[q].executed
      /\ proposals' = [proposals EXCEPT ![q].executed = TRUE]
      /\ proposalCount' = proposalCount
  BY DEF Execute, Executable, Exists
<1>2. /\ proposals \in [ProposalIds -> Proposals]
      /\ 1 .. proposalCount \subseteq ProposalIds
  BY GovernanceAssumption DEF GovInv, GovTypeOK, ProposalIds
<1>3. /\ \A p \in ProposalIds : p # q => proposals'[p] = proposals[p]
      /\ proposals'[q].executed /\ proposals'[q].action = proposals[q].action
  BY <1>1, <1>2 DEF Proposals
<1>4. q \notin Ran(action)
  BY <1>1 DEF Ran
<1>5. CASE proposals[q].action = action
  <2>1. Ran(action)' = Ran(action) \cup {q}
    BY <1>1, <1>2, <1>3, <1>5 DEF Ran
  <2> QED
    BY <1>4, <1>5, <2>1, RanFinite, FS_AddElement
<1>6. CASE proposals[q].action # action
  <2>1. Ran(action)' = Ran(action)
    BY <1>1, <1>2, <1>3, <1>6 DEF Ran
  <2> QED
    BY <1>6, <2>1, RanFinite
<1> QED
  BY <1>5, <1>6

\* Every step keeps the switch and the record together.
LEMMA StepKeepsSwitch ==
    GovInv /\ GovInv' /\ SwitchMatchesRecord /\ [GovNext]_govVars => SwitchMatchesRecord'
<1> SUFFICES ASSUME GovInv, GovInv', SwitchMatchesRecord, [GovNext]_govVars
             PROVE  SwitchMatchesRecord'
  OBVIOUS
<1>1. ASSUME UNCHANGED <<paused, proposalCount, proposals>> PROVE SwitchMatchesRecord'
  BY <1>1 DEF SwitchMatchesRecord, Ran
<1>2. ASSUME NEW m \in Callers, NEW action \in Actions, NEW payload \in PayloadsOf(action),
             Propose(m, action, payload)
      PROVE  SwitchMatchesRecord'
  <2> DEFINE q == proposalCount + 1
  <2>1. /\ paused' = paused /\ proposalCount' = q /\ proposalCount \in Nat
        /\ q \in ProposalIds
        /\ \A p \in ProposalIds : p # q => proposals'[p] = proposals[p]
        /\ ~proposals'[q].executed
    BY <1>2, GovernanceAssumption DEF Propose, GovInv, GovTypeOK, ProposalIds, controlVars
  <2>2. \A p \in 1 .. proposalCount : p \in ProposalIds /\ p # q
    BY <2>1, GovernanceAssumption DEF ProposalIds
  <2>3. \A p \in 1 .. proposalCount' : p \notin 1 .. proposalCount => p = q
    BY <2>1
  <2>4. \A a : Ran(a)' = Ran(a)
    BY <2>1, <2>2, <2>3, RanUnmoved
  <2> QED
    BY <2>1, <2>4 DEF SwitchMatchesRecord
<1>3. ASSUME NEW m \in Callers, NEW q \in ProposalIds, Approve(m, q)
      PROVE  SwitchMatchesRecord'
  <2>1. /\ paused' = paused /\ proposalCount' = proposalCount
        /\ proposals' = [proposals EXCEPT ![q].approvals = @ + 1]
        /\ proposals \in [ProposalIds -> Proposals]
        /\ 1 .. proposalCount \subseteq ProposalIds
        /\ proposalCount \in Nat
    BY <1>3, GovernanceAssumption DEF Approve, GovInv, GovTypeOK, ProposalIds, controlVars
  <2>2. \A p \in ProposalIds : /\ proposals'[p].executed = proposals[p].executed
                              /\ proposals'[p].action = proposals[p].action
    BY <2>1 DEF Proposals
  <2>3. \A a : Ran(a)' = Ran(a)
    BY <2>1, <2>2, RanUnmoved
  <2> QED
    BY <2>1, <2>3 DEF SwitchMatchesRecord
<1>4. ASSUME NEW m \in Callers, NEW q \in ProposalIds, Execute(m, q)
      PROVE  SwitchMatchesRecord'
  <2> DEFINE act == proposals[q].action
             up == Cardinality(Ran("EmergencyPause"))
             down == Cardinality(Ran("Unpause"))
  <2>1. up \in Nat /\ down \in Nat
    BY RanFinite
  <2>2. /\ up' = up + (IF act = "EmergencyPause" THEN 1 ELSE 0)
        /\ down' = down + (IF act = "Unpause" THEN 1 ELSE 0)
    BY <1>4, RanGrows
  <2>3. up = down + (IF paused THEN 1 ELSE 0)
    BY DEF SwitchMatchesRecord
  <2>4. SwitchEffect(act)
    BY <1>4 DEF Execute
  <2>5. CASE act = "EmergencyPause"
    <3>1. ~paused /\ paused'
      BY <2>4, <2>5 DEF SwitchEffect
    <3>2. up' = down' + 1
      BY <2>1, <2>2, <2>3, <2>5, <3>1
    <3> QED
      BY <3>1, <3>2 DEF SwitchMatchesRecord
  <2>6. CASE act = "Unpause"
    <3>1. paused /\ ~paused'
      BY <2>4, <2>6 DEF SwitchEffect
    <3>2. up' = down' + 0
      BY <2>1, <2>2, <2>3, <2>6, <3>1
    <3> QED
      BY <3>1, <3>2 DEF SwitchMatchesRecord
  <2>7. CASE act \notin {"EmergencyPause", "Unpause"}
    <3>1. paused' = paused
      BY <2>4, <2>7 DEF SwitchEffect
    <3>2. up' = up /\ down' = down
      BY <2>1, <2>2, <2>7
    <3> QED
      BY <2>3, <3>1, <3>2 DEF SwitchMatchesRecord
  <2> QED
    BY <2>5, <2>6, <2>7
<1> QED
  BY <1>1, <1>2, <1>3, <1>4 DEF GovNext, GovTick, Tick, RegisterVerifier, govVars, govOnlyVars,
                               controlVars

\* Pauses and unpauses that ran alternate: their difference is the switch, so a stale
\* second pause can never be stored up behind the first.
THEOREM SwitchFollowsRecord == GovSpec => []SwitchMatchesRecord
<1>1. GovInit => SwitchMatchesRecord
  <2> SUFFICES ASSUME GovInit PROVE SwitchMatchesRecord
    OBVIOUS
  <2>1. Ran("EmergencyPause") = {} /\ Ran("Unpause") = {} /\ paused = FALSE
    BY DEF GovInit, ControlInit, Ran
  <2> QED
    BY <2>1, FS_EmptySet DEF SwitchMatchesRecord
<1>2. GovInv /\ GovInv' /\ SwitchMatchesRecord /\ [GovNext]_govVars => SwitchMatchesRecord'
  BY StepKeepsSwitch
<1> QED
  BY <1>1, <1>2, GovInvariant, PTL DEF GovSpec

=============================================================================
