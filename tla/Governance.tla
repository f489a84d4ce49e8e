----------------------------- MODULE Governance -----------------------------
(***************************************************************************)
(* Governance.sol together with the half of EligibilityVerifier.sol that   *)
(* spends its proposals: propose, approve and execute under a 3-of-4       *)
(* threshold and a timelock, and registerVerifier, which consumes one      *)
(* executed ActivateVerifierVersion proposal per version.                  *)
(*                                                                         *)
(* A reverted call changes nothing, so a revert is a disabled action.      *)
(***************************************************************************)
EXTENDS Control, FiniteSets

CONSTANTS
    Outsiders,     \* other callers
    Actions,       \* the ActionType values proposals of an instance carry
    SoundImpls,    \* the verifiers that accept the sample proof
    Timelock,      \* TIMELOCK_SECONDS, in ticks
    MaxProposals   \* bound: how many proposals a behaviour makes

COUNCIL_SIZE == 4
COUNCIL_THRESHOLD == 3

ActionType ==
    {"RegisterIssuer", "SetIssuerStatus", "PublishIssuerRegistryRoot",
     "ActivateVerifierVersion", "RecordValidatorChange", "SetTenderAuthority",
     "SetCommittee", "EmergencyPause", "Unpause", "CancelTender"}

ASSUME GovernanceAssumption ==
    /\ IsFiniteSet(Council)          \* the constructor's four distinct members
    /\ Cardinality(Council) = COUNCIL_SIZE
    /\ Council \cap Outsiders = {}
    /\ Actions \subseteq ActionType
    /\ SoundImpls \subseteq Impls
    /\ Timelock \in Nat
    /\ MaxProposals \in Nat

ProposalIds == 1 .. MaxProposals

\* What an activation fixes: the version and the address of its verifier (the
\* hashes and the transcript address ride along with the address).
Registrations == [version : Versions, impl : Impls]
NoPayload == [version |-> 0, impl |-> NoImpl]
Payloads == Registrations \cup {NoPayload}

Proposals ==
    [action : ActionType, payload : Payloads, proposedAt : 0 .. MaxTime,
     executableAt : Nat, approvals : 0 .. COUNCIL_SIZE, executed : BOOLEAN]

VARIABLES
    proposalCount,      \* Governance.proposalCount
    proposals,          \* Governance._proposals, defined up to proposalCount
    hasApproved,        \* Governance.hasApproved, as the set of members
    proposalConsumed,   \* EligibilityVerifier.proposalConsumed, as a set
    registration        \* proposalId and registeredAt of _versions[v]

govOnlyVars ==
    <<proposalCount, proposals, hasApproved, proposalConsumed, registration>>
govVars == <<controlVars, govOnlyVars>>

NoProposal ==
    [action |-> "CancelTender", payload |-> NoPayload, proposedAt |-> 0,
     executableAt |-> 0, approvals |-> 0, executed |-> FALSE]
NoRegistration == [proposalId |-> 0, registeredAt |-> 0]

GovTypeOK ==
    /\ ControlTypeOK
    /\ proposalCount \in 0 .. MaxProposals
    /\ proposals \in [ProposalIds -> Proposals]
    /\ hasApproved \in [ProposalIds -> SUBSET Council]
    /\ proposalConsumed \in SUBSET ProposalIds
    /\ registration \in
         [Versions -> [proposalId : 0 .. MaxProposals, registeredAt : 0 .. MaxTime]]

GovInit ==
    /\ ControlInit
    /\ proposalCount = 0
    /\ proposals = [p \in ProposalIds |-> NoProposal]
    /\ hasApproved = [p \in ProposalIds |-> {}]
    /\ proposalConsumed = {}
    /\ registration = [v \in Versions |-> NoRegistration]

-----------------------------------------------------------------------------
(* Guards and helpers.                                                     *)

\* Faulty: an activation is not in the list.
ActivationsUntimed(action) ==
    action \in {"SetTenderAuthority", "SetCommittee", "RegisterIssuer", "SetIssuerStatus"}

\* isTimelocked.
IsTimelocked(action) ==
    action \in {"ActivateVerifierVersion", "SetTenderAuthority", "SetCommittee",
                "RegisterIssuer", "SetIssuerStatus"}

\* When a proposal made now may run.
ExecutableFrom(action) == IF IsTimelocked(action) THEN now + Timelock ELSE now

Exists(p) == p \in 1 .. proposalCount

\* approve: one approval per member, while the proposal has not run.
MayApprove(m, p) == Exists(p) /\ ~proposals[p].executed /\ m \notin hasApproved[p]

\* Faulty: two of four.
TwoSuffice(p) ==
    /\ Exists(p)
    /\ ~proposals[p].executed
    /\ proposals[p].approvals >= COUNCIL_THRESHOLD - 1
    /\ now >= proposals[p].executableAt

\* Faulty: the wait is counted twice.
NeverMature(p) ==
    /\ Exists(p)
    /\ ~proposals[p].executed
    /\ proposals[p].approvals >= COUNCIL_THRESHOLD
    /\ now > proposals[p].executableAt + Timelock

\* executionStatus: not run, enough approvals, timelock elapsed.
Executable(p) ==
    /\ Exists(p)
    /\ ~proposals[p].executed
    /\ proposals[p].approvals >= COUNCIL_THRESHOLD
    /\ now >= proposals[p].executableAt

-----------------------------------------------------------------------------
(* Governance.sol.                                                         *)

\* propose.  The proposer's approval counts; an empty reason reverts.
Propose(m, action, payload) ==
    /\ IsCouncilMember(m)
    /\ proposalCount < MaxProposals
    /\ LET p == proposalCount + 1 IN
         /\ proposalCount' = p
         /\ proposals' = [proposals EXCEPT ![p] =
              [action |-> action, payload |-> payload, proposedAt |-> now,
               executableAt |-> ExecutableFrom(action), approvals |-> 1,
               executed |-> FALSE]]
         /\ hasApproved' = [hasApproved EXCEPT ![p] = {m}]
    /\ UNCHANGED <<controlVars, proposalConsumed, registration>>

\* approve.
Approve(m, p) ==
    /\ IsCouncilMember(m)
    /\ MayApprove(m, p)
    /\ hasApproved' = [hasApproved EXCEPT ![p] = @ \cup {m}]
    /\ proposals' = [proposals EXCEPT ![p].approvals = @ + 1]
    /\ UNCHANGED <<controlVars, proposalCount, proposalConsumed, registration>>

\* Faulty: the switch is set without a look at where it stands.
SwitchUnguarded(action) ==
    paused' = CASE action = "EmergencyPause" -> TRUE
                [] action = "Unpause" -> FALSE
                [] OTHER -> paused

\* What execution does itself: the switch moves only if it has to, every
\* other payload is handed back to the caller and changes nothing here.
SwitchEffect(action) ==
    \/ action = "EmergencyPause" /\ ~paused /\ paused' = TRUE
    \/ action = "Unpause" /\ paused /\ paused' = FALSE
    \/ action \notin {"EmergencyPause", "Unpause"} /\ UNCHANGED paused

\* execute.
Execute(m, p) ==
    /\ IsCouncilMember(m)
    /\ Executable(p)
    /\ proposals' = [proposals EXCEPT ![p].executed = TRUE]
    /\ SwitchEffect(proposals[p].action)
    /\ UNCHANGED <<now, verifier, proposalCount, hasApproved, proposalConsumed,
                   registration>>

-----------------------------------------------------------------------------
(* EligibilityVerifier.registerVerifier.                                   *)

\* _consumeProposal: an executed activation of exactly these arguments, unspent.
Authorises(p, r) ==
    /\ Exists(p)
    /\ p \notin proposalConsumed
    /\ proposals[p].executed
    /\ proposals[p].action = "ActivateVerifierVersion"
    /\ proposals[p].payload = r

\* Faulty: a version may be registered over.
AlwaysUnset(v) == TRUE

\* VerifierVersionImmutable.
VersionUnset(v) == ~VersionRegistered(v)

\* registerVerifier: any one member, once the proposal ran, and only an
\* address that accepts the sample proof.
RegisterVerifier(m, p, r) ==
    /\ IsCouncilMember(m)
    /\ VersionUnset(r.version)
    /\ Authorises(p, r)
    /\ r.impl \in SoundImpls
    /\ proposalConsumed' = proposalConsumed \cup {p}
    /\ verifier' = [verifier EXCEPT ![r.version] = r.impl]
    /\ registration' = [registration EXCEPT ![r.version] =
                          [proposalId |-> p, registeredAt |-> now]]
    /\ UNCHANGED <<now, paused, proposalCount, proposals, hasApproved>>

-----------------------------------------------------------------------------

Callers == Council \cup Outsiders

PayloadsOf(action) ==
    IF action = "ActivateVerifierVersion" THEN Registrations ELSE {NoPayload}

GovTick == Tick /\ UNCHANGED govOnlyVars

GovNext ==
    \/ GovTick
    \/ \E m \in Callers :
         \/ \E action \in Actions : \E payload \in PayloadsOf(action) :
              Propose(m, action, payload)
         \/ \E p \in ProposalIds : Approve(m, p) \/ Execute(m, p)
         \/ \E p \in ProposalIds, r \in Registrations : RegisterVerifier(m, p, r)

GovSpec == GovInit /\ [][GovNext]_govVars

\* Members keep trying to execute what is approved, and time passes.
GovFairness ==
    /\ WF_govVars(GovTick)
    /\ \A p \in ProposalIds : WF_govVars(\E m \in Council : Execute(m, p))

GovFairSpec == GovSpec /\ GovFairness

-----------------------------------------------------------------------------
(* Properties.                                                             *)

\* The 8-bit tally is exactly the number of distinct members who approved, and
\* nothing runs on fewer than three of them (Governance.approve, execute).
ApprovalsAreDistinctMembers ==
    \A p \in 1 .. proposalCount :
        /\ proposals[p].approvals = Cardinality(hasApproved[p])
        /\ proposals[p].executed => Cardinality(hasApproved[p]) >= COUNCIL_THRESHOLD

\* A verifier got into the table only along the whole path: a proposal for that
\* very version and address, approved by three, executed, spent on it, and at
\* least a timelock old (registerVerifier against propose, approve, execute).
VerifierAuthorised ==
    \A v \in Versions : VersionRegistered(v) =>
        LET p == registration[v].proposalId IN
        /\ p \in proposalConsumed
        /\ p \in 1 .. proposalCount
        /\ proposals[p].action = "ActivateVerifierVersion"
        /\ proposals[p].payload = [version |-> v, impl |-> verifier[v]]
        /\ Cardinality(hasApproved[p]) >= COUNCIL_THRESHOLD
        /\ registration[v].registeredAt >= proposals[p].proposedAt + Timelock

\* The proposals of one action that have been executed.
Ran(action) ==
    {p \in 1 .. proposalCount : proposals[p].executed /\ proposals[p].action = action}

\* The switch agrees with the record: executed pauses and unpauses alternate,
\* so their difference is the state of the switch (Governance.execute).
SwitchMatchesRecord ==
    Cardinality(Ran("EmergencyPause")) =
        Cardinality(Ran("Unpause")) + (IF paused THEN 1 ELSE 0)

\* Nothing the contract does strands an approved activation: once three members
\* approved it, it is executed, whatever else is pending and paused or not.
ApprovedActivationRuns ==
    \A p \in ProposalIds :
        (/\ Exists(p)
         /\ proposals[p].action = "ActivateVerifierVersion"
         /\ proposals[p].approvals >= COUNCIL_THRESHOLD
         /\ proposals[p].executableAt <= MaxTime) ~> proposals[p].executed

=============================================================================
