--------------------------- MODULE TenderRegistry ---------------------------
(***************************************************************************)
(* TenderRegistry.sol: a tender from draft to close or cancellation, the   *)
(* freeze of its rules at activation, and the review-window floor.         *)
(*                                                                         *)
(* Hashes are injective, so a digest is the record it digests.  A revert   *)
(* is a disabled action.  The states OPENING and AWARDED of the enum are   *)
(* assigned by no function; they are in the type and in the guards.        *)
(***************************************************************************)
EXTENDS IssuerRegistry

CONSTANTS
    Authorities,          \* accounts that may be made a tender authority
    RuleDocuments,        \* canonical documents, EmptyDocument among them or not
    EmptyDocument,        \* the empty byte string
    CandidateFields,      \* RuleFields an authority may try to set
    CandidateCommittees,  \* [members, consistent] an authority may try to set
    NoCommittee,          \* a committee key that is not set
    NoAccount,            \* address(0)
    NoDigest,             \* bytes32(0)
    FloorChoices,         \* review-window floors a council member may set
    AbsoluteMinReview     \* ABSOLUTE_MIN_REVIEW_WINDOW, in ticks

MemberIndices == 1 .. 5        \* COMMITTEE_SIZE
OPENING_THRESHOLD == 3         \* COMMITTEE_THRESHOLD

State == {"NONE", "DRAFT", "ACTIVE", "CLOSED", "OPENING", "AWARDED", "CANCELLED"}

NoFields ==
    [turnover |-> 0, experience |-> 0, certCode |-> 0, biddingStart |-> 0, deadline |-> 0,
     issuerEpoch |-> 0, verifierVersion |-> 0, disclosurePolicy |-> 0,
     reviewWindow |-> 0]

RuleFields ==
    [turnover : Nat, experience : Nat, certCode : Nat, biddingStart : Nat, deadline : Nat,
     issuerEpoch : Nat, verifierVersion : Nat, disclosurePolicy : Nat,
     reviewWindow : Nat]

ASSUME TenderAssumption ==
    /\ CandidateFields \subseteq RuleFields
    /\ \A f \in CandidateFields :
         f.issuerEpoch \in Epochs /\ f.verifierVersion \in Versions
    /\ AbsoluteMinReview \in Nat \ {0}
    /\ FloorChoices \subseteq Nat
    /\ NoCommittee \notin CandidateCommittees
    /\ NoDigest \notin RuleFields
    /\ NoAccount \notin Authorities
    /\ Council \cap Authorities = {}

VARIABLES
    state,               \* Tender.state
    authority,           \* Tender.authority
    ruleDocument,        \* _ruleDocuments
    rulesHash,           \* Tender.rulesHash, as the document hashed
    fields,              \* the structured fields of Tender
    fieldsDigest,        \* Tender.fieldsDigest, as the fields hashed
    committee,           \* _committeeKeys and _committeeMembers
    activatedAt,
    minReviewWindow,
    isTenderAuthority,   \* as the set of permitted accounts
    versionRegistrySet   \* verifierVersionRegistry # address(0)

ruleVars == <<ruleDocument, rulesHash, fields, fieldsDigest, committee, activatedAt>>
policyVars == <<minReviewWindow, isTenderAuthority, versionRegistrySet>>
tenderOnlyVars == <<state, authority, ruleVars, policyVars>>
tenderVars == <<controlVars, issuerVars, tenderOnlyVars>>

TenderOnlyTypeOK ==
    /\ state \in [Tenders -> State]
    /\ authority \in [Tenders -> Authorities \cup {NoAccount}]
    /\ ruleDocument \in [Tenders -> RuleDocuments \cup {EmptyDocument}]
    /\ rulesHash \in [Tenders -> RuleDocuments \cup {EmptyDocument, NoDigest}]
    /\ fields \in [Tenders -> CandidateFields \cup {NoFields}]
    /\ fieldsDigest \in [Tenders -> CandidateFields \cup {NoDigest}]
    /\ committee \in [Tenders -> CandidateCommittees \cup {NoCommittee}]
    /\ activatedAt \in [Tenders -> 0 .. MaxTime]
    /\ minReviewWindow \in FloorChoices \cup {AbsoluteMinReview}
    /\ isTenderAuthority \in SUBSET Authorities
    /\ versionRegistrySet \in BOOLEAN

TenderTypeOK == ControlTypeOK /\ IssuerTypeOK /\ TenderOnlyTypeOK

TenderOnlyInit ==
    /\ state = [t \in Tenders |-> "NONE"]
    /\ authority = [t \in Tenders |-> NoAccount]
    /\ ruleDocument = [t \in Tenders |-> EmptyDocument]
    /\ rulesHash = [t \in Tenders |-> NoDigest]
    /\ fields = [t \in Tenders |-> NoFields]
    /\ fieldsDigest = [t \in Tenders |-> NoDigest]
    /\ committee = [t \in Tenders |-> NoCommittee]
    /\ activatedAt = [t \in Tenders |-> 0]
    /\ minReviewWindow = AbsoluteMinReview
    /\ isTenderAuthority = {}
    /\ versionRegistrySet = FALSE

TenderInit == ControlInit /\ IssuerInit /\ TenderOnlyInit

-----------------------------------------------------------------------------
(* Guards and views.                                                       *)

OnlyAuthorityOf(c, t) == authority[t] = c

\* isBiddingOpen.
IsBiddingOpen(t) ==
    /\ state[t] = "ACTIVE"
    /\ fields[t].biddingStart <= now
    /\ now < fields[t].deadline

\* The checks of setRuleFields on the fields themselves.
FieldsAcceptable(f) ==
    /\ f.deadline > f.biddingStart
    /\ f.turnover # 0
    /\ f.certCode # 0
    /\ f.reviewWindow >= minReviewWindow

\* The checks of setCommitteeKey: five distinct members, none of them the zero
\* address, and a Feldman dealing whose shares all match the commitments.
DealingAcceptable(d) ==
    /\ \A i \in MemberIndices : d.members[i] # NoAccount
    /\ \A i, j \in MemberIndices : i # j => d.members[i] # d.members[j]
    /\ d.consistent

\* Faulty: the floor is not looked at again.
FloorNotRechecked(t) ==
    /\ fields[t].reviewWindow # 0
    /\ fields[t].biddingStart >= now + fields[t].reviewWindow

\* The review window of activateTender, against the floor in force now.
ReviewWindowGranted(t) ==
    /\ fields[t].reviewWindow # 0
    /\ fields[t].reviewWindow >= minReviewWindow
    /\ fields[t].biddingStart >= now + fields[t].reviewWindow

\* The rest of activateTender's checks.
Complete(t) ==
    /\ ruleDocument[t] # EmptyDocument
    /\ fields[t].deadline # 0
    /\ fields[t].biddingStart # 0
    /\ fields[t].turnover # 0
    /\ fields[t].deadline > fields[t].biddingStart
    /\ committee[t] # NoCommittee
    /\ versionRegistrySet => VersionRegistered(fields[t].verifierVersion)

-----------------------------------------------------------------------------
(* Policy: any single council member.                                      *)

\* setMinReviewWindow; an empty reason reverts.
SetMinReviewWindow(c, w) ==
    /\ IsCouncilMember(c)
    /\ w >= AbsoluteMinReview
    /\ minReviewWindow' = w
    /\ UNCHANGED <<controlVars, issuerVars, state, authority, ruleVars,
                   isTenderAuthority, versionRegistrySet>>

\* setTenderAuthority; tenders already created keep their authority.
SetTenderAuthority(c, a, allowed) ==
    /\ IsCouncilMember(c)
    /\ isTenderAuthority' = IF allowed THEN isTenderAuthority \cup {a}
                                       ELSE isTenderAuthority \ {a}
    /\ UNCHANGED <<controlVars, issuerVars, state, authority, ruleVars,
                   minReviewWindow, versionRegistrySet>>

\* setVerifierVersionRegistry: the zero address switches the check off.
SetVerifierVersionRegistry(c, set) ==
    /\ IsCouncilMember(c)
    /\ versionRegistrySet' = set
    /\ UNCHANGED <<controlVars, issuerVars, state, authority, ruleVars,
                   minReviewWindow, isTenderAuthority>>

-----------------------------------------------------------------------------
(* The draft.                                                              *)

\* NotTenderAuthority.
IsTenderAuthority(c) == c \in isTenderAuthority

\* createTender.
CreateTender(c, t) ==
    /\ IsTenderAuthority(c)
    /\ ~paused
    /\ state[t] = "NONE"
    /\ state' = [state EXCEPT ![t] = "DRAFT"]
    /\ authority' = [authority EXCEPT ![t] = c]
    /\ UNCHANGED <<controlVars, issuerVars, ruleVars, policyVars>>

\* Faulty: the rules stay open as long as bidding has not started.
UntilBiddingStarts(c, t) ==
    /\ OnlyAuthorityOf(c, t)
    /\ ~paused
    /\ \/ state[t] = "DRAFT"
       \/ state[t] = "ACTIVE" /\ now < fields[t].biddingStart

\* What every edit of the rules requires.
MayEdit(c, t) ==
    /\ OnlyAuthorityOf(c, t)
    /\ ~paused
    /\ state[t] = "DRAFT"

\* setRuleDocument.
SetRuleDocument(c, t, doc) ==
    /\ MayEdit(c, t)
    /\ doc # EmptyDocument
    /\ ruleDocument' = [ruleDocument EXCEPT ![t] = doc]
    /\ rulesHash' = [rulesHash EXCEPT ![t] = doc]
    /\ UNCHANGED <<controlVars, issuerVars, state, authority, fields, fieldsDigest,
                   committee, activatedAt, policyVars>>

\* setRuleFields.
SetRuleFields(c, t, f) ==
    /\ MayEdit(c, t)
    /\ FieldsAcceptable(f)
    /\ fields' = [fields EXCEPT ![t] = f]
    /\ UNCHANGED <<controlVars, issuerVars, state, authority, ruleDocument,
                   rulesHash, fieldsDigest, committee, activatedAt, policyVars>>

\* setCommitteeKey, one-shot.
SetCommitteeKey(c, t, d) ==
    /\ MayEdit(c, t)
    /\ committee[t] = NoCommittee
    /\ DealingAcceptable(d)
    /\ committee' = [committee EXCEPT ![t] = d]
    /\ UNCHANGED <<controlVars, issuerVars, state, authority, ruleDocument,
                   rulesHash, fields, fieldsDigest, activatedAt, policyVars>>

\* activateTender: the authority names the hash it means to freeze.
ActivateTender(c, t, expected) ==
    /\ OnlyAuthorityOf(c, t)
    /\ ~paused
    /\ state[t] = "DRAFT"
    /\ Complete(t)
    /\ expected = ruleDocument[t]
    /\ ReviewWindowGranted(t)
    /\ rulesHash' = [rulesHash EXCEPT ![t] = ruleDocument[t]]
    /\ activatedAt' = [activatedAt EXCEPT ![t] = now]
    /\ fieldsDigest' = [fieldsDigest EXCEPT ![t] = fields[t]]
    /\ state' = [state EXCEPT ![t] = "ACTIVE"]
    /\ UNCHANGED <<controlVars, issuerVars, authority, ruleDocument, fields,
                   committee, policyVars>>

-----------------------------------------------------------------------------
(* The end.                                                                *)

\* DeadlineNotReached.
DeadlineReached(t) == now >= fields[t].deadline

\* closeTender, by anybody; the whole call reverts if the root cannot be pinned.
CloseTender(t) ==
    /\ ~paused
    /\ state[t] = "ACTIVE"
    /\ DeadlineReached(t)
    /\ state' = [state EXCEPT ![t] = "CLOSED"]
    /\ PinDeadlineRevocationRoot(t)
    /\ UNCHANGED <<controlVars, issuers, rootVars, tenderModuleSet, authority,
                   ruleVars, policyVars>>

\* Faulty: the close is undone by a cancellation.
CancelReopens(c, t) ==
    /\ IsCouncilMember(c)
    /\ state[t] \notin {"NONE", "AWARDED", "CANCELLED"}
    /\ state' = [state EXCEPT ![t] = IF @ = "CLOSED" THEN "DRAFT" ELSE "CANCELLED"]
    /\ UNCHANGED <<controlVars, issuerVars, authority, ruleVars, policyVars>>

\* cancelTender, by any one council member, paused or not; an empty reason reverts.
CancelTender(c, t) ==
    /\ IsCouncilMember(c)
    /\ state[t] \notin {"NONE", "AWARDED", "CANCELLED"}
    /\ state' = [state EXCEPT ![t] = "CANCELLED"]
    /\ UNCHANGED <<controlVars, issuerVars, authority, ruleVars, policyVars>>

-----------------------------------------------------------------------------

PolicyStep(c) ==
    \/ \E w \in FloorChoices : SetMinReviewWindow(c, w)
    \/ \E a \in Authorities, allowed \in BOOLEAN : SetTenderAuthority(c, a, allowed)
    \/ \E set \in BOOLEAN : SetVerifierVersionRegistry(c, set)

DraftStep(c, t) ==
    \/ CreateTender(c, t)
    \/ \E doc \in RuleDocuments : SetRuleDocument(c, t, doc)
    \/ \E f \in CandidateFields : SetRuleFields(c, t, f)
    \/ \E d \in CandidateCommittees : SetCommitteeKey(c, t, d)
    \/ \E expected \in RuleDocuments : ActivateTender(c, t, expected)

\* The control plane and the issuer registry move while the tenders stand still.
Environment ==
    \/ ControlNext /\ UNCHANGED <<issuerVars, tenderOnlyVars>>
    \/ /\ \E c \in Council \cup Authorities : IssuerCouncilStep(c)
       /\ UNCHANGED <<controlVars, tenderOnlyVars>>

TenderNext ==
    \/ Environment
    \/ \E c \in Council \cup Authorities :
         \/ PolicyStep(c)
         \/ \E t \in Tenders : DraftStep(c, t) \/ CancelTender(c, t)
    \/ \E t \in Tenders : CloseTender(t)

TenderSpec == TenderInit /\ [][TenderNext]_tenderVars

-----------------------------------------------------------------------------
(* Liveness.  Nobody can hold a lapsed tender open: closing is anybody's     *)
(* call, so it happens if it stays possible now and again.  The council must *)
(* lift its pauses and publish a root for the epoch it rolled to.            *)

CouncilPublishes ==
    /\ revocationRoot[currentEpoch] = NoRoot
    /\ \E c \in Council, root \in RevocationRoots :
         PublishRevocationRoot(c, currentEpoch, root)
    /\ UNCHANGED <<controlVars, tenderOnlyVars>>

CouncilWires ==
    /\ \E c \in Council : SetTenderModule(c)
    /\ UNCHANGED <<controlVars, tenderOnlyVars>>

TenderFairness ==
    /\ WF_tenderVars(Tick /\ UNCHANGED <<issuerVars, tenderOnlyVars>>)
    /\ WF_tenderVars(paused /\ TogglePause /\ UNCHANGED <<issuerVars, tenderOnlyVars>>)
    /\ SF_tenderVars(CouncilPublishes)
    /\ WF_tenderVars(CouncilWires)
    /\ \A t \in Tenders : SF_tenderVars(CloseTender(t))

TenderFairSpec == TenderSpec /\ TenderFairness

-----------------------------------------------------------------------------
(* Properties.                                                             *)

Activated(t) == activatedAt[t] # 0

\* What was frozen is what is stored: the digests of an activated tender are
\* those of its stored document and fields, its committee key is there, and the
\* window it was announced with is honest: at least the hard minimum of review
\* before bidding opens (activateTender against every edit that could follow).
FrozenAsStored ==
    \A t \in Tenders : Activated(t) =>
        /\ rulesHash[t] = ruleDocument[t]
        /\ fieldsDigest[t] = fields[t]
        /\ committee[t] # NoCommittee
        /\ fields[t].reviewWindow >= AbsoluteMinReview
        /\ fields[t].biddingStart >= activatedAt[t] + fields[t].reviewWindow
        /\ fields[t].deadline > fields[t].biddingStart

\* "No action rewrites an active tender's rules or verifier" (Governance.sol:31):
\* after activation no step of anybody changes them, cancelled or not.
NothingRewritesRules ==
    [][\A t \in Tenders : Activated(t) =>
         /\ ruleDocument'[t] = ruleDocument[t]
         /\ fields'[t] = fields[t]
         /\ committee'[t] = committee[t]
         /\ activatedAt'[t] = activatedAt[t]]_tenderVars

\* A floor raised, or a registry wired, between draft and activation still binds
\* the activation (activateTender's second look at both).
ActivationMeetsPolicy ==
    [][\A t \in Tenders : (state[t] = "DRAFT" /\ state'[t] = "ACTIVE") =>
         /\ fields[t].reviewWindow >= minReviewWindow
         /\ versionRegistrySet => VersionRegistered(fields[t].verifierVersion)]_tenderVars

\* A deadline root exists exactly for the tenders that were closed, none of them
\* before its deadline (closeTender and pinDeadlineRevocationRoot).
PinnedIffClosed ==
    \A t \in Tenders :
        /\ state[t] = "CLOSED" => deadlineRootPinned[t]
        /\ deadlineRootPinned[t] =>
             /\ state[t] \in {"CLOSED", "CANCELLED"}
             /\ deadlineRevocationRoot[t] # NoRoot
             /\ now >= fields[t].deadline
        /\ ~deadlineRootPinned[t] => deadlineRevocationRoot[t] = NoRoot

\* How far a tender has come.
Rank(s) == CASE s = "NONE" -> 0 [] s = "DRAFT" -> 1 [] s = "ACTIVE" -> 2
             [] s = "CLOSED" -> 3 [] OTHER -> 4

\* No sequence of calls brings a tender back (createTender, activateTender,
\* closeTender, cancelTender), and the root a close pinned stays, whatever the
\* council publishes for that epoch afterwards (publishRevocationRoot).
NoWayBack ==
    [][\A t \in Tenders :
         /\ Rank(state'[t]) >= Rank(state[t])
         /\ deadlineRootPinned[t] =>
              deadlineRevocationRoot'[t] = deadlineRevocationRoot[t]]_tenderVars

\* A tender past its deadline does not stay open (closeTender is permissionless).
LapsedTenderCloses ==
    \A t \in Tenders :
        (state[t] = "ACTIVE" /\ now >= fields[t].deadline) ~> (state[t] # "ACTIVE")

=============================================================================
