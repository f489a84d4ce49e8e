--------------------------- MODULE IssuerRegistry ---------------------------
(***************************************************************************)
(* IssuerRegistry.sol: the accredited issuers, the two roots the council   *)
(* publishes per epoch, and the deadline root a closing tender pins.       *)
(* A root stands for the set it commits to: the keys of the approved       *)
(* issuers, and the credentials revoked.  NoRoot is bytes32(0).            *)
(***************************************************************************)
EXTENDS Control, FiniteSets

CONSTANTS
    Tenders,            \* tender identifiers
    IssuerIds,          \* issuer identifiers
    IssuerRoots,        \* issuer registry roots the council may publish
    RevocationRoots,    \* revocation roots the council may publish
    NoRoot,             \* bytes32(0)
    NoIssuer,           \* the empty slot of _issuers
    MaxIssuers,         \* MAX_ISSUERS (16)
    MaxEpoch            \* bound: the last epoch the council rolls to

ASSUME IssuerAssumption ==
    /\ NoRoot \notin IssuerRoots \cup RevocationRoots
    /\ MaxIssuers \in Nat
    /\ MaxEpoch \in Nat \ {0}

Epochs == 1 .. MaxEpoch
Issuers == [epoch : Epochs, active : BOOLEAN]

VARIABLES
    issuers,                 \* _issuers, NoIssuer where not registered
    currentEpoch,
    issuerRegistryRoot,      \* by epoch
    revocationRoot,          \* by epoch
    deadlineRevocationRoot,  \* by tender
    deadlineRootPinned,      \* by tender
    tenderModuleSet          \* tenderModule # address(0)

pinVars == <<deadlineRevocationRoot, deadlineRootPinned>>
rootVars == <<currentEpoch, issuerRegistryRoot, revocationRoot>>
issuerVars == <<issuers, rootVars, pinVars, tenderModuleSet>>

IssuerTypeOK ==
    /\ issuers \in [IssuerIds -> Issuers \cup {NoIssuer}]
    /\ currentEpoch \in Epochs
    /\ issuerRegistryRoot \in [Epochs -> IssuerRoots \cup {NoRoot}]
    /\ revocationRoot \in [Epochs -> RevocationRoots \cup {NoRoot}]
    /\ deadlineRevocationRoot \in [Tenders -> RevocationRoots \cup {NoRoot}]
    /\ deadlineRootPinned \in [Tenders -> BOOLEAN]
    /\ tenderModuleSet \in BOOLEAN

IssuerInit ==
    /\ issuers = [i \in IssuerIds |-> NoIssuer]
    /\ currentEpoch = 1
    /\ issuerRegistryRoot = [e \in Epochs |-> NoRoot]
    /\ revocationRoot = [e \in Epochs |-> NoRoot]
    /\ deadlineRevocationRoot = [t \in Tenders |-> NoRoot]
    /\ deadlineRootPinned = [t \in Tenders |-> FALSE]
    /\ tenderModuleSet = FALSE

-----------------------------------------------------------------------------

Registered == {i \in IssuerIds : issuers[i] # NoIssuer}

\* Faulty: one issuer too many.
CapacityOneOver == Cardinality(Registered) <= MaxIssuers

\* IssuerCapacityExhausted.
CapacityLeft == Cardinality(Registered) < MaxIssuers

\* registerIssuer.
RegisterIssuer(c, i) ==
    /\ IsCouncilMember(c)
    /\ ~paused
    /\ issuers[i] = NoIssuer
    /\ CapacityLeft
    /\ issuers' = [issuers EXCEPT ![i] = [epoch |-> currentEpoch, active |-> TRUE]]
    /\ UNCHANGED <<rootVars, pinVars, tenderModuleSet>>

\* setIssuerStatus, which works while paused; an empty reason reverts.
SetIssuerStatus(c, i, active) ==
    /\ IsCouncilMember(c)
    /\ issuers[i] # NoIssuer
    /\ issuers' = [issuers EXCEPT ![i].active = active]
    /\ UNCHANGED <<rootVars, pinVars, tenderModuleSet>>

\* publishIssuerRegistryRoot: any epoch, any value, overwriting what was there.
PublishIssuerRegistryRoot(c, e, root) ==
    /\ IsCouncilMember(c)
    /\ ~paused
    /\ issuerRegistryRoot' = [issuerRegistryRoot EXCEPT ![e] = root]
    /\ UNCHANGED <<issuers, currentEpoch, revocationRoot, pinVars, tenderModuleSet>>

\* publishRevocationRoot.
PublishRevocationRoot(c, e, root) ==
    /\ IsCouncilMember(c)
    /\ ~paused
    /\ revocationRoot' = [revocationRoot EXCEPT ![e] = root]
    /\ UNCHANGED <<issuers, currentEpoch, issuerRegistryRoot, pinVars, tenderModuleSet>>

EpochIncreases(e) == e > currentEpoch

\* rollEpoch, which works while paused.
RollEpoch(c, e) ==
    /\ IsCouncilMember(c)
    /\ EpochIncreases(e)
    /\ currentEpoch' = e
    /\ UNCHANGED <<issuers, issuerRegistryRoot, revocationRoot, pinVars, tenderModuleSet>>

\* setTenderModule, one-shot.
SetTenderModule(c) ==
    /\ IsCouncilMember(c)
    /\ ~tenderModuleSet
    /\ tenderModuleSet' = TRUE
    /\ UNCHANGED <<issuers, rootVars, pinVars>>

\* Faulty: the root of the epoch may be missing.
PinUnchecked(t) ==
    /\ tenderModuleSet
    /\ ~deadlineRootPinned[t]
    /\ deadlineRevocationRoot' =
         [deadlineRevocationRoot EXCEPT ![t] = revocationRoot[currentEpoch]]
    /\ deadlineRootPinned' = [deadlineRootPinned EXCEPT ![t] = TRUE]

\* Faulty: the epoch must have the root of its issuers as well.
PinBothPublished(t) ==
    /\ issuerRegistryRoot[currentEpoch] # NoRoot
    /\ revocationRoot[currentEpoch] # NoRoot
    /\ PinUnchecked(t)

\* pinDeadlineRevocationRoot, called by the tender module alone: the root of
\* the epoch that is current then, which must have been published.
PinDeadlineRevocationRoot(t) ==
    /\ tenderModuleSet
    /\ ~deadlineRootPinned[t]
    /\ revocationRoot[currentEpoch] # NoRoot
    /\ deadlineRevocationRoot' =
         [deadlineRevocationRoot EXCEPT ![t] = revocationRoot[currentEpoch]]
    /\ deadlineRootPinned' = [deadlineRootPinned EXCEPT ![t] = TRUE]

\* What the council can call: on the list of issuers, and on the roots.
IssuerListStep(c) ==
    \/ \E i \in IssuerIds : RegisterIssuer(c, i)
    \/ \E i \in IssuerIds, active \in BOOLEAN : SetIssuerStatus(c, i, active)

IssuerRootStep(c) ==
    \/ \E e \in Epochs, root \in IssuerRoots \cup {NoRoot} :
         PublishIssuerRegistryRoot(c, e, root)
    \/ \E e \in Epochs, root \in RevocationRoots \cup {NoRoot} :
         PublishRevocationRoot(c, e, root)
    \/ \E e \in Epochs : RollEpoch(c, e)
    \/ SetTenderModule(c)

IssuerCouncilStep(c) == IssuerListStep(c) \/ IssuerRootStep(c)

-----------------------------------------------------------------------------

\* The registry never holds more issuers than the depth-4 tree has leaves
\* (registerIssuer), and none is dated after the epoch in force (rollEpoch).
IssuersFit ==
    /\ Cardinality(Registered) <= MaxIssuers
    /\ \A i \in Registered : issuers[i].epoch <= currentEpoch

=============================================================================
