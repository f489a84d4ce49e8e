------------------------ MODULE TenderRegistryProofs ------------------------
(***************************************************************************)
(* Theorems of TenderRegistry, for every set of tenders, callers, rules,   *)
(* dealings, roots, epochs and review-window floors.                       *)
(*                                                                         *)
(* That the rules are frozen is not inductive on its own: it needs to know *)
(* which states come before activation (nothing may be frozen there) and   *)
(* which come after (nothing may be edited there), and that the floor was  *)
(* never set below the hard minimum.                                       *)
(***************************************************************************)
EXTENDS TenderRegistry, FiniteSetTheorems, TLAPS

\* A tender has been activated exactly when it left the draft for the market; the
\* enum's OPENING and AWARDED are never entered.
PhaseConsistent ==
    \A t \in Tenders :
        /\ state[t] \in {"NONE", "DRAFT", "ACTIVE", "CLOSED", "CANCELLED"}
        /\ state[t] \in {"NONE", "DRAFT"} => activatedAt[t] = 0
        /\ state[t] \in {"ACTIVE", "CLOSED"} => activatedAt[t] # 0

FloorHolds == minReviewWindow >= AbsoluteMinReview

\* The inductive invariant.
TenderInv ==
    /\ TenderTypeOK
    /\ PhaseConsistent
    /\ FloorHolds
    /\ FrozenAsStored
    /\ PinnedIffClosed

-----------------------------------------------------------------------------
(* Types.                                                                  *)

\* What the actions do to the types, they undo nowhere: initial states.
LEMMA InitTyped == TenderInit => TenderTypeOK
<1> SUFFICES ASSUME TenderInit PROVE TenderTypeOK
  OBVIOUS
<1>0. MaxTime \in Nat \ {0} /\ MaxEpoch \in Nat \ {0}
  BY ControlAssumption, IssuerAssumption
<1>1. ControlTypeOK
  <2>1. 1 \in 1 .. MaxTime
    BY <1>0
  <2> QED
    BY <2>1 DEF TenderInit, ControlInit, ControlTypeOK
<1>2. IssuerTypeOK
  <2>1. 1 \in Epochs
    BY <1>0 DEF Epochs
  <2> QED
    BY <2>1 DEF TenderInit, IssuerInit, IssuerTypeOK
<1>3. TenderOnlyTypeOK
  <2>1. 0 \in 0 .. MaxTime
    BY <1>0
  <2> QED
    BY <2>1 DEF TenderInit, TenderOnlyInit, TenderOnlyTypeOK, State
<1> QED
  BY <1>1, <1>2, <1>3 DEF TenderTypeOK

\* The control plane keeps its types.
LEMMA ControlStepTyped ==
    ASSUME ControlTypeOK, ControlNext PROVE ControlTypeOK'
<1>1. CASE Tick
  <2>1. now' \in 1 .. MaxTime
    BY <1>1, ControlAssumption DEF Tick, ControlTypeOK
  <2> QED
    BY <1>1, <2>1 DEF Tick, ControlTypeOK
<1>2. CASE TogglePause
  BY <1>2 DEF TogglePause, ControlTypeOK
<1>3. ASSUME NEW v \in Versions, NEW impl \in Impls, ActivateVersion(v, impl)
      PROVE  ControlTypeOK'
  BY <1>3 DEF ActivateVersion, ControlTypeOK
<1> QED
  BY <1>1, <1>2, <1>3 DEF ControlNext

\* The issuer registry keeps its types under every call of a council member.
LEMMA IssuerStepTyped ==
    ASSUME IssuerTypeOK, NEW c, IssuerCouncilStep(c) PROVE IssuerTypeOK'
<1> USE DEF IssuerTypeOK, rootVars, pinVars
<1>1. ASSUME NEW i \in IssuerIds, RegisterIssuer(c, i) PROVE IssuerTypeOK'
  <2>1. [epoch |-> currentEpoch, active |-> TRUE] \in Issuers
    BY DEF Issuers
  <2> QED
    BY <1>1, <2>1 DEF RegisterIssuer
<1>2. ASSUME NEW i \in IssuerIds, NEW active \in BOOLEAN, SetIssuerStatus(c, i, active)
      PROVE  IssuerTypeOK'
  <2>1. issuers[i] \in Issuers
    BY <1>2 DEF SetIssuerStatus
  <2>2. [issuers[i] EXCEPT !.active = active] \in Issuers
    BY <2>1 DEF Issuers
  <2> QED
    BY <1>2, <2>2 DEF SetIssuerStatus
<1>3. ASSUME NEW e \in Epochs, NEW root \in IssuerRoots \cup {NoRoot},
             PublishIssuerRegistryRoot(c, e, root)
      PROVE  IssuerTypeOK'
  BY <1>3 DEF PublishIssuerRegistryRoot
<1>4. ASSUME NEW e \in Epochs, NEW root \in RevocationRoots \cup {NoRoot},
             PublishRevocationRoot(c, e, root)
      PROVE  IssuerTypeOK'
  BY <1>4 DEF PublishRevocationRoot
<1>5. ASSUME NEW e \in Epochs, RollEpoch(c, e) PROVE IssuerTypeOK'
  BY <1>5 DEF RollEpoch
<1>6. CASE SetTenderModule(c)
  BY <1>6 DEF SetTenderModule
<1> QED
  BY <1>1, <1>2, <1>3, <1>4, <1>5, <1>6
     DEF IssuerCouncilStep, IssuerListStep, IssuerRootStep

-----------------------------------------------------------------------------
(* The steps.                                                              *)

\* The outside moves: time, pauses, versions, issuers and roots.
LEMMA EnvironmentPreserves ==
    ASSUME TenderInv, Environment PROVE TenderInv'
<1>1. UNCHANGED tenderOnlyVars
  BY DEF Environment
<1>2. TenderTypeOK'
  <2>1. CASE ControlNext /\ UNCHANGED <<issuerVars, tenderOnlyVars>>
    <3>1. ControlTypeOK'
      BY <2>1, ControlStepTyped DEF TenderInv, TenderTypeOK
    <3> QED
      BY <2>1, <3>1 DEF TenderInv, TenderTypeOK, IssuerTypeOK, TenderOnlyTypeOK, issuerVars,
                        rootVars, pinVars, tenderOnlyVars, ruleVars, policyVars
  <2>2. ASSUME NEW c \in Council \cup Authorities, IssuerCouncilStep(c),
               UNCHANGED <<controlVars, tenderOnlyVars>>
        PROVE  TenderTypeOK'
    <3>1. IssuerTypeOK'
      BY <2>2, IssuerStepTyped DEF TenderInv, TenderTypeOK
    <3> QED
      BY <2>2, <3>1 DEF TenderInv, TenderTypeOK, ControlTypeOK, TenderOnlyTypeOK, controlVars,
                        tenderOnlyVars, ruleVars, policyVars
  <2> QED
    BY <2>1, <2>2 DEF Environment
<1>3. PhaseConsistent' /\ FloorHolds' /\ FrozenAsStored'
  BY <1>1 DEF TenderInv, PhaseConsistent, FloorHolds, FrozenAsStored, Activated,
              tenderOnlyVars, ruleVars, policyVars
<1>4. UNCHANGED pinVars
  BY DEF Environment, IssuerCouncilStep, IssuerListStep, IssuerRootStep, RegisterIssuer, SetIssuerStatus,
         PublishIssuerRegistryRoot, PublishRevocationRoot, RollEpoch, SetTenderModule,
         issuerVars
<1>5. now' >= now
  <2>1. now \in Nat
    BY ControlAssumption DEF TenderInv, TenderTypeOK, ControlTypeOK
  <2>2. now' = now \/ now' = now + 1
    BY DEF Environment, ControlNext, Tick, TogglePause, ActivateVersion, controlVars
  <2> QED
    BY <2>1, <2>2
<1>6. PinnedIffClosed'
  <2> SUFFICES ASSUME NEW t \in Tenders, deadlineRootPinned[t]
               PROVE  now' >= fields[t].deadline
    BY <1>1, <1>4 DEF TenderInv, PinnedIffClosed, tenderOnlyVars, ruleVars, pinVars
  <2>1. now >= fields[t].deadline /\ fields[t] \in RuleFields
    BY TenderAssumption DEF TenderInv, PinnedIffClosed, TenderTypeOK, TenderOnlyTypeOK,
                            NoFields, RuleFields
  <2>2. now \in Nat /\ now' \in Nat /\ fields[t].deadline \in Nat
    BY <1>2, <2>1, ControlAssumption DEF TenderInv, TenderTypeOK, ControlTypeOK, RuleFields
  <2> QED
    BY <1>5, <2>1, <2>2
<1> QED
  BY <1>2, <1>3, <1>6 DEF TenderInv

\* The policy moves: the floor stays above the hard minimum, tenders are not touched.
LEMMA PolicyPreserves ==
    ASSUME TenderInv, NEW c, PolicyStep(c) PROVE TenderInv'
<1> USE DEF SetMinReviewWindow, SetTenderAuthority, SetVerifierVersionRegistry
<1>1. UNCHANGED <<controlVars, issuerVars, state, authority, ruleVars>>
  BY DEF PolicyStep
<1>2. minReviewWindow' \in FloorChoices \cup {AbsoluteMinReview} /\ FloorHolds'
  BY DEF PolicyStep, TenderInv, FloorHolds, TenderTypeOK, TenderOnlyTypeOK
<1>3. isTenderAuthority' \in SUBSET Authorities /\ versionRegistrySet' \in BOOLEAN
  BY DEF PolicyStep, TenderInv, TenderTypeOK, TenderOnlyTypeOK
<1>4. TenderTypeOK'
  BY <1>1, <1>2, <1>3 DEF TenderInv, TenderTypeOK, ControlTypeOK, IssuerTypeOK,
       TenderOnlyTypeOK, controlVars, issuerVars, rootVars, pinVars, ruleVars
<1>5. PhaseConsistent' /\ FrozenAsStored' /\ PinnedIffClosed'
  BY <1>1 DEF TenderInv, PhaseConsistent, FrozenAsStored, Activated, PinnedIffClosed,
              controlVars, issuerVars, pinVars, ruleVars
<1> QED
  BY <1>2, <1>4, <1>5 DEF TenderInv

\* The calls on one tender leave the outside and the policies alone; a lemma on
\* what is left to show for them.
LEMMA OneTenderMoves ==
    ASSUME TenderInv, UNCHANGED <<controlVars, issuerVars, policyVars>>,
           TenderOnlyTypeOK', PhaseConsistent', FrozenAsStored', PinnedIffClosed'
    PROVE  TenderInv'
BY DEF TenderInv, TenderTypeOK, ControlTypeOK, IssuerTypeOK, FloorHolds, controlVars,
       issuerVars, rootVars, pinVars, policyVars

\* createTender: an unused identifier becomes a draft with nothing frozen.
LEMMA CreatePreserves ==
    ASSUME TenderInv, NEW c, NEW t \in Tenders, CreateTender(c, t) PROVE TenderInv'
<1>1. /\ state[t] = "NONE" /\ c \in isTenderAuthority
      /\ state' = [state EXCEPT ![t] = "DRAFT"]
      /\ authority' = [authority EXCEPT ![t] = c]
      /\ UNCHANGED <<controlVars, issuerVars, ruleVars, policyVars>>
  BY DEF CreateTender, IsTenderAuthority
<1>2. TenderOnlyTypeOK
  BY DEF TenderInv, TenderTypeOK
<1>3. TenderOnlyTypeOK'
  BY <1>1, <1>2 DEF TenderOnlyTypeOK, State, ruleVars, policyVars
<1>4. PhaseConsistent'
  BY <1>1, <1>2 DEF TenderInv, PhaseConsistent, TenderOnlyTypeOK, ruleVars
<1>5. FrozenAsStored'
  BY <1>1 DEF TenderInv, FrozenAsStored, Activated, ruleVars
<1>6. PinnedIffClosed'
  BY <1>1, <1>2 DEF TenderInv, PinnedIffClosed, TenderOnlyTypeOK, ruleVars, controlVars,
                    issuerVars, pinVars
<1> QED
  BY <1>1, <1>3, <1>4, <1>5, <1>6, OneTenderMoves

\* The edits of a draft: nothing of it is frozen or pinned yet.
LEMMA EditPreserves ==
    ASSUME TenderInv, NEW c, NEW t \in Tenders,
           \/ \E doc \in RuleDocuments : SetRuleDocument(c, t, doc)
           \/ \E f \in CandidateFields : SetRuleFields(c, t, f)
           \/ \E d \in CandidateCommittees : SetCommitteeKey(c, t, d)
    PROVE  TenderInv'
<1> USE DEF SetRuleDocument, SetRuleFields, SetCommitteeKey
<1>1. /\ state[t] = "DRAFT"
      /\ UNCHANGED <<controlVars, issuerVars, state, authority, fieldsDigest,
                     activatedAt, policyVars>>
  BY DEF MayEdit
<1>2. /\ TenderOnlyTypeOK
      /\ activatedAt[t] = 0
      /\ ~deadlineRootPinned[t]
  BY <1>1 DEF TenderInv, TenderTypeOK, PhaseConsistent, PinnedIffClosed
<1>3. TenderOnlyTypeOK'
  BY <1>1, <1>2 DEF TenderOnlyTypeOK, policyVars
<1>4. PhaseConsistent'
  BY <1>1 DEF TenderInv, PhaseConsistent
<1>5. \A u \in Tenders : u # t =>
        /\ ruleDocument'[u] = ruleDocument[u] /\ rulesHash'[u] = rulesHash[u]
        /\ fields'[u] = fields[u] /\ committee'[u] = committee[u]
  BY <1>2 DEF TenderOnlyTypeOK
<1>6. FrozenAsStored'
  BY <1>1, <1>2, <1>5 DEF TenderInv, FrozenAsStored, Activated
<1>7. PinnedIffClosed'
  BY <1>1, <1>2, <1>5 DEF TenderInv, PinnedIffClosed, controlVars, issuerVars, pinVars
<1> QED
  BY <1>1, <1>3, <1>4, <1>6, <1>7, OneTenderMoves

\* activateTender: everything is frozen together, and checked against what is stored.
LEMMA ActivatePreserves ==
    ASSUME TenderInv, NEW c, NEW t \in Tenders, NEW expected,
           ActivateTender(c, t, expected)
    PROVE  TenderInv'
<1>1. /\ state[t] = "DRAFT"
      /\ rulesHash' = [rulesHash EXCEPT ![t] = ruleDocument[t]]
      /\ activatedAt' = [activatedAt EXCEPT ![t] = now]
      /\ fieldsDigest' = [fieldsDigest EXCEPT ![t] = fields[t]]
      /\ state' = [state EXCEPT ![t] = "ACTIVE"]
      /\ UNCHANGED <<controlVars, issuerVars, authority, ruleDocument, fields,
                     committee, policyVars>>
  BY DEF ActivateTender
<1>2. /\ committee[t] # NoCommittee
      /\ fields[t].deadline # 0
      /\ fields[t].deadline > fields[t].biddingStart
      /\ fields[t].reviewWindow >= minReviewWindow
      /\ fields[t].biddingStart >= now + fields[t].reviewWindow
  BY DEF ActivateTender, Complete, ReviewWindowGranted
<1>3. /\ TenderOnlyTypeOK
      /\ now \in 0 .. MaxTime /\ now # 0
  BY ControlAssumption DEF TenderInv, TenderTypeOK, ControlTypeOK
<1>4. fields[t] \in CandidateFields /\ fields[t] \in RuleFields
  BY <1>2, <1>3, TenderAssumption DEF TenderOnlyTypeOK, NoFields
<1>5. fields[t].reviewWindow >= AbsoluteMinReview
  <2>1. minReviewWindow \in Nat /\ AbsoluteMinReview \in Nat /\ fields[t].reviewWindow \in Nat
    BY <1>3, <1>4, TenderAssumption DEF TenderOnlyTypeOK, RuleFields
  <2> QED
    BY <1>2, <2>1 DEF TenderInv, FloorHolds
<1>6. TenderOnlyTypeOK'
  BY <1>1, <1>3, <1>4 DEF TenderOnlyTypeOK, State, policyVars
<1>7. PhaseConsistent'
  BY <1>1, <1>3 DEF TenderInv, PhaseConsistent, TenderOnlyTypeOK
<1>8. FrozenAsStored'
  <2> SUFFICES ASSUME NEW u \in Tenders, Activated(u)'
               PROVE  (/\ rulesHash[u] = ruleDocument[u]
                       /\ fieldsDigest[u] = fields[u]
                       /\ committee[u] # NoCommittee
                       /\ fields[u].reviewWindow >= AbsoluteMinReview
                       /\ fields[u].biddingStart >= activatedAt[u] + fields[u].reviewWindow
                       /\ fields[u].deadline > fields[u].biddingStart)'
    BY DEF FrozenAsStored
  <2>1. CASE u = t
    BY <1>1, <1>2, <1>3, <1>5, <2>1 DEF TenderOnlyTypeOK
  <2>2. CASE u # t
    BY <1>1, <1>3, <2>2 DEF TenderInv, FrozenAsStored, Activated, TenderOnlyTypeOK
  <2> QED
    BY <2>1, <2>2
<1>9. PinnedIffClosed'
  BY <1>1, <1>3 DEF TenderInv, PinnedIffClosed, TenderOnlyTypeOK, controlVars, issuerVars,
                    pinVars
<1> QED
  BY <1>1, <1>6, <1>7, <1>8, <1>9, OneTenderMoves

\* closeTender: the state and the pinned root change together or not at all.
LEMMA ClosePreserves ==
    ASSUME TenderInv, NEW t \in Tenders, CloseTender(t) PROVE TenderInv'
<1>1. /\ state[t] = "ACTIVE" /\ now >= fields[t].deadline
      /\ state' = [state EXCEPT ![t] = "CLOSED"]
      /\ revocationRoot[currentEpoch] # NoRoot
      /\ deadlineRevocationRoot' =
           [deadlineRevocationRoot EXCEPT ![t] = revocationRoot[currentEpoch]]
      /\ deadlineRootPinned' = [deadlineRootPinned EXCEPT ![t] = TRUE]
      /\ UNCHANGED <<controlVars, issuers, rootVars, tenderModuleSet, authority,
                     ruleVars, policyVars>>
  BY DEF CloseTender, DeadlineReached, PinDeadlineRevocationRoot
<1>2. ControlTypeOK /\ IssuerTypeOK /\ TenderOnlyTypeOK
  BY DEF TenderInv, TenderTypeOK
<1>3. IssuerTypeOK'
  BY <1>1, <1>2 DEF IssuerTypeOK, rootVars
<1>4. TenderOnlyTypeOK'
  BY <1>1, <1>2 DEF TenderOnlyTypeOK, State, ruleVars, policyVars
<1>5. TenderTypeOK'
  BY <1>1, <1>2, <1>3, <1>4 DEF TenderTypeOK, ControlTypeOK, controlVars
<1>6. PhaseConsistent' /\ FloorHolds' /\ FrozenAsStored'
  BY <1>1, <1>2 DEF TenderInv, PhaseConsistent, FloorHolds, FrozenAsStored, Activated,
                    TenderOnlyTypeOK, ruleVars, policyVars
<1>7. PinnedIffClosed'
  BY <1>1, <1>2 DEF TenderInv, PinnedIffClosed, TenderOnlyTypeOK, IssuerTypeOK, ruleVars,
                    controlVars
<1> QED
  BY <1>5, <1>6, <1>7 DEF TenderInv

\* cancelTender: a tender stops where it is; what was frozen and pinned stays.
LEMMA CancelPreserves ==
    ASSUME TenderInv, NEW c, NEW t \in Tenders, CancelTender(c, t) PROVE TenderInv'
<1>1. /\ state' = [state EXCEPT ![t] = "CANCELLED"]
      /\ UNCHANGED <<controlVars, issuerVars, authority, ruleVars, policyVars>>
  BY DEF CancelTender
<1>2. TenderOnlyTypeOK
  BY DEF TenderInv, TenderTypeOK
<1>3. TenderOnlyTypeOK'
  BY <1>1, <1>2 DEF TenderOnlyTypeOK, State, ruleVars, policyVars
<1>4. PhaseConsistent' /\ FrozenAsStored'
  BY <1>1, <1>2 DEF TenderInv, PhaseConsistent, FrozenAsStored, Activated, TenderOnlyTypeOK,
                    ruleVars
<1>5. PinnedIffClosed'
  BY <1>1, <1>2 DEF TenderInv, PinnedIffClosed, TenderOnlyTypeOK, ruleVars, controlVars,
                    issuerVars, pinVars
<1> QED
  BY <1>1, <1>3, <1>4, <1>5, OneTenderMoves

\* The initial states are in the invariant: no tender, no pin, the floor at its minimum.
LEMMA InitEstablishesTenderInv == TenderInit => TenderInv
<1> SUFFICES ASSUME TenderInit PROVE TenderInv
  OBVIOUS
<1>1. TenderTypeOK
  BY InitTyped
<1>2. PhaseConsistent /\ FrozenAsStored /\ PinnedIffClosed
  BY DEF TenderInit, IssuerInit, TenderOnlyInit, PhaseConsistent, FrozenAsStored, Activated,
         PinnedIffClosed
<1>3. FloorHolds
  BY TenderAssumption DEF TenderInit, TenderOnlyInit, FloorHolds
<1> QED
  BY <1>1, <1>2, <1>3 DEF TenderInv

\* A step of the specification, or none, keeps the invariant.
LEMMA NextPreservesTenderInv == TenderInv /\ [TenderNext]_tenderVars => TenderInv'
<1> SUFFICES ASSUME TenderInv, [TenderNext]_tenderVars PROVE TenderInv'
  OBVIOUS
<1>1. CASE Environment
  BY <1>1, EnvironmentPreserves
<1>2. ASSUME NEW c \in Council \cup Authorities, PolicyStep(c) PROVE TenderInv'
  BY <1>2, PolicyPreserves
<1>3. ASSUME NEW c \in Council \cup Authorities, NEW t \in Tenders, DraftStep(c, t)
      PROVE  TenderInv'
  <2>1. CASE CreateTender(c, t)
    BY <2>1, CreatePreserves
  <2>2. CASE \/ \E doc \in RuleDocuments : SetRuleDocument(c, t, doc)
             \/ \E f \in CandidateFields : SetRuleFields(c, t, f)
             \/ \E d \in CandidateCommittees : SetCommitteeKey(c, t, d)
    BY <2>2, EditPreserves
  <2>3. ASSUME NEW expected \in RuleDocuments, ActivateTender(c, t, expected) PROVE TenderInv'
    BY <2>3, ActivatePreserves
  <2> QED
    BY <1>3, <2>1, <2>2, <2>3 DEF DraftStep
<1>4. ASSUME NEW c \in Council \cup Authorities, NEW t \in Tenders, CancelTender(c, t)
      PROVE  TenderInv'
  BY <1>4, CancelPreserves
<1>5. ASSUME NEW t \in Tenders, CloseTender(t) PROVE TenderInv'
  BY <1>5, ClosePreserves
<1>6. CASE UNCHANGED tenderVars
  BY <1>6 DEF TenderInv, TenderTypeOK, ControlTypeOK, IssuerTypeOK, TenderOnlyTypeOK,
              PhaseConsistent, FloorHolds, FrozenAsStored, Activated, PinnedIffClosed,
              tenderVars, controlVars, issuerVars, rootVars, pinVars, tenderOnlyVars,
              ruleVars, policyVars
<1> QED
  BY <1>1, <1>2, <1>3, <1>4, <1>5, <1>6 DEF TenderNext

\* The inductive invariant holds of every reachable state.
THEOREM TenderInvariant == TenderSpec => []TenderInv
<1>1. TenderInit => TenderInv
  BY InitEstablishesTenderInv
<1>2. TenderInv /\ [TenderNext]_tenderVars => TenderInv'
  BY NextPreservesTenderInv
<1> QED
  BY <1>1, <1>2, PTL DEF TenderSpec

-----------------------------------------------------------------------------
(* The properties the runs check.                                          *)

\* Every variable of the tender, issuer and control state keeps its type.
THEOREM TenderTyped == TenderSpec => []TenderTypeOK
<1>1. TenderInv => TenderTypeOK
  BY DEF TenderInv
<1> QED
  BY <1>1, TenderInvariant, PTL

\* What a tender stores after activation is what was frozen, with an honest window.
THEOREM RulesFrozen == TenderSpec => []FrozenAsStored
<1>1. TenderInv => FrozenAsStored
  BY DEF TenderInv
<1> QED
  BY <1>1, TenderInvariant, PTL

\* A deadline root is pinned for exactly the tenders that were closed, in time.
THEOREM DeadlineRootPinned == TenderSpec => []PinnedIffClosed
<1>1. TenderInv => PinnedIffClosed
  BY DEF TenderInv
<1> QED
  BY <1>1, TenderInvariant, PTL

-----------------------------------------------------------------------------
(* Action properties.                                                      *)

RulesKept(t) ==
    /\ ruleDocument'[t] = ruleDocument[t]
    /\ fields'[t] = fields[t]
    /\ committee'[t] = committee[t]
    /\ activatedAt'[t] = activatedAt[t]

\* No step rewrites a tender that left the draft: the edits reach drafts only.
LEMMA PastDraftKeepsRules ==
    ASSUME TenderInv, [TenderNext]_tenderVars, NEW t \in Tenders,
           state[t] \notin {"NONE", "DRAFT"}
    PROVE  RulesKept(t)
<1> USE DEF RulesKept
<1>1. TenderOnlyTypeOK /\ state[t] \notin {"NONE", "DRAFT"}
  BY DEF TenderInv, TenderTypeOK
<1>2. CASE UNCHANGED ruleVars
  BY <1>2 DEF ruleVars
<1>3. ASSUME NEW c \in Council \cup Authorities, NEW u \in Tenders, DraftStep(c, u)
      PROVE  RulesKept(t)
  <2>1. CASE CreateTender(c, u)
    BY <1>2, <2>1 DEF CreateTender
  <2>2. CASE u # t
    BY <1>1, <1>2, <1>3, <2>1, <2>2
       DEF DraftStep, SetRuleDocument, SetRuleFields, SetCommitteeKey, ActivateTender,
           TenderOnlyTypeOK
  <2>3. CASE u = t
    BY <1>1, <1>2, <1>3, <2>1, <2>3
       DEF DraftStep, SetRuleDocument, SetRuleFields, SetCommitteeKey, ActivateTender, MayEdit
  <2> QED
    BY <2>2, <2>3
<1>4. ASSUME NEW c \in Council \cup Authorities, PolicyStep(c) PROVE UNCHANGED ruleVars
  BY <1>4 DEF PolicyStep, SetMinReviewWindow, SetTenderAuthority, SetVerifierVersionRegistry
<1>5. ASSUME NEW c \in Council \cup Authorities, NEW u \in Tenders, CancelTender(c, u)
      PROVE  UNCHANGED ruleVars
  BY <1>5 DEF CancelTender
<1>6. ASSUME NEW u \in Tenders, CloseTender(u) PROVE UNCHANGED ruleVars
  BY <1>6 DEF CloseTender
<1>7. CASE Environment
  BY <1>2, <1>7 DEF Environment, tenderOnlyVars, ruleVars
<1>8. CASE UNCHANGED tenderVars
  BY <1>2, <1>8 DEF tenderVars, tenderOnlyVars
<1> QED
  BY <1>2, <1>3, <1>4, <1>5, <1>6, <1>7, <1>8 DEF TenderNext

\* An activated tender has left the draft.
LEMMA StepKeepsRules ==
    ASSUME TenderInv, [TenderNext]_tenderVars, NEW t \in Tenders, Activated(t)
    PROVE  RulesKept(t)
BY PastDraftKeepsRules DEF TenderInv, PhaseConsistent, Activated

\* "No action rewrites an active tender's rules or verifier" (Governance.sol), for
\* every caller and every order of calls.
THEOREM RulesNeverRewritten == TenderSpec => NothingRewritesRules
<1>1. TenderInv /\ [TenderNext]_tenderVars =>
        [\A t \in Tenders : Activated(t) =>
           /\ ruleDocument'[t] = ruleDocument[t]
           /\ fields'[t] = fields[t]
           /\ committee'[t] = committee[t]
           /\ activatedAt'[t] = activatedAt[t]]_tenderVars
  BY StepKeepsRules DEF RulesKept
<1> QED
  BY <1>1, TenderInvariant, PTL DEF TenderSpec, NothingRewritesRules

MovesForward(t) ==
    /\ Rank(state'[t]) >= Rank(state[t])
    /\ deadlineRootPinned[t] => deadlineRevocationRoot'[t] = deadlineRevocationRoot[t]

\* Standing still is moving forward.
LEMMA StandingStill ==
    ASSUME TenderInv, NEW t \in Tenders, UNCHANGED <<state, pinVars>>
    PROVE  MovesForward(t)
<1>1. Rank(state[t]) \in Nat
  BY DEF Rank
<1> QED
  BY <1>1 DEF MovesForward, pinVars

\* No step brings a tender back or replaces a pinned root.
LEMMA StepMovesForward ==
    ASSUME TenderInv, [TenderNext]_tenderVars, NEW t \in Tenders
    PROVE  MovesForward(t)
<1>1. /\ state \in [Tenders -> State]
      /\ deadlineRevocationRoot \in [Tenders -> RevocationRoots \cup {NoRoot}]
  BY DEF TenderInv, TenderTypeOK, TenderOnlyTypeOK, IssuerTypeOK
<1>2. ASSUME NEW c \in Council \cup Authorities, NEW u \in Tenders, DraftStep(c, u)
      PROVE  MovesForward(t)
  <2>1. UNCHANGED pinVars
    BY <1>2 DEF DraftStep, CreateTender, SetRuleDocument, SetRuleFields, SetCommitteeKey,
                ActivateTender, issuerVars
  <2>2. \/ UNCHANGED state
        \/ state[u] = "NONE" /\ state' = [state EXCEPT ![u] = "DRAFT"]
        \/ state[u] = "DRAFT" /\ state' = [state EXCEPT ![u] = "ACTIVE"]
    BY <1>2 DEF DraftStep, CreateTender, SetRuleDocument, SetRuleFields, SetCommitteeKey,
                ActivateTender
  <2>3. \/ state'[t] = state[t]
        \/ state[t] = "NONE" /\ state'[t] = "DRAFT"
        \/ state[t] = "DRAFT" /\ state'[t] = "ACTIVE"
    BY <1>1, <2>2
  <2>4. Rank(state'[t]) >= Rank(state[t])
    BY <2>3 DEF Rank
  <2> QED
    BY <2>1, <2>4 DEF MovesForward, pinVars
<1>3. ASSUME NEW u \in Tenders, CloseTender(u) PROVE MovesForward(t)
  <2>1. state[u] = "ACTIVE" /\ state' = [state EXCEPT ![u] = "CLOSED"]
    BY <1>3 DEF CloseTender
  <2>2. state'[t] = state[t] \/ (state[t] = "ACTIVE" /\ state'[t] = "CLOSED")
    BY <1>1, <2>1
  <2>3. Rank(state'[t]) >= Rank(state[t])
    BY <2>2 DEF Rank
  <2>4. deadlineRootPinned[t] => deadlineRevocationRoot'[t] = deadlineRevocationRoot[t]
    BY <1>1, <1>3 DEF CloseTender, PinDeadlineRevocationRoot
  <2> QED
    BY <2>3, <2>4 DEF MovesForward
<1>4. ASSUME NEW c \in Council \cup Authorities, NEW u \in Tenders, CancelTender(c, u)
      PROVE  MovesForward(t)
  <2>1. state' = [state EXCEPT ![u] = "CANCELLED"] /\ UNCHANGED pinVars
    BY <1>4 DEF CancelTender, issuerVars
  <2>2. state'[t] = state[t] \/ state'[t] = "CANCELLED"
    BY <1>1, <2>1
  <2>3. Rank(state'[t]) >= Rank(state[t])
    BY <2>2 DEF Rank
  <2> QED
    BY <2>1, <2>3 DEF MovesForward, pinVars
<1>5. ASSUME NEW c \in Council \cup Authorities, PolicyStep(c) PROVE MovesForward(t)
  <2>1. UNCHANGED <<state, pinVars>>
    BY <1>5 DEF PolicyStep, SetMinReviewWindow, SetTenderAuthority,
                SetVerifierVersionRegistry, issuerVars
  <2> QED
    BY <2>1, StandingStill
<1>6. CASE Environment
  <2>1. UNCHANGED <<state, pinVars>>
    BY <1>6 DEF Environment, IssuerCouncilStep, IssuerListStep, IssuerRootStep, RegisterIssuer, SetIssuerStatus,
                PublishIssuerRegistryRoot, PublishRevocationRoot, RollEpoch,
                SetTenderModule, issuerVars, tenderOnlyVars
  <2> QED
    BY <2>1, StandingStill
<1>7. CASE UNCHANGED tenderVars
  <2>1. UNCHANGED <<state, pinVars>>
    BY <1>7 DEF tenderVars, tenderOnlyVars, issuerVars
  <2> QED
    BY <2>1, StandingStill
<1> QED
  BY <1>2, <1>3, <1>4, <1>5, <1>6, <1>7 DEF TenderNext

\* A tender goes forward only, and the root a close pinned is the root for good.
THEOREM TendersMoveForward == TenderSpec => NoWayBack
<1>1. TenderInv /\ [TenderNext]_tenderVars =>
        [\A t \in Tenders :
           /\ Rank(state'[t]) >= Rank(state[t])
           /\ deadlineRootPinned[t] =>
                deadlineRevocationRoot'[t] = deadlineRevocationRoot[t]]_tenderVars
  BY StepMovesForward DEF MovesForward
<1> QED
  BY <1>1, TenderInvariant, PTL DEF TenderSpec, NoWayBack

-----------------------------------------------------------------------------
(* Activation and the list of issuers.                                     *)

\* A tender that a step activates meets the policy the step finds.
LEMMA StepActivatesWithinPolicy ==
    ASSUME TenderInv, [TenderNext]_tenderVars, NEW t \in Tenders,
           state[t] = "DRAFT", state'[t] = "ACTIVE"
    PROVE  /\ fields[t].reviewWindow >= minReviewWindow
           /\ versionRegistrySet => VersionRegistered(fields[t].verifierVersion)
<1>1. state \in [Tenders -> State]
  BY DEF TenderInv, TenderTypeOK, TenderOnlyTypeOK
<1>2. state' # state
  OBVIOUS
<1>3. \A u \in Tenders : ~CloseTender(u)
  BY <1>1 DEF CloseTender
<1>4. \A c \in Council \cup Authorities, u \in Tenders : ~CancelTender(c, u)
  BY <1>1 DEF CancelTender
<1>5. PICK c \in Council \cup Authorities, u \in Tenders : DraftStep(c, u)
  <2>1. ~UNCHANGED tenderVars
    BY <1>2 DEF tenderVars, tenderOnlyVars
  <2>2. ~Environment
    BY <1>2 DEF Environment, tenderOnlyVars
  <2>3. \A d \in Council \cup Authorities : ~PolicyStep(d)
    BY <1>2 DEF PolicyStep, SetMinReviewWindow, SetTenderAuthority, SetVerifierVersionRegistry
  <2> QED
    BY <1>3, <1>4, <2>1, <2>2, <2>3 DEF TenderNext
<1>6. PICK expected \in RuleDocuments : ActivateTender(c, u, expected)
  BY <1>1, <1>5
     DEF DraftStep, CreateTender, SetRuleDocument, SetRuleFields, SetCommitteeKey
<1>7. u = t
  BY <1>1, <1>6 DEF ActivateTender
<1> QED
  BY <1>6, <1>7 DEF ActivateTender, ReviewWindowGranted, Complete

\* Activation looks again at the floor and the version registry, whatever they were
\* when the fields were stored.
THEOREM ActivationWithinPolicy == TenderSpec => ActivationMeetsPolicy
<1>1. TenderInv /\ [TenderNext]_tenderVars =>
        [\A t \in Tenders : (state[t] = "DRAFT" /\ state'[t] = "ACTIVE") =>
           /\ fields[t].reviewWindow >= minReviewWindow
           /\ versionRegistrySet => VersionRegistered(fields[t].verifierVersion)]_tenderVars
  BY StepActivatesWithinPolicy
<1> QED
  BY <1>1, TenderInvariant, PTL DEF TenderSpec, ActivationMeetsPolicy

\* Without the finiteness of what is registered its cardinality says nothing.
IssuerListInv == IssuersFit /\ IsFiniteSet(Registered)

\* registerIssuer looks at the room left; nothing else lengthens the list.
LEMMA IssuerListStepFits ==
    ASSUME IssuerTypeOK, IssuerListInv, NEW c, IssuerListStep(c)
    PROVE  IssuerListInv'
<1>0. MaxIssuers \in Nat /\ Cardinality(Registered) \in Nat
  BY IssuerAssumption, FS_CardinalityType DEF IssuerListInv
<1>1. currentEpoch \in Nat /\ issuers \in [IssuerIds -> Issuers \cup {NoIssuer}]
  BY IssuerAssumption DEF IssuerTypeOK, Epochs
<1>2. ASSUME NEW i \in IssuerIds, RegisterIssuer(c, i) PROVE IssuerListInv'
  <2>1. issuers' = [issuers EXCEPT ![i] = [epoch |-> currentEpoch, active |-> TRUE]]
        /\ i \notin Registered /\ Cardinality(Registered) < MaxIssuers
        /\ currentEpoch' = currentEpoch
    BY <1>2 DEF RegisterIssuer, Registered, CapacityLeft, rootVars
  <2>2. Registered' \subseteq Registered \cup {i}
    BY <1>1, <2>1 DEF Registered
  <2>3. /\ IsFiniteSet(Registered \cup {i})
        /\ Cardinality(Registered \cup {i}) = Cardinality(Registered) + 1
    BY <2>1, FS_AddElement DEF IssuerListInv
  <2>4. IsFiniteSet(Registered') /\ Cardinality(Registered') <= Cardinality(Registered) + 1
    BY <2>2, <2>3, FS_Subset
  <2>5. Cardinality(Registered') \in Nat
    BY <2>4, FS_CardinalityType
  <2>6. \A j \in Registered' : issuers'[j].epoch <= currentEpoch'
    <3> SUFFICES ASSUME NEW j \in Registered' PROVE issuers'[j].epoch <= currentEpoch'
      OBVIOUS
    <3>1. CASE j = i
      BY <1>1, <2>1, <3>1
    <3>2. CASE j # i
      BY <1>1, <2>1, <2>2, <3>2 DEF IssuerListInv, IssuersFit, Registered
    <3> QED
      BY <3>1, <3>2
  <2> QED
    BY <1>0, <2>1, <2>4, <2>5, <2>6 DEF IssuerListInv, IssuersFit
<1>3. ASSUME NEW i \in IssuerIds, NEW active \in BOOLEAN, SetIssuerStatus(c, i, active)
      PROVE  IssuerListInv'
  <2>1. issuers' = [issuers EXCEPT ![i].active = active] /\ i \in Registered
        /\ currentEpoch' = currentEpoch
    BY <1>3 DEF SetIssuerStatus, Registered, rootVars
  <2>2. Registered' \subseteq Registered
    BY <1>1, <2>1 DEF Registered
  <2>3. IsFiniteSet(Registered') /\ Cardinality(Registered') <= Cardinality(Registered)
    BY <2>2, FS_Subset DEF IssuerListInv
  <2>4. Cardinality(Registered') \in Nat
    BY <2>3, FS_CardinalityType
  <2>5. \A j \in Registered' : issuers'[j].epoch <= currentEpoch'
    <3> SUFFICES ASSUME NEW j \in Registered' PROVE issuers'[j].epoch <= currentEpoch'
      OBVIOUS
    <3>1. issuers[j].epoch <= currentEpoch /\ issuers[j] \in Issuers /\ j \in IssuerIds
      BY <1>1, <2>2 DEF IssuerListInv, IssuersFit, Registered
    <3>2. issuers'[j].epoch = issuers[j].epoch
      BY <1>1, <2>1, <3>1 DEF Issuers
    <3> QED
      BY <2>1, <3>1, <3>2
  <2> QED
    BY <1>0, <2>3, <2>4, <2>5 DEF IssuerListInv, IssuersFit
<1> QED
  BY <1>2, <1>3 DEF IssuerListStep

\* The roots and the epoch move past the list: the epoch only grows.
LEMMA OtherStepsFit ==
    ASSUME TenderInv, IssuerListInv, UNCHANGED issuers,
           UNCHANGED currentEpoch \/ (\E e \in Epochs : EpochIncreases(e) /\ currentEpoch' = e)
    PROVE  IssuerListInv'
<1>1. currentEpoch \in Nat /\ currentEpoch' \in Nat /\ currentEpoch' >= currentEpoch
  BY IssuerAssumption DEF TenderInv, TenderTypeOK, IssuerTypeOK, Epochs, EpochIncreases
<1>2. Registered' = Registered
  BY DEF Registered
<1>3. \A j \in Registered : issuers[j].epoch \in Nat
  BY IssuerAssumption DEF Registered, TenderInv, TenderTypeOK, IssuerTypeOK, Issuers, Epochs
<1> QED
  BY <1>1, <1>2, <1>3 DEF IssuerListInv, IssuersFit

LEMMA NextKeepsIssuersFit ==
    TenderInv /\ IssuerListInv /\ [TenderNext]_tenderVars => IssuerListInv'
<1> SUFFICES ASSUME TenderInv, IssuerListInv, [TenderNext]_tenderVars PROVE IssuerListInv'
  OBVIOUS
<1>1. ASSUME NEW c \in Council \cup Authorities, IssuerListStep(c) PROVE IssuerListInv'
  BY <1>1, IssuerListStepFits DEF TenderInv, TenderTypeOK
<1>2. ASSUME NEW c \in Council \cup Authorities, IssuerRootStep(c) PROVE IssuerListInv'
  BY <1>2, OtherStepsFit
     DEF IssuerRootStep, PublishIssuerRegistryRoot, PublishRevocationRoot, RollEpoch, SetTenderModule,
         rootVars
<1>3. CASE ControlNext /\ UNCHANGED <<issuerVars, tenderOnlyVars>>
  BY <1>3, OtherStepsFit DEF issuerVars, rootVars
<1>4. CASE Environment
  BY <1>1, <1>2, <1>3, <1>4 DEF Environment, IssuerCouncilStep
<1>5. ASSUME NEW c \in Council \cup Authorities, PolicyStep(c) PROVE IssuerListInv'
  BY <1>5, OtherStepsFit
     DEF PolicyStep, SetMinReviewWindow, SetTenderAuthority, SetVerifierVersionRegistry,
         issuerVars, rootVars
<1>6. ASSUME NEW c \in Council \cup Authorities, NEW t \in Tenders, DraftStep(c, t)
      PROVE  IssuerListInv'
  BY <1>6, OtherStepsFit
     DEF DraftStep, CreateTender, SetRuleDocument, SetRuleFields, SetCommitteeKey, ActivateTender,
         issuerVars, rootVars
<1>7. ASSUME NEW c \in Council \cup Authorities, NEW t \in Tenders, CancelTender(c, t)
      PROVE  IssuerListInv'
  BY <1>7, OtherStepsFit DEF CancelTender, issuerVars, rootVars
<1>8. ASSUME NEW t \in Tenders, CloseTender(t) PROVE IssuerListInv'
  BY <1>8, OtherStepsFit DEF CloseTender, rootVars
<1>9. CASE UNCHANGED tenderVars
  BY <1>9, OtherStepsFit DEF tenderVars, issuerVars, rootVars
<1> QED
  BY <1>4, <1>5, <1>6, <1>7, <1>8, <1>9 DEF TenderNext

\* The list of issuers stays within the tree's leaves for every capacity, and no
\* issuer is dated after the epoch in force (registerIssuer, rollEpoch).
THEOREM IssuersAlwaysFit == TenderSpec => []IssuersFit
<1>1. TenderInit => IssuerListInv
  <2> SUFFICES ASSUME TenderInit PROVE IssuerListInv
    OBVIOUS
  <2>1. Registered = {}
    BY DEF TenderInit, IssuerInit, Registered
  <2>2. IsFiniteSet({}) /\ Cardinality({}) = 0
    BY FS_EmptySet
  <2> QED
    BY <2>1, <2>2, IssuerAssumption DEF IssuerListInv, IssuersFit
<1>2. TenderInv /\ IssuerListInv /\ [TenderNext]_tenderVars => IssuerListInv'
  BY NextKeepsIssuersFit
<1>3. IssuerListInv => IssuersFit
  BY DEF IssuerListInv
<1> QED
  BY <1>1, <1>2, <1>3, TenderInvariant, PTL DEF TenderSpec

=============================================================================
