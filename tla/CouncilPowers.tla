--------------------------- MODULE CouncilPowers ---------------------------
(***************************************************************************)
(* The council's two faces together: Governance.sol, where three of four   *)
(* members decide, and the onlyCouncil functions of TenderRegistry.sol and *)
(* IssuerRegistry.sol, which any one member calls.  The contracts share    *)
(* the block time, the pause switch and the verifier versions.             *)
(***************************************************************************)
EXTENDS Governance, TenderRegistry

powerVars == <<controlVars, govOnlyVars, issuerVars, tenderOnlyVars>>

PowersInit == GovInit /\ IssuerInit /\ TenderOnlyInit

CouncilMemberActs(c) ==
    \/ IssuerCouncilStep(c) /\ UNCHANGED <<controlVars, tenderOnlyVars>>
    \/ PolicyStep(c)
    \/ \E t \in Tenders : CancelTender(c, t)

PowersNext ==
    \/ GovNext /\ UNCHANGED <<issuerVars, tenderOnlyVars>>
    \/ \E c \in Council : CouncilMemberActs(c) /\ UNCHANGED govOnlyVars
    \/ \E t \in Tenders :
         /\ CloseTender(t) \/ \E c \in Authorities : DraftStep(c, t)
         /\ UNCHANGED govOnlyVars

PowersSpec == PowersInit /\ [][PowersNext]_powerVars

\* "Cancel a tender with a recorded reason. Council, 3-of-4 gated."
\* (TenderRegistry.sol, cancelTender): a tender is cancelled only after the
\* council executed a proposal to cancel.
CancellationTakesThree ==
    \A t \in Tenders : state[t] = "CANCELLED" => Ran("CancelTender") # {}

=============================================================================
