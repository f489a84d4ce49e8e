-------------------------- MODULE MCCouncilPowers --------------------------
(* Instance of CouncilPowers for TLC: one tender, the council of four.        *)
EXTENDS CouncilPowers

CONSTANTS regulator, entity, auditor, chamber, impl1, t1, doc1, root1, a1

MCCouncil == {regulator, entity, auditor, chamber}
MCActions == {"CancelTender"}
NoFieldChoices == {}
NoCommitteeChoices == {}

=============================================================================
