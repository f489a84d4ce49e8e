----------------------------- MODULE MCEvidence -----------------------------
(* Instances of Evidence and IndependentVerifier for TLC, on top of the        *)
(* scenarios of MCFairProof.                                                   *)
EXTENDS MCFairProof, IndependentVerifier

MCRulesOf == [d \in RuleDocuments |-> MCFields(1)]

\* Replicas dismissed after they signed.
Dismissed == [Quiet EXCEPT !.bidders = {c1}, !.bodies = {Body(c1, 1, TRUE)},
                           !.council = {"replicas"}]
\* Roots republished to the end.
Republished == [Quiet EXCEPT !.bidders = {c1}, !.bodies = {Body(c1, 1, TRUE)},
                             !.council = {"roots"}]

PipelineScenarios == MCScenarios \cup {Dismissed}
JustRepublished == {Republished}

=============================================================================
