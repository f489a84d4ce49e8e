---------------------------- MODULE MCGovernance ----------------------------
(* Instance of Governance for TLC: the council of four, one outsider.        *)
EXTENDS Governance

CONSTANTS regulator, entity, auditor, chamber, outsider, v1impl, v2impl, junk, noImpl

MCCouncil == {regulator, entity, auditor, chamber}
MCOutsiders == {outsider}
MCImpls == {v1impl, v2impl, junk}
MCSoundImpls == {v1impl, v2impl}
MCVersions == {1}
MCActions == {"ActivateVerifierVersion", "EmergencyPause", "Unpause"}

=============================================================================
