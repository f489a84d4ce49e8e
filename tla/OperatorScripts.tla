-------------------------- MODULE OperatorScripts --------------------------
(***************************************************************************)
(* The two families of operator scripts in one checkout.  They share no    *)
(* file, so a behaviour runs one family or the other: the ceremony when    *)
(* its session has no terminal for tenders.                                *)
(***************************************************************************)
EXTENDS SetupCeremony, TenderScripts

operatorVars == <<ceremonyVars, scriptVars>>

OperatorInit == CeremonyInit /\ ScriptsInit

OperatorNext ==
    \/ terminals = {} /\ CeremonyNext /\ UNCHANGED scriptVars
    \/ ScriptsNext /\ UNCHANGED ceremonyVars

OperatorSpec == OperatorInit /\ [][OperatorNext]_operatorVars

=============================================================================
