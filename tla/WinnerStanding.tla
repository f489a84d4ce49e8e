--------------------------- MODULE WinnerStanding ---------------------------
(***************************************************************************)
(* FairProof with a history variable: which credentials the tender's own   *)
(* epoch held revoked at the moment the tender was closed.  The bidders of *)
(* a tender are credentials of its issuerEpoch (clause 6 of the circuit);  *)
(* closeTender pins the root of the registry's currentEpoch.               *)
(***************************************************************************)
EXTENDS FairProof

VARIABLE revokedAtClose   \* by tender, NoRoot before its close

standingVars == <<vars, revokedAtClose>>

StandingInit == Init /\ revokedAtClose = [t \in Tenders |-> NoRoot]

Closes(t) == ~deadlineRootPinned[t] /\ deadlineRootPinned'[t]

StandingNext ==
    /\ Next
    /\ revokedAtClose' = [t \in Tenders |->
         IF Closes(t) THEN revocationRoot[fields[t].issuerEpoch] ELSE revokedAtClose[t]]

StandingSpec == StandingInit /\ [][StandingNext]_standingVars

\* "The winner must be provably unrevoked AT THE DEADLINE, against the root pinned
\* when the tender closed" (AwardManager.sol, recordAward): the awarded bidder was
\* not among the revoked of its own epoch when the tender closed.
WinnerUnrevokedAtClose ==
    \A t \in Tenders :
        (award[t] # NoAward /\ revokedAtClose[t] # NoRoot) =>
            Bidder(t, award[t].index) \notin revokedAtClose[t]

=============================================================================
