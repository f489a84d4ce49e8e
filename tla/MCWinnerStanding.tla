-------------------------- MODULE MCWinnerStanding --------------------------
(* The instance of MCFairProof, with the history variable.                   *)
EXTENDS MCFairProof, WinnerStanding

JustRoots == {Roots}

=============================================================================
