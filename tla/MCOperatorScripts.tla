------------------------- MODULE MCOperatorScripts -------------------------
(* Instance of OperatorScripts for TLC.                                       *)
EXTENDS OperatorScripts

Terminal(script, ref) == [script |-> script, ref |-> ref]

MCSessions ==
    {{},
     {Terminal("publish", "A"), Terminal("complete", "A")},
     {Terminal("publish", "A"), Terminal("publish", "B")},
     {Terminal("publish", "A"), Terminal("seed", "B")},
     {Terminal("deal", "A"), Terminal("deal", "B")}}

MCFirmAmounts == <<2, 1>>

=============================================================================
