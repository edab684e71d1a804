--------------------------- MODULE MCTriggerWork ---------------------------
EXTENDS TriggerWork, TLC

CONSTANTS d1, d2, s1, s2, e1, e2

MCTwoEngines == (s1 :> e1) @@ (s2 :> e2)
MCOneEngine == s1 :> e1
=============================================================================
