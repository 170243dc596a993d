--------------------------- MODULE MCTabLifecycle ---------------------------
(* Values for model-checking TabLifecycle.                                 *)
EXTENDS TabLifecycle

CONSTANTS t1, t2

OneTarget == {t1}
TwoTargets == {t1, t2}
=============================================================================
