------------------------- MODULE MCSessionLifecycle -------------------------
(* Values for model-checking SessionLifecycle.                             *)
EXTENDS SessionLifecycle, TLC

CONSTANTS r1, r2, r3, k1

TwoRequests == {r1, r2}
OneManual == {r2}
OneKiller == {k1}
NoSet == {}
=============================================================================
