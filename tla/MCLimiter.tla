----------------------------- MODULE MCLimiter -----------------------------
(* Values for model-checking Limiter.                                      *)
EXTENDS Limiter

CONSTANTS r1, r2, r3

ThreeRequests == {r1, r2, r3}

OneOrTwo == {1, 2}
NoneOrTwo == {0, 2}
=============================================================================
