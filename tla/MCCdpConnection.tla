-------------------------- MODULE MCCdpConnection --------------------------
(* Values for model-checking CdpConnection.                                *)
EXTENDS CdpConnection

CONSTANTS c1, c2, c3

ThreeCommands == {c1, c2, c3}
\* An id that the connection gives out too.
Foreign == {3}
=============================================================================
