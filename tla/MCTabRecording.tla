--------------------------- MODULE MCTabRecording ---------------------------
(* Values for model-checking TabRecording.                                 *)
EXTENDS TabRecording

CONSTANTS p1, p2, i1, s1, s2, s3, s4

MCPages == {p1, p2}
MCIframes == {i1}
MCSessions == {s1, s2, s3, s4}
=============================================================================
