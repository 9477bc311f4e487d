--------------------------- MODULE MCLabOrchestrator ---------------------------
(* Four fit artifacts, three of one context of which one has a malformed    *)
(* run_id, and one that is not fit.                                          *)
EXTENDS LabOrchestrator

CONSTANTS d1, d2, d3, d4, bad

MCContextOf == [d \in Digests |-> IF d = d3 THEN "drifted" ELSE "planned"]

=============================================================================
