--------------------------- MODULE MCMockMatching ---------------------------
(* A small instance of the mock workflow for TLC.                             *)
EXTENDS MatchingProperties

CONSTANTS p1, p2, r1, r2
=============================================================================
