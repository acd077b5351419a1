--------------------------- MODULE MCDistribution ---------------------------
(* Model checking instance of Distribution.                                *)
EXTENDS Distribution

CONSTANTS g1, g2, p, v
=============================================================================
