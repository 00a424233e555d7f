------------------------- MODULE MCReliabilityGuard -------------------------
EXTENDS ReliabilityGuard

ThreeCalls == {"c1", "c2", "c3"}
=============================================================================
