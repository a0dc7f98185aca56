--------------------------- MODULE MCAccountPool ---------------------------
EXTENDS AccountPool

CONSTANTS a1, a2, w1, w2

=============================================================================
