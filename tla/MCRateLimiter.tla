--------------------------- MODULE MCRateLimiter ---------------------------
EXTENDS RateLimiter

CONSTANTS w1, w2

=============================================================================
