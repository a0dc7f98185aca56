----------------------------- MODULE MCProcess -----------------------------
EXTENDS Process

CONSTANTS m, s, g1, g2, w1

=============================================================================
