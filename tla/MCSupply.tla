------------------------------ MODULE MCSupply ------------------------------
EXTENDS Supply, TLC

CONSTANTS a1, a2, x, o, app, check

Symmetric == Permutations({a1, a2}) \union Permutations({app, check})

=============================================================================
