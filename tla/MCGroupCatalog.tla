--------------------------- MODULE MCGroupCatalog ---------------------------
(* Constants for TLC: the seed a and the chat b mention each other.        *)
EXTENDS GroupCatalog, TLC

CONSTANTS a, b, w1, w2

MCMentions == (a :> {b}) @@ (b :> {a})
MCNoMentions == [c \in Chat |-> {}]
MCSymmetry == Permutations({w1, w2})
=============================================================================
