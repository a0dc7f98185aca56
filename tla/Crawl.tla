-------------------------------- MODULE Crawl --------------------------------
(***************************************************************************)
(* What scanning and discovery are together: the exploration of a graph.   *)
(* A chat is listed because someone named it or because a chat that was    *)
(* read mentions it; reading one leaves none of its mentions behind; each  *)
(* mention is tried once; a chat counts as done when all its mentions are  *)
(* there, and only then.                                                   *)
(***************************************************************************)
CONSTANTS Chat, Seed, Mentions

VARIABLES
    listed,     \* the chats the catalogue has
    mentioned,  \* the chats that were mentioned by those that were read
    due,        \* of those, the ones nobody has tried to resolve
    done        \* the listed chats that count as read

vars == <<listed, mentioned, due, done>>

Init == listed = {} /\ mentioned = {} /\ due = {} /\ done = {}

Name(c) ==
    /\ listed' = listed \union {c}
    /\ UNCHANGED <<mentioned, due, done>>

Read(c) ==
    /\ c \in listed
    /\ mentioned' = mentioned \union Mentions[c]
    /\ due' = due \union (Mentions[c] \ mentioned)
    /\ UNCHANGED <<listed, done>>

Count(c) ==
    /\ c \in listed /\ Mentions[c] \subseteq mentioned
    /\ done' = done \union {c}
    /\ UNCHANGED <<listed, mentioned, due>>

\* it is scanned again, or turns out to be private
Discount(c) ==
    /\ c \in done
    /\ done' = done \ {c}
    /\ UNCHANGED <<listed, mentioned, due>>

\* some of those that are due, with or without success
Try ==
    /\ due' \in SUBSET due
    /\ UNCHANGED <<listed, mentioned, done>>

Resolve(c) ==
    /\ c \in mentioned \ due
    /\ listed' = listed \union {c}
    /\ UNCHANGED <<mentioned, due, done>>

Next ==
    \/ Try
    \/ \E c \in Seed : Name(c)
    \/ \E c \in Chat : Read(c) \/ Count(c) \/ Discount(c) \/ Resolve(c)

Spec == Init /\ [][Next]_vars
=============================================================================
