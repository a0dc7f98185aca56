------------------------------ MODULE Sessions ------------------------------
(***************************************************************************)
(* What the account pool promises whoever asks it for an account: the      *)
(* session of an account is opened by one process at a time, and only a    *)
(* closed one; a worker is given an open session, or the one it has just   *)
(* opened; only those who have an account close its session, or the end of *)
(* everything.  Everybody may be sent away at once, sessions left open.    *)
(***************************************************************************)
CONSTANTS Account, Worker, Boot, Nobody, NoAccount

VARIABLES
    open,     \* the accounts whose session passes for open
    opener,   \* the process that opens one, or Nobody
    opening,  \* the account it opens, or NoAccount
    stage,    \* of the opening: "none", "opening", "opened", "failed"
    using     \* the account each worker has been given, or NoAccount

attempt == <<opener, opening, stage>>
vars == <<open, attempt, using>>

Init ==
    /\ open = [a \in Account |-> FALSE]
    /\ opener = Nobody /\ opening = NoAccount /\ stage = "none"
    /\ using = [w \in Worker |-> NoAccount]

Begin(p, a) ==
    /\ opener = Nobody /\ ~open[a]
    /\ p \in Worker => using[p] = NoAccount
    /\ opener' = p /\ opening' = a /\ stage' = "opening"
    /\ UNCHANGED <<open, using>>

Opened ==
    /\ stage = "opening" /\ ~open[opening]
    /\ open' = [open EXCEPT ![opening] = TRUE]
    /\ stage' = "opened"
    /\ UNCHANGED <<opener, opening, using>>

\* the call, or what had to follow it, failed; the session may be open
GiveUp ==
    /\ stage \in {"opening", "opened"}
    /\ stage' = "failed"
    /\ UNCHANGED <<open, opener, opening, using>>

End == opener' = Nobody /\ opening' = NoAccount /\ stage' = "none"

\* a worker keeps what it has opened; loading the pool does not
Keep ==
    /\ stage = "opened" /\ End
    /\ using' = [w \in Worker |-> IF w = opener THEN opening ELSE using[w]]
    /\ UNCHANGED open

Fail == stage = "failed" /\ End /\ UNCHANGED <<open, using>>

Take(w, a) ==
    /\ open[a] /\ using[w] = NoAccount
    /\ using' = [using EXCEPT ![w] = a]
    /\ UNCHANGED <<open, attempt>>

Leave(w) ==
    /\ using[w] # NoAccount
    /\ using' = [using EXCEPT ![w] = NoAccount]
    /\ UNCHANGED <<open, attempt>>

\* for everybody else who has it, and even for one who is opening it again
Close(w) ==
    /\ using[w] # NoAccount
    /\ open' = [open EXCEPT ![using[w]] = FALSE]
    /\ using' = [using EXCEPT ![w] = NoAccount]
    /\ UNCHANGED attempt

Dismiss ==
    /\ using' = [w \in Worker |-> NoAccount]
    /\ End
    /\ UNCHANGED open

Down ==
    /\ open' = [a \in Account |-> FALSE]
    /\ using' = [w \in Worker |-> NoAccount]
    /\ End

Next ==
    \/ \E p \in Worker \union {Boot}, a \in Account : Begin(p, a)
    \/ Opened \/ GiveUp \/ Keep \/ Fail \/ Dismiss \/ Down
    \/ \E w \in Worker, a \in Account : Take(w, a)
    \/ \E w \in Worker : Leave(w) \/ Close(w)

Spec == Init /\ [][Next]_vars
=============================================================================
