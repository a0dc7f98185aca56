--------------------------- MODULE TaskLifecycle ---------------------------
(***************************************************************************)
(* What the task table promises whoever inserts a row: it waits, is taken, *)
(* is given back or closed, is retried at most MaxRetry times after an     *)
(* unexplained failure, and once closed stays as it is.                    *)
(***************************************************************************)
EXTENDS Integers

CONSTANTS Task, MaxRetry

VARIABLES status, attempts

Init ==
    /\ status = [t \in Task |-> "absent"]
    /\ attempts = [t \in Task |-> 0]

Move(T, from, to) ==
    /\ \A t \in T : status[t] = from
    /\ status' = [t \in Task |-> IF t \in T THEN to ELSE status[t]]

Submit(t) == Move({t}, "absent", "pending") /\ UNCHANGED attempts

\* any number of rows is taken, or given back, at once
Take(T) == Move(T, "pending", "running") /\ UNCHANGED attempts

GiveBack(T) == Move(T, "running", "pending") /\ UNCHANGED attempts

\* one by one, or several at once when those who closed them are gone
Close(T) ==
    /\ \A t \in T : status[t] = "running"
    /\ \E as \in [T -> {"done", "error"}] :
        status' = [t \in Task |-> IF t \in T THEN as[t] ELSE status[t]]
    /\ UNCHANGED attempts

Retry(t) ==
    /\ attempts[t] < MaxRetry
    /\ Move({t}, "running", "pending")
    /\ attempts' = [attempts EXCEPT ![t] = @ + 1]

Next ==
    \/ \E t \in Task : Submit(t) \/ Retry(t)
    \/ \E T \in SUBSET Task : Take(T) \/ GiveBack(T) \/ Close(T)

Spec == Init /\ [][Next]_<<status, attempts>>
=============================================================================
