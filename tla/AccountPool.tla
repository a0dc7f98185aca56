---------------------------- MODULE AccountPool ----------------------------
(***************************************************************************)
(* The pool of accounts: loading it at start, connecting an account on     *)
(* demand behind the connect lock, bans and dead accounts, the expiry of   *)
(* bans, and the account_states rows that outlive the process.             *)
(*                                                                         *)
(* A ban is kept twice, in the limiter's memory and in the row, and each   *)
(* copy is written by whoever passes: the worker that was banned, the      *)
(* recovery loop, a connect that ends.  Between any two of an operation's  *)
(* awaits the other coroutines run.                                        *)
(*                                                                         *)
(* A ban's end is kept as the ticks left to it.  A definition named        *)
(* Slip... is a mistake the code could have made at the definition that    *)
(* follows it, kept to show that a property would notice.                  *)
(***************************************************************************)
EXTENDS Integers, FiniteSets

CONSTANTS
    Account,        \* telegram_accounts rows
    Worker,         \* coroutines that call get_available
    Boot,           \* load_all, which connects the first accounts
    Nobody,         \* holds the lock when it is free
    NoAccount,      \* what a process is busy with when it is not
    MaxConcurrent,  \* runner.max_concurrent_accounts
    BanLen          \* length of a ban

ASSUME NameAssumption ==
    Boot \notin Worker /\ Nobody \notin Worker \union {Boot} /\ NoAccount \notin Account
ASSUME NumberAssumption == MaxConcurrent \in Nat /\ BanLen \in Nat \ {0}

VARIABLES
    phase,      \* "down", "loading" (load_all), "up", "ended": the runner has
                \* ended, and the process, its bot and its monitor live on
    pool,       \* AccountManager._accounts
    client,     \* the Telegram client of each account: "off" or "on"
    connected,  \* Account.connected
    memBan,     \* ticks to rt.banned_until; 0: no ban
    status,     \* account_states.status
    until,      \* ticks to account_states.ban_until; None: NULL; 0: passed
    enabled,    \* telegram_accounts.enabled
    lock,       \* holder of _connect_lock
    pc,         \* where each process is
    acc,        \* the account it is busy with
    todo,       \* accounts it has not yet tried
    recovery,   \* where check_recoveries is: "sleep", "update", "clear"
    due         \* the accounts it found

memory == <<pool, client, connected, memBan>>
states == <<status, until, enabled>>
procs == <<pc, acc, todo>>
recoveries == <<recovery, due>>
vars == <<phase, memory, states, lock, procs, recoveries>>

Proc == Worker \union {Boot}
None == -1
Connecting == {"starting", "me", "saveIdle", "saveFail"}

TypeOK ==
    /\ phase \in {"down", "loading", "up", "ended"}
    /\ pool \subseteq Account
    /\ client \in [Account -> {"off", "on"}]
    /\ connected \in [Account -> BOOLEAN]
    /\ memBan \in [Account -> 0 .. BanLen]
    /\ status \in [Account -> {"idle", "banned", "disconnected", "dead"}]
    /\ until \in [Account -> None .. BanLen]
    /\ enabled \in [Account -> BOOLEAN]
    /\ lock \in Proc \union {Nobody}
    /\ pc \in [Proc -> {"idle", "choose", "lock", "use", "banned", "dead", "stop", "stopped",
                             "cut"} \union Connecting]
    /\ acc \in [Proc -> Account \union {NoAccount}]
    /\ \A p \in Proc : acc[p] = NoAccount <=> pc[p] \in {"idle", "choose"}
    /\ todo \in [Proc -> SUBSET Account]
    /\ recovery \in {"sleep", "update", "clear"}
    /\ due \subseteq Account

Forgotten ==
    /\ client' = [a \in Account |-> "off"]
    /\ connected' = [a \in Account |-> FALSE]
    /\ lock' = Nobody
    /\ pc' = [p \in Proc |-> "idle"]
    /\ acc' = [p \in Proc |-> NoAccount]
    /\ recovery' = "sleep" /\ due' = {}

Init ==
    /\ phase = "down" /\ pool = {}
    /\ client = [a \in Account |-> "off"]
    /\ connected = [a \in Account |-> FALSE]
    /\ memBan = [a \in Account |-> 0]
    /\ status = [a \in Account |-> "idle"]
    /\ until = [a \in Account |-> None]
    /\ enabled = [a \in Account |-> TRUE]
    /\ lock = Nobody
    /\ pc = [p \in Proc |-> "idle"]
    /\ acc = [p \in Proc |-> NoAccount]
    /\ todo = [p \in Proc |-> {}]
    /\ recovery = "sleep" /\ due = {}

\* process p goes to where, busy with account a
Goes(p, where, a) ==
    /\ pc' = [pc EXCEPT ![p] = where]
    /\ acc' = [acc EXCEPT ![p] = a]

Stays(p, where) == Goes(p, where, acc[p])

SlipStillBusy(p) == Stays(p, "idle")

Ends(p) == Goes(p, "idle", NoAccount)

-----------------------------------------------------------------------------
(* load_all. *)

\* what expire_bans selects
Expired == {a \in Account : status[a] = "banned" /\ until[a] = 0}

\* and writes, to rows that may have changed since
Expire(S) ==
    /\ status' = [a \in Account |-> IF a \in S THEN "idle" ELSE status[a]]
    /\ until' = [a \in Account |-> IF a \in S THEN None ELSE until[a]]
    /\ UNCHANGED enabled

\* the enabled accounts get a runtime with the ban of their row
Load ==
    /\ phase = "down"
    /\ phase' = "loading"
    /\ Expire(Expired)
    /\ pool' = {a \in Account : enabled[a]}
    /\ memBan' = [a \in Account |-> IF enabled[a] /\ until[a] > 0 THEN until[a] ELSE 0]
    /\ \E first \in SUBSET {a \in Account : enabled[a]} :
        /\ Cardinality(first) <= MaxConcurrent
        /\ Cardinality(first) < MaxConcurrent => first = pool'
        /\ todo' = [todo EXCEPT ![Boot] = first]
    /\ UNCHANGED <<client, connected, lock, pc, acc, recoveries>>

LoadNext ==
    /\ phase = "loading" /\ pc[Boot] = "idle"
    /\ \E a \in todo[Boot] :
        /\ Goes(Boot, "lock", a)
        /\ todo' = [todo EXCEPT ![Boot] = @ \ {a}]
    /\ UNCHANGED <<phase, memory, states, lock, recoveries>>

Loaded ==
    /\ phase = "loading" /\ pc[Boot] = "idle" /\ todo[Boot] = {}
    /\ phase' = "up"
    /\ UNCHANGED <<memory, states, lock, procs, recoveries>>

-----------------------------------------------------------------------------
(* get_available.  An account may be passed over, for rest, night or caps; *)
(* what it answers is not looked at again after a connect.                 *)

\* the next of S that can continue, or none
Choose(p, S) ==
    \/ \E a \in S : \E rest \in SUBSET (S \ {a}) :
        /\ memBan[a] = 0
        /\ Goes(p, IF connected[a] THEN "use" ELSE "lock", a)
        /\ todo' = [todo EXCEPT ![p] = rest]
    \/ /\ Ends(p)
       /\ todo' = [todo EXCEPT ![p] = {}]

GetAvailable(w) ==
    /\ phase = "up" /\ pc[w] = "idle"
    /\ Choose(w, {a \in pool : memBan[a] = 0})
    /\ UNCHANGED <<phase, memory, states, lock, recoveries>>

\* the connect failed: the rest of the candidates, as they were
TryNext(w) ==
    /\ pc[w] = "choose"
    /\ Choose(w, todo[w])
    /\ UNCHANGED <<phase, memory, states, lock, recoveries>>

-----------------------------------------------------------------------------
(* _connect_one. *)

\* it has returned True
Obtained(p) == IF p = Boot THEN Ends(p) ELSE Stays(p, "use")
\* it has returned False
NotObtained(p) == Goes(p, IF p = Boot THEN "idle" ELSE "choose", NoAccount)

SlipNoSecondLook(p) ==
    /\ pc[p] = "lock" /\ lock = Nobody
    /\ Stays(p, "starting") /\ lock' = p
    /\ UNCHANGED <<phase, memory, states, todo, recoveries>>

\* somebody else may have connected the account meanwhile
Lock(p) ==
    /\ pc[p] = "lock" /\ lock = Nobody
    /\ \/ connected[acc[p]] /\ Obtained(p) /\ UNCHANGED lock
       \/ ~connected[acc[p]] /\ Stays(p, "starting") /\ lock' = p
    /\ UNCHANGED <<phase, memory, states, todo, recoveries>>

\* client.start() raises when the client runs already
Start(p) ==
    /\ pc[p] = "starting"
    /\ \/ /\ client[acc[p]] = "off"
          /\ client' = [client EXCEPT ![acc[p]] = "on"]
          /\ Stays(p, "me")
       \/ UNCHANGED client /\ Stays(p, "saveFail")
    /\ UNCHANGED <<phase, pool, connected, memBan, states, lock, todo, recoveries>>

\* client.get_me() raises when the client was stopped; when it raises for
\* any other reason the client runs on
GetMe(p) ==
    /\ pc[p] = "me"
    /\ \/ /\ client[acc[p]] = "on"
          /\ connected' = [connected EXCEPT ![acc[p]] = TRUE]
          /\ Stays(p, "saveIdle")
       \/ UNCHANGED connected /\ Stays(p, "saveFail")
    /\ UNCHANGED <<phase, pool, client, memBan, states, lock, todo, recoveries>>

\* over whatever the row says by now
SaveIdle(p) ==
    /\ pc[p] = "saveIdle"
    /\ \/ /\ status' = [status EXCEPT ![acc[p]] = "idle"]
          /\ Obtained(p) /\ lock' = Nobody
       \/ UNCHANGED <<status, lock>> /\ Stays(p, "saveFail")
    /\ UNCHANGED <<phase, memory, until, enabled, todo, recoveries>>

SlipKeepLock(p) ==
    /\ pc[p] = "saveFail"
    /\ status' = [status EXCEPT ![acc[p]] = "disconnected"]
    /\ NotObtained(p)
    /\ UNCHANGED <<phase, memory, until, enabled, lock, todo, recoveries>>

\* a write that raises ends get_available, and a load_all (see Crash)
SaveFail(p) ==
    /\ pc[p] = "saveFail"
    /\ \/ status' = [status EXCEPT ![acc[p]] = "disconnected"] /\ NotObtained(p)
       \/ p # Boot /\ Ends(p) /\ UNCHANGED status
    /\ lock' = Nobody
    /\ UNCHANGED <<phase, memory, until, enabled, todo, recoveries>>

-----------------------------------------------------------------------------
(* Using an account: done with it, banned from it, or told it is dead.     *)

Done(w) ==
    /\ pc[w] = "use"
    /\ Ends(w)
    /\ UNCHANGED <<phase, memory, states, lock, todo, recoveries>>

\* mark_banned: the limiter, then the row
MarkBanned(w) ==
    /\ pc[w] = "use"
    /\ memBan' = [memBan EXCEPT ![acc[w]] = BanLen]
    /\ Stays(w, "banned")
    /\ UNCHANGED <<phase, pool, client, connected, states, lock, todo, recoveries>>

SaveBanned(w) ==
    /\ pc[w] = "banned"
    /\ \/ /\ status' = [status EXCEPT ![acc[w]] = "banned"]
          /\ until' = [until EXCEPT ![acc[w]] = BanLen]
       \/ UNCHANGED <<status, until>>
    /\ Ends(w)
    /\ UNCHANGED <<phase, memory, enabled, lock, todo, recoveries>>

\* mark_dead: the row first; the client is stopped if it is connected then
MarkDead(w) ==
    /\ pc[w] = "use"
    /\ Stays(w, "dead")
    /\ UNCHANGED <<phase, memory, states, lock, todo, recoveries>>

SaveDead(w) ==
    /\ pc[w] = "dead"
    /\ \/ /\ status' = [status EXCEPT ![acc[w]] = "dead"]
          /\ enabled' = [enabled EXCEPT ![acc[w]] = FALSE]
          /\ IF connected[acc[w]] THEN Stays(w, "stop") ELSE Ends(w)
       \/ UNCHANGED <<status, enabled>> /\ Ends(w)
    /\ UNCHANGED <<phase, memory, until, lock, todo, recoveries>>

\* client.stop(); an error it raises is ignored
Stop(w) ==
    /\ pc[w] = "stop"
    /\ client' \in {client, [client EXCEPT ![acc[w]] = "off"]}
    /\ Stays(w, "stopped")
    /\ UNCHANGED <<phase, pool, connected, memBan, states, lock, todo, recoveries>>

SlipStillConnected(w) ==
    /\ pc[w] = "stopped"
    /\ Ends(w)
    /\ UNCHANGED <<phase, memory, states, lock, todo, recoveries>>

Stopped(w) ==
    /\ pc[w] = "stopped"
    /\ connected' = [connected EXCEPT ![acc[w]] = FALSE]
    /\ Ends(w)
    /\ UNCHANGED <<phase, pool, client, memBan, states, lock, todo, recoveries>>

-----------------------------------------------------------------------------
(* check_recoveries: one transaction of two statements, then the memory of *)
(* the accounts it returned.                                               *)

SlipSelectInForce ==
    /\ phase = "up" /\ recovery = "sleep"
    /\ due' = {a \in Account : status[a] = "banned" /\ until[a] > 0}
    /\ due' # {} /\ recovery' = "update"
    /\ UNCHANGED <<phase, memory, states, lock, procs>>

SelectExpired ==
    /\ phase = "up" /\ recovery = "sleep"
    /\ due' = Expired
    /\ due' # {} /\ recovery' = "update"
    /\ UNCHANGED <<phase, memory, states, lock, procs>>

UpdateExpired ==
    /\ recovery = "update"
    /\ \/ Expire(due) /\ recovery' = "clear" /\ UNCHANGED due
       \/ UNCHANGED states /\ recovery' = "sleep" /\ due' = {}
    /\ UNCHANGED <<phase, memory, lock, procs>>

ClearExpired ==
    /\ recovery = "clear"
    /\ memBan' = [a \in Account |-> IF a \in due \intersect pool THEN 0 ELSE memBan[a]]
    /\ recovery' = "sleep" /\ due' = {}
    /\ UNCHANGED <<phase, pool, client, connected, states, lock, procs>>

-----------------------------------------------------------------------------
(* Time, the end of the runner and of the process, an administrator. *)

Tick ==
    /\ \E a \in Account : memBan[a] > 0 \/ until[a] > 0
    /\ memBan' = [a \in Account |-> IF memBan[a] > 0 THEN memBan[a] - 1 ELSE 0]
    /\ until' = [a \in Account |-> IF until[a] > 0 THEN until[a] - 1 ELSE until[a]]
    /\ UNCHANGED <<phase, pool, client, connected, status, enabled, lock, procs, recoveries>>

\* /shutdown: start() ends and cancels every loop in the await it is at.
\* What that await was about has happened, a step earlier, or has not.  No
\* handler of Exception sees a cancellation: a connect gives the lock back
\* and saves nothing, and mark_dead leaves the flag as it is.  A worker cut
\* off there keeps the account in acc, for the properties to name it.
Shutdown ==
    /\ phase = "up"
    /\ phase' = "ended"
    /\ LET stopping == {p \in Proc : pc[p] \in {"stop", "stopped"}} IN
        /\ pc' = [p \in Proc |-> IF p \in stopping THEN "cut" ELSE "idle"]
        /\ acc' = [p \in Proc |-> IF p \in stopping THEN acc[p] ELSE NoAccount]
    /\ todo' = [p \in Proc |-> {}]
    /\ lock' = Nobody
    /\ recovery' = "sleep" /\ due' = {}
    /\ UNCHANGED <<memory, states>>

Crash ==
    /\ phase # "down"
    /\ phase' = "down" /\ pool' = {}
    /\ memBan' = [a \in Account |-> 0]
    /\ todo' = [p \in Proc |-> {}]
    /\ Forgotten
    /\ UNCHANGED states

\* account-enable and account-disable
SetEnabled(a, on) ==
    /\ enabled' = [enabled EXCEPT ![a] = on]
    /\ UNCHANGED <<phase, memory, status, until, lock, procs, recoveries>>

ConnectStep(p) == Lock(p) \/ Start(p) \/ GetMe(p) \/ SaveIdle(p) \/ SaveFail(p)

WorkerStep(w) ==
    \/ GetAvailable(w) \/ TryNext(w)
    \/ Done(w) \/ MarkBanned(w) \/ SaveBanned(w)
    \/ MarkDead(w) \/ SaveDead(w) \/ Stop(w) \/ Stopped(w)

RecoveryStep == SelectExpired \/ UpdateExpired \/ ClearExpired

Next ==
    \/ Load \/ LoadNext \/ Loaded
    \/ \E p \in Proc : ConnectStep(p)
    \/ \E w \in Worker : WorkerStep(w)
    \/ RecoveryStep
    \/ Tick \/ Shutdown \/ Crash
    \/ \E a \in Account, on \in BOOLEAN : SetEnabled(a, on)

Spec == Init /\ [][Next]_vars

-----------------------------------------------------------------------------
(* Safety. *)

\* Two workers that want the same account, or load_all and nobody yet, do
\* not start its client twice over: whoever starts one has seen, holding
\* the lock, that it is not connected (account_manager.py:106-112).
NoDoubleConnect ==
    /\ \A p, q \in Proc : pc[p] \in Connecting /\ pc[q] \in Connecting => p = q
    /\ \A p \in Proc : pc[p] \in {"starting", "me"} => ~connected[acc[p]]

\* mark_dead has stopped a's client in w, and the flag still says connected
LeftStopped(w, a) ==
    /\ acc[w] = a
    /\ \/ pc[w] = "stopped"
       \/ pc[w] = "cut" /\ phase = "ended"

\* An account that passes for connected has a running client, but for the
\* moment in which a worker that found it dead has stopped the client and
\* not yet said so; a /shutdown that falls into that call, and nothing else,
\* makes the moment last, and the monitor, which lives on, then sees a flag
\* that is stale for good.  While workers run, every get_available would use
\* a stale flag (account_manager.py:161-169, runner.py:70-71).
ConnectedIsRunning ==
    \A a \in Account :
        connected[a] /\ client[a] = "off" => \E w \in Worker : LeftStopped(w, a)

\* The lock has a holder exactly while one process connects.
LockInv == \A p \in Proc : pc[p] \in Connecting <=> lock = p

\* repo.py:163: a row goes from banned to idle when its ban_until has passed.
OnlyExpiredBansEnd ==
    [][\A a \in Account : until[a] > 0 => until'[a] # None]_vars

\* The pool implements Sessions.  A worker has been given the account it uses
\* until it has reported what became of it; the lock is what lets one process
\* at a time open a session (account_manager.py:106-171).
Given(w) == pc[w] \in {"use", "banned", "dead", "stop", "stopped"}

StageOf(where) ==
    CASE where \in {"starting", "me"} -> "opening"
      [] where = "saveIdle" -> "opened"
      [] where = "saveFail" -> "failed"

Session ==
    INSTANCE Sessions WITH
        open <- connected,
        opener <- lock,
        opening <- IF lock = Nobody THEN NoAccount ELSE acc[lock],
        stage <- IF lock = Nobody THEN "none" ELSE StageOf(pc[lock]),
        using <- [w \in Worker |-> IF Given(w) THEN acc[w] ELSE NoAccount]
ImplementsSessions == Session!Spec

-----------------------------------------------------------------------------
(* Liveness: calls to Telegram and to the database end, the lock is fair   *)
(* (asyncio.Lock is a queue), and an update tried every few minutes is not *)
(* refused for ever.                                                       *)

LiveSpec ==
    /\ Spec /\ WF_vars(Tick)
    /\ \A p \in Proc : SF_vars(Lock(p))
    /\ \A p \in Proc : WF_vars(Start(p) \/ GetMe(p) \/ SaveIdle(p) \/ SaveFail(p))
    /\ WF_vars(SelectExpired) /\ SF_vars(UpdateExpired /\ recovery' = "clear")
    /\ WF_vars(UpdateExpired) /\ WF_vars(ClearExpired)

\* Nobody waits for the connect lock for ever, whatever fails while another
\* process holds it (account_manager.py:107).
Served == \A p \in Proc : pc[p] = "lock" ~> pc[p] # "lock"

\* While the process is up, no row stays banned for ever without a ban in
\* force, with no end at all or with one that has passed: what does not meet
\* the conditions of expire_bans is lifted by nobody (README.md:131).
Over(a) == status[a] = "banned" /\ until[a] \in {None, 0}
BanIsLifted == <>[](phase = "up") => \A a \in Account : Over(a) ~> ~Over(a)

=============================================================================
