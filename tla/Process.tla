------------------------------ MODULE Process ------------------------------
(***************************************************************************)
(* The life of the process: what main.py gathers (the runner, the polling  *)
(* of the bot, the monitor), how the bot's /start, /stop and /shutdown     *)
(* reach the runner and its workers through two events, and the order in   *)
(* which everything is taken down.                                         *)
(*                                                                         *)
(* gather waits for all three.  What each of them waits for is somebody    *)
(* else's to give: the runner for stop_event, the polling for its library, *)
(* the monitor for its own stop(), which is called after gather.           *)
(*                                                                         *)
(* Of a worker only this is kept: whether it looks at the events, waits    *)
(* for a task, or executes one, and what that does to the accounts.        *)
(* Module TaskQueue has the tasks, AccountPool the connecting.             *)
(***************************************************************************)
EXTENDS Monitor, Naturals

CONSTANT Worker

VARIABLES
    main,         \* "down": no process; "gather"; then the finally block:
                  \* "disconnect", "close", "dispose"
    runner,       \* Runner.start(): "none", "recover", "wait" (for the event),
                  \* "stopping" (woken by it), "ended"
    polling,      \* dp.start_polling: "none", "on", "ended"
    runEvent, stopEvent,  \* ControlBus
    worker,       \* each _worker_loop: "gone", "idle", "get", "busy"
    left,         \* the accounts disconnect_all has yet to come to
    interrupted,  \* the main task was cancelled
    late          \* history: tasks each worker has begun since the pause

monitor == <<watched, handling, progress>>
tasks == <<runner, polling>>
events == <<runEvent, stopEvent>>
work == <<worker, late>>
teardown == <<main, left, interrupted>>
vars == <<monitor, accounts, tasks, events, work, teardown>>

TypeOK ==
    /\ MonitorTypeOK
    /\ main \in {"down", "gather", "disconnect", "close", "dispose"}
    /\ runner \in {"none", "recover", "wait", "stopping", "ended"}
    /\ polling \in {"none", "on", "ended"}
    /\ runEvent \in BOOLEAN /\ stopEvent \in BOOLEAN /\ interrupted \in BOOLEAN
    /\ worker \in [Worker -> {"gone", "idle", "get", "busy"}]
    /\ left \subseteq Account
    /\ late \in [Worker -> 0 .. 2]
    /\ main = "down" <=> runner = "none"
    /\ main # "gather" => rebuild = "off"

Everyone(s) == [w \in Worker |-> s]

Init ==
    /\ MonitorInit
    /\ watched = {} /\ connected = {} /\ banned = {}
    /\ main = "down" /\ runner = "none" /\ polling = "none"
    /\ runEvent = FALSE /\ stopEvent = FALSE
    /\ worker = Everyone("gone") /\ late = Everyone(0)
    /\ left = {} /\ interrupted = FALSE

-----------------------------------------------------------------------------
(* The start. *)

\* load_all connects some accounts, finds some banned, or raises (no step);
\* then the three services begin
Start ==
    /\ main = "down"
    /\ main' = "gather" /\ runner' = "recover" /\ polling' = "on"
    /\ connected' \in SUBSET Account /\ banned' \in SUBSET Account
    /\ \E enabled \in BOOLEAN : Begin(enabled)
    /\ UNCHANGED <<watched, events, work, left, interrupted>>

Stops == worker' = Everyone("gone") /\ UNCHANGED late

\* recover_stale_tasks is done: run_event is set, whatever the bot has done
\* to it meanwhile, and the workers start, unless stop_event is set by now
RunnerUp ==
    /\ runner = "recover"
    /\ runEvent' = TRUE /\ late' = Everyone(0)
    /\ IF stopEvent THEN runner' = "ended" /\ UNCHANGED worker
                    ELSE runner' = "wait" /\ worker' = Everyone("idle")
    /\ UNCHANGED <<monitor, accounts, polling, stopEvent, teardown>>

\* it raised: gather keeps the exception to itself
RunnerFails ==
    /\ runner = "recover"
    /\ runner' = "ended"
    /\ UNCHANGED <<monitor, accounts, polling, events, work, teardown>>

-----------------------------------------------------------------------------
(* The events. *)

SlipSetUnheard ==
    /\ stopEvent' = TRUE
    /\ UNCHANGED runner

\* a wait that has been woken ends, even if the event is cleared before
SetStop ==
    /\ stopEvent' = TRUE
    /\ runner' = IF runner = "wait" THEN "stopping" ELSE runner

BotStart ==
    /\ polling = "on"
    /\ runEvent' = TRUE /\ stopEvent' = FALSE
    /\ late' = Everyone(0)
    /\ UNCHANGED <<monitor, accounts, tasks, worker, teardown>>

BotStop ==
    /\ polling = "on"
    /\ runEvent' = FALSE
    /\ UNCHANGED <<monitor, accounts, tasks, stopEvent, work, teardown>>

BotShutdown ==
    /\ polling = "on"
    /\ SetStop
    /\ UNCHANGED <<monitor, accounts, polling, runEvent, work, teardown>>

\* SIGINT or SIGTERM, if it is main.py's handler that gets it
Signal ==
    /\ main = "gather"
    /\ SetStop
    /\ UNCHANGED <<monitor, accounts, polling, runEvent, work, teardown>>

BotMonitor(g, on) ==
    /\ polling = "on"
    /\ SetMonitor(g, on)
    /\ UNCHANGED <<tasks, events, work, teardown>>

\* the library ends it: a signal it handles itself, or an error
PollingEnds ==
    /\ polling = "on"
    /\ polling' = "ended"
    /\ UNCHANGED <<monitor, accounts, runner, events, work, teardown>>

SlipWorkersStay ==
    /\ runner = "stopping"
    /\ runner' = "ended"
    /\ UNCHANGED <<monitor, accounts, polling, events, work, teardown>>

\* start() cancels the workers wherever they wait, and returns
RunnerStops ==
    /\ runner = "stopping"
    /\ runner' = "ended"
    /\ Stops
    /\ UNCHANGED <<monitor, accounts, polling, events, teardown>>

-----------------------------------------------------------------------------
(* The workers. *)

WorkerGoes(w, from, to) ==
    /\ worker[w] = from
    /\ worker' = [worker EXCEPT ![w] = to]

SlipPauseUnseen(w) ==
    /\ \/ ~stopEvent /\ WorkerGoes(w, "idle", "get")
       \/ stopEvent /\ WorkerGoes(w, "idle", "gone")
    /\ UNCHANGED <<monitor, accounts, tasks, events, late, teardown>>

\* the only place where a worker looks at the events
WorkerLooks(w) ==
    /\ \/ ~stopEvent /\ runEvent /\ WorkerGoes(w, "idle", "get")
       \/ stopEvent /\ WorkerGoes(w, "idle", "gone")
    /\ UNCHANGED <<monitor, accounts, tasks, events, late, teardown>>

WorkerTimesOut(w) ==
    /\ WorkerGoes(w, "get", "idle")
    /\ UNCHANGED <<monitor, accounts, tasks, events, late, teardown>>

WorkerBegins(w) ==
    /\ WorkerGoes(w, "get", "busy")
    /\ late' = IF runEvent \/ late[w] = 2 THEN late ELSE [late EXCEPT ![w] = @ + 1]
    /\ UNCHANGED <<monitor, accounts, tasks, events, teardown>>

WorkerEnds(w) ==
    /\ WorkerGoes(w, "busy", "idle")
    /\ UNCHANGED <<monitor, accounts, tasks, events, late, teardown>>

\* get_available connects; an error bans the account, or shows it is dead.
\* No task asks for the role of the monitor.
WorkerTouches(w, a) ==
    /\ worker[w] = "busy" /\ a \notin MonitorRole
    /\ \/ connected' \in {connected \union {a}, connected \ {a}} /\ UNCHANGED banned
       \/ banned' = banned \union {a} /\ UNCHANGED connected
    /\ UNCHANGED <<monitor, tasks, events, work, teardown>>

\* banned_until passes
BanEnds(a) ==
    /\ a \in banned /\ main # "down"
    /\ banned' = banned \ {a}
    /\ UNCHANGED <<monitor, connected, tasks, events, work, teardown>>

-----------------------------------------------------------------------------
(* The end. *)

\* the first statements of the finally block, up to its first await
Finally ==
    /\ main' = "disconnect" /\ left' = Account
    /\ stopEvent' = TRUE

Gathered ==
    /\ main = "gather"
    /\ runner = "ended" /\ polling = "ended" /\ service = "ended"
    /\ Finally /\ MonitorStop
    /\ UNCHANGED <<watched, accounts, tasks, runEvent, work, interrupted>>

\* Ctrl-C where the loop has no signal handlers cancels the main task and
\* what it gathers: start() ends where it waits, the workers are not told
Interrupt ==
    /\ main = "gather" /\ ~interrupted
    /\ interrupted' = TRUE
    /\ runner' = "ended" /\ polling' = "ended"
    /\ Cancelled
    /\ UNCHANGED <<watched, handling, accounts, events, work, main, left>>

\* disconnect_all, one client after the other
Disconnect(a) ==
    /\ main = "disconnect" /\ a \in left
    /\ left' = left \ {a}
    /\ connected' = connected \ {a}
    /\ UNCHANGED <<monitor, banned, tasks, events, work, main, interrupted>>

Disconnected ==
    /\ main = "disconnect" /\ left = {}
    /\ main' = "close"
    /\ UNCHANGED <<monitor, accounts, tasks, events, work, left, interrupted>>

\* the bot's session, and stop_polling, which raises when nothing polls
Close ==
    /\ main = "close"
    /\ main' = "dispose"
    /\ UNCHANGED <<monitor, accounts, tasks, events, work, left, interrupted>>

\* nothing of the process remains, and the container starts another one
Gone ==
    /\ main' = "down" /\ runner' = "none" /\ polling' = "none"
    /\ runEvent' = FALSE /\ stopEvent' = FALSE
    /\ worker' = Everyone("gone") /\ late' = Everyone(0)
    /\ left' = {} /\ interrupted' = FALSE
    /\ connected' = {} /\ banned' = {}
    /\ handlers' = [a \in Account |-> {}]
    /\ active' = NoAccount /\ activeIds' = {}
    /\ service' = "none" /\ rebuild' = "off" /\ seen' = {}
    /\ UNCHANGED watched

\* dispose_db, and the end of asyncio.run
Dispose == main = "dispose" /\ Gone

\* the process is killed, at any step
Crash == main # "down" /\ Gone

-----------------------------------------------------------------------------
Monitoring == MonitorStep /\ UNCHANGED <<tasks, events, work, teardown>>

Bot ==
    \/ BotStart \/ BotStop \/ BotShutdown
    \/ \E g \in Group, on \in BOOLEAN : BotMonitor(g, on)

WorkerStep(w) ==
    \/ WorkerLooks(w) \/ WorkerTimesOut(w) \/ WorkerBegins(w) \/ WorkerEnds(w)
    \/ \E a \in Account : WorkerTouches(w, a)

Teardown ==
    \/ Gathered \/ (\E a \in Account : Disconnect(a)) \/ Disconnected \/ Close \/ Dispose

Next ==
    \/ Start \/ RunnerUp \/ RunnerFails \/ RunnerStops
    \/ Bot \/ Signal \/ PollingEnds \/ Interrupt \/ Crash
    \/ \E w \in Worker : WorkerStep(w)
    \/ \E a \in Account : BanEnds(a)
    \/ Monitoring
    \/ Teardown

Spec == Init /\ [][Next]_vars

-----------------------------------------------------------------------------
(* Safety. *)

\* After /stop a worker begins one task more at most, the one it may be
\* waiting for in queue.get, for it does not look at the event again
\* (runner.py:183-192); README.md:82 says that workers only finish what
\* they have.
PauseBound == \A w \in Worker : ~runEvent => late[w] <= 1

\* When the bot's session and the database are taken down, no client is
\* connected and nobody is left to connect one: disconnect_all stops at
\* every client on its way, and a worker could connect one behind its back
\* (main.py:60-79, account_manager.py:127-134, runner.py:69-71).  Only an
\* interrupted process keeps its workers.  A client is connected when its
\* flag says so: one whose start() is cut short by the cancellation of its
\* worker is not, and disconnect_all passes it over.
ClientsAreClosed ==
    main \in {"close", "dispose"} /\ ~interrupted =>
        connected = {} /\ \A w \in Worker : worker[w] = "gone"

\* No worker begins a task once Runner.start() has ended, not even when
\* /start clears stop_event and sets run_event again (handlers.py:70-71),
\* unless start() was interrupted and left its workers behind.
EndedMeansIdle ==
    [][\A w \in Worker :
        worker[w] # "busy" /\ worker'[w] = "busy" =>
            runner \in {"wait", "stopping"} \/ interrupted]_vars

\* Why: who is paused and late waits for no other task; and before the
\* clients are disconnected the workers are gone.
PauseInv ==
    \A w \in Worker :
        /\ runEvent => late[w] = 0
        /\ late[w] <= 1
        /\ late[w] = 1 => worker[w] # "get"

CloseInv ==
    /\ runner \in {"none", "recover", "ended"} /\ ~interrupted =>
        \A w \in Worker : worker[w] = "gone"
    /\ main \in {"disconnect", "close", "dispose"} => runner = "ended"
    /\ main = "disconnect" /\ ~interrupted => connected \subseteq left
    /\ main \in {"close", "dispose"} /\ ~interrupted => connected = {}

-----------------------------------------------------------------------------
(* Liveness: timers expire, a coroutine whose wait has ended is resumed,   *)
(* calls end, and a query repeated every half minute is answered sometimes.*)

LiveSpec ==
    /\ Spec
    /\ WF_vars(Wake /\ Monitoring) /\ WF_vars(Rebuild /\ Monitoring)
    /\ WF_vars((LoadIds \/ LoadFails) /\ Monitoring) /\ SF_vars(LoadIds /\ Monitoring)
    /\ WF_vars(RunnerUp \/ RunnerFails) /\ WF_vars(RunnerStops) /\ WF_vars(Teardown)

\* While the loop runs, the groups to watch are S, and at any moment some
\* account is connected and not banned, the handler is again and again, on
\* a connected account, the one for S: no sequence of reconnects, bans and
\* failed queries leaves it behind for good (monitor.py:58-67, 97-130).
HandlerFollows ==
    \A S \in SUBSET Group :
        <>[](rebuild # "off" /\ watched = S /\ connected \ banned # {}) =>
            []<>(activeIds = S /\ (S # {} => active \in connected))

\* A stop ends the process, wherever it finds the runner, if the polling is
\* over and the monitor is not enabled, or has failed (main.py:51-80).  The
\* first is up to the library, and a monitor that waits is never told.
StopEndsProcess ==
    stopEvent /\ polling = "ended" /\ service = "ended" ~> main = "down"

=============================================================================
