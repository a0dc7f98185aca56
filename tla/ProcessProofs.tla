--------------------------- MODULE ProcessProofs ---------------------------
(***************************************************************************)
(* Proofs about Process and the Monitor in it, for any accounts, groups    *)
(* and workers.                                                            *)
(***************************************************************************)
EXTENDS Process, TLAPS

-----------------------------------------------------------------------------
(* Type correctness, in parts. *)

HandlerOK ==
    /\ handlers \in [Account -> SUBSET (SUBSET Group)]
    /\ active \in Account \union {NoAccount}
    /\ activeIds \subseteq Group

ProgressOK ==
    /\ service \in {"none", "first", "wait", "ended"}
    /\ rebuild \in {"off", "sleep", "query", "apply"}
    /\ seen \subseteq Group

WorldOK == watched \subseteq Group /\ connected \subseteq Account /\ banned \subseteq Account

TasksOK ==
    /\ main \in {"down", "gather", "disconnect", "close", "dispose"}
    /\ runner \in {"none", "recover", "wait", "stopping", "ended"}
    /\ polling \in {"none", "on", "ended"}
    /\ runEvent \in BOOLEAN /\ stopEvent \in BOOLEAN /\ interrupted \in BOOLEAN
    /\ left \subseteq Account

WorkersOK ==
    /\ worker \in [Worker -> {"gone", "idle", "get", "busy"}]
    /\ late \in [Worker -> 0 .. 2]

\* The conjuncts of TypeOK that relate two variables.
StagesOK ==
    /\ main = "down" <=> runner = "none"
    /\ main # "gather" => rebuild = "off"

LEMMA TypeParts ==
    /\ TypeOK <=> HandlerOK /\ ProgressOK /\ WorldOK /\ TasksOK /\ WorkersOK /\ StagesOK
    /\ TypeOK' <=> HandlerOK' /\ ProgressOK' /\ WorldOK' /\ TasksOK' /\ WorkersOK' /\ StagesOK'
BY DEF TypeOK, MonitorTypeOK, HandlerOK, ProgressOK, WorldOK, TasksOK, WorkersOK, StagesOK

\* What a step leaves alone keeps its types.
LEMMA Untouched ==
    /\ HandlerOK /\ UNCHANGED handling => HandlerOK'
    /\ ProgressOK /\ UNCHANGED progress => ProgressOK'
    /\ WorldOK /\ UNCHANGED <<watched, accounts>> => WorldOK'
    /\ TasksOK /\ UNCHANGED <<tasks, events, teardown>> => TasksOK'
    /\ WorkersOK /\ UNCHANGED work => WorkersOK'
    /\ StagesOK /\ UNCHANGED <<main, runner, rebuild>> => StagesOK'
BY DEF HandlerOK, ProgressOK, WorldOK, TasksOK, WorkersOK, StagesOK, handling, progress, accounts,
       tasks, events, teardown, work

LEMMA RemovedIsTyped == HandlerOK => Removed \in [Account -> SUBSET (SUBSET Group)]
BY DEF HandlerOK, Removed

LEMMA EveryoneIsTyped ==
    /\ \A s \in {"gone", "idle", "get", "busy"} :
            Everyone(s) \in [Worker -> {"gone", "idle", "get", "busy"}]
    /\ Everyone(0) \in [Worker -> 0 .. 2]
BY DEF Everyone

LEMMA InitTypeOK == Init => TypeOK
BY EveryoneIsTyped DEF Init, MonitorInit, TypeOK, MonitorTypeOK

LEMMA MonitoringKeepsTypes ==
    ASSUME TypeOK, Monitoring
    PROVE  TypeOK'
<1> USE TypeParts
<1>0. UNCHANGED <<tasks, events, work, teardown, watched, accounts>>
  BY DEF Monitoring, MonitorStep, LoadIds, LoadFails, Rebuild, Wake
<1>1. WorldOK' /\ TasksOK' /\ WorkersOK'
  BY <1>0, Untouched
<1>2. StagesOK'
  BY <1>0 DEF Monitoring, MonitorStep, LoadIds, LoadFails, Rebuild, Wake, StagesOK, tasks, teardown
<1>3. ProgressOK'
  BY DEF Monitoring, MonitorStep, LoadIds, LoadFails, Rebuild, Wake, ProgressOK, WorldOK
<1>4. CASE UNCHANGED handling
  BY <1>1, <1>2, <1>3, <1>4, Untouched
<1>5. CASE Rebuild
  <2>1. ASSUME NEW a \in Account, active' = a, activeIds' = seen,
               handlers' = [Removed EXCEPT ![a] = @ \union {seen}]
        PROVE  HandlerOK'
    <3>1. Removed \in [Account -> SUBSET (SUBSET Group)] /\ seen \subseteq Group
      BY RemovedIsTyped DEF ProgressOK
    <3>2. Removed[a] \union {seen} \in SUBSET (SUBSET Group)
      BY <3>1
    <3> QED
      BY <2>1, <3>1, <3>2 DEF HandlerOK
  <2>2. Candidates \subseteq Account
    BY DEF Candidates, WorldOK
  <2>3. ASSUME handlers' = Removed, active' = NoAccount, activeIds' = {}
        PROVE  HandlerOK'
    BY <2>3, RemovedIsTyped DEF HandlerOK
  <2>4. HandlerOK'
    BY <1>5, <2>1, <2>2, <2>3, Untouched DEF Rebuild, Move
  <2> QED
    BY <1>1, <1>2, <1>3, <2>4
<1> QED
  BY <1>4, <1>5 DEF Monitoring, MonitorStep, LoadIds, LoadFails, Wake

LEMMA RunnerKeepsTypes ==
    ASSUME TypeOK, Start \/ RunnerUp \/ RunnerFails \/ RunnerStops
    PROVE  TypeOK'
<1> USE TypeParts
<1>1. CASE Start
  <2>1. UNCHANGED <<work, handling>>
    BY <1>1 DEF Start, Begin
  <2>2. ProgressOK' /\ WorldOK' /\ TasksOK' /\ StagesOK'
    BY <1>1 DEF Start, Begin, events, ProgressOK, WorldOK, TasksOK, StagesOK
  <2> QED
    BY <2>1, <2>2, Untouched
<1>2. CASE ~Start
  <2>1. UNCHANGED <<handling, progress, watched, accounts>>
    BY <1>2 DEF RunnerUp, RunnerFails, RunnerStops, monitor
  <2>2. WorkersOK'
    BY <1>2, EveryoneIsTyped DEF RunnerUp, RunnerFails, RunnerStops, Stops, WorkersOK, work
  <2>3. TasksOK' /\ StagesOK'
    BY <1>2 DEF RunnerUp, RunnerFails, RunnerStops, TasksOK, StagesOK, tasks, events, teardown,
                monitor, progress
  <2> QED
    BY <2>1, <2>2, <2>3, Untouched
<1> QED
  BY <1>1, <1>2

LEMMA EventsKeepTypes ==
    ASSUME TypeOK, Bot \/ Signal \/ PollingEnds
    PROVE  TypeOK'
<1> USE TypeParts
<1>1. UNCHANGED <<handling, progress, accounts>> /\ watched' \subseteq Group
  BY DEF Bot, BotStart, BotStop, BotShutdown, BotMonitor, SetMonitor, Signal, PollingEnds, monitor,
         WorldOK
<1>2. WorkersOK'
  BY EveryoneIsTyped DEF Bot, BotStart, BotStop, BotShutdown, BotMonitor, Signal, PollingEnds, work,
                         WorkersOK
<1>3. TasksOK' /\ UNCHANGED main /\ (runner' = "none" <=> runner = "none")
  BY DEF Bot, BotStart, BotStop, BotShutdown, BotMonitor, Signal, SetStop, PollingEnds, tasks, events,
         teardown, TasksOK
<1>4. StagesOK' /\ WorldOK'
  BY <1>1, <1>3 DEF StagesOK, WorldOK, progress, accounts,
         Bot, BotStart, BotStop, BotShutdown, BotMonitor, Signal, SetStop, PollingEnds, tasks, teardown
<1> QED
  BY <1>1, <1>2, <1>3, <1>4, Untouched

LEMMA WorkerKeepsTypes ==
    ASSUME TypeOK, NEW w \in Worker, WorkerStep(w)
    PROVE  TypeOK'
<1> USE TypeParts
<1>1. UNCHANGED <<handling, progress, watched, tasks, events, teardown>>
  BY DEF WorkerStep, WorkerLooks, WorkerTimesOut, WorkerBegins, WorkerEnds, WorkerTouches, monitor
<1>2. connected' \subseteq Account /\ banned' \subseteq Account
  BY DEF WorkerStep, WorkerLooks, WorkerTimesOut, WorkerBegins, WorkerEnds, WorkerTouches, accounts,
         WorldOK
<1>3. worker' \in [Worker -> {"gone", "idle", "get", "busy"}]
  BY DEF WorkerStep, WorkerLooks, WorkerTimesOut, WorkerBegins, WorkerEnds, WorkerTouches, WorkerGoes,
         WorkersOK, work
<1>4. late' \in [Worker -> 0 .. 2]
  BY DEF WorkerStep, WorkerLooks, WorkerTimesOut, WorkerBegins, WorkerEnds, WorkerTouches, WorkersOK,
         work
<1>5. WorldOK' /\ WorkersOK' /\ UNCHANGED <<main, runner, rebuild>>
  BY <1>1, <1>2, <1>3, <1>4 DEF WorldOK, WorkersOK, tasks, teardown, progress
<1> QED
  BY <1>1, <1>5, Untouched

LEMMA GoneKeepsTypes ==
    ASSUME TypeOK, Gone
    PROVE  TypeOK'
<1> USE TypeParts
<1>1. HandlerOK' /\ ProgressOK' /\ WorldOK' /\ TasksOK' /\ StagesOK'
  BY DEF Gone, HandlerOK, ProgressOK, WorldOK, TasksOK, StagesOK
<1>2. WorkersOK'
  BY EveryoneIsTyped DEF Gone, WorkersOK
<1> QED
  BY <1>1, <1>2

LEMMA EndKeepsTypes ==
    ASSUME TypeOK, Teardown \/ Interrupt \/ Crash
    PROVE  TypeOK'
<1> USE TypeParts
<1>1. CASE Gathered
  <2>1. HandlerOK' /\ ProgressOK'
    BY <1>1, RemovedIsTyped DEF Gathered, MonitorStop, HandlerOK, ProgressOK
  <2>2. UNCHANGED <<watched, accounts, work>>
    BY <1>1 DEF Gathered
  <2>3. TasksOK' /\ StagesOK'
    BY <1>1 DEF Gathered, Finally, MonitorStop, TasksOK, StagesOK, tasks
  <2> QED
    BY <2>1, <2>2, <2>3, Untouched
<1>2. CASE Interrupt
  <2>1. ProgressOK' /\ TasksOK' /\ StagesOK'
    BY <1>2 DEF Interrupt, Cancelled, events, ProgressOK, TasksOK, StagesOK
  <2> QED
    BY <1>2, <2>1, Untouched DEF Interrupt
<1>3. ASSUME NEW a \in Account, Disconnect(a)
      PROVE  TypeOK'
  <2>1. WorldOK' /\ TasksOK'
    BY <1>3 DEF Disconnect, monitor, WorldOK, TasksOK, tasks, events
  <2>2. UNCHANGED <<main, runner, rebuild>>
    BY <1>3 DEF Disconnect, monitor, progress, tasks
  <2> QED
    BY <1>3, <2>1, <2>2, Untouched DEF Disconnect, monitor
<1>4. CASE Disconnected \/ Close
  <2>1. TasksOK' /\ StagesOK'
    BY <1>4 DEF Disconnected, Close, monitor, progress, TasksOK, StagesOK, tasks, events
  <2> QED
    BY <1>4, <2>1, Untouched DEF Disconnected, Close, monitor
<1> QED
  BY <1>1, <1>2, <1>3, <1>4, GoneKeepsTypes DEF Teardown, Dispose, Crash

LEMMA NextKeepsTypes == TypeOK /\ [Next]_vars => TypeOK'
<1> SUFFICES ASSUME TypeOK, [Next]_vars PROVE TypeOK'
  OBVIOUS
<1>1. ASSUME NEW a \in Account, BanEnds(a)
      PROVE  TypeOK'
  <2>1. WorldOK' /\ UNCHANGED <<main, runner, rebuild>>
    BY <1>1, TypeParts DEF BanEnds, monitor, progress, tasks, teardown, WorldOK
  <2> QED
    BY <1>1, <2>1, TypeParts, Untouched DEF BanEnds, monitor
<1>2. CASE UNCHANGED vars
  BY <1>2, TypeParts, Untouched DEF vars, monitor, tasks, teardown, progress
<1> QED
  BY <1>1, <1>2, RunnerKeepsTypes, EventsKeepTypes, EndKeepsTypes, WorkerKeepsTypes,
     MonitoringKeepsTypes DEF Next

\* Every variable keeps its type through starts, stops, interrupts and
\* crashes; the process is down exactly when it has no runner, and the
\* monitor's loop runs only while gather waits (main.py:51-79).
THEOREM TypeCorrect == Spec => []TypeOK
BY InitTypeOK, NextKeepsTypes, PTL DEF Spec

-----------------------------------------------------------------------------
(* The handler. *)

\* OneHandler, and that a process that is down has none.
HandlerInv ==
    /\ OneHandler
    /\ main = "down" => active = NoAccount /\ \A a \in Account : handlers[a] = {}

\* The handler of _active is the only one: without it there is none.
LEMMA RemovedIsEmpty ==
    ASSUME TypeOK, OneHandler
    PROVE  \A a \in Account : Removed[a] = {}
<1> TAKE a \in Account
<1>1. CASE a = active
  <2>1. handlers[a] \subseteq {activeIds}
    BY DEF OneHandler
  <2> QED
    BY <1>1, <2>1 DEF Removed
<1>2. CASE a # active
  BY <1>2 DEF Removed, OneHandler
<1> QED
  BY <1>1, <1>2

LEMMA MoveKeepsHandler ==
    ASSUME TypeOK, OneHandler, Move, UNCHANGED rebuild \/ rebuild # "off"
    PROVE  OneHandler'
<1>1. CASE UNCHANGED handling
  BY <1>1 DEF OneHandler, handling
<1>2. ASSUME handlers' = Removed, active' = NoAccount
      PROVE  OneHandler'
  BY <1>2, RemovedIsEmpty DEF OneHandler
<1>3. ASSUME NEW a \in Account, handlers' = [Removed EXCEPT ![a] = @ \union {seen}],
             active' = a, activeIds' = seen
      PROVE  OneHandler'
  <2>1. \A b \in Account : handlers'[b] = IF b = a THEN {seen} ELSE {}
    <3>1. DOMAIN Removed = Account /\ \A b \in Account : Removed[b] = {}
      BY RemovedIsEmpty DEF Removed
    <3> QED
      BY <1>3, <3>1 DEF Removed
  <2> QED
    BY <1>3, <2>1 DEF OneHandler
<1>4. Candidates \subseteq Account
  BY DEF Candidates, TypeOK, MonitorTypeOK
<1> QED
  BY <1>1, <1>2, <1>3, <1>4 DEF Move

LEMMA NextKeepsHandler == TypeOK /\ HandlerInv /\ [Next]_vars => HandlerInv'
<1> SUFFICES ASSUME TypeOK, HandlerInv, [Next]_vars PROVE HandlerInv'
  OBVIOUS
<1> USE DEF HandlerInv
<1>1. CASE Monitoring
  <2>1. main' = main
    BY <1>1 DEF Monitoring, teardown
  <2>2. CASE Rebuild
    <3>1. OneHandler'
      BY <2>2, MoveKeepsHandler DEF Rebuild
    <3>2. main = "gather"
      BY <2>2 DEF TypeOK, Rebuild
    <3> QED
      BY <2>1, <3>1, <3>2
  <2>3. CASE ~Rebuild
    <3>1. UNCHANGED handling /\ (rebuild' # "off" => rebuild # "off")
      BY <1>1, <2>3 DEF Monitoring, MonitorStep, LoadIds, LoadFails, Wake
    <3> QED
      BY <2>1, <3>1 DEF OneHandler, handling
  <2> QED
    BY <2>2, <2>3
<1>2. CASE Start
  BY <1>2 DEF Start, Begin, handling, OneHandler
<1>3. CASE Gathered
  BY <1>3, RemovedIsEmpty DEF Gathered, Finally, MonitorStop, OneHandler
<1>4. CASE Interrupt
  BY <1>4 DEF Interrupt, Cancelled, handling, OneHandler
<1>5. CASE Gone
  BY <1>5 DEF Gone, OneHandler
<1>6. ASSUME UNCHANGED <<handling, rebuild, main>>
      PROVE  HandlerInv'
  BY <1>6 DEF OneHandler, handling
<1>7. ASSUME \/ RunnerUp \/ RunnerFails \/ RunnerStops
             \/ Bot \/ Signal \/ PollingEnds
             \/ \E w \in Worker : WorkerStep(w)
             \/ \E a \in Account : BanEnds(a) \/ Disconnect(a)
             \/ UNCHANGED vars
      PROVE  UNCHANGED <<handling, rebuild, main>>
  BY <1>7 DEF RunnerUp, RunnerFails, RunnerStops, Bot, BotStart, BotStop, BotShutdown, BotMonitor,
       SetMonitor, Signal, PollingEnds, WorkerStep, WorkerLooks, WorkerTimesOut, WorkerBegins,
       WorkerEnds, WorkerTouches, BanEnds, Disconnect, vars, monitor, progress, teardown
<1>8. CASE Disconnected \/ Close
  <2>1. UNCHANGED <<handling, rebuild>> /\ main' # "down"
    BY <1>8 DEF Disconnected, Close, monitor, progress
  <2> QED
    BY <2>1 DEF OneHandler, handling
<1> QED
  BY <1>1, <1>2, <1>3, <1>4, <1>5, <1>6, <1>7, <1>8 DEF Next, Teardown, Dispose, Crash

\* There is one handler at most, where _active and _active_ids say, for
\* whatever the accounts and the groups do while a query is awaited, and
\* wherever the loop is cancelled (monitor.py:99-130, 48-56).
THEOREM OneHandlerAlways == Spec => []OneHandler
<1>1. Init => HandlerInv
  BY DEF Init, MonitorInit, HandlerInv, OneHandler
<1>2. HandlerInv => OneHandler
  BY DEF HandlerInv
<1> QED
  BY <1>1, <1>2, NextKeepsHandler, TypeCorrect, PTL DEF Spec

-----------------------------------------------------------------------------
(* The pause. *)

LEMMA NextKeepsPause == TypeOK /\ PauseInv /\ [Next]_vars => PauseInv'
<1> SUFFICES ASSUME TypeOK, PauseInv, [Next]_vars PROVE PauseInv'
  OBVIOUS
<1>1. ASSUME NEW w \in Worker, WorkerStep(w)
      PROVE  PauseInv'
  <2>0. UNCHANGED runEvent
    BY <1>1 DEF WorkerStep, WorkerLooks, WorkerTimesOut, WorkerBegins, WorkerEnds, WorkerTouches, events
  <2>1. CASE WorkerBegins(w)
    <3>1. worker[w] = "get" /\ late[w] = 0
      BY <2>1 DEF WorkerBegins, WorkerGoes, PauseInv, TypeOK
    <3>2. \A v \in Worker : worker'[v] = IF v = w THEN "busy" ELSE worker[v]
      BY <2>1 DEF WorkerBegins, WorkerGoes, TypeOK
    <3>3. late' = IF runEvent THEN late ELSE [late EXCEPT ![w] = 1]
      BY <2>1, <3>1 DEF WorkerBegins
    <3> QED
      BY <2>0, <3>1, <3>2, <3>3 DEF PauseInv, TypeOK
  <2>2. ASSUME UNCHANGED late, \A v \in Worker : worker'[v] = "get" => worker[v] = "get" \/ runEvent
        PROVE  PauseInv'
    BY <2>0, <2>2 DEF PauseInv
  <2> QED
    BY <1>1, <2>1, <2>2 DEF WorkerStep, WorkerLooks, WorkerTimesOut, WorkerEnds, WorkerTouches,
       WorkerGoes, work, TypeOK
<1>2. ASSUME late' = Everyone(0)
      PROVE  PauseInv'
  BY <1>2 DEF PauseInv, Everyone
<1>3. ASSUME UNCHANGED late, runEvent' => runEvent, worker' = worker \/ worker' = Everyone("gone")
      PROVE  PauseInv'
  BY <1>3 DEF PauseInv, Everyone
<1>4. ASSUME \/ Start \/ RunnerFails \/ RunnerStops \/ BotStop \/ BotShutdown \/ Signal
             \/ \E g \in Group, on \in BOOLEAN : BotMonitor(g, on)
             \/ PollingEnds \/ Interrupt \/ Monitoring \/ UNCHANGED vars
             \/ \E a \in Account : BanEnds(a) \/ Disconnect(a)
             \/ Gathered \/ Disconnected \/ Close
      PROVE  /\ UNCHANGED late /\ (runEvent' => runEvent)
             /\ worker' = worker \/ worker' = Everyone("gone")
  BY <1>4 DEF Start, RunnerFails, RunnerStops, Stops, BotStop, BotShutdown, BotMonitor, Signal,
       PollingEnds, Interrupt, Monitoring, BanEnds, Disconnect, Gathered, Finally, Disconnected, Close,
       vars, events, work
<1>5. CASE RunnerUp \/ BotStart \/ Gone
  BY <1>2, <1>5 DEF RunnerUp, BotStart, Gone
<1> QED
  BY <1>1, <1>3, <1>4, <1>5 DEF Next, Bot, Teardown, Dispose, Crash

\* A worker begins one task at most after a pause (runner.py:183-192).
THEOREM PauseBounded == Spec => []PauseBound
<1>1. Init => PauseInv
  BY DEF Init, PauseInv, Everyone
<1>2. PauseInv => PauseBound
  BY DEF PauseInv, PauseBound
<1> QED
  BY <1>1, <1>2, NextKeepsPause, TypeCorrect, PTL DEF Spec

-----------------------------------------------------------------------------
(* The end. *)

\* Where CloseInv looks at nothing but what a step leaves alone.
LEMMA CloseUntouched ==
    ASSUME CloseInv, UNCHANGED <<main, connected, left, interrupted>>,
           \/ UNCHANGED <<runner, worker>>
           \/ worker' = Everyone("gone") /\ (runner = "ended" => runner' = "ended")
           \/ runner = "recover" /\ runner' = "wait"
           \/ runner = "wait" /\ runner' = "stopping"
    PROVE  CloseInv'
BY DEF CloseInv, Everyone

LEMMA NextKeepsClose == TypeOK /\ CloseInv /\ [Next]_vars => CloseInv'
<1> SUFFICES ASSUME TypeOK, CloseInv, [Next]_vars PROVE CloseInv'
  OBVIOUS
<1>1. CASE Start
  BY <1>1 DEF Start, CloseInv, work, TypeOK
<1>2. CASE RunnerUp
  <2>1. UNCHANGED <<main, connected, left, interrupted>>
    BY <1>2 DEF RunnerUp, accounts, teardown
  <2>2. CASE stopEvent
    BY <1>2, <2>1, <2>2 DEF RunnerUp, CloseInv
  <2>3. CASE ~stopEvent
    BY <1>2, <2>1, <2>3, CloseUntouched DEF RunnerUp
  <2> QED
    BY <2>2, <2>3
<1>3. CASE RunnerFails
  BY <1>3 DEF RunnerFails, CloseInv, accounts, work, teardown
<1>4. CASE RunnerStops
  BY <1>4, CloseUntouched DEF RunnerStops, Stops, accounts, teardown
<1>5. CASE Bot \/ Signal \/ PollingEnds
  <2>1. UNCHANGED <<main, connected, left, interrupted, worker>>
    BY <1>5 DEF Bot, BotStart, BotStop, BotShutdown, BotMonitor, SetMonitor, Signal, PollingEnds, work,
                accounts, teardown
  <2>2. runner' = runner \/ (runner = "wait" /\ runner' = "stopping")
    BY <1>5 DEF Bot, BotStart, BotStop, BotShutdown, BotMonitor, Signal, SetStop, PollingEnds, tasks
  <2> QED
    BY <2>1, <2>2, CloseUntouched
<1>6. ASSUME NEW w \in Worker, WorkerStep(w)
      PROVE  CloseInv'
  <2>1. /\ UNCHANGED <<main, runner, left, interrupted>>
        /\ worker[w] # "gone"
        /\ \A v \in Worker : worker[v] = "gone" => worker'[v] = "gone"
    BY <1>6 DEF WorkerStep, WorkerLooks, WorkerTimesOut, WorkerBegins, WorkerEnds, WorkerTouches,
         WorkerGoes, tasks, teardown, work, TypeOK
  <2>2. main \in {"disconnect", "close", "dispose"} => interrupted
    BY <2>1 DEF CloseInv
  <2> QED
    BY <2>1, <2>2 DEF CloseInv
<1>7. ASSUME Monitoring \/ (\E a \in Account : BanEnds(a)) \/ UNCHANGED vars
      PROVE  CloseInv'
  <2>1. UNCHANGED <<main, connected, left, interrupted, runner, worker>>
    BY <1>7 DEF Monitoring, MonitorStep, LoadIds, LoadFails, Rebuild, Wake, BanEnds, vars, tasks,
                teardown, work, accounts
  <2> QED
    BY <2>1, CloseUntouched
<1>8. CASE Gathered
  BY <1>8 DEF Gathered, Finally, CloseInv, accounts, tasks, work, TypeOK, MonitorTypeOK
<1>9. CASE Interrupt
  BY <1>9 DEF Interrupt, CloseInv
<1>10. ASSUME NEW a \in Account, Disconnect(a)
       PROVE  CloseInv'
  BY <1>10 DEF Disconnect, CloseInv, tasks, work
<1>11. CASE Disconnected \/ Close
  BY <1>11 DEF Disconnected, Close, CloseInv, accounts, tasks, work
<1>12. CASE Gone
  BY <1>12 DEF Gone, CloseInv, Everyone
<1> QED
  BY <1>1, <1>2, <1>3, <1>4, <1>5, <1>6, <1>7, <1>8, <1>9, <1>10, <1>11, <1>12
     DEF Next, Teardown, Dispose, Crash

LEMMA CloseAlways == Spec => []CloseInv
<1>1. Init => CloseInv
  BY DEF Init, CloseInv, Everyone
<1> QED
  BY <1>1, NextKeepsClose, TypeCorrect, PTL DEF Spec

\* Unless it was interrupted, the process takes the bot's session and the
\* database down when no client is connected, and no worker is left that
\* could connect one (main.py:60-79, account_manager.py:127-134).
THEOREM ClientsClosed == Spec => []ClientsAreClosed
<1>1. CloseInv => ClientsAreClosed
  BY DEF CloseInv, ClientsAreClosed
<1> QED
  BY <1>1, CloseAlways, PTL

\* A runner that has ended begins nothing, whatever the bot does to the
\* events, unless it was interrupted and its workers are left
\* (handlers.py:65-88, runner.py:66-71).
THEOREM EndedIsIdle == Spec => EndedMeansIdle
<1>1. TypeOK /\ CloseInv /\ [Next]_vars =>
        [\A w \in Worker :
            worker[w] # "busy" /\ worker'[w] = "busy" =>
                runner \in {"wait", "stopping"} \/ interrupted]_vars
  <2> SUFFICES ASSUME TypeOK, CloseInv, Next,
                      NEW w \in Worker, worker[w] # "busy", worker'[w] = "busy"
               PROVE  runner \in {"wait", "stopping"} \/ interrupted
    OBVIOUS
  <2>1. ASSUME NEW v \in Worker, WorkerStep(v)
        PROVE  worker[w] = "get"
    BY <2>1 DEF WorkerStep, WorkerLooks, WorkerTimesOut, WorkerBegins, WorkerEnds, WorkerTouches,
                WorkerGoes, work, TypeOK
  <2>2. ASSUME ~\E v \in Worker : WorkerStep(v)
        PROVE  worker[w] = "get"
    <3>1. worker' \in {worker, Everyone("gone"), Everyone("idle")}
      BY <2>2 DEF Next, Start, RunnerUp, RunnerFails, RunnerStops, Stops, Bot, BotStart, BotStop,
           BotShutdown, BotMonitor, Signal, PollingEnds, Interrupt, Crash, Gone, BanEnds, Monitoring,
           Teardown, Gathered, Disconnect, Disconnected, Close, Dispose, work
    <3> QED
      BY <3>1 DEF Everyone
  <2>3. worker[w] = "get"
    BY <2>1, <2>2
  <2> QED
    BY <2>3 DEF CloseInv, TypeOK
<1> QED
  BY <1>1, TypeCorrect, CloseAlways, PTL DEF Spec, EndedMeansIdle

=============================================================================
