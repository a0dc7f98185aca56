-------------------------- MODULE TaskQueueProofs --------------------------
(***************************************************************************)
(* Proofs about TaskQueue, for any rows, workers, bounds and timeout.      *)
(***************************************************************************)
EXTENDS TaskQueue, TLAPS

\* A fetch is a sequence of at most FetchLimit pending rows.
LEMMA FetchIsShort ==
    ASSUME NEW b \in Fetches
    PROVE  /\ b \in Seq(Task) /\ Len(b) \in 0 .. FetchLimit
           /\ DOMAIN b = 1 .. Len(b)
           /\ \A i \in DOMAIN b : b[i] \in Pending
           /\ Range(b) \subseteq Pending
           /\ \A i \in DOMAIN b : b[i] \in Range(b)
           /\ b = <<>> <=> Len(b) = 0
<1>1. PICK n \in 0 .. FetchLimit : b \in [1 .. n -> Pending]
  BY DEF Fetches
<1>2. n \in Nat /\ Pending \subseteq Task
  BY BoundsAssumption DEF Pending
<1>3. b \in Seq(Pending) /\ Len(b) = n /\ DOMAIN b = 1 .. n
  BY <1>1, <1>2
<1> QED
  BY <1>1, <1>2, <1>3 DEF Range

\* What a fetch appends to the queue.
LEMMA FetchedCopies ==
    ASSUME TypeOK, NEW b \in Fetches
    PROVE  LET c == [i \in DOMAIN b |-> [task |-> b[i], retry |-> retries[b[i]]]]
           IN  c \in Seq(Copy) /\ Len(c) = Len(b)
<1> DEFINE c == [i \in DOMAIN b |-> [task |-> b[i], retry |-> retries[b[i]]]]
<1>1. b \in Seq(Task) /\ DOMAIN b = 1 .. Len(b) /\ Len(b) \in Nat
  BY FetchIsShort
<1>2. \A i \in 1 .. Len(b) : b[i] \in Task /\ retries[b[i]] \in Nat
  BY <1>1 DEF TypeOK
<1>3. c \in [1 .. Len(b) -> Copy]
  BY <1>1, <1>2 DEF Copy
<1>4. c \in Seq(Copy) /\ Len(c) = Len(b)
  BY <1>1, <1>3
<1> QED
  BY <1>4

-----------------------------------------------------------------------------
(* Type correctness, in parts: what the statements on the table touch, and *)
(* what the coroutines touch.                                              *)

RowsOK ==
    /\ status \in [Task -> {"absent", "pending", "running", "done", "error"}]
    /\ age \in [Task -> NeverStarted .. StaleTimeout + 1]
    /\ retries \in [Task -> Nat]

WorkersOK ==
    /\ pc \in [Worker -> {"idle", "getting", "dispatch", "work", "write", "handle"}]
    /\ held \in [Worker -> Copy \union {NoCopy}]
    /\ op \in [Worker -> Op \union {"none"}]
    /\ \A w \in Worker :
        /\ held[w] = NoCopy <=> pc[w] \in {"idle", "getting"}
        /\ op[w] = "none" <=> pc[w] \notin {"write", "handle"}

MemoryOK ==
    /\ queue \in Seq(Copy)
    /\ poller \in {"sleep", "fetch", "seed"}
    /\ runEvent \in BOOLEAN
    /\ runner \in {"down", "up", "stopped"}

LEMMA TypeParts ==
    /\ TypeOK <=> RowsOK /\ WorkersOK /\ MemoryOK
    /\ TypeOK' <=> RowsOK' /\ WorkersOK' /\ MemoryOK'
BY DEF TypeOK, RowsOK, WorkersOK, MemoryOK

\* No row is numbered 0: a worker that holds a copy holds a row's copy.
LEMMA CopyIsNotNoCopy ==
    /\ NoCopy \notin Copy
    /\ \A c \in Copy : c.task \in Task /\ c.task # 0 /\ c.retry \in Nat
    /\ NoCopy.task = 0
BY TaskAssumption DEF NoCopy, Copy

LEMMA StartedIsAge == 0 \in NeverStarted .. StaleTimeout + 1 /\ NeverStarted \in NeverStarted .. StaleTimeout + 1
BY BoundsAssumption DEF NeverStarted

\* Every statement of repo.py keeps the table well typed.
LEMMA StatementsKeepRows ==
    ASSUME RowsOK, NEW t \in Task,
           \/ CreateTask(t) \/ RequeueTask(t) \/ MarkTaskDone(t)
           \/ MarkTaskError(t) \/ RetryTask(t) \/ RecoverStaleTasks
    PROVE  RowsOK'
<1>1. CASE CreateTask(t) \/ MarkTaskDone(t) \/ MarkTaskError(t)
  BY <1>1 DEF RowsOK, CreateTask, MarkTaskDone, MarkTaskError
<1>2. CASE RequeueTask(t) \/ RetryTask(t)
  BY <1>2, StartedIsAge DEF RowsOK, RequeueTask, RetryTask
<1>3. CASE RecoverStaleTasks
  BY <1>3, StartedIsAge DEF RowsOK, RecoverStaleTasks
<1> QED
  BY <1>1, <1>2, <1>3

LEMMA InitTypeOK == Init => TypeOK
<1> SUFFICES ASSUME Init PROVE TypeOK
  OBVIOUS
<1>1. RowsOK
  BY StartedIsAge DEF Init, RowsOK
<1>2. WorkersOK
  BY DEF Init, WorkersOK
<1>3. MemoryOK
  <2>1. queue \in Seq(Copy)
    BY DEF Init
  <2> QED
    BY <2>1, Zenon DEF Init, MemoryOK
<1> QED
  BY <1>1, <1>2, <1>3, TypeParts

LEMMA ForgetKeepsTypes == Forget => WorkersOK' /\ queue' \in Seq(Copy) /\ poller' = "sleep"
BY DEF Forget, WorkersOK

\* A row statement names the row of the copy a busy worker holds.
LEMMA BusyHoldsCopy ==
    ASSUME WorkersOK, NEW w \in Worker, pc[w] \notin {"idle", "getting"}
    PROVE  held[w] \in Copy /\ held[w].task \in Task /\ held[w].retry \in Nat
BY CopyIsNotNoCopy DEF WorkersOK

LEMMA WorkerKeepsTypes ==
    ASSUME TypeOK, NEW w \in Worker, WorkerStep(w)
    PROVE  TypeOK'
<1> USE TypeParts
<1>0. RowsOK /\ WorkersOK /\ MemoryOK
  OBVIOUS
<1>1. ASSUME NEW where \in {"write", "handle"}, NEW o \in Op,
             Decide(w, where, o), pc[w] \notin {"idle", "getting"}
      PROVE  TypeOK'
  <2>1. RowsOK' /\ MemoryOK'
    BY <1>0, <1>1 DEF Decide, RowsOK, MemoryOK, rows, control
  <2>2. WorkersOK'
    BY <1>0, <1>1 DEF Decide, WorkersOK, Op
  <2> QED
    BY <2>1, <2>2
<1>2. ASSUME RowsOK', Release(w)
      PROVE  TypeOK'
  <2>1. MemoryOK'
    BY <1>0, <1>2 DEF Release, MemoryOK, control
  <2>2. WorkersOK'
    BY <1>0, <1>2 DEF Release, WorkersOK
  <2> QED
    BY <1>2, <2>1, <2>2
<1>3. CASE WorkerPoll(w) \/ WorkerTimeout(w)
  BY <1>0, <1>3 DEF WorkerPoll, WorkerTimeout, RowsOK, WorkersOK, MemoryOK, rows, control
<1>4. CASE WorkerGet(w)
  <2>1. Head(queue) \in Copy /\ Tail(queue) \in Seq(Copy)
    BY <1>0, <1>4 DEF WorkerGet, MemoryOK
  <2>2. RowsOK' /\ MemoryOK'
    BY <1>0, <1>4, <2>1 DEF WorkerGet, RowsOK, MemoryOK, rows, control
  <2>3. WorkersOK'
    BY <1>0, <1>4, <2>1, CopyIsNotNoCopy DEF WorkerGet, WorkersOK
  <2> QED
    BY <2>2, <2>3
<1>5. CASE NoAccount(w)
  BY <1>1, <1>5 DEF NoAccount, Op
<1>6. CASE GotAccount(w)
  BY <1>0, <1>6 DEF GotAccount, RowsOK, WorkersOK, MemoryOK, rows, control
<1>7. CASE AccountError(w)
  <2>1. RowsOK'
    BY <1>0, <1>7 DEF AccountError, RowsOK, rows
  <2> QED
    BY <1>2, <1>7, <2>1 DEF AccountError
<1>8. CASE WorkDone(w) \/ WorkRefused(w)
  BY <1>1, <1>8 DEF WorkDone, WorkRefused, Op
<1>9. ASSUME HandleUnknown(w), pc[w] \notin {"idle", "getting"}
      PROVE  TypeOK'
  <2>1. PICK o \in Op : Decide(w, "handle", o)
    BY <1>9 DEF HandleUnknown, Op
  <2> QED
    BY <1>1, <1>9, <2>1
<1>10. CASE WorkRaises(w)
  BY <1>1, <1>9, <1>10 DEF WorkRaises, Op
<1>11. CASE Write(w)
  <2>1. held[w].task \in Task
    BY <1>0, <1>11, BusyHoldsCopy DEF Write
  <2>2. RowsOK'
    BY <1>0, <1>11, <2>1, StatementsKeepRows DEF Write
  <2> QED
    BY <1>2, <1>11, <2>2 DEF Write
<1>12. CASE WriteFails(w)
  <2>1. CASE pc[w] = "write" /\ HandleUnknown(w)
    BY <1>9, <2>1
  <2>2. CASE pc[w] = "handle" /\ Release(w) /\ UNCHANGED rows
    <3>1. RowsOK'
      BY <1>0, <2>2 DEF RowsOK, rows
    <3> QED
      BY <1>2, <2>2, <3>1
  <2> QED
    BY <1>12, <2>1, <2>2 DEF WriteFails
<1> QED
  BY <1>3, <1>4, <1>5, <1>6, <1>7, <1>8, <1>10, <1>11, <1>12 DEF WorkerStep

LEMMA NextKeepsTypes == TypeOK /\ [Next]_vars => TypeOK'
<1> SUFFICES ASSUME TypeOK, [Next]_vars PROVE TypeOK'
  OBVIOUS
<1> USE TypeParts
<1>0. RowsOK /\ WorkersOK /\ MemoryOK
  OBVIOUS
<1>1. CASE \E w \in Worker : WorkerStep(w)
  BY <1>1, WorkerKeepsTypes
<1>2. CASE \E t \in Task : Create(t) \/ PollSeed(t)
  <2>1. RowsOK'
    BY <1>0, <1>2, StatementsKeepRows DEF Create, PollSeed
  <2>2. WorkersOK' /\ MemoryOK'
    BY <1>0, <1>2 DEF Create, PollSeed, WorkersOK, MemoryOK, workers, control
  <2> QED
    BY <2>1, <2>2
<1>3. CASE PollCheck \/ PollEnd
  BY <1>0, <1>3 DEF PollCheck, PollEnd, RowsOK, WorkersOK, MemoryOK, rows, workers, control
<1>4. CASE PollFetch
  <2>1. PICK b \in Fetches : PollFetch!2!(b)
    BY <1>4 DEF PollFetch
  <2>2. RowsOK'
    BY <1>0, <1>4, <2>1, StartedIsAge DEF PollFetch, RowsOK
  <2>3. queue' \in Seq(Copy)
    BY <1>0, <2>1, FetchedCopies DEF MemoryOK
  <2>4. WorkersOK' /\ MemoryOK'
    BY <1>0, <1>4, <2>1, <2>3 DEF PollFetch, WorkersOK, MemoryOK, workers, control
  <2> QED
    BY <2>2, <2>4
<1>5. CASE Recover
  <2>1. RowsOK'
    BY <1>0, <1>5, StartedIsAge DEF Recover, RecoverStaleTasks, RowsOK
  <2>2. WorkersOK' /\ MemoryOK'
    BY <1>0, <1>5 DEF Recover, WorkersOK, MemoryOK, workers, control
  <2> QED
    BY <2>1, <2>2
<1>6. CASE RunnerStart
  <2>1. RowsOK'
    BY <1>0, <1>6, StartedIsAge DEF RunnerStart, RecoverStaleTasks, RowsOK
  <2>2. WorkersOK' /\ MemoryOK'
    BY <1>0, <1>6 DEF RunnerStart, WorkersOK, MemoryOK, workers
  <2> QED
    BY <2>1, <2>2
<1>7. CASE RunnerStartFails \/ BotStart \/ BotStop
  <2>1. RowsOK' /\ WorkersOK'
    BY <1>0, <1>7 DEF RunnerStartFails, BotStart, BotStop, RowsOK, WorkersOK, rows, workers
  <2>2. MemoryOK'
    BY <1>0, <1>7 DEF RunnerStartFails, BotStart, BotStop, MemoryOK
  <2> QED
    BY <2>1, <2>2
<1>8. CASE Crash \/ BotShutdown
  <2>1. RowsOK'
    BY <1>0, <1>8 DEF Crash, BotShutdown, RowsOK, rows
  <2>2. WorkersOK' /\ MemoryOK'
    BY <1>0, <1>8, ForgetKeepsTypes DEF Crash, BotShutdown, MemoryOK
  <2> QED
    BY <2>1, <2>2
<1>9. CASE Tick
  <2>1. RowsOK'
    BY <1>0, <1>9, BoundsAssumption DEF Tick, RowsOK, NeverStarted
  <2>2. WorkersOK' /\ MemoryOK'
    BY <1>0, <1>9 DEF Tick, WorkersOK, MemoryOK, workers, control
  <2> QED
    BY <2>1, <2>2
<1>10. CASE UNCHANGED vars
  BY <1>0, <1>10 DEF RowsOK, WorkersOK, MemoryOK, vars, rows, workers, control
<1> QED
  BY <1>1, <1>2, <1>3, <1>4, <1>5, <1>6, <1>7, <1>8, <1>9, <1>10 DEF Next, Step

LEMMA UnacknowledgedKeepsTypes == TypeOK /\ Unacknowledged => TypeOK'
<1> SUFFICES ASSUME TypeOK, Unacknowledged PROVE TypeOK'
  OBVIOUS
<1> USE TypeParts
<1>0. RowsOK /\ WorkersOK /\ MemoryOK
  OBVIOUS
<1>1. ASSUME NEW w \in Worker, WriteUnacknowledged(w) PROVE TypeOK'
  <2>1. held[w].task \in Task
    BY <1>0, <1>1, BusyHoldsCopy DEF WriteUnacknowledged
  <2>2. RowsOK'
    BY <1>0, <1>1, <2>1, StatementsKeepRows DEF WriteUnacknowledged
  <2>3. WorkersOK' /\ MemoryOK'
    BY <1>0, <1>1 DEF WriteUnacknowledged, WorkersOK, MemoryOK, Op, control
  <2> QED
    BY <2>2, <2>3
<1>2. CASE FetchUnacknowledged
  <2>1. RowsOK'
    BY <1>0, <1>2, StartedIsAge DEF FetchUnacknowledged, RowsOK
  <2>2. WorkersOK' /\ MemoryOK'
    BY <1>0, <1>2 DEF FetchUnacknowledged, WorkersOK, MemoryOK, workers, control
  <2> QED
    BY <2>1, <2>2
<1>3. CASE StartUnacknowledged
  <2>1. RowsOK'
    BY <1>0, <1>3, StartedIsAge DEF StartUnacknowledged, RecoverStaleTasks, RowsOK
  <2>2. WorkersOK' /\ MemoryOK'
    BY <1>0, <1>3 DEF StartUnacknowledged, WorkersOK, MemoryOK, workers
  <2> QED
    BY <2>1, <2>2
<1> QED
  BY <1>1, <1>2, <1>3 DEF Unacknowledged

\* The rows, the queue, the coroutines and the copies they hold stay in
\* their types, and a worker holds a copy exactly while it executes one.
THEOREM TypeCorrect == LossySpec => []TypeOK
<1>1. TypeOK /\ [Next \/ Unacknowledged]_vars => TypeOK'
  BY NextKeepsTypes, UnacknowledgedKeepsTypes
<1> QED
  BY <1>1, InitTypeOK, PTL DEF LossySpec

-----------------------------------------------------------------------------
(* The queue's bound. *)

LEMMA WorkerQueue ==
    ASSUME TypeOK, NEW w \in Worker, WorkerStep(w)
    PROVE  /\ queue' \in Seq(Copy) /\ Len(queue') <= Len(queue)
           /\ poller' = poller
<1>1. queue \in Seq(Copy)
  BY DEF TypeOK
<1>2. CASE WorkerGet(w)
  BY <1>1, <1>2 DEF WorkerGet
<1>3. CASE ~WorkerGet(w)
  BY <1>1, <1>3 DEF WorkerStep, WorkerPoll, WorkerTimeout, NoAccount, GotAccount, AccountError,
     WorkDone, WorkRefused, WorkRaises, HandleUnknown, Write, WriteFails, Decide, Release
<1> QED
  BY <1>2, <1>3

LEMMA NextKeepsRoom == TypeOK /\ PutNeverBlocks /\ [Next]_vars => PutNeverBlocks'
<1> SUFFICES ASSUME TypeOK, PutNeverBlocks, [Next]_vars PROVE PutNeverBlocks'
  OBVIOUS
<1>0. /\ queue \in Seq(Copy) /\ Len(queue) \in Nat
      /\ FetchLimit \in Nat /\ HighWater \in Nat /\ QueueMax \in Nat
  BY BoundsAssumption DEF TypeOK
<1>1. CASE \E w \in Worker : WorkerStep(w)
  <2>1. /\ Len(queue') \in Nat /\ Len(queue') <= Len(queue)
        /\ poller' = poller
    BY <1>1, WorkerQueue
  <2> QED
    BY <1>0, <2>1 DEF PutNeverBlocks
<1>2. CASE PollCheck
  BY <1>0, <1>2, RoomAssumption DEF PollCheck, PutNeverBlocks
<1>3. CASE PollFetch
  <2>1. PICK b \in Fetches : PollFetch!2!(b)
    BY <1>3 DEF PollFetch
  <2> DEFINE c == [i \in DOMAIN b |-> [task |-> b[i], retry |-> retries[b[i]]]]
  <2>2. c \in Seq(Copy) /\ Len(c) \in 0 .. FetchLimit
    BY FetchedCopies, FetchIsShort
  <2>3. Len(queue') = Len(queue) + Len(c)
    BY <1>0, <2>1, <2>2
  <2>4. poller' # "fetch"
    BY <2>1
  <2>5. Len(queue) + FetchLimit <= QueueMax
    BY <1>3 DEF PollFetch, PutNeverBlocks
  <2> QED
    BY <1>0, <2>2, <2>3, <2>4, <2>5 DEF PutNeverBlocks
<1>4. CASE Crash \/ BotShutdown
  BY <1>0, <1>4 DEF Crash, BotShutdown, Forget, PutNeverBlocks
<1>5. CASE \/ \E t \in Task : Create(t) \/ PollSeed(t)
           \/ PollEnd \/ Recover \/ RunnerStart \/ RunnerStartFails
           \/ BotStart \/ BotStop \/ Tick \/ UNCHANGED vars
  BY <1>5 DEF PutNeverBlocks, Create, PollSeed, PollEnd, Recover, RunnerStart,
     RunnerStartFails, BotStart, BotStop, Tick, vars
<1> QED
  BY <1>1, <1>2, <1>3, <1>4, <1>5 DEF Next, Step

\* However the loops interleave, the high-water check leaves room for every
\* fetch it lets through: with HighWater + FetchLimit <= QueueMax (50 + 100
\* and 500 in the code) the poller never waits on a put.
THEOREM QueueHasRoom == LossySpec => []PutNeverBlocks
<1>1. Init => PutNeverBlocks
  BY BoundsAssumption DEF Init, PutNeverBlocks
<1>2. PutNeverBlocks /\ Unacknowledged => PutNeverBlocks'
  BY DEF Unacknowledged, WriteUnacknowledged, FetchUnacknowledged, StartUnacknowledged, PutNeverBlocks
<1>3. TypeOK /\ PutNeverBlocks /\ [Next \/ Unacknowledged]_vars => PutNeverBlocks'
  BY <1>2, NextKeepsRoom
<1> QED
  BY <1>1, <1>3, TypeCorrect, PTL DEF LossySpec

-----------------------------------------------------------------------------
(* started_at is there exactly when recovery needs it. *)

StartedWhenRunning == RunningIsRecoverable /\ WaitingIsNotStarted

LEMMA StatementsKeepStart ==
    ASSUME RowsOK, StartedWhenRunning, NEW t \in Task,
           \/ CreateTask(t) \/ RequeueTask(t) \/ MarkTaskDone(t)
           \/ MarkTaskError(t) \/ RetryTask(t) \/ RecoverStaleTasks
    PROVE  StartedWhenRunning'
<1> USE DEF RowsOK, StartedWhenRunning, RunningIsRecoverable, WaitingIsNotStarted
<1>1. CASE CreateTask(t) \/ MarkTaskDone(t) \/ MarkTaskError(t)
  BY <1>1 DEF CreateTask, MarkTaskDone, MarkTaskError
<1>2. CASE RequeueTask(t) \/ RetryTask(t)
  BY <1>2 DEF RequeueTask, RetryTask
<1>3. CASE RecoverStaleTasks
  BY <1>3 DEF RecoverStaleTasks, Stale
<1> QED
  BY <1>1, <1>2, <1>3

\* A worker touches the table only through one of the statements.
LEMMA WorkerStatement ==
    ASSUME TypeOK, NEW w \in Worker, WorkerStep(w)
    PROVE  \/ UNCHANGED rows
           \/ /\ held[w].task \in Task
              /\ \/ RequeueTask(held[w].task) \/ MarkTaskDone(held[w].task)
                 \/ MarkTaskError(held[w].task) \/ RetryTask(held[w].task)
<1>1. CASE Write(w)
  <2>1. held[w].task \in Task
    BY <1>1, TypeParts, BusyHoldsCopy DEF Write
  <2> QED
    BY <1>1, <2>1 DEF Write
<1>2. CASE ~Write(w)
  BY <1>2 DEF WorkerStep, WorkerPoll, WorkerTimeout, WorkerGet, NoAccount, GotAccount,
     AccountError, WorkDone, WorkRefused, WorkRaises, HandleUnknown, WriteFails, Decide
<1> QED
  BY <1>1, <1>2

LEMMA NextKeepsStart == TypeOK /\ StartedWhenRunning /\ [Next]_vars => StartedWhenRunning'
<1> SUFFICES ASSUME TypeOK, StartedWhenRunning, [Next]_vars PROVE StartedWhenRunning'
  OBVIOUS
<1>0. RowsOK
  BY TypeParts
<1>1. ASSUME UNCHANGED rows PROVE StartedWhenRunning'
  BY <1>1 DEF rows, StartedWhenRunning, RunningIsRecoverable, WaitingIsNotStarted
<1>2. CASE \E w \in Worker : WorkerStep(w)
  BY <1>0, <1>1, <1>2, WorkerStatement, StatementsKeepStart
<1>3. CASE \E t \in Task : Create(t) \/ PollSeed(t)
  BY <1>0, <1>3, StatementsKeepStart DEF Create, PollSeed
<1>4. CASE Recover \/ RunnerStart
  <2>1. CASE Task = {}
    BY <2>1 DEF StartedWhenRunning, RunningIsRecoverable, WaitingIsNotStarted
  <2>2. CASE Task # {}
    BY <1>0, <1>4, <2>2, StatementsKeepStart DEF Recover, RunnerStart
  <2> QED
    BY <2>1, <2>2
<1>5. CASE PollFetch
  <2>1. PICK b \in Fetches : PollFetch!2!(b)
    BY <1>5 DEF PollFetch
  <2> QED
    BY <1>0, <2>1 DEF RowsOK, NeverStarted, StartedWhenRunning, RunningIsRecoverable, WaitingIsNotStarted
<1>6. CASE Tick
  BY <1>0, <1>6 DEF Tick, RowsOK, NeverStarted, StartedWhenRunning, RunningIsRecoverable, WaitingIsNotStarted
<1>7. CASE \/ PollCheck \/ PollEnd \/ RunnerStartFails \/ Crash
           \/ BotStart \/ BotStop \/ BotShutdown \/ UNCHANGED vars
  BY <1>1, <1>7 DEF PollCheck, PollEnd, RunnerStartFails, Crash, BotStart, BotStop, BotShutdown, vars
<1> QED
  BY <1>2, <1>3, <1>4, <1>5, <1>6, <1>7 DEF Next, Step

LEMMA UnacknowledgedKeepsStart ==
    TypeOK /\ StartedWhenRunning /\ Unacknowledged => StartedWhenRunning'
<1> SUFFICES ASSUME TypeOK, StartedWhenRunning, Unacknowledged PROVE StartedWhenRunning'
  OBVIOUS
<1>0. RowsOK /\ WorkersOK
  BY TypeParts
<1>1. ASSUME NEW w \in Worker, WriteUnacknowledged(w) PROVE StartedWhenRunning'
  <2>1. held[w].task \in Task
    BY <1>0, <1>1, BusyHoldsCopy DEF WriteUnacknowledged
  <2> QED
    BY <1>0, <1>1, <2>1, StatementsKeepStart DEF WriteUnacknowledged
<1>2. CASE FetchUnacknowledged
  BY <1>0, <1>2 DEF FetchUnacknowledged, RowsOK, NeverStarted, StartedWhenRunning,
     RunningIsRecoverable, WaitingIsNotStarted
<1>3. CASE StartUnacknowledged
  BY <1>0, <1>3 DEF StartUnacknowledged, RecoverStaleTasks, Stale, RowsOK, StartedWhenRunning,
     RunningIsRecoverable, WaitingIsNotStarted
<1> QED
  BY <1>1, <1>2, <1>3 DEF Unacknowledged

LEMMA StartInvariant == LossySpec => []StartedWhenRunning
<1>1. Init => StartedWhenRunning
  BY DEF Init, StartedWhenRunning, RunningIsRecoverable, WaitingIsNotStarted
<1>2. TypeOK /\ StartedWhenRunning /\ [Next \/ Unacknowledged]_vars => StartedWhenRunning'
  BY NextKeepsStart, UnacknowledgedKeepsStart
<1> QED
  BY <1>1, <1>2, TypeCorrect, PTL DEF LossySpec

\* A running row always carries the started_at that recovery selects it by.
THEOREM RunningCanBeRecovered == LossySpec => []RunningIsRecoverable
<1>1. StartedWhenRunning => RunningIsRecoverable
  BY DEF StartedWhenRunning
<1> QED
  BY <1>1, StartInvariant, PTL

\* A row that waits carries no started_at of an earlier attempt.
THEOREM WaitingHasNoStart == LossySpec => []WaitingIsNotStarted
<1>1. StartedWhenRunning => WaitingIsNotStarted
  BY DEF StartedWhenRunning
<1> QED
  BY <1>1, StartInvariant, PTL

-----------------------------------------------------------------------------
(* The prompt deployment: PromptInv is inductive. *)

LEMMA PromptIsNext == [PromptNext]_vars => [Next]_vars
BY DEF PromptNext, PromptTick, Next

LEMMA PromptIsLossy ==
    /\ PromptSpec => LossyPromptSpec
    /\ PromptSpec => LossySpec
    /\ LossyPromptSpec => LossySpec
<1>1. [PromptNext]_vars => [PromptNext \/ Unacknowledged]_vars
  OBVIOUS
<1>2. [PromptNext \/ Unacknowledged]_vars => [Next \/ Unacknowledged]_vars
  BY PromptIsNext
<1> QED
  BY <1>1, <1>2, PTL DEF PromptSpec, LossyPromptSpec, LossySpec

LEMMA PromptTypeCorrect == LossyPromptSpec => []TypeOK
BY PromptIsLossy, TypeCorrect, PTL

\* What PromptInv says of copies; the rest of it is TypeOK and the retries.
CopiesInv == OneCopy /\ CopiesAreFresh

\* The two places a copy can be.
LEMMA CopyPlaces ==
    ASSUME TypeOK
    PROVE  /\ queue \in Seq(Copy) /\ DOMAIN queue = 1 .. Len(queue) /\ Len(queue) \in Nat
           /\ \A i \in DOMAIN queue : queue[i] \in Copy /\ queue[i].task \in Task
           /\ \A w \in Worker : held[w] = NoCopy \/ (held[w] \in Copy /\ held[w].task \in Task)
           /\ \A w \in Worker : held[w] # NoCopy <=> held[w].task # 0
<1>1. queue \in Seq(Copy) /\ held \in [Worker -> Copy \union {NoCopy}]
  BY DEF TypeOK
<1> QED
  BY <1>1, CopyIsNotNoCopy

\* Steps that leave the copies where they are and the rows they are of
\* as they were.
LEMMA KeepsCopies ==
    ASSUME TypeOK, CopiesInv, UNCHANGED <<queue, held>>,
           \A c \in Copy : Fresh(c) /\ IsHeld(c.task) => Fresh(c)',
           \A w \in Worker : held[w] # NoCopy /\ ClosedUnheard(w) => ClosedUnheard(w)'
    PROVE  CopiesInv'
<1>1. OneCopy'
  BY DEF CopiesInv, OneCopy, ExclusiveExecution
<1>2. CopiesAreFresh'
  <2>1. \A i \in DOMAIN queue : Fresh(queue[i])'
    BY CopyPlaces DEF CopiesInv, CopiesAreFresh, IsHeld, Fresh
  <2>2. \A w \in Worker : held[w] # NoCopy => Fresh(held[w])' \/ ClosedUnheard(w)'
    <3> SUFFICES ASSUME NEW w \in Worker, held[w] # NoCopy
                 PROVE  Fresh(held[w])' \/ ClosedUnheard(w)'
      OBVIOUS
    <3>1. CASE Fresh(held[w])
      BY <3>1, CopyPlaces DEF IsHeld, Fresh
    <3>2. CASE ClosedUnheard(w)
      BY <3>2
    <3> QED
      BY <3>1, <3>2 DEF CopiesInv, CopiesAreFresh
  <2> QED
    BY <2>1, <2>2 DEF CopiesAreFresh, Fresh
<1> QED
  BY <1>1, <1>2 DEF CopiesInv

LEMMA GetKeepsCopies ==
    ASSUME TypeOK, CopiesInv, NEW w \in Worker, WorkerGet(w)
    PROVE  CopiesInv'
<1>1. /\ queue \in Seq(Copy) /\ queue # <<>>
      /\ held' = [held EXCEPT ![w] = queue[1]] /\ queue' = Tail(queue)
      /\ held \in [Worker -> Copy \union {NoCopy}]
      /\ UNCHANGED rows
  BY DEF WorkerGet, TypeOK
<1>2. /\ Len(queue) \in Nat \ {0} /\ DOMAIN queue = 1 .. Len(queue)
      /\ DOMAIN queue' = 1 .. Len(queue) - 1
      /\ \A i \in DOMAIN queue' : queue'[i] = queue[i + 1] /\ i + 1 \in DOMAIN queue
  BY <1>1
<1>3. \A i \in DOMAIN queue : queue[i] \in Copy
  BY <1>1, <1>2
<1>4. \A v \in Worker : held'[v] = IF v = w THEN queue[1] ELSE held[v]
  BY <1>1
<1>5. 1 \in DOMAIN queue
  BY <1>2
<1>6. OneCopy'
  <2>1. \A i, j \in DOMAIN queue' : queue'[i].task = queue'[j].task => i = j
    BY <1>2 DEF CopiesInv, OneCopy
  <2>2. \A i \in DOMAIN queue', v \in Worker : queue'[i].task # held'[v].task
    BY <1>2, <1>4, <1>5 DEF CopiesInv, OneCopy
  <2>3. ExclusiveExecution'
    BY <1>2, <1>4, <1>5 DEF CopiesInv, OneCopy, ExclusiveExecution
  <2> QED
    BY <2>1, <2>2, <2>3 DEF OneCopy
<1>7. \A c : Fresh(c) => Fresh(c)'
  BY <1>1 DEF Fresh, rows
<1>8. CopiesAreFresh'
  <2>1. \A i \in DOMAIN queue' : Fresh(queue'[i])
    BY <1>2 DEF CopiesInv, CopiesAreFresh
  <2>2. Fresh(held'[w])
    BY <1>4, <1>5 DEF CopiesInv, CopiesAreFresh
  <2>3. \A v \in Worker : v # w => held'[v] = held[v] /\ pc'[v] = pc[v]
    BY <1>4 DEF WorkerGet, TypeOK
  <2>4. \A v \in Worker : v # w /\ held'[v] # NoCopy => Fresh(held'[v]) \/ ClosedUnheard(v)'
    BY <1>1, <2>3 DEF CopiesInv, CopiesAreFresh, ClosedUnheard, rows
  <2> QED
    BY <1>1, <2>1, <2>2, <2>4 DEF CopiesAreFresh, Fresh, rows
<1> QED
  BY <1>6, <1>8 DEF CopiesInv

\* A worker lets its copy go, with or without a statement on that row.
LEMMA ReleaseKeepsCopies ==
    ASSUME TypeOK, CopiesInv, NEW w \in Worker, Release(w), held[w] # NoCopy,
           \A t \in Task : t # held[w].task => /\ status'[t] = status[t]
                                              /\ age'[t] = age[t]
                                              /\ retries'[t] = retries[t]
    PROVE  CopiesInv'
<1>1. /\ held \in [Worker -> Copy \union {NoCopy}]
      /\ queue' = queue
      /\ held' = [held EXCEPT ![w] = NoCopy]
  BY DEF Release, TypeOK
<1>2. \A v \in Worker : held'[v] = IF v = w THEN NoCopy ELSE held[v]
  BY <1>1
<1>3. OneCopy'
  <2>1. \A i \in DOMAIN queue, v \in Worker : queue[i].task # held'[v].task
    BY <1>2, CopyPlaces, CopyIsNotNoCopy DEF CopiesInv, OneCopy
  <2>2. ExclusiveExecution'
    BY <1>2, CopyPlaces, CopyIsNotNoCopy DEF CopiesInv, OneCopy, ExclusiveExecution
  <2> QED
    BY <1>1, <2>1, <2>2 DEF CopiesInv, OneCopy
<1>4. ASSUME NEW c \in Copy, Fresh(c), c.task # held[w].task
      PROVE  Fresh(c)'
  BY <1>4, CopyIsNotNoCopy DEF Fresh
<1>5. CopiesAreFresh'
  <2>1. \A i \in DOMAIN queue : Fresh(queue[i])'
    BY <1>1, <1>4, CopyPlaces DEF CopiesInv, OneCopy, CopiesAreFresh, Fresh
  <2>2. ASSUME NEW v \in Worker, v # w, held[v] # NoCopy
        PROVE  Fresh(held[v])' \/ ClosedUnheard(v)'
    <3>1. held[v] \in Copy /\ held[v].task \in Task /\ held[v].task # held[w].task
      BY <2>2, CopyPlaces DEF CopiesInv, OneCopy, ExclusiveExecution
    <3>2. held'[v] = held[v] /\ pc'[v] = pc[v]
      BY <1>2, <2>2 DEF Release, TypeOK
    <3> QED
      BY <1>4, <2>2, <3>1, <3>2 DEF CopiesInv, CopiesAreFresh, Fresh, ClosedUnheard
  <2> QED
    BY <1>1, <1>2, <2>1, <2>2 DEF CopiesAreFresh, Fresh
<1> QED
  BY <1>3, <1>5 DEF CopiesInv

LEMMA WorkerKeepsCopies ==
    ASSUME TypeOK, CopiesInv, NEW w \in Worker, WorkerStep(w)
    PROVE  CopiesInv'
<1>1. CASE WorkerGet(w)
  BY <1>1, GetKeepsCopies
<1>2. ASSUME UNCHANGED <<rows, queue, held>>, pc[w] # "handle",
             \A v \in Worker : v # w => pc'[v] = pc[v]
      PROVE  CopiesInv'
  <2>1. \A c \in Copy : Fresh(c) => Fresh(c)'
    BY <1>2 DEF Fresh, rows
  <2>2. \A v \in Worker : ClosedUnheard(v) => ClosedUnheard(v)'
    BY <1>2 DEF ClosedUnheard, rows
  <2> QED
    BY <1>2, <2>1, <2>2, KeepsCopies
<1>3. CASE \/ WorkerPoll(w) \/ WorkerTimeout(w) \/ NoAccount(w) \/ GotAccount(w)
           \/ WorkDone(w) \/ WorkRefused(w) \/ WorkRaises(w)
           \/ (pc[w] = "write" /\ HandleUnknown(w))
  <2>1. \A v \in Worker : v # w => pc'[v] = pc[v]
    BY <1>3 DEF TypeOK, WorkerPoll, WorkerTimeout, NoAccount, GotAccount, WorkDone, WorkRefused,
       WorkRaises, HandleUnknown, Decide
  <2>2. UNCHANGED <<rows, queue, held>> /\ pc[w] # "handle"
    BY <1>3 DEF WorkerPoll, WorkerTimeout, NoAccount, GotAccount, WorkDone, WorkRefused,
       WorkRaises, HandleUnknown, Decide
  <2> QED
    BY <1>2, <2>1, <2>2
<1>4. CASE \/ AccountError(w)
           \/ (pc[w] = "handle" /\ Release(w) /\ UNCHANGED rows)
  <2>1. held[w] # NoCopy
    BY <1>4 DEF AccountError, TypeOK
  <2>2. Release(w) /\ UNCHANGED rows
    BY <1>4 DEF AccountError
  <2> QED
    BY <2>1, <2>2, ReleaseKeepsCopies DEF rows
<1>5. CASE Write(w)
  <2>1. held[w] # NoCopy
    BY <1>5 DEF Write, TypeOK
  <2>2. \A t \in Task : t # held[w].task => /\ status'[t] = status[t]
                                           /\ age'[t] = age[t]
                                           /\ retries'[t] = retries[t]
    BY <1>5 DEF TypeOK, Write, RequeueTask, MarkTaskDone, MarkTaskError, RetryTask
  <2> QED
    BY <1>5, <2>1, <2>2, ReleaseKeepsCopies DEF Write
<1> QED
  BY <1>1, <1>3, <1>4, <1>5 DEF WorkerStep, WriteFails

\* The worker that has closed its row and was not told so holds it still.
LEMMA UnheardKeepsCopies ==
    ASSUME TypeOK, CopiesInv, NEW w \in Worker, WriteUnacknowledged(w)
    PROVE  CopiesInv'
<1> DEFINE t == held[w].task
<1>1. held[w] # NoCopy /\ held[w] \in Copy /\ t \in Task
  BY CopyPlaces DEF WriteUnacknowledged, TypeOK
<1>2. /\ UNCHANGED <<queue, held, age, retries>>
      /\ status'[t] \in {"done", "error"} /\ pc'[w] = "handle"
      /\ \A u \in Task : u # t => status'[u] = status[u]
      /\ \A v \in Worker : v # w => pc'[v] = pc[v]
  BY <1>1 DEF WriteUnacknowledged, MarkTaskDone, MarkTaskError, TypeOK
<1>3. OneCopy'
  BY <1>2 DEF CopiesInv, OneCopy, ExclusiveExecution
<1>4. \A i \in DOMAIN queue : Fresh(queue[i])'
  BY <1>2, CopyPlaces DEF CopiesInv, OneCopy, CopiesAreFresh, Fresh
<1>5. ASSUME NEW v \in Worker, held[v] # NoCopy
      PROVE  Fresh(held[v])' \/ ClosedUnheard(v)'
  <2>1. CASE v = w
    <3>1. held[w].retry = retries[t]
      BY <1>1 DEF CopiesInv, CopiesAreFresh, Fresh, ClosedUnheard
    <3> QED
      BY <1>2, <2>1, <3>1 DEF ClosedUnheard
  <2>2. CASE v # w
    <3>1. held[v].task \in Task /\ held[v].task # t
      BY <1>5, <2>2, CopyPlaces DEF CopiesInv, OneCopy, ExclusiveExecution
    <3> QED
      BY <1>2, <1>5, <2>2, <3>1 DEF CopiesInv, CopiesAreFresh, Fresh, ClosedUnheard
  <2> QED
    BY <2>1, <2>2
<1> QED
  BY <1>2, <1>3, <1>4, <1>5 DEF CopiesInv, CopiesAreFresh, Fresh

\* A fetched row was pending, so no copy of it was about.
LEMMA FetchKeepsCopies ==
    ASSUME TypeOK, CopiesInv, PollFetch
    PROVE  CopiesInv'
<1>1. PICK b \in Fetches : PollFetch!2!(b)
  BY DEF PollFetch
<1> DEFINE c == [i \in DOMAIN b |-> [task |-> b[i], retry |-> retries[b[i]]]]
           n == Len(queue)
<1>2. /\ b \in Seq(Task) /\ DOMAIN b = 1 .. Len(b) /\ Len(b) \in Nat
      /\ \A i \in DOMAIN b : b[i] \in Pending /\ b[i] \in Range(b) /\ b[i] \in Task
      /\ Range(b) \subseteq Pending
      /\ IsFetch(b)
  BY FetchIsShort DEF Fetches
<1>3. \A i, j \in DOMAIN b : b[i] = b[j] => i = j
  <2>1. \A t \in Task : ~RunsBefore(t, t)
    BY PriorityAssumption, TaskAssumption DEF RunsBefore
  <2>2. \A i, j \in DOMAIN b : i < j => RunsBefore(b[i], b[j])
    BY <1>2 DEF IsFetch
  <2>3. \A i, j \in DOMAIN b : i < j => b[i] # b[j]
    BY <1>2, <2>1, <2>2
  <2> QED
    BY <1>2, <2>3
<1>4. /\ queue \in Seq(Copy) /\ c \in Seq(Copy) /\ Len(c) = Len(b)
      /\ queue' = queue \o c /\ held' = held /\ retries' = retries /\ n \in Nat
      /\ DOMAIN queue = 1 .. n
  BY <1>1, FetchedCopies, CopyPlaces DEF PollFetch, workers
<1>5. /\ DOMAIN queue' = 1 .. n + Len(b)
      /\ \A i \in 1 .. n : queue'[i] = queue[i]
      /\ \A i \in 1 .. n + Len(b) :
            i > n => i - n \in DOMAIN b /\ queue'[i] = [task |-> b[i - n], retry |-> retries[b[i - n]]]
  BY <1>2, <1>4
<1>6. \A d \in Copy : Fresh(d) => d.task \notin Pending /\ Fresh(d)'
  BY <1>1, <1>2, <1>4, CopyIsNotNoCopy DEF Fresh, Pending, TypeOK
<1>7. \A i \in DOMAIN b : Fresh([task |-> b[i], retry |-> retries[b[i]]])'
  BY <1>1, <1>2, <1>4, BoundsAssumption DEF Fresh, TypeOK
<1>10. \A w \in Worker : held[w] # NoCopy => held[w].task \notin Pending
  BY <1>6, CopyPlaces DEF CopiesInv, CopiesAreFresh, ClosedUnheard, Pending
<1>11. \A w \in Worker : held[w] # NoCopy => Fresh(held[w])' \/ ClosedUnheard(w)'
  <2> SUFFICES ASSUME NEW w \in Worker, held[w] # NoCopy
               PROVE  Fresh(held[w])' \/ ClosedUnheard(w)'
    OBVIOUS
  <2>1. held[w] \in Copy /\ held[w].task \in Task
    BY CopyPlaces
  <2>2. CASE Fresh(held[w])
    BY <1>4, <1>6, <2>1, <2>2 DEF Fresh
  <2>3. CASE ClosedUnheard(w)
    <3>1. status'[held[w].task] = status[held[w].task]
      BY <1>1, <1>2, <1>10, <2>1
    <3>2. pc' = pc
      BY DEF PollFetch, workers
    <3> QED
      BY <1>4, <2>3, <3>1, <3>2 DEF ClosedUnheard
  <2> QED
    BY <2>2, <2>3 DEF CopiesInv, CopiesAreFresh
<1>8. OneCopy'
  <2>1. \A i, j \in DOMAIN queue' : queue'[i].task = queue'[j].task => i = j
    <3>1. ASSUME NEW i \in DOMAIN queue', NEW j \in DOMAIN queue', i <= n, j > n
          PROVE  queue'[i].task # queue'[j].task
      BY <1>2, <1>4, <1>5, <1>6, <3>1, CopyPlaces DEF CopiesInv, CopiesAreFresh
    <3>2. ASSUME NEW i \in DOMAIN queue', NEW j \in DOMAIN queue', i > n, j > n,
                 queue'[i].task = queue'[j].task
          PROVE  i = j
      <4>1. b[i - n] = b[j - n] /\ i - n \in DOMAIN b /\ j - n \in DOMAIN b
        BY <1>5, <3>2
      <4>2. i - n = j - n
        BY <1>3, <4>1
      <4>3. i \in Int /\ j \in Int
        BY <1>2, <1>4, <1>5
      <4> QED
        BY <1>4, <4>2, <4>3
    <3>3. ASSUME NEW i \in DOMAIN queue', NEW j \in DOMAIN queue', i <= n, j <= n,
                 queue'[i].task = queue'[j].task
          PROVE  i = j
      BY <1>4, <1>5, <3>3 DEF CopiesInv, OneCopy
    <3>4. \A i \in DOMAIN queue' : i \in Int
      BY <1>2, <1>4, <1>5
    <3>5. \A i \in DOMAIN queue' : i <= n \/ i > n
      BY <1>4, <3>4
    <3> QED
      BY <3>1, <3>2, <3>3, <3>5
  <2>2. \A i \in DOMAIN queue', w \in Worker : queue'[i].task # held'[w].task
    <3> SUFFICES ASSUME NEW i \in DOMAIN queue', NEW w \in Worker
                 PROVE  queue'[i].task # held[w].task
      BY <1>4
    <3>1. CASE i \in 1 .. n
      BY <1>4, <1>5, <3>1 DEF CopiesInv, OneCopy
    <3>2. CASE i > n
      <4>1. queue'[i].task \in Pending /\ queue'[i].task # 0
        BY <1>2, <1>5, <3>2, TaskAssumption
      <4>2. held[w] # NoCopy => held[w].task \notin Pending
        BY <1>10
      <4> QED
        BY <4>1, <4>2, CopyPlaces
    <3> QED
      BY <1>2, <1>4, <1>5, <3>1, <3>2
  <2>3. ExclusiveExecution'
    BY <1>4 DEF CopiesInv, OneCopy, ExclusiveExecution
  <2> QED
    BY <2>1, <2>2, <2>3 DEF OneCopy
<1>9. CopiesAreFresh'
  <2>1. ASSUME NEW i \in DOMAIN queue' PROVE Fresh(queue[i])'
    <3>1. CASE i \in 1 .. n
      <4>1. queue'[i] = queue[i] /\ Fresh(queue[i]) /\ queue[i] \in Copy
        BY <1>4, <1>5, <3>1, CopyPlaces DEF CopiesInv, CopiesAreFresh
      <4> QED
        BY <1>6, <4>1 DEF Fresh
    <3>2. CASE i > n
      <4>1. i - n \in DOMAIN b /\ queue'[i] = [task |-> b[i - n], retry |-> retries[b[i - n]]]
        BY <1>5, <3>2
      <4> QED
        BY <1>4, <1>7, <4>1 DEF Fresh
    <3> QED
      BY <1>2, <1>4, <1>5, <3>1, <3>2
  <2> QED
    BY <1>4, <1>11, <2>1 DEF CopiesAreFresh, Fresh
<1> QED
  BY <1>8, <1>9 DEF CopiesInv

\* No row changes but waiting, stale and absent ones.
UncopiedChange ==
    \A t \in Task :
        status[t] \in {"running", "done", "error"} /\ t \notin Stale =>
            status'[t] = status[t] /\ age'[t] = age[t]

LEMMA OthersKeepCopies ==
    ASSUME TypeOK, CopiesInv, UNCHANGED <<queue, workers, retries>>,
           UncopiedChange
    PROVE  CopiesInv'
<1> USE DEF UncopiedChange
<1>1. \A c \in Copy : Fresh(c) => c.task \notin Stale
  BY BoundsAssumption DEF Fresh, Stale
<1>2. \A c \in Copy : Fresh(c) => Fresh(c)'
  BY <1>1, CopyIsNotNoCopy DEF Fresh
<1>3. \A w \in Worker : held[w] # NoCopy /\ ClosedUnheard(w) => ClosedUnheard(w)'
  BY CopyPlaces DEF ClosedUnheard, Stale, workers
<1> QED
  BY <1>2, <1>3, KeepsCopies DEF workers

LEMMA NextKeepsCopies ==
    TypeOK /\ CopiesInv /\ [PromptNext \/ Unacknowledged]_vars => CopiesInv'
<1> SUFFICES ASSUME TypeOK, CopiesInv, [PromptNext \/ Unacknowledged]_vars PROVE CopiesInv'
  OBVIOUS
<1>1. CASE \E w \in Worker : WorkerStep(w)
  BY <1>1, WorkerKeepsCopies
<1>2. CASE PollFetch
  BY <1>2, FetchKeepsCopies
<1>3. CASE \E t \in Task : Create(t) \/ PollSeed(t)
  <2>1. PICK t \in Task : CreateTask(t)
    BY <1>3 DEF Create, PollSeed
  <2>2. UNCHANGED <<queue, workers, retries>>
    BY <1>3, <2>1 DEF Create, PollSeed, CreateTask
  <2>3. UncopiedChange
    BY <2>1 DEF CreateTask, TypeOK, UncopiedChange
  <2> QED
    BY <2>2, <2>3, OthersKeepCopies
<1>4. CASE Recover \/ RunnerStart \/ StartUnacknowledged
  <2>1. RecoverStaleTasks /\ UNCHANGED <<queue, workers>>
    BY <1>4 DEF Recover, RunnerStart, StartUnacknowledged
  <2>2. UncopiedChange
    BY <2>1 DEF RecoverStaleTasks, UncopiedChange
  <2>3. UNCHANGED <<queue, workers, retries>>
    BY <2>1 DEF RecoverStaleTasks
  <2> QED
    BY <2>2, <2>3, OthersKeepCopies
<1>5. CASE Crash \/ BotShutdown
  <2>1. /\ queue' = <<>> /\ held' = [w \in Worker |-> NoCopy]
    BY <1>5 DEF Crash, BotShutdown, Forget
  <2> QED
    BY <2>1 DEF CopiesInv, OneCopy, ExclusiveExecution, CopiesAreFresh
<1>6. CASE PromptTick
  <2>1. \A t \in Task : IsHeld(t) /\ status[t] = "running" => age[t] < StaleTimeout
    BY <1>6 DEF PromptTick
  <2>2. ASSUME NEW c \in Copy, Fresh(c), IsHeld(c.task)
        PROVE  Fresh(c)'
    <3>1. age[c.task] < StaleTimeout /\ age[c.task] \in 0 .. StaleTimeout
      BY <2>1, <2>2, CopyIsNotNoCopy DEF Fresh
    <3>2. age'[c.task] \in 0 .. StaleTimeout
      BY <1>6, <2>2, <3>1, CopyIsNotNoCopy, BoundsAssumption DEF PromptTick, Tick, Fresh
    <3> QED
      BY <1>6, <2>2, <3>2 DEF PromptTick, Tick, Fresh
  <2>3. \A w \in Worker : ClosedUnheard(w) => ClosedUnheard(w)'
    BY <1>6 DEF PromptTick, Tick, ClosedUnheard, workers
  <2> QED
    BY <1>6, <2>2, <2>3, KeepsCopies DEF PromptTick, Tick, workers
<1>7. CASE \/ PollCheck \/ PollEnd \/ RunnerStartFails \/ BotStart \/ BotStop
           \/ UNCHANGED vars
  <2>1. UNCHANGED <<rows, queue, workers>>
    BY <1>7 DEF PollCheck, PollEnd, RunnerStartFails, BotStart, BotStop, vars
  <2> QED
    BY <2>1, OthersKeepCopies DEF rows, UncopiedChange
<1>8. CASE FetchUnacknowledged
  <2>1. PICK b \in Fetches :
            /\ status' = [t \in Task |-> IF t \in Range(b) THEN "running" ELSE status[t]]
            /\ age' = [t \in Task |-> IF t \in Range(b) THEN 0 ELSE age[t]]
    BY <1>8 DEF FetchUnacknowledged
  <2>2. Range(b) \subseteq Pending
    BY FetchIsShort
  <2>3. UncopiedChange
    BY <2>1, <2>2 DEF Pending, TypeOK, UncopiedChange
  <2>4. UNCHANGED <<queue, workers, retries>>
    BY <1>8 DEF FetchUnacknowledged
  <2> QED
    BY <2>3, <2>4, OthersKeepCopies
<1>9. CASE \E w \in Worker : WriteUnacknowledged(w)
  BY <1>9, UnheardKeepsCopies
<1> QED
  BY <1>1, <1>2, <1>3, <1>4, <1>5, <1>6, <1>7, <1>8, <1>9 DEF PromptNext, Step, Unacknowledged

\* The copies of a prompt deployment: one at most of each row, fresh or held
\* by the worker that closed the row.
LEMMA CopiesInvariant == LossyPromptSpec => []CopiesInv
<1>1. Init => CopiesInv
  BY DEF Init, CopiesInv, OneCopy, ExclusiveExecution, CopiesAreFresh
<1> QED
  BY <1>1, PromptTypeCorrect, NextKeepsCopies, PTL DEF LossyPromptSpec

\* No two workers execute the same row while no copy outlives the timeout,
\* even if a commit goes unacknowledged.
THEOREM Exclusive == LossyPromptSpec => []ExclusiveExecution
<1>1. CopiesInv => ExclusiveExecution
  BY DEF CopiesInv, OneCopy
<1> QED
  BY <1>1, CopiesInvariant, PTL

\* The copy an error handler decides on agrees with the row.
THEOREM Current == LossyPromptSpec => []SnapshotIsCurrent
<1>1. CopiesInv => SnapshotIsCurrent
  BY DEF CopiesInv, CopiesAreFresh, SnapshotIsCurrent, Fresh, ClosedUnheard
<1> QED
  BY <1>1, CopiesInvariant, PTL

-----------------------------------------------------------------------------
(* Retries, and the refinement of TaskLifecycle. *)

LEMMA NextKeepsRetries ==
    TypeOK /\ CopiesInv /\ RetriesAreBounded /\ [PromptNext \/ Unacknowledged]_vars
        => RetriesAreBounded'
<1> SUFFICES ASSUME TypeOK, CopiesInv, RetriesAreBounded, [PromptNext \/ Unacknowledged]_vars
             PROVE  RetriesAreBounded'
  OBVIOUS
<1>0. /\ retries \in [Task -> Nat] /\ op \in [Worker -> Op \union {"none"}]
      /\ pc \in [Worker -> {"idle", "getting", "dispatch", "work", "write", "handle"}]
      /\ held \in [Worker -> Copy \union {NoCopy}]
      /\ MaxRetry \in Nat
  BY BoundsAssumption DEF TypeOK
<1>1. ASSUME UNCHANGED <<retries, op, held>> PROVE RetriesAreBounded'
  BY <1>1 DEF RetriesAreBounded
<1>2. ASSUME NEW w \in Worker, WorkerStep(w) PROVE RetriesAreBounded'
  <2>1. ASSUME NEW where, NEW o, Decide(w, where, o),
               o = "retry" => held[w].retry < MaxRetry
        PROVE  RetriesAreBounded'
    BY <1>0, <2>1 DEF Decide, RetriesAreBounded, rows
  <2>2. ASSUME Release(w), \A t \in Task : retries'[t] <= MaxRetry
        PROVE  RetriesAreBounded'
    BY <1>0, <2>2 DEF Release, RetriesAreBounded
  <2>3. HandleUnknown(w) => RetriesAreBounded'
    BY <2>1 DEF HandleUnknown
  <2>4. CASE WorkerPoll(w) \/ WorkerTimeout(w) \/ GotAccount(w)
    BY <1>1, <2>4 DEF WorkerPoll, WorkerTimeout, GotAccount, rows
  <2>5. CASE WorkerGet(w)
    <3>1. op[w] = "none"
      BY <2>5 DEF TypeOK, WorkerGet
    <3> QED
      BY <1>0, <2>5, <3>1 DEF WorkerGet, RetriesAreBounded, rows
  <2>6. CASE NoAccount(w) \/ WorkDone(w) \/ WorkRefused(w) \/ WorkRaises(w)
    BY <2>1, <2>3, <2>6 DEF NoAccount, WorkDone, WorkRefused, WorkRaises
  <2>7. CASE AccountError(w) \/ WriteFails(w)
    BY <2>2, <2>3, <2>7 DEF AccountError, WriteFails, rows, RetriesAreBounded
  <2>8. CASE Write(w)
    <3>1. /\ held[w] # NoCopy /\ held[w].task \in Task
      BY <2>8, CopyPlaces DEF Write, TypeOK
    <3>2. held[w].retry = retries[held[w].task]
      BY <3>1 DEF CopiesInv, CopiesAreFresh, Fresh, ClosedUnheard
    <3>3. \A t \in Task : retries'[t] <= MaxRetry
      <4>1. CASE op[w] = "retry" /\ RetryTask(held[w].task)
        BY <1>0, <3>1, <3>2, <4>1 DEF RetryTask, RetriesAreBounded
      <4>2. CASE UNCHANGED retries
        BY <4>2 DEF RetriesAreBounded
      <4> QED
        BY <2>8, <4>1, <4>2 DEF Write, RequeueTask, MarkTaskDone, MarkTaskError
    <3> QED
      BY <2>2, <2>8, <3>3 DEF Write
  <2> QED
    BY <1>2, <2>4, <2>5, <2>6, <2>7, <2>8 DEF WorkerStep
<1>3. CASE Crash \/ BotShutdown
  BY <1>0, <1>3 DEF Crash, BotShutdown, Forget, RetriesAreBounded, rows
<1>4. CASE \/ \E t \in Task : Create(t) \/ PollSeed(t)
           \/ PollCheck \/ PollFetch \/ PollEnd \/ Recover
           \/ RunnerStart \/ RunnerStartFails \/ BotStart \/ BotStop
           \/ PromptTick \/ UNCHANGED vars \/ FetchUnacknowledged \/ StartUnacknowledged
  BY <1>1, <1>4 DEF FetchUnacknowledged, StartUnacknowledged, Create, PollSeed, CreateTask, PollCheck, PollFetch, PollEnd, Recover,
     RecoverStaleTasks, RunnerStart, RunnerStartFails, BotStart, BotStop, PromptTick, Tick,
     vars, rows, workers
<1>5. ASSUME NEW w \in Worker, WriteUnacknowledged(w) PROVE RetriesAreBounded'
  <2>1. UNCHANGED <<retries, held>> /\ (op'[w] = "retry" => held[w].retry < MaxRetry)
        /\ \A v \in Worker : v # w => op'[v] = op[v]
    BY <1>0, <1>5 DEF WriteUnacknowledged, MarkTaskDone, MarkTaskError
  <2> QED
    BY <2>1 DEF RetriesAreBounded
<1> QED
  BY <1>2, <1>3, <1>4, <1>5 DEF PromptNext, Step, Unacknowledged

LEMMA RetriesInvariant == LossyPromptSpec => []RetriesAreBounded
<1>1. Init => RetriesAreBounded
  BY BoundsAssumption DEF Init, RetriesAreBounded
<1> QED
  BY <1>1, PromptTypeCorrect, CopiesInvariant, NextKeepsRetries, PTL DEF LossyPromptSpec

\* What a lifecycle is told of the rows.
Shown == [t \in Task |-> IF Executed(t) THEN "running" ELSE status[t]]

LEMMA ExecutedRows ==
    ASSUME TypeOK, CopiesInv
    PROVE  /\ \A w \in Worker : held[w] # NoCopy =>
                /\ held[w].task \in Task /\ Executed(held[w].task)
                /\ held[w].retry = retries[held[w].task]
                /\ status[held[w].task] \in {"running", "done", "error"}
           /\ \A t \in Task : Executed(t) =>
                /\ t \notin Stale /\ t \notin Pending
                /\ status[t] \in {"running", "done", "error"}
<1>1. ASSUME NEW w \in Worker, held[w] # NoCopy
      PROVE  /\ held[w].task \in Task /\ Executed(held[w].task)
             /\ held[w].retry = retries[held[w].task]
             /\ status[held[w].task] \in {"running", "done", "error"}
             /\ held[w].task \notin Stale
  BY <1>1, CopyPlaces, BoundsAssumption
  DEF CopiesInv, CopiesAreFresh, Fresh, ClosedUnheard, Executed, Stale
<1>2. ASSUME NEW t \in Task, Executed(t) PROVE \E w \in Worker : held[w] # NoCopy /\ held[w].task = t
  BY <1>2, TaskAssumption DEF Executed, NoCopy
<1> QED
  BY <1>1, <1>2 DEF Pending

\* Nobody starts or stops executing a row: only the status of rows that
\* nobody executes shows.
LEMMA HeldIsShown ==
    held' = held /\ (\A t \in Task : ~Executed(t) => status'[t] = status[t])
        => Shown' = Shown
BY DEF Shown, Executed

\* A worker lets its copy go, after a statement on that row or none.
LEMMA ReleaseIsLifecycle ==
    ASSUME TypeOK, CopiesInv, NEW w \in Worker, Release(w), held[w] # NoCopy,
           \A t \in Task : t # held[w].task => status'[t] = status[t]
    PROVE  /\ \A t \in Task : Shown'[t] = IF t = held[w].task THEN status'[t] ELSE Shown[t]
           /\ Shown[held[w].task] = "running"
<1> DEFINE r == held[w].task
<1>1. \A v \in Worker : held'[v] = IF v = w THEN NoCopy ELSE held[v]
  BY DEF Release, TypeOK
<1>2. r \in Task /\ Executed(r)
  BY ExecutedRows
<1>3. \A t \in Task : Executed(t)' <=> Executed(t) /\ t # r
  <2> SUFFICES ASSUME NEW t \in Task PROVE Executed(t)' <=> Executed(t) /\ t # r
    OBVIOUS
  <2>1. t # NoCopy.task
    BY CopyIsNotNoCopy, TaskAssumption
  <2>2. \A v \in Worker : v # w => held[v].task # r
    BY <1>2, CopyPlaces DEF CopiesInv, OneCopy, ExclusiveExecution
  <2> QED
    BY <1>1, <2>1, <2>2 DEF Executed
<1> QED
  BY <1>2, <1>3 DEF Shown

LEMMA LifecycleSteps ==
    /\ \A t \in Task : Lifecycle!Submit(t) \/ Lifecycle!Retry(t) => Lifecycle!Next
    /\ \A T \in SUBSET Task : Lifecycle!Take(T) => Lifecycle!Next
    /\ \A T \in SUBSET Task : Lifecycle!GiveBack(T) => Lifecycle!Next
    /\ \A T \in SUBSET Task : Lifecycle!Close(T) => Lifecycle!Next
<1>1. \A t \in Task : Lifecycle!Submit(t) \/ Lifecycle!Retry(t) => Lifecycle!Next
  BY DEF Lifecycle!Next
<1>2. \A T \in SUBSET Task : Lifecycle!Take(T) => Lifecycle!Next
  BY DEF Lifecycle!Next
<1>3. \A T \in SUBSET Task : Lifecycle!GiveBack(T) => Lifecycle!Next
  BY DEF Lifecycle!Next
<1>4. \A T \in SUBSET Task : Lifecycle!Close(T) => Lifecycle!Next
  BY DEF Lifecycle!Next
<1> QED
  BY <1>1, <1>2, <1>3, <1>4

\* Every step is a step in the life of the rows shown, or changes nothing
\* that is shown.
LEMMA StepIsLifecycle ==
    ASSUME TypeOK, CopiesInv, RetriesAreBounded, [PromptNext \/ Unacknowledged]_vars
    PROVE  Lifecycle!Next \/ UNCHANGED <<Shown, retries>>
<1> USE DEF Lifecycle!Move
<1>0. /\ status \in [Task -> {"absent", "pending", "running", "done", "error"}]
      /\ retries \in [Task -> Nat]
  BY DEF TypeOK
<1>1. ASSUME NEW t \in Task, CreateTask(t), held' = held PROVE Lifecycle!Next
  <2>1. ~Executed(t) /\ status[t] = "absent"
    BY <1>1, ExecutedRows DEF CreateTask
  <2>2. Shown' = [u \in Task |-> IF u \in {t} THEN "pending" ELSE Shown[u]]
    BY <1>0, <1>1, <2>1 DEF CreateTask, Shown, Executed
  <2>3. Lifecycle!Submit(t)
    BY <1>1, <2>1, <2>2 DEF CreateTask, Lifecycle!Submit, Shown
  <2> QED
    BY <2>3, LifecycleSteps
<1>2. ASSUME NEW b \in Fetches, UNCHANGED <<held, retries>>,
             status' = [t \in Task |-> IF t \in Range(b) THEN "running" ELSE status[t]]
      PROVE Lifecycle!Next
  <2>1. Range(b) \in SUBSET Task /\ \A t \in Range(b) : status[t] = "pending" /\ ~Executed(t)
    BY FetchIsShort, ExecutedRows DEF Pending
  <2>2. Shown' = [t \in Task |-> IF t \in Range(b) THEN "running" ELSE Shown[t]]
    BY <1>2, <2>1 DEF Shown, Executed
  <2>3. Lifecycle!Take(Range(b))
    BY <1>2, <2>1, <2>2 DEF Lifecycle!Take, Shown
  <2> QED
    BY <2>1, <2>3, LifecycleSteps
<1>3. ASSUME RecoverStaleTasks, held' = held PROVE Lifecycle!Next
  <2>1. PICK T \in SUBSET Task : T = Stale
    BY DEF Stale
  <2>2. \A t \in T : status[t] = "running" /\ ~Executed(t)
    BY <2>1, ExecutedRows DEF Stale
  <2>3. Shown' = [t \in Task |-> IF t \in T THEN "pending" ELSE Shown[t]]
    BY <1>3, <2>1, <2>2 DEF RecoverStaleTasks, Shown, Executed
  <2>4. Lifecycle!GiveBack(T)
    BY <1>3, <2>2, <2>3 DEF RecoverStaleTasks, Lifecycle!GiveBack, Shown
  <2> QED
    BY <2>4, LifecycleSteps
<1>4. ASSUME UNCHANGED <<status, retries, held>> PROVE UNCHANGED <<Shown, retries>>
  BY <1>4, HeldIsShown
<1>5. ASSUME NEW w \in Worker, WorkerGet(w) PROVE UNCHANGED <<Shown, retries>>
  <2> DEFINE r == queue[1].task
  <2>1. /\ \A v \in Worker : held'[v] = IF v = w THEN queue[1] ELSE held[v]
        /\ held[w] = NoCopy /\ 1 \in DOMAIN queue
        /\ UNCHANGED <<status, retries>>
    BY <1>5, CopyPlaces DEF WorkerGet, TypeOK, rows
  <2>2. status[r] = "running" /\ r \in Task
    BY <2>1, CopyPlaces DEF CopiesInv, CopiesAreFresh, Fresh
  <2>3. \A t \in Task : Executed(t)' <=> Executed(t) \/ t = r
    BY <2>1, CopyIsNotNoCopy, TaskAssumption DEF Executed
  <2>4. Shown' = Shown
    BY <2>1, <2>2, <2>3 DEF Shown
  <2> QED
    BY <2>1, <2>4
<1>6. ASSUME NEW w \in Worker, Release(w), held[w] # NoCopy, retries' = retries,
             \A t \in Task : t # held[w].task => status'[t] = status[t],
             status'[held[w].task] \in {"pending", "running", "done", "error"}
      PROVE  Lifecycle!Next \/ UNCHANGED <<Shown, retries>>
  <2>0. PICK r \in Task : r = held[w].task
    BY <1>6, ExecutedRows
  <2>1. /\ Shown[r] = "running" /\ status'[r] \in {"pending", "running", "done", "error"}
        /\ \A t \in Task : Shown'[t] = IF t = r THEN status'[t] ELSE Shown[t]
    BY <1>6, <2>0, ReleaseIsLifecycle
  <2>2. Shown' = [t \in Task |-> IF t \in {r} THEN status'[r] ELSE Shown[t]]
    BY <2>1 DEF Shown
  <2>3. CASE status'[r] = "running"
    BY <1>6, <2>1, <2>2, <2>3 DEF Shown
  <2>4. CASE status'[r] = "pending"
    <3>1. Lifecycle!GiveBack({r}) /\ {r} \in SUBSET Task
      BY <1>6, <2>1, <2>2, <2>4 DEF Lifecycle!GiveBack, Shown
    <3> QED
      BY <3>1, LifecycleSteps
  <2>5. CASE status'[r] \in {"done", "error"}
    <3>1. [t \in {r} |-> status'[r]] \in [{r} -> {"done", "error"}]
      BY <2>5
    <3>2. Lifecycle!Close({r}) /\ {r} \in SUBSET Task
      BY <1>6, <2>1, <2>2, <3>1 DEF Lifecycle!Close, Shown
    <3> QED
      BY <3>2, LifecycleSteps
  <2> QED
    BY <2>1, <2>3, <2>4, <2>5
<1>7. ASSUME NEW w \in Worker, Write(w) PROVE Lifecycle!Next \/ UNCHANGED <<Shown, retries>>
  <2>1. held[w] # NoCopy /\ Release(w)
    BY <1>7 DEF Write, TypeOK
  <2>2. PICK r \in Task : r = held[w].task /\ held[w].retry = retries[r]
    BY <2>1, ExecutedRows
  <2>3. CASE RequeueTask(r) \/ MarkTaskDone(r) \/ MarkTaskError(r)
    <3>1. /\ retries' = retries /\ \A t \in Task : t # r => status'[t] = status[t]
          /\ status'[r] \in {"pending", "running", "done", "error"}
      BY <1>0, <2>2, <2>3 DEF RequeueTask, MarkTaskDone, MarkTaskError
    <3> QED
      BY <1>6, <2>1, <2>2, <3>1
  <2>4. CASE op[w] = "retry" /\ RetryTask(r)
    <3>1. retries[r] < MaxRetry
      BY <2>2, <2>4 DEF RetriesAreBounded
    <3>2. status'[r] = "pending" /\ \A t \in Task : t # r => status'[t] = status[t]
      BY <1>0, <2>2, <2>4 DEF RetryTask
    <3>3. Shown[r] = "running"
          /\ \A t \in Task : Shown'[t] = IF t = r THEN status'[t] ELSE Shown[t]
      BY <2>1, <2>2, <3>2, ReleaseIsLifecycle
    <3>4. Shown' = [t \in Task |-> IF t \in {r} THEN "pending" ELSE Shown[t]]
      BY <3>2, <3>3 DEF Shown
    <3>5. Lifecycle!Retry(r)
      BY <2>2, <2>4, <3>1, <3>3, <3>4 DEF RetryTask, Lifecycle!Retry, Shown
    <3> QED
      BY <2>2, <3>5, LifecycleSteps
  <2> QED
    BY <1>7, <2>2, <2>3, <2>4 DEF Write
<1>8. ASSUME NEW w \in Worker, Release(w), UNCHANGED rows, held[w] # NoCopy
      PROVE  Lifecycle!Next \/ UNCHANGED <<Shown, retries>>
  BY <1>6, <1>8, ExecutedRows DEF rows
<1>9. ASSUME NEW w \in Worker, WorkerStep(w)
      PROVE  Lifecycle!Next \/ UNCHANGED <<Shown, retries>>
  <2>1. CASE \/ AccountError(w)
             \/ pc[w] = "handle" /\ Release(w) /\ UNCHANGED rows
    <3>1. held[w] # NoCopy /\ Release(w) /\ UNCHANGED rows
      BY <2>1 DEF AccountError, TypeOK
    <3> QED
      BY <1>8, <3>1
  <2>2. CASE \/ WorkerPoll(w) \/ WorkerTimeout(w) \/ NoAccount(w) \/ GotAccount(w)
             \/ WorkDone(w) \/ WorkRefused(w) \/ WorkRaises(w)
             \/ pc[w] = "write" /\ HandleUnknown(w)
    BY <1>4, <2>2 DEF WorkerPoll, WorkerTimeout, NoAccount, GotAccount, WorkDone,
       WorkRefused, WorkRaises, HandleUnknown, Decide, rows
  <2> QED
    BY <1>5, <1>7, <1>9, <2>1, <2>2 DEF WorkerStep, WriteFails
<1>10. ASSUME Forget, UNCHANGED rows PROVE Lifecycle!Next
  <2>1. \A t \in Task : ~Executed(t)'
    BY <1>10, CopyIsNotNoCopy, TaskAssumption DEF Forget, Executed
  <2>2. PICK T \in SUBSET Task :
            T = {t \in Task : Executed(t) /\ status[t] \in {"done", "error"}}
    OBVIOUS
  <2>3. PICK as \in [T -> {"done", "error"}] : as = [t \in T |-> status[t]]
    BY <2>2
  <2>4. /\ \A t \in T : Shown[t] = "running"
        /\ \A t \in Task \ T : Shown[t] = status[t]
    BY <2>2, ExecutedRows DEF Shown
  <2>5. Shown' = [t \in Task |-> IF t \in T THEN as[t] ELSE Shown[t]]
    BY <1>10, <2>1, <2>3, <2>4 DEF Shown, rows
  <2>6. Lifecycle!Close(T)
    BY <1>10, <2>4, <2>5 DEF Lifecycle!Close, Shown, rows
  <2> QED
    BY <2>6, LifecycleSteps
<1>11. ASSUME NEW w \in Worker, WriteUnacknowledged(w) PROVE UNCHANGED <<Shown, retries>>
  <2>1. held[w] # NoCopy
    BY <1>11 DEF WriteUnacknowledged, TypeOK
  <2>2. \A t \in Task : ~Executed(t) => status'[t] = status[t]
    BY <1>0, <1>11, <2>1, ExecutedRows DEF WriteUnacknowledged, MarkTaskDone, MarkTaskError
  <2>3. UNCHANGED <<held, retries>>
    BY <1>11 DEF WriteUnacknowledged, MarkTaskDone, MarkTaskError
  <2> QED
    BY <2>2, <2>3, HeldIsShown
<1>12. CASE \/ PollCheck \/ PollEnd \/ RunnerStartFails \/ BotStart \/ BotStop
            \/ PromptTick \/ UNCHANGED vars
  BY <1>4, <1>12 DEF PollCheck, PollEnd, RunnerStartFails, BotStart, BotStop,
     PromptTick, Tick, vars, rows, workers
<1>13. CASE PollFetch \/ FetchUnacknowledged
  BY <1>2, <1>13 DEF PollFetch, FetchUnacknowledged, workers
<1>14. CASE \/ \E t \in Task : Create(t) \/ PollSeed(t)
            \/ Recover \/ RunnerStart \/ StartUnacknowledged
  BY <1>1, <1>3, <1>14 DEF Create, PollSeed, Recover, RunnerStart, StartUnacknowledged, workers
<1>15. CASE Crash \/ BotShutdown
  BY <1>10, <1>15 DEF Crash, BotShutdown
<1> QED
  BY <1>9, <1>11, <1>12, <1>13, <1>14, <1>15 DEF PromptNext, Step, Unacknowledged

\* The table, its poller, its workers and its recovery implement the life
\* of a task, whichever commits go unacknowledged; in particular no row is
\* retried more than MaxRetry times.
THEOREM Implements == LossyPromptSpec => ImplementsLifecycle
<1>1. Init => Lifecycle!Init
  BY TaskAssumption DEF Init, Lifecycle!Init, Executed, NoCopy
<1>2. TypeOK /\ CopiesInv /\ RetriesAreBounded /\ [PromptNext \/ Unacknowledged]_vars
      => [Lifecycle!Next]_<<Shown, retries>>
  BY StepIsLifecycle
<1>3. [Lifecycle!Next]_<<Shown, retries>>
      => [Lifecycle!Next]_<<[t \in Task |-> IF Executed(t) THEN "running" ELSE status[t]], retries>>
  BY DEF Shown
<1> QED
  BY <1>1, <1>2, <1>3, PromptTypeCorrect, CopiesInvariant, RetriesInvariant, PTL
  DEF LossyPromptSpec, ImplementsLifecycle, Lifecycle!Spec

-----------------------------------------------------------------------------
(* What is closed stays closed. *)

\* A worker's statement is on the row of the copy it holds.
LEMMA LetGoOfWorker ==
    ASSUME TypeOK, NEW w \in Worker, WorkerStep(w) \/ WriteUnacknowledged(w),
           NEW t \in Task, ~IsHeld(t)
    PROVE  status'[t] = status[t] /\ ~IsHeld(t)'
<1>1. held[w].task # t
  BY DEF IsHeld
<1>2. status'[t] = status[t]
  <2>1. CASE WorkerStep(w)
    BY <1>1, <2>1, WorkerStatement DEF rows, TypeOK, RequeueTask, MarkTaskDone,
       MarkTaskError, RetryTask
  <2>2. CASE WriteUnacknowledged(w)
    BY <1>1, <2>2 DEF WriteUnacknowledged, TypeOK, MarkTaskDone, MarkTaskError
  <2> QED
    BY <2>1, <2>2
<1>3. ~IsHeld(t)'
  <2>1. CASE WorkerGet(w)
    <3>1. queue # <<>> /\ queue' = Tail(queue) /\ held' = [held EXCEPT ![w] = queue[1]]
      BY <2>1 DEF WorkerGet
    <3>2. /\ 1 \in DOMAIN queue
          /\ \A i \in DOMAIN queue' : queue'[i] = queue[i + 1] /\ i + 1 \in DOMAIN queue
      BY <3>1, CopyPlaces
    <3>3. \A v \in Worker : held'[v] = IF v = w THEN queue[1] ELSE held[v]
      BY <3>1 DEF TypeOK
    <3> QED
      BY <3>2, <3>3 DEF IsHeld
  <2>2. CASE ~WorkerGet(w)
    <3>1. queue' = queue /\ (held' = held \/ held' = [held EXCEPT ![w] = NoCopy])
      BY <2>2 DEF WorkerStep, WorkerPoll, WorkerTimeout, NoAccount, GotAccount,
         AccountError, WorkDone, WorkRefused, WorkRaises, HandleUnknown, Write,
         WriteFails, Decide, Release, WriteUnacknowledged
    <3>2. \A v \in Worker : held'[v] = held[v] \/ held'[v] = NoCopy
      BY <3>1 DEF TypeOK
    <3>3. t # NoCopy.task
      BY CopyIsNotNoCopy, TaskAssumption
    <3> QED
      BY <3>1, <3>2, <3>3 DEF IsHeld
  <2> QED
    BY <2>1, <2>2
<1> QED
  BY <1>2, <1>3

LEMMA LetGoOfFetch ==
    ASSUME TypeOK, PollFetch, NEW t \in Task, t \notin Pending, ~IsHeld(t)
    PROVE  status'[t] = status[t] /\ ~IsHeld(t)'
<1>1. PICK b \in Fetches : PollFetch!2!(b)
  BY DEF PollFetch
<1> DEFINE c == [i \in DOMAIN b |-> [task |-> b[i], retry |-> retries[b[i]]]]
           n == Len(queue)
<1>2. Range(b) \subseteq Pending /\ DOMAIN b = 1 .. Len(b) /\ Len(b) \in Nat
      /\ \A i \in DOMAIN b : b[i] \in Pending
  BY FetchIsShort
<1>3. queue \in Seq(Copy) /\ c \in Seq(Copy) /\ Len(c) = Len(b) /\ queue' = queue \o c
      /\ n \in Nat /\ DOMAIN queue = 1 .. n
  BY <1>1, FetchedCopies, CopyPlaces
<1>4. /\ DOMAIN queue' = 1 .. n + Len(b)
      /\ \A i \in 1 .. n + Len(b) :
            IF i \in 1 .. n THEN queue'[i] = queue[i]
            ELSE i - n \in DOMAIN b /\ queue'[i].task = b[i - n]
  BY <1>2, <1>3
<1>5. held' = held
  BY DEF PollFetch, workers
<1>6. \A i \in DOMAIN queue' : queue'[i].task # t
  BY <1>2, <1>3, <1>4 DEF IsHeld
<1> QED
  BY <1>1, <1>2, <1>5, <1>6 DEF IsHeld

LEMMA LetGoOfStep ==
    ASSUME TypeOK, [Next \/ Unacknowledged]_vars,
           NEW t \in Task, status[t] \in {"done", "error"}, ~IsHeld(t)
    PROVE  status'[t] = status[t] /\ ~IsHeld(t)'
<1>0. t \notin Pending /\ t \notin Stale /\ status[t] # "absent"
      /\ status \in [Task -> {"absent", "pending", "running", "done", "error"}]
  BY DEF Pending, Stale, TypeOK
<1>1. CASE \E w \in Worker : WorkerStep(w) \/ WriteUnacknowledged(w)
  BY <1>1, LetGoOfWorker
<1>2. CASE PollFetch
  BY <1>0, <1>2, LetGoOfFetch
<1>3. CASE FetchUnacknowledged
  <2>1. PICK b \in Fetches :
            status' = [u \in Task |-> IF u \in Range(b) THEN "running" ELSE status[u]]
    BY <1>3 DEF FetchUnacknowledged
  <2>2. UNCHANGED <<queue, held>>
    BY <1>3 DEF FetchUnacknowledged, workers
  <2> QED
    BY <1>0, <2>1, <2>2, FetchIsShort DEF IsHeld
<1>4. CASE \E u \in Task : Create(u) \/ PollSeed(u)
  <2>1. PICK u \in Task : CreateTask(u)
    BY <1>4 DEF Create, PollSeed
  <2>2. UNCHANGED <<queue, held>>
    BY <1>4 DEF Create, PollSeed, workers
  <2> QED
    BY <1>0, <2>1, <2>2 DEF CreateTask, IsHeld
<1>5. CASE Recover \/ RunnerStart \/ StartUnacknowledged
  BY <1>0, <1>5 DEF Recover, RunnerStart, StartUnacknowledged, RecoverStaleTasks, workers, IsHeld
<1>6. CASE Crash \/ BotShutdown
  <2>1. queue' = <<>> /\ held' = [w \in Worker |-> NoCopy] /\ status' = status
    BY <1>6 DEF Crash, BotShutdown, Forget, rows
  <2>2. t # NoCopy.task
    BY CopyIsNotNoCopy, TaskAssumption
  <2> QED
    BY <2>1, <2>2 DEF IsHeld
<1>7. CASE \/ PollCheck \/ PollEnd \/ RunnerStartFails \/ BotStart \/ BotStop
           \/ Tick \/ UNCHANGED vars
  <2>1. UNCHANGED <<status, queue, held>>
    BY <1>7 DEF PollCheck, PollEnd, RunnerStartFails, BotStart, BotStop, Tick, vars,
       rows, workers
  <2> QED
    BY <2>1 DEF IsHeld
<1> QED
  BY <1>1, <1>2, <1>3, <1>4, <1>5, <1>6, <1>7 DEF Next, Step, Unacknowledged

\* A row that is closed and of which nobody has a copy stays closed, and
\* nobody gets a copy of it: at any speed, whatever fails.
THEOREM LetGo == LossySpec => LetGoIsFinal
<1>1. TypeOK /\ [Next \/ Unacknowledged]_vars
      => [\A t \in Task : status[t] \in {"done", "error"} /\ ~IsHeld(t) =>
            status'[t] = status[t] /\ ~IsHeld(t)']_vars
  BY LetGoOfStep
<1> QED
  BY <1>1, TypeCorrect, PTL DEF LossySpec, LetGoIsFinal

\* While every commit is acknowledged a copy is of a running row, so a row
\* that is closed has none.
CopiesRun == \A w \in Worker : held[w] # NoCopy => status[held[w].task] = "running"

LEMMA ClosedIsLetGo ==
    ASSUME TypeOK, CopiesInv, CopiesRun, NEW t \in Task, status[t] \in {"done", "error"}
    PROVE  ~IsHeld(t)
<1>1. \A i \in DOMAIN queue : queue[i].task # t
  BY DEF CopiesInv, CopiesAreFresh, Fresh
<1>2. \A w \in Worker : held[w].task # t
  BY CopyPlaces, TaskAssumption DEF CopiesRun
<1> QED
  BY <1>1, <1>2 DEF IsHeld

\* Only the worker that lets it go closes a row.
LEMMA WhoCloses ==
    ASSUME TypeOK, [PromptNext]_vars, NEW t \in Task,
           status[t] \notin {"done", "error"}, status'[t] \in {"done", "error"}
    PROVE  \E v \in Worker : held[v].task = t /\ Write(v)
<1>1. CASE \E v \in Worker : WorkerStep(v)
  <2>1. PICK v \in Worker : WorkerStep(v)
    BY <1>1
  <2>2. Write(v)
    BY <2>1 DEF WorkerStep, WorkerPoll, WorkerTimeout, WorkerGet, NoAccount, GotAccount,
       AccountError, WorkDone, WorkRefused, WorkRaises, HandleUnknown, WriteFails, Decide, rows
  <2>3. held[v].task = t
    BY <2>2 DEF Write, TypeOK, RequeueTask, MarkTaskDone, MarkTaskError, RetryTask
  <2> QED
    BY <2>2, <2>3
<1>2. CASE PollFetch
  <2>1. PICK b \in Fetches : PollFetch!2!(b)
    BY <1>2 DEF PollFetch
  <2> QED
    BY <2>1
<1>3. CASE \E u \in Task : Create(u) \/ PollSeed(u)
  <2>1. PICK u \in Task : CreateTask(u)
    BY <1>3 DEF Create, PollSeed
  <2> QED
    BY <2>1 DEF CreateTask, TypeOK
<1>4. CASE Recover \/ RunnerStart
  BY <1>4 DEF Recover, RunnerStart, RecoverStaleTasks
<1>5. CASE \/ PollCheck \/ PollEnd \/ RunnerStartFails \/ BotStart \/ BotStop
           \/ Crash \/ BotShutdown \/ PromptTick \/ UNCHANGED vars
  BY <1>5 DEF PollCheck, PollEnd, RunnerStartFails, BotStart, BotStop, Crash, BotShutdown,
     PromptTick, Tick, vars, rows
<1> QED
  BY <1>1, <1>2, <1>3, <1>4, <1>5 DEF PromptNext, Step

LEMMA PromptCopiesRun ==
    ASSUME TypeOK, TypeOK', CopiesInv, CopiesInv', CopiesRun, [PromptNext]_vars
    PROVE  CopiesRun'
<1> SUFFICES ASSUME NEW w \in Worker, held'[w] # NoCopy
             PROVE  status'[held'[w].task] = "running"
  BY DEF CopiesRun
<1>1. PICK t \in Task : t = held'[w].task
  BY CopyIsNotNoCopy DEF TypeOK
<1>2. status'[t] \in {"running", "done", "error"}
  BY <1>1 DEF CopiesInv, CopiesAreFresh, Fresh, ClosedUnheard
<1>3. ASSUME status'[t] \in {"done", "error"} PROVE FALSE
  <2>0. [Next \/ Unacknowledged]_vars
    BY PromptIsNext
  <2>1. CASE status[t] \in {"done", "error"}
    <3>1. ~IsHeld(t)'
      BY <1>1, <2>1, <2>0, ClosedIsLetGo, LetGoOfStep
    <3> QED
      BY <1>1, <3>1 DEF IsHeld
  <2>2. CASE status[t] \notin {"done", "error"}
    <3>1. PICK v \in Worker : held[v].task = t /\ Write(v)
      BY <1>1, <1>3, <2>2, WhoCloses
    <3>2. held' = [held EXCEPT ![v] = NoCopy]
      BY <3>1 DEF Write, Release
    <3>3. w # v /\ held'[w] = held[w]
      BY <3>2 DEF TypeOK
    <3>4. held[v] # NoCopy
      BY <1>1, <3>1, CopyPlaces, TaskAssumption
    <3> QED
      BY <1>1, <3>1, <3>3, <3>4 DEF CopiesInv, OneCopy, ExclusiveExecution
  <2> QED
    BY <2>1, <2>2
<1> QED
  BY <1>1, <1>2, <1>3

\* What was finished stays finished.
THEOREM Final == PromptSpec => TerminalIsFinal
<1>1. Init => CopiesRun
  BY DEF Init, CopiesRun
<1>2. PromptSpec => [](TypeOK /\ CopiesInv)
  BY PromptIsLossy, PromptTypeCorrect, CopiesInvariant, PTL
<1>3. /\ TypeOK /\ CopiesInv /\ (TypeOK /\ CopiesInv)' /\ CopiesRun /\ [PromptNext]_vars
      => CopiesRun'
  BY PromptCopiesRun
<1>4. PromptSpec => []CopiesRun
  BY <1>1, <1>2, <1>3, PTL DEF PromptSpec
<1>5. TypeOK /\ CopiesInv /\ CopiesRun /\ [PromptNext]_vars
      => [\A t \in Task : status[t] \in {"done", "error"} => status'[t] = status[t]]_vars
  BY ClosedIsLetGo, PromptIsNext, LetGoOfStep
<1> QED
  BY <1>2, <1>4, <1>5, PTL DEF PromptSpec, TerminalIsFinal
=============================================================================
