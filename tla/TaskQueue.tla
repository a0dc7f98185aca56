----------------------------- MODULE TaskQueue -----------------------------
(***************************************************************************)
(* The task pipeline of megaParser: the parser_tasks table, the poller     *)
(* that moves rows into an in-memory queue, the workers that execute them, *)
(* the recovery of stale rows, and the runner's start, pause, stop, crash. *)
(*                                                                         *)
(* A row of the table is what survives a crash: status, age (how long ago  *)
(* started_at was written) and retries (retry_count).  Everything else is  *)
(* memory of the process.  A worker does not re-read the row it executes:  *)
(* it holds a copy taken when the row was fetched, and the copy's          *)
(* retry_count is the one its error handler looks at.                      *)
(***************************************************************************)
EXTENDS Integers, Sequences, FiniteSets, Functions

CONSTANTS
    Task,          \* ids of the rows that may ever be created
    Priority,      \* ParserTask.priority of each row
    Worker,        \* worker coroutines (runner.worker_pool_size)
    FetchLimit,    \* rows per fetch (100 in the code)
    HighWater,     \* the poller skips its turn above this qsize (50)
    QueueMax,      \* maxsize of the asyncio.Queue (500)
    StaleTimeout,  \* stale_task_timeout_minutes, in units of Tick
    MaxRetry       \* failures that are retried (3)

ASSUME TaskAssumption == Task \subseteq Nat \ {0}
ASSUME PriorityAssumption == Priority \in [Task -> Nat]
ASSUME BoundsAssumption ==
    /\ FetchLimit \in Nat \ {0} /\ HighWater \in Nat /\ QueueMax \in Nat
    /\ StaleTimeout \in Nat /\ MaxRetry \in Nat
ASSUME RoomAssumption == HighWater + FetchLimit <= QueueMax

VARIABLES
    status,    \* ParserTask.status; "absent" before the row is inserted
    age,       \* time since started_at, NeverStarted when it is NULL
    retries,   \* ParserTask.retry_count
    queue,     \* the asyncio.Queue of copies
    poller,    \* where _db_poller_loop is
    pc,        \* where each _worker_loop is
    held,      \* the copy each worker executes
    op,        \* the write each worker is about to make
    runEvent,  \* ControlBus.run_event
    runner     \* "down": no process; "stopped": a process without a runner

rows == <<status, age, retries>>
workers == <<pc, held, op>>
control == <<runEvent, runner>>
vars == <<rows, queue, poller, workers, control>>

NeverStarted == -1
NoCopy == [task |-> 0, retry |-> 0]
Copy == [task : Task, retry : Nat]
Op == {"requeue", "done", "error", "retry"}

TypeOK ==
    /\ status \in [Task -> {"absent", "pending", "running", "done", "error"}]
    /\ age \in [Task -> NeverStarted .. StaleTimeout + 1]
    /\ retries \in [Task -> Nat]
    /\ queue \in Seq(Copy)
    /\ poller \in {"sleep", "fetch", "seed"}
    /\ pc \in [Worker -> {"idle", "getting", "dispatch", "work", "write", "handle"}]
    /\ held \in [Worker -> Copy \union {NoCopy}]
    /\ op \in [Worker -> Op \union {"none"}]
    /\ runEvent \in BOOLEAN
    /\ runner \in {"down", "up", "stopped"}
    /\ \A w \in Worker :
        /\ held[w] = NoCopy <=> pc[w] \in {"idle", "getting"}
        /\ op[w] = "none" <=> pc[w] \notin {"write", "handle"}

Init ==
    /\ status = [t \in Task |-> "absent"]
    /\ age = [t \in Task |-> NeverStarted]
    /\ retries = [t \in Task |-> 0]
    /\ queue = <<>>
    /\ poller = "sleep"
    /\ pc = [w \in Worker |-> "idle"]
    /\ held = [w \in Worker |-> NoCopy]
    /\ op = [w \in Worker |-> "none"]
    /\ runEvent = FALSE
    /\ runner = "down"

-----------------------------------------------------------------------------
(* The statements of db/repo.py.  Each is one transaction, and none of the *)
(* updates by id looks at the status the row has.                          *)
(* A definition named Slip... is no part of the model: it is a mistake the *)
(* code could have made at the definition that follows it, kept to show    *)
(* that the properties below would notice.                                 *)

SlipPendingOrError == {t \in Task : status[t] \in {"pending", "error"}}

Pending == {t \in Task : status[t] = "pending"}

SlipStaleAtTimeout ==
    {t \in Task : status[t] = "running" /\ age[t] >= StaleTimeout}

\* started_at < cutoff, strictly
Stale == {t \in Task : status[t] = "running" /\ age[t] > StaleTimeout}

\* ORDER BY priority DESC, created_at: ids are created in increasing order
RunsBefore(t, u) ==
    \/ Priority[t] > Priority[u]
    \/ Priority[t] = Priority[u] /\ t < u

\* b holds the first FetchLimit pending rows, in their order
IsFetch(b) ==
    /\ \A i, j \in DOMAIN b : i < j => RunsBefore(b[i], b[j])
    /\ \A t \in Pending \ Range(b) :
        /\ Len(b) = FetchLimit
        /\ \A i \in DOMAIN b : RunsBefore(b[i], t)

Fetches == {b \in UNION {[1 .. n -> Pending] : n \in 0 .. FetchLimit} : IsFetch(b)}

CreateTask(t) ==
    /\ status[t] = "absent"
    /\ \A u \in Task : u < t => status[u] # "absent"
    /\ status' = [status EXCEPT ![t] = "pending"]
    /\ UNCHANGED <<age, retries>>

SlipRequeueKeepsStatus(t) ==
    /\ age' = [age EXCEPT ![t] = NeverStarted]
    /\ UNCHANGED <<status, retries>>

RequeueTask(t) ==
    /\ status' = [status EXCEPT ![t] = "pending"]
    /\ age' = [age EXCEPT ![t] = NeverStarted]
    /\ UNCHANGED retries

MarkTaskDone(t) ==
    /\ status' = [status EXCEPT ![t] = "done"]
    /\ UNCHANGED <<age, retries>>

MarkTaskError(t) ==
    /\ status' = [status EXCEPT ![t] = "error"]
    /\ UNCHANGED <<age, retries>>

SlipRetryKeepsStart(t) ==
    /\ status' = [status EXCEPT ![t] = "pending"]
    /\ retries' = [retries EXCEPT ![t] = @ + 1]
    /\ UNCHANGED age

RetryTask(t) ==
    /\ status' = [status EXCEPT ![t] = "pending"]
    /\ age' = [age EXCEPT ![t] = NeverStarted]
    /\ retries' = [retries EXCEPT ![t] = @ + 1]

RecoverStaleTasks ==
    /\ status' = [t \in Task |-> IF t \in Stale THEN "pending" ELSE status[t]]
    /\ age' = [t \in Task |-> IF t \in Stale THEN NeverStarted ELSE age[t]]
    /\ UNCHANGED retries

-----------------------------------------------------------------------------
(* The poller: one turn is check, fetch, and, when nothing was pending,    *)
(* seed.  A put that finds room does not suspend, so a fetch and its puts  *)
(* are one step.                                                           *)

SlipCheckLater ==
    /\ runner = "up" /\ poller = "sleep"
    /\ runEvent
    /\ Len(queue) <= HighWater + 1
    /\ poller' = "fetch"
    /\ UNCHANGED <<rows, queue, workers, control>>

PollCheck ==
    /\ runner = "up" /\ poller = "sleep"
    /\ runEvent
    /\ Len(queue) <= HighWater
    /\ poller' = "fetch"
    /\ UNCHANGED <<rows, queue, workers, control>>

SlipFetchOnly ==
    /\ poller = "fetch"
    /\ \E b \in Fetches :
        /\ queue' = queue \o [i \in DOMAIN b |-> [task |-> b[i], retry |-> retries[b[i]]]]
        /\ poller' = IF b = <<>> THEN "seed" ELSE "sleep"
    /\ UNCHANGED <<rows, workers, control>>

PollFetch ==
    /\ poller = "fetch"
    /\ \E b \in Fetches :
        /\ status' = [t \in Task |-> IF t \in Range(b) THEN "running" ELSE status[t]]
        /\ age' = [t \in Task |-> IF t \in Range(b) THEN 0 ELSE age[t]]
        /\ queue' = queue \o [i \in DOMAIN b |-> [task |-> b[i], retry |-> retries[b[i]]]]
        /\ poller' = IF b = <<>> THEN "seed" ELSE "sleep"
    /\ UNCHANGED <<retries, workers, control>>

\* _seed_tasks_from_groups inserts one row per transaction, any number of them
PollSeed(t) ==
    /\ poller = "seed"
    /\ CreateTask(t)
    /\ UNCHANGED <<queue, poller, workers, control>>

\* the seeding ends, or a query of the turn raised
PollEnd ==
    /\ poller \in {"fetch", "seed"}
    /\ poller' = "sleep"
    /\ UNCHANGED <<rows, queue, workers, control>>

\* an admin through the bot, or the CLI: needs no runner
Create(t) ==
    /\ CreateTask(t)
    /\ UNCHANGED <<queue, poller, workers, control>>

-----------------------------------------------------------------------------
(* A worker.  "write" is a pending write inside the try of _dispatch;      *)
(* "handle" is one outside it: a failure there reaches _worker_loop.       *)

WorkerPoll(w) ==
    /\ runner = "up" /\ pc[w] = "idle"
    /\ runEvent
    /\ pc' = [pc EXCEPT ![w] = "getting"]
    /\ UNCHANGED <<rows, queue, poller, held, op, control>>

\* wait_for(queue.get(), timeout=5) expires
WorkerTimeout(w) ==
    /\ pc[w] = "getting" /\ queue = <<>>
    /\ pc' = [pc EXCEPT ![w] = "idle"]
    /\ UNCHANGED <<rows, queue, poller, held, op, control>>

\* run_event is not looked at again
WorkerGet(w) ==
    /\ pc[w] = "getting" /\ queue # <<>>
    /\ held' = [held EXCEPT ![w] = Head(queue)]
    /\ queue' = Tail(queue)
    /\ pc' = [pc EXCEPT ![w] = "dispatch"]
    /\ UNCHANGED <<rows, poller, op, control>>

\* w is about to write o, in the try (where = "write") or outside it
Decide(w, where, o) ==
    /\ pc' = [pc EXCEPT ![w] = where]
    /\ op' = [op EXCEPT ![w] = o]
    /\ UNCHANGED <<rows, queue, poller, held, control>>

SlipReleaseKeepsOp(w) ==
    /\ pc' = [pc EXCEPT ![w] = "idle"]
    /\ held' = [held EXCEPT ![w] = NoCopy]
    /\ UNCHANGED <<op, queue, poller, control>>

\* the copy is dropped and the loop goes round
Release(w) ==
    /\ pc' = [pc EXCEPT ![w] = "idle"]
    /\ held' = [held EXCEPT ![w] = NoCopy]
    /\ op' = [op EXCEPT ![w] = "none"]
    /\ UNCHANGED <<queue, poller, control>>

NoAccount(w) == pc[w] = "dispatch" /\ Decide(w, "handle", "requeue")

GotAccount(w) ==
    /\ pc[w] = "dispatch"
    /\ pc' = [pc EXCEPT ![w] = "work"]
    /\ UNCHANGED <<rows, queue, poller, held, op, control>>

\* get_available raised, before the try: nobody writes the row
AccountError(w) ==
    /\ pc[w] = "dispatch"
    /\ Release(w)
    /\ UNCHANGED rows

SlipRetryOnceMore(w) ==
    Decide(w, "handle", IF held[w].retry <= MaxRetry THEN "retry" ELSE "error")

\* the else branch of _handle_exception, on the copy's retry_count
HandleUnknown(w) ==
    Decide(w, "handle", IF held[w].retry < MaxRetry THEN "retry" ELSE "error")

WorkDone(w) == pc[w] = "work" /\ Decide(w, "write", "done")

\* group not found, or an unknown task_type
WorkRefused(w) == pc[w] = "work" /\ Decide(w, "write", "error")

\* the classes of _handle_exception: floods and dead accounts requeue, a
\* private group is done, an invalid one is an error
WorkRaises(w) ==
    /\ pc[w] = "work"
    /\ \/ \E o \in {"requeue", "done", "error"} : Decide(w, "handle", o)
       \/ HandleUnknown(w)

Write(w) ==
    /\ pc[w] \in {"write", "handle"}
    /\ \/ op[w] = "requeue" /\ RequeueTask(held[w].task)
       \/ op[w] = "done" /\ MarkTaskDone(held[w].task)
       \/ op[w] = "error" /\ MarkTaskError(held[w].task)
       \/ op[w] = "retry" /\ RetryTask(held[w].task)
    /\ Release(w)

\* the write raised and was rolled back: inside the try it is handled as an
\* unknown error, outside it the copy is lost and the row stays as it is
WriteFails(w) ==
    \/ pc[w] = "write" /\ HandleUnknown(w)
    \/ pc[w] = "handle" /\ Release(w) /\ UNCHANGED rows

-----------------------------------------------------------------------------
(* Recovery, time, and the life of the runner. *)

SlipRecoverUnlessPaused ==
    /\ runner = "up" /\ runEvent /\ Stale # {}
    /\ RecoverStaleTasks
    /\ UNCHANGED <<queue, poller, workers, control>>

\* _recovery_loop: does not look at run_event
Recover ==
    /\ runner = "up" /\ Stale # {}
    /\ RecoverStaleTasks
    /\ UNCHANGED <<queue, poller, workers, control>>

\* time passes for the rows started; ages stop one above the timeout, and
\* the age of a row that is not running is never read
Tick ==
    /\ \E t \in Task : status[t] = "running" /\ age[t] \in 0 .. StaleTimeout
    /\ age' = [t \in Task |->
                IF status[t] = "running" /\ age[t] \in 0 .. StaleTimeout
                THEN age[t] + 1 ELSE age[t]]
    /\ UNCHANGED <<status, retries, queue, poller, workers, control>>

\* what ends with the runner's coroutines: the queue and every copy
Forget ==
    /\ queue' = <<>>
    /\ poller' = "sleep"
    /\ pc' = [w \in Worker |-> "idle"]
    /\ held' = [w \in Worker |-> NoCopy]
    /\ op' = [w \in Worker |-> "none"]

RunnerStart ==
    /\ runner = "down"
    /\ RecoverStaleTasks
    /\ runner' = "up" /\ runEvent' = TRUE
    /\ UNCHANGED <<queue, poller, workers>>

\* the recovery at start raised: gather() keeps the process and the bot alive
RunnerStartFails ==
    /\ runner = "down"
    /\ runner' = "stopped"
    /\ UNCHANGED <<rows, queue, poller, workers, runEvent>>

Crash ==
    /\ runner # "down"
    /\ runner' = "down" /\ runEvent' = FALSE
    /\ Forget
    /\ UNCHANGED rows

BotStart ==
    /\ runner # "down"
    /\ runEvent' = TRUE
    /\ UNCHANGED <<rows, queue, poller, workers, runner>>

BotStop ==
    /\ runner # "down"
    /\ runEvent' = FALSE
    /\ UNCHANGED <<rows, queue, poller, workers, runner>>

\* stop_event: start() cancels its tasks and returns; the process stays
BotShutdown ==
    /\ runner = "up"
    /\ runner' = "stopped"
    /\ Forget
    /\ UNCHANGED <<rows, runEvent>>

-----------------------------------------------------------------------------
WorkerStep(w) ==
    \/ WorkerPoll(w) \/ WorkerTimeout(w) \/ WorkerGet(w)
    \/ NoAccount(w) \/ GotAccount(w) \/ AccountError(w)
    \/ WorkDone(w) \/ WorkRefused(w) \/ WorkRaises(w)
    \/ Write(w) \/ WriteFails(w)

Step ==
    \/ \E t \in Task : Create(t) \/ PollSeed(t)
    \/ PollCheck \/ PollFetch \/ PollEnd
    \/ \E w \in Worker : WorkerStep(w)
    \/ Recover
    \/ RunnerStart \/ RunnerStartFails \/ Crash
    \/ BotStart \/ BotStop \/ BotShutdown

Next == Step \/ Tick

Spec == Init /\ [][Next]_vars

(***************************************************************************)
(* A transaction that commits, though the caller is told that it failed.   *)
(* For the other writes that looks like success or like nothing at all:    *)
(* outside the try of _dispatch the copy is gone either way.               *)
(***************************************************************************)

\* the row is closed, and its worker handles an unknown error
WriteUnacknowledged(w) ==
    /\ pc[w] = "write"
    /\ \/ op[w] = "done" /\ MarkTaskDone(held[w].task)
       \/ op[w] = "error" /\ MarkTaskError(held[w].task)
    /\ pc' = [pc EXCEPT ![w] = "handle"]
    /\ op' = [op EXCEPT ![w] = IF held[w].retry < MaxRetry THEN "retry" ELSE "error"]
    /\ UNCHANGED <<queue, poller, held, control>>

\* rows are marked running, and no copy of them gets into the queue
FetchUnacknowledged ==
    /\ poller = "fetch"
    /\ poller' = "sleep"
    /\ \E b \in Fetches :
        /\ b # <<>>
        /\ status' = [t \in Task |-> IF t \in Range(b) THEN "running" ELSE status[t]]
        /\ age' = [t \in Task |-> IF t \in Range(b) THEN 0 ELSE age[t]]
    /\ UNCHANGED <<retries, queue, workers, control>>

\* start() gives stale rows back and raises all the same
StartUnacknowledged ==
    /\ runner = "down"
    /\ RecoverStaleTasks
    /\ runner' = "stopped"
    /\ UNCHANGED <<queue, poller, workers, runEvent>>

Unacknowledged ==
    \/ \E w \in Worker : WriteUnacknowledged(w)
    \/ FetchUnacknowledged
    \/ StartUnacknowledged

LossySpec == Init /\ [][Next \/ Unacknowledged]_vars

(***************************************************************************)
(* The deployment the timeout is chosen for: no task is still queued or    *)
(* executed when its row becomes stale.  Nothing in the code enforces it.  *)
(***************************************************************************)
IsHeld(t) ==
    \/ \E i \in DOMAIN queue : queue[i].task = t
    \/ \E w \in Worker : held[w].task = t

PromptTick ==
    /\ \A t \in Task : IsHeld(t) /\ status[t] = "running" => age[t] < StaleTimeout
    /\ Tick

PromptNext == Step \/ PromptTick

PromptSpec == Init /\ [][PromptNext]_vars

LossyPromptSpec == Init /\ [][PromptNext \/ Unacknowledged]_vars

-----------------------------------------------------------------------------
(* Properties of every behaviour of LossySpec, and so of Spec. *)

\* The poller never suspends on a put: its high-water check, made before
\* the fetch, leaves room for a whole fetch however recovery, workers and
\* the other loops run in between (runner.py:82-88).
PutNeverBlocks ==
    /\ Len(queue) <= QueueMax
    /\ poller = "fetch" => Len(queue) + FetchLimit <= QueueMax

\* A row left "running" can always be found again: recovery selects on
\* started_at, so a running row without one would be lost for good, even
\* when stale copies of the row are written back (repo.py:531-556).
RunningIsRecoverable ==
    \A t \in Task : status[t] = "running" => age[t] # NeverStarted

\* The reverse: a row waiting to be fetched never carries the started_at of
\* an earlier attempt, and neither does one never fetched.
WaitingIsNotStarted ==
    \A t \in Task : status[t] \in {"absent", "pending"} => age[t] = NeverStarted

\* Nothing but a copy that somebody still has can reopen a closed row, on
\* time or late, whatever fails: once it is closed and the last copy is
\* gone it stays closed, and is never queued again, although the updates of
\* repo.py:497-537 do not look at the status they overwrite.
LetGoIsFinal ==
    [][\A t \in Task :
        status[t] \in {"done", "error"} /\ ~IsHeld(t) =>
            status'[t] = status[t] /\ ~IsHeld(t)']_vars

-----------------------------------------------------------------------------
(* Properties of every behaviour of LossyPromptSpec, and so of PromptSpec. *)

\* No two workers execute the same row: rows are fetched FOR UPDATE SKIP
\* LOCKED once, and come back only when their copy is gone (runner.py:188).
ExclusiveExecution ==
    \A v, w \in Worker :
        v # w /\ held[v] # NoCopy => held[v].task # held[w].task

\* The retry_count that decides whether an error is retried is the row's,
\* though the worker reads it from a copy (runner.py:319), and the row is
\* running, unless this worker has closed it and was not told so.
SnapshotIsCurrent ==
    \A w \in Worker :
        held[w] # NoCopy =>
            /\ held[w].retry = retries[held[w].task]
            /\ \/ status[held[w].task] = "running"
               \/ status[held[w].task] \in {"done", "error"} /\ pc[w] = "handle"

(***************************************************************************)
(* Why: a row has at most one copy, in the queue or in a worker, and a     *)
(* copy is of a running row, no older than the timeout, as it was fetched, *)
(* or is held by the worker that has closed the row.                       *)
(***************************************************************************)
Fresh(c) ==
    /\ status[c.task] = "running"
    /\ age[c.task] \in 0 .. StaleTimeout
    /\ c.retry = retries[c.task]

ClosedUnheard(w) ==
    /\ pc[w] = "handle"
    /\ status[held[w].task] \in {"done", "error"}
    /\ held[w].retry = retries[held[w].task]

OneCopy ==
    /\ \A i, j \in DOMAIN queue : queue[i].task = queue[j].task => i = j
    /\ \A i \in DOMAIN queue, w \in Worker : queue[i].task # held[w].task
    /\ ExclusiveExecution

CopiesAreFresh ==
    /\ \A i \in DOMAIN queue : Fresh(queue[i])
    /\ \A w \in Worker : held[w] # NoCopy => Fresh(held[w]) \/ ClosedUnheard(w)

RetriesAreBounded ==
    /\ \A t \in Task : retries[t] <= MaxRetry
    /\ \A w \in Worker : op[w] = "retry" => held[w].retry < MaxRetry

PromptInv == TypeOK /\ OneCopy /\ CopiesAreFresh /\ RetriesAreBounded

\* LossyPromptSpec implements the life of a task as models.py:226-227 names
\* it: a row that a worker executes is running until that worker lets it go,
\* for only then is what the table says the outcome.
Executed(t) == \E w \in Worker : held[w].task = t
Lifecycle ==
    INSTANCE TaskLifecycle WITH
        attempts <- retries,
        status <- [t \in Task |-> IF Executed(t) THEN "running" ELSE status[t]]
ImplementsLifecycle == Lifecycle!Spec

-----------------------------------------------------------------------------
(* Of PromptSpec alone. *)

\* A row that was finished is never executed or changed again, although
\* the updates of repo.py:497-537 do not look at its status.
TerminalIsFinal ==
    [][\A t \in Task :
        status[t] \in {"done", "error"} => status'[t] = status[t]]_vars

-----------------------------------------------------------------------------
(* Liveness.  asyncio resumes a coroutine whose wait has ended and timers  *)
(* expire, so the loops are weakly fair.                                   *)

\* Nothing but the recovery loop and the clock is needed to free a row.
LiveSpec == LossySpec /\ WF_vars(Tick) /\ WF_vars(Recover)

\* As long as a runner stays up, paused or not, no row stays "running" for
\* ever: not after a crash, a lost write, a fetch
\* whose commit was not acknowledged, or a call that never returns.
NoStranding ==
    <>[](runner = "up") =>
        \A t \in Task : status[t] = "running" ~> status[t] # "running"

\* w's coroutine is resumed, wherever it waits for something that ends
Proceed(w) ==
    \/ WorkerPoll(w) \/ WorkerGet(w)
    \/ NoAccount(w) \/ GotAccount(w) \/ AccountError(w)
    \/ WorkDone(w) \/ WorkRefused(w) \/ WorkRaises(w)
    \/ Write(w) \/ WriteFails(w)

On(t, w) == held[w].task = t

(***************************************************************************)
(* The outside world lets row t be finished if it is tried again and       *)
(* again: an account turns up, Telegram answers, the database accepts.     *)
(***************************************************************************)
Favourable(t) ==
    /\ SF_vars(\E w \in Worker : On(t, w) /\ GotAccount(w))
    /\ SF_vars(\E w \in Worker : On(t, w) /\ (WorkDone(w) \/ WorkRefused(w)))
    /\ SF_vars(\E w \in Worker : On(t, w) /\ pc[w] = "write" /\ Write(w))

FavourableSpec ==
    /\ LossyPromptSpec /\ WF_vars(PromptTick) /\ WF_vars(Recover)
    /\ WF_vars(PollCheck) /\ WF_vars(PollFetch \/ PollEnd) /\ SF_vars(PollFetch /\ queue' # queue)
    /\ \A w \in Worker : WF_vars(Proceed(w))
    /\ \A t \in Task : Favourable(t)

\* Then a runner left running finishes every pending row: lower priorities,
\* requeues, lost writes, lost answers and retries delay it and cannot starve it.
Completion ==
    <>[](runner = "up" /\ runEvent) =>
        \A t \in Task : status[t] = "pending" ~> status[t] \in {"done", "error"}
=============================================================================
