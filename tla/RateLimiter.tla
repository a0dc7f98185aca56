---------------------------- MODULE RateLimiter ----------------------------
(***************************************************************************)
(* The rate limiter of one account: day and hour counters with their caps, *)
(* the night pause, the work/rest cycle, flood pauses and bans, and the    *)
(* part of them that the account_states row carries over a restart.        *)
(*                                                                         *)
(* Several workers use the account at once: get_available asks the         *)
(* limiter and leases nothing.  The counters go up when a group has been   *)
(* scanned, long after the caps were looked at.                            *)
(*                                                                         *)
(* Time is a clock of ticks that goes round once a day; what the code      *)
(* keeps as a date, a slot or a timestamp is kept here relative to now:    *)
(* whether day_date is today, whether hour_slot is this hour, ticks left   *)
(* or elapsed.                                                             *)
(*                                                                         *)
(* A definition named Slip... is a mistake the code could have made at the *)
(* definition that follows it, kept to show that a property would notice.  *)
(***************************************************************************)
EXTENDS Integers, FiniteSets

CONSTANTS
    Worker,      \* coroutines that may use the account
    DayLen,      \* ticks in a day
    HourLen,     \* ticks in an hour
    Night,       \* ticks of the day in night_pause_utc
    DayCap,      \* max_groups_per_day, premium multiplier included
    HourCap,     \* max_groups_per_hour, likewise
    WorkLens,    \* what account_work_minutes may draw, in ticks
    RestLens,    \* what account_rest_minutes may draw
    FloodMax,    \* max_flood_waits_before_pause
    FloodReset,  \* flood_reset_hours, in ticks
    BanLen       \* length of a ban

ASSUME WorkerAssumption == IsFiniteSet(Worker)
ASSUME ClockAssumption ==
    /\ HourLen \in Nat \ {0} /\ DayLen \in Nat \ {0} /\ DayLen % HourLen = 0
    /\ Night \subseteq 0 .. DayLen - 1
ASSUME CapAssumption == DayCap \in Nat \ {0} /\ HourCap \in Nat \ {0}
\* no rest is longer than an hour, and flood_reset_hours is an hour at least
ASSUME LengthAssumption ==
    /\ WorkLens \subseteq Nat \ {0} /\ RestLens \subseteq 1 .. HourLen
    /\ FloodMax \in Nat /\ BanLen \in Nat
    /\ FloodReset \in Nat /\ FloodReset >= HourLen

VARIABLES
    tod,          \* tick of the day
    groupsToday,  \* rt.groups_today
    groupsHour,   \* rt.groups_hour
    dayFresh,     \* rt.day_date is today
    hourFresh,    \* rt.hour_slot is this hour
    floods,       \* rt.floods_hour, up to FloodMax: more is not told apart
    floodAge,     \* ticks since rt.last_flood_at, up to FloodReset
    rest,         \* ticks to rt.rest_until; 0: over, and not yet noticed
    work,         \* ticks since rt.work_started_at, up to the longest draw
    ban,          \* ticks to rt.banned_until; 0: none
    user,         \* what each worker does with the account
    row,          \* account_states: groups_today, floods_hour, day_date is today
    scansDay,     \* groups scanned since midnight (of the world, not the code)
    scansHour     \* groups scanned since the hour began

counters == <<groupsToday, groupsHour, dayFresh, hourFresh>>
pauses == <<floods, floodAge, rest, work, ban>>
scans == <<scansDay, scansHour>>
vars == <<tod, counters, pauses, user, row, scans>>

None == -1
Longest(S) == CHOOSE n \in S : \A m \in S : m <= n
InFlight == {w \in Worker : user[w] # "idle"}

TypeOK ==
    /\ tod \in 0 .. DayLen - 1
    /\ groupsToday \in Nat /\ groupsHour \in Nat
    /\ dayFresh \in BOOLEAN /\ hourFresh \in BOOLEAN
    /\ floods \in 0 .. FloodMax
    /\ floodAge \in {None} \union 0 .. FloodReset
    /\ rest \in Nat \union {None}
    /\ work \in Nat \union {None}
    /\ ban \in Nat
    /\ user \in [Worker -> {"idle", "granted", "working", "flooded"}]
    /\ row \in [groups : Nat, floods : 0 .. FloodMax, today : BOOLEAN]
    /\ scansDay \in Nat /\ scansHour \in Nat

Init ==
    /\ tod \in 0 .. DayLen - 1
    /\ groupsToday = 0 /\ groupsHour = 0
    /\ dayFresh = FALSE /\ hourFresh = FALSE
    /\ floods = 0 /\ floodAge = None /\ rest = None /\ work = None /\ ban = 0
    /\ user = [w \in Worker |-> "idle"]
    /\ row = [groups |-> 0, floods |-> 0, today |-> TRUE]
    /\ scansDay = 0 /\ scansHour = 0

-----------------------------------------------------------------------------
(* get_available keeps the accounts that are neither banned nor resting,   *)
(* which notices a rest that is over, and asks can_continue of them; while *)
(* it connects another one, this one may be banned or sent to rest.  A     *)
(* refusal that changes nothing is no step.                                *)

SlipRollDayToNull ==
    /\ dayFresh' = TRUE
    /\ groupsToday' = IF dayFresh THEN groupsToday ELSE None

SlipRollDayAlways == dayFresh' = TRUE /\ groupsToday' = 0

SlipRollDayNever == dayFresh' = TRUE /\ groupsToday' = groupsToday

RollDay ==
    /\ dayFresh' = TRUE
    /\ groupsToday' = IF dayFresh THEN groupsToday ELSE 0

\* a difference of FloodReset ticks stands for one that is just longer
FloodsNow == IF ~hourFresh /\ floodAge >= FloodReset THEN 0 ELSE floods

RollHour ==
    /\ hourFresh' = TRUE
    /\ groupsHour' = IF hourFresh THEN groupsHour ELSE 0

\* work_started_at once is_resting has noticed the end of a rest
WorkNow == IF rest = 0 THEN None ELSE work

SlipUpToCaps == groupsToday' <= DayCap /\ groupsHour' <= HourCap

BelowCaps == groupsToday' < DayCap /\ groupsHour' < HourCap

\* the counters are rolled, whatever the answer
Asked ==
    /\ RollDay /\ RollHour /\ floods' = FloodsNow
    /\ UNCHANGED <<tod, floodAge, ban, row, scans>>

SlipFreeInRest == ban = 0

Free == ban = 0 /\ rest \in {0, None}

Refuse ==
    /\ Asked
    /\ \/ ~Free /\ UNCHANGED <<rest, work>>
       \/ /\ Free /\ (tod \in Night \/ ~BelowCaps)
          /\ rest' = None /\ work' = WorkNow
    /\ UNCHANGED user

\* should_rest: work_duration_sec was drawn when the period began
StartRest ==
    /\ Free /\ Asked
    /\ tod \notin Night /\ BelowCaps
    /\ \E len \in WorkLens : WorkNow >= len
    /\ rest' \in RestLens /\ work' = None
    /\ UNCHANGED user

Grant(w) ==
    /\ user[w] = "idle"
    /\ Free /\ Asked
    /\ tod \notin Night /\ BelowCaps
    /\ \E len \in WorkLens : WorkNow < len
    /\ rest' = None /\ work' = WorkNow
    /\ user' = [user EXCEPT ![w] = "granted"]

-----------------------------------------------------------------------------
(* What a worker does with the account. *)

Becomes(w, u) == user' = [user EXCEPT ![w] = u]

\* throttle: the first operation of a period starts it
Throttle(w) ==
    /\ user[w] = "granted"
    /\ work' = IF work = None THEN 0 ELSE work
    /\ Becomes(w, "working")
    /\ UNCHANGED <<tod, counters, floods, floodAge, rest, ban, row, scans>>

\* bump("groups_today") does not roll the counters it adds to
Scanned(w) ==
    /\ user[w] = "working"
    /\ groupsToday' = groupsToday + 1 /\ groupsHour' = groupsHour + 1
    /\ scansDay' = scansDay + 1 /\ scansHour' = scansHour + 1
    /\ Becomes(w, "idle")
    /\ UNCHANGED <<tod, dayFresh, hourFresh, pauses, row>>

\* the operation ended some other way, before or after its first call
Ended(w) ==
    /\ user[w] \in {"granted", "working"}
    /\ Becomes(w, "idle")
    /\ UNCHANGED <<tod, counters, pauses, row, scans>>

SlipNoSecondPause == IF floods' >= FloodMax /\ rest <= 0 THEN HourLen ELSE rest

FloodRest == IF floods' >= FloodMax THEN HourLen ELSE rest

\* handle_flood: one pause of an hour from the FloodMax-th flood on, then
\* a short sleep of this worker alone
Flooded(w) ==
    /\ user[w] = "working"
    /\ RollHour
    /\ floods' = IF FloodsNow < FloodMax THEN FloodsNow + 1 ELSE FloodMax
    /\ floodAge' = 0
    /\ rest' = FloodRest
    /\ Becomes(w, "flooded")
    /\ UNCHANGED <<tod, groupsToday, dayFresh, work, ban, row, scans>>

FloodSlept(w) ==
    /\ user[w] = "flooded"
    /\ Becomes(w, "idle")
    /\ UNCHANGED <<tod, counters, pauses, row, scans>>

\* mark_long_ban
Banned(w) ==
    /\ user[w] = "working"
    /\ ban' = BanLen
    /\ Becomes(w, "idle")
    /\ UNCHANGED <<tod, counters, floods, floodAge, rest, work, row, scans>>

-----------------------------------------------------------------------------
(* The world: time, the persist loop, a restart. *)

Tick ==
    /\ tod' = (tod + 1) % DayLen
    /\ dayFresh' = (dayFresh /\ tod' # 0)
    /\ hourFresh' = (hourFresh /\ tod' % HourLen # 0)
    /\ scansDay' = IF tod' = 0 THEN 0 ELSE scansDay
    /\ scansHour' = IF tod' % HourLen = 0 THEN 0 ELSE scansHour
    /\ row' = [row EXCEPT !.today = @ /\ tod' # 0]
    /\ floodAge' = IF floodAge \in 0 .. FloodReset - 1 THEN floodAge + 1 ELSE floodAge
    /\ rest' = IF rest > 0 THEN rest - 1 ELSE rest
    /\ work' = IF work # None /\ work < Longest(WorkLens) THEN work + 1 ELSE work
    /\ ban' = IF ban > 0 THEN ban - 1 ELSE 0
    /\ UNCHANGED <<groupsToday, groupsHour, floods, user>>

\* persist_counters writes the counters, not day_date
Persist ==
    /\ row' = [row EXCEPT !.groups = groupsToday, !.floods = floods]
    /\ UNCHANGED <<tod, counters, pauses, user, scans>>

\* the process dies and load_all runs: reset_daily_counters, then a runtime
\* with the row's counters and ban, no day_date, no rest, no work period
Restart ==
    /\ row' = IF row.today THEN row ELSE [groups |-> 0, floods |-> 0, today |-> TRUE]
    /\ groupsToday' = row'.groups /\ floods' = row'.floods
    /\ groupsHour' = 0 /\ dayFresh' = FALSE /\ hourFresh' = FALSE
    /\ floodAge' = None /\ rest' = None /\ work' = None
    /\ user' = [w \in Worker |-> "idle"]
    /\ UNCHANGED <<tod, ban, scans>>

WorkerStep(w) ==
    \/ Grant(w) \/ Throttle(w) \/ Scanned(w) \/ Ended(w)
    \/ Flooded(w) \/ FloodSlept(w) \/ Banned(w)

Step == Refuse \/ StartRest \/ (\E w \in Worker : WorkerStep(w)) \/ Tick

\* one run of the process, as long as it may be: nothing reads the row
Spec == Init /\ [][Step]_vars

\* nothing that was counted today would be lost with the process
Saved == row.today /\ row.groups = groupsToday

\* any number of runs, each of which ends when it has just been saved
RestartSpec == Init /\ [][Step \/ Persist \/ (Saved /\ Restart)]_vars

-----------------------------------------------------------------------------
(* Properties of Spec. *)

Users == Cardinality(Worker)
Busy == Cardinality(InFlight)

\* The daily cap is looked at before a group is scanned and the counter goes
\* up after it, so the workers in flight may overshoot it; those in flight
\* at midnight also count for the day before.  More than that never happens
\* (rate_limiter.py:142-160, 194-198).
DayBound == scansDay <= DayCap - 1 + 2 * Users

\* The hourly cap has the same slack, around every full hour.
HourBound == scansHour <= HourCap - 1 + 2 * Users

(***************************************************************************)
(* Why: a worker in flight was let in below the cap, so it has a place     *)
(* reserved under DayCap - 1 + Users; and a scan the counter forgot at     *)
(* its roll was made by a worker in flight when the day began.             *)
(***************************************************************************)
Accounted(groups, fresh, scanned, cap, busy) ==
    /\ groups + busy <= cap - 1 + Users
    /\ fresh => scanned <= groups + Users
    /\ ~fresh => scanned + busy <= Users

DayInv == Accounted(groupsToday, dayFresh, scansDay, DayCap, Busy)
HourInv == Accounted(groupsHour, hourFresh, scansHour, HourCap, Busy)

\* From the FloodMax-th flood of a series on, the account is at rest for an
\* hour after the last of them, whichever workers hit them and whatever
\* rests were under way (rate_limiter.py:202-228).
FloodPause ==
    floods >= FloodMax /\ floodAge \in 0 .. HourLen - 1 => rest >= HourLen - floodAge

\* A flood pause is the longest rest there is.
RestInv == rest <= HourLen

\* A rest, once begun, is never cut short: not by the end of a work period,
\* a flood of another worker, or the caps (rate_limiter.py:120-140).
RestIsServed == [][rest > 0 => rest' >= rest - 1]_vars

(***************************************************************************)
(* Liveness: time passes, operations end, and the account is asked for     *)
(* many times per tick, so a grant that is possible again and again comes. *)
(***************************************************************************)
LiveSpec ==
    /\ Spec /\ WF_vars(Tick)
    /\ SF_vars(StartRest) /\ SF_vars(\E w \in Worker : Grant(w))
    /\ \A w \in Worker : WF_vars(Throttle(w))
    /\ \A w \in Worker : WF_vars(Scanned(w) \/ Ended(w) \/ Flooded(w) \/ Banned(w))
    /\ \A w \in Worker : WF_vars(FloodSlept(w))

\* No combination of caps, rests, pauses and bans locks an account out for
\* good: it is handed out again and again.
GrantedAgain == []<>(\E w \in Worker : user[w] = "granted")

=============================================================================
