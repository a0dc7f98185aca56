------------------------- MODULE RateLimiterProofs -------------------------
(***************************************************************************)
(* Proofs about RateLimiter, for any number of workers, any caps, any      *)
(* lengths of day, hour, work and rest, and any night.                     *)
(***************************************************************************)
EXTENDS RateLimiter, FiniteSetTheorems, TLAPS

\* How many workers use the account: a number, at most Users.
LEMMA BusyIsBounded ==
    /\ Users \in Nat /\ Busy \in Nat /\ Busy <= Users
    /\ Busy' \in Nat /\ Busy' <= Users
<1>1. InFlight \in SUBSET Worker /\ InFlight' \in SUBSET Worker
  BY DEF InFlight
<1>2. /\ IsFiniteSet(InFlight) /\ Cardinality(InFlight) <= Cardinality(Worker)
      /\ IsFiniteSet(InFlight') /\ Cardinality(InFlight') <= Cardinality(Worker)
  BY <1>1, WorkerAssumption, FS_Subset
<1>3. /\ Cardinality(Worker) \in Nat /\ Cardinality(InFlight) \in Nat
      /\ Cardinality(InFlight') \in Nat
  BY <1>2, WorkerAssumption, FS_CardinalityType
<1> QED
  BY <1>2, <1>3 DEF Users, Busy

\* A worker that starts or stops using the account changes Busy by one.
LEMMA BusyChanges ==
    ASSUME TypeOK, NEW w \in Worker, NEW u, Becomes(w, u)
    PROVE  /\ user[w] = "idle" /\ u # "idle" => Busy' = Busy + 1
           /\ user[w] # "idle" /\ u = "idle" => Busy' = Busy - 1
           /\ ((user[w] = "idle") <=> (u = "idle")) => Busy' = Busy
<1> USE DEF Becomes, InFlight
<1>0. user \in [Worker -> {"idle", "granted", "working", "flooded"}]
  BY DEF TypeOK
<1>1. IsFiniteSet(InFlight) /\ Busy \in Nat
  <2>1. InFlight \in SUBSET Worker
    OBVIOUS
  <2>2. IsFiniteSet(InFlight)
    BY <2>1, WorkerAssumption, FS_Subset
  <2> QED
    BY <2>2, BusyIsBounded
<1>2. CASE user[w] = "idle" /\ u # "idle"
  <2>1. InFlight' = InFlight \union {w} /\ w \notin InFlight
    BY <1>0, <1>2
  <2> QED
    BY <1>1, <1>2, <2>1, FS_AddElement DEF Busy
<1>3. CASE user[w] # "idle" /\ u = "idle"
  <2>1. InFlight' = InFlight \ {w} /\ w \in InFlight
    BY <1>0, <1>3
  <2> QED
    BY <1>1, <1>3, <2>1, FS_RemoveElement DEF Busy
<1>4. CASE (user[w] = "idle") <=> (u = "idle")
  <2>1. InFlight' = InFlight
    BY <1>0, <1>4
  <2> QED
    BY <1>4, <2>1 DEF Busy
<1> QED
  BY <1>2, <1>3, <1>4

-----------------------------------------------------------------------------
(* Type correctness. *)

LEMMA InitTypeOK == Init => TypeOK
<1> SUFFICES ASSUME Init PROVE TypeOK
  OBVIOUS
<1>1. row \in [groups : Nat, floods : 0 .. FloodMax, today : BOOLEAN]
  BY LengthAssumption DEF Init
<1>2. user \in [Worker -> {"idle", "granted", "working", "flooded"}]
  BY DEF Init
<1> QED
  BY <1>1, <1>2, LengthAssumption DEF Init, TypeOK, None

\* What get_available does to the counters, whatever it answers.
LEMMA AskedKeepsTypes ==
    ASSUME TypeOK, Asked
    PROVE  /\ tod' = tod /\ floodAge' = floodAge /\ ban' = ban /\ row' = row
           /\ groupsToday' \in Nat /\ groupsHour' \in Nat
           /\ dayFresh' = TRUE /\ hourFresh' = TRUE
           /\ floods' \in 0 .. FloodMax
           /\ scansDay' = scansDay /\ scansHour' = scansHour
<1>1. FloodsNow \in 0 .. FloodMax
  BY LengthAssumption DEF FloodsNow, TypeOK
<1> QED
  BY <1>1 DEF Asked, RollDay, RollHour, scans, TypeOK

LEMMA WorkNowType ==
    ASSUME TypeOK
    PROVE  WorkNow \in Nat \union {None}
BY DEF TypeOK, WorkNow

LEMMA NextKeepsTypes ==
    ASSUME TypeOK, [Step]_vars
    PROVE  TypeOK'
<1>1. CASE Refuse
  BY <1>1, AskedKeepsTypes, WorkNowType DEF Refuse, TypeOK
<1>2. CASE StartRest
  <2>1. rest' \in Nat /\ work' = None /\ user' = user /\ Asked
    BY <1>2, LengthAssumption, ClockAssumption DEF StartRest
  <2> QED
    BY <2>1, AskedKeepsTypes DEF TypeOK
<1>3. ASSUME NEW w \in Worker, Grant(w) PROVE TypeOK'
  <2>1. user' \in [Worker -> {"idle", "granted", "working", "flooded"}]
    BY <1>3 DEF Grant, TypeOK
  <2>2. rest' = None /\ work' \in Nat \union {None} /\ Asked
    BY <1>3, WorkNowType DEF Grant
  <2> QED
    BY <2>1, <2>2, AskedKeepsTypes DEF TypeOK
<1>4. ASSUME NEW w \in Worker, Throttle(w) \/ Ended(w) \/ FloodSlept(w) PROVE TypeOK'
  BY <1>4 DEF Throttle, Ended, FloodSlept, Becomes, TypeOK, counters, pauses, scans
<1>5. ASSUME NEW w \in Worker, Scanned(w) PROVE TypeOK'
  BY <1>5 DEF Scanned, Becomes, TypeOK, pauses
<1>6. ASSUME NEW w \in Worker, Flooded(w) PROVE TypeOK'
  <2>1. FloodsNow \in 0 .. FloodMax
    BY LengthAssumption DEF FloodsNow, TypeOK
  <2>2. rest' \in Nat \union {None}
    BY <1>6, ClockAssumption DEF Flooded, FloodRest, TypeOK
  <2>3. floods' \in 0 .. FloodMax /\ floodAge' \in 0 .. FloodReset
    BY <1>6, <2>1, LengthAssumption DEF Flooded
  <2> QED
    BY <1>6, <2>2, <2>3 DEF Flooded, RollHour, Becomes, TypeOK, scans
<1>7. ASSUME NEW w \in Worker, Banned(w) PROVE TypeOK'
  BY <1>7, LengthAssumption DEF Banned, Becomes, TypeOK, counters, scans
<1>8. CASE Tick
  <2>1. tod' \in 0 .. DayLen - 1
    BY <1>8, ClockAssumption DEF Tick, TypeOK
  <2>2. row' \in [groups : Nat, floods : 0 .. FloodMax, today : BOOLEAN]
    BY <1>8, Zenon DEF Tick, TypeOK
  <2>3. dayFresh' \in BOOLEAN /\ hourFresh' \in BOOLEAN
    BY <1>8 DEF Tick, TypeOK
  <2>4. floodAge' \in {None} \union 0 .. FloodReset
    BY <1>8, LengthAssumption DEF Tick, TypeOK, None
  <2>5. /\ rest' \in Nat \union {None} /\ work' \in Nat \union {None}
        /\ ban' \in Nat /\ scansDay' \in Nat /\ scansHour' \in Nat
    BY <1>8 DEF Tick, TypeOK, None
  <2> QED
    BY <1>8, <2>1, <2>2, <2>3, <2>4, <2>5 DEF Tick, TypeOK
<1>9. CASE UNCHANGED vars
  BY <1>9 DEF TypeOK, vars, counters, pauses, scans
<1> QED
  BY <1>1, <1>2, <1>3, <1>4, <1>5, <1>6, <1>7, <1>8, <1>9 DEF Step, WorkerStep

\* The limiter stays well typed: no interleaving of asking, bumping and
\* rolling leaves a counter that is not a number (rate_limiter.py:88-110).
THEOREM TypeCorrect == Spec => []TypeOK
<1>1. TypeOK /\ [Step]_vars => TypeOK'
  BY NextKeepsTypes
<1> QED
  BY <1>1, InitTypeOK, PTL DEF Spec

-----------------------------------------------------------------------------
(* The caps.  What the steps do to a counter, first as arithmetic. *)

\* A counter is rolled: what it forgets was scanned by workers let in
\* before its day or hour began.
LEMMA Roll ==
    ASSUME NEW g \in Nat, NEW fresh \in BOOLEAN, NEW s \in Nat, NEW cap \in Nat \ {0},
           NEW n \in 0 .. Users, Accounted(g, fresh, s, cap, n)
    PROVE  LET r == IF fresh THEN g ELSE 0
           IN  r \in Nat /\ Accounted(r, TRUE, s, cap, n)
BY BusyIsBounded DEF Accounted

\* A worker is let in below the cap.
LEMMA LetIn ==
    ASSUME NEW g \in Nat, NEW s \in Nat, NEW cap \in Nat \ {0}, NEW n \in 0 .. Users,
           Accounted(g, TRUE, s, cap, n), g < cap, n + 1 <= Users
    PROVE  Accounted(g, TRUE, s, cap, n + 1)
BY BusyIsBounded DEF Accounted

\* A worker leaves, with or without a group scanned.
LEMMA Leave ==
    ASSUME NEW g \in Nat, NEW fresh \in BOOLEAN, NEW s \in Nat, NEW cap \in Nat,
           NEW n \in 0 .. Users, Accounted(g, fresh, s, cap, n)
    PROVE  /\ Accounted(g + 1, fresh, s + 1, cap, n - 1)
           /\ Accounted(g, fresh, s, cap, n - 1)
BY BusyIsBounded DEF Accounted

\* A day or an hour begins: nothing has been scanned in it.
LEMMA Forgotten ==
    ASSUME NEW g \in Nat, NEW fresh \in BOOLEAN, NEW s \in Nat, NEW cap \in Nat,
           NEW n \in 0 .. Users, Accounted(g, fresh, s, cap, n)
    PROVE  Accounted(g, FALSE, 0, cap, n)
BY BusyIsBounded DEF Accounted

LEMMA NextKeepsDay ==
    ASSUME TypeOK, DayInv, [Step]_vars
    PROVE  DayInv'
<1> USE DEF DayInv
<1>1. /\ groupsToday \in Nat /\ dayFresh \in BOOLEAN /\ scansDay \in Nat
      /\ DayCap \in Nat \ {0}
  BY CapAssumption DEF TypeOK
<1>2. Busy \in 0 .. Users /\ Busy' \in 0 .. Users
  BY BusyIsBounded
<1>3. ASSUME user' = user PROVE Busy' = Busy
  BY <1>3 DEF Busy, InFlight
<1>4. ASSUME Asked
      PROVE  /\ scansDay' = scansDay /\ dayFresh' /\ groupsToday' \in Nat
             /\ Accounted(groupsToday', TRUE, scansDay', DayCap, Busy)
  <2>1. /\ groupsToday' = IF dayFresh THEN groupsToday ELSE 0
        /\ scansDay' = scansDay /\ dayFresh'
    BY <1>4 DEF Asked, RollDay, scans
  <2> QED
    BY <1>1, <1>2, <2>1, Roll
<1>5. CASE Refuse \/ StartRest
  BY <1>3, <1>4, <1>5 DEF Refuse, StartRest, Accounted
<1>6. ASSUME NEW w \in Worker, Grant(w) PROVE DayInv'
  <2>1. Asked /\ groupsToday' < DayCap /\ user[w] = "idle" /\ Becomes(w, "granted")
    BY <1>6 DEF Grant, BelowCaps, Becomes
  <2>2. Busy' = Busy + 1 /\ Busy + 1 <= Users
    <3>1. Busy' = Busy + 1
      BY <2>1, BusyChanges
    <3> QED
      BY <1>2, <3>1
  <2>3. scansDay' \in Nat /\ groupsToday' \in Nat /\ dayFresh'
    BY <1>1, <1>4, <2>1
  <2>4. Accounted(groupsToday', TRUE, scansDay', DayCap, Busy + 1)
    BY <1>1, <1>2, <1>4, <2>1, <2>2, <2>3, LetIn
  <2> QED
    BY <2>2, <2>3, <2>4 DEF Accounted
<1>7. ASSUME NEW w \in Worker, Scanned(w) PROVE DayInv'
  <2>1. user[w] # "idle" /\ Becomes(w, "idle")
    BY <1>7 DEF Scanned
  <2>2. Busy' = Busy - 1
    BY <2>1, BusyChanges
  <2>3. /\ groupsToday' = groupsToday + 1 /\ scansDay' = scansDay + 1
        /\ dayFresh' = dayFresh
    BY <1>7 DEF Scanned
  <2>4. Accounted(groupsToday + 1, dayFresh, scansDay + 1, DayCap, Busy - 1)
    BY <1>1, <1>2, Leave
  <2> QED
    BY <2>2, <2>3, <2>4
<1>8. ASSUME NEW w \in Worker,
             Throttle(w) \/ Ended(w) \/ FloodSlept(w) \/ Flooded(w) \/ Banned(w)
      PROVE  DayInv'
  <2>1. PICK u \in {"idle", "working", "flooded"} : Becomes(w, u) /\ user[w] # "idle"
    BY <1>8 DEF Throttle, Ended, FloodSlept, Flooded, Banned
  <2>2. Busy' = Busy \/ Busy' = Busy - 1
    BY <2>1, BusyChanges
  <2>3. /\ groupsToday' = groupsToday /\ scansDay' = scansDay
        /\ dayFresh' = dayFresh
    BY <1>8 DEF Throttle, Ended, FloodSlept, Flooded, Banned, counters, scans
  <2>4. Accounted(groupsToday, dayFresh, scansDay, DayCap, Busy - 1)
    BY <1>1, <1>2, Leave
  <2> QED
    BY <2>2, <2>3, <2>4
<1>9. CASE Tick
  <2>1. /\ Busy' = Busy /\ groupsToday' = groupsToday
        /\ \/ dayFresh' = dayFresh /\ scansDay' = scansDay
           \/ dayFresh' = FALSE /\ scansDay' = 0
    BY <1>1, <1>3, <1>9 DEF Tick
  <2>2. Accounted(groupsToday, FALSE, 0, DayCap, Busy)
    BY <1>1, <1>2, Forgotten
  <2> QED
    BY <2>1, <2>2
<1>10. CASE UNCHANGED vars
  BY <1>3, <1>10 DEF vars, counters, scans
<1> QED
  BY <1>5, <1>6, <1>7, <1>8, <1>9, <1>10 DEF Step, WorkerStep

\* As for the day, but a flood rolls the hour as well.
LEMMA NextKeepsHour ==
    ASSUME TypeOK, HourInv, [Step]_vars
    PROVE  HourInv'
<1> USE DEF HourInv
<1>1. /\ groupsHour \in Nat /\ hourFresh \in BOOLEAN /\ scansHour \in Nat
      /\ HourCap \in Nat \ {0}
  BY CapAssumption DEF TypeOK
<1>2. Busy \in 0 .. Users /\ Busy' \in 0 .. Users
  BY BusyIsBounded
<1>3. ASSUME user' = user PROVE Busy' = Busy
  BY <1>3 DEF Busy, InFlight
<1>4. ASSUME Asked
      PROVE  /\ scansHour' = scansHour /\ hourFresh' /\ groupsHour' \in Nat
             /\ Accounted(groupsHour', TRUE, scansHour', HourCap, Busy)
  <2>1. /\ groupsHour' = IF hourFresh THEN groupsHour ELSE 0
        /\ scansHour' = scansHour /\ hourFresh'
    BY <1>4 DEF Asked, RollHour, scans
  <2> QED
    BY <1>1, <1>2, <2>1, Roll
<1>5. CASE Refuse \/ StartRest
  BY <1>3, <1>4, <1>5 DEF Refuse, StartRest, Accounted
<1>6. ASSUME NEW w \in Worker, Grant(w) PROVE HourInv'
  <2>1. Asked /\ groupsHour' < HourCap /\ user[w] = "idle" /\ Becomes(w, "granted")
    BY <1>6 DEF Grant, BelowCaps, Becomes
  <2>2. Busy' = Busy + 1 /\ Busy + 1 <= Users
    <3>1. Busy' = Busy + 1
      BY <2>1, BusyChanges
    <3> QED
      BY <1>2, <3>1
  <2>3. scansHour' \in Nat /\ groupsHour' \in Nat /\ hourFresh'
    BY <1>1, <1>4, <2>1
  <2>4. Accounted(groupsHour', TRUE, scansHour', HourCap, Busy + 1)
    BY <1>1, <1>2, <1>4, <2>1, <2>2, <2>3, LetIn
  <2> QED
    BY <2>2, <2>3, <2>4 DEF Accounted
<1>7. ASSUME NEW w \in Worker, Scanned(w) PROVE HourInv'
  <2>1. user[w] # "idle" /\ Becomes(w, "idle")
    BY <1>7 DEF Scanned
  <2>2. Busy' = Busy - 1
    BY <2>1, BusyChanges
  <2>3. /\ groupsHour' = groupsHour + 1 /\ scansHour' = scansHour + 1
        /\ hourFresh' = hourFresh
    BY <1>7 DEF Scanned
  <2>4. Accounted(groupsHour + 1, hourFresh, scansHour + 1, HourCap, Busy - 1)
    BY <1>1, <1>2, Leave
  <2> QED
    BY <2>2, <2>3, <2>4
<1>8. ASSUME NEW w \in Worker,
             Throttle(w) \/ Ended(w) \/ FloodSlept(w) \/ Banned(w)
      PROVE  HourInv'
  <2>1. PICK u \in {"idle", "working", "flooded"} : Becomes(w, u) /\ user[w] # "idle"
    BY <1>8 DEF Throttle, Ended, FloodSlept, Banned
  <2>2. Busy' = Busy \/ Busy' = Busy - 1
    BY <2>1, BusyChanges
  <2>3. /\ groupsHour' = groupsHour /\ scansHour' = scansHour
        /\ hourFresh' = hourFresh
    BY <1>8 DEF Throttle, Ended, FloodSlept, Banned, counters, scans
  <2>4. Accounted(groupsHour, hourFresh, scansHour, HourCap, Busy - 1)
    BY <1>1, <1>2, Leave
  <2> QED
    BY <2>2, <2>3, <2>4
<1>9. CASE Tick
  <2>1. /\ Busy' = Busy /\ groupsHour' = groupsHour
        /\ \/ hourFresh' = hourFresh /\ scansHour' = scansHour
           \/ hourFresh' = FALSE /\ scansHour' = 0
    BY <1>1, <1>3, <1>9 DEF Tick
  <2>2. Accounted(groupsHour, FALSE, 0, HourCap, Busy)
    BY <1>1, <1>2, Forgotten
  <2> QED
    BY <2>1, <2>2
<1>10. CASE UNCHANGED vars
  BY <1>3, <1>10 DEF vars, counters, scans
<1>11. ASSUME NEW w \in Worker, Flooded(w) PROVE HourInv'
  <2>1. user[w] # "idle" /\ Becomes(w, "flooded")
    BY <1>11 DEF Flooded
  <2>2. Busy' = Busy
    BY <2>1, BusyChanges
  <2>3. /\ groupsHour' = IF hourFresh THEN groupsHour ELSE 0
        /\ scansHour' = scansHour /\ hourFresh'
    BY <1>11 DEF Flooded, RollHour, scans
  <2>4. Accounted(groupsHour', TRUE, scansHour', HourCap, Busy)
    BY <1>1, <1>2, <2>3, Roll
  <2> QED
    BY <2>2, <2>3, <2>4 DEF Accounted
<1> QED
  BY <1>5, <1>6, <1>7, <1>8, <1>9, <1>10, <1>11 DEF Step, WorkerStep

\* Nobody is in flight at the start.
LEMMA InitNobody == Init => Busy = 0
<1> SUFFICES ASSUME Init PROVE Busy = 0
  OBVIOUS
<1>1. InFlight = {}
  BY DEF Init, InFlight
<1> QED
  BY <1>1, FS_EmptySet DEF Busy

\* The daily cap is overshot by less than two groups per worker, however
\* the workers, the rolls and midnight interleave (rate_limiter.py:88-96,
\* 142-160, 194-198).
THEOREM DayBounded == Spec => []DayBound
<1>1. Init => DayInv
  BY InitNobody, BusyIsBounded, CapAssumption DEF Init, DayInv, Accounted
<1>2. TypeOK /\ DayInv /\ [Step]_vars => DayInv'
  BY NextKeepsDay
<1>3. TypeOK /\ DayInv => DayBound
  BY BusyIsBounded, CapAssumption DEF TypeOK, DayInv, Accounted, DayBound
<1> QED
  BY <1>1, <1>2, <1>3, TypeCorrect, PTL DEF Spec

\* The hourly cap likewise (rate_limiter.py:98-110, 142-160, 194-198).
THEOREM HourBounded == Spec => []HourBound
<1>1. Init => HourInv
  BY InitNobody, BusyIsBounded, CapAssumption DEF Init, HourInv, Accounted
<1>2. TypeOK /\ HourInv /\ [Step]_vars => HourInv'
  BY NextKeepsHour
<1>3. TypeOK /\ HourInv => HourBound
  BY BusyIsBounded, CapAssumption DEF TypeOK, HourInv, Accounted, HourBound
<1> QED
  BY <1>1, <1>2, <1>3, TypeCorrect, PTL DEF Spec

-----------------------------------------------------------------------------
(* The pauses. *)

LEMMA NextKeepsPause ==
    ASSUME TypeOK, FloodPause, [Step]_vars
    PROVE  FloodPause'
<1>1. CASE Asked /\ ((~Free /\ rest' = rest) \/ Free)
  <2>1. CASE floods' = floods
    BY <1>1, <2>1, ClockAssumption DEF Asked, Free, FloodPause, TypeOK, None
  <2>2. CASE floodAge >= FloodReset
    BY <1>1, <2>2, LengthAssumption, ClockAssumption DEF Asked, FloodPause, TypeOK, None
  <2> QED
    BY <1>1, <2>1, <2>2 DEF Asked, FloodsNow
<1>2. CASE Refuse \/ StartRest
  BY <1>1, <1>2 DEF Refuse, StartRest
<1>3. ASSUME NEW w \in Worker, Grant(w) PROVE FloodPause'
  BY <1>1, <1>3 DEF Grant
<1>4. ASSUME NEW w \in Worker, Flooded(w) PROVE FloodPause'
  BY <1>4, ClockAssumption DEF Flooded, FloodRest, FloodPause
<1>5. ASSUME NEW w \in Worker,
             Throttle(w) \/ Ended(w) \/ FloodSlept(w) \/ Banned(w) \/ Scanned(w)
      PROVE  FloodPause'
  BY <1>5 DEF Throttle, Ended, FloodSlept, Banned, Scanned, FloodPause, pauses
<1>6. CASE Tick
  <2>1. /\ floods' = floods
        /\ floodAge' = IF floodAge \in 0 .. FloodReset - 1 THEN floodAge + 1 ELSE floodAge
        /\ rest' = IF rest > 0 THEN rest - 1 ELSE rest
    BY <1>6 DEF Tick
  <2> QED
    BY <2>1, ClockAssumption, LengthAssumption DEF FloodPause, TypeOK, None
<1>7. CASE UNCHANGED vars
  BY <1>7 DEF FloodPause, vars, pauses
<1> QED
  BY <1>2, <1>3, <1>4, <1>5, <1>6, <1>7 DEF Step, WorkerStep

\* A series of floods brings a full hour of rest (rate_limiter.py:202-228).
THEOREM FloodPauseIsTaken == Spec => []FloodPause
<1>1. Init => FloodPause
  BY DEF Init, FloodPause, None
<1>2. TypeOK /\ FloodPause /\ [Step]_vars => FloodPause'
  BY NextKeepsPause
<1> QED
  BY <1>1, <1>2, TypeCorrect, PTL DEF Spec

\* No step makes a rest longer than an hour, or cuts one short.
LEMMA NextKeepsRest ==
    ASSUME TypeOK, RestInv, [Step]_vars
    PROVE  RestInv' /\ (rest > 0 => rest' >= rest - 1)
<1>1. CASE Refuse
  BY <1>1, ClockAssumption DEF Refuse, Free, RestInv, TypeOK, None
<1>2. CASE StartRest
  BY <1>2, LengthAssumption, ClockAssumption DEF StartRest, Free, RestInv, TypeOK, None
<1>3. ASSUME NEW w \in Worker, Grant(w) PROVE RestInv' /\ (rest > 0 => rest' >= rest - 1)
  BY <1>3, ClockAssumption DEF Grant, Free, RestInv, TypeOK, None
<1>4. ASSUME NEW w \in Worker, Flooded(w) PROVE RestInv' /\ (rest > 0 => rest' >= rest - 1)
  BY <1>4, ClockAssumption DEF Flooded, FloodRest, RestInv, TypeOK, None
<1>5. CASE rest' = rest
  BY <1>5 DEF RestInv, TypeOK, None
<1>6. CASE Tick
  BY <1>6, ClockAssumption DEF Tick, RestInv, TypeOK, None
<1>7. ASSUME NEW w \in Worker,
             Throttle(w) \/ Ended(w) \/ FloodSlept(w) \/ Banned(w) \/ Scanned(w)
      PROVE  rest' = rest
  BY <1>7 DEF Throttle, Ended, FloodSlept, Banned, Scanned, pauses
<1>8. UNCHANGED vars => rest' = rest
  BY DEF vars, pauses
<1> QED
  BY <1>1, <1>2, <1>3, <1>4, <1>5, <1>6, <1>7, <1>8 DEF Step, WorkerStep

\* A rest once begun is served to its end (rate_limiter.py:120-140).
THEOREM RestIsNeverCut == Spec => RestIsServed
<1>1. Init => RestInv
  BY ClockAssumption DEF Init, RestInv, None
<1>2. TypeOK /\ RestInv /\ [Step]_vars => RestInv'
  BY NextKeepsRest
<1>3. TypeOK /\ RestInv /\ [Step]_vars => [rest > 0 => rest' >= rest - 1]_vars
  BY NextKeepsRest
<1> QED
  BY <1>1, <1>2, <1>3, TypeCorrect, PTL DEF Spec, RestIsServed

=============================================================================
