------------------------- MODULE AccountPoolProofs -------------------------
(***************************************************************************)
(* Proofs about AccountPool, for any accounts, workers and limits.         *)
(***************************************************************************)
EXTENDS AccountPool, TLAPS

Places == {"idle", "choose", "lock", "use", "banned", "dead", "stop", "stopped", "cut"}
              \union Connecting

\* The types of what the processes do, apart from those of the accounts.
ProcsOK ==
    /\ pc \in [Proc -> Places]
    /\ acc \in [Proc -> Account \union {NoAccount}]
    /\ \A p \in Proc : acc[p] = NoAccount <=> pc[p] \in {"idle", "choose"}

AccountsOK ==
    /\ pool \subseteq Account
    /\ client \in [Account -> {"off", "on"}]
    /\ connected \in [Account -> BOOLEAN]
    /\ memBan \in [Account -> 0 .. BanLen]
    /\ status \in [Account -> {"idle", "banned", "disconnected", "dead"}]
    /\ until \in [Account -> None .. BanLen]
    /\ enabled \in [Account -> BOOLEAN]

OthersOK ==
    /\ phase \in {"down", "loading", "up", "ended"}
    /\ lock \in Proc \union {Nobody}
    /\ todo \in [Proc -> SUBSET Account]
    /\ recovery \in {"sleep", "update", "clear"}
    /\ due \subseteq Account

LEMMA TypeParts ==
    /\ TypeOK <=> ProcsOK /\ AccountsOK /\ OthersOK
    /\ TypeOK' <=> ProcsOK' /\ AccountsOK' /\ OthersOK'
BY DEF TypeOK, ProcsOK, AccountsOK, OthersOK, Places

\* A process that is not idle or choosing is busy with an account.
LEMMA BusyWithAccount ==
    ASSUME ProcsOK, NEW p \in Proc, pc[p] \notin {"idle", "choose"}
    PROVE  acc[p] \in Account
BY DEF ProcsOK

\* Going anywhere with the right account, or with none, keeps the types.
LEMMA GoesKeepsTypes ==
    ASSUME ProcsOK, NEW p \in Proc, NEW where \in Places,
           NEW a \in Account \union {NoAccount}, Goes(p, where, a),
           a = NoAccount <=> where \in {"idle", "choose"}
    PROVE  ProcsOK'
BY DEF ProcsOK, Goes

LEMMA EndsKeepsTypes ==
    ASSUME ProcsOK, NEW p \in Proc, Ends(p)
    PROVE  ProcsOK'
<1>1. Goes(p, "idle", NoAccount) /\ "idle" \in Places
  BY DEF Ends, Places
<1> QED
  BY <1>1, GoesKeepsTypes

LEMMA StaysKeepsTypes ==
    ASSUME ProcsOK, NEW p \in Proc, pc[p] \notin {"idle", "choose"},
           NEW where \in Places \ {"idle", "choose"}, Stays(p, where)
    PROVE  ProcsOK'
<1>1. Goes(p, where, acc[p]) /\ acc[p] \in Account /\ acc[p] # NoAccount
  BY BusyWithAccount, NameAssumption DEF Stays
<1> QED
  BY <1>1, GoesKeepsTypes

LEMMA InitTypeOK == Init => TypeOK
<1> SUFFICES ASSUME Init PROVE TypeOK
  OBVIOUS
<1>1. ProcsOK
  BY DEF Init, ProcsOK, Places
<1>2. AccountsOK
  BY NumberAssumption DEF Init, AccountsOK, None
<1>3. OthersOK
  BY DEF Init, OthersOK
<1> QED
  BY <1>1, <1>2, <1>3, TypeParts

\* Writing rows of expired bans keeps their types.
LEMMA ExpireKeepsTypes ==
    ASSUME AccountsOK, NEW S, Expire(S)
    PROVE  /\ status' \in [Account -> {"idle", "banned", "disconnected", "dead"}]
           /\ until' \in [Account -> None .. BanLen]
           /\ enabled' \in [Account -> BOOLEAN]
<1>1. None \in None .. BanLen
  BY NumberAssumption DEF None
<1> QED
  BY <1>1 DEF AccountsOK, Expire

LEMMA ChooseKeepsTypes ==
    ASSUME ProcsOK, OthersOK, NEW p \in Proc, NEW S \in SUBSET Account, Choose(p, S)
    PROVE  ProcsOK' /\ todo' \in [Proc -> SUBSET Account]
<1>1. ASSUME NEW a \in S, NEW rest \in SUBSET (S \ {a}),
             Goes(p, IF connected[a] THEN "use" ELSE "lock", a),
             todo' = [todo EXCEPT ![p] = rest]
      PROVE  ProcsOK' /\ todo' \in [Proc -> SUBSET Account]
  <2>1. a \in Account /\ a # NoAccount
    BY NameAssumption
  <2>2. PICK where \in {"use", "lock"} : Goes(p, where, a)
    BY <1>1
  <2>3. ProcsOK'
    BY <2>1, <2>2, GoesKeepsTypes DEF Places
  <2> QED
    BY <1>1, <2>3 DEF OthersOK
<1>2. CASE Ends(p) /\ todo' = [todo EXCEPT ![p] = {}]
  BY <1>2, EndsKeepsTypes DEF OthersOK
<1> QED
  BY <1>1, <1>2 DEF Choose

LEMMA ConnectKeepsTypes ==
    ASSUME TypeOK, NEW p \in Proc, ConnectStep(p)
    PROVE  TypeOK'
<1> USE TypeParts
<1>0. ProcsOK /\ AccountsOK /\ OthersOK
  OBVIOUS
<1>1. ASSUME pc[p] \notin {"idle", "choose"}, Obtained(p) \/ NotObtained(p) \/ Ends(p)
      PROVE  ProcsOK'
  <2>1. CASE Ends(p)
    BY <1>0, <2>1, EndsKeepsTypes
  <2>2. CASE Stays(p, "use")
    BY <1>0, <1>1, <2>2, StaysKeepsTypes DEF Places
  <2>3. CASE NotObtained(p)
    <3>1. PICK where \in {"idle", "choose"} : Goes(p, where, NoAccount)
      BY <2>3 DEF NotObtained
    <3> QED
      BY <1>0, <3>1, GoesKeepsTypes DEF Places
  <2> QED
    BY <1>1, <2>1, <2>2, <2>3 DEF Obtained
<1>2. CASE Lock(p)
  <2>1. ProcsOK'
    BY <1>0, <1>1, <1>2, StaysKeepsTypes DEF Lock, Places, Connecting
  <2> QED
    BY <1>0, <1>2, <2>1 DEF Lock, AccountsOK, OthersOK, memory, states, recoveries
<1>3. CASE Start(p)
  <2>1. ProcsOK'
    BY <1>0, <1>3, StaysKeepsTypes DEF Start, Places, Connecting
  <2>2. client' \in [Account -> {"off", "on"}]
    BY <1>0, <1>3 DEF Start, AccountsOK
  <2> QED
    BY <1>0, <1>3, <2>1, <2>2 DEF Start, AccountsOK, OthersOK, states, recoveries
<1>4. CASE GetMe(p)
  <2>1. ProcsOK'
    BY <1>0, <1>4, StaysKeepsTypes DEF GetMe, Places, Connecting
  <2>2. connected' \in [Account -> BOOLEAN]
    BY <1>0, <1>4 DEF GetMe, AccountsOK
  <2> QED
    BY <1>0, <1>4, <2>1, <2>2 DEF GetMe, AccountsOK, OthersOK, states, recoveries
<1>5. CASE SaveIdle(p)
  <2>1. ProcsOK'
    BY <1>0, <1>1, <1>5, StaysKeepsTypes DEF SaveIdle, Places, Connecting
  <2>2. status' \in [Account -> {"idle", "banned", "disconnected", "dead"}]
    BY <1>0, <1>5 DEF SaveIdle, AccountsOK
  <2> QED
    BY <1>0, <1>5, <2>1, <2>2 DEF SaveIdle, AccountsOK, OthersOK, memory, recoveries
<1>6. CASE SaveFail(p)
  <2>1. ProcsOK'
    BY <1>0, <1>1, <1>6 DEF SaveFail
  <2>2. status' \in [Account -> {"idle", "banned", "disconnected", "dead"}]
    BY <1>0, <1>6 DEF SaveFail, AccountsOK
  <2> QED
    BY <1>0, <1>6, <2>1, <2>2 DEF SaveFail, AccountsOK, OthersOK, memory, recoveries
<1> QED
  BY <1>2, <1>3, <1>4, <1>5, <1>6 DEF ConnectStep

LEMMA WorkerKeepsTypes ==
    ASSUME TypeOK, NEW w \in Worker, WorkerStep(w)
    PROVE  TypeOK'
<1> USE TypeParts
<1>0. ProcsOK /\ AccountsOK /\ OthersOK /\ w \in Proc
  BY DEF Proc
<1>1. CASE GetAvailable(w) \/ TryNext(w)
  <2>1. PICK S \in SUBSET Account : Choose(w, S)
    BY <1>0, <1>1 DEF GetAvailable, TryNext, AccountsOK, OthersOK
  <2>2. ProcsOK' /\ todo' \in [Proc -> SUBSET Account]
    BY <1>0, <2>1, ChooseKeepsTypes
  <2> QED
    BY <1>0, <1>1, <2>2
    DEF GetAvailable, TryNext, AccountsOK, OthersOK, memory, states, recoveries
<1>2. CASE Done(w) \/ MarkDead(w)
  <2>1. ProcsOK'
    BY <1>0, <1>2, EndsKeepsTypes, StaysKeepsTypes DEF Done, MarkDead, Places
  <2> QED
    BY <1>0, <1>2, <2>1 DEF Done, MarkDead, AccountsOK, OthersOK, memory, states, recoveries
<1>3. CASE MarkBanned(w)
  <2>1. ProcsOK'
    BY <1>0, <1>3, StaysKeepsTypes DEF MarkBanned, Places
  <2>2. BanLen \in 0 .. BanLen
    BY NumberAssumption
  <2>3. memBan' \in [Account -> 0 .. BanLen]
    BY <1>0, <1>3, <2>2 DEF MarkBanned, AccountsOK
  <2> QED
    BY <1>0, <1>3, <2>1, <2>3 DEF MarkBanned, AccountsOK, OthersOK, states, recoveries
<1>4. CASE SaveBanned(w)
  <2>1. ProcsOK'
    BY <1>0, <1>4, EndsKeepsTypes DEF SaveBanned
  <2>2. BanLen \in None .. BanLen
    BY NumberAssumption DEF None
  <2>3. /\ status' \in [Account -> {"idle", "banned", "disconnected", "dead"}]
        /\ until' \in [Account -> None .. BanLen]
    BY <1>0, <1>4, <2>2 DEF SaveBanned, AccountsOK
  <2> QED
    BY <1>0, <1>4, <2>1, <2>3 DEF SaveBanned, AccountsOK, OthersOK, memory, recoveries
<1>5. CASE SaveDead(w)
  <2>1. ProcsOK'
    BY <1>0, <1>5, EndsKeepsTypes, StaysKeepsTypes DEF SaveDead, Places
  <2>2. /\ status' \in [Account -> {"idle", "banned", "disconnected", "dead"}]
        /\ enabled' \in [Account -> BOOLEAN]
    BY <1>0, <1>5 DEF SaveDead, AccountsOK
  <2> QED
    BY <1>0, <1>5, <2>1, <2>2 DEF SaveDead, AccountsOK, OthersOK, memory, recoveries
<1>6. CASE Stop(w)
  <2>1. ProcsOK'
    BY <1>0, <1>6, StaysKeepsTypes DEF Stop, Places
  <2>2. client' \in [Account -> {"off", "on"}]
    BY <1>0, <1>6 DEF Stop, AccountsOK
  <2> QED
    BY <1>0, <1>6, <2>1, <2>2 DEF Stop, AccountsOK, OthersOK, states, recoveries
<1>7. CASE Stopped(w)
  <2>1. ProcsOK'
    BY <1>0, <1>7, EndsKeepsTypes DEF Stopped
  <2>2. connected' \in [Account -> BOOLEAN]
    BY <1>0, <1>7 DEF Stopped, AccountsOK
  <2> QED
    BY <1>0, <1>7, <2>1, <2>2 DEF Stopped, AccountsOK, OthersOK, states, recoveries
<1> QED
  BY <1>1, <1>2, <1>3, <1>4, <1>5, <1>6, <1>7 DEF WorkerStep

LEMMA NextKeepsTypes ==
    ASSUME TypeOK, [Next]_vars
    PROVE  TypeOK'
<1> USE TypeParts
<1>0. ProcsOK /\ AccountsOK /\ OthersOK /\ Boot \in Proc
  BY DEF Proc
<1>1. CASE Load
  <2>1. /\ status' \in [Account -> {"idle", "banned", "disconnected", "dead"}]
        /\ until' \in [Account -> None .. BanLen]
        /\ enabled' \in [Account -> BOOLEAN]
    BY <1>0, <1>1, ExpireKeepsTypes DEF Load
  <2>2. memBan' \in [Account -> 0 .. BanLen]
    BY <1>0, <1>1, NumberAssumption DEF Load, AccountsOK, None
  <2>3. todo' \in [Proc -> SUBSET Account] /\ pool' \subseteq Account
    BY <1>0, <1>1 DEF Load, OthersOK
  <2> QED
    BY <1>0, <1>1, <2>1, <2>2, <2>3 DEF Load, ProcsOK, AccountsOK, OthersOK, recoveries
<1>2. CASE LoadNext
  <2>1. PICK a \in todo[Boot] :
            Goes(Boot, "lock", a) /\ todo' = [todo EXCEPT ![Boot] = @ \ {a}]
    BY <1>2 DEF LoadNext
  <2>2. a \in Account /\ a # NoAccount
    BY <1>0, <2>1, NameAssumption DEF OthersOK
  <2>3. ProcsOK'
    BY <1>0, <2>1, <2>2, GoesKeepsTypes DEF Places
  <2>4. todo' \in [Proc -> SUBSET Account]
    BY <1>0, <2>1 DEF OthersOK
  <2> QED
    BY <1>0, <1>2, <2>3, <2>4 DEF LoadNext, AccountsOK, OthersOK, memory, states, recoveries
<1>3. CASE Loaded \/ SelectExpired
  BY <1>0, <1>3 DEF Loaded, SelectExpired, Expired, ProcsOK, AccountsOK, OthersOK,
                    memory, states, procs, recoveries
<1>4. CASE UpdateExpired
  <2>1. AccountsOK'
    BY <1>0, <1>4, ExpireKeepsTypes DEF UpdateExpired, AccountsOK, memory, states
  <2> QED
    BY <1>0, <1>4, <2>1 DEF UpdateExpired, ProcsOK, OthersOK, procs
<1>5. CASE ClearExpired
  <2>1. memBan' \in [Account -> 0 .. BanLen]
    BY <1>0, <1>5, NumberAssumption DEF ClearExpired, AccountsOK
  <2> QED
    BY <1>0, <1>5, <2>1 DEF ClearExpired, ProcsOK, AccountsOK, OthersOK, states, procs
<1>6. CASE Tick
  <2>1. /\ memBan' \in [Account -> 0 .. BanLen]
        /\ until' \in [Account -> None .. BanLen]
    BY <1>0, <1>6, NumberAssumption DEF Tick, AccountsOK, None
  <2> QED
    BY <1>0, <1>6, <2>1 DEF Tick, ProcsOK, AccountsOK, OthersOK, procs, recoveries
<1>7. CASE Crash
  <2>1. ProcsOK'
    BY <1>7 DEF Crash, Forgotten, ProcsOK, Places
  <2>2. AccountsOK'
    BY <1>0, <1>7, NumberAssumption DEF Crash, Forgotten, AccountsOK, states
  <2>3. OthersOK'
    BY <1>7 DEF Crash, Forgotten, OthersOK
  <2> QED
    BY <2>1, <2>2, <2>3
<1>8. ASSUME NEW a \in Account, NEW on \in BOOLEAN, SetEnabled(a, on) PROVE TypeOK'
  <2>1. enabled' \in [Account -> BOOLEAN]
    BY <1>0, <1>8 DEF SetEnabled, AccountsOK
  <2> QED
    BY <1>0, <1>8, <2>1 DEF SetEnabled, ProcsOK, AccountsOK, OthersOK, memory, procs, recoveries
<1>9. CASE UNCHANGED vars
  BY <1>9 DEF TypeOK, vars, memory, states, procs, recoveries
<1>10. CASE Shutdown
  <2>1. \A p \in Proc : pc[p] \in {"stop", "stopped"} => acc[p] \in Account /\ acc[p] # NoAccount
    BY <1>0, BusyWithAccount, NameAssumption
  <2>2. ProcsOK'
    BY <1>0, <1>10, <2>1 DEF Shutdown, ProcsOK, Places
  <2>3. OthersOK'
    BY <1>10 DEF Shutdown, OthersOK
  <2> QED
    BY <1>0, <1>10, <2>2, <2>3 DEF Shutdown, AccountsOK, memory, states
<1> QED
  BY <1>1, <1>2, <1>3, <1>4, <1>5, <1>6, <1>7, <1>8, <1>9, <1>10,
     ConnectKeepsTypes, WorkerKeepsTypes DEF Next, RecoveryStep

\* The pool stays well typed; in particular a process has an account in hand
\* exactly while it does something with one (account_manager.py:106-171).
THEOREM TypeCorrect == Spec => []TypeOK
<1>1. TypeOK /\ [Next]_vars => TypeOK'
  BY NextKeepsTypes
<1> QED
  BY <1>1, InitTypeOK, PTL DEF Spec

-----------------------------------------------------------------------------
(* The connect lock.  While a process holds it, the account it connects is *)
(* not connected by anybody else.                                          *)

ConnectInv ==
    /\ LockInv
    /\ \A p \in Proc : pc[p] \in {"starting", "me"} => ~connected[acc[p]]

LEMMA InitConnectInv == Init => ConnectInv
BY NameAssumption DEF Init, ConnectInv, LockInv, Connecting, Proc

\* A step that leaves the lock and the connecting processes alone, and
\* connects nothing, keeps the invariant.
LEMMA OutsideTheLock ==
    ASSUME TypeOK, ConnectInv, NEW p \in Proc, NEW where, NEW a,
           Goes(p, where, a), where \notin Connecting, pc[p] \notin Connecting,
           lock' = lock, \A b \in Account : connected'[b] => connected[b]
    PROVE  ConnectInv'
<1>1. \A q \in Proc : q # p => pc'[q] = pc[q] /\ acc'[q] = acc[q]
  BY DEF Goes, TypeOK
<1>2. pc'[p] = where
  BY DEF Goes, TypeOK
<1>3. LockInv'
  BY <1>1, <1>2 DEF ConnectInv, LockInv
<1>4. ASSUME NEW q \in Proc, pc'[q] \in {"starting", "me"} PROVE ~connected'[acc'[q]]
  <2>1. q # p /\ pc[q] \in {"starting", "me"} /\ acc'[q] = acc[q]
    BY <1>1, <1>2, <1>4 DEF Connecting
  <2>2. acc[q] \in Account
    BY <2>1, TypeParts, BusyWithAccount
  <2> QED
    BY <2>1, <2>2 DEF ConnectInv
<1> QED
  BY <1>3, <1>4 DEF ConnectInv

\* A step of the process that holds the lock, which it keeps or gives back.
LEMMA InsideTheLock ==
    ASSUME TypeOK, ConnectInv, NEW p \in Proc, NEW where, NEW a,
           Goes(p, where, a), pc[p] \in Connecting,
           \/ where \in Connecting /\ lock' = lock
           \/ where \notin Connecting /\ lock' = Nobody,
           where \in {"starting", "me"} => ~connected'[a]
    PROVE  ConnectInv'
<1>1. lock = p /\ p # Nobody
  BY NameAssumption DEF ConnectInv, LockInv, Proc
<1>2. \A q \in Proc : q # p => pc'[q] = pc[q] /\ pc[q] \notin Connecting /\ q # Nobody
  BY <1>1, NameAssumption DEF Goes, TypeOK, ConnectInv, LockInv, Proc
<1>3. pc'[p] = where /\ acc'[p] = a
  BY DEF Goes, TypeOK
<1> QED
  BY <1>1, <1>2, <1>3 DEF ConnectInv, LockInv, Connecting

LEMMA ConnectKeepsConnectInv ==
    ASSUME TypeOK, ConnectInv, NEW p \in Proc, ConnectStep(p)
    PROVE  ConnectInv'
<1>1. CASE Lock(p)
  <2>1. CASE connected[acc[p]] /\ Obtained(p) /\ lock' = lock
    <3>1. PICK where \in {"idle", "use"}, a \in {NoAccount, acc[p]} : Goes(p, where, a)
      BY <2>1 DEF Obtained, Ends, Stays
    <3>2. pc[p] = "lock" /\ connected' = connected
      BY <1>1 DEF Lock, memory
    <3> QED
      BY <2>1, <3>1, <3>2, OutsideTheLock DEF Connecting
  <2>2. CASE ~connected[acc[p]] /\ Stays(p, "starting") /\ lock' = p
    <3>1. \A q \in Proc : pc[q] \notin Connecting
      BY <1>1, NameAssumption DEF Lock, ConnectInv, LockInv, Proc
    <3>2. \A q \in Proc : q # p => pc'[q] = pc[q]
      BY <2>2 DEF Stays, Goes, TypeOK
    <3>3. pc'[p] = "starting" /\ acc'[p] = acc[p] /\ connected' = connected
      BY <1>1, <2>2 DEF Lock, Stays, Goes, TypeOK, memory
    <3> QED
      BY <2>2, <3>1, <3>2, <3>3 DEF ConnectInv, LockInv, Connecting
  <2> QED
    BY <1>1, <2>1, <2>2 DEF Lock
<1>2. CASE Start(p)
  <2>1. PICK where \in {"me", "saveFail"} : Stays(p, where)
    BY <1>2 DEF Start
  <2>2. pc[p] = "starting" /\ connected' = connected /\ lock' = lock
    BY <1>2 DEF Start
  <2>3. ~connected'[acc[p]]
    BY <2>2 DEF ConnectInv
  <2> QED
    BY <2>1, <2>2, <2>3, InsideTheLock DEF Stays, Connecting
<1>3. CASE GetMe(p)
  <2>1. PICK where \in {"saveIdle", "saveFail"} : Stays(p, where)
    BY <1>3 DEF GetMe
  <2>2. pc[p] = "me" /\ lock' = lock
    BY <1>3 DEF GetMe
  <2> QED
    BY <2>1, <2>2, InsideTheLock DEF Stays, Connecting
<1>4. CASE SaveIdle(p)
  <2>1. pc[p] = "saveIdle"
    BY <1>4 DEF SaveIdle
  <2>2. CASE Obtained(p) /\ lock' = Nobody
    <3>1. PICK where \in {"idle", "use"}, a \in {NoAccount, acc[p]} : Goes(p, where, a)
      BY <2>2 DEF Obtained, Ends, Stays
    <3> QED
      BY <2>1, <2>2, <3>1, InsideTheLock DEF Connecting
  <2>3. CASE Stays(p, "saveFail") /\ lock' = lock
    BY <2>1, <2>3, InsideTheLock DEF Stays, Connecting
  <2> QED
    BY <1>4, <2>2, <2>3 DEF SaveIdle
<1>5. CASE SaveFail(p)
  <2>1. PICK where \in {"idle", "choose"} : Goes(p, where, NoAccount)
    BY <1>5 DEF SaveFail, NotObtained, Ends
  <2>2. pc[p] = "saveFail" /\ lock' = Nobody
    BY <1>5 DEF SaveFail
  <2> QED
    BY <2>1, <2>2, InsideTheLock DEF Connecting
<1> QED
  BY <1>1, <1>2, <1>3, <1>4, <1>5 DEF ConnectStep

LEMMA WorkerKeepsConnectInv ==
    ASSUME TypeOK, ConnectInv, NEW w \in Worker, WorkerStep(w)
    PROVE  ConnectInv'
<1>0. w \in Proc /\ pc[w] \notin Connecting /\ lock' = lock
  BY DEF Proc, Connecting, WorkerStep, GetAvailable, TryNext, Done, MarkBanned,
         SaveBanned, MarkDead, SaveDead, Stop, Stopped
<1>1. \E where, a : Goes(w, where, a) /\ where \notin Connecting
  <2>1. CASE GetAvailable(w) \/ TryNext(w)
    <3>1. PICK S : Choose(w, S)
      BY <2>1 DEF GetAvailable, TryNext
    <3>2. CASE Ends(w)
      BY <3>2 DEF Ends, Connecting
    <3>3. ASSUME NEW a, Goes(w, IF connected[a] THEN "use" ELSE "lock", a)
          PROVE  \E where, b : Goes(w, where, b) /\ where \notin Connecting
      <4>1. "use" \notin Connecting /\ "lock" \notin Connecting
        BY DEF Connecting
      <4> QED
        BY <3>3, <4>1
    <3> QED
      BY <3>1, <3>2, <3>3 DEF Choose
  <2>2. CASE Done(w) \/ SaveBanned(w) \/ Stopped(w)
    BY <2>2 DEF Done, SaveBanned, Stopped, Ends, Connecting
  <2>3. CASE MarkBanned(w) \/ MarkDead(w) \/ Stop(w)
    BY <2>3 DEF MarkBanned, MarkDead, Stop, Stays, Connecting
  <2>4. CASE SaveDead(w)
    BY <2>4 DEF SaveDead, Stays, Ends, Connecting
  <2> QED
    BY <2>1, <2>2, <2>3, <2>4 DEF WorkerStep
<1>2. \A b \in Account : connected'[b] => connected[b]
  <2>1. CASE Stopped(w)
    BY <2>1 DEF Stopped, TypeOK
  <2>2. CASE ~Stopped(w)
    BY <2>2 DEF WorkerStep, GetAvailable, TryNext, Done, MarkBanned, SaveBanned,
                MarkDead, SaveDead, Stop, memory
  <2> QED
    BY <2>1, <2>2
<1> QED
  BY <1>0, <1>1, <1>2, OutsideTheLock

LEMMA NextKeepsConnectInv ==
    ASSUME TypeOK, ConnectInv, [Next]_vars
    PROVE  ConnectInv'
<1>1. CASE LoadNext
  <2>1. PICK a : Goes(Boot, "lock", a)
    BY <1>1 DEF LoadNext
  <2>2. Boot \in Proc /\ pc[Boot] = "idle" /\ lock' = lock /\ connected' = connected
    BY <1>1 DEF LoadNext, Proc, memory
  <2> QED
    BY <2>1, <2>2, OutsideTheLock DEF Connecting
<1>2. CASE Crash \/ Shutdown
  BY <1>2, NameAssumption DEF Crash, Forgotten, Shutdown, ConnectInv, LockInv, Connecting, Proc
<1>3. CASE UNCHANGED <<lock, pc, acc, connected>>
  BY <1>3 DEF ConnectInv, LockInv
<1>4. ASSUME Load \/ Loaded \/ RecoveryStep \/ Tick \/ UNCHANGED vars
      PROVE  UNCHANGED <<lock, pc, acc, connected>>
  BY <1>4 DEF Load, Loaded, RecoveryStep, SelectExpired, UpdateExpired, ClearExpired,
              Tick, vars, memory, procs
<1>5. ASSUME NEW a \in Account, NEW on \in BOOLEAN, SetEnabled(a, on)
      PROVE  UNCHANGED <<lock, pc, acc, connected>>
  BY <1>5 DEF SetEnabled, memory, procs
<1> QED
  BY <1>1, <1>2, <1>3, <1>4, <1>5, ConnectKeepsConnectInv, WorkerKeepsConnectInv DEF Next

LEMMA ConnectInvariant == Spec => []ConnectInv
<1>1. TypeOK /\ ConnectInv /\ [Next]_vars => ConnectInv'
  BY NextKeepsConnectInv
<1> QED
  BY <1>1, InitConnectInv, TypeCorrect, PTL DEF Spec

\* The lock and the second look under it keep any number of workers from
\* starting a client that is connected (account_manager.py:106-112).
THEOREM ConnectsOnce == Spec => []NoDoubleConnect
<1>1. ConnectInv => NoDoubleConnect
  BY DEF ConnectInv, LockInv, NoDoubleConnect
<1> QED
  BY <1>1, ConnectInvariant, PTL

-----------------------------------------------------------------------------
(* The connected flag. *)

\* What a step leaves of a worker that has stopped a client.
LEMMA LeftStoppedKept ==
    ASSUME NEW a \in Account, ConnectedIsRunning, connected[a], client[a] = "off",
           phase' = phase,
           \A w \in Worker : LeftStopped(w, a) => pc'[w] = pc[w] /\ acc'[w] = acc[w]
    PROVE  \E w \in Worker : LeftStopped(w, a)'
BY DEF ConnectedIsRunning, LeftStopped

LEMMA NextKeepsRunning ==
    ASSUME TypeOK, ConnectedIsRunning, [Next]_vars
    PROVE  ConnectedIsRunning'
<1> SUFFICES ASSUME NEW a \in Account, connected'[a], client'[a] = "off"
             PROVE  \E w \in Worker : LeftStopped(w, a)'
  BY DEF ConnectedIsRunning
<1>1. ASSUME connected[a], client[a] = "off", phase' = phase,
             NEW p \in Proc, NEW where, NEW b, Goes(p, where, b),
             pc[p] \in {"stopped", "cut"} => acc[p] # a
      PROVE  \E w \in Worker : LeftStopped(w, a)'
  <2>1. \A w \in Proc : w # p => pc'[w] = pc[w] /\ acc'[w] = acc[w]
    BY <1>1 DEF Goes, TypeOK
  <2>2. \A w \in Worker : LeftStopped(w, a) => w # p /\ w \in Proc
    BY <1>1 DEF LeftStopped, Proc
  <2> QED
    BY <1>1, <2>1, <2>2, LeftStoppedKept
<1>2. ASSUME NEW p \in Proc, ConnectStep(p)
      PROVE  \E w \in Worker : LeftStopped(w, a)'
  <2>1. /\ pc[p] \notin {"stopped", "cut"} /\ phase' = phase
        /\ \E where, b : Goes(p, where, b)
    BY <1>2 DEF ConnectStep, Lock, Start, GetMe, SaveIdle, SaveFail,
                Obtained, NotObtained, Stays, Ends
  <2>2. connected[a] /\ client[a] = "off"
    <3>1. CASE Start(p)
      BY <3>1 DEF Start, TypeOK
    <3>2. CASE GetMe(p)
      BY <3>2 DEF GetMe, TypeOK
    <3>3. CASE Lock(p) \/ SaveIdle(p) \/ SaveFail(p)
      BY <3>3 DEF Lock, SaveIdle, SaveFail, memory
    <3> QED
      BY <1>2, <3>1, <3>2, <3>3 DEF ConnectStep
  <2> QED
    BY <1>1, <2>1, <2>2
<1>3. ASSUME NEW w \in Worker, WorkerStep(w)
      PROVE  \E v \in Worker : LeftStopped(v, a)'
  <2>0. w \in Proc /\ phase' = phase
    BY <1>3 DEF Proc, WorkerStep, GetAvailable, TryNext, Done, MarkBanned, SaveBanned,
                MarkDead, SaveDead, Stop, Stopped
  <2>1. CASE Stop(w)
    <3>1. pc'[w] = "stopped" /\ acc'[w] = acc[w] /\ pc[w] = "stop" /\ connected' = connected
      BY <2>0, <2>1 DEF Stop, Stays, Goes, TypeOK
    <3>2. CASE acc[w] = a
      <4>1. acc'[w] = a /\ pc'[w] = "stopped"
        BY <3>1, <3>2
      <4>2. LeftStopped(w, a)'
        BY <4>1 DEF LeftStopped
      <4> QED
        BY <4>2
    <3>3. CASE acc[w] # a
      <4>1. client[a] = "off"
        BY <2>1, <3>3 DEF Stop, TypeOK
      <4>2. Goes(w, "stopped", acc[w])
        BY <2>1 DEF Stop, Stays
      <4> QED
        BY <1>1, <2>0, <3>1, <4>1, <4>2
    <3> QED
      BY <3>2, <3>3
  <2>2. CASE Stopped(w)
    <3>1. connected[a] /\ acc[w] # a /\ client[a] = "off" /\ Goes(w, "idle", NoAccount)
      BY <2>2 DEF Stopped, Ends, TypeOK
    <3> QED
      BY <1>1, <2>0, <3>1
  <2>3. CASE ~Stop(w) /\ ~Stopped(w)
    <3>1. connected' = connected /\ client' = client /\ pc[w] \notin {"stopped", "cut"}
      BY <1>3, <2>3 DEF WorkerStep, GetAvailable, TryNext, Done, MarkBanned, SaveBanned,
                        MarkDead, SaveDead, memory
    <3>2. \E where, b : Goes(w, where, b)
      BY <1>3, <2>3 DEF WorkerStep, GetAvailable, TryNext, Choose, Done, MarkBanned,
                        SaveBanned, MarkDead, SaveDead, Stays, Ends
    <3> QED
      BY <1>1, <2>0, <3>1, <3>2
  <2> QED
    BY <2>1, <2>2, <2>3
<1>4. CASE LoadNext
  <2>1. PICK b : Goes(Boot, "lock", b)
    BY <1>4 DEF LoadNext
  <2>2. /\ Boot \in Proc /\ pc[Boot] = "idle" /\ phase' = phase
        /\ connected' = connected /\ client' = client
    BY <1>4 DEF LoadNext, Proc, memory
  <2> QED
    BY <1>1, <2>1, <2>2
<1>5. CASE Crash
  BY <1>5 DEF Crash, Forgotten
<1>6. CASE UNCHANGED <<client, connected, pc, acc>> /\ (phase = "ended" => phase' = "ended")
  BY <1>6 DEF ConnectedIsRunning, LeftStopped
<1>7. ASSUME \/ Load \/ Loaded \/ RecoveryStep \/ Tick \/ UNCHANGED vars
             \/ \E b \in Account, on \in BOOLEAN : SetEnabled(b, on)
      PROVE  UNCHANGED <<client, connected, pc, acc>> /\ (phase = "ended" => phase' = "ended")
  BY <1>7 DEF Load, Loaded, RecoveryStep, SelectExpired, UpdateExpired, ClearExpired,
              Tick, SetEnabled, vars, memory, procs
\* Who had stopped the client is cut off there.
<1>8. CASE Shutdown
  <2>1. connected[a] /\ client[a] = "off" /\ phase = "up"
    BY <1>8 DEF Shutdown, memory
  <2>2. PICK w \in Worker : pc[w] = "stopped" /\ acc[w] = a
    BY <2>1 DEF ConnectedIsRunning, LeftStopped
  <2> QED
    BY <1>8, <2>2 DEF Shutdown, LeftStopped, Proc
<1> QED
  BY <1>2, <1>3, <1>4, <1>5, <1>6, <1>7, <1>8 DEF Next

\* No order of connecting, failing and declaring dead leaves an account
\* that passes for connected on a stopped client: only a worker that is in
\* mark_dead has that account, or was cancelled there by /shutdown, after
\* which the flag stays (account_manager.py:106-169, runner.py:70-71).
THEOREM ConnectedRuns == Spec => []ConnectedIsRunning
<1>1. Init => ConnectedIsRunning
  BY DEF Init, ConnectedIsRunning
<1>2. TypeOK /\ ConnectedIsRunning /\ [Next]_vars => ConnectedIsRunning'
  BY NextKeepsRunning
<1> QED
  BY <1>1, <1>2, TypeCorrect, PTL DEF Spec

-----------------------------------------------------------------------------
(* The refinement of Sessions. *)

GivenAt == {"use", "banned", "dead", "stop", "stopped"}

\* What a session is told of the lock's holder and of the workers.
Opening == IF lock = Nobody THEN NoAccount ELSE acc[lock]
Stage == IF lock = Nobody THEN "none" ELSE StageOf(pc[lock])
Using == [w \in Worker |-> IF Given(w) THEN acc[w] ELSE NoAccount]

seen == <<connected, lock, Opening, Stage, Using>>

LEMMA StageNames ==
    /\ StageOf("starting") = "opening" /\ StageOf("me") = "opening"
    /\ StageOf("saveIdle") = "opened" /\ StageOf("saveFail") = "failed"
BY DEF StageOf

\* What each process has been given after p has gone somewhere.
LEMMA UsingAfter ==
    ASSUME TypeOK, NEW p \in Proc, NEW where, NEW a, Goes(p, where, a)
    PROVE  /\ Using' = [w \in Worker |->
                          IF w = p THEN IF where \in GivenAt THEN a ELSE NoAccount
                          ELSE Using[w]]
           /\ Using = [w \in Worker |-> Using[w]]
<1>1. \A w \in Worker : w \in Proc
  BY DEF Proc
<1>2. \A w \in Worker : IF w = p THEN pc'[w] = where /\ acc'[w] = a
                                ELSE pc'[w] = pc[w] /\ acc'[w] = acc[w]
  BY <1>1 DEF Goes, TypeOK
<1> QED
  BY <1>2 DEF Using, Given, GivenAt

LEMMA UsingOf ==
    ASSUME TypeOK, NEW w \in Worker
    PROVE  Using[w] = IF pc[w] \in GivenAt THEN acc[w] ELSE NoAccount
BY DEF Using, Given, GivenAt

\* The holder of the lock is not seen to move when somebody else does.
LEMMA AttemptKept ==
    ASSUME TypeOK, ConnectInv, NEW p \in Proc, NEW where, NEW a,
           Goes(p, where, a), pc[p] \notin Connecting, lock' = lock
    PROVE  UNCHANGED <<lock, Opening, Stage>>
<1>1. lock # p
  BY DEF ConnectInv, LockInv
<1>2. lock # Nobody => lock \in Proc /\ pc'[lock] = pc[lock] /\ acc'[lock] = acc[lock]
  BY <1>1 DEF Goes, TypeOK
<1> QED
  BY <1>2 DEF Opening, Stage

\* A process that connects is the holder of the lock.
LEMMA AttemptOf ==
    ASSUME TypeOK, ConnectInv, NEW p \in Proc, pc[p] \in Connecting
    PROVE  /\ lock = p /\ p # Nobody
           /\ Opening = acc[p] /\ Stage = StageOf(pc[p]) /\ acc[p] \in Account
           /\ p \in Worker => Using[p] = NoAccount
<1>1. lock = p /\ p # Nobody
  BY NameAssumption DEF ConnectInv, LockInv, Proc
<1>2. acc[p] \in Account
  BY TypeParts, BusyWithAccount DEF Connecting
<1> QED
  BY <1>1, <1>2, UsingOf DEF Opening, Stage, Connecting, GivenAt

\* A step of the holder that keeps the lock and the account.
LEMMA HolderStays ==
    ASSUME TypeOK, ConnectInv, NEW p \in Proc, pc[p] \in Connecting,
           NEW where \in Connecting, Stays(p, where), lock' = lock
    PROVE  /\ Opening' = Opening /\ Stage' = StageOf(where) /\ Using' = Using
<1>1. lock = p /\ p # Nobody /\ Opening = acc[p] /\ (p \in Worker => Using[p] = NoAccount)
  BY AttemptOf
<1>2. pc'[p] = where /\ acc'[p] = acc[p]
  BY DEF Stays, Goes, TypeOK
<1>3. where \notin GivenAt
  BY DEF Connecting, GivenAt
<1>4. Using' = [w \in Worker |-> IF w = p THEN NoAccount ELSE Using[w]]
      /\ Using = [w \in Worker |-> Using[w]]
  BY <1>3, UsingAfter DEF Stays
<1>5. Using' = Using
  BY <1>1, <1>4
<1> QED
  BY <1>1, <1>2, <1>5 DEF Opening, Stage

LEMMA SessionSteps ==
    /\ \A p \in Proc, a \in Account : Session!Begin(p, a) => Session!Next
    /\ Session!Opened => Session!Next
    /\ Session!GiveUp => Session!Next
    /\ Session!Keep => Session!Next
    /\ Session!Fail => Session!Next
    /\ Session!Dismiss => Session!Next
    /\ Session!Down => Session!Next
    /\ \A w \in Worker, a \in Account : Session!Take(w, a) => Session!Next
    /\ \A w \in Worker : Session!Leave(w) => Session!Next
    /\ \A w \in Worker : Session!Close(w) => Session!Next
<1>1. \A p \in Proc, a \in Account : Session!Begin(p, a) => Session!Next
  BY DEF Session!Next, Proc
<1>2. \A w \in Worker, a \in Account : Session!Take(w, a) => Session!Next
  BY DEF Session!Next
<1>3. \A w \in Worker : Session!Leave(w) => Session!Next
  BY DEF Session!Next
<1>4. \A w \in Worker : Session!Close(w) => Session!Next
  BY DEF Session!Next
<1> QED
  BY <1>1, <1>2, <1>3, <1>4 DEF Session!Next

LEMMA ConnectIsSession ==
    ASSUME TypeOK, ConnectInv, NEW p \in Proc, ConnectStep(p)
    PROVE  Session!Next \/ UNCHANGED seen
<1> USE DEF Session!attempt, Session!End
<1>0. Nobody \notin Proc /\ Boot \notin Worker /\ Proc = Worker \union {Boot}
  BY NameAssumption DEF Proc
<1>1. CASE Lock(p)
  <2>1. PICK a \in Account : a = acc[p]
    BY <1>1, TypeParts, BusyWithAccount DEF Lock
  <2>2. pc[p] = "lock" /\ lock = Nobody /\ connected' = connected
        /\ (p \in Worker => Using[p] = NoAccount)
    BY <1>1, UsingOf DEF Lock, memory, GivenAt
  <2>3. CASE connected[a] /\ Obtained(p) /\ lock' = lock
    <3>1. CASE p = Boot
      <4>1. Goes(p, "idle", NoAccount)
        BY <2>3, <3>1 DEF Obtained, Ends
      <4>2. Using' = Using
        BY <1>0, <3>1, <4>1, UsingAfter
      <4>3. UNCHANGED <<lock, Opening, Stage>>
        BY <2>2, <2>3, <4>1, AttemptKept DEF Connecting
      <4> QED
        BY <2>2, <4>2, <4>3 DEF seen
    <3>2. CASE p # Boot
      <4>1. p \in Worker /\ Goes(p, "use", a)
        BY <1>0, <2>1, <2>3, <3>2 DEF Obtained, Stays
      <4>2. Using' = [w \in Worker |-> IF w = p THEN a ELSE Using[w]]
            /\ Using = [w \in Worker |-> Using[w]]
        BY <4>1, UsingAfter DEF GivenAt
      <4>3. UNCHANGED <<lock, Opening, Stage>>
        BY <2>2, <2>3, <4>1, AttemptKept DEF Connecting
      <4>4. Using' = [Using EXCEPT ![p] = a]
        BY <4>1, <4>2
      <4>5. Session!Take(p, a)
        BY <2>2, <2>3, <4>1, <4>3, <4>4 DEF Session!Take, Using, Opening, Stage
      <4> QED
        BY <4>1, <4>5, SessionSteps
    <3> QED
      BY <3>1, <3>2
  <2>4. CASE ~connected[a] /\ Stays(p, "starting") /\ lock' = p
    <3>1. Goes(p, "starting", a)
      BY <2>1, <2>4 DEF Stays
    <3>2. Using' = Using
      BY <2>2, <3>1, UsingAfter DEF GivenAt
    <3>3. pc'[p] = "starting" /\ acc'[p] = a
      BY <3>1 DEF Goes, TypeOK
    <3>4. /\ Opening' = a /\ Stage' = "opening"
          /\ Opening = NoAccount /\ Stage = "none"
      BY <1>0, <2>2, <2>4, <3>3, StageNames DEF Opening, Stage
    <3>5. Session!Begin(p, a)
      BY <2>2, <2>4, <3>2, <3>4 DEF Session!Begin, Using, Opening, Stage
    <3> QED
      BY <3>5, SessionSteps
  <2> QED
    BY <1>1, <2>1, <2>3, <2>4 DEF Lock
<1>2. ASSUME pc[p] \in {"starting", "me", "saveIdle"}, Stays(p, "saveFail"),
             lock' = lock, connected' = connected
      PROVE  Session!Next
  <2>1. Stage \in {"opening", "opened"}
    BY <1>2, AttemptOf, StageNames DEF Connecting
  <2>2. Opening' = Opening /\ Stage' = "failed" /\ Using' = Using
    BY <1>2, HolderStays, StageNames DEF Connecting
  <2>3. Session!GiveUp
    BY <1>2, <2>1, <2>2 DEF Session!GiveUp, Using, Opening, Stage
  <2> QED
    BY <2>3, SessionSteps
<1>3. CASE Start(p)
  <2>1. pc[p] = "starting" /\ lock' = lock /\ connected' = connected
    BY <1>3 DEF Start
  <2>2. CASE Stays(p, "me")
    <3>1. Opening' = Opening /\ Stage' = "opening" /\ Using' = Using
      BY <2>1, <2>2, HolderStays, StageNames DEF Connecting
    <3>2. Stage = "opening"
      BY <2>1, AttemptOf, StageNames DEF Connecting
    <3> QED
      BY <2>1, <3>1, <3>2 DEF seen
  <2> QED
    BY <1>2, <1>3, <2>1, <2>2 DEF Start
<1>4. CASE GetMe(p)
  <2>1. pc[p] = "me" /\ lock' = lock
    BY <1>4 DEF GetMe
  <2>2. CASE connected' = [connected EXCEPT ![acc[p]] = TRUE] /\ Stays(p, "saveIdle")
    <3>1. Opening' = Opening /\ Stage' = "opened" /\ Using' = Using
      BY <2>1, <2>2, HolderStays, StageNames DEF Connecting
    <3>2. Stage = "opening" /\ Opening = acc[p] /\ ~connected[acc[p]]
      BY <2>1, AttemptOf, StageNames DEF Connecting, ConnectInv
    <3>3. Session!Opened
      BY <2>1, <2>2, <3>1, <3>2 DEF Session!Opened, Using, Opening, Stage
    <3> QED
      BY <3>3, SessionSteps
  <2> QED
    BY <1>2, <1>4, <2>1, <2>2 DEF GetMe
<1>5. CASE SaveIdle(p)
  <2>1. pc[p] = "saveIdle" /\ connected' = connected
    BY <1>5 DEF SaveIdle, memory
  <2>2. CASE Obtained(p) /\ lock' = Nobody
    <3>1. lock = p /\ Opening = acc[p] /\ Stage = "opened"
      BY <2>1, AttemptOf, StageNames DEF Connecting
    <3>2. Opening' = NoAccount /\ Stage' = "none"
      BY <2>2 DEF Opening, Stage
    <3>3. Using' = [w \in Worker |-> IF w = lock THEN Opening ELSE Using[w]]
      <4>1. CASE p = Boot
        <5>1. Goes(p, "idle", NoAccount)
          BY <2>2, <4>1 DEF Obtained, Ends
        <5> QED
          BY <1>0, <3>1, <4>1, <5>1, UsingAfter
      <4>2. CASE p # Boot
        <5>1. Goes(p, "use", acc[p])
          BY <2>2, <4>2 DEF Obtained, Stays
        <5> QED
          BY <3>1, <5>1, UsingAfter DEF GivenAt
      <4> QED
        BY <4>1, <4>2
    <3>4. Session!Keep
      BY <2>1, <2>2, <3>1, <3>2, <3>3 DEF Session!Keep, Using, Opening, Stage
    <3> QED
      BY <3>4, SessionSteps
  <2> QED
    BY <1>2, <1>5, <2>1, <2>2 DEF SaveIdle
<1>6. CASE SaveFail(p)
  <2>1. pc[p] = "saveFail" /\ connected' = connected /\ lock' = Nobody
    BY <1>6 DEF SaveFail, memory
  <2>2. PICK where \in {"idle", "choose"} : Goes(p, where, NoAccount)
    BY <1>6 DEF SaveFail, NotObtained, Ends
  <2>3. Stage = "failed" /\ (p \in Worker => Using[p] = NoAccount)
    BY <2>1, AttemptOf, StageNames DEF Connecting
  <2>4. Using' = Using
    BY <2>2, <2>3, UsingAfter
  <2>5. Opening' = NoAccount /\ Stage' = "none"
    BY <2>1 DEF Opening, Stage
  <2>6. Session!Fail
    BY <2>1, <2>3, <2>4, <2>5 DEF Session!Fail, Using, Opening, Stage
  <2> QED
    BY <2>6, SessionSteps
<1> QED
  BY <1>1, <1>3, <1>4, <1>5, <1>6 DEF ConnectStep

LEMMA WorkerIsSession ==
    ASSUME TypeOK, ConnectInv, NEW w \in Worker, WorkerStep(w)
    PROVE  Session!Next \/ UNCHANGED seen
<1> USE DEF Session!attempt
<1>0. w \in Proc /\ pc[w] \notin Connecting /\ lock' = lock
  BY DEF Proc, Connecting, WorkerStep, GetAvailable, TryNext, Done, MarkBanned,
         SaveBanned, MarkDead, SaveDead, Stop, Stopped
<1>1. ASSUME NEW where, NEW a, Goes(w, where, a)
      PROVE  /\ UNCHANGED <<lock, Opening, Stage>>
             /\ Using' = [Using EXCEPT ![w] = IF where \in GivenAt THEN a ELSE NoAccount]
             /\ Using = [v \in Worker |-> Using[v]]
  BY <1>0, <1>1, AttemptKept, UsingAfter
<1>2. ASSUME NEW where \in Places \ GivenAt, NEW a, Goes(w, where, a),
             pc[w] \in {"idle", "choose"}, connected' = connected
      PROVE  UNCHANGED seen
  <2>1. Using[w] = NoAccount
    BY <1>2, UsingOf DEF GivenAt
  <2> QED
    BY <1>1, <1>2, <2>1 DEF seen
<1>3. ASSUME Ends(w), pc[w] \in GivenAt, connected' = connected PROVE Session!Next
  <2>1. Using[w] = acc[w] /\ acc[w] # NoAccount
    BY <1>0, <1>3, UsingOf DEF GivenAt, TypeOK
  <2>2. UNCHANGED <<lock, Opening, Stage>> /\ Using' = [Using EXCEPT ![w] = NoAccount]
    BY <1>1, <1>3 DEF Ends, GivenAt
  <2>3. Session!Leave(w)
    BY <1>3, <2>1, <2>2 DEF Session!Leave, Using, Opening, Stage
  <2> QED
    BY <2>3, SessionSteps
<1>4. ASSUME NEW where \in GivenAt, Stays(w, where), pc[w] \in GivenAt, connected' = connected
      PROVE  UNCHANGED seen
  <2>1. Using[w] = acc[w]
    BY <1>4, UsingOf
  <2> QED
    BY <1>1, <1>4, <2>1 DEF Stays, seen
<1>5. CASE GetAvailable(w) \/ TryNext(w)
  <2>1. pc[w] \in {"idle", "choose"} /\ connected' = connected
    BY <1>5 DEF GetAvailable, TryNext, memory
  <2>2. PICK S \in SUBSET Account : Choose(w, S)
    BY <1>5, TypeParts DEF GetAvailable, TryNext, AccountsOK, OthersOK, Proc
  <2>3. CASE Ends(w)
    BY <1>2, <2>1, <2>3 DEF Ends, Places, GivenAt
  <2>4. ASSUME NEW a \in S, Goes(w, IF connected[a] THEN "use" ELSE "lock", a)
        PROVE  Session!Next \/ UNCHANGED seen
    <3>1. CASE ~connected[a]
      BY <1>2, <2>1, <2>4, <3>1 DEF Places, GivenAt
    <3>2. CASE connected[a]
      <4>1. Goes(w, "use", a) /\ a \in Account
        BY <2>4, <3>2
      <4>2. UNCHANGED <<lock, Opening, Stage>> /\ Using' = [Using EXCEPT ![w] = a]
        BY <1>1, <4>1 DEF GivenAt
      <4>3. Using[w] = NoAccount
        BY <2>1, UsingOf DEF GivenAt
      <4>4. Session!Take(w, a)
        BY <2>1, <3>2, <4>2, <4>3 DEF Session!Take, Using, Opening, Stage
      <4> QED
        BY <4>1, <4>4, SessionSteps
    <3> QED
      BY <3>1, <3>2
  <2> QED
    BY <2>2, <2>3, <2>4 DEF Choose
<1>6. CASE Done(w) \/ SaveBanned(w)
  BY <1>3, <1>6 DEF Done, SaveBanned, GivenAt, memory
<1>7. CASE MarkBanned(w) \/ MarkDead(w) \/ Stop(w)
  BY <1>4, <1>7 DEF MarkBanned, MarkDead, Stop, GivenAt, memory
<1>8. CASE SaveDead(w)
  BY <1>3, <1>4, <1>8 DEF SaveDead, GivenAt, memory
<1>9. CASE Stopped(w)
  <2>1. Using[w] = acc[w] /\ acc[w] # NoAccount
    BY <1>0, <1>9, UsingOf DEF Stopped, GivenAt, TypeOK
  <2>2. UNCHANGED <<lock, Opening, Stage>> /\ Using' = [Using EXCEPT ![w] = NoAccount]
    BY <1>1, <1>9 DEF Stopped, Ends, GivenAt
  <2>3. Session!Close(w)
    BY <1>9, <2>1, <2>2 DEF Stopped, Session!Close, Using, Opening, Stage
  <2> QED
    BY <2>3, SessionSteps
<1> QED
  BY <1>5, <1>6, <1>7, <1>8, <1>9 DEF WorkerStep

LEMMA StepIsSession ==
    ASSUME TypeOK, ConnectInv, [Next]_vars
    PROVE  Session!Next \/ UNCHANGED seen
<1>1. CASE LoadNext
  <2>1. PICK a : Goes(Boot, "lock", a)
    BY <1>1 DEF LoadNext
  <2>2. /\ Boot \in Proc /\ pc[Boot] = "idle" /\ lock' = lock /\ connected' = connected
        /\ Boot \notin Worker
    BY <1>1, NameAssumption DEF LoadNext, Proc, memory
  <2>3. UNCHANGED <<lock, Opening, Stage>>
    BY <2>1, <2>2, AttemptKept DEF Connecting
  <2>4. Using' = Using
    BY <2>1, <2>2, UsingAfter
  <2> QED
    BY <2>2, <2>3, <2>4 DEF seen
<1>2. CASE Crash
  <2>1. /\ Using' = [w \in Worker |-> NoAccount]
        /\ lock' = Nobody /\ Opening' = NoAccount /\ Stage' = "none"
        /\ connected' = [a \in Account |-> FALSE]
    BY <1>2 DEF Crash, Forgotten, Using, Given, Opening, Stage, Proc
  <2>2. Session!Down
    BY <2>1 DEF Session!Down, Session!End, Using, Opening, Stage
  <2> QED
    BY <2>2, SessionSteps
<1>5. CASE Shutdown
  <2>1. /\ Using' = [w \in Worker |-> NoAccount]
        /\ lock' = Nobody /\ Opening' = NoAccount /\ Stage' = "none"
        /\ connected' = connected
    BY <1>5 DEF Shutdown, memory, Using, Given, Opening, Stage, Proc
  <2>2. Session!Dismiss
    BY <2>1 DEF Session!Dismiss, Session!End, Using, Opening, Stage
  <2> QED
    BY <2>2, SessionSteps
<1>3. ASSUME UNCHANGED <<lock, pc, acc, connected>> PROVE UNCHANGED seen
  BY <1>3 DEF seen, Opening, Stage, Using, Given
<1>4. CASE \/ Load \/ Loaded \/ RecoveryStep \/ Tick \/ UNCHANGED vars
           \/ \E a \in Account, on \in BOOLEAN : SetEnabled(a, on)
  <2>1. UNCHANGED <<lock, pc, acc, connected>>
    BY <1>4 DEF Load, Loaded, RecoveryStep, SelectExpired, UpdateExpired, ClearExpired,
                Tick, SetEnabled, vars, memory, procs
  <2> QED
    BY <1>3, <2>1
<1> QED
  BY <1>1, <1>2, <1>4, <1>5, ConnectIsSession, WorkerIsSession DEF Next

\* The lock, the second look under it and the flag implement Sessions: for
\* any number of accounts and workers a session is opened by one at a time,
\* and a worker has only what was open or what it opened itself.
THEOREM Implements == Spec => ImplementsSessions
<1>1. Init => Session!Init
  <2> SUFFICES ASSUME Init PROVE Session!Init
    OBVIOUS
  <2>1. [w \in Worker |-> IF Given(w) THEN acc[w] ELSE NoAccount] = [w \in Worker |-> NoAccount]
    BY DEF Init, Given, Proc
  <2> QED
    BY <2>1 DEF Init, Session!Init
<1>2. TypeOK /\ ConnectInv /\ [Next]_vars => [Session!Next]_seen
  BY StepIsSession
<1>3. [Session!Next]_seen => [Session!Next]_(Session!vars)
  BY DEF seen, Session!vars, Session!attempt, Opening, Stage, Using
<1> QED
  BY <1>1, <1>2, <1>3, TypeCorrect, ConnectInvariant, PTL
  DEF Spec, ImplementsSessions, Session!Spec
=============================================================================
