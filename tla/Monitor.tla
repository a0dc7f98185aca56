------------------------------ MODULE Monitor ------------------------------
(***************************************************************************)
(* The realtime monitor: a handler on one client of the pool, for the      *)
(* groups whose row has monitor_enabled and a tg_id.  Every half minute a  *)
(* loop reads these groups and moves the handler if they have changed, or  *)
(* if the account that had it is no longer connected.                      *)
(*                                                                         *)
(* Only the steps of the service are here; module Process adds who starts  *)
(* and stops it, and who connects and bans the accounts meanwhile.         *)
(*                                                                         *)
(* A definition named Slip... is a mistake the code could have made at the *)
(* definition that follows it, kept to show that a property would notice.  *)
(***************************************************************************)

CONSTANTS
    Account,      \* the pool
    MonitorRole,  \* the accounts whose role is "monitor"
    Group,        \* target_groups rows that have a tg_id
    NoAccount

ASSUME MonitorAssumption == MonitorRole \subseteq Account /\ NoAccount \notin Account

VARIABLES
    watched,    \* the groups with monitor_enabled
    connected,  \* the accounts with Account.connected
    banned,     \* the accounts with limiter.is_banned()
    handlers,   \* the filters of the handlers on each client
    active,     \* MonitorService._active
    activeIds,  \* MonitorService._active_ids
    service,    \* where start() is: "none", "first" (rebuild), "wait", "ended"
    rebuild,    \* _rebuild_primary and its loop: "off", "sleep", "query", "apply"
    seen        \* the ids that the query answered

accounts == <<connected, banned>>
handling == <<handlers, active, activeIds>>
progress == <<service, rebuild, seen>>

MonitorTypeOK ==
    /\ watched \subseteq Group
    /\ connected \subseteq Account
    /\ banned \subseteq Account
    /\ handlers \in [Account -> SUBSET (SUBSET Group)]
    /\ active \in Account \union {NoAccount}
    /\ activeIds \subseteq Group
    /\ service \in {"none", "first", "wait", "ended"}
    /\ rebuild \in {"off", "sleep", "query", "apply"}
    /\ seen \subseteq Group

\* __init__, and clients without handlers
MonitorInit ==
    /\ handlers = [a \in Account |-> {}]
    /\ active = NoAccount /\ activeIds = {}
    /\ service = "none" /\ rebuild = "off" /\ seen = {}

\* /monitor add and /monitor remove, or any other word
SetMonitor(g, on) ==
    /\ watched' = IF on THEN watched \union {g} ELSE watched \ {g}
    /\ UNCHANGED <<accounts, handling, progress>>

\* start(): a monitor that is disabled returns at once
Begin(enabled) ==
    /\ service' = IF enabled THEN "first" ELSE "ended"
    /\ rebuild' = IF enabled THEN "query" ELSE "off"
    /\ UNCHANGED <<handling, seen>>

-----------------------------------------------------------------------------
(* _rebuild_primary.  Nothing is awaited after the query, so what follows  *)
(* is one step, on ids that may be old by then.                            *)

LoadIds ==
    /\ rebuild = "query"
    /\ rebuild' = "apply" /\ seen' = watched
    /\ UNCHANGED <<watched, accounts, handling, service>>

\* the query raises: in start() that is the end of it, the loop goes on
LoadFails ==
    /\ rebuild = "query"
    /\ IF service = "first" THEN service' = "ended" /\ rebuild' = "off"
                            ELSE rebuild' = "sleep" /\ UNCHANGED service
    /\ UNCHANGED <<watched, accounts, handling, seen>>

\* the first of those with the role, or else the first of all
Candidates ==
    LET usable == connected \ banned IN
    IF usable \intersect MonitorRole # {} THEN usable \intersect MonitorRole ELSE usable

SlipIdsAlone == seen = activeIds /\ active # NoAccount

UpToDate == seen = activeIds /\ active \in connected

\* handlers without the one of _active
SlipKept == handlers

Removed ==
    [a \in Account |-> IF a = active THEN handlers[a] \ {activeIds} ELSE handlers[a]]

Move ==
    \/ /\ UpToDate \/ Candidates = {}
       /\ UNCHANGED handling
    \/ /\ ~UpToDate /\ Candidates # {} /\ seen = {}
       /\ handlers' = Removed
       /\ active' = NoAccount /\ activeIds' = {}
    \/ /\ ~UpToDate /\ seen # {}
       /\ \E a \in Candidates :
            /\ handlers' = [Removed EXCEPT ![a] = @ \union {seen}]
            /\ active' = a
       /\ activeIds' = seen

Rebuild ==
    /\ rebuild = "apply"
    /\ Move
    /\ rebuild' = "sleep" /\ seen' = {}
    /\ service' = IF service = "first" THEN "wait" ELSE service
    /\ UNCHANGED <<watched, accounts>>

\* rebuild_filter_seconds are over
Wake ==
    /\ rebuild = "sleep"
    /\ rebuild' = "query"
    /\ UNCHANGED <<watched, accounts, handling, service, seen>>

MonitorStep == LoadIds \/ LoadFails \/ Rebuild \/ Wake

-----------------------------------------------------------------------------
(* The end. *)

\* start() is cancelled: its own rebuild with it, but not the loop
Cancelled ==
    /\ service' = "ended"
    /\ IF service = "first" THEN rebuild' = "off" /\ seen' = {}
                            ELSE UNCHANGED <<rebuild, seen>>

SlipLoopGoesOn ==
    /\ handlers' = Removed
    /\ UNCHANGED <<active, activeIds, progress>>

\* stop(): the loop is cancelled wherever it waits; _active is left alone
MonitorStop ==
    /\ rebuild' = "off" /\ seen' = {}
    /\ handlers' = Removed
    /\ UNCHANGED <<active, activeIds, service>>

-----------------------------------------------------------------------------
\* However accounts and groups change while the query is awaited, and
\* wherever the loop is cancelled: there is one handler at most, on the
\* client of _active, for the ids that _active_ids remembers, so that the
\* next rebuild and stop() find it (monitor.py:99-130, 48-56).
OneHandler ==
    /\ \A a \in Account :
        handlers[a] # {} => a = active /\ handlers[a] = {activeIds}
    /\ rebuild # "off" /\ active # NoAccount => handlers[active] # {}

=============================================================================
