------------------------------- MODULE Supply -------------------------------
(***************************************************************************)
(* How accounts come by their proxies: the commands of manage.py that      *)
(* import accounts and proxies, test proxies, hand them out, enable and    *)
(* disable accounts, beside the processes that have built clients from the *)
(* rows and keep them as they were.                                        *)
(*                                                                         *)
(* Every command is a process of its own, and reads and writes in          *)
(* transactions of their own.  Of assign-proxies, and of test-proxies, one *)
(* runs at a time; nothing but the administrator sees to that.             *)
(***************************************************************************)
EXTENDS Naturals, FiniteSetsExt

CONSTANTS
    Account,    \* telegram_accounts, by name
    MaxProxy,   \* bound: rows of proxies
    FailLimit,  \* failures at which a proxy is given up: 3 in the code
    Address,    \* host, port and username of a proxy
    Open,       \* those without username, where NULL conflicts with nothing
    Process,    \* the app, and each health-check
    NoRow, NoProxy, NoAccount,
    Own         \* a proxy that came with the account, from its seller

Row == 1 .. MaxProxy

ASSUME SupplyAssumption ==
    /\ MaxProxy \in Nat /\ FailLimit \in Nat \ {0}
    /\ Open \subseteq Address
    /\ NoRow \notin Address /\ NoAccount \notin Account
    /\ NoProxy # Own /\ NoProxy \notin Row /\ Own \notin Row

VARIABLES
    imported,  \* the accounts that have a row
    enabled,   \* those with enabled
    proxy,     \* TelegramAccount.proxy: as the row of proxies it was copied from
    address,   \* Proxy: its address, NoRow before it is inserted
    active,    \* Proxy.active
    fails,     \* Proxy.fails_count, as far as the limit
    assigned,  \* Proxy.assigned_account_id
    step,      \* assign_round_robin: "idle", "accounts" (read), "give"
    needy,     \* accounts_no_proxy
    free,      \* free_proxies
    failing,   \* test_all: the proxies it found bad and has yet to mark
    client     \* the row whose proxy the client has that a process built for an
               \* account, NoProxy for any other proxy, none, or no client

accounts == <<imported, enabled, proxy>>
pool == <<address, active, fails>>
assignment == <<step, needy, free>>
vars == <<accounts, pool, assigned, assignment, failing, client>>

Known == {p \in Row : address[p] # NoRow}

TypeOK ==
    /\ imported \subseteq Account /\ enabled \subseteq imported
    /\ proxy \in [Account -> Row \union {NoProxy, Own}]
    /\ address \in [Row -> Address \union {NoRow}]
    /\ active \subseteq Known
    /\ fails \in [Row -> 0 .. FailLimit]
    /\ assigned \in [Row -> Account \union {NoAccount}]
    /\ step \in {"idle", "accounts", "give"}
    /\ needy \subseteq imported /\ free \subseteq Known /\ failing \subseteq Known
    /\ client \in [Process -> [Account -> Row \union {NoProxy}]]

Init ==
    /\ imported = {} /\ enabled = {}
    /\ proxy = [a \in Account |-> NoProxy]
    /\ address = [p \in Row |-> NoRow]
    /\ active = {} /\ fails = [p \in Row |-> 0]
    /\ assigned = [p \in Row |-> NoAccount]
    /\ step = "idle" /\ needy = {} /\ free = {}
    /\ failing = {}
    /\ client = [q \in Process |-> [a \in Account |-> NoProxy]]

-----------------------------------------------------------------------------
(* Accounts. *)

SlipImportReleases(a) ==
    assigned' = [p \in Row |-> IF assigned[p] = a THEN NoAccount ELSE assigned[p]]

\* proxies is not looked at: what was assigned to the account remains so
ImportKeepsAssigned(a) == UNCHANGED assigned

\* upsert_account overwrites proxy and enabled, with those of the files;
\* spam says that the account is blocked for spam
ImportAccount(a, own, spam) ==
    /\ imported' = imported \union {a}
    /\ enabled' = IF spam THEN enabled \ {a} ELSE enabled \union {a}
    /\ proxy' = [proxy EXCEPT ![a] = own]
    /\ ImportKeepsAssigned(a)
    /\ UNCHANGED <<pool, assignment, failing, client>>

SlipEnableAnyone(a) == enabled' = enabled \union {a}

\* account-enable finds the row by its name first
Enable(a) == a \in imported /\ enabled' = enabled \union {a}

SetEnabled(a) ==
    /\ Enable(a) \/ (a \in imported /\ enabled' = enabled \ {a})
    /\ UNCHANGED <<imported, proxy, pool, assigned, assignment, failing, client>>

-----------------------------------------------------------------------------
(* Proxies. *)

SlipNoConflict(x) == FALSE

\* ON CONFLICT (host, port, username)
Conflicts(x) == x \notin Open /\ \E p \in Row : address[p] = x

\* a known proxy becomes active again, with the failures it had
ImportProxy(x) ==
    /\ \/ /\ Conflicts(x)
          /\ active' = active \union {p \in Row : address[p] = x}
          /\ UNCHANGED <<address, fails>>
       \/ /\ ~Conflicts(x) /\ Known # Row
          /\ LET p == Min(Row \ Known) IN
                /\ address' = [address EXCEPT ![p] = x]
                /\ active' = active \union {p}
          /\ UNCHANGED fails
    /\ UNCHANGED <<accounts, assigned, assignment, failing, client>>

\* test_all: the active proxies are read and tried before the first is marked
Test ==
    /\ failing = {}
    /\ failing' \in SUBSET active
    /\ UNCHANGED <<accounts, pool, assigned, assignment, client>>

MarkProxyFail(p) ==
    /\ p \in failing
    /\ failing' = failing \ {p}
    /\ fails' = [fails EXCEPT ![p] = IF @ < FailLimit THEN @ + 1 ELSE @]
    /\ active' = IF fails'[p] >= FailLimit THEN active \ {p} ELSE active
    /\ UNCHANGED <<accounts, address, assigned, assignment, client>>

\* an error or Ctrl-C ends the command: the rest is never marked
TestEnds ==
    /\ failing # {} /\ failing' = {}
    /\ UNCHANGED <<accounts, pool, assigned, assignment, client>>

-----------------------------------------------------------------------------
(* assign_round_robin *)

ReadAccounts ==
    /\ step = "idle"
    /\ step' = "accounts" /\ needy' = {a \in imported : proxy[a] = NoProxy}
    /\ UNCHANGED <<accounts, pool, assigned, free, failing, client>>

SlipFree == active

Free == {p \in active : assigned[p] = NoAccount}

ReadProxies ==
    /\ step = "accounts"
    /\ step' = "give" /\ free' = Free
    /\ UNCHANGED <<accounts, pool, assigned, needy, failing, client>>

SlipProxyAlone(p, a) ==
    /\ proxy' = [proxy EXCEPT ![a] = p]
    /\ UNCHANGED assigned

\* assign_proxy_to_account: both rows, in one transaction, whatever they say
AssignProxy(p, a) ==
    /\ assigned' = [assigned EXCEPT ![p] = a]
    /\ proxy' = [proxy EXCEPT ![a] = p]

\* zip: the accounts come in any order, the proxies in the order of their id
Give(a) ==
    /\ step = "give" /\ a \in needy /\ free # {}
    /\ AssignProxy(Min(free), a)
    /\ needy' = needy \ {a} /\ free' = free \ {Min(free)}
    /\ UNCHANGED <<imported, enabled, pool, step, failing, client>>

\* one of the lists is used up, or the command is ended before
AssignEnds ==
    /\ step # "idle"
    /\ step' = "idle" /\ needy' = {} /\ free' = {}
    /\ UNCHANGED <<accounts, pool, assigned, failing, client>>

-----------------------------------------------------------------------------
(* The processes that use the accounts. *)

IsRow(p) == p \in Row

\* load_all reads the enabled accounts once, and builds their clients
Load(q) ==
    /\ client' = [client EXCEPT ![q] =
         [a \in Account |-> IF a \in enabled /\ IsRow(proxy[a]) THEN proxy[a] ELSE NoProxy]]
    /\ UNCHANGED <<accounts, pool, assigned, assignment, failing>>

Exit(q) ==
    /\ client' = [client EXCEPT ![q] = [a \in Account |-> NoProxy]]
    /\ UNCHANGED <<accounts, pool, assigned, assignment, failing>>

-----------------------------------------------------------------------------
Manage ==
    \/ \E a \in Account : SetEnabled(a)
    \/ \E a \in Account, own \in {NoProxy, Own}, spam \in BOOLEAN :
            ImportAccount(a, own, spam)
    \/ \E x \in Address : ImportProxy(x)
    \/ Test \/ (\E p \in Row : MarkProxyFail(p)) \/ TestEnds

Assign == ReadAccounts \/ ReadProxies \/ (\E a \in Account : Give(a)) \/ AssignEnds

Next ==
    \/ Manage
    \/ Assign
    \/ \E q \in Process : Load(q) \/ Exit(q)

Spec == Init /\ [][Next]_vars

-----------------------------------------------------------------------------
\* The two sides of an assignment agree: an account that has a proxy of the
\* pool is the one the proxy is assigned to, whatever is imported, and
\* wherever a command ends, between the reads and the last of its writes
\* (proxy_pool.py:148-171, repo.py:225-237).  The converse does not hold: an
\* account that is imported again loses its proxy, and the proxy stays its.
ProxyLink == \A a \in Account : IsRow(proxy[a]) => assigned[proxy[a]] = a

Share(p, r) == p = r \/ (address[p] = address[r] /\ address[p] \notin Open)

\* Clients of two accounts never go out through one proxy, not even those
\* that different processes built at different times, and kept while the
\* rows went on to change (account_manager.py:85, client_factory.py:59-61).
\* An open proxy may be in the table twice.
ClientsDoNotShare ==
    \A q1, q2 \in Process, a, b \in Account :
        a # b /\ IsRow(client[q1][a]) /\ IsRow(client[q2][b]) =>
            ~Share(client[q1][a], client[q2][b])

\* That is so because a proxy, once assigned, is never assigned to another
\* (proxy_pool.py:156), nor released.
AssignmentIsKept ==
    [][\A p \in Row : assigned[p] # NoAccount => assigned'[p] = assigned[p]]_vars

\* Why: a client has had its proxy from the row, so it was assigned; a proxy
\* that is still to be given has no account; no address is there twice.
SupplyInv ==
    /\ \A q \in Process, a \in Account :
            IsRow(client[q][a]) => assigned[client[q][a]] = a
    /\ \A p \in free : assigned[p] = NoAccount
    /\ \A p \in Row : assigned[p] # NoAccount => address[p] # NoRow
    /\ \A p, r \in Row : p # r /\ address[p] # NoRow => ~Share(p, r)

=============================================================================
