---------------------------- MODULE SupplyProofs ----------------------------
(***************************************************************************)
(* Proofs about Supply, for any accounts, addresses and processes, and any *)
(* number of proxies.                                                      *)
(***************************************************************************)
EXTENDS Supply, TLAPS, WellFoundedInduction

\* The first of some rows is one of them.
LEMMA MinIsMember ==
    ASSUME NEW S \in SUBSET Row, S # {}
    PROVE  Min(S) \in S
<1>1. S \in SUBSET Nat
  BY SupplyAssumption DEF Row
<1>2. PICK n \in S : \A k \in S : ~(<<k, n>> \in OpToRel(<, Nat))
  BY <1>1, WFMin, NatLessThanWellFounded, Zenon
<1>3. \A k \in S : <<k, n>> \in OpToRel(<, Nat) <=> k < n
  BY <1>1 DEF OpToRel
<1>4. \A k \in S : n <= k
  <2> TAKE k \in S
  <2>1. ~(k < n) /\ n \in Nat /\ k \in Nat
    BY <1>1, <1>2, <1>3
  <2> QED
    BY <2>1
<1> QED
  BY <1>4 DEF Min

-----------------------------------------------------------------------------
(* Type correctness, in parts: accounts, proxies, the commands, and the    *)
(* clients.                                                                *)

AccountsOK ==
    /\ imported \subseteq Account /\ enabled \subseteq imported
    /\ proxy \in [Account -> Row \union {NoProxy, Own}]

PoolOK ==
    /\ address \in [Row -> Address \union {NoRow}]
    /\ active \subseteq Known
    /\ fails \in [Row -> 0 .. FailLimit]
    /\ assigned \in [Row -> Account \union {NoAccount}]

CommandsOK ==
    /\ step \in {"idle", "accounts", "give"}
    /\ needy \subseteq imported /\ free \subseteq Known /\ failing \subseteq Known

ClientsOK == client \in [Process -> [Account -> Row \union {NoProxy}]]

LEMMA TypeParts ==
    /\ TypeOK <=> AccountsOK /\ PoolOK /\ CommandsOK /\ ClientsOK
    /\ TypeOK' <=> AccountsOK' /\ PoolOK' /\ CommandsOK' /\ ClientsOK'
BY DEF TypeOK, AccountsOK, PoolOK, CommandsOK, ClientsOK

LEMMA InitTypeOK == Init => TypeOK
BY SupplyAssumption DEF Init, TypeOK, Known

LEMMA ManageKeepsTypes ==
    ASSUME TypeOK, Manage
    PROVE  TypeOK'
<1> USE TypeParts
<1>1. ASSUME NEW a \in Account, SetEnabled(a)
      PROVE  TypeOK'
  BY <1>1 DEF SetEnabled, Enable, pool, assignment, AccountsOK, PoolOK, CommandsOK, ClientsOK, Known
<1>2. ASSUME NEW a \in Account, NEW own \in {NoProxy, Own}, NEW spam \in BOOLEAN,
             ImportAccount(a, own, spam)
      PROVE  TypeOK'
  <2>1. enabled' \in {enabled \ {a}, enabled \union {a}}
    BY <1>2 DEF ImportAccount
  <2>2. AccountsOK'
    BY <1>2, <2>1 DEF ImportAccount, AccountsOK
  <2> QED
    BY <1>2, <2>2 DEF ImportAccount, ImportKeepsAssigned, pool, assignment, PoolOK, CommandsOK,
                      ClientsOK, Known
<1>3. ASSUME NEW x \in Address, ImportProxy(x)
      PROVE  TypeOK'
  <2>1. CASE Conflicts(x) /\ active' = active \union {p \in Row : address[p] = x}
             /\ UNCHANGED <<address, fails>>
    <3>1. \A p \in Row : address[p] = x => p \in Known
      BY SupplyAssumption DEF Known
    <3> QED
      BY <1>3, <2>1, <3>1 DEF ImportProxy, accounts, assignment, AccountsOK, PoolOK, CommandsOK,
                              ClientsOK, Known
  <2>2. CASE Known # Row /\ ~Conflicts(x)
    <3> DEFINE p == Min(Row \ Known)
    <3>1. p \in Row \ Known
      BY <2>2, MinIsMember DEF Known
    <3>2. address' = [address EXCEPT ![p] = x] /\ active' = active \union {p} /\ fails' = fails
      BY <1>3, <2>2 DEF ImportProxy
    <3>3. Known \union {p} \subseteq Known'
      BY <3>1, <3>2, SupplyAssumption DEF Known, PoolOK
    <3>4. PoolOK'
      <4>1. address' \in [Row -> Address \union {NoRow}]
        BY <3>1, <3>2 DEF PoolOK
      <4> QED
        BY <1>3, <3>1, <3>2, <3>3, <4>1 DEF ImportProxy, PoolOK
    <3> QED
      BY <1>3, <3>3, <3>4 DEF ImportProxy, accounts, assignment, AccountsOK, CommandsOK, ClientsOK
  <2> QED
    BY <1>3, <2>1, <2>2 DEF ImportProxy
<1>4. CASE Test
  BY <1>4 DEF Test, accounts, pool, assignment, AccountsOK, PoolOK, CommandsOK, ClientsOK, Known
<1>5. ASSUME NEW p \in Row, MarkProxyFail(p)
      PROVE  TypeOK'
  <2>1. fails' \in [Row -> 0 .. FailLimit]
    BY <1>5, SupplyAssumption DEF MarkProxyFail, PoolOK
  <2>2. active' \subseteq active /\ Known' = Known
    BY <1>5 DEF MarkProxyFail, Known
  <2> QED
    BY <1>5, <2>1, <2>2 DEF MarkProxyFail, accounts, assignment, AccountsOK, PoolOK, CommandsOK,
                            ClientsOK
<1>6. CASE TestEnds
  BY <1>6 DEF TestEnds, accounts, pool, assignment, AccountsOK, PoolOK, CommandsOK, ClientsOK, Known
<1> QED
  BY <1>1, <1>2, <1>3, <1>4, <1>5, <1>6 DEF Manage

LEMMA AssignKeepsTypes ==
    ASSUME TypeOK, Assign
    PROVE  TypeOK'
<1> USE TypeParts
<1>1. CASE ReadAccounts \/ ReadProxies \/ AssignEnds
  BY <1>1 DEF ReadAccounts, ReadProxies, AssignEnds, Free, accounts, pool, AccountsOK, PoolOK,
              CommandsOK, ClientsOK, Known
<1>2. ASSUME NEW a \in Account, Give(a)
      PROVE  TypeOK'
  <2>1. Min(free) \in free /\ Min(free) \in Row
    BY <1>2, MinIsMember DEF Give, CommandsOK, Known
  <2>2. /\ proxy' \in [Account -> Row \union {NoProxy, Own}]
        /\ assigned' \in [Row -> Account \union {NoAccount}]
    BY <1>2, <2>1 DEF Give, AssignProxy, AccountsOK, PoolOK
  <2> QED
    BY <1>2, <2>2 DEF Give, pool, AccountsOK, PoolOK, CommandsOK, ClientsOK, Known
<1> QED
  BY <1>1, <1>2 DEF Assign

LEMMA ProcessKeepsTypes ==
    ASSUME TypeOK, NEW q \in Process, Load(q) \/ Exit(q)
    PROVE  TypeOK'
<1> USE TypeParts
<1>1. client' \in [Process -> [Account -> Row \union {NoProxy}]]
  BY DEF Load, Exit, IsRow, ClientsOK
<1> QED
  BY <1>1 DEF Load, Exit, accounts, pool, assignment, AccountsOK, PoolOK, CommandsOK, ClientsOK, Known

LEMMA NextKeepsTypes == TypeOK /\ [Next]_vars => TypeOK'
<1> SUFFICES ASSUME TypeOK, [Next]_vars PROVE TypeOK'
  OBVIOUS
<1>1. CASE UNCHANGED vars
  BY <1>1 DEF vars, accounts, pool, assignment, TypeOK, Known
<1> QED
  BY <1>1, ManageKeepsTypes, AssignKeepsTypes, ProcessKeepsTypes DEF Next

\* Rows, lists and clients keep their types in every command and process
\* (models.py:244-265, proxy_pool.py:148-180).
THEOREM TypeCorrect == Spec => []TypeOK
BY InitTypeOK, NextKeepsTypes, PTL DEF Spec

-----------------------------------------------------------------------------
(* Assignments: SupplyInv and ProxyLink together.                          *)

Inv == ProxyLink /\ SupplyInv

LEMMA InitInv == Init => Inv
BY SupplyAssumption DEF Init, Inv, ProxyLink, SupplyInv, IsRow

\* A row keeps its address, and a new one has an address that no row has,
\* but for the open ones.
LEMMA ImportProxyKeepsInv ==
    ASSUME TypeOK, Inv, NEW x \in Address, ImportProxy(x)
    PROVE  Inv'
<1>1. UNCHANGED <<proxy, assigned, free, client>>
  BY DEF ImportProxy, accounts, assignment
<1>2. CASE UNCHANGED address
  BY <1>1, <1>2 DEF Inv, ProxyLink, SupplyInv, Share
<1>3. CASE Known # Row /\ ~Conflicts(x) /\ address' = [address EXCEPT ![Min(Row \ Known)] = x]
  <2> DEFINE n == Min(Row \ Known)
  <2>1. n \in Row /\ address[n] = NoRow /\ NoRow \notin Address
    BY <1>3, MinIsMember, SupplyAssumption DEF Known
  <2>2. \A p \in Row : address'[p] = IF p = n THEN x ELSE address[p]
    BY <1>3, <2>1 DEF TypeOK
  <2>3. ASSUME NEW p \in Row, NEW r \in Row, p # r, address'[p] # NoRow
        PROVE  ~Share(p, r)'
    <3>1. x \notin Open => address[p] # x /\ address[r] # x
      BY <1>3 DEF Conflicts
    <3> QED
      BY <2>1, <2>2, <2>3, <3>1 DEF Inv, SupplyInv, Share
  <2>4. \A p \in Row : address[p] # NoRow => address'[p] # NoRow
    BY <2>1, <2>2
  <2> QED
    BY <1>1, <2>3, <2>4 DEF Inv, ProxyLink, SupplyInv
<1> QED
  BY <1>2, <1>3 DEF ImportProxy

LEMMA GiveKeepsInv ==
    ASSUME TypeOK, Inv, NEW a \in Account, Give(a)
    PROVE  Inv'
<1> DEFINE n == Min(free)
<1>1. n \in free /\ n \in Row /\ NoAccount \notin Account
  BY MinIsMember, SupplyAssumption DEF Give, TypeOK, Known
<1>2. assigned[n] = NoAccount
  BY <1>1 DEF Inv, SupplyInv
<1>3. /\ \A p \in Row : assigned'[p] = IF p = n THEN a ELSE assigned[p]
      /\ \A b \in Account : proxy'[b] = IF b = a THEN n ELSE proxy[b]
      /\ free' = free \ {n}
      /\ UNCHANGED <<address, client>>
  BY <1>1 DEF Give, AssignProxy, pool, TypeOK
<1>4. ProxyLink'
  BY <1>1, <1>2, <1>3 DEF Inv, ProxyLink, IsRow, TypeOK
<1>5. \A q \in Process, b \in Account :
        IsRow(client[q][b]) => assigned'[client[q][b]] = b
  BY <1>1, <1>2, <1>3 DEF Inv, SupplyInv, IsRow
<1>6. \A p \in free' : assigned'[p] = NoAccount
  BY <1>3 DEF Inv, SupplyInv, TypeOK, Known
<1>7. \A p \in Row : assigned'[p] # NoAccount => address'[p] # NoRow
  BY <1>1, <1>3 DEF Inv, SupplyInv, TypeOK, Known
<1>8. \A p, r \in Row : p # r /\ address'[p] # NoRow => ~Share(p, r)'
  BY <1>3 DEF Inv, SupplyInv, Share
<1> QED
  BY <1>3, <1>4, <1>5, <1>6, <1>7, <1>8 DEF Inv, SupplyInv

LEMMA LoadKeepsInv ==
    ASSUME TypeOK, Inv, NEW q \in Process, Load(q) \/ Exit(q)
    PROVE  Inv'
<1>1. UNCHANGED <<proxy, assigned, free, address>>
  BY DEF Load, Exit, accounts, pool, assignment
<1>2. ASSUME NEW s \in Process, NEW a \in Account, IsRow(client'[s][a])
      PROVE  client'[s][a] \in {client[s][a], proxy[a]}
  BY <1>2, SupplyAssumption DEF Load, Exit, IsRow, TypeOK
<1> QED
  BY <1>1, <1>2 DEF Inv, ProxyLink, SupplyInv, Share

LEMMA NextKeepsInv == TypeOK /\ Inv /\ [Next]_vars => Inv'
<1> SUFFICES ASSUME TypeOK, Inv, [Next]_vars PROVE Inv'
  OBVIOUS
<1>1. ASSUME NEW a \in Account, NEW own \in {NoProxy, Own}, NEW spam \in BOOLEAN,
             ImportAccount(a, own, spam)
      PROVE  Inv'
  <2>1. ~IsRow(own) /\ \A b \in Account : proxy'[b] = IF b = a THEN own ELSE proxy[b]
    BY <1>1, SupplyAssumption DEF ImportAccount, IsRow, TypeOK
  <2>2. UNCHANGED <<assigned, free, address, client>>
    BY <1>1 DEF ImportAccount, ImportKeepsAssigned, pool, assignment
  <2> QED
    BY <2>1, <2>2 DEF Inv, ProxyLink, SupplyInv, Share
<1>2. CASE ReadProxies
  BY <1>2 DEF ReadProxies, Free, accounts, pool, Inv, ProxyLink, SupplyInv, Share
<1>3. CASE AssignEnds
  BY <1>3 DEF AssignEnds, accounts, pool, Inv, ProxyLink, SupplyInv, Share
<1>4. ASSUME \/ \E a \in Account : SetEnabled(a)
             \/ Test \/ (\E p \in Row : MarkProxyFail(p)) \/ TestEnds
             \/ ReadAccounts \/ UNCHANGED vars
      PROVE  Inv'
  <2>1. UNCHANGED <<proxy, assigned, free, address, client>>
    BY <1>4 DEF SetEnabled, Test, MarkProxyFail, TestEnds, ReadAccounts, vars, accounts, pool, assignment
  <2> QED
    BY <2>1 DEF Inv, ProxyLink, SupplyInv, Share
<1> QED
  BY <1>1, <1>2, <1>3, <1>4, ImportProxyKeepsInv, GiveKeepsInv, LoadKeepsInv DEF Next, Manage, Assign

LEMMA InvAlways == Spec => []Inv
<1>1. TypeOK /\ Inv /\ [Next]_vars => Inv'
  BY NextKeepsInv
<1> QED
  BY <1>1, InitInv, TypeCorrect, PTL DEF Spec

\* An account that has a proxy of the pool is the one it is assigned to,
\* however imports, tests and assignments follow each other
\* (proxy_pool.py:148-171, repo.py:225-237).
THEOREM Linked == Spec => []ProxyLink
<1>1. Inv => ProxyLink
  BY DEF Inv
<1> QED
  BY <1>1, InvAlways, PTL

\* Two clients that share a proxy would both have it assigned.
LEMMA InvSeparates == TypeOK /\ Inv => ClientsDoNotShare
<1> SUFFICES ASSUME TypeOK, Inv,
                    NEW q1 \in Process, NEW q2 \in Process, NEW a \in Account, NEW b \in Account,
                    a # b, IsRow(client[q1][a]), IsRow(client[q2][b]),
                    Share(client[q1][a], client[q2][b])
             PROVE  FALSE
  BY DEF ClientsDoNotShare
<1>1. assigned[client[q1][a]] = a /\ assigned[client[q2][b]] = b
  BY DEF Inv, SupplyInv
<1>2. client[q1][a] # client[q2][b]
  BY <1>1
<1>3. address[client[q1][a]] # NoRow
  BY <1>1, SupplyAssumption DEF Inv, SupplyInv, IsRow
<1> QED
  BY <1>2, <1>3 DEF Inv, SupplyInv, IsRow

\* No two accounts go out through one proxy, in whatever processes, and
\* however old the rows their clients were built from
\* (account_manager.py:85, client_factory.py:59-61).
THEOREM NobodyShares == Spec => []ClientsDoNotShare
BY InvSeparates, InvAlways, TypeCorrect, PTL

\* A proxy that has an account keeps it (proxy_pool.py:156, repo.py:231).
THEOREM AssignedForGood == Spec => AssignmentIsKept
<1>1. TypeOK /\ Inv /\ [Next]_vars =>
        [\A p \in Row : assigned[p] # NoAccount => assigned'[p] = assigned[p]]_vars
  <2> SUFFICES ASSUME TypeOK, Inv, Next, NEW p \in Row, assigned[p] # NoAccount
               PROVE  assigned'[p] = assigned[p]
    OBVIOUS
  <2>1. ASSUME NEW a \in Account, Give(a)
        PROVE  assigned'[p] = assigned[p]
    <3>1. Min(free) \in free /\ Min(free) # p
      BY <2>1, MinIsMember DEF Give, Inv, SupplyInv, TypeOK, Known
    <3> QED
      BY <2>1, <3>1 DEF Give, AssignProxy, TypeOK
  <2>2. CASE ~\E a \in Account : Give(a)
    <3>1. assigned' = assigned
      BY <2>2 DEF Next, Manage, Assign, SetEnabled, ImportAccount, ImportKeepsAssigned, ImportProxy,
                  Test, MarkProxyFail, TestEnds, ReadAccounts, ReadProxies, AssignEnds, Load, Exit
    <3> QED
      BY <3>1
  <2> QED
    BY <2>1, <2>2
<1> QED
  BY <1>1, TypeCorrect, InvAlways, PTL DEF Spec, AssignmentIsKept

=============================================================================
