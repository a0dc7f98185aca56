------------------------- MODULE GroupCatalogProofs -------------------------
(***************************************************************************)
(* Proofs about GroupCatalog, for any chats, mentions, workers and limits. *)
(***************************************************************************)
EXTENDS GroupCatalog, TLAPS

RowsOK ==
    /\ chat \in [Row -> Chat \union {Nothing}]
    /\ known \in [Row -> BOOLEAN]
    /\ depth \in [Row -> Nat]
    /\ status \in [Row -> {"absent", "pending", "scanning", "scanned",
                           "duplicate", "private", "error"}]
    /\ \A g \in Row : chat[g] = Nothing <=> status[g] = "absent"

LinksOK ==
    /\ link \in [Chat -> {"none", "new", "taken"}]
    /\ linkDepth \in [Chat -> Nat]

\* what the workers do, apart from the rows they do it to
JobsOK ==
    /\ task \in [Worker -> Task \union {Nothing}]
    /\ step \in [Worker -> {"idle", "chat", "read", "mark", "walk", "close"}]
    /\ \A w \in Worker : task[w] = Nothing <=> step[w] = "idle"
    /\ row \in [Worker -> 0 .. MaxRow]
    /\ copy \in [Worker -> [known : BOOLEAN, depth : Nat]]
    /\ todo \in [Worker -> SUBSET Chat]

HeldOK ==
    \A w \in Worker :
        step[w] \in {"chat", "read", "mark"} => row[w] # 0 /\ chat[row[w]] # Nothing

LEMMA TypeParts ==
    /\ TypeOK <=> RowsOK /\ LinksOK /\ waiting \in [Task -> Nat] /\ JobsOK /\ HeldOK
    /\ TypeOK' <=> RowsOK' /\ LinksOK' /\ waiting' \in [Task -> Nat] /\ JobsOK' /\ HeldOK'
BY DEF TypeOK, RowsOK, LinksOK, JobsOK, HeldOK

\* Rows, chats and the other names are told apart.
LEMMA Names ==
    /\ Row \subseteq Task /\ Chat \subseteq Task /\ Chain \in Task
    /\ Chain \notin Row /\ Chain \notin Chat /\ Nothing \notin Task
    /\ Row \intersect Chat = {}
    /\ Row \subseteq Int /\ Row = (0 .. MaxRow) \ {0}
BY NameAssumption, BoundAssumption DEF Task, ScanTask, Row

LEMMA CopyType ==
    /\ NoCopy \in [known : BOOLEAN, depth : Nat]
    /\ \A k \in BOOLEAN, d \in Nat :
        [known |-> k, depth |-> d] \in [known : BOOLEAN, depth : Nat]
BY DEF NoCopy

-----------------------------------------------------------------------------
(* What the helpers do.                                                    *)

\* No row forgets which chat it stands for.
RowsStay == \A g \in Row : chat[g] # Nothing => chat'[g] = chat[g]

LEMMA InsertAdds ==
    ASSUME RowsOK, NEW c \in Chat, NEW k \in BOOLEAN, NEW d \in Nat, Insert(c, k, d)
    PROVE  RowsOK' /\ RowsStay
BY Names, NameAssumption DEF RowsOK, RowsStay, Insert

LEMMA UpsertAdds ==
    ASSUME RowsOK, NEW c \in Chat, NEW d \in Nat, Upsert(c, d)
    PROVE  RowsOK' /\ RowsStay
<1>1. CASE Insert(c, TRUE, d)
  BY <1>1, InsertAdds
<1>2. ASSUME NEW g \in Row, depth' = [depth EXCEPT ![g] = d], UNCHANGED <<chat, known, status>>
      PROVE  RowsOK' /\ RowsStay
  BY <1>2 DEF RowsOK, RowsStay
<1> QED
  BY <1>1, <1>2 DEF Upsert

\* A status other than "absent" may replace another one.
LEMMA StatusChanges ==
    ASSUME RowsOK, NEW g \in Row, chat[g] # Nothing,
           NEW s \in {"scanning", "scanned", "duplicate", "private", "error"},
           status' = [status EXCEPT ![g] = s],
           known' \in [Row -> BOOLEAN], UNCHANGED <<chat, depth>>
    PROVE  RowsOK'
BY DEF RowsOK

LEMMA DropsKeepsTypes ==
    ASSUME JobsOK, NEW w \in Worker, Drops(w)
    PROVE  JobsOK'
<1>1. 0 \in 0 .. MaxRow
  BY BoundAssumption
<1> QED
  BY <1>1, CopyType, Names DEF JobsOK, Drops

LEMMA GoesKeepsTypes ==
    ASSUME JobsOK, NEW w \in Worker, step[w] # "idle",
           NEW s \in {"read", "mark", "walk", "close"}, Goes(w, s)
    PROVE  /\ task' \in [Worker -> Task \union {Nothing}]
           /\ step' \in [Worker -> {"idle", "chat", "read", "mark", "walk", "close"}]
           /\ \A v \in Worker : task'[v] = Nothing <=> step'[v] = "idle"
BY DEF JobsOK, Goes

LEMMA BeginsKeepsTypes ==
    ASSUME JobsOK, waiting \in [Task -> Nat], NEW w \in Worker, NEW t \in Task,
           NEW s \in {"chat", "walk"}, Begins(w, t, s)
    PROVE  /\ task' \in [Worker -> Task \union {Nothing}]
           /\ step' \in [Worker -> {"idle", "chat", "read", "mark", "walk", "close"}]
           /\ \A v \in Worker : task'[v] = Nothing <=> step'[v] = "idle"
           /\ waiting' \in [Task -> Nat]
BY Names DEF JobsOK, Begins

-----------------------------------------------------------------------------
(* Types.                                                                  *)

TypeInv == TypeOK /\ TasksHaveRows

LEMMA InitTypes == Init => TypeInv
<1> SUFFICES ASSUME Init PROVE TypeInv
  OBVIOUS
<1>1. 0 \in 0 .. MaxRow /\ Row \subseteq Task /\ Nothing \notin Row
  BY BoundAssumption, Names
<1>2. RowsOK /\ LinksOK /\ waiting \in [Task -> Nat]
  BY DEF Init, RowsOK, LinksOK
<1>3. JobsOK
  BY <1>1, CopyType DEF Init, JobsOK
<1>4. HeldOK
  BY DEF Init, HeldOK
<1>5. TasksHaveRows
  BY <1>1 DEF Init, TasksHaveRows
<1> QED
  BY <1>2, <1>3, <1>4, <1>5, TypeParts DEF TypeInv

\* What a worker holds is there for good.
LEMMA HeldStays ==
    ASSUME JobsOK, HeldOK, RowsStay,
           \A w \in Worker :
             step'[w] \in {"chat", "read", "mark"} =>
                row'[w] = row[w] /\ step[w] \in {"chat", "read", "mark"}
    PROVE  HeldOK'
<1> SUFFICES ASSUME NEW w \in Worker, step'[w] \in {"chat", "read", "mark"}
             PROVE  row'[w] # 0 /\ chat'[row'[w]] # Nothing
  BY DEF HeldOK
<1>1. row'[w] = row[w] /\ row[w] # 0 /\ chat[row[w]] # Nothing
  BY DEF HeldOK
<1>2. row[w] \in Row
  BY <1>1, Names DEF JobsOK
<1> QED
  BY <1>1, <1>2 DEF RowsStay

\* So is the row that a task names.
LEMMA NamedStays ==
    ASSUME TasksHaveRows, RowsStay,
           \A g \in Row :
             waiting'[g] > 0 \/ (\E w \in Worker : task'[w] = g) =>
                waiting[g] > 0 \/ (\E w \in Worker : task[w] = g) \/ chat[g] # Nothing
    PROVE  TasksHaveRows'
BY DEF TasksHaveRows, RowsStay

LEMMA TaskTypes ==
    ASSUME TypeInv, NEW t \in Task, Add(t), RowsOK', RowsStay, UNCHANGED <<links, jobs>>,
           t \notin Row \/ \E w \in Worker : task[w] = t
    PROVE  TypeInv'
<1> USE TypeParts
<1>1. LinksOK' /\ JobsOK'
  BY DEF TypeInv, LinksOK, JobsOK, links, jobs
<1>2. waiting' \in [Task -> Nat]
  BY DEF TypeInv, Add
<1>3. HeldOK'
  BY HeldStays DEF TypeInv, jobs
<1>4. TasksHaveRows'
  BY NamedStays, Names DEF TypeInv, Add, jobs
<1> QED
  BY <1>1, <1>2, <1>3, <1>4 DEF TypeInv

LEMMA PollTypes ==
    ASSUME TypeInv, NEW G \in SUBSET Row, Poll(G)
    PROVE  TypeInv'
<1> USE TypeParts
<1>1. RowsOK' /\ LinksOK' /\ JobsOK' /\ RowsStay
  BY DEF TypeInv, RowsOK, LinksOK, JobsOK, RowsStay, Poll, groups, links, jobs
<1>2. waiting' \in [Task -> Nat]
  BY DEF TypeInv, Poll
<1>3. HeldOK'
  BY <1>1, HeldStays DEF TypeInv, Poll, jobs
<1>4. \A g \in G : chat[g] # Nothing
  BY DEF TypeInv, Poll, PendingGroups, RowsOK
<1>5. ASSUME NEW g \in Row, waiting'[g] > 0
      PROVE  waiting[g] > 0 \/ chat[g] # Nothing
  <2>1. g \in Task /\ g # Chain
    BY Names
  <2>2. CASE g \in G
    BY <1>4, <2>2
  <2>3. CASE g \notin G
    BY <1>5, <2>1, <2>3 DEF Poll
  <2> QED
    BY <2>2, <2>3
<1>6. TasksHaveRows'
  BY <1>1, <1>5, NamedStays DEF TypeInv, Poll, jobs
<1> QED
  BY <1>1, <1>2, <1>3, <1>6 DEF TypeInv

LEMMA BeginsKeepsNames ==
    ASSUME TypeInv, NEW w \in Worker, NEW t \in Task, NEW s, Begins(w, t, s),
           UNCHANGED chat
    PROVE  TasksHaveRows'
<1> SUFFICES ASSUME NEW g \in Row, waiting'[g] > 0 \/ (\E v \in Worker : task'[v] = g)
             PROVE  chat[g] # Nothing
  BY DEF TasksHaveRows
<1>1. task \in [Worker -> Task \union {Nothing}] /\ waiting \in [Task -> Nat] /\ g \in Task
  BY Names DEF TypeInv, TypeOK
<1>2. waiting[g] > 0 \/ (\E v \in Worker : task[v] = g)
  <2>1. CASE waiting'[g] > 0
    BY <1>1, <2>1 DEF Begins
  <2>2. ASSUME NEW v \in Worker, task'[v] = g
        PROVE  waiting[g] > 0 \/ task[v] = g
    BY <1>1, <2>2 DEF Begins
  <2> QED
    BY <2>1, <2>2
<1> QED
  BY <1>2 DEF TypeInv, TasksHaveRows

\* Giving back or dropping a task.
LEMMA DropsKeepsNames ==
    ASSUME TypeInv, NEW w \in Worker, Drops(w), RowsStay,
           UNCHANGED waiting
              \/ (step[w] # "idle" /\ waiting' = [waiting EXCEPT ![task[w]] = @ + 1])
    PROVE  TasksHaveRows' /\ waiting' \in [Task -> Nat]
<1>1. /\ task \in [Worker -> Task \union {Nothing}] /\ waiting \in [Task -> Nat]
      /\ Nothing \notin Row /\ Row \subseteq Task
      /\ step[w] # "idle" => task[w] \in Task
  BY Names DEF TypeInv, TypeOK
<1>2. ASSUME NEW g \in Row, waiting'[g] > 0
      PROVE  waiting[g] > 0 \/ (\E v \in Worker : task[v] = g)
  BY <1>1, <1>2
<1>3. ASSUME NEW g \in Row, NEW v \in Worker, task'[v] = g
      PROVE  task[v] = g
  BY <1>1, <1>3 DEF Drops
<1>4. TasksHaveRows'
  BY <1>2, <1>3, NamedStays DEF TypeInv
<1>5. waiting' \in [Task -> Nat]
  BY <1>1
<1> QED
  BY <1>4, <1>5

LEMMA DropsKeepsHeld ==
    ASSUME TypeInv, NEW w \in Worker, Drops(w), RowsStay
    PROVE  HeldOK'
<1>1. JobsOK /\ HeldOK
  BY TypeParts DEF TypeInv
<1>2. ASSUME NEW v \in Worker, step'[v] \in {"chat", "read", "mark"}
      PROVE  row'[v] = row[v] /\ step[v] \in {"chat", "read", "mark"}
  BY <1>1, <1>2 DEF JobsOK, Drops
<1> QED
  BY <1>1, <1>2, HeldStays

\* A step of a worker that keeps its task and the row it holds.
LEMMA GoesKeepsHeld ==
    ASSUME TypeInv, NEW w \in Worker, NEW s, s # "chat", Goes(w, s), RowsStay,
           s \in {"read", "mark"} => step[w] \in {"chat", "read", "mark"} /\ UNCHANGED row,
           UNCHANGED row \/ row' = [row EXCEPT ![w] = 0],
           UNCHANGED waiting
    PROVE  HeldOK' /\ TasksHaveRows'
<1>1. JobsOK /\ HeldOK /\ TasksHaveRows
  BY TypeParts DEF TypeInv
<1>2. CASE s \notin {"chat", "read", "mark"}
  <2>1. ASSUME NEW v \in Worker, step'[v] \in {"chat", "read", "mark"}
        PROVE  row'[v] = row[v] /\ step[v] \in {"chat", "read", "mark"}
    BY <1>1, <1>2, <2>1 DEF JobsOK, Goes
  <2> QED
    BY <1>1, <2>1, HeldStays, NamedStays DEF Goes
<1>3. CASE s \in {"read", "mark"}
  <2>1. ASSUME NEW v \in Worker, step'[v] \in {"chat", "read", "mark"}
        PROVE  row'[v] = row[v] /\ step[v] \in {"chat", "read", "mark"}
    BY <1>1, <1>3, <2>1 DEF JobsOK, Goes
  <2> QED
    BY <1>1, <2>1, HeldStays, NamedStays DEF Goes
<1> QED
  BY <1>2, <1>3

LEMMA TakeScanTypes ==
    ASSUME TypeInv, NEW w \in Worker, NEW t \in ScanTask, TakeScan(w, t)
    PROVE  TypeInv'
<1> USE TypeParts
<1>1. RowsOK /\ LinksOK /\ JobsOK /\ HeldOK /\ waiting \in [Task -> Nat] /\ t \in Task
  BY DEF TypeInv, Task
<1>2. RowsOK' /\ LinksOK' /\ UNCHANGED <<chat, todo>> /\ Begins(w, t, "chat")
  BY <1>1 DEF TakeScan, RowsOK, LinksOK, groups, links
<1>3. PICK g \in Row :
        /\ t = g \/ Named(t) = {g}
        /\ row' = [row EXCEPT ![w] = g]
        /\ copy' = [copy EXCEPT ![w] = [known |-> known[g], depth |-> depth[g]]]
  BY DEF TakeScan
<1>4. chat[g] # Nothing
  <2>1. CASE t = g
    BY <2>1, <1>2 DEF TypeInv, TasksHaveRows, Begins
  <2>2. CASE Named(t) = {g}
    BY <1>1, <2>2, Names DEF Named
  <2> QED
    BY <1>3, <2>1, <2>2
<1>5. row' \in [Worker -> 0 .. MaxRow] /\ g # 0
  BY <1>1, <1>3, Names DEF JobsOK
<1>6. [known |-> known[g], depth |-> depth[g]] \in [known : BOOLEAN, depth : Nat]
  BY <1>1, CopyType DEF RowsOK
<1>7. copy' \in [Worker -> [known : BOOLEAN, depth : Nat]]
  BY <1>1, <1>3, <1>6 DEF JobsOK
<1>8. JobsOK' /\ waiting' \in [Task -> Nat]
  BY <1>1, <1>2, <1>5, <1>7, BeginsKeepsTypes DEF JobsOK
<1>9. HeldOK'
  BY <1>1, <1>2, <1>3, <1>4, <1>5 DEF JobsOK, HeldOK, Begins
<1>10. TasksHaveRows'
  BY <1>1, <1>2, BeginsKeepsNames
<1> QED
  BY <1>2, <1>8, <1>9, <1>10 DEF TypeInv

\* The row of a scan.
LEMMA HeldRow ==
    ASSUME TypeInv, NEW w \in Worker, step[w] \in {"chat", "read", "mark"}
    PROVE  row[w] \in Row /\ chat[row[w]] \in Chat /\ status[row[w]] # "absent"
<1>1. row[w] # 0 /\ chat[row[w]] # Nothing /\ row[w] \in 0 .. MaxRow
  BY DEF TypeInv, TypeOK
<1>2. row[w] \in Row
  BY <1>1, Names
<1> QED
  BY <1>1, <1>2 DEF TypeInv, TypeOK

LEMMA AdoptTypes ==
    ASSUME TypeInv, NEW w \in Worker, Adopt(w)
    PROVE  TypeInv'
<1> USE TypeParts
<1> DEFINE others == {h \in Row \ {row[w]} : Owns(h, chat[row[w]])}
<1>1. RowsOK /\ LinksOK /\ JobsOK /\ row[w] \in Row /\ chat[row[w]] # Nothing
  BY HeldRow, NameAssumption DEF TypeInv, Adopt
<1>2. LinksOK' /\ RowsStay /\ Goes(w, "read") /\ UNCHANGED <<chat, depth, waiting, row, todo>>
      /\ step[w] = "chat"
  BY <1>1 DEF Adopt, LinksOK, links, RowsStay
<1>3. HeldOK' /\ TasksHaveRows'
  BY <1>2, GoesKeepsHeld
<1>4. RowsOK' /\ copy' \in [Worker -> [known : BOOLEAN, depth : Nat]]
  <2>1. CASE UNCHANGED <<known, status, copy>>
    BY <1>1, <1>2, <2>1 DEF RowsOK, JobsOK
  <2>2. CASE known' = [known EXCEPT ![row[w]] = TRUE]
             /\ status' = [status EXCEPT ![row[w]] = "scanning"] /\ UNCHANGED copy
    <3>1. known' \in [Row -> BOOLEAN]
      BY <1>1, <2>2 DEF RowsOK
    <3> QED
      BY <1>1, <1>2, <2>2, <3>1, StatusChanges DEF JobsOK
  <2>3. ASSUME NEW h \in others, UNCHANGED known,
               status' = [status EXCEPT ![row[w]] = "duplicate"],
               copy' = [copy EXCEPT ![w] = [known |-> TRUE, depth |-> depth[h]]]
        PROVE  RowsOK' /\ copy' \in [Worker -> [known : BOOLEAN, depth : Nat]]
    <3>1. known' \in [Row -> BOOLEAN] /\ depth[h] \in Nat
      BY <1>1, <2>3 DEF RowsOK
    <3>2. copy' \in [Worker -> [known : BOOLEAN, depth : Nat]]
      BY <1>1, <2>3, <3>1, CopyType DEF JobsOK
    <3> QED
      BY <1>1, <1>2, <2>3, <3>1, <3>2, StatusChanges
  <2> QED
    BY <2>1, <2>2, <2>3 DEF Adopt
<1>5. JobsOK'
  BY <1>1, <1>2, <1>4, GoesKeepsTypes DEF JobsOK
<1> QED
  BY <1>2, <1>3, <1>4, <1>5 DEF TypeInv

LEMMA ReadTypes ==
    ASSUME TypeInv, NEW w \in Worker, Read(w)
    PROVE  TypeInv'
<1> USE TypeParts
<1>1. RowsOK /\ LinksOK /\ JobsOK
  BY DEF TypeInv
<1>2. RowsOK' /\ RowsStay /\ Goes(w, "mark") /\ UNCHANGED <<waiting, row, todo>>
      /\ step[w] = "read" /\ copy' = [copy EXCEPT ![w] = NoCopy]
  BY <1>1 DEF Read, RowsOK, RowsStay, groups
<1>3. HeldOK' /\ TasksHaveRows'
  BY <1>2, GoesKeepsHeld
<1>4. JobsOK'
  BY <1>1, <1>2, GoesKeepsTypes, CopyType DEF JobsOK
<1>5. copy[w].depth + 1 \in Nat
  BY <1>1 DEF JobsOK
<1>6. LinksOK'
  BY <1>1, <1>5 DEF LinksOK, Read
<1> QED
  BY <1>1, <1>2, <1>3, <1>4, <1>6 DEF TypeInv

LEMMA MarkTypes ==
    ASSUME TypeInv, NEW w \in Worker, Mark(w)
    PROVE  TypeInv'
<1> USE TypeParts
<1>1. RowsOK /\ LinksOK /\ JobsOK /\ row[w] \in Row /\ chat[row[w]] # Nothing
  BY HeldRow, NameAssumption DEF TypeInv, Mark
<1>2. LinksOK' /\ RowsStay /\ Goes(w, "close") /\ UNCHANGED <<chat, known, depth, waiting, copy, todo>>
      /\ step[w] = "mark" /\ row' = [row EXCEPT ![w] = 0]
  BY <1>1 DEF Mark, LinksOK, RowsStay, links
<1>3. HeldOK' /\ TasksHaveRows'
  BY <1>2, GoesKeepsHeld
<1>4. JobsOK'
  <2>1. 0 \in 0 .. MaxRow
    BY BoundAssumption
  <2> QED
    BY <1>1, <1>2, <2>1, GoesKeepsTypes DEF JobsOK
<1>5. RowsOK'
  <2>1. known' \in [Row -> BOOLEAN]
    BY <1>1, <1>2 DEF RowsOK
  <2>2. status' = [status EXCEPT ![row[w]] = "scanned"]
    BY DEF Mark
  <2> QED
    BY <1>1, <1>2, <2>1, <2>2, StatusChanges
<1> QED
  BY <1>2, <1>3, <1>4, <1>5, <1>1 DEF TypeInv

LEMMA DropTypes ==
    ASSUME TypeInv, NEW w \in Worker, Finish(w) \/ Refuse(w) \/ Back(w) \/ GiveUp(w)
    PROVE  TypeInv'
<1> USE TypeParts
<1>1. RowsOK /\ LinksOK /\ JobsOK
  BY DEF TypeInv
<1>2. /\ Drops(w) /\ UNCHANGED <<chat, known, depth, link, linkDepth>> /\ RowsStay
      /\ \/ UNCHANGED waiting
         \/ step[w] # "idle" /\ waiting' = [waiting EXCEPT ![task[w]] = @ + 1]
  BY DEF Finish, Refuse, Back, GiveUp, groups, links, RowsStay
<1>3. LinksOK' /\ JobsOK' /\ HeldOK' /\ TasksHaveRows' /\ waiting' \in [Task -> Nat]
  BY <1>1, <1>2, DropsKeepsTypes, DropsKeepsHeld, DropsKeepsNames DEF LinksOK
<1>4. RowsOK'
  <2>1. CASE UNCHANGED status
    BY <1>1, <1>2, <2>1 DEF RowsOK
  <2>2. ASSUME NEW s \in {"private", "error"}, task[w] \in Row,
               status' = [status EXCEPT ![task[w]] = s]
        PROVE  RowsOK'
    <3>1. chat[task[w]] # Nothing
      BY <2>2 DEF TypeInv, TasksHaveRows
    <3>2. known' \in [Row -> BOOLEAN]
      BY <1>1, <1>2 DEF RowsOK
    <3> QED
      BY <1>1, <1>2, <2>2, <3>1, <3>2, StatusChanges
  <2> QED
    BY <2>1, <2>2 DEF Finish, Refuse, MarkRefused, Back, GiveUp, groups
<1> QED
  BY <1>3, <1>4 DEF TypeInv

LEMMA TakeWalkTypes ==
    ASSUME TypeInv, NEW w \in Worker, NEW S \in SUBSET Chat, TakeWalk(w, S)
    PROVE  TypeInv'
<1> USE TypeParts
<1>1. RowsOK /\ LinksOK /\ JobsOK /\ HeldOK /\ waiting \in [Task -> Nat] /\ Chain \in Task
  BY Names DEF TypeInv
<1>2. RowsOK' /\ UNCHANGED <<chat, row, copy>> /\ Begins(w, Chain, "walk")
      /\ todo' = [todo EXCEPT ![w] = S]
  BY <1>1 DEF TakeWalk, RowsOK, groups
<1>3. LinksOK'
  BY <1>1 DEF TakeWalk, LinksOK
<1>4. JobsOK' /\ waiting' \in [Task -> Nat]
  BY <1>1, <1>2, BeginsKeepsTypes DEF JobsOK
<1>5. HeldOK'
  BY <1>1, <1>2 DEF JobsOK, HeldOK, Begins
<1>6. TasksHaveRows'
  BY <1>1, <1>2, BeginsKeepsNames
<1> QED
  BY <1>2, <1>3, <1>4, <1>5, <1>6 DEF TypeInv

LEMMA WalkTypes ==
    ASSUME TypeInv, NEW w \in Worker, NEW c \in Chat, Walk(w, c)
    PROVE  TypeInv' /\ RowsStay
<1> USE TypeParts
<1>1. RowsOK /\ LinksOK /\ JobsOK /\ HeldOK /\ waiting \in [Task -> Nat]
  BY DEF TypeInv
<1>2. UNCHANGED <<link, linkDepth, waiting, task, step, row, copy>>
      /\ todo' = [todo EXCEPT ![w] = @ \ {c}]
  BY DEF Walk, links
<1>3. RowsOK' /\ RowsStay
  <2>1. CASE UNCHANGED groups
    BY <1>1, <2>1 DEF RowsOK, RowsStay, groups
  <2>2. CASE Upsert(c, linkDepth[c] + 1)
    <3>1. linkDepth[c] + 1 \in Nat
      BY <1>1 DEF LinksOK
    <3> QED
      BY <1>1, <2>2, <3>1, UpsertAdds
  <2> QED
    BY <2>1, <2>2 DEF Walk
<1>4. LinksOK' /\ JobsOK' /\ waiting' \in [Task -> Nat]
  BY <1>1, <1>2 DEF LinksOK, JobsOK
<1>5. HeldOK' /\ TasksHaveRows'
  BY <1>1, <1>2, <1>3, HeldStays, NamedStays DEF TypeInv
<1> QED
  BY <1>3, <1>4, <1>5 DEF TypeInv

LEMMA WalkEndsTypes ==
    ASSUME TypeInv, NEW w \in Worker, WalkEnds(w)
    PROVE  TypeInv'
<1> USE TypeParts
<1>1. RowsOK /\ LinksOK /\ JobsOK
  BY DEF TypeInv
<1>2. RowsOK' /\ LinksOK' /\ RowsStay /\ Goes(w, "close") /\ UNCHANGED <<waiting, row, copy>>
      /\ step[w] = "walk" /\ todo' = [todo EXCEPT ![w] = {}]
  BY <1>1 DEF WalkEnds, RowsOK, LinksOK, RowsStay, groups, links
<1>3. HeldOK' /\ TasksHaveRows'
  BY <1>2, GoesKeepsHeld
<1>4. JobsOK'
  BY <1>1, <1>2, GoesKeepsTypes DEF JobsOK
<1> QED
  BY <1>1, <1>2, <1>3, <1>4 DEF TypeInv

LEMMA LoadFailsTypes ==
    ASSUME TypeInv, NEW c \in Chat, LoadFails(c)
    PROVE  TypeInv'
<1> USE TypeParts
<1>1. RowsOK /\ LinksOK /\ JobsOK /\ HeldOK /\ waiting \in [Task -> Nat] /\ c \in Task
  BY Names DEF TypeInv
<1>2. RowsOK' /\ LinksOK' /\ JobsOK' /\ RowsStay
  BY <1>1 DEF LoadFails, RowsOK, LinksOK, JobsOK, RowsStay, groups, links, jobs
<1>3. waiting' \in [Task -> Nat] /\ \A g \in Row : waiting'[g] = waiting[g]
  BY <1>1, Names DEF LoadFails
<1>4. HeldOK' /\ TasksHaveRows'
  BY <1>1, <1>2, <1>3, HeldStays, NamedStays DEF TypeInv, LoadFails, jobs
<1> QED
  BY <1>2, <1>3, <1>4 DEF TypeInv

LEMMA SeedTypes ==
    ASSUME TypeInv, NEW c \in Seed, SeedGroup(c) \/ Find(c)
    PROVE  TypeInv' /\ RowsStay
<1> USE TypeParts
<1>1. RowsOK /\ LinksOK /\ JobsOK /\ HeldOK /\ waiting \in [Task -> Nat]
      /\ c \in Chat /\ c \in Task /\ c \notin Row
  BY Names, ChatAssumption DEF TypeInv
<1>2. RowsOK' /\ RowsStay
  <2>1. CASE SeedGroup(c)
    BY <1>1, <2>1, InsertAdds DEF SeedGroup
  <2>2. CASE Find(c)
    BY <1>1, <2>2, UpsertAdds DEF Find
  <2> QED
    BY <2>1, <2>2
<1>3. CASE SeedGroup(c)
  BY <1>1, <1>2, <1>3, TaskTypes DEF SeedGroup
<1>4. CASE Find(c)
  <2>1. LinksOK' /\ JobsOK' /\ waiting' \in [Task -> Nat]
    BY <1>1, <1>4 DEF Find, LinksOK, JobsOK, links, jobs
  <2>2. HeldOK' /\ TasksHaveRows'
    BY <1>1, <1>2, <1>4, HeldStays, NamedStays DEF TypeInv, Find, jobs
  <2> QED
    BY <1>2, <2>1, <2>2 DEF TypeInv
<1> QED
  BY <1>2, <1>3, <1>4

\* Orders and recovery add a task that may wait or run already.
Repeats == OrderChain \/ \E w \in Worker : Again(w)

LEMMA RepeatsTypes ==
    ASSUME TypeInv, Repeats
    PROVE  TypeInv'
<1>1. RowsOK' /\ RowsStay
  BY TypeParts DEF TypeInv, Repeats, OrderChain, Again, RowsOK, RowsStay, groups
<1>2. CASE OrderChain
  BY <1>1, <1>2, TaskTypes, Names DEF OrderChain
<1>3. ASSUME NEW w \in Worker, Again(w) PROVE TypeInv'
  <2>1. task[w] \in Task
    BY <1>3 DEF TypeInv, TypeOK, Again
  <2> QED
    BY <1>1, <1>3, <2>1, TaskTypes DEF Again
<1> QED
  BY <1>2, <1>3 DEF Repeats

\* The cases of a step.
LEMMA Steps ==
    ASSUME AnyNext
    PROVE  \/ \E c \in Seed : SeedGroup(c) \/ Find(c)
           \/ Repeats \/ (\E G \in SUBSET Row : Poll(G)) \/ (\E c \in Chat : LoadFails(c))
           \/ \E w \in Worker :
                \/ \E t \in ScanTask : TakeScan(w, t)
                \/ Adopt(w) \/ Read(w) \/ Mark(w)
                \/ Finish(w) \/ Refuse(w) \/ Back(w) \/ GiveUp(w)
                \/ \E S \in SUBSET Chat : TakeWalk(w, S)
                \/ \E c \in Chat : Walk(w, c)
                \/ WalkEnds(w)
<1>1. CASE \E w \in Worker : Again(w)
  BY <1>1 DEF Repeats
<1>2. CASE Next
  BY <1>2 DEF Next, Scan, Discover, Repeats
<1> QED
  BY <1>1, <1>2 DEF AnyNext

LEMMA NextTypes == TypeInv /\ [AnyNext]_vars => TypeInv'
<1> SUFFICES ASSUME TypeInv, [AnyNext]_vars PROVE TypeInv'
  OBVIOUS
<1>1. CASE UNCHANGED vars
  BY <1>1 DEF TypeInv, TypeOK, TasksHaveRows, vars, groups, links, jobs
<1>2. CASE AnyNext
  <2>1. ASSUME NEW c \in Seed, SeedGroup(c) \/ Find(c) PROVE TypeInv'
    BY <2>1, SeedTypes
  <2>2. CASE Repeats
    BY <2>2, RepeatsTypes
  <2>3. ASSUME NEW G \in SUBSET Row, Poll(G) PROVE TypeInv'
    BY <2>3, PollTypes
  <2>4. ASSUME NEW c \in Chat, LoadFails(c) PROVE TypeInv'
    BY <2>4, LoadFailsTypes
  <2>5. ASSUME NEW w \in Worker, NEW t \in ScanTask, TakeScan(w, t) PROVE TypeInv'
    BY <2>5, TakeScanTypes
  <2>6. ASSUME NEW w \in Worker, Adopt(w) PROVE TypeInv'
    BY <2>6, AdoptTypes
  <2>7. ASSUME NEW w \in Worker, Read(w) PROVE TypeInv'
    BY <2>7, ReadTypes
  <2>8. ASSUME NEW w \in Worker, Mark(w) PROVE TypeInv'
    BY <2>8, MarkTypes
  <2>9. ASSUME NEW w \in Worker, Finish(w) \/ Refuse(w) \/ Back(w) \/ GiveUp(w)
        PROVE  TypeInv'
    BY <2>9, DropTypes
  <2>10. ASSUME NEW w \in Worker, NEW S \in SUBSET Chat, TakeWalk(w, S) PROVE TypeInv'
    BY <2>10, TakeWalkTypes
  <2>11. ASSUME NEW w \in Worker, NEW c \in Chat, Walk(w, c) PROVE TypeInv'
    BY <2>11, WalkTypes
  <2>12. ASSUME NEW w \in Worker, WalkEnds(w) PROVE TypeInv'
    BY <2>12, WalkEndsTypes
  <2> QED
    BY <1>2, <2>1, <2>2, <2>3, <2>4, <2>5, <2>6, <2>7, <2>8, <2>9, <2>10, <2>11, <2>12, Steps
<1> QED
  BY <1>1, <1>2

\* The types are inductive together with the fact that a task which names a
\* row by its id (runner.py:113) names one that is there.
THEOREM TypeCorrect == AnySpec => [](TypeOK /\ TasksHaveRows)
<1>1. AnySpec => []TypeInv
  BY InitTypes, NextTypes, PTL DEF AnySpec
<1> QED
  BY <1>1, PTL DEF TypeInv

-----------------------------------------------------------------------------
(* What is never undone.                                                   *)

LinksStay ==
    \A c \in Chat :
        link[c] # "none" =>
            /\ link'[c] # "none" /\ linkDepth'[c] = linkDepth[c]
            /\ link[c] = "taken" => link'[c] = "taken"

LEMMA NextStays == TypeInv /\ [AnyNext]_vars => RowsStay /\ LinksStay
<1> SUFFICES ASSUME TypeInv, [AnyNext]_vars PROVE RowsStay /\ LinksStay
  OBVIOUS
<1>1. CASE UNCHANGED <<chat, link, linkDepth>>
  BY <1>1 DEF RowsStay, LinksStay
<1>2. ASSUME NEW c \in Seed, SeedGroup(c) \/ Find(c) PROVE RowsStay /\ LinksStay
  <2>1. UNCHANGED <<link, linkDepth>>
    BY <1>2 DEF SeedGroup, Find, links
  <2> QED
    BY <1>2, <2>1, SeedTypes DEF LinksStay
<1>3. ASSUME NEW w \in Worker, NEW c \in Chat, Walk(w, c) PROVE RowsStay /\ LinksStay
  <2>1. UNCHANGED <<link, linkDepth>>
    BY <1>3 DEF Walk, links
  <2> QED
    BY <1>3, <2>1, WalkTypes DEF LinksStay
<1>4. ASSUME NEW w \in Worker, Read(w) PROVE RowsStay /\ LinksStay
  BY <1>4 DEF TypeInv, TypeOK, Read, RowsStay, LinksStay, groups
<1>5. ASSUME NEW w \in Worker, NEW S \in SUBSET Chat, TakeWalk(w, S)
      PROVE  RowsStay /\ LinksStay
  BY <1>5 DEF TypeInv, TypeOK, TakeWalk, RowsStay, LinksStay, groups
<1>6. CASE Repeats \/ (\E G \in SUBSET Row : Poll(G)) \/ (\E c \in Chat : LoadFails(c))
  BY <1>1, <1>6 DEF Repeats, OrderChain, Again, Poll, LoadFails, groups, links
<1>7. ASSUME NEW w \in Worker,
             \/ \E t \in ScanTask : TakeScan(w, t)
             \/ Adopt(w) \/ Mark(w) \/ Finish(w) \/ Refuse(w) \/ Back(w) \/ GiveUp(w)
             \/ WalkEnds(w)
      PROVE  UNCHANGED <<chat, link, linkDepth>>
  BY <1>7 DEF TakeScan, Adopt, Mark, Finish, Refuse, Back, GiveUp, WalkEnds, groups, links
<1>8. CASE UNCHANGED vars
  BY <1>1, <1>8 DEF vars, groups, links
<1> QED
  BY <1>1, <1>2, <1>3, <1>4, <1>5, <1>6, <1>7, <1>8, Steps

-----------------------------------------------------------------------------
(* Walks.                                                                  *)

\* Only a walk that starts gets something to do.
LEMMA TodoShrinks ==
    ASSUME TypeInv, [AnyNext]_vars
    PROVE  \/ \A w \in Worker : todo'[w] \subseteq todo[w]
           \/ \E w \in Worker : \E S \in SUBSET Chat : TakeWalk(w, S)
<1> DEFINE Less == \A w \in Worker : todo'[w] \subseteq todo[w]
<1>0. todo \in [Worker -> SUBSET Chat]
  BY DEF TypeInv, TypeOK
<1>1. CASE UNCHANGED todo
  BY <1>1
<1>2. ASSUME NEW w \in Worker, \/ Finish(w) \/ Refuse(w) \/ Back(w) \/ GiveUp(w)
                               \/ WalkEnds(w) \/ \E c \in Chat : Walk(w, c)
      PROVE  Less
  <2>1. PICK left \in SUBSET todo[w] : todo' = [todo EXCEPT ![w] = left]
    BY <1>2 DEF Finish, Refuse, Back, GiveUp, WalkEnds, Walk, Drops
  <2> QED
    BY <1>0, <2>1
<1>3. CASE (\E c \in Seed : SeedGroup(c) \/ Find(c)) \/ Repeats
           \/ (\E G \in SUBSET Row : Poll(G)) \/ (\E c \in Chat : LoadFails(c))
  BY <1>1, <1>3 DEF SeedGroup, Find, Repeats, OrderChain, Again, Poll, LoadFails, jobs
<1>4. ASSUME NEW w \in Worker, (\E t \in ScanTask : TakeScan(w, t))
                               \/ Adopt(w) \/ Read(w) \/ Mark(w)
      PROVE  UNCHANGED todo
  BY <1>4 DEF TakeScan, Adopt, Read, Mark
<1>5. CASE UNCHANGED vars
  BY <1>1, <1>5 DEF vars, jobs
<1> QED
  BY <1>1, <1>2, <1>3, <1>4, <1>5, Steps

LEMMA NextWalks == TypeInv /\ WalkInv /\ [AnyNext]_vars => WalkInv'
<1> SUFFICES ASSUME TypeInv, WalkInv, [AnyNext]_vars PROVE WalkInv'
  OBVIOUS
<1>1. LinksStay /\ todo \in [Worker -> SUBSET Chat] /\ link \in [Chat -> {"none", "new", "taken"}]
  BY NextStays DEF TypeInv, TypeOK
<1>2. CASE \A w \in Worker : todo'[w] \subseteq todo[w]
  <2>1. WalksAreDisjoint'
    BY <1>2 DEF WalkInv, WalksAreDisjoint
  <2>2. \A w \in Worker : \A c \in todo'[w] : link'[c] = "taken"
    BY <1>1, <1>2 DEF WalkInv, LinksStay
  <2> QED
    BY <2>1, <2>2 DEF WalkInv
<1>3. ASSUME NEW w \in Worker, NEW S \in SUBSET Chat, TakeWalk(w, S)
      PROVE  WalkInv'
  <2>1. /\ todo' = [todo EXCEPT ![w] = S]
        /\ \A c \in S : link[c] = "new" /\ link'[c] = "taken"
    BY <1>1, <1>3 DEF TakeWalk
  <2>2. \A v \in Worker \ {w} : todo'[v] = todo[v] /\ todo[v] \intersect S = {}
    BY <1>1, <2>1 DEF WalkInv
  <2>3. todo'[w] = S
    BY <1>1, <2>1
  <2>4. WalksAreDisjoint'
    <3> SUFFICES ASSUME NEW u \in Worker, NEW v \in Worker, u # v
                 PROVE  todo'[u] \intersect todo'[v] = {}
      BY DEF WalksAreDisjoint
    <3>1. CASE u = w
      BY <2>2, <2>3, <3>1
    <3>2. CASE v = w
      BY <2>2, <2>3, <3>2
    <3>3. CASE u # w /\ v # w
      BY <2>2, <3>3 DEF WalkInv, WalksAreDisjoint
    <3> QED
      BY <3>1, <3>2, <3>3
  <2>5. \A v \in Worker : \A c \in todo'[v] : link'[c] = "taken"
    BY <1>1, <2>1, <2>2, <2>3 DEF WalkInv, LinksStay
  <2> QED
    BY <2>4, <2>5 DEF WalkInv
<1> QED
  BY <1>2, <1>3, TodoShrinks

LEMMA InitWalks == Init => WalkInv
BY DEF Init, WalkInv, WalksAreDisjoint

\* Two walks never share a link (repo.py:430-446).
THEOREM WalksDisjoint == AnySpec => []WalksAreDisjoint
<1>1. AnySpec => []TypeInv
  BY InitTypes, NextTypes, PTL DEF AnySpec
<1>2. AnySpec => []WalkInv
  BY <1>1, InitWalks, NextWalks, PTL DEF AnySpec
<1>3. WalkInv => WalksAreDisjoint
  BY DEF WalkInv
<1> QED
  BY <1>2, <1>3, PTL

-----------------------------------------------------------------------------
(* Scans.                                                                  *)

\* Only Mark makes a row scanned.
LEMMA ScannedByMark ==
    ASSUME TypeInv, [AnyNext]_vars, NEW g \in Row, status'[g] = "scanned"
    PROVE  status[g] = "scanned" \/ \E w \in Worker : Mark(w) /\ g = row[w]
<1> DEFINE Was == status[g] = "scanned"
<1>0. status \in [Row -> {"absent", "pending", "scanning", "scanned",
                          "duplicate", "private", "error"}]
  BY DEF TypeInv, TypeOK
<1>1. ASSUME NEW h \in Row, NEW s, s # "scanned", status' = [status EXCEPT ![h] = s]
      PROVE  Was
  BY <1>0, <1>1
<1>2. ASSUME NEW c \in Seed, SeedGroup(c) \/ Find(c) PROVE Was
  BY <1>0, <1>2 DEF SeedGroup, Find, Upsert, Insert
<1>3. ASSUME NEW w \in Worker, NEW c \in Chat, Walk(w, c) PROVE Was
  BY <1>0, <1>3 DEF Walk, Upsert, Insert, groups
<1>4. ASSUME NEW w \in Worker, Adopt(w) PROVE Was
  <2>1. row[w] \in Row
    BY <1>4, HeldRow DEF Adopt
  <2> QED
    BY <1>0, <1>4, <2>1 DEF Adopt
<1>5. ASSUME NEW w \in Worker, Refuse(w) PROVE Was
  BY <1>0, <1>5 DEF Refuse, MarkRefused
<1>6. ASSUME NEW w \in Worker, Mark(w) PROVE Was \/ g = row[w]
  BY <1>0, <1>6 DEF Mark
<1>7. CASE Repeats \/ (\E G \in SUBSET Row : Poll(G)) \/ (\E c \in Chat : LoadFails(c))
           \/ UNCHANGED vars
  BY <1>7 DEF Repeats, OrderChain, Again, Poll, LoadFails, groups, vars
<1>8. ASSUME NEW w \in Worker,
             \/ \E t \in ScanTask : TakeScan(w, t)
             \/ \E S \in SUBSET Chat : TakeWalk(w, S)
             \/ Read(w) \/ Finish(w) \/ Back(w) \/ GiveUp(w) \/ WalkEnds(w)
      PROVE  Was
  BY <1>8 DEF TakeScan, TakeWalk, Read, Finish, Back, GiveUp, WalkEnds, groups
<1> QED
  BY <1>2, <1>3, <1>4, <1>5, <1>6, <1>7, <1>8, Steps

\* A worker has something to mark once it has read.
LEMMA MarkAfterRead ==
    ASSUME TypeInv, [AnyNext]_vars, NEW w \in Worker, step'[w] = "mark"
    PROVE  (step[w] = "mark" /\ row'[w] = row[w]) \/ Read(w)
<1> DEFINE Was == step[w] = "mark" /\ row'[w] = row[w]
<1>0. /\ step \in [Worker -> {"idle", "chat", "read", "mark", "walk", "close"}]
      /\ row \in [Worker -> 0 .. MaxRow]
  BY DEF TypeInv, TypeOK
<1>1. CASE UNCHANGED <<step, row>>
  BY <1>1
<1>2. ASSUME NEW v \in Worker, Read(v) PROVE Was \/ Read(w)
  BY <1>0, <1>2 DEF Read, Goes
<1>3. ASSUME NEW v \in Worker, (\E t \in ScanTask : TakeScan(v, t))
                               \/ \E S \in SUBSET Chat : TakeWalk(v, S)
      PROVE  Was
  BY <1>0, <1>3 DEF TakeScan, TakeWalk, Begins
<1>4. ASSUME NEW v \in Worker, Adopt(v) \/ Mark(v) \/ WalkEnds(v) PROVE Was
  BY <1>0, <1>4 DEF Adopt, Mark, WalkEnds, Goes
<1>5. ASSUME NEW v \in Worker, Finish(v) \/ Refuse(v) \/ Back(v) \/ GiveUp(v) PROVE Was
  BY <1>0, <1>5 DEF Finish, Refuse, Back, GiveUp, Drops
<1>6. CASE (\E c \in Seed : SeedGroup(c) \/ Find(c)) \/ Repeats
           \/ (\E G \in SUBSET Row : Poll(G)) \/ (\E c \in Chat : LoadFails(c))
           \/ (\E v \in Worker : \E c \in Chat : Walk(v, c)) \/ UNCHANGED vars
  BY <1>1, <1>6 DEF SeedGroup, Find, Repeats, OrderChain, Again, Poll, LoadFails, Walk, vars, jobs
<1> QED
  BY <1>2, <1>3, <1>4, <1>5, <1>6, Steps

LEMMA NextComplete == TypeInv /\ CompleteInv /\ [AnyNext]_vars => CompleteInv'
<1> SUFFICES ASSUME TypeInv, CompleteInv, [AnyNext]_vars PROVE CompleteInv'
  OBVIOUS
<1> DEFINE Saved(c) == \A d \in Mentions[c] : link[d] # "none"
<1>1. RowsStay /\ LinksStay /\ \A c \in Chat : Mentions[c] \subseteq Chat
  BY NextStays, ChatAssumption
<1>2. \A c \in Chat : Saved(c) => Saved(c)'
  BY <1>1 DEF LinksStay
<1>3. ASSUME NEW w \in Worker, step'[w] = "mark"
      PROVE  Saved(chat[row[w]])' /\ row'[w] = row[w]
  <2>1. CASE step[w] = "mark" /\ row'[w] = row[w]
    <3>1. row[w] \in Row /\ chat[row[w]] \in Chat
      BY <2>1, HeldRow
    <3>2. chat'[row'[w]] = chat[row[w]]
      BY <1>1, <2>1, <3>1, NameAssumption DEF RowsStay
    <3> QED
      BY <1>2, <2>1, <3>1, <3>2 DEF CompleteInv
  <2>2. CASE Read(w)
    <3>1. /\ chat[row[w]] \in Chat
          /\ UNCHANGED <<chat, row>>
          /\ link \in [Chat -> {"none", "new", "taken"}]
      BY <2>2, HeldRow DEF Read, groups, TypeInv, TypeOK
    <3>2. \A d \in Mentions[chat[row[w]]] : link'[d] # "none"
      BY <1>1, <2>2, <3>1 DEF Read
    <3> QED
      BY <3>1, <3>2
  <2> QED
    BY <1>3, <2>1, <2>2, MarkAfterRead
<1>4. ASSUME NEW g \in Row, status'[g] = "scanned"
      PROVE  Saved(chat[g])'
  <2>1. CASE status[g] = "scanned"
    <3>1. chat[g] \in Chat
      BY <2>1 DEF TypeInv, TypeOK
    <3>2. chat'[g] = chat[g] /\ Saved(chat[g])
      BY <1>1, <2>1, <3>1, NameAssumption DEF RowsStay, CompleteInv, ScannedIsComplete
    <3> QED
      BY <1>2, <3>1, <3>2
  <2>2. ASSUME NEW w \in Worker, Mark(w), g = row[w]
        PROVE  Saved(chat[g])'
    <3>1. chat[g] \in Chat /\ chat'[g] = chat[g] /\ Saved(chat[g])
      BY <2>2, HeldRow DEF Mark, CompleteInv
    <3> QED
      BY <1>2, <3>1
  <2> QED
    BY <1>4, <2>1, <2>2, ScannedByMark
<1> QED
  BY <1>3, <1>4 DEF CompleteInv, ScannedIsComplete

LEMMA InitComplete == Init => CompleteInv
BY DEF Init, CompleteInv, ScannedIsComplete

\* A row is marked scanned only when the links of its chat are saved
\* (parser_messages.py:180-191, runner.py:222-228).
THEOREM ScannedComplete == AnySpec => []ScannedIsComplete
<1>1. AnySpec => []TypeInv
  BY InitTypes, NextTypes, PTL DEF AnySpec
<1>2. AnySpec => []CompleteInv
  BY <1>1, InitComplete, NextComplete, PTL DEF AnySpec
<1>3. CompleteInv => ScannedIsComplete
  BY DEF CompleteInv
<1> QED
  BY <1>2, <1>3, PTL

-----------------------------------------------------------------------------
(* How far discovery goes.                                                 *)

LEMMA SeedWithin ==
    ASSUME NEW c \in Seed, NEW n \in Nat
    PROVE  Within(c, n)
<1> DEFINE p == [i \in 1 .. 1 |-> c]
<1>1. 1 \in 1 .. n + 1 /\ p \in [1 .. 1 -> Chat]
  BY ChatAssumption
<1>2. p[1] \in Seed /\ p[1] = c /\ \A i \in 1 .. 1 - 1 : p[i + 1] \in Mentions[p[i]]
  OBVIOUS
<1> QED
  BY <1>1, <1>2 DEF Within

\* One mention further.
LEMMA OneFurther ==
    ASSUME NEW c \in Chat, NEW n \in Nat, Within(c, n), NEW d \in Mentions[c]
    PROVE  Within(d, n + 1)
<1>0. PICK k \in 1 .. n + 1 : \E p \in [1 .. k -> Chat] :
        /\ p[1] \in Seed /\ p[k] = c
        /\ \A i \in 1 .. k - 1 : p[i + 1] \in Mentions[p[i]]
  BY DEF Within
<1>1. PICK p \in [1 .. k -> Chat] :
        /\ p[1] \in Seed /\ p[k] = c
        /\ \A i \in 1 .. k - 1 : p[i + 1] \in Mentions[p[i]]
  BY <1>0
<1> DEFINE q == [i \in 1 .. k + 1 |-> IF i \in 1 .. k THEN p[i] ELSE d]
<1>2. d \in Chat
  BY ChatAssumption
<1>3. k + 1 \in 1 .. (n + 1) + 1 /\ q \in [1 .. k + 1 -> Chat]
  BY <1>2
<1>4. q[1] \in Seed /\ q[k + 1] = d
  BY <1>1
<1>5. ASSUME NEW i \in 1 .. (k + 1) - 1
      PROVE  q[i + 1] \in Mentions[q[i]]
  <2>1. q[i] = p[i]
    OBVIOUS
  <2>2. CASE i = k
    BY <1>1, <2>1, <2>2
  <2>3. CASE i # k
    <3>1. i \in 1 .. k - 1 /\ q[i + 1] = p[i + 1]
      BY <2>3
    <3> QED
      BY <1>1, <2>1, <3>1
  <2> QED
    BY <2>2, <2>3
<1> HIDE DEF q
<1> QED
  BY <1>3, <1>4, <1>5 DEF Within

LEMMA TwoDeeper ==
    ASSUME NEW n \in Nat
    PROVE  /\ n \div 2 \in Nat /\ (n + 1) \div 2 \in Nat
           /\ ((n + 1) + 1) \div 2 = (n \div 2) + 1
OBVIOUS

RowsNear ==
    \A g \in Row : status[g] # "absent" =>
        depth[g] <= MaxDepth /\ Within(chat[g], depth[g] \div 2)

CopiesNear ==
    \A w \in Worker : step[w] \in {"chat", "read"} =>
        Within(chat[row[w]], copy[w].depth \div 2)

LinksNear == \A c \in Chat : link[c] # "none" => Within(c, (linkDepth[c] + 1) \div 2)

LEMMA RadiusParts ==
    /\ RadiusInv <=> RowsNear /\ CopiesNear /\ LinksNear
    /\ RadiusInv' <=> RowsNear' /\ CopiesNear' /\ LinksNear'
BY DEF RadiusInv, RowsNear, CopiesNear, LinksNear, Within

LEMMA InitRadius == Init => RadiusInv
BY DEF Init, RadiusInv

Kept(g) == status[g] # "absent" /\ depth'[g] = depth[g] /\ chat'[g] = chat[g]

LEMMA InsertRow ==
    ASSUME RowsOK, NEW c \in Chat, NEW k \in BOOLEAN, NEW d \in Nat, Insert(c, k, d),
           NEW g \in Row, status'[g] # "absent"
    PROVE  Kept(g) \/ (chat'[g] = c /\ depth'[g] = d)
BY DEF RowsOK, Insert, Kept

LEMMA UpsertRow ==
    ASSUME RowsOK, NEW c \in Chat, NEW d \in Nat, Upsert(c, d),
           NEW g \in Row, status'[g] # "absent"
    PROVE  Kept(g) \/ (chat'[g] = c /\ depth'[g] = d)
<1>1. CASE Insert(c, TRUE, d)
  BY <1>1, InsertRow
<1>2. ASSUME NEW h \in Row, Owns(h, c), depth' = [depth EXCEPT ![h] = d],
             UNCHANGED <<chat, known, status>>
      PROVE  Kept(g) \/ (chat'[g] = c /\ depth'[g] = d)
  BY <1>2 DEF RowsOK, Owns, Kept
<1> QED
  BY <1>1, <1>2 DEF Upsert

\* Where the depth of a row comes from.
LEMMA RowSteps ==
    ASSUME TypeInv, [AnyNext]_vars, NEW g \in Row, status'[g] # "absent"
    PROVE  \/ Kept(g)
           \/ chat'[g] \in Seed /\ depth'[g] = 0
           \/ \E w \in Worker : \E c \in todo[w] :
                ~TooDeep(c) /\ chat'[g] = c /\ depth'[g] = linkDepth[c] + 1
<1> DEFINE Goal ==
             \/ Kept(g)
             \/ chat'[g] \in Seed /\ depth'[g] = 0
             \/ \E w \in Worker : \E c \in todo[w] :
                  ~TooDeep(c) /\ chat'[g] = c /\ depth'[g] = linkDepth[c] + 1
<1>0. RowsOK /\ LinksOK
  BY TypeParts DEF TypeInv
<1>1. CASE UNCHANGED groups
  BY <1>1 DEF groups, Kept
<1>2. ASSUME NEW c \in Seed, SeedGroup(c) \/ Find(c) PROVE Goal
  <2>1. c \in Chat /\ 0 \in Nat
    BY ChatAssumption
  <2>2. CASE SeedGroup(c)
    BY <1>0, <2>1, <2>2, InsertRow DEF SeedGroup
  <2>3. CASE Find(c)
    BY <1>0, <2>1, <2>3, UpsertRow DEF Find
  <2> QED
    BY <1>2, <2>2, <2>3
<1>3. ASSUME NEW w \in Worker, NEW c \in Chat, Walk(w, c) PROVE Goal
  <2>1. c \in todo[w] /\ linkDepth[c] + 1 \in Nat
    BY <1>0, <1>3 DEF Walk, LinksOK
  <2>2. CASE ~TooDeep(c) /\ Upsert(c, linkDepth[c] + 1)
    BY <1>0, <2>1, <2>2, UpsertRow
  <2> QED
    BY <1>1, <1>3, <2>2 DEF Walk
<1>4. ASSUME NEW w \in Worker, Adopt(w) \/ Mark(w) \/ Refuse(w) PROVE Goal
  <2>1. UNCHANGED <<chat, depth>> /\ status[g] # "absent"
    <3>1. UNCHANGED <<chat, depth>>
      BY <1>4 DEF Adopt, Mark, Refuse
    <3>2. chat'[g] # Nothing
      BY NextTypes DEF TypeInv, TypeOK
    <3> QED
      BY <1>0, <3>1, <3>2 DEF RowsOK
  <2> QED
    BY <2>1 DEF Kept
<1>5. CASE Repeats \/ (\E G \in SUBSET Row : Poll(G)) \/ (\E c \in Chat : LoadFails(c))
           \/ UNCHANGED vars
  BY <1>1, <1>5 DEF Repeats, OrderChain, Again, Poll, LoadFails, vars
<1>6. ASSUME NEW w \in Worker,
             \/ \E t \in ScanTask : TakeScan(w, t)
             \/ \E S \in SUBSET Chat : TakeWalk(w, S)
             \/ Read(w) \/ Finish(w) \/ Back(w) \/ GiveUp(w) \/ WalkEnds(w)
      PROVE  UNCHANGED groups
  BY <1>6 DEF TakeScan, TakeWalk, Read, Finish, Back, GiveUp, WalkEnds
<1> QED
  BY <1>1, <1>2, <1>3, <1>4, <1>5, <1>6, Steps

LEMMA NextRows ==
    ASSUME TypeInv, WalkInv, RowsNear, LinksNear, [AnyNext]_vars
    PROVE  RowsNear'
<1> SUFFICES ASSUME NEW g \in Row, status'[g] # "absent"
             PROVE  depth'[g] <= MaxDepth /\ Within(chat'[g], depth'[g] \div 2)
  BY DEF RowsNear, Within
<1>1. CASE Kept(g)
  BY <1>1 DEF RowsNear, Kept
<1>2. CASE chat'[g] \in Seed /\ depth'[g] = 0
  <2>1. 0 \div 2 = 0 /\ 0 <= MaxDepth /\ Within(chat'[g], 0)
    BY <1>2, SeedWithin, BoundAssumption
  <2> QED
    BY <1>2, <2>1
<1>3. ASSUME NEW w \in Worker, NEW c \in todo[w], ~TooDeep(c),
             chat'[g] = c, depth'[g] = linkDepth[c] + 1
      PROVE  depth'[g] <= MaxDepth /\ Within(chat'[g], depth'[g] \div 2)
  <2>1. c \in Chat /\ link[c] = "taken" /\ linkDepth[c] \in Nat
    BY DEF WalkInv, TypeInv, TypeOK
  <2>2. linkDepth[c] + 1 <= MaxDepth
    BY <1>3, <2>1, BoundAssumption DEF TooDeep
  <2>3. Within(c, (linkDepth[c] + 1) \div 2)
    BY <2>1 DEF LinksNear
  <2> QED
    BY <1>3, <2>2, <2>3
<1> QED
  BY <1>1, <1>2, <1>3, RowSteps

LEMMA NextLinks ==
    ASSUME TypeInv, CopiesNear, LinksNear, [AnyNext]_vars
    PROVE  LinksNear'
<1> SUFFICES ASSUME NEW d \in Chat, link'[d] # "none"
             PROVE  Within(d, (linkDepth'[d] + 1) \div 2)
  BY DEF LinksNear, Within
<1>1. CASE link[d] # "none"
  BY <1>1, NextStays DEF LinksNear, LinksStay
<1>2. ASSUME NEW w \in Worker, Read(w), link[d] = "none"
      PROVE  Within(d, (linkDepth'[d] + 1) \div 2)
  <2>1. step[w] = "read" /\ chat[row[w]] \in Chat /\ copy[w].depth \in Nat
    BY <1>2, HeldRow DEF Read, TypeInv, TypeOK
  <2>2. d \in Mentions[chat[row[w]]] /\ linkDepth'[d] = copy[w].depth + 1
    BY <1>2 DEF Read
  <2>3. Within(chat[row[w]], copy[w].depth \div 2)
    BY <2>1 DEF CopiesNear
  <2>4. Within(d, (copy[w].depth \div 2) + 1)
    BY <2>1, <2>2, <2>3, TwoDeeper, OneFurther
  <2> QED
    BY <2>1, <2>2, <2>4, TwoDeeper
<1>3. ASSUME NEW w \in Worker, NEW S \in SUBSET Chat, TakeWalk(w, S) PROVE link[d] # "none"
  BY <1>3 DEF TakeWalk, TypeInv, TypeOK
<1>4. CASE UNCHANGED link
  BY <1>1, <1>4
<1>5. CASE (\E c \in Seed : SeedGroup(c) \/ Find(c)) \/ Repeats
           \/ (\E G \in SUBSET Row : Poll(G)) \/ (\E c \in Chat : LoadFails(c))
           \/ UNCHANGED vars
  BY <1>4, <1>5 DEF SeedGroup, Find, Repeats, OrderChain, Again, Poll, LoadFails, links, vars
<1>6. ASSUME NEW w \in Worker,
             \/ \E t \in ScanTask : TakeScan(w, t)
             \/ Adopt(w) \/ Mark(w) \/ Finish(w) \/ Refuse(w) \/ Back(w) \/ GiveUp(w)
             \/ (\E c \in Chat : Walk(w, c)) \/ WalkEnds(w)
      PROVE  UNCHANGED link
  BY <1>6 DEF TakeScan, Adopt, Mark, Finish, Refuse, Back, GiveUp, Walk, WalkEnds, links
<1> QED
  BY <1>1, <1>2, <1>3, <1>4, <1>5, <1>6, Steps

\* A scan keeps its copy, or copies the depth of a row of the same chat.
LEMMA CopySteps ==
    ASSUME TypeInv, [AnyNext]_vars, NEW w \in Worker, step'[w] \in {"chat", "read"}
    PROVE  /\ row'[w] \in Row /\ chat[row'[w]] # Nothing
           /\ \/ step[w] \in {"chat", "read"} /\ row'[w] = row[w] /\ copy'[w] = copy[w]
              \/ \E g \in Row : chat[g] = chat[row'[w]] /\ copy'[w].depth = depth[g]
<1> DEFINE Same == step[w] \in {"chat", "read"} /\ row'[w] = row[w] /\ copy'[w] = copy[w]
           Goal == /\ row'[w] \in Row /\ chat[row'[w]] # Nothing
                   /\ \/ Same
                      \/ \E g \in Row : chat[g] = chat[row'[w]] /\ copy'[w].depth = depth[g]
<1>0. RowsOK /\ JobsOK /\ HeldOK /\ TasksHaveRows /\ JobsOK'
  BY NextTypes, TypeParts DEF TypeInv
<1>1. ASSUME Same PROVE Goal
  <2>1. row[w] \in Row /\ chat[row[w]] \in Chat
    BY <1>1, HeldRow
  <2> QED
    BY <1>1, <2>1, NameAssumption
<1>2. CASE UNCHANGED <<step, row, copy>>
  BY <1>1, <1>2
<1>3. ASSUME NEW t \in ScanTask, TakeScan(w, t) PROVE Goal
  <2>1. PICK g \in Row : /\ t = g \/ Named(t) = {g}
                         /\ row' = [row EXCEPT ![w] = g]
                         /\ copy' = [copy EXCEPT ![w] =
                                        [known |-> known[g], depth |-> depth[g]]]
    BY <1>3 DEF TakeScan
  <2>2. row'[w] = g /\ copy'[w].depth = depth[g]
    BY <1>0, <2>1 DEF JobsOK
  <2>3. chat'[g] # Nothing /\ UNCHANGED chat
    <3>1. HeldOK' /\ step' = [step EXCEPT ![w] = "chat"]
      BY <1>3, TakeScanTypes, TypeParts DEF TypeInv, TakeScan, Begins
    <3>2. step'[w] = "chat"
      BY <1>0, <3>1 DEF JobsOK
    <3> QED
      BY <1>3, <2>2, <3>1, <3>2 DEF HeldOK, TakeScan, groups
  <2> QED
    BY <2>2, <2>3
<1>4. ASSUME Adopt(w) PROVE Goal
  <2>1. /\ step[w] = "chat" /\ row'[w] = row[w]
        /\ row[w] \in Row /\ chat[row[w]] # Nothing
    BY <1>4, HeldRow, NameAssumption DEF Adopt
  <2>2. ASSUME NEW h \in {h \in Row \ {row[w]} : Owns(h, chat[row[w]])},
               copy' = [copy EXCEPT ![w] = [known |-> TRUE, depth |-> depth[h]]]
        PROVE  Goal
    <3>1. copy'[w].depth = depth[h] /\ chat[h] = chat[row'[w]]
      BY <1>0, <2>1, <2>2 DEF JobsOK, Owns
    <3> QED
      BY <2>1, <3>1
  <2>3. CASE UNCHANGED copy
    BY <1>1, <2>1, <2>3
  <2> QED
    BY <1>4, <2>2, <2>3 DEF Adopt
<1>5. ASSUME NEW v \in Worker, v # w, (\E t \in ScanTask : TakeScan(v, t)) \/ Adopt(v)
      PROVE  Same
  BY <1>0, <1>5 DEF TakeScan, Adopt, Begins, Goes, JobsOK
<1>6. ASSUME NEW v \in Worker,
             \/ \E S \in SUBSET Chat : TakeWalk(v, S)
             \/ Read(v) \/ Mark(v) \/ WalkEnds(v)
      PROVE  Same
  BY <1>0, <1>6 DEF TakeWalk, Read, Mark, WalkEnds, Begins, Goes, JobsOK
<1>7. ASSUME NEW v \in Worker, Finish(v) \/ Refuse(v) \/ Back(v) \/ GiveUp(v)
      PROVE  Same
  <2>1. Drops(v)
    BY <1>7 DEF Finish, Refuse, Back, GiveUp
  <2> QED
    BY <1>0, <2>1 DEF Drops, JobsOK
<1>8. CASE (\E c \in Seed : SeedGroup(c) \/ Find(c)) \/ Repeats
           \/ (\E G \in SUBSET Row : Poll(G)) \/ (\E c \in Chat : LoadFails(c))
           \/ (\E v \in Worker : \E c \in Chat : Walk(v, c)) \/ UNCHANGED vars
  BY <1>2, <1>8 DEF SeedGroup, Find, Repeats, OrderChain, Again, Poll, LoadFails, Walk, vars, jobs
<1> QED
  BY <1>1, <1>3, <1>4, <1>5, <1>6, <1>7, <1>8, Steps

LEMMA NextCopies ==
    ASSUME TypeInv, RowsNear, CopiesNear, [AnyNext]_vars
    PROVE  CopiesNear'
<1> SUFFICES ASSUME NEW w \in Worker, step'[w] \in {"chat", "read"}
             PROVE  Within(chat'[row'[w]], copy'[w].depth \div 2)
  BY DEF CopiesNear, Within
<1>1. row'[w] \in Row /\ chat'[row'[w]] = chat[row'[w]] /\ chat[row'[w]] # Nothing
  BY CopySteps, NextStays DEF RowsStay
<1>2. CASE step[w] \in {"chat", "read"} /\ row'[w] = row[w] /\ copy'[w] = copy[w]
  BY <1>1, <1>2 DEF CopiesNear
<1>3. ASSUME NEW g \in Row, chat[g] = chat[row'[w]], copy'[w].depth = depth[g]
      PROVE  Within(chat'[row'[w]], copy'[w].depth \div 2)
  <2>1. status[g] # "absent"
    BY <1>1, <1>3 DEF TypeInv, TypeOK
  <2> QED
    BY <1>1, <1>3, <2>1 DEF RowsNear
<1> QED
  BY <1>2, <1>3, CopySteps

\* No row is deeper than max_depth or further from the seeds than its depth
\* says (discovery.py:120-130, parser_messages.py:185), whatever the limits,
\* the graph of mentions and the order of scans and walks.
THEOREM RadiusBounded == AnySpec => []CrawlRadius
<1>1. AnySpec => []TypeInv
  BY InitTypes, NextTypes, PTL DEF AnySpec
<1>2. AnySpec => []WalkInv
  BY <1>1, InitWalks, NextWalks, PTL DEF AnySpec
<1>3. TypeInv /\ WalkInv /\ RadiusInv /\ [AnyNext]_vars => RadiusInv'
  BY NextRows, NextCopies, NextLinks, RadiusParts
<1>4. AnySpec => []RadiusInv
  BY <1>1, <1>2, <1>3, InitRadius, PTL DEF AnySpec
<1>5. RadiusInv => CrawlRadius
  BY DEF RadiusInv, CrawlRadius
<1> QED
  BY <1>4, <1>5, PTL

-----------------------------------------------------------------------------
(* All of it explores the graph of mentions.                               *)

Shown == <<Listed, Mentioned, Due, Done>>

\* Which chats are listed, and which count as scanned.
LEMMA Members ==
    ASSUME RowsOK
    PROVE  /\ Listed \subseteq Chat /\ Done \subseteq Chat
           /\ \A c \in Chat :
                /\ (c \in Listed <=> \E g \in Row : chat[g] = c)
                /\ (c \in Done <=> \E g \in Row : chat[g] = c /\ status[g] = "scanned")
<1>1. Listed \subseteq Chat
  BY DEF RowsOK, Listed
<1>2. Done \subseteq Chat
  <2> SUFFICES ASSUME NEW g \in Row, status[g] = "scanned" PROVE chat[g] \in Chat
    BY DEF Done
  <2> QED
    BY DEF RowsOK
<1>3. ASSUME NEW c \in Chat PROVE c # Nothing
  BY NameAssumption
<1>4. \A c \in Chat : c \in Listed <=> \E g \in Row : chat[g] = c
  BY <1>3 DEF Listed
<1>5. \A c \in Chat : c \in Done <=> \E g \in Row : chat[g] = c /\ status[g] = "scanned"
  BY DEF Done
<1> QED
  BY <1>1, <1>2, <1>4, <1>5

LEMMA MembersNext ==
    ASSUME RowsOK'
    PROVE  /\ Listed' \subseteq Chat /\ Done' \subseteq Chat
           /\ \A c \in Chat :
                /\ (c \in Listed' <=> \E g \in Row : chat'[g] = c)
                /\ (c \in Done' <=> \E g \in Row : chat'[g] = c /\ status'[g] = "scanned")
<1>1. Listed' \subseteq Chat
  BY DEF RowsOK, Listed
<1>2. Done' \subseteq Chat
  <2> SUFFICES ASSUME NEW g \in Row, status'[g] = "scanned" PROVE chat'[g] \in Chat
    BY DEF Done
  <2> QED
    BY DEF RowsOK
<1>3. ASSUME NEW c \in Chat PROVE c # Nothing
  BY NameAssumption
<1>4. \A c \in Chat : c \in Listed' <=> \E g \in Row : chat'[g] = c
  BY <1>3 DEF Listed
<1>5. \A c \in Chat : c \in Done' <=> \E g \in Row : chat'[g] = c /\ status'[g] = "scanned"
  BY DEF Done
<1> QED
  BY <1>1, <1>2, <1>4, <1>5

LEMMA SameShown == UNCHANGED <<chat, status, link>> => UNCHANGED Shown
BY DEF Shown, Listed, Mentioned, Due, Done

LEMMA SameRows == UNCHANGED <<chat, status>> => UNCHANGED <<Listed, Done>>
BY DEF Listed, Done

LEMMA SameChats == UNCHANGED chat => UNCHANGED Listed
BY DEF Listed

LEMMA SameLinks == UNCHANGED link => UNCHANGED <<Mentioned, Due>>
BY DEF Mentioned, Due

LEMMA CrawlSteps ==
    /\ \A c \in Seed : Crawling!Name(c) => Crawling!Next
    /\ \A c \in Chat : Crawling!Read(c) => Crawling!Next
    /\ \A c \in Chat : Crawling!Count(c) => Crawling!Next
    /\ \A c \in Chat : Crawling!Discount(c) => Crawling!Next
    /\ \A c \in Chat : Crawling!Resolve(c) => Crawling!Next
    /\ Crawling!Try => Crawling!Next
<1>1. \A c \in Seed : Crawling!Name(c) => Crawling!Next
  BY DEF Crawling!Next
<1>2. \A c \in Chat : Crawling!Read(c) => Crawling!Next
  BY DEF Crawling!Next
<1>3. \A c \in Chat : Crawling!Count(c) => Crawling!Next
  BY DEF Crawling!Next
<1>4. \A c \in Chat : Crawling!Discount(c) => Crawling!Next
  BY DEF Crawling!Next
<1>5. \A c \in Chat : Crawling!Resolve(c) => Crawling!Next
  BY DEF Crawling!Next
<1>6. Crawling!Try => Crawling!Next
  BY DEF Crawling!Next
<1> QED
  BY <1>1, <1>2, <1>3, <1>4, <1>5, <1>6

\* What the table's operations list.
LEMMA InsertLists ==
    ASSUME RowsOK, NEW c \in Chat, NEW k \in BOOLEAN, NEW d \in Nat, Insert(c, k, d)
    PROVE  Listed' = Listed \union {c} /\ Done' = Done
<1>0. RowsOK'
  BY InsertAdds
<1>1. PICK g \in Row :
        /\ status[g] = "absent"
        /\ chat' = [chat EXCEPT ![g] = c] /\ status' = [status EXCEPT ![g] = "pending"]
  BY DEF Insert
<1>2. chat[g] = Nothing /\ chat'[g] = c /\ status'[g] = "pending"
  BY <1>1 DEF RowsOK
<1>3. \A h \in Row : h # g => chat'[h] = chat[h] /\ status'[h] = status[h]
  BY <1>1 DEF RowsOK
<1>4. \A b \in Chat, h \in Row : chat[h] = b => chat'[h] = b /\ status'[h] = status[h]
  BY <1>2, <1>3, NameAssumption
<1>5. \A b \in Chat, h \in Row : chat'[h] = b => (chat[h] = b /\ h # g) \/ (b = c /\ h = g)
  BY <1>2, <1>3
<1>6. Listed' = Listed \union {c}
  BY <1>0, <1>2, <1>4, <1>5, Members, MembersNext
<1>7. Done' = Done
  BY <1>0, <1>2, <1>3, <1>4, <1>5, Members, MembersNext
<1> QED
  BY <1>6, <1>7

LEMMA UpsertLists ==
    ASSUME RowsOK, NEW c \in Chat, NEW d \in Nat, Upsert(c, d)
    PROVE  Listed' = Listed \union {c} /\ Done' = Done
<1>1. CASE Insert(c, TRUE, d)
  BY <1>1, InsertLists
<1>2. ASSUME NEW g \in Row, Owns(g, c), UNCHANGED <<chat, known, status>>
      PROVE  Listed' = Listed \union {c} /\ Done' = Done
  <2>1. c \in Listed
    BY <1>2, Members DEF Owns
  <2> QED
    BY <1>2, <2>1, SameRows
<1> QED
  BY <1>1, <1>2 DEF Upsert

\* A row that is marked anything but scanned may have been the only one.
LEMMA StatusLists ==
    ASSUME RowsOK, NEW g \in Row, NEW s, s # "scanned",
           status' = [status EXCEPT ![g] = s], UNCHANGED chat
    PROVE  Done' = Done \/ (chat[g] \in Done /\ Done' = Done \ {chat[g]})
<1>1. \A h \in Row : status'[h] = "scanned" <=> status[h] = "scanned" /\ h # g
  BY DEF RowsOK
<1>2. \A c \in Chat : c # chat[g] => (c \in Done' <=> c \in Done)
  BY <1>1 DEF Done
<1>3. Done' \subseteq Done /\ Done \subseteq Chat
  BY <1>1, Members DEF Done
<1>4. CASE chat[g] \in Done'
  BY <1>2, <1>3, <1>4
<1>5. CASE chat[g] \notin Done' /\ chat[g] \in Done
  BY <1>2, <1>3, <1>5
<1>6. CASE chat[g] \notin Done' /\ chat[g] \notin Done
  BY <1>2, <1>3, <1>6
<1> QED
  BY <1>4, <1>5, <1>6

LEMMA FindSteps ==
    ASSUME TypeInv, NEW c \in Seed, SeedGroup(c) \/ Find(c)
    PROVE  Crawling!Name(c)
<1>1. c \in Chat /\ RowsOK
  BY ChatAssumption, TypeParts DEF TypeInv
<1>2. Listed' = Listed \union {c} /\ Done' = Done
  BY <1>1, InsertLists, UpsertLists DEF SeedGroup, Find
<1>3. UNCHANGED <<Mentioned, Due>>
  BY SameLinks DEF SeedGroup, Find, links
<1> QED
  BY <1>2, <1>3 DEF Crawling!Name

LEMMA WalkSteps ==
    ASSUME TypeInv, WalkInv, NEW w \in Worker, NEW c \in Chat, Walk(w, c)
    PROVE  Crawling!Resolve(c) \/ UNCHANGED Shown
<1>1. link[c] = "taken" /\ UNCHANGED link /\ RowsOK
  BY TypeParts DEF Walk, links, WalkInv, TypeInv
<1>2. UNCHANGED <<Mentioned, Due>> /\ c \in Mentioned \ Due
  BY <1>1, SameLinks DEF Mentioned, Due
<1>3. CASE UNCHANGED groups
  BY <1>1, <1>3, SameShown DEF groups
<1>4. CASE Upsert(c, linkDepth[c] + 1)
  <2>1. linkDepth[c] + 1 \in Nat
    BY DEF TypeInv, TypeOK
  <2> QED
    BY <1>1, <1>2, <1>4, <2>1, UpsertLists DEF Crawling!Resolve
<1> QED
  BY <1>3, <1>4 DEF Walk

LEMMA ReadStep ==
    ASSUME TypeInv, NEW w \in Worker, Read(w)
    PROVE  chat[row[w]] \in Chat /\ Crawling!Read(chat[row[w]])
<1> DEFINE c == chat[row[w]]
<1>1. row[w] \in Row /\ c \in Chat /\ link \in [Chat -> {"none", "new", "taken"}]
  BY HeldRow DEF Read, TypeInv, TypeOK
<1>2. c \in Listed
  BY <1>1, Members, TypeParts DEF TypeInv
<1>3. \A d \in Chat : link'[d] = IF d \in Mentions[c] /\ link[d] = "none" THEN "new" ELSE link[d]
  BY <1>1 DEF Read
<1>4. Mentions[c] \subseteq Chat
  BY <1>1, ChatAssumption
<1>5. Mentioned' = Mentioned \union Mentions[c]
  BY <1>3, <1>4 DEF Mentioned
<1>6. Due' = Due \union (Mentions[c] \ Mentioned)
  BY <1>3, <1>4 DEF Mentioned, Due
<1>7. UNCHANGED <<Listed, Done>>
  BY SameRows DEF Read, groups
<1> QED
  BY <1>1, <1>2, <1>5, <1>6, <1>7 DEF Crawling!Read

LEMMA TakeStep ==
    ASSUME TypeInv, NEW w \in Worker, NEW S \in SUBSET Chat, TakeWalk(w, S)
    PROVE  Crawling!Try
<1>1. /\ \A c \in S : link[c] = "new"
      /\ \A c \in Chat : link'[c] = IF c \in S THEN "taken" ELSE link[c]
  BY DEF TakeWalk
<1>2. Due' \subseteq Due /\ Mentioned' = Mentioned
  BY <1>1 DEF Due, Mentioned
<1>3. UNCHANGED <<Listed, Done>>
  BY SameRows DEF TakeWalk, groups
<1> QED
  BY <1>2, <1>3 DEF Crawling!Try

\* The guard of Count is what CompleteInv says of a scan that is to be marked.
LEMMA MarkStep ==
    ASSUME TypeInv, CompleteInv, NEW w \in Worker, Mark(w)
    PROVE  chat[row[w]] \in Chat /\ Crawling!Count(chat[row[w]])
<1> DEFINE c == chat[row[w]]
<1>1. row[w] \in Row /\ c \in Chat /\ RowsOK
  BY HeldRow, TypeParts DEF Mark, TypeInv
<1>2. c \in Listed
  BY <1>1, Members
<1>3. Mentions[c] \subseteq Mentioned
  BY <1>1, ChatAssumption DEF Mark, CompleteInv, Mentioned
<1>4. \A h \in Row : status'[h] = "scanned" <=> status[h] = "scanned" \/ h = row[w]
  BY <1>1 DEF Mark, RowsOK
<1>5. Done' = Done \union {c}
  BY <1>1, <1>4 DEF Done, Mark
<1>6. UNCHANGED <<Listed, Mentioned, Due>>
  BY SameChats, SameLinks DEF Mark, links
<1> QED
  BY <1>1, <1>2, <1>3, <1>5, <1>6 DEF Crawling!Count

LEMMA ReopenStep ==
    ASSUME TypeInv, NEW w \in Worker, Adopt(w) \/ Refuse(w)
    PROVE  UNCHANGED Shown \/ \E c \in Chat : Crawling!Discount(c)
<1>1. UNCHANGED <<chat, link>> /\ RowsOK
  BY TypeParts DEF Adopt, Refuse, links, TypeInv
<1>2. UNCHANGED <<Listed, Mentioned, Due>>
  BY <1>1, SameChats, SameLinks
<1>3. ASSUME NEW g \in Row, NEW s, s # "scanned", status' = [status EXCEPT ![g] = s]
      PROVE  UNCHANGED Shown \/ \E c \in Chat : Crawling!Discount(c)
  <2>1. Done \subseteq Chat
    BY <1>1, Members
  <2> QED
    BY <1>1, <1>2, <1>3, <2>1, StatusLists DEF Shown, Crawling!Discount
<1>4. CASE UNCHANGED status
  BY <1>1, <1>4, SameShown
<1>5. CASE Adopt(w)
  <2>1. row[w] \in Row
    BY <1>5, HeldRow DEF Adopt
  <2> QED
    BY <1>3, <1>4, <1>5, <2>1 DEF Adopt
<1>6. CASE Refuse(w)
  BY <1>3, <1>4, <1>6 DEF Refuse, MarkRefused
<1> QED
  BY <1>5, <1>6

LEMMA NextCrawls ==
    ASSUME TypeInv, WalkInv, CompleteInv, [AnyNext]_vars
    PROVE  [Crawling!Next]_(Crawling!vars)
<1> DEFINE Goal == Crawling!Next \/ UNCHANGED Shown
<1>1. ASSUME NEW c \in Seed, SeedGroup(c) \/ Find(c) PROVE Goal
  BY <1>1, FindSteps, CrawlSteps
<1>2. ASSUME NEW w \in Worker, NEW c \in Chat, Walk(w, c) PROVE Goal
  BY <1>2, WalkSteps, CrawlSteps
<1>3. ASSUME NEW w \in Worker, Read(w) PROVE Goal
  <2>1. PICK c \in Chat : Crawling!Read(c)
    BY <1>3, ReadStep
  <2> QED
    BY <2>1, CrawlSteps
<1>4. ASSUME NEW w \in Worker, Mark(w) PROVE Goal
  <2>1. PICK c \in Chat : Crawling!Count(c)
    BY <1>4, MarkStep
  <2> QED
    BY <2>1, CrawlSteps
<1>5. ASSUME NEW w \in Worker, Adopt(w) \/ Refuse(w) PROVE Goal
  BY <1>5, ReopenStep, CrawlSteps
<1>6. ASSUME NEW w \in Worker, NEW S \in SUBSET Chat, TakeWalk(w, S) PROVE Goal
  BY <1>6, TakeStep, CrawlSteps
<1>7. ASSUME Repeats \/ (\E G \in SUBSET Row : Poll(G))
             \/ (\E c \in Chat : LoadFails(c)) \/ UNCHANGED vars
      PROVE  Goal
  <2>1. UNCHANGED <<chat, status, link>>
    BY <1>7 DEF Repeats, OrderChain, Again, Poll, LoadFails, vars, groups, links
  <2> QED
    BY <2>1, SameShown
<1>8. ASSUME NEW w \in Worker,
             \/ \E t \in ScanTask : TakeScan(w, t)
             \/ Finish(w) \/ Back(w) \/ GiveUp(w) \/ WalkEnds(w)
      PROVE  Goal
  <2>1. UNCHANGED <<chat, status, link>>
    BY <1>8 DEF TakeScan, Finish, Back, GiveUp, WalkEnds, groups, links
  <2> QED
    BY <2>1, SameShown
<1>9. Goal
  BY <1>1, <1>2, <1>3, <1>4, <1>5, <1>6, <1>7, <1>8, Steps
<1> QED
  BY <1>9 DEF Shown, Crawling!vars

LEMMA InitCrawls == Init => Crawling!Init
BY NameAssumption DEF Init, Crawling!Init, Listed, Mentioned, Due, Done

\* The catalogue, its links, its scans and its walks implement the
\* exploration of the graph of mentions, whatever the graph, the limits and
\* the failures (parser_messages.py:180-191, repo.py:414-446,
\* discovery.py:107-156).
THEOREM Implements == AnySpec => ImplementsCrawl
<1>1. AnySpec => []TypeInv
  BY InitTypes, NextTypes, PTL DEF AnySpec
<1>2. AnySpec => []WalkInv
  BY <1>1, InitWalks, NextWalks, PTL DEF AnySpec
<1>3. AnySpec => []CompleteInv
  BY <1>1, InitComplete, NextComplete, PTL DEF AnySpec
<1>4. TypeInv /\ WalkInv /\ CompleteInv /\ [AnyNext]_vars => [Crawling!Next]_(Crawling!vars)
  BY NextCrawls
<1>5. AnySpec => Crawling!Init /\ [][Crawling!Next]_(Crawling!vars)
  BY <1>1, <1>2, <1>3, <1>4, InitCrawls, PTL DEF AnySpec
<1> QED
  BY <1>5 DEF ImplementsCrawl, Crawling!Spec

=============================================================================
