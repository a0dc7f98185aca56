---------------------------- MODULE GroupCatalog ----------------------------
(***************************************************************************)
(* What megaParser finds: the rows of target_groups, the links found in    *)
(* their messages, and the tasks that scan the one and resolve the other.  *)
(*                                                                         *)
(* A chat is what Telegram knows; a row is what the table knows of a chat. *)
(* A seeded row has a name and no tg_id until its first scan, so two rows  *)
(* may stand for one chat.  A scan works on a copy of the row.             *)
(*                                                                         *)
(* Of the task pipeline (module TaskQueue) this module keeps which tasks   *)
(* wait, pending or queued, and which a worker executes.  A task may be    *)
(* given back at any step (Back): an error that requeues or retries it, or *)
(* a lost copy that recovery finds.  A crash is every worker giving back.  *)
(*                                                                         *)
(* A definition named Slip... is a mistake the code could have made at the *)
(* definition that follows it, kept to show that a property would notice.  *)
(***************************************************************************)
EXTENDS Integers, FiniteSets

CONSTANTS
    Chat,        \* what Telegram knows
    Seed,        \* the chats administrators seed and searches find
    Mentions,    \* the chats that the newest messages of each chat link to
    Worker,
    MaxRow,      \* bound: rows of target_groups
    MaxWaiting,  \* bound: tasks that wait for the same, when one is created
    SeedLimit,   \* groups seeded per turn of the poller (20)
    WalkLimit,   \* links taken per walk (discovery.max_resolve_per_cycle)
    MaxDepth,    \* discovery.max_depth
    Hopeless,    \* rows whose every scan may fail, for the liveness properties
    Chain,       \* the task discover/chain
    Nothing      \* no chat, no task

ASSUME ChatAssumption == Seed \subseteq Chat /\ Mentions \in [Chat -> SUBSET Chat]
ASSUME BoundAssumption ==
    MaxRow \in Nat /\ MaxWaiting \in Nat /\ SeedLimit \in Nat \ {0}
    /\ WalkLimit \in Nat \ {0} /\ MaxDepth \in Nat

Row == 1 .. MaxRow
ScanTask == Row \union Chat
Task == ScanTask \union {Chain}

ASSUME HopelessAssumption == Hopeless \subseteq Row /\ Cardinality(Hopeless) < SeedLimit

ASSUME NameAssumption ==
    /\ Nothing \notin Chat \union Task
    /\ Chain \notin ScanTask /\ Row \intersect Chat = {}

VARIABLES
    chat,       \* of each row: the chat its username or tg_id stands for
    known,      \* its tg_id is set
    depth,      \* TargetGroup.depth
    status,     \* TargetGroup.scan_status; "absent" before the row is there
    link,       \* discovered_links by target: "none", "new", "taken" (resolved)
    linkDepth,  \* DiscoveredLink.depth
    waiting,    \* how many of each task wait; task g scans row g, task c the
                \* row whose username is that of chat c
    task,       \* the task each worker executes
    step,       \* and how far it is
    row,        \* the row it scans
    copy,       \* what its copy of that row says
    todo        \* the links it has yet to walk

groups == <<chat, known, depth, status>>
links == <<link, linkDepth>>
jobs == <<task, step, row, copy, todo>>
vars == <<groups, links, waiting, jobs>>

NoCopy == [known |-> FALSE, depth |-> 0]

TypeOK ==
    /\ chat \in [Row -> Chat \union {Nothing}]
    /\ known \in [Row -> BOOLEAN]
    /\ depth \in [Row -> Nat]
    /\ status \in [Row -> {"absent", "pending", "scanning", "scanned",
                           "duplicate", "private", "error"}]
    /\ \A g \in Row : chat[g] = Nothing <=> status[g] = "absent"
    /\ link \in [Chat -> {"none", "new", "taken"}]
    /\ linkDepth \in [Chat -> Nat]
    /\ waiting \in [Task -> Nat]
    /\ task \in [Worker -> Task \union {Nothing}]
    /\ step \in [Worker -> {"idle", "chat", "read", "mark", "walk", "close"}]
    /\ \A w \in Worker : task[w] = Nothing <=> step[w] = "idle"
    /\ row \in [Worker -> 0 .. MaxRow]
    /\ \A w \in Worker :
        step[w] \in {"chat", "read", "mark"} => row[w] # 0 /\ chat[row[w]] # Nothing
    /\ copy \in [Worker -> [known : BOOLEAN, depth : Nat]]
    /\ todo \in [Worker -> SUBSET Chat]

Init ==
    /\ chat = [g \in Row |-> Nothing] /\ known = [g \in Row |-> FALSE]
    /\ depth = [g \in Row |-> 0] /\ status = [g \in Row |-> "absent"]
    /\ link = [c \in Chat |-> "none"] /\ linkDepth = [c \in Chat |-> 0]
    /\ waiting = [t \in Task |-> 0]
    /\ task = [w \in Worker |-> Nothing] /\ step = [w \in Worker |-> "idle"]
    /\ row = [w \in Worker |-> 0] /\ copy = [w \in Worker |-> NoCopy]
    /\ todo = [w \in Worker |-> {}]

-----------------------------------------------------------------------------
(* upsert_target_group. *)

Owns(g, c) == known[g] /\ chat[g] = c
Named(c) == {g \in Row : chat[g] = c}

\* the next row; nothing in the schema forbids two of one name
Insert(c, k, d) ==
    \E g \in Row :
        /\ status[g] = "absent" /\ \A h \in Row : h < g => status[h] # "absent"
        /\ chat' = [chat EXCEPT ![g] = c] /\ known' = [known EXCEPT ![g] = k]
        /\ depth' = [depth EXCEPT ![g] = d] /\ status' = [status EXCEPT ![g] = "pending"]

\* ON CONFLICT (tg_id) DO UPDATE, the depth included
Upsert(c, d) ==
    \/ \E g \in Row :
        /\ Owns(g, c)
        /\ depth' = [depth EXCEPT ![g] = d]
        /\ UNCHANGED <<chat, known, status>>
    \/ (\A g \in Row : ~Owns(g, c)) /\ Insert(c, TRUE, d)

-----------------------------------------------------------------------------
(* Tasks. *)

Room(t) == waiting[t] < MaxWaiting

Add(t) == Room(t) /\ waiting' = [waiting EXCEPT ![t] = @ + 1]

\* /seed and seed-group: without a tg_id there is nothing to conflict with
SeedGroup(c) ==
    /\ Insert(c, FALSE, 0)
    /\ Add(c)
    /\ UNCHANGED <<links, jobs>>

\* /discover chain, whatever waits or runs already
OrderChain == Add(Chain) /\ UNCHANGED <<groups, links, jobs>>

\* no row goes back to pending, so the cooldown conditions always hold
PendingGroups == {g \in Row : status[g] = "pending"}

GoesFirst(g, h) == depth[g] < depth[h] \/ (depth[g] = depth[h] /\ g < h)

\* new links, and no walk waits or runs
NeedsWalk ==
    /\ \E c \in Chat : link[c] = "new"
    /\ waiting[Chain] = 0 /\ \A w \in Worker : task[w] # Chain

\* a turn of the poller that finds no pending task: a task for each of the
\* first SeedLimit pending groups, whatever waits or runs for it already,
\* and a walk
Poll(G) ==
    /\ G \subseteq PendingGroups /\ Cardinality(G) <= SeedLimit
    /\ \A h \in PendingGroups \ G :
        Cardinality(G) = SeedLimit /\ \A g \in G : GoesFirst(g, h)
    /\ \A g \in G : Room(g)
    /\ LET new == IF NeedsWalk THEN G \union {Chain} ELSE G
       IN  waiting' = [t \in Task |-> IF t \in new THEN waiting[t] + 1 ELSE waiting[t]]
    /\ UNCHANGED <<groups, links, jobs>>

\* w starts on task t
Begins(w, t, s) ==
    /\ step[w] = "idle" /\ waiting[t] > 0
    /\ waiting' = [waiting EXCEPT ![t] = @ - 1]
    /\ task' = [task EXCEPT ![w] = t] /\ step' = [step EXCEPT ![w] = s]

SlipStillAtWork(w) ==
    /\ task' = [task EXCEPT ![w] = Nothing]
    /\ UNCHANGED <<step, row, copy, todo>>

Goes(w, s) == step' = [step EXCEPT ![w] = s] /\ UNCHANGED task

Drops(w) ==
    /\ task' = [task EXCEPT ![w] = Nothing] /\ step' = [step EXCEPT ![w] = "idle"]
    /\ row' = [row EXCEPT ![w] = 0] /\ copy' = [copy EXCEPT ![w] = NoCopy]
    /\ todo' = [todo EXCEPT ![w] = {}]

-----------------------------------------------------------------------------
(* scan_messages. *)

\* _load_group: by the id in the payload, or by the name
TakeScan(w, t) ==
    /\ Begins(w, t, "chat")
    /\ \E g \in Row :
        /\ t = g \/ Named(t) = {g}
        /\ row' = [row EXCEPT ![w] = g]
        /\ copy' = [copy EXCEPT ![w] = [known |-> known[g], depth |-> depth[g]]]
    /\ UNCHANGED <<groups, links, todo>>

\* scalar_one_or_none raises for two rows, at every retry
LoadFails(t) ==
    /\ waiting[t] > 0 /\ Cardinality(Named(t)) > 1
    /\ \E w \in Worker : step[w] = "idle"
    /\ waiting' = [waiting EXCEPT ![t] = @ - 1]
    /\ UNCHANGED <<groups, links, jobs>>

\* parse_history once get_chat has answered: the row gets its tg_id, unless
\* another one has it: then it is a duplicate, and that other one is read
Adopt(w) ==
    /\ step[w] = "chat"
    /\ Goes(w, "read")
    /\ LET c == chat[row[w]]
           others == {h \in Row \ {row[w]} : Owns(h, c)}
       IN
        \/ copy[w].known /\ UNCHANGED <<known, status, copy>>
        \/ /\ ~copy[w].known /\ others = {}
           /\ known' = [known EXCEPT ![row[w]] = TRUE]
           /\ status' = [status EXCEPT ![row[w]] = "scanning"]
           /\ UNCHANGED copy
        \/ /\ ~copy[w].known
           /\ status' = [status EXCEPT ![row[w]] = "duplicate"]
           /\ \E h \in others :
                copy' = [copy EXCEPT ![w] = [known |-> TRUE, depth |-> depth[h]]]
           /\ UNCHANGED known
    /\ UNCHANGED <<chat, depth, links, waiting, row, todo>>

SlipReadNoLinks(w) ==
    /\ step[w] = "read"
    /\ Goes(w, "mark")
    /\ copy' = [copy EXCEPT ![w] = NoCopy]
    /\ UNCHANGED <<groups, links, waiting, row, todo>>

\* the messages are read to the end before any link is saved; a target
\* that is there already stays as it is
Read(w) ==
    /\ step[w] = "read"
    /\ Goes(w, "mark")
    /\ LET found == {c \in Mentions[chat[row[w]]] : link[c] = "none"} IN
        /\ link' = [c \in Chat |-> IF c \in found THEN "new" ELSE link[c]]
        /\ linkDepth' = [c \in Chat |->
                            IF c \in found THEN copy[w].depth + 1 ELSE linkDepth[c]]
    /\ copy' = [copy EXCEPT ![w] = NoCopy]
    /\ UNCHANGED <<groups, waiting, row, todo>>

SlipMarkScanning(w) ==
    /\ step[w] = "mark"
    /\ Goes(w, "close")
    /\ status' = IF status[row[w]] = "scanning" THEN [status EXCEPT ![row[w]] = "scanned"]
                ELSE status
    /\ row' = [row EXCEPT ![w] = 0]
    /\ UNCHANGED <<chat, known, depth, links, waiting, copy, todo>>

\* mark_group_scanned, on the row the task named, duplicate or not
Mark(w) ==
    /\ step[w] = "mark"
    /\ Goes(w, "close")
    /\ status' = [status EXCEPT ![row[w]] = "scanned"]
    /\ row' = [row EXCEPT ![w] = 0]
    /\ UNCHANGED <<chat, known, depth, links, waiting, copy, todo>>

\* mark_task_done
Finish(w) ==
    /\ step[w] = "close"
    /\ Drops(w)
    /\ UNCHANGED <<groups, links, waiting>>

\* mark_group_private, mark_group_error; only a payload says which row it is
MarkRefused(w, s) ==
    status' = IF task[w] \in Row THEN [status EXCEPT ![task[w]] = s] ELSE status

\* the group is private, or its name is bad
Refuse(w) ==
    /\ step[w] \in {"chat", "read"}
    /\ \E s \in {"private", "error"} : MarkRefused(w, s)
    /\ Drops(w)
    /\ UNCHANGED <<chat, known, depth, links, waiting>>

Back(w) ==
    /\ step[w] # "idle"
    /\ waiting' = [waiting EXCEPT ![task[w]] = @ + 1]
    /\ Drops(w)
    /\ UNCHANGED <<groups, links>>

\* recovery resets the row of a task that w still executes (see TaskQueue)
Again(w) ==
    /\ step[w] # "idle" /\ Add(task[w])
    /\ UNCHANGED <<groups, links, jobs>>

\* an unknown error that is not retried any more
GiveUp(w) ==
    /\ step[w] # "idle"
    /\ Drops(w)
    /\ UNCHANGED <<groups, links, waiting>>

-----------------------------------------------------------------------------
(* discover. *)

SlipTakeLinks(w, S) ==
    /\ Begins(w, Chain, "walk")
    /\ S \subseteq {c \in Chat : link[c] = "new"} /\ Cardinality(S) <= WalkLimit
    /\ todo' = [todo EXCEPT ![w] = S]
    /\ UNCHANGED <<groups, links, row, copy>>

\* the first WalkLimit links, marked resolved before any of them is tried
TakeWalk(w, S) ==
    /\ Begins(w, Chain, "walk")
    /\ LET new == {c \in Chat : link[c] = "new"} IN
        /\ S \subseteq new /\ Cardinality(S) <= WalkLimit
        /\ \A d \in new \ S :
            Cardinality(S) = WalkLimit /\ \A c \in S : linkDepth[c] <= linkDepth[d]
    /\ link' = [c \in Chat |-> IF c \in S THEN "taken" ELSE link[c]]
    /\ todo' = [todo EXCEPT ![w] = S]
    /\ UNCHANGED <<groups, linkDepth, row, copy>>

SlipTooDeep(c) == linkDepth[c] > MaxDepth

TooDeep(c) == linkDepth[c] >= MaxDepth

\* the next link: skipped, not resolved (whatever the reason), or a group
Walk(w, c) ==
    /\ step[w] = "walk" /\ c \in todo[w]
    /\ todo' = [todo EXCEPT ![w] = @ \ {c}]
    /\ \/ UNCHANGED groups
       \/ ~TooDeep(c) /\ Upsert(c, linkDepth[c] + 1)
    /\ UNCHANGED <<links, waiting, task, step, row, copy>>

\* no link is left, or no account: the rest stays resolved
WalkEnds(w) ==
    /\ step[w] = "walk"
    /\ Goes(w, "close")
    /\ todo' = [todo EXCEPT ![w] = {}]
    /\ UNCHANGED <<groups, links, waiting, row, copy>>

\* seed_phase resolves its seeds and keywords_phase takes what a search
\* finds; their tasks touch nothing else and are left out
Find(c) ==
    /\ Upsert(c, 0)
    /\ UNCHANGED <<links, waiting, jobs>>

-----------------------------------------------------------------------------
Scan(w) ==
    \/ \E t \in ScanTask : TakeScan(w, t)
    \/ Adopt(w) \/ Read(w) \/ Mark(w) \/ Finish(w) \/ Refuse(w)

Discover(w) ==
    \/ \E S \in SUBSET Chat : TakeWalk(w, S)
    \/ (\E c \in Chat : Walk(w, c)) \/ WalkEnds(w)

Next ==
    \/ \E c \in Seed : SeedGroup(c) \/ Find(c)
    \/ OrderChain
    \/ \E G \in SUBSET Row : Poll(G)
    \/ \E c \in Chat : LoadFails(c)
    \/ \E w \in Worker : Scan(w) \/ Discover(w) \/ Back(w) \/ GiveUp(w)

\* while no task is executed for so long that its row becomes stale
Spec == Init /\ [][Next]_vars

\* at any speed
AnyNext == Next \/ \E w \in Worker : Again(w)

AnySpec == Init /\ [][AnyNext]_vars

-----------------------------------------------------------------------------
(* Safety, of AnySpec. *)

\* c is at most n mentions away from a chat that was seeded or found
Within(c, n) ==
    \E k \in 1 .. n + 1 : \E p \in [1 .. k -> Chat] :
        /\ p[1] \in Seed /\ p[k] = c
        /\ \A i \in 1 .. k - 1 : p[i + 1] \in Mentions[p[i]]

\* Discovery is bounded: a link is one deeper than the row it was read
\* under, a row one deeper than its link, the copy that a link's depth is
\* taken from may be old, and a row's depth is overwritten whenever it is
\* found again.  Still no row is ever further from the seeds than max_depth
\* allows, two per mention (discovery.py:120-130, parser_messages.py:185).
CrawlRadius ==
    \A g \in Row : status[g] # "absent" =>
        depth[g] <= MaxDepth /\ Within(chat[g], depth[g] \div 2)

\* A row marked scanned has left all its links behind, though they are
\* saved last, in a transaction of their own, and any step may fail or run
\* beside another scan of the same chat (parser_messages.py:180-191,
\* runner.py:222-228).
ScannedIsComplete ==
    \A g \in Row : status[g] = "scanned" =>
        \A c \in Mentions[chat[g]] : link[c] # "none"

\* Two walks at once never resolve the same link, for a link is taken by
\* the transaction that reads it (repo.py:430-446).
WalksAreDisjoint ==
    \A v, w \in Worker : v # w => todo[v] \intersect todo[w] = {}

(***************************************************************************)
(* Why: a task that names a row by its id names one that is there; copies  *)
(* and links carry depths that some row had, so each bounds how far its    *)
(* chat is; a scan that is to be marked has saved its links; and what a    *)
(* walk has to do was taken.                                               *)
(***************************************************************************)
TasksHaveRows ==
    \A g \in Row : waiting[g] > 0 \/ (\E w \in Worker : task[w] = g) => chat[g] # Nothing

RadiusInv ==
    /\ \A g \in Row : status[g] # "absent" =>
        depth[g] <= MaxDepth /\ Within(chat[g], depth[g] \div 2)
    /\ \A w \in Worker : step[w] \in {"chat", "read"} =>
        Within(chat[row[w]], copy[w].depth \div 2)
    /\ \A c \in Chat : link[c] # "none" => Within(c, (linkDepth[c] + 1) \div 2)

CompleteInv ==
    /\ ScannedIsComplete
    /\ \A w \in Worker : step[w] = "mark" =>
        \A c \in Mentions[chat[row[w]]] : link[c] # "none"

WalkInv ==
    /\ WalksAreDisjoint
    /\ \A w \in Worker : \A c \in todo[w] : link[c] = "taken"

\* errors.py:32: "can't read, mark group and move on".
PrivateIsMarked ==
    [][\A w \in Worker :
        Refuse(w) /\ MarkRefused(w, "private") => status'[row[w]] = "private"]_vars

-----------------------------------------------------------------------------
(* All the crawler does together.                                          *)

Listed == {chat[g] : g \in Row} \ {Nothing}
Mentioned == {c \in Chat : link[c] # "none"}
Due == {c \in Chat : link[c] = "new"}
Done == {chat[g] : g \in {h \in Row : status[h] = "scanned"}}

Crawling == INSTANCE Crawl
    WITH listed <- Listed, mentioned <- Mentioned, due <- Due, done <- Done

\* Rows, links, copies and tasks that are given back or lost, two rows of one
\* chat, two scans of one row and walks side by side are together the
\* exploration of the graph of mentions: no chat gets into the table that
\* nobody seeded and no chat that was read mentions, no mention is resolved
\* before it is taken or taken twice, and none of a chat that counts as
\* scanned is missing (parser_messages.py:180-191, repo.py:414-446,
\* discovery.py:107-156).
ImplementsCrawl == Crawling!Spec

-----------------------------------------------------------------------------
(* Liveness: the loops go on, no task is given back for ever, and the      *)
(* scans of a group fail a number of times only, but for the Hopeless,     *)
(* whose every scan may fail.                                              *)

Proceeds(w) == step[w] # "idle" /\ (Scan(w) \/ Discover(w)) /\ step'[w] # step[w]

GivenBack(g) == \E w \in Worker : task[w] = g /\ Back(w)

\* to give up when all is done is the same as to finish
Fails(g) ==
    \/ GivenBack(g)
    \/ \E w \in Worker : task[w] = g /\ step[w] # "close" /\ (GiveUp(w) \/ Refuse(w))

LiveSpec ==
    /\ Spec /\ WF_vars(\E G \in SUBSET Row : Poll(G))
    /\ \A w \in Worker : WF_vars(Proceeds(w))
    /\ \A g \in Row : SF_vars(\E w \in Worker : TakeScan(w, g))
    /\ \A g \in Hopeless : <>[][~GivenBack(g)]_vars
    /\ \A g \in Row \ Hopeless : <>[][~Fails(g)]_vars

\* A group that can be scanned does not wait for ever, though the poller
\* takes the first SeedLimit ones only, starting anew every time, and those
\* that fail stay where they are: fewer than SeedLimit of them leave a place
\* for the others, each of which goes on and makes room for the next.
\* SeedLimit of them do not, for nothing sets a failed group back: with
\* known tg_ids they stay pending at the head (repo.py:289-310,
\* parser_messages.py:59, runner.py:317-320).
GroupsAreTried ==
    \A g \in Row \ Hopeless : status[g] = "pending" ~> status[g] # "pending"

=============================================================================
