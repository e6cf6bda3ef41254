---------------------------- MODULE OfflineQueue ----------------------------
(* The offline mutation queue of the web client, and the server it replays   *)
(* to (Idempotency, and the version check of task.update).  Every tab of one *)
(* user has its own memory; IndexedDB is shared by them and survives them.   *)
(* Each await of enqueue and of the replay is a point where other code runs. *)
EXTENDS Idempotency, Sequences, SequencesExt

CONSTANTS
  Tabs,       \* browser tabs of the user
  Tenants,    \* workspaces the session may be switched to
  Creates,    \* operations sent with a key: their operationId
  Portable,   \* those whose body names nothing of a workspace (reminder.create)
  Updates,    \* operations task.update on one task, sent with a version and no key
  Edits,      \* changes to that task
  Plans,      \* what the user goes on to do: the workspaces visited, the tabs that
              \* are open, the creations and edits made, and, a bound, the versions of
              \* the task that other users and applyMineAgain write
  NoOne       \* a model value

Ops == Creates \cup Updates

ASSUME OpsAssumption ==
  /\ Keys = Tenants \X Creates /\ Bodies # {} /\ IsFiniteSet(Ops)
  /\ Portable \subseteq Creates
  /\ Plans \subseteq [spaces : SUBSET Tenants, tabs : SUBSET Tabs, makes : SUBSET (Creates \cup Edits), versions : Nat]
  /\ Creates \cap Updates = {} /\ Creates \cap Edits = {}
  /\ NoOne \notin Ops \cup Requests \cup Edits \cup Tenants \cup Tabs
  /\ NoOne \notin [tab : Tabs, op : Updates, patch : SUBSET Edits, base : Nat]

VARIABLES
  session,    \* the active workspace of the session (server side)
  task,       \* the task: its version and the edits applied to it
  plan,       \* which of the plans it is
  made,       \* the creations and edits made so far
  home,       \* the workspace in which each operation was made
  under,      \* the workspace it is queued under: the tab's when enqueue was called
  queue,      \* IndexedDB "queue": the record of each operation
  conflicts,  \* IndexedDB "conflicts": the patch of each operation in it
  tab,        \* tabs: connectivity, the form, the replay
  edit,       \* an enqueue of task.update between its read and its put
  mine,       \* applyMineAgain between its read and its PATCH
  dropped,    \* history: what the user discarded, or left with a workspace
  spoilt      \* history: edits merged into an operation that was being replayed

client == <<plan, made, home, under, queue, conflicts, tab, edit, mine, dropped, spoilt>>
vars   == <<server, session, task, client>>

Empty   == [status |-> "none", patch |-> {}, base |-> 0, born |-> 0]
Tab     == [offline : BOOLEAN, scope : Tenants,
            form : {"none", "asked", "queueing"}, formOp : Creates \cup {NoOne}, formReq : Requests \cup {NoOne},
            step : {"closed", "idle", "starting", "next", "sent", "clash"},
            todo : Seq(Ops), snap : [Updates -> (SUBSET Edits) \X Nat],
            wait : Requests \cup {NoOne}, patching : {"none", "sent", "ok", "conflict", "rejected"}]
Record  == [status : {"none", "pending", "error"}, patch : SUBSET Edits, base : Nat, born : Nat]

\* The type of every variable.
TypeOK ==
  /\ ServerTypeOK
  /\ session \in Tenants
  /\ task \in [version : Nat, applied : SUBSET Edits]
  /\ plan \in Plans /\ made \subseteq plan.makes
  /\ home \in [Ops -> Tenants \cup {NoOne}] /\ under \in [Ops -> Tenants \cup {NoOne}]
  /\ queue \in [Ops -> Record]
  /\ conflicts \in [Updates -> SUBSET Edits]
  /\ tab \in [Tabs -> Tab]
  /\ edit \in [tab : Tabs, op : Updates, patch : SUBSET Edits, base : Nat] \cup {NoOne}
  /\ mine \in [op : Updates, base : Nat] \cup {NoOne}
  /\ dropped \subseteq Creates \cup Edits /\ spoilt \subseteq Edits

\* A page that has just loaded replays what an earlier visit left.
Loaded(n) ==
  [offline |-> FALSE, scope |-> n, form |-> "none", formOp |-> NoOne, formReq |-> NoOne,
   step |-> "starting", todo |-> << >>, snap |-> [o \in Updates |-> <<{}, 0>>],
   wait |-> NoOne, patching |-> "none"]

Init ==
  /\ ServerInit
  /\ plan \in Plans /\ made = {}
  /\ session \in plan.spaces
  /\ task = [version |-> 0, applied |-> {}]
  /\ home = [o \in Ops |-> NoOne] /\ under = [o \in Ops |-> NoOne]
  /\ queue = [o \in Ops |-> Empty]
  /\ conflicts = [o \in Updates |-> {}]
  /\ tab = [t \in Tabs |-> IF t \in plan.tabs THEN Loaded(session) ELSE [Loaded(session) EXCEPT !.step = "closed"]]
  /\ edit = NoOne /\ mine = NoOne
  /\ dropped = {} /\ spoilt = {}

-----------------------------------------------------------------------------
Set(t, now) == tab' = [tab EXCEPT ![t] = now]
Pending  == {o \in Ops : queue[o].status = "pending"}
InOrder(S) == {s \in SetToSeqs(S) : \A i, j \in DOMAIN s : i < j => queue[s[i]].born < queue[s[j]].born}
Newest   == Cardinality({o \in Ops : queue[o].born > 0}) + 1
BodyOf   == CHOOSE b \in Bodies : TRUE
Op(t)    == Head(tab[t].todo)
\* The replay takes its next operation; it stops on a network error.
Onwards(t) == Set(t, [tab[t] EXCEPT !.step = "next", !.todo = Tail(tab[t].todo), !.wait = NoOne, !.patching = "none"])
Stopped(t) == Set(t, [tab[t] EXCEPT !.offline = TRUE, !.step = "idle", !.todo = << >>, !.wait = NoOne, !.patching = "none"])
PutOp(o, status, patch, base) ==
  queue' = [queue EXCEPT ![o] = [status |-> status, patch |-> patch, base |-> base,
                                 born |-> IF @.born = 0 THEN Newest ELSE @.born]]
\* Mutant: what was sent is marked, not deleted.
DeleteMarks(o) == queue' = [queue EXCEPT ![o].status = "done"]

Delete(o) == queue' = [queue EXCEPT ![o].status = "none", ![o].patch = {}]

Unserved  == UNCHANGED server
Unshared  == UNCHANGED <<session, task>>
Unstored  == UNCHANGED <<queue, conflicts, edit, mine, dropped, spoilt>>

-----------------------------------------------------------------------------
(* Making changes *)

QueueUnder(t, o) == under' = [under EXCEPT ![o] = tab[t].scope]

\* A creation: sent at once with its key, or queued when there is no connection.
Submit(t, c) ==
  /\ tab[t].step # "closed" /\ tab[t].form = "none" /\ c \in plan.makes \ made
  /\ made' = made \cup {c}
  /\ home' = [home EXCEPT ![c] = tab[t].scope]
  /\ \/ /\ tab[t].offline
        /\ Set(t, [tab[t] EXCEPT !.form = "queueing", !.formOp = c]) /\ QueueUnder(t, c)
        /\ Unserved
     \/ /\ ~tab[t].offline
        /\ \E r \in Requests :
             /\ Send(r, <<session, c>>, BodyOf)
             /\ Set(t, [tab[t] EXCEPT !.form = "asked", !.formOp = c, !.formReq = r])
        /\ UNCHANGED under
  /\ Unstored /\ Unshared /\ UNCHANGED plan

\* The answer: shown to the user, or a network error that queues the same key.
FormAnswered(t) ==
  /\ tab[t].form = "asked" /\ Receive(tab[t].formReq)
  /\ IF req[tab[t].formReq].at = "lost"
     THEN /\ Set(t, [tab[t] EXCEPT !.offline = TRUE, !.form = "queueing", !.formReq = NoOne])
          /\ QueueUnder(t, tab[t].formOp)
     ELSE /\ Set(t, [tab[t] EXCEPT !.form = "none", !.formOp = NoOne, !.formReq = NoOne])
          /\ UNCHANGED under
  /\ Unstored /\ Unshared /\ UNCHANGED <<plan, made, home>>

\* enqueue puts the operation after it has awaited the database.
Enqueue(t) ==
  /\ tab[t].form = "queueing"
  /\ PutOp(tab[t].formOp, "pending", {}, 0)
  /\ Set(t, [tab[t] EXCEPT !.form = "none", !.formOp = NoOne])
  /\ Unserved /\ Unshared /\ UNCHANGED <<plan, made, home, under, conflicts, edit, mine, dropped, spoilt>>

Applies(patch) == task' = [version |-> task.version + 1, applied |-> task.applied \cup patch]

\* Mutant: the later edit replaces the earlier ones.
MergedOver(o, e) == {e}

Merged(o, e) == queue[o].patch \cup {e}

\* enqueue of task.update reads the queue: a pending operation on the task takes
\* the edit in, otherwise there will be one based on the version the user sees.
ReadQueue(t, e, seen) ==
  /\ edit = NoOne /\ e \in plan.makes \ made
  /\ made' = made \cup {e}
  /\ LET waiting == {o \in Pending \cap Updates : under[o] = tab[t].scope} IN
     IF waiting # {}
     THEN LET o == CHOOSE o \in waiting : TRUE IN
          /\ edit' = [tab |-> t, op |-> o, patch |-> Merged(o, e), base |-> queue[o].base]
          /\ UNCHANGED <<home, under>>
     ELSE \E o \in Updates :
          /\ home[o] = NoOne /\ o = CHOOSE u \in Updates : home[u] = NoOne  \* a new UUID
          /\ home' = [home EXCEPT ![o] = tab[t].scope] /\ QueueUnder(t, o)
          /\ edit' = [tab |-> t, op |-> o, patch |-> {e}, base |-> seen]

\* The user edits the task without a connection, ...
EditOffline(t, e) ==
  /\ tab[t].offline
  /\ \E seen \in 0..task.version : ReadQueue(t, e, seen)
  /\ Unserved /\ Unshared /\ UNCHANGED <<plan, queue, conflicts, tab, mine, dropped, spoilt>>

\* ... or with one that breaks: the PATCH may have been applied.
EditBreaks(t, e) ==
  /\ tab[t].step # "closed" /\ ~tab[t].offline
  /\ Fault
  /\ \E seen \in 0..task.version :
       /\ ReadQueue(t, e, seen)
       /\ UNCHANGED task \/ (seen = task.version /\ Applies({e}))
  /\ Set(t, [tab[t] EXCEPT !.offline = TRUE])
  /\ UNCHANGED <<req, table, rows, givenUp, session, plan, queue, conflicts, mine, dropped, spoilt>>

\* The put of what was read, whatever has become of the operation since.
PutEdit ==
  /\ edit # NoOne
  /\ PutOp(edit.op, "pending", edit.patch, edit.base)
  /\ spoilt' = IF \E t \in Tabs : edit.op \in Range(tab[t].todo)
               THEN spoilt \cup (edit.patch \ queue[edit.op].patch) ELSE spoilt
  /\ edit' = NoOne
  /\ Unserved /\ Unshared /\ UNCHANGED <<plan, made, home, under, conflicts, tab, mine, dropped>>

-----------------------------------------------------------------------------
(* The replay: one per tab, which sends what was pending when it began *)

\* The connection is back (the online event, or the ping every 8 seconds).
Recover(t) ==
  /\ tab[t].offline
  /\ Set(t, [tab[t] EXCEPT !.offline = FALSE, !.step = IF tab[t].step = "idle" THEN "starting" ELSE tab[t].step])
  /\ Unserved /\ Unshared /\ Unstored /\ UNCHANGED <<plan, made, home, under>>

\* The user presses Sync now, or comes back to the page.
SyncNow(t) ==
  /\ tab[t].step = "idle"
  /\ Set(t, [tab[t] EXCEPT !.step = "starting"])
  /\ Unserved /\ Unshared /\ Unstored /\ UNCHANGED <<plan, made, home, under>>

Snapshot(t) ==
  /\ tab[t].step = "starting"
  /\ LET ops == {o \in Pending : under[o] = tab[t].scope}
         read(o) == IF o \in ops THEN <<queue[o].patch, queue[o].base>> ELSE <<{}, 0>>
     IN IF ops = {} THEN Set(t, [tab[t] EXCEPT !.step = "idle"])
        ELSE \E order \in InOrder(ops) :
               Set(t, [tab[t] EXCEPT !.offline = FALSE, !.step = "next", !.todo = order,
                                     !.snap = [o \in Updates |-> read(o)]])
  /\ Unserved /\ Unshared /\ Unstored /\ UNCHANGED <<plan, made, home, under>>

SendNext(t) ==
  /\ tab[t].step = "next" /\ tab[t].todo # << >>
  /\ \/ /\ Op(t) \in Creates
        /\ \E r \in Requests :
             /\ Send(r, <<session, Op(t)>>, BodyOf)
             /\ Set(t, [tab[t] EXCEPT !.step = "sent", !.wait = r])
     \/ /\ Op(t) \in Updates
        /\ Set(t, [tab[t] EXCEPT !.step = "sent", !.patching = "sent"])
        /\ Unserved
  /\ Unshared /\ Unstored /\ UNCHANGED <<plan, made, home, under>>

\* The replay has come to its end: the client calls itself online.
Finish(t) ==
  /\ tab[t].step = "next" /\ tab[t].todo = << >>
  /\ Set(t, [tab[t] EXCEPT !.offline = FALSE, !.step = "idle", !.snap = [o \in Updates |-> <<{}, 0>>]])
  /\ Unserved /\ Unshared /\ Unstored /\ UNCHANGED <<plan, made, home, under>>

\* Mutant: an operation the server refuses is taken out of the queue.
RefusedDeletes(t) == Delete(Op(t))

\* Mutant: it stays pending, to be sent again.
RefusedAgain(t) == PutOp(Op(t), "pending", IF Op(t) \in Updates THEN tab[t].snap[Op(t)][1] ELSE {},
                                           IF Op(t) \in Updates THEN tab[t].snap[Op(t)][2] ELSE 0)

\* Error: the record that was read when the replay began is put back as an error.
Refused(t) == PutOp(Op(t), "error", IF Op(t) \in Updates THEN tab[t].snap[Op(t)][1] ELSE {},
                                    IF Op(t) \in Updates THEN tab[t].snap[Op(t)][2] ELSE 0)

\* The answer to a creation.
Settle(t) ==
  /\ tab[t].wait # NoOne /\ Receive(tab[t].wait)
  /\ CASE req[tab[t].wait].at = "ok"       -> Delete(Op(t)) /\ Onwards(t)
       [] req[tab[t].wait].at = "rejected" -> Refused(t) /\ Onwards(t)
       [] req[tab[t].wait].at = "lost"     -> Stopped(t) /\ UNCHANGED queue
  /\ Unshared /\ UNCHANGED <<plan, made, home, under, conflicts, edit, mine, dropped, spoilt>>

\* task.update on the server: the version must be the one the edit was based on.
ServeUpdate(t) ==
  /\ tab[t].patching = "sent"
  /\ LET patch == tab[t].snap[Op(t)][1]
         base  == tab[t].snap[Op(t)][2] IN
     \/ /\ session = home[Op(t)] /\ base = task.version
        /\ Applies(patch) /\ Set(t, [tab[t] EXCEPT !.patching = "ok"])
     \/ /\ session = home[Op(t)] /\ base # task.version
        /\ Set(t, [tab[t] EXCEPT !.patching = "conflict"]) /\ UNCHANGED task
     \/ Set(t, [tab[t] EXCEPT !.patching = "rejected"]) /\ UNCHANGED task
  /\ Unserved /\ Unstored /\ UNCHANGED <<session, plan, made, home, under>>

\* Its answer; a version conflict is recorded before the operation is deleted.
SettleUpdate(t) ==
  /\ CASE tab[t].patching = "ok"       -> Delete(Op(t)) /\ Onwards(t) /\ UNCHANGED conflicts
       [] tab[t].patching = "rejected" -> Refused(t) /\ Onwards(t) /\ UNCHANGED conflicts
       [] tab[t].patching = "conflict" -> /\ conflicts' = [conflicts EXCEPT ![Op(t)] = tab[t].snap[Op(t)][1]]
                                          /\ Set(t, [tab[t] EXCEPT !.step = "clash", !.patching = "none"]) /\ UNCHANGED queue
       [] OTHER -> FALSE
  /\ Unserved /\ Unshared /\ UNCHANGED <<plan, made, home, under, edit, mine, dropped, spoilt>>

ClashRecorded(t) ==
  /\ tab[t].step = "clash"
  /\ Delete(Op(t)) /\ Onwards(t)
  /\ Unserved /\ Unshared /\ UNCHANGED <<plan, made, home, under, conflicts, edit, mine, dropped, spoilt>>

\* The connection breaks while the replay waits: its request goes on without it.
Break(t) ==
  /\ tab[t].step = "sent" /\ Fault
  /\ Stopped(t)
  /\ IF tab[t].patching = "sent"
     THEN \/ UNCHANGED task
          \/ /\ session = home[Op(t)] /\ tab[t].snap[Op(t)][2] = task.version
             /\ Applies(tab[t].snap[Op(t)][1])
     ELSE UNCHANGED task
  /\ Unstored /\ UNCHANGED <<req, table, rows, givenUp, session, plan, made, home, under>>

\* ... or while the form waits: the operation is queued with the same key.
FormBreaks(t) ==
  /\ tab[t].form = "asked" /\ Fault
  /\ Set(t, [tab[t] EXCEPT !.offline = TRUE, !.form = "queueing", !.formReq = NoOne])
  /\ QueueUnder(t, tab[t].formOp)
  /\ Unstored /\ Unshared /\ UNCHANGED <<req, table, rows, givenUp, plan, made, home>>

\* An answer nobody waits for.
Unheard(r) ==
  /\ \A t \in Tabs : r \notin {tab[t].wait, tab[t].formReq}
  /\ Receive(r)
  /\ Unshared /\ UNCHANGED client

\* The page is closed and opened again: only IndexedDB is left of it.
Reload(t) ==
  /\ tab[t].step # "closed" /\ Fault
  /\ tab' = [tab EXCEPT ![t] = Loaded(session)]
  /\ IF edit # NoOne /\ edit.tab = t
     THEN edit' = NoOne /\ dropped' = dropped \cup (edit.patch \ queue[edit.op].patch)
     ELSE UNCHANGED <<edit, dropped>>
  /\ mine' = NoOne
  /\ Unshared /\ UNCHANGED <<req, table, rows, givenUp, plan, made, home, under, queue, conflicts, spoilt>>

-----------------------------------------------------------------------------
(* The sync centre, the other users, the workspaces *)

\* A tab shows what is queued under its workspace.
Shows(t, o) == tab[t].step # "closed" /\ under[o] = tab[t].scope
Shown(o)    == \E t \in Tabs : Shows(t, o)

RetryOp(t, o) ==
  /\ Shows(t, o) /\ queue[o].status = "error"
  /\ queue' = [queue EXCEPT ![o].status = "pending"]
  /\ Set(t, [tab[t] EXCEPT !.step = IF tab[t].step = "idle" THEN "starting" ELSE tab[t].step])
  /\ Unserved /\ Unshared /\ UNCHANGED <<plan, made, home, under, conflicts, edit, mine, dropped, spoilt>>

DiscardOp(o) ==
  /\ Shown(o) /\ queue[o].status = "error"
  /\ Delete(o)
  /\ dropped' = dropped \cup queue[o].patch \cup ({o} \cap Creates)
  /\ Unserved /\ Unshared /\ UNCHANGED <<plan, made, home, under, conflicts, tab, edit, mine, spoilt>>

KeepServer(o) ==
  /\ Shown(o) /\ conflicts[o] # {}
  /\ conflicts' = [conflicts EXCEPT ![o] = {}]
  /\ dropped' = dropped \cup conflicts[o]
  /\ Unserved /\ Unshared /\ UNCHANGED <<plan, made, home, under, queue, tab, edit, mine, spoilt>>

\* applyMineAgain reads the latest version, ...
ReadLatest(o) ==
  /\ Shown(o) /\ conflicts[o] # {} /\ mine = NoOne
  /\ mine' = [op |-> o, base |-> task.version]
  /\ Unserved /\ Unshared /\ UNCHANGED <<plan, made, home, under, queue, conflicts, tab, edit, dropped, spoilt>>

\* ... and sends the patch with it; the conflict stays when that fails.
ApplyMineAgain ==
  /\ mine # NoOne /\ mine' = NoOne
  /\ \/ /\ mine.base = task.version /\ task.version < plan.versions
        /\ Applies(conflicts[mine.op])
        /\ conflicts' = [conflicts EXCEPT ![mine.op] = {}]
     \/ UNCHANGED <<task, conflicts>>
  /\ Unserved /\ UNCHANGED <<session, plan, made, home, under, queue, tab, edit, dropped, spoilt>>

OtherWrites ==
  /\ task.version < plan.versions
  /\ task' = [task EXCEPT !.version = @ + 1]
  /\ UNCHANGED <<server, session, client>>

\* The session moves to another workspace; what is queued under any other is
\* wiped.  A replay that is running goes on with what it has read.
SwitchWorkspace(t, n) ==
  /\ tab[t].step # "closed" /\ n \in plan.spaces \ {session}
  /\ session' = n
  /\ LET wiped == {o \in Ops : under[o] # n} IN
       /\ queue' = [o \in Ops |-> IF o \in wiped THEN [queue[o] EXCEPT !.status = "none", !.patch = {}] ELSE queue[o]]
       /\ conflicts' = [o \in Updates |-> IF o \in wiped THEN {} ELSE conflicts[o]]
       /\ dropped' = dropped \cup {o \in wiped \cap Creates : queue[o].status # "none"}
                             \cup (UNION {queue[o].patch : o \in wiped}) \cup (UNION {conflicts[o] : o \in wiped \cap Updates})
  /\ Set(t, [tab[t] EXCEPT !.scope = n])
  /\ Unserved /\ UNCHANGED <<task, plan, made, home, under, edit, mine, spoilt>>

-----------------------------------------------------------------------------
\* The server; a creation that names things of its workspace fails in another one.
Serve(r) ==
  /\ Process(r) \/ Breaks(r) \/ Lose(r)
  /\ rows' = rows \/ req[r].key[1] = home[req[r].key[2]] \/ req[r].key[2] \in Portable
  /\ Unshared /\ UNCHANGED client

ServerFails ==
  /\ ServerStops \/ \E k \in Keys : Purge(k)
  /\ Unshared /\ UNCHANGED client

Next ==
  \/ \E t \in Tabs :
       \/ \E c \in Creates : Submit(t, c)
       \/ \E e \in Edits : EditOffline(t, e) \/ EditBreaks(t, e)
       \/ FormAnswered(t) \/ FormBreaks(t) \/ Enqueue(t)
       \/ Recover(t) \/ SyncNow(t) \/ Snapshot(t) \/ SendNext(t) \/ Finish(t)
       \/ Settle(t) \/ ServeUpdate(t) \/ SettleUpdate(t) \/ ClashRecorded(t)
       \/ Break(t) \/ Reload(t)
       \/ \E o \in Ops : RetryOp(t, o)
       \/ \E n \in Tenants : SwitchWorkspace(t, n)
  \/ PutEdit \/ ApplyMineAgain \/ OtherWrites
  \/ \E o \in Ops : DiscardOp(o)
  \/ \E o \in Updates : KeepServer(o) \/ ReadLatest(o)
  \/ \E r \in Requests : Serve(r) \/ Unheard(r)
  \/ ServerFails

Spec == Init /\ [][Next]_vars

\* Promises settle, requests are answered, the timer of the ping ticks.
Progress(t) ==
  \/ FormAnswered(t) \/ Enqueue(t) \/ Recover(t) \/ Snapshot(t) \/ SendNext(t) \/ Finish(t)
  \/ Settle(t) \/ ServeUpdate(t) \/ SettleUpdate(t) \/ ClashRecorded(t)

ClientFairness ==
  /\ \A t \in Tabs : WF_vars(Progress(t))
  /\ \A r \in Requests : WF_vars(Serve(r) \/ Unheard(r))

\* A user who looks at the page again.
FairSpec == Spec /\ ClientFairness /\ \A t \in Tabs : WF_vars(SyncNow(t))

-----------------------------------------------------------------------------
\* An operation that was put into the queue stays there until it has been
\* executed or the user has given it up: no order of two tabs' replays, lost
\* answers and reloads makes it vanish.
QueuedNotLost ==
  \A c \in Creates : queue[c].born > 0 /\ c \notin dropped =>
    queue[c].status # "none" \/ \E n \in Tenants : rows[<<n, c>>] > 0

\* An edit of a task is applied, waiting or in conflict until the user drops
\* it, except one that was merged into an operation during its replay.
EditsKept ==
  \A e \in (made \cap Edits) \ (dropped \cup spoilt) :
    \/ e \in task.applied
    \/ \E o \in Updates : e \in queue[o].patch \cup conflicts[o]
    \/ edit # NoOne /\ e \in edit.patch

\* What is pending in the workspace of an open page does not stay pending.
QueueSettles == \A o \in Ops : LET waits == queue[o].status = "pending" /\ Shown(o) IN waits ~> ~waits
=============================================================================
