------------------------------- MODULE Board -------------------------------
(* The board of one project: tasks in columns, ordered by their position.    *)
(* Requests create tasks, change their status, drag them between neighbours  *)
(* and remove them.  A request reads, waits, and writes; a transaction sees  *)
(* what others have committed, and waits for the rows they have written.     *)
EXTENDS Integers, Sequences, FiniteSets, FiniteSetsExt, SequencesExt, Functions

CONSTANTS
  Tasks,
  Requests,
  NoOne,     \* a model value: null
  STEP,      \* 1000 in the code; the unit is the last digit of tasks.position, 1e-10
  MinGap,    \* 1e-6 in the code, 10000 of these units
  Plans      \* the board there is, and, bounds, the requests and the failures there are

Columns == {"todo", "done"}   \* two of the five values of tasks.status

\* A row of tasks, and the place of one that is not there yet.
Row == [status : Columns, position : Int, parent : Tasks \cup {NoOne},
        deleted : BOOLEAN, version : Nat, number : Nat]
NoTask == [status |-> "none"]

Distance(a, b) == IF a < b THEN b - a ELSE a - b

ASSUME BoardAssumption ==
  /\ STEP \in Nat /\ MinGap \in Nat /\ 4 <= MinGap /\ MinGap <= STEP
  /\ IsFiniteSet(Tasks) /\ NoOne \notin Tasks /\ NoOne \notin Requests

\* The board of a plan is one that earlier requests have left: numbered without
\* a gap, and no two cards of a column closer than half the smallest gap that
\* is halved.
ASSUME PlansAssumption ==
  \A p \in Plans :
    /\ DOMAIN p.board \subseteq Tasks /\ p.writes \in Nat /\ p.faults \in Nat
    /\ \A t \in DOMAIN p.board : p.board[t] \in Row
    /\ {p.board[t].number : t \in DOMAIN p.board} = 1..Cardinality(DOMAIN p.board)
    /\ \A x, y \in DOMAIN p.board :
         x # y /\ p.board[x].status = p.board[y].status
           /\ p.board[x].parent = NoOne /\ p.board[y].parent = NoOne
           /\ ~p.board[x].deleted /\ ~p.board[y].deleted =>
         MinGap \div 2 <= Distance(p.board[x].position, p.board[y].position)

VARIABLES
  task,         \* table tasks
  nextNumber,   \* projects.next_task_number
  project,      \* the request that holds the row of the project
  row,          \* the request that holds the row of a task
  request,
  writes, faults,
  crossed       \* history: columns something was placed in by a request that others had overtaken

vars == <<task, nextNumber, project, row, request, writes, faults, crossed>>

\* A request: what it asks for, what it has read, and who has overtaken it.
Idle ==
  [op |-> "none", step |-> "idle", status |-> "none", touched |-> {}, task |-> NoOne,
   to |-> "none", parent |-> NoOne, number |-> 0, version |-> 0,
   after |-> NoOne, before |-> NoOne, above |-> 0, position |-> 0, dense |-> FALSE,
   list |-> <<>>, done |-> 0]

Live(t)       == task[t] # NoTask /\ ~task[t].deleted
Column(c)     == {t \in Tasks : Live(t) /\ task[t].status = c}
Cards(c)      == {t \in Column(c) : task[t].parent = NoOne}   \* what the board shows
Position(t)   == task[t].position
Free(t)       == row[t] = NoOne
At(r, o, s)   == request[r].op = o /\ request[r].step = s

RequestType ==
  [op : {"none", "create", "update", "move"},
   step : {"idle", "number", "insert", "write", "after", "before", "place", "renumber"},
   status : Columns \cup {"none"}, touched : SUBSET {"create", "update", "move"},
   task : Tasks \cup {NoOne}, to : Columns \cup {"none"}, parent : Tasks \cup {NoOne},
   number : Nat, version : Nat, after : Tasks \cup {NoOne}, before : Tasks \cup {NoOne},
   above : Int, position : Int, dense : BOOLEAN, list : Seq(Tasks), done : Nat]

\* Every variable is well typed; no property of a run.
TypeOK ==
  /\ task \in [Tasks -> Row \cup {NoTask}]
  /\ nextNumber \in Nat \ {0} /\ writes \in Nat /\ faults \in Nat
  /\ project \in Requests \cup {NoOne} /\ row \in [Tasks -> Requests \cup {NoOne}]
  /\ request \in [Requests -> RequestType] /\ crossed \subseteq Columns

Init ==
  \E p \in Plans :
    /\ task = [t \in Tasks |-> IF t \in DOMAIN p.board THEN p.board[t] ELSE NoTask]
    /\ nextNumber = Cardinality(DOMAIN p.board) + 1
    /\ writes = p.writes /\ faults = p.faults
    /\ project = NoOne /\ row = [t \in Tasks |-> NoOne]
    /\ request = [r \in Requests |-> Idle] /\ crossed = {}

-----------------------------------------------------------------------------
Begin(r, req) ==
  /\ request[r] = Idle /\ writes > 0
  /\ writes' = writes - 1
  /\ request' = [request EXCEPT ![r] = req]
  /\ UNCHANGED <<task, nextNumber, project, row, faults, crossed>>

\* The request goes on, in its transaction.
Goes(r, req) ==
  /\ request' = [request EXCEPT ![r] = req]
  /\ UNCHANGED <<task, nextNumber, row, writes, faults, crossed>>

\* The request ends and its transaction with it, without a change.
End(r) ==
  /\ request' = [request EXCEPT ![r] = Idle]
  /\ project' = IF project = r THEN NoOne ELSE project
  /\ row' = [t \in Tasks |-> IF row[t] = r THEN NoOne ELSE row[t]]
  /\ UNCHANGED <<task, nextNumber, writes, crossed>>

\* Two creates do not overtake each other, any other two placements may.
Overtaken(r) == request[r].touched # {} /\ ~(request[r].op = "create" /\ request[r].touched = {"create"})

\* The transaction commits: tables become new, and those who have looked at one of these columns are overtaken.
Commits(r, new, columns) ==
  /\ task' = new
  /\ request' = [q \in Requests |->
       IF q = r THEN Idle
       ELSE IF request[q].status \in columns THEN [request[q] EXCEPT !.touched = @ \cup {request[r].op}] ELSE request[q]]
  /\ crossed' = IF Overtaken(r) THEN crossed \cup columns ELSE crossed
  /\ project' = IF project = r THEN NoOne ELSE project
  /\ row' = [t \in Tasks |-> IF row[t] = r THEN NoOne ELSE row[t]]
  /\ UNCHANGED <<writes, faults>>

\* max(position) ?? 0, over subtasks too.
Top(c, except) ==
  LET all == {Position(t) : t \in Column(c) \ {except}} IN IF all = {} THEN 0 ELSE Max(all)

-----------------------------------------------------------------------------
(* create                                                                    *)

\* The parent is looked at before the transaction.
StartCreate(r, t, c, parent) ==
  /\ task[t] = NoTask /\ \A q \in Requests : request[q].op = "create" => request[q].task # t
  /\ parent # NoOne => Live(parent) /\ task[parent].parent = NoOne
  /\ Begin(r, [Idle EXCEPT !.op = "create", !.step = "number", !.task = t, !.to = c, !.parent = parent])

\* The number is the next one, the place the end of the column.
Numbered(q) ==
  [q EXCEPT !.step = "insert", !.status = q.to, !.number = nextNumber, !.position = Top(q.to, NoOne) + STEP]

\* Mutant: the number is read, and incremented at the end.
TakeNumberUnlocked(r) ==
  /\ At(r, "create", "number")
  /\ Goes(r, Numbered(request[r]))
  /\ UNCHANGED project

\* The increment locks the project until the end, so that what follows is done by one create at a time.
TakeNumber(r) ==
  /\ At(r, "create", "number") /\ project = NoOne
  /\ project' = r
  /\ Goes(r, Numbered(request[r]))

Insert(r) ==
  LET q == request[r] IN
  /\ At(r, "create", "insert")
  /\ nextNumber' = q.number + 1
  /\ Commits(r, [task EXCEPT ![q.task] = [status |-> q.to, position |-> q.position, parent |-> q.parent,
                                          deleted |-> FALSE, version |-> 1, number |-> q.number]], {q.to})

-----------------------------------------------------------------------------
(* update, with a new status: to the end of that column                      *)

StartUpdate(r, t, c) ==
  /\ Live(t) /\ task[t].status # c
  /\ Begin(r, [Idle EXCEPT !.op = "update", !.step = "write", !.status = c, !.task = t,
                           !.version = task[t].version, !.position = Top(c, NoOne) + STEP])

\* The version in the WHERE clause; the row waits for whoever holds it.
Current(r) == Free(request[r].task) /\ task[request[r].task].version = request[r].version
Conflict(r) ==
  /\ request[r].op \in {"update", "move"} /\ request[r].step \in {"write", "place"}
  /\ Free(request[r].task) /\ ~Current(r)
  /\ End(r) /\ UNCHANGED faults

Placed(r) == [task[request[r].task] EXCEPT !.status = request[r].status, !.position = request[r].position,
                                           !.version = request[r].version + 1]

\* The board with the task written in its new place.
Moved(r) == [task EXCEPT ![request[r].task] = Placed(r)]

Update(r) ==
  /\ At(r, "update", "write") /\ Current(r)
  /\ Commits(r, Moved(r), {request[r].status, task[request[r].task].status})
  /\ UNCHANGED nextNumber

-----------------------------------------------------------------------------
(* move                                                                      *)

\* A card is dropped between two cards that are next to each other on the board, at an end of the column, or sent to its end.
Neighbours(c, t) ==
  LET cards == Cards(c) \ {t} IN
  {<<NoOne, NoOne>>} \cup
  {n \in (cards \cup {NoOne}) \X (cards \cup {NoOne}) :
     /\ n # <<NoOne, NoOne>>
     /\ n[1] # NoOne /\ n[2] # NoOne => Position(n[1]) < Position(n[2])
     /\ \A x \in cards \ {n[1], n[2]} :
          \/ n[1] # NoOne /\ Position(x) <= Position(n[1])
          \/ n[2] # NoOne /\ Position(n[2]) <= Position(x)}

StartMove(r, t, c, n) ==
  /\ Live(t) /\ task[t].parent = NoOne
  /\ Begin(r, [Idle EXCEPT !.op = "move", !.step = "after", !.status = c, !.task = t,
                           !.version = task[t].version, !.after = n[1], !.before = n[2]])

InvalidDrop(r, n) == n # NoOne /\ (~Live(n) \/ task[n].status # request[r].status)

SeenAfter(q) == [q EXCEPT !.step = "before", !.above = IF q.after = NoOne THEN 0 ELSE Position(q.after)]

\* The task itself and the neighbour above, then the one below: two statements.
ReadAfter(r) ==
  /\ At(r, "move", "after")
  /\ IF ~Live(request[r].task) \/ InvalidDrop(r, request[r].after)
     THEN End(r) /\ UNCHANGED faults
     ELSE Goes(r, SeenAfter(request[r])) /\ UNCHANGED project

Between(q) ==
  CASE q.after # NoOne /\ q.before # NoOne -> (q.above + Position(q.before)) \div 2
    [] q.after # NoOne /\ q.before = NoOne -> q.above + STEP
    [] q.after = NoOne /\ q.before # NoOne -> Position(q.before) - STEP
    [] OTHER                               -> Top(q.status, q.task) + STEP

Dense(q) == q.after # NoOne /\ q.before # NoOne /\ Distance(q.above, Position(q.before)) < MinGap

SeenBefore(q) == [q EXCEPT !.step = "place", !.position = Between(q), !.dense = Dense(q)]

ReadBefore(r) ==
  /\ At(r, "move", "before")
  /\ IF InvalidDrop(r, request[r].before)
     THEN End(r) /\ UNCHANGED faults
     ELSE Goes(r, SeenBefore(request[r])) /\ UNCHANGED project

\* Mutant: the column is read in any order.
OrdersAny(c, board) == SetToSeqs(c)

\* The column in the order of its positions; equal ones come as they come.
Orders(c, board) ==
  {s \in SetToSeqs(c) : \A i, j \in DOMAIN s : i < j => board[s[i]].position <= board[s[j]].position}

\* What is read after the write: the column, and the task in it unless it is removed.
Reordered(r) == Column(request[r].status) \cup {t \in {request[r].task} : Live(t)}

\* Without a neighbour too close the transaction ends here; otherwise the task
\* is written, its row held, and the column read, the task in its new place.
Place(r) ==
  LET q == request[r] IN
  /\ At(r, "move", "place") /\ Current(r)
  /\ IF ~q.dense
     THEN /\ Commits(r, Moved(r), {q.status, task[q.task].status})
          /\ UNCHANGED nextNumber
     ELSE /\ \E s \in Orders(Reordered(r), Moved(r)) :
               request' = [request EXCEPT ![r] = [q EXCEPT !.step = "renumber", !.list = s, !.done = 0]]
          /\ row' = [row EXCEPT ![q.task] = r]
          /\ UNCHANGED <<task, nextNumber, project, writes, faults, crossed>>

\* One row after another, each by its id and whatever has become of it.
Renumber(r) ==
  LET q == request[r]   n == q.done + 1 IN
  /\ At(r, "move", "renumber") /\ n <= Len(q.list)
  /\ row[q.list[n]] \in {NoOne, r}
  /\ row' = [row EXCEPT ![q.list[n]] = r]
  /\ request' = [request EXCEPT ![r].done = n]
  /\ UNCHANGED <<task, nextNumber, project, writes, faults, crossed>>

\* The board with the tasks of the list at STEP, 2 STEP, 3 STEP, ...
InOrder(list, board) ==
  [t \in Tasks |-> IF t \in ToSet(list)
                    THEN [board[t] EXCEPT !.position = (CHOOSE i \in DOMAIN list : list[i] = t) * STEP]
                    ELSE board[t]]

Renumbered(r) ==
  LET q == request[r] IN
  /\ At(r, "move", "renumber") /\ q.done = Len(q.list)
  /\ Commits(r, InOrder(q.list, Moved(r)), {q.status, task[q.task].status} \cup {task[t].status : t \in ToSet(q.list)})
  /\ UNCHANGED nextNumber

-----------------------------------------------------------------------------
\* remove: a task and its subtasks, no version.
remove(t) ==
  /\ Live(t) /\ writes > 0
  /\ LET gone == {t} \cup {s \in Tasks : task[s] # NoTask /\ task[s].parent = t} IN
     /\ \A s \in gone : Free(s)
     /\ task' = [s \in Tasks |-> IF s \in gone THEN [task[s] EXCEPT !.deleted = TRUE] ELSE task[s]]
  /\ writes' = writes - 1
  /\ UNCHANGED <<nextNumber, project, row, request, faults, crossed>>

\* The next row is held by another, who waits for one of ours: the database ends one of the two.
WaitsFor(r, q) ==
  /\ r # q /\ At(r, "move", "renumber") /\ request[r].done < Len(request[r].list)
  /\ row[request[r].list[request[r].done + 1]] = q
Deadlock(r) == (\E q \in Requests : WaitsFor(r, q) /\ WaitsFor(q, r)) /\ End(r) /\ UNCHANGED faults

\* The connection is lost, or the API stops: what is not committed is undone.
Fail(r) == request[r] # Idle /\ faults > 0 /\ faults' = faults - 1 /\ End(r)

Next ==
  \/ \E r \in Requests :
       \/ \E t \in Tasks, c \in Columns :
            \/ \E p \in Tasks \cup {NoOne} : StartCreate(r, t, c, p)
            \/ StartUpdate(r, t, c)
            \/ \E n \in Neighbours(c, t) : StartMove(r, t, c, n)
       \/ TakeNumber(r) \/ Insert(r) \/ Update(r) \/ Conflict(r)
       \/ ReadAfter(r) \/ ReadBefore(r) \/ Place(r) \/ Renumber(r) \/ Renumbered(r)
       \/ Deadlock(r) \/ Fail(r)
  \/ \E t \in Tasks : remove(t)

Spec == Init /\ [][Next]_vars

-----------------------------------------------------------------------------
(* Properties                                                                *)

PlacesDiffer ==
  \A c \in Columns \ crossed : \A x, y \in Cards(c) : x # y => Position(x) # Position(y)

KeysGapless ==
  LET made == {t \in Tasks : task[t] # NoTask} IN
  /\ {task[t].number : t \in made} = 1..nextNumber - 1
  /\ Cardinality(made) = nextNumber - 1

\* No two cards of a column have the same position, so the board shows one
\* order to everyone, however often gaps are halved and columns renumbered;
\* only placements that overtake one another, two creates excepted, which the
\* row of the project keeps apart, can make two cards equal.  The keys of the
\* project (OPS-1, OPS-2, ...) are given once and without a gap, whatever fails
\* on the way, and stay with a task that is removed.
BoardInOrder == PlacesDiffer /\ KeysGapless

\* A card that nobody overtook lands between the neighbours it was dropped
\* between, or at the end of the column, and the other cards keep their order,
\* also when the column is renumbered for it.  (Where placements have overtaken
\* one another, two cards can be one unit apart, with no place between them.)
LandsWhereAsked ==
  [][\A r \in Requests : \A q \in {request[r]} :
       q.op = "move" /\ q.touched = {} /\ q.status \notin crossed /\ request'[r] = Idle
         /\ Live(q.task) /\ task[q.task].version = q.version /\ task'[q.task].version = q.version + 1 =>
         /\ q.after # NoOne /\ Live(q.after) => Position(q.after)' < Position(q.task)'
         /\ q.before # NoOne /\ Live(q.before) => Position(q.task)' < Position(q.before)'
         /\ q.after = NoOne /\ q.before = NoOne =>
              \A x \in Column(q.status) \ {q.task} : Position(x)' < Position(q.task)'
         /\ \A x, y \in Cards(q.status) \ {q.task} : Position(x) < Position(y) => Position(x)' < Position(y)'
    ]_vars
=============================================================================
