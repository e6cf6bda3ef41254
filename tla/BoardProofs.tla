----------------------------- MODULE BoardProofs -----------------------------
(***************************************************************************)
(* Theorems about Board, for any number of tasks and requests, any board   *)
(* of the plans, any sizes of the gaps, any failures and deadlocks.        *)
(***************************************************************************)
EXTENDS Board, FiniteSetTheorems, SequenceTheorems, WellFoundedInduction, TLAPS

-----------------------------------------------------------------------------
(* The inductive invariant *)

Made(t) == task[t] # NoTask

Counted ==
  /\ {task[t].number : t \in {x \in Tasks : Made(x)}} = 1..(nextNumber - 1)
  /\ Cardinality({x \in Tasks : Made(x)}) = nextNumber - 1

\* No two cards of a column are closer than half the smallest gap that is halved,
\* unless placements have overtaken one another there.
SpacedIn(c) == \A x, y \in Cards(c) : x # y => MinGap \div 2 <= Distance(Position(x), Position(y))
Spaced      == \A c \in Columns \ crossed : SpacedIn(c)

CreatesApart ==
  \A r, s \in Requests :
    r # s /\ request[r].op = "create" /\ request[s].op = "create" => request[r].task # request[s].task

\* What a create r has to itself: a task, and from the number on the row of the
\* project, so that nobody else counts, or commits a create, before it ends.
CreateHolds(r, q) ==
  q.op = "create" =>
    /\ q.task \in Tasks /\ task[q.task] = NoTask /\ q.to \in Columns
    /\ \/ q.step = "number" /\ q.status = "none" /\ q.touched = {}
       \/ /\ q.step = "insert" /\ q.status = q.to
          /\ project = r /\ q.number = nextNumber /\ "create" \notin q.touched

\* An update or a move is about a task there is ...
PlaceHolds(q) ==
  q.op \in {"update", "move"} =>
    /\ q.task \in Tasks /\ Made(q.task) /\ q.status \in Columns
    /\ q.op = "update" => q.step = "write"
    /\ q.op = "move" => q.step \in {"after", "before", "place", "renumber"}

\* ... and a list about tasks there are, each of them once.
ListHolds(q) ==
  q.op = "move" /\ q.step = "renumber" =>
    /\ \A i \in 1..Len(q.list) : Made(q.list[i])
    /\ \A i, j \in 1..Len(q.list) : i # j => q.list[i] # q.list[j]

\* The end of the column.
AtEnd(q) == \A x \in Column(q.status) \ {q.task} : Position(x) + STEP <= q.position

\* The neighbours are those of the column still: all other cards are above or below them.
Adjacent(q) ==
  /\ q.after # NoOne => q.after # q.task /\ task[q.after].status = q.status
  /\ q.before # NoOne => q.before # q.task /\ task[q.before].status = q.status
  /\ q.after # NoOne /\ q.before # NoOne =>
       /\ Position(q.after) < Position(q.before)
       /\ q.status \notin crossed => MinGap \div 2 <= Position(q.before) - Position(q.after)
  /\ q.after # NoOne \/ q.before # NoOne =>
       \A x \in Cards(q.status) \ {q.task, q.after, q.before} :
         \/ q.after # NoOne /\ Position(x) <= Position(q.after)
         \/ q.before # NoOne /\ Position(q.before) <= Position(x)

\* The place is between the neighbours, and away from every card unless the
\* column is to be renumbered.
Aimed(q) ==
  /\ q.after # NoOne => q.after # q.task /\ task[q.after].status = q.status
  /\ q.before # NoOne => q.before # q.task /\ task[q.before].status = q.status
  /\ q.after # NoOne /\ (q.dense => q.status \notin crossed) => Position(q.after) < q.position
  /\ q.before # NoOne /\ (q.dense => q.status \notin crossed) => q.position < Position(q.before)
  /\ q.dense => q.after # NoOne /\ q.before # NoOne
  /\ q.after = NoOne /\ q.before = NoOne => AtEnd(q)
  /\ ~q.dense => \A x \in Cards(q.status) \ {q.task} : MinGap \div 2 <= Distance(Position(x), q.position)

\* The list is the column still, and in its order.
Ordered(q) ==
  /\ \A x \in Column(q.status) \ {q.task} : \E i \in 1..Len(q.list) : q.list[i] = x
  /\ Live(q.task) => \E i \in 1..Len(q.list) : q.list[i] = q.task
  /\ \A i \in 1..Len(q.list) : q.list[i] # q.task => task[q.list[i]].status = q.status
  /\ \A i, j \in 1..Len(q.list) : i < j =>
       /\ q.list[i] # q.task /\ q.list[j] # q.task => Position(q.list[i]) <= Position(q.list[j])
       /\ q.list[i] = q.task /\ q.list[j] # q.task => q.position <= Position(q.list[j])
       /\ q.list[i] # q.task /\ q.list[j] = q.task => Position(q.list[i]) <= q.position

\* What a request nobody has overtaken has read is true still.
ReadHolds(q) ==
  q.touched = {} =>
    /\ q.op = "create" /\ q.step = "insert" => AtEnd(q)
    /\ q.op = "update" => AtEnd(q)
    /\ q.op = "move" /\ q.step \in {"after", "before"} => Adjacent(q)
    /\ q.op = "move" /\ q.step = "before" /\ q.after # NoOne => q.above = Position(q.after)
    /\ q.op = "move" /\ q.step \in {"place", "renumber"} => Aimed(q)
    /\ q.op = "move" /\ q.step = "renumber" => q.dense /\ Ordered(q)

Sound(r, q) == CreateHolds(r, q) /\ PlaceHolds(q) /\ ListHolds(q) /\ ReadHolds(q)
AllSound    == \A r \in Requests : \A q \in {request[r]} : Sound(r, q)

Inv == TypeOK /\ CreatesApart /\ Counted /\ Spaced /\ AllSound

-----------------------------------------------------------------------------
(* Tasks, columns and their end *)

\* A task that has been made has a row.
LEMMA MadeRow ==
  ASSUME TypeOK, NEW t \in Tasks, Made(t)
  PROVE  task[t] \in Row /\ task[t].status \in Columns /\ Position(t) \in Int /\ task[t].version \in Nat
         /\ task[t].number \in Nat /\ task[t].parent \in Tasks \cup {NoOne} /\ task[t].deleted \in BOOLEAN
  <1>1. task[t] \in Row
    BY DEF TypeOK, Made
  <1>2. QED
    BY <1>1 DEF Row, Position

\* A task that has not is in no column.
LEMMA NotMade ==
  ASSUME NEW t \in Tasks, ~Made(t)
  PROVE  task[t] = NoTask /\ task[t].status = "none"
  BY DEF Made, NoTask

\* What is in a column.
LEMMA InColumn ==
  ASSUME TypeOK, NEW c, NEW t \in Column(c)
  PROVE  t \in Tasks /\ Made(t) /\ task[t].status = c /\ ~task[t].deleted /\ Position(t) \in Int /\ c \in Columns
  <1>1. t \in Tasks /\ Made(t) /\ task[t].status = c /\ ~task[t].deleted
    BY DEF Column, Live, Made
  <1>2. QED
    BY <1>1, MadeRow

\* A finite set of tasks that have positions has a last one.
LEMMA LastOne ==
  ASSUME NEW S \in SUBSET Tasks, S # {}, NEW p \in [S -> Int]
  PROVE  \E x \in S : \A y \in S : p[y] <= p[x]
  <1> DEFINE below(x) == {y \in S : p[x] < p[y]}
             all == {below(x) : x \in S}
  <1>1. IsFiniteSet(S)
    BY FS_Subset, BoardAssumption
  <1>2. all \subseteq FiniteSubsetsOf(S)
    <2>1. ASSUME NEW x \in S
          PROVE  below(x) \in FiniteSubsetsOf(S)
      <3>1. below(x) \in SUBSET S
        OBVIOUS
      <3>2. IsFiniteSet(below(x))
        BY <1>1, <3>1, FS_Subset
      <3>3. QED
        BY <3>1, <3>2 DEF FiniteSubsetsOf
    <2>2. QED
      BY <2>1
  <1>3. all # {}
    <2>1. PICK x \in S : TRUE
      OBVIOUS
    <2>2. below(x) \in all
      OBVIOUS
    <2>3. QED
      BY <2>2
  <1>4. PICK T \in all : \A U \in all : ~(<<U, T>> \in StrictSubsetOrdering(S))
    <2> HIDE DEF all
    <2>1. QED
      BY <1>2, <1>3, FS_StrictSubsetOrderingWellFounded, WFMin
  <1>5. PICK x \in S : T = below(x)
    BY <1>4
  <1>6. ASSUME NEW y \in S, ~(p[y] <= p[x])
        PROVE  FALSE
    <2>1. p[x] < p[y] /\ p[x] \in Int /\ p[y] \in Int
      BY <1>6
    <2>2. below(y) \subseteq T /\ y \in T /\ y \notin below(y) /\ T \in SUBSET S
      BY <2>1, <1>5
    <2>3. below(y) \in all
      OBVIOUS
    <2>4. <<below(y), T>> \in StrictSubsetOrdering(S)
      <3>1. below(y) \in SUBSET S /\ T \in SUBSET S /\ below(y) # T
        BY <2>2
      <3> HIDE DEF below
      <3>2. QED
        BY <3>1, <2>2 DEF StrictSubsetOrdering
    <2>5. QED
      BY <2>3, <2>4, <1>4
  <1>7. QED
    BY <1>6

\* The end of a column is at or after everything in it.
LEMMA TopBound ==
  ASSUME TypeOK, NEW c, NEW except
  PROVE  Top(c, except) \in Int /\ \A x \in Column(c) \ {except} : Position(x) <= Top(c, except)
  <1> DEFINE S == Column(c) \ {except}
             all == {Position(t) : t \in S}
  <1>1. \A x \in S : x \in Tasks /\ Position(x) \in Int
    BY InColumn
  <1>2. CASE all = {}
    <2>1. S = {}
      BY <1>2
    <2>2. Top(c, except) = 0
      BY <1>2 DEF Top
    <2>3. QED
      BY <2>1, <2>2
  <1>3. CASE all # {}
    <2>1. S # {} /\ S \in SUBSET Tasks
      BY <1>1, <1>3
    <2> DEFINE p == [x \in S |-> Position(x)]
    <2>2. p \in [S -> Int]
      BY <1>1
    <2>3. PICK x \in S : \A y \in S : p[y] <= p[x]
      <3> HIDE DEF S, p
      <3>1. QED
        BY <2>1, <2>2, LastOne
    <2>4. Position(x) \in all /\ \A y \in all : Position(x) >= y
      <3>1. \A y \in S : Position(y) <= Position(x)
        BY <2>3
      <3>2. QED
        BY <3>1, <1>1
    <2>5. Max(all) \in all /\ \A y \in all : Max(all) >= y
      <3> HIDE DEF all
      <3>1. QED
        BY <2>4 DEF Max
    <2>6. Top(c, except) = Max(all)
      BY <1>3 DEF Top
    <2>7. QED
      BY <2>5, <2>6, <1>1
  <1>4. QED
    BY <1>2, <1>3

\* The lists of a set are sequences of its elements, each of them once.
LEMMA Lists ==
  ASSUME NEW S \in SUBSET Tasks, NEW s \in SetToSeqs(S)
  PROVE  /\ s \in Seq(Tasks)
         /\ \A i \in 1..Len(s) : s[i] \in S
         /\ \A i, j \in 1..Len(s) : i # j => s[i] # s[j]
         /\ \A x \in S : \E i \in 1..Len(s) : s[i] = x
  <1> DEFINE n == Cardinality(S)
  <1>1. IsFiniteSet(S) /\ n \in Nat
    BY FS_Subset, FS_CardinalityType, BoardAssumption
  <1>2. s \in [1..n -> S] /\ \A i, j \in 1..n : i # j => s[i] # s[j]
    BY DEF SetToSeqs
  <1> HIDE DEF n
  <1>3. s \in Seq(S) /\ Len(s) = n
    BY <1>1, <1>2
  <1>4. s \in Seq(Tasks)
    BY <1>3
  <1>5. ASSUME NEW x \in S, \A i \in 1..n : s[i] # x
        PROVE  FALSE
    <2>1. s \in [1..n -> S \ {x}]
      BY <1>2, <1>5
    <2>2. s \in Injection(1..n, S \ {x})
      BY <2>1, <1>2 DEF Injection, IsInjective
    <2>3. IsFiniteSet(S \ {x}) /\ Cardinality(S \ {x}) = n - 1
      BY <1>1, FS_RemoveElement DEF n
    <2>4. Cardinality(1..n) = n
      BY <1>1, FS_Interval
    <2>5. Cardinality(1..n) <= Cardinality(S \ {x})
      BY <2>2, <2>3, FS_Injection
    <2>6. QED
      BY <1>1, <2>3, <2>4, <2>5
  <1>6. QED
    BY <1>2, <1>3, <1>4, <1>5

-----------------------------------------------------------------------------
(* What stays true while nothing happens in a column *)

\* A task that has been made stays, with its number and its parent, and stays removed.
Grows ==
  \A x \in Tasks : Made(x) =>
    /\ Made(x)' /\ task'[x].number = task[x].number /\ task'[x].parent = task[x].parent
    /\ task[x].deleted => task'[x].deleted

\* Nothing comes into a column, leaves it or gets another place in it.
Quiet(c) ==
  \A x \in Tasks : task[x].status = c \/ task'[x].status = c =>
    task'[x].status = task[x].status /\ task'[x].position = task[x].position

\* What is in a quiet column after a step was there before it, in its place.
LEMMA QuietColumn ==
  ASSUME TypeOK, Grows, NEW c \in Columns, Quiet(c)
  PROVE  /\ \A x \in Column(c)' : x \in Column(c) /\ Position(x)' = Position(x)
         /\ \A x \in Cards(c)' : x \in Cards(c)
         /\ \A x \in Tasks : task[x].status = c => task'[x].status = c /\ Position(x)' = Position(x)
  <1>1. c # "none"
    BY DEF Columns
  <1>2. \A x \in Tasks : task[x].status = c => task'[x].status = c /\ Position(x)' = Position(x)
    BY DEF Quiet, Position
  <1>3. ASSUME NEW x \in Column(c)'
        PROVE  x \in Column(c) /\ Position(x)' = Position(x) /\ task'[x].parent = task[x].parent
    <2>1. x \in Tasks /\ task'[x].status = c /\ ~task'[x].deleted
      BY <1>3 DEF Column, Live
    <2>2. task[x].status = c /\ Position(x)' = Position(x)
      BY <2>1 DEF Quiet, Position
    <2>3. Made(x)
      BY <2>2, <2>1, <1>1, NotMade
    <2>4. ~task[x].deleted /\ task'[x].parent = task[x].parent
      BY <2>1, <2>3 DEF Grows
    <2>5. QED
      BY <2>1, <2>2, <2>3, <2>4 DEF Column, Live, Made
  <1>4. ASSUME NEW x \in Cards(c)'
        PROVE  x \in Cards(c)
    <2>1. x \in Column(c)' /\ task'[x].parent = NoOne
      BY <1>4 DEF Cards
    <2>2. x \in Column(c) /\ task[x].parent = NoOne
      BY <2>1, <1>3
    <2>3. QED
      BY <2>2 DEF Cards
  <1>5. QED
    BY <1>2, <1>3, <1>4

\* The end of a quiet column is the end of it still.
LEMMA AtEndKept ==
  ASSUME TypeOK, Grows, NEW q, q.status \in Columns, Quiet(q.status), AtEnd(q)
  PROVE  AtEnd(q)'
  <1>1. PICK c \in Columns : c = q.status
    OBVIOUS
  <1>2. \A x \in Column(c)' : x \in Column(c) /\ Position(x)' = Position(x)
    BY <1>1, QuietColumn
  <1>3. QED
    BY <1>1, <1>2 DEF AtEnd

\* Neighbours in a quiet column stay neighbours.
LEMMA AdjacentKept ==
  ASSUME TypeOK, Grows, crossed \subseteq crossed', NEW q \in RequestType, q.status \in Columns, Quiet(q.status),
         Adjacent(q)
  PROVE  Adjacent(q)'
  <1>1. PICK c \in Columns : c = q.status
    OBVIOUS
  <1>2. /\ \A x \in Cards(c)' : x \in Cards(c)
        /\ \A x \in Tasks : task[x].status = c => task'[x].status = c /\ Position(x)' = Position(x)
    BY <1>1, QuietColumn
  <1>3. q.after \in Tasks \cup {NoOne} /\ q.before \in Tasks \cup {NoOne}
    BY DEF RequestType
  <1>4. \A x \in Cards(c) : x \in Tasks /\ task[x].status = c
    BY DEF Cards, Column
  <1>5. /\ q.after # NoOne => q.after # q.task /\ task'[q.after].status = c /\ Position(q.after)' = Position(q.after)
        /\ q.before # NoOne => q.before # q.task /\ task'[q.before].status = c /\ Position(q.before)' = Position(q.before)
    BY <1>1, <1>2, <1>3 DEF Adjacent
  <1>6. q.after # NoOne /\ q.before # NoOne =>
          /\ Position(q.after)' < Position(q.before)'
          /\ q.status \notin crossed' => MinGap \div 2 <= Position(q.before)' - Position(q.after)'
    BY <1>5 DEF Adjacent
  <1>7. ASSUME q.after # NoOne \/ q.before # NoOne, NEW x \in Cards(c)' \ {q.task, q.after, q.before}
        PROVE  \/ q.after # NoOne /\ Position(x)' <= Position(q.after)'
               \/ q.before # NoOne /\ Position(q.before)' <= Position(x)'
    <2>1. x \in Cards(c) \ {q.task, q.after, q.before} /\ Position(x)' = Position(x)
      BY <1>7, <1>2, <1>4
    <2>2. QED
      BY <2>1, <1>1, <1>5, <1>7 DEF Adjacent
  <1>8. QED
    BY <1>1, <1>5, <1>6, <1>7 DEF Adjacent

\* A place between neighbours stays one while the column is quiet.
LEMMA AimedKept ==
  ASSUME TypeOK, Grows, crossed \subseteq crossed', NEW q \in RequestType, q.status \in Columns, Quiet(q.status),
         Aimed(q)
  PROVE  Aimed(q)'
  <1>1. PICK c \in Columns : c = q.status
    OBVIOUS
  <1>2. /\ \A x \in Cards(c)' : x \in Cards(c)
        /\ \A x \in Tasks : task[x].status = c => task'[x].status = c /\ Position(x)' = Position(x)
    BY <1>1, QuietColumn
  <1>3. q.after \in Tasks \cup {NoOne} /\ q.before \in Tasks \cup {NoOne}
    BY DEF RequestType
  <1>4. \A x \in Cards(c) : x \in Tasks /\ task[x].status = c
    BY DEF Cards, Column
  <1>5. /\ q.after # NoOne => q.after # q.task /\ task'[q.after].status = c /\ Position(q.after)' = Position(q.after)
        /\ q.before # NoOne => q.before # q.task /\ task'[q.before].status = c /\ Position(q.before)' = Position(q.before)
    BY <1>1, <1>2, <1>3 DEF Aimed
  <1>6. q.after = NoOne /\ q.before = NoOne => AtEnd(q)'
    BY AtEndKept DEF Aimed
  <1>7. ~q.dense => \A x \in Cards(c)' \ {q.task} : MinGap \div 2 <= Distance(Position(x)', q.position)
    BY <1>1, <1>2, <1>4 DEF Aimed
  <1>8. /\ q.after # NoOne /\ (q.dense => q.status \notin crossed') => Position(q.after)' < q.position
        /\ q.before # NoOne /\ (q.dense => q.status \notin crossed') => q.position < Position(q.before)'
        /\ q.dense => q.after # NoOne /\ q.before # NoOne
    BY <1>5 DEF Aimed
  <1>9. QED
    BY <1>1, <1>5, <1>6, <1>7, <1>8 DEF Aimed

\* The list a move has read is the quiet column still, in its order.
LEMMA OrderedKept ==
  ASSUME TypeOK, Grows, NEW q \in RequestType, q.status \in Columns, Quiet(q.status),
         q.task \in Tasks, Made(q.task), Ordered(q)
  PROVE  Ordered(q)'
  <1>1. PICK c \in Columns : c = q.status
    OBVIOUS
  <1>2. /\ \A x \in Column(c)' : x \in Column(c)
        /\ \A x \in Tasks : task[x].status = c => task'[x].status = c /\ Position(x)' = Position(x)
    BY <1>1, QuietColumn
  <1>3. q.list \in Seq(Tasks) /\ \A i \in 1..Len(q.list) : q.list[i] \in Tasks
    BY DEF RequestType
  <1>4. \A i \in 1..Len(q.list) : q.list[i] # q.task =>
          task'[q.list[i]].status = c /\ Position(q.list[i])' = Position(q.list[i])
    BY <1>1, <1>2, <1>3 DEF Ordered
  <1>5. Live(q.task)' => Live(q.task)
    BY DEF Grows, Live, Made
  <1>6. \A x \in Column(c)' \ {q.task} : \E i \in 1..Len(q.list) : q.list[i] = x
    BY <1>1, <1>2 DEF Ordered
  <1>7. Live(q.task)' => \E i \in 1..Len(q.list) : q.list[i] = q.task
    BY <1>5 DEF Ordered
  <1>8. ASSUME NEW i \in 1..Len(q.list), NEW j \in 1..Len(q.list), i < j
        PROVE  /\ q.list[i] # q.task /\ q.list[j] # q.task => Position(q.list[i])' <= Position(q.list[j])'
               /\ q.list[i] = q.task /\ q.list[j] # q.task => q.position <= Position(q.list[j])'
               /\ q.list[i] # q.task /\ q.list[j] = q.task => Position(q.list[i])' <= q.position
    BY <1>4, <1>8 DEF Ordered
  <1>9. QED
    BY <1>1, <1>4, <1>6, <1>7, <1>8 DEF Ordered

\* What the steps of others leave to a request.
Spared(s, q) ==
  /\ q.op = "create" => task'[q.task] = NoTask
  /\ project = s => project' = s /\ nextNumber' = nextNumber

\* What a request holds, whatever its column does, it holds after a step that spares it.
LEMMA HeldKept ==
  ASSUME TypeOK, Grows, NEW s \in Requests, NEW q \in RequestType, Sound(s, q), Spared(s, q)
  PROVE  CreateHolds(s, q)' /\ PlaceHolds(q)' /\ ListHolds(q)'
  <1>1. CreateHolds(s, q)'
    BY DEF Sound, CreateHolds, Spared
  <1>2. PlaceHolds(q)'
    BY DEF Sound, PlaceHolds, Grows
  <1>3. ListHolds(q)'
    <2>1. q.list \in Seq(Tasks) /\ \A i \in 1..Len(q.list) : q.list[i] \in Tasks
      BY DEF RequestType
    <2>2. QED
      BY <2>1 DEF Sound, ListHolds, Grows
  <1>4. QED
    BY <1>1, <1>2, <1>3

\* A request that is not overtaken by a step has read what is true still.
LEMMA ReadKept ==
  ASSUME TypeOK, Grows, crossed \subseteq crossed', NEW s \in Requests, NEW q \in RequestType, Sound(s, q),
         q.status \in Columns /\ q.touched = {} => Quiet(q.status)
  PROVE  ReadHolds(q)'
  <1>1. SUFFICES ASSUME q.touched = {}
                 PROVE  ReadHolds(q)'
    BY DEF ReadHolds
  <1>2. ASSUME (q.op = "create" /\ q.step = "insert") \/ q.op = "update"
        PROVE  AtEnd(q)'
    <2>1. q.status \in Columns /\ AtEnd(q)
      BY <1>1, <1>2 DEF Sound, CreateHolds, PlaceHolds, ReadHolds
    <2>2. QED
      BY <1>1, <2>1, AtEndKept
  <1>3. ASSUME q.op = "move"
        PROVE  q.status \in Columns /\ Quiet(q.status) /\ q.task \in Tasks /\ Made(q.task)
    BY <1>1, <1>3 DEF Sound, PlaceHolds
  <1>4. ASSUME q.op = "move" /\ q.step \in {"after", "before"}
        PROVE  Adjacent(q) /\ Adjacent(q)'
    <2>1. Adjacent(q)
      BY <1>1, <1>4 DEF Sound, ReadHolds
    <2>2. QED
      BY <2>1, <1>3, <1>4, AdjacentKept
  <1>5. ASSUME q.op = "move" /\ q.step = "before" /\ q.after # NoOne
        PROVE  q.above = Position(q.after)'
    <2>1. q.above = Position(q.after) /\ task[q.after].status = q.status
      BY <1>1, <1>4, <1>5 DEF Sound, ReadHolds, Adjacent
    <2>2. q.after \in Tasks
      BY <1>5 DEF RequestType
    <2>3. Position(q.after)' = Position(q.after)
      BY <2>1, <2>2, <1>3, <1>5 DEF Quiet, Position
    <2>4. QED
      BY <2>1, <2>3
  <1>6. ASSUME q.op = "move" /\ q.step \in {"place", "renumber"}
        PROVE  Aimed(q)'
    <2>1. Aimed(q)
      BY <1>1, <1>6 DEF Sound, ReadHolds
    <2>2. QED
      BY <2>1, <1>3, <1>6, AimedKept
  <1>7. ASSUME q.op = "move" /\ q.step = "renumber"
        PROVE  q.dense /\ Ordered(q)'
    <2>1. q.dense /\ Ordered(q)
      BY <1>1, <1>7 DEF Sound, ReadHolds
    <2>2. QED
      BY <2>1, <1>3, <1>7, OrderedKept
  <1>8. QED
    BY <1>2, <1>4, <1>5, <1>6, <1>7 DEF ReadHolds

\* So a request whose column is quiet, or that is overtaken already, has nothing to fear.
LEMMA KeptSound ==
  ASSUME TypeOK, Grows, crossed \subseteq crossed', NEW s \in Requests, NEW q \in RequestType,
         Sound(s, q), Spared(s, q),
         q.status \in Columns /\ q.touched = {} => Quiet(q.status)
  PROVE  Sound(s, q)'
  BY HeldKept, ReadKept DEF Sound

\* A request that is overtaken needs less to be true.
LEMMA OvertakenSound ==
  ASSUME TypeOK, Grows, NEW s \in Requests, NEW q \in RequestType, Sound(s, q), Spared(s, q),
         q.status \in Columns, NEW o, project = s => o # "create"
  PROVE  Sound(s, [q EXCEPT !.touched = @ \cup {o}])'
  <1> DEFINE n == [q EXCEPT !.touched = @ \cup {o}]
  <1>1. /\ n.op = q.op /\ n.step = q.step /\ n.status = q.status /\ n.task = q.task /\ n.to = q.to
        /\ n.number = q.number /\ n.list = q.list /\ n.touched = q.touched \cup {o}
    BY DEF RequestType
  <1> HIDE DEF n
  <1>2. CreateHolds(s, q)' /\ PlaceHolds(q)' /\ ListHolds(q)'
    BY HeldKept
  <1>3. CreateHolds(s, n)'
    <2>1. project' = s /\ q.op = "create" /\ q.step = "insert" => project = s
      BY DEF Sound, CreateHolds
    <2>2. q.status # "none"
      BY DEF Columns
    <2>3. QED
      BY <1>1, <1>2, <2>1, <2>2 DEF CreateHolds
  <1>4. PlaceHolds(n)'
    BY <1>1, <1>2 DEF PlaceHolds
  <1>5. ListHolds(n)'
    BY <1>1, <1>2 DEF ListHolds
  <1>6. ReadHolds(n)'
    BY <1>1 DEF ReadHolds
  <1>7. QED
    BY <1>3, <1>4, <1>5, <1>6 DEF Sound, n

\* Nothing stirs: the tasks are as they were.
LEMMA Still ==
  ASSUME TypeOK, task' = task
  PROVE  Grows /\ \A c : Quiet(c)
  BY DEF Grows, Quiet, Made

\* An idle request has no obligations.
LEMMA IdleSound ==
  ASSUME NEW r \in Requests
  PROVE  Sound(r, Idle)' /\ Sound(r, Idle) /\ Idle \in RequestType /\ Idle.op = "none"
  <1>1. Idle.op = "none" /\ Idle.step = "idle"
    BY DEF Idle
  <1>2. Sound(r, Idle)' /\ Sound(r, Idle)
    BY <1>1 DEF Sound, CreateHolds, PlaceHolds, ListHolds, ReadHolds
  <1>3. <<>> \in Seq(Tasks)
    OBVIOUS
  <1>4. Idle \in RequestType
    BY <1>3 DEF Idle, RequestType
  <1>5. QED
    BY <1>1, <1>2, <1>4

\* The counts and the columns where no task comes or goes.
LEMMA CountedKept ==
  ASSUME TypeOK, Grows, \A x \in Tasks : Made(x)' => Made(x), nextNumber' = nextNumber, Counted
  PROVE  Counted'
  <1>1. {x \in Tasks : Made(x)'} = {x \in Tasks : Made(x)}
    BY DEF Grows
  <1>2. {task'[t].number : t \in {x \in Tasks : Made(x)}} = {task[t].number : t \in {x \in Tasks : Made(x)}}
    BY DEF Grows
  <1>3. QED
    BY <1>1, <1>2 DEF Counted

\* The cards of a quiet column keep their distance.
LEMMA SpacedKept ==
  ASSUME TypeOK, Grows, NEW c \in Columns, Quiet(c), SpacedIn(c)
  PROVE  SpacedIn(c)'
  <1>1. /\ \A x \in Cards(c)' : x \in Cards(c)
        /\ \A x \in Tasks : task[x].status = c => Position(x)' = Position(x)
    BY QuietColumn
  <1>2. \A x \in Cards(c) : x \in Tasks /\ task[x].status = c
    BY DEF Cards, Column
  <1>3. ASSUME NEW x \in Cards(c)', NEW y \in Cards(c)', x # y
        PROVE  MinGap \div 2 <= Distance(Position(x)', Position(y)')
    <2>1. x \in Cards(c) /\ y \in Cards(c) /\ Position(x)' = Position(x) /\ Position(y)' = Position(y)
      BY <1>1, <1>2, <1>3
    <2>2. MinGap \div 2 <= Distance(Position(x), Position(y))
      BY <2>1, <1>3 DEF SpacedIn
    <2>3. QED
      BY <2>1, <2>2
  <1>4. QED
    BY <1>3 DEF SpacedIn

-----------------------------------------------------------------------------
(* Steps that change a request and no task *)

\* A step of one request that changes no task has only its own obligations to meet.
LEMMA Alone ==
  ASSUME Inv, NEW r \in Requests, NEW n \in RequestType,
         task' = task, nextNumber' = nextNumber, crossed' = crossed, writes' \in Nat, faults' \in Nat,
         row' \in [Tasks -> Requests \cup {NoOne}], project' \in Requests \cup {NoOne},
         request' = [request EXCEPT ![r] = n],
         \A s \in Requests \ {r} : project = s => project' = s,
         n.op = "create" => \A s \in Requests \ {r} : request[s].op = "create" => request[s].task # n.task,
         Sound(r, n)'
  PROVE  Inv'
  <1> USE DEF Inv
  <1>1. request'[r] = n /\ \A s \in Requests \ {r} : request'[s] = request[s]
    BY DEF TypeOK
  <1>2. TypeOK'
    BY DEF TypeOK
  <1>3. Grows /\ \A c : Quiet(c)
    BY Still
  <1>4. CreatesApart'
    BY <1>1 DEF CreatesApart
  <1>5. Counted'
    <2>1. \A x \in Tasks : Made(x)' => Made(x)
      BY DEF Made
    <2>2. QED
      BY <1>3, <2>1, CountedKept
  <1>6. Spaced'
    BY <1>3, SpacedKept DEF Spaced
  <1>7. ASSUME NEW s \in Requests, NEW q \in {request'[s]}
        PROVE  Sound(s, q)'
    <2>1. CASE s = r
      BY <1>1, <1>7, <2>1
    <2>2. CASE s # r
      <3>1. q = request[s] /\ q \in RequestType
        BY <1>1, <1>7, <2>2 DEF TypeOK
      <3>2. Sound(s, q)
        BY <3>1 DEF AllSound
      <3>3. Spared(s, q)
        BY <2>2, <3>2 DEF Spared, Sound, CreateHolds
      <3>4. QED
        BY <1>3, <3>1, <3>2, <3>3, KeptSound
    <2>3. QED
      BY <2>1, <2>2
  <1>8. AllSound'
    BY <1>7 DEF AllSound
  <1>9. QED
    BY <1>2, <1>4, <1>5, <1>6, <1>8

\* A request ends without a change.
LEMMA Ending ==
  ASSUME Inv, NEW r \in Requests, End(r), faults' \in Nat
  PROVE  Inv'
  <1> DEFINE n == Idle
  <1>1. n \in RequestType /\ n.op = "none" /\ Sound(r, n)'
    BY IdleSound
  <1>2. row' \in [Tasks -> Requests \cup {NoOne}]
    BY DEF End, Inv, TypeOK
  <1>3. project' \in Requests \cup {NoOne} /\ \A s \in Requests \ {r} : project = s => project' = s
    BY DEF End, Inv, TypeOK
  <1>4. request' = [request EXCEPT ![r] = n] /\ task' = task /\ nextNumber' = nextNumber /\ crossed' = crossed
        /\ writes' \in Nat
    BY DEF End, Inv, TypeOK
  <1> HIDE DEF n
  <1>5. n.op # "create"
    BY <1>1
  <1>6. QED
    BY <1>1, <1>2, <1>3, <1>4, <1>5, Alone

\* A request begins, or goes on in its transaction, knowing more.
LEMMA Beginning ==
  ASSUME Inv, NEW r \in Requests, NEW n \in RequestType, Begin(r, n), Sound(r, n)',
         n.op = "create" => \A s \in Requests : request[s].op = "create" => request[s].task # n.task
  PROVE  Inv'
  <1>1. writes' \in Nat /\ faults' \in Nat /\ row' \in [Tasks -> Requests \cup {NoOne}]
        /\ project' \in Requests \cup {NoOne} /\ project' = project
    BY DEF Begin, Inv, TypeOK
  <1>2. task' = task /\ nextNumber' = nextNumber /\ crossed' = crossed /\ request' = [request EXCEPT ![r] = n]
    BY DEF Begin
  <1>3. QED
    BY <1>1, <1>2, Alone

\* A request goes on, with what it knows now.
LEMMA Going ==
  ASSUME Inv, NEW r \in Requests, NEW n \in RequestType, Goes(r, n), Sound(r, n)',
         n.op = request[r].op, n.task = request[r].task,
         project' = project \/ (project = NoOne /\ project' = r)
  PROVE  Inv'
  <1>1. writes' \in Nat /\ faults' \in Nat /\ row' \in [Tasks -> Requests \cup {NoOne}]
        /\ project' \in Requests \cup {NoOne}
    BY DEF Goes, Inv, TypeOK
  <1>2. \A s \in Requests \ {r} : project = s => project' = s
    BY BoardAssumption
  <1>3. task' = task /\ nextNumber' = nextNumber /\ crossed' = crossed /\ request' = [request EXCEPT ![r] = n]
    BY DEF Goes
  <1>4. n.op = "create" => \A s \in Requests \ {r} : request[s].op = "create" => request[s].task # n.task
    BY DEF Inv, CreatesApart
  <1>5. QED
    BY <1>1, <1>2, <1>3, <1>4, Alone

\* What is true of a request before a step that changes no task is true after it.
LEMMA SoundAfter ==
  ASSUME task' = task, crossed' = crossed, nextNumber' = nextNumber, NEW r, NEW q,
         q.op = "create" /\ q.step = "insert" => project' = r,
         PlaceHolds(q), ListHolds(q), ReadHolds(q),
         q.op = "create" =>
           /\ q.task \in Tasks /\ task[q.task] = NoTask /\ q.to \in Columns
           /\ \/ q.step = "number" /\ q.status = "none" /\ q.touched = {}
              \/ /\ q.step = "insert" /\ q.status = q.to /\ q.number = nextNumber /\ "create" \notin q.touched
  PROVE  Sound(r, q)'
  <1>1. CreateHolds(r, q)'
    BY DEF CreateHolds
  <1>2. PlaceHolds(q)' /\ ListHolds(q)'
    BY DEF PlaceHolds, ListHolds, Made
  <1>3. AtEnd(q)' <=> AtEnd(q)
    BY DEF AtEnd, Column, Live, Position
  <1>4. Adjacent(q)' <=> Adjacent(q)
    BY DEF Adjacent, Cards, Column, Live, Position
  <1>5. Aimed(q)' <=> Aimed(q)
    BY <1>3 DEF Aimed, Cards, Column, Live, Position
  <1>6. Ordered(q)' <=> Ordered(q)
    BY DEF Ordered, Column, Live, Position
  <1>7. Position(q.after)' = Position(q.after)
    BY DEF Position
  <1>8. ReadHolds(q)'
    BY <1>3, <1>4, <1>5, <1>6, <1>7 DEF ReadHolds
  <1>9. QED
    BY <1>1, <1>2, <1>8 DEF Sound

-----------------------------------------------------------------------------
(* A request begins, and learns *)

\* What the invariant says of a request.
LEMMA RequestOf ==
  ASSUME Inv, NEW r \in Requests
  PROVE  request[r] \in RequestType /\ Sound(r, request[r])
  BY DEF Inv, TypeOK, AllSound

\* A create begins with a task that nobody else creates.
LEMMA StepStartCreate ==
  ASSUME Inv, NEW r \in Requests, NEW t \in Tasks, NEW c \in Columns, NEW p \in Tasks \cup {NoOne},
         StartCreate(r, t, c, p)
  PROVE  Inv'
  <1> DEFINE n == [Idle EXCEPT !.op = "create", !.step = "number", !.task = t, !.to = c, !.parent = p]
  <1>1. /\ n \in RequestType /\ n.op = "create" /\ n.step = "number" /\ n.task = t /\ n.to = c
        /\ n.status = "none" /\ n.touched = {}
    BY IdleSound DEF Idle, RequestType
  <1>2. task[t] = NoTask /\ Begin(r, n) /\ \A s \in Requests : request[s].op = "create" => request[s].task # t
    BY DEF StartCreate
  <1> HIDE DEF n
  <1>3. Sound(r, n)'
    <2>1. PlaceHolds(n) /\ ListHolds(n) /\ ReadHolds(n)
      BY <1>1 DEF PlaceHolds, ListHolds, ReadHolds
    <2>2. task' = task /\ crossed' = crossed /\ nextNumber' = nextNumber
      BY <1>2 DEF Begin
    <2>3. QED
      BY <1>1, <1>2, <2>1, <2>2, SoundAfter
  <1>4. QED
    BY <1>1, <1>2, <1>3, Beginning

\* With the row of the project a create has the next number and the end of the column to itself.
LEMMA StepTakeNumber ==
  ASSUME Inv, NEW r \in Requests, TakeNumber(r)
  PROVE  Inv'
  <1>1. PICK q \in RequestType : q = request[r]
    BY RequestOf
  <1>2. Sound(r, q) /\ q.op = "create" /\ q.step = "number" /\ q.touched = {} /\ q.to \in Columns /\ q.task \in Tasks
        /\ task[q.task] = NoTask
    BY <1>1, RequestOf DEF TakeNumber, At, Sound, CreateHolds
  <1>3. Top(q.to, NoOne) \in Int /\ \A x \in Column(q.to) \ {NoOne} : Position(x) <= Top(q.to, NoOne)
    BY TopBound DEF Inv
  <1>4. PICK n : n = Numbered(q)
    OBVIOUS
  <1>5. /\ n \in RequestType /\ n.op = "create" /\ n.step = "insert" /\ n.status = q.to /\ n.to = q.to
        /\ n.number = nextNumber /\ n.task = q.task /\ n.position = Top(q.to, NoOne) + STEP
        /\ n.touched = q.touched
    <2>1. nextNumber \in Nat /\ Top(q.to, NoOne) + STEP \in Int
      BY <1>3, BoardAssumption DEF Inv, TypeOK
    <2>2. QED
      BY <1>2, <1>4, <2>1 DEF Numbered, RequestType
  <1>6. Goes(r, n) /\ project = NoOne /\ project' = r
    BY <1>1, <1>4 DEF TakeNumber
  <1>7. AtEnd(n)
    <2>1. ASSUME NEW x \in Column(n.status) \ {n.task}
          PROVE  Position(x) + STEP <= n.position
      <3>1. x \in Tasks /\ Position(x) \in Int
        BY <2>1, InColumn DEF Inv
      <3>2. Position(x) <= Top(q.to, NoOne)
        BY <3>1, <1>3, <1>5, BoardAssumption
      <3>3. QED
        BY <3>1, <3>2, <1>3, <1>5, BoardAssumption
    <2>2. QED
      BY <2>1 DEF AtEnd
  <1>8. Sound(r, n)'
    <2>1. PlaceHolds(n) /\ ListHolds(n) /\ ReadHolds(n)
      BY <1>5, <1>7 DEF PlaceHolds, ListHolds, ReadHolds
    <2>2. task' = task /\ crossed' = crossed /\ nextNumber' = nextNumber
      BY <1>6 DEF Goes
    <2>3. "create" \notin n.touched
      BY <1>2, <1>5
    <2>4. QED
      BY <1>2, <1>5, <1>6, <2>1, <2>2, <2>3, SoundAfter
  <1>9. QED
    BY <1>1, <1>2, <1>5, <1>6, <1>8, Going

\* An update to another column begins at the end of that column.
LEMMA StepStartUpdate ==
  ASSUME Inv, NEW r \in Requests, NEW t \in Tasks, NEW c \in Columns, StartUpdate(r, t, c)
  PROVE  Inv'
  <1>1. Made(t) /\ task[t].version \in Nat
    BY MadeRow DEF StartUpdate, Live, Made, Inv
  <1>2. Top(c, NoOne) \in Int /\ \A x \in Column(c) \ {NoOne} : Position(x) <= Top(c, NoOne)
    BY TopBound DEF Inv
  <1>3. PICK n : n = [Idle EXCEPT !.op = "update", !.step = "write", !.status = c, !.task = t,
                                  !.version = task[t].version, !.position = Top(c, NoOne) + STEP]
    OBVIOUS
  <1>4. /\ n \in RequestType /\ n.op = "update" /\ n.step = "write" /\ n.status = c /\ n.task = t
        /\ n.position = Top(c, NoOne) + STEP
    <2>1. Top(c, NoOne) + STEP \in Int
      BY <1>2, BoardAssumption
    <2>2. QED
      BY <1>1, <1>3, <2>1, IdleSound DEF Idle, RequestType
  <1>5. Begin(r, n)
    BY <1>3 DEF StartUpdate
  <1>6. AtEnd(n)
    <2>1. ASSUME NEW x \in Column(n.status) \ {n.task}
          PROVE  Position(x) + STEP <= n.position
      <3>1. x \in Tasks /\ Position(x) \in Int
        BY <2>1, InColumn DEF Inv
      <3>2. Position(x) <= Top(c, NoOne)
        BY <3>1, <1>2, <1>4, BoardAssumption
      <3>3. QED
        BY <3>1, <3>2, <1>2, <1>4, BoardAssumption
    <2>2. QED
      BY <2>1 DEF AtEnd
  <1>7. Sound(r, n)'
    <2>1. PlaceHolds(n) /\ ListHolds(n) /\ ReadHolds(n)
      BY <1>1, <1>4, <1>6 DEF PlaceHolds, ListHolds, ReadHolds
    <2>2. task' = task /\ crossed' = crossed /\ nextNumber' = nextNumber
      BY <1>5 DEF Begin
    <2>3. QED
      BY <1>4, <2>1, <2>2, SoundAfter
  <1>8. n.op # "create"
    BY <1>4
  <1>9. QED
    BY <1>4, <1>5, <1>7, <1>8, Beginning

\* A move begins with neighbours that are next to each other.
LEMMA StepStartMove ==
  ASSUME Inv, NEW r \in Requests, NEW t \in Tasks, NEW c \in Columns, NEW u \in Neighbours(c, t),
         StartMove(r, t, c, u)
  PROVE  Inv'
  <1>1. Made(t) /\ task[t].version \in Nat
    BY MadeRow DEF StartMove, Live, Made, Inv
  <1> DEFINE cards == Cards(c) \ {t}
  <1>2. PICK a \in cards \cup {NoOne}, b \in cards \cup {NoOne} : u = <<a, b>>
    BY DEF Neighbours
  <1>3. /\ a # NoOne /\ b # NoOne => Position(a) < Position(b)
        /\ a # NoOne \/ b # NoOne =>
             \A x \in cards \ {a, b} :
               \/ a # NoOne /\ Position(x) <= Position(a)
               \/ b # NoOne /\ Position(b) <= Position(x)
    BY <1>2 DEF Neighbours
  <1>4. \A x \in cards : x \in Tasks /\ x # t /\ task[x].status = c /\ Position(x) \in Int
    BY InColumn DEF Cards, Inv
  <1>5. PICK n : n = [Idle EXCEPT !.op = "move", !.step = "after", !.status = c, !.task = t,
                                  !.version = task[t].version, !.after = u[1], !.before = u[2]]
    OBVIOUS
  <1>6. /\ n \in RequestType /\ n.op = "move" /\ n.step = "after" /\ n.status = c /\ n.task = t
        /\ n.after = a /\ n.before = b
    <2>1. a \in Tasks \cup {NoOne} /\ b \in Tasks \cup {NoOne} /\ u[1] = a /\ u[2] = b
      BY <1>2, <1>4
    <2>2. QED
      BY <1>1, <1>5, <2>1, IdleSound DEF Idle, RequestType
  <1>7. Begin(r, n)
    BY <1>5 DEF StartMove
  <1>8. Adjacent(n)
    <2>1. a # NoOne => a \in cards
      OBVIOUS
    <2>2. b # NoOne => b \in cards
      OBVIOUS
    <2>3. a # NoOne /\ b # NoOne /\ c \notin crossed => MinGap \div 2 <= Position(b) - Position(a)
      <3>1. SUFFICES ASSUME a # NoOne, b # NoOne, c \notin crossed
                     PROVE  MinGap \div 2 <= Position(b) - Position(a)
        OBVIOUS
      <3>2. Position(a) < Position(b) /\ a \in Cards(c) /\ b \in Cards(c) /\ Position(a) \in Int /\ Position(b) \in Int
        BY <3>1, <1>3, <1>4, <2>1, <2>2
      <3>3. a # b
        BY <3>2
      <3>4. MinGap \div 2 <= Distance(Position(a), Position(b))
        BY <3>1, <3>2, <3>3 DEF Inv, Spaced, SpacedIn
      <3>5. QED
        BY <3>2, <3>4 DEF Distance
    <2>4. QED
      BY <1>3, <1>4, <1>6, <2>1, <2>2, <2>3 DEF Adjacent
  <1>9. Sound(r, n)'
    <2>1. PlaceHolds(n) /\ ListHolds(n) /\ ReadHolds(n)
      BY <1>1, <1>6, <1>8 DEF PlaceHolds, ListHolds, ReadHolds
    <2>2. task' = task /\ crossed' = crossed /\ nextNumber' = nextNumber
      BY <1>7 DEF Begin
    <2>3. QED
      BY <1>6, <2>1, <2>2, SoundAfter
  <1>10. n.op # "create"
    BY <1>6
  <1>11. QED
    BY <1>6, <1>7, <1>9, <1>10, Beginning

\* The first neighbour is read.
LEMMA StepReadAfter ==
  ASSUME Inv, NEW r \in Requests, ReadAfter(r)
  PROVE  Inv'
  <1>1. CASE End(r) /\ UNCHANGED faults
    BY <1>1, Ending DEF Inv, TypeOK
  <1>2. CASE ~InvalidDrop(r, request[r].after) /\ Goes(r, SeenAfter(request[r])) /\ UNCHANGED project
    <2>1. PICK q \in RequestType : q = request[r]
      BY RequestOf
    <2>2. Sound(r, q) /\ q.op = "move" /\ q.step = "after"
      BY <2>1, RequestOf DEF ReadAfter, At
    <2>3. q.after # NoOne => q.after \in Tasks /\ Position(q.after) \in Int
      BY <2>1, <1>2, MadeRow DEF InvalidDrop, Live, Made, RequestType, Inv
    <2>4. PICK n : n = SeenAfter(q)
      OBVIOUS
    <2>5. /\ n \in RequestType /\ n.op = "move" /\ n.step = "before" /\ n.status = q.status /\ n.task = q.task
          /\ n.touched = q.touched /\ n.after = q.after /\ n.before = q.before
          /\ q.after # NoOne => n.above = Position(q.after)
      <3>1. PICK a : a = IF q.after = NoOne THEN 0 ELSE Position(q.after)
        OBVIOUS
      <3>2. a \in Int /\ (q.after # NoOne => a = Position(q.after))
        BY <3>1, <2>3
      <3>3. n = [q EXCEPT !.step = "before", !.above = a]
        BY <2>4, <3>1 DEF SeenAfter
      <3>4. QED
        BY <3>2, <3>3, <2>2 DEF RequestType
    <2>6. Sound(r, n)'
      <3>1. ReadHolds(n)
        BY <2>2, <2>5 DEF Sound, ReadHolds, Adjacent
      <3>2. PlaceHolds(n) /\ ListHolds(n)
        BY <2>2, <2>5 DEF Sound, PlaceHolds, ListHolds
      <3>3. task' = task /\ crossed' = crossed /\ nextNumber' = nextNumber
        BY <1>2 DEF Goes
      <3>4. QED
        BY <2>5, <3>1, <3>2, <3>3, SoundAfter
    <2>7. Goes(r, n) /\ project' = project
      BY <1>2, <2>1, <2>4
    <2>8. n \in RequestType /\ n.op = request[r].op /\ n.task = request[r].task
      BY <2>1, <2>2, <2>5
    <2>9. QED
      BY <2>6, <2>7, <2>8, Going
  <1>3. QED
    BY <1>1, <1>2 DEF ReadAfter

-----------------------------------------------------------------------------
(* Where a card is dropped *)

\* The place between the neighbours is a number.
LEMMA BetweenType ==
  ASSUME TypeOK, NEW q \in RequestType, q.before # NoOne => Position(q.before) \in Int
  PROVE  Between(q) \in Int /\ Dense(q) \in BOOLEAN
  <1>1. q.above \in Int /\ Top(q.status, q.task) \in Int
    BY TopBound DEF RequestType
  <1>2. Between(q) \in Int
    <2>1. CASE q.after # NoOne /\ q.before # NoOne
      BY <1>1, <2>1 DEF Between
    <2>2. CASE q.after # NoOne /\ q.before = NoOne
      BY <1>1, <2>2, BoardAssumption DEF Between
    <2>3. CASE q.after = NoOne /\ q.before # NoOne
      BY <2>3, BoardAssumption DEF Between
    <2>4. CASE q.after = NoOne /\ q.before = NoOne
      BY <1>1, <2>4, BoardAssumption DEF Between
    <2>5. QED
      BY <2>1, <2>2, <2>3, <2>4
  <1>3. QED
    BY <1>2 DEF Dense

\* The place for a card is between its neighbours, and away from all other cards
\* if the neighbours are not too close.
LEMMA AimedAt ==
  ASSUME TypeOK, NEW q \in RequestType, q.status \in Columns, Adjacent(q),
         q.after # NoOne => q.above = Position(q.after),
         NEW n, n.after = q.after, n.before = q.before, n.task = q.task, n.status = q.status,
         n.position = Between(q), n.dense = Dense(q)
  PROVE  Aimed(n)
  <1> DEFINE c == q.status
             a == Position(q.after)
             b == Position(q.before)
  <1>1. MinGap \in Nat /\ 4 <= MinGap /\ STEP \in Nat /\ MinGap <= STEP
    BY BoardAssumption
  <1>2. ASSUME NEW x \in Tasks, task[x].status = c
        PROVE  Position(x) \in Int
    <2>1. Made(x)
      BY <1>2, NotMade DEF Columns
    <2>2. QED
      BY <2>1, MadeRow
  <1>3. /\ q.after # NoOne => q.after # q.task /\ task[q.after].status = c /\ a \in Int
        /\ q.before # NoOne => q.before # q.task /\ task[q.before].status = c /\ b \in Int
    <2>1. q.after \in Tasks \cup {NoOne} /\ q.before \in Tasks \cup {NoOne}
      BY DEF RequestType
    <2>2. QED
      BY <2>1, <1>2 DEF Adjacent
  <1>4. \A x \in Cards(c) : x \in Column(c) /\ x \in Tasks /\ Position(x) \in Int
    BY InColumn DEF Cards
  <1>5. \A x \in Column(c) \ {q.task} :
          x \in Tasks /\ Position(x) \in Int /\ Position(x) <= Top(c, q.task) /\ Top(c, q.task) \in Int
    BY InColumn, TopBound
  <1>6. CASE q.after # NoOne /\ q.before # NoOne
    <2>1. n.position = (a + b) \div 2 /\ (n.dense <=> Distance(a, b) < MinGap)
      BY <1>6 DEF Between, Dense
    <2>2. a \in Int /\ b \in Int /\ a < b /\ (c \notin crossed => MinGap \div 2 <= b - a)
      BY <1>3, <1>6 DEF Adjacent
    <2>3. /\ ~n.dense => MinGap \div 2 <= n.position - a /\ MinGap \div 2 <= b - n.position
          /\ n.dense /\ c \notin crossed => a < n.position /\ n.position < b
          /\ n.position \in Int
      BY <2>1, <2>2, <1>1 DEF Distance
    <2>4. 2 <= MinGap \div 2
      BY <1>1
    <2>5. ~n.dense \/ c \notin crossed => a < n.position /\ n.position < b
      BY <2>2, <2>3, <2>4, <1>1
    <2>6. ASSUME ~n.dense, NEW x \in Cards(c) \ {q.task}
          PROVE  MinGap \div 2 <= Distance(Position(x), n.position)
      <3>1. Position(x) <= a \/ b <= Position(x)
        BY <1>6, <2>2, <2>6 DEF Adjacent
      <3>2. Position(x) \in Int
        BY <1>4, <2>6
      <3>3. CASE Position(x) <= a
        BY <2>2, <2>3, <2>4, <2>6, <3>2, <3>3, <1>1 DEF Distance
      <3>4. CASE b <= Position(x)
        BY <2>2, <2>3, <2>4, <2>6, <3>2, <3>4, <1>1 DEF Distance
      <3>5. QED
        BY <3>1, <3>3, <3>4
    <2>7. QED
      BY <1>3, <1>6, <2>5, <2>6 DEF Aimed
  <1>7. CASE q.after # NoOne /\ q.before = NoOne
    <2>1. n.position = a + STEP /\ ~n.dense /\ a \in Int
      BY <1>3, <1>7 DEF Between, Dense
    <2>2. ASSUME NEW x \in Cards(c) \ {q.task}
          PROVE  MinGap \div 2 <= Distance(Position(x), n.position)
      <3>1. Position(x) <= a
        BY <1>4, <1>7, <2>1, <2>2, BoardAssumption DEF Adjacent
      <3>2. QED
        BY <1>1, <1>4, <2>1, <2>2, <3>1 DEF Distance
    <2>3. QED
      BY <1>1, <1>3, <1>7, <2>1, <2>2 DEF Aimed
  <1>8. CASE q.after = NoOne /\ q.before # NoOne
    <2>1. n.position = b - STEP /\ ~n.dense /\ b \in Int
      BY <1>3, <1>8 DEF Between, Dense
    <2>2. ASSUME NEW x \in Cards(c) \ {q.task}
          PROVE  MinGap \div 2 <= Distance(Position(x), n.position)
      <3>1. b <= Position(x)
        BY <1>4, <1>8, <2>1, <2>2, BoardAssumption DEF Adjacent
      <3>2. QED
        BY <1>1, <1>4, <2>1, <2>2, <3>1 DEF Distance
    <2>3. QED
      BY <1>1, <1>3, <1>8, <2>1, <2>2 DEF Aimed
  <1>9. CASE q.after = NoOne /\ q.before = NoOne
    <2>1. n.position = Top(c, q.task) + STEP /\ ~n.dense
      BY <1>9 DEF Between, Dense
    <2>2. ASSUME NEW x \in Column(c) \ {q.task}
          PROVE  Position(x) + STEP <= n.position /\ MinGap \div 2 <= Distance(Position(x), n.position)
      BY <1>1, <1>5, <2>1, <2>2 DEF Distance
    <2>3. AtEnd(n)
      BY <2>2 DEF AtEnd
    <2>4. QED
      BY <1>4, <1>9, <2>1, <2>2, <2>3 DEF Aimed
  <1>10. QED
    BY <1>6, <1>7, <1>8, <1>9

\* The second neighbour is read: the place is between the two, or the column is dense.
LEMMA StepReadBefore ==
  ASSUME Inv, NEW r \in Requests, ReadBefore(r)
  PROVE  Inv'
  <1>1. CASE End(r) /\ UNCHANGED faults
    BY <1>1, Ending DEF Inv, TypeOK
  <1>2. CASE ~InvalidDrop(r, request[r].before) /\ Goes(r, SeenBefore(request[r])) /\ UNCHANGED project
    <2>1. PICK q \in RequestType : q = request[r]
      BY RequestOf
    <2>2. Sound(r, q) /\ q.op = "move" /\ q.step = "before"
      BY <2>1, RequestOf DEF ReadBefore, At
    <2>3. q.before # NoOne => Position(q.before) \in Int
      BY <2>1, <1>2, MadeRow DEF InvalidDrop, Live, Made, RequestType, Inv
    <2>4. Between(q) \in Int /\ Dense(q) \in BOOLEAN
      BY <2>3, BetweenType DEF Inv
    <2>5. PICK n : n = SeenBefore(q)
      OBVIOUS
    <2>6. /\ n \in RequestType /\ n.op = "move" /\ n.step = "place" /\ n.status = q.status /\ n.task = q.task
          /\ n.touched = q.touched /\ n.after = q.after /\ n.before = q.before
          /\ n.position = Between(q) /\ n.dense = Dense(q)
      BY <2>2, <2>4, <2>5 DEF SeenBefore, RequestType
    <2>7. q.touched = {} => Aimed(n)
      <3>1. q.touched = {} => q.status \in Columns /\ Adjacent(q) /\ (q.after # NoOne => q.above = Position(q.after))
        BY <2>2 DEF Sound, PlaceHolds, ReadHolds
      <3>2. QED
        BY <2>6, <3>1, AimedAt DEF Inv
    <2>8. Sound(r, n)'
      <3>1. ReadHolds(n)
        BY <2>6, <2>7 DEF ReadHolds
      <3>2. PlaceHolds(n) /\ ListHolds(n)
        BY <2>2, <2>6 DEF Sound, PlaceHolds, ListHolds
      <3>3. task' = task /\ crossed' = crossed /\ nextNumber' = nextNumber
        BY <1>2 DEF Goes
      <3>4. QED
        BY <2>6, <3>1, <3>2, <3>3, SoundAfter
    <2>9. Goes(r, n) /\ project' = project
      BY <1>2, <2>1, <2>5
    <2>10. n \in RequestType /\ n.op = request[r].op /\ n.task = request[r].task
      BY <2>1, <2>2, <2>6
    <2>11. QED
      BY <2>8, <2>9, <2>10, Going
  <1>3. QED
    BY <1>1, <1>2 DEF ReadBefore

\* A conflict, a deadlock or a failure ends a request and changes no task.
LEMMA StepEnds ==
  ASSUME Inv, NEW r \in Requests, Conflict(r) \/ Deadlock(r) \/ Fail(r)
  PROVE  Inv'
  <1>1. End(r) /\ faults' \in Nat
    BY DEF Conflict, Deadlock, Fail, Inv, TypeOK
  <1>2. QED
    BY <1>1, Ending

-----------------------------------------------------------------------------
(* A column is put in order *)

\* The board with the task of a request in its new place.
LEMMA MovedBoard ==
  ASSUME TypeOK, NEW r \in Requests, NEW q \in RequestType, q = request[r],
         q.task \in Tasks, Made(q.task), q.status \in Columns
  PROVE  /\ Moved(r) \in [Tasks -> Row \cup {NoTask}]
         /\ \A x \in Tasks \ {q.task} : Moved(r)[x] = task[x]
         /\ Moved(r)[q.task] \in Row
         /\ Moved(r)[q.task].status = q.status /\ Moved(r)[q.task].position = q.position
         /\ Moved(r)[q.task].parent = task[q.task].parent /\ Moved(r)[q.task].deleted = task[q.task].deleted
         /\ Moved(r)[q.task].number = task[q.task].number /\ Moved(r)[q.task].version = q.version + 1
  <1>1. PICK old \in Row : old = task[q.task]
    BY MadeRow
  <1>2. PICK new : new = [old EXCEPT !.status = q.status, !.position = q.position, !.version = q.version + 1]
    OBVIOUS
  <1>3. q.position \in Int /\ q.version + 1 \in Nat
    BY DEF RequestType
  <1>4. /\ new \in Row /\ new.status = q.status /\ new.position = q.position /\ new.parent = old.parent
        /\ new.deleted = old.deleted /\ new.number = old.number /\ new.version = q.version + 1
    BY <1>2, <1>3 DEF Row
  <1>5. Placed(r) = new
    BY <1>1, <1>2 DEF Placed
  <1>6. Moved(r) = [task EXCEPT ![q.task] = new]
    BY <1>5 DEF Moved
  <1>7. QED
    BY <1>1, <1>4, <1>6 DEF TypeOK

\* A move into a dense column reads it in the order it is to have.
LEMMA StepPlaceDense ==
  ASSUME Inv, NEW r \in Requests, Place(r), request[r].dense
  PROVE  Inv'
  <1>1. PICK q \in RequestType : q = request[r]
    BY RequestOf
  <1>2. Sound(r, q) /\ q.op = "move" /\ q.step = "place" /\ q.dense
    BY <1>1, RequestOf DEF Place, At
  <1>3. q.task \in Tasks /\ Made(q.task) /\ q.status \in Columns
    BY <1>2 DEF Sound, PlaceHolds
  <1>4. PICK l \in Orders(Reordered(r), Moved(r)) :
          request' = [request EXCEPT ![r] = [q EXCEPT !.step = "renumber", !.list = l, !.done = 0]]
    BY <1>1, <1>2 DEF Place
  <1>5. /\ task' = task /\ nextNumber' = nextNumber /\ project' = project /\ writes' = writes /\ faults' = faults
        /\ crossed' = crossed /\ row' = [row EXCEPT ![q.task] = r]
    BY <1>1, <1>2 DEF Place
  <1>6. Reordered(r) = Column(q.status) \cup {t \in {q.task} : Live(t)} /\ Reordered(r) \in SUBSET Tasks
    BY <1>1, <1>3 DEF Reordered, Column
  <1>7. /\ l \in SetToSeqs(Reordered(r))
        /\ \A i, j \in DOMAIN l : i < j => Moved(r)[l[i]].position <= Moved(r)[l[j]].position
    BY DEF Orders
  <1>8. /\ l \in Seq(Tasks) /\ DOMAIN l = 1..Len(l)
        /\ \A i \in 1..Len(l) : l[i] \in Reordered(r)
        /\ \A i, j \in 1..Len(l) : i # j => l[i] # l[j]
        /\ \A x \in Reordered(r) : \E i \in 1..Len(l) : l[i] = x
    BY <1>6, <1>7, Lists, LenProperties
  <1>9. /\ \A x \in Tasks \ {q.task} : Moved(r)[x].position = Position(x)
        /\ Moved(r)[q.task].position = q.position
    BY <1>1, <1>3, MovedBoard DEF Inv, Position
  <1>10. PICK n : n = [q EXCEPT !.step = "renumber", !.list = l, !.done = 0]
    OBVIOUS
  <1>11. /\ n \in RequestType /\ n.op = "move" /\ n.step = "renumber" /\ n.status = q.status /\ n.task = q.task
         /\ n.touched = q.touched /\ n.after = q.after /\ n.before = q.before /\ n.position = q.position
         /\ n.dense = q.dense /\ n.list = l
    BY <1>2, <1>8, <1>10 DEF RequestType
  <1>12. \A i \in 1..Len(l) : l[i] \in Tasks /\ Made(l[i]) /\ (l[i] # q.task => task[l[i]].status = q.status)
    BY <1>3, <1>6, <1>8 DEF Column, Live, Made
  <1>13. Ordered(n)
    <2>1. \A x \in Column(q.status) \ {q.task} : \E i \in 1..Len(l) : l[i] = x
      BY <1>6, <1>8
    <2>2. Live(q.task) => \E i \in 1..Len(l) : l[i] = q.task
      BY <1>6, <1>8
    <2>3. ASSUME NEW i \in 1..Len(l), NEW j \in 1..Len(l), i < j
          PROVE  /\ l[i] # q.task /\ l[j] # q.task => Position(l[i]) <= Position(l[j])
                 /\ l[i] = q.task /\ l[j] # q.task => q.position <= Position(l[j])
                 /\ l[i] # q.task /\ l[j] = q.task => Position(l[i]) <= q.position
      <3>1. Moved(r)[l[i]].position <= Moved(r)[l[j]].position
        BY <1>7, <1>8, <2>3
      <3>2. QED
        BY <3>1, <1>9, <1>12, <2>3
    <2>4. QED
      BY <1>11, <1>12, <2>1, <2>2, <2>3 DEF Ordered
  <1>14. Sound(r, n)'
    <2>1. q.touched = {} => Aimed(n)
      <3>1. q.touched = {} => Aimed(q)
        BY <1>2 DEF Sound, ReadHolds
      <3>2. Aimed(q) <=> Aimed(n)
        BY <1>11 DEF Aimed, AtEnd
      <3>3. QED
        BY <3>1, <3>2
    <2>2. ReadHolds(n)
      BY <1>2, <1>11, <1>13, <2>1 DEF ReadHolds
    <2>3. PlaceHolds(n)
      BY <1>3, <1>11 DEF PlaceHolds
    <2>4. ListHolds(n)
      BY <1>8, <1>11, <1>12 DEF ListHolds
    <2>5. QED
      BY <1>5, <1>11, <2>2, <2>3, <2>4, SoundAfter
  <1>15. row' \in [Tasks -> Requests \cup {NoOne}]
    BY <1>5 DEF Inv, TypeOK
  <1>16. writes' \in Nat /\ faults' \in Nat /\ project' \in Requests \cup {NoOne}
    BY <1>5 DEF Inv, TypeOK
  <1>17. request' = [request EXCEPT ![r] = n] /\ n \in RequestType /\ n.op # "create"
    BY <1>4, <1>10, <1>11
  <1>18. QED
    BY <1>5, <1>14, <1>15, <1>16, <1>17, Alone

\* A row of the list is written: no other request sees it before the commit.
LEMMA StepRenumber ==
  ASSUME Inv, NEW r \in Requests, Renumber(r)
  PROVE  Inv'
  <1>1. PICK q \in RequestType : q = request[r]
    BY RequestOf
  <1>2. Sound(r, q) /\ q.op = "move" /\ q.step = "renumber" /\ q.done + 1 <= Len(q.list)
    BY <1>1, RequestOf DEF Renumber, At
  <1>3. q.list \in Seq(Tasks) /\ q.done + 1 \in Nat /\ q.list[q.done + 1] \in Tasks
    <2>1. q.list \in Seq(Tasks) /\ q.done \in Nat
      BY DEF RequestType
    <2>2. QED
      BY <1>2, <2>1
  <1>4. PICK n : n = [q EXCEPT !.done = q.done + 1]
    OBVIOUS
  <1>5. /\ n \in RequestType /\ n.op = "move" /\ n.step = "renumber" /\ n.status = q.status /\ n.task = q.task
        /\ n.touched = q.touched /\ n.after = q.after /\ n.before = q.before /\ n.position = q.position
        /\ n.dense = q.dense /\ n.list = q.list
    BY <1>2, <1>3, <1>4 DEF RequestType
  <1>6. request' = [request EXCEPT ![r] = n]
    BY <1>1, <1>4 DEF Renumber
  <1>7. /\ task' = task /\ nextNumber' = nextNumber /\ project' = project /\ writes' = writes /\ faults' = faults
        /\ crossed' = crossed /\ row' = [row EXCEPT ![q.list[q.done + 1]] = r]
    BY <1>1 DEF Renumber
  <1>8. Sound(r, n)'
    <2>1. ReadHolds(n)
      <3>1. Aimed(q) <=> Aimed(n)
        BY <1>5 DEF Aimed, AtEnd
      <3>2. Ordered(q) <=> Ordered(n)
        BY <1>5 DEF Ordered
      <3>3. QED
        BY <1>2, <1>5, <3>1, <3>2 DEF Sound, ReadHolds
    <2>2. PlaceHolds(n) /\ ListHolds(n)
      BY <1>2, <1>5 DEF Sound, PlaceHolds, ListHolds
    <2>3. QED
      BY <1>5, <1>7, <2>1, <2>2, SoundAfter
  <1>9. row' \in [Tasks -> Requests \cup {NoOne}]
    BY <1>3, <1>7 DEF Inv, TypeOK
  <1>10. writes' \in Nat /\ faults' \in Nat /\ project' \in Requests \cup {NoOne} /\ n.op # "create"
    BY <1>5, <1>7 DEF Inv, TypeOK
  <1>11. QED
    BY <1>5, <1>6, <1>7, <1>8, <1>9, <1>10, Alone

-----------------------------------------------------------------------------
(* A transaction commits *)

\* A commit that changes only some columns: who has read them is overtaken by it.
LEMMA Committing ==
  ASSUME Inv, NEW r \in Requests, NEW new \in [Tasks -> Row \cup {NoTask}], NEW columns \in SUBSET Columns,
         Commits(r, new, columns), request[r].op \in {"create", "update", "move"},
         Grows, \A c \in Columns \ columns : Quiet(c), nextNumber' \in Nat \ {0}, Counted',
         \A x \in Tasks : Made(x)' => Made(x) \/ (request[r].op = "create" /\ x = request[r].task),
         request[r].op = "create" => project = r,
         request[r].op # "create" => nextNumber' = nextNumber,
         ~Overtaken(r) => \A c \in columns \ crossed : SpacedIn(c)'
  PROVE  Inv'
  <1>1. PICK o \in {"create", "update", "move"} : o = request[r].op
    OBVIOUS
  <1>2. /\ task' = new /\ writes' = writes /\ faults' = faults
        /\ crossed' = (IF Overtaken(r) THEN crossed \cup columns ELSE crossed)
        /\ project' = (IF project = r THEN NoOne ELSE project)
        /\ row' = [t \in Tasks |-> IF row[t] = r THEN NoOne ELSE row[t]]
        /\ request' \in [Requests -> UNION {{request'[s]} : s \in Requests}]
        /\ request'[r] = Idle
        /\ \A s \in Requests \ {r} :
             request'[s] = IF request[s].status \in columns THEN [request[s] EXCEPT !.touched = @ \cup {o}] ELSE request[s]
    BY <1>1 DEF Commits
  <1>3. ASSUME NEW s \in Requests \ {r}, NEW q \in RequestType, q = request[s]
        PROVE  /\ [q EXCEPT !.touched = @ \cup {o}] \in RequestType
               /\ [q EXCEPT !.touched = @ \cup {o}].op = q.op
               /\ [q EXCEPT !.touched = @ \cup {o}].task = q.task
    BY DEF RequestType
  <1>4. \A s \in Requests : request'[s] \in RequestType
    BY <1>2, <1>3, IdleSound, RequestOf
  <1>5. TypeOK'
    <2>1. request' \in [Requests -> RequestType]
      BY <1>2, <1>4
    <2>2. crossed' \subseteq Columns /\ project' \in Requests \cup {NoOne}
      BY <1>2 DEF Inv, TypeOK
    <2>3. row' \in [Tasks -> Requests \cup {NoOne}]
      BY <1>2 DEF Inv, TypeOK
    <2>4. writes' \in Nat /\ faults' \in Nat /\ task' \in [Tasks -> Row \cup {NoTask}]
      BY <1>2 DEF Inv, TypeOK
    <2>5. QED
      BY <2>1, <2>2, <2>3, <2>4 DEF TypeOK
  <1>6. crossed \subseteq crossed'
    BY <1>2
  <1>7. ASSUME NEW s \in Requests \ {r}
        PROVE  request'[s].op = request[s].op /\ request'[s].task = request[s].task
    <2>1. PICK p \in RequestType : p = request[s]
      BY RequestOf
    <2>2. request'[s] = p \/ request'[s] = [p EXCEPT !.touched = @ \cup {o}]
      BY <1>2, <1>7, <2>1
    <2>3. QED
      BY <2>1, <2>2 DEF RequestType
  <1>8. CreatesApart'
    <2>1. request'[r].op # "create"
      BY <1>2, IdleSound
    <2>2. CreatesApart
      BY DEF Inv
    <2>3. QED
      BY <1>7, <2>1, <2>2 DEF CreatesApart
  <1>9. Spaced'
    <2>1. SUFFICES ASSUME NEW c \in Columns, c \notin crossed'
                   PROVE  SpacedIn(c)'
      BY DEF Spaced
    <2>2. CASE c \in columns
      BY <1>2, <2>1, <2>2
    <2>3. CASE c \notin columns
      <3>1. SpacedIn(c) /\ Quiet(c)
        BY <1>6, <2>1, <2>3 DEF Inv, Spaced
      <3>2. QED
        BY <2>1, <3>1, SpacedKept DEF Inv
    <2>4. QED
      BY <2>2, <2>3
  <1>10. ASSUME NEW s \in Requests \ {r}, NEW q \in RequestType, q = request[s]
         PROVE  Sound(s, q) /\ Spared(s, q)
    <2>1. Sound(s, q)
      BY <1>10, RequestOf
    <2>2. q.op = "create" => task'[q.task] = NoTask
      <3>1. SUFFICES ASSUME q.op = "create"
                     PROVE  task'[q.task] = NoTask
        OBVIOUS
      <3>2. q.task \in Tasks /\ task[q.task] = NoTask
        BY <2>1, <3>1 DEF Sound, CreateHolds
      <3>3. request[r].op = "create" => q.task # request[r].task
        BY <1>10, <3>1 DEF Inv, CreatesApart
      <3>4. QED
        BY <3>2, <3>3 DEF Made
    <2>3. project = s => project' = s /\ nextNumber' = nextNumber
      BY <1>2, <1>10
    <2>4. QED
      BY <2>1, <2>2, <2>3 DEF Spared
  <1>11. ASSUME NEW s \in Requests, NEW q \in {request'[s]}
         PROVE  Sound(s, q)'
    <2>1. CASE s = r
      BY <1>2, <1>11, <2>1, IdleSound
    <2>2. CASE s # r
      <3>1. PICK p \in RequestType : p = request[s]
        BY RequestOf
      <3>2. Sound(s, p) /\ Spared(s, p)
        BY <1>10, <2>2, <3>1
      <3>3. CASE p.status \in columns
        <4>1. q = [p EXCEPT !.touched = @ \cup {o}]
          BY <1>2, <1>11, <2>2, <3>1, <3>3
        <4>2. project = s => o # "create"
          BY <1>1, <2>2
        <4>3. Sound(s, [p EXCEPT !.touched = @ \cup {o}])'
          BY <3>1, <3>2, <3>3, <4>2, OvertakenSound DEF Inv
        <4>4. QED
          BY <4>1, <4>3
      <3>4. CASE p.status \notin columns
        <4>1. q = p
          BY <1>2, <1>11, <2>2, <3>1, <3>4
        <4>2. p.status \in Columns /\ p.touched = {} => Quiet(p.status)
          BY <3>4
        <4>3. Sound(s, p)'
          BY <1>6, <3>1, <3>2, <4>2, KeptSound DEF Inv
        <4>4. QED
          BY <4>1, <4>3
      <3>5. QED
        BY <3>3, <3>4
    <2>3. QED
      BY <2>1, <2>2
  <1>12. AllSound'
    BY <1>11 DEF AllSound
  <1>13. QED
    BY <1>5, <1>8, <1>9, <1>12 DEF Inv

-----------------------------------------------------------------------------
(* Transactions that write *)

\* One task comes to a place in a column, away from the other cards there.
LEMMA OnePlaced ==
  ASSUME TypeOK, NEW t \in Tasks, NEW to \in Columns, NEW p \in Int,
         \A x \in Tasks \ {t} : task'[x] = task[x], task'[t].status = to, task'[t].position = p,
         \A x \in Cards(to) \ {t} : MinGap \div 2 <= Distance(Position(x), p),
         NEW c \in Columns, SpacedIn(c)
  PROVE  SpacedIn(c)'
  <1>1. \A x \in Cards(c)' \ {t} : x \in Cards(c) /\ Position(x)' = Position(x) /\ Position(x) \in Int
    <2>1. ASSUME NEW x \in Cards(c)' \ {t}
          PROVE  x \in Cards(c) /\ Position(x)' = Position(x)
      BY <2>1 DEF Cards, Column, Live, Position
    <2>2. \A x \in Cards(c) : Position(x) \in Int
      BY InColumn DEF Cards
    <2>3. QED
      BY <2>1, <2>2
  <1>2. t \in Cards(c)' => c = to /\ Position(t)' = p
    BY DEF Cards, Column, Position
  <1>3. ASSUME NEW x \in Cards(c)', NEW y \in Cards(c)', x # y
        PROVE  MinGap \div 2 <= Distance(Position(x)', Position(y)')
    <2>1. CASE x # t /\ y # t
      <3>1. x \in Cards(c) /\ y \in Cards(c) /\ Position(x)' = Position(x) /\ Position(y)' = Position(y)
        BY <1>1, <1>3, <2>1
      <3>2. QED
        BY <3>1, <1>3 DEF SpacedIn
    <2>2. CASE x = t
      <3>1. /\ y \in Cards(to) \ {t} /\ Position(y)' = Position(y) /\ Position(y) \in Int
            /\ Position(x)' = p
        BY <1>1, <1>2, <1>3, <2>2
      <3>2. MinGap \div 2 <= Distance(Position(y), p)
        BY <3>1
      <3>3. Distance(Position(y), p) = Distance(p, Position(y))
        BY <3>1 DEF Distance
      <3>4. QED
        BY <3>1, <3>2, <3>3
    <2>3. CASE y = t
      <3>1. x \in Cards(to) \ {t} /\ Position(x)' = Position(x) /\ Position(y)' = p
        BY <1>1, <1>2, <1>3, <2>3
      <3>2. MinGap \div 2 <= Distance(Position(x), p)
        BY <3>1
      <3>3. QED
        BY <3>1, <3>2
    <2>4. QED
      BY <2>1, <2>2, <2>3
  <1>4. QED
    BY <1>3 DEF SpacedIn

\* The end of a column is away from all cards.
LEMMA EndIsAway ==
  ASSUME TypeOK, NEW q \in RequestType, AtEnd(q)
  PROVE  \A x \in Cards(q.status) \ {q.task} : MinGap \div 2 <= Distance(Position(x), q.position)
  <1>1. ASSUME NEW x \in Cards(q.status) \ {q.task}
        PROVE  MinGap \div 2 <= Distance(Position(x), q.position)
    <2>1. Position(x) \in Int /\ Position(x) + STEP <= q.position
      BY <1>1, InColumn DEF Cards, AtEnd
    <2>2. q.position \in Int
      BY DEF RequestType
    <2>3. QED
      BY <2>1, <2>2, BoardAssumption DEF Distance
  <1>2. QED
    BY <1>1

\* A create inserts its task with the next number, at the end of the column.
LEMMA StepInsert ==
  ASSUME Inv, NEW r \in Requests, Insert(r)
  PROVE  Inv'
  <1>1. PICK q \in RequestType : q = request[r]
    BY RequestOf
  <1>2. /\ Sound(r, q) /\ q.op = "create" /\ q.step = "insert" /\ q.task \in Tasks /\ task[q.task] = NoTask
        /\ q.to \in Columns /\ q.status = q.to /\ project = r /\ q.number = nextNumber /\ "create" \notin q.touched
    BY <1>1, RequestOf DEF Insert, At, Sound, CreateHolds
  <1>3. PICK made : made = [status |-> q.to, position |-> q.position, parent |-> q.parent,
                            deleted |-> FALSE, version |-> 1, number |-> q.number]
    OBVIOUS
  <1>4. made \in Row /\ made.status = q.to /\ made.position = q.position /\ made.number = q.number
    BY <1>2, <1>3 DEF Row, RequestType
  <1>5. PICK new : new = [task EXCEPT ![q.task] = made]
    OBVIOUS
  <1>6. /\ new \in [Tasks -> Row \cup {NoTask}] /\ new[q.task] = made
        /\ \A x \in Tasks \ {q.task} : new[x] = task[x]
    BY <1>2, <1>4, <1>5 DEF Inv, TypeOK
  <1>7. Commits(r, new, {q.to}) /\ nextNumber' = nextNumber + 1
    BY <1>1, <1>2, <1>3, <1>5 DEF Insert
  <1>8. task' = new
    BY <1>7 DEF Commits
  <1>9. made # NoTask
    BY <1>2, <1>4 DEF NoTask, Columns
  <1>10. Grows
    BY <1>2, <1>6, <1>8 DEF Grows, Made
  <1>11. ASSUME NEW c \in Columns \ {q.to}
         PROVE  Quiet(c)
    <2>1. task[q.task].status # c /\ task'[q.task].status # c
      BY <1>2, <1>4, <1>6, <1>8, <1>11 DEF NoTask, Columns
    <2>2. QED
      BY <1>6, <1>8, <2>1 DEF Quiet
  <1>12. nextNumber \in Nat \ {0}
    BY DEF Inv, TypeOK
  <1>13. Counted'
    <2> DEFINE M == {x \in Tasks : Made(x)}
    <2>1. {x \in Tasks : Made(x)'} = M \cup {q.task} /\ q.task \notin M
      BY <1>2, <1>6, <1>8, <1>9 DEF Made
    <2>2. \A x \in M : task'[x].number = task[x].number
      BY <1>10 DEF Grows
    <2>3. task'[q.task].number = nextNumber
      BY <1>2, <1>4, <1>6, <1>8
    <2>4. {task[t].number : t \in M} = 1..(nextNumber - 1) /\ Cardinality(M) = nextNumber - 1
      BY DEF Inv, Counted
    <2>5. {task'[t].number : t \in {x \in Tasks : Made(x)'}} = 1..(nextNumber' - 1)
      <3>1. {task'[t].number : t \in {x \in Tasks : Made(x)'}} = {task[t].number : t \in M} \cup {nextNumber}
        BY <2>1, <2>2, <2>3
      <3>2. 1..(nextNumber - 1) \cup {nextNumber} = 1..nextNumber
        BY <1>12
      <3>3. nextNumber' - 1 = nextNumber
        BY <1>7, <1>12
      <3>4. {task[t].number : t \in M} \cup {nextNumber} = 1..nextNumber
        BY <2>4, <3>2
      <3>5. QED
        BY <3>1, <3>3, <3>4
    <2>6. Cardinality({x \in Tasks : Made(x)'}) = nextNumber' - 1
      <3>1. IsFiniteSet(M)
        <4>1. M \in SUBSET Tasks
          OBVIOUS
        <4>2. QED
          BY <4>1, BoardAssumption, FS_Subset
      <3> HIDE DEF M
      <3>2. Cardinality(M \cup {q.task}) = Cardinality(M) + 1
        BY <2>1, <3>1, FS_AddElement
      <3>3. Cardinality(M \cup {q.task}) = nextNumber' - 1
        BY <1>7, <1>12, <2>4, <3>2
      <3>4. QED
        BY <2>1, <3>3
    <2>7. QED
      BY <2>5, <2>6 DEF Counted
  <1>14. \A x \in Tasks : Made(x)' => Made(x) \/ x = q.task
    BY <1>6, <1>8 DEF Made
  <1>15. ~Overtaken(r) => \A c \in {q.to} \ crossed : SpacedIn(c)'
    <2>1. SUFFICES ASSUME ~Overtaken(r), q.to \notin crossed
                   PROVE  SpacedIn(q.to)'
      OBVIOUS
    <2>2. q.touched = {}
      BY <1>1, <1>2, <2>1 DEF Overtaken
    <2>3. \A x \in Cards(q.to) \ {q.task} : MinGap \div 2 <= Distance(Position(x), q.position)
      BY <1>2, <2>2, EndIsAway DEF Sound, ReadHolds, Inv
    <2>4. SpacedIn(q.to)
      BY <1>2, <2>1 DEF Inv, Spaced
    <2>5. q.position \in Int
      BY DEF RequestType
    <2>6. QED
      BY <1>2, <1>4, <1>6, <1>8, <2>3, <2>4, <2>5, OnePlaced DEF Inv
  <1>16. nextNumber' \in Nat \ {0} /\ {q.to} \in SUBSET Columns
    BY <1>2, <1>7, <1>12
  <1>17. request[r].op = "create" /\ request[r].task = q.task
    BY <1>1, <1>2
  <1>18. QED
    BY <1>2, <1>6, <1>7, <1>10, <1>11, <1>13, <1>14, <1>15, <1>16, <1>17, Committing

\* A task is written in its new place.
LEMMA Placing ==
  ASSUME Inv, NEW r \in Requests, NEW q \in RequestType, q = request[r], q.op \in {"update", "move"},
         Commits(r, Moved(r), {q.status, task[q.task].status}), nextNumber' = nextNumber,
         q.touched = {} => \A x \in Cards(q.status) \ {q.task} : MinGap \div 2 <= Distance(Position(x), q.position)
  PROVE  Inv'
  <1>1. q.task \in Tasks /\ Made(q.task) /\ q.status \in Columns
    BY RequestOf DEF Sound, PlaceHolds
  <1>2. PICK new : new = Moved(r)
    OBVIOUS
  <1>3. PICK old \in Columns : old = task[q.task].status
    BY <1>1, MadeRow DEF Inv
  <1>4. /\ new \in [Tasks -> Row \cup {NoTask}] /\ \A x \in Tasks \ {q.task} : new[x] = task[x]
        /\ new[q.task] \in Row /\ new[q.task].status = q.status /\ new[q.task].position = q.position
        /\ new[q.task].parent = task[q.task].parent /\ new[q.task].deleted = task[q.task].deleted
        /\ new[q.task].number = task[q.task].number
    BY <1>1, <1>2, MovedBoard DEF Inv
  <1>5. Commits(r, new, {q.status, old})
    BY <1>2, <1>3
  <1>6. task' = new
    BY <1>5 DEF Commits
  <1>7. new[q.task] # NoTask
    <2>1. new[q.task].status # "none"
      BY <1>1, <1>4 DEF Columns
    <2>2. QED
      BY <2>1 DEF NoTask
  <1>8. Grows
    BY <1>4, <1>6, <1>7 DEF Grows, Made
  <1>9. ASSUME NEW c \in Columns \ {q.status, old}
        PROVE  Quiet(c)
    BY <1>3, <1>4, <1>6, <1>9 DEF Quiet
  <1>10. \A x \in Tasks : Made(x)' => Made(x)
    BY <1>1, <1>4, <1>6 DEF Made
  <1>11. Counted'
    BY <1>8, <1>10, CountedKept DEF Inv
  <1>12. ~Overtaken(r) => \A c \in {q.status, old} \ crossed : SpacedIn(c)'
    <2>1. SUFFICES ASSUME ~Overtaken(r), NEW c \in {q.status, old} \ crossed
                   PROVE  SpacedIn(c)'
      OBVIOUS
    <2>2. q.touched = {}
      BY <2>1 DEF Overtaken
    <2>3. c \in Columns /\ SpacedIn(c)
      BY <1>1, <2>1 DEF Inv, Spaced
    <2>4. q.position \in Int
      BY DEF RequestType
    <2>5. QED
      BY <1>1, <1>4, <1>6, <2>2, <2>3, <2>4, OnePlaced DEF Inv
  <1>13. nextNumber' \in Nat \ {0} /\ {q.status, old} \in SUBSET Columns /\ request[r].op # "create"
         /\ request[r].op \in {"create", "update", "move"}
    BY <1>1 DEF Inv, TypeOK
  <1>14. QED
    BY <1>4, <1>5, <1>8, <1>9, <1>10, <1>11, <1>12, <1>13, Committing

\* An update puts its task at the end of the other column.
LEMMA StepUpdate ==
  ASSUME Inv, NEW r \in Requests, Update(r)
  PROVE  Inv'
  <1>1. PICK q \in RequestType : q = request[r]
    BY RequestOf
  <1>2. Sound(r, q) /\ q.op = "update"
    BY <1>1, RequestOf DEF Update, At
  <1>3. q.touched = {} => \A x \in Cards(q.status) \ {q.task} : MinGap \div 2 <= Distance(Position(x), q.position)
    BY <1>2, EndIsAway DEF Sound, ReadHolds, Inv
  <1>4. Commits(r, Moved(r), {q.status, task[q.task].status}) /\ nextNumber' = nextNumber
    BY <1>1 DEF Update
  <1>5. q.op \in {"update", "move"}
    BY <1>2
  <1>6. QED
    BY <1>1, <1>3, <1>4, <1>5, Placing

\* A move puts its task between the neighbours.
LEMMA StepPlace ==
  ASSUME Inv, NEW r \in Requests, Place(r), ~request[r].dense
  PROVE  Inv'
  <1>1. PICK q \in RequestType : q = request[r]
    BY RequestOf
  <1>2. Sound(r, q) /\ q.op = "move" /\ q.step = "place" /\ ~q.dense
    BY <1>1, RequestOf DEF Place, At
  <1>3. q.touched = {} => \A x \in Cards(q.status) \ {q.task} : MinGap \div 2 <= Distance(Position(x), q.position)
    BY <1>2 DEF Sound, ReadHolds, Aimed
  <1>4. Commits(r, Moved(r), {q.status, task[q.task].status}) /\ nextNumber' = nextNumber
    BY <1>1, <1>2 DEF Place
  <1>5. q.op \in {"update", "move"}
    BY <1>2
  <1>6. QED
    BY <1>1, <1>3, <1>4, <1>5, Placing

\* One place after another.
LEMMA Multiples ==
  ASSUME NEW i \in Nat, NEW j \in Nat, i < j, NEW k \in Nat
  PROVE  i * k \in Nat /\ j * k \in Nat /\ i * k + k <= j * k
  <1>1. PICK d \in Nat : j = i + 1 + d
    <2>1. j - i - 1 \in Nat /\ j = i + 1 + (j - i - 1)
      OBVIOUS
    <2>2. QED
      BY <2>1
  <1>2. j * k = i * k + k + d * k /\ d * k \in Nat /\ i * k \in Nat
    BY <1>1
  <1>3. QED
    BY <1>2

\* What a list of tasks is in its order.
LEMMA OrderedBoard ==
  ASSUME NEW board \in [Tasks -> Row \cup {NoTask}], NEW list \in Seq(Tasks),
         \A i \in 1..Len(list) : board[list[i]] \in Row,
         \A i, j \in 1..Len(list) : i # j => list[i] # list[j]
  PROVE  /\ InOrder(list, board) \in [Tasks -> Row \cup {NoTask}]
         /\ \A x \in Tasks : (\A i \in 1..Len(list) : list[i] # x) => InOrder(list, board)[x] = board[x]
         /\ \A i \in 1..Len(list) :
              /\ InOrder(list, board)[list[i]] \in Row
              /\ InOrder(list, board)[list[i]].position = i * STEP
              /\ InOrder(list, board)[list[i]].status = board[list[i]].status
              /\ InOrder(list, board)[list[i]].parent = board[list[i]].parent
              /\ InOrder(list, board)[list[i]].deleted = board[list[i]].deleted
              /\ InOrder(list, board)[list[i]].number = board[list[i]].number
              /\ InOrder(list, board)[list[i]].version = board[list[i]].version
  <1>1. DOMAIN list = 1..Len(list) /\ \A i \in 1..Len(list) : list[i] \in Tasks /\ i \in Nat
    BY LenProperties
  <1>2. ToSet(list) = {list[i] : i \in 1..Len(list)}
    BY <1>1 DEF ToSet
  <1>3. ASSUME NEW x \in Tasks, \A i \in 1..Len(list) : list[i] # x
        PROVE  InOrder(list, board)[x] = board[x]
    BY <1>2, <1>3 DEF InOrder
  <1>4. ASSUME NEW i \in 1..Len(list)
        PROVE  /\ InOrder(list, board)[list[i]] \in Row
               /\ InOrder(list, board)[list[i]].position = i * STEP
               /\ InOrder(list, board)[list[i]].status = board[list[i]].status
               /\ InOrder(list, board)[list[i]].parent = board[list[i]].parent
               /\ InOrder(list, board)[list[i]].deleted = board[list[i]].deleted
               /\ InOrder(list, board)[list[i]].number = board[list[i]].number
               /\ InOrder(list, board)[list[i]].version = board[list[i]].version
    <2>1. PICK x \in Tasks : x = list[i]
      BY <1>1
    <2>2. PICK p : p = CHOOSE j \in DOMAIN list : list[j] = x
      OBVIOUS
    <2>3. p = i
      <3>1. p \in DOMAIN list /\ list[p] = x
        BY <1>1, <2>1, <2>2
      <3>2. QED
        BY <1>1, <2>1, <3>1
    <2>4. x \in ToSet(list)
      BY <1>2, <2>1
    <2>5. InOrder(list, board)[x] = [board[x] EXCEPT !.position = p * STEP]
      BY <2>2, <2>4 DEF InOrder
    <2>6. PICK old \in Row : old = board[x]
      BY <2>1
    <2>7. p * STEP \in Int
      BY <1>1, <2>3, BoardAssumption
    <2>8. PICK k \in Int : k = p * STEP
      BY <2>7
    <2>9. PICK new : new = [old EXCEPT !.position = k]
      OBVIOUS
    <2>10. /\ new \in Row /\ new.position = k /\ new.status = old.status /\ new.parent = old.parent
           /\ new.deleted = old.deleted /\ new.number = old.number /\ new.version = old.version
      BY <2>9 DEF Row
    <2>11. InOrder(list, board)[x] = new
      BY <2>5, <2>6, <2>8, <2>9
    <2>12. QED
      BY <2>1, <2>3, <2>6, <2>8, <2>10, <2>11
  <1>5. InOrder(list, board) \in [Tasks -> Row \cup {NoTask}]
    <2>1. ASSUME NEW x \in Tasks
          PROVE  InOrder(list, board)[x] \in Row \cup {NoTask}
      <3>1. CASE \E i \in 1..Len(list) : list[i] = x
        BY <1>4, <3>1
      <3>2. CASE \A i \in 1..Len(list) : list[i] # x
        BY <1>3, <3>2
      <3>3. QED
        BY <3>1, <3>2
    <2>2. \E f : InOrder(list, board) = [t \in Tasks |-> f[t]]
      <3>1. InOrder(list, board) = [t \in Tasks |-> InOrder(list, board)[t]]
        BY DEF InOrder
      <3>2. QED
        BY <3>1
    <2>3. QED
      BY <2>1, <2>2
  <1>6. QED
    BY <1>3, <1>4, <1>5

\* A move commits the order: the cards of the list get one place after another.
LEMMA StepRenumbered ==
  ASSUME Inv, NEW r \in Requests, Renumbered(r)
  PROVE  Inv'
  <1>1. PICK q \in RequestType : q = request[r]
    BY RequestOf
  <1>2. Sound(r, q) /\ q.op = "move" /\ q.step = "renumber"
    BY <1>1, RequestOf DEF Renumbered, At
  <1>3. /\ q.task \in Tasks /\ Made(q.task) /\ q.status \in Columns
        /\ \A i \in 1..Len(q.list) : Made(q.list[i])
        /\ \A i, j \in 1..Len(q.list) : i # j => q.list[i] # q.list[j]
    BY <1>2 DEF Sound, PlaceHolds, ListHolds
  <1>4. q.list \in Seq(Tasks) /\ DOMAIN q.list = 1..Len(q.list) /\ \A i \in 1..Len(q.list) : q.list[i] \in Tasks
    BY LenProperties DEF RequestType
  <1>5. PICK moved : moved = Moved(r)
    OBVIOUS
  <1>6. /\ moved \in [Tasks -> Row \cup {NoTask}] /\ \A x \in Tasks \ {q.task} : moved[x] = task[x]
        /\ moved[q.task] \in Row /\ moved[q.task].status = q.status
        /\ moved[q.task].parent = task[q.task].parent /\ moved[q.task].deleted = task[q.task].deleted
        /\ moved[q.task].number = task[q.task].number
    BY <1>1, <1>3, <1>5, MovedBoard DEF Inv
  <1>7. \A i \in 1..Len(q.list) : moved[q.list[i]] \in Row
    BY <1>3, <1>4, <1>6, MadeRow DEF Inv
  <1>8. PICK new : new = InOrder(q.list, moved)
    OBVIOUS
  <1>9. /\ new \in [Tasks -> Row \cup {NoTask}]
        /\ \A x \in Tasks : (\A i \in 1..Len(q.list) : q.list[i] # x) => new[x] = moved[x]
        /\ \A i \in 1..Len(q.list) :
             /\ new[q.list[i]] \in Row /\ new[q.list[i]].position = i * STEP
             /\ new[q.list[i]].status = moved[q.list[i]].status /\ new[q.list[i]].parent = moved[q.list[i]].parent
             /\ new[q.list[i]].deleted = moved[q.list[i]].deleted /\ new[q.list[i]].number = moved[q.list[i]].number
    BY <1>3, <1>4, <1>6, <1>7, <1>8, OrderedBoard
  <1>10. PICK columns : columns = {q.status, task[q.task].status} \cup {task[t].status : t \in ToSet(q.list)}
    OBVIOUS
  <1>11. Commits(r, new, columns) /\ nextNumber' = nextNumber
    BY <1>1, <1>5, <1>8, <1>10 DEF Renumbered
  <1>12. task' = new
    BY <1>11 DEF Commits
  <1>13. /\ q.status \in columns /\ task[q.task].status \in columns
         /\ \A i \in 1..Len(q.list) : task[q.list[i]].status \in columns
         /\ \A c \in columns : c = q.status \/ c = task[q.task].status
                                 \/ \E i \in 1..Len(q.list) : c = task[q.list[i]].status
    BY <1>4, <1>10 DEF ToSet
  <1>14. columns \in SUBSET Columns
    BY <1>3, <1>4, <1>13, MadeRow DEF Inv
  <1>15. \A x \in Tasks : Made(x) =>
           /\ new[x] \in Row /\ new[x].number = task[x].number /\ new[x].parent = task[x].parent
           /\ new[x].deleted = task[x].deleted
           /\ x # q.task => new[x].status = task[x].status
    <2>1. SUFFICES ASSUME NEW x \in Tasks, Made(x)
                   PROVE  /\ new[x] \in Row /\ new[x].number = task[x].number /\ new[x].parent = task[x].parent
                          /\ new[x].deleted = task[x].deleted
                          /\ x # q.task => new[x].status = task[x].status
      OBVIOUS
    <2>2. /\ moved[x] \in Row /\ moved[x].number = task[x].number /\ moved[x].parent = task[x].parent
          /\ moved[x].deleted = task[x].deleted
          /\ x # q.task => moved[x].status = task[x].status
      BY <1>6, <2>1, MadeRow DEF Inv
    <2>3. CASE \E i \in 1..Len(q.list) : q.list[i] = x
      BY <1>9, <2>2, <2>3
    <2>4. CASE \A i \in 1..Len(q.list) : q.list[i] # x
      BY <1>9, <2>1, <2>2, <2>4
    <2>5. QED
      BY <2>3, <2>4
  <1>16. \A x \in Tasks : ~Made(x) => new[x] = task[x]
    BY <1>3, <1>4, <1>6, <1>9
  <1>17. NoTask \notin Row
    BY DEF NoTask, Row, Columns
  <1>18. Grows
    BY <1>12, <1>15, <1>17 DEF Grows, Made
  <1>19. \A x \in Tasks : Made(x)' => Made(x)
    BY <1>12, <1>16 DEF Made
  <1>20. Counted'
    BY <1>11, <1>18, <1>19, CountedKept DEF Inv
  <1>21. new[q.task].status = q.status
    <2>1. CASE \E i \in 1..Len(q.list) : q.list[i] = q.task
      BY <1>6, <1>9, <2>1
    <2>2. CASE \A i \in 1..Len(q.list) : q.list[i] # q.task
      BY <1>3, <1>6, <1>9, <2>2
    <2>3. QED
      BY <2>1, <2>2
  <1>22. ASSUME NEW c \in Columns \ columns
         PROVE  Quiet(c)
    <2>1. SUFFICES ASSUME NEW x \in Tasks, task[x].status = c \/ new[x].status = c
                   PROVE  new[x].status = task[x].status /\ new[x].position = task[x].position
      BY <1>12 DEF Quiet
    <2>2. x # q.task
      BY <1>13, <1>21, <1>22, <2>1
    <2>3. new[x].status = task[x].status
      BY <1>15, <1>16, <2>2
    <2>4. \A i \in 1..Len(q.list) : q.list[i] # x
      BY <1>13, <1>22, <2>1, <2>3
    <2>5. new[x] = task[x]
      BY <1>6, <1>9, <2>2, <2>4
    <2>6. QED
      BY <2>5
  <1>23. ASSUME ~Overtaken(r), NEW c \in columns \ crossed
         PROVE  SpacedIn(c)'
    <2>1. Ordered(q)
      BY <1>1, <1>2, <1>23 DEF Overtaken, Sound, ReadHolds
    <2>2. c \in Columns /\ SpacedIn(c)
      BY <1>14, <1>23 DEF Inv, Spaced
    <2>3. CASE c = q.status
      <3>1. ASSUME NEW x \in Cards(c)'
            PROVE  \E i \in 1..Len(q.list) : q.list[i] = x
        <4>1. x \in Tasks /\ new[x] # NoTask /\ ~new[x].deleted /\ new[x].status = c
          BY <1>12, <3>1 DEF Cards, Column, Live
        <4>2. Made(x) /\ Live(x)
          BY <1>15, <1>16, <4>1 DEF Live, Made
        <4>3. CASE x = q.task
          BY <2>1, <4>2, <4>3 DEF Ordered
        <4>4. CASE x # q.task
          <5>1. x \in Column(q.status) \ {q.task}
            BY <1>15, <2>3, <4>1, <4>2, <4>4 DEF Column
          <5>2. QED
            BY <2>1, <5>1 DEF Ordered
        <4>5. QED
          BY <4>3, <4>4
      <3>2. ASSUME NEW x \in Cards(c)', NEW y \in Cards(c)', x # y
            PROVE  MinGap \div 2 <= Distance(Position(x)', Position(y)')
        <4>1. PICK i \in 1..Len(q.list) : q.list[i] = x
          BY <3>1, <3>2
        <4>2. PICK j \in 1..Len(q.list) : q.list[j] = y
          BY <3>1, <3>2
        <4>3. Position(x)' = i * STEP /\ Position(y)' = j * STEP
          BY <1>9, <1>12, <4>1, <4>2 DEF Position
        <4>4. i \in Nat /\ j \in Nat /\ i # j /\ STEP \in Nat
          BY <3>2, <4>1, <4>2, BoardAssumption
        <4>5. /\ i * STEP \in Int /\ j * STEP \in Int
              /\ i * STEP + STEP <= j * STEP \/ j * STEP + STEP <= i * STEP
          <5>1. i < j \/ j < i
            BY <4>4
          <5>2. QED
            BY <4>4, <5>1, Multiples
        <4>6. PICK m \in Int, n \in Int : m = i * STEP /\ n = j * STEP
          BY <4>5
        <4>7. MinGap \div 2 <= Distance(m, n)
          BY <4>5, <4>6, BoardAssumption DEF Distance
        <4>8. QED
          BY <4>3, <4>6, <4>7
      <3>3. QED
        BY <3>2 DEF SpacedIn
    <2>4. CASE c # q.status
      <3>1. ASSUME NEW x \in Cards(c)'
            PROVE  x \in Cards(c) /\ Position(x)' = Position(x)
        <4>1. x \in Tasks /\ new[x] # NoTask /\ ~new[x].deleted /\ new[x].status = c /\ new[x].parent = NoOne
          BY <1>12, <3>1 DEF Cards, Column, Live
        <4>2. x # q.task
          BY <1>21, <2>4, <4>1
        <4>3. Made(x) /\ Live(x) /\ task[x].status = c /\ task[x].parent = NoOne
          BY <1>15, <1>16, <4>1, <4>2 DEF Live, Made
        <4>4. \A i \in 1..Len(q.list) : q.list[i] # x
          BY <2>1, <2>4, <4>2, <4>3 DEF Ordered
        <4>5. new[x] = task[x]
          BY <1>6, <1>9, <4>1, <4>2, <4>4
        <4>6. QED
          BY <1>12, <4>1, <4>3, <4>5 DEF Cards, Column, Position
      <3>2. QED
        BY <2>2, <3>1 DEF SpacedIn
    <2>5. QED
      BY <2>3, <2>4
  <1>24. nextNumber' \in Nat \ {0} /\ request[r].op # "create" /\ request[r].op \in {"create", "update", "move"}
    BY <1>1, <1>2, <1>11 DEF Inv, TypeOK
  <1>25. QED
    BY <1>9, <1>11, <1>14, <1>18, <1>19, <1>20, <1>22, <1>23, <1>24, Committing

\* A task is removed: it keeps its number, and no place in any column.
LEMMA StepRemove ==
  ASSUME Inv, NEW t \in Tasks, remove(t)
  PROVE  Inv'
  <1>1. PICK gone \in SUBSET Tasks : gone = {t} \cup {s \in Tasks : task[s] # NoTask /\ task[s].parent = t}
    OBVIOUS
  <1>2. \A s \in gone : Made(s)
    BY <1>1 DEF remove, Live, Made
  <1>3. task' = [s \in Tasks |-> IF s \in gone THEN [task[s] EXCEPT !.deleted = TRUE] ELSE task[s]]
    BY <1>1 DEF remove
  <1>4. /\ nextNumber' = nextNumber /\ project' = project /\ row' = row /\ request' = request /\ faults' = faults
        /\ crossed' = crossed /\ writes' \in Nat
    BY DEF remove, Inv, TypeOK
  <1>5. ASSUME NEW s \in gone
        PROVE  /\ task'[s] \in Row /\ task'[s].status = task[s].status /\ task'[s].position = task[s].position
               /\ task'[s].number = task[s].number /\ task'[s].parent = task[s].parent /\ task'[s].deleted
    <2>1. PICK old \in Row : old = task[s]
      BY <1>2, <1>5, MadeRow DEF Inv
    <2>2. task'[s] = [old EXCEPT !.deleted = TRUE]
      BY <1>3, <1>5, <2>1
    <2>3. QED
      BY <2>1, <2>2 DEF Row
  <1>6. \A s \in Tasks \ gone : task'[s] = task[s]
    BY <1>3
  <1>7. NoTask \notin Row
    BY DEF NoTask, Row, Columns
  <1>8. Grows
    BY <1>5, <1>6, <1>7 DEF Grows, Made
  <1>9. \A c : Quiet(c)
    BY <1>5, <1>6 DEF Quiet
  <1>10. \A x \in Tasks : Made(x)' => Made(x)
    BY <1>2, <1>6 DEF Made
  <1>11. TypeOK'
    <2>1. ASSUME NEW s \in Tasks
          PROVE  task'[s] \in Row \cup {NoTask}
      BY <1>5, <1>6 DEF Inv, TypeOK
    <2>2. task' \in [Tasks -> Row \cup {NoTask}]
      BY <1>3, <2>1
    <2>3. QED
      BY <1>4, <2>2 DEF Inv, TypeOK
  <1>12. CreatesApart' /\ Counted'
    BY <1>4, <1>8, <1>10, CountedKept DEF Inv, CreatesApart
  <1>13. Spaced'
    BY <1>4, <1>8, <1>9, SpacedKept DEF Inv, Spaced
  <1>14. ASSUME NEW s \in Requests, NEW q \in {request'[s]}
         PROVE  Sound(s, q)'
    <2>1. q \in RequestType /\ Sound(s, q)
      BY <1>4, <1>14, RequestOf
    <2>2. q.op = "create" => task'[q.task] = NoTask
      <3>1. q.op = "create" => q.task \in Tasks /\ task[q.task] = NoTask
        BY <2>1 DEF Sound, CreateHolds
      <3>2. QED
        BY <1>10, <3>1 DEF Made
    <2>3. Spared(s, q)
      BY <1>4, <2>2 DEF Spared
    <2>4. QED
      BY <1>4, <1>8, <1>9, <1>14, <2>1, <2>3, KeptSound DEF Inv
  <1>15. AllSound'
    BY <1>14 DEF AllSound
  <1>16. QED
    BY <1>11, <1>12, <1>13, <1>15 DEF Inv

-----------------------------------------------------------------------------
(* The invariant *)

\* The board a plan begins with satisfies the invariant.
LEMMA InitInv ==
  Init => Inv
  <1> SUFFICES ASSUME Init
               PROVE  Inv
    OBVIOUS
  <1>1. PICK p \in Plans :
          /\ task = [t \in Tasks |-> IF t \in DOMAIN p.board THEN p.board[t] ELSE NoTask]
          /\ nextNumber = Cardinality(DOMAIN p.board) + 1
          /\ writes = p.writes /\ faults = p.faults
          /\ project = NoOne /\ row = [t \in Tasks |-> NoOne]
          /\ request = [r \in Requests |-> Idle] /\ crossed = {}
    BY DEF Init
  <1> DEFINE D == DOMAIN p.board
  <1>2. /\ D \subseteq Tasks /\ p.writes \in Nat /\ p.faults \in Nat
        /\ \A t \in D : p.board[t] \in Row
        /\ {p.board[t].number : t \in D} = 1..Cardinality(D)
        /\ \A x, y \in D :
             x # y /\ p.board[x].status = p.board[y].status
               /\ p.board[x].parent = NoOne /\ p.board[y].parent = NoOne
               /\ ~p.board[x].deleted /\ ~p.board[y].deleted =>
             MinGap \div 2 <= Distance(p.board[x].position, p.board[y].position)
    BY PlansAssumption
  <1>3. NoTask \notin Row
    BY DEF NoTask, Row, Columns
  <1>4. \A t \in D : task[t] = p.board[t] /\ Made(t)
    BY <1>1, <1>2, <1>3 DEF Made
  <1>5. \A t \in Tasks \ D : ~Made(t)
    BY <1>1 DEF Made
  <1>6. Cardinality(D) \in Nat
    BY <1>2, FS_Subset, FS_CardinalityType, BoardAssumption
  <1>7. TypeOK
    <2>1. request \in [Requests -> RequestType]
      BY <1>1, IdleSound
    <2>2. task \in [Tasks -> Row \cup {NoTask}]
      BY <1>1, <1>2
    <2>3. nextNumber \in Nat \ {0}
      BY <1>1, <1>6
    <2>4. QED
      BY <1>1, <1>2, <2>1, <2>2, <2>3 DEF TypeOK
  <1>8. CreatesApart
    BY <1>1, IdleSound DEF CreatesApart
  <1>9. Counted
    <2>1. {x \in Tasks : Made(x)} = D
      BY <1>2, <1>4, <1>5
    <2>2. {task[t].number : t \in D} = {p.board[t].number : t \in D}
      BY <1>4
    <2>3. nextNumber - 1 = Cardinality(D)
      BY <1>1, <1>6
    <2> HIDE DEF D
    <2>4. QED
      BY <1>2, <2>1, <2>2, <2>3 DEF Counted
  <1>10. Spaced
    <2>1. ASSUME NEW c \in Columns, NEW x \in Cards(c), NEW y \in Cards(c), x # y
          PROVE  MinGap \div 2 <= Distance(Position(x), Position(y))
      <3>1. x \in Tasks /\ y \in Tasks /\ Made(x) /\ Made(y)
        BY <2>1 DEF Cards, Column, Live, Made
      <3>2. x \in D /\ y \in D /\ task[x] = p.board[x] /\ task[y] = p.board[y]
        BY <1>4, <1>5, <3>1
      <3>3. /\ p.board[x].status = c /\ p.board[y].status = c /\ p.board[x].parent = NoOne /\ p.board[y].parent = NoOne
            /\ ~p.board[x].deleted /\ ~p.board[y].deleted
        BY <2>1, <3>2 DEF Cards, Column, Live
      <3>4. MinGap \div 2 <= Distance(p.board[x].position, p.board[y].position)
        BY <1>2, <2>1, <3>2, <3>3
      <3>5. QED
        BY <3>2, <3>4 DEF Position
    <2>2. QED
      BY <2>1 DEF Spaced, SpacedIn
  <1>11. AllSound
    BY <1>1, IdleSound DEF AllSound
  <1>12. QED
    BY <1>7, <1>8, <1>9, <1>10, <1>11 DEF Inv

\* Every step keeps it.
LEMMA NextInv ==
  Inv /\ [Next]_vars => Inv'
  <1> SUFFICES ASSUME Inv, [Next]_vars
               PROVE  Inv'
    OBVIOUS
  <1>1. ASSUME NEW r \in Requests, NEW t \in Tasks, NEW c \in Columns,
               NEW p \in Tasks \cup {NoOne}, StartCreate(r, t, c, p)
        PROVE  Inv'
    BY <1>1, StepStartCreate
  <1>2. ASSUME NEW r \in Requests, NEW t \in Tasks, NEW c \in Columns, StartUpdate(r, t, c)
        PROVE  Inv'
    BY <1>2, StepStartUpdate
  <1>3. ASSUME NEW r \in Requests, NEW t \in Tasks, NEW c \in Columns, NEW n \in Neighbours(c, t), StartMove(r, t, c, n)
        PROVE  Inv'
    BY <1>3, StepStartMove
  <1>4. ASSUME NEW r \in Requests, TakeNumber(r) \/ Insert(r) \/ Update(r)
        PROVE  Inv'
    BY <1>4, StepTakeNumber, StepInsert, StepUpdate
  <1>5. ASSUME NEW r \in Requests, ReadAfter(r) \/ ReadBefore(r) \/ Renumber(r) \/ Renumbered(r)
        PROVE  Inv'
    BY <1>5, StepReadAfter, StepReadBefore, StepRenumber, StepRenumbered
  <1>6. ASSUME NEW r \in Requests, Place(r)
        PROVE  Inv'
    BY <1>6, StepPlace, StepPlaceDense
  <1>7. ASSUME NEW r \in Requests, Conflict(r) \/ Deadlock(r) \/ Fail(r)
        PROVE  Inv'
    BY <1>7, StepEnds
  <1>8. ASSUME NEW t \in Tasks, remove(t)
        PROVE  Inv'
    BY <1>8, StepRemove
  <1>9. CASE UNCHANGED vars
    <2>1. TypeOK' /\ CreatesApart'
      BY <1>9 DEF vars, Inv, TypeOK, CreatesApart
    <2>2. Grows /\ \A c : Quiet(c)
      BY <1>9, Still DEF vars, Inv
    <2>3. Counted'
      BY <1>9, <2>2, CountedKept DEF vars, Inv, Made
    <2>4. Spaced'
      BY <1>9, <2>2, SpacedKept DEF vars, Inv, Spaced
    <2>5. ASSUME NEW s \in Requests, NEW q \in {request'[s]}
          PROVE  Sound(s, q)'
      <3>1. q \in RequestType /\ Sound(s, q)
        BY <1>9, <2>5, RequestOf DEF vars
      <3>2. Spared(s, q)
        BY <1>9, <3>1 DEF Spared, Sound, CreateHolds, vars
      <3>3. QED
        BY <1>9, <2>2, <2>5, <3>1, <3>2, KeptSound DEF vars, Inv
    <2>6. QED
      BY <2>1, <2>3, <2>4, <2>5 DEF Inv, AllSound
  <1>10. QED
    BY <1>1, <1>2, <1>3, <1>4, <1>5, <1>6, <1>7, <1>8, <1>9 DEF Next

\* Every reachable state of Board satisfies the inductive invariant.
LEMMA Invariant ==
  Spec => []Inv
  BY InitInv, NextInv, PTL DEF Spec

-----------------------------------------------------------------------------
(* The theorems *)

\* Every variable keeps its type.
THEOREM TypeCorrect ==
  Spec => []TypeOK
  <1>1. Inv => TypeOK
    BY DEF Inv
  <1>2. QED
    BY <1>1, Invariant, PTL

\* The board of a project is in order: where no placements have overtaken one
\* another no two cards of a column have the same position, and the keys
\* nextTaskNumber gives out are given once and without a gap.
THEOREM OrderAndKeys ==
  Spec => []BoardInOrder
  <1>1. Inv => BoardInOrder
    <2>1. SUFFICES ASSUME Inv
                   PROVE  BoardInOrder
      OBVIOUS
    <2>2. PlacesDiffer
      <3>1. ASSUME NEW c \in Columns \ crossed, NEW x \in Cards(c), NEW y \in Cards(c), x # y
            PROVE  Position(x) # Position(y)
        <4>1. MinGap \div 2 <= Distance(Position(x), Position(y))
          BY <2>1, <3>1 DEF Inv, Spaced, SpacedIn
        <4>2. Position(x) \in Int /\ Position(y) \in Int
          BY <2>1, <3>1, InColumn DEF Inv, Cards
        <4>3. QED
          BY <4>1, <4>2, BoardAssumption DEF Distance
      <3>2. QED
        BY <3>1 DEF PlacesDiffer
    <2>3. KeysGapless
      BY <2>1 DEF Inv, Counted, KeysGapless, Made
    <2>4. QED
      BY <2>2, <2>3 DEF BoardInOrder
  <1>2. QED
    BY <1>1, Invariant, PTL

-----------------------------------------------------------------------------
(* Where a card lands *)

\* What LandsWhereAsked says of a move that has come to its end.
Landed(q) ==
  /\ q.after # NoOne /\ Live(q.after) => Position(q.after)' < Position(q.task)'
  /\ q.before # NoOne /\ Live(q.before) => Position(q.task)' < Position(q.before)'
  /\ q.after = NoOne /\ q.before = NoOne =>
       \A x \in Column(q.status) \ {q.task} : Position(x)' < Position(q.task)'
  /\ \A x, y \in Cards(q.status) \ {q.task} : Position(x) < Position(y) => Position(x)' < Position(y)'

\* The commit of another leaves a move where it is.
LEMMA OthersCommit ==
  ASSUME Inv, NEW r \in Requests, NEW s \in Requests, s # r, NEW new, NEW columns, Commits(s, new, columns),
         request[r].op = "move"
  PROVE  request'[r] # Idle
  <1>1. PICK p \in RequestType : p = request[r]
    BY RequestOf
  <1>2. PICK o : o = request[s].op
    OBVIOUS
  <1>3. request'[r] = p \/ request'[r] = [p EXCEPT !.touched = @ \cup {o}]
    BY <1>1, <1>2 DEF Commits
  <1>4. request'[r].op = "move"
    BY <1>1, <1>3 DEF RequestType
  <1>5. QED
    BY <1>4, IdleSound

\* Without a renumbering only the card itself gets another place.
LEMMA PlaceLands ==
  ASSUME Inv, NEW r \in Requests, NEW q \in RequestType, q = request[r], Place(r), ~q.dense, q.touched = {}
  PROVE  Landed(q)
  <1>1. Sound(r, q) /\ q.op = "move" /\ q.step = "place"
    BY RequestOf DEF Place, At
  <1>2. q.task \in Tasks /\ Made(q.task) /\ q.status \in Columns /\ Aimed(q)
    BY <1>1 DEF Sound, PlaceHolds, ReadHolds
  <1>3. task' = Moved(r)
    BY DEF Place, Commits
  <1>4. /\ \A x \in Tasks \ {q.task} : Position(x)' = Position(x)
        /\ Position(q.task)' = q.position
    BY <1>2, <1>3, MovedBoard DEF Inv, Position
  <1>5. q.after \in Tasks \cup {NoOne} /\ q.before \in Tasks \cup {NoOne}
    BY DEF RequestType
  <1>6. \A x \in Column(q.status) : x \in Tasks /\ Position(x) \in Int
    BY InColumn DEF Inv
  <1>7. /\ q.after # NoOne => Position(q.after)' < Position(q.task)'
        /\ q.before # NoOne => Position(q.task)' < Position(q.before)'
    BY <1>2, <1>4, <1>5 DEF Aimed
  <1>8. q.after = NoOne /\ q.before = NoOne => \A x \in Column(q.status) \ {q.task} : Position(x)' < Position(q.task)'
    <2>1. SUFFICES ASSUME q.after = NoOne, q.before = NoOne, NEW x \in Column(q.status) \ {q.task}
                   PROVE  Position(x)' < Position(q.task)'
      OBVIOUS
    <2>2. Position(x) + STEP <= q.position
      BY <1>2, <2>1 DEF Aimed, AtEnd
    <2>3. q.position \in Int /\ 0 < STEP /\ STEP \in Nat
      BY BoardAssumption DEF RequestType
    <2>4. QED
      BY <1>4, <1>6, <2>1, <2>2, <2>3
  <1>9. \A x, y \in Cards(q.status) \ {q.task} : Position(x) < Position(y) => Position(x)' < Position(y)'
    BY <1>4, <1>6 DEF Cards
  <1>10. QED
    BY <1>7, <1>8, <1>9 DEF Landed

\* A renumbering keeps the order, the card in its place.
LEMMA RenumberedLands ==
  ASSUME Inv, NEW r \in Requests, NEW q \in RequestType, q = request[r], Renumbered(r),
         q.touched = {}, q.status \notin crossed, Live(q.task)
  PROVE  Landed(q)
  <1>1. Sound(r, q) /\ q.op = "move" /\ q.step = "renumber"
    BY RequestOf DEF Renumbered, At
  <1>2. /\ q.task \in Tasks /\ Made(q.task) /\ q.status \in Columns /\ q.dense /\ Ordered(q)
        /\ \A i \in 1..Len(q.list) : Made(q.list[i])
        /\ \A i, j \in 1..Len(q.list) : i # j => q.list[i] # q.list[j]
    BY <1>1 DEF Sound, PlaceHolds, ListHolds, ReadHolds
  <1>3. Aimed(q)
    BY <1>1 DEF Sound, ReadHolds
  <1>4. /\ q.after \in Tasks /\ q.after # q.task /\ task[q.after].status = q.status /\ Position(q.after) < q.position
        /\ q.before \in Tasks /\ q.before # q.task /\ task[q.before].status = q.status /\ q.position < Position(q.before)
        /\ q.after # NoOne /\ q.before # NoOne
    BY <1>2, <1>3 DEF Aimed, RequestType
  <1>5. q.list \in Seq(Tasks) /\ \A i \in 1..Len(q.list) : q.list[i] \in Tasks /\ i \in Nat
    BY LenProperties DEF RequestType
  <1>6. PICK moved : moved = Moved(r)
    OBVIOUS
  <1>7. /\ moved \in [Tasks -> Row \cup {NoTask}] /\ moved[q.task] \in Row
        /\ \A x \in Tasks \ {q.task} : moved[x] = task[x]
    BY <1>2, <1>6, MovedBoard DEF Inv
  <1>8. \A i \in 1..Len(q.list) : moved[q.list[i]] \in Row
    BY <1>2, <1>5, <1>7, MadeRow DEF Inv
  <1>9. task' = InOrder(q.list, moved)
    BY <1>6 DEF Renumbered, Commits
  <1>10. \A i \in 1..Len(q.list) : Position(q.list[i])' = i * STEP
    <2>1. \A i \in 1..Len(q.list) : InOrder(q.list, moved)[q.list[i]].position = i * STEP
      BY <1>2, <1>5, <1>7, <1>8, OrderedBoard
    <2>2. QED
      BY <1>9, <2>1 DEF Position
  <1>11. ASSUME NEW i \in 1..Len(q.list), NEW j \in 1..Len(q.list), i < j
         PROVE  Position(q.list[i])' < Position(q.list[j])'
    <2>1. i \in Nat /\ j \in Nat /\ STEP \in Nat /\ 0 < STEP
      BY <1>5, <1>11, BoardAssumption
    <2>2. i * STEP \in Nat /\ j * STEP \in Nat /\ i * STEP + STEP <= j * STEP
      BY <1>11, <2>1, Multiples
    <2>3. i * STEP < j * STEP
      BY <2>1, <2>2
    <2>4. QED
      BY <1>10, <1>11, <2>3
  <1>12. \A x \in Column(q.status) \ {q.task} : Position(x) \in Int /\ \E i \in 1..Len(q.list) : q.list[i] = x
    BY <1>2, InColumn DEF Ordered, Inv
  <1>13. PICK k \in 1..Len(q.list) : q.list[k] = q.task
    BY <1>2 DEF Ordered
  <1>14. q.position \in Int
    BY DEF RequestType
  <1>15. ASSUME Live(q.after)
         PROVE  Position(q.after)' < Position(q.task)'
    <2>1. q.after \in Column(q.status) \ {q.task}
      BY <1>4, <1>15 DEF Column
    <2>2. PICK i \in 1..Len(q.list) : q.list[i] = q.after
      BY <1>12, <2>1
    <2>3. Position(q.after) \in Int
      BY <1>12, <2>1
    <2>4. ~(k < i)
      BY <1>2, <1>4, <1>13, <1>14, <2>2, <2>3 DEF Ordered
    <2>5. i # k
      BY <1>4, <1>13, <2>2
    <2>6. i < k
      BY <1>5, <2>4, <2>5
    <2>7. QED
      BY <1>11, <1>13, <2>2, <2>6
  <1>16. ASSUME Live(q.before)
         PROVE  Position(q.task)' < Position(q.before)'
    <2>1. q.before \in Column(q.status) \ {q.task}
      BY <1>4, <1>16 DEF Column
    <2>2. PICK i \in 1..Len(q.list) : q.list[i] = q.before
      BY <1>12, <2>1
    <2>3. Position(q.before) \in Int
      BY <1>12, <2>1
    <2>4. ~(i < k)
      BY <1>2, <1>4, <1>13, <1>14, <2>2, <2>3 DEF Ordered
    <2>5. i # k
      BY <1>4, <1>13, <2>2
    <2>6. k < i
      BY <1>5, <2>4, <2>5
    <2>7. QED
      BY <1>11, <1>13, <2>2, <2>6
  <1>17. ASSUME NEW x \in Cards(q.status) \ {q.task}, NEW y \in Cards(q.status) \ {q.task}, Position(x) < Position(y)
         PROVE  Position(x)' < Position(y)'
    <2>1. x \in Column(q.status) \ {q.task} /\ y \in Column(q.status) \ {q.task}
      BY <1>17 DEF Cards
    <2>2. PICK i \in 1..Len(q.list) : q.list[i] = x
      BY <1>12, <2>1
    <2>3. PICK j \in 1..Len(q.list) : q.list[j] = y
      BY <1>12, <2>1
    <2>4. Position(x) \in Int /\ Position(y) \in Int
      BY <1>12, <2>1
    <2>5. ~(j < i)
      BY <1>2, <1>17, <2>1, <2>2, <2>3, <2>4 DEF Ordered
    <2>6. i # j
      BY <1>17, <2>2, <2>3, <2>4
    <2>7. i < j
      BY <1>5, <2>5, <2>6
    <2>8. QED
      BY <1>11, <2>2, <2>3, <2>7
  <1>18. QED
    BY <1>4, <1>15, <1>16, <1>17 DEF Landed

\* A card nobody overtook lands between the neighbours it was dropped between, or
\* at the end of the column, and the others keep their order.
THEOREM CardsLand ==
  Spec => LandsWhereAsked
  <1>1. ASSUME Inv, [Next]_vars, NEW r \in Requests, NEW q \in {request[r]},
               q.op = "move", q.touched = {}, q.status \notin crossed, request'[r] = Idle,
               Live(q.task), task[q.task].version = q.version, task'[q.task].version = q.version + 1
        PROVE  Landed(q)
    <2>1. q \in RequestType /\ q = request[r] /\ request[r].op = "move"
      BY <1>1, RequestOf
    <2>2. q.task \in Tasks /\ Made(q.task) /\ q.version \in Nat
      BY <1>1, <2>1, RequestOf DEF Sound, PlaceHolds, RequestType
    <2>3. task'[q.task].version # task[q.task].version
      BY <1>1, <2>2
    <2>4. CASE UNCHANGED vars
      BY <2>3, <2>4 DEF vars
    <2>5. ASSUME NEW s \in Requests, NEW t \in Tasks, NEW c \in Columns, NEW p \in Tasks \cup {NoOne},
                 StartCreate(s, t, c, p)
          PROVE  Landed(q)
      BY <2>3, <2>5 DEF StartCreate, Begin
    <2>6. ASSUME NEW s \in Requests, NEW t \in Tasks, NEW c \in Columns, StartUpdate(s, t, c)
          PROVE  Landed(q)
      BY <2>3, <2>6 DEF StartUpdate, Begin
    <2>7. ASSUME NEW s \in Requests, NEW t \in Tasks, NEW c \in Columns, NEW n \in Neighbours(c, t),
                 StartMove(s, t, c, n)
          PROVE  Landed(q)
      BY <2>3, <2>7 DEF StartMove, Begin
    <2>8. ASSUME NEW s \in Requests,
                 TakeNumber(s) \/ ReadAfter(s) \/ ReadBefore(s) \/ Renumber(s) \/ Conflict(s) \/ Deadlock(s) \/ Fail(s)
          PROVE  Landed(q)
      <3>1. task' = task
        BY <2>8 DEF TakeNumber, ReadAfter, ReadBefore, Renumber, Conflict, Deadlock, Fail, Goes, End
      <3>2. QED
        BY <2>3, <3>1
    <2>9. ASSUME NEW s \in Requests, Insert(s) \/ Update(s)
          PROVE  Landed(q)
      <3>1. s # r
        BY <2>1, <2>9 DEF Insert, Update, At
      <3>2. \E new, columns : Commits(s, new, columns)
        BY <2>9 DEF Insert, Update
      <3>3. QED
        BY <1>1, <2>1, <3>1, <3>2, OthersCommit
    <2>10. ASSUME NEW s \in Requests, Place(s)
           PROVE  Landed(q)
      <3>1. CASE request[s].dense
        <4>1. task' = task
          BY <2>10, <3>1 DEF Place
        <4>2. QED
          BY <2>3, <4>1
      <3>2. CASE ~request[s].dense /\ s # r
        <4>1. \E new, columns : Commits(s, new, columns)
          BY <2>10, <3>2 DEF Place
        <4>2. QED
          BY <1>1, <2>1, <3>2, <4>1, OthersCommit
      <3>3. CASE ~request[s].dense /\ s = r
        BY <1>1, <2>1, <2>10, <3>3, PlaceLands
      <3>4. QED
        BY <3>1, <3>2, <3>3
    <2>11. ASSUME NEW s \in Requests, Renumbered(s)
           PROVE  Landed(q)
      <3>1. CASE s # r
        <4>1. \E new, columns : Commits(s, new, columns)
          BY <2>11 DEF Renumbered
        <4>2. QED
          BY <1>1, <2>1, <3>1, <4>1, OthersCommit
      <3>2. CASE s = r
        BY <1>1, <2>1, <2>11, <3>2, RenumberedLands
      <3>3. QED
        BY <3>1, <3>2
    <2>12. ASSUME NEW t \in Tasks, remove(t)
           PROVE  Landed(q)
      <3>1. PICK gone : task' = [s \in Tasks |-> IF s \in gone THEN [task[s] EXCEPT !.deleted = TRUE] ELSE task[s]]
        BY <2>12 DEF remove
      <3>2. PICK old \in Row : old = task[q.task]
        BY <1>1, <2>2, MadeRow DEF Inv
      <3>3. task'[q.task] = old \/ task'[q.task] = [old EXCEPT !.deleted = TRUE]
        BY <2>2, <3>1, <3>2
      <3>4. task'[q.task].version = old.version
        BY <3>3 DEF Row
      <3>5. QED
        BY <2>3, <3>2, <3>4
    <2>13. QED
      BY <1>1, <2>4, <2>5, <2>6, <2>7, <2>8, <2>9, <2>10, <2>11, <2>12 DEF Next
  <1>2. Inv /\ [Next]_vars =>
          [\A r \in Requests : \A q \in {request[r]} :
             q.op = "move" /\ q.touched = {} /\ q.status \notin crossed /\ request'[r] = Idle
               /\ Live(q.task) /\ task[q.task].version = q.version /\ task'[q.task].version = q.version + 1 =>
               /\ q.after # NoOne /\ Live(q.after) => Position(q.after)' < Position(q.task)'
               /\ q.before # NoOne /\ Live(q.before) => Position(q.task)' < Position(q.before)'
               /\ q.after = NoOne /\ q.before = NoOne =>
                    \A x \in Column(q.status) \ {q.task} : Position(x)' < Position(q.task)'
               /\ \A x, y \in Cards(q.status) \ {q.task} : Position(x) < Position(y) => Position(x)' < Position(y)'
          ]_vars
    BY <1>1 DEF Landed
  <1>3. QED
    BY <1>2, Invariant, PTL DEF Spec, LandsWhereAsked
=============================================================================
