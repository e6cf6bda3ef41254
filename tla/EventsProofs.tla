-------------------------- MODULE EventsProofs --------------------------
(***************************************************************************)
(* Theorems about Reminders, for any reminders, workers and plans, and any *)
(* bound on the time; and, in the second part, about Calendar.             *)
(***************************************************************************)
EXTENDS Reminders, WellFoundedInduction, TLAPS

-----------------------------------------------------------------------------
(* The inductive invariant: nothing refers to a reminder that was not made,  *)
(* no worker is ahead of the clock, and what one tells was due at its tick.  *)

Made(r) == row[r] # NoRow

WorkerType ==
  [step : {"idle", "claim", "fire", "putBack", "notify", "delivery", "enqueue", "next", "write", "index"},
   at : 0..MaxTime, members : SUBSET Reminders, claimed : SUBSET Reminders,
   firing : Reminders \cup {NoOne}, time : Times \cup {Never}, next : Times \cup {Never}]

Telling == {"notify", "delivery", "enqueue", "next", "write", "index"}

Sound(u) ==
  /\ u \in WorkerType /\ u.at <= now
  /\ \A r \in Reminders : r \in u.members \cup u.claimed \cup {u.firing} => Made(r)
  /\ u.step \in Telling \cup {"putBack"} => u.firing \in Reminders /\ u.time \in Times
  /\ u.step \in Telling => u.time <= u.at

WorkerOk(w) == Sound(worker[w])

Grounded ==
  /\ \A r \in Reminders :
       index[r] # Never \/ client[r] # NoClient \/ sweep[r] # Never \/ r \in editor.listed \cup {editor.firing} => Made(r)
  /\ \A w \in Workers : WorkerOk(w)

ToldProperly ==
  /\ \A k \in Keys : told[k] = IF k \in notified THEN 1 ELSE 0
  /\ \A k \in notified : k[2] <= now

-----------------------------------------------------------------------------
(* The operators *)

\* A set of numbers has a least one, and that is what Min finds.
LEMMA MinIs ==
  ASSUME NEW S \in SUBSET Nat, S # {}
  PROVE  Min(S) \in S /\ \A y \in S : Min(S) <= y
<1> DEFINE less == {p \in Nat \X Nat : p[1] < p[2]}
<1>1. IsWellFoundedOn(less, Nat)
  BY NatLessThanWellFounded DEF OpToRel
<1>2. PICK x \in S : \A y \in S : ~(<<y, x>> \in less)
  <2> HIDE DEF less
  <2>1. S \subseteq Nat
    OBVIOUS
  <2>2. QED
    BY <1>1, <2>1, WFMin
<1>3. ASSUME NEW y \in S PROVE x <= y
  <2>1. x \in Nat /\ y \in Nat /\ <<y, x>> \in Nat \X Nat
    OBVIOUS
  <2>2. <<y, x>> \notin less
    BY <1>2
  <2>3. ~(y < x)
    BY <2>1, <2>2
  <2>4. QED
    BY <2>1, <2>3
<1>4. QED
  BY <1>3 DEF Min

USE RemindersAssumption DEF Times, Never

\* The next time of an event is one of its times, and is later; or there is none.
LEMMA NextTimeType ==
  ASSUME occurs \subseteq Times, NEW after
  PROVE  NextTime(after) = Never \/ (NextTime(after) \in Times /\ NextTime(after) > after)
<1> DEFINE later == {t \in occurs : t > after}
<1>1. CASE later = {}
  BY <1>1 DEF NextTime
<1>2. CASE later # {}
  <2>1. later \in SUBSET Nat
    <3>1. \A t \in later : t \in Nat
      OBVIOUS
    <3>2. QED
      BY <3>1
  <2>2. Min(later) \in later
    BY <1>2, <2>1, MinIs
  <2>3. NextTime(after) = Min(later)
    BY <1>2 DEF NextTime
  <2>4. QED
    BY <2>2, <2>3
<1>3. QED
  BY <1>1, <1>2

\* What was made is a row with a status and a time, and stays one when either is written.
LEMMA RowEdits ==
  ASSUME NEW x \in Rows, x # NoRow
  PROVE  /\ \A s \in {"scheduled", "sent", "dismissed", "cancelled"} :
              [x EXCEPT !.status = s] \in Rows \ {NoRow}
         /\ \A t \in Times : [x EXCEPT !.at = t] \in Rows \ {NoRow}
         /\ \A t \in Times : [status |-> "scheduled", at |-> t] \in Rows \ {NoRow}
         /\ x.at \in Times
  BY DEF Rows, NoRow

\* A row is written for the first time with a time.
LEMMA NewRow ==
  ASSUME NEW t \in Times
  PROVE  [status |-> "scheduled", at |-> t] \in Rows \ {NoRow}
  BY DEF Rows, NoRow

-----------------------------------------------------------------------------
(* Rows *)

\* No step takes a row away: what was made stays made.
LEMMA RowsStep ==
  ASSUME TypeOK, Grounded, [Next]_vars
  PROVE  /\ row' \in [Reminders -> Rows]
         /\ \A r \in Reminders : Made(r) => Made(r)'
<1>0. /\ row \in [Reminders -> Rows] /\ occurs \subseteq Times /\ now \in 0..MaxTime
      /\ worker \in [Workers -> WorkerType]
  BY DEF TypeOK, WorkerType
<1>1. ASSUME NEW r \in Reminders, Create(r) \/ Snooze(r)
      PROVE  \E t \in Times : row' = [row EXCEPT ![r] = [status |-> "scheduled", at |-> t]]
  BY <1>0, <1>1, NextTimeType DEF Create, Snooze
<1>2. ASSUME NEW r \in Reminders, Dismiss(r)
      PROVE  Made(r) /\ row' = [row EXCEPT ![r] = [@ EXCEPT !.status = "dismissed"]]
  BY <1>0, <1>2 DEF Dismiss, Made
<1>3. ASSUME NEW r \in Reminders, Reschedule(r)
      PROVE  /\ Made(r)
             /\ \/ row' = [row EXCEPT ![r] = [@ EXCEPT !.status = "cancelled"]]
                \/ \E t \in Times : row' = [row EXCEPT ![r] = [@ EXCEPT !.at = t]]
  BY <1>0, <1>3, NextTimeType DEF Reschedule, Grounded
<1>4. ASSUME NEW w \in Workers, Write(w)
      PROVE  /\ Me(w) \in Reminders /\ Made(Me(w))
             /\ \/ row' = [row EXCEPT ![Me(w)] = [@ EXCEPT !.status = "sent"]]
                \/ \E t \in Times : row' = [row EXCEPT ![Me(w)] = [@ EXCEPT !.at = t]]
  <2>1. WorkerOk(w)
    BY DEF Grounded
  <2>2. Me(w) \in Reminders /\ Made(Me(w))
    BY <1>4, <2>1 DEF WorkerOk, Sound, Write, Telling, Me
  <2>3. worker[w].next \in Times \cup {Never}
    BY <1>0 DEF WorkerType
  <2>4. QED
    BY <1>4, <2>2, <2>3 DEF Write
<1>5. ASSUME NEW r \in Reminders, NEW x \in Rows \ {NoRow}, row' = [row EXCEPT ![r] = x]
      PROVE  row' \in [Reminders -> Rows] /\ \A q \in Reminders : Made(q) => Made(q)'
  BY <1>0, <1>5 DEF Made
<1>6. CASE row' = row
  BY <1>0, <1>6 DEF Made
<1>7. \/ row' = row
      \/ \E r \in Reminders : Create(r) \/ Snooze(r) \/ Dismiss(r) \/ Reschedule(r)
      \/ \E w \in Workers : Write(w)
  BY DEF Next, vars, Follows, Fires, Fail, Die, Sweep, Reindex, Clock, Deliver, MoveEvent, List,
         IndexForClient, IndexForEvent, Tick, Claim, Fire, PutBack, Notify, InsertDelivery,
         Enqueue, ReadNext, IndexNext
<1>8. \A r \in Reminders : Made(r) => row[r] \in Rows \ {NoRow}
  BY <1>0 DEF Made
<1>9. ASSUME NEW r \in Reminders, Create(r) \/ Snooze(r) \/ Dismiss(r) \/ Reschedule(r)
      PROVE  \E x \in Rows \ {NoRow} : row' = [row EXCEPT ![r] = x]
  BY <1>1, <1>2, <1>3, <1>8, <1>9, RowEdits, NewRow
<1>10. ASSUME NEW w \in Workers, Write(w)
       PROVE  \E x \in Rows \ {NoRow} : row' = [row EXCEPT ![Me(w)] = x]
  BY <1>4, <1>8, <1>10, RowEdits
<1>11. QED
  BY <1>4, <1>5, <1>6, <1>7, <1>9, <1>10
-----------------------------------------------------------------------------
(* Workers *)

\* A worker that goes on with what it claimed, or stops, has lost nothing.
LEMMA DoneOk ==
  ASSUME TypeOK, NEW w \in Workers, WorkerOk(w), NEW r, Done(w, r)
  PROVE  /\ worker'[w] \in WorkerType /\ worker'[w].at <= worker[w].at
         /\ worker'[w].members \cup worker'[w].claimed \subseteq worker[w].members \cup worker[w].claimed
         /\ worker'[w].firing = NoOne /\ worker'[w].step \in {"idle", "fire"}
<1> DEFINE u == worker[w]
           rest == u.claimed \ {r}
<1>1. u \in WorkerType /\ worker \in [Workers -> WorkerType]
  BY DEF WorkerOk, Sound, TypeOK, WorkerType
<1>2. worker'[w] = IF rest = {} THEN Stopped
                   ELSE [u EXCEPT !.step = "fire", !.claimed = rest, !.firing = NoOne,
                                  !.time = Never, !.next = Never]
  BY <1>1 DEF Done, Now
<1>3. CASE rest = {}
  BY <1>1, <1>2, <1>3 DEF Stopped, WorkerType
<1>4. CASE rest # {}
  <2>1. rest \in SUBSET Reminders
    BY <1>1 DEF WorkerType
  <2>2. worker'[w] = [u EXCEPT !.step = "fire", !.claimed = rest, !.firing = NoOne,
                               !.time = Never, !.next = Never]
    BY <1>2, <1>4
  <2> HIDE DEF rest
  <2>3. worker'[w] \in WorkerType
    BY <1>1, <2>1, <2>2 DEF WorkerType
  <2>4. /\ worker'[w].at = u.at /\ worker'[w].members = u.members
        /\ worker'[w].claimed = rest /\ worker'[w].firing = NoOne /\ worker'[w].step = "fire"
    BY <1>1, <2>2 DEF WorkerType
  <2>5. rest \subseteq u.claimed /\ u.at \in Nat
    BY <1>1 DEF rest, WorkerType
  <2>6. QED
    BY <2>3, <2>4, <2>5
<1>5. QED
  BY <1>3, <1>4

\* A step changes the state of one worker at most, and only a worker's own step
\* or a fault changes that.
WorkerMoves(w) ==
  \/ Tick(w) \/ Notify(w) \/ InsertDelivery(w) \/ Enqueue(w) \/ ReadNext(w) \/ Write(w)
  \/ \E r \in Reminders : Claim(w, r) \/ Fire(w, r)
  \/ \E r \in Reminders \cup {NoOne} : Done(w, r)
  \/ worker'[w] = Stopped
  \/ worker'[w] = worker[w]

LEMMA WorkersMove ==
  ASSUME TypeOK, [Next]_vars, NEW w \in Workers
  PROVE  WorkerMoves(w)
<1>0. worker \in [Workers -> WorkerType]
  BY DEF TypeOK, WorkerType
<1>1. ASSUME NEW v \in Workers, Fires(v) \/ Fail(v)
      PROVE  WorkerMoves(w)
  <2>1. Me(v) \in Reminders \cup {NoOne}
    BY <1>0 DEF Me, WorkerType
  <2>2. CASE v = w
    BY <1>1, <2>1, <2>2 DEF Fires, Fail, PutBack, IndexNext, WorkerMoves
  <2>3. CASE v # w
    <3>1. worker'[w] = worker[w]
      BY <1>0, <1>1, <2>3 DEF Fires, Fail, Tick, Claim, Fire, PutBack, Notify, InsertDelivery,
             Enqueue, ReadNext, Write, IndexNext, Done, Now
    <3>2. QED
      BY <3>1 DEF WorkerMoves
  <2>4. QED
    BY <2>2, <2>3
<1>2. CASE Die
  <2>1. worker'[w] = Stopped \/ worker'[w] = worker[w]
    BY <1>0, <1>2 DEF Die
  <2>2. QED
    BY <2>1 DEF WorkerMoves
<1>3. CASE worker' = worker
  BY <1>3 DEF WorkerMoves
<1>4. \/ worker' = worker \/ Die
      \/ \E v \in Workers : Fires(v) \/ Fail(v)
  BY DEF Next, vars, Follows, Sweep, Reindex, Clock, Deliver, MoveEvent, List, Create, Snooze,
         Dismiss, Reschedule, IndexForClient, IndexForEvent
<1>5. QED
  BY <1>1, <1>2, <1>3, <1>4

\* The clock does not go back.
LEMMA ClockStep ==
  ASSUME TypeOK, [Next]_vars
  PROVE  now' \in 0..MaxTime /\ now <= now'
<1>1. now' = now \/ Clock
  BY DEF Next, vars, Follows, Fires, Fail, Die, Sweep, Reindex, Deliver, MoveEvent, List, Create,
         Snooze, Dismiss, Reschedule, IndexForClient, IndexForEvent, Tick, Claim, Fire, PutBack,
         Notify, InsertDelivery, Enqueue, ReadNext, Write, IndexNext
<1>2. QED
  BY <1>1 DEF Clock, TypeOK

\* A worker that was sound is so after each of its moves.
LEMMA WorkerStaysSound ==
  ASSUME TypeOK, Grounded, NEW w \in Workers, WorkerMoves(w)
  PROVE  Sound(worker'[w])
<1> DEFINE u == worker[w]
<1>0. /\ worker \in [Workers -> WorkerType] /\ u \in WorkerType /\ Sound(u)
      /\ now \in 0..MaxTime /\ row \in [Reminders -> Rows] /\ occurs \subseteq Times
      /\ index \in [Reminders -> 0..MaxTime + 1]
  BY DEF TypeOK, WorkerType, Grounded, WorkerOk
<1>1. CASE Tick(w)
  <2>1. PICK due \in SUBSET Reminders :
          /\ \A r \in due : Made(r)
          /\ worker'[w] = [u EXCEPT !.step = "claim", !.at = now, !.members = due]
    <3>1. {r \in Reminders : index[r] \in 1..now} \in SUBSET Reminders
      OBVIOUS
    <3>2. \A r \in {q \in Reminders : index[q] \in 1..now} : Made(r)
      BY <1>0 DEF Grounded
    <3>3. QED
      BY <1>0, <1>1, <3>1, <3>2 DEF Tick, Now
  <2>2. worker'[w] \in WorkerType
    BY <1>0, <2>1 DEF WorkerType
  <2>3. /\ worker'[w].step = "claim" /\ worker'[w].at = now /\ worker'[w].members = due
        /\ worker'[w].claimed = u.claimed /\ worker'[w].firing = u.firing
    BY <1>0, <2>1 DEF WorkerType
  <2>4. QED
    BY <1>0, <2>1, <2>2, <2>3 DEF Sound, Telling
<1>2. ASSUME NEW r \in Reminders, Claim(w, r)
      PROVE  Sound(worker'[w])
  <2>1. PICK m \in SUBSET u.members, c \in SUBSET (u.claimed \cup u.members) :
          \/ worker'[w] = [u EXCEPT !.members = m, !.claimed = c]
          \/ worker'[w] = Stopped
          \/ worker'[w] = [u EXCEPT !.step = "fire", !.members = {}, !.claimed = c]
    <3>1. u.members \ {r} \in SUBSET u.members
      OBVIOUS
    <3>2. u.claimed \cup (IF index[r] = Never THEN {} ELSE {r}) \in SUBSET (u.claimed \cup u.members)
      BY <1>2 DEF Claim
    <3>3. QED
      BY <1>0, <1>2, <3>1, <3>2 DEF Claim, Now
  <2>2. u.step = "claim" /\ m \in SUBSET Reminders /\ c \in SUBSET Reminders
    BY <1>0, <1>2 DEF Claim, WorkerType
  <2>3. \A q \in m \cup c : Made(q)
    BY <1>0, <2>1, <2>2 DEF Sound
  <2>4. CASE worker'[w] = [u EXCEPT !.members = m, !.claimed = c]
    <3>1. worker'[w] \in WorkerType
      BY <1>0, <2>2, <2>4 DEF WorkerType
    <3>2. /\ worker'[w].step = "claim" /\ worker'[w].at = u.at /\ worker'[w].members = m
          /\ worker'[w].claimed = c /\ worker'[w].firing = u.firing
      BY <1>0, <2>2, <2>4 DEF WorkerType
    <3>3. QED
      BY <1>0, <2>3, <3>1, <3>2 DEF Sound, Telling
  <2>5. CASE worker'[w] = Stopped
    BY <1>0, <2>5 DEF Sound, Stopped, WorkerType, Telling
  <2>6. CASE worker'[w] = [u EXCEPT !.step = "fire", !.members = {}, !.claimed = c]
    BY <1>0, <2>2, <2>3, <2>6 DEF Sound, WorkerType, Telling
  <2>7. QED
    BY <2>1, <2>4, <2>5, <2>6
<1>3. ASSUME NEW r \in Reminders \cup {NoOne}, Done(w, r)
      PROVE  Sound(worker'[w])
  <2>1. /\ worker'[w] \in WorkerType /\ worker'[w].at <= u.at
        /\ worker'[w].members \cup worker'[w].claimed \subseteq u.members \cup u.claimed
        /\ worker'[w].firing = NoOne /\ worker'[w].step \in {"idle", "fire"}
    BY <1>0, <1>3, DoneOk DEF WorkerOk
  <2>2. worker'[w].at <= now
    BY <1>0, <2>1 DEF Sound, WorkerType
  <2>3. QED
    BY <1>0, <2>1, <2>2 DEF Sound, Telling
<1>4. ASSUME NEW r \in Reminders, Fire(w, r)
      PROVE  Sound(worker'[w])
  <2>1. CASE Done(w, r)
    BY <1>3, <2>1
  <2>2. CASE ~Done(w, r)
    <3>1. row[r].status = "scheduled" /\ r \in u.claimed /\ Made(r)
      BY <1>0, <1>4, <2>2 DEF Fire, Sound
    <3>2. row[r].at \in Times
      BY <1>0, <3>1, RowEdits DEF Made
    <3>3. PICK s \in {"putBack", "notify"} :
            /\ worker'[w] = [u EXCEPT !.step = s, !.firing = r, !.time = row[r].at]
            /\ s = "notify" => ~(row[r].at > u.at)
      BY <1>0, <1>4, <3>1 DEF Fire, Now
    <3>4. row[r].at > u.at \/ row[r].at <= u.at
      BY <1>0, <3>2 DEF WorkerType
    <3>5. worker'[w] \in WorkerType
      BY <1>0, <3>2, <3>3 DEF WorkerType
    <3>6. /\ worker'[w].step = s /\ worker'[w].at = u.at /\ worker'[w].members = u.members
          /\ worker'[w].claimed = u.claimed /\ worker'[w].firing = r
          /\ worker'[w].time = row[r].at
      BY <1>0, <3>2, <3>3 DEF WorkerType
    <3>7. QED
      BY <1>0, <3>1, <3>2, <3>3, <3>4, <3>5, <3>6 DEF Sound, Telling
  <2>3. QED
    BY <2>1, <2>2
<1>5. CASE Notify(w) \/ InsertDelivery(w) \/ Enqueue(w)
  <2>1. u.step \in Telling
    BY <1>5 DEF Notify, InsertDelivery, Enqueue, Telling
  <2>2. PICK s \in {"delivery", "enqueue", "next"} : worker'[w] = [u EXCEPT !.step = s]
    BY <1>0, <1>5 DEF Notify, InsertDelivery, Enqueue, Now
  <2>3. QED
    BY <1>0, <2>1, <2>2 DEF Sound, WorkerType, Telling
<1>6. CASE ReadNext(w)
  <2>1. PICK n \in Times \cup {Never} : worker'[w] = [u EXCEPT !.step = "write", !.next = n]
    BY <1>0, <1>6, NextTimeType DEF ReadNext, Now
  <2>2. u.step \in Telling
    BY <1>6 DEF ReadNext, Telling
  <2>3. QED
    BY <1>0, <2>1, <2>2 DEF Sound, WorkerType, Telling
<1>7. CASE Write(w)
  <2>1. u.step \in Telling /\ (Done(w, u.firing) \/ worker'[w] = [u EXCEPT !.step = "index"])
    BY <1>0, <1>7 DEF Write, Now, Me, Telling
  <2>2. u.firing \in Reminders \cup {NoOne}
    BY <1>0 DEF WorkerType
  <2>3. CASE worker'[w] = [u EXCEPT !.step = "index"]
    BY <1>0, <2>1, <2>3 DEF Sound, WorkerType, Telling
  <2>4. QED
    BY <1>3, <2>1, <2>2, <2>3
<1>8. CASE worker'[w] = Stopped
  BY <1>0, <1>8 DEF Sound, Stopped, WorkerType, Telling
<1>9. QED
  BY <1>0, <1>1, <1>2, <1>3, <1>4, <1>5, <1>6, <1>7, <1>8 DEF WorkerMoves

\* So every worker is sound after any step.
LEMMA WorkersStep ==
  ASSUME TypeOK, Grounded, [Next]_vars, NEW w \in Workers
  PROVE  WorkerOk(w)'
<1>1. PICK n : n = worker'[w]
  OBVIOUS
<1>2. Sound(n)
  BY <1>1, WorkersMove, WorkerStaysSound
<1>3. Sound(n)'
  <2>1. \A r \in Reminders : Made(r) => Made(r)'
    BY RowsStep
  <2>2. now' \in Nat /\ now \in Nat /\ now <= now'
    BY ClockStep DEF TypeOK
  <2>3. n.at \in Nat
    BY <1>2 DEF Sound, WorkerType
  <2>4. n.at <= now'
    BY <1>2, <2>2, <2>3 DEF Sound
  <2>5. QED
    BY <1>2, <2>1, <2>4 DEF Sound
<1>4. QED
  BY <1>1, <1>3 DEF WorkerOk

-----------------------------------------------------------------------------
(* What refers to a reminder, and the inbox *)

\* The index, the clients, the event and the sweep have a type, and refer to
\* what was made.
Refers ==
  /\ index \in [Reminders -> 0..MaxTime + 1]
  /\ client \in [Reminders -> [step : {"idle", "schedule", "unschedule"}, at : Times \cup {Never}]]
  /\ editor \in [listed : SUBSET Series, step : {"idle", "list", "row", "index"},
                 firing : Series \cup {NoOne}, at : Times \cup {Never}]
  /\ sweep \in [Reminders -> Times \cup {Never}]
  /\ \A r \in Reminders :
       index[r] # Never \/ client[r] # NoClient \/ sweep[r] # Never \/ r \in editor.listed \cup {editor.firing} => Made(r)

\* A step refers to nothing but what was made.
LEMMA RefersStep ==
  ASSUME TypeOK, Grounded, [Next]_vars
  PROVE  Refers'
<1>0. /\ Refers /\ now \in 0..MaxTime /\ row \in [Reminders -> Rows] /\ occurs \subseteq Times
      /\ row' \in [Reminders -> Rows] /\ \A r \in Reminders : Made(r) => Made(r)'
  BY RowsStep DEF Refers, TypeOK, Grounded
<1>1. ASSUME UNCHANGED <<index, client, editor, sweep>>
      PROVE  Refers'
  BY <1>0, <1>1 DEF Refers
<1>2. ASSUME NEW r \in Reminders, NEW t \in 0..MaxTime + 1, index' = [index EXCEPT ![r] = t],
             t # Never => Made(r), UNCHANGED <<editor, sweep>>,
             client' = client \/ client' = [client EXCEPT ![r] = NoClient]
      PROVE  Refers'
  BY <1>0, <1>2 DEF Refers, NoClient
<1>3. ASSUME NEW r \in Reminders, Create(r) \/ Snooze(r)
      PROVE  Refers'
  <2>1. PICK t \in Times : /\ client' = [client EXCEPT ![r] = [step |-> "schedule", at |-> t]]
                           /\ row' = [row EXCEPT ![r] = [status |-> "scheduled", at |-> t]]
    BY <1>0, <1>3, NextTimeType DEF Create, Snooze
  <2>2. Made(r)'
    BY <1>0, <2>1, NewRow DEF Made
  <2>3. UNCHANGED <<index, editor, sweep>>
    BY <1>3 DEF Create, Snooze
  <2>4. QED
    BY <1>0, <2>1, <2>2, <2>3 DEF Refers
<1>4. ASSUME NEW r \in Reminders, Dismiss(r)
      PROVE  Refers'
  <2>1. Made(r)'
    BY <1>0, <1>4 DEF Dismiss, Made
  <2>2. QED
    BY <1>0, <1>4, <2>1 DEF Dismiss, Refers
<1>5. ASSUME NEW r \in Reminders, IndexForClient(r)
      PROVE  Refers'
  <2>1. Made(r) /\ client[r].at \in 0..MaxTime + 1
    BY <1>0, <1>5 DEF IndexForClient, Refers
  <2>2. \E t \in 0..MaxTime + 1 : index' = [index EXCEPT ![r] = t]
    BY <1>5, <2>1 DEF IndexForClient, Schedule, Unscheduled
  <2>3. QED
    BY <1>2, <1>5, <2>1, <2>2 DEF IndexForClient
<1>6. CASE MoveEvent \/ List
  <2>1. \A r \in Reminders : row[r].status = "scheduled" => Made(r)
    BY DEF Made, NoRow
  <2>2. PICK found \in SUBSET Series, s \in {"idle", "list", "row"} :
          /\ editor' = [listed |-> found, step |-> s, firing |-> NoOne, at |-> Never]
          /\ \A r \in found : Made(r)
    <3>1. CASE MoveEvent
      BY <3>1 DEF MoveEvent, Idle
    <3>2. CASE List
      <4> DEFINE those == {r \in Series : row[r].status = "scheduled"}
      <4>1. those \in SUBSET Series /\ {} \in SUBSET Series /\ \A r \in those : Made(r)
        BY <2>1 DEF Reminders
      <4>2. editor' = IF those = {} THEN Idle ELSE [Idle EXCEPT !.step = "row", !.listed = those]
        BY <3>2 DEF List
      <4> HIDE DEF those
      <4>3. QED
        BY <4>1, <4>2 DEF Idle
    <3>3. QED
      BY <1>6, <3>1, <3>2
  <2>3. UNCHANGED <<index, client, sweep>>
    BY <1>6 DEF MoveEvent, List
  <2>4. QED
    BY <1>0, <2>2, <2>3 DEF Refers
<1>7. ASSUME NEW r \in Reminders, Reschedule(r)
      PROVE  Refers'
  <2>1. NextTime(now) \in Times \cup {Never}
    BY <1>0, NextTimeType
  <2>2. /\ r \in editor.listed /\ UNCHANGED <<index, client, sweep>>
        /\ editor' = [step |-> "index", listed |-> editor.listed \ {r}, firing |-> r,
                      at |-> NextTime(now)]
    BY <1>7 DEF Reschedule
  <2>3. editor.listed \in SUBSET Series
    BY <1>0 DEF Refers
  <2>4. QED
    BY <1>0, <2>1, <2>2, <2>3 DEF Refers
<1>8. ASSUME NEW r \in Reminders, IndexForEvent(r)
      PROVE  Refers'
  <2>1. Made(r) /\ editor.at \in 0..MaxTime + 1 /\ UNCHANGED <<client, sweep>>
    BY <1>0, <1>8 DEF IndexForEvent, Refers
  <2>2. PICK t \in 0..MaxTime + 1 : index' = [index EXCEPT ![r] = t]
    BY <1>8, <2>1 DEF IndexForEvent, Schedule, Unscheduled
  <2>3. editor' = Idle \/ editor' = [editor EXCEPT !.step = "row", !.firing = NoOne, !.at = Never]
    BY <1>8 DEF IndexForEvent
  <2>4. /\ editor' \in [listed : SUBSET Series, step : {"idle", "list", "row", "index"},
                        firing : Series \cup {NoOne}, at : Times \cup {Never}]
        /\ editor'.listed \subseteq editor.listed /\ editor'.firing = NoOne
    <3>1. CASE editor' = Idle
      BY <3>1 DEF Idle
    <3>2. CASE editor' = [editor EXCEPT !.step = "row", !.firing = NoOne, !.at = Never]
      BY <1>0, <3>2 DEF Refers
    <3>3. QED
      BY <2>3, <3>1, <3>2
  <2>5. \A q \in Reminders : q \in editor'.listed \cup {editor'.firing} => Made(q)
    BY <1>0, <2>4 DEF Refers
  <2>6. QED
    BY <1>0, <2>1, <2>2, <2>4, <2>5 DEF Refers
<1>9. ASSUME NEW w \in Workers, Fires(w) \/ Fail(w)
      PROVE  Refers'
  <2>0. Sound(worker[w]) /\ worker[w] \in WorkerType
    BY DEF Grounded, WorkerOk, Sound
  <2>1. CASE \E r \in Reminders : Claim(w, r)
    <3>1. PICK r \in Reminders : Claim(w, r)
      BY <2>1
    <3>2. index' = [index EXCEPT ![r] = Never] /\ UNCHANGED <<client, editor, sweep>>
      BY <3>1 DEF Claim, Unscheduled
    <3>3. Never \in 0..MaxTime + 1
      OBVIOUS
    <3>4. QED
      BY <1>2, <3>2, <3>3
  <2>2. CASE PutBack(w) \/ IndexNext(w) \/ Fail(w)
    <3>1. Me(w) \in Reminders /\ Made(Me(w))
      BY <2>0, <2>2 DEF Sound, WorkerType, Telling, PutBack, IndexNext, Fail, Me
    <3>2. \E t \in 0..MaxTime + 1 : index' = [index EXCEPT ![Me(w)] = t]
      BY <2>0, <2>2 DEF WorkerType, PutBack, IndexNext, Fail, Schedule
    <3>3. UNCHANGED <<client, editor, sweep>>
      BY <2>2 DEF PutBack, IndexNext, Fail
    <3>4. QED
      BY <1>2, <3>1, <3>2, <3>3
  <2>3. CASE \/ Tick(w) \/ Notify(w) \/ InsertDelivery(w) \/ Enqueue(w) \/ ReadNext(w) \/ Write(w)
             \/ \E r \in Reminders : Fire(w, r)
    BY <1>1, <2>3 DEF Tick, Notify, InsertDelivery, Enqueue, ReadNext, Write, Fire
  <2>4. QED
    BY <1>9, <2>1, <2>2, <2>3 DEF Fires
<1>10. CASE Die
  <2>1. \/ client' = client
        \/ \E r \in Reminders : client' = [client EXCEPT ![r] = NoClient]
    BY <1>10 DEF Die
  <2>2. UNCHANGED <<index, editor, sweep>>
    BY <1>10 DEF Die
  <2>3. QED
    BY <1>0, <2>1, <2>2 DEF Refers, NoClient
<1>11. CASE Sweep
  <2>1. ASSUME NEW r \in Reminders, row[r].status = "scheduled"
        PROVE  Made(r) /\ row[r].at \in Times
    <3>1. row[r] \in Rows /\ row[r] # NoRow
      BY <1>0, <2>1 DEF NoRow
    <3>2. QED
      BY <3>1, RowEdits DEF Made
  <2>2. sweep' = [r \in Reminders |-> IF row[r].status = "scheduled" THEN row[r].at ELSE Never]
    BY <1>11 DEF Sweep
  <2>3. UNCHANGED <<index, client, editor>>
    BY <1>11 DEF Sweep
  <2>4. QED
    BY <1>0, <2>1, <2>2, <2>3 DEF Refers
<1>12. ASSUME NEW r \in Reminders, Reindex(r)
       PROVE  Refers'
  <2>1. Made(r) /\ sweep[r] \in 0..MaxTime + 1
    BY <1>0, <1>12 DEF Reindex, Refers
  <2>2. index' = [index EXCEPT ![r] = sweep[r]] /\ sweep' = [sweep EXCEPT ![r] = Never]
        /\ UNCHANGED <<client, editor>>
    BY <1>12 DEF Reindex, Schedule
  <2>3. QED
    BY <1>0, <2>1, <2>2 DEF Refers
<1>13. CASE Clock \/ (\E k \in Keys : Deliver(k)) \/ UNCHANGED vars
  BY <1>1, <1>13 DEF Clock, Deliver, vars
<1>14. QED
  BY <1>3, <1>4, <1>5, <1>6, <1>7, <1>8, <1>9, <1>10, <1>11, <1>12, <1>13 DEF Next, Follows

\* What is told is told for the first time, and its time has come.
LEMMA InboxStep ==
  ASSUME TypeOK, Grounded, ToldProperly, [Next]_vars
  PROVE  /\ ToldProperly' /\ notified' \subseteq Keys /\ told' \in [Keys -> Nat]
         /\ mail' \in [Keys -> {"none", "row", "job", "sent", "failed"}]
<1>0. /\ notified \subseteq Keys /\ told \in [Keys -> Nat] /\ now \in 0..MaxTime
      /\ mail \in [Keys -> {"none", "row", "job", "sent", "failed"}]
      /\ now' \in 0..MaxTime /\ now <= now'
  BY ClockStep DEF TypeOK
<1>1. \A k \in notified : k \in Keys /\ k[2] \in Times /\ k[2] <= now'
  BY <1>0 DEF ToldProperly, Keys
<1>2. ASSUME NEW w \in Workers, Notify(w) \/ InsertDelivery(w) \/ Enqueue(w)
      PROVE  Key(w) \in Keys /\ Key(w)[2] <= now
  <2>1. Sound(worker[w])
    BY DEF Grounded, WorkerOk
  <2>2. worker[w].step \in Telling
    BY <1>2 DEF Notify, InsertDelivery, Enqueue, Telling
  <2>3. /\ Me(w) \in Reminders /\ worker[w].time \in Times
        /\ worker[w].time <= worker[w].at /\ worker[w].at <= now
    BY <2>1, <2>2 DEF Sound, Me
  <2>4. worker[w].at \in Nat
    BY <2>1 DEF Sound, WorkerType
  <2>5. QED
    BY <1>0, <2>3, <2>4 DEF Key, Keys
<1>3. ASSUME NEW w \in Workers, Notify(w), Key(w) \notin notified
      PROVE  /\ ToldProperly' /\ notified' \subseteq Keys /\ told' \in [Keys -> Nat] /\ mail' = mail
  <2>1. PICK k \in Keys : k = Key(w) /\ k[2] <= now /\ k[2] \in Times
    BY <1>2, <1>3 DEF Keys
  <2>2. /\ notified' = notified \cup {k} /\ told' = [told EXCEPT ![k] = @ + 1]
        /\ mail' = mail /\ now' = now
    BY <1>3, <2>1 DEF Notify
  <2>3. told[k] = 0
    BY <1>3, <2>1 DEF ToldProperly
  <2>4. QED
    BY <1>0, <2>1, <2>2, <2>3 DEF ToldProperly
<1>4. ASSUME UNCHANGED <<notified, told>>
      PROVE  ToldProperly' /\ notified' \subseteq Keys /\ told' \in [Keys -> Nat]
  BY <1>0, <1>1, <1>4 DEF ToldProperly
<1>5. /\ \/ UNCHANGED <<notified, told>>
         \/ \E w \in Workers : Notify(w) /\ Key(w) \notin notified
      /\ \/ UNCHANGED mail
         \/ \E w \in Workers : InsertDelivery(w) \/ Enqueue(w)
         \/ \E k \in Keys : Deliver(k)
  BY DEF Next, vars, Follows, Fires, Fail, Die, Sweep, Reindex, Clock, Deliver, MoveEvent, List,
         Create, Snooze, Dismiss, Reschedule, IndexForClient, IndexForEvent, Tick, Claim, Fire,
         PutBack, Notify, InsertDelivery, Enqueue, ReadNext, Write, IndexNext, inbox
<1>6. mail' \in [Keys -> {"none", "row", "job", "sent", "failed"}]
  BY <1>0, <1>5 DEF InsertDelivery, Enqueue, Deliver
<1>7. QED
  BY <1>0, <1>3, <1>4, <1>5, <1>6

-----------------------------------------------------------------------------
(* The theorems *)

\* Type correctness: every variable has its type after any step, and what is
\* counted or remembered too.
LEMMA TypeStep ==
  ASSUME TypeOK, Grounded, ToldProperly, [Next]_vars
  PROVE  TypeOK' /\ Grounded' /\ ToldProperly'
<1>1. /\ now' \in 0..MaxTime /\ row' \in [Reminders -> Rows] /\ Refers' /\ ToldProperly'
      /\ notified' \subseteq Keys /\ told' \in [Keys -> Nat]
      /\ mail' \in [Keys -> {"none", "row", "job", "sent", "failed"}]
  BY ClockStep, RowsStep, RefersStep, InboxStep
<1>2. \A w \in Workers : WorkerOk(w)'
  BY WorkersStep
<1>3. worker' \in [Workers -> WorkerType]
  <2>1. \A w \in Workers : worker'[w] \in WorkerType
    BY <1>2 DEF WorkerOk, Sound
  <2>2. worker' = worker \/ \E w \in Workers : \E u : worker' = [worker EXCEPT ![w] = u]
    <3>1. ASSUME NEW w \in Workers, Fires(w) \/ Fail(w)
          PROVE  \E u : worker' = [worker EXCEPT ![w] = u]
      BY <3>1 DEF Fires, Fail, Tick, Claim, Fire, PutBack, Notify, InsertDelivery, Enqueue, ReadNext,
             Write, IndexNext, Done, Now
    <3>2. CASE Die
      BY <3>2 DEF Die
    <3>3. \/ worker' = worker \/ Die
          \/ \E w \in Workers : Fires(w) \/ Fail(w)
      BY DEF Next, vars, Follows, Sweep, Reindex, Clock, Deliver, MoveEvent, List, Create, Snooze,
             Dismiss, Reschedule, IndexForClient, IndexForEvent
    <3>4. QED
      BY <3>1, <3>2, <3>3
  <2>3. QED
    BY <2>1, <2>2 DEF TypeOK
<1>4. Grounded'
  BY <1>1, <1>2 DEF Grounded, Refers
<1>5. plan' = plan /\ edits' \in Nat /\ faults' \in Nat
  <2>1. /\ plan' = plan
        /\ edits' = edits \/ (edits > 0 /\ edits' = edits - 1)
        /\ faults' = faults \/ (faults > 0 /\ faults' = faults - 1)
    BY DEF Next, vars, budget, Follows, Fires, Fail, Die, Sweep, Reindex, Clock, Deliver, MoveEvent,
           List, Create, Snooze, Dismiss, Reschedule, IndexForClient, IndexForEvent, Tick, Claim,
           Fire, PutBack, Notify, InsertDelivery, Enqueue, ReadNext, Write, IndexNext
  <2>2. QED
    BY <2>1 DEF TypeOK
<1>6. occurs' \subseteq Times
  <2>1. occurs' = occurs \/ occurs' \in plan.moves
    BY DEF Next, vars, Follows, Fires, Fail, Die, Sweep, Reindex, Clock, Deliver, MoveEvent, List,
           Create, Snooze, Dismiss, Reschedule, IndexForClient, IndexForEvent, Tick, Claim, Fire,
           PutBack, Notify, InsertDelivery, Enqueue, ReadNext, Write, IndexNext
  <2>2. plan.moves \in SUBSET SUBSET Times
    BY DEF TypeOK
  <2>3. QED
    BY <2>1, <2>2 DEF TypeOK
<1>7. asked' \in [Reminders -> Times \cup {Never}] /\ overtaken' \subseteq Reminders
  <2>0. /\ asked \in [Reminders -> Times \cup {Never}] /\ overtaken \subseteq Reminders
        /\ now \in 0..MaxTime /\ occurs \subseteq Times
    BY DEF TypeOK
  <2>1. ASSUME NEW r \in Reminders, Create(r) \/ Snooze(r) \/ Dismiss(r)
        PROVE  /\ \E t \in Times \cup {Never} : asked' = [asked EXCEPT ![r] = t]
               /\ overtaken' = overtaken
    BY <2>0, <2>1, NextTimeType DEF Create, Snooze, Dismiss
  <2>2. ASSUME NEW r \in Reminders, Reschedule(r)
        PROVE  /\ \E t \in Times \cup {Never} : asked' = [asked EXCEPT ![r] = t]
               /\ overtaken' \subseteq Reminders
    <3>1. NextTime(now) \in Times \cup {Never}
      BY <2>0, NextTimeType
    <3>2. QED
      BY <2>0, <2>2, <3>1 DEF Reschedule
  <2>3. ASSUME NEW w \in Workers, Write(w)
        PROVE  asked' \in [Reminders -> Times \cup {Never}] /\ overtaken' \subseteq Reminders
    <3>1. Sound(worker[w])
      BY DEF Grounded, WorkerOk
    <3>2. worker[w].next \in Times \cup {Never} /\ Me(w) \in Reminders
      BY <2>3, <3>1 DEF Sound, WorkerType, Telling, Write, Me
    <3>3. \/ asked' = asked
          \/ asked' = [asked EXCEPT ![Me(w)] = worker[w].next]
      BY <2>0, <2>3, <3>2 DEF Write
    <3>4. overtaken' = overtaken \/ overtaken' = overtaken \cup {Me(w)}
      BY <2>3 DEF Write
    <3>5. QED
      BY <2>0, <3>2, <3>3, <3>4
  <2>4. \/ UNCHANGED <<asked, overtaken>>
        \/ \E r \in Reminders : Create(r) \/ Snooze(r) \/ Dismiss(r) \/ Reschedule(r)
        \/ \E w \in Workers : Write(w)
    BY DEF Next, vars, history, Follows, Fires, Fail, Die, Sweep, Reindex, Clock, Deliver, MoveEvent,
           List, IndexForClient, IndexForEvent, Tick, Claim, Fire, PutBack, Notify, InsertDelivery,
           Enqueue, ReadNext, IndexNext
  <2>5. QED
    BY <2>0, <2>1, <2>2, <2>3, <2>4
<1>8. cut' \subseteq Keys
  <2>1. ASSUME NEW w \in Workers, worker[w].step \in {"delivery", "enqueue"}
        PROVE  Key(w) \in Keys
    BY <2>1 DEF Grounded, WorkerOk, Sound, Telling, Key, Keys, Me
  <2>2. cut' = cut \/ \E w \in Workers : CutShort(w)
    BY DEF Next, vars, history, Follows, Fires, Fail, Die, Sweep, Reindex, Clock, Deliver, MoveEvent,
           List, Create, Snooze, Dismiss, Reschedule, IndexForClient, IndexForEvent, Tick, Claim,
           Fire, PutBack, Notify, InsertDelivery, Enqueue, ReadNext, Write, IndexNext
  <2>3. QED
    BY <2>1, <2>2 DEF CutShort, TypeOK
<1>9. QED
  BY <1>1, <1>3, <1>4, <1>5, <1>6, <1>7, <1>8 DEF TypeOK, WorkerType, Refers

\* It all holds at the start, when there are no reminders.
LEMMA InitOk ==
  ASSUME Init
  PROVE  TypeOK /\ Grounded /\ ToldProperly
<1>1. TypeOK
  BY DEF Init, TypeOK, Rows, NoRow, NoClient, Idle, Stopped, Keys
<1>2. Grounded
  BY DEF Init, Grounded, WorkerOk, Sound, WorkerType, Telling, Stopped, Idle, NoClient
<1>3. ToldProperly
  BY DEF Init, ToldProperly
<1>4. QED
  BY <1>1, <1>2, <1>3

\* The types hold at all times, and with them what they rest on.
THEOREM RemindersSound == Spec => [](TypeOK /\ Grounded /\ ToldProperly)
<1>1. TypeOK /\ Grounded /\ ToldProperly /\ [Next]_vars => (TypeOK /\ Grounded /\ ToldProperly)'
  BY TypeStep
<1>2. QED
  BY <1>1, InitOk, PTL DEF Spec

\* fireDue, "safe to run concurrently on several workers": a reminder is told
\* once for each of its times, and never before it, whatever the workers, the
\* sweeps, the users and the faults do.
THEOREM RemindersToldOnce == Spec => []ToldOnceInTime
<1>1. TypeOK /\ ToldProperly => ToldOnceInTime
  BY DEF TypeOK, ToldProperly, ToldOnceInTime
<1>2. QED
  BY <1>1, RemindersSound, PTL
-----------------------------------------------------------------------------
(***************************************************************************)
(* The event that the reminders of a series belong to: Calendar, for any   *)
(* requests, patches and changes, any rules, zones and windows.            *)
(***************************************************************************)

CONSTANTS Offset(_, _), MaxSteps, MaxCount, Requests, Scripts, Windows, Leads, Widen, Ahead, MaxReminders
VARIABLES event, exceptions, request, script, writes, late

C == INSTANCE Calendar WITH Plans <- Scripts, plan <- script

-----------------------------------------------------------------------------
(* The inductive invariant *)

\* What of an event is never taken away, and its version.
EventOk(e) ==
  /\ {"timezone", "startsAt", "endsAt", "rrule", "version", "seriesEndsAt", "status", "deleted"} \subseteq DOMAIN e
  /\ e.version \in Nat

\* A request has read this version of the event, or an earlier one ...
ReadOk(q) ==
  q.op # "none" =>
    /\ event # C!Absent /\ q.read.version \in Nat /\ q.read.version <= event.version
    /\ q.op = "update" => q.patch \in UNION {p.patches : p \in Scripts}

\* ... and if it has read this one, the occurrence it is about is one of the series now.
ChangeOk(q) == q.op = "change" /\ q.read.version = event.version => q.at \in C!RuleStarts(event)

\* Removed or not, all other exceptions belong to the series.
Belongs == \A at \in DOMAIN exceptions \ late : at \in C!RuleStarts(event)

RequestsOk == \A r \in Requests : ReadOk(request[r]) /\ ChangeOk(request[r])

EventInv ==
  /\ script \in Scripts /\ DOMAIN request = Requests
  /\ event # C!Absent => EventOk(event)
  /\ event = C!Absent => DOMAIN exceptions = {}
  /\ RequestsOk /\ (event # C!Absent => Belongs)

-----------------------------------------------------------------------------
(* Occurrences *)

\* Which occurrences a series has is a matter of its start, its zone and its rule.
LEMMA SameStarts ==
  ASSUME NEW e, NEW f, e.rrule = f.rrule, e.startsAt = f.startsAt, e.timezone = f.timezone
  PROVE  C!RuleStarts(e) = C!RuleStarts(f)
  <1>1. C!BaseDay(e) = C!BaseDay(f) /\ C!BaseTime(e) = C!BaseTime(f)
    BY DEF C!BaseDay, C!BaseTime
  <1>2. C!RuleDays(e) = C!RuleDays(f)
    BY <1>1 DEF C!RuleDays
  <1> DEFINE S(days, base, time, start, rule, zone) ==
        LET day(d) == IF d = base THEN start ELSE C!zonedToUtc(d * C!Day + time, zone)
            all     == {t \in {day(d) : d \in days} : t >= start /\ (rule.until = C!Never \/ t <= rule.until)}
            before(t) == C!Cardinality({u \in all : u < t})
        IN IF rule = C!NoRule THEN {start} ELSE {t \in all : rule.count = 0 \/ before(t) < rule.count}
  <1>3. /\ C!RuleStarts(e) = S(C!RuleDays(e), C!BaseDay(e), C!BaseTime(e), e.startsAt, e.rrule, e.timezone)
        /\ C!RuleStarts(f) = S(C!RuleDays(f), C!BaseDay(f), C!BaseTime(f), f.startsAt, f.rrule, f.timezone)
    BY DEF C!RuleStarts, C!StartOn
  <1> HIDE DEF S
  <1>4. QED
    BY <1>1, <1>2, <1>3

\* A patch over an event with a new version: the occurrences are the same
\* unless the patch is about them.
LEMMA PatchedEvent ==
  ASSUME EventOk(event), NEW patch, NEW old, NEW v \in Nat, NEW e, e = C!Over(patch, old),
         DOMAIN patch \subseteq {"timezone", "startsAt", "endsAt", "rrule", "status"},
         DOMAIN old = DOMAIN event, old.version = v,
         old.startsAt = event.startsAt, old.timezone = event.timezone, old.rrule = event.rrule
  PROVE  /\ EventOk(e) /\ e.version = v
         /\ ~C!MakesExceptionsVoid(patch) => C!RuleStarts(e) = C!RuleStarts(event)
  <1>1. /\ DOMAIN e = DOMAIN patch \cup DOMAIN old
        /\ \A x \in DOMAIN e : e[x] = IF x \in DOMAIN patch THEN patch[x] ELSE old[x]
    BY DEF C!Over
  <1>2. EventOk(e) /\ e.version = v
    BY <1>1 DEF EventOk
  <1>3. ASSUME ~C!MakesExceptionsVoid(patch)
        PROVE  C!RuleStarts(e) = C!RuleStarts(event)
    <2>1. "rrule" \notin DOMAIN patch /\ "startsAt" \notin DOMAIN patch /\ "timezone" \notin DOMAIN patch
      BY <1>3 DEF C!MakesExceptionsVoid
    <2>2. e.rrule = event.rrule /\ e.startsAt = event.startsAt /\ e.timezone = event.timezone
      BY <1>1, <2>1 DEF EventOk
    <2>3. QED
      BY <2>2, SameStarts
  <1>4. QED
    BY <1>2, <1>3

-----------------------------------------------------------------------------
(* The steps *)

\* An event is created: it has no exceptions, and nobody has read it.
LEMMA StepCreate ==
  ASSUME C!Sendable, EventInv, C!Create
  PROVE  EventInv'
  <1>1. event = C!Absent /\ DOMAIN exceptions = {} /\ script \in Scripts
    BY DEF EventInv, C!Create
  <1>2. PICK new : new = [seriesEndsAt |-> C!seriesEnd(script.event), status |-> "confirmed", deleted |-> FALSE, version |-> 1]
    OBVIOUS
  <1>3. DOMAIN new = {"seriesEndsAt", "status", "deleted", "version"} /\ new.version = 1
    BY <1>2
  <1>4. event' = C!Over(script.event, new)
    BY <1>2 DEF C!Create
  <1>5. DOMAIN script.event = {"timezone", "startsAt", "endsAt", "rrule"}
    BY <1>1, C!Sendable DEF C!Sendable
  <1>6. DOMAIN event' = DOMAIN script.event \cup DOMAIN new /\ event'["version"] = new["version"]
    BY <1>3, <1>4, <1>5 DEF C!Over
  <1>7. EventOk(event')
    BY <1>3, <1>5, <1>6 DEF EventOk
  <1>8. \A r \in Requests : request[r].op = "none"
    BY <1>1 DEF EventInv, RequestsOk, ReadOk
  <1>9. UNCHANGED <<exceptions, request, script, late>>
    BY DEF C!Create
  <1>10. RequestsOk'
    BY <1>8, <1>9 DEF RequestsOk, ReadOk, ChangeOk
  <1>11. event' # C!Absent
    BY <1>5, <1>6, <1>7 DEF EventOk, C!Absent
  <1>12. QED
    BY <1>1, <1>7, <1>9, <1>10, <1>11 DEF EventInv, Belongs

\* A request begins, with what it has read.
LEMMA StepStart ==
  ASSUME EventInv, NEW r \in Requests, NEW q, C!Start(r, q),
         q.op # "none", q.read = event,
         q.op = "update" => q.patch \in UNION {p.patches : p \in Scripts},
         q.op = "change" => q.at \in C!RuleStarts(event)
  PROVE  EventInv'
  <1>1. event # C!Absent /\ EventOk(event)
    BY DEF EventInv, C!Start, C!Live
  <1>2. UNCHANGED <<event, exceptions, script, late>> /\ request' = [request EXCEPT ![r] = q]
    BY DEF C!Start
  <1>3. DOMAIN request' = Requests /\ request'[r] = q /\ \A s \in Requests \ {r} : request'[s] = request[s]
    BY <1>2 DEF EventInv
  <1>4. ReadOk(q)' /\ ChangeOk(q)'
    BY <1>1, <1>2 DEF ReadOk, ChangeOk, EventOk
  <1>5. \A s \in Requests : ReadOk(request[s])' /\ ChangeOk(request[s])'
    BY <1>2, <1>3, <1>4 DEF EventInv, RequestsOk, ReadOk, ChangeOk
  <1>6. QED
    BY <1>2, <1>3, <1>5 DEF EventInv, RequestsOk, Belongs

\* The event is patched: whoever has read it before is late from now on. Its
\* exceptions are void if its occurrences are others now.
LEMMA StepCommitUpdate ==
  ASSUME C!Sendable, EventInv, NEW r \in Requests, C!CommitUpdate(r)
  PROVE  EventInv'
  <1>1. PICK t : t = request[r]
    OBVIOUS
  <1>2. t.op = "update" /\ t.read.version = event.version
    BY <1>1 DEF C!CommitUpdate, C!Stale
  <1>3. /\ event # C!Absent /\ EventOk(event) /\ script \in Scripts
        /\ DOMAIN t.patch \subseteq {"timezone", "startsAt", "endsAt", "rrule", "status"}
    <2>1. ReadOk(t)
      BY <1>1 DEF EventInv, RequestsOk
    <2>2. event # C!Absent /\ \E p \in Scripts : t.patch \in p.patches
      BY <1>2, <2>1 DEF ReadOk
    <2>3. QED
      BY <2>2, C!Sendable DEF C!Sendable, EventInv
  <1>4. PICK v \in Nat : v = event.version + 1
    BY <1>3 DEF EventOk
  <1>5. PICK old : old = [event EXCEPT !.seriesEndsAt = C!seriesEnd(C!Over(t.patch, t.read)), !.version = v]
    OBVIOUS
  <1>6. /\ DOMAIN old = DOMAIN event /\ old.version = v
        /\ old.startsAt = event.startsAt /\ old.timezone = event.timezone /\ old.rrule = event.rrule
    BY <1>3, <1>5 DEF EventOk
  <1>7. /\ EventOk(event') /\ event'.version = v
        /\ ~C!MakesExceptionsVoid(t.patch) => C!RuleStarts(event') = C!RuleStarts(event)
    <2>1. event' = C!Over(t.patch, old)
      BY <1>1, <1>2, <1>4, <1>5 DEF C!CommitUpdate
    <2>2. QED
      BY <1>3, <1>6, <2>1, PatchedEvent
  <1>8. event' # C!Absent
    BY <1>7 DEF EventOk, C!Absent
  <1>9. Belongs'
    <2>1. CASE C!MakesExceptionsVoid(t.patch)
      BY <1>1, <2>1 DEF C!CommitUpdate, Belongs
    <2>2. CASE ~C!MakesExceptionsVoid(t.patch)
      BY <1>1, <1>3, <1>7, <2>2 DEF C!CommitUpdate, Belongs, EventInv
    <2>3. QED
      BY <2>1, <2>2
  <1>10. /\ request' = [request EXCEPT ![r] = C!NoRequest] /\ script' = script
    BY DEF C!CommitUpdate, C!End
  <1>11. ASSUME NEW s \in Requests
         PROVE  ReadOk(request[s])' /\ ChangeOk(request[s])'
    <2>1. CASE s = r
      BY <1>10, <2>1 DEF EventInv, C!NoRequest, ReadOk, ChangeOk
    <2>2. CASE s # r
      <3>1. request'[s] = request[s]
        BY <1>10, <2>2 DEF EventInv
      <3>2. PICK q : q = request[s]
        OBVIOUS
      <3>3. ReadOk(q)
        BY <3>2 DEF EventInv, RequestsOk
      <3>4. q.op # "none" => q.read.version \in Nat /\ q.read.version < event'.version
        BY <1>3, <1>4, <1>7, <3>3 DEF ReadOk, EventOk
      <3>5. ReadOk(q)' /\ ChangeOk(q)'
        BY <1>8, <3>3, <3>4, <1>4, <1>7 DEF ReadOk, ChangeOk
      <3>6. QED
        BY <3>1, <3>2, <3>5 DEF ReadOk, ChangeOk
    <2>3. QED
      BY <2>1, <2>2
  <1>12. QED
    BY <1>3, <1>7, <1>8, <1>9, <1>10, <1>11 DEF EventInv, RequestsOk

\* What a request of another knows stays true where the event stays.
LEMMA StepEnds ==
  ASSUME EventInv, NEW r \in Requests, C!End(r), UNCHANGED <<event, script>>,
         event = C!Absent => UNCHANGED exceptions, event # C!Absent => Belongs'
  PROVE  EventInv'
  <1>1. DOMAIN request' = Requests /\ request'[r] = C!NoRequest /\ \A s \in Requests \ {r} : request'[s] = request[s]
    BY DEF C!End, EventInv
  <1>2. \A s \in Requests : ReadOk(request[s])' /\ ChangeOk(request[s])'
    BY <1>1 DEF EventInv, RequestsOk, ReadOk, ChangeOk, C!NoRequest
  <1>3. QED
    BY <1>1, <1>2 DEF EventInv, RequestsOk

\* An exception is written: it belongs to the series, or it comes late.
LEMMA StepCommitChange ==
  ASSUME EventInv, NEW r \in Requests, C!CommitChange(r)
  PROVE  EventInv'
  <1>1. PICK t : t = request[r]
    OBVIOUS
  <1>2. t.op = "change" /\ C!End(r) /\ UNCHANGED <<event, script>>
    BY <1>1 DEF C!CommitChange
  <1>3. event # C!Absent /\ Belongs /\ ChangeOk(t)
    BY <1>1, <1>2 DEF EventInv, RequestsOk, ReadOk
  <1>4. DOMAIN exceptions' = DOMAIN exceptions \cup {t.at}
    BY <1>1 DEF C!CommitChange, C!Over
  <1>5. Belongs'
    <2>1. CASE C!Stale(r)
      <3>1. late' = late \cup {t.at}
        BY <1>1, <2>1 DEF C!CommitChange
      <3>2. QED
        BY <1>2, <1>3, <1>4, <3>1 DEF Belongs
    <2>2. CASE ~C!Stale(r)
      <3>1. late' = late \ {t.at} /\ t.at \in C!RuleStarts(event)
        BY <1>1, <1>2, <1>3, <2>2 DEF C!CommitChange, C!Stale, ChangeOk
      <3>2. QED
        BY <1>2, <1>3, <1>4, <3>1 DEF Belongs
    <2>3. QED
      BY <2>1, <2>2
  <1>6. QED
    BY <1>2, <1>3, <1>5, StepEnds

\* A removed event keeps its occurrences.
LEMMA StepRemove ==
  ASSUME EventInv, C!removeEvent
  PROVE  EventInv'
  <1>1. event # C!Absent /\ EventOk(event) /\ event' = [event EXCEPT !.deleted = TRUE]
        /\ UNCHANGED <<exceptions, request, script, late>>
    BY DEF EventInv, C!removeEvent, C!Live
  <1>2. /\ DOMAIN event' = DOMAIN event /\ event'.version = event.version
        /\ event'.rrule = event.rrule /\ event'.startsAt = event.startsAt /\ event'.timezone = event.timezone
    BY <1>1 DEF EventOk
  <1>3. C!RuleStarts(event') = C!RuleStarts(event)
    BY <1>2, SameStarts
  <1>4. EventOk(event') /\ event' # C!Absent
    BY <1>1, <1>2 DEF EventOk, C!Absent
  <1>5. \A r \in Requests : ReadOk(request[r])' /\ ChangeOk(request[r])'
    BY <1>1, <1>2, <1>3, <1>4 DEF EventInv, RequestsOk, ReadOk, ChangeOk
  <1>6. QED
    BY <1>1, <1>3, <1>4, <1>5 DEF EventInv, RequestsOk, Belongs

\* Every step keeps the invariant.
LEMMA EventStep ==
  ASSUME C!Sendable, EventInv, [C!Next]_(C!vars)
  PROVE  EventInv'
  <1>1. ASSUME NEW r \in Requests, NEW patch \in script.patches, C!ReadUpdate(r, patch)
        PROVE  EventInv'
    <2>1. PICK q : q = [op |-> "update", patch |-> patch, read |-> event]
      OBVIOUS
    <2>2. C!Start(r, q) /\ q.op = "update" /\ q.read = event /\ q.patch \in UNION {p.patches : p \in Scripts}
      BY <1>1, <2>1 DEF C!ReadUpdate, EventInv
    <2>3. QED
      BY <2>2, StepStart
  <1>2. ASSUME NEW r \in Requests, NEW change \in script.changes, C!ReadChange(r, change)
        PROVE  EventInv'
    <2>1. PICK at \in C!RuleStarts(event) :
            C!Start(r, [op |-> "change", at |-> at, read |-> event,
                      to |-> C!Exception(change.cancelled,
                                       IF change.start = C!Never THEN C!Never ELSE at + change.start,
                                       IF change.end = C!Never THEN C!Never ELSE at + change.end)])
      BY <1>2 DEF C!ReadChange
    <2>2. PICK to : to = C!Exception(change.cancelled,
                                   IF change.start = C!Never THEN C!Never ELSE at + change.start,
                                   IF change.end = C!Never THEN C!Never ELSE at + change.end)
      OBVIOUS
    <2>3. PICK q : q = [op |-> "change", at |-> at, read |-> event, to |-> to]
      OBVIOUS
    <2>4. C!Start(r, q) /\ q.op = "change" /\ q.read = event /\ q.at \in C!RuleStarts(event)
      BY <2>1, <2>2, <2>3
    <2>5. QED
      BY <2>4, StepStart
  <1>3. ASSUME NEW r \in Requests, C!VersionConflict(r)
        PROVE  EventInv'
    BY <1>3, StepEnds DEF C!VersionConflict, EventInv, Belongs
  <1>4. CASE UNCHANGED C!vars
    BY <1>4 DEF C!vars, EventInv, RequestsOk, ReadOk, ChangeOk, Belongs
  <1>5. QED
    BY <1>1, <1>2, <1>3, <1>4, StepCreate, StepCommitUpdate, StepCommitChange, StepRemove DEF C!Next

-----------------------------------------------------------------------------

\* Whatever order edits of a series and changes of its occurrences come in, an
\* exception belongs to an occurrence of the series as it is now, unless it was
\* written by a request that had read the series as it was before.
THEOREM ExceptionsOfTheSeries ==
  ASSUME C!Sendable
  PROVE  C!Spec => []C!ExceptionsBelong
  <1>1. C!Init => EventInv
    BY DEF C!Init, EventInv, C!Absent, C!NoRequest, RequestsOk, ReadOk, ChangeOk, Belongs
  <1>2. EventInv => C!ExceptionsBelong
    BY DEF EventInv, Belongs, C!ExceptionsBelong, C!Live
  <1>3. EventInv /\ [C!Next]_(C!vars) => EventInv'
    BY EventStep
  <1>4. QED
    BY <1>1, <1>2, <1>3, PTL DEF C!Spec
=============================================================================
