----------------------------- MODULE Reminders -----------------------------
(* Reminders of one tenant: the rows in its database, the index of what is   *)
(* due in Redis, the workers that claim and fire, the hourly sweep that      *)
(* rebuilds the index, and the notifications and e-mails that result.  Users *)
(* create, snooze and dismiss; an event moves its own reminders.  Every      *)
(* await is a point where others run, or where the process dies.             *)
EXTENDS Naturals, FiniteSets, FiniteSetsExt

CONSTANTS
  Alarms,    \* reminders for a time
  Series,    \* reminders a lead before each occurrence of one event
  Workers,
  MaxTime,   \* a bound
  NoOne,     \* a model value
  Plans      \* the workers that run, the reminders to be made, those with e-mail, the times
             \* the event has and is moved to, and, bounds, how many edits and faults there are

Reminders == Alarms \cup Series
Times     == 1..MaxTime
Never     == 0

ASSUME RemindersAssumption ==
  /\ Alarms \cap Series = {} /\ NoOne \notin Reminders /\ MaxTime \in Nat
  /\ Plans \subseteq [workers : SUBSET Workers, makes : SUBSET Reminders, mails : SUBSET Reminders, occurs : SUBSET Times,
                      moves : SUBSET SUBSET Times, edits : Nat, faults : Nat]

VARIABLES
  now,        \* the clock
  occurs,     \* reminder times the event yields now (none when it is cancelled)
  row,        \* table reminders
  index,      \* sorted set platform:reminders:due: the score of each reminder
  client,     \* the second half of create, update and dismiss, per reminder
  editor,     \* rescheduleReminders
  sweep,      \* reindexTenant: what it has still to add
  worker,     \* fireDue
  notified,   \* table notifications, by dedupe key: reminder and time
  told,       \* history: how often each of them was published
  mail,       \* table notification_deliveries, and the job of each
  plan, edits, faults,
  asked,      \* history: the time the user, or the event, last asked for
  overtaken,  \* history: reminders written over a row that had changed since it was read
  cut         \* history: notifications whose e-mail a fault cut short

vars == <<now, occurs, row, index, client, editor, sweep, worker, notified, told, mail,
          plan, edits, faults, asked, overtaken, cut>>

NoRow    == [status |-> "none", at |-> Never]
Rows     == {NoRow} \cup [status : {"scheduled", "sent", "dismissed", "cancelled"}, at : Times]
NoClient == [step |-> "idle", at |-> Never]
Stopped  == [step |-> "idle", at |-> Never, members |-> {}, claimed |-> {}, firing |-> NoOne, time |-> Never, next |-> Never]
Keys     == Reminders \X Times

\* The type of every variable.
TypeOK ==
  /\ now \in 0..MaxTime /\ occurs \subseteq Times
  /\ row \in [Reminders -> Rows]
  /\ index \in [Reminders -> 0..MaxTime + 1]
  /\ client \in [Reminders -> [step : {"idle", "schedule", "unschedule"}, at : Times \cup {Never}]]
  /\ editor \in [listed : SUBSET Series, step : {"idle", "list", "row", "index"}, firing : Series \cup {NoOne}, at : Times \cup {Never}]
  /\ sweep \in [Reminders -> Times \cup {Never}]
  /\ worker \in [Workers -> [step : {"idle", "claim", "fire", "putBack", "notify", "delivery", "enqueue", "next", "write", "index"},
                             at : 0..MaxTime, members : SUBSET Reminders, claimed : SUBSET Reminders,
                             firing : Reminders \cup {NoOne}, time : Times \cup {Never}, next : Times \cup {Never}]]
  /\ notified \subseteq Keys /\ told \in [Keys -> Nat]
  /\ mail \in [Keys -> {"none", "row", "job", "sent", "failed"}]
  /\ plan \in Plans /\ edits \in Nat /\ faults \in Nat
  /\ asked \in [Reminders -> Times \cup {Never}] /\ overtaken \subseteq Reminders /\ cut \subseteq Keys

Idle == [listed |-> {}, step |-> "idle", firing |-> NoOne, at |-> Never]

Init ==
  /\ plan \in Plans /\ edits = plan.edits /\ faults = plan.faults /\ occurs = plan.occurs
  /\ now = 0
  /\ row = [r \in Reminders |-> NoRow] /\ index = [r \in Reminders |-> Never]
  /\ client = [r \in Reminders |-> NoClient] /\ editor = Idle
  /\ sweep = [r \in Reminders |-> Never] /\ worker = [w \in Workers |-> Stopped]
  /\ notified = {} /\ told = [k \in Keys |-> 0] /\ mail = [k \in Keys |-> "none"]
  /\ asked = [r \in Reminders |-> Never] /\ overtaken = {} /\ cut = {}

-----------------------------------------------------------------------------
\* nextReminderTime: the first the event yields after that time.
NextTime(after) == IF \E t \in occurs : t > after THEN Min({t \in occurs : t > after}) ELSE Never
Schedule(r, t) == index' = [index EXCEPT ![r] = t]
Unscheduled(r) == index' = [index EXCEPT ![r] = Never]
history == <<asked, overtaken, cut>>
budget  == <<plan, edits, faults>>
inbox   == <<notified, told, mail>>

-----------------------------------------------------------------------------
(* Users: the row first, then the index *)

\* create, createEventReminder
Create(r) ==
  /\ r \in plan.makes /\ row[r] = NoRow
  /\ \E t \in IF r \in Series THEN {NextTime(now)} ELSE {u \in Times : u > now} :
       /\ t # Never
       /\ row' = [row EXCEPT ![r] = [status |-> "scheduled", at |-> t]]
       /\ client' = [client EXCEPT ![r] = [step |-> "schedule", at |-> t]]
       /\ asked' = [asked EXCEPT ![r] = t]
  /\ UNCHANGED <<now, occurs, index, editor, sweep, worker, inbox, budget, overtaken, cut>>

\* update with a new time, whatever the status was.
Snooze(r) ==
  /\ row[r] # NoRow /\ client[r] = NoClient /\ edits > 0
  /\ \E t \in Times :
       /\ t > now /\ t # row[r].at
       /\ row' = [row EXCEPT ![r] = [status |-> "scheduled", at |-> t]]
       /\ client' = [client EXCEPT ![r] = [step |-> "schedule", at |-> t]]
       /\ asked' = [asked EXCEPT ![r] = t]
  /\ edits' = edits - 1
  /\ UNCHANGED <<now, occurs, index, editor, sweep, worker, inbox, plan, faults, overtaken, cut>>

Dismiss(r) ==
  /\ row[r] # NoRow /\ client[r] = NoClient /\ edits > 0
  /\ row' = [row EXCEPT ![r].status = "dismissed"]
  /\ client' = [client EXCEPT ![r] = [step |-> "unschedule", at |-> Never]]
  /\ asked' = [asked EXCEPT ![r] = Never]
  /\ edits' = edits - 1
  /\ UNCHANGED <<now, occurs, index, editor, sweep, worker, inbox, plan, faults, overtaken, cut>>

IndexForClient(r) ==
  /\ client[r] # NoClient
  /\ IF client[r].step = "schedule" THEN Schedule(r, client[r].at) ELSE Unscheduled(r)
  /\ client' = [client EXCEPT ![r] = NoClient]
  /\ UNCHANGED <<now, occurs, row, editor, sweep, worker, inbox, budget, history>>

-----------------------------------------------------------------------------
(* Events: update, changeOccurrence, then rescheduleReminders *)

MoveEvent ==
  /\ editor.step = "idle" /\ edits > 0
  /\ occurs' \in plan.moves \ {occurs}
  /\ editor' = [Idle EXCEPT !.step = "list"]
  /\ edits' = edits - 1
  /\ UNCHANGED <<now, row, index, client, sweep, worker, inbox, plan, faults, history>>

List ==
  /\ editor.step = "list"
  /\ LET found == {r \in Series : row[r].status = "scheduled"} IN
       editor' = IF found = {} THEN Idle ELSE [Idle EXCEPT !.step = "row", !.listed = found]
  /\ UNCHANGED <<now, occurs, row, index, client, sweep, worker, inbox, budget, history>>

\* The next time, or the end of the reminder, written whatever the row says by now.
Reschedule(r) ==
  /\ editor.step = "row" /\ r \in editor.listed
  /\ LET next == NextTime(now) IN
       /\ row' = [row EXCEPT ![r] = IF next = Never THEN [@ EXCEPT !.status = "cancelled"] ELSE [@ EXCEPT !.at = next]]
       /\ editor' = [step |-> "index", listed |-> editor.listed \ {r}, firing |-> r, at |-> next]
       /\ asked' = [asked EXCEPT ![r] = IF row[r].status = "dismissed" THEN Never ELSE next]
  /\ overtaken' = IF row[r].status \in {"scheduled", "dismissed"} THEN overtaken ELSE overtaken \cup {r}
  /\ UNCHANGED <<now, occurs, index, client, sweep, worker, inbox, budget, cut>>

IndexForEvent(r) ==
  /\ editor.step = "index" /\ r = editor.firing
  /\ IF editor.at = Never THEN Unscheduled(r) ELSE Schedule(r, editor.at)
  /\ editor' = IF editor.listed = {} THEN Idle ELSE [editor EXCEPT !.step = "row", !.firing = NoOne, !.at = Never]
  /\ UNCHANGED <<now, occurs, row, client, sweep, worker, inbox, budget, history>>

-----------------------------------------------------------------------------
(* Workers: fireDue *)

Now(w, u) == worker' = [worker EXCEPT ![w] = u]
Me(w)   == worker[w].firing
Key(w)  == <<Me(w), worker[w].time>>
\* The next reminder claimed, or the end of the tick.
Done(w, r) ==
  LET rest == worker[w].claimed \ {r} IN
  Now(w, IF rest = {} THEN Stopped
         ELSE [worker[w] EXCEPT !.step = "fire", !.claimed = rest, !.firing = NoOne, !.time = Never, !.next = Never])

\* claimDue reads what is due...
Tick(w) ==
  /\ w \in plan.workers /\ worker[w].step = "idle"
  /\ LET due == {r \in Reminders : index[r] \in 1..now} IN
       /\ due # {}
       /\ Now(w, [worker[w] EXCEPT !.step = "claim", !.at = now, !.members = due])
  /\ UNCHANGED <<now, occurs, row, index, client, editor, sweep, inbox, budget, history>>

\* ...and removes it one by one: what is no longer there was claimed by another.
Claim(w, r) ==
  /\ worker[w].step = "claim" /\ r \in worker[w].members
  /\ LET claimed == worker[w].claimed \cup (IF index[r] = Never THEN {} ELSE {r})
         members == worker[w].members \ {r}
     IN IF members # {} THEN Now(w, [worker[w] EXCEPT !.members = members, !.claimed = claimed])
        ELSE IF claimed = {} THEN Now(w, Stopped)
        ELSE Now(w, [worker[w] EXCEPT !.step = "fire", !.members = {}, !.claimed = claimed])
  /\ Unscheduled(r)
  /\ UNCHANGED <<now, occurs, row, client, editor, sweep, inbox, budget, history>>

\* Mutant: what was claimed is fired, whatever its time.
FireUnchecked(w, r) ==
  /\ worker[w].step = "fire" /\ r \in worker[w].claimed
  /\ IF row[r].status # "scheduled" THEN Done(w, r)
     ELSE Now(w, [worker[w] EXCEPT !.step = "notify", !.firing = r, !.time = row[r].at])
  /\ UNCHANGED <<now, occurs, row, index, client, editor, sweep, inbox, budget, history>>

\* fire: only what is scheduled, and not moved to later since it was indexed.
Fire(w, r) ==
  /\ worker[w].step = "fire" /\ r \in worker[w].claimed
  /\ IF row[r].status # "scheduled" THEN Done(w, r)
     ELSE Now(w, [worker[w] EXCEPT !.step = IF row[r].at > worker[w].at THEN "putBack" ELSE "notify",
                                   !.firing = r, !.time = row[r].at])
  /\ UNCHANGED <<now, occurs, row, index, client, editor, sweep, inbox, budget, history>>

PutBack(w) ==
  /\ worker[w].step = "putBack"
  /\ Schedule(Me(w), worker[w].time)
  /\ Done(w, Me(w))
  /\ UNCHANGED <<now, occurs, row, client, editor, sweep, inbox, budget, history>>

\* notify: one row per dedupe key; nothing more is done for one that exists.
Notify(w) ==
  /\ worker[w].step = "notify"
  /\ IF Key(w) \in notified
     THEN Now(w, [worker[w] EXCEPT !.step = "next"]) /\ UNCHANGED <<notified, told>>
     ELSE /\ notified' = notified \cup {Key(w)} /\ told' = [told EXCEPT ![Key(w)] = @ + 1]
          /\ Now(w, [worker[w] EXCEPT !.step = IF Me(w) \in plan.mails THEN "delivery" ELSE "next"])
  /\ UNCHANGED <<now, occurs, row, index, client, editor, sweep, mail, budget, history>>

InsertDelivery(w) ==
  /\ worker[w].step = "delivery"
  /\ mail' = [mail EXCEPT ![Key(w)] = "row"]
  /\ Now(w, [worker[w] EXCEPT !.step = "enqueue"])
  /\ UNCHANGED <<now, occurs, row, index, client, editor, sweep, notified, told, budget, history>>

Enqueue(w) ==
  /\ worker[w].step = "enqueue"
  /\ mail' = [mail EXCEPT ![Key(w)] = "job"]
  /\ Now(w, [worker[w] EXCEPT !.step = "next"])
  /\ UNCHANGED <<now, occurs, row, index, client, editor, sweep, notified, told, budget, history>>

ReadNext(w) ==
  /\ worker[w].step = "next"
  /\ Now(w, [worker[w] EXCEPT !.step = "write",
                            !.next = IF Me(w) \in Series THEN NextTime(worker[w].time) ELSE Never])
  /\ UNCHANGED <<now, occurs, row, index, client, editor, sweep, inbox, budget, history>>

\* A reminder of a series rolls forward, another is sent: written whatever the row says by now.
Write(w) ==
  /\ worker[w].step = "write"
  /\ LET r == Me(w)
         next == worker[w].next
     IN /\ row' = [row EXCEPT ![r] = IF next = Never THEN [@ EXCEPT !.status = "sent"] ELSE [@ EXCEPT !.at = next]]
        /\ IF row[r] = [status |-> "scheduled", at |-> worker[w].time]
           THEN asked' = [asked EXCEPT ![r] = IF next = Never THEN @ ELSE next] /\ UNCHANGED overtaken
           ELSE overtaken' = overtaken \cup {r} /\ UNCHANGED asked
        /\ IF next = Never THEN Done(w, r) ELSE Now(w, [worker[w] EXCEPT !.step = "index"])
  /\ UNCHANGED <<now, occurs, index, client, editor, sweep, inbox, budget, cut>>

IndexNext(w) ==
  /\ worker[w].step = "index"
  /\ Schedule(Me(w), worker[w].next)
  /\ Done(w, Me(w))
  /\ UNCHANGED <<now, occurs, row, client, editor, sweep, inbox, budget, history>>

\* The notification is stored and its e-mail is not yet in the queue.
CutShort(w) == cut' = IF worker[w].step \in {"delivery", "enqueue"} THEN cut \cup {Key(w)} ELSE cut

\* A database or Redis fails while one is fired: it is put back for a minute later.
Fail(w) ==
  /\ worker[w].firing # NoOne /\ faults > 0
  /\ Schedule(Me(w), worker[w].at + 1)
  /\ Done(w, Me(w)) /\ CutShort(w)
  /\ faults' = faults - 1
  /\ UNCHANGED <<now, occurs, row, client, editor, sweep, inbox, plan, edits, asked, overtaken>>

\* The process of a worker, or of the API, dies between two steps.
Die ==
  /\ faults > 0
  /\ \/ /\ \E w \in Workers : worker[w] # Stopped /\ worker' = [worker EXCEPT ![w] = Stopped] /\ CutShort(w)
        /\ UNCHANGED <<client, editor>>
     \/ /\ \E r \in Reminders : client[r] # NoClient /\ client' = [client EXCEPT ![r] = NoClient]
        /\ UNCHANGED <<worker, editor, cut>>
  /\ faults' = faults - 1
  /\ UNCHANGED <<now, occurs, row, index, sweep, inbox, plan, edits, asked, overtaken>>

-----------------------------------------------------------------------------
(* The sweep, the mail queue, the clock *)

\* Mutant: the sweep takes only what is still to come.
SweepComing ==
  /\ \A r \in Reminders : sweep[r] = Never
  /\ sweep' = [r \in Reminders |-> IF row[r].status = "scheduled" /\ row[r].at > now THEN row[r].at ELSE Never]
  /\ UNCHANGED <<now, occurs, row, index, client, editor, worker, inbox, budget, history>>

\* reindexTenant reads what is scheduled...
Sweep ==
  /\ \A r \in Reminders : sweep[r] = Never
  /\ sweep' = [r \in Reminders |-> IF row[r].status = "scheduled" THEN row[r].at ELSE Never]
  /\ UNCHANGED <<now, occurs, row, index, client, editor, worker, inbox, budget, history>>

\* ...and adds it to the index, one by one.
Reindex(r) ==
  /\ sweep[r] # Never
  /\ Schedule(r, sweep[r])
  /\ sweep' = [sweep EXCEPT ![r] = Never]
  /\ UNCHANGED <<now, occurs, row, client, editor, worker, inbox, budget, history>>

\* deliver: sent, or given up after the last attempt.
Deliver(k) ==
  /\ mail[k] = "job"
  /\ \E outcome \in {"sent", "failed"} : mail' = [mail EXCEPT ![k] = outcome]
  /\ UNCHANGED <<now, occurs, row, index, client, editor, sweep, worker, notified, told, budget, history>>

Clock ==
  /\ now < MaxTime
  /\ now' = now + 1
  /\ UNCHANGED <<occurs, row, index, client, editor, sweep, worker, inbox, budget, history>>

-----------------------------------------------------------------------------
Fires(w) == \/ Tick(w) \/ PutBack(w) \/ Notify(w) \/ InsertDelivery(w) \/ Enqueue(w)
            \/ ReadNext(w) \/ Write(w) \/ IndexNext(w)
            \/ \E r \in Reminders : Claim(w, r) \/ Fire(w, r)
Follows  == List \/ \E r \in Reminders : IndexForClient(r) \/ Reschedule(r) \/ IndexForEvent(r)

Next ==
  \/ \E r \in Reminders : Create(r) \/ Snooze(r) \/ Dismiss(r) \/ Reindex(r)
  \/ MoveEvent \/ Follows
  \/ \E w \in Workers : Fires(w) \/ Fail(w)
  \/ Die \/ Sweep \/ Clock
  \/ \E k \in Keys : Deliver(k)

Spec == Init /\ [][Next]_vars

Maintain == Sweep \/ \E r \in Reminders : Reindex(r)

\* The job schedulers tick, what has begun goes on, and time passes.
Fairness ==
  /\ \A w \in Workers : WF_vars(Fires(w))
  /\ WF_vars(Maintain) /\ WF_vars(Clock)
  /\ WF_vars(\E k \in Keys : Deliver(k))

FairSpec == Spec /\ Fairness

-----------------------------------------------------------------------------
\* fireDue, "safe to run concurrently on several workers": a reminder is told
\* once for each of its times, and never before it, whatever workers and
\* sweeps do to the index.
ToldOnceInTime ==
  /\ \A k \in Keys : told[k] <= 1
  /\ \A k \in notified : k[2] <= now

Told(r)   == asked[r] = Never \/ <<r, asked[r]>> \in notified \/ r \in overtaken
Mailed(k) == k \in notified /\ k[1] \in plan.mails => mail[k] \in {"sent", "failed"} \/ k \in cut

\* A reminder does not stay untold for ever: it is told at the time it was last
\* asked for, or moved or dismissed, also when its entry in the index was lost;
\* except when a worker, or a change of the event, wrote over a row changed in
\* between.  And its e-mail is sent, or known to have failed, "each through
\* queued, retried, tracked deliveries" (notifications.service.ts:48), except
\* when a fault came between the notification and its delivery: what is tried
\* again finds the notification there, and leaves it at that.
AskedIsTold == (\A r \in Reminders : []<>Told(r)) /\ (\A k \in Keys : []<>Mailed(k))
=============================================================================
