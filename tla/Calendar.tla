------------------------------ MODULE Calendar ------------------------------
(* One event of a workspace: its row, the exceptions of its occurrences, the *)
(* requests that change them, and what the calendar and the reminders read   *)
(* out of the two.  A request reads the event, waits, and writes.            *)
EXTENDS Recurrence, TLC, FiniteSetsExt

CONSTANTS
  Requests,
  Plans,        \* an event to create, patches, changes of one occurrence, and, a bound, how many requests there are
  Windows,      \* what is looked at, from the start of the event
  Leads,        \* hours before an occurrence
  Widen,        \* 14 days in the code
  Ahead,        \* 400 days in the code
  MaxReminders  \* 50 occurrences in the code

Limit == 500

ASSUME CalendarAssumption ==
  /\ MaxSteps \in Nat \ {0} /\ MaxCount \in Nat \ {0} /\ MaxReminders \in Nat \ {0}
  /\ Widen \in Nat /\ Ahead \in Nat /\ Leads \subseteq Nat
  /\ \A w \in Windows : w.from < w.to

\* What a client can send: an event with its times and its rule, and patches of these and the status.
Sendable ==
  \A p \in Plans :
    /\ DOMAIN p.event = {"timezone", "startsAt", "endsAt", "rrule"}
    /\ \A patch \in p.patches : DOMAIN patch \subseteq {"timezone", "startsAt", "endsAt", "rrule", "status"}

ASSUME PlansAssumption == Sendable

VARIABLES
  event,       \* the row in calendar_events
  exceptions,  \* its rows in event_exceptions, by the start of the occurrence
  request,     \* update and changeOccurrence, between their read and their write
  plan, writes,
  late         \* history: exceptions written after the event had changed since it was read

vars == <<event, exceptions, request, plan, writes, late>>

Absent == [status |-> "none"]
NoRequest == [op |-> "none"]

\* What the first one says, and what only the second one says.
Over(patch, row) == [x \in DOMAIN patch \cup DOMAIN row |-> IF x \in DOMAIN patch THEN patch[x] ELSE row[x]]

\* An exception; null leaves the start and the end of the occurrence as they are.
Exception(cancel, start, end) == [cancelled |-> cancel, startsAt |-> start, endsAt |-> end]

Live(e) == e # Absent /\ ~e.deleted

\* Every variable is well typed; no property of a run.
TypeOK ==
  /\ event = Absent \/
       /\ event.startsAt \in Nat /\ event.endsAt \in Nat /\ event.seriesEndsAt \in Nat
       /\ event.status \in {"confirmed", "cancelled"} /\ event.deleted \in BOOLEAN /\ event.version \in Nat
  /\ DOMAIN exceptions \subseteq Nat /\ late \subseteq DOMAIN exceptions
  /\ \A r \in Requests : request[r].op \in {"none", "update", "change"}
  /\ plan \in Plans /\ writes \in Nat

Init ==
  /\ plan \in Plans /\ writes = plan.writes
  /\ event = Absent /\ exceptions = <<>> /\ late = {}
  /\ request = [r \in Requests |-> NoRequest]

-----------------------------------------------------------------------------
(* Reads                                                                     *)

Span(start, end) == [start |-> start, end |-> end]

\* An occurrence as its exception has it.
Moved(o, ex) ==
  Span(IF o.start \in DOMAIN ex /\ ex[o.start].startsAt # Never THEN ex[o.start].startsAt ELSE o.start,
       IF o.start \in DOMAIN ex /\ ex[o.start].endsAt # Never THEN ex[o.start].endsAt ELSE o.end)

Cancelled(o, ex) == o.start \in DOMAIN ex /\ ex[o.start].cancelled

\* occurrences: the query for the rows, then their occurrences in a window made wider.
occurrences(e, ex, from, to) ==
  LET found == /\ Live(e) /\ e.status # "cancelled" /\ e.startsAt < to
               /\ e.seriesEndsAt = Never \/ e.seriesEndsAt > from
      all   == ToSet(expandOccurrences(e, from - Widen, to + Widen, Limit))
  IN IF ~found THEN {}
     ELSE {s \in {Moved(o, ex) : o \in {p \in all : ~Cancelled(p, ex)}} : s.start < to /\ s.end > from}

\* Mutant: the occurrences that start after the reminder, not after it and its lead.
nextReminderTimeUnled(e, ex, lead, after) ==
  LET occs == expandOccurrences(e, after, after + Ahead, MaxReminders)
      at   == [i \in DOMAIN occs |-> Moved(occs[i], ex).start - lead]
      good == {i \in DOMAIN occs : ~Cancelled(occs[i], ex)}
  IN IF ~Live(e) \/ e.status = "cancelled" \/ good = {} THEN Never ELSE at[Min(good)]

\* The first occurrence, in the order of the series, with a reminder after that time.
nextReminderTime(e, ex, lead, after) ==
  LET occs == expandOccurrences(e, after + lead, after + lead + Ahead, MaxReminders)
      at   == [i \in DOMAIN occs |-> Moved(occs[i], ex).start - lead]
      good == {i \in DOMAIN occs : ~Cancelled(occs[i], ex) /\ at[i] > after}
  IN IF ~Live(e) \/ e.status = "cancelled" \/ good = {} THEN Never ELSE at[Min(good)]

-----------------------------------------------------------------------------
(* Writes                                                                    *)

Create ==
  /\ event = Absent
  /\ event' = Over(plan.event, [seriesEndsAt |-> seriesEnd(plan.event), status |-> "confirmed",
                                deleted |-> FALSE, version |-> 1])
  /\ UNCHANGED <<exceptions, request, plan, writes, late>>

Start(r, op) ==
  /\ Live(event) /\ request[r] = NoRequest /\ writes > 0
  /\ writes' = writes - 1
  /\ request' = [request EXCEPT ![r] = op]
  /\ UNCHANGED <<event, exceptions, plan, late>>

End(r) == request' = [request EXCEPT ![r] = NoRequest]

\* update: what is not in the patch stays as it was read; the version is the
\* one the client saw, here that of the row it reads, since an older one fails.
ReadUpdate(r, patch) ==
  /\ Live(event)
  /\ LET next == Over(patch, event) IN next.endsAt > next.startsAt
  /\ Start(r, [op |-> "update", patch |-> patch, read |-> event])

Stale(r) == request[r].op # "none" /\ event.version # request[r].read.version

\* Mutant: exceptions are kept when only the zone changes.
MakesExceptionsVoidNarrow(patch) == DOMAIN patch \cap {"rrule", "startsAt"} # {}

\* The rule, the start or the zone change the occurrences themselves.
MakesExceptionsVoid(patch) == DOMAIN patch \cap {"rrule", "startsAt", "timezone"} # {}

CommitUpdate(r) ==
  LET t == request[r]   next == Over(t.patch, t.read) IN
  /\ t.op = "update" /\ ~Stale(r)
  /\ event' = Over(t.patch, [event EXCEPT !.seriesEndsAt = seriesEnd(next), !.version = t.read.version + 1])
  /\ IF MakesExceptionsVoid(t.patch)
     THEN exceptions' = <<>> /\ late' = {}
     ELSE UNCHANGED <<exceptions, late>>
  /\ End(r)
  /\ UNCHANGED <<plan, writes>>

VersionConflict(r) ==
  /\ request[r].op = "update" /\ Stale(r)
  /\ End(r)
  /\ UNCHANGED <<event, exceptions, plan, writes, late>>

\* changeOccurrence: is it part of the series? Two occurrences of the hour around it are looked at.
IsOccurrence(e, at) == \E o \in ToSet(expandOccurrences(e, at - 1, at + 1, 2)) : o.start = at

ReadChange(r, change) ==
  /\ Live(event) /\ event.rrule # NoRule
  /\ \E at \in RuleStarts(event) :
       /\ at < plan.event.startsAt + 3 * Day   \* a bound
       /\ IsOccurrence(event, at)
       /\ Start(r, [op |-> "change", at |-> at, read |-> event,
                    to |-> Exception(change.cancelled,
                                     IF change.start = Never THEN Never ELSE at + change.start,
                                     IF change.end = Never THEN Never ELSE at + change.end)])

\* No version, no transaction: inserted, or written over what is there.
CommitChange(r) ==
  LET t == request[r] IN
  /\ t.op = "change"
  /\ exceptions' = Over([at \in {t.at} |-> t.to], exceptions)
  /\ late' = IF Stale(r) THEN late \cup {t.at} ELSE late \ {t.at}
  /\ End(r)
  /\ UNCHANGED <<event, plan, writes>>

removeEvent ==
  /\ Live(event) /\ writes > 0
  /\ event' = [event EXCEPT !.deleted = TRUE] /\ writes' = writes - 1
  /\ UNCHANGED <<exceptions, request, plan, late>>

Next ==
  \/ Create \/ removeEvent
  \/ \E r \in Requests :
       \/ \E patch \in plan.patches : ReadUpdate(r, patch)
       \/ CommitUpdate(r) \/ VersionConflict(r)
       \/ \E change \in plan.changes : ReadChange(r, change)
       \/ CommitChange(r)

Spec == Init /\ [][Next]_vars

-----------------------------------------------------------------------------
(* Properties                                                                *)

View(w) == [from |-> event.startsAt + w.from, to |-> event.startsAt + w.to]

\* The loop of expandOccurrences gives the occurrences the rule means, in
\* order, that overlap the window, counted from the first one, up to a limit;
\* each is at the local time of the first wherever the zone has that hour, and
\* an occurrence ends as long after its start as the first one does.
ExpandsAsDefined ==
  Live(event) /\ StartIsPlain(event) =>
    /\ \A w \in Windows : \A limit \in {1, 3, Limit} :
         LET v        == View(w)
             duration == event.endsAt - event.startsAt
             inside   == Ascending({t \in RuleStarts(event) : t < v.to /\ t + duration > v.from})
             n        == IF Len(inside) < limit \/ event.rrule = NoRule THEN Len(inside) ELSE limit
         IN expandOccurrences(event, v.from, v.to, limit) = [i \in 1..n |-> Span(inside[i], inside[i] + duration)]
    /\ event.rrule # NoRule =>
         \A day \in RuleDays(event) :
           LET shown == Shown(day * Day + BaseTime(event), event.timezone) IN
           shown # {} => StartOn(event, day) \in shown

\* The occurrences there are, each at its own time or as its exception has it.
Happening ==
  LET duration == event.endsAt - event.startsAt
      all      == {Span(t, t + duration) : t \in RuleStarts(event)}
  IN IF Live(event) /\ event.status # "cancelled"
     THEN {Moved(o, exceptions) : o \in {p \in all : ~Cancelled(p, exceptions)}} ELSE {}

MovedAt == {at \in DOMAIN exceptions : ~exceptions[at].cancelled /\ exceptions[at].startsAt # Never}

\* An occurrence moved no further than the window is widened, and not out of
\* the bounds the query goes by, which no exception changes.
KeptInSeries(at) ==
  LET x == exceptions[at] IN
  /\ x.startsAt >= event.startsAt
  /\ event.seriesEndsAt = Never \/ x.endsAt <= event.seriesEndsAt
  /\ x.startsAt - at \in -Widen..Widen

\* seriesEnd computes MaxCount occurrences at most.
EndIsKnown == event.seriesEndsAt = Never \/ Cardinality(RuleStarts(event)) <= MaxCount

\* Whatever window is looked at, the calendar shows exactly the occurrences
\* that overlap it, moved ones at their new time, cancelled ones not at all:
\* neither seriesEndsAt, which the query goes by, nor the widened window hides
\* one, if no exception moves an occurrence out of the bounds of its series.
ViewComplete ==
  Live(event) /\ StartIsPlain(event) /\ EndIsKnown /\ (\A at \in MovedAt : KeptInSeries(at)) =>
    \A w \in Windows :
      LET v == View(w) IN
      occurrences(event, exceptions, v.from, v.to) = {s \in Happening : s.start < v.to /\ s.end > v.from}

\* An exception belongs to an occurrence of the series as it is now, unless
\* it was written by a request that had read the series as it was before:
\* neither an edit of the rule, the start or the zone leaves old ones behind,
\* nor does a refused edit take any.
ExceptionsBelong ==
  Live(event) => \A at \in DOMAIN exceptions \ late : at \in RuleStarts(event)

\* The moved occurrences are where nextReminderTime looks for them: not past
\* another occurrence, and found by their old time.
InOrder(lead, after) ==
  \A at \in MovedAt :
    LET x == exceptions[at].startsAt IN
    /\ \A t \in RuleStarts(event) \ {at} : (t < at) <=> (t < x)
    /\ \A b \in MovedAt : at < b => x < exceptions[b].startsAt
    /\ x > after + lead => at + (event.endsAt - event.startsAt) > after + lead

\* A reminder is set to the earliest occurrence that is still to be told, so
\* that none is passed over: what Reminders.NextTime rests on.
NextReminderIsNext ==
  Live(event) /\ StartIsPlain(event) =>
    \A w \in Windows : \A lead \in Leads :
      LET after == View(w).from
          coming == {s.start - lead : s \in {h \in Happening : h.start - lead > after}}
          next   == nextReminderTime(event, exceptions, lead, after)
      IN InOrder(lead, after) =>
           next = IF coming # {} /\ Min(coming) < after + Ahead THEN Min(coming) ELSE Never
=============================================================================
