---------------------------- MODULE MCCalendar ----------------------------
(* Instances of Calendar for TLC: two zones as they were in 2024. *)
EXTENDS Calendar

CONSTANTS r1, r2

\* Berlin is an hour ahead, two from 31 March (day 90), 1:00 UTC, to 27 October (day 300), 1:00 UTC.
Zones(zone, instant) ==
  CASE zone = "UTC"    -> 0
    [] zone = "Berlin" -> IF instant >= 90 * 24 + 1 /\ instant < 300 * 24 + 1 THEN 2 ELSE 1
    [] zone = "NewYork" -> IF instant >= 69 * 24 + 7 /\ instant < 307 * 24 + 6 THEN -4 ELSE -5

Rule(often, every, times, end, days) ==
  [freq |-> often, interval |-> every, count |-> times, until |-> end, byDay |-> days]
Event(zone, day, hour, hours, rule) ==
  [timezone |-> zone, startsAt |-> day * 24 + hour, endsAt |-> day * 24 + hour + hours, rrule |-> rule]

Rules(day) ==
  {NoRule} \cup
  {Rule(f, i, 0, Never, {}) : f \in {"DAILY", "WEEKLY", "MONTHLY", "YEARLY"}, i \in {1, 2}} \cup
  {Rule("DAILY", 1, 3, Never, {}), Rule("DAILY", 2, 0, day * 24 + 120, {}), Rule("WEEKLY", 1, 3, Never, {1, 6}),
   Rule("WEEKLY", 2, 0, day * 24 + 504, {0, 2, 3}), Rule("MONTHLY", 1, 3, Never, {}), Rule("YEARLY", 4, 2, Never, {})}

\* 31 January, 29 February, days before an hour is skipped or repeated, at that hour and at the next.
Look(zone, day, hour, hours) == {Event(zone, day, hour, hours, rule) : rule \in Rules(day)}
Events ==
  Look("UTC", 30, 9, 1) \cup Look("UTC", 59, 9, 30) \cup Look("Berlin", 88, 0, 1) \cup Look("Berlin", 88, 1, 2) \cup
  Look("Berlin", 299, 0, 1) \cup Look("NewYork", 68, 7, 1) \cup Look("NewYork", 68, 9, 1) \cup Look("NewYork", 306, 5, 1)

LookOnly == {[event |-> e, patches |-> {}, changes |-> {}, writes |-> 0] : e \in Events}

Daily  == Event("UTC", 67, 9, 2, Rule("DAILY", 1, 3, Never, {}))
Change(start, hours) == [cancelled |-> FALSE, start |-> start, end |-> start + hours]
Later  == Change(5, 2)
Ahead1 == Change(-20, 1)
Out    == Change(100, 2)
Cancel == [cancelled |-> TRUE, start |-> Never, end |-> Never]
Shift  == [startsAt |-> 67 * 24 + 12, endsAt |-> 67 * 24 + 13]
Longer == [endsAt |-> 67 * 24 + 20]
Late   == [startsAt |-> 67 * 24 + 12]
Zoned  == [timezone |-> "NewYork"]
Weekly == [rrule |-> Rule("WEEKLY", 1, 0, 77 * 24, {2, 3})]
Once   == [rrule |-> NoRule]
Off    == [status |-> "cancelled"]

Edit == {[event |-> Daily, patches |-> p, changes |-> c, writes |-> 3] :
           p \in {{Shift, Late}, {Longer, Late}, {Zoned, Off}, {Weekly, Once}}, c \in {{Later, Cancel}, {Ahead1, Out}}}
AllPlans == LookOnly \cup Edit

Spans(from, to) == [from |-> from, to |-> to]
SomeWindows == {Spans(-30, 0), Spans(-30, 25), Spans(1, 80), Spans(24, 2500), Spans(72, 200), Spans(100, 110)}
SomeLeads == {0, 3}

Symmetry == Permutations(Requests)
=============================================================================
