----------------------------- MODULE Recurrence -----------------------------
(* packages/shared/src/recurrence.ts: a series of events is one start, one   *)
(* end and one rule; its occurrences are computed for the window that is     *)
(* looked at.  Instants are hours since the start of 2024, a Monday, in UTC, *)
(* wall clocks are hours since then as a clock in the zone shows them, days  *)
(* and months are counted from there too.                                    *)
EXTENDS Integers, Sequences, FiniteSets, SequencesExt

CONSTANTS
  Offset(_, _),   \* what Intl knows: how far a zone is ahead of UTC at an instant
  MaxSteps,       \* 50000 steps of the rule in the code
  MaxCount        \* MAX_COUNT, 1000 in the code

Day     == 24
Never   == 0        \* null and undefined
NoRule  == [freq |-> "none", interval |-> 1, count |-> 0, until |-> Never, byDay |-> {}]
Forever == 100000   \* new Date(8.64e15), a bound

-----------------------------------------------------------------------------
(* Date.UTC, which carries days over into months and years.                  *)

Year(month) == 2024 + month \div 12
IsLeap(year) == year % 4 = 0   \* within 2024..2099

daysInMonth(month) ==
  LET m == (month % 12) + 1 IN
  CASE m = 2              -> IF IsLeap(Year(month)) THEN 29 ELSE 28
    [] m \in {4, 6, 9, 11} -> 30
    [] OTHER              -> 31

\* The first day of a month, by the days of the months before it in its year.
FirstDay(month) ==
  LET y == month \div 12   m == month % 12 IN
  365 * y + (y + 3) \div 4 + <<0, 31, 59, 90, 120, 151, 181, 212, 243, 273, 304, 334>>[m + 1]
    + (IF m > 1 /\ IsLeap(Year(month)) THEN 1 ELSE 0)

MonthOf(day) == CHOOSE m \in day \div 31 .. day \div 28 : FirstDay(m) <= day /\ day < FirstDay(m + 1)

\* The day of the month counts from 0.
DayOfMonth(day) == day - FirstDay(MonthOf(day))

dayOfWeek(day) == day % 7

Ascending(S) == [i \in 1..Cardinality(S) |-> CHOOSE x \in S : Cardinality({y \in S : y < x}) = i - 1]

-----------------------------------------------------------------------------
(* Time zones                                                                *)

wallClock(instant, zone) == instant + Offset(zone, instant)

\* The loop leaves when the clock shows the target: then a pass changes nothing.
zonedToUtc(wall, zone) ==
  LET pass(guess) == guess + (wall - wallClock(guess, zone)) IN pass(pass(pass(wall)))

BaseDay(series)  == wallClock(series.startsAt, series.timezone) \div Day
BaseTime(series) == wallClock(series.startsAt, series.timezone) % Day

\* When an occurrence on that day starts.
StartOn(series, day) == zonedToUtc(day * Day + BaseTime(series), series.timezone)

-----------------------------------------------------------------------------
(* expandOccurrences                                                         *)

\* Months without that day are skipped.
MonthDays(base, month) ==
  IF DayOfMonth(base) < daysInMonth(month) THEN <<FirstDay(month) + DayOfMonth(base)>> ELSE <<>>

\* The days a step of the rule gives, in order.
StepDays(rule, base, step) ==
  LET far == step * rule.interval IN
  CASE rule.freq = "DAILY"   -> <<base + far>>
    [] rule.freq = "WEEKLY"  ->
         LET monday == base - dayOfWeek(base) + 7 * far
             days   == IF rule.byDay = {} THEN {dayOfWeek(base)} ELSE rule.byDay
         IN Ascending({monday + d : d \in days})
    [] rule.freq = "MONTHLY" -> MonthDays(base, MonthOf(base) + far)
    [] rule.freq = "YEARLY"  -> MonthDays(base, MonthOf(base) + 12 * far)

\* Mutant: only what the window shows is counted.
emitCounted(ask, s, day) ==
  LET start == StartOn(ask.series, day)
      rule  == ask.series.rrule
      end   == start + (ask.series.endsAt - ask.series.startsAt)
      out   == IF end > ask.from THEN Append(s.out, [start |-> start, end |-> end]) ELSE s.out
  IN IF start < ask.series.startsAt THEN s
     ELSE IF (rule.until # Never /\ start > rule.until) \/ start >= ask.to THEN [s EXCEPT !.stop = TRUE]
     ELSE [out |-> out, produced |-> Len(out),
           stop |-> (rule.count # 0 /\ Len(out) >= rule.count) \/ Len(out) >= ask.limit]

\* Counts from the first occurrence, wherever the window is.
emit(ask, s, day) ==
  LET start == StartOn(ask.series, day)
      rule  == ask.series.rrule
      end   == start + (ask.series.endsAt - ask.series.startsAt)
      out   == IF end > ask.from THEN Append(s.out, [start |-> start, end |-> end]) ELSE s.out
  IN IF start < ask.series.startsAt THEN s
     ELSE IF (rule.until # Never /\ start > rule.until) \/ start >= ask.to THEN [s EXCEPT !.stop = TRUE]
     ELSE [out |-> out, produced |-> s.produced + 1,
           stop |-> (rule.count # 0 /\ s.produced + 1 >= rule.count) \/ Len(out) >= ask.limit]

expandOccurrences(series, from, to, limit) ==
  LET ask == [series |-> series, from |-> from, to |-> to, limit |-> limit]
      onDay(s, day) == IF s.stop THEN s ELSE emit(ask, s, day)
      onStep(s, n)  == IF s.stop THEN s ELSE FoldLeft(onDay, s, StepDays(series.rrule, BaseDay(series), n - 1))
  IN IF series.rrule = NoRule
     THEN IF series.startsAt < to /\ series.endsAt > from
          THEN <<[start |-> series.startsAt, end |-> series.endsAt]>> ELSE <<>>
     ELSE FoldLeft(onStep, [out |-> <<>>, produced |-> 0, stop |-> FALSE], [n \in 1..MaxSteps |-> n]).out

\* Mutant: the start of the last occurrence.
seriesEndAtStart(series) ==
  LET all == expandOccurrences(series, series.startsAt, Forever, MaxCount) IN
  IF series.rrule = NoRule THEN series.endsAt
  ELSE IF series.rrule.count = 0 /\ series.rrule.until = Never THEN Never
  ELSE IF all = <<>> THEN series.endsAt ELSE Last(all).start

seriesEnd(series) ==
  LET all == expandOccurrences(series, series.startsAt, Forever, MaxCount) IN
  IF series.rrule = NoRule THEN series.endsAt
  ELSE IF series.rrule.count = 0 /\ series.rrule.until = Never THEN Never
  ELSE IF all = <<>> THEN series.endsAt ELSE Last(all).end

-----------------------------------------------------------------------------
(* What a rule means, without the loop                                       *)

\* Days on which a rule falls from a day on, as far as its steps go.
DaysOf(base, rule) ==
  LET far   == (MaxSteps - 1) * rule.interval
      month == MonthOf(base)    date == DayOfMonth(base)
      onMonths(every, months) ==
        {FirstDay(m) + date : m \in {k \in month..month + months : (k - month) % every = 0 /\ date < daysInMonth(k)}}
      week(day) == day \div 7
  IN CASE rule.freq = "DAILY"   -> {d \in base..base + far : (d - base) % rule.interval = 0}
       [] rule.freq = "WEEKLY"  ->
            {d \in base..7 * (week(base) + far) + 6 :
               /\ d % 7 \in IF rule.byDay = {} THEN {base % 7} ELSE rule.byDay
               /\ (week(d) - week(base)) % rule.interval = 0}
       [] rule.freq = "MONTHLY" -> onMonths(rule.interval, far)
       [] rule.freq = "YEARLY"  -> onMonths(12 * rule.interval, 12 * far)

RuleDays(series) == DaysOf(BaseDay(series), series.rrule)

\* A start on every such day, not before the first, not after UNTIL, the first COUNT of them.
RuleStarts(series) ==
  LET rule    == series.rrule
      day(d)  == IF d = BaseDay(series) THEN series.startsAt ELSE StartOn(series, d)
      all     == {t \in {day(d) : d \in RuleDays(series)} :
                    t >= series.startsAt /\ (rule.until = Never \/ t <= rule.until)}
      before(t) == Cardinality({u \in all : u < t})
  IN IF rule = NoRule THEN {series.startsAt} ELSE {t \in all : rule.count = 0 \/ before(t) < rule.count}

\* An hour that a zone skips, or shows twice.
Shown(wall, zone) == {i \in wall - Day..wall + Day : wallClock(i, zone) = wall}

\* A series whose start is the other one of two hours with the same name loses
\* its first occurrence: the instant is computed back from the wall clock.
StartIsPlain(series) == zonedToUtc(wallClock(series.startsAt, series.timezone), series.timezone) = series.startsAt
=============================================================================
