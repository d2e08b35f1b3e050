----------------------------- MODULE Occurrence -----------------------------
(***************************************************************************)
(* The next occurrence of a recurring rule, computed when the rule is      *)
(* created: from its start the code steps period by period until it is     *)
(* past the present, gives up after so many steps, and refuses a rule that *)
(* ends before it can fire.  All arithmetic is in UTC and keeps the time   *)
(* of day, so that an instant is a day: the present is the last day on     *)
(* which the rule's time of day has come.                                  *)
(*                                                                         *)
(* Days are numbered from the first of January of FirstYear, months (as in *)
(* the code, from zero) from that January on.                              *)
(***************************************************************************)
EXTENDS Integers, FiniteSets

CONSTANTS
  FirstYear,             \* its first day is day 0
  FirstWeekday,          \* the weekday of that day: 0 is Sunday
  Rules,                 \* what rules may ask for
  Starts,                \* the days they start on
  Delays,                \* days from a start to the present
  Terms,                 \* days from the present to an end; 0 if there is none
  MaxIterations          \* steps before the code gives up (10 000 there)

\* What parseRRule lets through.
ParsedRule ==
  [freq : {"DAILY", "WEEKLY", "MONTHLY", "YEARLY"}, interval : Nat \ {0},
   byDay : SUBSET (0..6), byMonthDay : -31..31, byMonth : 0..12]

ASSUME OccurrenceAssumption ==
  /\ FirstYear \in Nat /\ FirstWeekday \in 0..6
  /\ Rules \subseteq ParsedRule
  /\ Starts \subseteq Nat /\ Delays \subseteq Int /\ Terms \subseteq Nat
  /\ MaxIterations \in Nat

VARIABLES
  schedule,    \* the rule, its start and end, and the present
  occurrence,  \* the day reached
  iterations,  \* turns of the loop
  verdict      \* what is said of the rule

scheduleVars == <<schedule, occurrence, iterations, verdict>>

-----------------------------------------------------------------------------
(* The calendar *)

isLeapYear(year) == (year % 4 = 0 /\ year % 100 # 0) \/ year % 400 = 0

daysInMonth(year, month) ==
  CASE month % 12 = 1             -> IF isLeapYear(year + month \div 12) THEN 29 ELSE 28
    [] month % 12 \in {3, 5, 8, 10} -> 30
    [] OTHER                      -> 31

Length(m) == daysInMonth(FirstYear, m)

\* The leap years of the years 1 to y, and the days of a common year before
\* each of its months.
LeapYears(y) == y \div 4 - y \div 100 + y \div 400
DaysBefore   == <<0, 31, 59, 90, 120, 151, 181, 212, 243, 273, 304, 334>>

\* The first day of each month, and the month of each day.
MonthStart(m) ==
  LET year == FirstYear + m \div 12
  IN 365 * (m \div 12) + LeapYears(year - 1) - LeapYears(FirstYear - 1)
     + DaysBefore[(m % 12) + 1]
     + (IF m % 12 > 1 /\ isLeapYear(year) THEN 1 ELSE 0)

MonthOf(d) == CHOOSE m \in (d \div 31)..(d \div 28) :
                MonthStart(m) <= d /\ d < MonthStart(m + 1)

DayOfMonth(d) == d - MonthStart(MonthOf(d)) + 1
Weekday(d)    == (d + FirstWeekday) % 7
Week(d)       == (d + FirstWeekday) \div 7
Lower(a, b)   == IF a <= b THEN a ELSE b
Higher(a, b)  == IF a >= b THEN a ELSE b

-----------------------------------------------------------------------------
(* One step from a date.  A rule names a frequency; a custom one has the   *)
(* parts its RRULE gives: interval, byDay (a set of weekdays), byMonthDay  *)
(* and byMonth (0 if absent, as no rule can say).                          *)

\* Faulty variant: the anchor is what the last month made of it.
DayInAdrift(rule, m, anchor) == Lower(DayOfMonth(occurrence), Length(m))

\* The day of a month: as listed, from its end, or the anchor, kept inside.
DayIn(rule, m, anchor) ==
  IF rule.byMonthDay > 0      THEN Lower(rule.byMonthDay, Length(m))
  ELSE IF rule.byMonthDay < 0 THEN Higher(1, Length(m) + 1 + rule.byMonthDay)
  ELSE Lower(anchor, Length(m))

OnDay(rule, m, anchor) == MonthStart(m) + DayIn(rule, m, anchor) - 1

\* BYDAY: the next day listed in this week, or the first of the next week due.
NextWeekday(d, rule) ==
  LET later == {w \in rule.byDay : w > Weekday(d)}
      First(S) == CHOOSE w \in S : \A v \in S : w <= v
  IN IF later # {} THEN d + First(later) - Weekday(d)
     ELSE d + (7 - Weekday(d)) + 7 * (rule.interval - 1) + First(rule.byDay)

\* computeSingleOccurrenceStep and computeRRuleOccurrence; a rule without
\* RRULE is the one with the interval of its name.
StepFrom(d, rule, anchorDay, anchorMonth) ==
  CASE rule.freq = "DAILY"  -> d + rule.interval
    [] rule.freq = "WEEKLY" -> IF rule.byDay = {} THEN d + 7 * rule.interval
                               ELSE NextWeekday(d, rule)
    [] rule.freq = "MONTHLY" -> OnDay(rule, MonthOf(d) + rule.interval, anchorDay)
    [] rule.freq = "YEARLY" ->
         LET year  == MonthOf(d) \div 12 + rule.interval
             month == IF rule.byMonth # 0 THEN rule.byMonth - 1 ELSE anchorMonth
         IN OnDay(rule, 12 * year + month, anchorDay)

Plain(freq, interval) ==
  [freq |-> freq, interval |-> interval, byDay |-> {}, byMonthDay |-> 0, byMonth |-> 0]

\* The frequencies of a rule that is not custom.
daily    == Plain("DAILY", 1)
weekly   == Plain("WEEKLY", 1)
biweekly == Plain("WEEKLY", 2)
monthly  == Plain("MONTHLY", 1)
yearly   == Plain("YEARLY", 1)

-----------------------------------------------------------------------------
Stepped(d) == StepFrom(d, schedule.rule, DayOfMonth(schedule.start),
                       MonthOf(schedule.start) % 12)

ScheduleInit ==
  /\ schedule \in
       {[rule |-> r, start |-> s, now |-> s + w, ends |-> IF t = 0 THEN 0 ELSE s + w + t] :
          r \in Rules, s \in Starts, w \in Delays, t \in Terms}
  /\ occurrence = schedule.start
  /\ iterations = 0
  /\ verdict = "new"

\* The first step is taken whatever the time is.
FirstOccurrence ==
  /\ verdict = "new"
  /\ occurrence' = Stepped(occurrence)
  /\ verdict' = "stepping"
  /\ UNCHANGED <<schedule, iterations>>

Due(d) == d <= schedule.now

NextIteration ==
  /\ verdict = "stepping" /\ Due(occurrence)
  /\ iterations < MaxIterations
  /\ iterations' = iterations + 1
  /\ occurrence' = Stepped(occurrence)
  /\ UNCHANGED <<schedule, verdict>>

GiveUp ==
  /\ verdict = "stepping" /\ Due(occurrence)
  /\ iterations = MaxIterations
  /\ verdict' = "given up"
  /\ UNCHANGED <<schedule, occurrence, iterations>>

\* A rule whose next occurrence comes after its end is refused; it is the
\* only refusal of an end that is not after the start, too.
Judge ==
  /\ verdict = "stepping" /\ ~Due(occurrence)
  /\ verdict' = IF schedule.ends # 0 /\ occurrence > schedule.ends
                  THEN "unfireable" ELSE "accepted"
  /\ UNCHANGED <<schedule, occurrence, iterations>>

ScheduleNext == FirstOccurrence \/ NextIteration \/ GiveUp \/ Judge

ScheduleSpec == ScheduleInit /\ [][ScheduleNext]_scheduleVars

-----------------------------------------------------------------------------
(* The dates of a rule, without stepping: a date is on the rule's grid of  *)
(* days, weeks, months or years, and is the day the rule wants, or the     *)
(* end of a month that is too short for it.                                *)

Wanted(d, rule, anchor) ==
  LET day == IF rule.byMonthDay = 0 THEN anchor ELSE rule.byMonthDay
      fromEnd == Length(MonthOf(d)) + 1 - DayOfMonth(d)
  IN IF day > 0 THEN DayOfMonth(d) = day \/ (fromEnd = 1 /\ day > DayOfMonth(d))
     ELSE fromEnd = -day \/ (DayOfMonth(d) = 1 /\ -day > fromEnd)

IsDate(d) ==
  LET rule    == schedule.rule
      start   == schedule.start
      months  == MonthOf(d) - MonthOf(start)
      years   == MonthOf(d) \div 12 - MonthOf(start) \div 12
  IN /\ d > start
     /\ CASE rule.freq = "DAILY"   -> (d - start) % rule.interval = 0
          [] rule.freq = "WEEKLY"  ->
               IF rule.byDay = {} THEN (d - start) % (7 * rule.interval) = 0
               ELSE Weekday(d) \in rule.byDay /\ (Week(d) - Week(start)) % rule.interval = 0
          [] rule.freq = "MONTHLY" ->
               /\ months > 0 /\ months % rule.interval = 0
               /\ Wanted(d, rule, DayOfMonth(start))
          [] rule.freq = "YEARLY"  ->
               /\ years > 0 /\ years % rule.interval = 0
               /\ MonthOf(d) % 12 = IF rule.byMonth = 0 THEN MonthOf(start) % 12
                                    ELSE rule.byMonth - 1
               /\ Wanted(d, rule, DayOfMonth(start))

(* No date is skipped or met twice over short months, leap years and the   *)
(* turns of weeks: where the loop stops is the first date of the rule      *)
(* after the present; a rule is refused as one that cannot fire only if it *)
(* has no date between the present and its end; and the loop gives up on a *)
(* rule only if more than MaxIterations of its dates have passed           *)
(* (computeNextOccurrence, rulings 51, 54, 55, 57 and 58).                 *)
NextOccurrenceIsNext ==
  LET Dates(first, last) == {d \in first..last : IsDate(d)}
      due == Higher(schedule.start, schedule.now)
  IN /\ verdict \in {"accepted", "unfireable"} =>
          IsDate(occurrence) /\ Dates(due + 1, occurrence - 1) = {}
     /\ verdict = "accepted" => schedule.ends = 0 \/ occurrence <= schedule.ends
     /\ verdict = "unfireable" => Dates(due + 1, schedule.ends) = {}
     /\ verdict = "given up" =>
          Cardinality(Dates(schedule.start, schedule.now)) > MaxIterations
=============================================================================
