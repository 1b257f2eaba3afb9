------------------------------ MODULE CronTime ------------------------------
(***************************************************************************)
(* Cron expressions (core/cron.ts): how the five fields are read, which    *)
(* minutes an expression matches, and the next one after a given time.     *)
(*                                                                         *)
(* Time is a number of ticks, PerMinute of them a minute, since a midnight *)
(* that began a year and a week.  The calendar is a parameter: hours,      *)
(* months and weeks may be short, all years are alike, and no hour is      *)
(* skipped or repeated.                                                    *)
(*                                                                         *)
(* A field is a sequence of parts [range, step]: <<>> is `*`, <<a>> a      *)
(* number and <<a, b>> a range; step is <<>> or what follows the slash.    *)
(***************************************************************************)
EXTENDS Integers, Sequences

CONSTANTS
    PerMinute,  \* ticks of a minute, so that a time may lie within one
    PerHour,    \* minutes
    PerDay,     \* hours
    MonthDays,  \* sequence of the lengths of the months
    PerWeek,    \* days
    Horizon     \* how far nextCronTime looks ahead, in ticks

ASSUME CalendarAssumption ==
    /\ {PerMinute, PerHour, PerDay, PerWeek} \subseteq Nat \ {0}
    /\ Horizon \in Nat
    /\ MonthDays \in Seq(Nat \ {0}) /\ MonthDays # <<>>

Field == {"minute", "hour", "dom", "month", "dow"}

\* Days of the year before its n-th month.
Before[n \in Nat] == IF n <= 1 THEN 0 ELSE Before[n - 1] + MonthDays[n - 1]

YearDays == Before[Len(MonthDays) + 1]
Period == PerMinute * PerHour * PerDay * YearDays * PerWeek

\* The local time's components, as Date's getters give them.
Date(time) ==
    LET minutes == time \div PerMinute
        day == minutes \div (PerHour * PerDay)
        month == CHOOSE n \in DOMAIN MonthDays :
                    Before[n] <= day % YearDays /\ day % YearDays < Before[n + 1]
    IN  [minute |-> minutes % PerHour,
         hour   |-> (minutes \div PerHour) % PerDay,
         dom    |-> (day % YearDays) - Before[month] + 1,
         month  |-> month,
         dow    |-> day % PerWeek]

-----------------------------------------------------------------------------
\* The values a field may take (FIELD_RANGES).
Longest == CHOOSE d \in {MonthDays[n] : n \in DOMAIN MonthDays} :
              \A n \in DOMAIN MonthDays : MonthDays[n] <= d
FieldMin(field) == IF field \in {"dom", "month"} THEN 1 ELSE 0
FieldMax(field) ==
    CASE field = "minute" -> PerHour - 1
      [] field = "hour"   -> PerDay - 1
      [] field = "dom"    -> Longest
      [] field = "month"  -> Len(MonthDays)
      [] field = "dow"    -> PerWeek - 1

Low(part, field) == IF part.range = <<>> THEN FieldMin(field) ELSE part.range[1]
High(part, field) ==
    IF part.range = <<>> THEN FieldMax(field) ELSE part.range[Len(part.range)]
Step(part) == IF part.step = <<>> THEN 1 ELSE part.step[1]

ValidPart(part, field) ==
    /\ Step(part) >= 1
    /\ FieldMin(field) <= Low(part, field) /\ High(part, field) <= FieldMax(field)
    /\ Low(part, field) <= High(part, field)

\* `a/n` is the value a alone: a single number is a range of one.
Values(part, field) ==
    {v \in Low(part, field)..High(part, field) : (v - Low(part, field)) % Step(part) = 0}

\* An expression parseCron does not throw on.
Valid(expr) == \A f \in Field : \A i \in DOMAIN expr[f] : ValidPart(expr[f][i], f)

Parsed(expr, field) == UNION {Values(expr[field][i], field) : i \in DOMAIN expr[field]}

\* `*` and nothing else: `*/1` restricts the field as far as this rule goes.
Wildcard(expr, field) == expr[field] = <<[range |-> <<>>, step |-> <<>>]>>

\* When both day fields are restricted either may match.
DayMatches(expr, date) ==
    LET dom == date.dom \in Parsed(expr, "dom")
        dow == date.dow \in Parsed(expr, "dow")
    IN  IF Wildcard(expr, "dom")
          THEN Wildcard(expr, "dow") \/ dow
          ELSE IF Wildcard(expr, "dow") THEN dom ELSE dom \/ dow

Matches(expr, time) ==
    /\ \A f \in {"minute", "hour", "month"} : Date(time)[f] \in Parsed(expr, f)
    /\ DayMatches(expr, Date(time))

\* Mutant: a time that starts a minute is its own next minute.
SameMinute(from) == PerMinute * ((from + PerMinute - 1) \div PerMinute)

-----------------------------------------------------------------------------
\* The start of the minute after `from`.
NextMinute(from) == PerMinute * (from \div PerMinute) + PerMinute

\* The scan of nextCronTime; 0, which comes after no time, when it throws.
NextCronTime(expr, from) ==
    LET scan[time \in Nat] ==
            IF time > from + Horizon THEN 0
            ELSE IF Matches(expr, time) THEN time ELSE scan[time + PerMinute]
    IN  scan[NextMinute(from)]

=============================================================================
