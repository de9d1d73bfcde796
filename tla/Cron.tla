-------------------------------- MODULE Cron --------------------------------
(***************************************************************************)
(* A cron trigger over time (schedule.py): its expression is parsed,       *)
(* _next_cron scans UTC minutes for the first one whose local              *)
(* representation matches, and every claim advances next_run_at, however   *)
(* late it comes.                                                          *)
(*                                                                         *)
(* The shapes of the fields are parameters, so that a small clock has      *)
(* every boundary of the real one: the minutes of an hour are              *)
(* 0..MinuteHigh and the hours of a day 0..HourHigh (59 and 23 in the      *)
(* code).  The zone (Offset, in minutes) and the calendar (Civil) are the  *)
(* ones zoneinfo and datetime supply.                                      *)
(***************************************************************************)
EXTENDS Schedule

CONSTANTS
  MinuteHigh, HourHigh,
  Offset,    \* local time minus UTC at each UTC minute
  Civil,     \* [day, month, weekday] of each local day; Monday is 0, as datetime.weekday() has it
  Expr,      \* expressions under study: [minute, hour, day, month, weekday], each a field
  Horizon,   \* bound: the last minute the clock reaches
  ScanLimit  \* minutes _next_cron looks ahead (five years in the code)

HourLength == MinuteHigh + 1
DayLength  == HourLength * (HourHigh + 1)

ASSUME ClockAssumption == /\ MinuteHigh \in Nat /\ HourHigh \in Nat
                          /\ Horizon \in Nat /\ ScanLimit \in Nat \ {0}

\* Of every minute a scan can reach, zoneinfo and datetime know a local time
\* and its date.
ASSUME ZoneAssumption ==
  \A u \in 0 .. Horizon + 1 + ScanLimit :
    /\ u + Offset[u] \in Nat
    /\ Civil[(u + Offset[u]) \div DayLength] \in [day : 1 .. 31, month : 1 .. 12, weekday : 0 .. 6]

Item == [kind : {"any", "one", "range"}, from : Nat, to : Nat, step : Nat]

\* _parse_cron_field reads items of digits.
ASSUME ExprAssumption ==
  \A e \in Expr : e.minute \cup e.hour \cup e.day \cup e.month \cup e.weekday \subseteq Item

MinuteShape  == [low |-> 0, high |-> MinuteHigh, dow |-> FALSE]
HourShape    == [low |-> 0, high |-> HourHigh, dow |-> FALSE]
DayShape     == [low |-> 1, high |-> 31, dow |-> FALSE]
MonthShape   == [low |-> 1, high |-> 12, dow |-> FALSE]
WeekdayShape == [low |-> 0, high |-> 7, dow |-> TRUE]

VARIABLES
  expr,      \* the trigger's expression
  now,
  next,      \* next_run_at, or Never before the trigger is created
  pc,        \* "idle", "scan", or "failed": no occurrence within the limit
  candidate, \* the minute the scan looks at
  limit,
  fired      \* history: the last claim, [at, now]

vars == <<expr, now, next, pc, candidate, limit, fired>>

-----------------------------------------------------------------------------
Valid(e) ==
  /\ ValidField(e.minute, MinuteShape) /\ ValidField(e.hour, HourShape)
  /\ ValidField(e.day, DayShape) /\ ValidField(e.month, MonthShape)
  /\ ValidField(e.weekday, WeekdayShape)

\* The local representation of a UTC minute; weekdays count from Sunday.
Local(u) ==
  LET m == u + Offset[u]
      d == Civil[m \div DayLength]
  IN  [minute |-> m % HourLength, hour |-> (m % DayLength) \div HourLength,
       day |-> d.day, month |-> d.month, weekday |-> (d.weekday + 1) % 7]

Matches(e, u) ==
  LET l == Local(u) IN
  /\ l.minute \in Field(e.minute, MinuteShape)
  /\ l.hour \in Field(e.hour, HourShape)
  /\ l.month \in Field(e.month, MonthShape)
  /\ DayMatches(Field(e.day, DayShape), Field(e.weekday, WeekdayShape), l,
                Wildcard(e.day), Wildcard(e.weekday))

\* Looks at the minute itself first: the occurrence just claimed is found again.
ScanFromNow(after) ==
  /\ pc' = "scan"
  /\ candidate' = after
  /\ limit' = after + ScanLimit

\* _next_cron begins strictly after the minute it is given.
ScanFrom(after) ==
  /\ pc' = "scan"
  /\ candidate' = after + 1
  /\ limit' = after + 1 + ScanLimit

\* validate_trigger_spec refuses the expression, or create_trigger scans for
\* the first instant.
Create ==
  /\ pc = "idle" /\ next = Never
  /\ Valid(expr)
  /\ ScanFrom(now)
  /\ UNCHANGED <<expr, now, next, fired>>

\* A tick claims the occurrence that is due; now may be long past it.
Claim ==
  /\ pc = "idle" /\ next # Never /\ next <= now
  /\ fired' = [at |-> next, now |-> now]
  /\ ScanFrom(Larger(next, now))
  /\ UNCHANGED <<expr, now, next>>

Scan ==
  /\ pc = "scan"
  /\ \/ /\ candidate > limit
        /\ pc' = "failed"
        /\ UNCHANGED <<next, candidate>>
     \/ /\ candidate <= limit /\ Matches(expr, candidate)
        /\ next' = candidate
        /\ pc' = "idle"
        /\ candidate' = Never
     \/ /\ candidate <= limit /\ ~Matches(expr, candidate)
        /\ candidate' = candidate + 1
        /\ UNCHANGED <<next, pc>>
  /\ UNCHANGED <<expr, now, limit, fired>>

Pass ==
  /\ now < Horizon
  /\ now' = now + 1
  /\ UNCHANGED <<expr, next, pc, candidate, limit, fired>>

Init ==
  /\ expr \in Expr
  /\ now = 0 /\ next = Never /\ pc = "idle" /\ candidate = Never /\ limit = 0
  /\ fired = [at |-> Never, now |-> Never]

Next == Create \/ Claim \/ Scan \/ Pass

Spec == Init /\ [][Next]_vars

-----------------------------------------------------------------------------
(***************************************************************************)
(* The reference: what a crontab expression means.                         *)
(***************************************************************************)
Allows(items, n, shape) ==
  \E i \in items :
    CASE i.kind = "any"   -> (n - shape.low) % StepOf(i) = 0
      [] i.kind = "one"   -> n = i.from
      [] i.kind = "range" -> i.from <= n /\ n <= i.to /\ (n - i.from) % StepOf(i) = 0

\* Sunday is both 0 and 7.
AllowsWeekday(items, n) ==
  Allows(items, n, WeekdayShape) \/ (n = 0 /\ Allows(items, 7, WeekdayShape))

Means(e, u) ==
  LET l == Local(u)
      byDay     == Allows(e.day, l.day, DayShape)
      byWeekday == AllowsWeekday(e.weekday, l.weekday)
  IN  /\ Allows(e.minute, l.minute, MinuteShape)
      /\ Allows(e.hour, l.hour, HourShape)
      /\ Allows(e.month, l.month, MonthShape)
      /\ IF Wildcard(e.day) \/ Wildcard(e.weekday)
         THEN byDay /\ byWeekday
         ELSE byDay \/ byWeekday

\* Where the last claim left the schedule.
Since == Larger(fired.at, fired.now)

\* Between claims, next_run_at is the first minute after the last claim that
\* the expression means: the backlog of an outage is never replayed, no later
\* occurrence is skipped, a local time the clock skips is not invented and one
\* it repeats counts twice (ARCHITECTURE.md "Scheduling behavior").
NextIsTheFirstMatch ==
  pc = "idle" /\ next # Never =>
    /\ Means(expr, next)
    /\ next > Since
    /\ fired.at # Never => \A u \in Since + 1 .. next - 1 : ~Means(expr, u)

\* The scan gives up, and with it the transaction that claims and the tick,
\* only when the expression means no minute of the whole range.
FailsOnlyWithoutMatch ==
  pc = "failed" => \A u \in limit - ScanLimit .. limit : ~Means(expr, u)

\* README.md "standard five-field cron": the parser takes what it takes of a
\* weekday field in the standard meaning.
WeekdaysAreStandard ==
  Valid(expr) => \A n \in 0 .. 6 :
    n \in Field(expr.weekday, WeekdayShape) <=> AllowsWeekday(expr.weekday, n)
=============================================================================
