------------------------------ MODULE CronProofs ------------------------------
(***************************************************************************)
(* Cron for every clock, zone, calendar and expression: the scan finds the *)
(* first minute the parsed expression matches (CronInv), and what the      *)
(* parser makes of a field is what the field means (Meaning), but for      *)
(* ranges of weekdays that are written with a 7.                           *)
(***************************************************************************)
EXTENDS Cron, TLAPS

\* No range of weekdays begins or ends with the second number of Sunday.
NoRangeWithSeven(e) == \A i \in e.weekday : i.kind = "range" => i.from # 7 /\ i.to # 7

Minutes == 0 .. Horizon + 1 + ScanLimit

-----------------------------------------------------------------------------
(***************************************************************************)
(* Local time.                                                             *)
(***************************************************************************)
LEMMA Quotient ==
  ASSUME NEW r \in Nat, NEW h \in Nat, h > 0, NEW k \in Nat, r < h * k
  PROVE  r \div h \in 0 .. k - 1
OBVIOUS

LEMMA LocalInRange ==
  ASSUME NEW u \in Minutes
  PROVE  /\ Local(u).minute \in 0 .. MinuteHigh /\ Local(u).hour \in 0 .. HourHigh
         /\ Local(u).day \in 1 .. 31 /\ Local(u).month \in 1 .. 12
         /\ Local(u).weekday \in 0 .. 6
<1> DEFINE m == u + Offset[u]
           d == Civil[m \div DayLength]
<1>1. m \in Nat /\ d \in [day : 1 .. 31, month : 1 .. 12, weekday : 0 .. 6]
  BY ZoneAssumption DEF Minutes
<1>2. HourLength \in Nat /\ HourLength > 0 /\ HourHigh + 1 \in Nat /\ HourHigh + 1 > 0
  BY ClockAssumption DEF HourLength
<1>3. DayLength \in Nat /\ DayLength > 0
  BY <1>2 DEF DayLength
<1>4. m % HourLength \in 0 .. MinuteHigh
  <2>1. m % HourLength \in 0 .. HourLength - 1
    BY <1>1, <1>2
  <2> QED
    BY <2>1, ClockAssumption DEF HourLength
<1>5. (m % DayLength) \div HourLength \in 0 .. HourHigh
  <2>1. m % DayLength \in Nat /\ m % DayLength < DayLength
    BY <1>1, <1>3
  <2>2. (m % DayLength) \div HourLength \in 0 .. (HourHigh + 1) - 1
    BY <1>2, <2>1, Quotient DEF DayLength
  <2> QED
    BY <2>2, ClockAssumption
<1>6. (d.weekday + 1) % 7 \in 0 .. 6
  BY <1>1
<1> HIDE DEF m, d
<1>7. Local(u) = [minute |-> m % HourLength, hour |-> (m % DayLength) \div HourLength,
                  day |-> d.day, month |-> d.month, weekday |-> (d.weekday + 1) % 7]
  BY DEF Local, m, d
<1> QED
  BY <1>1, <1>4, <1>5, <1>6, <1>7

-----------------------------------------------------------------------------
(***************************************************************************)
(* Fields.                                                                 *)
(***************************************************************************)
\* What one item allows, in crontab's meaning.
AllowsItem(i, n, shape) ==
  \/ i.kind = "any" /\ (n - shape.low) % StepOf(i) = 0
  \/ i.kind = "one" /\ n = i.from
  \/ i.kind = "range" /\ i.from <= n /\ n <= i.to /\ (n - i.from) % StepOf(i) = 0

LEMMA AllowsByItem ==
  ASSUME NEW items, items \subseteq Item, NEW n, NEW shape
  PROVE  Allows(items, n, shape) <=> \E i \in items : AllowsItem(i, n, shape)
<1>1. ASSUME NEW i \in items
      PROVE  AllowsItem(i, n, shape) <=>
               CASE i.kind = "any"   -> (n - shape.low) % StepOf(i) = 0
                 [] i.kind = "one"   -> n = i.from
                 [] i.kind = "range" -> i.from <= n /\ n <= i.to /\ (n - i.from) % StepOf(i) = 0
  <2>1. i.kind \in {"any", "one", "range"}
    BY DEF Item
  <2> QED
    BY <2>1 DEF AllowsItem
<1> QED
  BY <1>1 DEF Allows

\* Minutes, hours, days and months: the parser's values are the meant ones.
LEMMA FieldMeaning ==
  ASSUME NEW items, items \subseteq Item, NEW low \in Nat, NEW high \in Nat, NEW n \in low .. high,
         ValidField(items, [low |-> low, high |-> high, dow |-> FALSE])
  PROVE  n \in Field(items, [low |-> low, high |-> high, dow |-> FALSE])
           <=> Allows(items, n, [low |-> low, high |-> high, dow |-> FALSE])
<1> DEFINE shape == [low |-> low, high |-> high, dow |-> FALSE]
<1>1. shape.low = low /\ shape.high = high /\ shape.dow = FALSE
  OBVIOUS
<1> HIDE DEF shape
<1>2. \A k : Number(k, shape) = k
  BY <1>1 DEF Number
<1>3. ASSUME NEW i \in items PROVE n \in Values(i, shape) <=> AllowsItem(i, n, shape)
  <2>1. /\ i.kind \in {"any", "one", "range"} /\ i.from \in Nat /\ i.to \in Nat /\ i.step \in Nat
    BY DEF Item
  <2>2. StepOf(i) \in Nat /\ StepOf(i) > 0
    BY <2>1 DEF StepOf
  <2>3. CASE i.kind = "any"
    <3>1. First(i, shape) = low /\ Last(i, shape) = high
      BY <1>1, <2>3 DEF First, Last
    <3> QED
      BY <1>1, <2>3, <3>1 DEF Values, AllowsItem
  <2>4. CASE i.kind = "one"
    <3>1. First(i, shape) = i.from /\ Last(i, shape) = i.from
      BY <1>2, <2>4 DEF First, Last
    <3>2. (i.from - i.from) % StepOf(i) = 0
      BY <2>1, <2>2
    <3> QED
      BY <2>1, <2>4, <3>1, <3>2 DEF Values, AllowsItem
  <2>5. CASE i.kind = "range"
    <3>1. First(i, shape) = i.from /\ Last(i, shape) = i.to
      BY <1>2, <2>5 DEF First, Last
    <3> QED
      BY <2>1, <2>5, <3>1 DEF Values, AllowsItem
  <2> QED
    BY <2>1, <2>3, <2>4, <2>5
<1>4. n \in Field(items, shape) <=> \E i \in items : n \in Values(i, shape)
  BY <1>2 DEF Field
<1> QED
  BY <1>3, <1>4, AllowsByItem DEF shape

\* Weekdays: 7 is Sunday, in an item of its own and under a star.
LEMMA WeekdayMeaning ==
  ASSUME NEW items, items \subseteq Item, NEW n \in 0 .. 6, ValidField(items, WeekdayShape),
         \A i \in items : i.kind = "range" => i.from # 7 /\ i.to # 7
  PROVE  n \in Field(items, WeekdayShape) <=> AllowsWeekday(items, n)
<1> DEFINE shape == WeekdayShape
<1>1. shape.low = 0 /\ shape.high = 7 /\ shape.dow = TRUE
  BY DEF WeekdayShape
<1> HIDE DEF shape
<1>2. \A k : Number(k, shape) = IF k = 7 THEN 0 ELSE k
  BY <1>1 DEF Number
<1>3. ASSUME NEW i \in items
      PROVE  (\E k \in Values(i, shape) : n = Number(k, shape))
               <=> (AllowsItem(i, n, shape) \/ (n = 0 /\ AllowsItem(i, 7, shape)))
  <2>1. /\ i.kind \in {"any", "one", "range"} /\ i.from \in Nat /\ i.to \in Nat /\ i.step \in Nat
    BY DEF Item
  <2>2. StepOf(i) \in Nat /\ StepOf(i) > 0
    BY <2>1 DEF StepOf
  <2>3. ValidItem(i, shape)
    BY DEF ValidField, shape
  <2>4. CASE i.kind = "any"
    <3>1. Values(i, shape) = {k \in 0 .. 7 : (k - 0) % StepOf(i) = 0}
      BY <1>1, <2>4 DEF First, Last, Values
    <3>2. (0 - 0) % StepOf(i) = 0
      BY <2>2
    <3>3. \A k : AllowsItem(i, k, shape) <=> (k - 0) % StepOf(i) = 0
      BY <1>1, <2>4 DEF AllowsItem
    <3> QED
      BY <1>2, <3>1, <3>2, <3>3
  <2>5. CASE i.kind = "one"
    <3>1. First(i, shape) = Number(i.from, shape) /\ Last(i, shape) = Number(i.from, shape)
      BY <2>5 DEF First, Last
    <3>2. Number(i.from, shape) \in 0 .. 6
      BY <1>1, <1>2, <2>1, <2>3, <3>1 DEF ValidItem
    <3>3. (Number(i.from, shape) - Number(i.from, shape)) % StepOf(i) = 0
      BY <2>2, <3>2
    <3>4. Values(i, shape) = {Number(i.from, shape)}
      BY <3>1, <3>2, <3>3 DEF Values
    <3>5. \A k : AllowsItem(i, k, shape) <=> k = i.from
      BY <2>5 DEF AllowsItem
    <3> QED
      BY <1>2, <2>1, <3>2, <3>4, <3>5
  <2>6. CASE i.kind = "range"
    <3>1. First(i, shape) = i.from /\ Last(i, shape) = i.to
      BY <1>2, <2>6 DEF First, Last
    <3>2. i.from \in 0 .. 6 /\ i.to \in 0 .. 6
      BY <1>1, <2>1, <2>3, <2>6, <3>1 DEF ValidItem
    <3>3. Values(i, shape) = {k \in i.from .. i.to : (k - i.from) % StepOf(i) = 0}
      BY <3>1 DEF Values
    <3>4. \A k \in Int : AllowsItem(i, k, shape) <=>
            (i.from <= k /\ k <= i.to /\ (k - i.from) % StepOf(i) = 0)
      BY <2>6 DEF AllowsItem
    <3>5. ~AllowsItem(i, 7, shape)
      BY <3>2, <3>4
    <3> QED
      BY <1>2, <3>2, <3>3, <3>4, <3>5
  <2> QED
    BY <2>1, <2>4, <2>5, <2>6
<1>4. n \in Field(items, shape) <=>
        \E i \in items : \E k \in Values(i, shape) : n = Number(k, shape)
  BY DEF Field
<1> QED
  BY <1>3, <1>4, AllowsByItem DEF AllowsWeekday, shape

LEMMA WildcardAllows ==
  ASSUME NEW items, Wildcard(items), NEW n \in Int, NEW shape, shape.low \in Int
  PROVE  Allows(items, n, shape)
<1>1. Star \in Item /\ Star.kind = "any" /\ StepOf(Star) = 1
  BY DEF Star, Item, StepOf
<1>2. (n - shape.low) % 1 = 0
  OBVIOUS
<1> QED
  BY <1>1, <1>2, AllowsByItem DEF Wildcard, AllowsItem

\* The parsed expression matches a minute exactly when the expression means it.
LEMMA Meaning ==
  ASSUME NEW e \in Expr, Valid(e), NoRangeWithSeven(e), NEW u \in Minutes
  PROVE  Matches(e, u) <=> Means(e, u)
<1> DEFINE l == Local(u)
<1>1. /\ l.minute \in 0 .. MinuteHigh /\ l.hour \in 0 .. HourHigh
      /\ l.day \in 1 .. 31 /\ l.month \in 1 .. 12 /\ l.weekday \in 0 .. 6
  BY LocalInRange
<1> HIDE DEF l
<1>2. /\ e.minute \subseteq Item /\ e.hour \subseteq Item /\ e.day \subseteq Item
      /\ e.month \subseteq Item /\ e.weekday \subseteq Item
  BY ExprAssumption
<1>3. l.minute \in Field(e.minute, MinuteShape) <=> Allows(e.minute, l.minute, MinuteShape)
  BY <1>1, <1>2, FieldMeaning, ClockAssumption DEF Valid, MinuteShape
<1>4. l.hour \in Field(e.hour, HourShape) <=> Allows(e.hour, l.hour, HourShape)
  BY <1>1, <1>2, FieldMeaning, ClockAssumption DEF Valid, HourShape
<1>5. l.month \in Field(e.month, MonthShape) <=> Allows(e.month, l.month, MonthShape)
  BY <1>1, <1>2, FieldMeaning DEF Valid, MonthShape
<1>6. l.day \in Field(e.day, DayShape) <=> Allows(e.day, l.day, DayShape)
  BY <1>1, <1>2, FieldMeaning DEF Valid, DayShape
<1>7. l.weekday \in Field(e.weekday, WeekdayShape) <=> AllowsWeekday(e.weekday, l.weekday)
  BY <1>1, <1>2, WeekdayMeaning DEF Valid, NoRangeWithSeven
<1>8. Wildcard(e.day) => Allows(e.day, l.day, DayShape)
  BY <1>1, WildcardAllows DEF DayShape
<1>9. Wildcard(e.weekday) => AllowsWeekday(e.weekday, l.weekday)
  BY <1>1, WildcardAllows DEF WeekdayShape, AllowsWeekday
<1>10. DayMatches(Field(e.day, DayShape), Field(e.weekday, WeekdayShape), l,
                  Wildcard(e.day), Wildcard(e.weekday))
         <=> IF Wildcard(e.day) \/ Wildcard(e.weekday)
             THEN Allows(e.day, l.day, DayShape) /\ AllowsWeekday(e.weekday, l.weekday)
             ELSE Allows(e.day, l.day, DayShape) \/ AllowsWeekday(e.weekday, l.weekday)
  BY <1>6, <1>7, <1>8, <1>9 DEF DayMatches
<1> QED
  BY <1>3, <1>4, <1>5, <1>10 DEF Matches, Means, l

-----------------------------------------------------------------------------
(***************************************************************************)
(* The scan.                                                               *)
(***************************************************************************)
\* No minute of the interval matches the trigger's expression.
NoMatch(from, to) == \A u \in from .. to : ~Matches(expr, u)

ClaimInv ==
  /\ fired = [at |-> Never, now |-> Never] \/ fired \in [at : Nat, now : 0 .. now]
  /\ fired.at # Never => fired.at <= now /\ next # Never

\* A scan begins right after the last claim, or after the creation.
LimitInv ==
  /\ limit - ScanLimit \in Nat /\ limit <= now + 1 + ScanLimit
  /\ limit - ScanLimit > Since
  /\ fired.at # Never => limit - ScanLimit = Since + 1

ScanInv ==
  pc = "scan" =>
    /\ LimitInv
    /\ candidate \in limit - ScanLimit .. limit + 1
    /\ NoMatch(limit - ScanLimit, candidate - 1)

NextInv ==
  pc = "idle" /\ next # Never =>
    /\ next \in Minutes /\ Matches(expr, next)
    /\ next > Since
    /\ fired.at # Never => NoMatch(Since + 1, next - 1)

CronInv ==
  /\ expr \in Expr /\ now \in 0 .. Horizon
  /\ pc \in {"idle", "scan", "failed"}
  /\ next \in Nat \cup {Never} /\ limit \in Nat
  /\ pc # "idle" \/ next # Never => Valid(expr)
  /\ ClaimInv /\ ScanInv /\ NextInv
  /\ pc = "failed" => LimitInv /\ NoMatch(limit - ScanLimit, limit)

LEMMA SinceType ==
  ASSUME CronInv
  PROVE  Since \in Int /\ Since <= now /\ Since >= -1 /\ (fired.at # Never => Since >= 0)
BY ClockAssumption DEF CronInv, ClaimInv, Since, Larger, Never

LEMMA Later ==
  ASSUME NEW m \in Int, NEW n \in Int, NEW k \in Int, NEW l \in Int, l <= m + 1 + k, m <= n
  PROVE  l <= n + 1 + k
OBVIOUS

LEMMA InitCronInv == Init => CronInv
BY ClockAssumption DEF Init, CronInv, ClaimInv, ScanInv, NextInv

LEMMA StepCronInv == CronInv /\ [Next]_vars => CronInv'
<1> SUFFICES ASSUME CronInv, [Next]_vars PROVE CronInv'
  OBVIOUS
<1> USE ClockAssumption
<1>1. Since \in Int /\ Since <= now /\ Since >= -1 /\ (fired.at # Never => Since >= 0)
  BY SinceType
<1>2. CASE Create
  <2>1. /\ pc' = "scan" /\ candidate' = now + 1 /\ limit' = now + 1 + ScanLimit
        /\ UNCHANGED <<expr, now, next, fired>> /\ Valid(expr) /\ next = Never
    BY <1>2 DEF Create, ScanFrom
  <2>2. Since' = Since /\ fired.at = Never
    BY <2>1 DEF Since, CronInv, ClaimInv
  <2>3. ScanInv'
    BY <1>1, <2>1, <2>2 DEF ScanInv, LimitInv, CronInv, NoMatch
  <2>4. ClaimInv'
    BY <2>1, <2>2 DEF CronInv, ClaimInv
  <2> QED
    BY <2>1, <2>3, <2>4 DEF CronInv, NextInv
<1>3. CASE Claim
  <2>1. /\ pc' = "scan" /\ candidate' = now + 1 /\ limit' = now + 1 + ScanLimit
        /\ UNCHANGED <<expr, now, next>> /\ Valid(expr) /\ next \in Nat /\ next <= now
        /\ fired' = [at |-> next, now |-> now]
    BY <1>3 DEF Claim, ScanFrom, CronInv, Larger
  <2>2. Since' = now
    BY <2>1 DEF Since, Larger, CronInv
  <2>3. ScanInv'
    BY <2>1, <2>2 DEF ScanInv, LimitInv, CronInv, NoMatch
  <2>4. ClaimInv'
    BY <2>1 DEF ClaimInv, CronInv, Never
  <2> QED
    BY <2>1, <2>3, <2>4 DEF CronInv, NextInv
<1>4. CASE Scan
  <2>1. /\ UNCHANGED <<expr, now, limit, fired>> /\ pc = "scan" /\ Since' = Since
        /\ LimitInv /\ LimitInv' /\ candidate \in limit - ScanLimit .. limit + 1
        /\ NoMatch(limit - ScanLimit, candidate - 1) /\ candidate \in Nat /\ limit \in Nat
    BY <1>4 DEF Scan, CronInv, ScanInv, LimitInv, Since
  <2>2. ClaimInv'
    BY <1>4, <2>1 DEF Scan, CronInv, ClaimInv, Never
  <2>3. CASE candidate > limit /\ pc' = "failed" /\ UNCHANGED <<next, candidate>>
    <3>1. NoMatch(limit - ScanLimit, limit)
      BY <2>1, <2>3 DEF NoMatch, LimitInv, CronInv
    <3> QED
      BY <2>1, <2>2, <2>3, <3>1 DEF CronInv, ScanInv, NextInv, NoMatch
  <2>4. CASE candidate <= limit /\ Matches(expr, candidate) /\ next' = candidate /\ pc' = "idle"
    <3>1. candidate \in Minutes /\ candidate > Since
      BY <1>1, <2>1, <2>4 DEF LimitInv, Minutes, CronInv
    <3>2. NextInv'
      BY <1>1, <2>1, <2>4, <3>1 DEF NextInv, NoMatch, LimitInv, CronInv
    <3> QED
      BY <2>1, <2>2, <2>4, <3>2 DEF CronInv, ScanInv
  <2>5. CASE /\ candidate <= limit /\ ~Matches(expr, candidate)
             /\ candidate' = candidate + 1 /\ UNCHANGED <<next, pc>>
    <3>1. NoMatch(limit - ScanLimit, candidate)
      BY <2>1, <2>5 DEF NoMatch, LimitInv, CronInv
    <3>2. ScanInv'
      BY <2>1, <2>5, <3>1 DEF ScanInv, NoMatch, LimitInv, CronInv
    <3> QED
      BY <2>1, <2>2, <2>5, <3>2 DEF CronInv, NextInv
  <2> QED
    BY <1>4, <2>3, <2>4, <2>5 DEF Scan
<1>5. CASE Pass \/ UNCHANGED vars
  <2>1. /\ UNCHANGED <<expr, next, pc, candidate, limit, fired>> /\ Since' = Since
        /\ now' >= now /\ now' \in 0 .. Horizon
    BY <1>5 DEF Pass, vars, Since, CronInv
  <2>2. ClaimInv'
    BY <2>1 DEF ClaimInv, CronInv
  <2>3. LimitInv => LimitInv'
    <3>1. /\ now \in Int /\ now' \in Int /\ limit \in Int /\ now' >= now
          /\ ScanLimit \in Int
      BY <2>1 DEF CronInv
    <3>2. limit <= now + 1 + ScanLimit => limit <= now' + 1 + ScanLimit
      BY <3>1, Later
    <3> QED
      BY <2>1, <3>2 DEF LimitInv
  <2>4. ScanInv' /\ NextInv'
    BY <2>1, <2>3 DEF ScanInv, NextInv, NoMatch, CronInv
  <2>5. (pc = "failed" => LimitInv /\ NoMatch(limit - ScanLimit, limit))'
    BY <2>1, <2>3 DEF NoMatch, CronInv
  <2> QED
    BY <2>1, <2>2, <2>4, <2>5 DEF CronInv
<1> QED
  BY <1>2, <1>3, <1>4, <1>5 DEF Next

LEMMA AlwaysCronInv == Spec => []CronInv
BY InitCronInv, StepCronInv, PTL DEF Spec

-----------------------------------------------------------------------------
\* _next_cron: for every clock, zone and expression, between claims next_run_at
\* is the first minute after the last claim that the parsed expression matches.
THEOREM NextIsTheFirstParsed == Spec => []NextInv
<1>1. CronInv => NextInv
  BY DEF CronInv
<1> QED
  BY <1>1, AlwaysCronInv, PTL

\* The same in the crontab meaning of the expression, where no range of
\* weekdays is written with a 7 (the parser turns 0-7 into Sunday alone).
THEOREM NextIsAlwaysFirst ==
  ASSUME \A e \in Expr : Valid(e) => NoRangeWithSeven(e)
  PROVE  Spec => []NextIsTheFirstMatch
<1>1. CronInv => NextIsTheFirstMatch
  <2> SUFFICES ASSUME CronInv, pc = "idle", next # Never PROVE
                 /\ Means(expr, next)
                 /\ next > Since
                 /\ fired.at # Never => \A u \in Since + 1 .. next - 1 : ~Means(expr, u)
    BY DEF NextIsTheFirstMatch
  <2>1. /\ expr \in Expr /\ Valid(expr) /\ NoRangeWithSeven(expr)
        /\ next \in Minutes /\ Matches(expr, next) /\ next > Since
    BY DEF CronInv, NextInv
  <2>2. ASSUME fired.at # Never, NEW u \in Since + 1 .. next - 1 PROVE ~Means(expr, u)
    <3>1. u \in Minutes /\ ~Matches(expr, u)
      BY <2>1, <2>2, SinceType, ClockAssumption DEF CronInv, NextInv, NoMatch, Minutes
    <3> QED
      BY <2>1, <3>1, Meaning
  <2> QED
    BY <2>1, <2>2, Meaning
<1> QED
  BY <1>1, AlwaysCronInv, PTL

\* _next_cron gives up only where the expression means no minute of the range
\* it scanned.
THEOREM GivesUpOnlyWithoutMatch ==
  ASSUME \A e \in Expr : Valid(e) => NoRangeWithSeven(e)
  PROVE  Spec => []FailsOnlyWithoutMatch
<1>1. CronInv => FailsOnlyWithoutMatch
  <2> SUFFICES ASSUME CronInv, pc = "failed", NEW u \in limit - ScanLimit .. limit
               PROVE  ~Means(expr, u)
    BY DEF FailsOnlyWithoutMatch
  <2>1. /\ expr \in Expr /\ Valid(expr) /\ NoRangeWithSeven(expr)
        /\ LimitInv /\ ~Matches(expr, u)
    BY DEF CronInv, NoMatch
  <2>2. u \in Minutes
    BY <2>1, ClockAssumption DEF CronInv, LimitInv, Minutes
  <2> QED
    BY <2>1, <2>2, Meaning
<1> QED
  BY <1>1, AlwaysCronInv, PTL
=============================================================================
