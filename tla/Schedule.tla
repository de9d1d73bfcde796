------------------------------ MODULE Schedule ------------------------------
(***************************************************************************)
(* The pure functions of schedule.py and of the clock texts of util.py.    *)
(*                                                                         *)
(* Instants of timed triggers are counted in half seconds: the text of an  *)
(* even one has no fraction ("...00Z"), the text of an odd one has         *)
(* ("...00.500000Z").  Instants of cron are whole minutes.                 *)
(***************************************************************************)
EXTENDS Integers, FiniteSets

Never == -1   \* next_run_at IS NULL

Larger(m, n) == IF m > n THEN m ELSE n

-----------------------------------------------------------------------------
(***************************************************************************)
(* Clock texts, one-time and interval triggers.                            *)
(***************************************************************************)
\* SQLite compares the texts iso() writes: within one second the text with a
\* fraction comes first, because "." sorts before "Z".
IsoLE(m, n) ==
  \/ m \div 2 < n \div 2
  \/ m \div 2 = n \div 2 /\ (m % 2 = 1 \/ n % 2 = 0)

\* Steps on from the time of the claim: the phase drifts.
AdvanceFromNow(at, period, now) == now + period

\* Replays what was missed, one period at a time.
AdvanceOnePeriod(at, period, now) == at + period

\* advance_after_fire of an interval: the instants missed are skipped.
AdvanceInterval(at, period, now) ==
  LET candidate == at + period IN
  IF candidate <= now
  THEN candidate + ((now - candidate) \div period + 1) * period
  ELSE candidate

\* A specification is [kind, value]: the instant, the period, or nothing.
TimedSpec(s) == s.kind \in {"once", "interval"}

FirstRunAt(s, now) ==
  CASE s.kind = "once"     -> s.value
    [] s.kind = "interval" -> now + s.value
    [] OTHER               -> Never

AdvanceAfterFire(s, at, now) ==
  IF s.kind = "interval" THEN AdvanceInterval(at, s.value, now) ELSE Never

-----------------------------------------------------------------------------
(***************************************************************************)
(* Cron fields.  A field is a set of items [kind, from, to, step]; kind is *)
(* "any" (a star), "one" (from) or "range" (from-to), and step is 0 where  *)
(* none is written.  A shape says what a field may hold: [low, high, dow]. *)
(***************************************************************************)
Star == [kind |-> "any", from |-> 0, to |-> 0, step |-> 0]

\* Knows no other number of Sunday than 0.
NumberAsWritten(n, shape) == n

\* 7 is Sunday, as 0 is.
Number(n, shape) == IF shape.dow /\ n = 7 THEN 0 ELSE n

First(i, shape) == IF i.kind = "any" THEN shape.low ELSE Number(i.from, shape)
Last(i, shape)  == CASE i.kind = "any"   -> shape.high
                     [] i.kind = "one"   -> First(i, shape)
                     [] i.kind = "range" -> Number(i.to, shape)
StepOf(i) == IF i.step = 0 THEN 1 ELSE i.step

ValidItem(i, shape) ==
  /\ i.step <= shape.high - shape.low + 1
  /\ {First(i, shape), Last(i, shape)} \subseteq shape.low .. shape.high
  /\ First(i, shape) <= Last(i, shape)

ValidField(items, shape) == items # {} /\ \A i \in items : ValidItem(i, shape)

Values(i, shape) ==
  {n \in First(i, shape) .. Last(i, shape) : (n - First(i, shape)) % StepOf(i) = 0}

Field(items, shape) == {Number(n, shape) : n \in UNION {Values(i, shape) : i \in items}}

Wildcard(items) == items = {Star}

\* _cron_matches, its last lines: two restricted days are alternatives.
DayMatches(days, weekdays, l, anyDay, anyWeekday) ==
  CASE anyDay /\ anyWeekday -> TRUE
    [] anyDay /\ ~anyWeekday -> l.weekday \in weekdays
    [] ~anyDay /\ anyWeekday -> l.day \in days
    [] OTHER -> l.day \in days \/ l.weekday \in weekdays
=============================================================================
