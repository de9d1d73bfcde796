------------------------------- MODULE MCCron -------------------------------
(***************************************************************************)
(* Cron on a clock with three minutes to the hour and four hours to the    *)
(* day: eight days over the end of a month, the clock put forward an hour  *)
(* on the second day and back on the third.                                *)
(***************************************************************************)
EXTENDS Cron

MCOffset == [u \in 0 .. 93 |-> IF u \in 14 .. 25 THEN 3 ELSE 0]

\* From Friday the 29th on.
MCCivil == [d \in 0 .. 8 |-> [day     |-> IF d < 3 THEN 29 + d ELSE d - 2,
                              month   |-> IF d < 3 THEN 1 ELSE 2,
                              weekday |-> (d + 4) % 7]]

One(n)        == {[kind |-> "one", from |-> n, to |-> n, step |-> 0]}
Span(m, n, s) == {[kind |-> "range", from |-> m, to |-> n, step |-> s]}
EverySo(s)    == {[Star EXCEPT !.step = s]}
Every         == {Star}

At(minute, hour, day, month, weekday) ==
  [minute |-> minute, hour |-> hour, day |-> day, month |-> month, weekday |-> weekday]

MCExpr == {
  At(Every, Every, Every, Every, Every),
  At(One(0), One(1), Every, Every, Every),            \* skipped, then repeated
  At(EverySo(2), One(0) \cup One(3), Every, Every, One(7)),
  At(One(2), Span(0, 3, 2), One(1), Every, Every),
  At(One(0), One(1), One(30), Every, One(1)),         \* the 30th or a Monday
  At(One(1), One(2), Every, One(2), Span(1, 5, 2)),
  At(One(1), One(2), EverySo(3), Every, One(5)),
  At(One(0), One(0), One(15), One(3), Every),         \* no occurrence at all
  At(One(0), One(0), Every, Every, Span(5, 7, 0)) }   \* refused

MCWeekdays == { At(One(0), One(0), Every, Every, Span(0, 7, 0)) }
=============================================================================
