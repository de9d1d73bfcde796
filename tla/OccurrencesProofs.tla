--------------------------- MODULE OccurrencesProofs ---------------------------
(***************************************************************************)
(* Which occurrences become runs, for every number of automations,         *)
(* triggers, tickers and edits, every period and every delay of a claim.   *)
(* A trigger is judged with the runs it has and the clock (Sound), so that *)
(* an operation on one trigger, or a tick over all of them, is argued      *)
(* trigger by trigger.                                                     *)
(***************************************************************************)
EXTENDS Occurrences, TLAPS

-----------------------------------------------------------------------------
(***************************************************************************)
(* Arithmetic.                                                             *)
(***************************************************************************)
LEMMA Division ==
  ASSUME NEW x \in Int, NEW p \in Nat, p > 0
  PROVE  /\ x \div p \in Int
         /\ p * (x \div p) <= x /\ x < p * (x \div p) + p
<1>1. x \div p \in Int
  OBVIOUS
<1>2. p * (x \div p) <= x
  OBVIOUS
<1>3. x < p * (x \div p) + p
  OBVIOUS
<1> QED
  BY <1>1, <1>2, <1>3

LEMMA Remainder ==
  ASSUME NEW k \in Int, NEW p \in Nat, p > 0
  PROVE  (p * k) % p = 0
OBVIOUS

LEMMA SumOfPeriods ==
  ASSUME NEW x \in Int, NEW y \in Int, NEW p \in Nat, p > 0, x % p = 0, y % p = 0
  PROVE  (x + y) % p = 0
<1>1. x = p * (x \div p) /\ x \div p \in Int
  OBVIOUS
<1>2. y = p * (y \div p) /\ y \div p \in Int
  OBVIOUS
<1> DEFINE i == x \div p
           j == y \div p
<1> HIDE DEF i, j
<1>3. x + y = p * (i + j) /\ i + j \in Int
  BY <1>1, <1>2 DEF i, j
<1> QED
  BY <1>3, Remainder

\* advance_after_fire of an interval, for every period and every delay: the
\* next instant lies ahead of the clock, on the phase, and is the first such.
THEOREM IntervalAdvances ==
  ASSUME NEW at0 \in Nat, NEW period \in Nat, period > 0, NEW n \in Nat
  PROVE  /\ AdvanceInterval(at0, period, n) \in Nat
         /\ AdvanceInterval(at0, period, n) > n
         /\ AdvanceInterval(at0, period, n) >= at0 + period
         /\ (AdvanceInterval(at0, period, n) - at0) % period = 0
         /\ AdvanceInterval(at0, period, n) - period <= Larger(at0, n)
<1> DEFINE c == at0 + period
           q == (n - c) \div period
<1>1. CASE c <= n
  <2>1. q \in Int /\ period * q <= n - c /\ n - c < period * q + period
    BY Division
  <2>2. q >= 0
    BY <1>1, <2>1
  <2>3. AdvanceInterval(at0, period, n) = c + (q + 1) * period
    BY <1>1 DEF AdvanceInterval
  <2> HIDE DEF q
  <2>4. (q + 1) * period = period * q + period /\ period * q >= 0 /\ period * q \in Int
    BY <2>1, <2>2
  <2>5. c + (q + 1) * period - at0 = period * (q + 2) /\ q + 2 \in Int
    BY <2>1
  <2>6. (c + (q + 1) * period - at0) % period = 0
    BY <2>5, Remainder
  <2> QED
    BY <1>1, <2>1, <2>3, <2>4, <2>6 DEF Larger
<1>2. CASE ~(c <= n)
  <2>1. AdvanceInterval(at0, period, n) = c
    BY <1>2 DEF AdvanceInterval
  <2>2. (c - at0) % period = 0
    <3>1. c - at0 = period * 1
      OBVIOUS
    <3> QED
      BY <3>1, Remainder
  <2> QED
    BY <1>2, <2>1, <2>2 DEF Larger
<1> QED
  BY <1>1, <1>2

\* A text that compares as due names an instant less than a second ahead.
LEMMA DueWithinASecond ==
  ASSUME NEW m \in Nat, NEW n \in Nat, IsoLE(m, n)
  PROVE  m < n + 2
BY DEF IsoLE

-----------------------------------------------------------------------------
(***************************************************************************)
(* A trigger x with the runs R at time n.                                  *)
(***************************************************************************)
ActiveInterval(x) == x.state = "active" /\ x.spec.kind = "interval"

Of(t, R)         == {r \in R : r.trigger = t}
Current(t, x, R) == {r \in R : r.trigger = t /\ r.version = x.version}

\* Armed while active; a one-time trigger for its own instant.
Armed(x) ==
  /\ Exists(x) =>
       x.version > 0 /\ (x.next # Never <=> x.state = "active" /\ TimedSpec(x.spec))
  /\ x.state = "active" /\ x.spec.kind = "once" => x.next = x.spec.value

\* A run belongs to this version of the trigger or to an earlier one.
Owned(x, r) ==
  /\ Exists(x) /\ r.version <= x.version /\ r.spec.kind = x.spec.kind
  /\ r.version = x.version => r.spec = x.spec

\* A run of a timed trigger is not early, and nothing of an interval that has
\* been claimed, under whatever version, is still to come.
Timely(x, r, n) ==
  /\ r.fired <= n
  /\ TimedSpec(r.spec) => r.occurrence \in Nat /\ r.occurrence < r.fired + 2
  /\ ActiveInterval(x) => r.occurrence < x.next /\ r.fired < x.next

\* The runs under this version are on the phase, and one of them is the last.
Phased(t, x, R) ==
  ActiveInterval(x) /\ Current(t, x, R) # {} =>
    /\ \A r \in Current(t, x, R) : (x.next - r.occurrence) % x.spec.value = 0
    /\ \E r \in Current(t, x, R) : x.next - x.spec.value <= Larger(r.occurrence, r.fired)

Sound(t, x, R, n) ==
  /\ Armed(x)
  /\ x.state = "completed" => \E r \in Of(t, R) : r.occurrence = x.spec.value
  /\ \A r \in Of(t, R) : Owned(x, r) /\ Timely(x, r, n)
  /\ Phased(t, x, R)

Punctual == \A w \in Ticker : at[w] # Asleep => at[w] <= now

OccInv == TypeOK /\ Punctual /\ \A t \in Trigger : Sound(t, trig[t], runs, now)

-----------------------------------------------------------------------------
\* An event has one receipt, and whoever is given its run sent that payload.
ReceiptInv ==
  /\ \A x, y \in receipts : x.trigger = y.trigger /\ x.event = y.event => x = y
  /\ told \subseteq receipts

\* Versions start at 1, and a keyed definition nobody has edited is the one
\* its request made.
KeyInv ==
  /\ DriftFailsClosed
  /\ \A a \in Automation : Exists(auto[a]) => auto[a].version > 0
  /\ created = [t \in Keyed |-> created[t]]
  /\ \A t \in Keyed : Exists(trig[t]) /\ Unedited(t) =>
       created[t] = <<trig[t].spec, auto[AutomationOf[t]].wake>>
  /\ reply # Nothing => reply.trigger \in Keyed
  /\ reply # Nothing /\ reply.result = "existing" => Exists(trig[reply.trigger])

-----------------------------------------------------------------------------
(***************************************************************************)
(* The operations on one trigger.                                          *)
(***************************************************************************)
LEMMA SpecFacts ==
  ASSUME NEW s \in Specs, NEW n \in Nat
  PROVE  /\ s.kind \in {"once", "interval", "event"}
         /\ s.kind = "once" => s.value \in Nat /\ FirstRunAt(s, n) = s.value
         /\ s.kind = "interval" => s.value \in Nat /\ s.value >= 2 /\ FirstRunAt(s, n) = n + s.value
         /\ s.kind = "event" => FirstRunAt(s, n) = Never
         /\ FirstRunAt(s, n) \in Upcoming
         /\ TimedSpec(s) <=> FirstRunAt(s, n) # Never
BY SpecAssumption DEF FirstRunAt, TimedSpec, Never, Upcoming

\* Only a trigger's own runs count, and time may pass.
LEMMA SoundLocal ==
  ASSUME NEW t \in Trigger, NEW x, NEW R, R \subseteq RunType, NEW S, NEW n \in Nat, NEW m \in Nat,
         n <= m, Sound(t, x, R, n), Of(t, S) = Of(t, R)
  PROVE  Sound(t, x, S, m)
<1>1. Current(t, x, S) = Current(t, x, R)
  BY DEF Of, Current
<1>2. Phased(t, x, S)
  BY <1>1 DEF Sound, Phased
<1>3. ASSUME NEW r \in Of(t, S) PROVE Owned(x, r) /\ Timely(x, r, m)
  <2>1. Owned(x, r) /\ Timely(x, r, n) /\ r.fired \in Nat
    BY <1>3 DEF Sound, Of, RunType, Instants
  <2> QED
    BY <2>1 DEF Timely
<1> QED
  BY <1>2, <1>3 DEF Sound

LEMMA SoundNew ==
  ASSUME NEW t \in Trigger, NEW spec \in SpecsOf[t], NEW n0 \in Nat, NEW n, NEW R, Of(t, R) = {}
  PROVE  /\ NewTrigger(spec, n0) \in TrigType /\ Exists(NewTrigger(spec, n0))
         /\ NewTrigger(spec, n0).version = 1 /\ NewTrigger(spec, n0).spec = spec
         /\ Sound(t, NewTrigger(spec, n0), R, n)
<1> DEFINE x == NewTrigger(spec, n0)
<1>1. spec \in Specs
  BY DEF Specs
<1>2. /\ x.state = "active" /\ x.spec = spec /\ x.version = 1
      /\ x.next = FirstRunAt(spec, n0)
  BY DEF NewTrigger
<1>3. x \in TrigType
  BY <1>1, SpecFacts, BoundAssumption DEF NewTrigger, TrigType
<1> HIDE DEF x
<1>4. Armed(x)
  BY <1>1, <1>2, SpecFacts DEF Armed, Exists
<1>5. Current(t, x, R) = {}
  BY DEF Of, Current
<1>6. Sound(t, x, R, n) /\ Exists(x)
  BY <1>2, <1>4, <1>5 DEF Sound, Phased, Exists
<1> QED
  BY <1>2, <1>3, <1>6 DEF x

\* An edit makes a new version, armed from now on or disarmed.
LEMMA SoundEdited ==
  ASSUME NEW t \in Trigger, NEW x \in TrigType, NEW y \in TrigType, NEW R, R \subseteq RunType,
         NEW n \in Nat, Sound(t, x, R, n), Exists(x), y.state \in {"active", "paused", "archived"},
         y.spec.kind = x.spec.kind, y.version = x.version + 1,
         y.next = IF y.state = "active" THEN FirstRunAt(y.spec, n) ELSE Never
  PROVE  Sound(t, y, R, n)
<1>1. x.version \in Nat /\ y.spec \in Specs
  BY DEF TrigType
<1>2. Armed(y)
  BY <1>1, SpecFacts DEF Armed, Sound, Exists
<1>3. ASSUME NEW r \in Of(t, R)
      PROVE  Owned(y, r) /\ Timely(y, r, n) /\ r.version # y.version
  <2>1. Owned(x, r) /\ Timely(x, r, n) /\ r.version \in Nat /\ r.fired \in Nat
    BY <1>3 DEF Sound, Of, RunType, Instants
  <2>2. Owned(y, r) /\ r.version # y.version
    BY <1>1, <2>1 DEF Owned, Exists
  <2>3. ActiveInterval(y) => r.occurrence < y.next /\ r.fired < y.next
    <3> SUFFICES ASSUME ActiveInterval(y) PROVE r.occurrence < y.next /\ r.fired < y.next
      OBVIOUS
    <3>1. y.next = n + y.spec.value /\ y.spec.value \in Nat /\ y.spec.value >= 2
      BY <1>1, SpecFacts DEF ActiveInterval
    <3>2. r.fired <= n /\ r.occurrence \in Nat /\ r.occurrence < r.fired + 2
      BY <2>1 DEF Owned, Timely, TimedSpec, ActiveInterval
    <3> QED
      BY <2>1, <3>1, <3>2
  <2> QED
    BY <2>1, <2>2, <2>3 DEF Timely
<1>4. Current(t, y, R) = {}
  BY <1>3 DEF Current, Of
<1> QED
  BY <1>2, <1>3, <1>4 DEF Sound, Phased

\* A run is added by an event.
LEMMA SoundEvent ==
  ASSUME NEW t \in Trigger, NEW x \in TrigType, NEW R, R \subseteq RunType, NEW n \in Nat,
         Sound(t, x, R, n), Exists(x), x.spec.kind = "event", NEW new \in RunType,
         new.trigger = t, new.fired <= n, new.version = x.version, new.spec = x.spec
  PROVE  Sound(t, x, R \cup {new}, n)
<1>1. ~ActiveInterval(x) /\ x.version \in Nat
  BY DEF ActiveInterval, TrigType
<1>2. Owned(x, new) /\ Timely(x, new, n)
  BY <1>1 DEF Owned, Timely, TimedSpec
<1>3. Of(t, R \cup {new}) = Of(t, R) \cup {new}
  BY DEF Of
<1> QED
  BY <1>1, <1>2, <1>3 DEF Sound, Phased

\* A claim: S are the runs after it.
LEMMA SoundFired ==
  ASSUME NEW t \in Trigger, NEW x \in TrigType, NEW R, R \subseteq RunType, NEW S,
         NEW n \in Nat, NEW m \in Nat, m <= n,
         Sound(t, x, R, n), x.state = "active", x.next # Never, IsoLE(x.next, m),
         NEW new \in RunType, new.trigger = t, new.occurrence = x.next, new.fired = m,
         new.version = x.version, new.spec = x.spec,
         Of(t, S) = IF \E r \in Of(t, R) : r.occurrence = x.next
                    THEN Of(t, R) ELSE Of(t, R) \cup {new}
  PROVE  Fired(x, m) \in TrigType /\ Exists(Fired(x, m)) /\ Sound(t, Fired(x, m), S, n)
<1> DEFINE y == Fired(x, m)
<1>1. /\ x.spec \in Specs /\ TimedSpec(x.spec) /\ x.next \in Nat /\ x.version > 0
      /\ x.version \in Nat /\ Exists(x) /\ x.next < m + 2
  BY DueWithinASecond DEF TrigType, Upcoming, Sound, Armed, Exists
<1>2. /\ \A r \in Of(t, R) : Owned(x, r) /\ Timely(x, r, n)
      /\ \A r \in Of(t, R) : r.fired \in Nat /\ r \in RunType /\ r.version \in Nat
  BY DEF Sound, Of, RunType, Instants
<1>3. Of(t, S) \subseteq Of(t, R) \cup {new} /\ Of(t, R) \subseteq Of(t, S)
  OBVIOUS
<1>4. CASE x.spec.kind = "once"
  <2>1. x.next = x.spec.value
    BY <1>4 DEF Sound, Armed
  <2>2. y = [x EXCEPT !.state = "completed", !.next = Never]
    BY <1>4 DEF Fired, AdvanceAfterFire
  <2>3. /\ y \in TrigType /\ y.state = "completed" /\ y.next = Never
        /\ y.version = x.version /\ y.spec = x.spec
    BY <2>2 DEF TrigType, Upcoming
  <2> HIDE DEF y
  <2>4. Armed(y) /\ Exists(y) /\ ~ActiveInterval(y)
    BY <1>1, <2>3 DEF Armed, Exists, ActiveInterval
  <2>5. \E r \in Of(t, S) : r.occurrence = y.spec.value
    BY <2>1, <2>3
  <2>6. ASSUME NEW r \in Of(t, S) PROVE Owned(y, r) /\ Timely(y, r, n)
    <3>1. CASE r = new
      BY <1>1, <2>3, <2>4, <3>1 DEF Owned, Timely
    <3>2. CASE r \in Of(t, R)
      BY <1>2, <2>3, <2>4, <3>2 DEF Owned, Timely
    <3> QED
      BY <1>3, <2>6, <3>1, <3>2
  <2> QED
    BY <2>3, <2>4, <2>5, <2>6 DEF Sound, Phased, y
<1>5. CASE x.spec.kind = "interval"
  <2> DEFINE p    == x.spec.value
             next == AdvanceInterval(x.next, p, m)
  <2>1. p \in Nat /\ p > 0
    BY <1>1, <1>5, SpecFacts
  <2>2. /\ next \in Nat /\ next > m /\ next >= x.next + p /\ (next - x.next) % p = 0
        /\ next - p <= Larger(x.next, m)
    BY <1>1, <2>1, IntervalAdvances
  <2>3. y = [x EXCEPT !.next = next]
    BY <1>5, <2>2 DEF Fired, AdvanceAfterFire, Never
  <2>4. /\ y \in TrigType /\ y.state = "active" /\ y.next = next
        /\ y.version = x.version /\ y.spec = x.spec
    BY <2>2, <2>3 DEF TrigType, Upcoming
  <2> HIDE DEF y, next, p
  <2>5. Armed(y) /\ Exists(y) /\ ActiveInterval(y) /\ ActiveInterval(x)
    BY <1>1, <1>5, <2>2, <2>4 DEF Armed, Exists, ActiveInterval, Never
  <2>6. ASSUME NEW r \in Of(t, R) PROVE r.occurrence \in Nat /\ r.occurrence < x.next
    BY <1>1, <1>2, <2>5 DEF Timely, Owned, TimedSpec, ActiveInterval
  <2>7. Of(t, S) = Of(t, R) \cup {new}
    BY <1>1, <2>6
  <2>8. ASSUME NEW r \in Of(t, S) PROVE Owned(y, r) /\ Timely(y, r, n)
    <3>1. CASE r = new
      BY <1>1, <2>1, <2>2, <2>4, <2>5, <3>1 DEF Owned, Timely
    <3>2. CASE r \in Of(t, R)
      <4>1. r.occurrence < y.next /\ r.fired < y.next
        BY <1>1, <1>2, <2>1, <2>2, <2>4, <2>5, <2>6, <3>2 DEF Timely
      <4> QED
        BY <1>2, <2>4, <3>2, <4>1 DEF Owned, Timely, Exists
    <3> QED
      BY <1>3, <2>8, <3>1, <3>2
  <2>9. Phased(t, y, S)
    <3>1. new \in Current(t, y, S)
      BY <2>4, <2>7 DEF Current, Of
    <3>2. y.next - p <= Larger(new.occurrence, new.fired)
      BY <2>2, <2>4
    <3>3. ASSUME NEW r \in Current(t, y, S) PROVE (y.next - r.occurrence) % p = 0
      <4>1. CASE r = new
        BY <2>2, <2>4, <4>1
      <4>2. CASE r \in Of(t, R)
        <5>1. r \in Current(t, x, R)
          BY <2>4, <3>3, <4>2 DEF Current, Of
        <5>2. (x.next - r.occurrence) % p = 0
          BY <2>5, <5>1 DEF Sound, Phased, p
        <5>3. /\ x.next - r.occurrence \in Int /\ next - x.next \in Int
              /\ y.next - r.occurrence = (next - x.next) + (x.next - r.occurrence)
          BY <1>1, <2>2, <2>4, <2>6, <4>2
        <5> QED
          BY <2>1, <2>2, <5>2, <5>3, SumOfPeriods
      <4> QED
        BY <2>7, <3>3, <4>1, <4>2 DEF Current, Of
    <3> QED
      BY <2>4, <3>1, <3>2, <3>3 DEF Phased, p
  <2> QED
    BY <2>4, <2>5, <2>8, <2>9 DEF Sound, y
<1> QED
  BY <1>1, <1>4, <1>5 DEF TimedSpec

-----------------------------------------------------------------------------
(***************************************************************************)
(* The steps.                                                              *)
(***************************************************************************)
LEMMA InitOccInv == Init => OccInv
<1> SUFFICES ASSUME Init PROVE OccInv
  OBVIOUS
<1>1. ASSUME NEW t \in Trigger
      PROVE  /\ NoTrigger(t) \in TrigType /\ NoTrigger(t).state = "absent"
             /\ NoTrigger(t).next = Never
  <2>1. (CHOOSE s \in SpecsOf[t] : TRUE) \in Specs
    BY DefinitionAssumption DEF Specs
  <2> QED
    BY <2>1, BoundAssumption DEF NoTrigger, TrigType, Upcoming
<1>2. ASSUME NEW a \in Automation PROVE NoAutomation \in AutoType
  <2>1. (CHOOSE w \in Wake : TRUE) \in Wake
    BY DefinitionAssumption
  <2> QED
    BY <2>1, BoundAssumption DEF NoAutomation, AutoType
<1>3. TypeOK
  BY <1>1, <1>2, BoundAssumption DEF Init, TypeOK, Instants
<1>4. ASSUME NEW t \in Trigger PROVE Sound(t, trig[t], runs, now)
  <2>1. trig[t] = NoTrigger(t) /\ Of(t, runs) = {} /\ Current(t, trig[t], runs) = {}
    BY DEF Init, Of, Current
  <2> QED
    BY <1>1, <2>1 DEF Sound, Armed, Phased, ActiveInterval, Exists
<1>5. Punctual
  BY DEF Init, Punctual
<1> QED
  BY <1>3, <1>4, <1>5 DEF OccInv

\* One trigger is written, no run is made.
LEMMA TriggerWritten ==
  ASSUME OccInv, NEW t \in Trigger, NEW y \in TrigType, trig' = [trig EXCEPT ![t] = y],
         Sound(t, y, runs, now), auto' \in [Automation -> AutoType],
         UNCHANGED <<now, runs, receipts, at, told>>
  PROVE  OccInv'
<1>1. TypeOK'
  BY DEF OccInv, TypeOK
<1>2. ASSUME NEW u \in Trigger PROVE Sound(u, trig'[u], runs, now)
  BY DEF OccInv, TypeOK
<1>3. Punctual'
  BY DEF OccInv, Punctual
<1> QED
  BY <1>1, <1>2, <1>3 DEF OccInv

\* No trigger is written, no run is made.
LEMMA TriggersKept ==
  ASSUME OccInv, UNCHANGED <<trig, runs>>, TypeOK', now' >= now, Punctual'
  PROVE  OccInv'
<1>1. ASSUME NEW t \in Trigger PROVE Sound(t, trig[t], runs, now')
  BY SoundLocal DEF OccInv, TypeOK, Instants
<1> QED
  BY <1>1 DEF OccInv

LEMMA AutomationKeeps ==
  ASSUME OccInv, NEW a \in Automation, NEW wake \in Wake,
         NEW s \in {"active", "paused", "archived"},
         CreateAutomation(a, wake) \/ UpdateAutomationWake(a, wake) \/ SetAutomationState(a, s)
  PROVE  OccInv'
<1>1. NewAutomation(wake) \in AutoType
  BY BoundAssumption DEF NewAutomation, AutoType
<1>2. auto \in [Automation -> AutoType] /\ auto[a] \in AutoType
  BY DEF OccInv, TypeOK
<1>3. \E y \in AutoType : auto' = [auto EXCEPT ![a] = y]
  <2>1. CASE CreateAutomation(a, wake)
    BY <1>1, <2>1 DEF CreateAutomation
  <2>2. ASSUME MayEdit(auto[a]) PROVE auto[a].version + 1 \in 0 .. MaxVersion
    BY <1>2, <2>2, BoundAssumption DEF MayEdit, AutoType
  <2>3. CASE UpdateAutomationWake(a, wake)
    <3> DEFINE y == [auto[a] EXCEPT !.wake = wake, !.version = auto[a].version + 1]
    <3>1. auto' = [auto EXCEPT ![a] = y]
      BY <1>2, <2>3 DEF UpdateAutomationWake
    <3>2. y \in AutoType
      BY <1>2, <2>2, <2>3 DEF UpdateAutomationWake, AutoType
    <3> QED
      BY <3>1, <3>2
  <2>4. CASE SetAutomationState(a, s)
    <3> DEFINE y == [auto[a] EXCEPT !.state = s, !.version = auto[a].version + 1]
    <3>1. auto' = [auto EXCEPT ![a] = y]
      BY <1>2, <2>4 DEF SetAutomationState
    <3>2. y \in AutoType
      BY <1>2, <2>2, <2>4 DEF SetAutomationState, AutoType
    <3> QED
      BY <3>1, <3>2
  <2> QED
    BY <2>1, <2>3, <2>4
<1>4. UNCHANGED <<now, trig, runs, receipts, at, told>>
  BY DEF CreateAutomation, UpdateAutomationWake, SetAutomationState
<1>5. auto' \in [Automation -> AutoType]
  BY <1>2, <1>3
<1>6. TypeOK' /\ Punctual' /\ now' >= now
  BY <1>4, <1>5 DEF OccInv, TypeOK, Punctual, Instants
<1> QED
  BY <1>4, <1>6, TriggersKept

LEMMA ClockKeeps ==
  ASSUME OccInv, Pass \/ \E w \in Ticker : StartTick(w)
  PROVE  OccInv'
<1>1. CASE Pass
  <2>1. TypeOK' /\ Punctual' /\ now' >= now
    BY <1>1, BoundAssumption DEF Pass, OccInv, TypeOK, Punctual, Instants
  <2> QED
    BY <1>1, <2>1, TriggersKept DEF Pass
<1>2. ASSUME NEW w \in Ticker, StartTick(w) PROVE OccInv'
  <2>1. TypeOK' /\ Punctual' /\ now' >= now
    BY <1>2 DEF StartTick, OccInv, TypeOK, Punctual, Instants
  <2> QED
    BY <1>2, <2>1, TriggersKept DEF StartTick
<1> QED
  BY <1>1, <1>2

\* A trigger that is not there has no runs.
LEMMA AbsentHasNoRuns ==
  ASSUME OccInv, NEW t \in Trigger, ~Exists(trig[t])
  PROVE  Of(t, runs) = {}
BY DEF OccInv, Sound, Owned

LEMMA CreateKeeps ==
  ASSUME OccInv, NEW t \in Trigger, NEW spec \in SpecsOf[t], NEW wake \in Wake,
         CreateTrigger(t, spec) \/ (t \in Keyed /\ CreateDefinition(t, spec, wake))
  PROVE  OccInv'
<1>1. UNCHANGED <<now, runs, receipts, at, told>>
  BY DEF CreateTrigger, CreateDefinition
<1>2. auto' \in [Automation -> AutoType]
  <2>1. NewAutomation(wake) \in AutoType
    BY BoundAssumption DEF NewAutomation, AutoType
  <2> QED
    BY <2>1 DEF CreateTrigger, CreateDefinition, OccInv, TypeOK
<1>3. CASE ~Exists(trig[t])
  <2>1. PICK n \in ReadTime : trig' = [trig EXCEPT ![t] = NewTrigger(spec, n)]
    BY <1>3 DEF CreateTrigger, CreateDefinition
  <2>2. n \in Nat
    BY BoundAssumption DEF ReadTime, OccInv, TypeOK, Instants
  <2>3. NewTrigger(spec, n) \in TrigType /\ Sound(t, NewTrigger(spec, n), runs, now)
    BY <1>3, <2>2, AbsentHasNoRuns, SoundNew
  <2> HIDE DEF NewTrigger
  <2> QED
    BY <1>1, <1>2, <2>1, <2>3, TriggerWritten
<1>4. CASE Exists(trig[t])
  <2>1. UNCHANGED <<trig, auto>>
    BY <1>4 DEF CreateTrigger, CreateDefinition
  <2>2. TypeOK' /\ Punctual' /\ now' >= now
    BY <1>1, <2>1 DEF OccInv, TypeOK, Punctual, Instants
  <2> QED
    BY <1>1, <2>1, <2>2, TriggersKept
<1> QED
  BY <1>3, <1>4

LEMMA EditKeeps ==
  ASSUME OccInv, NEW t \in Trigger, NEW spec \in SpecsOf[t],
         NEW s \in {"active", "paused", "archived"},
         SetTriggerState(t, s) \/ UpdateTrigger(t, spec)
  PROVE  OccInv'
<1> DEFINE x == trig[t]
<1>1. /\ x \in TrigType /\ Exists(x) /\ Sound(t, x, runs, now) /\ x.version + 1 \in 0 .. MaxVersion
      /\ now \in Nat /\ runs \subseteq RunType /\ spec \in Specs /\ x.spec \in Specs
      /\ auto' \in [Automation -> AutoType] /\ UNCHANGED <<now, runs, receipts, at, told>>
  BY BoundAssumption
     DEF OccInv, TypeOK, TrigType, Instants, SetTriggerState, UpdateTrigger, MayEdit, Specs
<1>2. CASE SetTriggerState(t, s)
  <2> DEFINE next == IF s = "active" THEN FirstRunAt(x.spec, now) ELSE Never
             y    == [x EXCEPT !.state = s, !.version = @ + 1, !.next = next]
  <2>1. next \in Upcoming
    BY <1>1, SpecFacts DEF Upcoming
  <2>2. trig' = [trig EXCEPT ![t] = y]
    BY <1>2 DEF SetTriggerState, WithState
  <2> HIDE DEF next
  <2>3. /\ y \in TrigType /\ y.state = s /\ y.spec = x.spec /\ y.version = x.version + 1
        /\ y.next = next
    BY <1>1, <2>1 DEF TrigType
  <2> HIDE DEF y
  <2>4. Sound(t, y, runs, now)
    BY <1>1, <2>3, SoundEdited DEF next
  <2> QED
    BY <1>1, <2>2, <2>3, <2>4, TriggerWritten
<1>3. CASE UpdateTrigger(t, spec)
  <2> DEFINE state == NextState(x.state)
             next  == IF state = "active" THEN FirstRunAt(spec, now) ELSE Never
             y     == [state |-> state, spec |-> spec, version |-> x.version + 1, next |-> next]
  <2>1. next \in Upcoming /\ state \in {"active", "paused", "archived"}
    BY <1>1, SpecFacts DEF Upcoming, NextState, TrigType, Exists
  <2>2. trig' = [trig EXCEPT ![t] = y] /\ spec.kind = x.spec.kind
    BY <1>3 DEF UpdateTrigger
  <2> HIDE DEF next, state
  <2>3. /\ y \in TrigType /\ y.state = state /\ y.spec = spec /\ y.version = x.version + 1
        /\ y.next = next
    BY <1>1, <2>1 DEF TrigType
  <2> HIDE DEF y
  <2>4. Sound(t, y, runs, now)
    BY <1>1, <2>1, <2>2, <2>3, SoundEdited DEF next
  <2> QED
    BY <1>1, <2>2, <2>3, <2>4, TriggerWritten
<1> QED
  BY <1>2, <1>3

-----------------------------------------------------------------------------
\* Ticks.
LEMMA ClaimKeeps ==
  ASSUME OccInv, NEW w \in Ticker, ClaimDue(w)
  PROVE  OccInv'
<1> DEFINE n   == at[w]
           due == {t \in Trigger : Due(t, n)}
           new == {u \in due : ~HasRun(u, trig[u].next)}
           Run(t) == NewRun(t, trig[t].next, n)
<1>1. /\ n \in Nat /\ n \in Instants /\ n <= now /\ now \in Nat /\ runs \subseteq RunType
      /\ trig \in [Trigger -> TrigType]
  BY BoundAssumption DEF OccInv, TypeOK, Punctual, ClaimDue, Instants
<1>2. /\ runs' = runs \cup {Run(t) : t \in new}
      /\ trig' = [t \in Trigger |-> IF t \in due THEN Fired(trig[t], n) ELSE trig[t]]
      /\ at' = [at EXCEPT ![w] = Asleep]
      /\ UNCHANGED <<now, auto, receipts, told>>
  BY DEF ClaimDue, Advanced
<1>3. ASSUME NEW t \in due
      PROVE  /\ trig[t].state = "active" /\ trig[t].next # Never /\ IsoLE(trig[t].next, n)
             /\ Run(t) \in RunType /\ Run(t).trigger = t /\ Run(t).occurrence = trig[t].next
             /\ Run(t).fired = n /\ Run(t).version = trig[t].version
             /\ Run(t).spec = trig[t].spec
  <2>1. trig[t].state = "active" /\ trig[t].next # Never /\ IsoLE(trig[t].next, n)
    BY DEF Due, Active
  <2>2. trig[t] \in TrigType /\ Armed(trig[t])
    BY <1>1 DEF OccInv, Sound
  <2>3. /\ trig[t].next \in Nat /\ trig[t].version \in 1 .. MaxVersion
        /\ trig[t].spec \in Specs
    BY <2>1, <2>2, BoundAssumption DEF TrigType, Upcoming, Armed, Exists
  <2> QED
    BY <1>1, <2>1, <2>3 DEF NewRun, RunType
<1> HIDE DEF n, due, new, Run
<1>4. ASSUME NEW t \in Trigger
      PROVE  Of(t, runs') = IF t \in new THEN Of(t, runs) \cup {Run(t)} ELSE Of(t, runs)
  <2>1. \A u \in new : Run(u).trigger = u
    BY <1>3 DEF new
  <2> QED
    BY <1>2, <2>1 DEF Of
<1>5. ASSUME NEW t \in Trigger
      PROVE  trig'[t] \in TrigType /\ Sound(t, trig'[t], runs', now)
  <2>1. trig[t] \in TrigType /\ Sound(t, trig[t], runs, now)
    BY <1>1 DEF OccInv
  <2>2. CASE t \notin due
    <3>1. trig'[t] = trig[t] /\ Of(t, runs') = Of(t, runs)
      BY <1>2, <1>4, <2>2 DEF new
    <3> QED
      BY <1>1, <2>1, <3>1, SoundLocal
  <2>3. CASE t \in due
    <3>1. Of(t, runs') = IF \E r \in Of(t, runs) : r.occurrence = trig[t].next
                         THEN Of(t, runs) ELSE Of(t, runs) \cup {Run(t)}
      BY <1>4, <2>3 DEF new, HasRun, Of
    <3>2. trig'[t] = Fired(trig[t], n)
      BY <1>2, <2>3
    <3>3. /\ trig[t].state = "active" /\ trig[t].next # Never /\ IsoLE(trig[t].next, n)
          /\ Run(t) \in RunType /\ Run(t).trigger = t /\ Run(t).occurrence = trig[t].next
          /\ Run(t).fired = n /\ Run(t).version = trig[t].version
          /\ Run(t).spec = trig[t].spec
      BY <1>3, <2>3
    <3> QED
      BY <1>1, <2>1, <3>1, <3>2, <3>3, SoundFired
  <2> QED
    BY <2>2, <2>3
<1>6. TypeOK' /\ Punctual'
  <2>1. runs' \subseteq RunType
    BY <1>1, <1>2, <1>3 DEF new
  <2>2. trig' \in [Trigger -> TrigType]
    BY <1>2, <1>5
  <2>3. at' \in [Ticker -> Instants \cup {Asleep}] /\ Punctual'
    BY <1>2 DEF OccInv, TypeOK, Punctual
  <2> QED
    BY <1>2, <2>1, <2>2, <2>3 DEF OccInv, TypeOK
<1> QED
  BY <1>2, <1>5, <1>6 DEF OccInv

\* Events.
LEMMA IngestKeeps ==
  ASSUME OccInv, NEW t \in Trigger, NEW e \in Event, NEW d \in Digest, IngestEvent(t, e, d)
  PROVE  OccInv'
<1> DEFINE n0 == [trigger |-> t, event |-> e, digest |-> d]
<1>1. /\ trig[t] \in TrigType /\ Sound(t, trig[t], runs, now) /\ runs \subseteq RunType
      /\ Exists(trig[t]) /\ trig[t].spec.kind = "event" /\ now \in Nat
      /\ trig[t].version \in 1 .. MaxVersion
  <2>1. trig[t] \in TrigType /\ Sound(t, trig[t], runs, now) /\ Exists(trig[t])
    BY DEF OccInv, TypeOK, IngestEvent
  <2> QED
    BY <2>1, BoundAssumption DEF OccInv, TypeOK, IngestEvent, Instants, Sound, Armed, TrigType
<1>2. /\ receipts' \cup told' \subseteq [trigger : Trigger, event : Event, digest : Digest]
      /\ UNCHANGED <<now, auto, trig, at>>
  BY DEF OccInv, TypeOK, IngestEvent
<1>3. CASE UNCHANGED runs
  <2>1. TypeOK' /\ Punctual' /\ now' >= now
    BY <1>1, <1>2, <1>3 DEF OccInv, TypeOK, Punctual
  <2> QED
    BY <1>2, <1>3, <2>1, TriggersKept
<1>4. CASE \E n \in ReadTime : runs' = runs \cup {NewRun(t, e, n)}
  <2>1. PICK n \in ReadTime : runs' = runs \cup {NewRun(t, e, n)}
    BY <1>4
  <2> DEFINE new == NewRun(t, e, n)
  <2>2. n \in Instants /\ n <= now
    BY <1>1, BoundAssumption DEF ReadTime, OccInv, TypeOK, Instants
  <2>3. /\ new \in RunType /\ new.trigger = t /\ new.fired <= now
        /\ new.version = trig[t].version /\ new.spec = trig[t].spec
    BY <1>1, <2>2 DEF NewRun, RunType, TrigType
  <2> HIDE DEF new
  <2>4. runs' = runs \cup {new} /\ runs' \subseteq RunType
    BY <1>1, <2>1, <2>3 DEF new
  <2>5. ASSUME NEW u \in Trigger PROVE Sound(u, trig[u], runs', now)
    <3>1. CASE u = t
      BY <1>1, <2>3, <2>4, <3>1, SoundEvent
    <3>2. CASE u # t
      <4>1. Of(u, runs') = Of(u, runs)
        BY <2>3, <2>4, <3>2 DEF Of
      <4> QED
        BY <1>1, <4>1, SoundLocal DEF OccInv
    <3> QED
      BY <3>1, <3>2
  <2>6. TypeOK' /\ Punctual'
    BY <1>2, <2>4 DEF OccInv, TypeOK, Punctual
  <2> QED
    BY <1>2, <2>5, <2>6 DEF OccInv
<1> QED
  BY <1>3, <1>4 DEF IngestEvent

LEMMA StepOccInv == OccInv /\ [Next]_vars => OccInv'
<1> SUFFICES ASSUME OccInv, [Next]_vars PROVE OccInv'
  OBVIOUS
<1>1. CASE UNCHANGED vars
  <2>1. TypeOK' /\ Punctual' /\ now' >= now
    BY <1>1, BoundAssumption DEF vars, OccInv, TypeOK, Punctual, Instants
  <2> QED
    BY <1>1, <2>1, TriggersKept DEF vars
<1>2. CASE Pass \/ \E w \in Ticker : StartTick(w)
  BY <1>2, ClockKeeps
<1>3. CASE \E w \in Ticker : ClaimDue(w)
  BY <1>3, ClaimKeeps
<1>4. CASE \E t \in Trigger, e \in Event, d \in Digest : IngestEvent(t, e, d)
  BY <1>4, IngestKeeps
<1>5. CASE Store
  <2>1. CASE \E a \in Automation :
               \/ \E wake \in Wake : CreateAutomation(a, wake) \/ UpdateAutomationWake(a, wake)
               \/ \E s \in {"active", "paused", "archived"} : SetAutomationState(a, s)
    <3>1. Wake # {}
      BY DefinitionAssumption
    <3> QED
      BY <2>1, <3>1, AutomationKeeps
  <2>2. ASSUME NEW t \in Trigger,
               \/ \E spec \in SpecsOf[t] : CreateTrigger(t, spec) \/ UpdateTrigger(t, spec)
               \/ \E s \in {"active", "paused", "archived"} : SetTriggerState(t, s)
        PROVE  OccInv'
    <3>1. Wake # {} /\ SpecsOf[t] # {}
      BY DefinitionAssumption
    <3> QED
      BY <2>2, <3>1, CreateKeeps, EditKeeps
  <2>3. CASE \E t \in Keyed : \E spec \in SpecsOf[t], wake \in Wake :
               CreateDefinition(t, spec, wake)
    BY <2>3, CreateKeeps, DefinitionAssumption
  <2> QED
    BY <1>5, <2>1, <2>2, <2>3 DEF Store
<1> QED
  BY <1>1, <1>2, <1>3, <1>4, <1>5 DEF Next

LEMMA AlwaysOccInv == Spec => []OccInv
BY InitOccInv, StepOccInv, PTL DEF Spec

-----------------------------------------------------------------------------
\* The tables and histories keep the shapes of the schema: no delayed claim,
\* edit or event writes anything else.
THEOREM OccurrencesTypeCorrect == Spec => []TypeOK
<1>1. OccInv => TypeOK
  BY DEF OccInv
<1> QED
  BY <1>1, AlwaysOccInv, PTL

\* set_trigger_state, update_trigger, _claim_due: whatever is edited, paused,
\* resumed and claimed, next_run_at is set exactly while a timed trigger is
\* active.
THEOREM ArmedExactlyWhileActive == Spec => []ArmedWhileActive
<1>1. OccInv => ArmedWhileActive
  BY DEF OccInv, Sound, Armed, ArmedWhileActive
<1> QED
  BY <1>1, AlwaysOccInv, PTL

\* _claim_due: a one-time trigger is completed only by the run of the instant
\* it names, however often it has been edited and armed again.
THEOREM CompletionHasItsRun == Spec => []CompletedHasRun
<1>1. OccInv => CompletedHasRun
  BY DEF OccInv, Sound, CompletedHasRun, HasRun, Of
<1> QED
  BY <1>1, AlwaysOccInv, PTL

\* advance_after_fire under _claim_due: after a claim nothing that was missed
\* is still to come, in whatever order overlapping ticks commit.
THEOREM MisfiresAlwaysCoalesce == Spec => []MisfiresCoalesce
<1>1. OccInv => MisfiresCoalesce
  BY DEF OccInv, Sound, Timely, MisfiresCoalesce, Repeats, RunsOf, ActiveInterval, Of
<1> QED
  BY <1>1, AlwaysOccInv, PTL

\* The same of the phase: every instant an interval is claimed at is a whole
\* number of its periods before the next one, which is the first not yet past.
THEOREM IntervalsKeepPhase == Spec => []IntervalKeepsPhase
<1>1. OccInv => IntervalKeepsPhase
  <2> SUFFICES ASSUME OccInv, NEW t \in Trigger, Repeats(t), RunsOf(t) # {}
               PROVE  LET period == trig[t].spec.value IN
                      /\ \A r \in RunsOf(t) : (trig[t].next - r.occurrence) % period = 0
                      /\ \E r \in RunsOf(t) :
                           trig[t].next - period <= Larger(r.occurrence, r.fired)
    BY DEF IntervalKeepsPhase
  <2>1. RunsOf(t) = Current(t, trig[t], runs) /\ ActiveInterval(trig[t])
    BY DEF RunsOf, Current, Repeats, ActiveInterval
  <2> QED
    BY <2>1 DEF OccInv, Sound, Phased
<1> QED
  BY <1>1, AlwaysOccInv, PTL

\* IsoLE under every delay of a claim: a run is claimed less than a second
\* before its instant, if before it at all.
THEOREM NeverMuchTooEarly == Spec => []NeverASecondEarly
<1>1. OccInv => NeverASecondEarly
  BY DEF OccInv, TypeOK, Sound, Timely, NeverASecondEarly, Of, RunType
<1> QED
  BY <1>1, AlwaysOccInv, PTL

-----------------------------------------------------------------------------
LEMMA StepReceiptInv == OccInv /\ ReceiptInv /\ [Next]_vars => ReceiptInv'
<1> SUFFICES ASSUME OccInv, ReceiptInv, [Next]_vars PROVE ReceiptInv'
  OBVIOUS
<1>1. CASE UNCHANGED <<receipts, told>>
  BY <1>1 DEF ReceiptInv
<1>2. ASSUME NEW t \in Trigger, NEW e \in Event, NEW d \in Digest, IngestEvent(t, e, d)
      PROVE  ReceiptInv'
  <2> DEFINE new == [trigger |-> t, event |-> e, digest |-> d]
  <2>1. CASE /\ \A x \in receipts : ~(x.trigger = t /\ x.event = e)
             /\ receipts' = receipts \cup {new} /\ told' = told \cup {new}
    BY <2>1 DEF ReceiptInv
  <2>2. CASE /\ \E x \in receipts : x.trigger = t /\ x.event = e /\ SamePayload(x, d)
             /\ receipts' = receipts /\ told' = told \cup {new}
    <3>1. PICK x \in receipts : x.trigger = t /\ x.event = e /\ x.digest = d
      BY <2>2 DEF SamePayload
    <3>2. x \in [trigger : Trigger, event : Event, digest : Digest]
      BY DEF OccInv, TypeOK
    <3>3. x = new
      BY <3>1, <3>2
    <3> QED
      BY <2>2, <3>3 DEF ReceiptInv
  <2> QED
    BY <1>2, <2>1, <2>2 DEF IngestEvent
<1> QED
  BY <1>1, <1>2
     DEF Next, vars, Pass, Store, StartTick, ClaimDue, CreateAutomation, CreateTrigger,
         CreateDefinition, SetAutomationState, UpdateAutomationWake, SetTriggerState, UpdateTrigger

\* ingest_event: whoever is answered with the run of an event sent the payload
\* that run was made from, for every order of first calls and replays.
THEOREM ReplaysKeepPayload == Spec => []ReplayKeepsPayload
<1>1. Init => ReceiptInv
  BY DEF Init, ReceiptInv
<1>2. ReceiptInv => ReplayKeepsPayload
  BY DEF ReceiptInv, ReplayKeepsPayload
<1> QED
  BY <1>1, <1>2, StepReceiptInv, AlwaysOccInv, PTL DEF Spec

-----------------------------------------------------------------------------
(***************************************************************************)
(* create_definition under a key it knows.                                 *)
(***************************************************************************)
\* What a step may do to a keyed definition: edit it, make it, or leave it.
KeyStep(t) ==
  /\ Exists(trig[t]) => Exists(trig'[t]) /\ created'[t] = created[t]
  /\ Exists(trig[t]) /\ Unedited(t)' =>
       /\ Unedited(t)
       /\ trig'[t].spec = trig[t].spec
       /\ auto'[AutomationOf[t]].wake = auto[AutomationOf[t]].wake
  /\ ~Exists(trig[t]) /\ Exists(trig'[t]) =>
       created'[t] = <<trig'[t].spec, auto'[AutomationOf[t]].wake>>

\* A step that touches neither the trigger's version and specification nor its
\* automation.
LEMMA KeyLeft ==
  ASSUME NEW t \in Keyed, auto'[AutomationOf[t]] = auto[AutomationOf[t]], created' = created,
         Exists(trig'[t]) <=> Exists(trig[t]),
         trig'[t].version = trig[t].version, trig'[t].spec = trig[t].spec
  PROVE  KeyStep(t)
BY DEF KeyStep, Unedited

\* An edit of the trigger or of its automation: a version beyond 1.
LEMMA KeyEdited ==
  ASSUME NEW t \in Keyed, created' = created, Exists(trig'[t]) <=> Exists(trig[t]),
         trig'[t].version # 1 \/ auto'[AutomationOf[t]].version # 1
  PROVE  KeyStep(t)
BY DEF KeyStep, Unedited

LEMMA EachKey ==
  ASSUME OccInv, KeyInv, [Next]_vars, NEW t \in Keyed
  PROVE  KeyStep(t)
<1> DEFINE c == AutomationOf[t]
<1>1. /\ t \in Trigger /\ c \in Automation /\ trig \in [Trigger -> TrigType]
      /\ auto \in [Automation -> AutoType]
      /\ Exists(trig[t]) => trig[t].version > 0
      /\ Exists(auto[c]) => auto[c].version > 0
      /\ trig[t].version \in Nat /\ auto[c].version \in Nat
  <2>1. t \in Trigger /\ c \in Automation
    BY DefinitionAssumption
  <2> QED
    BY <2>1, BoundAssumption DEF OccInv, TypeOK, Sound, Armed, KeyInv, TrigType, AutoType
<1>2. CASE UNCHANGED <<auto, trig, created>>
  BY <1>2, KeyLeft
<1>3. ASSUME NEW a \in Automation, NEW wake \in Wake, CreateAutomation(a, wake)
      PROVE  KeyStep(t)
  <2>1. auto'[c] = auto[c] /\ UNCHANGED <<trig, created>>
    BY <1>1, <1>3 DEF CreateAutomation
  <2> QED
    BY <2>1, KeyLeft
<1>4. ASSUME NEW a \in Automation, NEW wake \in Wake, NEW s,
             UpdateAutomationWake(a, wake) \/ SetAutomationState(a, s)
      PROVE  KeyStep(t)
  <2>1. UNCHANGED <<trig, created>>
    BY <1>4 DEF UpdateAutomationWake, SetAutomationState
  <2>2. CASE a # c
    <3>1. auto'[c] = auto[c]
      BY <1>1, <1>4, <2>2 DEF UpdateAutomationWake, SetAutomationState
    <3> QED
      BY <2>1, <3>1, KeyLeft
  <2>3. CASE a = c
    <3>1. Exists(auto[c])
      BY <1>4, <2>3 DEF UpdateAutomationWake, SetAutomationState, MayEdit
    <3>2. auto'[c].version = auto[c].version + 1
      <4>1. CASE UpdateAutomationWake(a, wake)
        BY <1>1, <2>3, <4>1 DEF UpdateAutomationWake, AutoType
      <4>2. CASE SetAutomationState(a, s)
        BY <1>1, <2>3, <4>2 DEF SetAutomationState, AutoType
      <4> QED
        BY <1>4, <4>1, <4>2
    <3> QED
      BY <1>1, <2>1, <3>1, <3>2, KeyEdited
  <2> QED
    BY <2>2, <2>3
<1>5. ASSUME NEW u \in Trigger, NEW spec \in SpecsOf[u], CreateTrigger(u, spec)
      PROVE  KeyStep(t)
  <2>1. trig'[t] = trig[t] /\ UNCHANGED <<auto, created>>
    BY <1>1, <1>5 DEF CreateTrigger
  <2> QED
    BY <2>1, KeyLeft
<1>6. ASSUME NEW u \in Trigger, NEW spec \in SpecsOf[u], NEW s \in {"active", "paused", "archived"},
             UpdateTrigger(u, spec) \/ SetTriggerState(u, s)
      PROVE  KeyStep(t)
  <2>1. UNCHANGED <<auto, created>>
    BY <1>6 DEF UpdateTrigger, SetTriggerState
  <2>2. CASE u # t
    <3>1. trig'[t] = trig[t]
      BY <1>1, <1>6, <2>2 DEF UpdateTrigger, SetTriggerState
    <3> QED
      BY <2>1, <3>1, KeyLeft
  <2>3. CASE u = t
    <3>1. Exists(trig[t])
      BY <1>6, <2>3 DEF UpdateTrigger, SetTriggerState, MayEdit
    <3>2. trig'[t].version = trig[t].version + 1 /\ Exists(trig'[t])
      <4>1. CASE UpdateTrigger(u, spec)
        BY <1>1, <2>3, <3>1, <4>1 DEF UpdateTrigger, NextState, Exists
      <4>2. CASE SetTriggerState(u, s)
        BY <1>1, <2>3, <4>2 DEF SetTriggerState, WithState, Exists, TrigType
      <4> QED
        BY <1>6, <4>1, <4>2
    <3> QED
      BY <1>1, <2>1, <3>1, <3>2, KeyEdited
  <2> QED
    BY <2>2, <2>3
<1>7. ASSUME NEW u \in Keyed, NEW spec \in SpecsOf[u], NEW wake \in Wake,
             CreateDefinition(u, spec, wake)
      PROVE  KeyStep(t)
  <2>1. CASE UNCHANGED <<auto, trig, created>>
    BY <2>1, KeyLeft
  <2>2. CASE /\ ~Exists(trig[u])
             /\ auto' = [auto EXCEPT ![AutomationOf[u]] = NewAutomation(wake)]
             /\ \E n \in ReadTime : trig' = [trig EXCEPT ![u] = NewTrigger(spec, n)]
             /\ created' = [created EXCEPT ![u] = <<spec, wake>>]
    <3>1. PICK n \in ReadTime : trig' = [trig EXCEPT ![u] = NewTrigger(spec, n)]
      BY <2>2
    <3>2. CASE u = t
      <4>1. /\ trig'[t].spec = spec /\ auto'[c].wake = wake
        BY <1>1, <2>2, <3>1, <3>2 DEF NewTrigger, NewAutomation
      <4>2. created'[t] = <<spec, wake>>
        BY <2>2, <3>2 DEF KeyInv
      <4> QED
        BY <2>2, <3>2, <4>1, <4>2 DEF KeyStep
    <3>3. CASE u # t
      <4>1. AutomationOf[u] # c
        BY <1>1, <3>3, DefinitionAssumption
      <4>2. auto'[c] = auto[c] /\ trig'[t] = trig[t] /\ created'[t] = created[t]
        BY <1>1, <2>2, <3>1, <3>3, <4>1
      <4> QED
        BY <4>2 DEF KeyStep, Unedited
    <3> QED
      BY <3>2, <3>3
  <2> QED
    BY <1>7, <2>1, <2>2 DEF CreateDefinition
<1>8. ASSUME NEW w \in Ticker, ClaimDue(w)
      PROVE  KeyStep(t)
  <2>1. UNCHANGED <<auto, created>>
    BY <1>8 DEF ClaimDue
  <2>2. trig'[t] = trig[t] \/ (trig'[t] = Fired(trig[t], at[w]) /\ Exists(trig[t]))
    BY <1>1, <1>8 DEF ClaimDue, Advanced, Due, Active, Exists
  <2>3. \A n : Exists(trig[t]) =>
          /\ Exists(Fired(trig[t], n)) /\ Fired(trig[t], n).version = trig[t].version
          /\ Fired(trig[t], n).spec = trig[t].spec
    BY <1>1 DEF Fired, Exists, TrigType
  <2> QED
    BY <2>1, <2>2, <2>3, KeyLeft
<1>9. CASE Store
  <2>1. Wake # {} /\ \A u \in Trigger : SpecsOf[u] # {}
    BY DefinitionAssumption
  <2>2. CASE \E a \in Automation :
               \/ \E wake \in Wake : CreateAutomation(a, wake) \/ UpdateAutomationWake(a, wake)
               \/ \E s \in {"active", "paused", "archived"} : SetAutomationState(a, s)
    BY <1>3, <1>4, <2>1, <2>2
  <2>3. CASE \E u \in Trigger :
               \/ \E spec \in SpecsOf[u] : CreateTrigger(u, spec) \/ UpdateTrigger(u, spec)
               \/ \E s \in {"active", "paused", "archived"} : SetTriggerState(u, s)
    BY <1>5, <1>6, <2>1, <2>3
  <2>4. CASE \E u \in Keyed : \E spec \in SpecsOf[u], wake \in Wake :
               CreateDefinition(u, spec, wake)
    BY <1>7, <2>4
  <2> QED
    BY <1>9, <2>2, <2>3, <2>4 DEF Store
<1>10. CASE Pass \/ \E w \in Ticker : StartTick(w)
  BY <1>2, <1>10 DEF Pass, StartTick
<1>11. CASE \E u \in Trigger, e \in Event, d \in Digest : IngestEvent(u, e, d)
  BY <1>2, <1>11 DEF IngestEvent
<1>12. CASE UNCHANGED vars
  BY <1>2, <1>12 DEF vars
<1> QED
  BY <1>8, <1>9, <1>10, <1>11, <1>12 DEF Next

\* Versions of automations, the shape of `created` and the trigger an answer
\* is about.
LEMMA KeyFrame ==
  ASSUME OccInv, KeyInv, [Next]_vars
  PROVE  /\ \A a \in Automation : Exists(auto'[a]) => auto'[a].version > 0
         /\ created' = [t \in Keyed |-> created'[t]]
         /\ \/ reply' = reply
            \/ \E t \in Keyed, spec \in Specs, wake \in Wake :
                 /\ reply'.trigger = t /\ reply'.request = <<spec, wake>>
                 /\ reply'.result = "existing" =>
                      /\ Exists(trig[t]) /\ UNCHANGED <<trig, auto, created>>
                      /\ trig[t].spec = spec /\ auto[AutomationOf[t]].wake = wake
<1>1. auto \in [Automation -> AutoType]
  BY DEF OccInv, TypeOK
<1>2. ASSUME NEW a \in Automation, NEW wake \in Wake, CreateAutomation(a, wake)
      PROVE  \A c \in Automation : Exists(auto'[c]) => auto'[c].version > 0
  BY <1>1, <1>2 DEF CreateAutomation, NewAutomation, KeyInv
<1>3. ASSUME NEW a \in Automation, NEW wake \in Wake, NEW s,
             UpdateAutomationWake(a, wake) \/ SetAutomationState(a, s)
      PROVE  \A c \in Automation : Exists(auto'[c]) => auto'[c].version > 0
  <2>1. auto[a].version > 0 /\ auto[a].version \in Nat
    BY <1>1, <1>3, BoundAssumption
       DEF UpdateAutomationWake, SetAutomationState, MayEdit, KeyInv, AutoType
  <2>2. auto'[a].version = auto[a].version + 1
    <3>1. CASE UpdateAutomationWake(a, wake)
      BY <1>1, <3>1 DEF UpdateAutomationWake, AutoType
    <3>2. CASE SetAutomationState(a, s)
      BY <1>1, <3>2 DEF SetAutomationState, AutoType
    <3> QED
      BY <1>3, <3>1, <3>2
  <2>3. \A c \in Automation \ {a} : auto'[c] = auto[c]
    BY <1>1, <1>3 DEF UpdateAutomationWake, SetAutomationState
  <2> QED
    BY <2>1, <2>2, <2>3 DEF KeyInv
<1>4. ASSUME NEW t \in Keyed, NEW spec \in SpecsOf[t], NEW wake \in Wake,
             CreateDefinition(t, spec, wake)
      PROVE  /\ \A a \in Automation : Exists(auto'[a]) => auto'[a].version > 0
             /\ created' = [u \in Keyed |-> created'[u]]
             /\ reply'.trigger = t /\ reply'.request = <<spec, wake>>
             /\ reply'.result = "existing" =>
                  /\ Exists(trig[t]) /\ UNCHANGED <<trig, auto, created>>
                  /\ trig[t].spec = spec /\ auto[AutomationOf[t]].wake = wake
  <2>1. \A a \in Automation : Exists(auto'[a]) => auto'[a].version > 0
    BY <1>1, <1>4 DEF CreateDefinition, NewAutomation, KeyInv
  <2>2. created' = [u \in Keyed |-> created'[u]]
    BY <1>4 DEF CreateDefinition, KeyInv
  <2>3. reply'.trigger = t /\ reply'.request = <<spec, wake>>
    BY <1>4 DEF CreateDefinition
  <2>4. ASSUME reply'.result = "existing"
        PROVE  /\ Exists(trig[t]) /\ UNCHANGED <<trig, auto, created>>
               /\ trig[t].spec = spec /\ auto[AutomationOf[t]].wake = wake
    BY <1>4, <2>4 DEF CreateDefinition, SameDefinition
  <2> QED
    BY <2>1, <2>2, <2>3, <2>4
<1>5. CASE UNCHANGED <<auto, created, reply>>
  BY <1>5 DEF KeyInv
<1>6. CASE Store
  <2>1. CASE \E a \in Automation :
               \/ \E wake \in Wake : CreateAutomation(a, wake) \/ UpdateAutomationWake(a, wake)
               \/ \E s \in {"active", "paused", "archived"} : SetAutomationState(a, s)
    <3>1. UNCHANGED <<created, reply>>
      BY <2>1 DEF CreateAutomation, UpdateAutomationWake, SetAutomationState
    <3>2. Wake # {}
      BY DefinitionAssumption
    <3>3. \A a \in Automation : Exists(auto'[a]) => auto'[a].version > 0
      BY <1>2, <1>3, <2>1, <3>2
    <3> QED
      BY <3>1, <3>3 DEF KeyInv
  <2>2. CASE \E t \in Trigger :
               \/ \E spec \in SpecsOf[t] : CreateTrigger(t, spec) \/ UpdateTrigger(t, spec)
               \/ \E s \in {"active", "paused", "archived"} : SetTriggerState(t, s)
    BY <1>5, <2>2 DEF CreateTrigger, UpdateTrigger, SetTriggerState
  <2>3. CASE \E t \in Keyed : \E spec \in SpecsOf[t], wake \in Wake :
               CreateDefinition(t, spec, wake)
    <3>1. \A t \in Keyed : SpecsOf[t] \subseteq Specs
      BY DefinitionAssumption DEF Specs
    <3> QED
      BY <1>4, <2>3, <3>1
  <2> QED
    BY <1>6, <2>1, <2>2, <2>3 DEF Store
<1> QED
  BY <1>5, <1>6 DEF Next, vars, Pass, StartTick, ClaimDue, IngestEvent

LEMMA StepKeyInv == OccInv /\ KeyInv /\ [Next]_vars => KeyInv'
<1> SUFFICES ASSUME OccInv, KeyInv, [Next]_vars PROVE KeyInv'
  OBVIOUS
<1>1. \A t \in Keyed : KeyStep(t)
  BY EachKey
<1>2. ASSUME NEW t \in Keyed, Exists(trig'[t]), Unedited(t)'
      PROVE  created'[t] = <<trig'[t].spec, auto'[AutomationOf[t]].wake>>
  BY <1>1, <1>2 DEF KeyStep, KeyInv
<1>3. CASE reply' = reply
  <2>1. reply' # Nothing => reply'.trigger \in Keyed
    BY <1>3 DEF KeyInv
  <2>2. reply' # Nothing /\ reply'.result = "existing" =>
          Exists(trig[reply.trigger]) /\ Exists(trig'[reply'.trigger])
    BY <1>1, <1>3, <2>1 DEF KeyInv, KeyStep
  <2>3. DriftFailsClosed'
    <3> SUFFICES ASSUME NEW t \in Keyed, t = reply.trigger, reply # Nothing,
                        reply.result = "existing", Unedited(t)'
                 PROVE  reply.request = created'[t]
      BY <1>3, <2>1 DEF DriftFailsClosed, Unedited
    <3>1. Exists(trig[t])
      BY DEF KeyInv
    <3>2. Unedited(t) /\ created'[t] = created[t]
      BY <1>1, <3>1 DEF KeyStep
    <3> QED
      BY <3>2 DEF KeyInv, DriftFailsClosed
  <2> QED
    BY <1>2, <2>1, <2>2, <2>3, KeyFrame DEF KeyInv
<1>4. CASE \E t \in Keyed, spec \in Specs, wake \in Wake :
             /\ reply'.trigger = t /\ reply'.request = <<spec, wake>>
             /\ reply'.result = "existing" =>
                  /\ Exists(trig[t]) /\ UNCHANGED <<trig, auto, created>>
                  /\ trig[t].spec = spec /\ auto[AutomationOf[t]].wake = wake
  <2>1. reply'.trigger \in Keyed
    BY <1>4
  <2>2. reply'.result = "existing" => Exists(trig'[reply'.trigger])
    BY <1>4
  <2>3. DriftFailsClosed'
    BY <1>2, <1>4 DEF DriftFailsClosed
  <2> QED
    BY <1>2, <2>1, <2>2, <2>3, KeyFrame DEF KeyInv
<1> QED
  BY <1>3, <1>4, KeyFrame

\* create_definition: while nobody edits a definition, only the request that
\* made it is told that it exists, for every number of keys, requests, edits
\* and claims in between.
THEOREM DriftAlwaysFailsClosed == Spec => []DriftFailsClosed
<1>1. Init => KeyInv
  <2> SUFFICES ASSUME Init PROVE KeyInv
    OBVIOUS
  <2>1. reply = Nothing /\ created = [t \in Keyed |-> created[t]]
    BY DEF Init
  <2>2. \A a \in Automation : ~Exists(auto[a])
    BY DEF Init, NoAutomation, Exists
  <2>3. \A t \in Keyed : ~Exists(trig[t])
    BY DefinitionAssumption DEF Init, NoTrigger, Exists
  <2> QED
    BY <2>1, <2>2, <2>3 DEF KeyInv, DriftFailsClosed
<1>2. KeyInv => DriftFailsClosed
  BY DEF KeyInv
<1> QED
  BY <1>1, <1>2, StepKeyInv, AlwaysOccInv, PTL DEF Spec
=============================================================================
