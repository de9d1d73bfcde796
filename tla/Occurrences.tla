----------------------------- MODULE Occurrences -----------------------------
(***************************************************************************)
(* Which occurrences of which definitions become runs: the definition      *)
(* tables of store.py with next_run_at, the claim transaction of a tick    *)
(* (_claim_due) and the intake of events (ingest_event), against a clock.  *)
(*                                                                         *)
(* Identities: invocation_id is a digest of (automation, trigger,          *)
(* occurrence) and UNIQUE in `runs`, so a run is known by its trigger and  *)
(* its occurrence (an instant, or an event id).  A keyed trigger and its   *)
(* automation have the ids create_definition derives from one idempotency  *)
(* key.                                                                    *)
(*                                                                         *)
(* Whether the component is enabled, and what becomes of a run, is module  *)
(* RunLifecycle; how cron triggers advance is module Cron.                 *)
(***************************************************************************)
EXTENDS Schedule

CONSTANTS
  Automation, Trigger, AutomationOf,
  Keyed,       \* triggers whose ids come from an idempotency key
  SpecsOf,     \* the specifications an operator may give each trigger
  Wake,        \* payloads
  Event, Digest,
  Ticker,      \* threads that tick, in one process or several
  Horizon,     \* bound: the last instant the clock reaches
  BusyWait,    \* bound: how long a writer waits for the lock, with the time it has read
  MaxVersion,  \* bound: the version a definition is edited up to
  Asleep, Nothing

Specs == UNION {SpecsOf[t] : t \in Trigger}

ASSUME DefinitionAssumption ==
  /\ AutomationOf \in [Trigger -> Automation]
  /\ Wake # {}
  /\ Keyed \subseteq Trigger
  /\ \A t \in Keyed, u \in Trigger : AutomationOf[t] = AutomationOf[u] => t = u
  /\ \A t \in Trigger : SpecsOf[t] # {}
\* validate_trigger_spec: a period is a whole number of seconds, and not zero
\* (the code allows a minute to a year).
ASSUME SpecAssumption ==
  \A s \in Specs :
    \/ s.kind = "once" /\ s.value \in Nat
    \/ s.kind = "interval" /\ s.value \in Nat /\ s.value > 0 /\ s.value % 2 = 0
    \/ s.kind = "event"
ASSUME BoundAssumption == Horizon \in Nat /\ BusyWait \in Nat /\ MaxVersion \in Nat \ {0}
ASSUME NamesAssumption == Asleep \notin Nat /\ Never \notin Event /\ Event \cap Nat = {}

VARIABLES
  now,
  auto,      \* [state, wake, version] of each automation
  trig,      \* [state, spec, next, version] of each trigger
  runs,      \* [trigger, occurrence, fired, version, spec]
  receipts,  \* event_receipts: [trigger, event, digest]
  at,        \* the instant each tick works with
  created,   \* history: the request that created each keyed definition
  reply,     \* the last answer of create_definition
  told       \* history: [trigger, event, digest] of the callers given a run

vars == <<now, auto, trig, runs, receipts, at, created, reply, told>>

-----------------------------------------------------------------------------
NewAutomation(wake)  == [state |-> "active", wake |-> wake, version |-> 1]
NewTrigger(spec, at_) == [state |-> "active", spec |-> spec, next |-> FirstRunAt(spec, at_),
                          version |-> 1]
NoAutomation == [state |-> "absent", wake |-> CHOOSE w \in Wake : TRUE, version |-> 0]
NoTrigger(t) == [state |-> "absent", spec |-> CHOOSE s \in SpecsOf[t] : TRUE, next |-> Never,
                 version |-> 0]

Exists(x)  == x.state # "absent"
Active(t)  == trig[t].state = "active" /\ auto[AutomationOf[t]].state = "active"
HasRun(t, occurrence) == \E r \in runs : r.trigger = t /\ r.occurrence = occurrence

NewRun(t, occurrence, fired) ==
  [trigger |-> t, occurrence |-> occurrence, fired |-> fired,
   version |-> trig[t].version, spec |-> trig[t].spec]

\* The time a writer read before it got the lock.
ReadTime == {n \in now - BusyWait .. now : n >= 0}

-----------------------------------------------------------------------------
(***************************************************************************)
(* Definitions (store.py).                                                 *)
(***************************************************************************)
CreateAutomation(a, wake) ==
  /\ \A t \in Keyed : AutomationOf[t] # a
  /\ ~Exists(auto[a])
  /\ auto' = [auto EXCEPT ![a] = NewAutomation(wake)]
  /\ UNCHANGED <<now, trig, runs, receipts, at, created, reply, told>>

CreateTrigger(t, spec) ==
  /\ t \notin Keyed
  /\ Exists(auto[AutomationOf[t]]) /\ ~Exists(trig[t])
  /\ \E n \in ReadTime : trig' = [trig EXCEPT ![t] = NewTrigger(spec, n)]
  /\ UNCHANGED <<now, auto, runs, receipts, at, created, reply, told>>

\* Forgets to compare the trigger's specification.
SameWake(t, spec, wake) ==
  LET a == auto[AutomationOf[t]] IN
  /\ a.wake = wake /\ a.state = "active"
  /\ trig[t].state = "active"

\* What create_definition compares under a key it already knows.
SameDefinition(t, spec, wake) ==
  LET a == auto[AutomationOf[t]] IN
  /\ a.wake = wake /\ a.state = "active"
  /\ trig[t].spec = spec /\ trig[t].state = "active"

\* One transaction for the automation and its trigger; ids of the pair exist
\* together or not at all.
CreateDefinition(t, spec, wake) ==
  LET a == AutomationOf[t]
      Answer(result) == reply' = [trigger |-> t, request |-> <<spec, wake>>, result |-> result]
  IN
  /\ t \in Keyed
  /\ \/ /\ ~Exists(trig[t])
        /\ auto' = [auto EXCEPT ![a] = NewAutomation(wake)]
        /\ \E n \in ReadTime : trig' = [trig EXCEPT ![t] = NewTrigger(spec, n)]
        /\ created' = [created EXCEPT ![t] = <<spec, wake>>]
        /\ Answer("created")
     \/ /\ Exists(trig[t]) /\ SameDefinition(t, spec, wake)
        /\ Answer("existing")
        /\ UNCHANGED <<auto, trig, created>>
     \/ /\ Exists(trig[t]) /\ ~SameDefinition(t, spec, wake)
        /\ Answer("conflict")
        /\ UNCHANGED <<auto, trig, created>>
  /\ UNCHANGED <<now, runs, receipts, at, told>>

MayEdit(x) == Exists(x) /\ x.version < MaxVersion

SetAutomationState(a, s) ==
  /\ MayEdit(auto[a])
  /\ auto' = [auto EXCEPT ![a].state = s, ![a].version = @ + 1]
  /\ UNCHANGED <<now, trig, runs, receipts, at, created, reply, told>>

UpdateAutomationWake(a, wake) ==
  /\ MayEdit(auto[a])
  /\ auto' = [auto EXCEPT ![a].wake = wake, ![a].version = @ + 1]
  /\ UNCHANGED <<now, trig, runs, receipts, at, created, reply, told>>

\* Leaves next_run_at as it was.
Disarmed(x, s) == [x EXCEPT !.state = s, !.version = @ + 1]

\* set_trigger_state: resumed, the trigger is armed from now on; else disarmed.
WithState(x, s) ==
  [x EXCEPT !.state = s, !.version = @ + 1,
            !.next = IF s = "active" THEN FirstRunAt(x.spec, now) ELSE Never]

SetTriggerState(t, s) ==
  /\ MayEdit(trig[t])
  /\ trig' = [trig EXCEPT ![t] = WithState(@, s)]
  /\ UNCHANGED <<now, auto, runs, receipts, at, created, reply, told>>

\* Keeps a completed trigger completed.
NextStateKept(s) == s

\* Writes a state the schema does not know.
NextStateRearmed(s) == IF s = "completed" THEN "rearmed" ELSE s

NextState(s) == IF s = "completed" THEN "active" ELSE s

\* update_trigger: a completed trigger is active again, a paused one stays
\* paused, and a trigger keeps its kind.
UpdateTrigger(t, spec) ==
  LET next == NextState(trig[t].state) IN
  /\ MayEdit(trig[t]) /\ spec.kind = trig[t].spec.kind
  /\ trig' = [trig EXCEPT ![t] =
       [state |-> next, spec |-> spec, version |-> @.version + 1,
        next |-> IF next = "active" THEN FirstRunAt(spec, now) ELSE Never]]
  /\ UNCHANGED <<now, auto, runs, receipts, at, created, reply, told>>

-----------------------------------------------------------------------------
(***************************************************************************)
(* Ticks (engine.py: tick, _claim_due).                                    *)
(***************************************************************************)
\* tick reads the clock once; its claim transaction may come much later.
StartTick(w) ==
  /\ at[w] = Asleep
  /\ at' = [at EXCEPT ![w] = now]
  /\ UNCHANGED <<now, auto, trig, runs, receipts, created, reply, told>>

\* Forgets the time.
DueAnyTime(t, n) == Active(t) /\ trig[t].next # Never

Due(t, n) == Active(t) /\ trig[t].next # Never /\ IsoLE(trig[t].next, n)

\* The row of a trigger after its occurrence has been claimed.
Fired(x, n) ==
  LET next == AdvanceAfterFire(x.spec, x.next, n) IN
  IF next = Never THEN [x EXCEPT !.state = "completed", !.next = Never]
                  ELSE [x EXCEPT !.next = next]

\* Skips the trigger together with the row its occurrence already has.
AdvancedIfNew(t, n) == IF HasRun(t, trig[t].next) THEN trig[t] ELSE Fired(trig[t], n)

Advanced(t, n) == Fired(trig[t], n)

\* One transaction over every due trigger.  An occurrence that already has
\* its run gets no second one, and the trigger advances all the same.
ClaimDue(w) ==
  LET n   == at[w]
      due == {t \in Trigger : Due(t, n)}
  IN
  /\ at[w] # Asleep
  /\ runs' = runs \cup {NewRun(t, trig[t].next, n) :
                          t \in {u \in due : ~HasRun(u, trig[u].next)}}
  /\ trig' = [t \in Trigger |-> IF t \in due THEN Advanced(t, n) ELSE trig[t]]
  /\ at' = [at EXCEPT ![w] = Asleep]
  /\ UNCHANGED <<now, auto, receipts, created, reply, told>>

-----------------------------------------------------------------------------
(***************************************************************************)
(* Events (engine.py: ingest_event).                                       *)
(***************************************************************************)
\* Takes any payload for a replay.
SameEvent(receipt, d) == TRUE

SamePayload(receipt, d) == receipt.digest = d

\* The first call writes run and receipt together; a replay is answered with
\* that run if its payload is the same.
IngestEvent(t, e, d) ==
  /\ Exists(trig[t]) /\ trig[t].spec.kind = "event" /\ Active(t)
  /\ \/ /\ \A x \in receipts : ~(x.trigger = t /\ x.event = e)
        /\ \E n \in ReadTime : runs' = runs \cup {NewRun(t, e, n)}
        /\ receipts' = receipts \cup {[trigger |-> t, event |-> e, digest |-> d]}
        /\ told' = told \cup {[trigger |-> t, event |-> e, digest |-> d]}
     \/ /\ \E x \in receipts : x.trigger = t /\ x.event = e /\ SamePayload(x, d)
        /\ told' = told \cup {[trigger |-> t, event |-> e, digest |-> d]}
        /\ UNCHANGED <<runs, receipts>>
  /\ UNCHANGED <<now, auto, trig, at, created, reply>>

-----------------------------------------------------------------------------
Pass ==
  /\ now < Horizon
  /\ now' = now + 1
  /\ UNCHANGED <<auto, trig, runs, receipts, at, created, reply, told>>

Init ==
  /\ now = 0
  /\ auto = [a \in Automation |-> NoAutomation]
  /\ trig = [t \in Trigger |-> NoTrigger(t)]
  /\ runs = {} /\ receipts = {} /\ told = {}
  /\ at = [w \in Ticker |-> Asleep]
  /\ created = [t \in Keyed |-> Nothing]
  /\ reply = Nothing

Store ==
  \/ \E a \in Automation : \/ \E wake \in Wake : CreateAutomation(a, wake)
                                                \/ UpdateAutomationWake(a, wake)
                           \/ \E s \in {"active", "paused", "archived"} : SetAutomationState(a, s)
  \/ \E t \in Trigger : \/ \E spec \in SpecsOf[t] : CreateTrigger(t, spec) \/ UpdateTrigger(t, spec)
                        \/ \E s \in {"active", "paused", "archived"} : SetTriggerState(t, s)
  \/ \E t \in Keyed : \E spec \in SpecsOf[t], wake \in Wake : CreateDefinition(t, spec, wake)

Next ==
  \/ Pass \/ Store
  \/ \E w \in Ticker : StartTick(w) \/ ClaimDue(w)
  \/ \E t \in Trigger, e \in Event, d \in Digest : IngestEvent(t, e, d)

Spec == Init /\ [][Next]_vars

\* Time passes and every scheduler goes on ticking.
FairSpec ==
  /\ Spec
  /\ WF_vars(Pass)
  /\ \A w \in Ticker : WF_vars(StartTick(w)) /\ WF_vars(ClaimDue(w))

-----------------------------------------------------------------------------
Instants  == 0 .. Horizon
Upcoming  == Nat \cup {Never}
AutoType  == [state : {"absent", "active", "paused", "archived"}, wake : Wake,
              version : 0 .. MaxVersion]
TrigType  == [state : {"absent", "active", "paused", "archived", "completed"},
              spec : Specs, next : Upcoming, version : 0 .. MaxVersion]
RunType   == [trigger : Trigger, occurrence : Nat \cup Event, fired : Instants,
              version : 1 .. MaxVersion, spec : Specs]

\* The tables and histories have the shapes the schema gives them.
TypeOK ==
  /\ now \in Instants
  /\ auto \in [Automation -> AutoType]
  /\ trig \in [Trigger -> TrigType]
  /\ runs \subseteq RunType
  /\ receipts \cup told \subseteq [trigger : Trigger, event : Event, digest : Digest]
  /\ at \in [Ticker -> Instants \cup {Asleep}]

\* Through every claim, edit, pause and resume: a timed trigger is armed
\* exactly while it is active, whatever its automation's state (the two are
\* edited in separate transactions).
ArmedWhileActive ==
  \A t \in Trigger : Exists(trig[t]) =>
    (trig[t].next # Never <=> trig[t].state = "active" /\ TimedSpec(trig[t].spec))

\* The runs of the trigger as it now stands.
RunsOf(t) == {r \in runs : r.trigger = t /\ r.version = trig[t].version}

Repeats(t) == trig[t].state = "active" /\ trig[t].spec.kind = "interval"

\* Recurring misfires coalesce (ARCHITECTURE.md): once a tick has claimed, what
\* is still to come lies after that tick's clock, in whatever order the ticks
\* that overlap commit.
MisfiresCoalesce == \A t \in Trigger : Repeats(t) => \A r \in RunsOf(t) : r.fired < trig[t].next

\* An interval keeps its phase however late its claims come, and the instant
\* it advances to is the first one of the phase that is not yet past.
IntervalKeepsPhase ==
  \A t \in Trigger : Repeats(t) /\ RunsOf(t) # {} =>
    LET period == trig[t].spec.value IN
    /\ \A r \in RunsOf(t) : (trig[t].next - r.occurrence) % period = 0
    /\ \E r \in RunsOf(t) : trig[t].next - period <= Larger(r.occurrence, r.fired)

\* No run is claimed a second or more before its instant.  (Less than a second
\* before is possible: IsoLE.)
NeverASecondEarly == \A r \in runs : TimedSpec(r.spec) => r.occurrence < r.fired + 2

\* A one-time trigger is marked completed only when the instant it now names
\* has its run, edits and resumptions after completion included.
CompletedHasRun ==
  \A t \in Trigger : trig[t].state = "completed" => HasRun(t, trig[t].spec.value)

\* Whoever is answered with the run of an event sent the payload that run was
\* made from.
ReplayKeepsPayload ==
  \A x, y \in told : x.trigger = y.trigger /\ x.event = y.event => x.digest = y.digest

Unedited(t) == trig[t].version = 1 /\ auto[AutomationOf[t]].version = 1

\* "Semantic drift under the same key fails closed" (store.py:119): while nobody
\* edits a definition, only the request that made it is told that it exists.
DriftFailsClosed ==
  reply # Nothing /\ reply.result = "existing" /\ Unedited(reply.trigger) =>
    reply.request = created[reply.trigger]

\* "An exact retry returns the existing definition" (store.py:118): while
\* nobody edits a definition, the request that made it is not refused.
ExactRetryReturns ==
  reply # Nothing /\ reply.result = "conflict" /\ Unedited(reply.trigger) =>
    reply.request # created[reply.trigger]

\* What is due is claimed, or disarmed by the operator: a trigger armed again
\* at an instant that has its run does not stay due for ever.
DueIsClaimed ==
  \A t \in Trigger, n \in Instants :
    (trig[t].next = n /\ n <= now) ~> (trig[t].next # n \/ ~Active(t))
=============================================================================
