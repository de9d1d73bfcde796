------------------------- MODULE RunLifecycleProofs -------------------------
(***************************************************************************)
(* Theorems about RunLifecycle, for every number of processes, threads,    *)
(* runs, definitions and attempts: types, who owns a run (OwnInv), what a  *)
(* row promises, the gate an executor watches (GateWatch), and that all of *)
(* it implements WakeContract.                                             *)
(***************************************************************************)
EXTENDS GateWatch, TLAPS

\* A thread in the middle of execute_run or retry_run has a run in hand, and
\* one about to write a verdict has a verdict.
HandsFull ==
  \A w \in Worker : /\ pc[w] \in Holding => cur[w] \in Run
                    /\ pc[w] = "stop" => verdict[w] \in Verdicts

TypeInv == TypeOK /\ HandsFull

USE DEF Labels, Holding

LEMMA NewRowType ==
  ASSUME TypeOK, NEW w \in Worker, NEW t \in Trigger, NEW source \in SourceKinds,
         NEW key \in Event \cup {NoKey}
  PROVE  Claimed(w, t, source, key) \in RowType
BY ProcAssumption, TriggerAssumption
   DEF Claimed, RowType, TypeOK, Self, Statuses, InFlight

LEMMA AbsentType == Absent \in RowType
BY TriggerAssumption DEF Absent, RowType, Statuses, SourceKinds

\* The one-row updates of the engine.
LEMMA RowUpdateType ==
  ASSUME NEW x \in RowType, NEW s \in Statuses, NEW o \in Proc \cup {Nobody}, NEW n \in Nat
  PROVE  /\ [x EXCEPT !.status = s, !.owner = o] \in RowType
         /\ [x EXCEPT !.status = s, !.attempt = n, !.owner = o] \in RowType
         /\ x.attempt \in Nat
BY DEF RowType

\* A write of one row keeps the table well typed when the row it writes is.
LEMMA TableUpdateType ==
  ASSUME row \in [Run -> RowType], NEW r \in Run, NEW x \in RowType, Write(r, x)
  PROVE  row' \in [Run -> RowType]
BY DEF Write

\* The edits of a definition.
LEMMA EditType ==
  ASSUME NEW S, NEW x \in [state : S, version : Nat], NEW s \in S, "active" \in S
  PROVE  /\ WithState(x, s) \in [state : S, version : Nat]
         /\ WithNewWake(x) \in [state : S, version : Nat]
         /\ WithNewSpec(x) \in [state : S, version : Nat]
BY DEF WithState, WithNewWake, WithNewSpec

LEMMA InitTypeInv == Init => TypeInv
<1> SUFFICES ASSUME Init
             PROVE  TypeInv
  OBVIOUS
<1>1. auto \in [Automation -> [state : AutomationStates, version : Nat]]
  BY DEF Init, AutomationStates
<1>2. trig \in [Trigger -> [state : TriggerStates, version : Nat]]
  BY DEF Init, TriggerStates
<1>3. row \in [Run -> RowType]
  BY AbsentType DEF Init
<1> QED
  BY <1>1, <1>2, <1>3 DEF Init, TypeInv, TypeOK, HandsFull

\* With a run in hand a thread goes on, or stops with a verdict.
LEMMA WorkTypeInv ==
  ASSUME TypeInv, NEW w \in Worker, pc[w] \in Holding,
         UNCHANGED <<config, definitions, row, phase, cur, todo, assent, history>>,
         \/ \E l \in Holding \ {"stop"} : Goto(w, l) /\ UNCHANGED verdict
         \/ \E v \in Verdicts : Stop(w, v)
  PROVE  TypeInv'
<1>1. TypeOK /\ HandsFull /\ cur[w] \in Run
  BY DEF TypeInv, HandsFull
<1> USE DEF TypeInv, TypeOK, HandsFull, config, definitions, history
<1>2. CASE \E l \in Holding \ {"stop"} : Goto(w, l) /\ UNCHANGED verdict
  BY <1>1, <1>2 DEF Goto
<1>3. CASE \E v \in Verdicts : Stop(w, v)
  BY <1>1, <1>3 DEF Stop, Goto
<1> QED
  BY <1>2, <1>3

\* Steps of a thread that move it along and touch no row.
LEMMA MoveTypeInv ==
  ASSUME TypeInv, NEW w \in Worker,
         \/ Tick(w) \/ Sweep(w) \/ ClaimGate(w) \/ RunNow(w) \/ IngestEvent(w)
         \/ Select(w) \/ AttemptGate(w) \/ Permit(w) \/ Edge(w) \/ Deliver(w)
         \/ Await(w) \/ Settle(w) \/ RetryRun(w) \/ Falter(w)
  PROVE  TypeInv'
<1> USE DEF TypeInv, TypeOK, HandsFull, Goto, Stop, RestOf, Verdicts, config, definitions, history
<1>1. CASE Tick(w)
  BY <1>1 DEF Tick
<1>2. CASE Sweep(w)
  BY <1>2 DEF Sweep
<1>3. CASE ClaimGate(w)
  BY <1>3 DEF ClaimGate
<1>4. CASE RunNow(w)
  BY <1>4 DEF RunNow
<1>5. CASE IngestEvent(w)
  BY <1>5 DEF IngestEvent
<1>6. CASE Select(w)
  BY <1>6 DEF Select
<1>7. CASE AttemptGate(w)
  <2>1. PICK r \in todo[w] : cur' = [cur EXCEPT ![w] = r] /\ todo' = [todo EXCEPT ![w] = @ \ {r}]
    BY <1>7 DEF AttemptGate
  <2>2. r \in Run
    OBVIOUS
  <2> QED
    BY <1>7, <2>1, <2>2 DEF AttemptGate
<1>8. CASE Permit(w) \/ Edge(w) \/ Await(w) \/ Settle(w)
  <2> HIDE DEF TypeInv, TypeOK, HandsFull, Goto, Stop, RestOf, config, definitions, history
  <2>1. pc[w] \in Holding /\ UNCHANGED <<config, definitions, row, phase, cur, todo, assent, history>>
    BY <1>8 DEF Permit, Edge, Await, Settle
  <2>2. \/ \E l \in Holding \ {"stop"} : Goto(w, l) /\ UNCHANGED verdict
        \/ \E v \in Verdicts : Stop(w, v)
    BY <1>8 DEF Permit, Edge, Await, Settle
  <2> QED
    BY <2>1, <2>2, WorkTypeInv
<1>9. CASE Deliver(w)
  <2>1. cur[w] \in Run /\ pc' \in [Worker -> Labels] /\ "dead_letter" \in Verdicts
    BY <1>9 DEF Deliver, Labels, Holding
  <2>2. CASE /\ verdict' = verdict /\ Goto(w, "await")
             /\ sends' = [sends EXCEPT ![cur[w]] = sends[cur[w]] + 1]
    <3>1. undecided' \in SUBSET Run /\ sends' \in [Run -> Nat]
      BY <1>9, <2>1, <2>2 DEF Deliver
    <3> QED
      BY <1>9, <2>1, <2>2, <3>1 DEF Deliver
  <2>3. CASE Stop(w, "dead_letter") /\ UNCHANGED history
    BY <1>9, <2>1, <2>3 DEF Deliver
  <2> QED
    BY <1>9, <2>2, <2>3 DEF Deliver
<1>10. CASE RetryRun(w)
  BY <1>10 DEF RetryRun
<1>11. CASE Falter(w)
  BY <1>11 DEF Falter
<1> QED
  BY <1>1, <1>2, <1>3, <1>4, <1>5, <1>6, <1>7, <1>8, <1>9, <1>10, <1>11

\* Steps that write one row.
LEMMA WriteTypeInv ==
  ASSUME TypeInv, NEW w \in Worker,
         \/ Begin(w) \/ Mark(w) \/ Rearm(w) \/ Terminal(w) \/ Success(w) \/ Reopen(w)
         \/ InsertManual(w) \/ InsertEvent(w)
  PROVE  TypeInv'
<1>1. Self(w) \in Proc
  BY ProcAssumption DEF Self
<1>2. "canceled" \in Statuses /\ "authorizing" \in Statuses /\ "delivering" \in Statuses
      /\ "retry_wait" \in Statuses /\ "succeeded" \in Statuses /\ Verdicts \subseteq Statuses
  BY DEF Statuses, InFlight, Recoverable, Verdicts
<1>3. \A r \in Run : row[r] \in RowType /\ row[r].attempt \in Nat
  BY DEF TypeInv, TypeOK, RowType
<1>4. row' \in [Run -> RowType]
  <2> USE DEF TypeInv, TypeOK, HandsFull
  <2>1. CASE Begin(w)
    <3>1. cur[w] \in Run
      BY <2>1 DEF Begin
    <3>2. [row[cur[w]] EXCEPT !.status = "canceled", !.owner = Nobody] \in RowType
      BY <1>2, <1>3, <3>1, RowUpdateType
    <3>3. row[cur[w]].attempt + 1 \in Nat
      BY <1>3, <3>1
    <3>4. [row[cur[w]] EXCEPT !.status = "authorizing", !.attempt = row[cur[w]].attempt + 1,
                              !.owner = Self(w)] \in RowType
      BY <1>1, <1>2, <1>3, <3>1, <3>3, RowUpdateType
    <3>5. \/ row' = row
          \/ Write(cur[w], [row[cur[w]] EXCEPT !.status = "canceled", !.owner = Nobody])
          \/ Write(cur[w], [row[cur[w]] EXCEPT !.status = "authorizing",
                              !.attempt = row[cur[w]].attempt + 1, !.owner = Self(w)])
      BY <2>1 DEF Begin
    <3> QED
      BY <3>1, <3>2, <3>4, <3>5, TableUpdateType
  <2>2. CASE Mark(w)
    BY <1>1, <1>2, <1>3, <2>2, RowUpdateType DEF Mark, Write
  <2>3. CASE Rearm(w)
    BY <1>2, <1>3, <2>3, RowUpdateType DEF Rearm, Write
  <2>4. CASE Terminal(w)
    BY <1>2, <1>3, <2>4, RowUpdateType DEF Terminal, Write
  <2>5. CASE Success(w)
    BY <1>2, <1>3, <2>5, RowUpdateType DEF Success, Write
  <2>6. CASE Reopen(w)
    <3>1. cur[w] \in Run
      BY <2>6 DEF Reopen
    <3>2. [row[cur[w]] EXCEPT !.status = "canceled", !.owner = Nobody] \in RowType
      BY <1>2, <1>3, <3>1, RowUpdateType
    <3>3. [row[cur[w]] EXCEPT !.status = "retry_wait", !.attempt = 0, !.owner = Nobody]
            \in RowType
      BY <1>2, <1>3, <3>1, RowUpdateType
    <3>4. \/ Write(cur[w], [row[cur[w]] EXCEPT !.status = "canceled", !.owner = Nobody])
          \/ Write(cur[w], [row[cur[w]] EXCEPT !.status = "retry_wait", !.attempt = 0,
                                               !.owner = Nobody])
      BY <2>6 DEF Reopen
    <3> QED
      BY <3>1, <3>2, <3>3, <3>4, TableUpdateType
  <2>7. CASE InsertManual(w)
    BY <2>7, NewRowType DEF InsertManual, Insert, Refuse, Write, Spare, SourceKinds, TypeInv, TypeOK
  <2>8. CASE InsertEvent(w)
    BY <2>8, NewRowType DEF InsertEvent, Insert, Refuse, Write, Spare, SourceKinds, TypeInv, TypeOK
  <2> QED
    BY <2>1, <2>2, <2>3, <2>4, <2>5, <2>6, <2>7, <2>8
<1> USE DEF TypeInv, TypeOK, HandsFull, Goto, RestOf, config, definitions, history
<1>5. CASE Begin(w)
  <2>1. Finish(w) \/ (Goto(w, "permit") /\ UNCHANGED cur)
    BY <1>5 DEF Begin
  <2>2. UNCHANGED <<config, definitions, phase, todo, verdict, assent, history>> /\ pc[w] = "begin"
    BY <1>5 DEF Begin
  <2>3. CASE Finish(w)
    BY <1>4, <2>2, <2>3 DEF Finish
  <2>4. CASE Goto(w, "permit") /\ UNCHANGED cur
    BY <1>4, <2>2, <2>4
  <2> QED
    BY <2>1, <2>3, <2>4
<1>6. CASE Mark(w)
  BY <1>4, <1>6 DEF Mark
<1>7. CASE Rearm(w)
  BY <1>4, <1>7 DEF Rearm, Finish
<1>8. CASE Terminal(w)
  BY <1>4, <1>8 DEF Terminal, Finish
<1>9. CASE Success(w)
  BY <1>4, <1>9 DEF Success, Finish
<1>10. CASE Reopen(w)
  <2>1. /\ cur' = [cur EXCEPT ![w] = NoRun] /\ assent' = [assent EXCEPT ![w] = FALSE]
        /\ cur[w] \in Run
        /\ UNCHANGED <<config, definitions, phase, verdict>>
    BY <1>10 DEF Reopen
  <2>2. \/ Goto(w, RestOf(w)) /\ UNCHANGED <<todo, history>>
        \/ /\ todo' = [todo EXCEPT ![w] = {cur[w]}] /\ Goto(w, "next")
           /\ sends' = [sends EXCEPT ![cur[w]] = 0]
           /\ undecided' = IF assent[w] THEN undecided \ {cur[w]} ELSE undecided
    BY <1>10 DEF Reopen
  <2>3. CASE Goto(w, RestOf(w)) /\ UNCHANGED <<todo, history>>
    BY <1>4, <2>1, <2>3
  <2>4. CASE /\ todo' = [todo EXCEPT ![w] = {cur[w]}] /\ Goto(w, "next")
             /\ sends' = [sends EXCEPT ![cur[w]] = 0]
             /\ undecided' = IF assent[w] THEN undecided \ {cur[w]} ELSE undecided
    BY <1>4, <2>1, <2>4
  <2> QED
    BY <2>2, <2>3, <2>4
<1>11. CASE InsertManual(w) \/ InsertEvent(w)
  <2>1. UNCHANGED <<config, definitions, phase, cur, verdict, assent, history>>
    BY <1>11 DEF InsertManual, InsertEvent
  <2>2. \/ Goto(w, RestOf(w)) /\ UNCHANGED todo
        \/ \E r \in Run : todo' = [todo EXCEPT ![w] = {r}] /\ Goto(w, "next")
    BY <1>11 DEF InsertManual, InsertEvent, Insert, Refuse, Spare
  <2> QED
    BY <1>4, <2>1, <2>2
<1> QED
  BY <1>5, <1>6, <1>7, <1>8, <1>9, <1>10, <1>11

LEMMA RecoverTypeInv ==
  ASSUME TypeInv, NEW w \in Worker, RecoverStale(w)
  PROVE  TypeInv'
<1>1. PICK aged \in SUBSET Run :
        row' = [r \in Run |-> IF Stale(w, r, aged) THEN Recovered(row[r]) ELSE row[r]]
  BY DEF RecoverStale
<1> "unknown" \in Statuses
  BY DEF Statuses, Recoverable
<1> \A r \in Run : row[r] \in RowType /\ Recovered(row[r]) \in RowType
  BY RowUpdateType DEF Recovered, TypeInv, TypeOK
<1>2. row' \in [Run -> RowType]
  BY <1>1
<1>3. /\ Goto(w, IF pc[w] = "recover" THEN "claimGate" ELSE RestOf(w))
      /\ UNCHANGED <<config, definitions, phase, cur, todo, verdict, assent, history>>
  BY DEF RecoverStale
<1> QED
  BY <1>2, <1>3 DEF TypeInv, TypeOK, HandsFull, Goto, RestOf, config, definitions, history

LEMMA ClaimTypeInv ==
  ASSUME TypeInv, NEW w \in Worker, Claim(w)
  PROVE  TypeInv'
<1> PICK due \in SUBSET {t \in Trigger : Armed(t)} :
     \E claim \in [due -> Spare \cup {NoRun}] :
         /\ row' = [r \in Run |-> IF \E t \in due : claim[t] = r
                                  THEN Claimed(w, CHOOSE t \in due : claim[t] = r, "schedule", NoKey)
                                  ELSE row[r]]
         /\ trig' = [t \in Trigger |-> IF t \in due /\ Kind[t] = "once"
                                       THEN [trig[t] EXCEPT !.state = "completed"]
                                       ELSE trig[t]]
         /\ todo' = [todo EXCEPT ![w] = {r \in Run : \E t \in due : claim[t] = r}]
  BY DEF Claim
<1> PICK claim \in [due -> Spare \cup {NoRun}] :
         /\ row' = [r \in Run |-> IF \E t \in due : claim[t] = r
                                  THEN Claimed(w, CHOOSE t \in due : claim[t] = r, "schedule", NoKey)
                                  ELSE row[r]]
         /\ trig' = [t \in Trigger |-> IF t \in due /\ Kind[t] = "once"
                                       THEN [trig[t] EXCEPT !.state = "completed"]
                                       ELSE trig[t]]
         /\ todo' = [todo EXCEPT ![w] = {r \in Run : \E t \in due : claim[t] = r}]
  OBVIOUS
<1>1. row' \in [Run -> RowType]
  <2> SUFFICES ASSUME NEW r \in Run
               PROVE  row'[r] \in RowType
    OBVIOUS
  <2>1. CASE \E t \in due : claim[t] = r
    <3> DEFINE t0 == CHOOSE t \in due : claim[t] = r
    <3>1. t0 \in Trigger
      BY <2>1
    <3>2. row'[r] = Claimed(w, t0, "schedule", NoKey)
      BY <2>1
    <3> QED
      BY <3>1, <3>2, NewRowType DEF TypeInv, SourceKinds
  <2>2. CASE ~\E t \in due : claim[t] = r
    BY <2>2 DEF TypeInv, TypeOK
  <2> QED
    BY <2>1, <2>2
<1>2. trig' \in [Trigger -> [state : TriggerStates, version : Nat]]
  <2> SUFFICES ASSUME NEW t \in Trigger
               PROVE  trig'[t] \in [state : TriggerStates, version : Nat]
    OBVIOUS
  <2>1. trig[t] \in [state : TriggerStates, version : Nat]
    BY DEF TypeInv, TypeOK
  <2>2. [trig[t] EXCEPT !.state = "completed"] \in [state : TriggerStates, version : Nat]
    BY <2>1 DEF TriggerStates
  <2> QED
    BY <2>1, <2>2
<1>3. todo' \in [Worker -> SUBSET Run]
  BY DEF TypeInv, TypeOK
<1>4. /\ Goto(w, "select")
      /\ UNCHANGED <<config, auto, phase, cur, verdict, assent, history>>
  BY DEF Claim
<1> QED
  BY <1>1, <1>2, <1>3, <1>4 DEF TypeInv, TypeOK, HandsFull, Goto, config, history

LEMMA EnvironmentTypeInv ==
  ASSUME TypeInv, Process \/ Edit \/ Configure
  PROVE  TypeInv'
<1> USE DEF TypeInv, TypeOK, HandsFull, config, definitions, threads, history
<1>1. CASE Process
  <2> PICK p \in Proc : Boot(p) \/ Halt(p)
    BY <1>1 DEF Process, Exit, Crash
  <2>1. CASE Boot(p)
    BY <2>1 DEF Boot
  <2>2. CASE Halt(p)
    BY <2>2 DEF Halt
  <2> QED
    BY <2>1, <2>2
<1>2. CASE Edit
  <2>1. auto' \in [Automation -> [state : AutomationStates, version : Nat]]
    BY <1>2 DEF Edit, UpdateAutomationWake, SetAutomationState, UpdateTrigger, SetTriggerState,
                WithState, WithNewWake
  <2>2. trig' \in [Trigger -> [state : TriggerStates, version : Nat]]
    <3>1. CASE trig' = trig
      BY <3>1
    <3>2. ASSUME NEW t \in Trigger, UpdateTrigger(t)
          PROVE  trig' \in [Trigger -> [state : TriggerStates, version : Nat]]
      <4>1. trig[t] \in [state : TriggerStates, version : Nat]
        OBVIOUS
      <4>2. WithNewSpec(trig[t]) \in [state : TriggerStates, version : Nat]
        BY <4>1 DEF WithNewSpec, WithState, TriggerStates
      <4> QED
        BY <3>2, <4>2 DEF UpdateTrigger
    <3>3. ASSUME NEW t \in Trigger, NEW s \in TriggerStates, SetTriggerState(t, s)
          PROVE  trig' \in [Trigger -> [state : TriggerStates, version : Nat]]
      BY <3>3 DEF SetTriggerState, WithState
    <3> QED
      BY <1>2, <3>1, <3>2, <3>3 DEF Edit, UpdateAutomationWake, SetAutomationState
  <2> QED
    BY <1>2, <2>1, <2>2 DEF Edit, UpdateAutomationWake, SetAutomationState, UpdateTrigger,
                            SetTriggerState
<1>3. CASE Configure
  BY <1>3 DEF Configure, SetEnabled, SetLegacy
<1> QED
  BY <1>1, <1>2, <1>3

LEMMA StepTypeInv == TypeInv /\ [Next]_vars => TypeInv'
<1> SUFFICES ASSUME TypeInv, [Next]_vars
             PROVE  TypeInv'
  OBVIOUS
<1>1. ASSUME NEW w \in Worker, Proceed(w) \/ Command(w) \/ Falter(w)
      PROVE  TypeInv'
  BY <1>1, MoveTypeInv, WriteTypeInv, RecoverTypeInv, ClaimTypeInv
     DEF Proceed, Execute, Schedule, Command
<1>2. CASE Process \/ Edit \/ Configure
  BY <1>2, EnvironmentTypeInv
<1>3. CASE UNCHANGED vars
  BY <1>3 DEF vars, TypeInv, TypeOK, HandsFull
<1> QED
  BY <1>1, <1>2, <1>3 DEF Next

\* Type correctness: every table, thread and history variable keeps its shape.
THEOREM TypeCorrect == Spec => []TypeOK
<1>1. Init => TypeInv
  BY InitTypeInv
<1>2. TypeInv /\ [Next]_vars => TypeInv'
  BY StepTypeInv
<1>3. TypeInv => TypeOK
  BY DEF TypeInv
<1> QED
  BY <1>1, <1>2, <1>3, PTL DEF Spec

-----------------------------------------------------------------------------
(***************************************************************************)
(* Claims have owners.                                                     *)
(***************************************************************************)
Owned(x) == x.status \in InFlight => x.owner # Nobody

\* What execute_run, retry_run and recover_stale write: a row in flight under
\* an owner, or a row that is not in flight.
LEMMA OwnedUpdate ==
  ASSUME NEW x \in RowType, NEW s, NEW o, NEW n, s \in InFlight => o # Nobody
  PROVE  /\ Owned([x EXCEPT !.status = s, !.owner = o])
         /\ Owned([x EXCEPT !.status = s, !.attempt = n, !.owner = o])
BY DEF Owned, RowType

LEMMA OwnedWrite ==
  ASSUME row \in [Run -> RowType], \A q \in Run : Owned(row[q]),
         NEW r \in Run, NEW x, Owned(x), Write(r, x)
  PROVE  \A q \in Run : Owned(row'[q])
BY DEF Write

LEMMA NewRowOwned ==
  ASSUME NEW w \in Worker, NEW t, NEW source, NEW key
  PROVE  Owned(Claimed(w, t, source, key))
<1>1. Self(w) # Nobody
  BY ProcAssumption, FreshAssumption DEF Self
<1> QED
  BY <1>1 DEF Owned, Claimed

\* One step keeps every claim owned: one case for each action that writes `runs`.
LEMMA StepOwned == TypeInv /\ ClaimsAreOwned /\ [Next]_vars => ClaimsAreOwned'
<1> SUFFICES ASSUME TypeInv, \A r \in Run : Owned(row[r]), [Next]_vars
             PROVE  \A r \in Run : Owned(row'[r])
  BY DEF ClaimsAreOwned, Owned
<1>1. row \in [Run -> RowType] /\ \A w \in Worker : pc[w] \in Holding => cur[w] \in Run
  BY DEF TypeInv, TypeOK, HandsFull
<1>2. \A w \in Worker : Self(w) # Nobody
  BY ProcAssumption, FreshAssumption DEF Self
<1>3. /\ "authorizing" \in InFlight /\ "delivering" \in InFlight
      /\ \A s \in Verdicts \cup {"succeeded", "retry_wait", "unknown"} : s \notin InFlight
  BY DEF InFlight, Verdicts
<1>4. ASSUME row' = row
      PROVE  \A r \in Run : Owned(row'[r])
  BY <1>4
<1>5. ASSUME NEW w \in Worker, Begin(w) \/ Mark(w) \/ Rearm(w) \/ Terminal(w) \/ Success(w)
                               \/ Reopen(w)
      PROVE  \A r \in Run : Owned(row'[r])
  <2>1. pc[w] \in Holding
    BY <1>5 DEF Begin, Mark, Rearm, Terminal, Success, Reopen
  <2>2. cur[w] \in Run /\ row[cur[w]] \in RowType
    BY <1>1, <2>1
  <2> DEFINE put(s, o)      == [row[cur[w]] EXCEPT !.status = s, !.owner = o]
             puts(s, n, o)  == [row[cur[w]] EXCEPT !.status = s, !.attempt = n, !.owner = o]
  <2>3. ASSUME NEW s, NEW o, s \in InFlight => o # Nobody, Write(cur[w], put(s, o))
        PROVE  \A r \in Run : Owned(row'[r])
    <3>1. Owned(put(s, o))
      BY <2>2, <2>3, OwnedUpdate
    <3> HIDE DEF put
    <3> QED
      BY <1>1, <2>2, <2>3, <3>1, OwnedWrite
  <2>3a. ASSUME NEW s, NEW n, NEW o, s \in InFlight => o # Nobody, Write(cur[w], puts(s, n, o))
         PROVE  \A r \in Run : Owned(row'[r])
    <3>1. Owned(puts(s, n, o))
      BY <2>2, <2>3a, OwnedUpdate
    <3> HIDE DEF puts
    <3> QED
      BY <1>1, <2>2, <2>3a, <3>1, OwnedWrite
  <2>4. CASE Begin(w)
    <3>1. \/ row' = row
          \/ Write(cur[w], put("canceled", Nobody))
          \/ Write(cur[w], puts("authorizing", row[cur[w]].attempt + 1, Self(w)))
      BY <2>4 DEF Begin
    <3> DEFINE self == Self(w)
    <3>2. self # Nobody
      BY <1>2
    <3> HIDE DEF put, puts, self
    <3>3. CASE Write(cur[w], put("canceled", Nobody))
      BY <1>3, <2>3, <3>3 DEF Verdicts
    <3>4. CASE Write(cur[w], puts("authorizing", row[cur[w]].attempt + 1, self))
      BY <2>3a, <3>2, <3>4
    <3> QED
      BY <1>4, <3>1, <3>3, <3>4 DEF self
  <2>5. CASE Mark(w)
    <3> DEFINE self == Self(w)
    <3>1. Write(cur[w], put("delivering", self)) /\ self # Nobody
      BY <1>2, <2>5 DEF Mark
    <3> HIDE DEF put, puts, self
    <3> QED
      BY <2>3, <3>1
  <2>6. CASE Rearm(w)
    <3>1. Write(cur[w], put("retry_wait", Nobody))
      BY <2>6 DEF Rearm
    <3> HIDE DEF put, puts
    <3> QED
      BY <1>3, <2>3, <3>1
  <2>7. CASE Terminal(w)
    <3>1. Write(cur[w], put(verdict[w], Nobody)) /\ verdict[w] \in Verdicts
      BY <2>7 DEF Terminal, TypeInv, HandsFull
    <3> HIDE DEF put, puts
    <3> QED
      BY <1>3, <2>3, <3>1
  <2>8. CASE Success(w)
    <3>1. Write(cur[w], put("succeeded", Nobody))
      BY <2>8 DEF Success
    <3> HIDE DEF put, puts
    <3> QED
      BY <1>3, <2>3, <3>1
  <2>9. CASE Reopen(w)
    <3>1. \/ Write(cur[w], put("canceled", Nobody))
          \/ Write(cur[w], puts("retry_wait", 0, Nobody))
      BY <2>9 DEF Reopen
    <3> HIDE DEF put, puts
    <3> QED
      BY <1>3, <2>3, <2>3a, <3>1 DEF Verdicts
  <2> QED
    BY <1>5, <2>4, <2>5, <2>6, <2>7, <2>8, <2>9
<1>6. ASSUME NEW w \in Worker, InsertManual(w) \/ InsertEvent(w)
      PROVE  \A r \in Run : Owned(row'[r])
  <2>1. \/ row' = row
        \/ \E r \in Run, t \in Trigger, key \in Event \cup {NoKey} :
             \E source \in SourceKinds : Write(r, Claimed(w, t, source, key))
    BY <1>6 DEF InsertManual, InsertEvent, Insert, Refuse, Spare, SourceKinds
  <2> QED
    BY <1>1, <2>1, NewRowOwned, OwnedWrite
<1>7. ASSUME NEW w \in Worker, RecoverStale(w)
      PROVE  \A r \in Run : Owned(row'[r])
  <2>1. \A r \in Run : row'[r] = row[r] \/ row'[r] = Recovered(row[r])
    BY <1>7 DEF RecoverStale
  <2>2. \A r \in Run : Owned(Recovered(row[r]))
    BY <1>1, <1>3, OwnedUpdate DEF Recovered
  <2> QED
    BY <2>1, <2>2
<1>8. ASSUME NEW w \in Worker, Claim(w)
      PROVE  \A r \in Run : Owned(row'[r])
  <2>1. \A r \in Run : row'[r] = row[r] \/ \E t : row'[r] = Claimed(w, t, "schedule", NoKey)
    BY <1>8 DEF Claim
  <2> QED
    BY <2>1, NewRowOwned
<1>9. ASSUME NEW w \in Worker, Proceed(w) \/ Command(w) \/ Falter(w)
      PROVE  \A r \in Run : Owned(row'[r])
  <2>1. \/ row' = row
        \/ Begin(w) \/ Mark(w) \/ Rearm(w) \/ Terminal(w) \/ Success(w) \/ Reopen(w)
        \/ InsertManual(w) \/ InsertEvent(w) \/ RecoverStale(w) \/ Claim(w)
    BY <1>9 DEF Proceed, Execute, Schedule, Command, Tick, Sweep, ClaimGate, RunNow, IngestEvent,
                Select, AttemptGate, Permit, Edge, Deliver, Await, Settle, RetryRun, Falter
  <2> QED
    BY <1>4, <1>5, <1>6, <1>7, <1>8, <2>1
<1>10. CASE Process \/ Edit \/ Configure \/ UNCHANGED vars
  <2>1. row' = row
    BY <1>10 DEF Process, Boot, Exit, Crash, Halt, Edit, UpdateAutomationWake, SetAutomationState,
                 UpdateTrigger, SetTriggerState, Configure, SetEnabled, SetLegacy, vars
  <2> QED
    BY <1>4, <2>1
<1> QED
  BY <1>9, <1>10 DEF Next

\* Every row in flight has an owner: recovery never has to wait for
\* claim_timeout_seconds.
THEOREM ClaimsOwned == Spec => []ClaimsAreOwned
<1>1. Init => TypeInv /\ ClaimsAreOwned
  BY InitTypeInv DEF Init, ClaimsAreOwned, Absent, InFlight
<1>2. TypeInv /\ ClaimsAreOwned /\ [Next]_vars => (TypeInv /\ ClaimsAreOwned)'
  BY StepTypeInv, StepOwned
<1> QED
  BY <1>1, <1>2, PTL DEF Spec

-----------------------------------------------------------------------------
(***************************************************************************)
(* While processes take turns (~Concurrent), no two threads ever have one  *)
(* run in hand and every UPDATE by id finds the row its thread left.  What *)
(* the rows promise (final states are final, `unknown` waits for the       *)
(* operator, an edit revokes) follows from that.                           *)
(***************************************************************************)

Resting == {"idle", "exit", "sweep", "recover", "claimGate", "claim", "manual", "ingest",
            "reopen"}

\* What a thread knows of the runs it has in hand, and where it may be.
Local(w) ==
  /\ Agrees(w)
  /\ pc[w] \in Holding => cur[w] \notin todo[w]
  /\ pc[w] \in Resting => todo[w] = {}
  /\ pc[w] \in {"recover", "claimGate", "claim", "select"} => Role[w] # "ingress"
  /\ pc[w] = "reopen" => /\ Role[w] = "cli"
                         /\ row[cur[w]].status \in Recoverable
                         /\ row[cur[w]].status = "unknown" => assent[w]
  /\ Role[w] = "ingress" => \A r \in Run : Holds(w, r) => row[r].status \in InFlight

\* One process lives at a time, and one that does not live holds nothing.
OneLive == \A p, q \in Proc : phase[p] = "live" /\ phase[q] = "live" => p = q
Quiet   == \A w \in Worker : ~Awake(w) => pc[w] \in {"idle", "exit"}

\* A row that is not in flight has no owner.
Free == \A r \in Run : row[r].status \notin InFlight => row[r].owner = Nobody

OwnInv ==
  TypeInv /\ OneLive /\ Quiet /\ Free /\ OneExecutorPerRun /\ \A w \in Worker : Local(w)

-----------------------------------------------------------------------------
\* Two threads that are awake run in one process.
LEMMA OneProcess ==
  ASSUME OneLive, NEW v \in Worker, NEW w \in Worker, Awake(v), Awake(w)
  PROVE  ProcOf[v] = ProcOf[w]
BY ProcAssumption DEF OneLive, Awake, Self

\* Of the threads that are awake one at most ticks, and a command is alone.
LEMMA OneTicker ==
  ASSUME OneLive, NEW v \in Worker, NEW w \in Worker, Awake(v), Awake(w),
         \/ Role[w] = "cli"
         \/ Role[v] # "ingress" /\ Role[w] # "ingress"
  PROVE  v = w
BY OneProcess, ThreadAssumption, ProcAssumption

\* A thread with a run in hand is awake, and what it has in hand are runs.
LEMMA Holder ==
  ASSUME TypeInv, Quiet, NEW v \in Worker, Local(v), NEW r, Holds(v, r)
  PROVE  Awake(v) /\ r \in Run
<1>1. r \in Run
  BY DEF Holds, TypeInv, TypeOK, HandsFull, Holding
<1>2. CASE pc[v] \in {"idle", "exit"}
  BY <1>2 DEF Holds, Local, Resting, Holding
<1> QED
  BY <1>1, <1>2 DEF Quiet

\* A step that leaves a thread and its runs alone keeps what the thread knows.
LEMMA Frame ==
  ASSUME TypeInv, Quiet, NEW v \in Worker, Local(v),
         pc'[v] = pc[v], cur'[v] = cur[v], todo'[v] = todo[v], assent'[v] = assent[v],
         \A r \in Run : Holds(v, r) => row'[r] = row[r]
  PROVE  Local(v)' /\ \A r : Holds(v, r)' <=> Holds(v, r)
<1>1. \A r : Holds(v, r)' <=> Holds(v, r)
  BY DEF Holds
<1>2. \A r : Holds(v, r) => r \in Run /\ row'[r] = row[r]
  BY Holder
<1>3. \A r \in todo[v] : row'[r] = row[r]
  BY <1>2 DEF Holds
<1>4. pc[v] \in Holding => row'[cur[v]] = row[cur[v]]
  BY <1>2 DEF Holds
<1>5. Agrees(v)'
  BY <1>3, <1>4 DEF Local, Agrees, Startable, Started, Self, Holding
<1>6. Role[v] = "ingress" => \A r \in Run : Holds(v, r)' => row'[r].status \in InFlight
  BY <1>1, <1>2 DEF Local
<1> QED
  BY <1>1, <1>4, <1>5, <1>6 DEF Local, Holding

\* What has to be shown of a step of one thread.
LEMMA ThreadStep ==
  ASSUME OwnInv, TypeInv', Free', NEW w \in Worker, Awake(w), phase' = phase, Local(w)',
         \A v \in Worker \ {w} : /\ pc'[v] = pc[v] /\ cur'[v] = cur[v]
                                 /\ todo'[v] = todo[v] /\ assent'[v] = assent[v],
         \A v \in Worker \ {w}, r \in Run : Holds(v, r) => row'[r] = row[r],
         \A r \in Run : Holds(w, r)' => \/ Holds(w, r)
                                        \/ \A v \in Worker : ~Holds(v, r)
  PROVE  OwnInv'
<1>1. \A v \in Worker \ {w} : Local(v)' /\ \A r : Holds(v, r)' <=> Holds(v, r)
  BY Frame DEF OwnInv
<1>2. \A v \in Worker : Awake(v)' <=> Awake(v)
  BY DEF Awake
<1>3. OneLive'
  BY DEF OwnInv, OneLive
<1>4. Quiet'
  BY <1>2 DEF OwnInv, Quiet
<1>5. OneExecutorPerRun'
  <2> SUFFICES ASSUME NEW u \in Worker, NEW v \in Worker, NEW r \in Run,
                      Holds(u, r)', Holds(v, r)'
               PROVE  u = v
    BY DEF OneExecutorPerRun
  <2>1. \A x \in Worker \ {w} : Holds(x, r)' => Holds(x, r)
    BY <1>1
  <2>2. \A x, y \in Worker : Holds(x, r) /\ Holds(y, r) => x = y
    BY DEF OwnInv, OneExecutorPerRun
  <2> QED
    BY <2>1, <2>2
<1> QED
  BY <1>1, <1>3, <1>4, <1>5 DEF OwnInv

\* Where the tables of the threads are functions, an EXCEPT changes one thread.
LEMMA Shapes ==
  ASSUME TypeInv
  PROVE  /\ pc \in [Worker -> Labels] /\ cur \in [Worker -> Run \cup {NoRun}]
         /\ todo \in [Worker -> SUBSET Run] /\ assent \in [Worker -> BOOLEAN]
         /\ row \in [Run -> RowType] /\ phase \in [Proc -> {"new", "live", "dead"}]
         /\ \A w \in Worker : pc[w] \in Holding => cur[w] \in Run
BY DEF TypeInv, TypeOK, HandsFull

\* Steps that touch no row and take nothing new in hand.
LEMMA MoveOwn ==
  ASSUME OwnInv, TypeInv', NEW w \in Worker,
         \/ Tick(w) \/ Sweep(w) \/ ClaimGate(w) \/ RunNow(w) \/ IngestEvent(w) \/ AttemptGate(w)
         \/ Permit(w) \/ Edge(w) \/ Deliver(w) \/ Await(w) \/ Settle(w) \/ Falter(w)
  PROVE  OwnInv'
<1> USE DEF Goto, Stop, RestOf
<1>1. /\ pc \in [Worker -> Labels] /\ cur \in [Worker -> Run \cup {NoRun}]
      /\ todo \in [Worker -> SUBSET Run] /\ Local(w) /\ Role[w] \in {"scheduler", "ingress", "cli"}
  BY Shapes, ProcAssumption DEF OwnInv
<1>2. /\ Awake(w) /\ phase' = phase /\ row' = row /\ assent' = assent
      /\ \A v \in Worker \ {w} : pc'[v] = pc[v] /\ cur'[v] = cur[v] /\ todo'[v] = todo[v]
  BY <1>1 DEF Tick, Sweep, ClaimGate, RunNow, IngestEvent, AttemptGate, Permit, Edge, Deliver,
              Await, Settle, Falter, Idle
<1>3. Local(w)' /\ \A r \in Run : Holds(w, r)' => Holds(w, r)
  <2> USE <1>1, <1>2 DEF Local, Agrees, Startable, Started, Self, Holds, Holding, Resting
  <2>1. CASE Tick(w)
    BY <2>1 DEF Tick, Idle
  <2>2. CASE Sweep(w)
    BY <2>2 DEF Sweep, Idle
  <2>3. CASE ClaimGate(w)
    BY <2>3 DEF ClaimGate
  <2>4. CASE RunNow(w)
    BY <2>4 DEF RunNow, Idle
  <2>5. CASE IngestEvent(w)
    BY <2>5 DEF IngestEvent, Idle
  <2>6. CASE AttemptGate(w)
    BY <2>6 DEF AttemptGate
  <2>7. CASE Permit(w)
    BY <2>7 DEF Permit
  <2>8. CASE Edge(w)
    BY <2>8 DEF Edge
  <2>9. CASE Deliver(w)
    BY <2>9 DEF Deliver
  <2>10. CASE Await(w)
    BY <2>10 DEF Await
  <2>11. CASE Settle(w)
    BY <2>11 DEF Settle
  <2>12. CASE Falter(w)
    BY <2>12 DEF Falter
  <2> QED
    BY <2>1, <2>2, <2>3, <2>4, <2>5, <2>6, <2>7, <2>8, <2>9, <2>10, <2>11, <2>12
<1>4. Free'
  BY <1>2 DEF OwnInv, Free
<1> QED
  BY <1>2, <1>3, <1>4, ThreadStep

\* A tick takes waiting retries in hand.  Nobody else has one: a webhook
\* thread has only runs in flight, and the rest of the process is this thread.
LEMMA SelectOwn ==
  ASSUME OwnInv, TypeInv', NEW w \in Worker, Select(w)
  PROVE  OwnInv'
<1>1. /\ pc \in [Worker -> Labels] /\ todo \in [Worker -> SUBSET Run]
      /\ Local(w) /\ Role \in [Worker -> {"scheduler", "ingress", "cli"}]
  BY Shapes, ProcAssumption DEF OwnInv
<1>2. /\ Awake(w) /\ phase' = phase /\ row' = row /\ assent' = assent /\ cur' = cur
      /\ pc[w] = "select" /\ Role[w] # "ingress"
  BY <1>1 DEF Select, Local
<1>3. PICK due \in SUBSET {r \in Run : Waiting(r)} :
        /\ todo' = [todo EXCEPT ![w] = @ \cup due]
        /\ Goto(w, IF todo[w] \cup due = {} THEN RestOf(w) ELSE "next")
  BY DEF Select
<1>4. \A r \in due : r \in Run /\ Startable(w, r)
  BY DEF Waiting, Startable, OwnInv, Free, InFlight
<1>5. Local(w)'
  BY <1>1, <1>2, <1>3, <1>4
     DEF Goto, RestOf, Local, Agrees, Startable, Started, Self, Holds, Holding, Resting
<1>6. \A r \in due, v \in Worker \ {w} : ~Holds(v, r)
  <2> SUFFICES ASSUME NEW r \in due, NEW v \in Worker \ {w}, Holds(v, r)
               PROVE  FALSE
    OBVIOUS
  <2>1. Awake(v) /\ Local(v) /\ r \in Run
    BY Holder DEF OwnInv
  <2>2. Role[v] = "ingress"
    BY <1>2, <2>1, OneTicker DEF OwnInv
  <2> QED
    BY <2>1, <2>2 DEF Local, Waiting, InFlight
<1>7. \A r \in Run : Holds(w, r)' => Holds(w, r) \/ \A v \in Worker : ~Holds(v, r)
  BY <1>1, <1>2, <1>3, <1>6 DEF Goto, RestOf, Holds, Holding
<1>8. Free' /\ \A v \in Worker \ {w} : pc'[v] = pc[v] /\ todo'[v] = todo[v]
  BY <1>1, <1>2, <1>3 DEF OwnInv, Free, Goto
<1> QED
  BY <1>2, <1>5, <1>7, <1>8, ThreadStep

\* retry_run takes a run that stopped in hand, in a process of its own.
LEMMA RetryOwn ==
  ASSUME OwnInv, TypeInv', NEW w \in Worker, RetryRun(w)
  PROVE  OwnInv'
<1>1. /\ pc \in [Worker -> Labels] /\ cur \in [Worker -> Run \cup {NoRun}]
      /\ assent \in [Worker -> BOOLEAN] /\ Local(w)
  BY Shapes DEF OwnInv
<1>2. /\ Awake(w) /\ phase' = phase /\ row' = row /\ todo' = todo
      /\ pc[w] = "idle" /\ Role[w] = "cli" /\ Goto(w, "reopen")
  BY DEF RetryRun, Idle
<1>3. PICK r \in Run, confirmed \in BOOLEAN :
        /\ MayReopen(r, confirmed)
        /\ cur'    = [cur EXCEPT ![w] = r]
        /\ assent' = [assent EXCEPT ![w] = confirmed]
  BY DEF RetryRun
<1>4. Local(w)'
  BY <1>1, <1>2, <1>3 DEF Goto, Local, Agrees, MayReopen, Holds, Holding, Resting
<1>5. \A v \in Worker \ {w} : ~Holds(v, r)
  BY <1>2, Holder, OneTicker DEF OwnInv
<1>6. \A q \in Run : Holds(w, q)' => Holds(w, q) \/ \A v \in Worker : ~Holds(v, q)
  BY <1>1, <1>2, <1>3, <1>5 DEF Goto, Holds, Holding
<1>7. Free' /\ \A v \in Worker \ {w} : /\ pc'[v] = pc[v] /\ cur'[v] = cur[v]
                                       /\ assent'[v] = assent[v]
  BY <1>1, <1>2, <1>3 DEF OwnInv, Free, Goto
<1> QED
  BY <1>2, <1>4, <1>6, <1>7, ThreadStep

\* What a row says after it was written.
LEMMA Written ==
  ASSUME row \in [Run -> RowType], NEW r \in Run, NEW s, NEW o,
         Write(r, [row[r] EXCEPT !.status = s, !.owner = o])
  PROVE  row'[r].status = s /\ row'[r].owner = o
BY DEF Write, RowType

LEMMA WrittenAttempt ==
  ASSUME row \in [Run -> RowType], NEW r \in Run, NEW s, NEW o, NEW n,
         Write(r, [row[r] EXCEPT !.status = s, !.attempt = n, !.owner = o])
  PROVE  row'[r].status = s /\ row'[r].owner = o
BY DEF Write, RowType

\* The writes of execute_run and retry_run: the run is the thread's own, so
\* nobody else's row is touched.
LEMMA WriteOwn ==
  ASSUME OwnInv, TypeInv', NEW w \in Worker,
         \/ Begin(w) \/ Mark(w) \/ Rearm(w) \/ Terminal(w) \/ Success(w) \/ Reopen(w)
  PROVE  OwnInv'
<1> USE DEF Goto, Finish, RestOf
<1>1. /\ pc \in [Worker -> Labels] /\ cur \in [Worker -> Run \cup {NoRun}]
      /\ todo \in [Worker -> SUBSET Run] /\ assent \in [Worker -> BOOLEAN]
      /\ row \in [Run -> RowType] /\ Local(w) /\ Role[w] \in {"scheduler", "ingress", "cli"}
  BY Shapes, ProcAssumption DEF OwnInv
<1>2. pc[w] \in Holding \ {"permit"}
  BY DEF Begin, Mark, Rearm, Terminal, Success, Reopen, Holding
<1>3. cur[w] \in Run /\ Holds(w, cur[w]) /\ cur[w] \notin todo[w]
  BY <1>1, <1>2, Shapes DEF OwnInv, Local, Holds
<1>4. /\ Awake(w) /\ phase' = phase
      /\ \A v \in Worker \ {w} : /\ pc'[v] = pc[v] /\ cur'[v] = cur[v]
                                 /\ todo'[v] = todo[v] /\ assent'[v] = assent[v]
  BY <1>1 DEF Begin, Mark, Rearm, Terminal, Success, Reopen
<1>5. \A r \in Run \ {cur[w]} : row'[r] = row[r]
  BY <1>1, <1>3 DEF Begin, Mark, Rearm, Terminal, Success, Reopen, Write
<1> DEFINE r == cur[w]
           Says(s, o) == row'[r].status = s /\ row'[r].owner = o
<1>6a. ASSUME Begin(w)
       PROVE  \/ row' = row /\ row[r].status \notin {"claimed", "retry_wait"}
              \/ Says("canceled", Nobody) /\ Finish(w)
              \/ Says("authorizing", Self(w)) /\ Goto(w, "permit") /\ UNCHANGED cur
  <2>1. \/ row' = row /\ row[r].status \notin {"claimed", "retry_wait"}
        \/ Write(r, [row[r] EXCEPT !.status = "canceled", !.owner = Nobody]) /\ Finish(w)
        \/ /\ Write(r, [row[r] EXCEPT !.status = "authorizing", !.attempt = row[r].attempt + 1,
                                      !.owner = Self(w)])
           /\ Goto(w, "permit") /\ UNCHANGED cur
    BY <1>6a DEF Begin
  <2>2. Write(r, [row[r] EXCEPT !.status = "canceled", !.owner = Nobody])
          => Says("canceled", Nobody)
    BY <1>1, <1>3, Written
  <2>3. Write(r, [row[r] EXCEPT !.status = "authorizing", !.attempt = row[r].attempt + 1,
                                !.owner = Self(w)])
          => Says("authorizing", Self(w))
    <3> DEFINE n == row[r].attempt + 1
               self == Self(w)
    <3> HIDE DEF n, self
    <3>1. Write(r, [row[r] EXCEPT !.status = "authorizing", !.attempt = n, !.owner = self])
            => Says("authorizing", self)
      BY <1>1, <1>3, WrittenAttempt
    <3> QED
      BY <3>1 DEF n, self
  <2> QED
    BY <2>1, <2>2, <2>3
<1>6b. Mark(w) => Says("delivering", Self(w))
  BY <1>1, <1>3, Written DEF Mark
<1>6c. Rearm(w) => Says("retry_wait", Nobody)
  BY <1>1, <1>3, Written DEF Rearm
<1>6d. Terminal(w) => Says(verdict[w], Nobody)
  BY <1>1, <1>3, Written DEF Terminal
<1>6e. Success(w) => Says("succeeded", Nobody)
  BY <1>1, <1>3, Written DEF Success
<1>6f. ASSUME Reopen(w)
       PROVE  \/ Says("canceled", Nobody) /\ Goto(w, RestOf(w)) /\ UNCHANGED todo
              \/ /\ Says("retry_wait", Nobody)
                 /\ Goto(w, "next") /\ todo' = [todo EXCEPT ![w] = {r}]
  <2>1. \/ /\ Write(r, [row[r] EXCEPT !.status = "canceled", !.owner = Nobody])
           /\ Goto(w, RestOf(w)) /\ UNCHANGED todo
        \/ /\ Write(r, [row[r] EXCEPT !.status = "retry_wait", !.attempt = 0, !.owner = Nobody])
           /\ Goto(w, "next") /\ todo' = [todo EXCEPT ![w] = {r}]
    BY <1>6f DEF Reopen
  <2>2. Write(r, [row[r] EXCEPT !.status = "canceled", !.owner = Nobody])
          => Says("canceled", Nobody)
    BY <1>1, <1>3, Written
  <2>3. Write(r, [row[r] EXCEPT !.status = "retry_wait", !.attempt = 0, !.owner = Nobody])
          => Says("retry_wait", Nobody)
    BY <1>1, <1>3, WrittenAttempt
  <2> QED
    BY <2>1, <2>2, <2>3
<1>6. /\ Begin(w) \/ Mark(w) => row' = row \/ row'[r].status \in InFlight \/ row'[r].owner = Nobody
      /\ Rearm(w) \/ Terminal(w) \/ Success(w) \/ Reopen(w) => row'[r].owner = Nobody
  BY <1>6a, <1>6b, <1>6c, <1>6d, <1>6e, <1>6f DEF InFlight
<1>7. Free'
  <2>1. row'[cur[w]].status \notin InFlight => row'[cur[w]].owner = Nobody
    BY <1>3, <1>6 DEF OwnInv, Free, InFlight
  <2> QED
    BY <1>3, <1>5, <2>1 DEF OwnInv, Free
<1>8. Local(w)' /\ \A q \in Run : Holds(w, q)' => Holds(w, q)
  <2> USE <1>1, <1>3, <1>5 DEF Local, Agrees, Startable, Started, Self, Holds, Holding,
                               Resting, InFlight
  <2>1. CASE Begin(w)
    BY <1>6a, <2>1 DEF Begin
  <2>2. CASE Mark(w)
    BY <1>6b, <2>2 DEF Mark
  <2>3. CASE Rearm(w)
    BY <1>6c, <2>3 DEF Rearm
  <2>4. CASE Terminal(w)
    BY <1>6d, <2>4 DEF Terminal
  <2>5. CASE Success(w)
    BY <1>6e, <2>5 DEF Success
  <2>6. CASE Reopen(w)
    BY <1>6f, <2>6 DEF Reopen
  <2> QED
    BY <2>1, <2>2, <2>3, <2>4, <2>5, <2>6
<1>9. \A v \in Worker \ {w}, q \in Run : Holds(v, q) => row'[q] = row[q]
  BY <1>3, <1>5 DEF OwnInv, OneExecutorPerRun
<1> QED
  BY <1>4, <1>7, <1>8, <1>9, ThreadStep

\* What a thread has in hand is a run that exists.
LEMMA HeldExists ==
  ASSUME TypeInv, NEW v \in Worker, Local(v), NEW r \in Run, Holds(v, r)
  PROVE  row[r].status # "absent"
BY DEF Holds, Local, Agrees, Startable, Started, Holding, Recoverable

\* A new row is nobody's yet.
LEMMA InsertOwn ==
  ASSUME OwnInv, TypeInv', NEW w \in Worker, InsertManual(w) \/ InsertEvent(w)
  PROVE  OwnInv'
<1> USE DEF Goto, RestOf
<1>1. /\ pc \in [Worker -> Labels] /\ todo \in [Worker -> SUBSET Run]
      /\ row \in [Run -> RowType] /\ Local(w) /\ Role[w] \in {"scheduler", "ingress", "cli"}
  BY Shapes, ProcAssumption DEF OwnInv
<1>2. /\ Awake(w) /\ phase' = phase /\ cur' = cur /\ assent' = assent
      /\ pc[w] \in {"manual", "ingest"}
  BY DEF InsertManual, InsertEvent
<1>3. CASE Refuse(w)
  <2>1. Local(w)' /\ \A r \in Run : Holds(w, r)' => Holds(w, r)
    BY <1>1, <1>2, <1>3 DEF Refuse, Local, Agrees, Startable, Started, Holds, Holding, Resting
  <2>2. Free' /\ \A v \in Worker \ {w} : pc'[v] = pc[v] /\ todo'[v] = todo[v]
    BY <1>1, <1>3 DEF Refuse, OwnInv, Free
  <2> QED
    BY <1>2, <1>3, <2>1, <2>2, ThreadStep DEF Refuse
<1>4. ASSUME NEW t, NEW source, NEW key, Insert(w, t, source, key)
      PROVE  OwnInv'
  <2>1. PICK r \in Spare : /\ Write(r, Claimed(w, t, source, key))
                           /\ todo' = [todo EXCEPT ![w] = {r}]
                           /\ pc' = [pc EXCEPT ![w] = "next"]
    BY <1>4 DEF Insert
  <2>2. r \in Run /\ \A v \in Worker : ~Holds(v, r)
    BY HeldExists DEF OwnInv, Spare
  <2>3. /\ row'[r].status = "claimed" /\ row'[r].owner = Self(w)
        /\ \A q \in Run \ {r} : row'[q] = row[q]
    BY <1>1, <2>1, <2>2 DEF Write, Claimed
  <2>4. Free' /\ \A v \in Worker \ {w} : pc'[v] = pc[v] /\ todo'[v] = todo[v]
    BY <1>1, <2>1, <2>3 DEF OwnInv, Free, InFlight
  <2>5. Local(w)' /\ \A q \in Run : Holds(w, q)' => q = r
    BY <1>1, <1>2, <2>1, <2>2, <2>3
       DEF Local, Agrees, Startable, Started, Self, Holds, Holding, Resting, InFlight
  <2> QED
    BY <1>2, <2>2, <2>3, <2>4, <2>5, ThreadStep
<1>5. Refuse(w) \/ \E t, source, key : Insert(w, t, source, key)
  BY DEF InsertManual, InsertEvent
<1> QED
  BY <1>3, <1>4, <1>5

\* The claims of a tick are new rows, and the thread has nothing else in hand.
LEMMA ClaimOwn ==
  ASSUME OwnInv, TypeInv', NEW w \in Worker, Claim(w)
  PROVE  OwnInv'
<1>1. /\ pc \in [Worker -> Labels] /\ todo \in [Worker -> SUBSET Run]
      /\ row \in [Run -> RowType] /\ Local(w)
  BY Shapes DEF OwnInv
<1>2. /\ Awake(w) /\ phase' = phase /\ cur' = cur /\ assent' = assent
      /\ pc[w] = "claim" /\ pc' = [pc EXCEPT ![w] = "select"] /\ todo[w] = {}
  BY <1>1 DEF Claim, Goto, Local, Resting
<1>3. PICK new \in SUBSET Spare :
        /\ todo' = [todo EXCEPT ![w] = new]
        /\ \A r \in new : \E t : row'[r] = Claimed(w, t, "schedule", NoKey)
        /\ \A r \in Run \ new : row'[r] = row[r]
  <2> DEFINE Takes(due, claim) ==
         /\ row' = [r \in Run |-> IF \E t \in due : claim[t] = r
                                  THEN Claimed(w, CHOOSE t \in due : claim[t] = r, "schedule", NoKey)
                                  ELSE row[r]]
         /\ todo' = [todo EXCEPT ![w] = {r \in Run : \E t \in due : claim[t] = r}]
  <2>0. PICK due \in SUBSET {t \in Trigger : Armed(t)} :
          \E claim \in [due -> Spare \cup {NoRun}] : Takes(due, claim)
    BY DEF Claim
  <2>1. PICK claim \in [due -> Spare \cup {NoRun}] : Takes(due, claim)
    BY <2>0
  <2> DEFINE new == {r \in Run : \E t \in due : claim[t] = r}
  <2>2. new \subseteq Spare
    BY FreshAssumption
  <2>3. \A r \in new : row'[r] = Claimed(w, CHOOSE t \in due : claim[t] = r, "schedule", NoKey)
    BY <2>1
  <2>4. \A r \in Run \ new : row'[r] = row[r]
    BY <2>1
  <2> QED
    BY <2>1, <2>2, <2>3, <2>4
<1>4. \A r \in new : r \in Run /\ \A v \in Worker : ~Holds(v, r)
  BY HeldExists DEF OwnInv, Spare
<1>5. \A r \in new : row'[r].status = "claimed" /\ row'[r].owner = Self(w)
  <2>1. \A t : /\ Claimed(w, t, "schedule", NoKey).status = "claimed"
               /\ Claimed(w, t, "schedule", NoKey).owner = Self(w)
    BY DEF Claimed
  <2> QED
    BY <1>3, <2>1
<1>6. Free' /\ \A v \in Worker \ {w} : pc'[v] = pc[v] /\ todo'[v] = todo[v]
  BY <1>1, <1>2, <1>3, <1>5 DEF OwnInv, Free, InFlight
<1>7. Local(w)' /\ \A r \in Run : Holds(w, r)' => r \in new
  BY <1>1, <1>2, <1>3, <1>4, <1>5
     DEF Local, Agrees, Startable, Started, Self, Holds, Holding, Resting, InFlight
<1>8. \A v \in Worker \ {w}, r \in Run : Holds(v, r) => row'[r] = row[r]
  BY <1>3, <1>4
<1> QED
  BY <1>2, <1>4, <1>6, <1>7, <1>8, ThreadStep

\* Recovery marks no run that a thread has in hand: whoever is awake runs in
\* this process, and a row in flight in its hands names this process.
LEMMA RecoverOwn ==
  ASSUME OwnInv, TypeInv', NEW w \in Worker, RecoverStale(w)
  PROVE  OwnInv'
<1>1. /\ pc \in [Worker -> Labels] /\ row \in [Run -> RowType] /\ Local(w)
      /\ Role[w] \in {"scheduler", "ingress", "cli"}
  BY Shapes, ProcAssumption DEF OwnInv
<1>2. /\ Awake(w) /\ phase' = phase /\ cur' = cur /\ todo' = todo /\ assent' = assent
      /\ pc[w] \in {"recover", "sweep"}
      /\ pc' = [pc EXCEPT ![w] = IF pc[w] = "recover" THEN "claimGate" ELSE RestOf(w)]
  BY DEF RecoverStale, Goto
<1>3. PICK aged \in SUBSET {r \in Run : row[r].status \in InFlight /\ row[r].owner = Nobody} :
        row' = [r \in Run |-> IF Stale(w, r, aged) THEN Recovered(row[r]) ELSE row[r]]
  BY DEF RecoverStale
<1>4. Free' /\ \A v \in Worker \ {w} : pc'[v] = pc[v]
  BY <1>1, <1>2, <1>3 DEF OwnInv, Free, Recovered, RowType
<1>5. \A v \in Worker \ {w}, r \in Run : Holds(v, r) => row'[r] = row[r]
  <2> SUFFICES ASSUME NEW v \in Worker \ {w}, NEW r \in Run, Holds(v, r), Stale(w, r, aged)
               PROVE  FALSE
    BY <1>3
  <2>1. Awake(v) /\ Local(v)
    BY Holder DEF OwnInv
  <2>2. Self(v) = Self(w)
    BY <1>2, <2>1, OneProcess DEF OwnInv, Self
  <2>3. pc[v] # "reopen"
    BY <1>1, <1>2, <2>1, OneTicker DEF OwnInv, Local, Stale, InFlight, Recoverable
  <2>4. row[r].status \in InFlight => row[r].owner = Self(v)
    BY <2>1, <2>3 DEF Local, Agrees, Startable, Started, Holds, Holding, InFlight
  <2>5. Self(v) # Nobody
    BY ProcAssumption, FreshAssumption DEF Self
  <2> QED
    BY <2>2, <2>4, <2>5 DEF Stale
<1>6. Local(w)' /\ \A r \in Run : Holds(w, r)' => Holds(w, r)
  <2>1. todo[w] = {} /\ pc[w] \notin Holding /\ pc'[w] \in {"claimGate", "idle", "exit"}
    BY <1>1, <1>2 DEF Local, Resting, Holding, RestOf
  <2>2. pc'[w] = "claimGate" => Role[w] # "ingress"
    BY <1>1, <1>2 DEF Local, RestOf
  <2> QED
    BY <1>2, <2>1, <2>2 DEF Local, Agrees, Holds, Holding, Resting
<1> QED
  BY <1>2, <1>4, <1>5, <1>6, ThreadStep

\* Processes, edits and the configuration leave every thread that goes on
\* with what it had; a process that ends drops what its threads had.
LEMMA EnvironmentOwn ==
  ASSUME OwnInv, TypeInv', ~Concurrent, Process \/ Edit \/ Configure \/ UNCHANGED vars
  PROVE  OwnInv'
<1>1. row' = row /\ Free'
  BY DEF Process, Boot, Exit, Crash, Halt, Edit, UpdateAutomationWake, SetAutomationState,
         UpdateTrigger, SetTriggerState, Configure, SetEnabled, SetLegacy, vars, OwnInv, Free
<1>2. ASSUME phase' = phase, pc' = pc, cur' = cur, todo' = todo, assent' = assent
      PROVE  OwnInv'
  BY <1>1, <1>2, Frame DEF OwnInv, OneLive, Quiet, Awake, OneExecutorPerRun
<1>3. CASE Edit \/ Configure \/ UNCHANGED vars
  BY <1>2, <1>3 DEF Edit, UpdateAutomationWake, SetAutomationState,
         UpdateTrigger, SetTriggerState, Configure, SetEnabled, SetLegacy, vars, threads
<1>4. ASSUME NEW p \in Proc, Boot(p)
      PROVE  OwnInv'
  <2>1. /\ phase' = [phase EXCEPT ![p] = "live"] /\ \A q \in Proc : phase[q] # "live"
        /\ pc' = [w \in Worker |-> IF ProcOf[w] = p /\ Role[w] = "scheduler" THEN "sweep" ELSE pc[w]]
        /\ cur' = cur /\ todo' = todo /\ assent' = assent
    BY <1>4 DEF Boot, threads
  <2>2. phase \in [Proc -> {"new", "live", "dead"}] /\ \A w \in Worker : ProcOf[w] \in Proc
    BY Shapes, ProcAssumption DEF OwnInv
  <2>3. OneLive'
    BY <2>1, <2>2 DEF OneLive
  <2>4. \A w \in Worker : pc[w] \in {"idle", "exit"} /\ todo[w] = {}
    BY <2>1, <2>2 DEF OwnInv, Quiet, Awake, Self, Local, Resting
  <2>5. Quiet'
    BY <2>1, <2>2, <2>4 DEF Quiet, Awake, Self
  <2>6. \A w \in Worker : Local(w)' /\ \A r \in Run : ~Holds(w, r)'
    BY <2>1, <2>4 DEF Local, Agrees, Holds, Holding, Resting
  <2> QED
    BY <1>1, <2>3, <2>5, <2>6 DEF OwnInv, OneExecutorPerRun
<1>5. ASSUME NEW p \in Proc, Halt(p)
      PROVE  OwnInv'
  <2>1. /\ phase' = [phase EXCEPT ![p] = "dead"]
        /\ phase \in [Proc -> {"new", "live", "dead"}] /\ \A w \in Worker : ProcOf[w] \in Proc
    BY <1>5, Shapes, ProcAssumption DEF Halt, OwnInv
  <2>2. OneLive'
    BY <2>1 DEF OwnInv, OneLive
  <2>3. \A w \in Worker : ProcOf[w] = p => pc'[w] = "exit" /\ todo'[w] = {}
    BY <1>5 DEF Halt
  <2>4. \A w \in Worker : ProcOf[w] # p => /\ pc'[w] = pc[w] /\ cur'[w] = cur[w]
                                           /\ todo'[w] = todo[w] /\ assent'[w] = assent[w]
    BY <1>5 DEF Halt
  <2>5. Quiet'
    BY <2>1, <2>3, <2>4 DEF OwnInv, Quiet, Awake, Self
  <2>6. \A w \in Worker : Local(w)' /\ \A r \in Run : Holds(w, r)' => Holds(w, r)
    <3> SUFFICES ASSUME NEW w \in Worker
                 PROVE  Local(w)' /\ \A r \in Run : Holds(w, r)' => Holds(w, r)
      OBVIOUS
    <3>1. CASE ProcOf[w] = p
      BY <2>3, <3>1 DEF Local, Agrees, Holds, Holding, Resting
    <3>2. CASE ProcOf[w] # p
      BY <1>1, <2>4, <3>2, Frame DEF OwnInv
    <3> QED
      BY <3>1, <3>2
  <2> QED
    BY <1>1, <2>2, <2>5, <2>6 DEF OwnInv, OneExecutorPerRun
<1> QED
  BY <1>3, <1>4, <1>5 DEF Process, Exit, Crash

\* At first nobody holds anything.
LEMMA InitOwn == Init => OwnInv
<1> SUFFICES ASSUME Init
             PROVE  OwnInv
  OBVIOUS
<1>1. TypeInv
  BY InitTypeInv
<1>2. OneLive /\ Quiet /\ Free
  BY DEF Init, OneLive, Quiet, Free, Absent
<1>3. \A w \in Worker : Local(w) /\ \A r \in Run : ~Holds(w, r)
  BY DEF Init, Local, Agrees, Holds, Holding, Resting
<1> QED
  BY <1>1, <1>2, <1>3 DEF OwnInv, OneExecutorPerRun

\* One step keeps the invariant: one lemma above for each kind of step.
LEMMA StepOwn == ~Concurrent /\ OwnInv /\ [Next]_vars => OwnInv'
<1> SUFFICES ASSUME ~Concurrent, OwnInv, [Next]_vars
             PROVE  OwnInv'
  OBVIOUS
<1>1. TypeInv'
  BY StepTypeInv DEF OwnInv
<1>2. ASSUME NEW w \in Worker, Proceed(w) \/ Command(w) \/ Falter(w)
      PROVE  OwnInv'
  <2>1. CASE Execute(w) \/ Command(w) \/ Falter(w) \/ Reopen(w)
    BY <1>1, <2>1, MoveOwn, WriteOwn, RetryOwn DEF Execute, Command
  <2>2. CASE Schedule(w) \/ InsertManual(w) \/ InsertEvent(w)
    BY <1>1, <2>2, MoveOwn, RecoverOwn, ClaimOwn, SelectOwn, InsertOwn DEF Schedule
  <2> QED
    BY <1>2, <2>1, <2>2 DEF Proceed
<1>3. CASE Process \/ Edit \/ Configure \/ UNCHANGED vars
  BY <1>1, <1>3, EnvironmentOwn
<1> QED
  BY <1>2, <1>3 DEF Next

\* While processes take turns, the invariant holds of every state.
LEMMA AlwaysOwn == ASSUME ~Concurrent PROVE Spec => []OwnInv
<1>1. Init => OwnInv
  BY InitOwn
<1>2. OwnInv /\ [Next]_vars => OwnInv'
  BY StepOwn
<1> QED
  BY <1>1, <1>2, PTL DEF Spec

\* Two threads never have one run in hand, whatever crashes and restarts.
THEOREM OneExecutor == ASSUME ~Concurrent PROVE Spec => []OneExecutorPerRun
<1>1. OwnInv => OneExecutorPerRun
  BY DEF OwnInv
<1> QED
  BY <1>1, AlwaysOwn, PTL

\* Every UPDATE by id alone finds the row as its thread left it.
THEOREM ThreadAgrees == ASSUME ~Concurrent PROVE Spec => []ThreadAgreesWithRow
<1>1. OwnInv => ThreadAgreesWithRow
  BY DEF OwnInv, Local, ThreadAgreesWithRow
<1> QED
  BY <1>1, AlwaysOwn, PTL

-----------------------------------------------------------------------------
(***************************************************************************)
(* What a run's row promises, step by step, while processes take turns:    *)
(* final states are final, `unknown` waits for the operator, an edit       *)
(* revokes, nothing is sent blindly and nothing is sent too often.         *)
(***************************************************************************)
\* The ways a row changes.
Inserted(r)  == row[r].status = "absent" /\ row'[r].status = "claimed"
Lost(r)      == row[r].status \in InFlight /\ row'[r].status = "unknown"
Revoked(r)   == row[r].status \in {"claimed", "retry_wait"} /\ row'[r].status = "canceled"
Restarted(r) == /\ row[r].status \in {"claimed", "retry_wait"} /\ row'[r].status = "authorizing"
                /\ Fenced(r)
Marked(r)    == row[r].status = "authorizing" /\ row'[r].status = "delivering"
Decided(r)   == /\ row[r].status \in InFlight \cup {"retry_wait"}
                /\ row'[r].status \in Verdicts \cup {"retry_wait", "succeeded"}
Reopened(r)  == /\ row[r].status \in Recoverable
                /\ row'[r].status \in {"canceled", "retry_wait"}
                /\ \E w \in Worker : /\ pc[w] = "reopen" /\ cur[w] = r
                                     /\ row[r].status = "unknown" => assent[w]

Changes(r) == \/ row'[r] = row[r] \/ Inserted(r) \/ Lost(r) \/ Revoked(r) \/ Restarted(r)
              \/ Marked(r) \/ Decided(r) \/ Reopened(r)

\* The run a thread works on: what execute_run or retry_run makes of its row.
LEMMA OwnRowChanges ==
  ASSUME OwnInv, NEW w \in Worker,
         \/ Begin(w) \/ Mark(w) \/ Rearm(w) \/ Terminal(w) \/ Success(w) \/ Reopen(w)
  PROVE  \A r \in Run : Changes(r)
<1>1. /\ row \in [Run -> RowType] /\ Local(w) /\ TypeInv
      /\ pc[w] \in Holding => cur[w] \in Run
  BY Shapes DEF OwnInv
<1>2. pc[w] \in Holding
  BY DEF Begin, Mark, Rearm, Terminal, Success, Reopen, Holding
<1> DEFINE r == cur[w]
<1>3. r \in Run
  BY <1>1, <1>2
<1>4. \A q \in Run \ {r} : row'[q] = row[q]
  BY <1>1, <1>3 DEF Begin, Mark, Rearm, Terminal, Success, Reopen, Write
<1>5. Changes(r)
  <2>1. CASE Begin(w)
    <3>1. CASE row' = row
      BY <3>1 DEF Changes
    <3>2. CASE /\ row[r].status \in {"claimed", "retry_wait"}
               /\ Write(r, [row[r] EXCEPT !.status = "canceled", !.owner = Nobody])
      BY <1>1, <1>3, <3>2, Written DEF Changes, Revoked
    <3>3. CASE /\ row[r].status \in {"claimed", "retry_wait"} /\ Fenced(r)
               /\ Write(r, [row[r] EXCEPT !.status = "authorizing", !.attempt = row[r].attempt + 1,
                                          !.owner = Self(w)])
      <4> DEFINE n == row[r].attempt + 1
      <4>1. Write(r, [row[r] EXCEPT !.status = "authorizing", !.attempt = n, !.owner = Self(w)])
        BY <3>3
      <4> HIDE DEF n
      <4>2. row'[r].status = "authorizing"
        BY <1>1, <1>3, <4>1, WrittenAttempt
      <4> QED
        BY <3>3, <4>2 DEF Changes, Restarted
    <3> QED
      BY <2>1, <3>1, <3>2, <3>3 DEF Begin
  <2>2. CASE Mark(w)
    <3>1. row'[r].status = "delivering"
      BY <1>1, <1>3, <2>2, Written DEF Mark
    <3>2. row[r].status = "authorizing"
      BY <1>1, <2>2 DEF Mark, Local, Agrees, Started
    <3> QED
      BY <3>1, <3>2 DEF Changes, Marked
  <2>3. CASE Rearm(w) \/ Terminal(w) \/ Success(w)
    <3>1. row'[r].status \in Verdicts \cup {"retry_wait", "succeeded"}
      <4>1. CASE Rearm(w)
        BY <1>1, <1>3, <4>1, Written DEF Rearm
      <4>2. CASE Terminal(w)
        BY <1>1, <1>3, <4>2, Written DEF Terminal, TypeInv, HandsFull
      <4>3. CASE Success(w)
        BY <1>1, <1>3, <4>3, Written DEF Success
      <4> QED
        BY <2>3, <4>1, <4>2, <4>3
    <3>2. row[r].status \in InFlight \cup {"retry_wait"}
      BY <1>1, <2>3 DEF Rearm, Terminal, Success, Local, Agrees, Started, Startable, InFlight
    <3> QED
      BY <3>1, <3>2 DEF Changes, Decided
  <2>4. CASE Reopen(w)
    <3>1. \/ Write(r, [row[r] EXCEPT !.status = "canceled", !.owner = Nobody])
          \/ Write(r, [row[r] EXCEPT !.status = "retry_wait", !.attempt = 0, !.owner = Nobody])
      BY <2>4 DEF Reopen
    <3>2. row'[r].status \in {"canceled", "retry_wait"}
      BY <1>1, <1>3, <3>1, Written, WrittenAttempt
    <3>3. /\ pc[w] = "reopen" /\ row[r].status \in Recoverable
          /\ row[r].status = "unknown" => assent[w]
      BY <1>1, <2>4 DEF Reopen, Local
    <3> QED
      BY <3>2, <3>3 DEF Changes, Reopened
  <2> QED
    BY <2>1, <2>2, <2>3, <2>4
<1> QED
  BY <1>4, <1>5 DEF Changes

\* Every step changes a row in one of those ways.
LEMMA RowChanges == OwnInv /\ [Next]_vars => \A r \in Run : Changes(r)
<1> SUFFICES ASSUME OwnInv, [Next]_vars
             PROVE  \A r \in Run : Changes(r)
  OBVIOUS
<1>1. row \in [Run -> RowType]
  BY Shapes DEF OwnInv
<1>2. CASE row' = row
  BY <1>2 DEF Changes
<1>3. ASSUME NEW w \in Worker, InsertManual(w) \/ InsertEvent(w)
      PROVE  \A r \in Run : Changes(r)
  <2>1. row' = row \/ \E r \in Spare : \E t, source, key : Write(r, Claimed(w, t, source, key))
    BY <1>3 DEF InsertManual, InsertEvent, Insert, Refuse
  <2>2. \A t, source, key : Claimed(w, t, source, key).status = "claimed"
    BY DEF Claimed
  <2> QED
    BY <1>1, <1>2, <2>1, <2>2 DEF Write, Spare, Changes, Inserted
<1>4. ASSUME NEW w \in Worker, Claim(w)
      PROVE  \A r \in Run : Changes(r)
  <2>1. \A r \in Run : \/ row'[r] = row[r]
                       \/ r \in Spare /\ \E t : row'[r] = Claimed(w, t, "schedule", NoKey)
    BY <1>4, FreshAssumption DEF Claim
  <2>2. \A t : Claimed(w, t, "schedule", NoKey).status = "claimed"
    BY DEF Claimed
  <2> QED
    BY <2>1, <2>2 DEF Spare, Changes, Inserted
<1>5. ASSUME NEW w \in Worker, RecoverStale(w)
      PROVE  \A r \in Run : Changes(r)
  <2>1. \A r \in Run : \/ row'[r] = row[r]
                       \/ row[r].status \in InFlight /\ row'[r] = Recovered(row[r])
    BY <1>5 DEF RecoverStale, Stale
  <2>2. \A r \in Run : Recovered(row[r]).status = "unknown"
    BY <1>1 DEF Recovered, RowType
  <2> QED
    BY <2>1, <2>2 DEF Changes, Lost
<1>6. ASSUME NEW w \in Worker, Proceed(w) \/ Command(w) \/ Falter(w)
      PROVE  \A r \in Run : Changes(r)
  <2>1. \/ row' = row
        \/ Begin(w) \/ Mark(w) \/ Rearm(w) \/ Terminal(w) \/ Success(w) \/ Reopen(w)
        \/ InsertManual(w) \/ InsertEvent(w) \/ RecoverStale(w) \/ Claim(w)
    BY <1>6 DEF Proceed, Execute, Schedule, Command, Tick, Sweep, ClaimGate, RunNow, IngestEvent,
                Select, AttemptGate, Permit, Edge, Deliver, Await, Settle, RetryRun, Falter
  <2> QED
    BY <1>2, <1>3, <1>4, <1>5, <2>1, OwnRowChanges
<1>7. CASE Process \/ Edit \/ Configure \/ UNCHANGED vars
  <2>1. row' = row
    BY <1>7 DEF Process, Boot, Exit, Crash, Halt, Edit, UpdateAutomationWake, SetAutomationState,
                UpdateTrigger, SetTriggerState, Configure, SetEnabled, SetLegacy, vars
  <2> QED
    BY <1>2, <2>1
<1> QED
  BY <1>6, <1>7 DEF Next

-----------------------------------------------------------------------------
\* A success or a cancellation is never overwritten, though no UPDATE of
\* execute_run checks the status it overwrites.
THEOREM FinalStaysFinal == ASSUME ~Concurrent PROVE Spec => SettledIsFinal
<1> DEFINE Final == \A r \in Run : row[r].status \in {"succeeded", "canceled"} => row'[r] = row[r]
<1>1. OwnInv /\ [Next]_vars => Final
  BY RowChanges DEF Changes, Inserted, Lost, Revoked, Restarted, Marked, Decided, Reopened,
                    InFlight, Recoverable
<1>2. OwnInv /\ [Next]_vars => [Final]_vars
  BY <1>1
<1> QED
  BY <1>2, AlwaysOwn, PTL DEF Spec, SettledIsFinal

\* `unknown` is left by the operator's command alone, and into the queue only
\* with the confirmation.
THEOREM UnknownWaits == ASSUME ~Concurrent PROVE Spec => UnknownWaitsForOperator
<1> DEFINE Waits == \A r \in Run :
       row[r].status = "unknown" /\ row'[r].status # "unknown" =>
         \E w \in Worker : /\ pc[w] = "reopen" /\ cur[w] = r
                           /\ row'[r].status = "retry_wait" => assent[w]
<1>1. OwnInv /\ [Next]_vars => Waits
  BY RowChanges DEF Changes, Inserted, Lost, Revoked, Restarted, Marked, Decided, Reopened,
                    InFlight, Recoverable
<1>2. OwnInv /\ [Next]_vars => [Waits]_vars
  BY <1>1
<1> QED
  BY <1>2, AlwaysOwn, PTL DEF Spec, UnknownWaitsForOperator

\* A run claimed under a definition edited since never starts another attempt.
THEOREM EditRevokes == ASSUME ~Concurrent PROVE Spec => OutdatedNeverRestarts
<1> DEFINE Revokes == \A r \in Run :
       /\ row[r].status \notin {"absent", "authorizing", "delivering"}
       /\ \/ row[r].autoVersion # auto[AutomationOf[row[r].trigger]].version
          \/ row[r].trigVersion # trig[row[r].trigger].version
       => row'[r].status \notin {"authorizing", "delivering"}
<1>1. OwnInv /\ [Next]_vars => Revokes
  <2> SUFFICES ASSUME OwnInv, [Next]_vars, NEW r \in Run,
                      row[r].status \notin {"absent", "authorizing", "delivering"},
                      row'[r].status \in {"authorizing", "delivering"}
               PROVE  Fenced(r)
    BY DEF Fenced, FenceHolds
  <2>1. Changes(r)
    BY RowChanges
  <2> QED
    BY <2>1 DEF Changes, Inserted, Lost, Revoked, Restarted, Marked, Decided, Reopened,
                InFlight, Verdicts
<1>2. OwnInv /\ [Next]_vars => [Revokes]_vars
  BY <1>1
<1> QED
  BY <1>2, AlwaysOwn, PTL DEF Spec, OutdatedNeverRestarts

-----------------------------------------------------------------------------
(***************************************************************************)
(* The wakes sent are among the attempts counted in the row, and a thread  *)
(* that may send has been granted an attempt that it has not used yet.     *)
(***************************************************************************)
Counted(r) ==
  /\ sends[r] <= row[r].attempt /\ row[r].attempt <= PolicyOf(r)
  /\ row[r].status = "absent" => sends[r] = 0
  /\ row[r].status \in {"claimed", "retry_wait"} => row[r].attempt < PolicyOf(r)
  /\ r \in undecided => row[r].status \in {"delivering", "unknown", "canceled"}

Granted(w) ==
  /\ pc[w] \in {"permit", "edge", "mark", "deliver"} => sends[cur[w]] < row[cur[w]].attempt
  /\ pc[w] = "rearm" => row[cur[w]].attempt < PolicyOf(cur[w])
  /\ pc[w] = "deliver" => cur[w] \notin undecided

CountInv == (\A r \in Run : Counted(r)) /\ (\A w \in Worker : Granted(w))

\* What is compared are numbers.
LEMMA Numbers ==
  ASSUME TypeInv
  PROVE  \A r \in Run : /\ sends[r] \in Nat /\ row[r].attempt \in Nat
                        /\ PolicyOf(r) \in Nat \ {0}
BY PolicyAssumption, TriggerAssumption DEF TypeInv, TypeOK, RowType, PolicyOf

\* A row whose attempt and trigger a step leaves alone.
SameCount(r) == row'[r].attempt = row[r].attempt /\ row'[r].trigger = row[r].trigger

\* What others know of the count stays true when a step of w leaves the
\* counts of the runs they work on alone.
LEMMA GrantFrame ==
  ASSUME OwnInv, CountInv, NEW v \in Worker,
         (pc'[v] = pc[v] /\ cur'[v] = cur[v]) \/ pc'[v] \notin Holding,
         pc[v] \in Holding => /\ sends'[cur[v]] = sends[cur[v]] /\ SameCount(cur[v])
                              /\ cur[v] \in undecided' => cur[v] \in undecided
  PROVE  Granted(v)'
BY DEF CountInv, Granted, SameCount, PolicyOf, Holding

\* Steps that send nothing, begin nothing and write no count.
LEMMA MoveCount ==
  ASSUME OwnInv, CountInv, NEW w \in Worker,
         \/ Tick(w) \/ Sweep(w) \/ ClaimGate(w) \/ RunNow(w) \/ IngestEvent(w) \/ AttemptGate(w)
         \/ Permit(w) \/ Edge(w) \/ Await(w) \/ Settle(w) \/ Falter(w) \/ Select(w) \/ RetryRun(w)
  PROVE  CountInv'
<1> USE DEF Goto, Stop, RestOf
<1>1. /\ pc \in [Worker -> Labels] /\ cur \in [Worker -> Run \cup {NoRun}]
  BY Shapes DEF OwnInv
<1>2. /\ row' = row /\ sends' = sends /\ undecided' = undecided
      /\ \A v \in Worker \ {w} : pc'[v] = pc[v] /\ cur'[v] = cur[v]
  BY <1>1 DEF Tick, Sweep, ClaimGate, RunNow, IngestEvent, AttemptGate, Permit, Edge,
              Await, Settle, Falter, Select, RetryRun, history
<1>3. \A v \in Worker \ {w} : Granted(v)'
  BY <1>2 DEF CountInv, Granted, PolicyOf
<1>4. \/ pc'[w] \notin {"permit", "edge", "mark", "deliver", "rearm"}
      \/ /\ pc'[w] \in {"edge", "mark"} /\ pc[w] \in {"permit", "edge"} /\ cur'[w] = cur[w]
      \/ /\ pc'[w] = "rearm" /\ cur'[w] = cur[w] /\ MayRetry(cur[w])
  BY <1>1 DEF Tick, Sweep, ClaimGate, RunNow, IngestEvent, AttemptGate, Permit, Edge,
              Await, Settle, Falter, Select, RetryRun
<1>5. Granted(w)'
  BY <1>2, <1>4 DEF CountInv, Granted, MayRetry, PolicyOf
<1>6. \A r \in Run : Counted(r)'
  BY <1>2 DEF CountInv, Counted, PolicyOf
<1> QED
  BY <1>3, <1>5, <1>6 DEF CountInv

\* What a written row says of its count.
LEMMA WrittenCount ==
  ASSUME row \in [Run -> RowType], NEW r \in Run, NEW s, NEW o,
         Write(r, [row[r] EXCEPT !.status = s, !.owner = o])
  PROVE  row'[r].status = s /\ SameCount(r)
BY DEF Write, RowType, SameCount

Anew(r, s, n) ==
  row'[r].status = s /\ row'[r].attempt = n /\ row'[r].trigger = row[r].trigger

LEMMA WrittenAnew ==
  ASSUME row \in [Run -> RowType], NEW r \in Run, NEW s, NEW o, NEW n,
         Write(r, [row[r] EXCEPT !.status = s, !.attempt = n, !.owner = o])
  PROVE  Anew(r, s, n)
BY DEF Write, RowType, Anew

\* A step of a thread on the run it works on, which no other thread has.
LEMMA OwnCount ==
  ASSUME OwnInv, CountInv, NEW w \in Worker, NEW r \in Run, Holds(w, r), Counted(r)', Granted(w)',
         \A v \in Worker \ {w} : pc'[v] = pc[v] /\ cur'[v] = cur[v],
         \A q \in Run \ {r} : /\ row'[q] = row[q] /\ sends'[q] = sends[q]
                              /\ q \in undecided' <=> q \in undecided
  PROVE  CountInv'
<1>1. ASSUME NEW v \in Worker \ {w}
      PROVE  Granted(v)'
  <2>1. pc[v] \in Holding => cur[v] \in Run \ {r}
    BY Shapes DEF OwnInv, OneExecutorPerRun, Holds
  <2> QED
    BY <2>1, GrantFrame DEF SameCount
<1>2. \A q \in Run \ {r} : Counted(q)'
  BY DEF CountInv, Counted, PolicyOf
<1> QED
  BY <1>1, <1>2 DEF CountInv

\* execute_run and retry_run: an attempt is granted, used, counted, reset.
LEMMA WriteCount ==
  ASSUME OwnInv, CountInv, NEW w \in Worker,
         \/ Begin(w) \/ Mark(w) \/ Deliver(w) \/ Rearm(w) \/ Terminal(w) \/ Success(w)
         \/ Reopen(w)
  PROVE  CountInv'
<1> USE DEF Goto, Stop, Finish, RestOf
<1>1. /\ pc \in [Worker -> Labels] /\ cur \in [Worker -> Run \cup {NoRun}]
      /\ row \in [Run -> RowType] /\ Local(w) /\ sends \in [Run -> Nat] /\ TypeInv
      /\ pc[w] \in Holding => cur[w] \in Run
  BY Shapes DEF OwnInv, TypeInv, TypeOK
<1>2. pc[w] \in Holding
  BY DEF Begin, Mark, Deliver, Rearm, Terminal, Success, Reopen, Holding
<1>2a. PICK r \in Run : r = cur[w]
  BY <1>1, <1>2
<1>3. r \in Run /\ r = cur[w] /\ Holds(w, r) /\ Counted(r) /\ Granted(w)
  BY <1>2, <1>2a DEF Holds, CountInv
<1>4. /\ sends[r] \in Nat /\ row[r].attempt \in Nat /\ PolicyOf(r) \in Nat \ {0}
  BY <1>1, <1>3, Numbers
<1>5. \A v \in Worker \ {w} : pc'[v] = pc[v] /\ cur'[v] = cur[v]
  BY <1>1 DEF Begin, Mark, Deliver, Rearm, Terminal, Success, Reopen
<1>6. \A q \in Run \ {r} : /\ row'[q] = row[q] /\ sends'[q] = sends[q]
                           /\ q \in undecided' <=> q \in undecided
  BY <1>1, <1>3 DEF Begin, Mark, Deliver, Rearm, Terminal, Success, Reopen, Write, history
<1>7. Counted(r)' /\ Granted(w)'
  <2> USE <1>1, <1>3, <1>4 DEF Counted, Granted, PolicyOf, SameCount
  <2>1. CASE Begin(w)
    <3>1. sends' = sends /\ undecided' = undecided /\ pc[w] = "begin"
      BY <2>1 DEF Begin, history
    <3>2. row[r].status \in {"claimed", "retry_wait"} /\ r \notin undecided
      BY <3>1 DEF Local, Agrees, Startable
    <3>3. CASE /\ Write(r, [row[r] EXCEPT !.status = "canceled", !.owner = Nobody])
               /\ Finish(w)
      <4>1. row'[r].status = "canceled" /\ SameCount(r) /\ cur'[w] = NoRun
            /\ pc'[w] \in {"idle", "exit", "next"}
        BY <3>3, WrittenCount
      <4> QED
        BY <3>1, <4>1
    <3>4. CASE /\ Write(r, [row[r] EXCEPT !.status = "authorizing", !.attempt = row[r].attempt + 1,
                                          !.owner = Self(w)])
               /\ Goto(w, "permit") /\ UNCHANGED cur
      <4> DEFINE n == row[r].attempt + 1
                 self == Self(w)
      <4>1. Write(r, [row[r] EXCEPT !.status = "authorizing", !.attempt = n, !.owner = self])
        BY <3>4
      <4> HIDE DEF n, self
      <4>2. Anew(r, "authorizing", n)
        BY <4>1, WrittenAnew
      <4>3. pc'[w] = "permit" /\ cur'[w] = r
        BY <3>4
      <4>4. n = row[r].attempt + 1
        BY DEF n
      <4> QED
        BY <3>1, <3>2, <4>2, <4>3, <4>4 DEF Anew
    <3> QED
      BY <2>1, <3>2, <3>3, <3>4 DEF Begin
  <2>2. CASE Mark(w)
    <3>1. row'[r].status = "delivering" /\ SameCount(r)
      BY <2>2, WrittenCount DEF Mark
    <3>2. /\ sends' = sends /\ undecided' = undecided /\ pc[w] = "mark"
          /\ pc'[w] = "deliver" /\ cur'[w] = r
      BY <2>2 DEF Mark, history
    <3>3. r \notin undecided
      BY <3>2 DEF Local, Agrees, Started
    <3> QED
      BY <3>1, <3>2, <3>3
  <2>3. CASE Deliver(w)
    <3>1. /\ row' = row /\ cur' = cur /\ pc[w] = "deliver" /\ pc'[w] \in {"await", "stop"}
          /\ \/ sends' = sends /\ undecided' = undecided
             \/ sends'[r] = sends[r] + 1 /\ undecided' = undecided \cup {r}
      BY <2>3 DEF Deliver, history
    <3>2. row[r].status = "delivering" /\ sends[r] < row[r].attempt
      BY <3>1 DEF Local, Agrees, Started
    <3> QED
      BY <3>1, <3>2
  <2>4. CASE Rearm(w)
    <3>1. row'[r].status = "retry_wait" /\ SameCount(r)
      BY <2>4, WrittenCount DEF Rearm
    <3>2. /\ sends' = sends /\ r \notin undecided' /\ pc[w] = "rearm"
          /\ pc'[w] \in {"idle", "exit", "next"}
      BY <2>4 DEF Rearm
    <3> QED
      BY <3>1, <3>2
  <2>5. CASE Terminal(w) \/ Success(w)
    <3>1. row'[r].status \in Verdicts \cup {"succeeded"} /\ SameCount(r)
      <4>1. \E v \in Verdicts \cup {"succeeded"} :
              Write(r, [row[r] EXCEPT !.status = v, !.owner = Nobody])
        BY <2>5 DEF Terminal, Success, TypeInv, HandsFull
      <4> QED
        BY <4>1, WrittenCount
    <3>2. /\ sends' = sends /\ r \notin undecided' /\ pc'[w] \in {"idle", "exit", "next"}
      BY <2>5 DEF Terminal, Success
    <3> QED
      BY <3>1, <3>2 DEF Verdicts
  <2>6. CASE Reopen(w)
    <3>1. pc[w] = "reopen" /\ pc'[w] \in {"idle", "exit", "next"}
      BY <2>6 DEF Reopen
    <3>2. CASE /\ Write(r, [row[r] EXCEPT !.status = "canceled", !.owner = Nobody])
               /\ sends' = sends /\ undecided' = undecided
      <4>1. row'[r].status = "canceled" /\ SameCount(r)
        BY <3>2, WrittenCount
      <4> QED
        BY <3>1, <3>2, <4>1
    <3>3. CASE /\ Write(r, [row[r] EXCEPT !.status = "retry_wait", !.attempt = 0, !.owner = Nobody])
               /\ sends' = [sends EXCEPT ![r] = 0]
               /\ undecided' = IF assent[w] THEN undecided \ {r} ELSE undecided
      <4>1. Anew(r, "retry_wait", 0)
        BY <3>3, WrittenAnew
      <4>2. r \notin undecided'
        BY <3>1, <3>3 DEF Local, Recoverable
      <4> QED
        BY <3>1, <3>3, <4>1, <4>2 DEF Anew
    <3> QED
      BY <2>6, <3>2, <3>3 DEF Reopen, history
  <2> QED
    BY <2>1, <2>2, <2>3, <2>4, <2>5, <2>6
<1> QED
  BY <1>3, <1>5, <1>6, <1>7, OwnCount

\* New rows start at no attempt; what others work on is not among them.
LEMMA NewCount ==
  ASSUME OwnInv, CountInv, NEW w \in Worker, pc'[w] \notin Holding, UNCHANGED <<cur, history>>,
         \A v \in Worker \ {w} : pc'[v] = pc[v],
         \A r \in Run : \/ row'[r] = row[r]
                        \/ /\ r \in Spare
                           /\ \E t \in Trigger : \E source, key : row'[r] = Claimed(w, t, source, key)
  PROVE  CountInv'
<1>1. sends' = sends /\ undecided' = undecided /\ cur' = cur
  BY DEF history
<1>2. ASSUME NEW v \in Worker
      PROVE  Granted(v)'
  <2>1. CASE v = w
    BY <2>1 DEF Granted, Holding
  <2>2. CASE v # w
    <3>1. pc[v] \in Holding => cur[v] \in Run /\ cur[v] \notin Spare
      BY Shapes, HeldExists DEF OwnInv, Holds, Spare
    <3> QED
      BY <1>1, <2>2, <3>1, GrantFrame DEF SameCount
  <2> QED
    BY <2>1, <2>2
<1>3. ASSUME NEW r \in Run
      PROVE  Counted(r)'
  <2>1. Counted(r)
    BY DEF CountInv
  <2>2. CASE row'[r] = row[r]
    BY <1>1, <2>1, <2>2 DEF Counted, PolicyOf
  <2>3. CASE r \in Spare /\ \E t \in Trigger : \E source, key : row'[r] = Claimed(w, t, source, key)
    <3>1. PICK t \in Trigger : \E source, key : row'[r] = Claimed(w, t, source, key)
      BY <2>3
    <3>2. row'[r].status = "claimed" /\ row'[r].attempt = 0 /\ row'[r].trigger = t
      BY <3>1 DEF Claimed
    <3>3. sends[r] = 0 /\ r \notin undecided
      BY <2>1, <2>3 DEF Counted, Spare
    <3>4. MaxAttempts[AutomationOf[t]] \in Nat \ {0}
      BY PolicyAssumption, TriggerAssumption
    <3> QED
      BY <1>1, <3>2, <3>3, <3>4 DEF Counted, PolicyOf
  <2> QED
    BY <2>2, <2>3
<1> QED
  BY <1>2, <1>3 DEF CountInv

\* run_now, ingest_event and _claim_due create such rows.
LEMMA BirthCount ==
  ASSUME OwnInv, CountInv, NEW w \in Worker,
         InsertManual(w) \/ InsertEvent(w) \/ Claim(w)
  PROVE  CountInv'
<1>1. pc \in [Worker -> Labels] /\ row \in [Run -> RowType]
  BY Shapes DEF OwnInv
<1>2. UNCHANGED <<cur, history>>
  BY DEF InsertManual, InsertEvent, Claim
<1>3. pc'[w] \notin Holding /\ \A v \in Worker \ {w} : pc'[v] = pc[v]
  BY <1>1 DEF InsertManual, InsertEvent, Claim, Insert, Refuse, Goto, RestOf, Holding
<1>4. \A r \in Run : \/ row'[r] = row[r]
                     \/ /\ r \in Spare
                        /\ \E t \in Trigger : \E source, key : row'[r] = Claimed(w, t, source, key)
  <2>1. CASE Claim(w)
    BY <2>1, FreshAssumption DEF Claim
  <2>2. CASE InsertManual(w) \/ InsertEvent(w)
    <3>1. \/ row' = row
          \/ \E r \in Spare, t \in Trigger : \E source, key : Write(r, Claimed(w, t, source, key))
      BY <2>2 DEF InsertManual, InsertEvent, Insert, Refuse
    <3> QED
      BY <1>1, <3>1 DEF Write
  <2> QED
    BY <2>1, <2>2
<1> QED
  BY <1>2, <1>3, <1>4, NewCount

\* Recovery rewrites statuses and owners, never a count.
LEMMA RecoverCount ==
  ASSUME OwnInv, CountInv, NEW w \in Worker, RecoverStale(w)
  PROVE  CountInv'
<1>1. pc \in [Worker -> Labels] /\ row \in [Run -> RowType]
  BY Shapes DEF OwnInv
<1>2. /\ cur' = cur /\ sends' = sends /\ undecided' = undecided /\ pc'[w] \notin Holding
      /\ \A v \in Worker \ {w} : pc'[v] = pc[v]
  BY <1>1 DEF RecoverStale, history, Goto, RestOf, Holding
<1>3. \A r \in Run : /\ SameCount(r)
                     /\ row'[r] = row[r] \/ row'[r].status = "unknown"
  <2>1. \A r \in Run : row'[r] = row[r] \/ row'[r] = Recovered(row[r])
    BY DEF RecoverStale
  <2>2. \A r \in Run : /\ Recovered(row[r]).status = "unknown"
                       /\ Recovered(row[r]).attempt = row[r].attempt
                       /\ Recovered(row[r]).trigger = row[r].trigger
    BY <1>1 DEF Recovered, RowType
  <2> QED
    BY <2>1, <2>2 DEF SameCount
<1>4. \A v \in Worker : Granted(v)'
  BY <1>2, <1>3, Shapes, GrantFrame DEF OwnInv
<1>5. \A r \in Run : Counted(r)'
  BY <1>2, <1>3 DEF CountInv, Counted, SameCount, PolicyOf
<1> QED
  BY <1>4, <1>5 DEF CountInv

\* A crash takes grants away and gives none.
LEMMA EnvironmentCount ==
  ASSUME OwnInv, CountInv, Process \/ Edit \/ Configure \/ UNCHANGED vars
  PROVE  CountInv'
<1>1. row' = row /\ sends' = sends /\ undecided' = undecided
  BY DEF Process, Boot, Exit, Crash, Halt, Edit, UpdateAutomationWake, SetAutomationState,
         UpdateTrigger, SetTriggerState, Configure, SetEnabled, SetLegacy, vars, history
<1>2. \A w \in Worker : (pc'[w] = pc[w] /\ cur'[w] = cur[w]) \/ pc'[w] \in {"exit", "sweep"}
  <2>1. CASE Edit \/ Configure \/ UNCHANGED vars
    BY <2>1 DEF Edit, UpdateAutomationWake, SetAutomationState, UpdateTrigger, SetTriggerState,
                Configure, SetEnabled, SetLegacy, vars, threads
  <2>2. ASSUME NEW p \in Proc, Boot(p)
        PROVE  \A w \in Worker : (pc'[w] = pc[w] /\ cur'[w] = cur[w]) \/ pc'[w] \in {"exit", "sweep"}
    BY <2>2 DEF Boot
  <2>3. ASSUME NEW p \in Proc, Halt(p)
        PROVE  \A w \in Worker : (pc'[w] = pc[w] /\ cur'[w] = cur[w]) \/ pc'[w] \in {"exit", "sweep"}
    BY <2>3 DEF Halt
  <2> QED
    BY <2>1, <2>2, <2>3 DEF Process, Exit, Crash
<1> QED
  BY <1>1, <1>2 DEF CountInv, Counted, Granted, PolicyOf

\* Nothing is sent, granted or counted at first.
LEMMA InitCount == Init => CountInv
<1> SUFFICES ASSUME Init
             PROVE  CountInv
  OBVIOUS
<1>1. ASSUME NEW r \in Run
      PROVE  Counted(r)
  <2>1. row[r].attempt = 0 /\ row[r].status = "absent" /\ sends[r] = 0 /\ undecided = {}
    BY DEF Init, Absent
  <2>2. PolicyOf(r) \in Nat \ {0}
    BY InitTypeInv, Numbers
  <2> QED
    BY <2>1, <2>2 DEF Counted
<1>2. \A w \in Worker : Granted(w)
  BY DEF Init, Granted
<1> QED
  BY <1>1, <1>2 DEF CountInv

\* One step keeps the count: one lemma above for each kind of step.
LEMMA StepCount == OwnInv /\ CountInv /\ [Next]_vars => CountInv'
<1> SUFFICES ASSUME OwnInv, CountInv, [Next]_vars
             PROVE  CountInv'
  OBVIOUS
<1>1. ASSUME NEW w \in Worker, Proceed(w) \/ Command(w) \/ Falter(w)
      PROVE  CountInv'
  BY <1>1, MoveCount, WriteCount, BirthCount, RecoverCount
     DEF Proceed, Execute, Schedule, Command
<1>2. CASE Process \/ Edit \/ Configure \/ UNCHANGED vars
  BY <1>2, EnvironmentCount
<1> QED
  BY <1>1, <1>2 DEF Next

\* The two invariants together hold of every state.
LEMMA AlwaysCount == ASSUME ~Concurrent PROVE Spec => [](OwnInv /\ CountInv)
<1>1. Init => OwnInv /\ CountInv
  BY InitOwn, InitCount
<1>2. OwnInv /\ CountInv /\ [Next]_vars => (OwnInv /\ CountInv)'
  BY StepOwn, StepCount
<1> QED
  BY <1>1, <1>2, PTL DEF Spec

\* The owner receives at most max_attempts wakes of one invocation between
\* two explicit recoveries, whatever crashes and restarts.
THEOREM SendsAreBounded == ASSUME ~Concurrent PROVE Spec => []SendsBounded
<1>1. OwnInv /\ CountInv => SendsBounded
  <2> SUFFICES ASSUME OwnInv, CountInv, NEW r \in Run
               PROVE  sends[r] <= PolicyOf(r)
    BY DEF SendsBounded
  <2>1. sends[r] \in Nat /\ row[r].attempt \in Nat /\ PolicyOf(r) \in Nat
    BY Numbers DEF OwnInv
  <2> QED
    BY <2>1 DEF CountInv, Counted
<1> QED
  BY <1>1, AlwaysCount, PTL

\* A wake whose answer was lost is not sent again before the operator has
\* confirmed: the thread that sends has been granted an attempt on a run
\* nothing is undecided about.
THEOREM NothingSentBlindly == ASSUME ~Concurrent PROVE Spec => NoBlindReplay
<1> DEFINE Blindless == \A r \in Run : sends'[r] > sends[r] => r \notin undecided
<1>1. OwnInv /\ CountInv /\ [Next]_vars => Blindless
  <2> SUFFICES ASSUME OwnInv, CountInv, [Next]_vars, NEW r \in Run, sends'[r] > sends[r]
               PROVE  r \notin undecided
    OBVIOUS
  <2>1. sends[r] \in Nat /\ sends \in [Run -> Nat]
    BY DEF OwnInv, TypeInv, TypeOK
  <2>2. sends' # sends
    BY <2>1
  <2>2a. ~(Process \/ Edit \/ Configure \/ UNCHANGED vars)
    BY <2>2 DEF Process, Boot, Exit, Crash, Halt, Edit, UpdateAutomationWake, SetAutomationState,
                UpdateTrigger, SetTriggerState, Configure, SetEnabled, SetLegacy, vars, history
  <2>2b. PICK w \in Worker : Proceed(w) \/ Command(w) \/ Falter(w)
    BY <2>2a DEF Next
  <2>2c. Deliver(w) \/ Reopen(w)
    BY <2>2, <2>2b DEF Proceed, Execute, Schedule, Command, Falter, Tick, Sweep, RetryRun, RunNow,
        IngestEvent, RecoverStale, ClaimGate, Claim, Select, AttemptGate, Begin, Permit, Edge,
        Mark, Await, Settle, Rearm, Terminal, Success, InsertManual, InsertEvent, history
  <2>3. Deliver(w)
    BY <2>1, <2>2c DEF Reopen, history
  <2>4. cur[w] = r /\ pc[w] = "deliver"
    BY <2>1, <2>3 DEF Deliver, history
  <2> QED
    BY <2>4 DEF CountInv, Granted
<1>2. OwnInv /\ CountInv /\ [Next]_vars => [Blindless]_vars
  BY <1>1
<1> QED
  BY <1>2, AlwaysCount, PTL DEF Spec, NoBlindReplay

-----------------------------------------------------------------------------
(***************************************************************************)
(* RunLifecycle implements WakeContract while processes take turns: the    *)
(* initial states map to initial states, and every step of a thread, an    *)
(* operator or a crash maps to a step of the contract or to a stutter.     *)
(***************************************************************************)

\* StageOf as a function of what it reads.
Dead(x, ph) == x.owner \in Proc /\ ph[x.owner] = "dead"
Stage(x, ph) ==
  CASE x.status = "absent"                      -> "none"
    [] x.status \in {"retry_wait"} \cup InFlight -> IF Dead(x, ph) THEN "uncertain" ELSE "open"
    [] x.status = "unknown"                     -> "uncertain"
    [] x.status = "succeeded"                   -> "done"
    [] x.status = "canceled"                    -> "canceled"
    [] OTHER                                    -> "stopped"

LEMMA StageOfIs ==
  ASSUME NEW r \in Run
  PROVE  StageOf(r) = Stage(row[r], phase) /\ StageOf(r)' = Stage(row'[r], phase')
BY DEF StageOf, Stage, Dead

\* The stage of a row, case by case.
LEMMA StageIs ==
  ASSUME NEW x, NEW ph
  PROVE  /\ x.status = "absent" => Stage(x, ph) = "none"
         /\ x.status \in {"retry_wait"} \cup InFlight /\ ~Dead(x, ph) => Stage(x, ph) = "open"
         /\ x.status \in {"retry_wait"} \cup InFlight /\ Dead(x, ph) => Stage(x, ph) = "uncertain"
         /\ x.status = "unknown" => Stage(x, ph) = "uncertain"
         /\ x.status = "succeeded" => Stage(x, ph) = "done"
         /\ x.status = "canceled" => Stage(x, ph) = "canceled"
         /\ x.status \in Recoverable \ {"unknown"} => Stage(x, ph) = "stopped"
<1> USE DEF Stage, InFlight, Recoverable
<1>1. CASE x.status = "absent"
  BY <1>1
<1>2. CASE x.status \in {"retry_wait"} \cup InFlight
  BY <1>2
<1>3. CASE x.status = "unknown"
  BY <1>3
<1>4. CASE x.status = "succeeded"
  BY <1>4
<1>5. CASE x.status = "canceled"
  BY <1>5
<1>6. CASE x.status \in Recoverable \ {"unknown"}
  BY <1>6
<1> QED
  BY <1>1, <1>2, <1>3, <1>4, <1>5, <1>6

-----------------------------------------------------------------------------
(***************************************************************************)
(* Steps of the contract, in terms of the stages and words of the runs.    *)
(***************************************************************************)
SameStage(r) == StageOf(r)' = StageOf(r)
SameWord(r)  == WordOn(r)' = WordOn(r)

\* Nothing the contract speaks of changes.
LEMMA Stutters ==
  ASSUME sends' = sends, \A r \in Run : SameStage(r) /\ SameWord(r)
  PROVE  UNCHANGED Contract!vars
BY DEF Contract!vars, SameStage, SameWord

\* Rows are born.
LEMMA Accepts ==
  ASSUME sends' = sends, \A r \in Run : SameWord(r), NEW R \in SUBSET Run,
         \A r \in R : StageOf(r) = "none" /\ StageOf(r)' = "open",
         \A r \in Run \ R : SameStage(r)
  PROVE  Contract!Next
<1>1. Contract!Accept(R)
  BY DEF Contract!Accept, SameStage, SameWord
<1> QED
  BY <1>1 DEF Contract!Next

\* A verdict or a receipt is written.
LEMMA Concludes ==
  ASSUME sends' = sends, \A r \in Run : SameWord(r), NEW r \in Run,
         NEW s \in {"stopped", "done", "canceled"},
         StageOf(r) = "open", StageOf(r)' = s, \A q \in Run \ {r} : SameStage(q)
  PROVE  Contract!Next
<1>1. Contract!Conclude(r, s)
  BY DEF Contract!Conclude, SameStage, SameWord
<1> QED
  BY <1>1 DEF Contract!Next

\* A wake is sent.
LEMMA Sends ==
  ASSUME \A r \in Run : SameStage(r) /\ SameWord(r), NEW r \in Run,
         StageOf(r) = "open", sends[r] < LargestPolicy, sends' = [sends EXCEPT ![r] = @ + 1]
  PROVE  Contract!Next
<1>1. Contract!Send(r)
  BY DEF Contract!Send, SameStage, SameWord
<1> QED
  BY <1>1 DEF Contract!Next

\* The operator asks for a run to be reopened.
LEMMA Asks ==
  ASSUME sends' = sends, \A r \in Run : SameStage(r), NEW r \in Run,
         NEW w \in {"retry", "confirmed"}, WordOn(r)' = w,
         StageOf(r) = "stopped" \/ (StageOf(r) = "uncertain" /\ w = "confirmed"),
         \A q \in Run \ {r} : SameWord(q)
  PROVE  Contract!Next
<1>1. Contract!Ask(r, w)
  BY DEF Contract!Ask, SameStage, SameWord
<1> QED
  BY <1>1 DEF Contract!Next

\* A process is gone with its runs and words.
LEMMA Loses ==
  ASSUME sends' = sends, NEW R \in SUBSET Run,
         \A r \in R : StageOf(r) = "open" /\ StageOf(r)' = "uncertain",
         \A r \in Run \ R : SameStage(r),
         \A r \in Run : SameWord(r) \/ WordOn(r)' = "none"
  PROVE  Contract!Next
<1>1. \A r \in Run : WordOn(r)' \in {"none", "retry", "confirmed"}
  BY DEF WordOn
<1>2. Contract!Lose(R)
  BY <1>1 DEF Contract!Lose, SameStage, SameWord
<1> QED
  BY <1>2 DEF Contract!Next

\* The word is carried out.
LEMMA Reopens ==
  ASSUME NEW r \in Run, WordOn(r) # "none", WordOn(r)' = "none",
         \A q \in Run \ {r} : SameStage(q) /\ SameWord(q),
         \/ /\ StageOf(r) = "stopped" \/ (StageOf(r) = "uncertain" /\ WordOn(r) = "confirmed")
            /\ StageOf(r)' = "open"
            /\ sends' = [sends EXCEPT ![r] = 0]
         \/ /\ StageOf(r) \in {"stopped", "uncertain"} /\ StageOf(r)' = "canceled"
            /\ sends' = sends
  PROVE  Contract!Next
<1>1. Contract!Reopen(r)
  BY DEF Contract!Reopen, SameStage, SameWord
<1> QED
  BY <1>1 DEF Contract!Next

-----------------------------------------------------------------------------
(***************************************************************************)
(* An owner is a process that has been started.                            *)
(***************************************************************************)
Booted == \A r \in Run : row[r].owner \in Proc => phase[row[r].owner] # "new"

\* An owner is written by a thread, and it writes its own process.
OwnerFrom(r) == \/ row'[r].owner \in {row[r].owner, Nobody}
                \/ \E w \in Worker : Awake(w) /\ row'[r].owner = Self(w)

\* Every step writes owners that way.
LEMMA OwnerChanges == OwnInv /\ [Next]_vars => \A r \in Run : OwnerFrom(r)
<1> SUFFICES ASSUME OwnInv, [Next]_vars
             PROVE  \A r \in Run : OwnerFrom(r)
  OBVIOUS
<1>1. row \in [Run -> RowType] /\ \A w \in Worker : pc[w] \in Holding => cur[w] \in Run
  BY Shapes DEF OwnInv
<1>2. CASE row' = row
  BY <1>2 DEF OwnerFrom
<1>3. ASSUME NEW w \in Worker, Begin(w) \/ Mark(w) \/ Rearm(w) \/ Terminal(w) \/ Success(w)
                               \/ Reopen(w)
      PROVE  \A r \in Run : OwnerFrom(r)
  <2>1. Awake(w) /\ pc[w] \in Holding
    BY <1>3 DEF Begin, Mark, Rearm, Terminal, Success, Reopen, Holding
  <2> DEFINE r == cur[w]
  <2>2. r \in Run
    BY <1>1, <2>1
  <2>3. \/ row' = row
        \/ \E s, o : /\ Write(r, [row[r] EXCEPT !.status = s, !.owner = o])
                     /\ o \in {Nobody, Self(w)}
        \/ \E s, n, o : /\ Write(r, [row[r] EXCEPT !.status = s, !.attempt = n, !.owner = o])
                        /\ o \in {Nobody, Self(w)}
    BY <1>3 DEF Begin, Mark, Rearm, Terminal, Success, Reopen
  <2>4. row' = row \/ row'[r].owner \in {Nobody, Self(w)}
    BY <1>1, <2>2, <2>3, Written, WrittenAttempt
  <2>5. \A q \in Run \ {r} : row'[q] = row[q]
    BY <1>1, <2>2, <2>3 DEF Write
  <2> QED
    BY <2>1, <2>4, <2>5 DEF OwnerFrom
<1>4. ASSUME NEW w \in Worker, InsertManual(w) \/ InsertEvent(w) \/ Claim(w)
      PROVE  \A r \in Run : OwnerFrom(r)
  <2>1. Awake(w)
    BY <1>4 DEF InsertManual, InsertEvent, Claim
  <2>2. \A t, source, key : Claimed(w, t, source, key).owner = Self(w)
    BY DEF Claimed
  <2>3. CASE Claim(w)
    <3>1. \A r \in Run : row'[r] = row[r] \/ \E t : row'[r] = Claimed(w, t, "schedule", NoKey)
      BY <2>3 DEF Claim
    <3> QED
      BY <2>1, <2>2, <3>1 DEF OwnerFrom
  <2>4. CASE InsertManual(w) \/ InsertEvent(w)
    <3>1. row' = row \/ \E r \in Run : \E t, source, key : Write(r, Claimed(w, t, source, key))
      BY <2>4 DEF InsertManual, InsertEvent, Insert, Refuse, Spare
    <3>2. \A r \in Run : row'[r] = row[r] \/ \E t, source, key : row'[r] = Claimed(w, t, source, key)
      BY <1>1, <3>1 DEF Write
    <3> QED
      BY <2>1, <2>2, <3>2 DEF OwnerFrom
  <2> QED
    BY <1>4, <2>3, <2>4
<1>5. ASSUME NEW w \in Worker, RecoverStale(w)
      PROVE  \A r \in Run : OwnerFrom(r)
  <2>1. \A r \in Run : row'[r] = row[r] \/ row'[r] = Recovered(row[r])
    BY <1>5 DEF RecoverStale
  <2>2. \A r \in Run : Recovered(row[r]).owner = Nobody
    BY <1>1 DEF Recovered, RowType
  <2> QED
    BY <2>1, <2>2 DEF OwnerFrom
<1>6. ASSUME NEW w \in Worker, Proceed(w) \/ Command(w) \/ Falter(w)
      PROVE  \A r \in Run : OwnerFrom(r)
  <2>1. \/ row' = row
        \/ Begin(w) \/ Mark(w) \/ Rearm(w) \/ Terminal(w) \/ Success(w) \/ Reopen(w)
        \/ InsertManual(w) \/ InsertEvent(w) \/ RecoverStale(w) \/ Claim(w)
    BY <1>6 DEF Proceed, Execute, Schedule, Command, Tick, Sweep, ClaimGate, RunNow, IngestEvent,
                Select, AttemptGate, Permit, Edge, Deliver, Await, Settle, RetryRun, Falter
  <2> QED
    BY <1>2, <1>3, <1>4, <1>5, <2>1
<1>7. CASE Process \/ Edit \/ Configure \/ UNCHANGED vars
  <2>1. row' = row
    BY <1>7 DEF Process, Boot, Exit, Crash, Halt, Edit, UpdateAutomationWake, SetAutomationState,
                UpdateTrigger, SetTriggerState, Configure, SetEnabled, SetLegacy, vars
  <2> QED
    BY <1>2, <2>1
<1> QED
  BY <1>6, <1>7 DEF Next

\* Threads leave the phases of the processes alone.
LEMMA PhaseKept ==
  ASSUME NEW w \in Worker, Proceed(w) \/ Command(w) \/ Falter(w)
  PROVE  phase' = phase
BY DEF Proceed, Execute, Schedule, Command, Tick, Sweep, RetryRun, RunNow, IngestEvent,
       RecoverStale, ClaimGate, Claim, Select, AttemptGate, Begin, Permit, Edge, Mark, Deliver,
       Await, Settle, Rearm, Terminal, Success, Reopen, InsertManual, InsertEvent, Falter

\* No process becomes new again.
LEMMA StepBooted == OwnInv /\ Booted /\ [Next]_vars => Booted'
<1> SUFFICES ASSUME OwnInv, Booted, [Next]_vars, NEW r \in Run, row'[r].owner \in Proc
             PROVE  phase'[row'[r].owner] # "new"
  BY DEF Booted
<1>1. phase[row'[r].owner] # "new"
  BY OwnerChanges, FreshAssumption DEF OwnerFrom, Booted, Awake
<1>2. phase \in [Proc -> {"new", "live", "dead"}]
  BY Shapes DEF OwnInv
<1>3. CASE phase' = phase
  BY <1>1, <1>3
<1>4. CASE \E p \in Proc : \/ phase' = [phase EXCEPT ![p] = "live"]
                           \/ phase' = [phase EXCEPT ![p] = "dead"]
  BY <1>1, <1>2, <1>4
<1>5. CASE \E w \in Worker : Proceed(w) \/ Command(w) \/ Falter(w)
  BY <1>3, <1>5, PhaseKept
<1>6. CASE Process
  BY <1>4, <1>6 DEF Process, Boot, Exit, Crash, Halt
<1>7. CASE Edit \/ Configure \/ UNCHANGED vars
  BY <1>3, <1>7 DEF Edit, UpdateAutomationWake, SetAutomationState, UpdateTrigger,
                    SetTriggerState, Configure, SetEnabled, SetLegacy, vars
<1> QED
  BY <1>5, <1>6, <1>7 DEF Next

-----------------------------------------------------------------------------
(***************************************************************************)
(* Every step of the engine is a step of the contract or a stutter.        *)
(***************************************************************************)
MapInv == OwnInv /\ CountInv /\ ClaimsAreOwned /\ Booted

Maps == Contract!Next \/ UNCHANGED Contract!vars

\* An operator's word is that of the command that is about to reopen.
LEMMA WordKept ==
  ASSUME \A v \in Worker : pc[v] = "reopen" \/ pc'[v] = "reopen" =>
           pc'[v] = pc[v] /\ cur'[v] = cur[v] /\ assent'[v] = assent[v]
  PROVE  \A r \in Run : SameWord(r)
BY DEF SameWord, WordOn

\* While a command is awake no other thread carries a word.
LEMMA LoneWord ==
  ASSUME OwnInv, NEW w \in Worker, Awake(w), Role[w] = "cli"
  PROVE  \A v \in Worker : pc[v] = "reopen" => v = w
BY OneTicker DEF OwnInv, Quiet

\* The run of a thread inside execute_run is open.
LEMMA WorkIsOpen ==
  ASSUME MapInv, NEW w \in Worker, NEW r \in Run, Awake(w), Local(w), pc[w] \in Holding,
         pc[w] # "reopen", cur[w] = r
  PROVE  /\ row[r].status \in {"retry_wait"} \cup InFlight
         /\ row[r].owner = Nobody \/ row[r].owner = Self(w)
         /\ StageOf(r) = "open"
<1>1. /\ row[r].status \in {"retry_wait"} \cup InFlight
      /\ row[r].owner = Nobody \/ row[r].owner = Self(w)
  BY DEF Local, Agrees, Startable, Started, Holding, InFlight
<1>2. ~Dead(row[r], phase)
  BY <1>1, FreshAssumption DEF Dead, Awake
<1> QED
  BY <1>1, <1>2, StageOfIs, StageIs

\* A largest policy exists: the automations are finitely many.
Largest == \E n \in {MaxAttempts[a] : a \in Automation} : \A a \in Automation : MaxAttempts[a] <= n

\* No policy allows more than the limit of the contract.
LEMMA LargestIsLimit ==
  ASSUME Largest, TypeInv, NEW r \in Run
  PROVE  PolicyOf(r) <= LargestPolicy /\ LargestPolicy \in Nat
<1>1. AutomationOf[row[r].trigger] \in Automation
  BY TriggerAssumption DEF TypeInv, TypeOK, RowType
<1>2. /\ LargestPolicy \in {MaxAttempts[a] : a \in Automation}
      /\ \A a \in Automation : MaxAttempts[a] <= LargestPolicy
  BY DEF Largest, LargestPolicy
<1> QED
  BY <1>1, <1>2, PolicyAssumption DEF PolicyOf

\* Moves are stutters, save the delivery that sends.
LEMMA MoveMaps ==
  ASSUME MapInv, Largest, NEW w \in Worker,
         \/ Tick(w) \/ Sweep(w) \/ ClaimGate(w) \/ RunNow(w) \/ IngestEvent(w) \/ AttemptGate(w)
         \/ Permit(w) \/ Edge(w) \/ Await(w) \/ Settle(w) \/ Falter(w) \/ Select(w) \/ Deliver(w)
  PROVE  Maps
<1> USE DEF Goto, Stop, RestOf
<1>1. /\ pc \in [Worker -> Labels] /\ cur \in [Worker -> Run \cup {NoRun}]
      /\ sends \in [Run -> Nat] /\ TypeInv /\ Local(w)
      /\ pc[w] \in Holding => cur[w] \in Run
  BY Shapes DEF MapInv, OwnInv, TypeInv, TypeOK
<1>2. /\ row' = row /\ phase' = phase /\ assent' = assent
      /\ \A v \in Worker \ {w} : pc'[v] = pc[v] /\ cur'[v] = cur[v]
  BY <1>1 DEF Tick, Sweep, ClaimGate, RunNow, IngestEvent, AttemptGate, Permit, Edge, Await,
              Settle, Falter, Select, Deliver
<1>3. pc[w] # "reopen" /\ pc'[w] # "reopen"
  BY <1>1 DEF Tick, Sweep, ClaimGate, RunNow, IngestEvent, AttemptGate, Permit, Edge, Await,
              Settle, Falter, Select, Deliver, Idle, Local
<1>4. \A r \in Run : SameStage(r) /\ SameWord(r)
  BY <1>2, <1>3, WordKept, StageOfIs DEF SameStage
<1>5. CASE sends' = sends
  BY <1>4, <1>5, Stutters DEF Maps
<1>6. CASE Deliver(w) /\ sends' # sends
  <2>1. PICK r \in Run : r = cur[w]
    BY <1>1, <1>6 DEF Deliver, Holding
  <2>2. /\ pc[w] = "deliver" /\ Awake(w) /\ sends' = [sends EXCEPT ![r] = @ + 1]
    BY <1>6, <2>1 DEF Deliver, history
  <2>3. StageOf(r) = "open"
    BY <1>1, <2>1, <2>2, WorkIsOpen DEF Holding
  <2>4. sends[r] < LargestPolicy
    <3>1. sends[r] < row[r].attempt /\ row[r].attempt <= PolicyOf(r)
      BY <2>1, <2>2 DEF MapInv, CountInv, Granted, Counted
    <3>2. PolicyOf(r) <= LargestPolicy /\ LargestPolicy \in Nat
      BY <1>1, LargestIsLimit
    <3> QED
      BY <1>1, <3>1, <3>2, Numbers
  <2> QED
    BY <1>4, <2>2, <2>3, <2>4, Sends DEF Maps
<1> QED
  BY <1>5, <1>6 DEF Tick, Sweep, ClaimGate, RunNow, IngestEvent, AttemptGate, Permit, Edge,
                    Await, Settle, Falter, Select, history

\* retry_run's first half is the operator's word.
LEMMA RetryMaps ==
  ASSUME MapInv, NEW w \in Worker, RetryRun(w)
  PROVE  Maps
<1>1. pc \in [Worker -> Labels] /\ cur \in [Worker -> Run \cup {NoRun}]
      /\ assent \in [Worker -> BOOLEAN]
  BY Shapes DEF MapInv, OwnInv
<1>2. PICK r \in Run, confirmed \in BOOLEAN :
        /\ MayReopen(r, confirmed)
        /\ cur'    = [cur EXCEPT ![w] = r]
        /\ assent' = [assent EXCEPT ![w] = confirmed]
  BY DEF RetryRun
<1>3. /\ Awake(w) /\ pc[w] = "idle" /\ Role[w] = "cli" /\ pc' = [pc EXCEPT ![w] = "reopen"]
      /\ row' = row /\ phase' = phase /\ sends' = sends
  BY DEF RetryRun, Idle, Goto, history
<1>4. \A v \in Worker : pc[v] # "reopen"
  BY <1>3, LoneWord DEF MapInv
<1>5. \A v \in Worker : pc'[v] = "reopen" <=> v = w
  BY <1>1, <1>3, <1>4
<1>6. \A q \in Run : SameStage(q)
  BY <1>3, StageOfIs DEF SameStage
<1>7. \A q \in Run \ {r} : SameWord(q)
  BY <1>1, <1>2, <1>4, <1>5 DEF SameWord, WordOn
<1>8. WordOn(r)' = IF confirmed THEN "confirmed" ELSE "retry"
  BY <1>1, <1>2, <1>5 DEF WordOn
<1>9. StageOf(r) = "stopped" \/ (StageOf(r) = "uncertain" /\ confirmed)
  BY <1>2, StageOfIs, StageIs DEF MayReopen
<1> QED
  BY <1>3, <1>6, <1>7, <1>8, <1>9, Asks DEF Maps

\* Its second half reopens the run, or cancels it when it is outdated.
LEMMA ReopenMaps ==
  ASSUME MapInv, NEW w \in Worker, Reopen(w)
  PROVE  Maps
<1>1. /\ pc \in [Worker -> Labels] /\ cur \in [Worker -> Run \cup {NoRun}]
      /\ row \in [Run -> RowType] /\ Local(w) /\ pc[w] = "reopen" /\ Awake(w)
  BY Shapes DEF MapInv, OwnInv, Reopen
<1>2. PICK r \in Run : r = cur[w]
  BY <1>1, Shapes DEF MapInv, OwnInv, Holding
<1>3. /\ Role[w] = "cli" /\ row[r].status \in Recoverable
      /\ row[r].status = "unknown" => assent[w]
  BY <1>1, <1>2 DEF Local
<1>4. \A v \in Worker : pc[v] = "reopen" <=> v = w
  BY <1>1, <1>3, LoneWord DEF MapInv
<1>5. \A v \in Worker : pc'[v] # "reopen"
  BY <1>1, <1>4 DEF Reopen, Goto, RestOf
<1>6. /\ \A q \in Run \ {r} : SameWord(q)
      /\ WordOn(r)' = "none" /\ WordOn(r) = IF assent[w] THEN "confirmed" ELSE "retry"
  BY <1>2, <1>4, <1>5 DEF SameWord, WordOn
<1>7. phase' = phase /\ \A q \in Run \ {r} : row'[q] = row[q]
  BY <1>1, <1>2 DEF Reopen, Write
<1>8. \A q \in Run \ {r} : SameStage(q)
  BY <1>7, StageOfIs DEF SameStage
<1>9. StageOf(r) = "stopped" \/ (StageOf(r) = "uncertain" /\ WordOn(r) = "confirmed")
  BY <1>3, <1>6, StageOfIs, StageIs
<1>10. CASE /\ Write(r, [row[r] EXCEPT !.status = "canceled", !.owner = Nobody])
            /\ sends' = sends
  <2>1. row'[r].status = "canceled"
    BY <1>1, <1>10, Written
  <2>2. StageOf(r)' = "canceled"
    BY <2>1, StageOfIs, StageIs
  <2> QED
    BY <1>6, <1>8, <1>9, <1>10, <2>2, Reopens DEF Maps
<1>11. CASE /\ Write(r, [row[r] EXCEPT !.status = "retry_wait", !.attempt = 0, !.owner = Nobody])
            /\ sends' = [sends EXCEPT ![r] = 0]
  <2>1. row'[r].status = "retry_wait" /\ row'[r].owner = Nobody
    BY <1>1, <1>11, WrittenAttempt
  <2>2. StageOf(r)' = "open"
    BY <2>1, StageOfIs, StageIs, FreshAssumption DEF Dead
  <2> QED
    BY <1>6, <1>8, <1>9, <1>11, <2>2, Reopens DEF Maps
<1> QED
  BY <1>2, <1>10, <1>11 DEF Reopen, history

\* execute_run's writes conclude the run or leave it open.
LEMMA WriteMaps ==
  ASSUME MapInv, NEW w \in Worker,
         Begin(w) \/ Mark(w) \/ Rearm(w) \/ Terminal(w) \/ Success(w)
  PROVE  Maps
<1>1. /\ pc \in [Worker -> Labels] /\ cur \in [Worker -> Run \cup {NoRun}]
      /\ row \in [Run -> RowType] /\ Local(w) /\ TypeInv
  BY Shapes DEF MapInv, OwnInv
<1>2. /\ Awake(w) /\ pc[w] \in {"begin", "mark", "rearm", "stop", "succeed"}
      /\ pc'[w] # "reopen" /\ phase' = phase /\ sends' = sends /\ assent' = assent
      /\ \A v \in Worker \ {w} : pc'[v] = pc[v] /\ cur'[v] = cur[v]
  BY <1>1 DEF Begin, Mark, Rearm, Terminal, Success, Finish, Goto, RestOf, history
<1>3. \A r \in Run : SameWord(r)
  BY <1>2, WordKept
<1>4. PICK r \in Run : r = cur[w]
  BY <1>1, <1>2, Shapes DEF Holding
<1>5. StageOf(r) = "open"
  BY <1>1, <1>2, <1>4, WorkIsOpen DEF Holding
<1>6. \A q \in Run \ {r} : SameStage(q)
  <2>1. \A q \in Run \ {r} : row'[q] = row[q]
    BY <1>1, <1>4 DEF Begin, Mark, Rearm, Terminal, Success, Write
  <2> QED
    BY <1>2, <2>1, StageOfIs DEF SameStage
<1>7. CASE SameStage(r)
  BY <1>2, <1>3, <1>6, <1>7, Stutters DEF Maps
<1>8. CASE \E s \in {"stopped", "done", "canceled"} : StageOf(r)' = s
  BY <1>2, <1>3, <1>5, <1>6, <1>8, Concludes DEF Maps
<1>9. ASSUME row'[r].status \in {"retry_wait"} \cup InFlight,
             row'[r].owner = Nobody \/ row'[r].owner = Self(w)
      PROVE  SameStage(r)
  <2>1. ~Dead(row'[r], phase')
    BY <1>2, <1>9, FreshAssumption DEF Dead, Awake
  <2> QED
    BY <1>5, <1>9, <2>1, StageOfIs, StageIs DEF SameStage
<1>10. CASE Begin(w)
  <2>1. \/ row' = row
        \/ Write(r, [row[r] EXCEPT !.status = "canceled", !.owner = Nobody])
        \/ \E n : Write(r, [row[r] EXCEPT !.status = "authorizing", !.attempt = n,
                                          !.owner = Self(w)])
    BY <1>4, <1>10 DEF Begin
  <2>2. CASE row' = row
    BY <1>2, <1>7, <2>2, StageOfIs DEF SameStage
  <2>3. CASE Write(r, [row[r] EXCEPT !.status = "canceled", !.owner = Nobody])
    <3>1. row'[r].status = "canceled"
      BY <1>1, <2>3, Written
    <3>2. StageOf(r)' = "canceled"
      BY <3>1, StageOfIs, StageIs
    <3> QED
      BY <1>8, <3>2
  <2>4. CASE \E n : Write(r, [row[r] EXCEPT !.status = "authorizing", !.attempt = n,
                                            !.owner = Self(w)])
    BY <1>1, <1>7, <1>9, <2>4, WrittenAttempt DEF InFlight
  <2> QED
    BY <2>1, <2>2, <2>3, <2>4
<1>11. CASE Mark(w)
  BY <1>1, <1>4, <1>7, <1>9, <1>11, Written DEF Mark, InFlight
<1>12. CASE Rearm(w)
  BY <1>1, <1>4, <1>7, <1>9, <1>12, Written DEF Rearm
<1>13. CASE Terminal(w)
  <2>1. row'[r].status \in Verdicts
    BY <1>1, <1>4, <1>13, Written DEF Terminal, TypeInv, HandsFull
  <2>2. StageOf(r)' \in {"stopped", "canceled"}
    BY <2>1, StageOfIs, StageIs DEF Verdicts, Recoverable
  <2> QED
    BY <1>8, <2>2
<1>14. CASE Success(w)
  <2>1. row'[r].status = "succeeded"
    BY <1>1, <1>4, <1>14, Written DEF Success
  <2> QED
    BY <1>8, <2>1, StageOfIs, StageIs
<1> QED
  BY <1>10, <1>11, <1>12, <1>13, <1>14

\* New rows are accepted runs, several at once when a tick claims them.
LEMMA BirthMaps ==
  ASSUME MapInv, NEW w \in Worker, InsertManual(w) \/ InsertEvent(w) \/ Claim(w)
  PROVE  Maps
<1>1. pc \in [Worker -> Labels] /\ row \in [Run -> RowType]
  BY Shapes DEF MapInv, OwnInv
<1>2. /\ Awake(w) /\ phase' = phase /\ sends' = sends /\ assent' = assent /\ cur' = cur
      /\ pc[w] # "reopen" /\ pc'[w] # "reopen" /\ \A v \in Worker \ {w} : pc'[v] = pc[v]
  BY <1>1 DEF InsertManual, InsertEvent, Claim, Insert, Refuse, Goto, RestOf, history
<1>3. \A r \in Run : SameWord(r)
  BY <1>2, WordKept
<1>4. \A r \in Run : \/ row'[r] = row[r]
                     \/ r \in Spare /\ \E t, source, key : row'[r] = Claimed(w, t, source, key)
  <2>1. CASE Claim(w)
    BY <2>1, FreshAssumption DEF Claim
  <2>2. CASE InsertManual(w) \/ InsertEvent(w)
    <3>1. row' = row \/ \E r \in Spare : \E t, source, key : Write(r, Claimed(w, t, source, key))
      BY <2>2 DEF InsertManual, InsertEvent, Insert, Refuse
    <3> QED
      BY <1>1, <3>1 DEF Write
  <2> QED
    BY <2>1, <2>2
<1>5. \A t, source, key : /\ Claimed(w, t, source, key).status = "claimed"
                          /\ Claimed(w, t, source, key).owner = Self(w)
  BY DEF Claimed
<1> DEFINE R == {r \in Run : row'[r] # row[r]}
<1>6. \A r \in R : StageOf(r) = "none" /\ StageOf(r)' = "open"
  <2> SUFFICES ASSUME NEW r \in R
               PROVE  StageOf(r) = "none" /\ StageOf(r)' = "open"
    OBVIOUS
  <2>1. row[r].status = "absent" /\ row'[r].status = "claimed" /\ row'[r].owner = Self(w)
    BY <1>4, <1>5 DEF Spare
  <2>2. ~Dead(row'[r], phase')
    BY <1>2, <2>1 DEF Dead, Awake
  <2> QED
    BY <2>1, <2>2, StageOfIs, StageIs DEF InFlight
<1>7. \A r \in Run \ R : SameStage(r)
  BY <1>2, StageOfIs DEF SameStage
<1> QED
  BY <1>2, <1>3, <1>6, <1>7, Accepts DEF Maps

\* What recovery marks `unknown` was uncertain already: its process is gone.
LEMMA RecoverMaps ==
  ASSUME MapInv, NEW w \in Worker, RecoverStale(w)
  PROVE  Maps
<1>1. pc \in [Worker -> Labels] /\ row \in [Run -> RowType]
      /\ phase \in [Proc -> {"new", "live", "dead"}]
  BY Shapes DEF MapInv, OwnInv
<1>2. /\ Awake(w) /\ phase' = phase /\ sends' = sends /\ assent' = assent /\ cur' = cur
      /\ pc[w] # "reopen" /\ pc'[w] # "reopen" /\ \A v \in Worker \ {w} : pc'[v] = pc[v]
  BY <1>1 DEF RecoverStale, Goto, RestOf, history
<1>3. \A r \in Run : SameWord(r)
  BY <1>2, WordKept
<1>4. PICK aged : row' = [r \in Run |-> IF Stale(w, r, aged) THEN Recovered(row[r]) ELSE row[r]]
  BY DEF RecoverStale
<1>5. ASSUME NEW r \in Run
      PROVE  SameStage(r)
  <2>1. CASE ~Stale(w, r, aged)
    BY <1>2, <1>4, <2>1, StageOfIs DEF SameStage
  <2>2. CASE Stale(w, r, aged)
    <3>1. row[r].status \in InFlight /\ row[r].owner # Nobody /\ row[r].owner # Self(w)
      BY <2>2 DEF Stale, MapInv, ClaimsAreOwned
    <3>2. row[r].owner \in Proc
      BY <1>1, <3>1 DEF RowType
    <3>3. phase[row[r].owner] = "dead"
      BY <1>1, <1>2, <3>1, <3>2, ProcAssumption DEF MapInv, OwnInv, OneLive, Booted, Awake, Self
    <3>4. row'[r].status = "unknown"
      BY <1>1, <1>4, <2>2 DEF Recovered, RowType
    <3> QED
      BY <3>1, <3>2, <3>3, <3>4, StageOfIs, StageIs DEF SameStage, Dead
  <2> QED
    BY <2>1, <2>2
<1> QED
  BY <1>2, <1>3, <1>5, Stutters DEF Maps

\* A process that ends loses the runs it had in flight and the words it took;
\* a process that starts, an edit and the configuration are not seen.
LEMMA EnvironmentMaps ==
  ASSUME MapInv, Process \/ Edit \/ Configure \/ UNCHANGED vars
  PROVE  Maps
<1>1. row' = row /\ sends' = sends
  BY DEF Process, Boot, Exit, Crash, Halt, Edit, UpdateAutomationWake, SetAutomationState,
         UpdateTrigger, SetTriggerState, Configure, SetEnabled, SetLegacy, vars, history
<1>2. row \in [Run -> RowType] /\ phase \in [Proc -> {"new", "live", "dead"}]
      /\ \A w \in Worker : ProcOf[w] \in Proc
  BY Shapes, ProcAssumption DEF MapInv, OwnInv
<1>3. CASE Edit \/ Configure \/ UNCHANGED vars
  <2>1. phase' = phase /\ pc' = pc /\ cur' = cur /\ assent' = assent
    BY <1>3 DEF Edit, UpdateAutomationWake, SetAutomationState, UpdateTrigger, SetTriggerState,
                Configure, SetEnabled, SetLegacy, vars, threads
  <2>2. \A r \in Run : SameStage(r) /\ SameWord(r)
    BY <1>1, <2>1, WordKept, StageOfIs DEF SameStage
  <2> QED
    BY <1>1, <2>2, Stutters DEF Maps
<1>4. ASSUME NEW p \in Proc, Boot(p)
      PROVE  Maps
  <2>1. /\ phase[p] = "new" /\ phase' = [phase EXCEPT ![p] = "live"]
        /\ cur' = cur /\ assent' = assent
        /\ pc' = [w \in Worker |-> IF ProcOf[w] = p /\ Role[w] = "scheduler" THEN "sweep" ELSE pc[w]]
    BY <1>4 DEF Boot
  <2>2. \A w \in Worker : ProcOf[w] = p => pc[w] # "reopen"
    BY <2>1 DEF MapInv, OwnInv, Quiet, Awake, Self
  <2>3. \A r \in Run : Dead(row'[r], phase') <=> Dead(row[r], phase)
    BY <1>1, <1>2, <2>1 DEF Dead
  <2>4. \A r \in Run : SameStage(r)
    BY <1>1, <2>3, StageOfIs DEF SameStage, Stage
  <2>5. \A r \in Run : SameWord(r)
    BY <2>1, <2>2, WordKept
  <2> QED
    BY <1>1, <2>4, <2>5, Stutters DEF Maps
<1>5. ASSUME NEW p \in Proc, Halt(p)
      PROVE  Maps
  <2>1. /\ phase[p] = "live" /\ phase' = [phase EXCEPT ![p] = "dead"]
        /\ \A w \in Worker : \/ pc'[w] = "exit"
                             \/ pc'[w] = pc[w] /\ cur'[w] = cur[w] /\ assent'[w] = assent[w]
    BY <1>5 DEF Halt
  <2> DEFINE R == {r \in Run : row[r].status \in InFlight /\ row[r].owner = p}
  <2>2. \A r \in R : StageOf(r) = "open" /\ StageOf(r)' = "uncertain"
    <3>1. \A r \in R : ~Dead(row[r], phase) /\ Dead(row'[r], phase')
      BY <1>1, <1>2, <2>1 DEF Dead
    <3> QED
      BY <1>1, <3>1, StageOfIs, StageIs
  <2>3. \A r \in Run \ R : SameStage(r)
    <3> SUFFICES ASSUME NEW r \in Run \ R
                 PROVE  SameStage(r)
      OBVIOUS
    <3>1. CASE row[r].owner # p
      <4>1. Dead(row'[r], phase') <=> Dead(row[r], phase)
        BY <1>1, <1>2, <2>1, <3>1 DEF Dead
      <4> QED
        BY <1>1, <4>1, StageOfIs DEF SameStage, Stage
    <3>2. CASE row[r].status \notin InFlight
      <4>1. row[r].owner = Nobody
        BY <3>2 DEF MapInv, OwnInv, Free
      <4> QED
        BY <3>1, <4>1, FreshAssumption
    <3> QED
      BY <3>1, <3>2
  <2>4. \A r \in Run : SameWord(r) \/ WordOn(r)' = "none"
    <3> SUFFICES ASSUME NEW r \in Run, WordOn(r)' # "none"
                 PROVE  SameWord(r)
      OBVIOUS
    <3>1. PICK w \in Worker : pc'[w] = "reopen" /\ cur'[w] = r
      BY DEF WordOn
    <3>2. pc[w] = "reopen" /\ cur[w] = r /\ assent'[w] = assent[w]
      BY <2>1, <3>1
    <3>3. \A v \in Worker : pc[v] = "reopen" => v = w
      BY <3>2, LoneWord DEF MapInv, OwnInv, Local, Quiet
    <3>4. \A v \in Worker : pc'[v] = "reopen" => v = w
      BY <2>1, <3>3
    <3> QED
      BY <3>1, <3>2, <3>3, <3>4 DEF SameWord, WordOn
  <2> QED
    BY <1>1, <2>2, <2>3, <2>4, Loses DEF Maps
<1> QED
  BY <1>3, <1>4, <1>5 DEF Process, Exit, Crash

\* One lemma above for each kind of step.
LEMMA StepMaps == Largest /\ MapInv /\ [Next]_vars => Maps
<1> SUFFICES ASSUME Largest, MapInv, [Next]_vars
             PROVE  Maps
  OBVIOUS
<1>1. ASSUME NEW w \in Worker, Proceed(w) \/ Command(w) \/ Falter(w)
      PROVE  Maps
  BY <1>1, MoveMaps, RetryMaps, ReopenMaps, WriteMaps, BirthMaps, RecoverMaps
     DEF Proceed, Execute, Schedule, Command
<1>2. CASE Process \/ Edit \/ Configure \/ UNCHANGED vars
  BY <1>2, EnvironmentMaps
<1> QED
  BY <1>1, <1>2 DEF Next

\* At first no run exists.
LEMMA InitMaps == Init => Contract!Init
<1> SUFFICES ASSUME Init
             PROVE  Contract!Init
  OBVIOUS
<1>1. \A r \in Run : StageOf(r) = "none"
  BY StageOfIs, StageIs DEF Init, Absent
<1>2. \A r \in Run : WordOn(r) = "none"
  BY DEF Init, WordOn
<1> QED
  BY <1>1, <1>2 DEF Init, Contract!Init

\* The engine implements the wake contract, for any number of processes one
\* after the other, of threads, runs, definitions and attempts.
THEOREM ContractImplemented ==
  ASSUME ~Concurrent, Largest
  PROVE  Spec => ImplementsContract
<1>1. Init => Contract!Init
  BY InitMaps
<1>2. Init => MapInv
  BY InitOwn, InitCount, FreshAssumption
     DEF MapInv, Init, ClaimsAreOwned, Booted, Absent, InFlight
<1>3. MapInv /\ [Next]_vars => MapInv'
  BY StepOwn, StepCount, StepOwned, StepBooted DEF MapInv, OwnInv
<1>4. MapInv /\ [Next]_vars => [Contract!Next]_(Contract!vars)
  BY StepMaps DEF Maps
<1> QED
  BY <1>1, <1>2, <1>3, <1>4, PTL DEF Spec, ImplementsContract, Contract!Spec

-----------------------------------------------------------------------------
(***************************************************************************)
(* What a closed gate lets through, for every number of threads, processes *)
(* and runs, and for commands beside a live service as well.  The gate     *)
(* closes in one step and the threads act in others; what carries the      *)
(* argument is that no step but Edge takes a thread past the edge, and     *)
(* Edge looks at the gate in that very step.                               *)
(***************************************************************************)

\* Behind a closed gate only threads with a leave are past the edge.
LeaveNeeded == ~Open => \A w \in Worker : PastTheEdge(w) => w \in grace

\* A thread's step moves that thread alone; it lands past the edge from
\* before it only by Edge, with the gate open and untouched.
LEMMA ThreadEntersOpen ==
  ASSUME TypeInv, NEW v \in Worker, Proceed(v) \/ Command(v) \/ Falter(v),
         NEW w \in Worker, PastTheEdge(w)'
  PROVE  PastTheEdge(w) \/ (Open /\ Open')
<1> USE DEF TypeInv, TypeOK, PastTheEdge, Goto
<1>1. CASE Edge(v)
  <2>1. CASE Open
    BY <1>1, <2>1 DEF Edge, Open, config
  <2>2. CASE ~Open
    BY <1>1, <2>2 DEF Edge, Open, Stop
  <2> QED
    BY <2>1, <2>2
<1>2. CASE Mark(v)
  BY <1>2 DEF Mark
<1>3. CASE AttemptGate(v) \/ Begin(v) \/ Permit(v) \/ Deliver(v) \/ Await(v)
  BY <1>3 DEF AttemptGate, Begin, Permit, Deliver, Await, Stop, Finish, RestOf
<1>4. CASE Settle(v) \/ Rearm(v) \/ Terminal(v) \/ Success(v)
  BY <1>4 DEF Settle, Rearm, Terminal, Success, Stop, Finish, RestOf
<1>5. CASE Schedule(v)
  BY <1>5 DEF Schedule, RecoverStale, ClaimGate, Claim, Select, RestOf
<1>6. CASE Reopen(v) \/ InsertManual(v) \/ InsertEvent(v)
  BY <1>6 DEF Reopen, InsertManual, InsertEvent, Insert, Refuse, RestOf
<1>7. CASE Command(v)
  BY <1>7 DEF Command, Tick, Sweep, RetryRun, RunNow, IngestEvent
<1>8. CASE Falter(v)
  BY <1>8 DEF Falter
<1> QED
  BY <1>1, <1>2, <1>3, <1>4, <1>5, <1>6, <1>7, <1>8 DEF Proceed, Execute

LEMMA EntersOpen ==
  ASSUME TypeInv, [Next]_vars, NEW w \in Worker, PastTheEdge(w)'
  PROVE  PastTheEdge(w) \/ (Open /\ Open')
<1>1. CASE \E v \in Worker : Proceed(v) \/ Command(v) \/ Falter(v)
  BY <1>1, ThreadEntersOpen
<1>2. CASE Process
  <2>1. PICK p \in Proc : Boot(p) \/ Halt(p)
    BY <1>2 DEF Process, Exit, Crash
  <2>2. pc'[w] \in {"sweep", "exit", pc[w]}
    BY <2>1 DEF Boot, Halt
  <2> QED
    BY <2>2 DEF PastTheEdge
<1>3. CASE Edit \/ Configure \/ UNCHANGED vars
  BY <1>3 DEF Edit, UpdateAutomationWake, SetAutomationState, UpdateTrigger, SetTriggerState,
              Configure, SetEnabled, SetLegacy, vars, threads, PastTheEdge
<1> QED
  BY <1>1, <1>2, <1>3 DEF Next

LEMMA StepLeaveNeeded == TypeInv /\ LeaveNeeded /\ [WatchNext]_watch => LeaveNeeded'
<1> SUFFICES ASSUME TypeInv, LeaveNeeded, [WatchNext]_watch, ~Open',
                    NEW w \in Worker, PastTheEdge(w)'
             PROVE  w \in grace'
  BY DEF LeaveNeeded
<1>1. [Next]_vars
  BY DEF WatchNext, watch, vars
<1>2. PastTheEdge(w)
  BY <1>1, EntersOpen
<1>3. CASE WatchNext
  BY <1>2, <1>3 DEF WatchNext, LeaveNeeded
<1>4. CASE UNCHANGED watch
  BY <1>2, <1>4 DEF watch, vars, LeaveNeeded, Open
<1> QED
  BY <1>3, <1>4

\* Only a delivery sends, and it takes its thread off the two labels.
LEMMA SenderDelivers ==
  ASSUME TypeInv, [Next]_vars, NEW r \in Run, sends'[r] > sends[r]
  PROVE  \E w \in Worker : /\ pc[w] = "deliver" /\ cur[w] = r
                           /\ pc'[w] = "await" /\ Open' = Open
<1>1. sends \in [Run -> Nat] /\ sends' # sends
  BY DEF TypeInv, TypeOK
<1>2. PICK w \in Worker : Deliver(w) \/ Reopen(w)
  <2>1. ASSUME NEW w \in Worker, Proceed(w)
        PROVE  Deliver(w) \/ Reopen(w) \/ sends' = sends
    BY <2>1 DEF Proceed, Execute, Schedule, history, AttemptGate, Begin, Permit, Edge, Mark, Await,
       Settle, Rearm, Terminal, Success, RecoverStale, ClaimGate, Claim, Select, InsertManual,
       InsertEvent
  <2>2. ASSUME NEW w \in Worker, Command(w) \/ Falter(w)
        PROVE  Reopen(w) \/ sends' = sends
    BY <2>2 DEF Command, Falter, Tick, Sweep, RetryRun, RunNow, IngestEvent, history
  <2>3. Process \/ Edit \/ Configure \/ UNCHANGED vars => sends' = sends
    BY DEF Process, Boot, Exit, Crash, Halt, Edit, UpdateAutomationWake, SetAutomationState,
       UpdateTrigger, SetTriggerState, Configure, SetEnabled, SetLegacy, vars, history
  <2> QED
    BY <1>1, <2>1, <2>2, <2>3 DEF Next
<1>3. ~Reopen(w)
  BY <1>1 DEF Reopen, TypeInv, TypeOK, history
<1>4. Deliver(w)
  BY <1>2, <1>3
<1>5. pc[w] = "deliver" /\ cur[w] = r /\ pc'[w] = "await"
  BY <1>1, <1>4 DEF Deliver, TypeInv, TypeOK, Goto, history
<1>6. Open' = Open
  BY <1>4 DEF Deliver, Open, config
<1> QED
  BY <1>5, <1>6

\* After `disable`, or once legacy definitions have appeared, a thread sends
\* at most the wake it was past the last check for.
THEOREM ClosedGate == WatchSpec => ClosedGateHolds
<1> DEFINE Within == \A r \in Run : ~Open /\ sends'[r] > sends[r] =>
                       \E w \in grace : cur[w] = r /\ w \notin grace'
<1>1. WatchInit => TypeInv /\ LeaveNeeded
  BY InitTypeInv DEF WatchInit, LeaveNeeded, Init, Open
<1>2. [WatchNext]_watch => [Next]_vars
  BY DEF WatchNext, watch, vars
<1>3. TypeInv /\ LeaveNeeded /\ [WatchNext]_watch => (TypeInv /\ LeaveNeeded)'
  BY <1>2, StepTypeInv, StepLeaveNeeded
<1>4. TypeInv /\ LeaveNeeded /\ [WatchNext]_watch => [Within]_watch
  <2> SUFFICES ASSUME TypeInv, LeaveNeeded, WatchNext, NEW r \in Run, ~Open, sends'[r] > sends[r]
               PROVE  \E w \in grace : cur[w] = r /\ w \notin grace'
    OBVIOUS
  <2>1. PICK w \in Worker : /\ pc[w] = "deliver" /\ cur[w] = r
                            /\ pc'[w] = "await" /\ Open' = Open
    BY SenderDelivers DEF WatchNext
  <2>2. w \in grace
    BY <2>1 DEF LeaveNeeded, PastTheEdge
  <2>3. w \notin grace'
    BY <2>1 DEF WatchNext, PastTheEdge
  <2> QED
    BY <2>1, <2>2, <2>3
<1> QED
  BY <1>1, <1>3, <1>4, PTL DEF WatchSpec, ClosedGateHolds
=============================================================================
