---------------------------- MODULE RunLifecycle ----------------------------
(***************************************************************************)
(* The durable life of a run (engine.py): an occurrence, an event or an    *)
(* operator command becomes a row of `runs`; execute_run takes the row     *)
(* through permission and delivery; a tick claims, recovers and retries;   *)
(* the operator reopens what stopped.                                      *)
(*                                                                         *)
(* A process is one boot of the program, and every Engine inside it writes *)
(* the same owner identity into claim_owner.  `serve` runs one scheduler   *)
(* thread and a thread per webhook request; every other command is a       *)
(* process of its own with one worker.  A worker is a thread: pc, cur,     *)
(* todo, verdict and assent are what it holds between two database         *)
(* transactions, and each step below is one transaction, one read or one   *)
(* external call.                                                          *)
(*                                                                         *)
(* next_run_at and next_attempt_at are compared with the clock in module   *)
(* Occurrences; here a timed trigger or a waiting retry may be due at any  *)
(* time.                                                                   *)
(***************************************************************************)
EXTENDS Definitions, FiniteSets

CONSTANTS
  Proc,          \* boots of the program
  Worker,        \* threads
  ProcOf,        \* the process a worker runs in
  Role,          \* "scheduler", "ingress" or "cli"
  Run,           \* ids of rows of `runs`
  Automation, Trigger, AutomationOf, Kind,
  Event,         \* stable source event ids
  MaxAttempts,   \* retry_json.max_attempts of each automation
  MaxVersion,    \* bound: the version a definition is edited up to
  MaxEdited,     \* bound: definitions that are edited at all
  Concurrent,    \* TRUE: commands may run beside a live process
  StoreFaults,   \* TRUE: a database call of a webhook thread may raise
  Nobody, NoRun, NoKey

ASSUME ProcAssumption    == /\ ProcOf \in [Worker -> Proc]
                            /\ Role \in [Worker -> {"scheduler", "ingress", "cli"}]
\* serve ticks on one thread; any other command runs on one thread.
ASSUME ThreadAssumption  == \A v, w \in Worker : ProcOf[v] = ProcOf[w] /\ v # w =>
                              /\ Role[v] # "cli"
                              /\ Role[v] = "scheduler" => Role[w] = "ingress"
ASSUME TriggerAssumption == /\ AutomationOf \in [Trigger -> Automation]
                            /\ Kind \in [Trigger -> TimedKinds \cup IngressKinds]
                            /\ Trigger # {}
ASSUME PolicyAssumption  == /\ MaxAttempts \in [Automation -> Nat \ {0}]
                            /\ MaxVersion \in Nat /\ MaxEdited \in Nat
ASSUME RegimeAssumption  == Concurrent \in BOOLEAN /\ StoreFaults \in BOOLEAN
ASSUME FreshAssumption   == Nobody \notin Proc /\ NoRun \notin Run /\ NoKey \notin Event

VARIABLES
  enabled, legacy,   \* component.json, and what migration_authority finds in the OS tree
  auto, trig,        \* the definition tables
  row,               \* the table `runs`
  phase,             \* "new", "live" or "dead" for each process
  pc, cur, todo, verdict, assent,
  sends,             \* history: wakes sent since the run was created or reopened
  undecided          \* history: sent, and no verdict of that call is in the row

config      == <<enabled, legacy>>
definitions == <<auto, trig>>
threads     == <<pc, cur, todo, verdict, assent>>
history     == <<sends, undecided>>
vars        == <<enabled, legacy, auto, trig, row, phase, pc, cur, todo, verdict, assent,
                 sends, undecided>>

-----------------------------------------------------------------------------
InFlight    == {"claimed", "authorizing", "delivering"}
Recoverable == {"unknown", "dead_letter", "blocked", "failed"}
Verdicts    == {"blocked", "canceled", "dead_letter"}
NoVerdict   == "none"
Statuses    == InFlight \cup Recoverable
                 \cup {"absent", "retry_wait", "succeeded", "canceled"}

Absent == [status |-> "absent", attempt |-> 0, owner |-> Nobody, source |-> "manual",
           trigger |-> CHOOSE t \in Trigger : TRUE, key |-> NoKey,
           autoVersion |-> 0, trigVersion |-> 0]

Self(w)  == ProcOf[w]
Awake(w) == phase[Self(w)] = "live"
Spare    == {r \in Run : row[r].status = "absent"}

PolicyOf(r) == MaxAttempts[AutomationOf[row[r].trigger]]

Fenced(r) == FenceHolds(row[r], auto[AutomationOf[row[r].trigger]], trig[row[r].trigger])

\* The claim is inserted with no claim_owner.
ClaimedByNobody(w, t, source, key) ==
  [status |-> "claimed", attempt |-> 0, owner |-> Nobody, source |-> source,
   trigger |-> t, key |-> key,
   autoVersion |-> auto[AutomationOf[t]].version, trigVersion |-> trig[t].version]

\* A new row of `runs`: claimed by this process at the versions just read.
Claimed(w, t, source, key) ==
  [status |-> "claimed", attempt |-> 0, owner |-> Self(w), source |-> source,
   trigger |-> t, key |-> key,
   autoVersion |-> auto[AutomationOf[t]].version, trigVersion |-> trig[t].version]

-----------------------------------------------------------------------------
(***************************************************************************)
(* Threads.                                                                *)
(***************************************************************************)
RestOf(w)  == IF Role[w] = "cli" THEN "exit" ELSE "idle"
Goto(w, l) == pc' = [pc EXCEPT ![w] = l]

\* execute_run returned: on to the next id of the list tick is working
\* through, or the command is over.
Finish(w) ==
  /\ Goto(w, IF todo[w] = {} THEN RestOf(w) ELSE "next")
  /\ cur' = [cur EXCEPT ![w] = NoRun]

\* The web server starts once the scheduler's first recovery is through.
Serving(w) == \A v \in Worker : Self(v) = Self(w) => pc[v] # "sweep"

Idle(w) == Awake(w) /\ pc[w] = "idle" /\ Serving(w)

Stop(w, status) ==
  /\ verdict' = [verdict EXCEPT ![w] = status]
  /\ Goto(w, "stop")

Write(r, changed) == row' = [row EXCEPT ![r] = changed]

-----------------------------------------------------------------------------
(***************************************************************************)
(* tick: gate, recover_stale, _claim_due, the waiting retries.             *)
(***************************************************************************)
Open == enabled /\ ~legacy

Tick(w) ==
  /\ Idle(w) /\ Role[w] \in {"scheduler", "cli"}
  /\ Open
  /\ Goto(w, "recover")
  /\ UNCHANGED <<config, definitions, row, phase, cur, todo, verdict, assent, history>>

\* The command `recover`, and what serve does before its first tick.
Sweep(w) ==
  /\ Idle(w) /\ Role[w] = "cli"
  /\ Goto(w, "sweep")
  /\ UNCHANGED <<config, definitions, row, phase, cur, todo, verdict, assent, history>>

\* Recovers this process's own work too.
StaleWithoutOwner(w, r, aged) == row[r].status \in InFlight

\* Reads a run as claimed and never started as one that cannot be stale.
StaleStartedOnly(w, r, aged) ==
  /\ row[r].status \in {"authorizing", "delivering"}
  /\ row[r].owner # Self(w)

\* Rows of another owner at once; rows of no owner once they are older than
\* claim_timeout_seconds (aged).
Stale(w, r, aged) ==
  /\ row[r].status \in InFlight
  /\ \/ row[r].owner # Nobody /\ row[r].owner # Self(w)
     \/ row[r].owner = Nobody /\ r \in aged

\* Puts a lost run back into the queue.
Requeued(x) == [x EXCEPT !.status = "retry_wait", !.owner = Nobody]

Recovered(x) == [x EXCEPT !.status = "unknown", !.owner = Nobody]

RecoverStale(w) ==
  /\ Awake(w) /\ pc[w] \in {"recover", "sweep"}
  /\ \E aged \in SUBSET {r \in Run : row[r].status \in InFlight /\ row[r].owner = Nobody} :
       row' = [r \in Run |-> IF Stale(w, r, aged) THEN Recovered(row[r]) ELSE row[r]]
  /\ Goto(w, IF pc[w] = "recover" THEN "claimGate" ELSE RestOf(w))
  /\ UNCHANGED <<config, definitions, phase, cur, todo, verdict, assent, history>>

\* _claim_due reads the configuration before its transaction begins.
ClaimGate(w) ==
  /\ Awake(w) /\ pc[w] = "claimGate"
  /\ Goto(w, IF Open THEN "claim" ELSE "select")
  /\ UNCHANGED <<config, definitions, row, phase, cur, todo, verdict, assent, history>>

Armed(t) ==
  /\ Kind[t] \in TimedKinds
  /\ trig[t].state = "active"
  /\ auto[AutomationOf[t]].state = "active"

\* One transaction over every due trigger.  A trigger armed again at an
\* instant that already has a run gets no new row (UNIQUE invocation_id), and
\* advances all the same: claim[t] is NoRun.
Claim(w) ==
  /\ Awake(w) /\ pc[w] = "claim"
  /\ \E due \in SUBSET {t \in Trigger : Armed(t)} :
       \E claim \in [due -> Spare \cup {NoRun}] :
         /\ \A t \in due : claim[t] = NoRun =>
              \E r \in Run : row[r].trigger = t /\ row[r].source = "schedule"
         /\ \A t, u \in due : claim[t] = claim[u] /\ claim[t] # NoRun => t = u
         /\ row' = [r \in Run |-> IF \E t \in due : claim[t] = r
                                  THEN Claimed(w, CHOOSE t \in due : claim[t] = r, "schedule", NoKey)
                                  ELSE row[r]]
         /\ trig' = [t \in Trigger |-> IF t \in due /\ Kind[t] = "once"
                                       THEN [trig[t] EXCEPT !.state = "completed"]
                                       ELSE trig[t]]
         /\ todo' = [todo EXCEPT ![w] = {r \in Run : \E t \in due : claim[t] = r}]
  /\ Goto(w, "select")
  /\ UNCHANGED <<config, auto, phase, cur, verdict, assent, history>>

\* Picks up a claim as well, whoever is working on it.
WaitingOrClaimed(r) == row[r].status \in {"retry_wait", "claimed"}

\* Treats a lost delivery like a failed one.
WaitingOrUnknown(r) == row[r].status \in {"retry_wait", "unknown"}

Waiting(r) == row[r].status = "retry_wait"

\* The due retries join the claims; the order of the list is abstracted.
Select(w) ==
  /\ Awake(w) /\ pc[w] = "select"
  /\ \E due \in SUBSET {r \in Run : Waiting(r)} :
       /\ todo' = [todo EXCEPT ![w] = @ \cup due]
       /\ Goto(w, IF todo[w] \cup due = {} THEN RestOf(w) ELSE "next")
  /\ UNCHANGED <<config, definitions, row, phase, cur, verdict, assent, history>>

-----------------------------------------------------------------------------
(***************************************************************************)
(* execute_run.                                                            *)
(***************************************************************************)
AttemptGate(w) ==
  /\ Awake(w) /\ pc[w] = "next"
  /\ \E r \in todo[w] :
       /\ cur'  = [cur EXCEPT ![w] = r]
       /\ todo' = [todo EXCEPT ![w] = @ \ {r}]
  /\ \/ legacy /\ Stop(w, "blocked")
     \/ ~legacy /\ ~enabled /\ Stop(w, "canceled")
     \/ Open /\ Goto(w, "begin") /\ UNCHANGED verdict
  /\ UNCHANGED <<config, definitions, row, phase, assent, history>>

Begin(w) ==
  LET r == cur[w] IN
  /\ Awake(w) /\ pc[w] = "begin"
  /\ \/ /\ row[r].status \notin {"claimed", "retry_wait"}
        /\ Finish(w)
        /\ UNCHANGED row
     \/ /\ row[r].status \in {"claimed", "retry_wait"}
        /\ ~Fenced(r)
        /\ Write(r, [row[r] EXCEPT !.status = "canceled", !.owner = Nobody])
        /\ Finish(w)
     \/ /\ row[r].status \in {"claimed", "retry_wait"}
        /\ Fenced(r)
        /\ Write(r, [row[r] EXCEPT !.status = "authorizing", !.attempt = @ + 1,
                                   !.owner = Self(w)])
        /\ Goto(w, "permit")
        /\ UNCHANGED cur
  /\ UNCHANGED <<config, definitions, phase, todo, verdict, assent, history>>

\* os_permission: no OS root, approval required and denied all block; an
\* unavailable permission boundary is retried.
Permit(w) ==
  /\ Awake(w) /\ pc[w] = "permit"
  /\ \/ Goto(w, "edge")   /\ UNCHANGED verdict
     \/ Goto(w, "settle") /\ UNCHANGED verdict
     \/ Stop(w, "blocked")
  /\ UNCHANGED <<config, definitions, row, phase, cur, todo, assent, history>>

\* Goes by the configuration read at the start of the attempt.
EdgeUnread(w) ==
  /\ Awake(w) /\ pc[w] = "edge"
  /\ \/ Stop(w, "dead_letter")
     \/ Goto(w, "mark") /\ UNCHANGED verdict
  /\ UNCHANGED <<config, definitions, row, phase, cur, todo, assent, history>>

\* The gate read again before the delivery, and the target looked up in it.
Edge(w) ==
  /\ Awake(w) /\ pc[w] = "edge"
  /\ \/ legacy /\ Stop(w, "blocked")
     \/ ~legacy /\ ~enabled /\ Stop(w, "canceled")
     \/ Open /\ Stop(w, "dead_letter")
     \/ Open /\ Goto(w, "mark") /\ UNCHANGED verdict
  /\ UNCHANGED <<config, definitions, row, phase, cur, todo, assent, history>>

Mark(w) ==
  /\ Awake(w) /\ pc[w] = "mark"
  /\ Write(cur[w], [row[cur[w]] EXCEPT !.status = "delivering", !.owner = Self(w)])
  /\ Goto(w, "deliver")
  /\ UNCHANGED <<config, definitions, phase, cur, todo, verdict, assent, history>>

\* The adapter sends the wake, or refuses the target before it sends.
Deliver(w) ==
  /\ Awake(w) /\ pc[w] = "deliver"
  /\ \/ /\ sends' = [sends EXCEPT ![cur[w]] = @ + 1]
        /\ undecided' = undecided \cup {cur[w]}
        /\ Goto(w, "await")
        /\ UNCHANGED verdict
     \/ /\ Stop(w, "dead_letter")
        /\ UNCHANGED history
  /\ UNCHANGED <<config, definitions, row, phase, cur, todo, assent>>

\* The owner's answer: a receipt, a retryable error (a lost answer among
\* them), any other error.
Await(w) ==
  /\ Awake(w) /\ pc[w] = "await"
  /\ \/ Goto(w, "succeed") /\ UNCHANGED verdict
     \/ Goto(w, "settle")  /\ UNCHANGED verdict
     \/ Stop(w, "dead_letter")
  /\ UNCHANGED <<config, definitions, row, phase, cur, todo, assent, history>>

\* One attempt too many.
MayRetryOnceMore(r) == row[r].attempt <= PolicyOf(r)

MayRetry(r) == row[r].attempt < PolicyOf(r)

\* _maybe_retry for a retryable failure: the attempt is read here and the row
\* written in a later transaction.
Settle(w) ==
  /\ Awake(w) /\ pc[w] = "settle"
  /\ IF MayRetry(cur[w]) THEN Goto(w, "rearm") /\ UNCHANGED verdict
                         ELSE Stop(w, "dead_letter")
  /\ UNCHANGED <<config, definitions, row, phase, cur, todo, assent, history>>

Rearm(w) ==
  /\ Awake(w) /\ pc[w] = "rearm"
  /\ Write(cur[w], [row[cur[w]] EXCEPT !.status = "retry_wait", !.owner = Nobody])
  /\ Finish(w)
  /\ undecided' = undecided \ {cur[w]}
  /\ UNCHANGED <<config, definitions, phase, todo, verdict, assent, sends>>

\* _terminal writes whatever the row says by now.
Terminal(w) ==
  /\ Awake(w) /\ pc[w] = "stop"
  /\ Write(cur[w], [row[cur[w]] EXCEPT !.status = verdict[w], !.owner = Nobody])
  /\ Finish(w)
  /\ undecided' = undecided \ {cur[w]}
  /\ verdict' = [verdict EXCEPT ![w] = NoVerdict]
  /\ UNCHANGED <<config, definitions, phase, todo, assent, sends>>

\* _success: the wake receipt and the row in one transaction.
Success(w) ==
  /\ Awake(w) /\ pc[w] = "succeed"
  /\ Write(cur[w], [row[cur[w]] EXCEPT !.status = "succeeded", !.owner = Nobody])
  /\ Finish(w)
  /\ undecided' = undecided \ {cur[w]}
  /\ UNCHANGED <<config, definitions, phase, todo, verdict, assent, sends>>

-----------------------------------------------------------------------------
(***************************************************************************)
(* Where runs come from besides the schedule, and the way back.            *)
(***************************************************************************)
\* retry_run asks for no confirmation.
ReopensUnconfirmed(r, confirmed) == row[r].status \in Recoverable

MayReopen(r, confirmed) ==
  /\ row[r].status \in Recoverable
  /\ row[r].status = "unknown" => confirmed

\* retry_run reads the status and the confirmation here ...
RetryRun(w) ==
  /\ Idle(w) /\ Role[w] = "cli"
  /\ \E r \in Run, confirmed \in BOOLEAN :
       /\ MayReopen(r, confirmed)
       /\ cur'    = [cur EXCEPT ![w] = r]
       /\ assent' = [assent EXCEPT ![w] = confirmed]
  /\ Goto(w, "reopen")
  /\ UNCHANGED <<config, definitions, row, phase, todo, verdict, history>>

\* ... and writes the row in a transaction that reads neither again.
Reopen(w) ==
  LET r == cur[w] IN
  /\ Awake(w) /\ pc[w] = "reopen"
  /\ \/ /\ ~Fenced(r)
        /\ Write(r, [row[r] EXCEPT !.status = "canceled", !.owner = Nobody])
        /\ Goto(w, RestOf(w))
        /\ UNCHANGED <<todo, history>>
     \/ /\ Fenced(r)
        /\ Write(r, [row[r] EXCEPT !.status = "retry_wait", !.attempt = 0, !.owner = Nobody])
        /\ todo' = [todo EXCEPT ![w] = {r}]
        /\ Goto(w, "next")
        /\ sends' = [sends EXCEPT ![r] = 0]
        /\ undecided' = IF assent[w] THEN undecided \ {r} ELSE undecided
  /\ cur' = [cur EXCEPT ![w] = NoRun]
  /\ assent' = [assent EXCEPT ![w] = FALSE]
  /\ UNCHANGED <<config, definitions, phase, verdict>>

\* A run of run_now or ingest_event has no row to come back to until its
\* transaction has committed; then the same call executes it.
Insert(w, t, source, key) ==
  \E r \in Spare :
    /\ Write(r, Claimed(w, t, source, key))
    /\ todo' = [todo EXCEPT ![w] = {r}]
    /\ Goto(w, "next")

Refuse(w) == Goto(w, RestOf(w)) /\ UNCHANGED <<row, todo>>

RunNow(w) ==
  /\ Idle(w) /\ Role[w] = "cli"
  /\ ~legacy
  /\ Goto(w, "manual")
  /\ UNCHANGED <<config, definitions, row, phase, cur, todo, verdict, assent, history>>

\* The trigger is the automation's first one, which one being a matter of
\* creation time.
InsertManual(w) ==
  /\ Awake(w) /\ pc[w] = "manual"
  /\ \E a \in Automation :
       LET usable == {t \in Trigger : AutomationOf[t] = a /\ trig[t].state # "archived"} IN
       \/ /\ auto[a].state = "active"
          /\ \E t \in usable : Insert(w, t, "manual", NoKey)
       \/ /\ auto[a].state # "active" \/ usable = {} \/ Spare = {}
          /\ Refuse(w)
  /\ UNCHANGED <<config, definitions, phase, cur, verdict, assent, history>>

\* The component's enabled flag is not asked here: execute_run does that.
IngestEvent(w) ==
  /\ Idle(w) /\ Role[w] \in {"ingress", "cli"}
  /\ ~legacy
  /\ Goto(w, "ingest")
  /\ UNCHANGED <<config, definitions, row, phase, cur, todo, verdict, assent, history>>

\* event_receipts is written with the row and never pruned: an event has a
\* receipt when it has a row.
Received(t, e) == \E r \in Run : row[r].trigger = t /\ row[r].key = e

\* A replay returns the existing run (or a conflict) and changes nothing.
InsertEvent(w) ==
  /\ Awake(w) /\ pc[w] = "ingest"
  /\ \E t \in Trigger, e \in Event :
       /\ Kind[t] \in IngressKinds
       /\ \/ /\ trig[t].state = "active"
             /\ auto[AutomationOf[t]].state = "active"
             /\ ~Received(t, e)
             /\ Insert(w, t, "event", e)
          \/ /\ \/ trig[t].state # "active"
                \/ auto[AutomationOf[t]].state # "active"
                \/ Received(t, e)
                \/ Spare = {}
             /\ Refuse(w)
  /\ UNCHANGED <<config, definitions, phase, cur, verdict, assent, history>>

\* do_POST answers any exception and the thread is gone: what the row says
\* stays as it is, under an owner that lives on.
Falter(w) ==
  /\ StoreFaults
  /\ Awake(w) /\ Role[w] = "ingress" /\ pc[w] # "idle"
  /\ Goto(w, "idle")
  /\ todo'    = [todo EXCEPT ![w] = {}]
  /\ cur'     = [cur EXCEPT ![w] = NoRun]
  /\ verdict' = [verdict EXCEPT ![w] = NoVerdict]
  /\ UNCHANGED <<config, definitions, row, phase, assent, history>>

-----------------------------------------------------------------------------
(***************************************************************************)
(* Processes, the operator's edits, the configuration.                     *)
(***************************************************************************)
IsService(p) == \E w \in Worker : ProcOf[w] = p /\ Role[w] = "scheduler"

\* Public beta runs one local scheduler service; nothing in the code keeps a
\* second process out (Concurrent).
Boot(p) ==
  /\ phase[p] = "new"
  /\ ~Concurrent => \A q \in Proc : phase[q] # "live"
  /\ IsService(p) => enabled
  /\ phase' = [phase EXCEPT ![p] = "live"]
  /\ pc' = [w \in Worker |-> IF ProcOf[w] = p /\ Role[w] = "scheduler" THEN "sweep" ELSE pc[w]]
  /\ UNCHANGED <<config, definitions, row, cur, todo, verdict, assent, history>>

\* Whatever its threads hold is gone with the process; the rows stay.
Halt(p) ==
  /\ phase[p] = "live"
  /\ phase' = [phase EXCEPT ![p] = "dead"]
  /\ pc'      = [w \in Worker |-> IF ProcOf[w] = p THEN "exit" ELSE pc[w]]
  /\ cur'     = [w \in Worker |-> IF ProcOf[w] = p THEN NoRun ELSE cur[w]]
  /\ todo'    = [w \in Worker |-> IF ProcOf[w] = p THEN {} ELSE todo[w]]
  /\ verdict' = [w \in Worker |-> IF ProcOf[w] = p THEN NoVerdict ELSE verdict[w]]
  /\ assent'  = [w \in Worker |-> IF ProcOf[w] = p THEN FALSE ELSE assent[w]]
  /\ UNCHANGED <<config, definitions, row, history>>

\* A command that is through returns; a crash may come at any time.
Exit(p) == ~IsService(p) /\ (\A w \in Worker : ProcOf[w] = p => pc[w] = "exit") /\ Halt(p)
Crash(p) == Halt(p)

Edited == {a \in Automation : auto[a].version > 1} \cup {t \in Trigger : trig[t].version > 1}
MayEdit(x, version) ==
  version < MaxVersion /\ (x \in Edited \/ Cardinality(Edited) < MaxEdited)

SetAutomationState(a, s) ==
  /\ MayEdit(a, auto[a].version)
  /\ auto' = [auto EXCEPT ![a] = WithState(@, s)]
  /\ UNCHANGED <<config, trig, row, phase, threads, history>>

UpdateAutomationWake(a) ==
  /\ MayEdit(a, auto[a].version)
  /\ auto' = [auto EXCEPT ![a] = WithNewWake(@)]
  /\ UNCHANGED <<config, trig, row, phase, threads, history>>

SetTriggerState(t, s) ==
  /\ MayEdit(t, trig[t].version)
  /\ trig' = [trig EXCEPT ![t] = WithState(@, s)]
  /\ UNCHANGED <<config, auto, row, phase, threads, history>>

UpdateTrigger(t) ==
  /\ MayEdit(t, trig[t].version)
  /\ trig' = [trig EXCEPT ![t] = WithNewSpec(@)]
  /\ UNCHANGED <<config, auto, row, phase, threads, history>>

SetEnabled(b) ==
  /\ enabled # b
  /\ enabled' = b
  /\ UNCHANGED <<legacy, definitions, row, phase, threads, history>>

\* Legacy definitions appear in, or are migrated out of, the OS tree.
SetLegacy(b) ==
  /\ legacy # b
  /\ legacy' = b
  /\ UNCHANGED <<enabled, definitions, row, phase, threads, history>>

-----------------------------------------------------------------------------
Init ==
  /\ enabled = TRUE /\ legacy = FALSE
  /\ auto = [a \in Automation |-> [state |-> "active", version |-> 1]]
  /\ trig = [t \in Trigger |-> [state |-> "active", version |-> 1]]
  /\ row = [r \in Run |-> Absent]
  /\ phase = [p \in Proc |-> "new"]
  /\ pc = [w \in Worker |-> "idle"]
  /\ cur = [w \in Worker |-> NoRun]
  /\ todo = [w \in Worker |-> {}]
  /\ verdict = [w \in Worker |-> NoVerdict]
  /\ assent = [w \in Worker |-> FALSE]
  /\ sends = [r \in Run |-> 0]
  /\ undecided = {}

Execute(w) ==
  \/ AttemptGate(w) \/ Begin(w) \/ Permit(w) \/ Edge(w) \/ Mark(w) \/ Deliver(w)
  \/ Await(w) \/ Settle(w) \/ Rearm(w) \/ Terminal(w) \/ Success(w)

Schedule(w) ==
  \/ RecoverStale(w) \/ ClaimGate(w) \/ Claim(w) \/ Select(w)

Command(w) ==
  \/ Tick(w) \/ Sweep(w) \/ RetryRun(w) \/ RunNow(w) \/ IngestEvent(w)

Proceed(w) == Execute(w) \/ Schedule(w) \/ Reopen(w) \/ InsertManual(w) \/ InsertEvent(w)

Edit ==
  \/ \E a \in Automation : UpdateAutomationWake(a)
                           \/ \E s \in AutomationStates : SetAutomationState(a, s)
  \/ \E t \in Trigger : UpdateTrigger(t)
                        \/ \E s \in TriggerStates \ {"completed"} : SetTriggerState(t, s)

Configure == \E b \in BOOLEAN : SetEnabled(b) \/ SetLegacy(b)

Process == \E p \in Proc : Boot(p) \/ Exit(p) \/ Crash(p)

Next ==
  \/ \E w \in Worker : Proceed(w) \/ Command(w) \/ Falter(w)
  \/ Process \/ Edit \/ Configure

Spec == Init /\ [][Next]_vars

-----------------------------------------------------------------------------
(***************************************************************************)
(* What holds of the rows.                                                 *)
(***************************************************************************)
Holding == {"begin", "permit", "edge", "mark", "deliver", "await", "settle", "rearm",
            "stop", "succeed", "reopen"}
Labels  == Holding \cup {"idle", "exit", "sweep", "recover", "claimGate", "claim", "select",
                         "next", "manual", "ingest"}

RowType == [status : Statuses, attempt : Nat, owner : Proc \cup {Nobody},
            source : SourceKinds, trigger : Trigger, key : Event \cup {NoKey},
            autoVersion : Nat, trigVersion : Nat]

\* Every table, thread and history variable has the shape the code gives it.
TypeOK ==
  /\ enabled \in BOOLEAN /\ legacy \in BOOLEAN
  /\ auto \in [Automation -> [state : AutomationStates, version : Nat]]
  /\ trig \in [Trigger -> [state : TriggerStates, version : Nat]]
  /\ row \in [Run -> RowType]
  /\ phase \in [Proc -> {"new", "live", "dead"}]
  /\ pc \in [Worker -> Labels]
  /\ cur \in [Worker -> Run \cup {NoRun}]
  /\ todo \in [Worker -> SUBSET Run]
  /\ verdict \in [Worker -> Verdicts \cup {NoVerdict}]
  /\ assent \in [Worker -> BOOLEAN]
  /\ sends \in [Run -> Nat]
  /\ undecided \in SUBSET Run

\* A claim is never without an owner: no path through the engine leaves a row
\* in flight with claim_owner NULL, so recovery never has to wait for
\* claim_timeout_seconds (engine.py:256 keeps that clause for older rows).
ClaimsAreOwned == \A r \in Run : row[r].status \in InFlight => row[r].owner # Nobody

Holds(w, r) == r \in todo[w] \/ (pc[w] \in Holding /\ cur[w] = r)

\* Two threads never have the same run in hand: what tick lists, what a
\* webhook thread inserted and what retry_run reopened are disjoint.  Only
\* execute_run's first transaction checks anything; the rest rely on this.
OneExecutorPerRun ==
  \A v, w \in Worker, r \in Run : Holds(v, r) /\ Holds(w, r) => v = w

\* What the row says of a run in hand when the thread is about to act.
Startable(w, r) == \/ row[r].status = "retry_wait" /\ row[r].owner = Nobody
                   \/ row[r].status = "claimed" /\ row[r].owner = Self(w)
Started(w, r, statuses) == row[r].status \in statuses /\ row[r].owner = Self(w)

Agrees(w) ==
  /\ \A r \in todo[w] : Startable(w, r)
  /\ pc[w] = "begin" => Startable(w, cur[w])
  /\ pc[w] \in {"permit", "edge", "mark"} => Started(w, cur[w], {"authorizing"})
  /\ pc[w] \in {"deliver", "await", "succeed"} => Started(w, cur[w], {"delivering"})
  /\ pc[w] \in {"settle", "rearm"} => Started(w, cur[w], {"authorizing", "delivering"})
  /\ pc[w] = "stop" => \/ Startable(w, cur[w])
                       \/ Started(w, cur[w], {"authorizing", "delivering"})

\* The UPDATEs of execute_run name the row by id alone (lines 182, 199, 206
\* and 219).  Each of them still finds the row as the thread left it.
ThreadAgreesWithRow == \A w \in Worker : Agrees(w)

\* Between two explicit recoveries the owner receives at most max_attempts
\* wakes of one invocation, crashes and restarts included.
SendsBounded == \A r \in Run : sends[r] <= PolicyOf(r)

\* A success or a cancellation is the last word on a run, whatever another
\* thread, a later tick, a restart or the operator does (the UPDATEs of
\* _terminal and _maybe_retry check no status).
SettledIsFinal ==
  [][\A r \in Run : row[r].status \in {"succeeded", "canceled"} => row'[r] = row[r]]_vars

\* A wake whose answer was lost with its process is sent again only after
\* the operator has confirmed that its owner is idempotent.
NoBlindReplay == [][\A r \in Run : sends'[r] > sends[r] => r \notin undecided]_vars

\* `unknown` is left through retry_run alone: into the queue with the
\* confirmation, or into `canceled` when the definition has changed.
UnknownWaitsForOperator ==
  [][\A r \in Run :
       row[r].status = "unknown" /\ row'[r].status # "unknown" =>
         \E w \in Worker : /\ pc[w] = "reopen" /\ cur[w] = r
                           /\ row'[r].status = "retry_wait" => assent[w]]_vars

\* An edit of the definition is final for the runs claimed before it: no
\* retry, recovery or later tick takes such a run into an attempt again.
OutdatedNeverRestarts ==
  [][\A r \in Run :
       /\ row[r].status \notin {"absent", "authorizing", "delivering"}
       /\ \/ row[r].autoVersion # auto[AutomationOf[row[r].trigger]].version
          \/ row[r].trigVersion # trig[row[r].trigger].version
       => row'[r].status \notin {"authorizing", "delivering"}]_vars

\* What ARCHITECTURE.md says of `unknown`: it is never automatically replayed.
\* A wake that has been sent once goes back to the queue only with the
\* operator's confirmation.
UnknownNeverReplayed ==
  [][\A r \in Run :
       sends[r] > 0 /\ row[r].status = "unknown" /\ row'[r].status = "retry_wait" =>
         \E w \in Worker : pc[w] = "reopen" /\ cur[w] = r /\ assent[w]]_vars

\* What ARCHITECTURE.md says of edits: an operator's mutation after the claim
\* cancels the claim before delivery.  A run enters `delivering` only under
\* the definition in force.
DeliveringUnderFence ==
  [][\A r \in Run :
       row[r].status # "delivering" /\ row'[r].status = "delivering" => Fenced(r)]_vars

-----------------------------------------------------------------------------
(***************************************************************************)
(* The rows implement the contract.  A row in flight is uncertain from the *)
(* moment its process is gone, before any recovery has said so.            *)
(***************************************************************************)
StageOf(r) ==
  CASE row[r].status = "absent"                     -> "none"
    [] row[r].status \in {"retry_wait"} \cup InFlight ->
         IF row[r].owner \in Proc /\ phase[row[r].owner] = "dead" THEN "uncertain" ELSE "open"
    [] row[r].status = "unknown"                    -> "uncertain"
    [] row[r].status = "succeeded"                  -> "done"
    [] row[r].status = "canceled"                   -> "canceled"
    [] OTHER                                        -> "stopped"

WordOn(r) ==
  IF \E w \in Worker : pc[w] = "reopen" /\ cur[w] = r
  THEN IF \E w \in Worker : pc[w] = "reopen" /\ cur[w] = r /\ assent[w]
       THEN "confirmed" ELSE "retry"
  ELSE "none"

LargestPolicy ==
  CHOOSE n \in {MaxAttempts[a] : a \in Automation} : \A a \in Automation : MaxAttempts[a] <= n

Contract == INSTANCE WakeContract WITH
  Limit <- LargestPolicy,
  stage <- [r \in Run |-> StageOf(r)],
  sends <- sends,
  word  <- [r \in Run |-> WordOn(r)]

\* The engine, as one local service uses it, implements the contract.
ImplementsContract == Contract!Spec

-----------------------------------------------------------------------------
(***************************************************************************)
(* Progress.  Calls out end (every adapter and os_permission has a         *)
(* timeout), the scheduler thread keeps ticking while its process lives,   *)
(* the service is started again after a crash, and next_attempt_at of a    *)
(* waiting run passes, so that of the ticks that go on for ever some       *)
(* select it.                                                              *)
(***************************************************************************)
SelectsRun(w, r) == Select(w) /\ r \in todo'[w]

Fairness ==
  /\ \A w \in Worker : WF_vars(Proceed(w))
  /\ \A w \in Worker : Role[w] = "scheduler" => WF_vars(Tick(w))
  /\ \A w \in Worker, r \in Run : SF_vars(SelectsRun(w, r))
  /\ \A p \in Proc : WF_vars(Exit(p)) /\ (IsService(p) => WF_vars(Boot(p)))

FairSpec == Spec /\ Fairness

Settled == {"absent", "unknown", "blocked", "dead_letter", "canceled", "succeeded"}

\* While a service is up and the component open, no run stays in flight or in
\* the retry queue for good: those of a lost process are found, retries come
\* to an end, and no two threads wait on each other's row.
RunsSettle ==
  <>[](Open /\ \E w \in Worker : Role[w] = "scheduler" /\ Awake(w))
    => \A r \in Run : []<>(row[r].status \in Settled)
=============================================================================
