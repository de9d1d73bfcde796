# AI-Verse Automations in TLA+

Specifications of the Automations component (`src/aiverse_automations`), model-checked
with TLC and partly proved with TLAPS. Paths are relative to the repository's root;
`engine.py` and the like stand for `src/aiverse_automations/engine.py`.

## 1. The system

Automations turns three kinds of occurrence (a schedule, an event, an operator's command)
into a *run*, a row of a SQLite table, and delivers the run's *wake* to the owner of the
work: a Brain, a bot, a team run or a gateway. Everything durable is in one SQLite file,
one `component.json`, an entry with two bridge files in the tree of AI-Verse OS, and the
projection files of bots targets there.

| Component | State | Operations | Talks to |
|---|---|---|---|
| engine (`engine.py`) | rows of `runs`, `event_receipts`, `wake_receipts`; a boot id per process | `tick` (`recover_stale`, `_claim_due`, retries), `execute_run`, `retry_run`, `run_now`, `ingest_event` | store tables in transactions, configuration, OS authority, adapters |
| store (`store.py`) | rows of `automations`, `triggers` | create, edit, pause, resume, archive; `create_definition` under an idempotency key | schedule for `next_run_at` |
| schedule (`schedule.py`) | none | cron parser, matcher and scan; interval advance; first run | store, engine |
| service (`service.py`) | a scheduler thread and a web server | `serve` | engine, webhook |
| webhook server (`webhook.py`) | a thread per request | `do_POST` | authentication, engine |
| command line (`cli.py`) | one process per command | every operation above | all |
| adapters (`adapters.py`) | projection files of bots targets | `deliver` | owners, over HTTP or a subprocess |
| OS authority (`authority.py`) | none | `os_permission` | a script in the OS tree |
| configuration (`config.py`, `util.py`) | `component.json` and its temporary file | load, validate, save | everybody |
| lifecycle (`lifecycle.py`) | `component.json`, the attachment | setup, enable, disable, update, uninstall | OS extension, store identity |
| OS extension (`os_extension.py`) | registry entry, bridge files, lock file | install, sync, detach, inspect | registry of the OS |
| store identity (`db.py`) | schema, `meta`, application id | initialize, migrate, refuse | everybody who connects |
| authentication (`security.py`) | none | verify a signature and the age of its stamp | webhook |

**How they interact.** Processes share nothing but the files. Inside a process the scheduler
thread and the webhook threads share nothing but the owner identity they write into
`claim_owner`. A write transaction is `BEGIN IMMEDIATE`, so transactions are atomic and
serial; between two of them a thread holds values it has read, and anything may happen to
the rows meanwhile. `execute_run` is nine such steps with two external calls inside.

**What is hard.** Most UPDATEs of `runs` name the row by its id alone: they are right only if
nobody else has the run in hand. Recovery decides that a row is abandoned from the owner
identity alone. Crashes come between any two transactions; the answer of an owner may be
lost. The gate (`enabled`, legacy authority) is read outside the transactions it guards.
Definitions are edited, paused and resumed while their runs are under way. The lifecycle
commands change a file, a registry others share and two bridge files one write after the
other, and may fail or die between any two. Clock texts are compared as strings, late claims
coalesce, local clocks skip and repeat hours.

**What makes each component correct.**
*Engine*: one thread at a time has a run in hand; a wake that may have had its effect is not
sent again by itself; retries are bounded; final states are final; edits revoke what was
claimed before; nothing waits for ever.
*Store*: armed exactly while active; keyed creation is idempotent and refuses drift.
*Schedule*: next_run_at is the first instant after the last claim that the specification
means; intervals keep their phase; misfires coalesce.
*Lifecycle and attachment*: the registry entry, the files and the configuration agree after
every command that succeeds; a command that fails has put the configuration back, and the
OS side is as it was, but for what an uninstall has removed by then. Where the way back raises
in its turn, what had been saved or created stays.
*Store identity*: a store of somebody else is refused untouched, and the stamp of this program
is never on less than its whole schema. (A first setup that died before its stamp is refused
like a stranger's store: the operator removes the file.)
*Webhooks*: one run for an event however often it comes, and an answer that names that run.
*Configuration*: a save replaces the file as one, and a load reads one that was saved.
*Adapters*: the file a wake was bound to stays what it was.

## 2. Modules

| Module | Models | Lines of code it stands for |
|---|---|---|
| `Definitions` | rows of the definition tables, their mutations, the fence | `engine.py` 115-125, `store.py` 273-335 |
| `RunLifecycle` | the life of a run, processes, threads, crashes, operator | `engine.py`, `service.py`, `webhook.py` 38-61, `adapters.py` as outcomes, `authority.py` as outcomes |
| `WakeContract` | abstract: what is promised of a run, with no rows and no threads | README "Recovery", ARCHITECTURE "Restart and uncertain delivery" |
| `RunLifecycleProofs` | theorems about `RunLifecycle` and `GateWatch`: in both regimes types, owners of claims and the gate; while processes take turns one executor, agreement of thread and row, final states, the operator's word, edits, sends, and that `RunLifecycle` implements `WakeContract` | |
| `GateWatch` | `RunLifecycle` with a history of who was past the gate when it closed | `engine.py` 51-56, 152-171 |
| `Schedule` | interval and cron functions, clock texts | `schedule.py`, `util.py` 25-26 |
| `Cron` | a cron trigger over time, and the meaning of an expression | `schedule.py` 27-129, 200-202 |
| `CronProofs` | theorems: the scan finds the first minute, which is what the expression means | |
| `Occurrences` | definitions, clock, claims, events | `store.py` 63-358, `engine.py` 51-88, 317-364 |
| `OccurrencesProofs` | theorems about `Schedule` and `Occurrences`: intervals, arming, misfires, replays | |
| `Ingress` | an event from its sender to its answer | `webhook.py` 38-61, `security.py`, `engine.py` 317-364 |
| `IngressProofs` | theorem: an event has one run | |
| `BotDelivery` | the wake of a bots target and its projection file | `adapters.py` 100-230, `lifecycle.py` (legacy definitions) |
| `BotDeliveryProofs` | theorems: the file of a wake, and that the adapter keeps `WakeContract` | |
| `Attachment` | lifecycle commands, registry, bridge files, lock file | `lifecycle.py`, `os_extension.py`, `cli.py` |
| `StoreIdentity` | creating, adopting, migrating, refusing and opening the database | `db.py` |
| `StoreIdentityProofs` | theorems: the stamp, strangers' stores, the current store stays | |
| `ConfigFile` | `component.json` as names, inodes and handles | `util.py` 48-68, `config.py` |
| `ConfigRegister` | abstract: a value replaced as one and read as one | what the commands take `load_config` and `save_config` for |
| `ConfigFileProofs` | theorem: `ConfigFile` implements `ConfigRegister` | |
| `AttachmentProofs` | theorems about `Attachment`: the lock, other owners, the order of the writes, a command nobody overlaps | |
| `MCRunLifecycle`, `MCGateWatch`, `MCCron`, `MCOccurrences`, `MCIngress`, `MCBotDelivery`, `MCAttachment`, `MCStoreIdentity`, `MCConfigFile` | instances for TLC | |

`RunLifecycle` extends `Definitions`, `GateWatch` extends `RunLifecycle`; `Cron` and
`Occurrences` extend `Schedule`. `RunLifecycle` implements `WakeContract`, and `BotDelivery`
is built on it: the adapter's steps stand where the contract has one step `Send`, and all the
rest of the engine is the contract. `Ingress` refers to `RunLifecycle` for what an accepted
run does next, `Attachment` to `ConfigFile` for its saves and to `StoreIdentity` for the
database a setup creates.

### RunLifecycle

A *process* is one boot of the program, a *worker* one of its threads. `serve` has one worker
of role `scheduler` and one `ingress` worker per concurrent webhook request; every other
command is a process with one `cli` worker. `ProcOf` and `Role` say so, and
`ThreadAssumption` states it.

| Code | Model |
|---|---|
| a row of `runs` | `row[r]`: `status`, `attempt`, `owner` (`claim_owner`), `source`, `trigger`, `key` (the event's id), the two versions it was claimed under; `absent` before the insert |
| local variables of `execute_run` and its callers | `pc[w]`, `cur[w]` (the run), `todo[w]` (what is left of tick's list), `verdict[w]` (the status `_terminal` is about to write), `assent[w]` (`owner_idempotency_confirmed`) |
| `component.json`, legacy definitions in the OS tree | `enabled`, `legacy` |
| process alive or not | `phase[p]` |

`pc` names the point between two steps: `recover`, `claimGate`, `claim`, `select` in `tick`;
`next`, `begin`, `permit`, `edge`, `mark`, `deliver`, `await`, then `succeed`, `settle` and
`rearm`, or `stop` in `execute_run`; `reopen`, `manual`, `ingest`, `sweep` for the others.
Each action is one transaction, one read, or one external call. A call made outside a
transaction and the write that follows from it are two actions (`Settle` reads the attempt,
`Rearm` writes; `RetryRun` reads, `Reopen` writes). `Halt` throws away what the threads of a
process hold; `Falter` is an exception in a webhook thread. `sends` and `undecided` are
history: how many wakes were sent since the run was created or reopened, and whether a sent
wake has an answer in the row.

Abstracted: what a wake contains; why a call failed; times (`next_attempt_at` and
`next_run_at` may be due at any time; module `Occurrences` has the clock); the order of
tick's list; the authentication and validation of an event before it reaches the table.

`Concurrent` tells two regimes apart. README.md:16 says that the beta "targets one local user
and one local scheduler service"; `Concurrent = FALSE` is that regime taken strictly: no
process starts while another lives (a command takes its turn with the service). Nothing in the
code enforces it. With `Concurrent = TRUE` the properties that depend on recovery's guess
(`OneExecutorPerRun`, `ThreadAgreesWithRow`, `SettledIsFinal`, `UnknownWaitsForOperator`,
`OutdatedNeverRestarts`) do not hold: `recover_stale` of one process gives up the runs of the
other, and the owner's unconditional UPDATEs go on. The run `unknown_replayed` shows the case
a document speaks of. `ClaimsAreOwned` and type correctness are proved for both regimes.

### WakeContract

The abstract specification: a run is `none`, `open`, `uncertain`, `stopped`, `done` or
`canceled`. Wakes are sent while it is open, at most `Limit` times; when its process is lost
it is uncertain from that moment; only a confirmed word of the operator opens it again; done
and canceled are final. `RunLifecycle` implements it under the mapping `StageOf`, `WordOn`: a
row in flight whose owner's process is dead is uncertain *before* any recovery has looked at
it, which is why the mapping reads `phase`.

### Schedule, Cron

`Schedule` has the pure functions. `Cron` unfolds the scan of `_next_cron` minute by minute
and lets time pass between any two claims, so that a claim may be arbitrarily late. The
zone is a table of offsets, the calendar a table of days. `Means` is the reference: what a
crontab expression means, written over the items as they stand, with no parsing.

### Occurrences

The tables with `next_run_at`, and a clock in half seconds, because SQLite compares the texts
`iso()` writes and a text with a fraction sorts before the same second without one (`IsoLE`).
A tick reads the clock when it starts and claims with that time later (`at[w]`); a writer that
waits for the lock computes with a time up to `BusyWait` old (`ReadTime`). `runs` is the set
of claims; `invocation_id` is a digest of trigger and occurrence and unique, so a claim is
identified by the two.

A trigger in this instance may be created as a one-time or an interval trigger; `SpecsOf` has
the specifications of both kinds and `update_trigger` keeps the kind (`store.py` 273-335).

### GateWatch

The gate is read in `component.json` before the claim transaction, before an attempt and once
more before the delivery, never inside what it guards. `grace` is the set of threads that
were past the last look when the gate closed, until each has left the two labels `mark` and
`deliver`. It is history: no action of `RunLifecycle` reads it.

### Ingress

| Code | Model |
|---|---|
| a request on its way, its signed stamp | `<<event, age>>` in `net`; the age is the server's clock less the stamp, and grows (`Second`) also while a thread has not compared it yet |
| a thread of the web server in `do_POST` | `pc[w]`: `verify` (trigger read, `verify_webhook`), `ingest` (legacy gate), `insert` (the transaction of `ingest_event`), `execute`, `answer` |
| `runs`, `event_receipts` | `runOf`, `status`; `receipt` |
| what the sender has been told | `told` |

The network keeps copies (`Arrive`), loses requests (`Lose`) and answers (`Answer`), and
delays by not delivering. Ages past the window do not differ and are one age.

### BotDelivery

`projection[t][r]` is the file of a run in a tree: none, half written (created, not yet
written and synced) or whole, then a digest of the wake in the row. `at[r]` is where the
thread that has the run is in `deliver`; `aim[r]` the tree of the configuration it has read,
which `Rebind` (a setup on another tree) does not change any more. `Attempt` takes it from
the first of the two configurations `execute_run` reads (`engine.py` 128 and 151); `Edge` is
the second read, which decides the legacy gate by the tree configured then (165-166). A file that is there and is
not the one it would write raises, which `_terminal` records as `DELIVERY_EXCEPTION`.

### Attachment

| Code | Model |
|---|---|
| `component.json` | `config` with the fields the commands touch: `made` (the file exists), `setup`, `enabled`, `root`, `migrate`, one target |
| `registry.json` | `registry[r]`: our entry (`none`, `on`, `off`), and a count that stands for the rest of the text, so that `_write_registry`'s comparison sees other owners' edits |
| `registry.json.lock` | `lock[r]`: `free`, a command, `other` (another owner), `left` (a command died with it, or could not remove it) |
| the two bridge files | `file[r][f]`: `absent`, `ours`, `changed` (their contents are not what we wrote) |
| a command: its loaded copy, what it will save, what it read under the lock, what it created | `job[p]`: `before`, `next`, `seen`, `mine` |

A command goes through `save`, `inspect` (the question outside the lock), `lock`, then under the
lock `locked`, `engine`, `entry`, `compare`, `replace`, `unlink`, `unlock`, then `rollback` or
`finish`, or for an install `sweep`; `ok` and `failed` are what it reports. A save is one step:
`ConfigFile` shows when that is so and `ConfigTorn.cfg` when not. `alone` and `was` are history:
whether another command or an edit by hand fell into the run of this one, and the OS side it
found. A command refused before it changes anything is a command not started.

Mishaps are deaths, saves, writes and removals that raise (`Raises`), and edits by hand,
bounded together. What raises on the way back is not caught a second time, and the model
follows the code: the save of `rollback` (`lifecycle.py` 179, 200, 218) and the last save of an
uninstall (222) may raise, which ends the command with the changed configuration (`Abandon`);
a clean-up unlink of an install that raises is passed over and the file stays (`os_extension.py`
497-503); so is a lock file that cannot be removed (`Unlock`, 283-287). `hindered`
is the history of the first two. Two consequences for the operator: a first attach whose
clean-up fails leaves a stray file, and every setup, enable and disable on that tree fails as
inconsistent until an attach or an uninstall; an uninstall whose last save raises reports an
error with `enabled` off, the setup complete and the OS side detached.

### StoreIdentity

The file is a record of what `_classify_store` looks at: which objects of `SCHEMA` exist,
whether there are others, the column a v1 store lacks, the two rows of `meta`, the two
integers in the header. `executescript` commits statement by statement, so does the model;
the statements of `_stamp_current_identity` work on a copy that `Commit` publishes. The
classification reads in three steps, outside a transaction, and anything may happen between.

### ConfigFile, ConfigRegister

`atomic_write_json` opens one fixed temporary name, truncating, writes and syncs through its
handle, and renames the *name*; a load opens and reads through its handle. Names (`temp`,
`path`) lead to inodes with contents. `Overlapping` tells apart saves that may overlap from
saves one after the other; a save may die at any step in both.

## 3. Runs

| Run | Question | Instance and bounds |
|---|---|---|
| `run_restart` | do threads ever work on a row that has changed; are wakes bounded, and never sent blindly or under an outdated definition; does the engine implement the contract? | 1 run, a service (scheduler and a webhook thread), a command, the service again, one-time and webhook trigger, 2 attempts, database calls that raise, crashes anywhere, enabling, disabling and legacy definitions at any moment, 1 definition edited once |
| `run_progress` | does every run settle, and does a closed gate hold? | the same threads, crashes anywhere, the gate opened and closed at any moment, no edits, no raising database, fair |
| `occurrences` | arming, completion, misfires, phase, clock texts | 1 trigger created as one-time or interval, 6 half seconds of clock, 2 overlapping ticks, edits, pauses, resumes, fair |
| `run_intake` | replays of events and of keyed creations | 2 wakes, 2 specifications, 2 payloads, versions up to 3 |
| `run_cron` | the next instant of cron | 9 expressions, 3 minutes to the hour and 4 hours to the day, 40 minutes of clock, 48 of scan, an hour skipped and one repeated, the end of a month |
| `ingress` | one run for an event, and an answer? | 1 event, 2 threads, 2 run ids, a window of one second each way, a sender one second ahead, any number of copies, losses and crashes, fair |
| `bots` | is the projection whole, does it ever block the component, does a retry deliver? | 1 run, 2 sends, 2 trees, 3 crashes, 2 setups on another tree, 2 definitions of the user, fair |
| `attachment_pair` | what do two commands at once leave? | setup, uninstall, attach-os, configure-target; 2 at a time, 2 values of the target, 1 death at any step, 1 edit of another owner |
| `attachment_alone` | is a failed command undone, and does everything come together again? | all commands, one at a time, 3 mishaps (deaths, saves, writes and removals that raise, edits by hand), legacy definitions, another owner with and without the lock, fair |
| `store` | whose store is it, and is a stamp ever a lie? | 2 commands at a time, 3 deaths or failing statements, 3 objects of the schema, every kind of file to begin with, fair |
| `config_saves` | is `component.json` an atomic register? | 3 savers, 2 readers, 5 inodes, 2 deaths |
| `unknown_replayed` | violation, see 6 | a command beside a service |

Beside these, `RunLifecyclePair.cfg` (`tlc -config RunLifecyclePair.cfg MCGateWatch`) is a
larger instance of the first two: two runs, a service and a command, all safety properties
that two runs can disturb, and `ClosedGateHolds`; no error in 372 thousand states. The other
`.cfg` files not in the table are the documented counterexamples of section 6. Commands are
run in this directory.

**Why the bounds are enough.** One run is enough for everything that two threads, two
processes or a thread and the operator can do to one row, which is what the properties are
about; a second run gives tick a list and lets a thread take the wrong one, which is what
`RunLifecyclePair.cfg` adds. The safety properties are proved for any number of runs besides
(section 5). Two attempts give a first, a retry, and a refusal of the third. Three boots are a
service that crashes, an operator's command and the service again. One version above the first is what a fence needs to be stale;
a completed trigger's re-arming needs one edit. `occurrences` allows one edit that raises a
version; that longer sequences of edits, pauses and resumes keep a trigger armed exactly while
it is active is the theorem `ArmedExactlyWhileActive`. The clock of cron is small in the lengths of
the hour and the day and complete in what the code distinguishes: steps that do and do not
divide the range, both days restricted or one or none, weekday 7, a month's end, a shift of
the zone larger than the gap between two matches. A claim of the interval trigger can come
zero, one and several periods late and exactly on the next instant. A second run id is what a
second run for one event would need; a window of one second has an inside, two edges and an
outside. Two commands have every overlap of two; three mishaps let a repair be interrupted
twice. Five inodes are one for each name and handle there can be at a time.

Processes of `RunLifecycle` boot once, versions and clocks end, and a store or a
configuration may be left as it is, so the system may stop and deadlock is not checked. A
thread stuck for lack of an enabled step would show in the liveness properties.

**Fairness.** No fairness is assumed of operators' edits, crashes, faults or losses.

* `RunLifecycle!Fairness`: a thread with a step to take takes it (`WF` of `Proceed`; every
  adapter and `os_permission` has a timeout, SQLite a busy timeout); the scheduler thread ticks
  again and again (`serve`'s loop); a service that crashed is started again (an operator's
  process manager; a service boots once per process id, so the restarts in a model are finitely
  many); `SF` of `SelectsRun` because `next_attempt_at` passes, and from then on every tick
  selects the run: ticks come infinitely often but each is only briefly at that step.
  `RunsSettle` assumes in its premise that from some point on the component stays enabled and
  a service stays up.
* `Occurrences!FairSpec`: time passes and tickers tick.
* `Ingress!Fairness`: a thread ends what it began; of the requests a sender sends while it has
  no answer some arrive inside the window, some are compared with the clock there, and some
  answers are not lost. `SenderIsAnswered` has the premise that from some point on the server
  is up, the trigger active, no legacy definition there and the secret available.
* `BotDelivery!Fairness`: the thread goes on; the owner gives its receipt some time, the
  operator asks again, removes a half-written file, and migrates his own definitions.
* `Attachment!Fairness`: a command's steps do not wait; the operator goes on attaching, removes
  a lock file that was left; other owners release the lock, and a lock free again and again is
  got some time (`SF` of `Lock`, because it is tried once and not waited for).
* `StoreIdentity!Fairness`: the operator goes on asking for setup or update, statements end, and
  the database's lock goes round (`SF` of the steps that need it; the busy handler waits).

## 4. Properties

Of a run (`RunLifecycle`): `OneExecutorPerRun` and `ThreadAgreesWithRow` together are what
makes the UPDATEs by id right; `ClaimsAreOwned`, `SettledIsFinal`, `NoBlindReplay`,
`UnknownWaitsForOperator`, `OutdatedNeverRestarts` are about all actors; `SendsBounded` counts
across crashes; `RunsSettle` is the liveness property; `ImplementsContract` the refinement.
Of the gate (`GateWatch`): `ClosedGateHolds`, within one call a thread.

Of occurrences: `MisfiresCoalesce`, `IntervalKeepsPhase`, `NeverASecondEarly`,
`ArmedWhileActive`, `CompletedHasRun`, `DueIsClaimed`, `ReplayKeepsPayload`,
`DriftFailsClosed`. Of cron: `NextIsTheFirstMatch` (against the reference `Means`),
`FailsOnlyWithoutMatch`.

Of an event: `AcceptedOnce`, `SenderIsAnswered`. Of a bots target: `SourceStaysWhole`,
`NeverBlocksItself`, `RetriesDeliver`.

Of the attachment: `HolderWorksAlone` (the lock file), `EntryHasItsFiles` (the order of the
writes, read after any crash; failing writes are in section 6), `OthersAreKept`,
`AloneDelivers` (a command that says it has succeeded has), `AloneFailureRestores` (one that
says it has failed has put the configuration back and the OS side too, except for what
`LeavesBehind` names: the entry and files an uninstall has removed, and a created file whose
clean-up raised; the saved configuration stays only if the save that puts it back raises, or
an uninstall's last one), `AttachHeals`.
Of the store: `StampedIsWhole`, `OkIsCurrent`, `StrangersUntouched`, `MigrationCompletes`.
Of the configuration: `ImplementsRegister`.

Each is commented in its module with the code it is about. For each, `PROJECT.json` names a
mutant, a plausible slip in one definition (kept beside the definition it mutates), under
which TLC finds the property violated in the same run. The type invariants of `RunLifecycle`,
`ConfigFile`, `Ingress` and `Attachment` are proved (section 5) and not run.

## 5. Proofs

`RunLifecycleProofs` proves, for every number of processes, threads, runs, automations,
triggers and attempts, in both regimes, with and without exceptions in webhook threads:

* `TypeCorrect`: `Spec => []TypeOK`. `TypeOK` is not inductive: `cur[w]` may be `NoRun`, and
  `verdict[w]` `"none"`, and a thread that wrote through those would break the table. The
  inductive invariant `TypeInv` adds `HandsFull`: at the labels of `execute_run` and
  `retry_run` a thread has a run, and at `stop` a verdict. One lemma for the steps that move
  a thread and touch no row, one for the steps that write one row (each through
  `RowUpdateType` and `TableUpdateType`), one each for `RecoverStale` and `Claim`, which write
  many rows, one for the environment.
* `ClaimsOwned`: `Spec => []ClaimsAreOwned`, from `TypeInv` (the verdict that `Terminal`
  writes is never a status in flight, because `HandsFull` says what it is) and one case for
  each action that writes `runs`.

* `ClosedGate`: `ClosedGateHolds`, in both regimes. `LeaveNeeded`, that a thread at `mark` or
  `deliver` while the gate is closed is in `grace`, is the invariant: `Edge`, the last look, is
  the only step that takes a thread to `mark` and needs an open gate, and whoever is there when
  the gate closes is in `grace` by the definition of the history. No assumption about other
  processes is needed.

The rest of the module assumes `~Concurrent`, processes one after the other. The documents go
no further than one local user and one local scheduler service (`README.md`:16), and nothing
makes a command wait its turn; `unknown_replayed` (section 6) shows what happens when one does
not, so the assumption cannot be dropped.

* `OneExecutor`, `ThreadAgrees`: `OneExecutorPerRun` and
  `ThreadAgreesWithRow`. Neither is inductive. `OwnInv` adds: at most one process lives
  (`OneLive`) and only its threads hold anything (`Quiet`), so a row in flight in somebody's
  hands names *this* process and `recover_stale` leaves it alone; a webhook thread has only
  runs in flight and the rest of a service is one thread, so nobody has the waiting retry
  that `Select` takes; a row not in flight has no owner (`Free`); a run in work is not also
  in the thread's list; `retry_run` acts in a process of its own on a run that stopped.
  `ThreadStep` says what has to be shown of a step, and there is one lemma for each kind of
  step: moves, `Select`, `RetryRun`, writes of one row, new rows, `Claim`, recovery,
  processes and edits.
* `FinalStaysFinal`, `UnknownWaits`, `EditRevokes`: `SettledIsFinal`,
  `UnknownWaitsForOperator`, `OutdatedNeverRestarts`. `RowChanges` lists the seven ways a row
  changes, each with the status it changes from; that a thread's row is as it left it
  (`OwnInv`) is what makes the list so short, and the three properties follow from it.
* `SendsAreBounded`, `NothingSentBlindly`: `SendsBounded` and
  `NoBlindReplay`, by `CountInv`: the wakes sent are among the attempts counted in the row, a
  waiting run has an attempt left, a thread between `begin` and the delivery has an attempt
  it has not used, and a wake without a verdict leaves its row `delivering`, `unknown` or
  `canceled`.
* `ContractImplemented`: `ImplementsContract`. The steps of the contract
  are restated in terms of the stages and words of runs (`Accepts`, `Sends`, `Concludes`,
  `Asks`, `Loses`, `Reopens`, `Stutters`), and each kind of step of the engine is shown to be
  one of them. Besides the invariants above it needs `ClaimsAreOwned` and that an owner is a
  process that has been started (`Booted`): then what recovery marks `unknown` belonged to a
  process that is gone, and was uncertain already. The limit of the contract is the largest
  `max_attempts`, which is assumed to exist (`Largest`: finitely many automations).

All of these rest on the assumptions stated with the constants: every worker belongs to a process
(`ProcAssumption`), a command runs on one thread and a service ticks on one
(`ThreadAssumption`), triggers belong to automations and there is at least one
(`TriggerAssumption`), policies allow an attempt (`PolicyAssumption`), `Nobody` is no process
and `NoRun` no run (`FreshAssumption`).

`OccurrencesProofs`, for every number of automations, triggers, tickers and edits, every period
and every delay of a claim:

* `IntervalAdvances`: what `advance_after_fire` computes for an interval, from division and
  remainder alone: later than now, on the phase, at least one period on, and the first such.
* `OccurrencesTypeCorrect`, `ArmedExactlyWhileActive`, `CompletionHasItsRun`,
  `MisfiresAlwaysCoalesce`, `IntervalsKeepPhase`, `NeverMuchTooEarly`. One inductive invariant
  (`OccInv`) judges each trigger with its runs and the clock (`Sound`), so that every operation
  is argued on one trigger and a tick trigger by trigger. Beyond the properties it says that a
  run's version is the trigger's or an earlier one, with its specification if it is the same
  (`Owned`); that whatever an interval has claimed, under any version, is not still to come
  (`Timely`), which is why an edit cannot make two runs of one lateness; and that the next
  instant is on the phase of the version's runs (`Phased`). A tick's time is never ahead of the
  clock (`Punctual`).
* `ReplaysKeepPayload`, by `ReceiptInv`: an event has one receipt, and who is told of a run sent
  the payload of that receipt.
* `DriftAlwaysFailsClosed`, by `KeyInv`: a keyed definition nobody has edited is what its request
  made, and an answer "existing" is about one that is there.

They rest on: a trigger belongs to one automation and has a specification, a keyed trigger is
alone in its automation, and a wake exists (`DefinitionAssumption`); instants are numbers and a
period is a positive whole number of seconds (`SpecAssumption`); the bounds are numbers
(`BoundAssumption`); and the names of nothing are none (`NamesAssumption`).

`CronProofs`, for every clock, zone, calendar and set of expressions:

* `NextIsTheFirstParsed`: between claims `next_run_at` is the first minute after the last claim
  that the parsed expression matches. `CronInv` follows the scan: what it has passed does not
  match (`ScanInv`), and its limit is where it began plus the range (`LimitInv`).
* `NextIsAlwaysFirst`, `GivesUpOnlyWithoutMatch`: `NextIsTheFirstMatch` and
  `FailsOnlyWithoutMatch`, which speak of the crontab meaning (`Means`). The lemma `Meaning` says
  that the parsed expression matches a minute if and only if the expression means it: field by
  field and item by item, with the two numbers of Sunday and the rule for two restricted day
  fields. It holds of expressions without a weekday range that begins or ends with 7, and the
  two theorems are about sets of such expressions; `CronWeekdays.cfg` (section 6) shows that the
  hypothesis is needed.

They rest on a clock with hours and minutes (`ClockAssumption`), on offsets and a calendar that
cover the minutes there are (`ZoneAssumption`), and on fields that are sets of items
(`ExprAssumption`).

`IngressProofs`: `IngressTypeCorrect` and `OneRunForAnEvent`. `AcceptedOnce` is made inductive
(`IngressInv`) by `ReceiptNamesRun`, every receipt is of a run that has this event, and by
`Carries`, what a thread is about to answer is the run of the event it handles. That
`ingest_event` writes row and receipt in one transaction is what the step of `Insert` uses. It
rests on `NoEvent` and `NoRun` being none (`AbsentAssumption`) and on the window
(`SkewAssumption`).

`BotDeliveryProofs`, for every number of runs, attempts, trees, crashes and setups:
`BotTypeCorrect`; `SourceAlwaysWhole`, made inductive (`BotInv`) by `Prepared`, a thread about to
post has found or written the whole file at the tree it will name; `NeverItsOwnObstacle`, an
action property from the same invariant; and `BotsKeepContract`, every step of the composition
is a step of `WakeContract` or invisible to it. They rest on the bounds being numbers
(`BoundAssumption`).

`StoreIdentityProofs`, for every number of commands and faults and every schema that has a
`meta` and a `runs` table (`ScriptAssumption`):

* `StoreTypeCorrect`, `StampIsHonest`, `OpenedIsCurrent`: `TypeOK`, `StampedIsWhole`,
  `OkIsCurrent`. `StoreInv` says that the file is at any moment what was found, or the whole
  current store, or, if nothing was found, what setups have made of it so far (`FileInv`); and
  of each command that what it has read so far is of the store found or of the current one
  (`HasRead`), that it stamps only what was its to stamp (`Deserved`), and how far its copy is
  (`Copied`). A classification reads at three moments with other commands between; that a
  mixture of the found and the current store is no format of the program is the heart of it
  (`Formats`).
* `OthersAreUntouched`: `StrangersUntouched`. `CurrentStays`: a store once current is current for
  ever, whoever dies.

`ConfigFileProofs`: `FilesTypeCorrect` and `RegisterImplemented`, for saves that do not overlap
(`~Overlapping`; `ConfigTorn.cfg` shows that they must not). `FileInv` says that one saver at a
time is between the open and the rename (`OneSaver`), that it holds the inode the temporary
name leads to (`SaverHasTemp`), and that nobody reads that inode and `component.json` is another
one (`TempUnread`). So truncating, writing and dying change nothing a reader can see (`Unseen`),
and the rename is the register's step.

`AttachmentProofs`, for any number of commands and trees:

* `AttachmentTypeCorrect`, `LockHolds`: `TypeOK` and `HolderWorksAlone`, with failing writes,
  edits by hand, strangers and deaths. The invariant (`AttachInv`) adds `TreesKnown`: a
  configuration with a completed setup names a tree, and so does every command at work.
  `StepLock` says what a step of a command can do to the lock files.
* `OthersKept`: `OthersAreKept` when every owner takes the lock (`~Strangers`): under the lock
  what has been read is current (`ReadIsCurrent`), by `LockHolds`. With a stranger's edit
  between the comparison and the replacement the property does not hold.
* `FilesBehindEntry`: `EntryHasItsFiles` without failing writes, edits by hand and strangers.
  `FilesInv` adds what a command relies on at each of its steps (`Behind`: the files it found
  or wrote are there, before an unlink the entry is gone) and that an install then never fails
  under the lock, so that its sweep, which works without the lock, finds nothing to remove
  (`Duty`). `InstalledFiles.cfg` shows what a failing write does, so the assumption is needed.
* `AloneAlwaysDelivers`, `AloneFailureIsUndone`: `AloneDelivers` and `AloneFailureRestores`, with
  failing writes, edits by hand, strangers, deaths and overlaps *before* the command: nothing
  is assumed of the state it begins in. `AloneInv` says that while a command is alone all
  others are idle, and follows it label by label (`Undisturbed`): where it can be (`Route`),
  what it has set out to write (`Purpose`), what `component.json` says at that point (`Paper`),
  and how entry and files of its tree compare with those it found (`Side`: a command that sets
  `enabled` has touched nothing until it replaces the entry; an install has changed what it
  has created, which was absent, and no more, so that each step of the sweep gives back what was
  there, or leaves a file of ours and is counted in `hindered`; an uninstall has the entry away
  before it takes a file, and takes only files of ours, `OnlyRemoved`). Where the way back
  raises, `Paper` keeps the configuration that was saved. One lemma for each step; a step of
  another command, a crash and an edit by hand end the tale.

They rest on `NamesAssumption` (`NoRoot` is no tree), `HolderAssumption` (a command is none
of the other holders of a lock file) and `CommandAssumption` (there are six commands).

Every safety property of the passing runs is proved. Only model-checked, because the prover
cannot do it: liveness (`RunsSettle`, `DueIsClaimed`, `SenderIsAnswered`, `RetriesDeliver`,
`AttachHeals`, `MigrationCompletes`), which rests on fairness. The counterexamples of section 6
are the model checker's as well.

## 6. Where code and documents differ

The first is a run. For the others, the command named shows the trace.

1. `unknown_replayed`. `docs/ARCHITECTURE.md`:81 says an unknown run "is never automatically
   replayed". A command that is executing a run beside the service loses it to the service's
   `recover_stale` (the owner identity differs, `engine.py`:256), which writes `unknown`; when
   its delivery fails retryably, `_maybe_retry` writes `retry_wait` over that
   (`engine.py`:199), and the next tick sends the wake again without anybody's confirmation.
2. `tlc -config FenceAtDelivery.cfg MCRunLifecycle`. `docs/ARCHITECTURE.md`:101 says an
   operator's mutation after the claim cancels it "before delivery". The fence is read when the
   attempt starts (`engine.py`:144-146); an edit that comes while the permission script runs
   does not stop the delivery of that attempt. (`OutdatedNeverRestarts` shows what does hold:
   no *further* attempt starts.)
3. `tlc -config CronWeekdays.cfg MCCron`. `README.md`:122 says "standard five-field cron". The
   weekday range `0-7` is accepted and means Sunday alone, because 7 becomes 0 before the range
   is formed (`schedule.py`:36); `5-7` is refused as wrapping.
4. `tlc -config ExactRetry.cfg MCOccurrences`. `store.py`:117-119 says "an exact retry returns
   the existing definition". `create_definition` also asks that the trigger still be active
   (`store.py`:188), so the exact retry of a one-time definition is refused as a different one
   once it has fired.
5. `tlc -config InstalledFiles.cfg MCAttachment`. `tests/test_os_extension.py`:190-192 asserts
   that an install which reports "installed" has its files. Of two `attach-os` at once the first
   creates the files and fails on a later write; the second takes the lock, finds the files
   its own, registers the entry and reports success; then the first removes "its" files
   (`os_extension.py`:497), after the lock has been released.
6. `tlc -config UninstallRebound.cfg MCAttachment`. `tests/test_os_extension.py`:181 asserts that
   the entry is not in the registry after an uninstall. `setup` overwrites `os_root` without
   detaching (`lifecycle.py`:168), and `uninstall` detaches only from the configured tree:
   setup on one tree, attach-os, setup on another, uninstall reports success and leaves the
   first tree's entry, enabled as it was, with both files.
7. `tlc -config ConfigTorn.cfg MCConfigFile`. `atomic_write_json` (`util.py`:48) is not atomic
   for two saves at once: they open one temporary name (`util.py`:52), the second truncates what
   the first has synced, and the first renames it; `component.json` is empty until the second
   writes, and the second's rename fails. If the second dies, the configuration is lost.

## 7. Plan

In the order of importance to the program.

1. `Definitions`, `RunLifecycle`: the life of a run. *Done, checked and proved.*
2. `WakeContract` and the refinement. *Done, checked and proved.*
3. `Schedule`, `Cron`: the functions and a trigger over time. *Done, checked and proved.*
4. `Occurrences`: definitions, clock, claims, events. *Done, checked and proved.*
5. `GateWatch`: what a closed gate lets through. *Done, checked and proved.*
6. `Attachment`: the lifecycle commands and the OS side. *Done, checked and proved.*
7. `ConfigFile`: a save down to its temporary file, and the abstract register. *Done, checked
   and proved.*
8. `Ingress`: a webhook event from its sender to its answer. *Done, checked and proved.*
9. `BotDelivery`: the projection file, composed with `WakeContract`. *Done, checked and
   proved.*
10. `StoreIdentity`: whose database it is, creation and migration. *Done, checked and proved.*

Theorems left, the most valuable first: how far the promises of a run hold with overlapping
processes, beyond `TypeCorrect`, `ClaimsOwned` and `ClosedGate`; that a failed write leaves an
entry without its files only by way of the sweep; the safety half of the liveness properties
(what each fair step decreases).

## 8. Not modelled, and why

* `package metadata` and the release descriptor: static data.
* What reads and changes nothing: `status`, `doctor`, `descriptor`, the lists, `do_GET`.
* Validation of fields, of the configuration's contents and of the environment: a command that
  is refused before it changes anything is a command that is not started.
* A registry entry of another state directory: it makes every command refuse, and nothing
  here changes it.
* The digest of a signature: the request is what it authenticates. A secret that changes
  between the check of a request and its transaction.
* Canonical JSON, digests and the `bounded_*` checks of `util.py`: functions of one argument.
  Contents of wakes and receipts, the layouts of the four targets' payloads, error texts; HTTP
  and subprocess details of the adapters beyond the three outcomes.
* The lengths of time (backoff, busy timeout, the stamp's 300 seconds): a retry may be due at
  any time, a writer may wait up to a bound, a window has its edges.
* A batch of triggers of which one raises: `Cron` has one trigger, and shows when it raises.

Some things are modelled as they are and look odd: `enable` after an `uninstall` sets `enabled`
in a configuration whose setup is not complete (`lifecycle.py`:195); a first setup that dies
before its stamp leaves a file that is refused for ever (`db.py`:332); a projection half written
is in the way until somebody removes it (`adapters.py`:149).
