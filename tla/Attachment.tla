------------------------------ MODULE Attachment ------------------------------
(***************************************************************************)
(* The lifecycle commands (lifecycle.py, cli.py) and the attachment of the *)
(* component to an AI-Verse OS tree (os_extension.py).  A command is a     *)
(* process of its own: it loads component.json, changes its copy, saves it *)
(* whole, and brings the OS side into line: an entry in registry.json,     *)
(* which other extensions share, and two bridge files.  The OS side is     *)
(* guarded by a lock file, component.json by nothing.                      *)
(*                                                                         *)
(* A save of component.json is one step here; module ConfigFile says when  *)
(* it is.  The database a setup and an update initialize first is module   *)
(* StoreIdentity.  A command that is refused before it changes anything is *)
(* a command that is not started.  `uninstalled` is written and never      *)
(* read, and is left out.                                                  *)
(***************************************************************************)
EXTENDS Naturals, FiniteSets

CONSTANTS
  Proc,        \* commands that run at the same time
  Root,        \* OS trees
  Target,      \* values of the target configuration
  NoTarget, NoRoot,
  Commands,    \* the commands the operator uses
  WriteFaults, \* TRUE: a save, a write or a removal may raise
  Strangers,   \* TRUE: another owner may edit the registry without the lock
  HandEdits,   \* TRUE: the bridge files may be edited or removed by hand
  LegacyMoves, \* TRUE: legacy definitions may appear and disappear
  MaxEdits,    \* bound: edits of the registry by other owners
  MaxMishaps   \* bound: deaths of commands, writes and removals that fail, edits by hand

AllCommands == {"setup", "set_enabled", "update", "uninstall", "attach", "configure"}

ASSUME NamesAssumption  == NoRoot \notin Root /\ NoTarget \in Target
ASSUME CommandAssumption == Commands \subseteq AllCommands
ASSUME RegimeAssumption == {WriteFaults, Strangers, HandEdits, LegacyMoves} \subseteq BOOLEAN
ASSUME BoundAssumption  == MaxEdits \in Nat /\ MaxMishaps \in Nat
ASSUME HolderAssumption == Proc \cap {"free", "left", "other"} = {}

VARIABLES
  config,    \* component.json
  legacy,    \* the trees in which legacy_definition_paths finds something
  registry,  \* [entry, others] of each tree: our entry, and an edit count for the rest
  lock,      \* the holder of registry.json.lock: a command, "other", "left" by the dead, or "free"
  file,      \* the bridge files of each tree: "absent", "ours" or "changed"
  job,       \* what each command holds
  mishaps    \* how many there have been

vars == <<config, legacy, registry, lock, file, job, mishaps>>

-----------------------------------------------------------------------------
Bridge  == {"engine", "instructions"}

Flag(b) == IF b THEN "on" ELSE "off"

\* component.json, or the defaults load_config returns without one.
DefaultConfig == [made |-> FALSE, setup |-> FALSE, enabled |-> FALSE, root |-> NoRoot,
                  migrate |-> FALSE, target |-> NoTarget]

Ours(r)     == {f \in Bridge : file[r][f] = "ours"}
Attached(r) == registry[r].entry # "none"

\* inspect_os_extension, for the tree a configuration names.
Consistent(c) ==
  \/ c.root = NoRoot
  \/ ~Attached(c.root) /\ Ours(c.root) = {}
  \/ registry[c.root].entry = Flag(c.enabled) /\ Ours(c.root) = Bridge

\* migration_authority of the configuration that has been loaded.
MigrationRequired(c) == c.migrate \/ c.root \in legacy

Idle == [pc |-> "idle", cmd |-> "none", root |-> NoRoot, before |-> DefaultConfig,
         next |-> DefaultConfig, seen |-> [entry |-> "none", others |-> 0], mine |-> {},
         failed |-> FALSE, hindered |-> FALSE, alone |-> FALSE,
         was |-> [entry |-> "none", file |-> [f \in Bridge |-> "absent"]]]

At(p, l) == job[p].pc = l
Busy(p)  == ~At(p, "idle")
TreeOf(p) == job[p].root

Goto(p, l) == job' = [job EXCEPT ![p].pc = l]

Mishap == mishaps < MaxMishaps /\ mishaps' = mishaps + 1

\* A save, a write or a removal raises.
Raises == WriteFaults /\ Mishap

-----------------------------------------------------------------------------
(***************************************************************************)
(* A command begins: it loads the configuration and works out what it will *)
(* save.  `was` is a history of the OS side it found; `alone` stays TRUE   *)
(* while no other command and no edit by hand falls into its run;          *)
(* `hindered` becomes TRUE when something fails that nothing makes up for. *)
(***************************************************************************)
Snapshot(r) ==
  IF r = NoRoot THEN Idle.was ELSE [entry |-> registry[r].entry, file |-> file[r]]

Overtaken(j) == [j EXCEPT !.alone = FALSE, !.was = Idle.was]

Begin(p, command, r, next, l) ==
  LET started == [Idle EXCEPT !.pc = l, !.cmd = command, !.root = r, !.before = config,
                              !.next = next, !.was = Snapshot(r), !.alone = TRUE]
  IN
  /\ At(p, "idle") /\ command \in Commands
  /\ job' = [q \in Proc |->
       IF q # p THEN Overtaken(job[q])
       ELSE IF \E o \in Proc \ {p} : Busy(o) THEN Overtaken(started) ELSE started]
  /\ UNCHANGED <<config, legacy, registry, lock, file, mishaps>>

\* Forgets what was configured before.
SetupFromDefaults(r, enable) ==
  [DefaultConfig EXCEPT !.made = TRUE, !.setup = TRUE, !.root = r,
                        !.migrate = r \in legacy, !.enabled = enable /\ r \notin legacy]

SetupConfig(r, enable) ==
  [config EXCEPT !.made = TRUE, !.setup = TRUE, !.root = r,
                 !.migrate = r \in legacy, !.enabled = enable /\ r \notin legacy]

Setup(p) == \E r \in Root, enable \in BOOLEAN : Begin(p, "setup", r, SetupConfig(r, enable), "save")

SetEnabled(p) ==
  /\ config.made
  /\ \E b \in BOOLEAN :
       /\ b => ~MigrationRequired(config)
       /\ Begin(p, "set_enabled", config.root, [config EXCEPT !.enabled = b], "save")

Update(p) == config.made /\ Begin(p, "update", NoRoot, config, "save")

Uninstall(p) ==
  /\ config.made
  /\ Begin(p, "uninstall", config.root, [config EXCEPT !.enabled = FALSE], "save")

ConfigureTarget(p) ==
  /\ config.made
  /\ \E t \in Target : Begin(p, "configure", NoRoot, [config EXCEPT !.target = t], "save")

\* install_os_extension: bound to this tree; `enabled` is read before the lock.
\* The two reads of the configuration, for the binding and for the flag, are one.
AttachOs(p) ==
  /\ config.made /\ config.setup
  /\ Begin(p, "attach", config.root, config, "lock")

-----------------------------------------------------------------------------
(***************************************************************************)
(* The configuration.                                                      *)
(***************************************************************************)
Save(p) ==
  /\ At(p, "save")
  /\ \/ /\ config' = job[p].next
        /\ Goto(p, IF job[p].cmd \in {"update", "configure"} THEN "ok" ELSE "inspect")
        /\ UNCHANGED mishaps
     \/ Raises /\ Goto(p, "failed") /\ UNCHANGED config
  /\ UNCHANGED <<legacy, registry, lock, file>>

\* Ends with an error, and leaves behind what it has done so far.
Abandon(p) == Raises /\ job' = [job EXCEPT ![p].pc = "failed", ![p].hindered = TRUE]

\* Leaves the configuration as the command had changed it.
RollbackNothing(p) ==
  /\ At(p, "rollback")
  /\ Goto(p, "failed")
  /\ UNCHANGED <<config, legacy, registry, lock, file, mishaps>>

\* The copy loaded at the start is saved whole, and as a file: the defaults of
\* a setup that found none are no empty dict.  Nothing catches what this save
\* raises.
Rollback(p) ==
  /\ At(p, "rollback")
  /\ \/ /\ config' = [job[p].before EXCEPT !.made = TRUE]
        /\ Goto(p, "failed") /\ UNCHANGED mishaps
     \/ Abandon(p) /\ UNCHANGED config
  /\ UNCHANGED <<legacy, registry, lock, file>>

\* The last save of an uninstall: the OS side is detached by now, and stays so.
Finish(p) ==
  /\ At(p, "finish")
  /\ \/ /\ config' = [job[p].next EXCEPT !.setup = FALSE]
        /\ Goto(p, "ok") /\ UNCHANGED mishaps
     \/ Abandon(p) /\ UNCHANGED config
  /\ UNCHANGED <<legacy, registry, lock, file>>

\* attachment_authority, asked without the lock.
Finding(r) ==
  IF r = NoRoot THEN "nothing"
  ELSE IF Attached(r) THEN "entry"
  ELSE IF Ours(r) # {} THEN "stray" ELSE "nothing"

\* _sync_attachment_enabled and _detach_attachment: stray files are removed by
\* an uninstall, and an error for the rest.
Inspect(p) ==
  LET uninstalls == job[p].cmd = "uninstall" IN
  /\ At(p, "inspect")
  /\ Goto(p, CASE Finding(TreeOf(p)) = "nothing" -> (IF uninstalls THEN "finish" ELSE "ok")
              [] Finding(TreeOf(p)) = "stray"   -> (IF uninstalls THEN "lock" ELSE "rollback")
              [] Finding(TreeOf(p)) = "entry"   -> "lock")
  /\ UNCHANGED <<config, legacy, registry, lock, file, mishaps>>

-----------------------------------------------------------------------------
(***************************************************************************)
(* Under the lock.                                                         *)
(***************************************************************************)
AfterFailure(p) == IF job[p].cmd = "attach" THEN "sweep" ELSE "rollback"

\* Created without O_EXCL: whoever holds the lock goes unnoticed.
MayTakeHeld(r) == TRUE

MayTake(r) == lock[r] = "free"

\* Removes the lock file on the way out, acquired or not.
UnlockOnBusy(p) == "unlock"

AfterBusy(p) == AfterFailure(p)

\* The lock is tried once, and may not be to be had, or fail to be written;
\* with it, the registry and the files are read.  `mine` is the files this
\* command will remove: those detach found to be its own, those install has
\* created.
Lock(p) ==
  LET r == TreeOf(p) IN
  /\ At(p, "lock")
  /\ \/ /\ MayTake(r)
        /\ lock' = [lock EXCEPT ![r] = p]
        /\ job' = [job EXCEPT ![p].pc = "locked", ![p].seen = registry[r],
                              ![p].mine = IF job[p].cmd = "attach" THEN {} ELSE Ours(r)]
        /\ UNCHANGED mishaps
     \/ /\ Raises \/ (~MayTake(r) /\ UNCHANGED mishaps)
        /\ job' = [job EXCEPT ![p].pc = AfterBusy(p), ![p].failed = TRUE]
        /\ UNCHANGED lock
  /\ UNCHANGED <<config, legacy, registry, file>>

Release(p) == job' = [job EXCEPT ![p].pc = "unlock"]
GiveUp(p)  == job' = [job EXCEPT ![p].pc = "unlock", ![p].failed = TRUE]

Fault(p) == Raises /\ GiveUp(p)

\* sync_os_extension_enabled.
Sync(p) ==
  LET r == TreeOf(p)  entry == job[p].seen.entry  want == Flag(job[p].next.enabled) IN
  /\ At(p, "locked") /\ job[p].cmd \in {"setup", "set_enabled"}
  /\ \/ entry = "none" /\ Release(p)
     \/ entry # "none" /\ Ours(r) # Bridge /\ GiveUp(p)
     \/ entry # "none" /\ Ours(r) = Bridge /\ entry = want /\ Release(p)
     \/ entry # "none" /\ Ours(r) = Bridge /\ entry # want /\ Goto(p, "compare")
  /\ UNCHANGED <<config, legacy, registry, lock, file, mishaps>>

\* Removes the files and forgets the entry.
FilesOnly(p) == "unlink"

\* The entry goes first, then the files.
DetachFrom(p) == IF job[p].seen.entry # "none" THEN "compare" ELSE "unlink"

\* detach_os_extension, up to the registry.
Detach(p) ==
  /\ At(p, "locked") /\ job[p].cmd = "uninstall"
  /\ IF \E f \in Bridge : file[TreeOf(p)][f] = "changed" THEN GiveUp(p) ELSE Goto(p, DetachFrom(p))
  /\ UNCHANGED <<config, legacy, registry, lock, file, mishaps>>

\* Takes its own file for a stranger's.
RefusesAny(r, f) == file[r][f] # "absent"

RefusesFile(r, f) == file[r][f] = "changed"

\* _write_owned_file of install_os_extension: a file that is there and ours
\* stays, a file that is not ours is an error.
Materialize(p, f, here, onward) ==
  LET r == TreeOf(p) IN
  /\ At(p, here) /\ job[p].cmd = "attach"
  /\ \/ /\ file[r][f] = "absent"
        /\ file' = [file EXCEPT ![r][f] = "ours"]
        /\ job' = [job EXCEPT ![p].pc = onward, ![p].mine = @ \cup {f}]
        /\ UNCHANGED mishaps
     \/ file[r][f] # "absent" /\ ~RefusesFile(r, f) /\ Goto(p, onward) /\ UNCHANGED <<file, mishaps>>
     \/ RefusesFile(r, f) /\ GiveUp(p) /\ UNCHANGED <<file, mishaps>>
     \/ file[r][f] = "absent" /\ Fault(p) /\ UNCHANGED file
  /\ UNCHANGED <<config, legacy, registry, lock>>

WriteInstructions(p) == Materialize(p, "instructions", "locked", "engine")
WriteEngine(p) == Materialize(p, "engine", "engine", "entry")

\* The entry of an attachment.
WriteEntry(p) ==
  /\ At(p, "entry")
  /\ IF job[p].seen.entry = Flag(job[p].next.enabled) THEN Release(p) ELSE Goto(p, "compare")
  /\ UNCHANGED <<config, legacy, registry, lock, file, mishaps>>

\* _write_registry: the text must still be the one that was read ...
Compare(p) ==
  /\ At(p, "compare")
  /\ \/ registry[TreeOf(p)] = job[p].seen /\ Goto(p, "replace") /\ UNCHANGED mishaps
     \/ registry[TreeOf(p)] # job[p].seen /\ GiveUp(p) /\ UNCHANGED mishaps
     \/ Fault(p)
  /\ UNCHANGED <<config, legacy, registry, lock, file>>

\* ... and the new one is built from the document read under the lock.
Replace(p) ==
  LET entry == IF job[p].cmd = "uninstall" THEN "none" ELSE Flag(job[p].next.enabled) IN
  /\ At(p, "replace")
  /\ registry' = [registry EXCEPT ![TreeOf(p)] = [entry |-> entry, others |-> job[p].seen.others]]
  /\ Goto(p, IF job[p].cmd = "uninstall" THEN "unlink" ELSE "unlock")
  /\ UNCHANGED <<config, legacy, lock, file, mishaps>>

\* The engine goes first.
FirstOf(files) == IF "engine" \in files THEN "engine" ELSE "instructions"

Unlink(p) ==
  LET r == TreeOf(p)  f == FirstOf(job[p].mine) IN
  /\ At(p, "unlink")
  /\ \/ job[p].mine = {} /\ Release(p) /\ UNCHANGED <<file, mishaps>>
     \/ /\ job[p].mine # {} /\ file[r][f] # "absent"
        /\ file' = [file EXCEPT ![r][f] = "absent"]
        /\ job' = [job EXCEPT ![p].mine = @ \ {f}]
        /\ UNCHANGED mishaps
     \/ /\ job[p].mine # {} /\ file[r][f] = "absent"
        /\ GiveUp(p) /\ UNCHANGED <<file, mishaps>>
     \/ job[p].mine # {} /\ Fault(p) /\ UNCHANGED file
  /\ UNCHANGED <<config, legacy, registry, lock>>

\* A lock file that cannot be removed is passed over: it stays, with no holder.
Unlock(p) ==
  /\ At(p, "unlock")
  /\ \/ lock' = [lock EXCEPT ![TreeOf(p)] = "free"] /\ UNCHANGED mishaps
     \/ Raises /\ lock' = [lock EXCEPT ![TreeOf(p)] = "left"]
  /\ job' = [job EXCEPT ![p].seen = Idle.seen,
        ![p].pc = IF job[p].failed THEN AfterFailure(p)
                  ELSE IF job[p].cmd = "uninstall" THEN "finish" ELSE "ok"]
  /\ UNCHANGED <<config, legacy, registry, file>>

\* An install that failed removes what it had created, the lock released.  A
\* file that cannot be removed is passed over, and stays.
Sweep(p) ==
  LET f == FirstOf(job[p].mine) IN
  /\ At(p, "sweep")
  /\ \/ job[p].mine = {} /\ Goto(p, "failed") /\ UNCHANGED <<file, mishaps>>
     \/ /\ job[p].mine # {}
        /\ file' = [file EXCEPT ![TreeOf(p)][f] = "absent"]
        /\ job' = [job EXCEPT ![p].mine = @ \ {f}]
        /\ UNCHANGED mishaps
     \/ /\ job[p].mine # {} /\ Raises
        /\ job' = [job EXCEPT ![p].mine = @ \ {f}, ![p].hindered = TRUE]
        /\ UNCHANGED file
  /\ UNCHANGED <<config, legacy, registry, lock>>

Return(p) ==
  /\ job[p].pc \in {"ok", "failed"}
  /\ job' = [job EXCEPT ![p] = Idle]
  /\ UNCHANGED <<config, legacy, registry, lock, file, mishaps>>

-----------------------------------------------------------------------------
(***************************************************************************)
(* The command dies; the lock file stays.  Nothing in the code removes a   *)
(* lock that was left: the operator does.                                  *)
(***************************************************************************)
Crash(p) ==
  /\ job[p].pc \notin {"idle", "ok", "failed"}
  /\ Mishap
  /\ lock' = [r \in Root |-> IF lock[r] = p THEN "left" ELSE lock[r]]
  /\ job' = [job EXCEPT ![p] = Idle]
  /\ UNCHANGED <<config, legacy, registry, file>>

ClearLock(r) ==
  /\ lock[r] = "left"
  /\ lock' = [lock EXCEPT ![r] = "free"]
  /\ UNCHANGED <<config, legacy, registry, file, job, mishaps>>

\* Other owners of extensions keep their own entries in the same registry.
OtherLocks(r) ==
  /\ lock[r] = "free" /\ registry[r].others < MaxEdits
  /\ lock' = [lock EXCEPT ![r] = "other"]
  /\ UNCHANGED <<config, legacy, registry, file, job, mishaps>>

OtherUnlocks(r) ==
  /\ lock[r] = "other"
  /\ registry' = [registry EXCEPT ![r].others = @ + 1]
  /\ lock' = [lock EXCEPT ![r] = "free"]
  /\ UNCHANGED <<config, legacy, file, job, mishaps>>

OtherEdits(r) ==
  /\ Strangers /\ registry[r].others < MaxEdits
  /\ registry' = [registry EXCEPT ![r].others = @ + 1]
  /\ UNCHANGED <<config, legacy, lock, file, job, mishaps>>

EditByHand(r, f, content) ==
  /\ HandEdits /\ file[r][f] # content /\ Mishap
  /\ file' = [file EXCEPT ![r][f] = content]
  /\ job' = [q \in Proc |-> Overtaken(job[q])]
  /\ UNCHANGED <<config, legacy, registry, lock>>

MoveLegacy(r) ==
  /\ LegacyMoves
  /\ legacy' = IF r \in legacy THEN legacy \ {r} ELSE legacy \cup {r}
  /\ UNCHANGED <<config, registry, lock, file, job, mishaps>>

-----------------------------------------------------------------------------
Init ==
  /\ config = DefaultConfig
  /\ legacy = {}
  /\ registry = [r \in Root |-> [entry |-> "none", others |-> 0]]
  /\ lock = [r \in Root |-> "free"]
  /\ file = [r \in Root |-> [f \in Bridge |-> "absent"]]
  /\ job = [p \in Proc |-> Idle]
  /\ mishaps = 0

Start(p) ==
  \/ Setup(p) \/ SetEnabled(p) \/ Update(p) \/ Uninstall(p) \/ ConfigureTarget(p) \/ AttachOs(p)

Proceed(p) ==
  \/ Save(p) \/ Inspect(p) \/ Lock(p) \/ Sync(p) \/ Detach(p) \/ WriteInstructions(p)
  \/ WriteEngine(p) \/ WriteEntry(p) \/ Compare(p) \/ Replace(p) \/ Unlink(p) \/ Unlock(p)
  \/ Sweep(p) \/ Rollback(p) \/ Finish(p) \/ Return(p)

Outside(r) ==
  \/ ClearLock(r) \/ OtherLocks(r) \/ OtherUnlocks(r) \/ OtherEdits(r) \/ MoveLegacy(r)
  \/ \E f \in Bridge, content \in {"absent", "changed"} : EditByHand(r, f, content)

Next == (\E p \in Proc : Start(p) \/ Proceed(p) \/ Crash(p)) \/ (\E r \in Root : Outside(r))

Spec == Init /\ [][Next]_vars

-----------------------------------------------------------------------------
(***************************************************************************)
(* What holds.                                                             *)
(***************************************************************************)
Locked == {"locked", "engine", "entry", "compare", "replace", "unlink", "unlock"}
Labels == Locked \cup {"idle", "save", "inspect", "lock", "rollback", "finish", "sweep",
                       "ok", "failed"}

Configs  == [made : BOOLEAN, setup : BOOLEAN, enabled : BOOLEAN, root : Root \cup {NoRoot},
             migrate : BOOLEAN, target : Target]
Entries  == {"none", "on", "off"}
Contents == [Bridge -> {"absent", "ours", "changed"}]
Texts    == [entry : Entries, others : Nat]

\* The files, the registry, the lock and the commands have the shape the code
\* gives them.
TypeOK ==
  /\ config \in Configs
  /\ legacy \in SUBSET Root
  /\ registry \in [Root -> Texts]
  /\ lock \in [Root -> Proc \cup {"free", "left", "other"}]
  /\ file \in [Root -> Contents]
  /\ job \in [Proc -> [pc : Labels, cmd : Commands \cup {"none"}, root : Root \cup {NoRoot},
                       before : Configs, next : Configs, seen : Texts, mine : SUBSET Bridge,
                       failed : BOOLEAN, hindered : BOOLEAN, alone : BOOLEAN,
                       was : [entry : Entries, file : Contents]]]
  /\ mishaps \in Nat

\* A command that works on a tree under the lock is the holder of its lock
\* file, whoever else tried, died or was cleared away: no two commands, and no
\* other owner, read and write one registry at the same time.
HolderWorksAlone == \A p \in Proc : job[p].pc \in Locked => lock[TreeOf(p)] = p

\* The order of the writes, read at any moment and so after any crash: a tree
\* that has our entry has both bridge files.  install writes the files first,
\* detach removes the entry first, and no second command comes between.
EntryHasItsFiles == \A r \in Root : Attached(r) => Ours(r) = Bridge

\* What a command tells the operator when it returns without an error.
Delivered(p) ==
  LET j == job[p]
      OnlyIn(field) == config = [j.before EXCEPT ![field] = config[field]]
  IN
  CASE j.cmd = "setup" ->
         /\ config.setup /\ config.root = j.root /\ config.target = j.before.target
         /\ Consistent(config)
    [] j.cmd = "set_enabled" -> OnlyIn("enabled") /\ Consistent(config)
    [] j.cmd = "configure"   -> OnlyIn("target")
    [] j.cmd = "attach"      -> config = j.before /\ Attached(j.root) /\ Consistent(config)
    [] j.cmd = "uninstall"   ->
         /\ config = [j.before EXCEPT !.enabled = FALSE, !.setup = FALSE]
         /\ j.root # NoRoot => ~Attached(j.root) /\ Ours(j.root) = {}
    [] OTHER                 -> config = j.before

\* A command that no other command overlapped, and that reports success, has
\* done what it says, whole: its own settings are in component.json, all the
\* others are as they were, and registry, files and configuration agree, also
\* where earlier commands crashed half way or had overlapped.
AloneDelivers == \A p \in Proc : At(p, "ok") /\ job[p].alone => Delivered(p)

\* What a command that fails may have changed on the OS side: an uninstall that
\* stops after the entry leaves its files, or some, and no entry; an attach whose
\* own clean-up fails leaves a file it has created.
LeavesBehind(j) ==
  LET entry == registry[j.root].entry IN
  /\ entry = j.was.entry \/ (j.cmd = "uninstall" /\ entry = "none")
  /\ \A f \in Bridge :
       LET before == j.was.file[f]  after == file[j.root][f] IN
       \/ after = before
       \/ j.cmd = "uninstall" /\ entry = "none" /\ before = "ours" /\ after = "absent"
       \/ j.cmd = "attach" /\ j.hindered /\ before = "absent" /\ after = "ours"

\* A command that no other command overlapped, and that reports an error, has
\* put the configuration back, and the OS side is as it was, but for what a
\* removal cannot take back.  Only where the way back failed in its turn does
\* the configuration it had saved stay, whole, and a created file.
AloneFailureRestores ==
  \A p \in Proc : At(p, "failed") /\ job[p].alone =>
    LET j == job[p]  stays == IF j.hindered THEN j.next ELSE j.before IN
    /\ [config EXCEPT !.made = TRUE] = [stays EXCEPT !.made = TRUE]
    /\ j.root # NoRoot => LeavesBehind(j)

\* What another owner has written under the lock is never undone by ours.
OthersAreKept == [][\A r \in Root : registry'[r].others >= registry[r].others]_vars

\* What tests/test_os_extension.py asserts of an attach that reports
\* "installed": the two files are there.
InstalledHasFiles ==
  \A p \in Proc : At(p, "ok") /\ job[p].cmd = "attach" => Ours(TreeOf(p)) = Bridge

\* What the same tests assert of an uninstall: no registry has the entry any
\* more.
UninstallDetaches ==
  \A p \in Proc : At(p, "ok") /\ job[p].cmd = "uninstall" /\ job[p].alone =>
    \A r \in Root : ~Attached(r)

-----------------------------------------------------------------------------
(***************************************************************************)
(* Repair.  Commands end (no step waits), other owners give the lock back, *)
(* the operator removes a lock file that was left and goes on attaching,   *)
(* and a lock that is free again and again is found free some time.        *)
(***************************************************************************)
Fairness ==
  /\ \A p \in Proc : WF_vars(Proceed(p)) /\ SF_vars(AttachOs(p))
                     /\ SF_vars(At(p, "lock") /\ lock[TreeOf(p)] = "free" /\ Lock(p))
  /\ \A r \in Root : WF_vars(ClearLock(r)) /\ WF_vars(OtherUnlocks(r))

FairSpec == Spec /\ Fairness

\* Wherever crashes, failed writes and edits by hand left the two sides, they
\* agree again and again, unless a bridge file is left as somebody changed it:
\* that one is never overwritten.
AttachHeals ==
  <>[](\A r \in Root, f \in Bridge : file[r][f] # "changed") => []<>Consistent(config)
=============================================================================
