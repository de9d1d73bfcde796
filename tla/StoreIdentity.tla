----------------------------- MODULE StoreIdentity -----------------------------
(***************************************************************************)
(* Whose store automations.db is (db.py): initialize creates, adopts,      *)
(* migrates or refuses it, connect and integrity_check open it.  Commands  *)
(* are processes; any number may run at the same time, and any may die, or *)
(* have a statement fail, at any point.                                    *)
(*                                                                         *)
(* A statement outside a transaction is a step of its own.  Statements     *)
(* inside BEGIN IMMEDIATE ... COMMIT work on a copy that COMMIT publishes; *)
(* they are steps too, because the process may die between them.  The      *)
(* rows of the tables other than meta are left out.                        *)
(***************************************************************************)
EXTENDS Naturals, Sequences, SequencesExt

CONSTANTS
  Proc,       \* commands that run at the same time
  Script,     \* the objects SCHEMA creates, in order
  MaxFaults   \* bound: commands that die, and statements that fail

ASSUME ScriptAssumption == Script \in Seq(STRING) /\ {"meta", "runs"} \subseteq ToSet(Script)
ASSUME FaultAssumption  == MaxFaults \in Nat
ASSUME WriterAssumption == "none" \notin Proc

VARIABLES
  store,   \* the file
  origin,  \* history: what the file was before the first command
  writer,  \* the process inside BEGIN IMMEDIATE, or "none"
  job,     \* what each process holds
  faults

vars == <<store, origin, writer, job, faults>>

-----------------------------------------------------------------------------
(***************************************************************************)
(* Stores.  `objects` are those of SCHEMA that exist, `alien` is any other *)
(* object; `column` is runs.claim_owner; `version` and `owner` are the two *)
(* rows of meta, `app` and `user` the two integers of the file header.     *)
(***************************************************************************)
Object == ToSet(Script)

Nothing == [empty |-> TRUE, objects |-> {}, alien |-> FALSE, column |-> FALSE,
            version |-> "none", owner |-> "none", app |-> "zero", user |-> "zero"]

Current == [empty |-> FALSE, objects |-> Object, alien |-> FALSE, column |-> TRUE,
            version |-> "2", owner |-> "ours", app |-> "ours", user |-> "ours"]

UnmarkedV2 == [Current EXCEPT !.owner = "none", !.app = "zero", !.user = "zero"]
UnmarkedV1 == [UnmarkedV2 EXCEPT !.column = FALSE, !.version = "1"]

Marks(s)   == <<s.version, s.owner, s.app, s.user>>
Stamped(s) == s.owner = "ours" /\ s.app = "ours" /\ s.user = "ours" /\ s.version = "2"

\* _schema_signature, against the two signatures that are known.
Signature(s) ==
  IF s.alien \/ s.objects # Object THEN "foreign" ELSE IF s.column THEN "current" ELSE "v1"

\* Takes a store for its own by the version alone.
ClassifiedByVersion(signature, version, owner, header, allowLegacy) ==
  CASE signature = "current" /\ header = <<"ours", "ours">> /\ version = "2" -> "current"
    [] signature = "current" /\ allowLegacy /\ version = "2" -> "legacy-v2-unmarked"
    [] signature = "v1" /\ allowLegacy /\ version = "1" -> "legacy-v1"
    [] OTHER -> "refused"

\* Looks at the marks and not at the tables.
ClassifiedByMarks(signature, version, owner, header, allowLegacy) ==
  CASE header = <<"ours", "ours">> /\ version = "2" /\ owner = "ours" -> "current"
    [] signature = "current" /\ allowLegacy /\ header = <<"zero", "zero">>
         /\ version = "2" /\ owner = "none" -> "legacy-v2-unmarked"
    [] signature = "v1" /\ allowLegacy /\ header = <<"zero", "zero">>
         /\ version = "1" /\ owner = "none" -> "legacy-v1"
    [] OTHER -> "refused"

Classified(signature, version, owner, header, allowLegacy) ==
  CASE signature = "current" /\ header = <<"ours", "ours">>
         /\ version = "2" /\ owner = "ours" -> "current"
    [] signature = "current" /\ allowLegacy /\ header = <<"zero", "zero">>
         /\ version = "2" /\ owner = "none" -> "legacy-v2-unmarked"
    [] signature = "v1" /\ allowLegacy /\ header = <<"zero", "zero">>
         /\ version = "1" /\ owner = "none" -> "legacy-v1"
    [] OTHER -> "refused"

Idle == [pc |-> "idle", cmd |-> "none", allow |-> FALSE, done |-> 0, kind |-> "none",
         signature |-> "none", version |-> "none", owner |-> "none", copy |-> Nothing]

At(p, l)   == job[p].pc = l
Goto(p, l) == job' = [job EXCEPT ![p].pc = l]

-----------------------------------------------------------------------------
\* initialize: a file that is absent or has no bytes is fresh.
Initialize(p) ==
  /\ At(p, "idle")
  /\ job' = [job EXCEPT ![p] = [Idle EXCEPT !.cmd = "initialize", !.allow = ~store.empty,
                                            !.pc = IF store.empty THEN "script" ELSE "signature"]]
  /\ UNCHANGED <<store, origin, writer, faults>>

\* connect, and integrity_check, which reads the same and hands nothing on.
Open(p) ==
  /\ At(p, "idle")
  /\ \E command \in {"connect", "check"} :
       job' = [job EXCEPT ![p] = [Idle EXCEPT !.cmd = command,
                                              !.pc = IF store.empty THEN "refused" ELSE "signature"]]
  /\ UNCHANGED <<store, origin, writer, faults>>

\* executescript(SCHEMA): the first PRAGMA gives the file its header, every
\* CREATE ... IF NOT EXISTS commits by itself.
Created(s, n) ==
  IF n = 0 THEN [s EXCEPT !.empty = FALSE]
  ELSE [s EXCEPT !.objects = @ \cup {Script[n]},
                 !.column = @ \/ (Script[n] = "runs" /\ "runs" \notin s.objects)]

RunScript(p) ==
  /\ At(p, "script") /\ writer = "none"
  /\ store' = Created(store, job[p].done)
  /\ job' = [job EXCEPT ![p].done = @ + 1,
                        ![p].pc = IF job[p].done = Len(Script) THEN "begin" ELSE "script"]
  /\ UNCHANGED <<origin, writer, faults>>

\* _classify_store reads tables, meta and header one after the other, outside
\* a transaction.
ReadSignature(p) ==
  /\ At(p, "signature")
  /\ IF Signature(store) = "foreign"
     THEN Goto(p, "refused")
     ELSE job' = [job EXCEPT ![p].signature = Signature(store), ![p].pc = "meta"]
  /\ UNCHANGED <<store, origin, writer, faults>>

ReadMeta(p) ==
  /\ At(p, "meta")
  /\ job' = [job EXCEPT ![p].version = store.version, ![p].owner = store.owner, ![p].pc = "header"]
  /\ UNCHANGED <<store, origin, writer, faults>>

Verdict(p) ==
  Classified(job[p].signature, job[p].version, job[p].owner, <<store.app, store.user>>, job[p].allow)

\* The header, and with it the verdict.  A prior format is stamped, and what
\* initialize has stamped is classified again.
ReadHeader(p) ==
  /\ At(p, "header")
  /\ job' = [job EXCEPT ![p].kind = Verdict(p), ![p].allow = FALSE,
       ![p].pc = CASE Verdict(p) = "refused" -> "refused"
                   [] Verdict(p) = "current" ->
                        IF job[p].cmd = "initialize" /\ job[p].allow THEN "signature" ELSE "ok"
                   [] OTHER -> "begin"]
  /\ UNCHANGED <<store, origin, writer, faults>>

-----------------------------------------------------------------------------
(***************************************************************************)
(* _stamp_current_identity.                                                *)
(***************************************************************************)
\* Without IMMEDIATE the lock would be taken with the first write.
BeginUnlocked(p) ==
  /\ At(p, "begin")
  /\ writer' = p
  /\ job' = [job EXCEPT ![p].copy = store, ![p].pc = "alter"]
  /\ UNCHANGED <<store, origin, faults>>

Begin(p) ==
  /\ At(p, "begin") /\ writer = "none"
  /\ writer' = p
  /\ job' = [job EXCEPT ![p].copy = store, ![p].pc = "alter"]
  /\ UNCHANGED <<store, origin, faults>>

\* Without BEGIN: every statement is committed at once.
StatementAtOnce(p, here, new, onward) ==
  /\ At(p, here)
  /\ job' = [job EXCEPT ![p].copy = new, ![p].pc = onward]
  /\ store' = new
  /\ UNCHANGED <<origin, writer, faults>>

Statement(p, here, new, onward) ==
  /\ At(p, here)
  /\ job' = [job EXCEPT ![p].copy = new, ![p].pc = onward]
  /\ UNCHANGED <<store, origin, writer, faults>>

\* Stamps a v1 store without migrating it.
AlterNothing(p) == Statement(p, "alter", job[p].copy, "version")

\* ALTER TABLE fails on a column that is there: another migration was first.
AlterRuns(p) ==
  /\ job[p].kind = "legacy-v1" => ~job[p].copy.column
  /\ Statement(p, "alter", [job[p].copy EXCEPT !.column = @ \/ job[p].kind = "legacy-v1"], "version")

StampVersion(p) == Statement(p, "version", [job[p].copy EXCEPT !.version = "2"], "owner")
StampOwner(p)   == Statement(p, "owner", [job[p].copy EXCEPT !.owner = "ours"], "app")
StampApp(p)     == Statement(p, "app", [job[p].copy EXCEPT !.app = "ours"], "user")
StampUser(p)    == Statement(p, "user", [job[p].copy EXCEPT !.user = "ours"], "commit")

Commit(p) ==
  /\ At(p, "commit")
  /\ store' = job[p].copy
  /\ writer' = "none"
  /\ job' = [job EXCEPT ![p].pc = "signature", ![p].allow = FALSE, ![p].copy = Nothing]
  /\ UNCHANGED <<origin, faults>>

Rollback(p) ==
  /\ At(p, "alter") /\ job[p].kind = "legacy-v1" /\ job[p].copy.column
  /\ writer' = "none"
  /\ job' = [job EXCEPT ![p] = [Idle EXCEPT !.pc = "refused", !.cmd = job[p].cmd]]
  /\ UNCHANGED <<store, origin, faults>>

Return(p) ==
  /\ job[p].pc \in {"ok", "refused"}
  /\ job' = [job EXCEPT ![p] = Idle]
  /\ UNCHANGED <<store, origin, writer, faults>>

\* The process dies, or a statement raises (the busy timeout has passed, the
\* disk is full): what was not committed is gone.
Abort(p) ==
  /\ faults < MaxFaults
  /\ job[p].pc \notin {"idle", "ok", "refused"}
  /\ faults' = faults + 1
  /\ writer' = IF writer = p THEN "none" ELSE writer
  /\ job' = [job EXCEPT ![p] = Idle]
  /\ UNCHANGED <<store, origin>>

-----------------------------------------------------------------------------
(***************************************************************************)
(* What a command may find: nothing, the three formats of the program,     *)
(* half of a setup, and stores that are damaged or somebody else's.        *)
(***************************************************************************)
Priors == {UnmarkedV1, UnmarkedV2}

Strangers ==
  {[Nothing EXCEPT !.empty = FALSE, !.alien = TRUE],
   [Nothing EXCEPT !.empty = FALSE],
   [Current EXCEPT !.alien = TRUE],
   [Current EXCEPT !.version = "other"],
   [Current EXCEPT !.owner = "other"],
   [UnmarkedV2 EXCEPT !.owner = "other"],
   [UnmarkedV2 EXCEPT !.app = "other"],
   [UnmarkedV2 EXCEPT !.version = "none"],
   [UnmarkedV1 EXCEPT !.version = "2"],
   [Current EXCEPT !.column = FALSE]}
    \cup {[Current EXCEPT !.objects = @ \ {o}] : o \in Object \ {"meta"}}

Init ==
  /\ store \in {Nothing, Current} \cup Priors \cup Strangers
  /\ origin = store
  /\ writer = "none"
  /\ job = [p \in Proc |-> Idle]
  /\ faults = 0

Proceed(p) ==
  \/ RunScript(p) \/ ReadSignature(p) \/ ReadMeta(p) \/ ReadHeader(p)
  \/ Begin(p) \/ AlterRuns(p) \/ StampVersion(p) \/ StampOwner(p) \/ StampApp(p) \/ StampUser(p)
  \/ Commit(p) \/ Rollback(p) \/ Return(p)

Next == \E p \in Proc : Initialize(p) \/ Open(p) \/ Proceed(p) \/ Abort(p)

Spec == Init /\ [][Next]_vars

-----------------------------------------------------------------------------
(***************************************************************************)
(* What holds.                                                             *)
(***************************************************************************)
Stores == [empty : BOOLEAN, objects : SUBSET Object, alien : BOOLEAN, column : BOOLEAN,
           version : {"none", "1", "2", "other"}, owner : {"none", "ours", "other"},
           app : {"zero", "ours", "other"}, user : {"zero", "ours"}]

Steps == {"alter", "version", "owner", "app", "user", "commit"}
Labels == Steps \cup {"idle", "script", "signature", "meta", "header", "begin", "ok", "refused"}

Jobs == [pc : Labels, cmd : {"none", "initialize", "connect", "check"},
         allow : BOOLEAN, done : 0..(Len(Script) + 1),
         kind : {"none", "refused", "current", "legacy-v2-unmarked", "legacy-v1"},
         signature : {"none", "current", "v1"},
         version : {"none", "1", "2", "other"}, owner : {"none", "ours", "other"},
         copy : Stores]

\* The file and what the commands have read of it have the shape the code
\* gives them, and the process inside BEGIN IMMEDIATE is the writer.
TypeOK ==
  /\ store \in Stores /\ origin \in Stores
  /\ writer \in Proc \cup {"none"}
  /\ job \in [Proc -> Jobs]
  /\ faults \in Nat
  /\ \A p \in Proc : job[p].pc \in Steps <=> writer = p

\* The marks say that everything is there: whatever dies between two
\* statements, no store comes to carry the stamp of this program and less than
\* its schema.
StampedIsWhole == Stamped(store) => store = Current \/ store = origin

\* A command that opens the store, or reports it healthy, or set up, works on
\* the whole current schema, though it has read tables, marks and header at
\* three moments.
OkIsCurrent == \A p \in Proc : At(p, "ok") => store = Current

\* No setup is creating the file.
Unmade == \A p \in Proc : ~At(p, "script") /\ ~(At(p, "begin") /\ job[p].kind = "none")

\* A store that is no known format of this program, and that no setup is
\* creating at the moment, is never changed: neither a stranger's, nor one
\* that was damaged, nor what a setup that died has left.
StrangersUntouched ==
  [][~store.empty /\ store \notin Priors \cup {Current} /\ Unmade
       /\ (writer = "none" \/ job[writer].kind # "none")
     => store' = store]_vars

-----------------------------------------------------------------------------
\* The operator goes on asking for setup or update, statements end, and the
\* lock of the database goes round (the busy handler waits for it).
Fairness ==
  \A p \in Proc : /\ SF_vars(Initialize(p)) /\ WF_vars(Proceed(p))
                  /\ SF_vars(RunScript(p)) /\ SF_vars(Begin(p))

FairSpec == Spec /\ Fairness

\* A store of a prior format is brought to the current one, whatever died on
\* the way and whoever tried at the same time, and stays there; so is an empty
\* one, unless its first setup died.
MigrationCompletes ==
  /\ store \in Priors \cup {Current} ~> [](store = Current)
  /\ store.empty ~> faults > 0 \/ store = Current
=============================================================================
