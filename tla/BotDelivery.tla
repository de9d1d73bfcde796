------------------------------ MODULE BotDelivery ------------------------------
(***************************************************************************)
(* The wakes of bots and team runs (adapters.py).  The receiving side      *)
(* binds an invocation to a file, so the adapter projects each invocation  *)
(* into automations/*/.ai-verse-automations of the OS tree, with a digest  *)
(* of the wake, and posts the path and the digest of the file.             *)
(*                                                                         *)
(* The life of the runs is WakeContract, which the engine implements; here *)
(* Send is taken apart into the steps of the adapter.  One thread at a     *)
(* time has a run (RunLifecycle!OneExecutorPerRun).                        *)
(***************************************************************************)
EXTENDS WakeContract, FiniteSets

CONSTANTS
  Tree,        \* OS trees
  MaxCrashes,  \* bound: processes that die
  MaxRebinds,  \* bound: setups on another tree
  MaxMoves     \* bound: changes of the user's own definitions

ASSUME BoundAssumption == {Limit, MaxCrashes, MaxRebinds, MaxMoves} \subseteq Nat

VARIABLES
  projection,  \* of each tree and run: "none", "part" or the "wake" it is a digest of
  at,          \* where the thread that has the run is: "rest" when none has it
  aim,         \* the tree that thread has read from the configuration
  why,         \* last_error_code of the run
  posted,      \* history: the trees whose file was named in a wake of the run
  root,        \* os_root of the configuration
  user,        \* trees in which the user keeps definitions of his own
  used         \* how much of the three bounds is spent

files   == <<projection, posted>>
thread  == <<at, aim, why>>
outside == <<root, user, used>>
allVars == <<vars, files, thread, outside>>

-----------------------------------------------------------------------------
\* The wake as it would be built anew at a later attempt.
WakeOfAttempt(r) == IF sends[r] = 0 THEN "wake" ELSE "later"

\* wake_json of the row: the same at every attempt.
WakeOf(r) == "wake"

\* Every file below automations/jobs and automations/triggers.
DiscoveredWithOwn(t) == t \in user \/ \E r \in Run : projection[t][r] # "none"

\* legacy_definition_paths passes over the directories of the projections.
Discovered(t) == t \in user

\* The thread goes on with the run it has stopped.
StopHolding(r, code) ==
  /\ Conclude(r, "stopped")
  /\ why' = [why EXCEPT ![r] = code]
  /\ UNCHANGED at

Stop(r, code) ==
  /\ Conclude(r, "stopped")
  /\ at' = [at EXCEPT ![r] = "rest"]
  /\ why' = [why EXCEPT ![r] = code]

Step(r, here, onward) ==
  /\ at[r] = here
  /\ at' = [at EXCEPT ![r] = onward]
  /\ UNCHANGED <<aim, why>>

\* A second definition authority stops the run.
Gated(r, onward) ==
  \/ Discovered(root) /\ Stop(r, "LEGACY_AUTHORITY_CONFLICT")
  \/ /\ ~Discovered(root)
     /\ at' = [at EXCEPT ![r] = onward]
     /\ UNCHANGED <<vars, why>>

\* An attempt begins with the configuration, and takes the tree from it ...
Attempt(r) ==
  /\ at[r] = "rest" /\ stage[r] = "open" /\ sends[r] < Limit
  /\ aim' = [aim EXCEPT ![r] = root]
  /\ Gated(r, "permit")
  /\ UNCHANGED <<files, outside>>

\* ... and the configuration is read again, for the gate, when the permission
\* has been given.  The other ends of an attempt are RunLifecycle's.
Edge(r) ==
  /\ at[r] = "permit"
  /\ Gated(r, "project")
  /\ UNCHANGED <<aim, files, outside>>

\* Writes the file anew, whatever is there.
ProjectInPlace(r) ==
  /\ Step(r, "project", "write")
  /\ projection' = [projection EXCEPT ![aim[r]][r] = "part"]
  /\ UNCHANGED <<vars, posted, outside>>

\* _multiple_bots_projection: a file that is there must be the one it would
\* write, otherwise it is created exclusively ...
Project(r) ==
  LET there == projection[aim[r]][r] IN
  /\ at[r] = "project"
  /\ \/ there = WakeOf(r) /\ Step(r, "project", "post") /\ UNCHANGED <<vars, projection>>
     \/ /\ there \notin {"none", WakeOf(r)}
        /\ Stop(r, "DELIVERY_EXCEPTION") /\ UNCHANGED <<aim, projection>>
     \/ /\ there = "none" /\ Step(r, "project", "write")
        /\ projection' = [projection EXCEPT ![aim[r]][r] = "part"]
        /\ UNCHANGED vars
  /\ UNCHANGED <<posted, outside>>

\* ... and written and synced after that.
WriteProjection(r) ==
  /\ Step(r, "write", "post")
  /\ projection' = [projection EXCEPT ![aim[r]][r] = WakeOf(r)]
  /\ UNCHANGED <<vars, posted, outside>>

Post(r) ==
  /\ Step(r, "post", "answer")
  /\ Send(r)
  /\ posted' = [posted EXCEPT ![r] = @ \cup {aim[r]}]
  /\ UNCHANGED <<projection, outside>>

\* The receipt.
Receipt(r) ==
  /\ Step(r, "answer", "rest")
  /\ Conclude(r, "done")
  /\ UNCHANGED <<files, outside>>

\* No answer, a retryable one, or any other one.
NoReceipt(r) ==
  /\ at[r] = "answer"
  /\ \/ Step(r, "answer", "rest") /\ sends[r] < Limit /\ UNCHANGED vars
     \/ Stop(r, "OWNER") /\ UNCHANGED aim
  /\ UNCHANGED <<files, outside>>

-----------------------------------------------------------------------------
(***************************************************************************)
(* The rest of the engine, by its contract, and the operator.              *)
(***************************************************************************)
Intake ==
  /\ \E R \in SUBSET Run \ {{}} : Accept(R)
  /\ UNCHANGED <<files, thread, outside>>

Crash ==
  /\ used.crashes < MaxCrashes
  /\ used' = [used EXCEPT !.crashes = @ + 1]
  /\ \E R \in SUBSET Run : {r \in Run : at[r] # "rest"} \subseteq R /\ Lose(R)
  /\ at' = [r \in Run |-> "rest"]
  /\ UNCHANGED <<files, aim, why, root, user>>

RetryRun(r) ==
  /\ at[r] = "rest"
  /\ Ask(r, "confirmed") \/ Reopen(r)
  /\ UNCHANGED <<files, thread, outside>>

\* setup on another tree.
Rebind(t) ==
  /\ used.rebinds < MaxRebinds /\ root # t
  /\ root' = t
  /\ used' = [used EXCEPT !.rebinds = @ + 1]
  /\ UNCHANGED <<vars, files, thread, user>>

UserDefines(t) ==
  /\ used.moves < MaxMoves /\ t \notin user
  /\ user' = user \cup {t}
  /\ used' = [used EXCEPT !.moves = @ + 1]
  /\ UNCHANGED <<vars, files, thread, root>>

UserMigrates(t) ==
  /\ t \in user
  /\ user' = user \ {t}
  /\ UNCHANGED <<vars, files, thread, root, used>>

\* The operator removes a file that an attempt has left half written.
RemovePart(t, r) ==
  /\ projection[t][r] = "part" /\ at[r] = "rest"
  /\ projection' = [projection EXCEPT ![t][r] = "none"]
  /\ UNCHANGED <<vars, posted, thread, outside>>

-----------------------------------------------------------------------------
BotInit ==
  /\ Init
  /\ projection = [t \in Tree |-> [r \in Run |-> "none"]]
  /\ at = [r \in Run |-> "rest"]
  /\ root \in Tree
  /\ aim = [r \in Run |-> root]
  /\ why = [r \in Run |-> "none"]
  /\ posted = [r \in Run |-> {}]
  /\ user = {}
  /\ used = [crashes |-> 0, rebinds |-> 0, moves |-> 0]

Deliver(r) ==
  \/ Attempt(r) \/ Edge(r) \/ Project(r) \/ WriteProjection(r) \/ Post(r)
  \/ Receipt(r) \/ NoReceipt(r)

BotNext ==
  \/ Intake \/ Crash
  \/ \E r \in Run : Deliver(r) \/ RetryRun(r)
  \/ \E t \in Tree : Rebind(t) \/ UserDefines(t) \/ UserMigrates(t)
  \/ \E t \in Tree, r \in Run : RemovePart(t, r)

BotSpec == BotInit /\ [][BotNext]_allVars

-----------------------------------------------------------------------------
(***************************************************************************)
(* What holds.                                                             *)
(***************************************************************************)
Files == {"none", "part", "wake"}
Codes == {"none", "LEGACY_AUTHORITY_CONFLICT", "DELIVERY_EXCEPTION", "OWNER"}

\* Files, threads and configuration have the shape the code gives them, and a
\* thread in the adapter has an open run.
TypeOK ==
  /\ ContractTypeOK
  /\ projection \in [Tree -> [Run -> Files]]
  /\ at \in [Run -> {"rest", "permit", "project", "write", "post", "answer"}]
  /\ aim \in [Run -> Tree]
  /\ why \in [Run -> Codes]
  /\ posted \in [Run -> SUBSET Tree]
  /\ root \in Tree /\ user \in SUBSET Tree
  /\ used \in [crashes : Nat, rebinds : Nat, moves : Nat]
  /\ \A r \in Run : at[r] # "rest" => stage[r] = "open"

\* The file a wake was bound to is whole when the wake is posted, and stays so
\* through every later attempt, crash and recovery of the run: the receiving
\* side can check the digest it was given at any time.
SourceStaysWhole ==
  \A r \in Run, t \in Tree : t \in posted[r] => projection[t][r] = WakeOf(r)

\* The adapter's own files never count as a second definition authority: only
\* definitions of the user stop a delivery for that reason.
NeverBlocksItself ==
  [][\A r \in Run :
       stage[r] = "open" /\ stage'[r] = "stopped" /\ why'[r] = "LEGACY_AUTHORITY_CONFLICT"
         => root \in user]_allVars

-----------------------------------------------------------------------------
\* The thread goes on, the owner answers with a receipt some time, and the
\* operator repairs what stands in the way and asks again.
Fairness ==
  /\ \A r \in Run :
       /\ WF_allVars(Deliver(r)) /\ SF_allVars(Receipt(r)) /\ SF_allVars(RetryRun(r))
       /\ \A t \in Tree : SF_allVars(RemovePart(t, r))
  /\ \A t \in Tree : WF_allVars(UserMigrates(t))

FairSpec == BotSpec /\ Fairness

\* README "Recovery": what stopped can be retried after the underlying condition
\* is repaired.  A half-written projection is such a condition, and what an
\* earlier attempt has written whole is none.
RetriesDeliver ==
  \A r \in Run : stage[r] # "none" ~> stage[r] \in {"done", "canceled"}
=============================================================================
