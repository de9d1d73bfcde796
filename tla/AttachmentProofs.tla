-------------------------- MODULE AttachmentProofs --------------------------
(***************************************************************************)
(* The attachment for every number of commands and OS trees: types, the    *)
(* lock, other owners' entries, the order of the writes, and what a        *)
(* command does that nobody overlaps.                                      *)
(***************************************************************************)
EXTENDS Attachment, TLAPS

Jobs == [pc : Labels, cmd : Commands \cup {"none"}, root : Root \cup {NoRoot},
         before : Configs, next : Configs, seen : Texts, mine : SUBSET Bridge,
         failed : BOOLEAN, hindered : BOOLEAN, alone : BOOLEAN,
         was : [entry : Entries, file : Contents]]

\* A configuration with a setup has a tree, and a command that works on a tree
\* has one.
HasTree(c) == c.setup => c.root \in Root

TreesKnown ==
  /\ HasTree(config)
  /\ \A p \in Proc :
       /\ HasTree(job[p].before) /\ HasTree(job[p].next)
       /\ job[p].pc \in Locked \cup {"lock", "sweep"} => job[p].root \in Root

USE NamesAssumption, HolderAssumption

LEMMA IdleIsJob == Idle \in Jobs
BY DEF Idle, Jobs, DefaultConfig, Configs, Texts, Entries, Contents, Labels, Locked

LEMMA OvertakenIsJob == ASSUME NEW j \in Jobs PROVE Overtaken(j) \in Jobs
BY IdleIsJob DEF Overtaken, Jobs, Idle, Entries, Contents

\* The command p goes on; what it set out to do stays.
Goes(p) ==
  /\ job' \in [Proc -> Jobs]
  /\ \A q \in Proc \ {p} : job'[q] = job[q]
  /\ job'[p].cmd = job[p].cmd /\ job'[p].root = job[p].root
  /\ job'[p].before = job[p].before /\ job'[p].next = job[p].next
  /\ job'[p].was = job[p].was /\ job'[p].alone = job[p].alone

\* ... and this is what it holds after.
Does(p, pc, seen, mine, failed) ==
  /\ Goes(p)
  /\ job'[p].pc = pc /\ job'[p].seen = seen /\ job'[p].mine = mine /\ job'[p].failed = failed
  /\ job'[p].hindered = job[p].hindered

\* ... or, if something fails that nothing makes up for.
Stumbles(p, pc, mine) ==
  /\ Goes(p)
  /\ job'[p].pc = pc /\ job'[p].mine = mine /\ job'[p].seen = job[p].seen
  /\ job'[p].hindered

SameDuty(j, k) == j.cmd = k.cmd /\ j.root = k.root /\ j.before = k.before /\ j.next = k.next

\* What it found when it began, and whether it has been overlapped since.
SameStart(j, k) == j.was = k.was /\ j.alone = k.alone

LEMMA JobUpdate ==
  ASSUME TypeOK, NEW p \in Proc, NEW j \in Jobs, SameDuty(j, job[p]), SameStart(j, job[p]),
         job' = [job EXCEPT ![p] = j]
  PROVE  Goes(p) /\ job'[p] = j
<1>1. job \in [Proc -> Jobs]
  BY DEF TypeOK, Jobs
<1> QED
  BY <1>1 DEF Goes, SameDuty, SameStart

LEMMA JobIsJob ==
  ASSUME TypeOK, NEW p \in Proc
  PROVE  /\ job \in [Proc -> Jobs] /\ job[p] \in Jobs
         /\ job[p].seen \in Texts /\ job[p].mine \in SUBSET Bridge /\ job[p].failed \in BOOLEAN
         /\ job[p].next \in Configs /\ job[p].before \in Configs
BY DEF TypeOK, Jobs

LEMMA JobMoves ==
  ASSUME TypeOK, NEW p \in Proc, NEW pc \in Labels, Goto(p, pc)
  PROVE  Does(p, pc, job[p].seen, job[p].mine, job[p].failed)
<1> DEFINE j == [job[p] EXCEPT !.pc = pc]
<1>1. j \in Jobs /\ SameDuty(j, job[p]) /\ SameStart(j, job[p])
  BY JobIsJob DEF Jobs, SameDuty, SameStart
<1>2. job' = [job EXCEPT ![p] = j]
  BY DEF Goto
<1> HIDE DEF j
<1>3. Goes(p) /\ job'[p] = j
  BY <1>1, <1>2, JobUpdate
<1> QED
  BY <1>3, JobIsJob DEF j, Does, Jobs

LEMMA JobReleases ==
  ASSUME TypeOK, NEW p \in Proc, Release(p)
  PROVE  Does(p, "unlock", job[p].seen, job[p].mine, job[p].failed)
BY JobMoves DEF Release, Goto, Labels, Locked

LEMMA JobFails ==
  ASSUME TypeOK, NEW p \in Proc, NEW pc \in Labels,
         job' = [job EXCEPT ![p].pc = pc, ![p].failed = TRUE]
  PROVE  Does(p, pc, job[p].seen, job[p].mine, TRUE)
<1> DEFINE j == [job[p] EXCEPT !.pc = pc, !.failed = TRUE]
<1>1. j \in Jobs /\ SameDuty(j, job[p]) /\ SameStart(j, job[p])
  BY JobIsJob DEF Jobs, SameDuty, SameStart
<1>2. job' = [job EXCEPT ![p] = j]
  OBVIOUS
<1> HIDE DEF j
<1>3. Goes(p) /\ job'[p] = j
  BY <1>1, <1>2, JobUpdate
<1> QED
  BY <1>3, JobIsJob DEF j, Does, Jobs

LEMMA JobTakes ==
  ASSUME TypeOK, NEW p \in Proc, NEW mine \in SUBSET Bridge,
         job' = [job EXCEPT ![p].mine = mine]
  PROVE  Does(p, job[p].pc, job[p].seen, mine, job[p].failed)
<1> DEFINE j == [job[p] EXCEPT !.mine = mine]
<1>1. j \in Jobs /\ SameDuty(j, job[p]) /\ SameStart(j, job[p])
  BY JobIsJob DEF Jobs, SameDuty, SameStart
<1>2. job' = [job EXCEPT ![p] = j]
  OBVIOUS
<1> HIDE DEF j
<1>3. Goes(p) /\ job'[p] = j
  BY <1>1, <1>2, JobUpdate
<1> QED
  BY <1>3, JobIsJob DEF j, Does, Jobs

LEMMA JobCreates ==
  ASSUME TypeOK, NEW p \in Proc, NEW pc \in Labels, NEW mine \in SUBSET Bridge,
         job' = [job EXCEPT ![p].pc = pc, ![p].mine = mine]
  PROVE  Does(p, pc, job[p].seen, mine, job[p].failed)
<1> DEFINE j == [job[p] EXCEPT !.pc = pc, !.mine = mine]
<1>1. j \in Jobs /\ SameDuty(j, job[p]) /\ SameStart(j, job[p])
  BY JobIsJob DEF Jobs, SameDuty, SameStart
<1>2. job' = [job EXCEPT ![p] = j]
  OBVIOUS
<1> HIDE DEF j
<1>3. Goes(p) /\ job'[p] = j
  BY <1>1, <1>2, JobUpdate
<1> QED
  BY <1>3, JobIsJob DEF j, Does, Jobs

LEMMA JobStumbles ==
  ASSUME TypeOK, NEW p \in Proc, NEW pc \in Labels, NEW mine \in SUBSET Bridge,
         job' = [job EXCEPT ![p].pc = pc, ![p].mine = mine, ![p].hindered = TRUE]
  PROVE  Stumbles(p, pc, mine)
<1> DEFINE j == [job[p] EXCEPT !.pc = pc, !.mine = mine, !.hindered = TRUE]
<1>1. j \in Jobs /\ SameDuty(j, job[p]) /\ SameStart(j, job[p])
  BY JobIsJob DEF Jobs, SameDuty, SameStart
<1>2. job' = [job EXCEPT ![p] = j]
  OBVIOUS
<1> HIDE DEF j
<1>3. Goes(p) /\ job'[p] = j
  BY <1>1, <1>2, JobUpdate
<1> QED
  BY <1>3, JobIsJob DEF j, Stumbles, Jobs

-----------------------------------------------------------------------------
(***************************************************************************)
(* The steps that do more to a command than to move it.                    *)
(***************************************************************************)
LEMMA LockDoes ==
  ASSUME TypeOK, TreesKnown, NEW p \in Proc, Lock(p)
  PROVE  /\ TreeOf(p) \in Root
         /\ \/ /\ lock[TreeOf(p)] = "free"
               /\ lock' = [lock EXCEPT ![TreeOf(p)] = p]
               /\ Does(p, "locked", registry[TreeOf(p)],
                       IF job[p].cmd = "attach" THEN {} ELSE Ours(TreeOf(p)), job[p].failed)
            \/ /\ lock' = lock
               /\ Does(p, AfterFailure(p), job[p].seen, job[p].mine, TRUE)
<1>1. TreeOf(p) \in Root
  BY DEF TreesKnown, TreeOf, Lock, At
<1>2. registry[TreeOf(p)] \in Texts /\ Ours(TreeOf(p)) \in SUBSET Bridge
  BY <1>1 DEF TypeOK, Ours
<1> DEFINE mine == IF job[p].cmd = "attach" THEN {} ELSE Ours(TreeOf(p))
           j    == [job[p] EXCEPT !.pc = "locked", !.seen = registry[TreeOf(p)], !.mine = mine]
<1>3. CASE /\ MayTake(TreeOf(p)) /\ lock' = [lock EXCEPT ![TreeOf(p)] = p]
           /\ job' = [job EXCEPT ![p] = j]
  <2>1. mine \in SUBSET Bridge
    BY <1>2
  <2> HIDE DEF mine
  <2>2. /\ j \in Jobs /\ SameDuty(j, job[p]) /\ SameStart(j, job[p])
        /\ j.pc = "locked" /\ j.seen = registry[TreeOf(p)] /\ j.mine = mine /\ j.failed = job[p].failed
        /\ j.hindered = job[p].hindered
    <3>1. registry[TreeOf(p)] \in Texts /\ "locked" \in Labels /\ job[p] \in Jobs
      BY <1>2, JobIsJob DEF Labels, Locked
    <3> QED
      BY <2>1, <3>1 DEF Jobs, SameDuty, SameStart
  <2> HIDE DEF j
  <2>3. Does(p, "locked", registry[TreeOf(p)], mine, job[p].failed)
    BY <1>3, <2>2, JobUpdate DEF Does
  <2> QED
    BY <1>1, <1>3, <2>3 DEF MayTake, mine
<1>4. CASE /\ lock' = lock
           /\ job' = [job EXCEPT ![p].pc = AfterFailure(p), ![p].failed = TRUE]
  <2>1. AfterFailure(p) \in Labels
    BY DEF AfterFailure, Labels
  <2> QED
    BY <1>1, <1>4, <2>1, JobFails
<1> QED
  BY <1>3, <1>4 DEF Lock, AfterBusy

LEMMA GiveUpDoes ==
  ASSUME TypeOK, NEW p \in Proc, GiveUp(p)
  PROVE  Does(p, "unlock", job[p].seen, job[p].mine, TRUE)
BY JobFails DEF GiveUp, Labels, Locked

LEMMA AbandonDoes ==
  ASSUME TypeOK, NEW p \in Proc, Abandon(p)
  PROVE  WriteFaults /\ Stumbles(p, "failed", job[p].mine)
<1>1. job' = [job EXCEPT ![p].pc = "failed", ![p].mine = job[p].mine, ![p].hindered = TRUE]
  BY JobIsJob DEF Abandon, Jobs
<1> QED
  BY <1>1, JobIsJob, JobStumbles DEF Abandon, Raises, Labels

\* A bridge file is written, is ours already, or is an error.
Materialized(p, f, here, onward) ==
  /\ job[p].pc = here /\ job[p].cmd = "attach"
  /\ \/ /\ file[TreeOf(p)][f] = "absent" /\ file' = [file EXCEPT ![TreeOf(p)][f] = "ours"]
        /\ Does(p, onward, job[p].seen, job[p].mine \cup {f}, job[p].failed)
     \/ /\ file[TreeOf(p)][f] \notin {"absent", "changed"} /\ file' = file
        /\ Does(p, onward, job[p].seen, job[p].mine, job[p].failed)
     \/ /\ file[TreeOf(p)][f] = "changed" \/ WriteFaults
        /\ file' = file
        /\ Does(p, "unlock", job[p].seen, job[p].mine, TRUE)

LEMMA MaterializeDoes ==
  ASSUME TypeOK, NEW p \in Proc, NEW f \in Bridge, NEW here \in Labels, NEW onward \in Labels,
         Materialize(p, f, here, onward)
  PROVE  Materialized(p, f, here, onward)
<1>1. job[p].mine \cup {f} \in SUBSET Bridge
  BY JobIsJob
<1>2. CASE job' = [job EXCEPT ![p].pc = onward, ![p].mine = job[p].mine \cup {f}]
  <2>1. Does(p, onward, job[p].seen, job[p].mine \cup {f}, job[p].failed)
    BY <1>1, <1>2, JobCreates
  <2> QED
    BY <1>2, <2>1, JobMoves, GiveUpDoes DEF Materialize, Materialized, At, Fault, Raises, RefusesFile
<1>3. CASE ~(job' = [job EXCEPT ![p].pc = onward, ![p].mine = job[p].mine \cup {f}])
  BY <1>3, JobMoves, GiveUpDoes DEF Materialize, Materialized, At, Fault, Raises, RefusesFile
<1> QED
  BY <1>2, <1>3

LEMMA UnlinkTakes ==
  ASSUME TypeOK, NEW p \in Proc, Unlink(p)
  PROVE  LET f == FirstOf(job[p].mine) IN
         \/ /\ job[p].mine = {} /\ file' = file
            /\ Does(p, "unlock", job[p].seen, job[p].mine, job[p].failed)
         \/ /\ file' = file
            /\ Does(p, "unlock", job[p].seen, job[p].mine, TRUE)
         \/ /\ job[p].mine # {} /\ file' = [file EXCEPT ![TreeOf(p)][f] = "absent"]
            /\ Does(p, "unlink", job[p].seen, job[p].mine \ {f}, job[p].failed)
<1> DEFINE f == FirstOf(job[p].mine)
<1>1. job[p].mine \ {f} \in SUBSET Bridge
  BY JobIsJob
<1>2. \/ job[p].mine = {} /\ file' = file /\ Release(p)
      \/ file' = file /\ GiveUp(p)
      \/ /\ job[p].mine # {} /\ file' = [file EXCEPT ![TreeOf(p)][f] = "absent"]
         /\ job' = [job EXCEPT ![p].mine = job[p].mine \ {f}]
         /\ job[p].pc = "unlink"
  BY DEF Unlink, Fault, At
<1>3. CASE job[p].mine = {} /\ file' = file /\ Release(p)
  BY <1>3, JobReleases
<1>4. CASE file' = file /\ GiveUp(p)
  BY <1>4, GiveUpDoes
<1>5. CASE /\ job[p].mine # {} /\ file' = [file EXCEPT ![TreeOf(p)][f] = "absent"]
           /\ job' = [job EXCEPT ![p].mine = job[p].mine \ {f}]
           /\ job[p].pc = "unlink"
  <2>1. Does(p, "unlink", job[p].seen, job[p].mine \ {f}, job[p].failed)
    BY <1>1, <1>5, JobTakes DEF Does
  <2> QED
    BY <1>5, <2>1
<1> QED
  BY <1>2, <1>3, <1>4, <1>5

LEMMA FirstIsBridge == \A files : FirstOf(files) \in Bridge
BY DEF FirstOf, Bridge

LEMMA UnlinkDoes ==
  ASSUME TypeOK, NEW p \in Proc, Unlink(p)
  PROVE  \/ file' = file /\ \E failed \in BOOLEAN : Does(p, "unlock", job[p].seen, job[p].mine, failed)
         \/ /\ \E f \in Bridge : file' = [file EXCEPT ![TreeOf(p)][f] = "absent"]
            /\ \E mine \in SUBSET Bridge : Does(p, "unlink", job[p].seen, mine, job[p].failed)
<1>1. job[p].mine \ {FirstOf(job[p].mine)} \in SUBSET Bridge /\ job[p].failed \in BOOLEAN
  BY JobIsJob
<1> QED
  BY <1>1, UnlinkTakes, FirstIsBridge

LEMMA SweepTakes ==
  ASSUME TypeOK, NEW p \in Proc, Sweep(p)
  PROVE  LET f == FirstOf(job[p].mine) IN
         \/ /\ job[p].mine = {} /\ file' = file
            /\ Does(p, "failed", job[p].seen, job[p].mine, job[p].failed)
         \/ /\ job[p].mine # {} /\ file' = [file EXCEPT ![TreeOf(p)][f] = "absent"]
            /\ Does(p, "sweep", job[p].seen, job[p].mine \ {f}, job[p].failed)
         \/ /\ job[p].mine # {} /\ file' = file
            /\ Stumbles(p, "sweep", job[p].mine \ {f})
<1> DEFINE f == FirstOf(job[p].mine)
<1>1. job[p].mine \ {f} \in SUBSET Bridge /\ job[p].pc = "sweep" /\ "sweep" \in Labels
  BY JobIsJob DEF Sweep, At, Labels
<1>2. CASE job[p].mine = {} /\ Goto(p, "failed") /\ file' = file
  BY <1>2, JobMoves DEF Labels
<1>3. CASE /\ job[p].mine # {} /\ file' = [file EXCEPT ![TreeOf(p)][f] = "absent"]
           /\ job' = [job EXCEPT ![p].mine = job[p].mine \ {f}]
  <2>1. Does(p, job[p].pc, job[p].seen, job[p].mine \ {f}, job[p].failed)
    BY <1>1, <1>3, JobTakes
  <2>2. Does(p, "sweep", job[p].seen, job[p].mine \ {f}, job[p].failed)
    BY <1>1, <2>1
  <2> QED
    BY <1>3, <2>2
<1>4. CASE /\ job[p].mine # {} /\ file' = file
           /\ job' = [job EXCEPT ![p].mine = job[p].mine \ {f}, ![p].hindered = TRUE]
  <2> DEFINE j == [job[p] EXCEPT !.mine = job[p].mine \ {f}, !.hindered = TRUE]
  <2>1. job' = [job EXCEPT ![p].pc = "sweep", ![p].mine = job[p].mine \ {f}, ![p].hindered = TRUE]
    <3>1. j = [job[p] EXCEPT !.pc = "sweep", !.mine = job[p].mine \ {f}, !.hindered = TRUE]
      BY <1>1, JobIsJob DEF Jobs
    <3>2. job' = [job EXCEPT ![p] = j]
      BY <1>4
    <3> QED
      BY <3>1, <3>2
  <2>2. Stumbles(p, "sweep", job[p].mine \ {f})
    BY <1>1, <2>1, JobStumbles
  <2> QED
    BY <1>4, <2>2
<1> QED
  BY <1>2, <1>3, <1>4 DEF Sweep

LEMMA SweepDoes ==
  ASSUME TypeOK, NEW p \in Proc, Sweep(p)
  PROVE  /\ Goes(p) /\ job'[p].pc \in {"sweep", "failed"} /\ job'[p].mine \subseteq job[p].mine
         /\ \/ file' = file
            \/ job[p].mine # {} /\ \E f \in Bridge : file' = [file EXCEPT ![TreeOf(p)][f] = "absent"]
BY SweepTakes, FirstIsBridge DEF Does, Stumbles

LEMMA UnlockDoes ==
  ASSUME TypeOK, NEW p \in Proc, Unlock(p)
  PROVE  LET onward == IF job[p].failed THEN AfterFailure(p)
                       ELSE IF job[p].cmd = "uninstall" THEN "finish" ELSE "ok"
         IN  Does(p, onward, Idle.seen, job[p].mine, job[p].failed)
<1> DEFINE onward == IF job[p].failed THEN AfterFailure(p)
                     ELSE IF job[p].cmd = "uninstall" THEN "finish" ELSE "ok"
           j == [job[p] EXCEPT !.seen = Idle.seen, !.pc = onward]
<1>1. Idle.seen \in Texts
  BY DEF Idle, Texts, Entries
<1>2. onward \in Labels
  BY DEF AfterFailure, Labels
<1>3. job' = [job EXCEPT ![p] = j]
  BY DEF Unlock
<1> HIDE DEF onward
<1>4. /\ j \in Jobs /\ SameDuty(j, job[p]) /\ SameStart(j, job[p])
      /\ j.pc = onward /\ j.seen = Idle.seen /\ j.mine = job[p].mine /\ j.failed = job[p].failed
      /\ j.hindered = job[p].hindered
  BY <1>1, <1>2, JobIsJob DEF Jobs, SameDuty, SameStart
<1> HIDE DEF j
<1>5. Does(p, onward, Idle.seen, job[p].mine, job[p].failed)
  BY <1>3, <1>4, JobUpdate DEF Does
<1> QED
  BY <1>5 DEF onward

\* What the steps inside a command have in common: the label, what was read and
\* what was created change, and nothing else of the command.
LEMMA StepGoes ==
  ASSUME TypeOK, TreesKnown, NEW p \in Proc, Proceed(p)
  PROVE  Goes(p) \/ Return(p)
<1> USE DEF Labels, Locked, Does
<1>1. CASE Save(p)
  BY <1>1, JobMoves DEF Save
<1>2. CASE Inspect(p)
  BY <1>2, JobMoves DEF Inspect, Finding
<1>3. CASE Lock(p)
  BY <1>3, LockDoes
<1>4. CASE Sync(p)
  BY <1>4, JobMoves, JobReleases, GiveUpDoes DEF Sync
<1>5. CASE Detach(p)
  BY <1>5, JobMoves, GiveUpDoes DEF Detach, DetachFrom
<1>6. CASE WriteInstructions(p) \/ WriteEngine(p)
  BY <1>6, MaterializeDoes DEF Materialized, WriteInstructions, WriteEngine, Bridge
<1>7. CASE WriteEntry(p)
  BY <1>7, JobMoves, JobReleases DEF WriteEntry
<1>8. CASE Compare(p)
  BY <1>8, JobMoves, GiveUpDoes DEF Compare, Fault
<1>9. CASE Replace(p)
  BY <1>9, JobMoves DEF Replace
<1>10. CASE Unlink(p)
  BY <1>10, UnlinkDoes
<1>11. CASE Unlock(p)
  BY <1>11, UnlockDoes
<1>12. CASE Sweep(p)
  BY <1>12, SweepDoes
<1>13. CASE Rollback(p) \/ Finish(p)
  BY <1>13, JobMoves, AbandonDoes DEF Rollback, Finish, Stumbles
<1> QED
  BY <1>1, <1>2, <1>3, <1>4, <1>5, <1>6, <1>7, <1>8, <1>9, <1>10, <1>11, <1>12, <1>13 DEF Proceed

-----------------------------------------------------------------------------
(***************************************************************************)
(* Types, trees and the lock.                                              *)
(***************************************************************************)
LEMMA ReturnDoes ==
  ASSUME TypeOK, NEW p \in Proc, Return(p)
  PROVE  /\ job' \in [Proc -> Jobs] /\ job'[p] = Idle
         /\ \A q \in Proc \ {p} : job'[q] = job[q]
BY JobIsJob, IdleIsJob DEF Return

\* What becomes of the lock: it stays, or is taken free, or given back.
LEMMA StepLock ==
  ASSUME TypeOK, TreesKnown, NEW p \in Proc, Proceed(p)
  PROVE  \/ lock' = lock /\ (job'[p].pc \in Locked => job[p].pc \in Locked)
         \/ /\ TreeOf(p) \in Root /\ lock[TreeOf(p)] = "free"
            /\ lock' = [lock EXCEPT ![TreeOf(p)] = p]
         \/ /\ job[p].pc \in Locked /\ job'[p].pc \notin Locked
            /\ \E holder \in {"free", "left"} : lock' = [lock EXCEPT ![TreeOf(p)] = holder]
<1> USE DEF Locked, Does, At
<1>1. CASE Save(p)
  BY <1>1, JobMoves DEF Save, Labels
<1>2. CASE Inspect(p)
  BY <1>2, JobMoves DEF Inspect, Finding, Labels
<1>3. CASE Lock(p)
  BY <1>3, LockDoes DEF AfterFailure
<1>4. CASE Sync(p) \/ Detach(p) \/ WriteInstructions(p) \/ WriteEngine(p) \/ WriteEntry(p)
           \/ Compare(p) \/ Replace(p) \/ Unlink(p)
  BY <1>4 DEF Sync, Detach, WriteInstructions, WriteEngine, Materialize, WriteEntry, Compare,
              Replace, Unlink
<1>5. CASE Unlock(p)
  <2>1. job'[p].pc \notin Locked
    BY <1>5, UnlockDoes DEF AfterFailure
  <2> QED
    BY <1>5, <2>1 DEF Unlock
<1>6. CASE Sweep(p)
  BY <1>6, SweepDoes DEF Sweep
<1>7. CASE Rollback(p) \/ Finish(p)
  BY <1>7, JobMoves, AbandonDoes DEF Rollback, Finish, Stumbles, Labels
<1>8. CASE Return(p)
  BY <1>8, ReturnDoes DEF Return, Idle
<1> QED
  BY <1>1, <1>2, <1>3, <1>4, <1>5, <1>6, <1>7, <1>8 DEF Proceed

LEMMA StepTypes ==
  ASSUME TypeOK, TreesKnown, NEW p \in Proc, Proceed(p)
  PROVE  TypeOK'
<1>1. job' \in [Proc -> Jobs]
  BY StepGoes, ReturnDoes DEF Goes
<1>2. lock' \in [Root -> Proc \cup {"free", "left", "other"}]
  BY StepLock DEF TypeOK
<1>3. config' \in Configs
  <2>1. CASE Save(p) \/ Rollback(p) \/ Finish(p)
    <3>1. \/ config' = config \/ config' = job[p].next
          \/ config' = [job[p].before EXCEPT !.made = TRUE]
          \/ config' = [job[p].next EXCEPT !.setup = FALSE]
      BY <2>1 DEF Save, Rollback, Finish
    <3>2. config \in Configs /\ job[p].next \in Configs /\ job[p].before \in Configs
      BY JobIsJob DEF TypeOK
    <3> QED
      BY <3>1, <3>2 DEF Configs
  <2>2. CASE ~(Save(p) \/ Rollback(p) \/ Finish(p))
    <3>1. config' = config
      BY <2>2 DEF Proceed, Inspect, Lock, Sync, Detach, WriteInstructions, WriteEngine, Materialize,
                  WriteEntry, Compare, Replace, Unlink, Unlock, Sweep, Return
    <3> QED
      BY <3>1 DEF TypeOK
  <2> QED
    BY <2>1, <2>2
<1>4. registry' \in [Root -> Texts]
  <2>1. CASE Replace(p)
    BY <2>1, JobIsJob DEF Replace, Flag, TypeOK, Texts, Entries
  <2>2. CASE ~Replace(p)
    <3>1. registry' = registry
      BY <2>2 DEF Proceed, Save, Inspect, Lock, Sync, Detach, WriteInstructions, WriteEngine,
                  Materialize, WriteEntry, Compare, Unlink, Unlock, Sweep, Rollback, Finish, Return
    <3> QED
      BY <3>1 DEF TypeOK
  <2> QED
    BY <2>1, <2>2
<1>5. file' \in [Root -> Contents]
  <2>1. \/ file' = file
        \/ \E f \in Bridge, content \in {"ours", "absent"} :
             file' = [file EXCEPT ![TreeOf(p)][f] = content]
    <3>1. CASE WriteInstructions(p) \/ WriteEngine(p)
      BY <3>1 DEF WriteInstructions, WriteEngine, Materialize, Bridge
    <3>2. CASE Unlink(p)
      BY <3>2, UnlinkDoes
    <3>3. CASE Sweep(p)
      BY <3>3, SweepDoes
    <3> QED
      BY <3>1, <3>2, <3>3 DEF Proceed, Save, Inspect, Lock, Sync, Detach, WriteEntry, Compare,
                              Replace, Unlock, Rollback, Finish, Return
  <2>2. CASE file' = file
    BY <2>2 DEF TypeOK
  <2>3. ASSUME NEW f \in Bridge, NEW content \in {"ours", "absent"},
               file' = [file EXCEPT ![TreeOf(p)][f] = content]
        PROVE  file' \in [Root -> Contents]
    <3>1. /\ file \in [Root -> Contents]
          /\ \A c \in Contents : [c EXCEPT ![f] = content] \in Contents
      BY DEF TypeOK, Contents
    <3> QED
      BY <2>3, <3>1
  <2> QED
    BY <2>1, <2>2, <2>3
<1>6. legacy' = legacy /\ mishaps' \in Nat
  BY DEF TypeOK, Proceed, Save, Inspect, Lock, Sync, Detach, WriteInstructions, WriteEngine,
         Materialize, WriteEntry, Compare, Replace, Unlink, Unlock, Sweep, Rollback, Finish, Return,
         Abandon, Fault, Raises, Mishap
<1> QED
  BY <1>1, <1>2, <1>3, <1>4, <1>5, <1>6 DEF TypeOK, Jobs

AttachInv == TypeOK /\ TreesKnown /\ HolderWorksAlone

LEMMA StepTrees ==
  ASSUME TypeOK, TreesKnown, NEW p \in Proc, Proceed(p)
  PROVE  TreesKnown'
<1>1. HasTree(config')
  <2>1. CASE Save(p) \/ Rollback(p) \/ Finish(p)
    BY <2>1, JobIsJob DEF Save, Rollback, Finish, HasTree, TreesKnown, Configs
  <2>2. CASE ~(Save(p) \/ Rollback(p) \/ Finish(p))
    <3>1. config' = config
      BY <2>2 DEF Proceed, Inspect, Lock, Sync, Detach, WriteInstructions, WriteEngine, Materialize,
                  WriteEntry, Compare, Replace, Unlink, Unlock, Sweep, Return
    <3>2. HasTree(config)
      BY DEF TreesKnown
    <3> QED
      BY <3>1, <3>2 DEF HasTree
  <2> QED
    BY <2>1, <2>2
<1>2. job'[p].pc \in Locked \cup {"lock", "sweep"} => job'[p].root \in Root
  <2>1. CASE Inspect(p)
    <3>1. \/ TreeOf(p) # NoRoot /\ Goto(p, "lock")
          \/ \E l \in {"finish", "ok", "rollback"} : Goto(p, l)
      BY <2>1 DEF Inspect, Finding
    <3>2. Goes(p) /\ (job'[p].pc = "lock" => TreeOf(p) # NoRoot)
                  /\ job'[p].pc \in {"lock", "finish", "ok", "rollback"}
      BY <3>1, JobMoves DEF Does, Labels
    <3>3. job[p].root \in Root \cup {NoRoot}
      BY JobIsJob DEF Jobs
    <3> QED
      BY <3>2, <3>3 DEF Goes, TreeOf, Locked
  <2>2. CASE Lock(p)
    BY <2>2, LockDoes DEF Does, Goes, TreeOf
  <2>3. CASE Save(p) \/ Rollback(p) \/ Finish(p)
    BY <2>3, JobMoves, AbandonDoes DEF Save, Rollback, Finish, Labels, Locked, Does, Stumbles
  <2>4. CASE Return(p)
    BY <2>4, ReturnDoes DEF Idle, Locked
  <2>5. CASE Sync(p) \/ Detach(p) \/ WriteInstructions(p) \/ WriteEngine(p) \/ WriteEntry(p)
             \/ Compare(p) \/ Replace(p) \/ Unlink(p) \/ Unlock(p) \/ Sweep(p)
    <3>1. job[p].pc \in Locked \cup {"sweep"}
      BY <2>5 DEF Sync, Detach, WriteInstructions, WriteEngine, Materialize, WriteEntry,
                  Compare, Replace, Unlink, Unlock, Sweep, At, Locked
    <3>2. Goes(p)
      <4>1. CASE Return(p)
        BY <3>1, <4>1 DEF Return, Locked
      <4> QED
        BY <4>1, StepGoes
    <3> QED
      BY <3>1, <3>2 DEF TreesKnown, Goes
  <2> QED
    BY <2>1, <2>2, <2>3, <2>4, <2>5 DEF Proceed
<1>3. HasTree(job'[p].before) /\ HasTree(job'[p].next)
  <2>1. CASE Goes(p)
    BY <2>1 DEF Goes, TreesKnown
  <2>2. CASE Return(p)
    BY <2>2, ReturnDoes DEF Idle, DefaultConfig, HasTree
  <2> QED
    BY <2>1, <2>2, StepGoes
<1>4. \A q \in Proc \ {p} : job'[q] = job[q]
  BY StepGoes, ReturnDoes DEF Goes
<1> QED
  BY <1>1, <1>2, <1>3, <1>4 DEF TreesKnown

LEMMA StepHolder ==
  ASSUME AttachInv, NEW p \in Proc, Proceed(p)
  PROVE  HolderWorksAlone'
<1> USE DEF AttachInv
<1>1. \A q \in Proc \ {p} : job'[q] = job[q]
  BY StepGoes, ReturnDoes DEF Goes
<1>2. job'[p].pc \in Locked => job'[p].root = job[p].root
  BY StepGoes, ReturnDoes DEF Goes, Idle, Locked
<1>3. lock \in [Root -> Proc \cup {"free", "left", "other"}]
  BY DEF TypeOK
<1>4. ASSUME NEW q \in Proc, job'[q].pc \in Locked
      PROVE  lock'[job'[q].root] = q
  <2>1. CASE lock' = lock /\ (job'[p].pc \in Locked => job[p].pc \in Locked)
    BY <1>1, <1>2, <1>4, <2>1 DEF HolderWorksAlone, TreeOf
  <2>2. CASE /\ TreeOf(p) \in Root /\ lock[TreeOf(p)] = "free"
             /\ lock' = [lock EXCEPT ![TreeOf(p)] = p]
    BY <1>1, <1>2, <1>3, <1>4, <2>2 DEF HolderWorksAlone, TreeOf
  <2>3. CASE /\ job[p].pc \in Locked /\ job'[p].pc \notin Locked
             /\ \E holder \in {"free", "left"} : lock' = [lock EXCEPT ![TreeOf(p)] = holder]
    BY <1>1, <1>3, <1>4, <2>3 DEF HolderWorksAlone, TreeOf
  <2> QED
    BY <2>1, <2>2, <2>3, StepLock
<1> QED
  BY <1>4 DEF HolderWorksAlone, TreeOf

\* A command that begins holds nothing yet; the others do not notice.
\* What becomes of the commands when p begins one.
Begun(p, c, r, next, l) ==
  /\ job' \in [Proc -> Jobs]
  /\ job'[p].pc = l /\ job'[p].cmd = c /\ job'[p].root = r
  /\ job'[p].before = config /\ job'[p].next = next
  /\ job'[p].mine = {} /\ job'[p].failed = FALSE /\ job'[p].hindered = FALSE
  /\ job'[p].alone => job'[p].was = Snapshot(r) /\ \A q \in Proc \ {p} : At(q, "idle")
  /\ \A q \in Proc \ {p} : /\ ~job'[q].alone /\ job'[q].pc = job[q].pc /\ SameDuty(job'[q], job[q])
                           /\ job'[q].seen = job[q].seen /\ job'[q].mine = job[q].mine
                           /\ job'[q].failed = job[q].failed

LEMMA BeginDoes ==
  ASSUME TypeOK, NEW p \in Proc, NEW c \in Commands, NEW r \in Root \cup {NoRoot},
         NEW next \in Configs, NEW l \in Labels, Begin(p, c, r, next, l)
  PROVE  Begun(p, c, r, next, l)
<1> DEFINE started == [Idle EXCEPT !.pc = l, !.cmd = c, !.root = r, !.before = config,
                                   !.next = next, !.was = Snapshot(r), !.alone = TRUE]
<1>1. config \in Configs /\ Snapshot(r) \in [entry : Entries, file : Contents]
  BY DEF TypeOK, Snapshot, Idle, Texts, Entries, Contents
<1>2. started \in Jobs
  BY <1>1, IdleIsJob DEF Jobs
<1>3. /\ started.pc = l /\ started.cmd = c /\ started.root = r /\ started.before = config
      /\ started.next = next /\ started.mine = {} /\ started.failed = FALSE
      /\ started.hindered = FALSE /\ started.was = Snapshot(r)
  BY DEF Idle
<1>4. \A j \in Jobs : /\ Overtaken(j) \in Jobs /\ Overtaken(j).pc = j.pc /\ SameDuty(Overtaken(j), j)
                      /\ Overtaken(j).seen = j.seen /\ Overtaken(j).mine = j.mine
                      /\ Overtaken(j).failed = j.failed /\ Overtaken(j).hindered = j.hindered
                      /\ ~Overtaken(j).alone
  BY OvertakenIsJob DEF Overtaken, Jobs, SameDuty
<1>5. job' = [q \in Proc |->
                IF q # p THEN Overtaken(job[q])
                ELSE IF \E o \in Proc \ {p} : Busy(o) THEN Overtaken(started) ELSE started]
  BY DEF Begin
<1> HIDE DEF started
<1>6. job \in [Proc -> Jobs] /\ job' \in [Proc -> Jobs]
  BY <1>2, <1>4, <1>5, JobIsJob
<1>7. \A q \in Proc \ {p} : job'[q] = Overtaken(job[q])
  BY <1>5
<1>8. job'[p] = IF \E o \in Proc \ {p} : Busy(o) THEN Overtaken(started) ELSE started
  BY <1>5
<1>9. /\ job'[p].pc = l /\ job'[p].cmd = c /\ job'[p].root = r
      /\ job'[p].before = config /\ job'[p].next = next
      /\ job'[p].mine = {} /\ job'[p].failed = FALSE /\ job'[p].hindered = FALSE
  BY <1>2, <1>3, <1>4, <1>8 DEF SameDuty
<1>10. job'[p].alone => job'[p].was = Snapshot(r) /\ \A q \in Proc \ {p} : At(q, "idle")
  BY <1>2, <1>3, <1>4, <1>8 DEF Busy
<1>11. \A q \in Proc \ {p} : /\ ~job'[q].alone /\ job'[q].pc = job[q].pc /\ SameDuty(job'[q], job[q])
                             /\ job'[q].seen = job[q].seen /\ job'[q].mine = job[q].mine
                             /\ job'[q].failed = job[q].failed
  BY <1>4, <1>6, <1>7
<1> QED
  BY <1>6, <1>9, <1>10, <1>11 DEF Begun

LEMMA StartBegins ==
  ASSUME TypeOK, TreesKnown, NEW p \in Proc, Start(p)
  PROVE  \E c \in Commands, r \in Root \cup {NoRoot}, next \in Configs, l \in {"save", "lock"} :
           /\ Begin(p, c, r, next, l)
           /\ HasTree(next) /\ (l = "lock" => r \in Root)
<1>1. config \in Configs /\ HasTree(config)
  BY DEF TypeOK, TreesKnown
<1>2. \A r \in Root, b \in BOOLEAN : SetupConfig(r, b) \in Configs /\ HasTree(SetupConfig(r, b))
  <2>1. ASSUME NEW r \in Root, NEW migrate \in BOOLEAN, NEW enabled \in BOOLEAN
        PROVE  LET next == [config EXCEPT !.made = TRUE, !.setup = TRUE, !.root = r,
                                          !.migrate = migrate, !.enabled = enabled]
               IN  next \in Configs /\ HasTree(next)
    BY <1>1 DEF Configs, HasTree
  <2>2. \A r \in Root, b \in BOOLEAN : (r \in legacy) \in BOOLEAN /\ (b /\ r \notin legacy) \in BOOLEAN
    OBVIOUS
  <2> QED
    BY <2>1, <2>2 DEF SetupConfig
<1>3. \A b \in BOOLEAN : LET next == [config EXCEPT !.enabled = b] IN next \in Configs /\ HasTree(next)
  BY <1>1 DEF Configs, HasTree
<1>4. \A x \in Target : LET next == [config EXCEPT !.target = x] IN next \in Configs /\ HasTree(next)
  BY <1>1 DEF Configs, HasTree
<1>5. config.root \in Root \cup {NoRoot}
  BY <1>1 DEF Configs
<1>6. CASE Setup(p)
  BY <1>2, <1>6 DEF Setup, Begin
<1>7. CASE SetEnabled(p)
  BY <1>3, <1>5, <1>7 DEF SetEnabled, Begin
<1>8. CASE Update(p)
  BY <1>1, <1>8 DEF Update, Begin
<1>9. CASE Uninstall(p)
  BY <1>3, <1>5, <1>9 DEF Uninstall, Begin
<1>10. CASE ConfigureTarget(p)
  BY <1>4, <1>10 DEF ConfigureTarget, Begin
<1>11. CASE AttachOs(p)
  BY <1>1, <1>5, <1>11 DEF AttachOs, Begin, HasTree
<1> QED
  BY <1>6, <1>7, <1>8, <1>9, <1>10, <1>11 DEF Start

LEMMA StartAttachInv ==
  ASSUME AttachInv, NEW p \in Proc, Start(p)
  PROVE  AttachInv'
<1> USE DEF AttachInv
<1>1. PICK c \in Commands, r \in Root \cup {NoRoot}, next \in Configs, l \in {"save", "lock"} :
        /\ Begin(p, c, r, next, l)
        /\ HasTree(next) /\ (l = "lock" => r \in Root)
  BY StartBegins
<1>2. l \in Labels /\ l \notin Locked /\ UNCHANGED <<config, legacy, registry, lock, file, mishaps>>
  BY <1>1 DEF Labels, Locked, Begin
<1>3. /\ job' \in [Proc -> Jobs]
      /\ job'[p].pc = l /\ job'[p].root = r /\ job'[p].before = config /\ job'[p].next = next
      /\ \A q \in Proc \ {p} : job'[q].pc = job[q].pc /\ SameDuty(job'[q], job[q])
  <2>1. Begun(p, c, r, next, l)
    BY <1>1, <1>2, BeginDoes
  <2> QED
    BY <2>1 DEF Begun
<1>4. TypeOK'
  BY <1>2, <1>3 DEF TypeOK, Jobs
<1>5. TreesKnown'
  BY <1>1, <1>2, <1>3 DEF TreesKnown, SameDuty, HasTree, Locked
<1>6. HolderWorksAlone'
  BY <1>2, <1>3 DEF HolderWorksAlone, SameDuty, TreeOf
<1> QED
  BY <1>4, <1>5, <1>6

LEMMA CrashDoes ==
  ASSUME TypeOK, NEW p \in Proc, Crash(p)
  PROVE  /\ job' \in [Proc -> Jobs] /\ job'[p] = Idle
         /\ \A q \in Proc \ {p} : job'[q] = job[q]
         /\ \A r \in Root : lock'[r] = IF lock[r] = p THEN "left" ELSE lock[r]
         /\ UNCHANGED <<config, legacy, registry, file>>
BY JobIsJob, IdleIsJob DEF Crash

LEMMA CrashAttachInv ==
  ASSUME AttachInv, NEW p \in Proc, Crash(p)
  PROVE  AttachInv'
<1> USE DEF AttachInv
<1>1. TypeOK'
  <2>1. mishaps' \in Nat
    BY DEF TypeOK, Crash, Mishap
  <2>2. lock' \in [Root -> Proc \cup {"free", "left", "other"}]
    BY DEF TypeOK, Crash
  <2>3. job' \in [Proc -> Jobs] /\ UNCHANGED <<config, legacy, registry, file>>
    BY CrashDoes
  <2> QED
    BY <2>1, <2>2, <2>3 DEF TypeOK, Jobs
<1>2. TreesKnown'
  BY CrashDoes DEF TreesKnown, Idle, DefaultConfig, HasTree, Locked
<1>3. HolderWorksAlone'
  <2>1. Idle.pc \notin Locked
    BY DEF Idle, Locked
  <2>2. ASSUME NEW q \in Proc, job'[q].pc \in Locked
        PROVE  lock'[job'[q].root] = q
    <3>1. q # p /\ job'[q] = job[q]
      BY <2>1, <2>2, CrashDoes
    <3>2. job[q].root \in Root /\ lock[job[q].root] = q
      BY <2>2, <3>1 DEF TreesKnown, HolderWorksAlone, TreeOf
    <3> QED
      BY <3>1, <3>2, CrashDoes
  <2> QED
    BY <2>2 DEF HolderWorksAlone, TreeOf
<1> QED
  BY <1>1, <1>2, <1>3

\* What the operator and the other owners do to a command: nothing.
LEMMA OutsideDoes ==
  ASSUME TypeOK, NEW r \in Root, Outside(r)
  PROVE  /\ job' \in [Proc -> Jobs] /\ UNCHANGED config
         /\ \A q \in Proc : /\ job'[q].pc = job[q].pc /\ SameDuty(job'[q], job[q])
                            /\ job'[q].seen = job[q].seen /\ job'[q].mine = job[q].mine
                            /\ job'[q].failed = job[q].failed
<1>1. config' = config /\ (job' = job \/ job' = [q \in Proc |-> Overtaken(job[q])])
  BY DEF Outside, ClearLock, OtherLocks, OtherUnlocks, OtherEdits, MoveLegacy, EditByHand
<1>2. CASE job' = job
  <2>1. job \in [Proc -> Jobs]
    BY DEF TypeOK, Jobs
  <2> QED
    BY <1>1, <1>2, <2>1 DEF SameDuty
<1>3. CASE job' = [q \in Proc |-> Overtaken(job[q])]
  <2>2. \A j \in Jobs : /\ Overtaken(j) \in Jobs /\ Overtaken(j).pc = j.pc /\ SameDuty(Overtaken(j), j)
                        /\ Overtaken(j).seen = j.seen /\ Overtaken(j).mine = j.mine
                        /\ Overtaken(j).failed = j.failed
    BY OvertakenIsJob DEF Overtaken, Jobs, SameDuty
  <2> QED
    BY <1>1, <1>3, <2>2, JobIsJob
<1> QED
  BY <1>1, <1>2, <1>3

LEMMA OutsideAttachInv ==
  ASSUME AttachInv, NEW r \in Root, Outside(r)
  PROVE  AttachInv'
<1> USE DEF AttachInv
<1>1. /\ legacy' \in SUBSET Root /\ registry' \in [Root -> Texts] /\ file' \in [Root -> Contents]
      /\ lock' \in [Root -> Proc \cup {"free", "left", "other"}] /\ mishaps' \in Nat
  <2>1. CASE ClearLock(r) \/ OtherLocks(r)
    BY <2>1 DEF TypeOK, ClearLock, OtherLocks
  <2>2. CASE OtherUnlocks(r) \/ OtherEdits(r)
    <3>1. [registry[r] EXCEPT !.others = registry[r].others + 1] \in Texts
      BY DEF TypeOK, Texts
    <3>2. registry' = [registry EXCEPT ![r] = [registry[r] EXCEPT !.others = registry[r].others + 1]]
      BY <2>2 DEF OtherUnlocks, OtherEdits
    <3>3. registry' \in [Root -> Texts]
      BY <3>1, <3>2 DEF TypeOK
    <3> QED
      BY <2>2, <3>3 DEF TypeOK, OtherUnlocks, OtherEdits
  <2>3. CASE MoveLegacy(r)
    BY <2>3 DEF TypeOK, MoveLegacy
  <2>4. ASSUME NEW f \in Bridge, NEW content \in {"absent", "changed"}, EditByHand(r, f, content)
        PROVE  /\ legacy' \in SUBSET Root /\ registry' \in [Root -> Texts]
               /\ file' \in [Root -> Contents] /\ mishaps' \in Nat
               /\ lock' \in [Root -> Proc \cup {"free", "left", "other"}]
    BY <2>4 DEF TypeOK, Contents, EditByHand, Mishap
  <2> QED
    BY <2>1, <2>2, <2>3, <2>4 DEF Outside
<1>3. TypeOK'
  BY <1>1, OutsideDoes DEF TypeOK, Jobs
<1>4. TreesKnown'
  BY OutsideDoes DEF TreesKnown, SameDuty
<1>5. \A q \in Proc, s \in Root : lock[s] = q => lock'[s] = q
  BY DEF TypeOK, Outside, ClearLock, OtherLocks, OtherUnlocks, OtherEdits, MoveLegacy, EditByHand
<1>6. HolderWorksAlone'
  BY <1>5, OutsideDoes DEF HolderWorksAlone, TreesKnown, SameDuty, TreeOf
<1> QED
  BY <1>3, <1>4, <1>6

LEMMA InitAttachInv == Init => AttachInv
<1> SUFFICES ASSUME Init
             PROVE  AttachInv
  OBVIOUS
<1>1. TypeOK
  BY IdleIsJob DEF Init, TypeOK, Jobs, DefaultConfig, Configs, Texts, Entries, Contents
<1>2. TreesKnown /\ HolderWorksAlone
  BY DEF Init, TreesKnown, HolderWorksAlone, Idle, DefaultConfig, HasTree, Locked
<1> QED
  BY <1>1, <1>2 DEF AttachInv

LEMMA NextAttachInv == AttachInv /\ [Next]_vars => AttachInv'
<1> SUFFICES ASSUME AttachInv, [Next]_vars
             PROVE  AttachInv'
  OBVIOUS
<1>1. ASSUME NEW p \in Proc, Proceed(p)
      PROVE  AttachInv'
  BY <1>1, StepTypes, StepTrees, StepHolder DEF AttachInv
<1>2. CASE UNCHANGED vars
  BY <1>2 DEF vars, AttachInv, TypeOK, TreesKnown, HolderWorksAlone, TreeOf
<1> QED
  BY <1>1, <1>2, StartAttachInv, CrashAttachInv, OutsideAttachInv DEF Next

\* Configuration, registry, files, lock and commands keep their shape: what a
\* command is about to write is a document, and the tree it works on is one.
THEOREM AttachmentTypeCorrect == Spec => []TypeOK
<1>1. AttachInv => TypeOK
  BY DEF AttachInv
<1> QED
  BY <1>1, InitAttachInv, NextAttachInv, PTL DEF Spec

\* os_extension.py _registry_lock: whoever dies, is refused or cleared away,
\* two commands are never at work on one registry at the same time.
THEOREM LockHolds == Spec => []HolderWorksAlone
<1>1. AttachInv => HolderWorksAlone
  BY DEF AttachInv
<1> QED
  BY <1>1, InitAttachInv, NextAttachInv, PTL DEF Spec

-----------------------------------------------------------------------------
(***************************************************************************)
(* Other owners' entries.  While everybody takes the lock, what a command  *)
(* has read under it is what the registry still says.                      *)
(***************************************************************************)
Reading == {"locked", "engine", "entry", "compare", "replace"}

ReadIsCurrent == \A p \in Proc : job[p].pc \in Reading => job[p].seen = registry[TreeOf(p)]

CurrentInv == AttachInv /\ ReadIsCurrent

LEMMA ReadingIsLocked == Reading \subseteq Locked /\ "sweep" \notin Locked
BY DEF Reading, Locked

\* Only who holds the lock writes the registry or a file, but for a sweep.
LEMMA StepWrites ==
  ASSUME AttachInv, NEW p \in Proc, Proceed(p), NEW r \in Root
  PROVE  /\ r # TreeOf(p) \/ job[p].pc # "replace" => registry'[r] = registry[r]
         /\ r # TreeOf(p) \/ job[p].pc \notin Locked \cup {"sweep"} => file'[r] = file[r]
<1> USE DEF AttachInv, TypeOK, At
<1>1. CASE Replace(p)
  BY <1>1 DEF Replace
<1>2. CASE WriteInstructions(p) \/ WriteEngine(p)
  BY <1>2 DEF WriteInstructions, WriteEngine, Materialize, Locked, Contents
<1>3. CASE Unlink(p)
  BY <1>3 DEF Unlink, Locked, Contents
<1>4. CASE Sweep(p)
  BY <1>4 DEF Sweep, Contents
<1> QED
  BY <1>1, <1>2, <1>3, <1>4 DEF Proceed, Save, Inspect, Lock, Sync, Detach, WriteEntry, Compare,
                                Unlock, Rollback, Finish, Return

\* Two commands at work under the lock have two trees.
LEMMA TreesDiffer ==
  ASSUME AttachInv, NEW p \in Proc, NEW q \in Proc \ {p},
         job[p].pc \in Locked, job[q].pc \in Locked
  PROVE  TreeOf(q) # TreeOf(p)
BY DEF AttachInv, HolderWorksAlone

LEMMA StepReads ==
  ASSUME AttachInv, NEW p \in Proc, Proceed(p), job'[p].pc \in Reading
  PROVE  /\ registry' = registry /\ job'[p].root = job[p].root
         /\ \/ job'[p].seen = registry[TreeOf(p)]
            \/ job[p].pc \in Reading /\ job'[p].seen = job[p].seen
<1> USE DEF AttachInv, Reading, Does, Goes
<1>1. CASE Lock(p)
  BY <1>1, LockDoes DEF Lock, AfterFailure
<1>2. CASE Sync(p)
  BY <1>2, JobMoves, JobReleases, GiveUpDoes DEF Sync, At, Labels, Locked
<1>3. CASE Detach(p)
  BY <1>3, JobMoves, GiveUpDoes DEF Detach, DetachFrom, At, Labels, Locked
<1>4. CASE WriteInstructions(p) \/ WriteEngine(p)
  <2>1. PICK f \in Bridge, here \in {"locked", "engine"}, onward \in {"engine", "entry"} :
          Materialize(p, f, here, onward)
    BY <1>4 DEF WriteInstructions, WriteEngine, Bridge
  <2>2. here \in Labels /\ onward \in Labels
    BY DEF Labels, Locked
  <2>3. job'[p].seen = job[p].seen /\ job'[p].root = job[p].root /\ job[p].pc = here
    <3>1. job \in [Proc -> Jobs]
      BY JobIsJob
    <3> QED
      BY <2>1, <3>1 DEF Materialize, Goto, GiveUp, Fault, At, Jobs
  <2>4. registry' = registry
    BY <2>1 DEF Materialize
  <2> QED
    BY <2>3, <2>4
<1>5. CASE WriteEntry(p)
  BY <1>5, JobMoves, JobReleases DEF WriteEntry, At, Labels, Locked
<1>6. CASE Compare(p)
  BY <1>6, JobMoves, GiveUpDoes DEF Compare, At, Fault, Labels, Locked
<1>7. CASE Unlink(p)
  BY <1>7, UnlinkDoes
<1>8. CASE Unlock(p)
  BY <1>8, UnlockDoes DEF AfterFailure
<1>9. CASE Sweep(p)
  BY <1>9, SweepDoes
<1>10. CASE Save(p) \/ Inspect(p) \/ Replace(p) \/ Rollback(p) \/ Finish(p)
  BY <1>10, JobMoves, AbandonDoes
     DEF Save, Inspect, Finding, Replace, Rollback, Finish, Stumbles, Labels, Locked
<1>11. CASE Return(p)
  BY <1>11, ReturnDoes DEF Idle
<1> QED
  BY <1>1, <1>2, <1>3, <1>4, <1>5, <1>6, <1>7, <1>8, <1>9, <1>10, <1>11 DEF Proceed

LEMMA ProceedCurrent ==
  ASSUME CurrentInv, NEW p \in Proc, Proceed(p)
  PROVE  ReadIsCurrent'
<1> USE DEF CurrentInv
<1>1. job'[p].pc \in Reading => job'[p].seen = registry'[job'[p].root]
  BY StepReads DEF ReadIsCurrent, TreeOf
<1>2. ASSUME NEW q \in Proc \ {p}, job'[q].pc \in Reading
      PROVE  job'[q].seen = registry'[job'[q].root]
  <2>1. job'[q] = job[q]
    BY StepGoes, ReturnDoes DEF AttachInv, Goes
  <2>2. job[q].pc \in Locked /\ TreeOf(q) \in Root /\ job[q].seen = registry[TreeOf(q)]
    BY <1>2, <2>1, ReadingIsLocked DEF ReadIsCurrent, AttachInv, TreesKnown, TreeOf
  <2>3. TreeOf(q) # TreeOf(p) \/ job[p].pc # "replace"
    BY <2>2, TreesDiffer DEF Locked
  <2>4. registry'[TreeOf(q)] = registry[TreeOf(q)]
    BY <2>2, <2>3, StepWrites
  <2> QED
    BY <2>1, <2>2, <2>4 DEF TreeOf
<1> QED
  BY <1>1, <1>2 DEF ReadIsCurrent, TreeOf

LEMMA NextCurrent ==
  ASSUME ~Strangers, CurrentInv, [Next]_vars
  PROVE  ReadIsCurrent'
<1> USE DEF CurrentInv
<1>1. ASSUME NEW p \in Proc, Start(p)
      PROVE  ReadIsCurrent'
  <2>1. PICK c \in Commands, r \in Root \cup {NoRoot}, next \in Configs, l \in {"save", "lock"} :
          Begin(p, c, r, next, l)
    BY <1>1, StartBegins DEF AttachInv
  <2>2. TypeOK /\ l \in Labels
    BY DEF AttachInv, Labels
  <2>3. registry' = registry /\ Begun(p, c, r, next, l)
    BY <2>1, <2>2, BeginDoes DEF Begin
  <2>4. /\ job'[p].pc = l
        /\ \A q \in Proc \ {p} : /\ job'[q].pc = job[q].pc /\ job'[q].root = job[q].root
                                 /\ job'[q].seen = job[q].seen
    BY <2>3 DEF Begun, SameDuty
  <2> QED
    BY <2>3, <2>4 DEF ReadIsCurrent, TreeOf, Reading
<1>2. ASSUME NEW p \in Proc, Crash(p)
      PROVE  ReadIsCurrent'
  BY <1>2, CrashDoes DEF AttachInv, ReadIsCurrent, TreeOf, Idle, Reading
<1>3. ASSUME NEW r \in Root, Outside(r)
      PROVE  ReadIsCurrent'
  <2>1. \A q \in Proc : /\ job'[q].pc = job[q].pc /\ job'[q].root = job[q].root
                        /\ job'[q].seen = job[q].seen
    BY <1>3, OutsideDoes DEF AttachInv, SameDuty
  <2>2. \A s \in Root : lock[s] # "other" => registry'[s] = registry[s]
    BY <1>3 DEF AttachInv, TypeOK, Outside, ClearLock, OtherLocks, OtherUnlocks, OtherEdits,
                MoveLegacy, EditByHand
  <2>3. ASSUME NEW q \in Proc, job[q].pc \in Reading
        PROVE  TreeOf(q) \in Root /\ lock[TreeOf(q)] # "other"
    BY <2>3, ReadingIsLocked DEF AttachInv, HolderWorksAlone, TreesKnown, TreeOf
  <2> QED
    BY <2>1, <2>2, <2>3 DEF ReadIsCurrent, TreeOf
<1>4. CASE UNCHANGED vars
  BY <1>4 DEF vars, ReadIsCurrent, TreeOf
<1> QED
  BY <1>1, <1>2, <1>3, <1>4, ProceedCurrent DEF Next

LEMMA InitCurrent == Init => CurrentInv
BY InitAttachInv DEF CurrentInv, Init, ReadIsCurrent, Idle, Reading

LEMMA NextKeepsOthers ==
  ASSUME CurrentInv, [Next]_vars
  PROVE  [\A r \in Root : registry'[r].others >= registry[r].others]_vars
<1> USE DEF CurrentInv, AttachInv
<1>1. \A r \in Root : registry[r] \in Texts /\ registry[r].others \in Nat
  BY DEF TypeOK, Texts
<1>2. CASE registry' = registry
  BY <1>1, <1>2
<1>3. ASSUME NEW p \in Proc, Replace(p)
      PROVE  \A r \in Root : registry'[r].others >= registry[r].others
  <2>1. job[p].seen.others = registry[TreeOf(p)].others
    BY <1>3 DEF Replace, At, ReadIsCurrent, Reading
  <2> QED
    BY <1>1, <1>3, <2>1 DEF Replace, TypeOK
<1>4. ASSUME NEW r \in Root, OtherUnlocks(r) \/ OtherEdits(r)
      PROVE  \A s \in Root : registry'[s].others >= registry[s].others
  <2>1. registry' = [registry EXCEPT ![r].others = registry[r].others + 1]
    BY <1>4 DEF OtherUnlocks, OtherEdits
  <2>2. ASSUME NEW s \in Root
        PROVE  registry'[s].others \in {registry[s].others, registry[s].others + 1}
    BY <1>1, <2>1 DEF TypeOK, Texts
  <2> QED
    BY <1>1, <2>2
<1>5. ASSUME NEW p \in Proc, Proceed(p), ~Replace(p)
      PROVE  registry' = registry
  BY <1>5 DEF Proceed, Save, Inspect, Lock, Sync, Detach, WriteInstructions, WriteEngine,
              Materialize, WriteEntry, Compare, Unlink, Unlock, Sweep, Rollback, Finish, Return
<1>6. ASSUME NEW p \in Proc, Start(p) \/ Crash(p)
      PROVE  registry' = registry
  BY <1>6 DEF Start, Setup, SetEnabled, Update, Uninstall, ConfigureTarget, AttachOs, Begin, Crash
<1>7. ASSUME NEW r \in Root, Outside(r), ~(OtherUnlocks(r) \/ OtherEdits(r))
      PROVE  registry' = registry
  BY <1>7 DEF Outside, ClearLock, OtherLocks, MoveLegacy, EditByHand
<1>8. CASE UNCHANGED vars
  BY <1>8 DEF vars
<1> QED
  BY <1>2, <1>3, <1>4, <1>5, <1>6, <1>7, <1>8 DEF Next

\* os_extension.py _write_registry: what the other owners of extensions wrote
\* under the lock is still there after any command, for any number of both.
\* (An owner that writes without the lock may lose to the moment between the
\* comparison and the replacement.)
THEOREM OthersKept == ASSUME ~Strangers PROVE Spec => OthersAreKept
<1>1. CurrentInv /\ [Next]_vars => CurrentInv'
  BY NextAttachInv, NextCurrent DEF CurrentInv
<1>2. CurrentInv /\ [Next]_vars => [\A r \in Root : registry'[r].others >= registry[r].others]_vars
  BY NextKeepsOthers
<1> QED
  BY <1>1, <1>2, InitCurrent, PTL DEF Spec, OthersAreKept

-----------------------------------------------------------------------------
(***************************************************************************)
(* The order of the writes.  Without writes that raise and edits by hand,  *)
(* an install never fails under the lock, so that nothing is left for the  *)
(* sweep, which works without the lock.                                    *)
(***************************************************************************)
NoneChanged == \A r \in Root, f \in Bridge : file[r][f] # "changed"

\* What a command holds at each of its steps.
Duty(p) ==
  /\ job[p].pc \in {"save", "inspect", "lock"} => job[p].mine = {} /\ ~job[p].failed
  /\ job[p].pc = "sweep" => job[p].mine = {}
  /\ job[p].pc \in Locked /\ job[p].cmd = "attach" => ~job[p].failed
  /\ job[p].pc \in {"engine", "entry"} => job[p].cmd = "attach"
  /\ job[p].pc = "unlink" => job[p].cmd = "uninstall"

\* What it relies on in its tree.
Behind(p) ==
  /\ job[p].pc = "engine" => file[TreeOf(p)]["instructions"] = "ours"
  /\ job[p].pc = "entry" => Ours(TreeOf(p)) = Bridge
  /\ job[p].pc \in {"compare", "replace"} =>
       job[p].cmd = "uninstall" \/ Ours(TreeOf(p)) = Bridge
  /\ job[p].pc = "unlink" => ~Attached(TreeOf(p))

FilesInv ==
  /\ CurrentInv /\ NoneChanged /\ EntryHasItsFiles
  /\ \A p \in Proc : Duty(p) /\ Behind(p)

\* A file that is written is absent, and then ours.
LEMMA FilesMaterialize ==
  ASSUME ~WriteFaults, FilesInv, NEW p \in Proc, WriteInstructions(p) \/ WriteEngine(p)
  PROVE  /\ TreeOf(p) \in Root /\ Goes(p) /\ registry' = registry
         /\ job'[p].failed = job[p].failed /\ job[p].cmd = "attach"
         /\ \A r \in Root, f \in Bridge : file'[r][f] \in {file[r][f], "ours"}
         /\ \/ /\ job[p].pc = "locked" /\ job'[p].pc = "engine"
               /\ file'[TreeOf(p)]["instructions"] = "ours"
            \/ /\ job[p].pc = "engine" /\ job'[p].pc = "entry"
               /\ file'[TreeOf(p)]["engine"] = "ours"
<1>1. PICK f \in Bridge, here \in Labels, onward \in Labels :
        /\ Materialize(p, f, here, onward)
        /\ \/ f = "instructions" /\ here = "locked" /\ onward = "engine"
           \/ f = "engine" /\ here = "engine" /\ onward = "entry"
  BY DEF WriteInstructions, WriteEngine, Bridge, Labels, Locked
<1>2. TypeOK /\ TreesKnown
  BY DEF FilesInv, CurrentInv, AttachInv
<1>3. TreeOf(p) \in Root
  BY <1>1, <1>2 DEF Materialize, At, TreesKnown, TreeOf, Locked
<1>4. file \in [Root -> [Bridge -> {"absent", "ours", "changed"}]] /\ file[TreeOf(p)][f] # "changed"
  BY <1>2, <1>3 DEF TypeOK, Contents, FilesInv, NoneChanged
<1>5. /\ job[p].pc = here /\ job[p].cmd = "attach"
      /\ \/ /\ file[TreeOf(p)][f] = "absent" /\ file' = [file EXCEPT ![TreeOf(p)][f] = "ours"]
            /\ Does(p, onward, job[p].seen, job[p].mine \cup {f}, job[p].failed)
         \/ /\ file[TreeOf(p)][f] \notin {"absent", "changed"} /\ file' = file
            /\ Does(p, onward, job[p].seen, job[p].mine, job[p].failed)
  <2>1. Materialized(p, f, here, onward)
    BY <1>1, <1>2, MaterializeDoes
  <2> QED
    BY <1>4, <2>1, Zenon DEF Materialized
<1>6. Goes(p) /\ job'[p].pc = onward /\ job'[p].failed = job[p].failed
  BY <1>5 DEF Does
<1>7. /\ \A r \in Root, g \in Bridge : file'[r][g] \in {file[r][g], "ours"}
      /\ file'[TreeOf(p)][f] = "ours"
  BY <1>3, <1>4, <1>5
<1>8. registry' = registry
  BY <1>1 DEF Materialize
<1> QED
  BY <1>1, <1>3, <1>5, <1>6, <1>7, <1>8

LEMMA StepDuty ==
  ASSUME ~WriteFaults, FilesInv, NEW p \in Proc, Proceed(p)
  PROVE  Duty(p)'
<1>1. TypeOK /\ TreesKnown /\ ReadIsCurrent /\ Duty(p)
  BY DEF FilesInv, CurrentInv, AttachInv
<1> USE DEF Duty, At, Locked, Labels, Does, Goes
<1>2. CASE Save(p) \/ Inspect(p)
  BY <1>1, <1>2, JobMoves DEF Save, Inspect, Finding
<1>3. CASE Lock(p)
  BY <1>1, <1>3, LockDoes DEF Lock, AfterFailure
<1>4. CASE Sync(p)
  <2>1. job[p].cmd # "attach" /\ (Release(p) \/ GiveUp(p) \/ Goto(p, "compare"))
    BY <1>4 DEF Sync
  <2>2. Goes(p) /\ job'[p].pc \in {"unlock", "compare"}
    <3>1. CASE Release(p)
      BY <1>1, <3>1, JobReleases
    <3>2. CASE GiveUp(p)
      BY <1>1, <3>2, GiveUpDoes
    <3>3. CASE Goto(p, "compare")
      BY <1>1, <3>3, JobMoves
    <3> QED
      BY <2>1, <3>1, <3>2, <3>3
  <2>3. job'[p].cmd # "attach"
    BY <2>1, <2>2
  <2> QED
    BY <2>2, <2>3
<1>5. CASE Detach(p)
  <2>1. job[p].cmd = "uninstall" /\ (GiveUp(p) \/ \E l \in {"compare", "unlink"} : Goto(p, l))
    BY <1>5 DEF Detach, DetachFrom
  <2>2. Goes(p) /\ job'[p].pc \in {"unlock", "compare", "unlink"}
    <3>1. CASE GiveUp(p)
      BY <1>1, <3>1, GiveUpDoes
    <3>2. ASSUME NEW l \in {"compare", "unlink"}, Goto(p, l)
          PROVE  Goes(p) /\ job'[p].pc = l
      BY <1>1, <3>2, JobMoves
    <3> QED
      BY <2>1, <3>1, <3>2
  <2>3. job'[p].cmd = "uninstall"
    BY <2>1, <2>2
  <2> QED
    BY <2>2, <2>3
<1>6. CASE WriteInstructions(p) \/ WriteEngine(p)
  BY <1>1, <1>6, FilesMaterialize
<1>7. CASE WriteEntry(p)
  BY <1>1, <1>7, JobMoves, JobReleases DEF WriteEntry
<1>8. CASE Compare(p)
  <2>1. registry[TreeOf(p)] = job[p].seen
    BY <1>1, <1>8 DEF ReadIsCurrent, Reading, Compare
  <2> QED
    BY <1>1, <1>8, <2>1, JobMoves DEF Compare, Fault, Raises
<1>9. CASE Replace(p)
  BY <1>1, <1>9, JobMoves DEF Replace
<1>10. CASE Unlink(p)
  BY <1>1, <1>10, UnlinkDoes DEF Unlink
<1>11. CASE Unlock(p)
  <2>1. job[p].pc = "unlock" /\ (job[p].cmd = "attach" => ~job[p].failed)
    BY <1>1, <1>11 DEF Unlock
  <2>2. job'[p].pc \in {"rollback", "finish", "ok"}
    <3>1. job'[p].pc = IF job[p].failed THEN AfterFailure(p)
                       ELSE IF job[p].cmd = "uninstall" THEN "finish" ELSE "ok"
      BY <1>1, <1>11, UnlockDoes
    <3> QED
      BY <2>1, <3>1 DEF AfterFailure
  <2> QED
    BY <2>2
<1>12. CASE Sweep(p)
  BY <1>1, <1>12, SweepDoes DEF Sweep
<1>13. CASE Rollback(p) \/ Finish(p)
  BY <1>1, <1>13, JobMoves, AbandonDoes DEF Rollback, Finish
<1>14. CASE Return(p)
  BY <1>1, <1>14, ReturnDoes DEF Idle
<1> QED
  BY <1>2, <1>3, <1>4, <1>5, <1>6, <1>7, <1>8, <1>9, <1>10, <1>11, <1>12, <1>13, <1>14 DEF Proceed

\* The files of a tree and its entry, after a step of a command.
LEMMA StepFiles ==
  ASSUME ~WriteFaults, FilesInv, NEW p \in Proc, Proceed(p)
  PROVE  NoneChanged' /\ EntryHasItsFiles' /\ Behind(p)'
<1>1. /\ TypeOK /\ TreesKnown /\ ReadIsCurrent /\ Duty(p) /\ Behind(p)
      /\ NoneChanged /\ EntryHasItsFiles
  BY DEF FilesInv, CurrentInv, AttachInv
<1>2. file \in [Root -> [Bridge -> {"absent", "ours", "changed"}]]
  BY <1>1 DEF TypeOK, Contents
<1>3. CASE WriteInstructions(p) \/ WriteEngine(p)
  <2>1. /\ TreeOf(p) \in Root /\ TreeOf(p)' = TreeOf(p) /\ registry' = registry
        /\ \A r \in Root, f \in Bridge : file'[r][f] \in {file[r][f], "ours"}
    BY <1>3, FilesMaterialize DEF Goes, TreeOf
  <2>2. NoneChanged'
    BY <1>1, <2>1 DEF NoneChanged
  <2>3. \A r \in Root : Ours(r) \subseteq Ours(r)'
    BY <2>1 DEF Ours
  <2>4. EntryHasItsFiles'
    BY <1>1, <2>1, <2>3 DEF EntryHasItsFiles, Attached, Ours
  <2>5. CASE job[p].pc = "locked"
    <3>1. job'[p].pc = "engine" /\ file'[TreeOf(p)]["instructions"] = "ours"
      BY <1>3, <2>5, FilesMaterialize
    <3> QED
      BY <2>1, <2>2, <2>4, <3>1 DEF Behind
  <2>6. CASE job[p].pc # "locked"
    <3>1. job[p].pc = "engine" /\ job'[p].pc = "entry" /\ file'[TreeOf(p)]["engine"] = "ours"
      BY <1>3, <2>6, FilesMaterialize
    <3>2. file'[TreeOf(p)]["instructions"] = "ours"
      BY <1>1, <2>1, <3>1 DEF Behind, Bridge
    <3>3. Ours(TreeOf(p))' = Bridge
      BY <2>1, <3>1, <3>2 DEF Ours, Bridge
    <3> QED
      BY <2>1, <2>2, <2>4, <3>1, <3>3 DEF Behind
  <2> QED
    BY <2>5, <2>6
<1>4. CASE Replace(p)
  <2> DEFINE r     == TreeOf(p)
             entry == IF job[p].cmd = "uninstall" THEN "none" ELSE Flag(job[p].next.enabled)
  <2>1. /\ r \in Root /\ file' = file /\ Goes(p) /\ r' = r
        /\ job'[p].pc = IF job[p].cmd = "uninstall" THEN "unlink" ELSE "unlock"
    BY <1>1, <1>4, JobMoves DEF Replace, At, TreesKnown, TreeOf, Locked, Labels, Does, Goes
  <2>2. registry' = [registry EXCEPT ![r] = [entry |-> entry, others |-> job[p].seen.others]]
    BY <1>4 DEF Replace
  <2>3. registry'[r].entry = entry /\ \A s \in Root \ {r} : registry'[s] = registry[s]
    BY <1>1, <2>1, <2>2 DEF TypeOK
  <2>4. entry # "none" => Ours(r) = Bridge
    BY <1>1, <1>4 DEF Replace, At, Behind
  <2> HIDE DEF r, entry
  <2>5. EntryHasItsFiles'
    BY <1>1, <2>1, <2>3, <2>4 DEF EntryHasItsFiles, Attached, Ours
  <2>6. NoneChanged'
    BY <1>1, <2>1 DEF NoneChanged
  <2>7. job[p].cmd = "uninstall" => ~Attached(r)'
    BY <2>1, <2>3 DEF Attached, entry
  <2> QED
    BY <2>1, <2>5, <2>6, <2>7 DEF Behind, r
<1>5. CASE Unlink(p) \/ Sweep(p)
  <2>1. /\ registry' = registry
        /\ file' = file \/ (job[p].pc = "unlink" /\ \E f \in Bridge :
                              file' = [file EXCEPT ![TreeOf(p)][f] = "absent"])
    <3>1. CASE Unlink(p)
      BY <1>1, <3>1, UnlinkDoes DEF Unlink, At
    <3>2. CASE Sweep(p)
      BY <1>1, <3>2 DEF Sweep, At, Duty
    <3> QED
      BY <1>5, <3>1, <3>2
  <2>2. TreeOf(p) \in Root
    BY <1>1, <1>5 DEF Unlink, Sweep, At, TreesKnown, TreeOf, Locked
  <2>3. NoneChanged'
    BY <1>1, <1>2, <2>1, <2>2 DEF NoneChanged
  <2>4. \A r \in Root : Attached(r) => file'[r] = file[r]
    BY <1>1, <1>2, <2>1, <2>2 DEF Behind
  <2>5. EntryHasItsFiles'
    BY <1>1, <2>1, <2>4 DEF EntryHasItsFiles, Attached, Ours
  <2>6. job'[p].root = job[p].root /\ job'[p].pc \in {job[p].pc, "unlock", "failed"}
    BY <1>1, <1>5, UnlinkDoes, SweepDoes DEF Does, Goes, Unlink, Sweep, At
  <2>7. Behind(p)'
    BY <1>1, <1>5, <2>1, <2>6 DEF Behind, TreeOf, Attached, Unlink, Sweep, At
  <2> QED
    BY <2>3, <2>5, <2>7
<1>6. CASE ~(WriteInstructions(p) \/ WriteEngine(p) \/ Replace(p) \/ Unlink(p) \/ Sweep(p))
  <2>1. registry' = registry /\ file' = file
    BY <1>6 DEF Proceed, Save, Inspect, Lock, Sync, Detach, WriteEntry, Compare, Unlock, Rollback,
                Finish, Return
  <2>2. NoneChanged' /\ EntryHasItsFiles'
    BY <1>1, <2>1 DEF NoneChanged, EntryHasItsFiles, Attached, Ours
  <2>3. Goes(p) => TreeOf(p)' = TreeOf(p) /\ Ours(TreeOf(p))' = Ours(TreeOf(p))
                   /\ Attached(TreeOf(p))' = Attached(TreeOf(p)) /\ job'[p].cmd = job[p].cmd
    BY <2>1 DEF Goes, TreeOf, Ours, Attached
  <2>4. CASE Sync(p)
    <3>1. \/ Release(p) \/ GiveUp(p)
          \/ Ours(TreeOf(p)) = Bridge /\ Goto(p, "compare")
      BY <2>4, Zenon DEF Sync
    <3>2. /\ Goes(p)
          /\ \/ job'[p].pc = "unlock"
             \/ Ours(TreeOf(p)) = Bridge /\ job'[p].pc = "compare"
      BY <1>1, <3>1, JobMoves, JobReleases, GiveUpDoes DEF Does, Labels, Locked
    <3> QED
      BY <2>2, <2>3, <3>2 DEF Behind
  <2>5. CASE Detach(p)
    <3>1. /\ job[p].cmd = "uninstall" /\ job[p].pc = "locked"
          /\ \/ GiveUp(p) \/ Goto(p, "compare")
             \/ Goto(p, "unlink") /\ job[p].seen.entry = "none"
      BY <2>5 DEF Detach, DetachFrom, At
    <3>2. job[p].seen = registry[TreeOf(p)]
      BY <1>1, <3>1 DEF ReadIsCurrent, Reading
    <3>3. /\ Goes(p)
          /\ \/ job'[p].pc \in {"unlock", "compare"}
             \/ job'[p].pc = "unlink" /\ ~Attached(TreeOf(p))
      <4>1. CASE GiveUp(p)
        BY <1>1, <4>1, GiveUpDoes DEF Does
      <4>2. CASE Goto(p, "compare")
        BY <1>1, <4>2, JobMoves DEF Does, Labels, Locked
      <4>3. CASE Goto(p, "unlink") /\ job[p].seen.entry = "none"
        BY <1>1, <3>2, <4>3, JobMoves DEF Does, Labels, Locked, Attached
      <4> QED
        BY <3>1, <4>1, <4>2, <4>3
    <3> QED
      BY <2>2, <2>3, <3>1, <3>3 DEF Behind
  <2>6. CASE WriteEntry(p)
    <3>1. Goes(p) /\ job'[p].pc \in {"unlock", "compare"} /\ Ours(TreeOf(p)) = Bridge
      BY <1>1, <2>6, JobMoves, JobReleases DEF WriteEntry, Does, At, Behind, Labels, Locked
    <3> QED
      BY <2>2, <2>3, <3>1 DEF Behind
  <2>7. CASE Compare(p)
    <3>1. job[p].pc = "compare" /\ (GiveUp(p) \/ Goto(p, "replace"))
      BY <2>7 DEF Compare, Fault, At
    <3>2. Goes(p) /\ job'[p].pc \in {"unlock", "replace"}
      BY <1>1, <3>1, JobMoves, GiveUpDoes DEF Does, Labels, Locked
    <3> QED
      BY <1>1, <2>2, <2>3, <3>1, <3>2 DEF Behind
  <2>8. CASE ~(Sync(p) \/ Detach(p) \/ WriteEntry(p) \/ Compare(p))
    <3>1. CASE Save(p) \/ Inspect(p) \/ Rollback(p) \/ Finish(p)
      <4>1. PICK l \in {"ok", "inspect", "finish", "lock", "rollback", "failed"} : Goto(p, l)
        BY <3>1 DEF Save, Inspect, Finding, Rollback, Finish, Abandon, Raises
      <4>2. job'[p].pc = l
        BY <1>1, <4>1, JobMoves DEF Does, Labels
      <4> QED
        BY <2>2, <4>2 DEF Behind
    <3>2. CASE Lock(p) \/ Unlock(p)
      <4>1. job'[p].pc \in {"locked", "sweep", "rollback", "finish", "ok"}
        BY <1>1, <3>2, LockDoes, UnlockDoes DEF AfterFailure, Does
      <4> QED
        BY <2>2, <4>1 DEF Behind
    <3>3. CASE Return(p)
      <4>1. job'[p].pc = "idle"
        BY <1>1, <3>3, ReturnDoes DEF Idle
      <4> QED
        BY <2>2, <4>1 DEF Behind
    <3> QED
      BY <1>6, <2>8, <3>1, <3>2, <3>3 DEF Proceed
  <2> QED
    BY <2>4, <2>5, <2>6, <2>7, <2>8
<1> QED
  BY <1>3, <1>4, <1>5, <1>6

\* Another command is under the lock of another tree, or under none.
LEMMA OthersBehind ==
  ASSUME FilesInv, NEW p \in Proc, Proceed(p), NEW q \in Proc \ {p}
  PROVE  Duty(q)' /\ Behind(q)'
<1>1. AttachInv /\ Duty(p) /\ Duty(q) /\ Behind(q)
  BY DEF FilesInv, CurrentInv
<1>2. job'[q] = job[q]
  BY <1>1, StepGoes, ReturnDoes DEF AttachInv, Goes
<1>3. Duty(q)'
  BY <1>1, <1>2 DEF Duty
<1>4. CASE job[q].pc \in Locked
  <2>1. TreeOf(q) \in Root /\ TreeOf(q)' = TreeOf(q)
    BY <1>1, <1>2, <1>4 DEF AttachInv, TreesKnown, TreeOf
  <2>2. TreeOf(q) # TreeOf(p) \/ job[p].pc \notin Locked
    BY <1>1, <1>4, TreesDiffer
  <2>3. job[p].pc = "sweep" => file' = file
    BY <1>1, ReadingIsLocked DEF Duty, Proceed, Save, Inspect, Lock, Sync, Detach, WriteInstructions,
       WriteEngine, Materialize, WriteEntry, Compare, Replace, Unlink, Unlock, Sweep, Rollback,
       Finish, Return, At
  <2>4. file'[TreeOf(q)] = file[TreeOf(q)] /\ registry'[TreeOf(q)] = registry[TreeOf(q)]
    BY <1>1, <2>1, <2>2, <2>3, StepWrites DEF Locked
  <2>5. Ours(TreeOf(q))' = Ours(TreeOf(q)) /\ Attached(TreeOf(q))' = Attached(TreeOf(q))
    BY <2>1, <2>4 DEF Ours, Attached
  <2> QED
    BY <1>1, <1>2, <1>3, <2>1, <2>4, <2>5 DEF Behind
<1>5. CASE job[q].pc \notin Locked
  BY <1>2, <1>3, <1>5 DEF Behind, Locked
<1> QED
  BY <1>4, <1>5

LEMMA ProceedFiles ==
  ASSUME ~WriteFaults, FilesInv, NEW p \in Proc, Proceed(p)
  PROVE  /\ NoneChanged' /\ EntryHasItsFiles'
         /\ \A q \in Proc : Duty(q)' /\ Behind(q)'
BY StepDuty, StepFiles, OthersBehind

\* A step that leaves registry and files alone, and every command where it is
\* or at a step that relies on nothing.
LEMMA RestFiles ==
  ASSUME FilesInv, UNCHANGED <<registry, file>>,
         \A q \in Proc : \/ /\ job'[q].pc = job[q].pc /\ job'[q].cmd = job[q].cmd
                            /\ job'[q].root = job[q].root /\ job'[q].mine = job[q].mine
                            /\ job'[q].failed = job[q].failed
                         \/ /\ job'[q].pc \in {"idle", "save", "lock"}
                            /\ job'[q].mine = {} /\ ~job'[q].failed
  PROVE  /\ NoneChanged' /\ EntryHasItsFiles'
         /\ \A q \in Proc : Duty(q)' /\ Behind(q)'
<1>1. NoneChanged' /\ EntryHasItsFiles'
  BY DEF FilesInv, NoneChanged, EntryHasItsFiles, Attached, Ours
<1>2. ASSUME NEW q \in Proc
      PROVE  Duty(q)' /\ Behind(q)'
  <2>1. CASE job'[q].pc \in {"idle", "save", "lock"} /\ job'[q].mine = {} /\ ~job'[q].failed
    BY <2>1 DEF Duty, Behind, Locked
  <2>2. CASE /\ job'[q].pc = job[q].pc /\ job'[q].cmd = job[q].cmd
             /\ job'[q].root = job[q].root /\ job'[q].mine = job[q].mine
             /\ job'[q].failed = job[q].failed
    BY <2>2 DEF FilesInv, Duty, Behind, TreeOf, Ours, Attached
  <2> QED
    BY <2>1, <2>2
<1> QED
  BY <1>1, <1>2

LEMMA NextFiles ==
  ASSUME ~WriteFaults, ~HandEdits, ~Strangers, FilesInv, [Next]_vars
  PROVE  FilesInv'
<1>1. TypeOK /\ CurrentInv /\ CurrentInv'
  BY NextAttachInv, NextCurrent DEF FilesInv, CurrentInv, AttachInv
<1> DEFINE Kept == /\ NoneChanged' /\ EntryHasItsFiles'
                   /\ \A q \in Proc : Duty(q)' /\ Behind(q)'
<1>2. ASSUME NEW p \in Proc, Proceed(p)
      PROVE  Kept
  BY <1>2, ProceedFiles
<1>3. ASSUME NEW p \in Proc, Start(p)
      PROVE  Kept
  <2>1. PICK c \in Commands, r \in Root \cup {NoRoot}, next \in Configs, l \in {"save", "lock"} :
          Begin(p, c, r, next, l)
    BY <1>1, <1>3, StartBegins DEF CurrentInv, AttachInv
  <2>2. l \in Labels /\ UNCHANGED <<registry, file>>
    BY <2>1 DEF Labels, Begin
  <2>3. /\ job'[p].pc = l /\ job'[p].mine = {} /\ ~job'[p].failed
        /\ \A q \in Proc \ {p} : /\ job'[q].pc = job[q].pc /\ SameDuty(job'[q], job[q])
                                 /\ job'[q].mine = job[q].mine /\ job'[q].failed = job[q].failed
    <3>1. Begun(p, c, r, next, l)
      BY <1>1, <2>1, <2>2, BeginDoes
    <3> QED
      BY <3>1 DEF Begun
  <2>4. \A q \in Proc \ {p} : job'[q].cmd = job[q].cmd /\ job'[q].root = job[q].root
    BY <2>3 DEF SameDuty
  <2> QED
    BY <2>2, <2>3, <2>4, RestFiles
<1>4. ASSUME NEW p \in Proc, Crash(p)
      PROVE  Kept
  <2>1. Idle.pc = "idle" /\ Idle.mine = {} /\ ~Idle.failed
    BY DEF Idle
  <2> QED
    BY <1>1, <1>4, <2>1, CrashDoes, RestFiles
<1>5. ASSUME NEW r \in Root, Outside(r)
      PROVE  Kept
  <2>1. \A q \in Proc : /\ job'[q].pc = job[q].pc /\ job'[q].cmd = job[q].cmd
                        /\ job'[q].root = job[q].root /\ job'[q].mine = job[q].mine
                        /\ job'[q].failed = job[q].failed
    BY <1>1, <1>5, OutsideDoes DEF SameDuty
  <2>2. file' = file /\ \A s \in Root : registry'[s].entry = registry[s].entry
    BY <1>1, <1>5 DEF Outside, ClearLock, OtherLocks, OtherUnlocks, OtherEdits, MoveLegacy,
                      EditByHand, TypeOK, Texts
  <2>3. /\ NoneChanged' /\ EntryHasItsFiles'
    BY <2>2 DEF FilesInv, NoneChanged, EntryHasItsFiles, Attached, Ours
  <2>4. ASSUME NEW q \in Proc
        PROVE  Duty(q)' /\ Behind(q)'
    <3>1. job[q].pc = "unlink" => TreeOf(q) \in Root
      BY <1>1 DEF CurrentInv, AttachInv, TreesKnown, TreeOf, Locked
    <3> QED
      BY <2>1, <2>2, <3>1 DEF FilesInv, Duty, Behind, TreeOf, Ours, Attached
  <2> QED
    BY <2>3, <2>4
<1>6. ASSUME UNCHANGED vars
      PROVE  Kept
  <2>1. job' = job /\ UNCHANGED <<registry, file>>
    BY <1>6 DEF vars
  <2> QED
    BY <2>1, RestFiles
<1> QED
  BY <1>1, <1>2, <1>3, <1>4, <1>5, <1>6 DEF Next, FilesInv

LEMMA InitFiles == Init => FilesInv
<1> SUFFICES ASSUME Init
             PROVE  FilesInv
  OBVIOUS
<1>1. CurrentInv
  BY InitCurrent
<1>2. NoneChanged /\ EntryHasItsFiles
  BY DEF Init, NoneChanged, EntryHasItsFiles, Attached
<1>3. \A p \in Proc : Duty(p) /\ Behind(p)
  BY DEF Init, Duty, Behind, Idle, Locked
<1> QED
  BY <1>1, <1>2, <1>3 DEF FilesInv

\* os_extension.py install_os_extension, detach_os_extension: a tree that has
\* our entry has both bridge files, for any number of commands and trees, at
\* every moment and so whenever a command dies, while no write raises, every
\* owner of the registry takes the lock, and nobody edits the files.
THEOREM FilesBehindEntry ==
  ASSUME ~WriteFaults, ~HandEdits, ~Strangers
  PROVE  Spec => []EntryHasItsFiles
<1>1. FilesInv /\ [Next]_vars => FilesInv'
  BY NextFiles
<1>2. FilesInv => EntryHasItsFiles
  BY DEF FilesInv
<1> QED
  BY <1>1, <1>2, InitFiles, PTL DEF Spec
-----------------------------------------------------------------------------
(***************************************************************************)
(* A command that nobody overlaps.  What it holds, the configuration c and *)
(* its tree (our entry e and the files fl) are followed label by label,    *)
(* from whatever earlier commands have left behind.                        *)
(***************************************************************************)
OursIn(fl) == {f \in Bridge : fl[f] = "ours"}

Route(j) ==
  \/ j.cmd \in {"setup", "set_enabled"} /\ j.pc \in {"save", "inspect", "lock", "locked", "compare",
                                                    "replace", "unlock", "rollback", "ok", "failed"}
  \/ j.cmd = "uninstall" /\ j.pc \in {"save", "inspect", "lock", "locked", "compare", "replace",
                                      "unlink", "unlock", "rollback", "finish", "ok", "failed"}
  \/ j.cmd = "attach" /\ j.pc \in {"lock", "locked", "engine", "entry", "compare", "replace",
                                   "unlock", "sweep", "ok", "failed"}
  \/ j.cmd \in {"update", "configure"} /\ j.pc \in {"save", "ok", "failed"}

\* What the command has set out to write.
Purpose(cmd, root, before, next) ==
  CASE cmd = "setup" -> /\ root \in Root /\ next.setup /\ next.root = root
                        /\ next.target = before.target
    [] cmd = "set_enabled" -> next = [before EXCEPT !.enabled = next.enabled] /\ root = before.root
    [] cmd = "configure" -> next = [before EXCEPT !.target = next.target] /\ root = NoRoot
    [] cmd = "uninstall" -> next = [before EXCEPT !.enabled = FALSE] /\ root = before.root
    [] cmd = "attach" -> next = before /\ root = before.root /\ root \in Root
    [] OTHER -> next = before /\ root = NoRoot

\* The configuration: as loaded, saved, finished or back.  Where the way back
\* fails it stays as saved.
Paper(j, c) ==
  CASE j.pc = "save" -> c = j.before
    [] j.pc = "ok" /\ j.cmd = "uninstall" -> c = [j.next EXCEPT !.setup = FALSE]
    [] j.pc = "failed" ->
         [c EXCEPT !.made = TRUE] = [(IF j.hindered THEN j.next ELSE j.before) EXCEPT !.made = TRUE]
    [] OTHER -> c = j.next

Untouched(j, e, fl) == e = j.was.entry /\ fl = j.was.file

SettingSide(j, e, fl) ==
  LET done == e = Flag(j.next.enabled) /\ OursIn(fl) = Bridge IN
  CASE j.pc \in {"save", "inspect", "rollback", "failed"} -> Untouched(j, e, fl)
    [] j.pc = "lock" -> Untouched(j, e, fl) /\ e # "none"
    [] j.pc = "locked" -> Untouched(j, e, fl) /\ e # "none" /\ j.seen.entry = e
    [] j.pc \in {"compare", "replace"} -> /\ Untouched(j, e, fl) /\ j.seen.entry = e
                                          /\ OursIn(fl) = Bridge
    [] j.pc = "unlock" -> IF j.failed THEN Untouched(j, e, fl) ELSE done
    [] OTHER -> done \/ (e = "none" /\ OursIn(fl) = {})

\* An attachment: what it has created is all it has changed, up to the entry; a
\* file that its clean-up cannot remove is not `mine` any more.
AttachSide(j, e, fl) ==
  LET done == e = Flag(j.next.enabled) /\ OursIn(fl) = Bridge IN
  /\ \A f \in Bridge : IF f \in j.mine THEN fl[f] = "ours" /\ j.was.file[f] = "absent"
                                       ELSE \/ fl[f] = j.was.file[f]
                                            \/ j.hindered /\ j.was.file[f] = "absent" /\ fl[f] = "ours"
  /\ j.pc \in Reading => j.seen.entry = e
  /\ j.pc = "lock" => j.mine = {}
  /\ j.pc = "engine" => fl["instructions"] = "ours"
  /\ j.pc \in {"entry", "compare", "replace"} => OursIn(fl) = Bridge
  /\ IF j.pc = "ok" \/ (j.pc = "unlock" /\ ~j.failed) THEN done ELSE e = j.was.entry
  /\ j.pc = "failed" => j.mine = {}

\* An uninstall: a file goes after the entry, and only one that was ours.
OnlyRemoved(j, e, fl) ==
  \A f \in Bridge : \/ fl[f] = j.was.file[f]
                    \/ e = "none" /\ j.was.file[f] = "ours" /\ fl[f] = "absent"

UninstallSide(j, e, fl) ==
  /\ e \in {j.was.entry, "none"} /\ OnlyRemoved(j, e, fl)
  /\ j.pc \in {"locked", "compare", "replace"} => j.seen.entry = e
  /\ j.pc \in {"locked", "compare", "replace", "unlink"} => j.mine = OursIn(fl)
  /\ j.pc = "unlink" => e = "none"
  /\ j.pc \in {"finish", "ok"} \/ (j.pc = "unlock" /\ ~j.failed) => e = "none" /\ OursIn(fl) = {}

Side(j, e, fl) ==
  CASE j.cmd \in {"setup", "set_enabled"} -> SettingSide(j, e, fl)
    [] j.cmd = "attach" -> AttachSide(j, e, fl)
    [] j.cmd = "uninstall" -> UninstallSide(j, e, fl)
    [] OTHER -> TRUE

\* Steps that a command which has failed does not get to.
Smooth == Reading \cup {"save", "inspect", "lock", "unlink"}

Undisturbed(j, c, R, F) ==
  /\ Route(j) /\ Purpose(j.cmd, j.root, j.before, j.next) /\ Paper(j, c)
  /\ j.pc \in Smooth => ~j.failed
  /\ j.hindered => j.pc \in {"sweep", "failed"}
  /\ j.root \in Root => Side(j, R[j.root].entry, F[j.root])

Follows(p) == Undisturbed(job[p], config, registry, file)

AloneInv ==
  \A p \in Proc : job[p].alone => Follows(p) /\ \A q \in Proc \ {p} : At(q, "idle")

\* What a step of the command has to keep.
LEMMA FollowsOn ==
  ASSUME NEW p \in Proc, Follows(p), Goes(p), Route(job'[p]), Paper(job'[p], config'),
         job'[p].pc \in Smooth => ~job'[p].failed,
         job'[p].hindered => job'[p].pc \in {"sweep", "failed"},
         job[p].root \in Root =>
           Side(job'[p], registry'[job[p].root].entry, file'[job[p].root])
  PROVE  Follows(p)'
BY DEF Follows, Undisturbed, Goes

LEMMA WasFollowing ==
  ASSUME NEW p \in Proc, Follows(p)
  PROVE  /\ Route(job[p]) /\ Paper(job[p], config)
         /\ Purpose(job[p].cmd, job[p].root, job[p].before, job[p].next)
         /\ job[p].pc \in Smooth => ~job[p].failed
         /\ job[p].hindered => job[p].pc \in {"sweep", "failed"}
         /\ job[p].root \in Root =>
              Side(job[p], registry[job[p].root].entry, file[job[p].root])
BY DEF Follows, Undisturbed

LEMMA SaveFollows ==
  ASSUME AttachInv, NEW p \in Proc, Follows(p), Save(p)
  PROVE  Follows(p)'
<1>1. /\ job[p].pc = "save" /\ registry' = registry /\ file' = file
      /\ ~job[p].failed /\ ~job[p].hindered /\ config = job[p].before
      /\ job[p].cmd \in {"setup", "set_enabled", "uninstall", "update", "configure"}
      /\ job[p].root \in Root => Side(job[p], registry[job[p].root].entry, file[job[p].root])
  BY WasFollowing DEF Save, At, Smooth, Paper, Route
<1>2. \/ config' = job[p].next
         /\ Goto(p, IF job[p].cmd \in {"update", "configure"} THEN "ok" ELSE "inspect")
      \/ config' = config /\ Goto(p, "failed")
  BY DEF Save
<1>3. PICK l \in {"ok", "inspect", "failed"} :
        /\ Does(p, l, job[p].seen, job[p].mine, job[p].failed)
        /\ l = "ok" => job[p].cmd \in {"update", "configure"}
        /\ l = "inspect" => job[p].cmd \notin {"update", "configure"}
        /\ config' = IF l = "failed" THEN config ELSE job[p].next
  BY <1>2, JobMoves DEF AttachInv, Labels
<1>4. /\ Goes(p) /\ job'[p].pc = l /\ job'[p].cmd = job[p].cmd /\ job'[p].was = job[p].was
      /\ job'[p].next = job[p].next /\ job'[p].before = job[p].before
      /\ ~job'[p].failed /\ ~job'[p].hindered
  BY <1>1, <1>3 DEF Does, Goes
<1>5. Route(job'[p]) /\ Paper(job'[p], config')
  BY <1>1, <1>3, <1>4 DEF Route, Paper
<1>6. job[p].root \in Root => Side(job'[p], registry'[job[p].root].entry, file'[job[p].root])
  <2>1. CASE job[p].cmd \in {"setup", "set_enabled"}
    BY <1>1, <1>3, <1>4, <2>1 DEF Side, SettingSide, Untouched
  <2>2. CASE job[p].cmd = "uninstall"
    BY <1>1, <1>3, <1>4, <2>2 DEF Side, UninstallSide, OnlyRemoved
  <2>3. CASE job[p].cmd \in {"update", "configure"}
    BY <1>4, <2>3 DEF Side
  <2> QED
    BY <1>1, <2>1, <2>2, <2>3
<1> QED
  BY <1>4, <1>5, <1>6, FollowsOn

\* attachment_authority, once the configuration is saved.
LEMMA InspectDoes ==
  ASSUME TypeOK, NEW p \in Proc, Inspect(p)
  PROVE  LET found == Finding(TreeOf(p))  uninstalls == job[p].cmd = "uninstall" IN
         /\ job[p].pc = "inspect" /\ UNCHANGED <<config, registry, file>>
         /\ \/ /\ found = "nothing" /\ uninstalls
               /\ Does(p, "finish", job[p].seen, job[p].mine, job[p].failed)
            \/ /\ found = "nothing" /\ ~uninstalls
               /\ Does(p, "ok", job[p].seen, job[p].mine, job[p].failed)
            \/ /\ found = "stray" /\ ~uninstalls
               /\ Does(p, "rollback", job[p].seen, job[p].mine, job[p].failed)
            \/ /\ found = "entry" \/ (found = "stray" /\ uninstalls)
               /\ Does(p, "lock", job[p].seen, job[p].mine, job[p].failed)
<1>1. /\ job[p].pc = "inspect" /\ UNCHANGED <<config, registry, file>>
      /\ Finding(TreeOf(p)) \in {"nothing", "stray", "entry"}
  BY DEF Inspect, At, Finding
<1>2. \A l \in {"finish", "ok", "rollback", "lock"} :
        Goto(p, l) => Does(p, l, job[p].seen, job[p].mine, job[p].failed)
  BY JobMoves DEF Labels
<1>3. CASE Finding(TreeOf(p)) = "nothing"
  <2>1. Goto(p, IF job[p].cmd = "uninstall" THEN "finish" ELSE "ok")
    BY <1>3 DEF Inspect
  <2> QED
    BY <1>1, <1>2, <1>3, <2>1
<1>4. CASE Finding(TreeOf(p)) = "stray"
  <2>1. Goto(p, IF job[p].cmd = "uninstall" THEN "lock" ELSE "rollback")
    BY <1>4 DEF Inspect
  <2> QED
    BY <1>1, <1>2, <1>4, <2>1
<1>5. CASE Finding(TreeOf(p)) = "entry"
  <2>1. Goto(p, "lock")
    BY <1>5 DEF Inspect
  <2> QED
    BY <1>1, <1>2, <1>5, <2>1
<1> QED
  BY <1>1, <1>3, <1>4, <1>5

LEMMA InspectFollows ==
  ASSUME AttachInv, NEW p \in Proc, Follows(p), Inspect(p)
  PROVE  Follows(p)'
<1> DEFINE e  == registry[job[p].root].entry
           fl == file[job[p].root]
<1>1. Finding(TreeOf(p)) = IF job[p].root = NoRoot THEN "nothing"
                           ELSE IF e # "none" THEN "entry"
                           ELSE IF OursIn(fl) # {} THEN "stray" ELSE "nothing"
  BY DEF Finding, Attached, Ours, OursIn, TreeOf
<1>2. PICK l \in {"finish", "ok", "rollback", "lock"} :
        Does(p, l, job[p].seen, job[p].mine, job[p].failed)
  BY InspectDoes DEF AttachInv
<1>3. /\ Goes(p) /\ job'[p].pc = l /\ ~job'[p].failed /\ ~job'[p].hindered
      /\ job[p].pc = "inspect" /\ UNCHANGED <<config, registry, file>>
  BY <1>2, WasFollowing, InspectDoes DEF Does, Smooth, AttachInv
<1>4. CASE job[p].cmd = "uninstall"
  <2>1. l = IF Finding(TreeOf(p)) = "nothing" THEN "finish" ELSE "lock"
    BY <1>3, <1>4, InspectDoes DEF Does, AttachInv
  <2>2. Route(job'[p]) /\ Paper(job'[p], config')
    BY <1>3, <1>4, <2>1, WasFollowing DEF Goes, Route, Paper
  <2>3. job[p].root \in Root => Side(job'[p], registry'[job[p].root].entry, file'[job[p].root])
    <3>1. job[p].root \in Root => UninstallSide(job[p], e, fl)
      BY <1>4, WasFollowing DEF Side
    <3>2. job'[p].cmd = "uninstall" /\ job'[p].was = job[p].was
      BY <1>3, <1>4 DEF Goes
    <3>3. job[p].root \in Root => UninstallSide(job'[p], e, fl)
      BY <1>1, <1>3, <2>1, <3>1, <3>2 DEF UninstallSide, OnlyRemoved
    <3> QED
      BY <1>3, <3>2, <3>3 DEF Side
  <2> QED
    BY <1>3, <1>4, <2>1, <2>2, <2>3, FollowsOn
<1>5. CASE job[p].cmd \in {"setup", "set_enabled"}
  <2>1. l = CASE Finding(TreeOf(p)) = "nothing" -> "ok"
              [] Finding(TreeOf(p)) = "stray" -> "rollback"
              [] OTHER -> "lock"
    BY <1>3, <1>5, InspectDoes DEF Does, AttachInv
  <2>2. Route(job'[p]) /\ Paper(job'[p], config')
    BY <1>3, <1>5, <2>1, WasFollowing DEF Goes, Route, Paper
  <2>3. job[p].root \in Root => Side(job'[p], registry'[job[p].root].entry, file'[job[p].root])
    <3>1. job[p].root \in Root => Untouched(job[p], e, fl)
      BY <1>3, <1>5, WasFollowing DEF Side, SettingSide
    <3>2. job'[p].cmd = job[p].cmd /\ job'[p].was = job[p].was
      BY <1>3 DEF Goes
    <3>3. job[p].root \in Root => SettingSide(job'[p], e, fl)
      BY <1>1, <1>3, <2>1, <3>1, <3>2 DEF SettingSide, Untouched
    <3> QED
      BY <1>3, <1>5, <3>2, <3>3 DEF Side
  <2> QED
    BY <1>3, <1>5, <2>2, <2>3, FollowsOn
<1> QED
  BY <1>3, <1>4, <1>5, WasFollowing DEF Route

LEMMA LockFollows ==
  ASSUME AttachInv, NEW p \in Proc, Follows(p), Lock(p)
  PROVE  Follows(p)'
<1> DEFINE r  == job[p].root
           e  == registry[r].entry
           fl == file[r]
<1>1. /\ job[p].pc = "lock" /\ UNCHANGED <<config, registry, file>>
      /\ r \in Root /\ ~job[p].failed /\ ~job[p].hindered /\ Side(job[p], e, fl)
      /\ Ours(r) = OursIn(fl)
      /\ Route(job[p]) /\ Paper(job[p], config)
  BY WasFollowing DEF Lock, At, AttachInv, TreesKnown, Smooth, Ours, OursIn
<1>2. CASE Does(p, "locked", registry[r], IF job[p].cmd = "attach" THEN {} ELSE Ours(r), job[p].failed)
  <2>1. /\ Goes(p) /\ job'[p].pc = "locked" /\ job'[p].seen.entry = e
        /\ ~job'[p].failed /\ ~job'[p].hindered
        /\ job'[p].mine = IF job[p].cmd = "attach" THEN {} ELSE OursIn(fl)
    BY <1>1, <1>2 DEF Does
  <2>2. Route(job'[p]) /\ Paper(job'[p], config')
    BY <1>1, <2>1 DEF Goes, Route, Paper
  <2>3. Side(job'[p], e, fl)
    <3>1. /\ job'[p].cmd = job[p].cmd /\ job'[p].next = job[p].next /\ job'[p].was = job[p].was
          /\ job[p].cmd \in {"setup", "set_enabled", "uninstall", "attach"}
      BY <1>1, <2>1 DEF Goes, Route
    <3>2. CASE job[p].cmd \in {"setup", "set_enabled"}
      BY <1>1, <2>1, <3>1, <3>2 DEF Side, SettingSide, Untouched
    <3>3. CASE job[p].cmd = "attach"
      BY <1>1, <2>1, <3>1, <3>3 DEF Side, AttachSide
    <3>4. CASE job[p].cmd = "uninstall"
      BY <1>1, <2>1, <3>1, <3>4 DEF Side, UninstallSide, OnlyRemoved
    <3> QED
      BY <3>1, <3>2, <3>3, <3>4
  <2> QED
    BY <1>1, <2>1, <2>2, <2>3, FollowsOn
<1>3. CASE Does(p, AfterFailure(p), job[p].seen, job[p].mine, TRUE)
  <2>1. /\ Goes(p) /\ job'[p].pc = (IF job[p].cmd = "attach" THEN "sweep" ELSE "rollback")
        /\ job'[p].mine = job[p].mine /\ ~job'[p].hindered
    BY <1>1, <1>3 DEF Does, AfterFailure
  <2>2. Route(job'[p]) /\ Paper(job'[p], config') /\ job'[p].pc \notin Smooth
    BY <1>1, <2>1 DEF Goes, Route, Paper, Smooth, Reading
  <2>3. Side(job'[p], e, fl)
    <3>1. /\ job'[p].cmd = job[p].cmd /\ job'[p].next = job[p].next /\ job'[p].was = job[p].was
          /\ job[p].cmd \in {"setup", "set_enabled", "uninstall", "attach"}
      BY <1>1, <2>1 DEF Goes, Route
    <3>2. CASE job[p].cmd \in {"setup", "set_enabled"}
      BY <1>1, <2>1, <3>1, <3>2 DEF Side, SettingSide, Untouched
    <3>3. CASE job[p].cmd = "attach"
      BY <1>1, <2>1, <3>1, <3>3 DEF Side, AttachSide, Reading
    <3>4. CASE job[p].cmd = "uninstall"
      BY <1>1, <2>1, <3>1, <3>4 DEF Side, UninstallSide, OnlyRemoved
    <3> QED
      BY <3>1, <3>2, <3>3, <3>4
  <2> QED
    BY <1>1, <2>1, <2>2, <2>3, FollowsOn
<1> QED
  BY <1>2, <1>3, LockDoes DEF AttachInv, TreeOf

\* A step under the lock, of a command still without an error: what is known of
\* it, and what remains to be shown of a step that leaves the configuration.
LEMMA UnderLock ==
  ASSUME AttachInv, NEW p \in Proc, Follows(p), job[p].pc \in Reading \cup {"unlink"}
  PROVE  /\ job[p].root \in Root /\ TreeOf(p) = job[p].root
         /\ job[p].failed = FALSE /\ ~job[p].hindered
         /\ Side(job[p], registry[job[p].root].entry, file[job[p].root])
         /\ Ours(job[p].root) = OursIn(file[job[p].root])
         /\ Route(job[p]) /\ config = job[p].next
<1>1. job[p].root \in Root
  BY ReadingIsLocked DEF AttachInv, TreesKnown, Locked
<1>2. config = job[p].next
  BY WasFollowing DEF Paper, Reading
<1>3. job[p].failed \in BOOLEAN
  BY JobIsJob DEF AttachInv
<1> QED
  BY <1>1, <1>2, <1>3, WasFollowing DEF Smooth, Reading, Ours, OursIn, TreeOf

LEMMA LockedFollows ==
  ASSUME NEW p \in Proc, Follows(p), Goes(p), config' = job[p].next,
         job[p].root \in Root, Route(job'[p]), job'[p].pc \in Reading \cup {"unlink", "unlock"},
         job'[p].pc # "unlock" => ~job'[p].failed, ~job'[p].hindered,
         Side(job'[p], registry'[job[p].root].entry, file'[job[p].root])
  PROVE  Follows(p)'
<1>1. Paper(job'[p], config')
  BY DEF Paper, Goes, Reading
<1>2. job'[p].pc \in Smooth => ~job'[p].failed
  BY DEF Smooth, Reading
<1> QED
  BY <1>1, <1>2, FollowsOn DEF Reading

LEMMA SyncFollows ==
  ASSUME AttachInv, NEW p \in Proc, Follows(p), Sync(p)
  PROVE  Follows(p)'
<1> DEFINE r  == job[p].root
           e  == registry[r].entry
           fl == file[r]
<1>1. /\ job[p].pc = "locked" /\ job[p].cmd \in {"setup", "set_enabled"}
      /\ UNCHANGED <<config, registry, file>>
  BY DEF Sync, At
<1>2. /\ r \in Root /\ job[p].failed = FALSE /\ ~job[p].hindered /\ Side(job[p], e, fl)
      /\ config = job[p].next
  BY <1>1, UnderLock DEF Reading
<1>3. \/ e = "none" /\ Does(p, "unlock", job[p].seen, job[p].mine, job[p].failed)
      \/ Does(p, "unlock", job[p].seen, job[p].mine, TRUE)
      \/ /\ OursIn(fl) = Bridge /\ e = Flag(job[p].next.enabled)
         /\ Does(p, "unlock", job[p].seen, job[p].mine, job[p].failed)
      \/ /\ OursIn(fl) = Bridge /\ Does(p, "compare", job[p].seen, job[p].mine, job[p].failed)
  <2>1. job[p].seen.entry = e /\ Ours(r) = OursIn(fl) /\ TreeOf(p) = r
    BY <1>1, <1>2 DEF Side, SettingSide, Ours, OursIn, TreeOf
  <2>2. \/ e = "none" /\ Release(p)
        \/ GiveUp(p)
        \/ OursIn(fl) = Bridge /\ e = Flag(job[p].next.enabled) /\ Release(p)
        \/ OursIn(fl) = Bridge /\ Goto(p, "compare")
    BY <2>1, Zenon DEF Sync
  <2> QED
    BY <2>2, JobMoves, JobReleases, GiveUpDoes DEF AttachInv, Labels, Locked
<1>4. Goes(p) /\ job'[p].pc \in {"unlock", "compare"} /\ (job'[p].pc = "compare" => ~job'[p].failed)
      /\ job'[p].seen = job[p].seen /\ ~job'[p].hindered
  BY <1>2, <1>3 DEF Does
<1>5. Side(job'[p], e, fl) /\ Route(job'[p])
  BY <1>1, <1>2, <1>3 DEF Does, Goes, Route, Side, SettingSide, Untouched
<1> QED
  BY <1>1, <1>2, <1>4, <1>5, LockedFollows DEF Reading

LEMMA DetachFollows ==
  ASSUME AttachInv, NEW p \in Proc, Follows(p), Detach(p)
  PROVE  Follows(p)'
<1> DEFINE r  == job[p].root
           e  == registry[r].entry
           fl == file[r]
<1>1. /\ job[p].pc = "locked" /\ job[p].cmd = "uninstall"
      /\ UNCHANGED <<config, registry, file>>
  BY DEF Detach, At
<1>2. /\ r \in Root /\ job[p].failed = FALSE /\ ~job[p].hindered /\ Side(job[p], e, fl)
      /\ config = job[p].next
  BY <1>1, UnderLock DEF Reading
<1>3. job[p].seen.entry = e
  BY <1>1, <1>2 DEF Side, UninstallSide, OnlyRemoved
<1>4. \/ Does(p, "unlock", job[p].seen, job[p].mine, TRUE)
      \/ Does(p, "compare", job[p].seen, job[p].mine, FALSE)
      \/ e = "none" /\ Does(p, "unlink", job[p].seen, job[p].mine, FALSE)
  <2>1. GiveUp(p) \/ Goto(p, "compare") \/ (e = "none" /\ Goto(p, "unlink"))
    BY <1>3 DEF Detach, DetachFrom
  <2> QED
    BY <1>2, <2>1, JobMoves, GiveUpDoes DEF AttachInv, Labels, Locked
<1>5. /\ Goes(p) /\ job'[p].pc \in {"unlock", "compare", "unlink"}
      /\ job'[p].pc # "unlock" => ~job'[p].failed
      /\ ~job'[p].hindered
  BY <1>2, <1>4 DEF Does
<1>6. Side(job'[p], e, fl) /\ Route(job'[p])
  BY <1>1, <1>2, <1>4 DEF Does, Goes, Route, Side, UninstallSide, OnlyRemoved
<1> QED
  BY <1>1, <1>2, <1>5, <1>6, LockedFollows DEF Reading

LEMMA WriteEntryFollows ==
  ASSUME AttachInv, NEW p \in Proc, Follows(p), WriteEntry(p)
  PROVE  Follows(p)'
<1> DEFINE r  == job[p].root
           e  == registry[r].entry
           fl == file[r]
<1>1. job[p].pc = "entry" /\ UNCHANGED <<config, registry, file>>
  BY DEF WriteEntry, At
<1>2. /\ r \in Root /\ job[p].failed = FALSE /\ ~job[p].hindered /\ Side(job[p], e, fl)
      /\ config = job[p].next
      /\ job[p].cmd = "attach"
  BY <1>1, UnderLock DEF Reading, Route
<1>3. job[p].seen.entry = e
  BY <1>1, <1>2 DEF Side, AttachSide, Reading
<1>4. \/ e = Flag(job[p].next.enabled) /\ Does(p, "unlock", job[p].seen, job[p].mine, FALSE)
      \/ Does(p, "compare", job[p].seen, job[p].mine, FALSE)
  BY <1>2, <1>3, JobMoves, JobReleases DEF WriteEntry, AttachInv, Labels, Locked
<1>5. Goes(p) /\ job'[p].pc \in {"unlock", "compare"} /\ ~job'[p].failed /\ ~job'[p].hindered
  BY <1>2, <1>4 DEF Does
<1>6. Side(job'[p], e, fl) /\ Route(job'[p])
  BY <1>1, <1>2, <1>4 DEF Does, Goes, Route, Side, AttachSide, Reading
<1> QED
  BY <1>1, <1>2, <1>5, <1>6, LockedFollows DEF Reading

LEMMA CompareFollows ==
  ASSUME AttachInv, NEW p \in Proc, Follows(p), Compare(p)
  PROVE  Follows(p)'
<1> DEFINE r  == job[p].root
           e  == registry[r].entry
           fl == file[r]
<1>1. job[p].pc = "compare" /\ UNCHANGED <<config, registry, file>>
  BY DEF Compare, At
<1>2. /\ r \in Root /\ job[p].failed = FALSE /\ ~job[p].hindered /\ Side(job[p], e, fl)
      /\ config = job[p].next
      /\ Route(job[p])
  BY <1>1, UnderLock DEF Reading
<1>3. \/ Does(p, "replace", job[p].seen, job[p].mine, FALSE)
      \/ Does(p, "unlock", job[p].seen, job[p].mine, TRUE)
  BY <1>2, JobMoves, GiveUpDoes DEF Compare, Fault, AttachInv, Labels, Locked
<1>4. /\ Goes(p) /\ job'[p].pc \in {"unlock", "replace"}
      /\ job'[p].pc # "unlock" => ~job'[p].failed
      /\ ~job'[p].hindered
  BY <1>2, <1>3 DEF Does
<1>5. /\ job'[p].cmd = job[p].cmd /\ job'[p].next = job[p].next /\ job'[p].was = job[p].was
      /\ job'[p].seen = job[p].seen /\ job'[p].mine = job[p].mine
      /\ job'[p].pc = "unlock" => job'[p].failed
      /\ job[p].cmd \in {"setup", "set_enabled", "uninstall", "attach"}
  BY <1>1, <1>2, <1>3 DEF Does, Goes, Route
<1>6. Route(job'[p])
  BY <1>4, <1>5 DEF Route
<1>7. Side(job'[p], e, fl)
  <2>1. CASE job[p].cmd \in {"setup", "set_enabled"}
    BY <1>1, <1>2, <1>4, <1>5, <2>1 DEF Side, SettingSide, Untouched
  <2>2. CASE job[p].cmd = "attach"
    BY <1>1, <1>2, <1>4, <1>5, <2>2 DEF Side, AttachSide, Reading
  <2>3. CASE job[p].cmd = "uninstall"
    BY <1>1, <1>2, <1>4, <1>5, <2>3 DEF Side, UninstallSide, OnlyRemoved
  <2> QED
    BY <1>5, <2>1, <2>2, <2>3
<1> QED
  BY <1>1, <1>2, <1>4, <1>6, <1>7, LockedFollows DEF Reading

LEMMA ReplaceFollows ==
  ASSUME AttachInv, NEW p \in Proc, Follows(p), Replace(p)
  PROVE  Follows(p)'
<1> DEFINE r  == job[p].root
           e  == registry[r].entry
           fl == file[r]
           entry == IF job[p].cmd = "uninstall" THEN "none" ELSE Flag(job[p].next.enabled)
           onward == IF job[p].cmd = "uninstall" THEN "unlink" ELSE "unlock"
<1>1. /\ job[p].pc = "replace" /\ UNCHANGED <<config, file>>
      /\ registry' = [registry EXCEPT ![r] = [entry |-> entry, others |-> job[p].seen.others]]
  BY DEF Replace, At, TreeOf
<1>2. /\ r \in Root /\ job[p].failed = FALSE /\ ~job[p].hindered /\ Side(job[p], e, fl)
      /\ config = job[p].next
      /\ Route(job[p])
  BY <1>1, UnderLock DEF Reading
<1>3. registry'[r].entry = entry
  BY <1>1, <1>2 DEF AttachInv, TypeOK
<1>4. Does(p, onward, job[p].seen, job[p].mine, FALSE)
  BY <1>2, JobMoves DEF Replace, AttachInv, Labels, Locked
<1>5. /\ Goes(p) /\ job'[p].pc = onward /\ job'[p].mine = job[p].mine
      /\ ~job'[p].failed /\ ~job'[p].hindered
  BY <1>2, <1>4 DEF Does
<1>6. Route(job'[p])
  BY <1>1, <1>2, <1>5 DEF Goes, Route
<1>7. Side(job'[p], entry, fl)
  <2>1. /\ job'[p].cmd = job[p].cmd /\ job'[p].next = job[p].next /\ job'[p].was = job[p].was
        /\ job[p].cmd \in {"setup", "set_enabled", "uninstall", "attach"}
    BY <1>1, <1>2, <1>5 DEF Goes, Route
  <2>2. CASE job[p].cmd \in {"setup", "set_enabled"}
    BY <1>1, <1>2, <1>5, <2>1, <2>2 DEF Side, SettingSide, Untouched
  <2>3. CASE job[p].cmd = "attach"
    BY <1>1, <1>2, <1>5, <2>1, <2>3 DEF Side, AttachSide, Reading
  <2>4. CASE job[p].cmd = "uninstall"
    BY <1>1, <1>2, <1>5, <2>1, <2>4 DEF Side, UninstallSide, OnlyRemoved
  <2> QED
    BY <2>1, <2>2, <2>3, <2>4
<1> QED
  BY <1>1, <1>2, <1>3, <1>5, <1>6, <1>7, LockedFollows DEF Reading

\* What is absent and what is ours, file by file.
LEMMA OursWhole ==
  ASSUME NEW fl
  PROVE  OursIn(fl) = Bridge <=> \A f \in Bridge : fl[f] = "ours"
BY DEF OursIn

LEMMA MaterializeFollows ==
  ASSUME AttachInv, NEW p \in Proc, Follows(p), WriteInstructions(p) \/ WriteEngine(p)
  PROVE  Follows(p)'
<1> DEFINE r  == job[p].root
           e  == registry[r].entry
           fl == file[r]
<1>1. PICK f \in Bridge, here \in {"locked", "engine"}, onward \in {"engine", "entry"} :
        /\ Materialize(p, f, here, onward)
        /\ f = IF here = "locked" THEN "instructions" ELSE "engine"
        /\ onward = IF here = "locked" THEN "engine" ELSE "entry"
  BY DEF WriteInstructions, WriteEngine, Bridge
<1>2. here \in Labels /\ onward \in Labels /\ TypeOK
  BY DEF Labels, Locked, AttachInv
<1>3. Materialized(p, f, here, onward) /\ UNCHANGED <<config, registry>>
  BY <1>1, <1>2, MaterializeDoes DEF Materialize
<1>4. job[p].pc = here /\ job[p].cmd = "attach"
  BY <1>3 DEF Materialized
<1>5. /\ r \in Root /\ job[p].failed = FALSE /\ ~job[p].hindered /\ Side(job[p], e, fl)
      /\ config = job[p].next /\ TreeOf(p) = r
  BY <1>4, UnderLock DEF Reading
<1>6. fl \in Contents /\ file \in [Root -> Contents]
  BY <1>2, <1>5 DEF TypeOK
<1>7. CASE /\ fl[f] = "absent" /\ file' = [file EXCEPT ![r][f] = "ours"]
           /\ Does(p, onward, job[p].seen, job[p].mine \cup {f}, job[p].failed)
  <2>1. /\ file'[r][f] = "ours" /\ \A g \in Bridge \ {f} : file'[r][g] = fl[g]
    BY <1>5, <1>6, <1>7 DEF Contents
  <2>2. /\ Goes(p) /\ job'[p].pc = onward /\ ~job'[p].failed /\ ~job'[p].hindered
        /\ job'[p].mine = job[p].mine \cup {f} /\ job'[p].seen = job[p].seen
    BY <1>5, <1>7 DEF Does
  <2>3. Route(job'[p])
    BY <1>4, <2>2 DEF Goes, Route
  <2>4. f \notin job[p].mine
    BY <1>4, <1>5, <1>7 DEF Side, AttachSide
  <2>5. /\ job[p].seen.entry = e /\ e = job[p].was.entry
        /\ \A g \in Bridge : IF g \in job[p].mine THEN fl[g] = "ours" /\ job[p].was.file[g] = "absent"
                                                    ELSE fl[g] = job[p].was.file[g]
        /\ here = "engine" => fl["instructions"] = "ours"
    BY <1>4, <1>5 DEF Side, AttachSide, Reading
  <2>6. \A g \in Bridge : IF g \in job'[p].mine THEN file'[r][g] = "ours" /\ job[p].was.file[g] = "absent"
                                                 ELSE file'[r][g] = job[p].was.file[g]
    BY <1>7, <2>1, <2>2, <2>4, <2>5
  <2>7. /\ onward = "engine" => file'[r]["instructions"] = "ours"
        /\ onward = "entry" => OursIn(file'[r]) = Bridge
    BY <1>1, <2>1, <2>5, OursWhole DEF Bridge
  <2>8. AttachSide(job'[p], e, file'[r])
    BY <2>2, <2>5, <2>6, <2>7 DEF Goes, AttachSide
  <2>9. Side(job'[p], e, file'[r])
    BY <1>4, <2>2, <2>8 DEF Goes, Side
  <2> QED
    BY <1>3, <1>5, <2>2, <2>3, <2>9, LockedFollows DEF Reading
<1>8. CASE /\ fl[f] \notin {"absent", "changed"} /\ file' = file
           /\ Does(p, onward, job[p].seen, job[p].mine, job[p].failed)
  <2>1. fl[f] = "ours"
    BY <1>6, <1>8 DEF Contents
  <2>2. /\ Goes(p) /\ job'[p].pc = onward /\ ~job'[p].failed /\ ~job'[p].hindered
        /\ job'[p].mine = job[p].mine /\ job'[p].seen = job[p].seen
    BY <1>5, <1>8 DEF Does
  <2>3. Route(job'[p])
    BY <1>4, <2>2 DEF Goes, Route
  <2>4. Side(job'[p], e, fl)
    BY <1>1, <1>4, <1>5, <2>1, <2>2, OursWhole DEF Goes, Side, AttachSide, Reading, Bridge
  <2> QED
    BY <1>3, <1>5, <1>8, <2>2, <2>3, <2>4, LockedFollows DEF Reading
<1>9. CASE file' = file /\ Does(p, "unlock", job[p].seen, job[p].mine, TRUE)
  <2>1. /\ Goes(p) /\ job'[p].pc = "unlock" /\ job'[p].mine = job[p].mine
        /\ job'[p].failed /\ ~job'[p].hindered
    BY <1>5, <1>9 DEF Does
  <2>2. Route(job'[p])
    BY <1>4, <2>1 DEF Goes, Route
  <2>3. Side(job'[p], e, fl)
    BY <1>4, <1>5, <2>1 DEF Goes, Side, AttachSide, Reading
  <2> QED
    BY <1>3, <1>5, <1>9, <2>1, <2>2, <2>3, LockedFollows
<1> QED
  BY <1>3, <1>5, <1>7, <1>8, <1>9 DEF Materialized

LEMMA UnlinkFollows ==
  ASSUME AttachInv, NEW p \in Proc, Follows(p), Unlink(p)
  PROVE  Follows(p)'
<1> DEFINE r  == job[p].root
           e  == registry[r].entry
           fl == file[r]
           f  == FirstOf(job[p].mine)
<1>1. job[p].pc = "unlink" /\ UNCHANGED <<config, registry>>
  BY DEF Unlink, At
<1>2. /\ r \in Root /\ job[p].failed = FALSE /\ ~job[p].hindered /\ Side(job[p], e, fl)
      /\ config = job[p].next /\ job[p].cmd = "uninstall" /\ TreeOf(p) = r
  BY <1>1, UnderLock DEF Route
<1>3. e = "none" /\ job[p].mine = OursIn(fl)
  BY <1>1, <1>2 DEF Side, UninstallSide, OnlyRemoved
<1>4. CASE /\ job[p].mine = {} /\ file' = file
           /\ Does(p, "unlock", job[p].seen, job[p].mine, job[p].failed)
  <2>1. Goes(p) /\ job'[p].pc = "unlock" /\ Route(job'[p]) /\ ~job'[p].hindered
    BY <1>2, <1>4 DEF Does, Goes, Route
  <2>2. Side(job'[p], e, fl)
    BY <1>2, <1>3, <1>4, <2>1 DEF Goes, Side, UninstallSide, OnlyRemoved
  <2> QED
    BY <1>1, <1>2, <1>4, <2>1, <2>2, LockedFollows
<1>5. CASE file' = file /\ Does(p, "unlock", job[p].seen, job[p].mine, TRUE)
  <2>1. Goes(p) /\ job'[p].pc = "unlock" /\ job'[p].failed /\ Route(job'[p]) /\ ~job'[p].hindered
    BY <1>2, <1>5 DEF Does, Goes, Route
  <2>2. Side(job'[p], e, fl)
    BY <1>2, <1>3, <2>1 DEF Goes, Side, UninstallSide, OnlyRemoved
  <2> QED
    BY <1>1, <1>2, <1>5, <2>1, <2>2, LockedFollows
<1>6. CASE /\ job[p].mine # {} /\ file' = [file EXCEPT ![r][f] = "absent"]
           /\ Does(p, "unlink", job[p].seen, job[p].mine \ {f}, job[p].failed)
  <2>1. /\ Goes(p) /\ job'[p].pc = "unlink" /\ ~job'[p].failed /\ ~job'[p].hindered
        /\ Route(job'[p]) /\ job'[p].mine = job[p].mine \ {f}
    BY <1>2, <1>6 DEF Does, Goes, Route
  <2>2. file'[r][f] = "absent" /\ \A g \in Bridge \ {f} : file'[r][g] = fl[g]
    BY <1>2, <1>6, FirstIsBridge DEF AttachInv, TypeOK, Contents
  <2>3. OursIn(file'[r]) = OursIn(fl) \ {f}
    BY <2>2, FirstIsBridge DEF OursIn
  <2>4. f \in job[p].mine /\ f \in Bridge /\ fl[f] = "ours"
    <3>1. job[p].mine \in SUBSET Bridge
      BY JobIsJob DEF AttachInv
    <3>2. f \in job[p].mine
      BY <1>6, <3>1 DEF FirstOf, Bridge
    <3> QED
      BY <1>3, <3>1, <3>2 DEF OursIn
  <2>5. \A g \in Bridge : \/ file'[r][g] = job[p].was.file[g]
                          \/ e = "none" /\ job[p].was.file[g] = "ours" /\ file'[r][g] = "absent"
    <3>1. OnlyRemoved(job[p], e, fl)
      BY <1>2 DEF Side, UninstallSide
    <3> HIDE DEF f, fl, e
    <3> QED
      BY <1>3, <2>2, <2>4, <3>1 DEF OnlyRemoved
  <2>6. Side(job'[p], e, file'[r])
    BY <1>2, <1>3, <2>1, <2>3, <2>5 DEF Goes, Side, UninstallSide, OnlyRemoved
  <2> QED
    BY <1>1, <1>2, <2>1, <2>6, LockedFollows
<1> QED
  BY <1>2, <1>4, <1>5, <1>6, UnlinkTakes DEF AttachInv

LEMMA UnlockFollows ==
  ASSUME AttachInv, NEW p \in Proc, Follows(p), Unlock(p)
  PROVE  Follows(p)'
<1> DEFINE r  == job[p].root
           e  == registry[r].entry
           fl == file[r]
           onward == IF job[p].failed THEN AfterFailure(p)
                     ELSE IF job[p].cmd = "uninstall" THEN "finish" ELSE "ok"
<1>1. job[p].pc = "unlock" /\ UNCHANGED <<config, registry, file>>
  BY DEF Unlock, At
<1>2. /\ r \in Root /\ Side(job[p], e, fl) /\ config = job[p].next /\ Route(job[p])
      /\ Purpose(job[p].cmd, job[p].root, job[p].before, job[p].next)
  BY <1>1, WasFollowing DEF AttachInv, TreesKnown, Locked, Paper
<1>3. Does(p, onward, Idle.seen, job[p].mine, job[p].failed)
  BY UnlockDoes DEF AttachInv
<1>4. Goes(p) /\ job'[p].pc = onward /\ job'[p].mine = job[p].mine /\ ~job'[p].hindered
  BY <1>1, <1>3, WasFollowing DEF Does
<1>5. onward \in {"sweep", "rollback", "finish", "ok"}
  BY DEF AfterFailure
<1>6. Route(job'[p]) /\ Paper(job'[p], config')
  <2>1. job[p].cmd = "uninstall" => onward \in {"rollback", "finish"}
    BY DEF AfterFailure
  <2>2. job[p].cmd = "attach" => onward \in {"sweep", "ok"}
    BY DEF AfterFailure
  <2>3. job[p].cmd \in {"setup", "set_enabled"} => onward \in {"rollback", "ok"}
    BY DEF AfterFailure
  <2>4. job[p].cmd \in {"setup", "set_enabled", "uninstall", "attach"}
    BY <1>1, <1>2 DEF Route
  <2>5. job'[p].cmd = job[p].cmd /\ job'[p].next = job[p].next
    BY <1>4 DEF Goes
  <2> HIDE DEF onward
  <2>6. Route(job'[p])
    BY <1>4, <2>1, <2>2, <2>3, <2>4, <2>5 DEF Route
  <2>7. config' = job'[p].next
    BY <1>1, <1>2, <2>5
  <2>8. Paper(job'[p], config')
    BY <1>4, <1>5, <2>1, <2>5, <2>7 DEF Paper
  <2> QED
    BY <2>6, <2>8
<1>7. Side(job'[p], e, fl)
  <2>1. /\ job'[p].cmd = job[p].cmd /\ job'[p].next = job[p].next /\ job'[p].was = job[p].was
        /\ job'[p].pc = onward /\ job'[p].mine = job[p].mine /\ ~job[p].hindered
        /\ job[p].cmd \in {"setup", "set_enabled", "uninstall", "attach"}
    BY <1>1, <1>2, <1>4, WasFollowing DEF Goes, Route
  <2>2. CASE job[p].cmd \in {"setup", "set_enabled"}
    BY <1>1, <1>2, <2>1, <2>2 DEF AfterFailure, Side, SettingSide, Untouched
  <2>3. CASE job[p].cmd = "attach"
    BY <1>1, <1>2, <2>1, <2>3 DEF AfterFailure, Side, AttachSide, Reading
  <2>4. CASE job[p].cmd = "uninstall"
    BY <1>1, <1>2, <2>1, <2>4 DEF AfterFailure, Side, UninstallSide, OnlyRemoved
  <2> QED
    BY <2>1, <2>2, <2>3, <2>4
<1>8. onward \notin Smooth
  BY <1>5 DEF Smooth, Reading
<1> QED
  BY <1>1, <1>2, <1>4, <1>6, <1>7, <1>8, FollowsOn

LEMMA SweepFollows ==
  ASSUME AttachInv, NEW p \in Proc, Follows(p), Sweep(p)
  PROVE  Follows(p)'
<1> DEFINE r  == job[p].root
           e  == registry[r].entry
           fl == file[r]
           f  == FirstOf(job[p].mine)
<1>1. job[p].pc = "sweep" /\ UNCHANGED <<config, registry>>
  BY DEF Sweep, At
<1>2. /\ r \in Root /\ Side(job[p], e, fl) /\ config = job[p].next /\ Route(job[p])
      /\ Purpose(job[p].cmd, job[p].root, job[p].before, job[p].next) /\ TreeOf(p) = r
  BY <1>1, WasFollowing DEF AttachInv, TreesKnown, Locked, Paper, TreeOf
<1>3. job[p].cmd = "attach" /\ config = job[p].before
  BY <1>1, <1>2 DEF Route, Purpose
<1>4. /\ e = job[p].was.entry
      /\ \A g \in Bridge : IF g \in job[p].mine THEN fl[g] = "ours" /\ job[p].was.file[g] = "absent"
                          ELSE \/ fl[g] = job[p].was.file[g]
                               \/ job[p].hindered /\ job[p].was.file[g] = "absent" /\ fl[g] = "ours"
  BY <1>1, <1>2, <1>3 DEF Side, AttachSide
<1>5. CASE /\ job[p].mine = {} /\ file' = file
           /\ Does(p, "failed", job[p].seen, job[p].mine, job[p].failed)
  <2>1. /\ Goes(p) /\ job'[p].pc = "failed" /\ job'[p].mine = {} /\ job'[p].cmd = "attach"
        /\ job'[p].hindered = job[p].hindered /\ job'[p].was = job[p].was
        /\ job'[p].before = config' /\ job'[p].next = config'
    BY <1>1, <1>2, <1>3, <1>5 DEF Does, Goes
  <2>2. Route(job'[p]) /\ Paper(job'[p], config')
    BY <2>1 DEF Route, Paper
  <2>3. Side(job'[p], e, fl)
    BY <1>4, <1>5, <2>1 DEF Side, AttachSide, Reading
  <2> QED
    BY <1>1, <1>2, <1>5, <2>1, <2>2, <2>3, FollowsOn DEF Smooth, Reading
<1>6. ASSUME job[p].mine # {}, Goes(p), job'[p].pc = "sweep", job'[p].mine = job[p].mine \ {f},
             \/ /\ file' = [file EXCEPT ![r][f] = "absent"]
                /\ job'[p].hindered = job[p].hindered
             \/ file' = file /\ job'[p].hindered
      PROVE  Follows(p)'
  <2>1. job'[p].cmd = "attach" /\ job'[p].was = job[p].was /\ job'[p].next = job[p].next
    BY <1>3, <1>6 DEF Goes
  <2>2. Route(job'[p]) /\ Paper(job'[p], config')
    BY <1>1, <1>2, <1>6, <2>1 DEF Route, Paper
  <2>3. f \in job[p].mine /\ f \in Bridge
    <3>1. job[p].mine \in SUBSET Bridge
      BY JobIsJob DEF AttachInv
    <3> QED
      BY <1>6, <3>1 DEF FirstOf, Bridge
  <2> HIDE DEF f
  <2>4. \A g \in Bridge :
          IF g \in job'[p].mine THEN file'[r][g] = "ours" /\ job'[p].was.file[g] = "absent"
          ELSE \/ file'[r][g] = job'[p].was.file[g]
               \/ job'[p].hindered /\ job'[p].was.file[g] = "absent" /\ file'[r][g] = "ours"
    <3>1. CASE file' = [file EXCEPT ![r][f] = "absent"] /\ job'[p].hindered = job[p].hindered
      <4>1. file'[r][f] = "absent" /\ \A g \in Bridge \ {f} : file'[r][g] = fl[g]
        BY <1>2, <2>3, <3>1 DEF AttachInv, TypeOK, Contents
      <4> QED
        BY <1>4, <1>6, <2>1, <2>3, <3>1, <4>1
    <3>2. CASE file' = file /\ job'[p].hindered
      BY <1>4, <1>6, <2>1, <2>3, <3>2
    <3> QED
      BY <1>6, <3>1, <3>2
  <2>5. Side(job'[p], e, file'[r])
    BY <1>4, <1>6, <2>1, <2>4 DEF Side, AttachSide, Reading
  <2> QED
    BY <1>1, <1>2, <1>6, <2>2, <2>5, FollowsOn DEF Smooth, Reading
<1> QED
  BY <1>2, <1>5, <1>6, SweepTakes DEF AttachInv, Does, Stumbles

\* A configuration that is back, but for the file being there.
LEMMA BackButMade ==
  ASSUME NEW c \in Configs
  PROVE  [[c EXCEPT !.made = TRUE] EXCEPT !.made = TRUE] = [c EXCEPT !.made = TRUE]
BY DEF Configs

LEMMA RollbackFollows ==
  ASSUME AttachInv, NEW p \in Proc, Follows(p), Rollback(p)
  PROVE  Follows(p)'
<1>1. /\ job[p].pc = "rollback" /\ UNCHANGED <<registry, file>> /\ config = job[p].next
      /\ ~job[p].hindered /\ job[p].before \in Configs
      /\ job[p].cmd \in {"setup", "set_enabled", "uninstall"}
      /\ job[p].root \in Root => Side(job[p], registry[job[p].root].entry, file[job[p].root])
  BY WasFollowing, JobIsJob DEF AttachInv, Rollback, At, Paper, Route
<1>2. /\ Goes(p) /\ job'[p].pc = "failed"
      /\ \/ ~job'[p].hindered /\ config' = [job[p].before EXCEPT !.made = TRUE]
         \/ job'[p].hindered /\ config' = config
  BY <1>1, JobMoves, AbandonDoes DEF Rollback, AttachInv, Labels, Does, Stumbles
<1>3. /\ job'[p].cmd = job[p].cmd /\ job'[p].was = job[p].was
      /\ job'[p].next = job[p].next /\ job'[p].before = job[p].before
  BY <1>2 DEF Goes
<1>4. Route(job'[p])
  BY <1>1, <1>2, <1>3 DEF Route
<1>5. Paper(job'[p], config')
  <2>1. [config' EXCEPT !.made = TRUE] =
          [(IF job'[p].hindered THEN job'[p].next ELSE job'[p].before) EXCEPT !.made = TRUE]
    BY <1>1, <1>2, <1>3, BackButMade
  <2> QED
    BY <1>2, <2>1 DEF Paper
<1>6. job[p].root \in Root => Side(job'[p], registry'[job[p].root].entry, file'[job[p].root])
  BY <1>1, <1>2, <1>3 DEF Side, SettingSide, UninstallSide, OnlyRemoved, Untouched
<1> QED
  BY <1>2, <1>4, <1>5, <1>6, FollowsOn DEF Smooth, Reading

LEMMA FinishFollows ==
  ASSUME AttachInv, NEW p \in Proc, Follows(p), Finish(p)
  PROVE  Follows(p)'
<1>1. /\ job[p].pc = "finish" /\ UNCHANGED <<registry, file>> /\ config = job[p].next
      /\ ~job[p].hindered /\ job[p].cmd = "uninstall"
      /\ job[p].root \in Root => Side(job[p], registry[job[p].root].entry, file[job[p].root])
  BY WasFollowing DEF Finish, At, Paper, Route
<1>2. /\ Goes(p)
      /\ \/ /\ job'[p].pc = "ok" /\ ~job'[p].hindered
            /\ config' = [job[p].next EXCEPT !.setup = FALSE]
         \/ job'[p].pc = "failed" /\ job'[p].hindered /\ config' = config
  BY <1>1, JobMoves, AbandonDoes DEF Finish, AttachInv, Labels, Does, Stumbles
<1>3. job'[p].cmd = "uninstall" /\ job'[p].was = job[p].was /\ job'[p].next = job[p].next
  BY <1>1, <1>2 DEF Goes
<1>4. Route(job'[p]) /\ Paper(job'[p], config')
  BY <1>1, <1>2, <1>3 DEF Route, Paper
<1>5. job[p].root \in Root => Side(job'[p], registry'[job[p].root].entry, file'[job[p].root])
  BY <1>1, <1>2, <1>3 DEF Side, UninstallSide, OnlyRemoved
<1> QED
  BY <1>2, <1>4, <1>5, FollowsOn DEF Smooth, Reading

LEMMA ProceedFollows ==
  ASSUME AttachInv, NEW p \in Proc, Follows(p), Proceed(p)
  PROVE  Return(p) \/ Follows(p)'
BY SaveFollows, InspectFollows, LockFollows, SyncFollows, DetachFollows, MaterializeFollows,
   WriteEntryFollows, CompareFollows, ReplaceFollows, UnlinkFollows, UnlockFollows, SweepFollows,
   RollbackFollows, FinishFollows DEF Proceed

\* The operator starts a command with something to set out for.
SetsOutFor(p, c, r, next, l) ==
  /\ Begin(p, c, r, next, l) /\ Purpose(c, r, config, next)
  /\ l = IF c = "attach" THEN "lock" ELSE "save"

SetsOut(p) ==
  \E c \in Commands, r \in Root \cup {NoRoot}, next \in Configs, l \in {"save", "lock"} :
    SetsOutFor(p, c, r, next, l)

LEMMA SavesFirst ==
  ASSUME NEW p \in Proc, NEW c \in AllCommands \ {"attach"}, NEW r \in Root \cup {NoRoot},
         NEW next \in Configs, Begin(p, c, r, next, "save"), Purpose(c, r, config, next)
  PROVE  SetsOut(p)
<1>1. c \in Commands
  BY DEF Begin
<1>2. SetsOutFor(p, c, r, next, "save")
  BY DEF SetsOutFor
<1> QED
  BY <1>1, <1>2 DEF SetsOut

LEMMA StartHasPurpose ==
  ASSUME AttachInv, NEW p \in Proc, Start(p)
  PROVE  SetsOut(p)
<1>1. config \in Configs /\ HasTree(config) /\ config.root \in Root \cup {NoRoot}
  BY DEF AttachInv, TypeOK, TreesKnown, Configs
<1>2. \A r \in Root, b \in BOOLEAN : /\ SetupConfig(r, b) \in Configs
                                     /\ Purpose("setup", r, config, SetupConfig(r, b))
  <2>1. ASSUME NEW r \in Root, NEW migrate \in BOOLEAN, NEW enabled \in BOOLEAN
        PROVE  LET next == [config EXCEPT !.made = TRUE, !.setup = TRUE, !.root = r,
                                          !.migrate = migrate, !.enabled = enabled]
               IN  next \in Configs /\ Purpose("setup", r, config, next)
    BY <1>1 DEF Configs, Purpose
  <2>2. \A r \in Root, b \in BOOLEAN : (r \in legacy) \in BOOLEAN /\ (b /\ r \notin legacy) \in BOOLEAN
    OBVIOUS
  <2> QED
    BY <2>1, <2>2 DEF SetupConfig
<1>3. \A b \in BOOLEAN : LET next == [config EXCEPT !.enabled = b]
                        IN  next \in Configs /\ Purpose("set_enabled", config.root, config, next)
  BY <1>1 DEF Configs, Purpose
<1>4. \A x \in Target : LET next == [config EXCEPT !.target = x]
                       IN  next \in Configs /\ Purpose("configure", NoRoot, config, next)
  BY <1>1 DEF Configs, Purpose
<1>5. LET next == [config EXCEPT !.enabled = FALSE]
      IN  next \in Configs /\ Purpose("uninstall", config.root, config, next)
  BY <1>1 DEF Configs, Purpose
<1>6. {"setup", "set_enabled", "configure", "uninstall", "update"} = AllCommands \ {"attach"}
  BY DEF AllCommands
<1>7. CASE Setup(p)
  BY <1>2, <1>6, <1>7, SavesFirst DEF Setup
<1>8. CASE SetEnabled(p)
  BY <1>1, <1>3, <1>6, <1>8, SavesFirst DEF SetEnabled
<1>9. CASE Update(p)
  <2>1. Purpose("update", NoRoot, config, config)
    BY DEF Purpose
  <2> QED
    BY <1>1, <1>6, <1>9, <2>1, SavesFirst DEF Update
<1>10. CASE Uninstall(p)
  BY <1>1, <1>5, <1>6, <1>10, SavesFirst DEF Uninstall
<1>11. CASE ConfigureTarget(p)
  BY <1>4, <1>6, <1>11, SavesFirst DEF ConfigureTarget
<1>12. CASE AttachOs(p)
  <2>1. Purpose("attach", config.root, config, config) /\ "attach" \in Commands
    BY <1>1, <1>12 DEF AttachOs, HasTree, Purpose, Begin
  <2>2. SetsOutFor(p, "attach", config.root, config, "lock")
    BY <1>12, <2>1 DEF AttachOs, SetsOutFor
  <2> QED
    BY <1>1, <2>1, <2>2 DEF SetsOut
<1> QED
  BY <1>7, <1>8, <1>9, <1>10, <1>11, <1>12 DEF Start

LEMMA StartFollows ==
  ASSUME AttachInv, NEW p \in Proc, Start(p), job'[p].alone
  PROVE  Follows(p)' /\ \A q \in Proc \ {p} : At(q, "idle")'
<1>1. PICK c \in Commands, r \in Root \cup {NoRoot}, next \in Configs, l \in {"save", "lock"} :
        SetsOutFor(p, c, r, next, l)
  BY StartHasPurpose DEF SetsOut
<1>2. l \in Labels /\ UNCHANGED <<config, registry, file>>
  BY <1>1 DEF SetsOutFor, Begin, Labels
<1>3. Begun(p, c, r, next, l)
  BY <1>1, <1>2, BeginDoes DEF AttachInv, SetsOutFor
<1>4. \A q \in Proc \ {p} : At(q, "idle")'
  BY <1>3 DEF Begun, At
<1>5. /\ job'[p].pc = l /\ job'[p].cmd = c /\ job'[p].root = r /\ job'[p].before = config
      /\ job'[p].next = next /\ job'[p].mine = {} /\ ~job'[p].failed /\ ~job'[p].hindered
      /\ job'[p].was = Snapshot(r)
  BY <1>3 DEF Begun
<1>6. Route(job'[p])
  BY <1>1, <1>5, CommandAssumption DEF Route, AllCommands, SetsOutFor
<1>7. Paper(job'[p], config')
  BY <1>1, <1>2, <1>5 DEF Paper, Purpose, SetsOutFor
<1>8. r \in Root => Side(job'[p], registry[r].entry, file[r])
  <2>1. r \in Root => job'[p].was.entry = registry[r].entry /\ job'[p].was.file = file[r]
    BY <1>5 DEF Snapshot
  <2> QED
    BY <1>1, <1>5, <2>1
       DEF SetsOutFor, Side, SettingSide, AttachSide, UninstallSide, OnlyRemoved, Untouched, Reading
<1>9. Follows(p)'
  BY <1>1, <1>2, <1>5, <1>6, <1>7, <1>8 DEF Follows, Undisturbed, SetsOutFor
<1> QED
  BY <1>4, <1>9

\* Other owners leave our entry, a hand on the files ends the tale.
LEMMA OutsideFollows ==
  ASSUME AttachInv, NEW r \in Root, Outside(r), NEW p \in Proc, job'[p].alone
  PROVE  job' = job /\ (Follows(p) => Follows(p)')
<1>1. ASSUME NEW f \in Bridge, NEW content \in {"absent", "changed"}, EditByHand(r, f, content)
      PROVE  FALSE
  <2>1. job'[p] = Overtaken(job[p]) /\ job[p] \in Jobs
    BY <1>1, JobIsJob DEF EditByHand, AttachInv
  <2> QED
    BY <2>1 DEF Overtaken, Jobs
<1>2. /\ UNCHANGED <<config, file, job>>
      /\ \A s \in Root : registry'[s].entry = registry[s].entry
  BY <1>1 DEF Outside, ClearLock, OtherLocks, OtherUnlocks, OtherEdits, MoveLegacy, AttachInv,
              TypeOK, Texts
<1> QED
  BY <1>2 DEF Follows, Undisturbed

LEMMA IdleIsNotAlone == ~Idle.alone /\ Idle.pc = "idle"
BY DEF Idle

LEMMA NextAlone ==
  ASSUME AttachInv, AloneInv, [Next]_vars
  PROVE  AloneInv'
<1> SUFFICES ASSUME NEW p \in Proc, job'[p].alone
             PROVE  Follows(p)' /\ \A q \in Proc \ {p} : At(q, "idle")'
  BY DEF AloneInv
<1>1. ASSUME NEW q \in Proc, Start(q)
      PROVE  Follows(p)' /\ \A o \in Proc \ {p} : At(o, "idle")'
  <2>1. CASE q = p
    BY <1>1, <2>1, StartFollows
  <2>2. CASE q # p
    <3>1. PICK c \in Commands, r \in Root \cup {NoRoot}, next \in Configs, l \in {"save", "lock"} :
            Begin(q, c, r, next, l)
      BY <1>1, StartHasPurpose DEF SetsOut, SetsOutFor
    <3>2. Begun(q, c, r, next, l)
      BY <3>1, BeginDoes DEF AttachInv, Labels, Locked
    <3> QED
      BY <2>2, <3>2 DEF Begun
  <2> QED
    BY <2>1, <2>2
<1>2. ASSUME NEW q \in Proc, Proceed(q)
      PROVE  Follows(p)' /\ \A o \in Proc \ {p} : At(o, "idle")'
  <2>1. \A o \in Proc \ {q} : job'[o] = job[o]
    BY <1>2, StepGoes, ReturnDoes DEF AttachInv, Goes
  <2>2. CASE q = p
    <3>1. ~Return(p)
      BY ReturnDoes, IdleIsNotAlone DEF AttachInv
    <3>2. job[p].alone
      BY <1>2, <2>2, <3>1, StepGoes DEF AttachInv, Goes
    <3>3. Follows(p) /\ \A o \in Proc \ {p} : At(o, "idle")
      BY <3>2 DEF AloneInv
    <3> QED
      BY <1>2, <2>1, <2>2, <3>1, <3>3, ProceedFollows DEF At
  <2>3. CASE q # p
    <3>1. job[p].alone
      BY <2>1, <2>3
    <3>2. job[q].pc = "idle"
      BY <2>3, <3>1 DEF AloneInv, At
    <3> QED
      BY <1>2, <3>2 DEF Proceed, Save, Inspect, Lock, Sync, Detach, WriteInstructions, WriteEngine,
         Materialize, WriteEntry, Compare, Replace, Unlink, Unlock, Sweep, Rollback, Finish, Return, At
  <2> QED
    BY <2>2, <2>3
<1>3. ASSUME NEW q \in Proc, Crash(q)
      PROVE  Follows(p)' /\ \A o \in Proc \ {p} : At(o, "idle")'
  <2>1. q # p
    BY <1>3, CrashDoes, IdleIsNotAlone DEF AttachInv
  <2>2. job[p].alone
    BY <1>3, <2>1, CrashDoes DEF AttachInv
  <2>3. job[q].pc = "idle"
    BY <2>1, <2>2 DEF AloneInv, At
  <2> QED
    BY <1>3, <2>3 DEF Crash
<1>4. ASSUME NEW r \in Root, Outside(r)
      PROVE  Follows(p)' /\ \A o \in Proc \ {p} : At(o, "idle")'
  <2>1. job' = job /\ (Follows(p) => Follows(p)')
    BY <1>4, OutsideFollows
  <2> QED
    BY <2>1 DEF AloneInv, At
<1>5. CASE UNCHANGED vars
  <2>1. job' = job /\ UNCHANGED <<config, registry, file>>
    BY <1>5 DEF vars
  <2> QED
    BY <2>1 DEF AloneInv, Follows, At
<1> QED
  BY <1>1, <1>2, <1>3, <1>4, <1>5 DEF Next

LEMMA InitAlone == Init => AloneInv
BY IdleIsNotAlone DEF Init, AloneInv

-----------------------------------------------------------------------------
(***************************************************************************)
(* What follows at the end of such a command.                              *)
(***************************************************************************)
LEMMA ConsistentAfter ==
  ASSUME AttachInv, NEW p \in Proc, job[p].root \in Root, config.root = job[p].root,
         LET e == registry[job[p].root].entry  fl == file[job[p].root] IN
         \/ e = Flag(config.enabled) /\ OursIn(fl) = Bridge
         \/ e = "none" /\ OursIn(fl) = {}
  PROVE  Consistent(config)
BY DEF Consistent, Attached, Ours, OursIn

LEMMA FollowsDelivers ==
  ASSUME AttachInv, NEW p \in Proc, Follows(p), At(p, "ok")
  PROVE  Delivered(p)
<1> DEFINE r  == job[p].root
           e  == registry[r].entry
           fl == file[r]
<1>1. job[p].pc = "ok" /\ r \in Root \cup {NoRoot} /\ config \in Configs
      /\ job[p].before \in Configs /\ job[p].next \in Configs
  BY JobIsJob DEF AttachInv, At, Jobs, TypeOK
<1>2. /\ Purpose(job[p].cmd, r, job[p].before, job[p].next)
      /\ r \in Root => Side(job[p], e, fl)
      /\ job[p].cmd # "uninstall" => config = job[p].next
      /\ job[p].cmd = "uninstall" => config = [job[p].next EXCEPT !.setup = FALSE]
      /\ job[p].cmd \in AllCommands
  BY <1>1, WasFollowing DEF Paper, Route, AllCommands
<1>3. CASE job[p].cmd \in {"setup", "set_enabled"}
  <2>1. config.root = r
    BY <1>1, <1>2, <1>3 DEF Purpose, Configs
  <2>2. r \in Root => Consistent(config)
    BY <1>1, <1>2, <1>3, <2>1, ConsistentAfter DEF Side, SettingSide
  <2>3. Consistent(config)
    BY <1>1, <2>1, <2>2 DEF Consistent
  <2>4. CASE job[p].cmd = "setup"
    BY <1>2, <2>1, <2>3, <2>4 DEF Purpose, Delivered
  <2>5. CASE job[p].cmd = "set_enabled"
    <3>1. config = [job[p].before EXCEPT !["enabled"] = config["enabled"]]
      BY <1>2, <2>5 DEF Purpose
    <3> QED
      BY <2>3, <2>5, <3>1 DEF Delivered
  <2> QED
    BY <1>3, <2>4, <2>5
<1>4. CASE job[p].cmd = "configure"
  <2>1. config = [job[p].before EXCEPT !["target"] = config["target"]]
    BY <1>2, <1>4 DEF Purpose
  <2> QED
    BY <1>4, <2>1 DEF Delivered
<1>5. CASE job[p].cmd = "attach"
  <2>1. r \in Root /\ config = job[p].before /\ config.root = r
    BY <1>2, <1>5 DEF Purpose
  <2>2. e = Flag(config.enabled) /\ OursIn(fl) = Bridge
    BY <1>1, <1>2, <1>5, <2>1 DEF Side, AttachSide
  <2>3. Attached(r) /\ Consistent(config)
    BY <2>1, <2>2, ConsistentAfter DEF Attached, Flag
  <2> QED
    BY <1>5, <2>1, <2>3 DEF Delivered
<1>6. CASE job[p].cmd = "uninstall"
  <2>1. config = [job[p].before EXCEPT !.enabled = FALSE, !.setup = FALSE]
    BY <1>2, <1>6 DEF Purpose
  <2>2. r # NoRoot => ~Attached(r) /\ Ours(r) = {}
    BY <1>1, <1>2, <1>6 DEF Side, UninstallSide, OnlyRemoved, Attached, Ours, OursIn
  <2> QED
    BY <1>6, <2>1, <2>2 DEF Delivered
<1>7. CASE job[p].cmd = "update"
  BY <1>2, <1>7 DEF Purpose, Delivered
<1> QED
  BY <1>2, <1>3, <1>4, <1>5, <1>6, <1>7 DEF AllCommands

\* lifecycle.py, os_extension.py: for any number of commands and trees, from whatever
\* crashes, failed writes and overlapping commands have left behind, a command
\* that nobody overlaps and that reports success has done what it says.
THEOREM AloneAlwaysDelivers == Spec => []AloneDelivers
<1>1. AttachInv /\ AloneInv /\ [Next]_vars => AttachInv' /\ AloneInv'
  BY NextAttachInv, NextAlone
<1>2. Init => AttachInv /\ AloneInv
  BY InitAttachInv, InitAlone
<1>3. AttachInv /\ AloneInv => AloneDelivers
  BY FollowsDelivers DEF AloneDelivers, AloneInv
<1> QED
  BY <1>1, <1>2, <1>3, PTL DEF Spec

LEMMA FollowsRestores ==
  ASSUME AttachInv, NEW p \in Proc, Follows(p), At(p, "failed")
  PROVE  LET j == job[p]  stays == IF j.hindered THEN j.next ELSE j.before IN
         /\ [config EXCEPT !.made = TRUE] = [stays EXCEPT !.made = TRUE]
         /\ j.root # NoRoot => LeavesBehind(j)
<1> DEFINE r  == job[p].root
           e  == registry[r].entry
           fl == file[r]
<1>1. job[p].pc = "failed" /\ r \in Root \cup {NoRoot}
  BY JobIsJob DEF AttachInv, At, Jobs
<1>2. /\ [config EXCEPT !.made = TRUE]
           = [(IF job[p].hindered THEN job[p].next ELSE job[p].before) EXCEPT !.made = TRUE]
      /\ r \in Root => Side(job[p], e, fl)
      /\ job[p].cmd \in {"setup", "set_enabled", "uninstall", "attach", "update", "configure"}
      /\ Purpose(job[p].cmd, r, job[p].before, job[p].next)
  BY <1>1, WasFollowing DEF Paper, Route
<1>3. ASSUME r \in Root, job[p].cmd \notin {"update", "configure"}
      PROVE  LeavesBehind(job[p])
  <2>1. CASE job[p].cmd \in {"setup", "set_enabled"}
    BY <1>1, <1>2, <1>3, <2>1 DEF Side, SettingSide, Untouched, LeavesBehind
  <2>2. CASE job[p].cmd = "attach"
    BY <1>1, <1>2, <1>3, <2>2 DEF Side, AttachSide, LeavesBehind
  <2>3. CASE job[p].cmd = "uninstall"
    BY <1>1, <1>2, <1>3, <2>3 DEF Side, UninstallSide, OnlyRemoved, LeavesBehind
  <2> QED
    BY <1>2, <1>3, <2>1, <2>2, <2>3
<1>4. job[p].cmd \in {"update", "configure"} => r = NoRoot
  BY <1>2 DEF Purpose
<1> QED
  BY <1>1, <1>2, <1>3, <1>4

\* lifecycle.py (the handlers that save `previous`, and what they do not
\* catch), os_extension.py (the clean-up of an install): for any number of
\* commands and trees, and whichever saves, writes and removals raise, a command
\* that nobody overlaps and that reports an error has put the configuration
\* back and leaves the OS side as it was, but for an uninstall, which may have
\* removed the entry and then files of ours.  Only where the way back raises in
\* its turn does the configuration stay as saved, or a created file.
THEOREM AloneFailureIsUndone == Spec => []AloneFailureRestores
<1>1. AttachInv /\ AloneInv /\ [Next]_vars => AttachInv' /\ AloneInv'
  BY NextAttachInv, NextAlone
<1>2. Init => AttachInv /\ AloneInv
  BY InitAttachInv, InitAlone
<1>3. AttachInv /\ AloneInv => AloneFailureRestores
  BY FollowsRestores DEF AloneFailureRestores, AloneInv
<1> QED
  BY <1>1, <1>2, <1>3, PTL DEF Spec
=============================================================================
