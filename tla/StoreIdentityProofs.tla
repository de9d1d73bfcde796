------------------------- MODULE StoreIdentityProofs -------------------------
(***************************************************************************)
(* Whose store automations.db is, for every number of commands, every      *)
(* schema and any number of deaths.  The argument: but for the tables a    *)
(* first setup is still creating, the file is at any moment the one that   *)
(* was found, or the whole current store, and that for ever.  So what a    *)
(* command has read of it at three moments is either of the store that was *)
(* found or of the current one, and a mixture of the two is no format of   *)
(* this program.                                                           *)
(***************************************************************************)
EXTENDS StoreIdentity, TLAPS

\* What the script makes of an empty file, at any point of it.
Half(s) ==
  /\ ~s.alien /\ (s.column <=> "runs" \in s.objects)
  /\ s.version = "none" /\ s.owner = "none" /\ s.app = "zero" /\ s.user = "zero"

\* The file is what was found, or current, or what setups make of an empty one.
FileInv ==
  /\ origin.empty => origin = Nothing
  /\ \/ store = Current
     \/ origin # Nothing /\ store = origin
     \/ origin = Nothing /\ Half(store)

\* A command that holds j has, of the file s: created what its script has got
\* through ...
Scripted(j, s) ==
  j.pc = "script" =>
    /\ j.kind = "none" /\ origin = Nothing /\ j.done <= Len(Script)
    /\ j.done > 0 => ~s.empty
    /\ \A i \in 1 .. Len(Script) : i < j.done => Script[i] \in s.objects

\* ... read the store that was found, or the current one, ...
HasRead(j, s) ==
  /\ j.pc \in {"meta", "header"} =>
       \/ j.signature = (IF origin = Nothing THEN "current" ELSE Signature(origin))
       \/ s = Current /\ j.signature = "current"
  /\ j.pc = "header" =>
       \/ j.version = origin.version /\ j.owner = origin.owner
       \/ s = Current /\ j.version = "2" /\ j.owner = "ours"

\* ... found that it is the program's to stamp, ...
Deserved(j, s) ==
  j.pc \in Steps \cup {"begin"} =>
    \/ j.kind = "legacy-v1" /\ origin = UnmarkedV1
    \/ j.kind = "legacy-v2-unmarked" /\ origin = UnmarkedV2
    \/ j.kind = "none" /\ origin = Nothing /\ ~s.empty /\ s.objects = Object

\* ... and stamped its copy, statement by statement.
Copied(j, s) ==
  /\ j.pc = "alter" => j.copy = s
  /\ j.pc \in Steps \ {"alter"} =>
       ~j.copy.empty /\ ~j.copy.alien /\ j.copy.objects = Object /\ j.copy.column
  /\ j.pc \in {"owner", "app", "user", "commit"} => j.copy.version = "2"
  /\ j.pc \in {"app", "user", "commit"} => j.copy.owner = "ours"
  /\ j.pc \in {"user", "commit"} => j.copy.app = "ours"
  /\ j.pc = "commit" => j.copy.user = "ours"

\* What has got through all the checks has found the current store.
Right(j, s) == j.pc = "ok" => s = Current

Fits(j, s) ==
  Scripted(j, s) /\ HasRead(j, s) /\ Deserved(j, s) /\ Copied(j, s) /\ Right(j, s)

StoreInv == TypeOK /\ FileInv /\ \A p \in Proc : Fits(job[p], store)

-----------------------------------------------------------------------------
\* Stores.
LEMMA FormatTypes ==
  /\ Nothing \in Stores /\ Current \in Stores /\ Priors \subseteq Stores
  /\ "runs" \in Object /\ "meta" \in Object
<1>1. "runs" \in Object /\ "meta" \in Object
  BY ScriptAssumption DEF Object
<1>2. Nothing \in Stores /\ Current \in Stores
  BY DEF Nothing, Current, Stores
<1>3. UnmarkedV2 \in Stores
  BY <1>2 DEF UnmarkedV2, Current, Stores
<1>4. UnmarkedV1 \in Stores
  BY <1>3 DEF UnmarkedV1, UnmarkedV2, Current, Stores
<1> QED
  BY <1>1, <1>2, <1>3, <1>4 DEF Priors

LEMMA StrangerTypes == Strangers \subseteq {s \in Stores : ~s.empty}
<1> USE FormatTypes
<1> USE DEF Stores
<1>1. /\ [Nothing EXCEPT !.empty = FALSE, !.alien = TRUE] \in {s \in Stores : ~s.empty}
      /\ [Nothing EXCEPT !.empty = FALSE] \in {s \in Stores : ~s.empty}
  BY DEF Nothing
<1>2. /\ [Current EXCEPT !.alien = TRUE] \in {s \in Stores : ~s.empty}
      /\ [Current EXCEPT !.version = "other"] \in {s \in Stores : ~s.empty}
      /\ [Current EXCEPT !.owner = "other"] \in {s \in Stores : ~s.empty}
      /\ [Current EXCEPT !.column = FALSE] \in {s \in Stores : ~s.empty}
  BY DEF Current
<1>3. /\ [UnmarkedV2 EXCEPT !.owner = "other"] \in {s \in Stores : ~s.empty}
      /\ [UnmarkedV2 EXCEPT !.app = "other"] \in {s \in Stores : ~s.empty}
      /\ [UnmarkedV2 EXCEPT !.version = "none"] \in {s \in Stores : ~s.empty}
  BY DEF UnmarkedV2, Current
<1>4. [UnmarkedV1 EXCEPT !.version = "2"] \in {s \in Stores : ~s.empty}
  BY DEF UnmarkedV1, UnmarkedV2, Current
<1>5. ASSUME NEW o \in Object \ {"meta"}
      PROVE  [Current EXCEPT !.objects = @ \ {o}] \in {s \in Stores : ~s.empty}
  BY DEF Current
<1> HIDE DEF Stores
<1> QED
  BY <1>1, <1>2, <1>3, <1>4, <1>5 DEF Strangers

\* A store is known by its fields.
LEMMA SameStore ==
  ASSUME NEW s \in Stores, NEW t \in Stores, s.empty = t.empty, s.objects = t.objects,
         s.alien = t.alien, s.column = t.column, s.version = t.version, s.owner = t.owner,
         s.app = t.app, s.user = t.user
  PROVE  s = t
BY DEF Stores

LEMMA Formats ==
  ASSUME NEW s \in Stores, ~s.empty
  PROVE  /\ Signature(s) = "current" /\ Stamped(s) => s = Current
         /\ (/\ Signature(s) = "current" /\ s.version = "2" /\ s.owner = "none"
             /\ s.app = "zero" /\ s.user = "zero") => s = UnmarkedV2
         /\ (/\ Signature(s) = "v1" /\ s.version = "1" /\ s.owner = "none"
             /\ s.app = "zero" /\ s.user = "zero") => s = UnmarkedV1
<1> USE FormatTypes DEF Priors
<1>1. Signature(s) = "current" =>
        s.empty = FALSE /\ s.objects = Object /\ s.alien = FALSE /\ s.column = TRUE
  BY DEF Signature, Stores
<1>2. Signature(s) = "v1" =>
        s.empty = FALSE /\ s.objects = Object /\ s.alien = FALSE /\ s.column = FALSE
  BY DEF Signature, Stores
<1>3. Signature(s) = "current" /\ Stamped(s) => s = Current
  BY <1>1, SameStore DEF Stamped, Current
<1>4. /\ UnmarkedV2.empty = FALSE /\ UnmarkedV2.objects = Object /\ UnmarkedV2.alien = FALSE
      /\ UnmarkedV2.column = TRUE /\ UnmarkedV2.version = "2" /\ UnmarkedV2.owner = "none"
      /\ UnmarkedV2.app = "zero" /\ UnmarkedV2.user = "zero"
  BY DEF UnmarkedV2, Current
<1>5. /\ UnmarkedV1.empty = FALSE /\ UnmarkedV1.objects = Object /\ UnmarkedV1.alien = FALSE
      /\ UnmarkedV1.column = FALSE /\ UnmarkedV1.version = "1" /\ UnmarkedV1.owner = "none"
      /\ UnmarkedV1.app = "zero" /\ UnmarkedV1.user = "zero"
  BY DEF UnmarkedV1, UnmarkedV2, Current
<1>6. (/\ Signature(s) = "current" /\ s.version = "2" /\ s.owner = "none"
       /\ s.app = "zero" /\ s.user = "zero") => s = UnmarkedV2
  BY <1>1, <1>4, SameStore
<1>7. (/\ Signature(s) = "v1" /\ s.version = "1" /\ s.owner = "none"
       /\ s.app = "zero" /\ s.user = "zero") => s = UnmarkedV1
  BY <1>2, <1>5, SameStore
<1> QED
  BY <1>3, <1>6, <1>7

-----------------------------------------------------------------------------
\* How the file may change under the commands that do not write it.
Later(s, t) == /\ s = Current => t = Current
               /\ s.objects \subseteq t.objects
               /\ t.empty => s.empty

LEMMA FitsLater ==
  ASSUME NEW j \in Jobs, NEW s \in Stores, NEW t \in Stores, Later(s, t), Fits(j, s),
         s = t \/ j.pc \notin Steps
  PROVE  Fits(j, t)
<1>1. Scripted(j, t)
  BY DEF Scripted, Fits, Later, Stores, Jobs
<1>2. HasRead(j, t)
  BY DEF HasRead, Fits, Later
<1>3. Deserved(j, t)
  BY DEF Deserved, Fits, Later, Stores
<1>4. Copied(j, t)
  BY DEF Copied, Fits, Steps
<1>5. Right(j, t)
  BY DEF Right, Fits, Later
<1> QED
  BY <1>1, <1>2, <1>3, <1>4, <1>5 DEF Fits

\* A step of p keeps the invariant when the file it leaves is still one of the
\* three, and fits what p now holds.
LEMMA StepKeeps ==
  ASSUME StoreInv, NEW p \in Proc, NEW j \in Jobs, job' = [job EXCEPT ![p] = j],
         origin' = origin, faults' \in Nat, store' \in Stores,
         Later(store, store'), store' = store \/ writer \in {p, "none"},
         writer' \in Proc \cup {"none"}, j.pc \in Steps <=> writer' = p,
         writer' = writer \/ {writer, writer'} \subseteq {p, "none"},
         FileInv', Fits(j, store')
  PROVE  StoreInv'
<1> USE WriterAssumption DEF StoreInv
<1>1. ASSUME NEW q \in Proc, q # p
      PROVE  job'[q] = job[q] /\ job[q] \in Jobs /\ (writer' = q <=> writer = q)
  BY <1>1 DEF TypeOK
<1>2. job'[p] = j
  BY DEF TypeOK
<1>3. TypeOK'
  <2>1. job' \in [Proc -> Jobs]
    BY DEF TypeOK
  <2>2. ASSUME NEW q \in Proc PROVE job'[q].pc \in Steps <=> writer' = q
    BY <1>1, <1>2 DEF TypeOK
  <2> QED
    BY <2>1, <2>2 DEF TypeOK
<1>4. ASSUME NEW q \in Proc, q # p PROVE Fits(job[q], store')
  <2>1. store' = store \/ job[q].pc \notin Steps
    BY <1>4 DEF TypeOK
  <2> QED
    BY <1>1, <1>4, <2>1, FitsLater DEF TypeOK
<1>5. ASSUME NEW q \in Proc PROVE Fits(job'[q], store')
  BY <1>1, <1>2, <1>4
<1>6. ASSUME NEW q \in Proc PROVE Fits(job[q], store)'
  BY <1>5 DEF Fits, Scripted, HasRead, Deserved, Copied, Right
<1> QED
  BY <1>3, <1>6

\* A step that leaves the file and the lock alone.
LEMMA QuietStep ==
  ASSUME StoreInv, NEW p \in Proc, NEW j \in Jobs, job' = [job EXCEPT ![p] = j],
         UNCHANGED <<store, origin, writer, faults>>,
         j.pc \in Steps <=> job[p].pc \in Steps, Fits(j, store)
  PROVE  StoreInv'
<1>1. Later(store, store') /\ FileInv'
  BY DEF Later, StoreInv, FileInv, Half
<1>2. Fits(j, store') /\ (j.pc \in Steps <=> writer' = p)
  BY DEF StoreInv, TypeOK
<1>3. store' \in Stores /\ faults' \in Nat /\ writer' \in Proc \cup {"none"}
  BY DEF StoreInv, TypeOK
<1> QED
  BY <1>1, <1>2, <1>3, StepKeeps

\* A command that holds nothing fits any file.
LEMMA IdleType == Idle \in Jobs /\ Idle.pc = "idle" /\ Idle.done = 0 /\ Idle.kind = "none"
BY FormatTypes, ScriptAssumption DEF Idle, Jobs, Labels

LEMMA NothingHeld ==
  ASSUME NEW s, NEW j, j.pc \in {"idle", "signature", "refused"}
  PROVE  Fits(j, s) /\ j.pc \notin Steps
BY DEF Fits, Scripted, HasRead, Deserved, Copied, Right, Steps

LEMMA InitStoreInv == Init => StoreInv
<1> SUFFICES ASSUME Init PROVE StoreInv
  OBVIOUS
<1>1. store \in Stores /\ (store.empty => store = Nothing)
  <2>1. CASE store \in Strangers
    BY <2>1, StrangerTypes
  <2>2. CASE store \in Priors
    BY <2>2, FormatTypes DEF Priors, UnmarkedV1, UnmarkedV2, Current
  <2>3. CASE store = Nothing
    BY <2>3, FormatTypes
  <2>4. CASE store = Current
    <3>1. ~Current.empty
      BY DEF Current
    <3> QED
      BY <2>4, <3>1, FormatTypes
  <2> QED
    BY <2>1, <2>2, <2>3, <2>4 DEF Init
<1>2. Fits(Idle, store)
  BY IdleType, NothingHeld
<1>3. TypeOK
  BY <1>1, IdleType, WriterAssumption DEF Init, TypeOK, Steps
<1>4. FileInv
  <2>1. Half(Nothing)
    BY DEF Nothing, Half
  <2> QED
    BY <1>1, <2>1 DEF Init, FileInv
<1> QED
  BY <1>2, <1>3, <1>4 DEF StoreInv, Init

-----------------------------------------------------------------------------
\* Commands that begin, return or die.
LEMMA CommandKeeps ==
  ASSUME StoreInv, NEW p \in Proc, Initialize(p) \/ Open(p) \/ Return(p)
  PROVE  StoreInv'
<1>1. store \in Stores /\ (store.empty => origin = Nothing)
  BY DEF StoreInv, TypeOK, FileInv, Current
<1>2. CASE Initialize(p)
  <2> DEFINE a == ~store.empty
             l == IF store.empty THEN "script" ELSE "signature"
             j == [Idle EXCEPT !.cmd = "initialize", !.allow = a, !.pc = l]
  <2>1. a \in BOOLEAN /\ l \in Labels
    BY <1>1 DEF Stores, Labels
  <2> HIDE DEF a, l
  <2>2. j \in Jobs /\ j.pc = l /\ j.done = 0 /\ j.kind = "none"
    BY <2>1, IdleType DEF Jobs
  <2>3. job' = [job EXCEPT ![p] = j] /\ UNCHANGED <<store, origin, writer, faults>>
    BY <1>2 DEF Initialize, a, l
  <2> HIDE DEF j
  <2>4. Fits(j, store)
    BY <1>1, <2>2, ScriptAssumption
       DEF Fits, Scripted, HasRead, Deserved, Copied, Right, Steps, l
  <2>5. j.pc \notin Steps /\ job[p].pc \notin Steps
    BY <1>2, <2>2 DEF Initialize, At, Steps, l
  <2> QED
    BY <2>2, <2>3, <2>4, <2>5, QuietStep
<1>3. CASE Open(p)
  <2> PICK command \in {"connect", "check"} :
         job' = [job EXCEPT ![p] =
           [Idle EXCEPT !.cmd = command,
                        !.pc = IF store.empty THEN "refused" ELSE "signature"]]
    BY <1>3 DEF Open
  <2> DEFINE l == IF store.empty THEN "refused" ELSE "signature"
             j == [Idle EXCEPT !.cmd = command, !.pc = l]
  <2>0. l \in Labels /\ l \in {"refused", "signature"}
    BY DEF Labels
  <2> HIDE DEF l
  <2>1. j \in Jobs /\ j.pc \in {"refused", "signature"}
    BY <2>0, IdleType DEF Jobs
  <2>2. job' = [job EXCEPT ![p] = j]
    BY DEF l
  <2> HIDE DEF j
  <2>3. UNCHANGED <<store, origin, writer, faults>> /\ job[p].pc \notin Steps
    BY <1>3 DEF Open, At, Steps
  <2>4. Fits(j, store) /\ j.pc \notin Steps
    BY <2>1, NothingHeld
  <2> QED
    BY <2>1, <2>2, <2>3, <2>4, QuietStep
<1>4. CASE Return(p)
  <2>1. Fits(Idle, store) /\ Idle.pc \notin Steps
    BY IdleType, NothingHeld
  <2>2. /\ job' = [job EXCEPT ![p] = Idle] /\ job[p].pc \notin Steps
        /\ UNCHANGED <<store, origin, writer, faults>>
    BY <1>4 DEF Return, Steps
  <2> QED
    BY <2>1, <2>2, IdleType, QuietStep
<1> QED
  BY <1>2, <1>3, <1>4

LEMMA LeaveKeeps ==
  ASSUME StoreInv, NEW p \in Proc, Abort(p) \/ Rollback(p)
  PROVE  StoreInv'
<1>1. PICK j \in Jobs : job' = [job EXCEPT ![p] = j] /\ j.pc \in {"idle", "refused"}
  <2>1. CASE Abort(p)
    BY <2>1, IdleType DEF Abort
  <2>2. CASE Rollback(p)
    <3> DEFINE i == [Idle EXCEPT !.pc = "refused", !.cmd = job[p].cmd]
    <3>1. i \in Jobs /\ i.pc = "refused"
      BY IdleType DEF Jobs, Labels, StoreInv, TypeOK
    <3>2. job' = [job EXCEPT ![p] = i]
      BY <2>2 DEF Rollback
    <3> HIDE DEF i
    <3> QED
      BY <3>1, <3>2
  <2> QED
    BY <2>1, <2>2
<1>2. UNCHANGED <<store, origin>> /\ faults' \in Nat
  BY FaultAssumption DEF Abort, Rollback, StoreInv, TypeOK
<1>3. store' \in Stores /\ Later(store, store') /\ FileInv'
  BY <1>2 DEF Later, StoreInv, TypeOK, FileInv, Half
<1>4. Fits(j, store') /\ j.pc \notin Steps
  BY <1>1, NothingHeld
<1>5. /\ writer' \in Proc \cup {"none"} /\ writer' # p
      /\ writer' = writer \/ {writer, writer'} \subseteq {p, "none"}
  BY WriterAssumption DEF Abort, Rollback, StoreInv, TypeOK, At, Steps
<1> QED
  BY <1>1, <1>2, <1>3, <1>4, <1>5, StepKeeps

-----------------------------------------------------------------------------
\* The script.
LEMMA CreatedIs ==
  ASSUME NEW s \in Stores, NEW n \in 0 .. Len(Script)
  PROVE  /\ Created(s, n) \in Stores /\ Later(s, Created(s, n))
         /\ Created(s, n).empty => s.empty /\ n > 0
         /\ n > 0 => Created(s, n).objects = s.objects \cup {Script[n]}
         /\ Half(s) => Half(Created(s, n))
<1>1. n > 0 => Script[n] \in Object
  BY ScriptAssumption DEF Object, ToSet
<1>2. CASE n = 0
  <2> DEFINE t == [s EXCEPT !.empty = FALSE]
  <2>1. /\ t \in Stores /\ t.empty = FALSE /\ t.objects = s.objects /\ t.alien = s.alien
        /\ t.column = s.column /\ t.version = s.version /\ t.owner = s.owner
        /\ t.app = s.app /\ t.user = s.user
    BY DEF Stores
  <2>2. Created(s, n) = t
    BY <1>2 DEF Created
  <2> HIDE DEF t
  <2>3. s = Current => t = Current
    BY <2>1, SameStore DEF Current
  <2> QED
    BY <1>2, <2>1, <2>2, <2>3 DEF Later, Half
<1>3. CASE n > 0
  <2> DEFINE t == [s EXCEPT !.objects = @ \cup {Script[n]},
                            !.column = @ \/ (Script[n] = "runs" /\ "runs" \notin s.objects)]
  <2>1. /\ t \in Stores /\ t.empty = s.empty /\ t.objects = s.objects \cup {Script[n]}
        /\ t.alien = s.alien
        /\ t.column = (s.column \/ (Script[n] = "runs" /\ "runs" \notin s.objects))
        /\ t.version = s.version /\ t.owner = s.owner /\ t.app = s.app /\ t.user = s.user
    BY <1>1, <1>3 DEF Stores
  <2>2. Created(s, n) = t
    BY <1>3 DEF Created
  <2> HIDE DEF t
  <2>3. s = Current => t = Current
    <3> SUFFICES ASSUME s = Current PROVE t = Current
      OBVIOUS
    <3>1. s.column = TRUE /\ s.objects = Object
      BY DEF Current
    <3>2. t.column = TRUE /\ t.objects = Object
      BY <1>1, <1>3, <2>1, <3>1
    <3> QED
      BY <2>1, <3>1, <3>2, SameStore
  <2>4. Half(s) => Half(t)
    BY <2>1 DEF Half, Stores
  <2> QED
    BY <1>3, <2>1, <2>2, <2>3, <2>4 DEF Later
<1> QED
  BY <1>2, <1>3

LEMMA ScriptKeeps ==
  ASSUME StoreInv, NEW p \in Proc, RunScript(p)
  PROVE  StoreInv'
<1> DEFINE n == job[p].done
           i == job[p]
           j == [i EXCEPT !.done = @ + 1, !.pc = IF n = Len(Script) THEN "begin" ELSE "script"]
<1>1. /\ i \in Jobs /\ i.pc = "script" /\ Fits(i, store) /\ store \in Stores
      /\ writer = "none"
  BY DEF StoreInv, TypeOK, RunScript, At
<1>2. /\ i.kind = "none" /\ origin = Nothing /\ n \in 0 .. Len(Script)
      /\ n > 0 => ~store.empty
      /\ \A k \in 1 .. Len(Script) : k < n => Script[k] \in store.objects
  BY <1>1 DEF Fits, Scripted, Jobs
<1>3. /\ store' = Created(store, n) /\ job' = [job EXCEPT ![p] = j]
      /\ UNCHANGED <<origin, writer, faults>>
  BY <1>1 DEF RunScript, StoreInv, TypeOK
<1>4. /\ j \in Jobs /\ j.kind = "none" /\ j.done = n + 1
      /\ j.pc = IF n = Len(Script) THEN "begin" ELSE "script"
  <2>1. n + 1 \in 0 .. (Len(Script) + 1)
    BY <1>2, ScriptAssumption
  <2>2. j \in Jobs
    BY <1>1, <2>1 DEF Jobs, Labels
  <2> QED
    BY <1>1, <1>2, <2>2 DEF Jobs
<1> HIDE DEF j
<1>5. /\ store' \in Stores /\ Later(store, store') /\ ~store'.empty
      /\ n > 0 => store'.objects = store.objects \cup {Script[n]}
      /\ Half(store) => Half(store')
  BY <1>1, <1>2, <1>3, CreatedIs
<1>6. FileInv'
  BY <1>2, <1>3, <1>5 DEF StoreInv, FileInv, Later, Half
<1>7. \A k \in 1 .. Len(Script) : k <= n => Script[k] \in store'.objects
  BY <1>2, <1>5 DEF Later
<1>8. n = Len(Script) => store'.objects = Object
  BY <1>5, <1>7, ScriptAssumption DEF Stores, Object, ToSet
<1>9. Fits(j, store')
  BY <1>2, <1>4, <1>5, <1>7, <1>8, ScriptAssumption
     DEF Fits, Scripted, HasRead, Deserved, Copied, Right, Steps
<1>10. j.pc \notin Steps /\ writer' # p /\ faults' \in Nat
  BY <1>1, <1>3, <1>4, WriterAssumption DEF Steps, StoreInv, TypeOK
<1> QED
  BY <1>1, <1>3, <1>4, <1>5, <1>6, <1>9, <1>10, StepKeeps

-----------------------------------------------------------------------------
\* Reading.
LEMMA Sights ==
  ASSUME StoreInv
  PROVE  /\ \/ Signature(store) = IF origin = Nothing THEN "current" ELSE Signature(origin)
            \/ store = Current /\ Signature(store) = "current"
            \/ Signature(store) = "foreign"
         /\ \/ store.version = origin.version /\ store.owner = origin.owner
            \/ store = Current /\ store.version = "2" /\ store.owner = "ours"
<1>1. CASE store = Current
  BY <1>1 DEF Current, Signature
<1>2. CASE origin # Nothing /\ store = origin
  BY <1>2
<1>3. CASE origin = Nothing /\ Half(store)
  BY <1>3, FormatTypes DEF Half, Signature, Nothing
<1> QED
  BY <1>1, <1>2, <1>3 DEF StoreInv, FileInv

\* What has been read at three moments and passes is what the file is.
LEMMA VerdictIsRight ==
  ASSUME StoreInv, NEW p \in Proc, At(p, "header")
  PROVE  /\ Verdict(p) = "current" => store = Current
         /\ Verdict(p) = "legacy-v1" => origin = UnmarkedV1
         /\ Verdict(p) = "legacy-v2-unmarked" => origin = UnmarkedV2
         /\ Verdict(p) \in {"refused", "current", "legacy-v2-unmarked", "legacy-v1"}
<1> DEFINE i == job[p]
<1>1. /\ i \in Jobs /\ HasRead(i, store) /\ i.pc = "header" /\ store \in Stores
      /\ origin \in Stores
  BY DEF StoreInv, TypeOK, Fits, At
<1>2. /\ \/ i.signature = (IF origin = Nothing THEN "current" ELSE Signature(origin))
         \/ store = Current /\ i.signature = "current"
      /\ \/ i.version = origin.version /\ i.owner = origin.owner
         \/ store = Current /\ i.version = "2" /\ i.owner = "ours"
  BY <1>1 DEF HasRead
<1>3. CASE store = Current
  <2>1. store.app = "ours" /\ store.user = "ours"
    BY <1>3 DEF Current
  <2> QED
    BY <1>3, <2>1 DEF Verdict, Classified
<1>4. CASE store # Current /\ origin # Nothing
  <2>1. store = origin /\ ~store.empty
    BY <1>4 DEF StoreInv, FileInv
  <2>2. i.signature = Signature(store) /\ i.version = store.version /\ i.owner = store.owner
    BY <1>2, <1>4, <2>1
  <2>3. Verdict(p) = Classified(Signature(store), store.version, store.owner,
                                <<store.app, store.user>>, i.allow)
    BY <2>2 DEF Verdict
  <2>4. Verdict(p) # "current"
    BY <1>1, <1>4, <2>1, <2>3, Formats DEF Classified, Stamped
  <2>5. Verdict(p) = "legacy-v1" => store = UnmarkedV1
    BY <1>1, <2>1, <2>3, Formats DEF Classified
  <2>6. Verdict(p) = "legacy-v2-unmarked" => store = UnmarkedV2
    BY <1>1, <2>1, <2>3, Formats DEF Classified
  <2>7. Verdict(p) \in {"refused", "current", "legacy-v2-unmarked", "legacy-v1"}
    BY <2>3 DEF Classified
  <2> QED
    BY <2>1, <2>4, <2>5, <2>6, <2>7
<1>5. CASE store # Current /\ origin = Nothing
  <2>1. i.version = "none" /\ Nothing.version = "none"
    BY <1>2, <1>5 DEF Nothing
  <2>2. Verdict(p) = "refused"
    BY <2>1 DEF Verdict, Classified
  <2> QED
    BY <2>2
<1> QED
  BY <1>3, <1>4, <1>5

\* The three readings.
LEMMA ReadKeeps ==
  ASSUME StoreInv, NEW p \in Proc, ReadSignature(p) \/ ReadMeta(p) \/ ReadHeader(p)
  PROVE  StoreInv'
<1> DEFINE i == job[p]
<1>1. /\ i \in Jobs /\ Fits(i, store) /\ store \in Stores /\ job \in [Proc -> Jobs]
      /\ UNCHANGED <<store, origin, writer, faults>>
  BY DEF StoreInv, TypeOK, ReadSignature, ReadMeta, ReadHeader, Goto
<1>2. CASE ReadSignature(p) /\ Signature(store) = "foreign"
  <2> DEFINE j == [i EXCEPT !.pc = "refused"]
  <2>1. j \in Jobs /\ j.pc = "refused"
    BY <1>1 DEF Jobs, Labels
  <2>2. job' = [job EXCEPT ![p] = j] /\ i.pc \notin Steps
    BY <1>1, <1>2 DEF ReadSignature, Goto, At, Steps
  <2> HIDE DEF j
  <2>3. Fits(j, store) /\ j.pc \notin Steps
    BY <2>1, NothingHeld
  <2> QED
    BY <1>1, <2>1, <2>2, <2>3, QuietStep
<1>3. CASE ReadSignature(p) /\ Signature(store) # "foreign"
  <2> DEFINE j == [i EXCEPT !.signature = Signature(store), !.pc = "meta"]
  <2>0. Signature(store) \in {"none", "current", "v1"}
    BY <1>3 DEF Signature
  <2>1. j \in Jobs /\ j.pc = "meta" /\ j.signature = Signature(store)
    BY <1>1, <2>0 DEF Jobs, Labels
  <2>2. job' = [job EXCEPT ![p] = j] /\ i.pc \notin Steps
    BY <1>1, <1>3 DEF ReadSignature, At, Steps
  <2> HIDE DEF j
  <2>3. Fits(j, store) /\ j.pc \notin Steps
    BY <1>3, <2>1, Sights DEF Fits, Scripted, HasRead, Deserved, Copied, Right, Steps
  <2> QED
    BY <1>1, <2>1, <2>2, <2>3, QuietStep
<1>4. CASE ReadMeta(p)
  <2> DEFINE j == [i EXCEPT !.version = store.version, !.owner = store.owner, !.pc = "header"]
  <2>1. /\ j \in Jobs /\ j.pc = "header" /\ j.signature = i.signature
        /\ j.version = store.version /\ j.owner = store.owner
    <3>1. /\ store.version \in {"none", "1", "2", "other"}
          /\ store.owner \in {"none", "ours", "other"}
      BY <1>1 DEF Stores
    <3> QED
      BY <1>1, <3>1 DEF Jobs, Labels
  <2>2. job' = [job EXCEPT ![p] = j] /\ i.pc = "meta" /\ i.pc \notin Steps
    BY <1>1, <1>4 DEF ReadMeta, At, Steps
  <2> HIDE DEF j
  <2>3. Fits(j, store) /\ j.pc \notin Steps
    BY <1>1, <2>1, <2>2, Sights DEF Fits, Scripted, HasRead, Deserved, Copied, Right, Steps
  <2> QED
    BY <1>1, <2>1, <2>2, <2>3, QuietStep
<1>5. CASE ReadHeader(p)
  <2> DEFINE l == CASE Verdict(p) = "refused" -> "refused"
                    [] Verdict(p) = "current" ->
                         IF i.cmd = "initialize" /\ i.allow THEN "signature" ELSE "ok"
                    [] OTHER -> "begin"
             j == [i EXCEPT !.kind = Verdict(p), !.allow = FALSE, !.pc = l]
  <2>1. i.pc = "header" /\ At(p, "header")
    BY <1>5 DEF ReadHeader, At
  <2>2. /\ Verdict(p) \in {"refused", "current", "legacy-v2-unmarked", "legacy-v1"}
        /\ Verdict(p) = "current" => store = Current
        /\ Verdict(p) = "legacy-v1" => origin = UnmarkedV1
        /\ Verdict(p) = "legacy-v2-unmarked" => origin = UnmarkedV2
    BY <2>1, VerdictIsRight
  <2>3. /\ l \in {"refused", "signature", "ok", "begin"}
        /\ l = "ok" => Verdict(p) = "current"
        /\ l = "begin" => Verdict(p) \in {"legacy-v2-unmarked", "legacy-v1"}
    BY <2>2
  <2> HIDE DEF l
  <2>4. j \in Jobs /\ j.pc = l /\ j.kind = Verdict(p)
    <3>1. l \in Labels
      BY <2>3 DEF Labels
    <3>2. Verdict(p) \in {"none", "refused", "current", "legacy-v2-unmarked", "legacy-v1"}
      BY <2>2
    <3> QED
      BY <1>1, <3>1, <3>2 DEF Jobs
  <2>5. job' = [job EXCEPT ![p] = j] /\ i.pc \notin Steps
    BY <1>1, <1>5, <2>1 DEF ReadHeader, Steps, l
  <2> HIDE DEF j
  <2>6. Fits(j, store) /\ j.pc \notin Steps
    BY <2>2, <2>3, <2>4 DEF Fits, Scripted, HasRead, Deserved, Copied, Right, Steps
  <2> QED
    BY <1>1, <2>4, <2>5, <2>6, QuietStep
<1> QED
  BY <1>2, <1>3, <1>4, <1>5

-----------------------------------------------------------------------------
\* The transaction.
LEMMA BeginKeeps ==
  ASSUME StoreInv, NEW p \in Proc, Begin(p)
  PROVE  StoreInv'
<1> DEFINE i == job[p]
           j == [i EXCEPT !.copy = store, !.pc = "alter"]
<1>1. /\ i \in Jobs /\ Fits(i, store) /\ store \in Stores /\ job \in [Proc -> Jobs]
      /\ i.pc = "begin" /\ writer = "none" /\ writer' = p
      /\ UNCHANGED <<store, origin, faults>> /\ faults' \in Nat
  BY DEF StoreInv, TypeOK, Begin, At
<1>2. j \in Jobs /\ j.pc = "alter" /\ j.copy = store /\ j.kind = i.kind
  BY <1>1 DEF Jobs, Labels, Steps
<1>3. job' = [job EXCEPT ![p] = j]
  BY <1>1 DEF Begin
<1> HIDE DEF j
<1>4. Fits(j, store')
  BY <1>1, <1>2 DEF Fits, Scripted, HasRead, Deserved, Copied, Right, Steps
<1>5. FileInv' /\ Later(store, store')
  BY <1>1 DEF StoreInv, FileInv, Half, Later
<1>6. j.pc \in Steps <=> writer' = p
  BY <1>1, <1>2 DEF Steps
<1> QED
  BY <1>1, <1>2, <1>3, <1>4, <1>5, <1>6, StepKeeps

\* The statements: each has its mark in the copy.
LEMMA StatementKeeps ==
  ASSUME StoreInv, NEW p \in Proc, NEW here \in Steps, NEW onward \in Steps, NEW c \in Stores,
         Statement(p, here, c, onward), Copied([job[p] EXCEPT !.copy = c, !.pc = onward], store)
  PROVE  StoreInv'
<1> DEFINE i == job[p]
           j == [i EXCEPT !.copy = c, !.pc = onward]
<1>1. /\ i \in Jobs /\ Fits(i, store) /\ job \in [Proc -> Jobs] /\ i.pc = here
      /\ UNCHANGED <<store, origin, writer, faults>>
  BY DEF StoreInv, TypeOK, Statement, At
<1>2. j \in Jobs /\ j.pc = onward /\ j.kind = i.kind
  BY <1>1 DEF Jobs, Labels, Steps
<1>3. job' = [job EXCEPT ![p] = j]
  BY <1>1 DEF Statement
<1>4. Copied(j, store)
  OBVIOUS
<1> HIDE DEF j
<1>5. Fits(j, store)
  BY <1>1, <1>2, <1>4 DEF Fits, Scripted, HasRead, Deserved, Right, Steps
<1> QED
  BY <1>1, <1>2, <1>3, <1>5, QuietStep

\* A store the transaction may stamp is whole, but for the column of a v1.
LEMMA Stampable ==
  ASSUME StoreInv, NEW p \in Proc, At(p, "alter")
  PROVE  /\ job[p].copy = store /\ ~store.empty /\ ~store.alien /\ store.objects = Object
         /\ job[p].kind # "legacy-v1" => store.column = TRUE
<1>1. /\ Deserved(job[p], store) /\ Copied(job[p], store) /\ job[p].pc = "alter"
      /\ store \in Stores
  BY DEF StoreInv, TypeOK, Fits, At
<1>2. CASE store = Current
  BY <1>1, <1>2 DEF Copied, Current
<1>3. CASE store # Current /\ origin = Nothing
  <2>1. job[p].kind = "none" /\ ~store.empty /\ store.objects = Object
    <3>1. ~UnmarkedV1.empty /\ ~UnmarkedV2.empty /\ Nothing.empty
      BY DEF UnmarkedV1, UnmarkedV2, Current, Nothing
    <3> QED
      BY <1>1, <1>3, <3>1 DEF Deserved, Steps
  <2>2. Half(store)
    BY <1>3 DEF StoreInv, FileInv
  <2> QED
    BY <1>1, <2>1, <2>2, FormatTypes DEF Half, Copied, Stores
<1>4. CASE store # Current /\ origin # Nothing
  <2>1. store = origin
    BY <1>4 DEF StoreInv, FileInv
  <2>2. \/ store = UnmarkedV1 /\ job[p].kind = "legacy-v1"
        \/ store = UnmarkedV2 /\ job[p].kind = "legacy-v2-unmarked"
    BY <1>1, <1>4, <2>1 DEF Deserved, Steps
  <2> QED
    BY <1>1, <2>2 DEF Copied, UnmarkedV1, UnmarkedV2, Current
<1> QED
  BY <1>2, <1>3, <1>4

LEMMA AlterKeeps ==
  ASSUME StoreInv, NEW p \in Proc, AlterRuns(p)
  PROVE  StoreInv'
<1> DEFINE i == job[p]
           c == [i.copy EXCEPT !.column = @ \/ i.kind = "legacy-v1"]
           j == [i EXCEPT !.copy = c, !.pc = "version"]
<1>1. i \in Jobs /\ i.copy \in Stores /\ At(p, "alter") /\ Statement(p, "alter", c, "version")
  BY DEF StoreInv, TypeOK, Jobs, AlterRuns, Statement
<1>2. /\ i.copy = store /\ ~store.empty /\ ~store.alien /\ store.objects = Object
      /\ i.kind # "legacy-v1" => store.column = TRUE
  BY <1>1, Stampable
<1>3. c \in Stores /\ ~c.empty /\ ~c.alien /\ c.objects = Object /\ c.column = TRUE
  BY <1>1, <1>2 DEF Stores
<1> HIDE DEF c
<1>4. j.pc = "version" /\ j.copy = c
  BY <1>1 DEF Jobs
<1>5. Copied(j, store)
  BY <1>3, <1>4 DEF Copied, Steps
<1> QED
  BY <1>1, <1>3, <1>5, StatementKeeps DEF Steps

LEMMA StampKeeps ==
  ASSUME StoreInv, NEW p \in Proc,
         StampVersion(p) \/ StampOwner(p) \/ StampApp(p) \/ StampUser(p)
  PROVE  StoreInv'
<1> DEFINE i == job[p]
<1>1. i \in Jobs /\ i.copy \in Stores /\ Copied(i, store)
  BY DEF StoreInv, TypeOK, Jobs, Fits
<1>2. CASE StampVersion(p)
  <2> DEFINE c == [i.copy EXCEPT !.version = "2"]
             j == [i EXCEPT !.copy = c, !.pc = "owner"]
  <2>1. i.pc = "version" /\ Statement(p, "version", c, "owner")
    BY <1>2 DEF StampVersion, Statement, At
  <2>2. /\ c \in Stores /\ c.version = "2" /\ c.empty = i.copy.empty /\ c.alien = i.copy.alien
        /\ c.objects = i.copy.objects /\ c.column = i.copy.column
    BY <1>1 DEF Stores
  <2> HIDE DEF c
  <2>3. j.pc = "owner" /\ j.copy = c
    BY <1>1 DEF Jobs
  <2>4. Copied(j, store)
    BY <1>1, <2>1, <2>2, <2>3 DEF Copied, Steps
  <2> QED
    BY <2>1, <2>2, <2>4, StatementKeeps DEF Steps
<1>3. CASE StampOwner(p)
  <2> DEFINE c == [i.copy EXCEPT !.owner = "ours"]
             j == [i EXCEPT !.copy = c, !.pc = "app"]
  <2>1. i.pc = "owner" /\ Statement(p, "owner", c, "app")
    BY <1>3 DEF StampOwner, Statement, At
  <2>2. /\ c \in Stores /\ c.owner = "ours" /\ c.empty = i.copy.empty /\ c.alien = i.copy.alien
        /\ c.objects = i.copy.objects /\ c.column = i.copy.column
        /\ c.version = i.copy.version
    BY <1>1 DEF Stores
  <2> HIDE DEF c
  <2>3. j.pc = "app" /\ j.copy = c
    BY <1>1 DEF Jobs
  <2>4. Copied(j, store)
    BY <1>1, <2>1, <2>2, <2>3 DEF Copied, Steps
  <2> QED
    BY <2>1, <2>2, <2>4, StatementKeeps DEF Steps
<1>4. CASE StampApp(p)
  <2> DEFINE c == [i.copy EXCEPT !.app = "ours"]
             j == [i EXCEPT !.copy = c, !.pc = "user"]
  <2>1. i.pc = "app" /\ Statement(p, "app", c, "user")
    BY <1>4 DEF StampApp, Statement, At
  <2>2. /\ c \in Stores /\ c.app = "ours" /\ c.empty = i.copy.empty /\ c.alien = i.copy.alien
        /\ c.objects = i.copy.objects /\ c.column = i.copy.column
        /\ c.version = i.copy.version /\ c.owner = i.copy.owner
    BY <1>1 DEF Stores
  <2> HIDE DEF c
  <2>3. j.pc = "user" /\ j.copy = c
    BY <1>1 DEF Jobs
  <2>4. Copied(j, store)
    BY <1>1, <2>1, <2>2, <2>3 DEF Copied, Steps
  <2> QED
    BY <2>1, <2>2, <2>4, StatementKeeps DEF Steps
<1>5. CASE StampUser(p)
  <2> DEFINE c == [i.copy EXCEPT !.user = "ours"]
             j == [i EXCEPT !.copy = c, !.pc = "commit"]
  <2>1. i.pc = "user" /\ Statement(p, "user", c, "commit")
    BY <1>5 DEF StampUser, Statement, At
  <2>2. /\ c \in Stores /\ c.user = "ours" /\ c.empty = i.copy.empty /\ c.alien = i.copy.alien
        /\ c.objects = i.copy.objects /\ c.column = i.copy.column
        /\ c.version = i.copy.version /\ c.owner = i.copy.owner /\ c.app = i.copy.app
    BY <1>1 DEF Stores
  <2> HIDE DEF c
  <2>3. j.pc = "commit" /\ j.copy = c
    BY <1>1 DEF Jobs
  <2>4. Copied(j, store)
    BY <1>1, <2>1, <2>2, <2>3 DEF Copied, Steps
  <2> QED
    BY <2>1, <2>2, <2>4, StatementKeeps DEF Steps
<1> QED
  BY <1>2, <1>3, <1>4, <1>5

\* What is committed is the current store.
LEMMA CommitIsCurrent ==
  ASSUME StoreInv, NEW p \in Proc, Commit(p)
  PROVE  job[p].copy = Current /\ store' = Current /\ writer = p
<1>1. /\ job[p].copy \in Stores /\ Copied(job[p], store) /\ job[p].pc = "commit"
      /\ writer = p /\ store' = job[p].copy
  BY DEF StoreInv, TypeOK, Jobs, Fits, Commit, At, Steps
<1>2. /\ job[p].copy.empty = FALSE /\ job[p].copy.objects = Object
      /\ job[p].copy.alien = FALSE /\ job[p].copy.column = TRUE
      /\ job[p].copy.version = "2" /\ job[p].copy.owner = "ours"
      /\ job[p].copy.app = "ours" /\ job[p].copy.user = "ours"
  BY <1>1 DEF Copied, Steps, Stores
<1>3. job[p].copy = Current
  BY <1>1, <1>2, SameStore, FormatTypes DEF Current
<1> QED
  BY <1>1, <1>3

LEMMA CommitKeeps ==
  ASSUME StoreInv, NEW p \in Proc, Commit(p)
  PROVE  StoreInv'
<1> DEFINE j == [job[p] EXCEPT !.pc = "signature", !.allow = FALSE, !.copy = Nothing]
<1>1. job[p] \in Jobs /\ job \in [Proc -> Jobs]
  BY DEF StoreInv, TypeOK
<1>2. j \in Jobs /\ j.pc = "signature"
  BY <1>1, FormatTypes DEF Jobs, Labels
<1>3. job' = [job EXCEPT ![p] = j] /\ writer' = "none" /\ UNCHANGED <<origin, faults>>
  BY <1>1 DEF Commit
<1> HIDE DEF j
<1>4. Fits(j, store') /\ j.pc \notin Steps
  BY <1>2, NothingHeld
<1>5. store' = Current /\ writer = p
  BY CommitIsCurrent
<1>6. store' \in Stores /\ Later(store, store')
  BY <1>5, FormatTypes DEF Later, StoreInv, TypeOK, Stores, Current
<1>7. FileInv' /\ faults' \in Nat
  BY <1>3, <1>5 DEF StoreInv, TypeOK, FileInv
<1> QED
  BY <1>2, <1>3, <1>4, <1>5, <1>6, <1>7, WriterAssumption, StepKeeps

LEMMA StepStoreInv == StoreInv /\ [Next]_vars => StoreInv'
<1> SUFFICES ASSUME StoreInv, [Next]_vars PROVE StoreInv'
  OBVIOUS
<1>1. CASE UNCHANGED vars
  BY <1>1 DEF vars, StoreInv, TypeOK, FileInv, Half, Fits, Scripted, HasRead, Deserved, Copied,
              Right
<1>2. CASE Next
  <2> PICK p \in Proc : Initialize(p) \/ Open(p) \/ Proceed(p) \/ Abort(p)
    BY <1>2 DEF Next
  <2> QED
    BY CommandKeeps, LeaveKeeps, ScriptKeeps, ReadKeeps, BeginKeeps, AlterKeeps, StampKeeps,
       CommitKeeps DEF Proceed
<1> QED
  BY <1>1, <1>2

LEMMA AlwaysStoreInv == Spec => []StoreInv
BY InitStoreInv, StepStoreInv, PTL DEF Spec

-----------------------------------------------------------------------------
\* The file and what the commands hold of it keep their shape, and whoever is
\* inside BEGIN IMMEDIATE is the one writer.
THEOREM StoreTypeCorrect == Spec => []TypeOK
BY AlwaysStoreInv, PTL DEF StoreInv

\* Every stamp this program ever sets is on a whole current store, whatever
\* dies between two statements.
THEOREM StampIsHonest == Spec => []StampedIsWhole
<1>1. StoreInv => StampedIsWhole
  BY DEF StoreInv, FileInv, Half, StampedIsWhole, Stamped
<1> QED
  BY <1>1, AlwaysStoreInv, PTL

\* A command that hands the store on works on the whole current schema, though
\* it has read it at three moments and others write in between.
THEOREM OpenedIsCurrent == Spec => []OkIsCurrent
<1>1. StoreInv => OkIsCurrent
  BY DEF StoreInv, Fits, Right, OkIsCurrent, At
<1> QED
  BY <1>1, AlwaysStoreInv, PTL

\* Nobody's store but this program's is written.
THEOREM OthersAreUntouched == Spec => StrangersUntouched
<1>1. ASSUME StoreInv, [Next]_vars, ~store.empty, store \notin Priors \cup {Current}, Unmade,
             writer = "none" \/ job[writer].kind # "none"
      PROVE  store' = store
  <2> SUFFICES ASSUME Next PROVE store' = store
    BY <1>1 DEF vars
  <2> PICK p \in Proc : Initialize(p) \/ Open(p) \/ Proceed(p) \/ Abort(p)
    BY DEF Next
  <2>1. ~RunScript(p)
    BY <1>1 DEF Unmade, RunScript
  <2>2. ~Commit(p)
    <3> SUFFICES ASSUME Commit(p) PROVE FALSE
      OBVIOUS
    <3>1. writer = p /\ job[p].kind # "none" /\ Deserved(job[p], store) /\ job[p].pc = "commit"
      <4>1. writer = p
        BY <1>1, CommitIsCurrent
      <4>2. writer # "none"
        BY <4>1, WriterAssumption
      <4>3. Fits(job[p], store)
        BY <1>1 DEF StoreInv
      <4>4. Deserved(job[p], store)
        BY <4>3 DEF Fits
      <4> QED
        BY <1>1, <4>1, <4>2, <4>4 DEF Commit, At
    <3>2. origin \in Priors /\ origin # Nothing
      <4>1. ~UnmarkedV1.empty /\ ~UnmarkedV2.empty /\ Nothing.empty
        BY DEF UnmarkedV1, UnmarkedV2, Current, Nothing
      <4> QED
        BY <3>1, <4>1 DEF Deserved, Steps, Priors
    <3> QED
      BY <1>1, <3>2 DEF StoreInv, FileInv
  <2> QED
    BY <2>1, <2>2 DEF Initialize, Open, Proceed, ReadSignature, ReadMeta, ReadHeader, Begin,
       AlterRuns, StampVersion, StampOwner, StampApp, StampUser, Statement, Rollback, Return,
       Abort, Goto
<1>2. StoreInv /\ [Next]_vars =>
        [~store.empty /\ store \notin Priors \cup {Current} /\ Unmade
           /\ (writer = "none" \/ job[writer].kind # "none")
         => store' = store]_vars
  BY <1>1
<1> QED
  BY <1>2, AlwaysStoreInv, PTL DEF Spec, StrangersUntouched

\* Once the current store, the file is it for ever.
THEOREM CurrentStays == Spec => [][store = Current => store' = Current]_vars
<1>1. ASSUME StoreInv, [Next]_vars, store = Current PROVE store' = Current
  <2> SUFFICES ASSUME Next PROVE store' = Current
    BY <1>1 DEF vars
  <2> PICK p \in Proc : Initialize(p) \/ Open(p) \/ Proceed(p) \/ Abort(p)
    BY DEF Next
  <2>1. CASE RunScript(p)
    <3>1. store' = Created(store, job[p].done) /\ job[p].done \in 0 .. Len(Script)
      BY <1>1, <2>1 DEF RunScript, At, StoreInv, TypeOK, Jobs, Fits, Scripted
    <3> QED
      BY <1>1, <3>1, FormatTypes, CreatedIs DEF Later
  <2>2. CASE Commit(p)
    BY <1>1, <2>2, CommitIsCurrent
  <2> QED
    BY <1>1, <2>1, <2>2 DEF Initialize, Open, Proceed, ReadSignature, ReadMeta, ReadHeader,
       Begin, AlterRuns, StampVersion, StampOwner, StampApp, StampUser, Statement, Rollback,
       Return, Abort, Goto
<1>2. StoreInv /\ [Next]_vars => [store = Current => store' = Current]_vars
  BY <1>1
<1> QED
  BY <1>2, AlwaysStoreInv, PTL DEF Spec
=============================================================================
