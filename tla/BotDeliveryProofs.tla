-------------------------- MODULE BotDeliveryProofs --------------------------
(***************************************************************************)
(* Wakes of bots and team runs, for every number of runs, attempts, OS     *)
(* trees, crashes and setups: the file a wake is bound to is whole when    *)
(* the wake is posted and stays so, and no file of the adapter's own stops *)
(* a delivery.                                                             *)
(***************************************************************************)
EXTENDS BotDelivery, TLAPS

\* A thread that is about to post has found or written the whole file.
Prepared == \A r \in Run : at[r] = "post" => projection[aim[r]][r] = "wake"

BotInv == TypeOK /\ SourceStaysWhole /\ Prepared

Places == {"rest", "permit", "project", "write", "post", "answer"}

LEMMA InitBotInv == BotInit => BotInv
BY BoundAssumption
   DEF BotInit, Init, BotInv, TypeOK, ContractTypeOK, Stages, Files, Codes, SourceStaysWhole,
       Prepared

\* A thread's step leaves the other runs alone.
LEMMA ThreadFrame ==
  ASSUME BotInv, NEW r \in Run, Deliver(r)
  PROVE  /\ UNCHANGED <<outside, word>>
         /\ at' \in [Run -> Places] /\ aim' \in [Run -> Tree] /\ why' \in [Run -> Codes]
         /\ stage' \in [Run -> Stages] /\ sends' \in [Run -> 0 .. Limit]
         /\ posted' \in [Run -> SUBSET Tree]
         /\ \A q \in Run \ {r} : /\ at'[q] = at[q] /\ aim'[q] = aim[q] /\ why'[q] = why[q]
                                 /\ stage'[q] = stage[q] /\ posted'[q] = posted[q]
         /\ stage[r] = "open"
         /\ at'[r] # "rest" => stage'[r] = "open"
<1> USE DEF Places, Codes, Stages
<1>1. /\ at \in [Run -> Places] /\ aim \in [Run -> Tree] /\ why \in [Run -> Codes]
      /\ stage \in [Run -> Stages] /\ sends \in [Run -> 0 .. Limit] /\ root \in Tree
      /\ posted \in [Run -> SUBSET Tree]
      /\ at[r] # "rest" => stage[r] = "open"
  BY DEF BotInv, TypeOK, ContractTypeOK
<1> USE <1>1
<1>2. CASE Attempt(r) \/ Edge(r)
  BY <1>2 DEF Attempt, Edge, Gated, Stop, Conclude, vars, files, outside
<1>3. CASE Project(r)
  BY <1>3 DEF Project, Step, Stop, Conclude, vars, outside
<1>4. CASE WriteProjection(r)
  BY <1>4 DEF WriteProjection, Step, vars, outside
<1>5. CASE Post(r)
  <2>1. sends' \in [Run -> 0 .. Limit]
    BY <1>5, BoundAssumption DEF Post, Send
  <2>2. posted' \in [Run -> SUBSET Tree]
    BY <1>5 DEF Post
  <2> QED
    BY <1>5, <2>1, <2>2 DEF Post, Send, Step, outside
<1>6. CASE Receipt(r)
  BY <1>6 DEF Receipt, Step, Conclude, files, outside
<1>7. CASE NoReceipt(r)
  BY <1>7 DEF NoReceipt, Step, Stop, Conclude, vars, files, outside
<1> QED
  BY <1>2, <1>3, <1>4, <1>5, <1>6, <1>7 DEF Deliver

\* What a thread does to the files: it begins the file that is missing at its
\* aim, or completes the one it has begun.
FilesOf(r) ==
  \/ projection' = projection /\ posted' = posted /\ (at'[r] = "post" => at[r] = "project")
  \/ /\ projection[aim[r]][r] = "none" /\ at'[r] = "write"
     /\ projection' = [projection EXCEPT ![aim[r]][r] = "part"] /\ posted' = posted
  \/ /\ at'[r] = "post"
     /\ projection' = [projection EXCEPT ![aim[r]][r] = "wake"] /\ posted' = posted
  \/ /\ at[r] = "post" /\ at'[r] = "answer"
     /\ projection' = projection
     /\ posted' = [posted EXCEPT ![r] = @ \cup {aim[r]}]

LEMMA ThreadFiles ==
  ASSUME BotInv, NEW r \in Run, Deliver(r)
  PROVE  /\ FilesOf(r)
         /\ at'[r] \in {"write", "post", "answer"} => aim' = aim
         /\ projection' = projection /\ at'[r] = "post" => projection[aim[r]][r] = "wake"
<1>1. at \in [Run -> Places] /\ aim \in [Run -> Tree]
  BY DEF BotInv, TypeOK, Places
<1> USE <1>1 DEF Places
<1>2. CASE Attempt(r) \/ Edge(r)
  BY <1>2 DEF Attempt, Edge, Gated, Stop, vars, files, FilesOf
<1>3. CASE Project(r)
  BY <1>3 DEF Project, Step, Stop, FilesOf, WakeOf
<1>4. CASE WriteProjection(r)
  <2>1. at'[r] = "post" /\ aim' = aim /\ posted' = posted
        /\ projection' = [projection EXCEPT ![aim[r]][r] = "wake"]
    BY <1>4 DEF WriteProjection, Step, WakeOf
  <2>2. (projection')[aim[r]][r] = "wake"
    BY <2>1 DEF BotInv, TypeOK
  <2> QED
    BY <2>1, <2>2 DEF FilesOf
<1>5. CASE Post(r)
  BY <1>5 DEF Post, Step, FilesOf
<1>6. CASE Receipt(r)
  BY <1>6 DEF Receipt, Step, FilesOf, files
<1>7. CASE NoReceipt(r)
  BY <1>7 DEF NoReceipt, Step, Stop, FilesOf, files
<1> QED
  BY <1>2, <1>3, <1>4, <1>5, <1>6, <1>7 DEF Deliver

LEMMA DeliverKeeps ==
  ASSUME BotInv, NEW r \in Run, Deliver(r)
  PROVE  BotInv'
<1>1. /\ aim \in [Run -> Tree] /\ projection \in [Tree -> [Run -> Files]]
      /\ posted \in [Run -> SUBSET Tree]
      /\ \A q \in Run, t \in Tree : t \in posted[q] => projection[t][q] = "wake"
      /\ \A q \in Run : at[q] = "post" => projection[aim[q]][q] = "wake"
  BY DEF BotInv, TypeOK, SourceStaysWhole, WakeOf, Prepared
<1>2. \A q \in Run \ {r} : at'[q] = at[q] /\ aim'[q] = aim[q] /\ posted'[q] = posted[q]
  BY ThreadFrame
<1>3. /\ projection' \in [Tree -> [Run -> Files]]
      /\ \A q \in Run, t \in Tree : t \in posted'[q] => projection'[t][q] = "wake"
      /\ \A q \in Run : at'[q] = "post" => projection'[aim'[q]][q] = "wake"
  <2>1. CASE projection' = projection /\ posted' = posted
    <3>1. at'[r] = "post" => aim' = aim /\ projection[aim[r]][r] = "wake"
      BY <2>1, ThreadFiles
    <3> QED
      BY <1>1, <1>2, <2>1, <3>1
  <2>2. CASE /\ projection[aim[r]][r] = "none" /\ at'[r] = "write"
             /\ projection' = [projection EXCEPT ![aim[r]][r] = "part"] /\ posted' = posted
    <3>1. projection' \in [Tree -> [Run -> Files]]
      BY <1>1, <2>2 DEF Files
    <3>2. \A t \in Tree, q \in Run :
            projection'[t][q] = IF t = aim[r] /\ q = r THEN "part" ELSE projection[t][q]
      BY <1>1, <2>2
    <3> QED
      BY <1>1, <1>2, <2>2, <3>1, <3>2
  <2>3. CASE /\ at'[r] = "post"
             /\ projection' = [projection EXCEPT ![aim[r]][r] = "wake"] /\ posted' = posted
    <3>1. projection' \in [Tree -> [Run -> Files]]
      BY <1>1, <2>3 DEF Files
    <3>2. \A t \in Tree, q \in Run :
            projection'[t][q] = IF t = aim[r] /\ q = r THEN "wake" ELSE projection[t][q]
      BY <1>1, <2>3
    <3>3. aim' = aim
      BY <2>3, ThreadFiles
    <3> QED
      BY <1>1, <1>2, <2>3, <3>1, <3>2, <3>3
  <2>4. CASE /\ at[r] = "post" /\ at'[r] = "answer" /\ projection' = projection
             /\ posted' = [posted EXCEPT ![r] = @ \cup {aim[r]}]
    BY <1>1, <1>2, <2>4
  <2> QED
    BY <2>1, <2>2, <2>3, <2>4, ThreadFiles DEF FilesOf
<1>4. TypeOK'
  <2>1. /\ word' = word /\ root' = root /\ user' = user /\ used' = used
        /\ \A q \in Run : at'[q] # "rest" => stage'[q] = "open"
    BY ThreadFrame DEF BotInv, TypeOK, outside
  <2> QED
    BY <1>3, <2>1, ThreadFrame DEF BotInv, TypeOK, ContractTypeOK, Places
<1> QED
  BY <1>3, <1>4 DEF BotInv, SourceStaysWhole, Prepared, WakeOf

-----------------------------------------------------------------------------
(***************************************************************************)
(* The rest of the engine and the operator.                                *)
(***************************************************************************)
\* A step that touches no file and brings no thread into the adapter.
LEMMA FilesKept ==
  ASSUME BotInv, UNCHANGED <<projection, posted, aim>>, TypeOK',
         \A r \in Run : at'[r] \in {at[r], "rest"}
  PROVE  BotInv'
BY DEF BotInv, SourceStaysWhole, Prepared, WakeOf

LEMMA EngineKeeps ==
  ASSUME BotInv, Intake \/ Crash \/ \E r \in Run : RetryRun(r)
  PROVE  BotInv'
<1>1. CASE Intake
  <2>1. TypeOK'
    BY <1>1 DEF Intake, Accept, BotInv, TypeOK, ContractTypeOK, Stages, files, thread, outside
  <2> QED
    BY <1>1, <2>1, FilesKept DEF Intake, files, thread
<1>2. CASE Crash
  <2>1. ContractTypeOK'
    BY <1>2 DEF Crash, Lose, BotInv, TypeOK, ContractTypeOK, Stages
  <2>2. TypeOK'
    BY <1>2, <2>1 DEF Crash, BotInv, TypeOK, files
  <2> QED
    BY <1>2, <2>2, FilesKept DEF Crash, files
<1>3. ASSUME NEW r \in Run, RetryRun(r) PROVE BotInv'
  <2>1. UNCHANGED <<files, thread, outside>> /\ at[r] = "rest"
    BY <1>3 DEF RetryRun
  <2>2. ContractTypeOK' /\ \A q \in Run \ {r} : stage'[q] = stage[q]
    <3>1. CASE Ask(r, "confirmed")
      BY <3>1 DEF Ask, BotInv, TypeOK, ContractTypeOK
    <3>2. CASE Reopen(r)
      <4>1. ContractTypeOK /\ 0 \in 0 .. Limit
        BY BoundAssumption DEF BotInv, TypeOK
      <4>2. word' \in [Run -> {"none", "retry", "confirmed"}]
        BY <3>2, <4>1 DEF Reopen, ContractTypeOK
      <4>3. stage' \in [Run -> Stages] /\ \A q \in Run \ {r} : stage'[q] = stage[q]
        BY <3>2, <4>1 DEF Reopen, ContractTypeOK, Stages
      <4>4. sends' \in [Run -> 0 .. Limit]
        BY <3>2, <4>1 DEF Reopen, ContractTypeOK
      <4> QED
        BY <4>2, <4>3, <4>4 DEF ContractTypeOK
    <3> QED
      BY <1>3, <3>1, <3>2 DEF RetryRun
  <2>3. TypeOK'
    BY <2>1, <2>2 DEF BotInv, TypeOK, files, thread, outside
  <2> QED
    BY <2>1, <2>3, FilesKept DEF files, thread
<1> QED
  BY <1>1, <1>2, <1>3

LEMMA OperatorKeeps ==
  ASSUME BotInv, NEW t \in Tree, Rebind(t) \/ UserDefines(t) \/ UserMigrates(t)
  PROVE  BotInv'
<1>1. UNCHANGED <<vars, files, thread>>
  BY DEF Rebind, UserDefines, UserMigrates
<1>2. root' \in Tree /\ user' \in SUBSET Tree
  BY DEF Rebind, UserDefines, UserMigrates, BotInv, TypeOK
<1>3. used' \in [crashes : Nat, rebinds : Nat, moves : Nat]
  <2>1. used \in [crashes : Nat, rebinds : Nat, moves : Nat]
    BY DEF BotInv, TypeOK
  <2>2. \/ used' = used
        \/ used' = [used EXCEPT !.rebinds = used.rebinds + 1]
        \/ used' = [used EXCEPT !.moves = used.moves + 1]
    BY DEF Rebind, UserDefines, UserMigrates
  <2> QED
    BY <2>1, <2>2
<1>4. TypeOK'
  BY <1>1, <1>2, <1>3 DEF BotInv, TypeOK, ContractTypeOK, vars, files, thread
<1> QED
  BY <1>1, <1>4, FilesKept DEF files, thread

\* A half-written file has never been posted.
LEMMA RemoveKeeps ==
  ASSUME BotInv, NEW t \in Tree, NEW r \in Run, RemovePart(t, r)
  PROVE  BotInv'
<1>1. /\ projection[t][r] = "part" /\ at[r] = "rest"
      /\ projection' = [projection EXCEPT ![t][r] = "none"]
      /\ UNCHANGED <<vars, posted, thread, outside>>
  BY DEF RemovePart
<1>2. projection \in [Tree -> [Run -> Files]] /\ aim \in [Run -> Tree]
  BY DEF BotInv, TypeOK
<1>3. projection' \in [Tree -> [Run -> Files]]
  BY <1>1, <1>2 DEF Files
<1>4. \A u \in Tree, q \in Run :
        projection'[u][q] = IF u = t /\ q = r THEN "none" ELSE projection[u][q]
  BY <1>1, <1>2
<1>5. TypeOK'
  BY <1>1, <1>3 DEF BotInv, TypeOK, ContractTypeOK, vars, thread, outside
<1>6. SourceStaysWhole' /\ Prepared'
  BY <1>1, <1>2, <1>4 DEF BotInv, SourceStaysWhole, Prepared, WakeOf, thread
<1> QED
  BY <1>5, <1>6 DEF BotInv

LEMMA StepBotInv == BotInv /\ [BotNext]_allVars => BotInv'
<1>1. ASSUME BotInv, UNCHANGED allVars PROVE BotInv'
  BY <1>1 DEF allVars, vars, files, thread, outside, BotInv, TypeOK, ContractTypeOK,
              SourceStaysWhole, Prepared, WakeOf
<1> QED
  BY <1>1, DeliverKeeps, EngineKeeps, OperatorKeeps, RemoveKeeps DEF BotNext

LEMMA AlwaysBotInv == BotSpec => []BotInv
BY InitBotInv, StepBotInv, PTL DEF BotSpec

-----------------------------------------------------------------------------
\* Files, threads and configuration keep their shapes, and a thread in the
\* adapter has an open run, whatever crashes, setups and retries come between.
THEOREM BotTypeCorrect == BotSpec => []TypeOK
<1>1. BotInv => TypeOK
  BY DEF BotInv
<1> QED
  BY <1>1, AlwaysBotInv, PTL

\* _multiple_bots_projection: a file whose digest has been posted is whole for
\* ever after, in every tree a wake of the run has named.
THEOREM SourceAlwaysWhole == BotSpec => []SourceStaysWhole
<1>1. BotInv => SourceStaysWhole
  BY DEF BotInv
<1> QED
  BY <1>1, AlwaysBotInv, PTL

\* legacy_definition_paths: only definitions of the user stop a delivery as a
\* second authority, never the files the adapter has written.
THEOREM NeverItsOwnObstacle == BotSpec => NeverBlocksItself
<1> DEFINE Blames(r) == stage[r] = "open" /\ stage'[r] = "stopped"
                          /\ why'[r] = "LEGACY_AUTHORITY_CONFLICT" => root \in user
<1>1. ASSUME BotInv, [BotNext]_allVars PROVE \A r \in Run : Blames(r)
  <2>1. ASSUME NEW r \in Run, NEW q \in Run, Deliver(q) PROVE Blames(r)
    <3>1. CASE r # q
      BY <1>1, <2>1, <3>1, ThreadFrame
    <3>2. CASE r = q
      <4>1. stage \in [Run -> Stages] /\ why \in [Run -> Codes]
        BY <1>1 DEF BotInv, TypeOK, ContractTypeOK
      <4>2. CASE Attempt(r) \/ Edge(r)
        BY <4>1, <4>2 DEF Attempt, Edge, Gated, Discovered, vars
      <4>3. CASE Project(r)
        BY <4>1, <4>3 DEF Project, Stop, Step, vars
      <4>4. CASE WriteProjection(r) \/ Post(r)
        BY <4>4 DEF WriteProjection, Post, Send, vars
      <4>5. CASE Receipt(r)
        BY <4>1, <4>5 DEF Receipt, Conclude
      <4>6. CASE NoReceipt(r)
        BY <4>1, <4>6 DEF NoReceipt, Stop, Step, vars
      <4> QED
        BY <2>1, <3>2, <4>2, <4>3, <4>4, <4>5, <4>6 DEF Deliver
    <3> QED
      BY <3>1, <3>2
  <2>2. ASSUME NEW r \in Run, Intake \/ Crash \/ \E q \in Run : RetryRun(q) PROVE Blames(r)
    <3>1. CASE Intake
      BY <3>1 DEF Intake, Accept
    <3>2. CASE Crash
      BY <3>2 DEF Crash, Lose
    <3>3. ASSUME NEW q \in Run, RetryRun(q) PROVE Blames(r)
      BY <1>1, <3>3 DEF RetryRun, Ask, Reopen, BotInv, TypeOK, ContractTypeOK
    <3> QED
      BY <2>2, <3>1, <3>2, <3>3
  <2>3. ASSUME NEW r \in Run, stage' = stage PROVE Blames(r)
    BY <2>3
  <2> QED
    BY <1>1, <2>1, <2>2, <2>3
       DEF BotNext, allVars, vars, Rebind, UserDefines, UserMigrates, RemovePart
<1> QED
  BY <1>1, AlwaysBotInv, PTL DEF BotSpec, NeverBlocksItself

-----------------------------------------------------------------------------
\* adapters.py and engine.py together: taken apart into the steps of the
\* adapter, with files, setups and the user's own definitions around it, a run
\* of a bots target has the life the contract gives it, and no other.  A step
\* of the adapter but Post is invisible to the contract or concludes the run.
THEOREM BotsKeepContract == BotSpec => Spec
<1>1. BotInit => Init
  BY DEF BotInit
<1>2. ASSUME [BotNext]_allVars PROVE [Next]_vars
  <2>1. ASSUME NEW r \in Run, Deliver(r) PROVE [Next]_vars
    <3>1. CASE Post(r)
      BY <3>1 DEF Post, Next
    <3>2. CASE Receipt(r)
      BY <3>2 DEF Receipt, Next
    <3>3. CASE Attempt(r) \/ Edge(r)
      BY <3>3 DEF Attempt, Edge, Gated, Stop, Next
    <3>4. CASE Project(r)
      BY <3>4 DEF Project, Stop, Next
    <3>5. CASE NoReceipt(r)
      BY <3>5 DEF NoReceipt, Stop, Next
    <3>6. CASE WriteProjection(r)
      BY <3>6 DEF WriteProjection
    <3> QED
      BY <2>1, <3>1, <3>2, <3>3, <3>4, <3>5, <3>6 DEF Deliver
  <2>2. CASE Intake
    BY <2>2 DEF Intake, Next
  <2>3. CASE Crash
    BY <2>3 DEF Crash, Next
  <2>4. ASSUME NEW r \in Run, RetryRun(r) PROVE [Next]_vars
    BY <2>4 DEF RetryRun, Next
  <2>5. ASSUME NEW t \in Tree, Rebind(t) \/ UserDefines(t) \/ UserMigrates(t) PROVE [Next]_vars
    BY <2>5 DEF Rebind, UserDefines, UserMigrates
  <2>6. ASSUME NEW t \in Tree, NEW r \in Run, RemovePart(t, r) PROVE [Next]_vars
    BY <2>6 DEF RemovePart
  <2>7. CASE UNCHANGED allVars
    BY <2>7 DEF allVars
  <2> QED
    BY <1>2, <2>1, <2>2, <2>3, <2>4, <2>5, <2>6, <2>7 DEF BotNext
<1> QED
  BY <1>1, <1>2, PTL DEF BotSpec, Spec
=============================================================================
