---------------------------- MODULE IngressProofs ---------------------------
(***************************************************************************)
(* One run for an event, for every number of events, runs and threads, any *)
(* window and any clock of the sender.  The receipt and the row are        *)
(* written together, the receipts are read in the same transaction, and    *)
(* what a thread carries from there to its answer is a run of its event.   *)
(***************************************************************************)
EXTENDS Ingress, TLAPS

\* A thread that handles a request has an event, and from its transaction on
\* a run of that event.
Carries(w) ==
  /\ pc[w] # "idle" => req[w][1] \in Event
  /\ pc[w] \in {"execute", "answer"} => hold[w] \in Run /\ runOf[hold[w]] = req[w][1]

ReceiptNamesRun == \A e \in Event : receipt[e] # NoRun => runOf[receipt[e]] = e

IngressInv == TypeOK /\ AcceptedOnce /\ ReceiptNamesRun /\ \A w \in Worker : Carries(w)

USE AbsentAssumption, SkewAssumption

LEMMA AgesClosed ==
  /\ 0 \in Ages /\ Offsets \subseteq Ages
  /\ \A a \in Ages : Older(a) \in Ages
BY DEF Ages, Older, Oldest

LEMMA AgedRequest ==
  ASSUME NEW S, NEW m \in S \X Ages
  PROVE  <<m[1], Older(m[2])>> \in S \X Ages
BY AgesClosed

LEMMA NoRequest == <<NoEvent, 0>> \in (Event \cup {NoEvent}) \X Ages
BY AgesClosed

LEMMA InitIngressInv == Init => IngressInv
<1> SUFFICES ASSUME Init
             PROVE  IngressInv
  OBVIOUS
<1>1. TypeOK
  BY NoRequest DEF Init, TypeOK
<1>2. AcceptedOnce /\ ReceiptNamesRun /\ \A w \in Worker : Carries(w)
  BY DEF Init, AcceptedOnce, ReceiptNamesRun, Carries
<1> QED
  BY <1>1, <1>2 DEF IngressInv

\* A thread that is done holds nothing, and the others hold what they held.
LEMMA DoneFrame ==
  ASSUME IngressInv, NEW w \in Worker, Done(w)
  PROVE  /\ pc' \in [Worker -> {"idle", "verify", "ingest", "insert", "execute", "answer"}]
         /\ req' \in [Worker -> (Event \cup {NoEvent}) \X Ages]
         /\ hold' \in [Worker -> Run \cup {NoRun}]
         /\ pc'[w] = "idle"
         /\ \A v \in Worker \ {w} : pc'[v] = pc[v] /\ req'[v] = req[v] /\ hold'[v] = hold[v]
BY NoRequest DEF IngressInv, TypeOK, Done

\* What moves no run, no receipt and no thread past its transaction.
LEMMA OutsideIngressInv ==
  ASSUME IngressInv,
         \/ \E e \in Event : Send(e)
         \/ \E m \in net : Lose(m)
         \/ Second \/ Configure \/ UNCHANGED vars
  PROVE  IngressInv'
<1> USE DEF IngressInv, TypeOK, AcceptedOnce, ReceiptNamesRun, Carries, store, operator
<1>1. CASE \E e \in Event : Send(e)
  BY <1>1, AgesClosed DEF Send
<1>2. CASE \E m \in net : Lose(m)
  BY <1>2 DEF Lose
<1>3. CASE Second
  <2>1. net' \in SUBSET (Event \X Ages)
    BY <1>3, AgesClosed DEF Second
  <2>2. req' \in [Worker -> (Event \cup {NoEvent}) \X Ages]
    BY <1>3, AgedRequest DEF Second
  <2>3. \A w \in Worker : req'[w][1] = req[w][1]
    BY <1>3 DEF Second
  <2> QED
    BY <1>3, <2>1, <2>2, <2>3 DEF Second
<1>4. CASE Configure
  BY <1>4 DEF Configure
<1>5. CASE UNCHANGED vars
  BY <1>5 DEF vars
<1> QED
  BY <1>1, <1>2, <1>3, <1>4, <1>5

LEMMA HandleIngressInv ==
  ASSUME IngressInv, NEW w \in Worker, Handle(w) \/ \E m \in net : Arrive(w, m)
  PROVE  IngressInv'
<1> USE DEF IngressInv, TypeOK, Carries, store, operator, Goto
<1>1. CASE \E m \in net : Arrive(w, m)
  <2>1. PICK m \in net : Arrive(w, m)
    BY <1>1
  <2>2. m \in Event \X Ages /\ m[1] \in Event
    OBVIOUS
  <2> QED
    BY <2>1, <2>2 DEF Arrive, AcceptedOnce, ReceiptNamesRun
<1>2. CASE Done(w) /\ UNCHANGED <<net, store, operator, up, told>>
  BY <1>2, DoneFrame DEF AcceptedOnce, ReceiptNamesRun
<1>3. ASSUME NEW l \in {"ingest", "insert"}, Goto(w, l), pc[w] # "idle",
             UNCHANGED <<net, req, hold, store, told, operator, up>>
      PROVE  IngressInv'
  <2>1. TypeOK' /\ AcceptedOnce' /\ ReceiptNamesRun'
    BY <1>3 DEF AcceptedOnce, ReceiptNamesRun
  <2>2. \A v \in Worker : Carries(v)'
    BY <1>3
  <2> QED
    BY <2>1, <2>2
<1>4. CASE Accept(w) \/ Reject(w) \/ Gate(w)
  <2> HIDE DEF IngressInv, Goto
  <2> QED
    BY <1>2, <1>3, <1>4 DEF Accept, Reject, Gate
<1>5. CASE Execute(w)
  <2>1. CASE Done(w) /\ UNCHANGED status
    BY <1>2, <1>5, <2>1 DEF Execute
  <2>2. CASE status' = [status EXCEPT ![hold[w]] = "settled"] /\ Goto(w, "answer")
             /\ UNCHANGED <<req, hold>>
    BY <1>5, <2>2 DEF Execute, AcceptedOnce, ReceiptNamesRun
  <2> QED
    BY <1>5, <2>1, <2>2 DEF Execute
<1>6. CASE Answer(w)
  <2>1. hold[w] \in Run /\ runOf[hold[w]] = req[w][1] /\ Done(w)
    BY <1>6 DEF Answer
  <2>2. UNCHANGED <<net, store, operator, up>>
    BY <1>6 DEF Answer
  <2>3. \A e \in Event : told'[e] \in SUBSET Run /\ told'[e] \subseteq {r \in Run : runOf[r] = e}
    BY <1>6, <2>1 DEF Answer, AcceptedOnce
  <2>4. told' \in [Event -> SUBSET Run]
    BY <1>6, <2>1 DEF Answer
  <2>5. AcceptedOnce' /\ ReceiptNamesRun'
    BY <2>2, <2>3 DEF AcceptedOnce, ReceiptNamesRun
  <2>6. TypeOK' /\ \A v \in Worker : Carries(v)'
    BY <2>1, <2>2, <2>4, DoneFrame
  <2> QED
    BY <2>5, <2>6
<1>7. CASE Insert(w)
  <2> DEFINE e == req[w][1]
  <2>1. e \in Event /\ pc[w] = "insert"
    BY <1>7 DEF Insert
  <2>2. CASE Done(w) /\ UNCHANGED store
    BY <1>2, <1>7, <2>2 DEF Insert
  <2>3. CASE /\ Prior(e) # NoRun
             /\ hold' = [hold EXCEPT ![w] = Prior(e)]
             /\ Goto(w, "answer") /\ UNCHANGED <<req, store>>
    <3>1. Prior(e) \in Run /\ runOf[Prior(e)] = e
      BY <2>1, <2>3 DEF Prior, ReceiptNamesRun
    <3> QED
      BY <1>7, <2>1, <2>3, <3>1 DEF Insert, AcceptedOnce, ReceiptNamesRun
  <2>4. ASSUME NEW r \in Run, Prior(e) = NoRun, runOf[r] = NoEvent, Record(e, r),
               status' = [status EXCEPT ![r] = "claimed"],
               hold' = [hold EXCEPT ![w] = r], Goto(w, "execute"), UNCHANGED req
        PROVE  IngressInv'
    <3>1. /\ runOf' = [runOf EXCEPT ![r] = e]
          /\ receipt' = [receipt EXCEPT ![e] = r]
          /\ UNCHANGED <<net, told, operator, up>>
      BY <1>7, <2>4 DEF Record, Insert
    <3>2. TypeOK'
      BY <2>1, <2>4, <3>1
    <3>3. \A q \in Run : runOf[q] # NoEvent => runOf'[q] = runOf[q] /\ runOf[q] # e
      BY <2>1, <2>4, <3>1 DEF AcceptedOnce, Prior
    <3>4. AcceptedOnce'
      BY <2>1, <2>4, <3>1, <3>3 DEF AcceptedOnce
    <3>5. ReceiptNamesRun'
      BY <2>1, <2>4, <3>1, <3>3 DEF ReceiptNamesRun
    <3>6. \A v \in Worker : Carries(v)'
      BY <2>1, <2>4, <3>1, <3>3
    <3> QED
      BY <3>2, <3>4, <3>5, <3>6
  <2> QED
    BY <1>7, <2>2, <2>3, <2>4 DEF Insert
<1> QED
  BY <1>1, <1>4, <1>5, <1>6, <1>7 DEF Handle

LEMMA ServerIngressInv ==
  ASSUME IngressInv, Crash \/ Restart
  PROVE  IngressInv'
<1> USE DEF IngressInv, TypeOK, AcceptedOnce, ReceiptNamesRun, Carries, store, operator
<1>1. CASE Crash
  BY <1>1, AgesClosed DEF Crash
<1>2. CASE Restart
  <2>1. status' \in [Run -> {"absent", "claimed", "settled", "unknown"}]
    BY <1>2 DEF Restart, Lost
  <2> QED
    BY <1>2, <2>1 DEF Restart
<1> QED
  BY <1>1, <1>2

LEMMA StepIngressInv == IngressInv /\ [Next]_vars => IngressInv'
BY OutsideIngressInv, HandleIngressInv, ServerIngressInv DEF Next

\* Requests, threads and tables keep their shape.
THEOREM IngressTypeCorrect == Spec => []TypeOK
<1>1. IngressInv => TypeOK
  BY DEF IngressInv
<1> QED
  BY <1>1, InitIngressInv, StepIngressInv, PTL DEF Spec

\* An event has one run and one receipt, and no answer names another run.
THEOREM OneRunForAnEvent == Spec => []AcceptedOnce
<1>1. IngressInv => AcceptedOnce
  BY DEF IngressInv
<1> QED
  BY <1>1, InitIngressInv, StepIngressInv, PTL DEF Spec
=============================================================================
