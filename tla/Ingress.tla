------------------------------ MODULE Ingress -------------------------------
(***************************************************************************)
(* A webhook event on its way in (webhook.py do_POST, security.py          *)
(* verify_webhook, engine.py ingest_event): a sender that signs and sends  *)
(* until it is told of a run, a network that delays, repeats and loses     *)
(* requests and answers, a thread of the server for each request, and a    *)
(* server that may die between any two steps.                              *)
(*                                                                         *)
(* Time is the age of a request: the server's clock less the stamp of the  *)
(* sender, below zero when the sender's clock is ahead.  A request is its  *)
(* event and its age; signature and body are those the sender means (a     *)
(* changed body under one event id is in module Occurrences), and what     *)
(* execute_run does with the run is in module RunLifecycle.                *)
(***************************************************************************)
EXTENDS Integers, FiniteSets

CONSTANTS
  Event,    \* stable event ids
  Run,      \* ids of rows of `runs`
  Worker,   \* threads of the web server: requests it handles at a time
  Skew,     \* max_skew_seconds
  Offsets,  \* how far the sender's clock may be behind the server's
  NoEvent, NoRun

ASSUME SkewAssumption   == Skew \in Nat /\ Offsets \subseteq Int /\ \A o \in Offsets : o <= Skew + 1
ASSUME AbsentAssumption == NoEvent \notin Event /\ NoRun \notin Run

VARIABLES
  net,      \* requests on their way: <<event, age>>
  pc, req,  \* the label of each thread and the request it handles
  hold,     \* the run a thread executes or answers with
  runOf,    \* the table `runs`: the event of each run
  status,   \* of each run: "claimed", "settled" or "unknown"
  receipt,  \* the table event_receipts: the run of each event
  told,     \* the runs the sender was told of, for each event
  armed,    \* trigger and automation are active
  legacy,   \* what migration_authority finds
  secret,   \* the secret reference resolves
  up        \* the server is running

operator == <<armed, legacy, secret>>
store    == <<runOf, status, receipt>>
vars     == <<net, pc, req, hold, runOf, status, receipt, told, armed, legacy, secret, up>>

-----------------------------------------------------------------------------
Oldest == Skew + 1
Ages   == {a \in Int : a <= Oldest /\ \E o \in Offsets \cup {0} : o <= a}

\* Requests past the window do not differ.
Older(a) == IF a < Oldest THEN a + 1 ELSE Oldest

\* abs(now - stamp) <= max_skew_seconds
InWindow(a) == -Skew <= a /\ a <= Skew

Done(w) ==
  /\ pc'   = [pc EXCEPT ![w] = "idle"]
  /\ req'  = [req EXCEPT ![w] = <<NoEvent, 0>>]
  /\ hold' = [hold EXCEPT ![w] = NoRun]

Goto(w, l) == pc' = [pc EXCEPT ![w] = l]

\* The transaction makes no use of event_receipts.
NoPrior(e) == NoRun

Prior(e) == receipt[e]

\* UNIQUE invocation_id: the event is part of it.
Taken(e) == \E r \in Run : runOf[r] = e

\* The receipt is left for later.
RecordRun(e, r) == runOf' = [runOf EXCEPT ![r] = e] /\ UNCHANGED receipt

Record(e, r) ==
  /\ runOf'   = [runOf EXCEPT ![r] = e]
  /\ receipt' = [receipt EXCEPT ![e] = r]

Lost(s) == IF s = "claimed" THEN "unknown" ELSE s

-----------------------------------------------------------------------------
(***************************************************************************)
(* Sender, network, clock.                                                 *)
(***************************************************************************)
Send(e) ==
  /\ told[e] = {}
  /\ \E o \in Offsets : net' = net \cup {<<e, o>>}
  /\ UNCHANGED <<pc, req, hold, store, told, operator, up>>

Lose(m) ==
  /\ m \in net
  /\ net' = net \ {m}
  /\ UNCHANGED <<pc, req, hold, store, told, operator, up>>

\* A second passes for what is on its way and for what a thread has not
\* compared with the clock yet.
Second ==
  /\ net' = {<<m[1], Older(m[2])>> : m \in net}
  /\ req' = [w \in Worker |-> IF pc[w] = "verify" THEN <<req[w][1], Older(req[w][2])>> ELSE req[w]]
  /\ UNCHANGED <<pc, hold, store, told, operator, up>>

-----------------------------------------------------------------------------
(***************************************************************************)
(* do_POST.                                                                *)
(***************************************************************************)
\* The configuration is loaded and the trigger read.  The network may keep a
\* copy of the request.
Arrive(w, m) ==
  /\ up /\ pc[w] = "idle"
  /\ m \in net
  /\ net' \in {net, net \ {m}}
  /\ Goto(w, "verify")
  /\ req' = [req EXCEPT ![w] = m]
  /\ UNCHANGED <<hold, store, told, operator, up>>

Accept(w) ==
  /\ up /\ pc[w] = "verify"
  /\ InWindow(req[w][2]) /\ secret
  /\ Goto(w, "ingest")
  /\ UNCHANGED <<net, req, hold, store, told, operator, up>>

\* A ReplayError or a ValidationError; load_config and get_trigger may raise
\* as well.
Reject(w) ==
  /\ up /\ pc[w] = "verify"
  /\ Done(w)
  /\ UNCHANGED <<net, store, told, operator, up>>

\* ingest_event asks for the legacy authority before its transaction begins.
Gate(w) ==
  /\ up /\ pc[w] = "ingest"
  /\ IF legacy THEN Done(w) ELSE Goto(w, "insert") /\ UNCHANGED <<req, hold>>
  /\ UNCHANGED <<net, store, told, operator, up>>

Insert(w) ==
  LET e == req[w][1] IN
  /\ up /\ pc[w] = "insert"
  /\ \/ /\ ~armed \/ (Prior(e) = NoRun /\ Taken(e))
        /\ Done(w)
        /\ UNCHANGED store
     \/ /\ armed /\ Prior(e) # NoRun
        /\ hold' = [hold EXCEPT ![w] = Prior(e)]
        /\ Goto(w, "answer")
        /\ UNCHANGED <<req, store>>
     \/ /\ armed /\ Prior(e) = NoRun /\ ~Taken(e)
        /\ \E r \in Run :
             /\ runOf[r] = NoEvent
             /\ Record(e, r)
             /\ status' = [status EXCEPT ![r] = "claimed"]
             /\ hold' = [hold EXCEPT ![w] = r]
        /\ Goto(w, "execute")
        /\ UNCHANGED req
  /\ UNCHANGED <<net, told, operator, up>>

\* execute_run returns, or raises and the thread answers 400.
Execute(w) ==
  /\ up /\ pc[w] = "execute"
  /\ \/ /\ status' = [status EXCEPT ![hold[w]] = "settled"]
        /\ Goto(w, "answer")
        /\ UNCHANGED <<req, hold>>
     \/ Done(w) /\ UNCHANGED status
  /\ UNCHANGED <<net, runOf, receipt, told, operator, up>>

\* 202 with the run, which the network may lose.
Answer(w) ==
  /\ up /\ pc[w] = "answer"
  /\ told' \in {told, [told EXCEPT ![req[w][1]] = @ \cup {hold[w]}]}
  /\ Done(w)
  /\ UNCHANGED <<net, store, operator, up>>

-----------------------------------------------------------------------------
(***************************************************************************)
(* The server's process, and the operator.                                 *)
(***************************************************************************)
Crash ==
  /\ up /\ up' = FALSE
  /\ pc'   = [w \in Worker |-> "idle"]
  /\ req'  = [w \in Worker |-> <<NoEvent, 0>>]
  /\ hold' = [w \in Worker |-> NoRun]
  /\ UNCHANGED <<net, store, told, operator>>

\* serve recovers what the last process held before it listens.
Restart ==
  /\ ~up /\ up' = TRUE
  /\ status' = [r \in Run |-> Lost(status[r])]
  /\ UNCHANGED <<net, pc, req, hold, runOf, receipt, told, operator>>

Configure ==
  /\ \/ armed' = ~armed   /\ UNCHANGED <<legacy, secret>>
     \/ legacy' = ~legacy /\ UNCHANGED <<armed, secret>>
     \/ secret' = ~secret /\ UNCHANGED <<armed, legacy>>
  /\ UNCHANGED <<net, pc, req, hold, store, told, up>>

Init ==
  /\ net = {} /\ up = TRUE
  /\ pc = [w \in Worker |-> "idle"]
  /\ req = [w \in Worker |-> <<NoEvent, 0>>]
  /\ hold = [w \in Worker |-> NoRun]
  /\ runOf = [r \in Run |-> NoEvent]
  /\ status = [r \in Run |-> "absent"]
  /\ receipt = [e \in Event |-> NoRun]
  /\ told = [e \in Event |-> {}]
  /\ armed = TRUE /\ legacy = FALSE /\ secret = TRUE

Handle(w) == Accept(w) \/ Reject(w) \/ Gate(w) \/ Insert(w) \/ Execute(w) \/ Answer(w)

Next ==
  \/ \E e \in Event : Send(e)
  \/ \E m \in net : Lose(m) \/ \E w \in Worker : Arrive(w, m)
  \/ \E w \in Worker : Handle(w)
  \/ Second \/ Crash \/ Restart \/ Configure

Spec == Init /\ [][Next]_vars

-----------------------------------------------------------------------------
\* Requests, threads, tables and what the sender knows keep their shape.
TypeOK ==
  /\ net \in SUBSET (Event \X Ages)
  /\ pc \in [Worker -> {"idle", "verify", "ingest", "insert", "execute", "answer"}]
  /\ req \in [Worker -> (Event \cup {NoEvent}) \X Ages]
  /\ hold \in [Worker -> Run \cup {NoRun}]
  /\ runOf \in [Run -> Event \cup {NoEvent}]
  /\ status \in [Run -> {"absent", "claimed", "settled", "unknown"}]
  /\ receipt \in [Event -> Run \cup {NoRun}]
  /\ told \in [Event -> SUBSET Run]
  /\ armed \in BOOLEAN /\ legacy \in BOOLEAN /\ secret \in BOOLEAN /\ up \in BOOLEAN

\* However often an event is sent, copied, signed again, handled by two
\* threads at once or cut off by a crash between the commit and the answer:
\* it has one run, the receipt that names it, and no sender is ever told of
\* another one.
AcceptedOnce ==
  /\ \A r \in Run : runOf[r] # NoEvent => receipt[runOf[r]] = r
  /\ \A e \in Event : told[e] \subseteq {r \in Run : runOf[r] = e}

-----------------------------------------------------------------------------
(***************************************************************************)
(* Progress.  A thread ends what it began; while the sender is told        *)
(* nothing it goes on sending, and of its requests that go on for ever     *)
(* some arrive inside the window (the server has a thread for every        *)
(* request), of those some are compared with the clock there, and of the   *)
(* answers some are not lost.                                              *)
(***************************************************************************)
ArriveInWindow(e) == \E w \in Worker, m \in net : m[1] = e /\ InWindow(m[2]) /\ Arrive(w, m)
Told(w)           == Answer(w) /\ told' # told

Fairness ==
  /\ \A e \in Event : []<><<ArriveInWindow(e)>>_vars \/ <>[](told[e] # {})
  /\ \A w \in Worker : WF_vars(Handle(w))
  /\ \A w \in Worker, e \in Event : /\ SF_vars(req[w][1] = e /\ Accept(w))
                                   /\ SF_vars(req[w][1] = e /\ Told(w))

FairSpec == Spec /\ Fairness

Ready == up /\ armed /\ ~legacy /\ secret

\* A sender that signs again whenever it hears nothing is told of its run once
\* the server stays up and the trigger active: nothing that an earlier lost
\* answer, stale stamp, failed thread or crash left behind closes the way in.
SenderIsAnswered == <>[]Ready => \A e \in Event : <>(told[e] # {})
=============================================================================
