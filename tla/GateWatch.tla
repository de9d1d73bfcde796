----------------------------- MODULE GateWatch ------------------------------
(***************************************************************************)
(* RunLifecycle with one history variable, for the question what `disable` *)
(* promises.  The gate (enabled, and no legacy authority) is read in       *)
(* component.json before the claim transaction, before an attempt and      *)
(* before the delivery edge, and never inside the transaction or the call  *)
(* it guards: the operator may close it between any two of them.           *)
(***************************************************************************)
EXTENDS RunLifecycle

VARIABLE grace  \* history: the threads that were past the edge when the gate
                \* closed, until each has made its call

watch == <<vars, grace>>

PastTheEdge(w) == pc[w] \in {"mark", "deliver"}

WatchInit == Init /\ grace = {}

\* A thread is let off from the step that closes the gate until it leaves the
\* two labels after the edge; an open gate needs no leave.
WatchNext ==
  /\ Next
  /\ grace' = IF Open' THEN {}
              ELSE {w \in Worker : /\ PastTheEdge(w)'
                                   /\ IF Open THEN PastTheEdge(w) ELSE w \in grace}

WatchSpec == WatchInit /\ [][WatchNext]_watch

FairWatchSpec == WatchSpec /\ Fairness

-----------------------------------------------------------------------------
\* `disable`, or a legacy definition that appears, takes effect within one
\* call a thread: while the gate is closed the owner receives a wake only
\* from a thread that was already past execute_run's second look at the
\* configuration when it closed, and that wake only; whatever else the thread
\* has claimed, listed or been permitted in the meantime is never sent.
ClosedGateHolds ==
  [][\A r \in Run :
       ~Open /\ sends'[r] > sends[r] =>
         \E w \in grace : cur[w] = r /\ w \notin grace']_watch
=============================================================================
