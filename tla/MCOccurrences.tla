--------------------------- MODULE MCOccurrences ---------------------------
(***************************************************************************)
(* Small instances of Occurrences: three seconds of the clock, in halves,  *)
(* for a trigger that is created as one of several kinds.                  *)
(***************************************************************************)
EXTENDS Occurrences, TLC

CONSTANTS a1, timed, hook, w1, w2, e1, d1, d2, k1, k2

MCAutomationOf == [t \in Trigger |-> a1]

Once(n)  == [kind |-> "once", value |-> n]
Every(n) == [kind |-> "interval", value |-> n]
Hook(n)  == [kind |-> "event", value |-> n]

MCSpecsOf == [t \in Trigger |->
  IF t = timed THEN {Once(2), Once(5), Every(2), Every(4)} ELSE {Hook(0), Hook(1)}]
=============================================================================
