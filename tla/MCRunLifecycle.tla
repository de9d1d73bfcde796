--------------------------- MODULE MCRunLifecycle ---------------------------
(***************************************************************************)
(* Small instances of RunLifecycle: a service (a scheduler thread and two  *)
(* webhook threads), a command, and the service restarted.                 *)
(***************************************************************************)
EXTENDS RunLifecycle, TLC

CONSTANTS p1, p2, p3, s1, i1, i2, c2, s3, a1, once, hook, e1, r1, r2

MCProcOf == [w \in Worker |-> CASE w \in {s1, i1, i2} -> p1 [] w = c2 -> p2 [] w = s3 -> p3]
MCRole   == [w \in Worker |-> CASE w \in {s1, s3} -> "scheduler"
                                [] w \in {i1, i2} -> "ingress"
                                [] w = c2 -> "cli"]
MCAutomationOf == [t \in Trigger |-> a1]
MCKind         == [t \in Trigger |-> IF t = hook THEN "webhook" ELSE "once"]
MCMaxAttempts  == [a \in Automation |-> 2]

RunSymmetry == Permutations(Run)
=============================================================================
