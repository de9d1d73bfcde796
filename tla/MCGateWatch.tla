---------------------------- MODULE MCGateWatch -----------------------------
(***************************************************************************)
(* The instances of MCRunLifecycle, watched.                               *)
(***************************************************************************)
EXTENDS GateWatch, MCRunLifecycle
=============================================================================
