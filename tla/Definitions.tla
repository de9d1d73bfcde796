---------------------------- MODULE Definitions ----------------------------
(***************************************************************************)
(* The rows of the tables `automations` and `triggers` (store.py) as far   *)
(* as scheduling tells them apart, the operator mutations of a definition, *)
(* and the fence every run is held against.                                *)
(*                                                                         *)
(* An automation row is [state, version].  A trigger row is                *)
(* [state, version]; whether it is armed (next_run_at is set) follows from *)
(* its state here and is a field of its own in module Occurrences.         *)
(***************************************************************************)
EXTENDS Naturals

AutomationStates == {"active", "paused", "archived"}
TriggerStates    == {"active", "paused", "archived", "completed"}

\* Kinds of trigger: those next_run_at fires and those an event fires.
TimedKinds   == {"once", "interval"}
IngressKinds == {"webhook"}

SourceKinds == {"schedule", "event", "manual"}

\* A fence that forgets the trigger's version: the row pinned at the claim is
\* then delivered under whatever the trigger says now.
FenceIgnoringTriggerVersion(run, a, t) ==
  /\ a.state = "active"
  /\ \/ t.state \in {"active", "completed"}
     \/ t.state = "paused" /\ run.source = "manual"
  /\ a.version = run.autoVersion

\* _check_definition_fence: the definition a run was claimed under is still
\* the definition in force.
FenceHolds(run, a, t) ==
  /\ a.state = "active"
  /\ \/ t.state \in {"active", "completed"}
     \/ t.state = "paused" /\ run.source = "manual"
  /\ a.version = run.autoVersion
  /\ t.version = run.trigVersion

\* set_automation_state and update_automation_wake: every mutation is a new version.
WithState(x, s) == [state |-> s, version |-> x.version + 1]
WithNewWake(a)  == WithState(a, a.state)

\* update_trigger: an edited trigger that had completed is armed again.
WithNewSpec(t) == WithState(t, IF t.state = "completed" THEN "active" ELSE t.state)
=============================================================================
