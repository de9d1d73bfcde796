---------------------------- MODULE ConfigRegister ----------------------------
(***************************************************************************)
(* What the commands take component.json for: a register with a value that *)
(* is there whole or not at all, replaced as one, and read as one.         *)
(***************************************************************************)
CONSTANTS Value, Reader, Absent

VARIABLES
  value,  \* of the register, Absent before the first save
  held    \* what each reader has fetched

vars == <<value, held>>

Init == value = Absent /\ held = [r \in Reader |-> Absent]

Save(v) == value' = v /\ UNCHANGED held

Fetch(r) == held' = [held EXCEPT ![r] = value] /\ UNCHANGED value

Drop(r) == held' = [held EXCEPT ![r] = Absent] /\ UNCHANGED value

Next == (\E v \in Value : Save(v)) \/ (\E r \in Reader : Fetch(r) \/ Drop(r))

Spec == Init /\ [][Next]_vars
=============================================================================
