---------------------------- MODULE WakeContract ----------------------------
(***************************************************************************)
(* What Automations promises of a run to the owner of its wake and to the  *)
(* operator (README "Recovery", ARCHITECTURE "Restart and uncertain        *)
(* delivery"), with no threads, no rows and no database:                   *)
(*                                                                         *)
(*  - a wake is sent while its run is open, at most Limit times;           *)
(*  - a run whose process is lost is uncertain from that moment, and the   *)
(*    confirmed word of the operator alone opens it again;                 *)
(*  - a run that stopped is opened again on the operator's word;           *)
(*  - done and canceled are final.                                         *)
(***************************************************************************)
EXTENDS Naturals

CONSTANTS Run, Limit

VARIABLES
  stage,   \* of each run
  sends,   \* wakes sent since the run was opened
  word     \* what the operator has asked for: "none", "retry", "confirmed"

vars == <<stage, sends, word>>

Stages == {"none", "open", "uncertain", "stopped", "done", "canceled"}

\* Every run has a stage, a count of wakes within its limit, and a word.
ContractTypeOK ==
  /\ stage \in [Run -> Stages]
  /\ sends \in [Run -> 0 .. Limit]
  /\ word \in [Run -> {"none", "retry", "confirmed"}]

Init ==
  /\ stage = [r \in Run |-> "none"]
  /\ sends = [r \in Run |-> 0]
  /\ word = [r \in Run |-> "none"]

\* A tick may accept several occurrences at once.
Accept(R) ==
  /\ \A r \in R : stage[r] = "none"
  /\ stage' = [r \in Run |-> IF r \in R THEN "open" ELSE stage[r]]
  /\ UNCHANGED <<sends, word>>

Send(r) ==
  /\ stage[r] = "open" /\ sends[r] < Limit
  /\ sends' = [sends EXCEPT ![r] = @ + 1]
  /\ UNCHANGED <<stage, word>>

Conclude(r, s) ==
  /\ stage[r] = "open"
  /\ stage' = [stage EXCEPT ![r] = s]
  /\ UNCHANGED <<sends, word>>

Ask(r, w) ==
  /\ stage[r] = "stopped" \/ (stage[r] = "uncertain" /\ w = "confirmed")
  /\ word' = [word EXCEPT ![r] = w]
  /\ UNCHANGED <<stage, sends>>

\* The process is lost, with the runs R it had open and the words it had taken.
Lose(R) ==
  /\ \A r \in R : stage[r] = "open"
  /\ stage' = [r \in Run |-> IF r \in R THEN "uncertain" ELSE stage[r]]
  /\ word' \in [Run -> {"none", "retry", "confirmed"}]
  /\ \A r \in Run : word'[r] \in {word[r], "none"}
  /\ UNCHANGED sends

\* Canceled instead when the definition is no longer the one claimed.
Reopen(r) ==
  /\ word[r] # "none"
  /\ word' = [word EXCEPT ![r] = "none"]
  /\ \/ /\ stage[r] = "stopped" \/ (stage[r] = "uncertain" /\ word[r] = "confirmed")
        /\ stage' = [stage EXCEPT ![r] = "open"]
        /\ sends' = [sends EXCEPT ![r] = 0]
     \/ /\ stage[r] \in {"stopped", "uncertain"}
        /\ stage' = [stage EXCEPT ![r] = "canceled"]
        /\ UNCHANGED sends

Next ==
  \/ \E R \in SUBSET Run : Accept(R) \/ Lose(R)
  \/ \E r \in Run : \/ Send(r) \/ Reopen(r)
                    \/ \E s \in {"stopped", "done", "canceled"} : Conclude(r, s)
                    \/ \E w \in {"retry", "confirmed"} : Ask(r, w)

Spec == Init /\ [][Next]_vars
=============================================================================
