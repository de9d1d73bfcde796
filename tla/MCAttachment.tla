---------------------------- MODULE MCAttachment ----------------------------
(***************************************************************************)
(* Small instances of Attachment: two commands at the same time, and one   *)
(* command after another among mishaps, in one OS tree.                    *)
(***************************************************************************)
EXTENDS Attachment, TLC

CONSTANTS p, q, os1, os2, none, gateway

CommandSymmetry == Permutations(Proc)
=============================================================================
