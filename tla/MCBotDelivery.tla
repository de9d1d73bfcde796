---------------------------- MODULE MCBotDelivery ----------------------------
(***************************************************************************)
(* A small instance of BotDelivery: one run, two attempts, and a setup     *)
(* that moves from one OS tree to the other and back.                      *)
(***************************************************************************)
EXTENDS BotDelivery

CONSTANTS r1, os1, os2
=============================================================================
