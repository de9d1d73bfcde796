------------------------------ MODULE MCIngress -----------------------------
(***************************************************************************)
(* A small instance of Ingress: a sender whose clock is as far ahead of    *)
(* the server's as the window allows.                                      *)
(***************************************************************************)
EXTENDS Ingress, TLC

CONSTANTS e1, w1, w2, r1, r2

MCAhead == {-1}
=============================================================================
