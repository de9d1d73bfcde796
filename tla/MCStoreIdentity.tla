--------------------------- MODULE MCStoreIdentity ---------------------------
(***************************************************************************)
(* A small instance of StoreIdentity.  Two tables and an index stand for   *)
(* the six tables and four indexes of SCHEMA: one that meta is, one that   *)
(* the v1 migration alters, one that is neither.                           *)
(***************************************************************************)
EXTENDS StoreIdentity

CONSTANTS p, q

SmallScript == <<"meta", "runs", "idx_runs_retry">>
=============================================================================
