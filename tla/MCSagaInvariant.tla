--------------------------- MODULE MCSagaInvariant ---------------------------
(***************************************************************************)
(* The instances of MCSaga whose attempts are all distinct transactions,   *)
(* with the inductive invariant to check.                                  *)
(***************************************************************************)
EXTENDS MCSaga, SagaInvariant
===============================================================================
