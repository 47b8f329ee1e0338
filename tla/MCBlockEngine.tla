---------------------------- MODULE MCBlockEngine ----------------------------
(* Two callers, one of them a saga that sends, and three regions of which  *)
(* a call may ask two.                                                     *)
EXTENDS BlockEngineClient
=============================================================================
