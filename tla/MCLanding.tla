------------------------------- MODULE MCLanding -------------------------------
(* Slot paths for the model checker: with and without the status that only *)
(* the slot stream reports.                                                *)
EXTENDS Landing

MCFullPath  == <<"none", "completed", "processed", "confirmed", "finalized">>
MCShortPath == <<"none", "completed", "confirmed", "finalized">>

===============================================================================
