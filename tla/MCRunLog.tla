------------------------------- MODULE MCRunLog -------------------------------
(* The instances of MCSaga with the record of the run and its live view.   *)
EXTENDS MCSaga, LiveView
===============================================================================
