--------------------------- MODULE MCSubmitService ---------------------------
(* One connection and one proof run at one agent that goes away once; the  *)
(* provider returns every combination of fields that the checks tell apart.*)
EXTENDS SubmitService

ProviderOutputs ==
  {[ok |-> FALSE, after |-> {}]} \cup
  {[ok |-> TRUE, after |-> a] : a \in {{"tip"}, {"tip", "refresh", "hold"}}}

\* A window that ends at once, and one that ends past the cap.
LeaderSchedules == {<<"v1", "v2">>, <<"v1", "v1", "v1", "v2">>}
=============================================================================
