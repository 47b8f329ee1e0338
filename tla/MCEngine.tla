------------------------------ MODULE MCEngine ------------------------------
(* Three updates and one reconnect against a channel of two.               *)
EXTENDS Engine
=============================================================================
