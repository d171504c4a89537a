------------------------- MODULE MCServiceContainer -------------------------
(* Two requests race the eager start of the service and its shutdown. *)
EXTENDS ServiceContainer
=============================================================================
