------------------------------- MODULE MCBus -------------------------------
(* Instances of the in-process bus for TLC. *)
EXTENDS Bus
=============================================================================
