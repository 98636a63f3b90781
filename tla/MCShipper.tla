----------------------------- MODULE MCShipper -----------------------------
(* Instances of the agent's transport for TLC. *)
EXTENDS Shipper
=============================================================================
