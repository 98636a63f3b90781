----------------------------- MODULE MCRuntime ------------------------------
(* An instance of the pipeline's life for TLC. *)
EXTENDS Runtime
=============================================================================
