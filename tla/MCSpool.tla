------------------------------ MODULE MCSpool ------------------------------
(* The agent's disk queue for TLC, with one offer less on a harsh disk. *)
EXTENDS Spool

SmallSpec == Init /\ [][Next /\ (harsh => offers' < MaxOffers)]_vars

=============================================================================
