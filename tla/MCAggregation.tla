--------------------------- MODULE MCAggregation ---------------------------
(***************************************************************************)
(* The aggregation path on small instances: all events, no loss of the     *)
(* process and no dead letter, or one event less and either a loss, with   *)
(* no failed publish after it, or one dead letter.  The key of the event   *)
(* that is then not read makes no difference.                              *)
(***************************************************************************)
EXTENDS Aggregation

Buried == {t \in Targets : buried[t] # {}}

OneLess == position < MaxEvents /\ position' < MaxEvents /\ raw[MaxEvents][2] = 0

Small ==
    /\ crashes' > 0 \/ buried' # buried \/ Buried # {} => OneLess
    /\ crashes > 0 => faults' = faults /\ buried' = buried
    /\ Buried # {} => crashes' = 0 /\ buried' = buried

(***************************************************************************)
(* The emit ticker, the publish pass and the stores' groups are goroutines *)
(* that keep running; the clock passes every window, so every open window  *)
(* is selected sooner or later (EmitAll).                                  *)
(***************************************************************************)
SmallSpec ==
    /\ Init /\ [][Next /\ Small]_vars
    /\ WF_vars(EmitAll) /\ WF_vars(Publish) /\ WF_vars(Commit) /\ WF_vars(Apply)

=============================================================================
