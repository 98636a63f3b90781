----------------------------- MODULE RecordLog ------------------------------
(***************************************************************************)
(* What a topic and its consumer group promise: records are only added, at *)
(* the end; they are settled in order, with no record passed over; and an  *)
(* offset is committed once everything up to it is settled.  A crash is a  *)
(* stuttering step.                                                        *)
(***************************************************************************)
EXTENDS Integers, Sequences

VARIABLES
  log,      \* the records of the partition
  committed,\* the group's offset: the records it will not be given again
  settled   \* offsets of records that were handled or dead-lettered

Init == log = <<>> /\ committed = 0 /\ settled = {}

Append1 ==
  /\ Len(log') = Len(log) + 1 /\ SubSeq(log', 1, Len(log)) = log
  /\ UNCHANGED <<committed, settled>>

Settle(offset) ==
  /\ 1..offset - 1 \subseteq settled
  /\ settled' = settled \cup {offset}
  /\ UNCHANGED <<log, committed>>

Commit(offset) ==
  /\ offset > committed /\ 1..offset \subseteq settled
  /\ committed' = offset
  /\ UNCHANGED <<log, settled>>

Next == Append1 \/ \E offset \in DOMAIN log : Settle(offset) \/ Commit(offset)

Spec == Init /\ [][Next]_<<log, committed, settled>>

=============================================================================
