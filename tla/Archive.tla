------------------------------ MODULE Archive -------------------------------
(***************************************************************************)
(* The archive of one device in Postgres (internal/postgresstore): a table *)
(* partitioned by day with a default partition for days that have none,    *)
(* created ahead by Migrate and dropped by retention.  A day is a window.  *)
(***************************************************************************)
EXTENDS Integers, FiniteSetsExt

CONSTANTS
  Emissions, \* the windows on the topic: [window, sequence, count, p99]
  Days       \* the days for which partitions may exist

VARIABLES
  rows,       \* the rows of the table
  inDefault,  \* those that lie in the default partition
  partitions, \* the days that have a partition of their own
  doomed,     \* partitions that a pass of DropPartitionsBefore has still to drop
  cutoff,     \* history: the latest cutoff that retention was given
  archived    \* history: what ApplyWindow has stored

vars == <<rows, inDefault, partitions, doomed, cutoff, archived>>

Day(e) == e.window
RowsOf(d) == {e \in rows : Day(e) = d}

Init ==
  /\ rows = {} /\ inDefault = {} /\ doomed = {} /\ archived = {}
  /\ partitions = {}
  /\ cutoff = 0

\* INSERT ... ON CONFLICT DO NOTHING; a row goes to its day's partition if there
\* is one.
ApplyWindow(e) ==
  /\ e \notin rows
  /\ rows' = rows \cup {e}
  /\ inDefault' = IF Day(e) \in partitions THEN inDefault ELSE inDefault \cup {e}
  /\ archived' = archived \cup {e}
  /\ UNCHANGED <<partitions, doomed, cutoff>>

\* Creating a partition fails while the default one holds rows of that day.
EnsurePartition(d) ==
  /\ d \notin partitions
  /\ RowsOf(d) \cap inDefault = {}
  /\ partitions' = partitions \cup {d}
  /\ UNCHANGED <<rows, inDefault, doomed, cutoff, archived>>

\* Mutant: the rows are cleared from the default partition and not moved.
AdoptWithoutMove(d) ==
  /\ d \notin partitions
  /\ RowsOf(d) \cap inDefault # {}
  /\ partitions' = partitions \cup {d}
  /\ rows' = rows \ RowsOf(d)
  /\ inDefault' = inDefault \ RowsOf(d)
  /\ UNCHANGED <<doomed, cutoff, archived>>

\* Then a transaction detaches the default partition, creates the new one, moves
\* the rows over and attaches the default partition again.
AdoptFromDefaultPartition(d) ==
  /\ d \notin partitions
  /\ RowsOf(d) \cap inDefault # {}
  /\ partitions' = partitions \cup {d}
  /\ inDefault' = inDefault \ RowsOf(d)
  /\ UNCHANGED <<rows, doomed, cutoff, archived>>

\* DropPartitionsBefore lists the partitions once ...
ListPartitionsBefore(c) ==
  /\ doomed = {}
  /\ doomed' = {d \in partitions : d < c}
  /\ cutoff' = IF c > cutoff THEN c ELSE cutoff
  /\ UNCHANGED <<rows, inDefault, partitions, archived>>

\* ... and drops them one at a time; rows in the default partition stay.
DropPartition(d) ==
  /\ d \in doomed
  /\ doomed' = doomed \ {d}
  /\ partitions' = partitions \ {d}
  /\ rows' = rows \ (RowsOf(d) \ inDefault)
  /\ UNCHANGED <<inDefault, cutoff, archived>>

\* A failed statement ends the pass.
DropFails ==
  /\ doomed # {}
  /\ doomed' = {}
  /\ UNCHANGED <<rows, inDefault, partitions, cutoff, archived>>

Next ==
  \/ \E e \in Emissions : ApplyWindow(e)
  \/ \E d \in Days : EnsurePartition(d) \/ AdoptFromDefaultPartition(d)
  \/ \E c \in Days : ListPartitionsBefore(c)
  \/ \E d \in Days : DropPartition(d)
  \/ DropFails

-----------------------------------------------------------------------------
(* DeviceState.                                                             *)
Found == rows # {}
Count == MapThenSumSet(LAMBDA e : e.count, rows)
LastWindow == Max({e.window : e \in rows} \cup {0})

Newest == {e \in rows : e.window = LastWindow}

\* Mutant: ORDER BY sequence alone.
LatestBySequence == CHOOSE e \in Newest : \A f \in Newest : f.sequence <= e.sequence

\* ORDER BY event_count DESC, sequence DESC LIMIT 1.
Latest ==
  CHOOSE e \in Newest :
     \A f \in Newest : f.count < e.count \/ (f.count = e.count /\ f.sequence <= e.sequence)

-----------------------------------------------------------------------------
\* What ApplyWindow has stored stays in the table, wherever partitions are created,
\* adopt rows and are dropped meanwhile, until retention was told to drop its day.
\* A row is never in the default partition once its day has a partition of its own,
\* where a redelivery would not find it.
ArchivedIsKept ==
  /\ \A e \in archived : e \in rows \/ Day(e) < cutoff
  /\ \A e \in inDefault : Day(e) \notin partitions
=============================================================================
