---------------------------- MODULE DurableQueue ----------------------------
(***************************************************************************)
(* What the spool promises its callers: a first-in first-out queue of      *)
(* payloads that nothing but Put and Take changes.  A crash is not an      *)
(* action here: to the queue it is a stuttering step.                      *)
(***************************************************************************)
EXTENDS Integers, Sequences

CONSTANT Ids   \* payloads, numbered in the order in which they are offered

VARIABLE queue

Init == queue = <<>>

\* Only a payload newer than everything queued is added, and at the tail.
Put(id) ==
  /\ \A i \in DOMAIN queue : queue[i] < id
  /\ queue' = Append(queue, id)

\* Only the oldest payload leaves, delivered or dropped.
Take == queue # <<>> /\ queue' = Tail(queue)

Next == Take \/ \E id \in Ids : Put(id)

Spec == Init /\ [][Next]_queue

=============================================================================
