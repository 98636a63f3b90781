------------------------------ MODULE Shipper ------------------------------
(***************************************************************************)
(* How a batch leaves the agent (internal/transport/https.go): Send posts  *)
(* it, and spools it when the post fails for now; Drain, a second          *)
(* goroutine, posts what is spooled and releases it.  On the other side    *)
(* are the edge, which may shed load or lose a message, and the ingest     *)
(* handler (internal/httpingest, internal/ingest) that publishes to Kafka. *)
(*                                                                         *)
(* The spool is the first-in first-out queue that module Spool is shown to *)
(* implement; batches are of one size and the budget is counted in them.   *)
(***************************************************************************)
EXTENDS Integers, FiniteSets, SequencesExt

CONSTANTS
  MaxBatches,  \* bound: batches handed to Send, numbered 1..MaxBatches
  Malformed,   \* the batches that ingest refuses whenever it sees them
  Capacity,    \* batches that fit the spool's budget
  MaxFaults,   \* bound: lost requests and answers, shed load, disk errors
  MaxRestarts  \* bound: restarts of the agent

ASSUME ShipperAssumption ==
  /\ MaxBatches \in Nat /\ Capacity \in Nat \ {0}
  /\ MaxFaults \in Nat /\ MaxRestarts \in Nat
  /\ Malformed \subseteq 1..MaxBatches

VARIABLES
  made,      \* batches handed to Send so far
  send,      \* where Send stands: "idle", "post" or "enqueue"
  spool,     \* the spooled batches, oldest first
  drain,     \* where Drain stands: "peek", "post" or "release"
  held,      \* the batch Drain has peeked
  kafka,     \* can the ingest service publish?
  published, \* history: how often each batch was published to Kafka
  returned,  \* history: what Send returned for each batch
  dropped,   \* history: batches evicted from the spool and counted
  refused,   \* history: batches Drain released as unacceptable
  misjudged, \* history: acceptable batches answered 400 for want of Kafka
  faults, restarts

vars == <<made, send, spool, drain, held, kafka, published, returned, dropped, refused,
          misjudged, faults, restarts>>
sender == <<made, send, returned>>
drainer == <<drain, held, refused>>
edge == <<kafka, published, misjudged>>

Batches == 1..MaxBatches

-----------------------------------------------------------------------------
\* The ingest handler: a malformed batch is a 400, and so is every error of
\* Accept that is not a device mismatch, a failed publish among them.  A
\* publish that fails may still have been written by the brokers.
Ingest(b) ==
  IF b \in Malformed THEN [status: {400}, publish: {FALSE}]
  ELSE IF kafka THEN [status: {202}, publish: {TRUE}]
  ELSE [status: {400}, publish: BOOLEAN]

\* What can go wrong on the way: the edge sheds the request with a 503 or a
\* 429, the request is lost, or the answer is.  No answer is status 0.
Faulty(b) ==
  [status: {0, 429, 503}, publish: {FALSE}]
    \cup [status: {0}, publish: {answer.publish : answer \in Ingest(b)}]

\* post: one exchange with the edge, seen from the agent.
Post(b, status) ==
  /\ \E answer \in Ingest(b) \cup Faulty(b) :
       /\ status = answer.status
       /\ published' = IF answer.publish THEN [published EXCEPT ![b] = @ + 1] ELSE published
       /\ misjudged' = IF status = 400 /\ b \notin Malformed THEN misjudged \cup {b} ELSE misjudged
       /\ IF answer \in Ingest(b) THEN UNCHANGED faults
          ELSE faults < MaxFaults /\ faults' = faults + 1
  /\ UNCHANGED <<kafka, restarts>>

Statuses == {0, 202, 400, 429, 503}

\* Mutants: shed load counts as a refusal; nothing does.
RefusedWhenShed(status) == status \in 400..499 \ {408}
NeverRefused(status) == FALSE

Succeeded(status) == status \in 200..299
PermanentlyRefused(status) == status \in 400..499 \ {408, 429}

-----------------------------------------------------------------------------
Init ==
  /\ made = 0 /\ send = "idle" /\ spool = <<>>
  /\ drain = "peek" /\ held = 0
  /\ kafka = TRUE
  /\ published = [b \in Batches |-> 0]
  /\ returned = [b \in Batches |-> "none"]
  /\ dropped = {} /\ refused = {} /\ misjudged = {}
  /\ faults = 0 /\ restarts = 0

\* The batcher's sender calls Send for one batch after another.
SendCall ==
  /\ send = "idle" /\ made < MaxBatches
  /\ made' = made + 1
  /\ send' = "post"
  /\ UNCHANGED <<spool, drainer, edge, returned, dropped, faults, restarts>>

Return(result) ==
  /\ send' = "idle"
  /\ returned' = [returned EXCEPT ![made] = result]

SendPost ==
  /\ send = "post"
  /\ \E status \in Statuses :
       /\ Post(made, status)
       /\ IF Succeeded(status) THEN Return("nil")
          ELSE IF PermanentlyRefused(status) THEN Return("refused")
          ELSE send' = "enqueue" /\ UNCHANGED returned
  /\ UNCHANGED <<made, spool, drainer, dropped>>

\* Enqueue evicts the oldest entries until the batch fits, then stores it.
Kept == IF Len(spool) < Capacity THEN spool ELSE Tail(spool)

SendEnqueue ==
  /\ send = "enqueue"
  /\ spool' = Append(Kept, made)
  /\ dropped' = dropped \cup (Range(spool) \ Range(Kept))
  /\ \/ Return("nil") /\ UNCHANGED faults
     \/ Return("error") /\ faults < MaxFaults /\ faults' = faults + 1   \* directory not synced
  /\ UNCHANGED <<made, drainer, edge, restarts>>

\* Enqueue fails before the entry is renamed into place: for want of index room
\* (ErrTooMany) or on a disk error, after the oldest entries were evicted or before.
SendEnqueueFails ==
  /\ send = "enqueue" /\ faults < MaxFaults
  /\ faults' = faults + 1
  /\ spool' \in {spool, Kept}
  /\ dropped' = dropped \cup (Range(spool) \ Range(spool'))
  /\ Return("error")
  /\ UNCHANGED <<made, drainer, edge, restarts>>

-----------------------------------------------------------------------------
\* Drain: the peeked batch is posted without a lock, and Enqueue may evict it
\* before it is released.
DrainPeek ==
  /\ drain = "peek" /\ spool # <<>>
  /\ held' = Head(spool)
  /\ drain' = "post"
  /\ UNCHANGED <<sender, spool, edge, dropped, refused, faults, restarts>>

\* Mutant: a batch that was accepted is not released.
AfterRefusal(status) == IF PermanentlyRefused(status) THEN "release" ELSE "peek"

AfterPost(status) ==
  IF Succeeded(status) \/ PermanentlyRefused(status) THEN "release" ELSE "peek"

DrainPost ==
  /\ drain = "post"
  /\ \E status \in Statuses :
       /\ Post(held, status)
       /\ drain' = AfterPost(status)
       /\ refused' = IF PermanentlyRefused(status) THEN refused \cup {held} ELSE refused
  /\ UNCHANGED <<sender, spool, held, dropped>>

\* release: an entry that is gone already is no error; one that cannot be
\* removed is only counted, and is peeked again.
DrainRelease ==
  /\ drain = "release"
  /\ drain' = "peek"
  /\ \/ spool' = SelectSeq(spool, LAMBDA b : b # held) /\ UNCHANGED faults
     \/ faults < MaxFaults /\ faults' = faults + 1 /\ UNCHANGED spool
  /\ UNCHANGED <<sender, held, edge, dropped, refused, restarts>>

-----------------------------------------------------------------------------
\* The agent is stopped and started again: what Send had in hand is lost, and
\* the spool is what the directory holds.
Restart ==
  /\ restarts < MaxRestarts /\ restarts' = restarts + 1
  /\ send' = "idle" /\ drain' = "peek" /\ held' = 0
  /\ UNCHANGED <<made, spool, edge, returned, dropped, refused, faults>>

KafkaChanges ==
  /\ kafka' = ~kafka
  /\ UNCHANGED <<sender, spool, drainer, published, misjudged, dropped, faults, restarts>>

Send == SendCall \/ SendPost \/ SendEnqueue \/ SendEnqueueFails
Drain == DrainPeek \/ DrainPost \/ DrainRelease

Next == Send \/ Drain \/ Restart \/ KafkaChanges

Spec == Init /\ [][Next]_vars

\* Both goroutines are scheduled for as long as they can run.
Fairness == WF_vars(Drain) /\ WF_vars(SendPost \/ SendEnqueue \/ SendEnqueueFails)
FairSpec == Spec /\ Fairness

-----------------------------------------------------------------------------
\* Where a batch that Send did not report as failed must be: published, still
\* spooled, or counted as dropped from a full spool.
Forgotten(b) ==
  /\ returned[b] \in {"nil", "refused"}
  /\ published[b] = 0 /\ b \notin Range(spool) /\ b \notin dropped

\* No shed load, lost answer, eviction during a drain, failed release or
\* restart makes the agent forget a batch that ingest would accept; only an
\* outage of Kafka that ingest answers with a 400 does.
OnlyOutagesForget == \A b \in Batches \ (Malformed \cup misjudged) : ~Forgotten(b)

\* The agent forgets no batch that ingest would accept, outages included
\* (docs/availability.md: "an agent never believes a dropped batch succeeded").
NoBatchForgotten == \A b \in Batches \ Malformed : ~Forgotten(b)

\* A batch is published twice only after a fault: a lost answer, a release
\* that failed, or a restart between the post and the release.
DuplicatesNeedFaults ==
  SumFunctionOnSet(published, {b \in Batches : published[b] > 0})
    <= Cardinality({b \in Batches : published[b] > 0}) + faults + restarts

\* Every spooled batch leaves the spool, behind a malformed one too: the head
\* of the queue never stalls the drain once faults have stopped.
SpoolDrains == \A b \in Batches : b \in Range(spool) ~> b \notin Range(spool)

=============================================================================
