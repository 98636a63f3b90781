------------------------------ MODULE Batcher ------------------------------
(***************************************************************************)
(* The agent's event pipeline (internal/pipeline: batcher.go, overflow.go, *)
(* sender.go).  One goroutine collects events into batches and puts them   *)
(* on a bounded channel; the sender takes them off and calls the           *)
(* transport.  A full channel is handled by the overflow policy, whose     *)
(* channel operations interleave with the sender's receives.               *)
(*                                                                         *)
(* Run returns when the source closes or the context is cancelled, after   *)
(* the sender has emptied the channel; a grace timer then cancels a send   *)
(* that hangs.                                                             *)
(***************************************************************************)
EXTENDS Integers, SequencesExt

CONSTANTS
  Policies,   \* the overflow policies considered
  MaxEvents,  \* config.MaxEvents: events in a full batch
  QueueDepth, \* config.QueueDepth
  Produced,   \* bound: the source produces events 1..Produced
  Invalid     \* the events that accept() rejects

VARIABLES
  policy,    \* config.Overflow, chosen by NewBatcher
  read,      \* events read from the source so far
  closed,    \* the source has closed its channel
  cancelled, \* the context of Run is cancelled
  pending,   \* events collected for the next batch
  collector, \* where collect stands: "select", inside Enqueue, or "done"
  batch,     \* the batch that flush is enqueueing
  next,      \* where collect goes on after that flush
  queue,     \* the channel; closed once collector = "done"
  sender,    \* the sender goroutine: "receive", "send" or "done"
  hand,      \* the batch it has received
  grace,     \* has the shutdown grace expired?
  handed,    \* history: events whose Send has returned, in order
  dropped    \* history: events counted in EventsDropped

vars == <<policy, read, closed, cancelled, pending, collector, batch, next, queue, sender,
          hand, grace, handed, dropped>>
sending == <<sender, hand, grace, handed>>

-----------------------------------------------------------------------------
Init ==
  /\ policy \in Policies
  /\ read = 0 /\ closed = FALSE /\ cancelled = FALSE
  /\ pending = <<>> /\ collector = "select" /\ batch = <<>> /\ next = "select"
  /\ queue = <<>>
  /\ sender = "receive" /\ hand = <<>> /\ grace = FALSE
  /\ handed = <<>> /\ dropped = {}

SourceCloses ==
  /\ ~closed /\ closed' = TRUE
  /\ UNCHANGED <<policy, read, cancelled, pending, collector, batch, next, queue, sending, dropped>>

Cancel ==
  /\ ~cancelled /\ cancelled' = TRUE
  /\ UNCHANGED <<policy, read, closed, pending, collector, batch, next, queue, sending, dropped>>

-----------------------------------------------------------------------------
\* flush: hand the events to the overflow strategy and go on at pc.
Flush(events, pc) ==
  /\ pending' = <<>>
  /\ next' = pc
  /\ IF events = <<>> THEN collector' = pc /\ UNCHANGED batch
     ELSE collector' = "offer" /\ batch' = events

Full(events) == Len(events) >= MaxEvents

\* The four cases of collect's select; any one that is ready may be taken.
CollectEvent ==
  /\ collector = "select" /\ ~closed /\ read < Produced
  /\ read' = read + 1
  /\ LET events == Append(pending, read + 1)
     IN IF read + 1 \in Invalid THEN UNCHANGED <<pending, collector, batch, next>>
        ELSE IF Full(events) THEN Flush(events, "select")
        ELSE pending' = events /\ UNCHANGED <<collector, batch, next>>
  /\ UNCHANGED <<policy, closed, cancelled, queue, sending, dropped>>

CollectTick ==
  /\ collector = "select" /\ pending # <<>>
  /\ Flush(pending, "select")
  /\ UNCHANGED <<policy, read, closed, cancelled, queue, sending, dropped>>

CollectEnds ==
  /\ collector = "select" /\ (closed \/ cancelled)
  /\ Flush(pending, "done")
  /\ UNCHANGED <<policy, read, closed, cancelled, queue, sending, dropped>>

-----------------------------------------------------------------------------
\* The overflow strategies.  Each select on the channel is one step.
HasRoom == Len(queue) < QueueDepth

Put ==
  /\ queue' = Append(queue, batch)
  /\ collector' = next
  /\ UNCHANGED dropped

GiveUp ==
  /\ dropped' = dropped \cup Range(batch)
  /\ collector' = next
  /\ UNCHANGED queue

\* blocking waits for room or for the context, and takes either when both are
\* there.
BlockGivesUp == policy = "block" /\ cancelled /\ GiveUp

Offer ==
  /\ collector = "offer"
  /\ \/ HasRoom /\ Put
     \/ policy = "newest" /\ ~HasRoom /\ GiveUp
     \/ BlockGivesUp
     \/ policy = "oldest" /\ ~HasRoom /\ collector' = "evict" /\ UNCHANGED <<queue, dropped>>
  /\ UNCHANGED <<policy, read, closed, cancelled, pending, batch, next, sending>>

\* Mutants: the evicted batch is not counted; the new batch is dropped.
EvictSilently ==
  /\ collector = "evict"
  /\ IF queue # <<>>
     THEN queue' = Tail(queue) /\ collector' = "reoffer" /\ UNCHANGED dropped
     ELSE GiveUp
  /\ UNCHANGED <<policy, read, closed, cancelled, pending, batch, next, sending>>
EvictNothing ==
  /\ collector = "evict" /\ GiveUp
  /\ UNCHANGED <<policy, read, closed, cancelled, pending, batch, next, sending>>

\* dropOldest receives the oldest batch itself, unless the sender has emptied
\* the channel since: then it is the new batch that is dropped.
Evict ==
  /\ collector = "evict"
  /\ IF queue # <<>>
     THEN /\ dropped' = dropped \cup Range(Head(queue))
          /\ queue' = Tail(queue)
          /\ collector' = "reoffer"
     ELSE GiveUp
  /\ UNCHANGED <<policy, read, closed, cancelled, pending, batch, next, sending>>

Reoffer ==
  /\ collector = "reoffer"
  /\ IF HasRoom THEN Put ELSE GiveUp
  /\ UNCHANGED <<policy, read, closed, cancelled, pending, batch, next, sending>>

-----------------------------------------------------------------------------
SenderReceives ==
  /\ sender = "receive"
  /\ IF queue # <<>>
     THEN hand' = Head(queue) /\ queue' = Tail(queue) /\ sender' = "send"
     ELSE collector = "done" /\ sender' = "done" /\ UNCHANGED <<hand, queue>>
  /\ UNCHANGED <<policy, read, closed, cancelled, pending, collector, batch, next, grace, handed, dropped>>

\* Send returns, with or without an error; it may take for ever ...
SendReturns ==
  /\ sender = "send"
  /\ handed' = handed \o hand
  /\ hand' = <<>>
  /\ sender' = "receive"
  /\ UNCHANGED <<policy, read, closed, cancelled, pending, collector, batch, next, queue, grace, dropped>>

\* ... but not once the grace timer has cancelled its context.
GraceExpires ==
  /\ collector = "done" /\ ~grace
  /\ grace' = TRUE
  /\ UNCHANGED <<policy, read, closed, cancelled, pending, collector, batch, next, queue, sender,
                 hand, handed, dropped>>

Collect == CollectEvent \/ CollectTick \/ CollectEnds \/ Offer \/ Evict \/ Reoffer

Next == SourceCloses \/ Cancel \/ Collect \/ SenderReceives \/ SendReturns \/ GraceExpires

Spec == Init /\ [][Next]_vars

-----------------------------------------------------------------------------
Returned == collector = "done" /\ sender = "done"
Accepted == (1..read) \ Invalid
Queued == UNION {Range(queue[i]) : i \in DOMAIN queue}
Flushing == IF collector \in {"offer", "evict", "reoffer"} THEN batch ELSE <<>>

\* Every event that accept() counted is sent, with the sender, on the channel, being
\* flushed, collected, or counted as dropped, in exactly one place, and they stay in
\* the order in which they were captured, in whatever way the overflow policy and the
\* sender race for the channel.  When Run has returned, only sent and dropped ones
\* are left.
EveryEventAccounted ==
  LET places == <<handed, hand>> \o queue \o <<Flushing, pending>>
      kept == UNION {Range(places[i]) : i \in DOMAIN places}
  IN /\ kept \cup dropped = Accepted /\ kept \cap dropped = {}
     /\ \A i \in DOMAIN places :
          /\ \A k \in 2..Len(places[i]) : places[i][k - 1] < places[i][k]
          /\ \A j \in 1..i - 1 : \A d \in Range(places[j]), e \in Range(places[i]) : d < e
     /\ Returned => kept = Range(handed)

\* The policy that drops the oldest never drops an event while an older one
\* stays on the channel.
OldestAreDropped ==
  [][policy = "oldest" =>
       \A e \in dropped' \ dropped : \A q \in Queued' : e < q]_vars

=============================================================================
