----------------------------- MODULE Ingestion ------------------------------
(***************************************************************************)
(* A topic from end to end.  The topic of batches is fed by the ingest     *)
(* process, whose handlers publish through one producer and count through  *)
(* one asynchronous recorder, and consumed by the aggregation of           *)
(* mcp-server; the topics of windows and of commands are fed by            *)
(* mcp-server, here by anybody.  The two processes read their wire format  *)
(* from flags of their own.                                                *)
(***************************************************************************)
EXTENDS Integers, Sequences, FiniteSets

CONSTANTS Limit, Garbled, Replaced, Now, Pod
CONSTANTS Messages, Poison, MaxAttempts, MaxRecords, MaxFaults, MaxOutages, MaxRestarts
CONSTANTS Requests, Inputs, Buffer

VARIABLES topic, formats, log, sent, committed, stage, last, at, attempt, failure, closed,
          cancelled, up, dead, given, budget
VARIABLES run, posted, handler, batch, status
VARIABLES calling, samples, shut, drain, recorded, dropped, raced

Kafka == INSTANCE KafkaBus
Server == INSTANCE IngestServer
Metrics == INSTANCE AsyncMetrics WITH Callers <- Requests

kafka == <<topic, formats, log, sent, committed, stage, last, at, attempt, failure, closed,
           cancelled, up, dead, given, budget>>
consuming == <<topic, formats, committed, stage, last, at, attempt, failure, closed,
               cancelled, up, dead, given>>
server == <<run, posted, handler, batch, status>>
metrics == <<calling, samples, shut, drain, recorded, dropped, raced>>
vars == <<kafka, server, metrics>>

Init == Kafka!Init /\ Server!Init /\ Metrics!Init

-----------------------------------------------------------------------------
(* A handler, using the producer and the recorder.                          *)
Ingest(r) == \E in \in Inputs : Server!Ingest(r, in) /\ UNCHANGED <<kafka, metrics>>

PublishSucceeds(r) ==
  /\ Server!Open /\ Server!Accepted(r)
  /\ Kafka!Send(batch[r])
  /\ UNCHANGED <<consuming, budget, metrics>>

\* The batch cannot be encoded, the producer was closed under the handler, or Kafka
\* does not answer, perhaps having taken the record.
PublishFails(r) ==
  /\ Server!Rejected(r)
  /\ \/ /\ Kafka!Encode(batch[r]) = Kafka!Unreadable \/ ~Server!Open
        /\ UNCHANGED budget
     \/ Kafka!Spend("faults", MaxFaults)
  /\ Kafka!Send(batch[r]) \/ UNCHANGED <<log, sent>>
  /\ UNCHANGED <<consuming, metrics>>

Count(r) ==
  /\ handler[r] = "count" /\ run # "exited"
  /\ \/ Metrics!Check(r) /\ IF shut THEN Server!Counted(r) ELSE UNCHANGED server
     \/ Metrics!Offer(r) /\ Server!Counted(r)
  /\ UNCHANGED kafka

Answer(r) == Server!Answer(r) /\ UNCHANGED <<kafka, metrics>>

Handler(r) == Ingest(r) \/ PublishSucceeds(r) \/ PublishFails(r) \/ Count(r) \/ Answer(r)

\* run, after the signal.
Shutdown ==
  /\ \/ Server!ReleaseProducer /\ UNCHANGED metrics
     \/ Server!ReleaseMetrics /\ Metrics!Close
     \/ Metrics!Closed /\ Server!Exit /\ UNCHANGED metrics
  /\ UNCHANGED kafka

Signal == Server!Signal /\ UNCHANGED <<kafka, metrics>>

Draining == (Metrics!Drain \/ Metrics!Empty) /\ UNCHANGED <<kafka, server>>

\* The stage that consumes reads nothing of ingest but the records, so it is enough
\* that it runs beside a producer, and meets outages, restarts and its own end, on the
\* topics anybody may feed; batches it consumes once ingest has exited.
Next ==
  \/ /\ topic = "batches"
     /\ \/ \E r \in Requests : Handler(r)
        \/ Signal \/ Shutdown \/ Draining
        \/ run = "exited" /\ Kafka!Stage /\ UNCHANGED <<budget, server, metrics>>
  \/ /\ topic # "batches"
     /\ \/ \E m \in Messages[topic] : Kafka!Publish(m)
        \/ Kafka!Next
     /\ UNCHANGED <<server, metrics>>

Spec == Init /\ [][Next]_vars

\* A stage that has something to do does it, and once it is told to end its poll
\* returns.
FairSpec ==
  /\ Spec
  /\ WF_kafka(Kafka!Poll) /\ WF_kafka(Kafka!DeliverSucceeds \/ Kafka!DeliverFails)
  /\ WF_kafka(Kafka!Bury \/ Kafka!BuryFails) /\ WF_kafka(Kafka!Commit \/ Kafka!CommitFails)
  /\ WF_kafka(Kafka!PollEnds /\ (closed \/ cancelled))

-----------------------------------------------------------------------------
\* poll, deliver, sendToDeadLetter: the stage passes over no record, and commits none
\* that was neither handled nor dead-lettered.
ImplementsRecordLog == Kafka!ImplementsRecordLog

\* The codecs: a handler is given exactly the message that was published, or nothing.
HandedIsSent == Kafka!HandedIsSent

\* deliver: a record that can never be handled does not hold up the ones behind it.
RecordsSettle == Kafka!RecordsSettle

\* docs/availability.md:51, "the persister catches up once the database returns".
OutagesAreWaitedOut == Kafka!OutagesAreWaitedOut

\* Increment, drain and Close: a sample is forwarded or counted as dropped, unless its
\* Increment overlapped Close.
SamplesAccounted == Metrics!SamplesAccounted

\* Server.ingest, Accept and send: there is a record of its own for every batch that
\* was answered 202, also when the producer is closed under its handler.
AckedIsPublished ==
  \A b \in {batch[r] : r \in Requests} :
    Cardinality({r \in Requests : batch[r] = b /\ status[r] = 202})
      <= Cardinality({i \in DOMAIN sent : sent[i] = b})

\* The event as the agent saw it; ingest replaces only a time before 1970.
Agrees(e, seen) ==
  /\ e.user = seen.user /\ e.kind = seen.kind /\ e.rest = seen.rest
  /\ e.observed = seen.observed \/ (seen.observed <= 0 /\ e.observed = Now)

\* EncodeEdgeBatch, toBatch and the topic's codec: a batch that the aggregation is
\* given is one that its device posted, event for event.
HandledIsPosted ==
  topic = "batches" =>
    \A p \in given : \E r \in Requests :
      LET b == p[2]  in == posted[r]
      IN /\ Server!Worthy(in) /\ b.device = in.source.device
         /\ DOMAIN b.events = DOMAIN in.source.events
         /\ \A i \in DOMAIN b.events :
              b.events[i].device = b.device /\ Agrees(b.events[i], in.source.events[i])

\* ingest and Accept: what an agent may post is refused only when Kafka failed or the
\* process was on its way out.
RefusedForCause ==
  \A r \in Requests :
    (Server!Worthy(posted[r]) /\ status[r] \notin {0, 202}) =>
       budget.faults > 0 \/ ~Server!Open

=============================================================================
