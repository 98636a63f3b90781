------------------------------ MODULE KafkaBus ------------------------------
(***************************************************************************)
(* One partition of a Kafka topic, its producers and the stage that        *)
(* consumes it (internal/kafkabus: bus.go, channel.go).  A stage polls,    *)
(* delivers the fetched records one by one to its handler, each up to      *)
(* maxAttempts times, writes what still fails to the dead letter topic and *)
(* commits the records it got through; any other error ends it, and        *)
(* nothing but a new process starts it again.                              *)
(***************************************************************************)
EXTENDS Codec, FiniteSets

CONSTANTS
  Messages,    \* topic -> the messages published to it
  Poison,      \* messages that the stage's handler refuses whenever it sees them
  MaxAttempts, \* config.MaxAttempts
  MaxRecords,  \* bound: records on the topic
  MaxFaults,   \* bound: calls to Kafka that fail
  MaxOutages,  \* bound: outages of what the handler writes to
  MaxRestarts  \* bound: processes after the first

VARIABLES
  topic,     \* "batches", "windows" or "commands"
  formats,   \* the wire formats of the producing and of the consuming process
  log,       \* the records
  sent,      \* history: the message behind each record
  committed, \* the group's committed offset
  stage,     \* poll: "poll", "deliver", "bury", "commit" or "ended"
  last,      \* the last record fetched
  at,        \* the record being delivered
  attempt,   \* deliver's loop
  failure,   \* has a record of this poll failed for good?
  closed,    \* has Channel.Close been called?
  cancelled, \* is the stage's context cancelled?
  up,        \* can the handler reach what it writes to?
  dead,      \* the dead letter topic: offsets, in order
  given,     \* history: <<offset, message>> for each message a handler accepted
  budget     \* faults, outages and restarts so far

vars == <<topic, formats, log, sent, committed, stage, last, at, attempt, failure, closed,
          cancelled, up, dead, given, budget>>
producing == <<log, sent>>
polling == <<stage, last, at, attempt, failure>>
setting == <<topic, formats>>
outcome == <<dead, given>>

Formats == {"json", "protobuf"}

Init ==
  /\ topic \in DOMAIN Messages
  /\ formats \in [{"producer", "consumer"} -> Formats]
  /\ topic # "batches" => formats["producer"] = formats["consumer"]
  /\ log = <<>> /\ sent = <<>> /\ committed = 0
  /\ stage = "poll" /\ last = 0 /\ at = 0 /\ attempt = 0 /\ failure = FALSE
  /\ closed = FALSE /\ cancelled = FALSE /\ up = TRUE
  /\ dead = <<>> /\ given = {}
  /\ budget = [faults |-> 0, outages |-> 0, restarts |-> 0]

Spend(what, limit) == budget[what] < limit /\ budget' = [budget EXCEPT ![what] = @ + 1]

-----------------------------------------------------------------------------
(* wire.For and the codec of a process.                                     *)
Encode(m) ==
  CASE topic = "commands" -> EncodeCommand(m)
    [] topic = "batches" -> IF formats["producer"] = "json" THEN JSONEncodeBatch(m)
                            ELSE ProtobufEncodeBatch(m)
    [] topic = "windows" -> IF formats["producer"] = "json" THEN JSONEncodeWindow(m)
                            ELSE ProtobufEncodeWindow(m)

Decode(raw) ==
  CASE topic = "commands" -> DecodeCommand(raw)
    [] topic = "batches" -> IF formats["consumer"] = "json" THEN JSONDecodeBatch(raw)
                            ELSE ProtobufDecodeBatch(raw)
    [] topic = "windows" -> IF formats["consumer"] = "json" THEN JSONDecodeWindow(raw)
                            ELSE ProtobufDecodeWindow(raw)

\* Producer.send: the record is on the topic ...
Send(m) ==
  /\ Len(log) < MaxRecords /\ Encode(m) # Unreadable
  /\ log' = Append(log, Encode(m)) /\ sent' = Append(sent, m)

\* Publish, PublishWindow and PublishCommand by a caller outside this module, which
\* is told of success or, its answer lost, of an error.
Publish(m) ==
  /\ topic = "commands" => ValidCommand(m)
  /\ Send(m)
  /\ UNCHANGED <<setting, committed, polling, closed, cancelled, up, outcome, budget>>

-----------------------------------------------------------------------------
(* Consumer.poll.                                                           *)
End == stage' = "ended" /\ UNCHANGED <<last, at, attempt, failure>>

\* The client was closed, the context cancelled, or the fetch fails.
PollEnds ==
  /\ stage = "poll"
  /\ \/ (closed \/ cancelled) /\ UNCHANGED budget
     \/ ~closed /\ ~cancelled /\ Spend("faults", MaxFaults)
  /\ End
  /\ UNCHANGED <<setting, producing, committed, closed, cancelled, up, outcome>>

Poll ==
  /\ stage = "poll" /\ ~closed /\ ~cancelled
  /\ \E n \in last + 1..Len(log) : last' = n
  /\ stage' = "deliver" /\ at' = last + 1 /\ attempt' = 1
  /\ UNCHANGED <<setting, producing, committed, failure, closed, cancelled, up, outcome, budget>>

\* The record is done with: go on to the next one, or commit.
Advance ==
  /\ at' = at + 1 /\ attempt' = 1
  /\ stage' = IF at = last THEN "commit" ELSE "deliver"
  /\ UNCHANGED <<last, failure>>

\* The record stops the poll; the ones after it are not delivered.
Fail == failure' = TRUE /\ stage' = "commit" /\ UNCHANGED <<last, at, attempt>>

\* Consume, ConsumeWindows, ConsumeCommands: the handler is called on what was decoded.
Accepts(m) == m # Unreadable /\ m \notin Poison /\ up

DeliverSucceeds ==
  /\ stage = "deliver"
  /\ LET m == Decode(log[at])
     IN Accepts(m) /\ given' = given \cup {<<at, m>>}
  /\ Advance
  /\ UNCHANGED <<setting, producing, committed, closed, cancelled, up, dead, budget>>

\* Mutant: the loop has no bound.
RetryForEver ==
  /\ stage = "deliver" /\ ~Accepts(Decode(log[at]))
  /\ attempt' = 1 /\ UNCHANGED <<stage, at, last, failure>>
  /\ UNCHANGED <<setting, producing, committed, closed, cancelled, up, outcome, budget>>

\* deliver: an attempt fails.
DeliverFails ==
  /\ stage = "deliver" /\ ~Accepts(Decode(log[at]))
  /\ IF cancelled THEN Fail
     ELSE IF attempt < MaxAttempts
     THEN attempt' = attempt + 1 /\ UNCHANGED <<stage, last, at, failure>>
     ELSE stage' = "bury" /\ UNCHANGED <<last, at, attempt, failure>>
  /\ UNCHANGED <<setting, producing, committed, closed, cancelled, up, outcome, budget>>

\* sendToDeadLetter.
Bury ==
  /\ stage = "bury"
  /\ dead' = Append(dead, at)
  /\ Advance
  /\ UNCHANGED <<setting, producing, committed, closed, cancelled, up, given, budget>>

\* The write to the dead letter topic fails, or its answer is lost.
BuryFails ==
  /\ stage = "bury"
  /\ IF closed \/ cancelled THEN UNCHANGED budget ELSE Spend("faults", MaxFaults)
  /\ Fail
  /\ dead' \in {dead, Append(dead, at)}
  /\ UNCHANGED <<setting, producing, committed, closed, cancelled, up, given>>

\* Mutant: everything fetched is committed.
CommitFetched == committed' = last

\* CommitRecords of the records that got through.
CommitHandled == committed' = at - 1

\* The poll ends: commit, then report the failure or poll again.
Commit ==
  /\ stage = "commit"
  /\ closed \/ cancelled => at - 1 = committed
  /\ CommitHandled
  /\ IF failure THEN End
     ELSE stage' = "poll" /\ UNCHANGED <<last, at, attempt, failure>>
  /\ UNCHANGED <<setting, producing, closed, cancelled, up, outcome, budget>>

\* The commit fails: with its client or its context, or in Kafka, where it may
\* have been done all the same.
CommitFails ==
  /\ stage = "commit" /\ at - 1 > committed
  /\ IF closed \/ cancelled THEN UNCHANGED budget ELSE Spend("faults", MaxFaults)
  /\ CommitHandled \/ UNCHANGED committed
  /\ End
  /\ UNCHANGED <<setting, producing, closed, cancelled, up, outcome>>

-----------------------------------------------------------------------------
\* Channel.Close by the runtime, or its last cancelRun.
Close ==
  /\ ~closed /\ stage # "ended" /\ closed' = TRUE
  /\ UNCHANGED <<setting, producing, committed, polling, cancelled, up, outcome, budget>>

Cancel ==
  /\ ~cancelled /\ stage # "ended" /\ cancelled' = TRUE
  /\ UNCHANGED <<setting, producing, committed, polling, closed, up, outcome, budget>>

\* A new process takes over from the committed offset, whatever became of the old.
Restart ==
  /\ Spend("restarts", MaxRestarts)
  /\ stage' = "poll" /\ last' = committed /\ at' = committed /\ attempt' = 0 /\ failure' = FALSE
  /\ closed' = FALSE /\ cancelled' = FALSE
  /\ UNCHANGED <<setting, producing, committed, up, outcome>>

Outage ==
  /\ \/ up /\ Spend("outages", MaxOutages)
     \/ ~up /\ UNCHANGED budget
  /\ up' = ~up
  /\ UNCHANGED <<setting, producing, committed, polling, closed, cancelled, outcome>>

Stage ==
  Poll \/ PollEnds \/ DeliverSucceeds \/ DeliverFails \/ Bury \/ BuryFails \/ Commit \/ CommitFails

Next == Stage \/ Close \/ Cancel \/ Restart \/ Outage

-----------------------------------------------------------------------------
Offsets == 1..MaxRecords
Settled == {p[1] : p \in given} \cup {dead[i] : i \in DOMAIN dead}

\* poll, deliver, sendToDeadLetter: across retries, dead letters, failed commits, a
\* channel closed under the stage and new processes, the stage passes over no record,
\* and commits none that was neither handled nor dead-lettered.
Promise == INSTANCE RecordLog WITH settled <- Settled
ImplementsRecordLog == Promise!Spec

\* A message all of whose names are UTF-8 and whose times the wire can carry.
Plain(m) ==
  /\ {m[f] : f \in DOMAIN m \cap {"device", "user", "actor"}} \cap Garbled = {}
  /\ \A f \in DOMAIN m \cap {"created", "issued", "start", "end"} : m[f] > 0 /\ m[f] < Limit

\* The codecs: whatever the wire formats of the two processes, a handler is given
\* exactly the message that was published, or nothing.
HandedIsSent ==
  \A p \in given : Plain(sent[p[1]]) => p[2] = sent[p[1]]

\* deliver: a record that can never be handled does not hold up the ones behind it.
\* Every record is in the end handled or dead-lettered, unless its stage has ended.
RecordsSettle ==
  \A o \in Offsets : (o \in DOMAIN log) ~> (o \in Settled \/ stage = "ended")

\* docs/availability.md:51, "Aggregated windows accumulate in Kafka. [...] the persister
\* catches up once the database returns": a record is put aside for what it is, not
\* for what its handler could not reach.
OutagesAreWaitedOut ==
  \A i \in DOMAIN dead :
     LET m == Decode(log[dead[i]]) IN m = Unreadable \/ m \in Poison

=============================================================================
