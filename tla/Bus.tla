-------------------------------- MODULE Bus --------------------------------
(***************************************************************************)
(* The in-process message bus (internal/bus/bus.go) that carries batches,  *)
(* windows and commands when no Kafka is configured: bounded channels, one *)
(* per partition, senders that may block, a consumer group with a          *)
(* goroutine per partition, and a Close that must neither strand an        *)
(* accepted message nor wait for ever on a blocked sender.                 *)
(***************************************************************************)
EXTENDS Integers, FiniteSets, SequencesExt

CONSTANTS
  Partitions,  \* b.partitions
  Capacity,    \* config.Capacity: messages a partition buffers
  MaxAttempts, \* config.MaxAttempts: deliveries before a message is dead
  Senders,     \* goroutines that call Send
  Groups,      \* goroutines that call RunConsumerGroup
  MaxMessages, \* bound: calls of Send
  None

ASSUME BusAssumption ==
  /\ Partitions # {} /\ IsFiniteSet(Partitions) /\ IsFiniteSet(Senders)
  /\ Capacity \in Nat \ {0} /\ MaxAttempts \in Nat \ {0} /\ MaxMessages \in Nat
  /\ None \notin Groups

VARIABLES
  channel,   \* the messages buffered on each partition
  closed,    \* b.closed, and with it the channel b.closing
  shutdown,  \* b.shutdown is closed
  inflight,  \* senders between enterSend and leaveSend
  closer,    \* Close: "idle", "wait" for the senders, "done"
  sends,     \* where each Send stands: "idle", "enter", "select" or "leave"
  message,   \* the message each sender sends, and to which partition
  started,   \* history: messages are numbered in the order of their calls
  owner,     \* the group that has claimed all partitions
  group,     \* RunConsumerGroup: "idle", "running", "refused", "nil", "error"
  cancelled, \* is the context of the group's call cancelled?
  consumer,  \* each partition's goroutine: "select", "drain" or how it returned
  value,     \* the message it delivers, 0 when it delivers none
  attempt,   \* how often it has called the handler for that message
  accepted,  \* history: what Send accepted for each partition, in order
  handled,   \* history: messages a handler has dealt with, in order
  dead,      \* b.deadLetter, in order
  abandoned  \* history: messages given up because of a cancelled context

vars == <<channel, closed, shutdown, inflight, closer, sends, message, started, owner, group,
          cancelled, consumer, value, attempt, accepted, handled, dead, abandoned>>
sending == <<inflight, sends, message, started, accepted>>
closing == <<closed, shutdown, closer>>
consuming == <<owner, group, cancelled, consumer, value, attempt, handled, dead, abandoned>>

-----------------------------------------------------------------------------
Init ==
  /\ channel = [p \in Partitions |-> <<>>]
  /\ closed = FALSE /\ shutdown = FALSE /\ closer = "idle"
  /\ inflight = 0 /\ started = 0
  /\ sends = [s \in Senders |-> "idle"]
  /\ message = [s \in Senders |-> [id |-> 0, to |-> None]]
  /\ accepted = [p \in Partitions |-> <<>>]
  /\ owner = None
  /\ group = [g \in Groups |-> "idle"] /\ cancelled = [g \in Groups |-> FALSE]
  /\ consumer = [p \in Partitions |-> "nil"]
  /\ value = [p \in Partitions |-> 0] /\ attempt = [p \in Partitions |-> 0]
  /\ handled = [p \in Partitions |-> <<>>]
  /\ dead = <<>> /\ abandoned = {}

-----------------------------------------------------------------------------
\* Send first looks at closed without the lock, then enters under sendMu.
SendCall(s, p) ==
  /\ sends[s] = "idle" /\ started < MaxMessages
  /\ started' = started + 1
  /\ message' = [message EXCEPT ![s] = [id |-> started + 1, to |-> p]]
  /\ sends' = [sends EXCEPT ![s] = IF closed THEN "idle" ELSE "enter"]
  /\ UNCHANGED <<channel, closing, consuming, inflight, accepted>>

EnterSend(s) ==
  /\ sends[s] = "enter"
  /\ IF closed
     THEN sends' = [sends EXCEPT ![s] = "idle"] /\ UNCHANGED inflight
     ELSE sends' = [sends EXCEPT ![s] = "select"] /\ inflight' = inflight + 1
  /\ UNCHANGED <<channel, closing, consuming, message, started, accepted>>

SendAccepted(s) ==
  /\ sends[s] = "select"
  /\ LET p == message[s].to
         id == message[s].id
     IN /\ Len(channel[p]) < Capacity
        /\ channel' = [channel EXCEPT ![p] = Append(@, id)]
        /\ accepted' = [accepted EXCEPT ![p] = Append(@, id)]
  /\ sends' = [sends EXCEPT ![s] = "leave"]
  /\ UNCHANGED <<closing, consuming, inflight, message, started>>

\* Mutant: a waiting sender does not notice that the bus closes.
SendWaits(s) == FALSE

\* The bus closes while the sender waits ...
SendRefused(s) ==
  /\ sends[s] = "select" /\ closed
  /\ sends' = [sends EXCEPT ![s] = "leave"]
  /\ UNCHANGED <<channel, closing, consuming, inflight, message, started, accepted>>

\* ... or the sender's own context ends.
SendExpires(s) ==
  /\ sends[s] = "select"
  /\ sends' = [sends EXCEPT ![s] = "leave"]
  /\ UNCHANGED <<channel, closing, consuming, inflight, message, started, accepted>>

LeaveSend(s) ==
  /\ sends[s] = "leave"
  /\ sends' = [sends EXCEPT ![s] = "idle"]
  /\ inflight' = inflight - 1
  /\ UNCHANGED <<channel, closing, consuming, message, started, accepted>>

-----------------------------------------------------------------------------
Close ==
  /\ closer = "idle"
  /\ closed' = TRUE
  /\ closer' = "wait"
  /\ UNCHANGED <<channel, shutdown, sending, consuming>>

\* Mutant: the senders are not waited for.
CloseAtOnce ==
  /\ closer = "wait"
  /\ shutdown' = TRUE
  /\ closer' = "done"
  /\ UNCHANGED <<channel, closed, sending, consuming>>

CloseReturns ==
  /\ closer = "wait" /\ inflight = 0
  /\ shutdown' = TRUE
  /\ closer' = "done"
  /\ UNCHANGED <<channel, closed, sending, consuming>>

-----------------------------------------------------------------------------
\* RunConsumerGroup claims every partition or none.
GroupStarts(g) ==
  /\ group[g] = "idle"
  /\ IF owner # None
     THEN group' = [group EXCEPT ![g] = "refused"] /\ UNCHANGED <<owner, consumer>>
     ELSE /\ group' = [group EXCEPT ![g] = "running"]
          /\ owner' = g
          /\ consumer' = [p \in Partitions |-> "select"]
  /\ UNCHANGED <<channel, sending, closing, cancelled, value, attempt, handled, dead, abandoned>>

GroupReturns(g) ==
  /\ owner = g /\ \A p \in Partitions : consumer[p] \in {"nil", "error"}
  /\ owner' = None
  /\ group' = [group EXCEPT ![g] =
                 IF \E p \in Partitions : consumer[p] = "error" THEN "error" ELSE "nil"]
  /\ UNCHANGED <<channel, sending, closing, cancelled, consumer, value, attempt, handled, dead,
                 abandoned>>

CancelGroup(g) ==
  /\ group[g] = "running" /\ ~cancelled[g]
  /\ cancelled' = [cancelled EXCEPT ![g] = TRUE]
  /\ UNCHANGED <<channel, sending, closing, owner, group, consumer, value, attempt, handled, dead,
                 abandoned>>

Idle(p) == consumer[p] \in {"select", "drain"} /\ value[p] = 0

\* consume and drain: any ready case of their select is taken.
Receive(p) ==
  /\ Idle(p) /\ channel[p] # <<>>
  /\ value' = [value EXCEPT ![p] = Head(channel[p])]
  /\ channel' = [channel EXCEPT ![p] = Tail(@)]
  /\ UNCHANGED <<sending, closing, owner, group, cancelled, consumer, attempt, handled, dead,
                 abandoned>>

ConsumerReturns(p) ==
  /\ Idle(p)
  /\ \/ cancelled[owner] /\ consumer' = [consumer EXCEPT ![p] = "error"]
     \/ consumer[p] = "select" /\ shutdown /\ consumer' = [consumer EXCEPT ![p] = "drain"]
     \/ consumer[p] = "drain" /\ channel[p] = <<>> /\ ~cancelled[owner]
          /\ consumer' = [consumer EXCEPT ![p] = "nil"]
  /\ UNCHANGED <<channel, sending, closing, owner, group, cancelled, value, attempt, handled,
                 dead, abandoned>>

\* deliver: one call of the handler and what follows from its result.
Done(p) == value' = [value EXCEPT ![p] = 0] /\ attempt' = [attempt EXCEPT ![p] = 0]

DeliverOk(p) ==
  /\ value[p] # 0
  /\ handled' = [handled EXCEPT ![p] = Append(@, value[p])]
  /\ Done(p)
  /\ UNCHANGED <<channel, sending, closing, owner, group, cancelled, consumer, dead, abandoned>>

MayRetry(p) == attempt[p] + 1 < MaxAttempts

Requeue(p) ==
  /\ value[p] # 0
  /\ channel' = [channel EXCEPT ![p] = Append(@, value[p])]
  /\ Done(p)
  /\ UNCHANGED <<sending, closing, owner, group, cancelled, consumer, handled, dead, abandoned>>

GiveUpSilently(p) ==
  /\ value[p] # 0
  /\ Done(p)
  /\ UNCHANGED <<channel, sending, closing, owner, group, cancelled, consumer, handled, dead,
                 abandoned>>

DeliverFails(p) ==
  /\ value[p] # 0
  /\ IF cancelled[owner]
     THEN abandoned' = abandoned \cup {value[p]} /\ Done(p) /\ UNCHANGED dead
     ELSE IF MayRetry(p)
     THEN attempt' = [attempt EXCEPT ![p] = @ + 1] /\ UNCHANGED <<value, dead, abandoned>>
     ELSE dead' = Append(dead, value[p]) /\ Done(p) /\ UNCHANGED abandoned
  /\ UNCHANGED <<channel, sending, closing, owner, group, cancelled, consumer, handled>>
-----------------------------------------------------------------------------
Send(s) ==
  \/ \E p \in Partitions : SendCall(s, p)
  \/ EnterSend(s) \/ SendAccepted(s) \/ SendRefused(s) \/ SendExpires(s) \/ LeaveSend(s)

Consume(p) == Receive(p) \/ ConsumerReturns(p) \/ DeliverOk(p) \/ DeliverFails(p)

Next ==
  \/ \E s \in Senders : Send(s)
  \/ Close \/ CloseReturns
  \/ \E g \in Groups : GroupStarts(g) \/ GroupReturns(g) \/ CancelGroup(g)
  \/ \E p \in Partitions : Consume(p)

Spec == Init /\ [][Next]_vars

\* Goroutines that can run do run; nobody is obliged to call Send, Close or
\* RunConsumerGroup, nor to cancel a context.
Fairness ==
  /\ \A s \in Senders :
       WF_vars(EnterSend(s) \/ SendAccepted(s) \/ SendRefused(s) \/ LeaveSend(s))
  /\ WF_vars(CloseReturns)
  /\ \A p \in Partitions : WF_vars(Consume(p))
  /\ \A g \in Groups : WF_vars(GroupReturns(g))
FairSpec == Spec /\ Fairness

-----------------------------------------------------------------------------
Ids == 1..MaxMessages

\* Every message for which Send returned nil is buffered, being delivered,
\* handled, dead-lettered or counted as abandoned, and only one of these.
NoMessageLost ==
  \A p \in Partitions :
    LET places == <<Range(channel[p]), {value[p]} \ {0}, Range(handled[p]),
                    Range(dead) \cap Range(accepted[p]), abandoned \cap Range(accepted[p])>>
    IN /\ UNION Range(places) = Range(accepted[p])
       /\ \A i, j \in DOMAIN places : i # j => places[i] \cap places[j] = {}

\* A consumer group that ended because the bus was closed has left nothing on
\* any partition, and no sender that raced with Close can add to it later:
\* Close waits for the senders before it lets the consumers drain.
ClosedBusIsEmpty ==
  (\E g \in Groups : group[g] = "nil") => \A p \in Partitions : channel[p] = <<>>

\* Handlers deal with the messages of a partition in the order of acceptance.
PartitionOrder ==
  \A p \in Partitions :
    \A i, j \in DOMAIN handled[p] : i < j =>
      \E k, l \in DOMAIN accepted[p] :
        k < l /\ accepted[p][k] = handled[p][i] /\ accepted[p][l] = handled[p][j]

\* Close returns, although senders may be blocked on full partitions that nobody reads
\* any more, and every consumer group that runs then, or starts later, ends.
CloseTerminates ==
  closer # "idle" ~> closer = "done" /\ \A g \in Groups : group[g] # "running"

=============================================================================
