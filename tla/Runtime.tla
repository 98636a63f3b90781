------------------------------ MODULE Runtime -------------------------------
(***************************************************************************)
(* The life of mcp-server's pipeline (internal/app: runtime.go,            *)
(* backends.go): its dependencies are built one by one, its stages started *)
(* as goroutines, and its shutdown walks down the pipeline, closing the    *)
(* input of a stage and waiting for it to end before the next.             *)
(*                                                                         *)
(* An event goes from a source through its agent, the channel of batches,  *)
(* the aggregator, and the windows published for each store, to the        *)
(* stores; a window is the event it holds.  The channels are those of Bus  *)
(* or of KafkaBus, here only as far as the shutdown sees them: a bus       *)
(* blocks a sender while it is full and is drained when it closes; a topic *)
(* blocks a sender while Kafka is down (ProduceSync has no deadline of its *)
(* own), keeps what was not read, and its stage ends with the client.      *)
(***************************************************************************)
EXTENDS Integers, FiniteSets, SequencesExt

CONSTANTS
  Events,     \* what the sources produce
  Capacity,   \* config.QueueCapacity
  QueueDepth, \* BatcherConfig.QueueDepth
  Callers,    \* who calls Stop: the deferred call of main, the context's watcher
  MaxFaults,  \* bound: calls to a backend that fail
  MaxOutages  \* bound: outages of Kafka

VARIABLES
  config,      \* the backends configured: [redis, postgres, kafka]
  step,        \* NewWithContext: steps done
  open,        \* the clients, channels and goroutines that are open
  extra,       \* deps.Extra: what they release
  phase,       \* "build", "failed", "running", where shutdown waits, or "stopped"
  stage,       \* the goroutines: "running" or "ended"
  ended,       \* has each caller's Stop returned?
  fresh,       \* events the sources have not produced
  agent,       \* events collected by the agents, not queued yet
  queue,       \* the agents' batches that are queued or being sent
  batches,     \* events on the channel of batches
  uncommitted, \* Kafka: handled records whose offset is not committed
  held,        \* events in open or pending windows of the aggregator
  sending,     \* the pass being published: <<event, store>>
  retained,    \* events whose window the pass could not publish
  windows,     \* for each store, the windows on its channel
  stored,      \* for each store, the events it has counted
  counted,     \* history: events lost to a failed call that some counter tells of
  failures,    \* r.failures > 0
  down,        \* is Kafka down?
  outages,
  faults

building == <<config, step, open, extra>>
agents == <<fresh, agent, queue>>
flow == <<agents, batches, uncommitted, held, sending, retained, windows, stored, counted>>
kafka == <<down, outages>>
vars == <<building, phase, stage, ended, flow, failures, kafka, faults>>

\* buildState reads the DSN of Postgres only with Redis.
Archiving == config.redis /\ config.postgres
Stores == IF Archiving THEN {"hot", "archive"} ELSE {"hot"}
Stages == {"agents", "aggregator", "emitter", "commands"} \cup Stores

Init ==
  /\ config \in [redis: BOOLEAN, postgres: BOOLEAN, kafka: BOOLEAN]
  /\ config.postgres => config.redis
  /\ step = 0 /\ open = {} /\ extra = {} /\ phase = "build"
  /\ stage = [s \in {"agents", "aggregator", "emitter", "commands", "hot", "archive"} |-> "ended"]
  /\ ended = [c \in Callers |-> FALSE]
  /\ fresh = Events /\ agent = {} /\ queue = {} /\ batches = {} /\ uncommitted = {}
  /\ held = {} /\ sending = {} /\ retained = {}
  /\ windows = [s \in {"hot", "archive"} |-> {}] /\ stored = [s \in {"hot", "archive"} |-> {}]
  /\ counted = {} /\ failures = FALSE /\ down = FALSE /\ outages = 0 /\ faults = 0

Fault == faults < MaxFaults /\ faults' = faults + 1

-----------------------------------------------------------------------------
(* NewWithContext.                                                          *)
Channels == {"batches", "windows", "commands", "archiveWindows"}

\* buildState, buildChannels and the rest of NewWithContext, as the order in which
\* things are opened.
Plan ==
  (IF config.redis THEN <<"client", "async">> ELSE <<>>)
  \o (IF Archiving THEN <<"pool">> ELSE <<>>)
  \o <<"batches", "windows", "commands">>
  \o (IF Archiving THEN <<"archiveWindows">> ELSE <<>>)
  \o <<"agents">>

\* The Redis client and the recorder are registered together.
Registers(thing) ==
  CASE thing = "async" -> {"client", "async"} [] thing = "pool" -> {"pool"} [] OTHER -> {}

BuildStep ==
  /\ phase = "build" /\ step < Len(Plan)
  /\ LET thing == Plan[step + 1]
     IN /\ open' = IF thing = "agents" THEN open ELSE open \cup {thing}
        /\ extra' = extra \cup Registers(thing)
  /\ step' = step + 1
  /\ UNCHANGED <<config, phase, stage, ended, flow, failures, kafka, faults>>

\* Mutant: a channel that fails leaves the ones before it open.
UndoExtraOnly(thing) == extra

\* What the error path of a step releases: what this step and the steps before it
\* opened and have not registered, then closeExtras; the last one calls closeAll.
Undo(thing) ==
  CASE thing = "client" -> {"client"}
    [] thing = "async" -> {"client"}
    [] thing = "pool" -> extra \cup {"pool"}
    [] thing = "batches" -> extra
    [] thing = "windows" -> extra \cup {"batches"}
    [] thing = "commands" -> extra \cup {"batches", "windows"}
    [] thing = "archiveWindows" -> extra \cup {"batches", "windows", "commands"}
    [] thing = "agents" -> extra \cup Channels

\* The buses share one configuration: they fail with the first or not at all.  The
\* client and the pool may be open when what is done with them fails.
BuildFails ==
  /\ phase = "build" /\ step < Len(Plan)
  /\ LET thing == Plan[step + 1]
     IN /\ ~config.kafka => thing \notin {"windows", "commands", "archiveWindows"}
        /\ \E partly \in {{}, {thing}} \cap {{}, {"client"}, {"pool"}} :
             open' = (open \cup partly) \ Undo(thing)
  /\ phase' = "failed" /\ extra' = {}
  /\ UNCHANGED <<config, step, stage, ended, flow, failures, kafka, faults>>

Start ==
  /\ phase = "build" /\ step = Len(Plan)
  /\ phase' = "running"
  /\ stage' = [s \in DOMAIN stage |-> IF s \in Stages THEN "running" ELSE "ended"]
  /\ UNCHANGED <<building, ended, flow, failures, kafka, faults>>

-----------------------------------------------------------------------------
(* The stages.                                                              *)
Runs(s) == stage[s] = "running"
Ends(s) == stage' = [stage EXCEPT ![s] = "ended"]

Closing == phase \notin {"build", "failed", "running"}

\* Up to the aggregator an event is in one place, and those in one place differ in nothing:
\* which of them goes on is of no consequence.
AnyOf(events) == CHOOSE e \in events : TRUE

Produce ==
  /\ Runs("agents") /\ ~Closing /\ fresh # {}
  /\ fresh' = fresh \ {AnyOf(fresh)} /\ agent' = agent \cup {AnyOf(fresh)}
  /\ UNCHANGED <<building, phase, stage, ended, queue, batches, uncommitted, held, sending, retained,
                 windows, stored, counted, failures, kafka, faults>>

\* flush: the collector queues a batch, or waits for room (OverflowBlock).  The sender
\* holds one batch more than the channel does.
Flush ==
  /\ Runs("agents") /\ agent # {} /\ Cardinality(queue) <= QueueDepth
  /\ agent' = agent \ {AnyOf(agent)} /\ queue' = queue \cup {AnyOf(agent)}
  /\ UNCHANGED <<building, phase, stage, ended, fresh, batches, uncommitted, held, sending, retained,
                 windows, stored, counted, failures, kafka, faults>>

\* The call that publishes to a channel returns: a bus has room, or the brokers answer.
Accepts(channel) == IF config.kafka THEN ~down ELSE Cardinality(channel) < Capacity

\* collect has returned: the queue is closed and the grace timer of Run started.
Draining == Closing /\ agent = {}

\* The transport: the batch is published, or the call fails and is counted, because of
\* Kafka or because the grace timer has cancelled it.
Send ==
  /\ Runs("agents") /\ queue # {}
  /\ LET e == AnyOf(queue)
     IN /\ queue' = queue \ {e}
        /\ \/ Accepts(batches) /\ batches' = batches \cup {e} /\ UNCHANGED <<counted, faults>>
           \/ /\ (config.kafka /\ Fault) \/ (Draining /\ UNCHANGED faults)
              /\ counted' = counted \cup {e} /\ UNCHANGED batches
  /\ UNCHANGED <<building, phase, stage, ended, fresh, agent, uncommitted, held, sending, retained,
                 windows, stored, failures, kafka>>

\* Batcher.Run returns once its source has closed and it is empty.
AgentsEnd ==
  /\ Runs("agents") /\ Draining /\ queue = {}
  /\ Ends("agents")
  /\ UNCHANGED <<building, phase, ended, flow, failures, kafka, faults>>

\* Records that a poll has fetched are delivered even if the client was closed since.
HandleBatch ==
  /\ Runs("aggregator") /\ batches # {}
  /\ LET e == AnyOf(batches)
     IN /\ batches' = batches \ {e} /\ held' = held \cup {e}
        /\ uncommitted' = IF config.kafka THEN uncommitted \cup {e} ELSE {}
  /\ UNCHANGED <<building, phase, stage, ended, agents, sending, retained, windows, stored,
                 counted, failures, kafka, faults>>

CommitOffsets ==
  /\ Runs("aggregator") /\ "batches" \in open /\ ~down /\ uncommitted # {}
  /\ uncommitted' = {}
  /\ UNCHANGED <<building, phase, stage, ended, agents, batches, held, sending, retained,
                 windows, stored, counted, failures, kafka, faults>>

\* ApplyWindow, or its last attempt fails and the window is dead-lettered, which is a
\* call to Kafka as well.
HandleWindow(s) ==
  /\ Runs(s)
  /\ \E e \in windows[s] :
       /\ windows' = [windows EXCEPT ![s] = @ \ {e}]
       /\ \/ stored' = [stored EXCEPT ![s] = @ \cup {e}] /\ UNCHANGED <<counted, faults>>
          \/ Fault /\ ~down /\ counted' = counted \cup {e} /\ UNCHANGED stored
  /\ UNCHANGED <<building, phase, stage, ended, agents, batches, uncommitted, held, sending,
                 retained, failures, kafka>>

Input(s) ==
  CASE s = "aggregator" -> "batches" [] s = "hot" -> "windows"
    [] s = "archive" -> "archiveWindows" [] s = "commands" -> "commands"
Waiting(s) ==
  CASE s = "aggregator" -> batches [] s = "commands" -> {} [] OTHER -> windows[s]

\* Consume returns after Close: from a bus, once it is drained; from a topic at once,
\* perhaps with an error if it was about to commit.
StageEnds(s) ==
  /\ Runs(s) /\ Input(s) \notin open
  /\ config.kafka \/ Waiting(s) = {}
  /\ Ends(s)
  /\ failures' \in (IF s = "aggregator" /\ uncommitted # {} THEN {failures, TRUE} ELSE {failures})
  /\ UNCHANGED <<building, phase, ended, flow, kafka, faults>>

\* Consume returns an error of Kafka: it is reported and the stage is not started again.
StageFails(s) ==
  /\ Runs(s) /\ config.kafka /\ Fault
  /\ Ends(s) /\ failures' = TRUE
  /\ UNCHANGED <<building, phase, ended, flow, kafka>>

-----------------------------------------------------------------------------
(* emitLoop and the emission at the end.                                    *)
Collect(some) == sending' = some \X Stores /\ retained' = {}

Tick ==
  /\ Runs("emitter") /\ sending = {} /\ retained = {}
  /\ \E some \in SUBSET held : some # {} /\ Collect(some)
  /\ UNCHANGED <<building, phase, stage, ended, agents, batches, uncommitted, held, windows,
                 stored, counted, failures, kafka, faults>>

\* The fan-out sends to the hot store's bus first; a topic serves both groups.
PublishWindow(e) ==
  \/ /\ config.kafka
     /\ Accepts(windows["hot"])
     /\ windows' = [s \in DOMAIN windows |-> IF s \in Stores THEN windows[s] \cup {e} ELSE {}]
     /\ sending' = {p \in sending : p[1] # e}
     /\ held' = held \ {e}
  \/ /\ ~config.kafka
     /\ LET s == IF <<e, "hot">> \in sending THEN "hot" ELSE "archive"
        IN /\ Accepts(windows[s])
           /\ windows' = [windows EXCEPT ![s] = @ \cup {e}]
           /\ sending' = sending \ {<<e, s>>}
           /\ held' = IF \E p \in sending' : p[1] = e THEN held ELSE held \ {e}

Publish ==
  /\ \E e \in {p[1] : p \in sending} :
       \/ PublishWindow(e) /\ UNCHANGED <<retained, faults>>
       \/ /\ config.kafka /\ Fault
          /\ sending' = {p \in sending : p[1] # e} /\ retained' = retained \cup {e}
          /\ UNCHANGED <<windows, held>>
  /\ UNCHANGED <<building, phase, stage, ended, agents, batches, uncommitted, stored, counted,
                 failures, kafka>>

\* The pass of emitLoop returns; what it could not publish stays pending.
Report ==
  /\ Runs("emitter") /\ sending = {} /\ retained # {}
  /\ failures' = TRUE /\ retained' = {}
  /\ UNCHANGED <<building, phase, stage, ended, agents, batches, uncommitted, held, sending,
                 windows, stored, counted, kafka, faults>>

EmitterEnds ==
  /\ Runs("emitter") /\ phase = "emitter" /\ sending = {} /\ retained = {}
  /\ Ends("emitter")
  /\ UNCHANGED <<building, phase, ended, flow, failures, kafka, faults>>

-----------------------------------------------------------------------------
(* Stop and shutdown.                                                       *)
\* Stop, by the first caller; the others wait for it.
Stop ==
  /\ phase = "running" /\ phase' = "agents"
  /\ UNCHANGED <<building, stage, ended, flow, failures, kafka, faults>>

StopReturns(c) ==
  /\ phase = "stopped" /\ ~ended[c]
  /\ ended' = [ended EXCEPT ![c] = TRUE]
  /\ UNCHANGED <<building, phase, stage, flow, failures, kafka, faults>>

\* One wait of shutdown is over: it closes the next input and waits again.
Proceed(from, waitedFor, closes, to) ==
  /\ phase = from /\ stage[waitedFor] = "ended"
  /\ open' = open \ closes /\ phase' = to
  /\ UNCHANGED <<config, step, extra, stage, ended, flow, failures, kafka, faults>>

CloseBatches == Proceed("agents", "agents", {"batches"}, "aggregator")
CloseEmitStop == Proceed("aggregator", "aggregator", {}, "emitter")

\* Mutant: the windows still open are not emitted.
SkipFinalEmit ==
  /\ phase = "emitter" /\ stage["emitter"] = "ended"
  /\ phase' = "flush"
  /\ UNCHANGED <<building, stage, ended, flow, failures, kafka, faults>>

FinalEmit ==
  /\ phase = "emitter" /\ stage["emitter"] = "ended"
  /\ phase' = "flush" /\ Collect(held)
  /\ UNCHANGED <<building, stage, ended, agents, batches, uncommitted, held, windows, stored,
                 counted, failures, kafka, faults>>

\* Mutant: the wait comes before the close.
CloseWindowsLate ==
  /\ phase = "flush" /\ sending = {} /\ stage["hot"] = "ended"
  /\ failures' = (failures \/ retained # {})
  /\ open' = open \ {"windows"} /\ phase' = "hot"
  /\ UNCHANGED <<config, step, extra, stage, ended, flow, kafka, faults>>

CloseWindows ==
  /\ phase = "flush" /\ sending = {}
  /\ failures' = (failures \/ retained # {})
  /\ open' = open \ {"windows"} /\ phase' = "hot"
  /\ UNCHANGED <<config, step, extra, stage, ended, flow, kafka, faults>>

CloseArchive == Proceed("hot", "hot", {"archiveWindows"}, "archive")
CloseCommands == Proceed("archive", "archive", {"commands"}, "commands")

\* Mutant: the clients are released before the stages have ended.
ExtrasEarly ==
  /\ phase = "commands" /\ open' = {} /\ phase' = "stopped" /\ extra' = {}
  /\ UNCHANGED <<config, step, stage, ended, flow, failures, kafka, faults>>

CloseExtras ==
  /\ phase = "commands" /\ stage["commands"] = "ended"
  /\ open' = open \ extra /\ extra' = {} /\ phase' = "stopped"
  /\ UNCHANGED <<config, step, stage, ended, flow, failures, kafka, faults>>

-----------------------------------------------------------------------------
(* Kafka.                                                                   *)
KafkaGoesDown ==
  /\ config.kafka /\ ~down /\ phase \notin {"build", "failed", "stopped"}
  /\ outages < MaxOutages /\ outages' = outages + 1 /\ down' = TRUE
  /\ UNCHANGED <<building, phase, stage, ended, flow, failures, faults>>

KafkaComesBack ==
  /\ down /\ down' = FALSE
  /\ UNCHANGED <<building, phase, stage, ended, flow, failures, outages, faults>>

-----------------------------------------------------------------------------
Shutdown ==
  \/ CloseBatches \/ CloseEmitStop \/ FinalEmit \/ CloseWindows
  \/ CloseArchive \/ CloseCommands \/ CloseExtras

Consumers == {"aggregator", "hot", "archive", "commands"}

Work ==
  \/ Flush \/ Send \/ AgentsEnd \/ HandleBatch \/ Publish \/ Report \/ EmitterEnds
  \/ HandleWindow("hot") \/ HandleWindow("archive")
  \/ \E s \in Consumers : StageEnds(s)

Next ==
  \/ BuildStep \/ BuildFails \/ Start
  \/ Produce \/ Tick \/ CommitOffsets \/ Work
  \/ \E s \in Consumers : StageFails(s)
  \/ Stop \/ \E c \in Callers : StopReturns(c)
  \/ Shutdown
  \/ KafkaGoesDown \/ KafkaComesBack

Spec == Init /\ [][Next]_vars

\* The goroutines run, and their calls return where they are enabled: a call to a store
\* returns, a call to Kafka does while Kafka is up.  Nobody is obliged to call Stop, and
\* an outage need not end.
FairSpec ==
  /\ Spec
  /\ WF_vars(Flush) /\ WF_vars(Send) /\ WF_vars(AgentsEnd) /\ WF_vars(HandleBatch)
  /\ WF_vars(HandleWindow("hot")) /\ WF_vars(HandleWindow("archive"))
  /\ \A s \in Consumers : WF_vars(StageEnds(s))
  /\ WF_vars(Publish) /\ WF_vars(Report) /\ WF_vars(EmitterEnds) /\ WF_vars(Shutdown)
  /\ \A c \in Callers : WF_vars(StopReturns(c))

-----------------------------------------------------------------------------
\* buildDependencies, NewWithContext and closeAll: a start that fails half-way leaves no
\* client, pool or channel open, and Stop leaves none open either.
NothingLeftOpen == phase \in {"failed", "stopped"} => open = {}

\* shutdown: what a stage uses outlives it.  The stores' clients are released when no
\* stage runs, and a channel is closed when nothing feeds it any more.
UsersEndFirst ==
  phase \notin {"build", "failed"} =>
    /\ extra = {} /\ config.redis => \A s \in DOMAIN stage : ~Runs(s)
    /\ "batches" \notin open => ~Runs("agents")
    /\ "windows" \notin open => ~Runs("emitter") /\ sending = {}

\* docs/availability.md:128, "Ordered, lossless shutdown": once Stop has returned, every
\* event that a source produced is in every store or on a topic that the next process
\* reads, unless a call to a backend failed, which was counted, or the final emission
\* did, which was reported.
NothingLostSilently ==
  phase = "stopped" =>
    \A e \in Events \ fresh : \A s \in Stores :
      \/ e \in stored[s]
      \/ config.kafka /\ e \in batches \cup uncommitted \cup windows[s]
      \/ e \in counted
      \/ e \in retained /\ failures

\* Stop: unless Kafka stays down, it returns to every caller, whichever stages have failed
\* before, whatever an outage has left behind and however full the queues are.  Without
\* Kafka it always does.
StopEnds == <>[]~down => ((phase = "agents") ~> \A c \in Callers : ended[c])

=============================================================================
