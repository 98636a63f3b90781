# Verification of mcp-ironclaw

TLA+ models of IronClaw's event path, from the system call to the MCP server,
checked with TLC on small instances, and theorems about its aggregation, its
locks, its capture and its metrics checked with TLAPS for every instance. The
models are translated from the Go source; where a document and the code differ,
the model follows the code and the difference is recorded (see *Findings*).

## The system

IronClaw carries kernel events from devices to an MCP server:

```
 eBPF source -> Batcher -> HTTPS.Send ---------------> edge -> ingest -> Kafka (raw)
                               |  ^                                        |
                               v  | Drain                                  v
                             Spool (disk)                    consumer -> aggregator
                                                                           | windows
     MCP server <- stores (Redis, Postgres, memory) <- persister <- fan-out of topics
```

| part | source | state that can go wrong |
| --- | --- | --- |
| agent pipeline | `internal/pipeline` | pending batch, bounded channel, sender goroutine, shutdown |
| agent transport | `internal/transport/https.go` | a post under way, the spool, the drain goroutine |
| agent spool | `internal/spool` | directory, index, byte count, names, durability |
| HTTP ingest | `internal/httpingest`, `internal/ingest` | answers that decide what the agent keeps, shutdown under running handlers |
| in-process bus | `internal/bus` | partitions, senders in flight, groups, closing |
| Kafka bus | `internal/kafkabus` | offsets, retries, dead letters |
| aggregator | `internal/aggregate`, `internal/aggregator` | open and pending windows, sequence, ceiling |
| window fan-out | `internal/app/fanout.go` | one target failing and another not |
| persister, stores | `internal/persister`, `internal/store`, `internal/redisstore`, `internal/postgresstore` | applied identities, counters, resets, watchers |
| fenced locks | `internal/store/lock.go`, `internal/redisstore/lock.go` | leases, tokens |
| runtime | `internal/app/runtime.go` | half-built starts, failed stages, order of shutdown |
| metrics | `internal/metrics` | asynchronous increments racing Close |
| eBPF capture | `internal/ebpf`, `bpf/ironclaw.c` | pairing of entry and exit, rate limiter, ring buffer |
| wire codecs | `internal/wire`, `internal/kafkabus/codec.go` | times, names and kinds that a conversion changes |
| MCP server, commands, tracing, probes | rest of `internal/` | request handlers, tools |

`PROJECT.json` lists every part with its status, and for every definition that
models code the lines it stands for.

## Modules

| module | models | abstraction |
| --- | --- | --- |
| `Capture` | `ironclaw_sys_enter`, `ironclaw_sys_exit`, `rate_limited`, `Events`, `attach`, `pump`, `Close` | a program is one step; a call is its entry time; threads, their ends and the reuse of their ids are the environment |
| `Batcher` | `Run`, `collect`, `accept`, `flush`, the three overflow strategies, the sender | events are numbers; the policy is chosen initially; each select on a channel is a step |
| `Agent` | the agent process | `Capture` or the synthetic source feeding `Batcher` over an unbuffered channel, under one context |
| `Spool` | `Open`, `recover`, `trimToBudget`, `Enqueue`, `Peek`, `Release`, `removeLocked` | payloads are numbered sizes; names are pairs (time ordinal, sequence); `Enqueue` and `Open` are split at file-system calls because a crash can fall between them, everything else is under the mutex and one step; `harsh`, chosen initially, adds power losses and files that vanish |
| `DurableQueue` | what the spool promises | a first-in first-out queue; crashes are stuttering |
| `Shipper` | `Send`, `post`, `permanentlyRefused`, `Drain`, `release`, and the answers of `httpingest` | the spool is the queue that `Spool` implements; batches have one size |
| `Codec` | the edge payload, `toBatch`, both wire formats, commands | fields a conversion reads or changes; the others are one field; 2^63 is scaled down to `Limit` |
| `IngestServer` | the handler, `Accept`, `run` and its deferred calls | a request is a batch, an identity and whether its peer is an edge |
| `AsyncMetrics` | `Increment`, `drain`, `Close` | one sample for each caller |
| `KafkaBus` | `send`, `poll`, `deliver`, `sendToDeadLetter`, commits, `Close` | one partition; the broker and the client library are external |
| `RecordLog` | what a stage promises about its records | none passed over, none committed unsettled |
| `Ingestion` | a topic from end to end | `IngestServer`, `AsyncMetrics` and `KafkaBus` together, with a wire format for each process |
| `Bus` | `Send`, `Close`, `RunConsumerGroup`, `consume`, `drain`, `deliver` | messages are numbers; each critical section and each select is a step |
| `Aggregation` | `Ingest`, `collect`, `Commit`, `EmitClosedWindows`, `EmitAll`, `publish`, `fanOutWindows`, `HandleWindow`, `ApplyWindow`, dead letters, the consumer's offsets, the loss of the process | an event is its offset; a window holds the set of its events; event data that no decision looks at (durations, sketches) is left out |
| `HotStore` | `ApplyWindow`, `ResetDevice`, `notify`, `WatchDevice`, `unwatch` of the memory and Redis stores, `HandleCommand`, the tool `watch_device` | one device; error and byte counts behave as the count, p95 as p99; an update is the number of the change it shows; memory or Redis is chosen initially |
| `Archive` | `ApplyWindow`, `EnsurePartition`, `adoptFromDefaultPartition`, `DropPartitionsBefore`, `DeviceState` of Postgres | one device; a day is a window; a transaction is a step |
| `FencedLock` | what a fenced lock promises | a holder, the last token, the last token that passed `Guard` |
| `Locker` | `Acquire`, `Release`, `Guard` of the memory and the Redis locker | one resource; a Redis script and its answer are two steps, and the answer may be lost; expiry is a step |
| `StateStores` | both stores, the read fallback and the locks | `HotStore`, `Archive` and `Locker` side by side |
| `Runtime` | `NewWithContext` with the error path of each step, `Start`, the stages, `emitLoop`, `Stop`, `shutdown` | the channels are reduced to what shutdown sees of `Bus` and `KafkaBus`, an agent to its collector and its queue; every set of backends is chosen initially (Postgres only with Redis: `buildState` ignores it otherwise) |
| `AggregationProofs`, `AggregationCountProofs`, `AggregationHeldProofs`, `LockerProofs`, `AsyncMetricsProofs`, `CaptureProofs` | theorems about the module they are named after | |

`MC*` modules and `.cfg` files instantiate them. An operator whose comment says
*Mutant* is a plausible mistake in the definition that follows it; the
specifications never use it. `PROJECT.json` pairs it with the property that
fails once the definition is replaced by it.

How state corresponds to code: variables carry the names of the fields they
stand for (`order`, `sizes`, `bytes` of `Spool`; `open`, `pending`, `sequence` of
`Aggregator`; `closed`, `shutdown`, `inflight` of `Bus`), or are the program
counter of a goroutine (`collector`, `sender`, `drain`, `sends`, `consumer`, `pump`,
`stage`, `phase`), or are marked *history* where only a property reads them.

## Runs

| run | configuration | checks |
| --- | --- | --- |
| `agent` | synthetic: 7 events (one invalid), batches of 2, channel of 2, every policy; eBPF: 2 threads (one not sampled), 1 CPU, 4 exits in 7 ticks, a second of 4 ticks, 2 events a second, a ring buffer of 1 | a latency is that of one call; the rate limit; every call and every event counted where it goes, in one place and in order; the oldest are dropped; a signal ends the source, `Run` and the programs |
| `spool` | up to 4 offers of sizes 1, 2, 4 into 3 bytes and 2 entries, 1 failed removal, 2 crashes; on a harsh disk up to 3 offers | index, byte total and budget agree with the disk; what was acknowledged survives; where only processes crash, `Spool` implements `DurableQueue` |
| `shipper` | 3 batches (one malformed), room for 2, 3 faults, 1 restart, Kafka going up and down | only a batch that ingest misjudged is forgotten; duplicates are bounded by the faults behind them; the spool drains |
| `shipper_loss` | the same | **violated**: no batch is forgotten during a Kafka outage |
| `ingestion` | 2 requests of 5 kinds, a channel of 1 sample; 2 records, 2 attempts, 1 fault, 1 outage, 1 restart; both wire formats on either side | what is answered 202 is on the topic; what a handler gets is what was posted or sent; a stage implements `RecordLog` and is not held up; refusals have a cause; samples are accounted for |
| `kafka_outage` | the same | **violated**: a record is put aside only for what it is |
| `bus` | 2 partitions of capacity 1, 2 senders, 2 groups, 2 messages, 2 attempts | nothing accepted is lost; partition order; a closed bus is empty; `Close` and the groups end |
| `aggregation` | 2 windows, 2 targets, ceiling 2, 1 failed publish; 3 events, or 2 and a loss of the process or a dead letter | an event is counted at most once per process that read it, identities are unique, nothing handled is forgotten, the ceiling holds, every accepted event is eventually counted by every store that does not dead-letter its window |
| `aggregation_loss` | 1 target, 1 loss of the process | **violated**: committed records are kept |
| `stores` | 3 emissions of 2 windows, any order and redelivery, 2 resets (1 with watches), identities expiring after 1 tick, 2 callers of `watch_device` for 1 slot, 1 outage, partitions of 2 days; 3 clients and 4 leases | the record is the merge of what was applied since the last reset; an emission is applied again only after its identity expired; the archive keeps its rows; an outage changes no settled answer; watches show news, in order, and every change ends those that wait; both lockers implement `FencedLock` |
| `stores_follow` | 1 caller in a loop, no outage | **violated**: calling `watch_device` in a loop follows the device |
| `runtime` | every set of backends, 3 events, channels and queues of 1, 1 failing call, 1 outage of Kafka, 2 callers of `Stop` | a failed start leaves nothing open; users end before what they use; nothing is lost without a trace; `Stop` returns to every caller unless Kafka stays down |

### Bounds

Each bound is a constant named in the module and only limits how often the
environment acts. They are the smallest at which the interesting cases occur.
In `agent` a full channel, a batch under way and a batch in the sender's hand
coexist, so the sender can empty the channel between the two selects of
`dropOldest`; the programs are attached in either order around calls that are
under way, the ring buffer is full, and an id is reused. Where every call is paired,
sampled and long enough, a fourth exit and three more ticks let three events of two of
the limiter's windows fall into one second, which is the bound. The programs stop with the signal: what they add to a ring buffer that is
no longer read makes no difference. In `spool` an entry too large for the budget,
an eviction of two entries for one, the index ceiling, and a crash during the
recovery from a crash all happen. In `shipper` the third batch evicts the one that
`Drain` is posting. In `ingestion` the producer and the recorder are closed under
running handlers, one poll fetches a poisoned and a good record, and a successor
reads again what was not committed. The stage consumes batches once ingest has
exited: it reads nothing of ingest but its records. In `bus` a sender blocks on a
full partition while `Close` waits, and a second group claims what the first has
released. In `aggregation` two windows are open at once, a window is reopened by a
late event after its emission, one target accepts what the other refuses, the third
event meets the ceiling, and a successor reads a record again; no publish fails
after a loss of the process, and a window is dead-lettered only where no process is
lost. In `stores` a smaller emission follows a larger one of
the same window and an older window follows a newer one, before and after a reset;
one watch is leaving while the other waits, for the one slot. Archive and clock, watches and outages,
and locks occur in behaviours of their own: they share no state with each other.
In `runtime` an event waits at each of the channels, which are full, when `Stop` is
called, and in an outage of Kafka the collector is blocked behind a send that hangs.
The events in one place before the aggregator are interchangeable, so one of them is
chosen to go on (`AnyOf`). What is proved (see *Proofs*) does not rest on bounds.

Deadlock is not checked: every bounded run ends when its inputs are used up, and
the pipeline, the bus, `Run` and the runtime are meant to stop. That they do not
stop too early is what the liveness properties say.

`Aggregation` and `Locker`, whose proofs need one, have a type invariant `TypeOK`;
the other modules give the type of a variable where it is declared.

### Fairness

Weak fairness only, and only for goroutines that the Go scheduler runs whenever
they can proceed. Nobody is obliged to send, close, cancel or restart.

- `Agent`: the collector and the sender run, a closed reader ends `pump`, the grace
  timer fires, and a `Send` whose context the timer cancelled returns. A `Send` that
  was not cancelled may hang for ever. A `select` does not ignore a ready case for
  ever (Go chooses among ready cases at random).
- `Shipper`: `Drain` is a loop with a timer, `Send` finishes what it began. Faults
  are finitely many; Kafka may flap for ever.
- `Ingestion`: a stage with a record to fetch, deliver, bury or commit goes on, and
  its poll returns once it was closed or cancelled.
- `Bus`: a sender, a consumer or `Close` that can proceed does. A sender's context
  need not expire.
- `Aggregation`: the emit ticker (time passes every window, so every window is
  selected in the end), the publish pass and the stores' consumers run. A consumer
  that ended with an error of Kafka is a delay until its process is started again. A
  store need not ever answer: a window may be dead-lettered instead.
- `StateStores`: the goroutine of a watch and the call that waits for it. No timer has
  to fire. `stores_follow` adds that the caller calls again and that a cancelled
  subscription ends.
- `Runtime`: the stages run, and `shutdown` goes on when its wait is over. A call to a
  store returns. A call to Kafka returns while Kafka is up; it may hang for as long as
  Kafka is down, and Kafka need not come back, which is why `StopEnds` is conditional.
  The grace timer of an agent fires and ends its sends, once its collector has
  returned. No tick and no commit of offsets has to happen.

## Proofs

### Aggregation

For any finite set of correlation keys and any number of windows, targets, events,
failed publishes, dead letters and losses of the process (`AggregationAssumption`),
`AggregationProofs` proves the first, `AggregationCountProofs` the second and
`AggregationHeldProofs` the other two:

- `TypeCorrect`: `Spec => []TypeOK`.
- `CountedOncePerProcess`: `Spec => []RecountsNeedCrashes`. A store counts an event at
  most `1 + crashes` times, and no two emissions share an identity.
- `NothingForgotten`: `Spec => []HandledIsKept`. What the current process has handled
  is shed, held, or on every target's topic.
- `CeilingHolds`: `Spec => []HeldWithinCeiling`.

None of these is inductive as it stands. The strengthenings:

- `SequenceInv`: every emission's number is at most `sequence`, and numbers are
  unique. `collect` numbers from `sequence` on, and a successor starts above it.
  This gives unique identities, and lets `Commit`, which forgets by identity,
  forget only what was published.
- `OpenInv`: an event is in at most one open window, and only if it was read.
- `CopiesInv`, the heart of the counting theorem: the emissions that contain an event,
  plus one if it is in an open window, are at most the processes lost, plus one if
  the current process has read it. `HandleBatch` raises both sides, `collect` turns the
  open window into one emission, `Crash` adds a loss and forgets the read.
- `CountInv`: a store's count is at most the number of applied emissions that contain
  the event. `ApplyWindow` adds one to both.
- `ReachedInv`: a window that a pass holds as published is on every target's topic.

The ceiling needs only that `collect` makes at most one window for each key it
empties (`FreshCardinality`).

### Locks

`LockerProofs` proves, for any set of clients and any number of leases, of either
locker:

- `GuardIsExclusive`: of the leases that clients believe they have at most one
  passes `Guard`.
- `FencingNeverGoesBack`: once a lease has passed, no older one does.
- `ReleaseIsTheOwners`: no client ends the lease of another.
- `LockerImplementsFencedLock`: `Locker` implements `FencedLock`, the holder being the
  client to which the token in force was issued.

The invariant is `TokensAreIssuedOnce`: a token in force is the newest, and a lease
or an answer under way that carries it belongs to the client it was issued to. It
holds because the counter outlives the lock. `GuardsAgree` shows that the two
implementations of `Guard`, which compare in different orders, accept the same leases.
Run `stores` checks the refinement through `StateStores`.

### Metrics

`AsyncMetricsProofs` proves `SamplesAreAccounted`: `Spec => []SamplesAccounted` for any
number of callers and any capacity. The strengthening: `drain` leaves its first loop
only after the flag is set, a caller that is past its look at the flag by then is in
`raced` (`Late`), and what is in the channel after `drain` has returned came
from them.

### Capture

`CaptureProofs` proves `LatenciesAreOwn`: `Spec => []LatencyIsOwn` for any number of
threads and CPUs and any limits. The strengthening is about `start_times`
(`Entries`): while the programs are attached, the entry of a thread inside a call is
that call's; before `sys_enter` is attached there are no entries, and skipped threads
never have one; once detached, the programs are not attached again. An entry whose
exit was not seen does stay behind, and is harmless because the next entry
overwrites it.

`Ingestion` and `Agent` take the steps of `AsyncMetrics` and `Capture` together with steps
of other parts, and change their variables in no other way.

### Left to TLC

Liveness, the refinements of `DurableQueue` and `RecordLog`, the codecs, and the safety
of `Spool`, `Shipper`, `Batcher`, `Bus`, `KafkaBus`, `IngestServer`, `Runtime` and the stores.

## Findings

1. `docs/availability.md:36` says that during a Kafka outage ingest returns 503 and
   that "an agent never believes a dropped batch succeeded". The handler answers
   400 to every error of `Accept` but a device mismatch
   (`internal/httpingest/server.go:169`), and the agent treats a 400 as permanent
   (`internal/transport/https.go:206`): it discards the batch, and a spooled one as
   well. Run `shipper_loss`. `OnlyOutagesForget` shows that nothing else loses one.
2. `docs/availability.md:53` says "Offsets are committed only after a window is
   emitted". The consumer commits when the handler returns
   (`internal/kafkabus/bus.go:285`), which is when the events are in memory. Run
   `aggregation_loss`.
3. `internal/mcpserver/server.go:18` tells callers of `watch_device` to "call it in a loop
   to follow a device live". Each call subscribes anew and returns the first update
   only, so a change between two calls, or a second one during a call, is not shown
   until the device changes again. Run `stores_follow`. `ChangeWakesWatch` states what
   does hold.
4. `docs/availability.md:51` says that while Postgres is unavailable windows
   "accumulate in Kafka" and that "the persister catches up once the database returns".
   `deliver` calls the handler three times at once, then writes the record to the dead
   letter topic (`internal/kafkabus/bus.go:322`), and `poll` commits it. Records fetched
   during an outage do not wait, and nothing in the repository reads that topic. Run
   `kafka_outage`. `ImplementsRecordLog` states what does hold: none is passed over.

The paragraph behind finding 2 also says that replay is safe because the store
applies the identity "correlation key + window_id" once. Identities also contain a
sequence number that a successor seeds from the clock, so a replayed event is
counted again; `RecountsNeedCrashes` states the bound that does hold.

More observations.
`internal/redisstore/store_test.go:184` expects the worst percentile of a window; both
hot stores keep that of the largest emission, and the first to arrive among equals
(`StateIsMerge`), which is why hot store and archive may differ on a tie
(`FallbackAgrees`). A reset is not applied to the archive, so a stale answer after a
reset shows the counts from before it. A reset command has no identity: delivered
twice, it also clears what was counted in between. A thread
that ends inside a system call leaves its entry behind: the first exit of the
next thread with its id is paired with it (the exemption in `LatencyIsOwn`). A sample
whose `Increment` overlaps `Close` may stay in the channel uncounted
(`SamplesAccounted`).

`agent/main.go:75` calls `-ebpf-max-events-per-cpu` a "per-CPU event ceiling per second",
and `docs/availability.md:55` speaks of a "token bucket". `rate_limited` counts in fixed
windows that begin with an event: with a limit of N up to 2N - 1 events pass within a
second that straddles two of them. `RateIsBounded` states that bound, and run `agent`
reaches it.

`docs/state-sync.md:49` says that `ResetDevice` "preserves `last_window_id` so an in-flight
window cannot re-apply after a reset". What keeps a window from being applied again is
the set of identities, which a reset leaves alone; `last_window_id` is compared only to
choose percentiles. A window that was not applied before the reset is applied after
it, whatever its id.

`Stop` has no deadline. `ProduceSync` has no delivery timeout and runs under `runCtx`, which
is detached from the caller's context (`internal/app/runtime.go:218`) and cancelled after
everything else (`:323`). So while Kafka is down the last emission keeps `Stop` waiting
(`:309`), and so does an agent whose collector is blocked behind a hung send: its grace
timer starts only when the collector has returned. `StopEnds` states what does hold.

Redis forgets identities after `DedupeTTL`. `HotStore` models that; `Aggregation` keeps them
as the memory store does, so `RecountsNeedCrashes` is about redeliveries within that
time.

## Not modelled

- The quantile sketch: its buckets are floating-point logarithms.
- The generated protobuf code and the client libraries of Kafka, Redis and Postgres:
  taken as doing what the code relies on. Rebalancing between live members of a
  consumer group is part of the first.
- TLS, certificates, flags, tracing, health and metrics endpoints: no state that
  another part depends on. Backoff durations and counters of the transport.
- Tools of the MCP server other than `watch_device`: each reads a store once or
  publishes one command. A tool call under way while `Stop` runs is not among the users
  that `UsersEndFirst` speaks of. Listings of the stores, and `UserDevices` of the fallback,
  which follows `DeviceState`.
- `ResetDevice` of Postgres, which nothing calls.
- What a caller does under a lock after `Guard` returned: no code in the repository
  uses the locks yet.
- Load generators, probes and other tools that observe a running system.
