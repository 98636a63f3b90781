------------------------------ MODULE HotStore ------------------------------
(***************************************************************************)
(* The hot state of one device: internal/store (memory) or                 *)
(* internal/redisstore (Redis), written by the persister with redelivered  *)
(* and reordered emissions, reset by commands, and watched by calls of the *)
(* MCP tool watch_device.  Error and byte counts behave as the count and   *)
(* p95 as p99; LastSeen is the end of the window last.  Each operation is  *)
(* one step: the memory store holds its mutex, Redis runs a script.        *)
(***************************************************************************)
EXTENDS Integers, FiniteSetsExt, SequencesExt

CONSTANTS
  Emissions,   \* the windows on the topic: [window, sequence, count, p99]
  TTL,         \* DedupeTTL, in units of the clock
  Watchers,    \* callers of watch_device
  Slots,       \* MaxWatches of the MCP server
  WatchBuffer, \* watchBuffer: updates a watch holds
  MaxTime,     \* bound: ticks of the clock
  MaxResets,   \* bound: deliveries of a reset command
  MaxOutages   \* bound: times the MCP server loses Redis

VARIABLES
  backend,   \* which store runs: "memory" or "redis"
  now,       \* the clock of the writers and of Redis
  record,    \* deviceRecord, or the hash at stateKey
  score,     \* when each identity entered the applied set, Never when it is not in it
  resets,    \* history: resets applied
  reachable, \* can the MCP server reach the store?
  outages,   \* history: times it could not
  watch,     \* each call: "idle", "waiting", "leaving" (context cancelled) or "between" calls
  incoming,  \* notifications in the subscription's channel (Redis)
  fetched,   \* the version that the watch's goroutine has read and not yet sent (Redis)
  updates,   \* the versions in the watch's channel
  version,   \* history: changes of the record so far
  since,     \* history: the version at which the watch subscribed
  behind,    \* history: has the device changed since the version the caller last saw?
  missed,    \* history: has an outage cost this watch a notification?
  life,      \* history: how often each emission was applied
  counted    \* history: how often it was applied since the last reset

vars == <<backend, now, record, score, resets, reachable, outages, watch, incoming, fetched,
          updates, version, since, behind, missed, life, counted>>
stored == <<record, score, resets, version, life, counted>>
calls == <<watch, since>>
delivery == <<incoming, fetched, updates, missed, behind>>
world == <<backend, now, reachable, outages>>

Never == -1
NoVersion == 0

\* The memory store starts LastWindowID at 0; in Redis it is absent and read as -1.
EmptyRecord ==
  [known |-> FALSE, count |-> 0, p99 |-> 0, sample |-> 0,
   last |-> IF backend = "redis" THEN -1 ELSE 0]

Init ==
  /\ backend \in {"memory", "redis"}
  /\ now = 0 /\ resets = 0 /\ reachable = TRUE /\ outages = 0 /\ version = 0
  /\ record = EmptyRecord
  /\ score = [e \in Emissions |-> Never]
  /\ watch = [w \in Watchers |-> "idle"]
  /\ incoming = [w \in Watchers |-> 0]
  /\ fetched = [w \in Watchers |-> NoVersion]
  /\ updates = [w \in Watchers |-> <<>>]
  /\ since = [w \in Watchers |-> 0]
  /\ behind = [w \in Watchers |-> FALSE]
  /\ missed = [w \in Watchers |-> FALSE]
  /\ life = [e \in Emissions |-> 0] /\ counted = [e \in Emissions |-> 0]

-----------------------------------------------------------------------------
(* Notifications.  A watch is registered until its context is cancelled and *)
(* its goroutine has seen it.                                               *)
Registered(w) == watch[w] \in {"waiting", "leaving"}

\* A channel that is full drops the newest item.
Offer(channel, v) == IF Len(channel) < WatchBuffer THEN Append(channel, v) ELSE channel

\* The memory store sends the new state itself; Redis publishes that there is
\* one, and a subscriber that Redis cannot reach never hears of it.
Notify ==
  /\ version' = version + 1
  /\ IF backend = "memory"
     THEN /\ updates' = [w \in Watchers |->
                           IF Registered(w) THEN Offer(updates[w], version + 1) ELSE updates[w]]
          /\ UNCHANGED <<incoming, missed>>
     ELSE /\ incoming' = [w \in Watchers |->
                            IF Registered(w) /\ reachable /\ incoming[w] < WatchBuffer
                            THEN incoming[w] + 1 ELSE incoming[w]]
          /\ missed' = [w \in Watchers |-> missed[w] \/ (Registered(w) /\ ~reachable)]
          /\ UNCHANGED updates
  /\ behind' = [w \in Watchers |-> behind[w] \/ watch[w] # "idle"]
  /\ UNCHANGED fetched

-----------------------------------------------------------------------------
(* Writes.                                                                  *)

\* Redis lets the whole set expire TTL after its newest entry.
SetAlive == backend = "memory" \/ \E e \in Emissions : score[e] > now - TTL

Duplicate(e) == SetAlive /\ score[e] # Never

\* Mutant: identities are pruned one tick early.
PruneEarly(e) ==
  [x \in Emissions |-> IF x = e THEN now
                       ELSE IF backend = "redis" /\ score[x] <= now - TTL + 1 THEN Never
                       ELSE score[x]]

\* ZADD of the new identity, then ZREMRANGEBYSCORE of the old ones.
Remember(e) ==
  [x \in Emissions |-> IF x = e THEN now
                       ELSE IF backend = "redis" /\ score[x] <= now - TTL THEN Never
                       ELSE score[x]]

\* Counters add up; percentiles come from the newest window and in it from the
\* emission with the largest sample.
Merge(r, e) ==
  LET wins == e.window > r.last \/ (e.window = r.last /\ e.count > r.sample) IN
  [known |-> TRUE, count |-> r.count + e.count,
   last |-> IF e.window > r.last THEN e.window ELSE r.last,
   p99 |-> IF wins THEN e.p99 ELSE r.p99,
   sample |-> IF wins THEN e.count ELSE r.sample]

\* A delivery of emission e that is not a duplicate (one that is changes nothing
\* but a metric).  The persister's HandleWindow does no more than this.
ApplyWindow(e) ==
  /\ ~Duplicate(e)
  /\ record' = Merge(record, e)
  /\ score' = Remember(e)
  /\ life' = [life EXCEPT ![e] = @ + 1]
  /\ counted' = [counted EXCEPT ![e] = @ + 1]
  /\ Notify
  /\ UNCHANGED <<world, resets, calls>>

\* Mutant: the reset keeps the size of the percentile sample.
ResetKeepsSample(r) == [r EXCEPT !.count = 0, !.p99 = 0]

\* The last window and the identities stay.
Cleared(r) == [r EXCEPT !.count = 0, !.p99 = 0, !.sample = 0]

\* A delivery of a reset command.  One for an unknown device, an invalid one and
\* one of another kind are refused without a change.
HandleCommand ==
  /\ record.known /\ resets < MaxResets
  /\ record' = Cleared(record)
  /\ resets' = resets + 1
  /\ counted' = [e \in Emissions |-> 0]
  /\ Notify
  /\ UNCHANGED <<world, score, life, calls>>

-----------------------------------------------------------------------------
(* The MCP tool watch_device.                                               *)
Waiting == {w \in Watchers : watch[w] = "waiting"}

\* A slot is free and the subscription succeeds.  A call that is refused leaves
\* no trace.
WatchDevice(w) ==
  /\ watch[w] \in {"idle", "between"}
  /\ Cardinality(Waiting) < Slots
  /\ backend = "redis" => reachable
  /\ watch' = [watch EXCEPT ![w] = "waiting"]
  /\ since' = [since EXCEPT ![w] = version]
  /\ missed' = [missed EXCEPT ![w] = FALSE]
  /\ UNCHANGED <<world, stored, incoming, fetched, updates, behind>>

\* The goroutine of a Redis watch takes a notification and reads the state anew
\* (with a cancelled context the read fails and the goroutine ends) ...
Fetch(w) ==
  /\ watch[w] = "waiting" /\ incoming[w] > 0 /\ fetched[w] = NoVersion
  /\ incoming' = [incoming EXCEPT ![w] = @ - 1]
  /\ IF reachable
     THEN fetched' = [fetched EXCEPT ![w] = version] /\ UNCHANGED missed
     ELSE missed' = [missed EXCEPT ![w] = TRUE] /\ UNCHANGED fetched
  /\ UNCHANGED <<world, stored, calls, updates, behind>>

\* ... and sends what it read, unless the channel is full.
Push(w) ==
  /\ Registered(w) /\ fetched[w] # NoVersion
  /\ updates' = [updates EXCEPT ![w] = Offer(@, fetched[w])]
  /\ fetched' = [fetched EXCEPT ![w] = NoVersion]
  /\ UNCHANGED <<world, stored, calls, incoming, missed, behind>>

\* The call returns the first update and cancels the subscription ...
Receive(w) ==
  /\ watch[w] = "waiting" /\ updates[w] # <<>>
  /\ behind' = [behind EXCEPT ![w] = Head(updates[w]) < version]
  /\ updates' = [updates EXCEPT ![w] = Tail(@)]
  /\ watch' = [watch EXCEPT ![w] = "leaving"]
  /\ UNCHANGED <<world, stored, since, incoming, fetched, missed>>

\* ... or its timer or its own context ends it.
TimeOut(w) ==
  /\ watch[w] = "waiting"
  /\ watch' = [watch EXCEPT ![w] = "leaving"]
  /\ UNCHANGED <<world, stored, since, delivery>>

\* Mutant: a subscription's leftovers reach the caller's next watch.
UnwatchKeepsUpdates(w) ==
  /\ watch[w] = "leaving"
  /\ watch' = [watch EXCEPT ![w] = "between"]
  /\ UNCHANGED <<world, stored, since, delivery>>

\* Mutant: the end of one watch removes every subscription to the device.
UnwatchAll(w) ==
  /\ watch[w] = "leaving"
  /\ watch' = [watch EXCEPT ![w] = "between"]
  /\ incoming' = [x \in Watchers |-> 0]
  /\ fetched' = [x \in Watchers |-> NoVersion]
  /\ updates' = [x \in Watchers |-> <<>>]
  /\ UNCHANGED <<world, stored, since, missed, behind>>

\* The cancelled subscription is removed, and its channels with it.
Unwatch(w) ==
  /\ watch[w] = "leaving"
  /\ watch' = [watch EXCEPT ![w] = "between"]
  /\ incoming' = [incoming EXCEPT ![w] = 0]
  /\ fetched' = [fetched EXCEPT ![w] = NoVersion]
  /\ updates' = [updates EXCEPT ![w] = <<>>]
  /\ UNCHANGED <<world, stored, since, behind, missed>>

-----------------------------------------------------------------------------
Tick ==
  /\ now < MaxTime
  /\ now' = now + 1
  /\ UNCHANGED <<backend, reachable, outages, stored, calls, delivery>>

LoseRedis ==
  /\ backend = "redis" /\ reachable /\ outages < MaxOutages
  /\ reachable' = FALSE /\ outages' = outages + 1
  /\ UNCHANGED <<backend, now, stored, calls, delivery>>

RegainRedis ==
  /\ ~reachable
  /\ reachable' = TRUE
  /\ UNCHANGED <<backend, now, outages, stored, calls, delivery>>

WatchStep(w) == Fetch(w) \/ Push(w) \/ Receive(w)

Next ==
  \/ \E e \in Emissions : ApplyWindow(e)
  \/ HandleCommand
  \/ \E w \in Watchers : WatchDevice(w) \/ WatchStep(w) \/ TimeOut(w) \/ Unwatch(w)
  \/ Tick \/ LoseRedis \/ RegainRedis

-----------------------------------------------------------------------------
\* The emissions applied since the last reset that belong to the newest window.
Newest == {e \in Emissions : counted[e] > 0 /\ e.window = record.last}

\* ApplyWindow and ResetDevice compute, in whatever order emissions and resets
\* arrive, the merge of what was applied since the last reset: the counter is its
\* sum, the percentiles are those of a largest emission of the newest window ever
\* seen, and there are none while the reset has left that window empty.
StateIsMerge ==
  /\ record.count = MapThenSumSet(LAMBDA e : counted[e] * e.count, Emissions)
  /\ \A e \in Emissions : life[e] > 0 => e.window <= record.last
  /\ IF Newest = {}
     THEN record.p99 = 0 /\ record.sample = 0
     ELSE /\ \A e \in Newest : e.count <= record.sample
          /\ \E e \in Newest : e.count = record.sample /\ e.p99 = record.p99

\* The applied set drops a redelivered emission, across resets and prunings: an
\* emission is applied a second time only by Redis and only when TTL has passed
\* since the time before.
RecountsNeedExpiry ==
  \A e \in Emissions :
     /\ (life[e] - 1) * TTL <= now
     /\ backend = "memory" => life[e] <= 1

\* What a watch hands out happened after it subscribed, and in order, although
\* Redis watches read the state some time after they were notified of a change.
WatchShowsNews ==
  \A w \in Watchers :
     watch[w] = "waiting" =>
        LET pending == updates[w] \o (IF fetched[w] = NoVersion THEN <<>> ELSE <<fetched[w]>>)
        IN \A i \in DOMAIN pending :
              /\ since[w] < pending[i] /\ pending[i] <= version
              /\ i > 1 => pending[i - 1] <= pending[i]

\* A change of the device ends every watch that waits for one, whatever the other
\* watches of the device do and without the help of the timer, unless the server
\* was cut off from Redis at that moment.
ChangeWakesWatch ==
  \A w \in Watchers :
     (watch[w] = "waiting" /\ version > since[w]) ~> (watch[w] # "waiting" \/ missed[w])

\* internal/mcpserver/server.go:18 tells callers of watch_device to "call it in a
\* loop to follow a device live": a caller that does so is, after each change, in the
\* end shown the state it led to or a later one.
FollowsLive ==
  \A w \in Watchers : behind[w] ~> ~behind[w]
=============================================================================
