---------------------------- MODULE StateStores -----------------------------
(***************************************************************************)
(* The two stores of one device side by side, each fed by a consumer group *)
(* of its own from the topic of windows, and the read path of              *)
(* internal/app/fallback.go, which answers from the archive while the hot  *)
(* store cannot be reached.  Resets go to the hot store alone.  The lock   *)
(* lives in the same backend as the hot store.                             *)
(***************************************************************************)
EXTENDS Integers, FiniteSets, Sequences

CONSTANTS Emissions, TTL, Watchers, Slots, WatchBuffer, Days, MaxTime, MaxResets, MaxOutages
CONSTANTS Clients, Nobody, MaxAcquires

ASSUME StoresAssumption ==
  /\ IsFiniteSet(Emissions) /\ IsFiniteSet(Watchers)
  /\ \A e \in Emissions : /\ e \in [window: Nat \ {0}, sequence: Nat, count: Nat \ {0}, p99: Nat]
                          /\ \A f \in Emissions : e.sequence = f.sequence => e = f
  /\ TTL \in Nat \ {0} /\ Slots \in Nat \ {0} /\ WatchBuffer \in Nat \ {0}
  /\ Days \subseteq Nat
  /\ MaxTime \in Nat /\ MaxResets \in Nat /\ MaxOutages \in Nat

VARIABLES backend, now, record, score, resets, reachable, outages, watch, incoming, fetched,
          updates, version, since, behind, missed, life, counted
VARIABLE part \* which part moves: "watches", "archive" (Postgres is configured) or "locks"
VARIABLES rows, inDefault, partitions, doomed, cutoff, archived
VARIABLES token, live, fence, asked, lease, owner, guarded

Hot == INSTANCE HotStore
Archive == INSTANCE Archive
Locks == INSTANCE Locker

hot == <<backend, now, record, score, resets, reachable, outages, watch, incoming, fetched,
         updates, version, since, behind, missed, life, counted>>
archive == <<rows, inDefault, partitions, doomed, cutoff, archived>>
locks == <<token, live, fence, asked, lease, owner, guarded>>
vars == <<part, hot, archive, locks>>

Parts == {"watches", "archive", "locks"}

Init == part \in Parts /\ Hot!Init /\ Archive!Init /\ Locks!Init

\* Neither the archive nor the expiry of identities shares state with watches, so it
\* is enough that each of them occurs with the writes: a behaviour without an archive
\* has watches and outages, one with it has a clock.  The lock's keys are its own.
Next ==
  \/ /\ part # "locks" /\ Hot!Next
     /\ IF part = "archive" THEN watch' = watch /\ reachable' = reachable ELSE now' = now
     /\ UNCHANGED <<part, archive, locks>>
  \/ /\ part = "archive"
     /\ Archive!Next
     /\ UNCHANGED <<part, hot, locks>>
  \/ /\ part = "locks"
     /\ Locks!Next
     /\ UNCHANGED <<part, hot, archive>>

Spec == Init /\ [][Next]_vars

\* The goroutines of a watch and the call that waits for them run; nobody is
\* obliged to write, to watch, or to time out.
FairSpec ==
  /\ Spec
  /\ \A w \in Watchers : WF_hot(Hot!Fetch(w)) /\ WF_hot(Hot!Push(w)) /\ WF_hot(Hot!Receive(w))

\* A caller that follows the device calls again whenever a call has ended.
FollowSpec ==
  /\ FairSpec
  /\ \A w \in Watchers : WF_hot(Hot!Unwatch(w)) /\ WF_hot(Hot!WatchDevice(w))

-----------------------------------------------------------------------------
(* fallbackState.DeviceState: what a read answers when the hot store can or *)
(* cannot be reached.  A device that a hot store does not know is unknown;  *)
(* one that the archive does not know either leaves the first error.        *)
HotAnswer ==
  IF record.known
  THEN [kind |-> "fresh", count |-> record.count, last |-> record.last, p99 |-> record.p99]
  ELSE [kind |-> "unknown"]

ArchiveAnswer ==
  IF Archive!Found
  THEN [kind |-> "stale", count |-> Archive!Count, last |-> Archive!LastWindow,
        p99 |-> Archive!Latest.p99]
  ELSE [kind |-> "error"]

DeviceState(hotUp) == IF hotUp THEN HotAnswer ELSE ArchiveAnswer

\* Both stores hold the same emissions, once each, and there was no reset.
Settled ==
  /\ rows # {} /\ resets = 0
  /\ \A e \in Emissions : life[e] = IF e \in rows THEN 1 ELSE 0

\* The newest window has one largest emission.
Undisputed ==
  \A e, f \in rows : (e.window = f.window /\ e.count = f.count) => e = f

\* The fallback: once both stores have caught up with the same emissions, in orders
\* of their own, an outage of the hot store changes nothing in an answer but its
\* stale flag.  Percentiles may differ when two emissions of the newest window tie.
FallbackAgrees ==
  Settled =>
    LET fresh == DeviceState(TRUE)
        stale == DeviceState(FALSE)
    IN /\ fresh.kind = "fresh" /\ stale.kind = "stale"
       /\ fresh.count = stale.count /\ fresh.last = stale.last
       /\ Undisputed => fresh.p99 = stale.p99

-----------------------------------------------------------------------------
\* ApplyWindow and ResetDevice of the hot store: its record is the merge of what was
\* applied since the last reset, in any order.
StateIsMerge == Hot!StateIsMerge

\* The applied set of the hot store: an emission is counted again only TTL later.
RecountsNeedExpiry == Hot!RecountsNeedExpiry

\* WatchDevice: a watch hands out what happened after it subscribed, in order.
WatchShowsNews == Hot!WatchShowsNews

\* notify and WatchDevice: a change ends every watch that waits for one, unless the
\* server was cut off from Redis.
ChangeWakesWatch == Hot!ChangeWakesWatch

\* internal/mcpserver/server.go:18, "call it in a loop to follow a device live": the
\* caller of such a loop is in the end shown what each change led to.
FollowsLive == Hot!FollowsLive

\* EnsurePartition, adoptFromDefaultPartition and DropPartitionsBefore: the archive
\* keeps what it has stored until retention drops its day.
ArchivedIsKept == Archive!ArchivedIsKept

\* Acquire, Release and Guard of either locker: one holder at a time, larger tokens for
\* later holders, Guard for the holder alone.
ImplementsFencedLock == Locks!ImplementsFencedLock

=============================================================================
