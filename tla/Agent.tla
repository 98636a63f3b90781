------------------------------- MODULE Agent --------------------------------
(***************************************************************************)
(* The agent process (agent/main.go): a capture source, synthetic or eBPF, *)
(* feeding the batcher over an unbuffered channel, both under the context  *)
(* of run.  The transport is Shipper's.                                    *)
(***************************************************************************)
EXTENDS Integers, FiniteSets, SequencesExt

CONSTANTS Policies, MaxEvents, QueueDepth, Produced, Invalid
CONSTANTS Threads, Skipped, CPUs, MinLatency, MaxPerSecond, Second, RingSize,
          MaxTime, MaxExits

ASSUME AgentAssumption ==
  /\ Policies \subseteq {"oldest", "newest", "block"}
  /\ MaxEvents \in Nat \ {0} /\ QueueDepth \in Nat \ {0} /\ Produced \in Nat
  /\ Invalid \subseteq 1..Produced
  /\ Second \in Nat \ {0} /\ MaxPerSecond \in Nat

VARIABLES policy, read, closed, cancelled, pending, collector, batch, next, queue, sender, hand,
          grace, handed, dropped
VARIABLES now, thread, reused, attached, start, rate, passed, ring, stats, pump, offered
VARIABLE mode \* -capture: "synthetic" or "ebpf"

Batcher == INSTANCE Batcher
Capture == INSTANCE Capture WITH hand <- offered

batcher == <<policy, read, closed, cancelled, pending, collector, batch, next, queue, sender,
             hand, grace, handed, dropped>>
capture == <<now, thread, reused, attached, start, rate, passed, ring, stats, pump, offered>>
vars == <<mode, batcher, capture>>

\* newBatcher drops the oldest; the synthetic source also feeds mcp-server's agents,
\* which block.
Init ==
  /\ mode \in {"synthetic", "ebpf"}
  /\ Batcher!Init /\ Capture!Init
  /\ mode = "ebpf" => policy = "oldest"

\* SyntheticSource.Events: the goroutine produces while it is read, and closes the
\* channel when it has produced everything, is closed, or its context is cancelled.
Synthetic == Batcher!Next /\ UNCHANGED capture

\* The rest of Run, which starts once Events has returned a channel.
Run ==
  \/ Batcher!Cancel \/ Batcher!CollectTick \/ Batcher!CollectEnds
  \/ Batcher!Offer \/ Batcher!Evict \/ Batcher!Reoffer
  \/ Batcher!SenderReceives \/ Batcher!SendReturns \/ Batcher!GraceExpires

PumpEnds == cancelled /\ Capture!PumpReturns /\ Batcher!SourceCloses
CloseSource == Batcher!Returned /\ Capture!CloseSource /\ UNCHANGED batcher

\* The channel of pump is unbuffered: an event is delivered when the batcher takes it,
\* and the channel closes when pump returns.  What the programs do after the signal only
\* adds to a ring buffer that pump may no longer read, and is left out.
EBPF ==
  \/ ~cancelled /\ Capture!Kernel /\ UNCHANGED batcher
  \/ Capture!Open /\ UNCHANGED batcher
  \/ Capture!Read /\ UNCHANGED batcher
  \/ Capture!Delivered /\ Batcher!CollectEvent
  \/ PumpEnds
  \/ CloseSource
  \/ pump \notin {"closed", "refused"} /\ Run /\ UNCHANGED capture

Next ==
  /\ UNCHANGED mode
  /\ \/ mode = "synthetic" /\ Synthetic
     \/ mode = "ebpf" /\ EBPF

Spec == Init /\ [][Next]_vars

\* The goroutines run, a closed reader ends its Read, the timer fires, a cancelled Send
\* returns, and a select does not choose another ready case for ever.
FairSpec ==
  /\ Spec
  /\ WF_vars(mode = "ebpf" /\ PumpEnds /\ UNCHANGED mode)
  /\ WF_vars(mode = "ebpf" /\ CloseSource /\ UNCHANGED mode)
  /\ WF_vars((Batcher!Offer \/ Batcher!Evict \/ Batcher!Reoffer) /\ UNCHANGED <<mode, capture>>)
  /\ WF_vars(Batcher!CollectEnds /\ UNCHANGED <<mode, capture>>)
  /\ WF_vars(Batcher!SenderReceives /\ UNCHANGED <<mode, capture>>)
  /\ WF_vars(Batcher!GraceExpires /\ UNCHANGED <<mode, capture>>)
  /\ WF_vars(grace /\ Batcher!SendReturns /\ UNCHANGED <<mode, capture>>)

-----------------------------------------------------------------------------
\* accept, Enqueue, send, Run: every event that accept() counted is in exactly one place,
\* in the order of capture, however the overflow policy and the sender race for the
\* channel; when Run has returned it was sent or counted as dropped.
EveryEventAccounted == Batcher!EveryEventAccounted

\* dropOldest: no event is dropped while an older one stays on the channel.
OldestAreDropped == Batcher!OldestAreDropped

\* ironclaw_sys_enter, ironclaw_sys_exit: a latency is that of one system call of one
\* thread, also when entries were evicted, or calls were under way when the programs were
\* attached one after the other; only an id that was given to another thread can pair
\* with an older entry.
LatencyIsOwn == Capture!LatencyIsOwn

\* rate_limited: in no second, wherever in the limiter's windows it begins, does a CPU
\* let twice its limit pass: a window begins with an event that passes.  The limit
\* itself, the "event ceiling per second" of agent/main.go:75, holds in each window only.
RateIsBounded == Capture!RateIsBounded

\* stats, Source.Stats: every call that was paired is counted once as filtered,
\* rate-limited, too late for the ring buffer, or emitted; and what was emitted is in the
\* ring buffer, with pump, or read by the batcher, except one event that pump gives up
\* when it is cancelled.
CaptureAccounted ==
  /\ stats["observed"] = stats["filter"] + stats["rate"] + stats["ringbuf"] + stats["emitted"]
  /\ mode = "ebpf" =>
       stats["emitted"] = Len(ring) + (IF pump = "offer" THEN 1 ELSE 0) + read + stats["abandoned"]
  /\ stats["abandoned"] <= (IF cancelled THEN 1 ELSE 0)

\* run: after the signal the batcher returns, pump ends wherever it waits, and the
\* programs are detached.
CancelEndsRun ==
  cancelled ~> (Batcher!Returned /\ (mode = "ebpf" => pump = "returned" /\ attached = {}))

=============================================================================
