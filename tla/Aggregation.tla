---------------------------- MODULE Aggregation ----------------------------
(***************************************************************************)
(* The aggregation path: raw events are folded into open windows by the    *)
(* aggregator (internal/aggregate), emitted in two phases (collect, then   *)
(* commit what was published) by its service (internal/aggregator) through *)
(* a fan-out of publishers (internal/app), and applied to one store per    *)
(* target, which recognises redelivered emissions by their identity.       *)
(*                                                                         *)
(* An event is the offset of its record in the raw topic; its data is the  *)
(* (correlation, window) pair it belongs to.  A window holds the set of    *)
(* its events: the code's count is the size of that set.  The raw topic is *)
(* read with the offset bookkeeping of the Kafka consumer; it holds what   *)
(* devices send, in any order of windows, so late events are among them.   *)
(***************************************************************************)
EXTENDS Naturals, FiniteSets

CONSTANTS
    Correlations,    \* correlation keys (user, device, process, pod)
    LastWindow,      \* window ids are 0..LastWindow
    Targets,         \* publishers of the fan-out, one store behind each
    MaxOpenWindows,  \* Config.MaxOpenWindows, the ceiling on held windows
    MaxEvents,       \* bound: raw events
    MaxFaults,       \* bound: PublishWindow calls that fail
    MaxCrashes       \* bound: losses of the aggregator process

Keys == Correlations \X (0 .. LastWindow)

Events == 1 .. MaxEvents

ASSUME AggregationAssumption ==
    /\ IsFiniteSet(Correlations)
    /\ LastWindow \in Nat
    /\ MaxOpenWindows \in Nat \ {0}
    /\ MaxEvents \in Nat
    /\ MaxFaults \in Nat
    /\ MaxCrashes \in Nat

VARIABLES
    raw,        \* the raw topic: the key of the event at each offset
    position,   \* events the consumer has handed to HandleBatch
    committed,  \* the consumer group's committed offset
    resumed,    \* the offset at which the current process started to read
    open,       \* Aggregator.open: the events of each key's open window
    pending,    \* Aggregator.pending: windows collected and not committed
    sequence,   \* Aggregator.sequence
    shed,       \* events refused at the ceiling
    emitting,   \* a publish pass is running
    todo,       \* windows of the pass not tried yet
    published,  \* windows of the pass that every target accepted
    topic,      \* per target: the windows published to it
    applied,    \* per target: identities its store has applied
    counted,    \* per target: how often its store has counted each event
    buried,     \* per target: the windows it has dead-lettered
    faults,     \* failed PublishWindow calls so far
    crashes     \* aggregator processes lost so far

input == <<raw, position, committed, resumed, shed>>
memory == <<open, pending, sequence>>
pass == <<emitting, todo, published>>
stores == <<applied, counted, buried>>
vars == <<input, memory, pass, topic, stores, faults, crashes>>

(***************************************************************************)
(* domain.AggregateWindow and its Identity(): key#window#sequence.         *)
(***************************************************************************)
Window == [key : Keys, seq : Nat, events : SUBSET Events]

Identity(w) == <<w.key, w.seq>>

(* Keys with an open window: a window is created by its first event. *)
OpenKeys == {k \in Keys : open[k] # {}}

(* heldWindows() *)
HeldWindows == Cardinality(OpenKeys) + Cardinality(pending)

Init ==
    /\ raw \in [Events -> Keys]
    /\ position = 0
    /\ committed = 0
    /\ resumed = 0
    /\ open = [k \in Keys |-> {}]
    /\ pending = {}
    /\ sequence = 0
    /\ shed = {}
    /\ emitting = FALSE
    /\ todo = {}
    /\ published = {}
    /\ topic = [t \in Targets |-> {}]
    /\ applied = [t \in Targets |-> {}]
    /\ counted = [t \in Targets |-> [e \in Events |-> 0]]
    /\ buried = [t \in Targets |-> {}]
    /\ faults = 0
    /\ crashes = 0

-----------------------------------------------------------------------------
(***************************************************************************)
(* The aggregator.  HandleBatch ingests under the aggregator's mutex; a    *)
(* batch is a run of these steps.                                          *)
(***************************************************************************)
(* Mutant: windows waiting to be published do not count. *)
AdmitsOpen(k) == open[k] # {} \/ Cardinality(OpenKeys) < MaxOpenWindows

Admits(k) == open[k] # {} \/ HeldWindows < MaxOpenWindows

HandleBatch ==
    /\ position < MaxEvents
    /\ position' = position + 1
    /\ LET e == position + 1
           k == raw[e]
       IN  IF Admits(k)
           THEN /\ open' = [open EXCEPT ![k] = @ \cup {e}]
                /\ UNCHANGED shed
           ELSE /\ shed' = shed \cup {e}
                /\ UNCHANGED open
    /\ UNCHANGED <<raw, committed, resumed, pending, sequence, pass, topic,
                   stores, faults, crashes>>

(* Mutant: the record being fetched is committed as well. *)
CommitAhead ==
    /\ committed < MaxEvents
    /\ committed' = position + 1
    /\ UNCHANGED <<raw, position, resumed, shed, memory, pass, topic, stores,
                   faults, crashes>>

(* The poll loop commits the records it has handed to the handler. *)
CommitOffsets ==
    /\ committed < position
    /\ committed' = position
    /\ UNCHANGED <<raw, position, resumed, shed, memory, pass, topic, stores,
                   faults, crashes>>

(***************************************************************************)
(* collect: every selected open window gets the next sequence number and   *)
(* moves to pending; the pass then publishes all of pending, the windows   *)
(* an earlier pass failed to publish included.                             *)
(***************************************************************************)
Selected(boundary) == {k \in OpenKeys : k[2] < boundary}

Numberings(S) ==
    {f \in [S -> 1 .. Cardinality(S)] :
        \A j, k \in S : (f[j] = f[k] => j = k) /\ (j[2] < k[2] => f[j] < f[k])}

(* Mutant: windows an earlier pass failed to publish are left alone. *)
OnlyFresh == pending' \ pending

ToPublish == pending'

Collect(boundary) ==
    /\ ~emitting
    /\ Selected(boundary) # {} \/ pending # {}
    /\ \E number \in Numberings(Selected(boundary)) :
          pending' = pending \cup
              {[key |-> k, seq |-> sequence + number[k], events |-> open[k]] :
                   k \in Selected(boundary)}
    /\ sequence' = sequence + Cardinality(Selected(boundary))
    /\ open' = [k \in Keys |-> IF k \in Selected(boundary) THEN {} ELSE open[k]]
    /\ emitting' = TRUE
    /\ todo' = ToPublish
    /\ published' = {}
    /\ UNCHANGED <<input, topic, stores, faults, crashes>>

(* EmitClosedWindows with a watermark in window `boundary'. *)
EmitClosedWindows == \E boundary \in 0 .. LastWindow : Collect(boundary)

(* EmitAll: every window is selected. *)
EmitAll == Collect(LastWindow + 1)

(* Mutant: one target is enough. *)
PublishedAnywhere(accepting) == accepting # {}

PublishedEverywhere(accepting) == accepting = Targets

(***************************************************************************)
(* PublishWindow of the fan-out: every target is tried, and one error is   *)
(* enough for the window to stay pending.  A target that reports an error  *)
(* may have taken the window all the same (`reached').                     *)
(***************************************************************************)
PublishWindow(w) ==
    /\ emitting
    /\ w \in todo
    /\ todo' = todo \ {w}
    /\ \E reached \in SUBSET Targets : \E accepting \in SUBSET reached :
          /\ accepting # Targets => faults < MaxFaults
          /\ faults' = IF accepting = Targets THEN faults ELSE faults + 1
          /\ topic' = [t \in Targets |->
                          IF t \in reached THEN topic[t] \cup {w} ELSE topic[t]]
          /\ published' = IF PublishedEverywhere(accepting)
                          THEN published \cup {w} ELSE published
    /\ UNCHANGED <<input, memory, emitting, stores, crashes>>

(* Commit: forget the windows that every target accepted. *)
Commit ==
    /\ emitting
    /\ todo = {}
    /\ pending' = {w \in pending : Identity(w) \notin {Identity(v) : v \in published}}
    /\ emitting' = FALSE
    /\ published' = {}
    /\ UNCHANGED <<input, open, sequence, todo, topic, stores, faults, crashes>>

(* Mutant: the sequence starts over. *)
SeedZero == 0

(* time.Now().UnixNano(): above every number issued before. *)
SequenceSeed == sequence

(***************************************************************************)
(* The process is lost with everything it held.  The next owner resumes    *)
(* at the committed offset and seeds its sequence from the clock, above    *)
(* every sequence issued before.                                           *)
(***************************************************************************)
Crash ==
    /\ crashes < MaxCrashes
    /\ crashes' = crashes + 1
    /\ position' = committed
    /\ resumed' = committed
    /\ open' = [k \in Keys |-> {}]
    /\ pending' = {}
    /\ emitting' = FALSE
    /\ todo' = {}
    /\ published' = {}
    /\ sequence' = SequenceSeed
    /\ UNCHANGED <<raw, committed, shed, topic, stores, faults>>

-----------------------------------------------------------------------------
(* The store remembers identities; Redis for DedupeTTL only (see HotStore). *)
IsNotApplied(t, w) == Identity(w) \notin applied[t]

(***************************************************************************)
(* The store behind target t applies a window of its topic.  Delivery is   *)
(* at least once and in any order.  A window whose identity was applied    *)
(* before changes nothing, so handing it over again is a stutter.  One     *)
(* that was dead-lettered is applied after all if it is published again.   *)
(***************************************************************************)
ApplyWindow(t, w) ==
    /\ w \in topic[t]
    /\ IsNotApplied(t, w)
    /\ applied' = [applied EXCEPT ![t] = @ \cup {Identity(w)}]
    /\ counted' = [counted EXCEPT ![t] =
                      [e \in Events |-> IF e \in w.events THEN @[e] + 1 ELSE @[e]]]
    /\ UNCHANGED <<input, memory, pass, topic, buried, faults, crashes>>

(***************************************************************************)
(* HandleWindow has failed at every attempt: the consumer dead-letters the *)
(* window and goes on.  The store may have applied it without saying so.   *)
(***************************************************************************)
DeadLetter(t, w) ==
    /\ w \in topic[t] \ buried[t]
    /\ buried' = [buried EXCEPT ![t] = @ \cup {w}]
    /\ UNCHANGED <<input, memory, pass, topic, applied, counted, faults, crashes>>

Publish == \E w \in todo : PublishWindow(w)

(* A window on its way to the store, and one that comes back. *)
Apply == \E t \in Targets : \E w \in topic[t] \ buried[t] : ApplyWindow(t, w)
ApplyAfterAll == \E t \in Targets : \E w \in buried[t] : ApplyWindow(t, w)

Bury == \E t \in Targets : \E w \in topic[t] : DeadLetter(t, w)

Next ==
    \/ HandleBatch
    \/ CommitOffsets
    \/ EmitClosedWindows
    \/ EmitAll
    \/ Publish
    \/ Commit
    \/ Crash
    \/ Apply
    \/ ApplyAfterAll
    \/ Bury

Spec == Init /\ [][Next]_vars

-----------------------------------------------------------------------------
(* Every variable has its type; a pass publishes only pending windows. *)
TypeOK ==
    /\ raw \in [Events -> Keys]
    /\ position \in 0 .. MaxEvents
    /\ committed \in 0 .. position
    /\ resumed \in 0 .. committed
    /\ shed \subseteq Events
    /\ open \in [Keys -> SUBSET Events]
    /\ pending \subseteq Window /\ IsFiniteSet(pending)
    /\ sequence \in Nat
    /\ emitting \in BOOLEAN
    /\ todo \subseteq pending
    /\ published \subseteq pending
    /\ topic \in [Targets -> SUBSET Window]
    /\ applied \in [Targets -> SUBSET (Keys \X Nat)]
    /\ counted \in [Targets -> [Events -> Nat]]
    /\ buried \in [Targets -> SUBSET Window]
    /\ faults \in 0 .. MaxFaults
    /\ crashes \in 0 .. MaxCrashes

(***************************************************************************)
(* No store counts an event twice, although a window that one target       *)
(* refused is published again to all of them, a target may have taken a    *)
(* window it reported as failed, and late events reopen a window that was  *)
(* already emitted (ApplyWindow's check of Identity, collect's sequence).  *)
(* Only the loss of the process, after which records that were handled but *)
(* not committed are read again, adds one count, since the successor emits *)
(* under identities of its own (SequenceSeed).                             *)
(***************************************************************************)
Emitted == pending \cup UNION {topic[t] : t \in Targets}

RecountsNeedCrashes ==
    /\ \A t \in Targets : \A e \in Events : counted[t][e] <= 1 + crashes
    /\ \A v, w \in Emitted : v # w => Identity(v) # Identity(w)

(***************************************************************************)
(* An event that the current process has handled is shed, held in memory,  *)
(* or published to every target: a failed or half-failed publish, and the  *)
(* commit of a pass that ran while new windows opened, forget nothing      *)
(* (publish and Commit).                                                   *)
(***************************************************************************)
Kept(e) ==
    \/ e \in shed
    \/ \E k \in Keys : e \in open[k]
    \/ \E w \in pending : e \in w.events
    \/ \A t \in Targets : \E w \in topic[t] : e \in w.events

HandledIsKept == \A e \in resumed + 1 .. position : Kept(e)

(***************************************************************************)
(* A record whose offset is committed is never read again, so its event    *)
(* must be shed, held by a live process or published.  This is what        *)
(* docs/availability.md says of the loss of an aggregator: "Offsets are    *)
(* committed only after a window is emitted".                              *)
(***************************************************************************)
CommittedIsKept == \A e \in 1 .. committed : Kept(e)

(***************************************************************************)
(* The windows held in memory stay within the ceiling whatever the         *)
(* publisher does: windows that could not be published count against it    *)
(* (heldWindows in ingestLocked).                                          *)
(***************************************************************************)
HeldWithinCeiling == HeldWindows <= MaxOpenWindows

(***************************************************************************)
(* Every event that a process accepts is eventually counted by every       *)
(* store, however many publishes fail on the way (each pass publishes what *)
(* is pending again), unless that process is lost or the store's consumer  *)
(* dead-letters the window; what one store refuses, the other still gets.  *)
(***************************************************************************)
Settled(t, e) == counted[t][e] > 0 \/ \E w \in buried[t] : e \in w.events

AcceptedIsCounted ==
    \A e \in Events :
        (e \in resumed + 1 .. position /\ e \notin shed)
            ~> (e \notin resumed + 1 .. position \/ \A t \in Targets : Settled(t, e))

=============================================================================
