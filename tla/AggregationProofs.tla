------------------------- MODULE AggregationProofs -------------------------
(***************************************************************************)
(* The aggregation path for any number of correlation keys, windows,       *)
(* targets, events, failed publishes and losses of the process: its types, *)
(* and that no sequence number is ever issued twice.  The theorems of      *)
(* AggregationCountProofs and AggregationHeldProofs rest on these.         *)
(***************************************************************************)
EXTENDS Aggregation, FiniteSetTheorems, TLAPS

(* A window is emitted when it is pending or on the topic of some target. *)
LEMMA EmittedMember ==
  \A w : w \in Emitted <=> w \in pending \/ \E t \in Targets : w \in topic[t]
BY DEF Emitted

(* The same fact for the next state. *)
LEMMA EmittedMemberNext ==
  \A w : w \in Emitted' <=> w \in pending' \/ \E t \in Targets : w \in topic'[t]
BY DEF Emitted

(* There are finitely many keys, so every set of keys has a cardinality. *)
LEMMA KeysFinite ==
  \A S \in SUBSET Keys : IsFiniteSet(S) /\ Cardinality(S) \in Nat
<1>1. IsFiniteSet(0 .. LastWindow)
  BY FS_Interval, AggregationAssumption
<1>2. IsFiniteSet(Keys)
  BY <1>1, FS_Product, AggregationAssumption DEF Keys
<1>3. QED
  BY <1>2, FS_Subset, FS_CardinalityType

(* The windows that collect adds: one per selected key, numbered from the  *)
(* sequence on, no number twice.                                           *)
Fresh(boundary, number) ==
  {[key |-> k, seq |-> sequence + number[k], events |-> open[k]] :
     k \in Selected(boundary)}

(* What a step of collect does, in terms of the numbering it picked. *)
LEMMA CollectStep ==
  ASSUME TypeOK, NEW boundary, Collect(boundary)
  PROVE  \E number \in [Selected(boundary) -> Nat \ {0}] :
           /\ \A j, k \in Selected(boundary) : number[j] = number[k] => j = k
           /\ \A k \in Selected(boundary) : sequence + number[k] <= sequence'
           /\ pending' = pending \cup Fresh(boundary, number)
           /\ sequence' \in Nat /\ sequence' >= sequence
<1>. DEFINE S == Selected(boundary)
<1>1. S \subseteq Keys /\ Cardinality(S) \in Nat
  BY KeysFinite DEF Selected, OpenKeys
<1>2. PICK number \in Numberings(S) : pending' = pending \cup Fresh(boundary, number)
  BY DEF Collect, Fresh
<1>3. number \in [S -> 1 .. Cardinality(S)] /\ \A j, k \in S : number[j] = number[k] => j = k
  BY DEF Numberings
<1>4. sequence' = sequence + Cardinality(S) /\ sequence \in Nat
  BY DEF Collect, TypeOK
<1>. HIDE DEF S
<1>5. /\ number \in [S -> Nat \ {0}]
      /\ \A k \in S : sequence + number[k] <= sequence'
      /\ sequence' \in Nat /\ sequence' >= sequence
  BY <1>1, <1>3, <1>4
<1>6. QED
  BY <1>2, <1>3, <1>5 DEF S

-----------------------------------------------------------------------------
(* collect makes at most one window of each selected key. *)
LEMMA FreshCardinality ==
  ASSUME TypeOK, NEW boundary, NEW number \in [Selected(boundary) -> Nat \ {0}]
  PROVE  /\ IsFiniteSet(Fresh(boundary, number))
         /\ Cardinality(Fresh(boundary, number)) <= Cardinality(Selected(boundary))
<1>1. IsFiniteSet(Selected(boundary))
  BY KeysFinite DEF Selected, OpenKeys
<1>. DEFINE f == [k \in Selected(boundary) |->
                    [key |-> k, seq |-> sequence + number[k], events |-> open[k]]]
<1>2. f \in Surjection(Selected(boundary), Fresh(boundary, number))
  BY DEF Fresh, Surjection
<1>3. QED
  BY <1>1, <1>2, FS_Surjection

(* A new window is of type Window. *)
LEMMA FreshWindows ==
  ASSUME TypeOK, NEW boundary, NEW number \in [Selected(boundary) -> Nat \ {0}]
  PROVE  Fresh(boundary, number) \subseteq Window
<1>1. Selected(boundary) \subseteq Keys
  BY DEF Selected, OpenKeys
<1>2. QED
  BY <1>1 DEF TypeOK, Window, Fresh

(* The steps that a proof has to tell apart. *)
LEMMA AllSteps ==
  ASSUME [Next]_vars
  PROVE  \/ HandleBatch \/ CommitOffsets \/ Commit \/ Crash \/ UNCHANGED vars
         \/ \E boundary : Collect(boundary)
         \/ \E w \in todo : PublishWindow(w)
         \/ \E t \in Targets : \E w \in topic[t] : ApplyWindow(t, w)
         \/ \E t \in Targets : \E w \in topic[t] : DeadLetter(t, w)
<1>1. ASSUME NEW t \in Targets, NEW w \in buried[t], ApplyWindow(t, w) PROVE w \in topic[t]
  BY <1>1 DEF ApplyWindow
<1>2. QED
  BY <1>1 DEF Next, EmitClosedWindows, EmitAll, Publish, Apply, ApplyAfterAll, Bury

(* What a dead letter leaves alone. *)
others == <<input, memory, pass, topic, applied, counted, faults, crashes>>

(* The steps that a proof about anything but the dead letters tells apart. *)
LEMMA Steps ==
  ASSUME [Next]_vars
  PROVE  \/ HandleBatch \/ CommitOffsets \/ Commit \/ Crash \/ UNCHANGED others
         \/ \E boundary : Collect(boundary)
         \/ \E w \in todo : PublishWindow(w)
         \/ \E t \in Targets : \E w \in topic[t] : ApplyWindow(t, w)
<1>1. ASSUME NEW t, NEW w, DeadLetter(t, w) PROVE UNCHANGED others
  BY <1>1 DEF DeadLetter, others
<1>2. UNCHANGED vars => UNCHANGED others
  BY DEF vars, others, stores
<1>3. QED
  BY <1>1, <1>2, AllSteps

(* Every variable of the aggregation path keeps its type. *)
LEMMA TypeStep == TypeOK /\ [Next]_vars => TypeOK'
<1>. SUFFICES ASSUME TypeOK, [Next]_vars PROVE TypeOK'
  OBVIOUS
<1>. USE AggregationAssumption
<1>1. CASE HandleBatch
  <2>1. position + 1 \in Events /\ raw[position + 1] \in Keys
    BY <1>1 DEF HandleBatch, TypeOK, Events
  <2>2. shed' \subseteq Events /\ open' \in [Keys -> SUBSET Events]
    <3>1. CASE Admits(raw[position + 1])
      BY <1>1, <2>1, <3>1 DEF HandleBatch, TypeOK
    <3>2. CASE ~Admits(raw[position + 1])
      BY <1>1, <2>1, <3>2 DEF HandleBatch, TypeOK
    <3>3. QED
      BY <3>1, <3>2
  <2>3. QED
    BY <1>1, <2>2 DEF HandleBatch, TypeOK, pass, stores
<1>2. CASE CommitOffsets
  BY <1>2 DEF CommitOffsets, TypeOK, memory, pass, stores
<1>3. ASSUME NEW boundary, Collect(boundary) PROVE TypeOK'
  <2>1. PICK number \in [Selected(boundary) -> Nat \ {0}] :
           pending' = pending \cup Fresh(boundary, number) /\ sequence' \in Nat
    BY <1>3, CollectStep
  <2>2. pending' \subseteq Window /\ IsFiniteSet(pending')
    BY <2>1, FreshWindows, FreshCardinality, FS_Union, Zenon DEF TypeOK
  <2>3. open' \in [Keys -> SUBSET Events]
    BY <1>3 DEF Collect, TypeOK
  <2>4. todo' \subseteq pending' /\ published' \subseteq pending' /\ emitting' \in BOOLEAN
    BY <1>3 DEF Collect, ToPublish
  <2>5. QED
    BY <1>3, <2>1, <2>2, <2>3, <2>4 DEF Collect, TypeOK, input, stores
<1>4. ASSUME NEW w \in todo, PublishWindow(w) PROVE TypeOK'
  <2>1. w \in Window /\ w \in pending
    BY DEF TypeOK
  <2>2. topic' \in [Targets -> SUBSET Window] /\ published' \subseteq pending
    BY <1>4, <2>1 DEF PublishWindow, TypeOK
  <2>3. faults' \in 0 .. MaxFaults
    BY <1>4 DEF PublishWindow, TypeOK
  <2>4. QED
    BY <1>4, <2>2, <2>3 DEF PublishWindow, TypeOK, input, memory, stores
<1>5. CASE Commit
  <2>1. pending' \subseteq pending
    BY <1>5 DEF Commit
  <2>2. IsFiniteSet(pending')
    BY <2>1, FS_Subset DEF TypeOK
  <2>3. QED
    BY <1>5, <2>1, <2>2, Zenon DEF Commit, TypeOK, input, stores
<1>6. CASE Crash
  <2>1. IsFiniteSet(pending')
    BY <1>6, FS_EmptySet DEF Crash
  <2>2. position' \in 0 .. MaxEvents /\ crashes' \in 0 .. MaxCrashes
    BY <1>6 DEF Crash, TypeOK
  <2>3. open' \in [Keys -> SUBSET Events]
    BY <1>6 DEF Crash
  <2>4. emitting' \in BOOLEAN
    BY <1>6, Zenon DEF Crash
  <2>5. QED
    BY <1>6, <2>1, <2>2, <2>3, <2>4 DEF Crash, TypeOK, SequenceSeed, stores
<1>7. ASSUME NEW t \in Targets, NEW w \in topic[t], ApplyWindow(t, w) PROVE TypeOK'
  <2>1. Identity(w) \in Keys \X Nat
    BY DEF TypeOK, Window, Identity
  <2>2. applied' \in [Targets -> SUBSET (Keys \X Nat)]
    BY <1>7, <2>1 DEF ApplyWindow, TypeOK
  <2>3. counted' \in [Targets -> [Events -> Nat]]
    BY <1>7 DEF ApplyWindow, TypeOK
  <2>4. QED
    BY <1>7, <2>2, <2>3 DEF ApplyWindow, TypeOK, input, memory, pass
<1>8. CASE UNCHANGED vars
  BY <1>8 DEF TypeOK, vars, input, memory, pass, stores
<1>9. ASSUME NEW t \in Targets, NEW w \in topic[t], DeadLetter(t, w) PROVE TypeOK'
  <2>1. buried' \in [Targets -> SUBSET Window]
    BY <1>9 DEF DeadLetter, TypeOK
  <2>2. QED
    BY <1>9, <2>1 DEF DeadLetter, TypeOK, input, memory, pass
<1>10. QED
  BY <1>1, <1>2, <1>3, <1>4, <1>5, <1>6, <1>7, <1>8, <1>9, AllSteps

(* TypeOK holds of every reachable state: HandleBatch, collect, Commit and *)
(* ApplyWindow keep their maps well formed, and a pass publishes only      *)
(* windows that the aggregator still holds.                                *)
THEOREM TypeCorrect == Spec => []TypeOK
<1>1. Init => TypeOK
  <2>. SUFFICES ASSUME Init PROVE TypeOK
    OBVIOUS
  <2>1. IsFiniteSet(pending)
    BY FS_EmptySet DEF Init
  <2>2. /\ open \in [Keys -> SUBSET Events]
        /\ topic \in [Targets -> SUBSET Window]
        /\ applied \in [Targets -> SUBSET (Keys \X Nat)]
        /\ counted \in [Targets -> [Events -> Nat]]
    BY DEF Init
  <2>3. emitting \in BOOLEAN
    BY Zenon DEF Init
  <2>4. QED
    BY <2>1, <2>2, <2>3, AggregationAssumption DEF Init, TypeOK
<1>2. QED
  BY <1>1, TypeStep, PTL DEF Spec

-----------------------------------------------------------------------------
(***************************************************************************)
(* Sequence numbers identify emissions, also across losses of the process. *)
(***************************************************************************)
SequenceInv ==
  /\ \A w \in Emitted : w.seq \in Nat /\ w.seq <= sequence
  /\ \A v, w \in Emitted : v.seq = w.seq => v = w

(* A step that emits nothing new and keeps the sequence keeps SequenceInv. *)
LEMMA NothingEmitted ==
  ASSUME SequenceInv, Emitted' \subseteq Emitted, sequence' = sequence
  PROVE  SequenceInv'
BY DEF SequenceInv

(* Only collect emits: every other step leaves a subset of what was there. *)
LEMMA EmittedShrinks ==
  ASSUME TypeOK, [Next]_vars
  PROVE  \/ \E boundary : Collect(boundary)
         \/ Emitted' \subseteq Emitted /\ sequence' = sequence
<1>1. ASSUME UNCHANGED <<pending, topic, sequence>>
      PROVE  Emitted' \subseteq Emitted /\ sequence' = sequence
  BY <1>1 DEF Emitted
<1>2. ASSUME NEW w \in todo, PublishWindow(w)
      PROVE  Emitted' \subseteq Emitted /\ sequence' = sequence
  <2>1. w \in pending /\ pending' = pending /\ sequence' = sequence
    BY <1>2 DEF TypeOK, PublishWindow, memory
  <2>2. \A t \in Targets : topic'[t] \subseteq topic[t] \cup {w}
    BY <1>2 DEF PublishWindow
  <2>3. QED
    BY <2>1, <2>2, EmittedMember, EmittedMemberNext
<1>3. ASSUME Commit \/ Crash
      PROVE  Emitted' \subseteq Emitted /\ sequence' = sequence
  <2>1. pending' \subseteq pending /\ topic' = topic /\ sequence' = sequence
    BY <1>3 DEF Commit, Crash, SequenceSeed
  <2>2. QED
    BY <2>1, EmittedMember, EmittedMemberNext
<1>4. CASE HandleBatch \/ CommitOffsets
  BY <1>1, <1>4 DEF HandleBatch, CommitOffsets, memory
<1>5. ASSUME NEW t \in Targets, NEW w \in topic[t], ApplyWindow(t, w)
      PROVE  UNCHANGED <<pending, topic, sequence>>
  BY <1>5 DEF ApplyWindow, memory
<1>6. CASE UNCHANGED others
  BY <1>1, <1>6 DEF others, memory
<1>7. QED
  BY <1>1, <1>2, <1>3, <1>4, <1>5, <1>6, Steps

(* What collect emits is what was emitted and the fresh windows. *)
LEMMA CollectEmits ==
  ASSUME TypeOK, NEW boundary, Collect(boundary), NEW number,
         pending' = pending \cup Fresh(boundary, number)
  PROVE  Emitted' = Emitted \cup Fresh(boundary, number)
<1>1. topic' = topic
  BY DEF Collect
<1>2. QED
  BY <1>1, EmittedMember, EmittedMemberNext

(* SequenceInv is inductive. *)
LEMMA SequenceStep == TypeOK /\ SequenceInv /\ [Next]_vars => SequenceInv'
<1>. SUFFICES ASSUME TypeOK, SequenceInv, [Next]_vars PROVE SequenceInv'
  OBVIOUS
<1>1. ASSUME NEW boundary, Collect(boundary) PROVE SequenceInv'
  <2>1. PICK number \in [Selected(boundary) -> Nat \ {0}] :
           /\ \A j, k \in Selected(boundary) : number[j] = number[k] => j = k
           /\ \A k \in Selected(boundary) : sequence + number[k] <= sequence'
           /\ pending' = pending \cup Fresh(boundary, number)
           /\ sequence' \in Nat /\ sequence' >= sequence
    BY <1>1, CollectStep
  <2>2. Emitted' = Emitted \cup Fresh(boundary, number)
    BY <1>1, <2>1, CollectEmits
  <2>3. sequence \in Nat
    BY DEF TypeOK
  <2>4. \A w \in Fresh(boundary, number) :
           w.seq \in Nat /\ w.seq > sequence /\ w.seq <= sequence'
    BY <2>1, <2>3 DEF Fresh
  <2>5. \A v, w \in Fresh(boundary, number) : v.seq = w.seq => v = w
    BY <2>1, <2>3 DEF Fresh
  <2>6. QED
    BY <2>1, <2>2, <2>3, <2>4, <2>5 DEF SequenceInv
<1>2. QED
  BY <1>1, EmittedShrinks, NothingEmitted

(* SequenceInv holds of every reachable state. *)
LEMMA SequenceCorrect == Spec => []SequenceInv
<1>1. Init => SequenceInv
  BY EmittedMember DEF Init, SequenceInv
<1>2. QED
  BY <1>1, TypeCorrect, SequenceStep, PTL DEF Spec

=============================================================================
