----------------------- MODULE AggregationHeldProofs ------------------------
(***************************************************************************)
(* No process forgets an event it has handled, and the windows held in     *)
(* memory stay within the ceiling.                                         *)
(***************************************************************************)
EXTENDS AggregationProofs

-----------------------------------------------------------------------------
(* A window counts as published when every target has it. *)
ReachedInv == \A w \in published : \A t \in Targets : w \in topic[t]

(* ReachedInv is inductive. *)
LEMMA ReachedStep == TypeOK /\ ReachedInv /\ [Next]_vars => ReachedInv'
<1>. SUFFICES ASSUME TypeOK, ReachedInv, [Next]_vars PROVE ReachedInv'
  OBVIOUS
<1>1. ASSUME NEW w \in todo, PublishWindow(w) PROVE ReachedInv'
  BY <1>1 DEF PublishWindow, PublishedEverywhere, ReachedInv
<1>2. ASSUME topic' = topic, published' \subseteq published PROVE ReachedInv'
  BY <1>2 DEF ReachedInv
<1>3. CASE HandleBatch \/ CommitOffsets \/ Commit \/ Crash
  BY <1>2, <1>3 DEF HandleBatch, CommitOffsets, Commit, Crash, pass
<1>4. ASSUME NEW boundary, Collect(boundary) PROVE topic' = topic /\ published' \subseteq published
  BY <1>4 DEF Collect
<1>5. ASSUME NEW t, NEW w, ApplyWindow(t, w) PROVE UNCHANGED <<topic, published>>
  BY <1>5 DEF ApplyWindow, pass
<1>6. CASE UNCHANGED others
  BY <1>2, <1>6 DEF others, pass
<1>7. QED
  BY <1>1, <1>2, <1>3, <1>4, <1>5, <1>6, Steps

(* Only HandleBatch moves the position of a process. *)
LEMMA OnlyHandleReads ==
  ASSUME [Next]_vars, ~Crash
  PROVE  resumed' = resumed /\ (HandleBatch \/ position' = position)
<1>1. CASE HandleBatch \/ CommitOffsets \/ Commit
  BY <1>1 DEF HandleBatch, CommitOffsets, Commit, input
<1>2. ASSUME NEW boundary, Collect(boundary) PROVE UNCHANGED <<resumed, position>>
  BY <1>2 DEF Collect, input
<1>3. ASSUME NEW w, PublishWindow(w) PROVE UNCHANGED <<resumed, position>>
  BY <1>3 DEF PublishWindow, input
<1>4. ASSUME NEW t, NEW w, ApplyWindow(t, w) PROVE UNCHANGED <<resumed, position>>
  BY <1>4 DEF ApplyWindow, input
<1>5. CASE UNCHANGED others
  BY <1>5 DEF others, input
<1>6. QED
  BY <1>1, <1>2, <1>3, <1>4, <1>5, Steps

(* An event that is kept stays kept, unless the process is lost. *)
LEMMA KeptStep ==
  ASSUME TypeOK, SequenceInv, ReachedInv, [Next]_vars, ~Crash, NEW e, Kept(e)
  PROVE  Kept(e)'
<1>1. CASE HandleBatch
  <2>1. /\ shed \subseteq shed' /\ \A k \in Keys : open[k] \subseteq open'[k]
        /\ pending' = pending /\ topic' = topic
    BY <1>1 DEF HandleBatch, TypeOK
  <2>2. QED
    BY <2>1 DEF Kept
<1>2. ASSUME NEW boundary, Collect(boundary) PROVE Kept(e)'
  <2>1. PICK number \in [Selected(boundary) -> Nat \ {0}] :
           pending' = pending \cup Fresh(boundary, number)
    BY <1>2, CollectStep
  <2>2. shed' = shed /\ topic' = topic
    BY <1>2 DEF Collect, input
  <2>3. \A k \in Keys : k \in Selected(boundary) \/ open'[k] = open[k]
    BY <1>2 DEF Collect
  <2>4. \A k \in Selected(boundary) : \E w \in pending' : w.events = open[k]
    <3>1. TAKE k \in Selected(boundary)
    <3>. DEFINE w == [key |-> k, seq |-> sequence + number[k], events |-> open[k]]
    <3>2. w \in pending' /\ w.events = open[k]
      BY <2>1 DEF Fresh
    <3>3. QED
      BY <3>2
  <2>5. QED
    BY <2>1, <2>2, <2>3, <2>4 DEF Kept
<1>3. ASSUME NEW w \in todo, PublishWindow(w) PROVE Kept(e)'
  <2>1. \A t \in Targets : topic[t] \subseteq topic'[t]
    BY <1>3 DEF PublishWindow
  <2>2. UNCHANGED <<shed, open, pending>>
    BY <1>3 DEF PublishWindow, input, memory
  <2>3. QED
    BY <2>1, <2>2 DEF Kept
<1>4. CASE Commit
  <2>1. UNCHANGED <<shed, open, topic>>
    BY <1>4 DEF Commit, input
  <2>2. \A w \in pending : w \in pending' \/ w \in published
    <3>1. SUFFICES ASSUME NEW w \in pending, w \notin pending' PROVE w \in published
      OBVIOUS
    <3>2. PICK v \in published : Identity(w) = Identity(v)
      BY <1>4, <3>1 DEF Commit
    <3>3. v \in Emitted /\ w \in Emitted /\ v.seq = w.seq
      BY <3>2, EmittedMember DEF TypeOK, Identity
    <3>4. QED
      BY <3>2, <3>3 DEF SequenceInv
  <2>3. QED
    BY <2>1, <2>2 DEF Kept, ReachedInv
<1>5. CASE UNCHANGED <<shed, open, pending, topic>>
  BY <1>5 DEF Kept
<1>6. CASE CommitOffsets \/ UNCHANGED others
  BY <1>5, <1>6 DEF CommitOffsets, others, input, memory
<1>7. ASSUME NEW t, NEW w, ApplyWindow(t, w) PROVE UNCHANGED <<shed, open, pending, topic>>
  BY <1>7 DEF ApplyWindow, input, memory
<1>8. QED
  BY <1>1, <1>2, <1>3, <1>4, <1>5, <1>6, <1>7, Steps

(* Every event that the current process has handled is shed, held, or      *)
(* published to every target: no failed publish and no commit of a pass    *)
(* loses one (publish retains what a target refused, Commit forgets by     *)
(* identity).                                                              *)
THEOREM NothingForgotten == Spec => []HandledIsKept
<1>1. Init => HandledIsKept /\ ReachedInv
  BY DEF Init, HandledIsKept, ReachedInv
<1>2. TypeOK /\ SequenceInv /\ ReachedInv /\ HandledIsKept /\ [Next]_vars => HandledIsKept'
  <2>. SUFFICES ASSUME TypeOK, SequenceInv, ReachedInv, HandledIsKept, [Next]_vars,
                       NEW e \in resumed' + 1 .. position'
       PROVE  Kept(e)'
    BY DEF HandledIsKept, Kept
  <2>1. ~Crash
    BY DEF Crash, TypeOK
  <2>2. resumed' = resumed /\ (HandleBatch \/ position' = position)
    BY <2>1, OnlyHandleReads
  <2>3. CASE e \in resumed + 1 .. position
    <3>1. Kept(e)
      BY <2>3 DEF HandledIsKept
    <3>2. QED
      BY <2>1, <3>1, KeptStep
  <2>4. CASE e \notin resumed + 1 .. position
    <3>1. position' # position
      BY <2>2, <2>4
    <3>2. HandleBatch
      BY <2>2, <3>1
    <3>3. e = position + 1 /\ raw[e] \in Keys
      BY <2>2, <2>4, <3>2, AggregationAssumption DEF HandleBatch, TypeOK, Events
    <3>4. e \in shed' \/ e \in open'[raw[e]]
      BY <3>2, <3>3 DEF HandleBatch, TypeOK
    <3>5. QED
      BY <3>3, <3>4 DEF Kept
  <2>5. QED
    BY <2>3, <2>4
<1>3. QED
  BY <1>1, <1>2, TypeCorrect, SequenceCorrect, ReachedStep, PTL DEF Spec

-----------------------------------------------------------------------------
(* Opening a window is refused at the ceiling, and collect only moves      *)
(* windows from open to pending.                                           *)
LEMMA HeldStep == TypeOK /\ HeldWithinCeiling /\ [Next]_vars => HeldWithinCeiling'
<1>. SUFFICES ASSUME TypeOK, HeldWithinCeiling, [Next]_vars PROVE HeldWithinCeiling'
  OBVIOUS
<1>1. /\ IsFiniteSet(OpenKeys) /\ Cardinality(OpenKeys) \in Nat
      /\ Cardinality(OpenKeys') \in Nat
      /\ IsFiniteSet(pending) /\ Cardinality(pending) \in Nat
      /\ MaxOpenWindows \in Nat
  <2>1. OpenKeys \subseteq Keys /\ OpenKeys' \subseteq Keys
    BY DEF OpenKeys
  <2>2. IsFiniteSet(pending) /\ MaxOpenWindows \in Nat
    BY AggregationAssumption DEF TypeOK
  <2>3. QED
    BY <2>1, <2>2, KeysFinite, FS_CardinalityType
<1>2. ASSUME OpenKeys' \subseteq OpenKeys, pending' \subseteq pending
      PROVE  HeldWithinCeiling'
  <2>1. Cardinality(OpenKeys') <= Cardinality(OpenKeys)
    BY <1>1, <1>2, FS_Subset
  <2>2. Cardinality(pending') <= Cardinality(pending) /\ Cardinality(pending') \in Nat
    BY <1>1, <1>2, FS_Subset, FS_CardinalityType
  <2>3. QED
    BY <1>1, <2>1, <2>2 DEF HeldWithinCeiling, HeldWindows
<1>3. CASE HandleBatch
  <2>. DEFINE k == raw[position + 1]
  <2>1. pending' = pending
    BY <1>3 DEF HandleBatch
  <2>2. CASE open[k] # {} \/ ~Admits(k)
    <3>1. OpenKeys' \subseteq OpenKeys
      BY <1>3, <2>2 DEF HandleBatch, OpenKeys, TypeOK
    <3>2. QED
      BY <1>2, <2>1, <3>1
  <2>3. CASE open[k] = {} /\ Admits(k)
    <3>1. HeldWindows < MaxOpenWindows
      BY <2>3 DEF Admits
    <3>2. OpenKeys' \subseteq OpenKeys \cup {k}
      BY <1>3 DEF HandleBatch, OpenKeys, TypeOK
    <3>3. /\ IsFiniteSet(OpenKeys \cup {k})
          /\ Cardinality(OpenKeys \cup {k}) <= Cardinality(OpenKeys) + 1
      <4>. HIDE DEF k
      <4>1. /\ IsFiniteSet(OpenKeys \cup {k})
            /\ Cardinality(OpenKeys \cup {k}) =
                 IF k \in OpenKeys THEN Cardinality(OpenKeys) ELSE Cardinality(OpenKeys) + 1
        BY <1>1, FS_AddElement
      <4>2. QED
        BY <1>1, <4>1
    <3>4. /\ Cardinality(OpenKeys') <= Cardinality(OpenKeys \cup {k})
          /\ Cardinality(OpenKeys \cup {k}) \in Nat
      BY <3>2, <3>3, FS_Subset, FS_CardinalityType
    <3>5. QED
      BY <1>1, <2>1, <3>1, <3>3, <3>4 DEF HeldWithinCeiling, HeldWindows
  <2>4. QED
    BY <2>2, <2>3
<1>4. ASSUME NEW boundary, Collect(boundary) PROVE HeldWithinCeiling'
  <2>. DEFINE S == Selected(boundary)
  <2>1. PICK number \in [S -> Nat \ {0}] : pending' = pending \cup Fresh(boundary, number)
    BY <1>4, CollectStep
  <2>2. S \subseteq OpenKeys /\ OpenKeys' = OpenKeys \ S
    <3>1. S \subseteq OpenKeys
      BY DEF Selected
    <3>2. open' = [k \in Keys |-> IF k \in S THEN {} ELSE open[k]]
      BY <1>4 DEF Collect
    <3>. HIDE DEF S
    <3>3. QED
      BY <3>1, <3>2 DEF OpenKeys
  <2>3. IsFiniteSet(S) /\ Cardinality(S) \in Nat
    BY <1>1, <2>2, FS_Subset, FS_CardinalityType
  <2>4. Cardinality(OpenKeys') = Cardinality(OpenKeys) - Cardinality(S)
    <3>. HIDE DEF S
    <3>1. OpenKeys \cap S = S
      BY <2>2
    <3>2. Cardinality(OpenKeys \ S) = Cardinality(OpenKeys) - Cardinality(OpenKeys \cap S)
      BY <1>1, <2>3, FS_Difference, Zenon
    <3>3. QED
      BY <2>2, <3>1, <3>2
  <2>5. /\ IsFiniteSet(Fresh(boundary, number))
        /\ Cardinality(Fresh(boundary, number)) <= Cardinality(S)
        /\ Cardinality(Fresh(boundary, number)) \in Nat
    BY <2>3, FreshCardinality, FS_CardinalityType
  <2>6. /\ Cardinality(pending') <= Cardinality(pending) + Cardinality(Fresh(boundary, number))
        /\ Cardinality(pending') \in Nat
    <3>1. /\ IsFiniteSet(pending')
          /\ Cardinality(pending') = Cardinality(pending)
               + Cardinality(Fresh(boundary, number))
               - Cardinality(pending \cap Fresh(boundary, number))
      BY <1>1, <2>1, <2>5, FS_Union, Zenon
    <3>2. Cardinality(pending \cap Fresh(boundary, number)) \in Nat
      BY <1>1, FS_Intersection, FS_CardinalityType, Zenon
    <3>3. QED
      BY <1>1, <2>5, <3>1, <3>2, FS_CardinalityType
  <2>. HIDE DEF S
  <2>7. QED
    BY <1>1, <2>3, <2>4, <2>5, <2>6 DEF HeldWithinCeiling, HeldWindows
<1>5. CASE Commit \/ Crash
  <2>1. OpenKeys' \subseteq OpenKeys /\ pending' \subseteq pending
    BY <1>5 DEF Commit, Crash, OpenKeys
  <2>2. QED
    BY <1>2, <2>1
<1>6. CASE UNCHANGED <<open, pending>>
  <2>1. OpenKeys' \subseteq OpenKeys /\ pending' \subseteq pending
    BY <1>6 DEF OpenKeys
  <2>2. QED
    BY <1>2, <2>1
<1>7. CASE CommitOffsets \/ UNCHANGED others
  BY <1>6, <1>7 DEF CommitOffsets, others, memory
<1>8. ASSUME NEW w, PublishWindow(w) PROVE UNCHANGED <<open, pending>>
  BY <1>8 DEF PublishWindow, memory
<1>9. ASSUME NEW t, NEW w, ApplyWindow(t, w) PROVE UNCHANGED <<open, pending>>
  BY <1>9 DEF ApplyWindow, memory
<1>10. QED
  BY <1>3, <1>4, <1>5, <1>6, <1>7, <1>8, <1>9, Steps

(* The windows held in memory never exceed MaxOpenWindows, although those  *)
(* the publisher refuses pile up (heldWindows counts pending as well).     *)
THEOREM CeilingHolds == Spec => []HeldWithinCeiling
<1>1. Init => HeldWithinCeiling
  <2>1. Init => OpenKeys = {} /\ pending = {}
    BY DEF Init, OpenKeys
  <2>2. QED
    BY <2>1, FS_EmptySet, AggregationAssumption DEF HeldWithinCeiling, HeldWindows
<1>2. QED
  BY <1>1, TypeCorrect, HeldStep, PTL DEF Spec

=============================================================================
