----------------------- MODULE AggregationCountProofs -----------------------
(***************************************************************************)
(* A store counts an event at most once per process that read it: an event *)
(* is in at most one open window (OpenInv), so every process that reads it *)
(* makes at most one copy (CopiesInv), and a store counts it once per copy *)
(* that it has applied (CountInv).                                         *)
(***************************************************************************)
EXTENDS AggregationProofs

-----------------------------------------------------------------------------
(***************************************************************************)
(* The open windows: an event is in one of them at most, and only if the   *)
(* current process has read it.                                            *)
(***************************************************************************)
OpenInv ==
  /\ \A k \in Keys : \A e \in open[k] : e \in Nat /\ e <= position
  /\ \A j, k \in Keys : j # k => open[j] \cap open[k] = {}

(* HandleBatch puts an event that is not open yet into one open window. *)
LEMMA OpenHandle ==
  ASSUME TypeOK, OpenInv, HandleBatch
  PROVE  /\ OpenInv'
         /\ \A k \in Keys : open'[k] \subseteq open[k] \cup {position + 1}
<1>. DEFINE e0 == position + 1
            k0 == raw[e0]
<1>1. position \in Nat /\ position' = e0 /\ k0 \in Keys
  BY AggregationAssumption DEF HandleBatch, TypeOK, Events
<1>2. \A k \in Keys : open'[k] \subseteq open[k] \cup (IF k = k0 THEN {e0} ELSE {})
  BY <1>1 DEF HandleBatch, TypeOK
<1>. HIDE DEF k0
<1>3. \A k \in Keys : e0 \notin open[k]
  BY <1>1 DEF OpenInv
<1>4. \A k \in Keys : \A e \in open'[k] : e \in Nat /\ e <= position'
  BY <1>1, <1>2 DEF OpenInv
<1>5. \A j, k \in Keys : j # k => open'[j] \cap open'[k] = {}
  BY <1>2, <1>3 DEF OpenInv
<1>6. QED
  BY <1>2, <1>4, <1>5 DEF OpenInv

(* A step other than HandleBatch and Crash opens nothing. *)
LEMMA OpenShrinks ==
  ASSUME TypeOK, [Next]_vars, ~HandleBatch, ~Crash
  PROVE  position' = position /\ crashes' = crashes /\ \A k \in Keys : open'[k] \subseteq open[k]
<1>1. ASSUME NEW boundary, Collect(boundary)
      PROVE  position' = position /\ crashes' = crashes /\ \A k \in Keys : open'[k] \subseteq open[k]
  BY <1>1 DEF Collect, input
<1>2. CASE CommitOffsets \/ Commit
  BY <1>2 DEF CommitOffsets, Commit, input, memory
<1>3. ASSUME NEW w, PublishWindow(w) PROVE UNCHANGED <<position, crashes, open>>
  BY <1>3 DEF PublishWindow, input, memory
<1>4. ASSUME NEW t, NEW w, ApplyWindow(t, w) PROVE UNCHANGED <<position, crashes, open>>
  BY <1>4 DEF ApplyWindow, input, memory
<1>5. CASE UNCHANGED others
  BY <1>5 DEF others, input, memory
<1>6. QED
  BY <1>1, <1>2, <1>3, <1>4, <1>5, Steps

(* OpenInv is inductive. *)
LEMMA OpenStep == TypeOK /\ OpenInv /\ [Next]_vars => OpenInv'
<1>. SUFFICES ASSUME TypeOK, OpenInv, [Next]_vars PROVE OpenInv'
  OBVIOUS
<1>1. CASE HandleBatch
  BY <1>1, OpenHandle
<1>2. CASE Crash
  BY <1>2 DEF Crash, OpenInv
<1>3. CASE ~HandleBatch /\ ~Crash
  BY <1>3, OpenShrinks DEF OpenInv
<1>4. QED
  BY <1>1, <1>2, <1>3

(* OpenInv holds of every reachable state. *)
LEMMA OpenCorrect == Spec => []OpenInv
<1>1. Init => OpenInv
  BY DEF Init, OpenInv
<1>2. QED
  BY <1>1, TypeCorrect, OpenStep, PTL DEF Spec

-----------------------------------------------------------------------------
(***************************************************************************)
(* The copies of an event: every process that reads it can emit it once.   *)
(* An open window is a copy to come, and a read is paid for by the loss of *)
(* the process before, except for the first.                               *)
(***************************************************************************)
Copies(e) == {w \in Emitted : e \in w.events}
InOpen(e) == IF \E k \in Keys : e \in open[k] THEN 1 ELSE 0
WasRead(e) == IF e <= position THEN 1 ELSE 0

(* Both are 0 or 1. *)
LEMMA Indicators == \A e : InOpen(e) \in 0 .. 1 /\ WasRead(e) \in 0 .. 1
  BY DEF InOpen, WasRead

CopiesInv ==
  \A e \in Events :
    /\ IsFiniteSet(Copies(e))
    /\ Cardinality(Copies(e)) + InOpen(e) <= crashes + WasRead(e)

(* collect turns the open window that holds an event into one copy of it. *)
LEMMA CopiesCollect ==
  ASSUME TypeOK, OpenInv, CopiesInv, NEW boundary, Collect(boundary), NEW e \in Events
  PROVE  /\ IsFiniteSet(Copies(e)')
         /\ Cardinality(Copies(e)') + InOpen(e)' <= crashes' + WasRead(e)'
<1>. DEFINE S == Selected(boundary)
<1>1. PICK number \in [S -> Nat \ {0}] : pending' = pending \cup Fresh(boundary, number)
  BY CollectStep
<1>2. Emitted' = Emitted \cup Fresh(boundary, number)
  BY <1>1, CollectEmits
<1>3. S \subseteq Keys /\ \A k \in Keys : open'[k] = IF k \in S THEN {} ELSE open[k]
  BY DEF Selected, OpenKeys, Collect
<1>4. crashes' = crashes /\ position' = position /\ crashes \in Nat
  BY AggregationAssumption DEF Collect, input, TypeOK
<1>5. IsFiniteSet(Copies(e)) /\ Cardinality(Copies(e)) \in Nat
  BY FS_CardinalityType DEF CopiesInv
<1>6. Cardinality(Copies(e)) + InOpen(e) <= crashes + WasRead(e) /\ WasRead(e)' = WasRead(e)
  BY <1>4 DEF CopiesInv, WasRead
<1>7. CASE \E k \in S : e \in open[k]
  <2>1. PICK k \in S : e \in open[k]
    BY <1>7
  <2>. DEFINE new == [key |-> k, seq |-> sequence + number[k], events |-> open[k]]
  <2>2. \A j \in Keys : e \in open[j] => j = k
    BY <1>3, <2>1 DEF OpenInv
  <2>3. InOpen(e) = 1 /\ InOpen(e)' = 0
    BY <1>3, <2>1, <2>2 DEF InOpen
  <2>4. \A w \in Fresh(boundary, number) : e \in w.events => w = new
    BY <1>3, <2>2 DEF Fresh
  <2>5. Copies(e)' \subseteq Copies(e) \cup {new}
    BY <1>2, <2>4 DEF Copies
  <2>. HIDE DEF new
  <2>6. /\ IsFiniteSet(Copies(e) \cup {new})
        /\ Cardinality(Copies(e) \cup {new}) <= Cardinality(Copies(e)) + 1
        /\ Cardinality(Copies(e) \cup {new}) \in Nat
    <3>1. /\ IsFiniteSet(Copies(e) \cup {new})
          /\ Cardinality(Copies(e) \cup {new}) =
               IF new \in Copies(e) THEN Cardinality(Copies(e)) ELSE Cardinality(Copies(e)) + 1
      BY <1>5, FS_AddElement
    <3>2. QED
      BY <1>5, <3>1
  <2>7. /\ IsFiniteSet(Copies(e)') /\ Cardinality(Copies(e)') \in Nat
        /\ Cardinality(Copies(e)') <= Cardinality(Copies(e) \cup {new})
    BY <2>5, <2>6, FS_Subset, FS_CardinalityType
  <2>8. WasRead(e) \in Nat
    BY DEF WasRead
  <2>9. QED
    BY <1>4, <1>5, <1>6, <2>3, <2>6, <2>7, <2>8
<1>8. CASE ~ \E k \in S : e \in open[k]
  <2>1. \A w \in Fresh(boundary, number) : e \notin w.events
    BY <1>8 DEF Fresh
  <2>2. Copies(e)' = Copies(e)
    BY <1>2, <2>1 DEF Copies
  <2>3. InOpen(e)' = InOpen(e)
    BY <1>3, <1>8 DEF InOpen
  <2>4. QED
    BY <1>4, <1>5, <1>6, <2>2, <2>3
<1>9. QED
  BY <1>7, <1>8

(* A step that emits nothing keeps the copies within their budget if every *)
(* event it opens, and every read it takes back, is paid for.              *)
LEMMA CopiesKept ==
  ASSUME CopiesInv, NEW e \in Events, Emitted' \subseteq Emitted,
         crashes \in Nat, crashes' \in Nat,
         InOpen(e)' + crashes + WasRead(e) <= InOpen(e) + crashes' + WasRead(e)'
  PROVE  /\ IsFiniteSet(Copies(e)')
         /\ Cardinality(Copies(e)') + InOpen(e)' <= crashes' + WasRead(e)'
<1>1. Copies(e)' \subseteq Copies(e)
  BY DEF Copies
<1>2. IsFiniteSet(Copies(e)) /\ Cardinality(Copies(e)) + InOpen(e) <= crashes + WasRead(e)
  BY DEF CopiesInv
<1>3. /\ IsFiniteSet(Copies(e)') /\ Cardinality(Copies(e)') <= Cardinality(Copies(e))
      /\ Cardinality(Copies(e)') \in Nat /\ Cardinality(Copies(e)) \in Nat
  BY <1>1, <1>2, FS_Subset, FS_CardinalityType
<1>4. /\ InOpen(e) \in Nat /\ InOpen(e)' \in Nat
      /\ WasRead(e) \in Nat /\ WasRead(e)' \in Nat
  BY DEF InOpen, WasRead
<1>5. QED
  BY <1>2, <1>3, <1>4

(* CopiesInv is inductive relative to OpenInv. *)
LEMMA CopiesStep == TypeOK /\ OpenInv /\ CopiesInv /\ [Next]_vars => CopiesInv'
<1>. SUFFICES ASSUME TypeOK, OpenInv, CopiesInv, [Next]_vars, NEW e \in Events
     PROVE  /\ IsFiniteSet(Copies(e)')
            /\ Cardinality(Copies(e)') + InOpen(e)' <= crashes' + WasRead(e)'
  BY Zenon DEF CopiesInv, Copies, InOpen, WasRead, Emitted
<1>1. /\ crashes \in Nat /\ crashes' \in Nat /\ position \in Nat /\ e \in Nat
      /\ position' \in Nat
  <2>1. TypeOK'
    BY TypeStep
  <2>2. QED
    BY <2>1, AggregationAssumption DEF TypeOK, Events
<1>2. ASSUME NEW boundary, Collect(boundary)
      PROVE  /\ IsFiniteSet(Copies(e)')
             /\ Cardinality(Copies(e)') + InOpen(e)' <= crashes' + WasRead(e)'
  BY <1>2, CopiesCollect
<1>3. ASSUME ~ \E boundary : Collect(boundary)
      PROVE  Emitted' \subseteq Emitted
  BY <1>3, EmittedShrinks
<1>4. ASSUME HandleBatch
      PROVE  InOpen(e)' + crashes + WasRead(e) <= InOpen(e) + crashes' + WasRead(e)'
  <2>1. \A k \in Keys : open'[k] \subseteq open[k] \cup {position + 1}
    BY <1>4, OpenHandle
  <2>2. position' = position + 1 /\ crashes' = crashes
    BY <1>4 DEF HandleBatch
  <2>3. CASE e = position + 1
    <3>1. WasRead(e) = 0 /\ WasRead(e)' = 1
      BY <1>1, <2>2, <2>3 DEF WasRead
    <3>2. InOpen(e)' \in 0 .. 1 /\ InOpen(e) \in Nat
      BY DEF InOpen
    <3>3. QED
      BY <1>1, <2>2, <3>1, <3>2
  <2>4. CASE e # position + 1
    <3>1. WasRead(e)' = WasRead(e) /\ WasRead(e) \in Nat
      BY <1>1, <2>2, <2>4 DEF WasRead
    <3>2. InOpen(e)' <= InOpen(e) /\ InOpen(e) \in Nat /\ InOpen(e)' \in Nat
      BY <2>1, <2>4 DEF InOpen
    <3>3. QED
      BY <1>1, <2>2, <3>1, <3>2
  <2>5. QED
    BY <2>3, <2>4
<1>5. ASSUME Crash
      PROVE  InOpen(e)' + crashes + WasRead(e) <= InOpen(e) + crashes' + WasRead(e)'
  <2>1. InOpen(e)' = 0 /\ crashes' = crashes + 1
    BY <1>5 DEF Crash, InOpen
  <2>2. WasRead(e) \in 0 .. 1 /\ WasRead(e)' \in 0 .. 1 /\ InOpen(e) \in 0 .. 1
    BY DEF WasRead, InOpen
  <2>3. QED
    BY <1>1, <2>1, <2>2
<1>6. ASSUME ~HandleBatch, ~Crash
      PROVE  InOpen(e)' + crashes + WasRead(e) <= InOpen(e) + crashes' + WasRead(e)'
  <2>1. position' = position /\ crashes' = crashes /\ \A k \in Keys : open'[k] \subseteq open[k]
    BY <1>6, OpenShrinks
  <2>2. WasRead(e)' = WasRead(e) /\ WasRead(e) \in Nat
    BY <2>1 DEF WasRead
  <2>3. InOpen(e)' <= InOpen(e) /\ InOpen(e) \in Nat /\ InOpen(e)' \in Nat
    BY <2>1 DEF InOpen
  <2>4. QED
    BY <1>1, <2>1, <2>2, <2>3
<1>7. QED
  BY <1>1, <1>2, <1>3, <1>4, <1>5, <1>6, CopiesKept

(* CopiesInv holds of every reachable state. *)
LEMMA CopiesCorrect == Spec => []CopiesInv
<1>1. Init => CopiesInv
  <2>. SUFFICES ASSUME Init, NEW e \in Events
       PROVE  /\ IsFiniteSet(Copies(e))
              /\ Cardinality(Copies(e)) + InOpen(e) <= crashes + WasRead(e)
    BY DEF CopiesInv
  <2>1. Copies(e) = {}
    BY EmittedMember DEF Init, Copies
  <2>2. InOpen(e) = 0 /\ crashes = 0 /\ WasRead(e) \in Nat
    BY DEF Init, InOpen, WasRead
  <2>3. QED
    BY <2>1, <2>2, FS_EmptySet
<1>2. QED
  BY <1>1, TypeCorrect, OpenCorrect, CopiesStep, PTL DEF Spec

-----------------------------------------------------------------------------
(***************************************************************************)
(* A store has counted an event at most once for each window of its topic  *)
(* that holds the event and that it has marked as applied.                 *)
(***************************************************************************)
AppliedCopies(t, e) == {w \in topic[t] : Identity(w) \in applied[t] /\ e \in w.events}

CountInv ==
  \A t \in Targets : \A e \in Events :
    counted[t][e] <= Cardinality(AppliedCopies(t, e))

(* The applied copies are copies, so there are finitely many. *)
LEMMA AppliedFinite ==
  ASSUME CopiesInv, NEW t \in Targets, NEW e \in Events
  PROVE  /\ IsFiniteSet(AppliedCopies(t, e))
         /\ Cardinality(AppliedCopies(t, e)) \in Nat
         /\ Cardinality(AppliedCopies(t, e)) <= Cardinality(Copies(e))
<1>1. AppliedCopies(t, e) \subseteq Copies(e)
  BY EmittedMember DEF AppliedCopies, Copies
<1>2. IsFiniteSet(Copies(e))
  BY DEF CopiesInv
<1>3. QED
  BY <1>1, <1>2, FS_Subset, FS_CardinalityType

(* The same fact for the next state. *)
LEMMA AppliedFiniteNext ==
  ASSUME CopiesInv', NEW t \in Targets, NEW e \in Events
  PROVE  /\ IsFiniteSet(AppliedCopies(t, e)')
         /\ Cardinality(AppliedCopies(t, e)') \in Nat
<1>1. AppliedCopies(t, e)' \subseteq Copies(e)'
  BY EmittedMemberNext DEF AppliedCopies, Copies
<1>2. IsFiniteSet(Copies(e)')
  BY DEF CopiesInv
<1>3. QED
  BY <1>1, <1>2, FS_Subset, FS_CardinalityType

(* ApplyWindow counts a window's events once and makes it an applied copy. *)
LEMMA CountApply ==
  ASSUME TypeOK, CopiesInv, CopiesInv', CountInv,
         NEW t \in Targets, NEW w \in topic[t], ApplyWindow(t, w)
  PROVE  CountInv'
<1>. SUFFICES ASSUME NEW s \in Targets, NEW e \in Events
     PROVE  counted'[s][e] <= Cardinality(AppliedCopies(s, e)')
  BY DEF CountInv, AppliedCopies, Identity
<1>1. topic' = topic /\ Identity(w) \notin applied[t]
  BY DEF ApplyWindow, IsNotApplied
<1>2. counted[s][e] \in Nat /\ counted[s][e] <= Cardinality(AppliedCopies(s, e))
  BY DEF CountInv, TypeOK
<1>3. IsFiniteSet(AppliedCopies(s, e)) /\ Cardinality(AppliedCopies(s, e)) \in Nat
  BY AppliedFinite
<1>4. IsFiniteSet(AppliedCopies(s, e)') /\ Cardinality(AppliedCopies(s, e)') \in Nat
  BY AppliedFiniteNext
<1>5. AppliedCopies(s, e) \subseteq AppliedCopies(s, e)'
  BY <1>1 DEF AppliedCopies, ApplyWindow, TypeOK, Identity
<1>6. CASE s = t /\ e \in w.events
  <2>1. counted'[s][e] = counted[s][e] + 1
    BY <1>6 DEF ApplyWindow, TypeOK
  <2>2. w \notin AppliedCopies(s, e)
    BY <1>1, <1>6 DEF AppliedCopies
  <2>3. w \in AppliedCopies(s, e)'
    BY <1>1, <1>6 DEF AppliedCopies, ApplyWindow, TypeOK, Identity
  <2>4. /\ IsFiniteSet(AppliedCopies(s, e) \cup {w})
        /\ Cardinality(AppliedCopies(s, e) \cup {w}) = Cardinality(AppliedCopies(s, e)) + 1
    BY <1>3, <2>2, FS_AddElement
  <2>5. AppliedCopies(s, e) \cup {w} \subseteq AppliedCopies(s, e)'
    BY <1>5, <2>3
  <2>6. Cardinality(AppliedCopies(s, e) \cup {w}) <= Cardinality(AppliedCopies(s, e)')
    BY <1>4, <2>5, FS_Subset
  <2>7. QED
    BY <1>2, <1>3, <1>4, <2>1, <2>4, <2>6
<1>7. CASE ~(s = t /\ e \in w.events)
  <2>1. counted'[s][e] = counted[s][e]
    BY <1>7 DEF ApplyWindow, TypeOK
  <2>2. Cardinality(AppliedCopies(s, e)) <= Cardinality(AppliedCopies(s, e)')
    BY <1>4, <1>5, FS_Subset
  <2>3. QED
    BY <1>2, <1>3, <1>4, <2>1, <2>2
<1>8. QED
  BY <1>6, <1>7

(* CountInv is inductive relative to CopiesInv. *)
LEMMA CountStep ==
  TypeOK /\ CopiesInv /\ CopiesInv' /\ CountInv /\ [Next]_vars => CountInv'
<1>. SUFFICES ASSUME TypeOK, CopiesInv, CopiesInv', CountInv, [Next]_vars PROVE CountInv'
  OBVIOUS
<1>1. ASSUME NEW t \in Targets, NEW w \in topic[t], ApplyWindow(t, w) PROVE CountInv'
  BY <1>1, CountApply
<1>2. ASSUME UNCHANGED <<applied, counted>>, \A t \in Targets : topic[t] \subseteq topic'[t]
      PROVE  CountInv'
  <2>. SUFFICES ASSUME NEW t \in Targets, NEW e \in Events
       PROVE  counted'[t][e] <= Cardinality(AppliedCopies(t, e)')
    BY DEF CountInv, AppliedCopies, Identity
  <2>1. AppliedCopies(t, e) \subseteq AppliedCopies(t, e)'
    BY <1>2 DEF AppliedCopies, Identity
  <2>2. /\ IsFiniteSet(AppliedCopies(t, e)') /\ Cardinality(AppliedCopies(t, e)') \in Nat
        /\ Cardinality(AppliedCopies(t, e)) \in Nat
    BY AppliedFinite, AppliedFiniteNext
  <2>3. Cardinality(AppliedCopies(t, e)) <= Cardinality(AppliedCopies(t, e)')
    BY <2>1, <2>2, FS_Subset
  <2>4. counted'[t][e] = counted[t][e] /\ counted[t][e] \in Nat
    BY <1>2 DEF TypeOK
  <2>5. counted[t][e] <= Cardinality(AppliedCopies(t, e))
    BY DEF CountInv
  <2>6. QED
    BY <2>2, <2>3, <2>4, <2>5
<1>3. ASSUME NEW w \in todo, PublishWindow(w)
      PROVE  UNCHANGED <<applied, counted>> /\ \A t \in Targets : topic[t] \subseteq topic'[t]
  BY <1>3 DEF PublishWindow, stores
<1>4. CASE HandleBatch \/ CommitOffsets \/ Commit \/ Crash
  BY <1>2, <1>4 DEF HandleBatch, CommitOffsets, Commit, Crash, stores
<1>5. ASSUME NEW boundary, Collect(boundary) PROVE UNCHANGED <<applied, counted, topic>>
  BY <1>5 DEF Collect, stores
<1>6. CASE UNCHANGED others
  BY <1>2, <1>6 DEF others
<1>7. QED
  BY <1>1, <1>2, <1>3, <1>4, <1>5, <1>6, Steps

(* A store counts an event at most once more than processes were lost, and *)
(* emissions never share an identity, for any number of targets, failed or *)
(* half-failed publishes and redeliveries: ApplyWindow's check of the      *)
(* identity and collect's sequence suffice.                                *)
THEOREM CountedOncePerProcess == Spec => []RecountsNeedCrashes
<1>1. Init => CountInv
  <2>. SUFFICES ASSUME Init, NEW t \in Targets, NEW e \in Events
       PROVE  counted[t][e] <= Cardinality(AppliedCopies(t, e))
    BY DEF CountInv
  <2>1. AppliedCopies(t, e) = {} /\ counted[t][e] = 0
    BY DEF Init, AppliedCopies
  <2>2. QED
    BY <2>1, FS_EmptySet
<1>2. TypeOK /\ SequenceInv /\ CopiesInv /\ CountInv => RecountsNeedCrashes
  <2>. SUFFICES ASSUME TypeOK, SequenceInv, CopiesInv, CountInv PROVE RecountsNeedCrashes
    OBVIOUS
  <2>1. \A v, w \in Emitted : v # w => Identity(v) # Identity(w)
    BY DEF SequenceInv, Identity
  <2>2. ASSUME NEW t \in Targets, NEW e \in Events PROVE counted[t][e] <= 1 + crashes
    <3>1. /\ IsFiniteSet(Copies(e))
          /\ Cardinality(Copies(e)) + InOpen(e) <= crashes + WasRead(e)
      BY DEF CopiesInv
    <3>2. InOpen(e) \in 0 .. 1 /\ WasRead(e) \in 0 .. 1
      BY Indicators
    <3>3. /\ Cardinality(AppliedCopies(t, e)) <= Cardinality(Copies(e))
          /\ Cardinality(AppliedCopies(t, e)) \in Nat /\ Cardinality(Copies(e)) \in Nat
      BY <3>1, AppliedFinite, FS_CardinalityType
    <3>4. /\ counted[t][e] <= Cardinality(AppliedCopies(t, e))
          /\ counted[t][e] \in Nat /\ crashes \in Nat
      BY AggregationAssumption DEF CountInv, TypeOK
    <3>5. QED
      BY <3>1, <3>2, <3>3, <3>4
  <2>3. QED
    BY <2>1, <2>2 DEF RecountsNeedCrashes
<1>3. QED
  BY <1>1, <1>2, TypeCorrect, SequenceCorrect, CopiesCorrect, CountStep, PTL DEF Spec

=============================================================================
