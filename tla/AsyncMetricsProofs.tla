------------------------- MODULE AsyncMetricsProofs -------------------------
(***************************************************************************)
(* SamplesAccounted for any number of callers and any capacity of the      *)
(* channel.  It is not inductive: that drain leaves nothing behind but     *)
(* what raced with Close rests on drain returning only after the flag was  *)
(* set, and on the callers that passed the flag before being those in      *)
(* raced.                                                                  *)
(***************************************************************************)
EXTENDS AsyncMetrics, TLAPS

Types ==
  /\ calling \in [Callers -> {"idle", "checked", "returned"}]
  /\ samples \in Seq(Callers)
  /\ shut \in BOOLEAN /\ drain \in {"select", "emptying", "returned"}

\* Every call that returned has its sample somewhere.
Kept ==
  \A c \in Callers :
    calling[c] = "returned" => c \in recorded \cup dropped \cup Range(samples)

\* What can still reach the channel once Close has begun raced with it.
Late == shut => \A c \in Callers : calling[c] = "checked" => c \in raced

Inv ==
  /\ Types /\ Kept /\ Late
  /\ drain # "select" => shut
  /\ drain = "returned" => Range(samples) \subseteq raced

\* A send adds its sample to the channel and removes none.
LEMMA RangeAppend ==
  ASSUME NEW S, NEW s \in Seq(S), NEW e \in S
  PROVE  Range(Append(s, e)) = Range(s) \cup {e}
<1>1. /\ DOMAIN Append(s, e) = DOMAIN s \cup {Len(s) + 1}
      /\ \A i \in DOMAIN s : Append(s, e)[i] = s[i]
      /\ Append(s, e)[Len(s) + 1] = e
  OBVIOUS
<1> QED
  BY <1>1 DEF Range

\* A receive removes the head only.
LEMMA RangeTail ==
  ASSUME NEW S, NEW s \in Seq(S), s # <<>>
  PROVE  /\ Head(s) \in S /\ Tail(s) \in Seq(S)
         /\ Range(s) = Range(Tail(s)) \cup {Head(s)}
<1>1. /\ Len(s) \in Nat \ {0} /\ DOMAIN s = 1..Len(s)
      /\ Head(s) = s[1] /\ Tail(s) \in Seq(S)
      /\ DOMAIN Tail(s) = 1..(Len(s) - 1)
      /\ \A i \in 1..(Len(s) - 1) : Tail(s)[i] = s[i + 1]
  OBVIOUS
<1>2. Range(s) \subseteq Range(Tail(s)) \cup {Head(s)}
  <2> SUFFICES ASSUME NEW i \in 1..Len(s), i # 1 PROVE s[i] \in Range(Tail(s))
    BY <1>1 DEF Range
  <2>1. i - 1 \in 1..(Len(s) - 1) /\ Tail(s)[i - 1] = s[i]
    BY <1>1
  <2> QED
    BY <1>1, <2>1 DEF Range
<1>3. Range(Tail(s)) \cup {Head(s)} \subseteq Range(s)
  <2>1. \A i \in 1..(Len(s) - 1) : i + 1 \in DOMAIN s
    BY <1>1
  <2>2. 1 \in DOMAIN s
    BY <1>1
  <2> QED
    BY <1>1, <2>1, <2>2 DEF Range
<1> QED
  BY <1>1, <1>2, <1>3

LEMMA InitInv == Init => Inv
<1> SUFFICES ASSUME Init PROVE Inv
  OBVIOUS
<1>1. shut \in BOOLEAN
  BY Zenon DEF Init
<1> QED
  BY <1>1 DEF Init, Inv, Types, Kept, Late

\* Forwarding a sample, which drain does in both of its loops, moves it from the
\* channel to the inner recorder.
LEMMA ForwardKeeps ==
  ASSUME Inv, samples # <<>>, Forward, UNCHANGED drain
  PROVE  Inv'
<1>1. /\ Tail(samples) \in Seq(Callers)
      /\ Range(samples) = Range(Tail(samples)) \cup {Head(samples)}
  BY RangeTail DEF Inv, Types
<1>2. shut' \in BOOLEAN
  BY Zenon DEF Inv, Types, Forward
<1>3. Types'
  BY <1>1, <1>2 DEF Inv, Types, Forward
<1>4. Kept'
  BY <1>1, Zenon DEF Inv, Kept, Forward
<1>5. Late' /\ (drain' # "select" => shut')
  BY DEF Inv, Late, Forward
<1>6. drain' = "returned" => Range(samples') \subseteq raced'
  BY <1>1 DEF Inv, Forward
<1> QED
  BY <1>3, <1>4, <1>5, <1>6 DEF Inv

LEMMA CheckKeeps == ASSUME Inv, NEW c \in Callers, Check(c) PROVE Inv'
<1>1. shut' \in BOOLEAN
  BY Zenon DEF Inv, Types, Check
<1> QED
  BY <1>1 DEF Inv, Types, Kept, Late, Check

LEMMA OfferKeeps == ASSUME Inv, NEW c \in Callers, Offer(c) PROVE Inv'
<1>1. shut' \in BOOLEAN
  BY Zenon DEF Inv, Types, Offer
<1>2. CASE samples' = Append(samples, c) /\ UNCHANGED dropped
  <2>1. samples' \in Seq(Callers) /\ Range(samples') = Range(samples) \cup {c}
    BY <1>2, RangeAppend DEF Inv, Types
  <2>2. Types'
    BY <1>1, <2>1 DEF Inv, Types, Offer
  <2>3. Kept' /\ Late'
    BY <1>2, <2>1 DEF Inv, Types, Kept, Late, Offer
  <2>4. (drain' # "select" => shut') /\ (drain' = "returned" => Range(samples') \subseteq raced')
    BY <2>1 DEF Inv, Late, Offer
  <2> QED
    BY <2>2, <2>3, <2>4 DEF Inv
<1>3. CASE dropped' = dropped \cup {c} /\ UNCHANGED samples
  BY <1>1, <1>3 DEF Inv, Types, Kept, Late, Offer
<1> QED
  BY <1>2, <1>3 DEF Offer

\* Increment, drain and Close preserve the invariant.
LEMMA StepInv == Inv /\ [Next]_vars => Inv'
<1> SUFFICES ASSUME Inv, [Next]_vars PROVE Inv'
  OBVIOUS
<1>1. CASE Drain
  <2>1. CASE samples # <<>> /\ Forward /\ UNCHANGED drain
    BY <2>1, ForwardKeeps
  <2>2. CASE shut /\ drain' = "emptying" /\ UNCHANGED <<calling, samples, shut, recorded, dropped, raced>>
    BY <2>2 DEF Inv, Types, Kept, Late
  <2> QED
    BY <1>1, <2>1, <2>2 DEF Drain
<1>2. CASE Empty
  <2>1. CASE samples # <<>>
    BY <1>2, <2>1, ForwardKeeps DEF Empty
  <2>2. CASE samples = <<>>
    BY <1>2, <2>2 DEF Empty, Inv, Types, Kept, Late, Range
  <2> QED
    BY <2>1, <2>2
<1>3. CASE Close
  <2>1. drain = "select"  \/ shut
    BY DEF Inv
  <2> QED
    BY <1>3, <2>1 DEF Close, Inv, Types, Kept, Late
<1>4. ASSUME NEW c \in Callers, Check(c) PROVE Inv'
  BY <1>4, CheckKeeps
<1>5. ASSUME NEW c \in Callers, Offer(c) PROVE Inv'
  BY <1>5, OfferKeeps
<1>6. CASE UNCHANGED vars
  BY <1>6 DEF vars, Inv, Types, Kept, Late
<1> QED
  BY <1>1, <1>2, <1>3, <1>4, <1>5, <1>6 DEF Next

\* Increment, drain and Close: whatever the interleaving, a sample is forwarded, counted
\* as dropped or, if it raced with Close, left in the channel.
THEOREM SamplesAreAccounted == Spec => []SamplesAccounted
<1>1. Inv => SamplesAccounted
  BY DEF Inv, Kept, SamplesAccounted, Closed
<1> QED
  BY <1>1, InitInv, StepInv, PTL DEF Spec

=============================================================================
