---------------------------- MODULE AsyncMetrics ----------------------------
(***************************************************************************)
(* The metrics recorder that keeps Redis off the request path              *)
(* (internal/metrics/async.go).  Increment looks at the closed flag and    *)
(* then offers its sample to a bounded channel; drain forwards samples to  *)
(* the inner recorder; Close sets the flag, closes done and waits for      *)
(* drain, which empties the channel once more before it returns.           *)
(***************************************************************************)
EXTENDS Integers, SequencesExt

CONSTANTS
  Callers, \* goroutines that call Increment, each once
  Buffer   \* capacity of the channel

VARIABLES
  calling,  \* each caller: "idle", "checked" (it saw the recorder open) or "returned"
  samples,  \* the channel, holding the callers' samples
  shut,     \* the closed flag; done is closed in the same step
  drain,    \* the draining goroutine: "select", "emptying" or "returned"
  recorded, \* history: samples the inner recorder has got
  dropped,  \* history: samples counted in dropped
  raced     \* history: callers that had seen the recorder open when Close began

vars == <<calling, samples, shut, drain, recorded, dropped, raced>>

Init ==
  /\ calling = [c \in Callers |-> "idle"]
  /\ samples = <<>> /\ shut = FALSE /\ drain = "select"
  /\ recorded = {} /\ dropped = {} /\ raced = {}

\* Increment: the first look.
Check(c) ==
  /\ calling[c] = "idle"
  /\ IF shut
     THEN dropped' = dropped \cup {c} /\ calling' = [calling EXCEPT ![c] = "returned"]
     ELSE calling' = [calling EXCEPT ![c] = "checked"] /\ UNCHANGED dropped
  /\ UNCHANGED <<samples, shut, drain, recorded, raced>>

\* Increment: the select that never blocks.
Offer(c) ==
  /\ calling[c] = "checked"
  /\ calling' = [calling EXCEPT ![c] = "returned"]
  /\ IF Len(samples) < Buffer
     THEN samples' = Append(samples, c) /\ UNCHANGED dropped
     ELSE dropped' = dropped \cup {c} /\ UNCHANGED samples
  /\ UNCHANGED <<shut, drain, recorded, raced>>

Forward ==
  /\ recorded' = recorded \cup {Head(samples)}
  /\ samples' = Tail(samples)
  /\ UNCHANGED <<calling, shut, dropped, raced>>

\* Mutant: drain returns as soon as done is closed.
DrainStops ==
  /\ drain = "select"
  /\ \/ samples # <<>> /\ Forward /\ UNCHANGED drain
     \/ shut /\ drain' = "returned" /\ UNCHANGED <<calling, samples, shut, recorded, dropped, raced>>

\* drain: either ready case of the select may be taken.
Drain ==
  /\ drain = "select"
  /\ \/ samples # <<>> /\ Forward /\ UNCHANGED drain
     \/ shut /\ drain' = "emptying" /\ UNCHANGED <<calling, samples, shut, recorded, dropped, raced>>

\* drain, after done: until the channel is empty.
Empty ==
  /\ drain = "emptying"
  /\ IF samples # <<>> THEN Forward /\ UNCHANGED drain
     ELSE drain' = "returned" /\ UNCHANGED <<calling, samples, shut, recorded, dropped, raced>>

\* Close begins; it returns once drain has.
Close ==
  /\ ~shut /\ shut' = TRUE
  /\ raced' = {c \in Callers : calling[c] = "checked"}
  /\ UNCHANGED <<calling, samples, drain, recorded, dropped>>

Closed == shut /\ drain = "returned"

Next == Drain \/ Empty \/ Close \/ \E c \in Callers : Check(c) \/ Offer(c)

Spec == Init /\ [][Next]_vars

-----------------------------------------------------------------------------
\* Increment, drain and Close: a sample is forwarded or counted as dropped.  The only
\* ones that are neither, once Close has returned, are those of callers that saw the
\* recorder open just before.
SamplesAccounted ==
  /\ \A c \in Callers :
       calling[c] = "returned" => c \in recorded \cup dropped \cup Range(samples)
  /\ Closed => Range(samples) \subseteq raced

=============================================================================
