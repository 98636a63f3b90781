--------------------------- MODULE MCStateStores ----------------------------
(* Instances of the stores for TLC. *)
EXTENDS StateStores

\* Two emissions of one window, the smaller with the later number, and one of the next.
Three ==
  { [window |-> 1, sequence |-> 1, count |-> 2, p99 |-> 5],
    [window |-> 1, sequence |-> 2, count |-> 1, p99 |-> 9],
    [window |-> 2, sequence |-> 3, count |-> 1, p99 |-> 7] }

\* A reset is delivered twice where there is a clock and an archive; watches see one.
Small == part = "watches" => resets' <= 1

\* FairSpec, bounded; nobody is obliged to reset.
SmallSpec ==
  /\ Init /\ [][Next /\ Small]_vars
  /\ \A w \in Watchers : WF_hot(Hot!Fetch(w)) /\ WF_hot(Hot!Push(w)) /\ WF_hot(Hot!Receive(w))

=============================================================================
