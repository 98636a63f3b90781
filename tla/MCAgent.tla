------------------------------ MODULE MCAgent -------------------------------
(***************************************************************************)
(* The agent's pipeline with either source, for TLC.  The last exits and   *)
(* ticks are kept for runs in which every call is paired, long enough and  *)
(* of a sampled thread: they fill the limiter on both sides of a boundary  *)
(* of its windows.                                                         *)
(***************************************************************************)
EXTENDS Agent

ShortTime == 4  \* bound: ticks in the other runs
ShortExits == 3 \* bound: exits in the other runs

Small ==
  (now' > ShortTime \/ stats'.observed + stats'.unpaired > ShortExits) =>
    /\ reused' = {} /\ stats'.unpaired = 0 /\ stats'.filter = 0
    /\ \A t \in Skipped : thread'[t].state = "user"

\* FairSpec, bounded.  The kernel's steps and the clock, which Small bounds, are not fair.
SmallSpec ==
  /\ Init /\ [][Next /\ Small]_vars
  /\ WF_vars(mode = "ebpf" /\ PumpEnds /\ UNCHANGED mode)
  /\ WF_vars(mode = "ebpf" /\ CloseSource /\ UNCHANGED mode)
  /\ WF_vars((Batcher!Offer \/ Batcher!Evict \/ Batcher!Reoffer) /\ UNCHANGED <<mode, capture>>)
  /\ WF_vars(Batcher!CollectEnds /\ UNCHANGED <<mode, capture>>)
  /\ WF_vars(Batcher!SenderReceives /\ UNCHANGED <<mode, capture>>)
  /\ WF_vars(Batcher!GraceExpires /\ UNCHANGED <<mode, capture>>)
  /\ WF_vars(grace /\ Batcher!SendReturns /\ UNCHANGED <<mode, capture>>)

=============================================================================
