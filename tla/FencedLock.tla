----------------------------- MODULE FencedLock -----------------------------
(***************************************************************************)
(* What domain.FencedLocker and Guard promise for one resource: at most    *)
(* one client holds it, each holder with a larger token than the one       *)
(* before, and only the holder of the moment passes Guard.  Losing a lease *)
(* to its expiry looks like giving it up.                                  *)
(***************************************************************************)
EXTENDS Integers

CONSTANTS Clients, Nobody

VARIABLES
  holder,  \* the client whose lease is in force, or Nobody
  fence,   \* the last token issued
  guarded  \* the token of the last Guard that passed

Init == holder = Nobody /\ fence = 0 /\ guarded = 0

Take(c) ==
  /\ holder = Nobody
  /\ holder' = c /\ fence' = fence + 1
  /\ UNCHANGED guarded

Leave ==
  /\ holder' = Nobody
  /\ UNCHANGED <<fence, guarded>>

Pass(c) ==
  /\ holder = c
  /\ guarded' = fence
  /\ UNCHANGED <<holder, fence>>

Next == Leave \/ \E c \in Clients : Take(c) \/ Pass(c)

Spec == Init /\ [][Next]_<<holder, fence, guarded>>

=============================================================================
