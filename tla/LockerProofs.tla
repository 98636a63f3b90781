---------------------------- MODULE LockerProofs ----------------------------
(***************************************************************************)
(* The fenced lock for any number of clients and of leases: the guarantees *)
(* of Guard, and that either locker implements FencedLock.  All of it      *)
(* rests on TokensAreIssuedOnce, which is inductive with the types.        *)
(***************************************************************************)
EXTENDS Locker, TLAPS

Inv == TypeOK /\ TokensAreIssuedOnce

\* The two implementations of Guard accept the same leases.
LEMMA GuardsAgree ==
  ASSUME TypeOK, NEW t \in Nat \ {0}
  PROVE  Guard(t) <=> (token = t /\ live /\ fence <= t)
  BY DEF TypeOK, Guard, MemoryGuard, RedisGuard, Held

LEMMA InitInv == Init => Inv
<1> SUFFICES ASSUME Init PROVE Inv
  OBVIOUS
<1>1. TypeOK
  <2>1. live \in BOOLEAN
    BY Zenon DEF Init
  <2> QED
    BY <2>1 DEF Init, TypeOK
<1>2. TokensAreIssuedOnce
  BY DEF Init, TokensAreIssuedOnce
<1> QED
  BY <1>1, <1>2 DEF Inv

\* Acquire, Release, Guard and the expiry of a lease keep tokens unique.
LEMMA StepInv == Inv /\ [Next]_vars => Inv'
<1> SUFFICES ASSUME Inv, [Next]_vars PROVE Inv'
  OBVIOUS
<1> USE DEF Inv, TypeOK, TokensAreIssuedOnce
<1>1. ASSUME NEW c \in Clients, MemoryAcquire(c) PROVE Inv'
  BY <1>1 DEF MemoryAcquire, Issue, Held
<1>2. ASSUME NEW c \in Clients, AcquireScript(c) PROVE Inv'
  BY <1>2 DEF AcquireScript, Issue, Held
<1>3. ASSUME NEW c \in Clients, AcquireReturns(c) PROVE Inv'
  BY <1>3 DEF AcquireReturns
<1>4. ASSUME NEW c \in Clients, MemoryRelease(c) PROVE Inv'
  BY <1>4 DEF MemoryRelease, Delete
<1>5. ASSUME NEW c \in Clients, RedisRelease(c) PROVE Inv'
  BY <1>5 DEF RedisRelease, Delete
<1>6. ASSUME NEW c \in Clients, GuardPasses(c) PROVE Inv'
  BY <1>6 DEF GuardPasses
<1>7. CASE Expire
  BY <1>7 DEF Expire, Held
<1>8. CASE UNCHANGED vars
  BY <1>8 DEF vars
<1> QED
  BY <1>1, <1>2, <1>3, <1>4, <1>5, <1>6, <1>7, <1>8 DEF Next, Step

\* Acquire: tokens are issued once, so that the types and TokensAreIssuedOnce hold of
\* either locker.
THEOREM LockerInvariant == Spec => []Inv
  BY InitInv, StepInv, PTL DEF Spec

\* Guard: at most one of all the leases that clients have passes, for any number of
\* clients, lost answers and expired leases.
THEOREM GuardIsExclusive == Spec => []OneGuardPasses
<1>1. Inv => OneGuardPasses
  <2> SUFFICES ASSUME Inv,
                      NEW c \in Clients, NEW d \in Clients,
                      lease[c] # 0, lease[d] # 0, Guard(lease[c]), Guard(lease[d])
               PROVE  c = d
    BY DEF OneGuardPasses
  <2>1. lease[c] \in Nat \ {0} /\ lease[d] \in Nat \ {0}
    BY DEF Inv, TypeOK
  <2>2. token = lease[c] /\ token = lease[d]
    BY <2>1, GuardsAgree DEF Inv
  <2> QED
    BY <2>2 DEF Inv, TokensAreIssuedOnce
<1> QED
  BY <1>1, LockerInvariant, PTL

\* Guard: the token of a Guard that passes is never smaller than that of one before,
\* so a holder that slept through its lease is refused for good.
THEOREM FencingNeverGoesBack == Spec => FencingIsMonotonic
<1>1. Inv /\ [Next]_vars => [guarded' >= guarded]_vars
  <2> SUFFICES ASSUME Inv, Next PROVE guarded' >= guarded
    BY DEF vars
  <2>1. guarded \in Nat
    BY DEF Inv, TypeOK
  <2>2. ASSUME NEW c \in Clients, GuardPasses(c) PROVE guarded' >= guarded
    <3>1. lease[c] \in Nat \ {0} /\ fence \in Nat
      BY <2>2 DEF Inv, TypeOK, GuardPasses
    <3>2. fence <= lease[c] /\ guarded <= fence /\ guarded' = lease[c]
      BY <2>2, <3>1, GuardsAgree DEF Inv, TokensAreIssuedOnce, GuardPasses
    <3> QED
      BY <2>1, <3>1, <3>2
  <2>3. ASSUME Expire \/ \E c \in Clients : Step(c) /\ ~GuardPasses(c)
        PROVE  guarded' = guarded
    BY <2>3 DEF Expire, Step, MemoryAcquire, AcquireScript, Issue, AcquireReturns,
                MemoryRelease, RedisRelease
  <2> QED
    BY <2>1, <2>2, <2>3 DEF Next
<1> QED
  BY <1>1, LockerInvariant, PTL DEF Spec, FencingIsMonotonic

\* Release: only the client that a lease was issued to ends it, since no other one has
\* its token.
THEOREM ReleaseIsTheOwners == Spec => OnlyOwnerReleases
<1> DEFINE Others == token # 0 /\ token' = 0 => \A c \in Clients \ {owner} : lease'[c] = lease[c]
<1>1. Inv /\ [Next]_vars => [Others]_vars
  <2> SUFFICES ASSUME Inv, Next, token # 0, token' = 0,
                      NEW d \in Clients \ {owner}
               PROVE  lease'[d] = lease[d]
    BY DEF vars
  <2> USE DEF Inv, TypeOK
  <2>1. ASSUME NEW c \in Clients, MemoryRelease(c) \/ RedisRelease(c)
        PROVE  lease'[d] = lease[d]
    <3>1. token = lease[c]
      BY <2>1 DEF MemoryRelease, RedisRelease, Delete
    <3>2. c # d
      BY <3>1 DEF TokensAreIssuedOnce
    <3> QED
      BY <2>1, <3>2 DEF MemoryRelease, RedisRelease
  <2>2. ASSUME NEW c \in Clients, MemoryAcquire(c) \/ AcquireScript(c) PROVE FALSE
    BY <2>2 DEF MemoryAcquire, AcquireScript, Issue
  <2>3. ASSUME NEW c \in Clients, AcquireReturns(c) \/ GuardPasses(c) PROVE FALSE
    BY <2>3 DEF AcquireReturns, GuardPasses
  <2>4. CASE Expire
    BY <2>4 DEF Expire
  <2> QED
    BY <2>1, <2>2, <2>3, <2>4 DEF Next, Step
<1> QED
  BY <1>1, LockerInvariant, PTL DEF Spec, OnlyOwnerReleases

\* Acquire, Release and Guard implement the fenced lock: granting a lease is a Take
\* of a free lock, a release or an expiry of the held one a Leave, a Guard that
\* passes a Pass of the holder, and everything else leaves the lock alone.
THEOREM LockerImplementsFencedLock == Spec => ImplementsFencedLock
<1>1. Init => Promise!Init
  BY DEF Init, Promise!Init, FencedHolder, Held
<1>2. Inv /\ [Next]_vars => [Promise!Next]_<<FencedHolder, fence, guarded>>
  <2> SUFFICES ASSUME Inv, [Next]_vars, ~UNCHANGED <<FencedHolder, fence, guarded>>
               PROVE  Promise!Next
    OBVIOUS
  <2> USE DEF Promise!Next, FencedHolder, Held
  <2>1. ASSUME NEW c \in Clients, MemoryAcquire(c) PROVE Promise!Take(c)
    BY <2>1 DEF MemoryAcquire, Issue, Promise!Take, Inv, TypeOK
  <2>2. ASSUME NEW c \in Clients, AcquireScript(c) PROVE Promise!Take(c)
    BY <2>2 DEF AcquireScript, Issue, Promise!Take, Inv, TypeOK
  <2>3. ASSUME NEW c \in Clients, AcquireReturns(c) PROVE FALSE
    BY <2>3 DEF AcquireReturns
  <2>4. ASSUME NEW c \in Clients, MemoryRelease(c) PROVE Promise!Leave
    BY <2>4 DEF MemoryRelease, Delete, Promise!Leave
  <2>5. ASSUME NEW c \in Clients, RedisRelease(c) PROVE Promise!Leave
    BY <2>5 DEF RedisRelease, Delete, Promise!Leave
  <2>6. ASSUME NEW c \in Clients, GuardPasses(c) PROVE Promise!Pass(c)
    <3>1. lease[c] \in Nat \ {0} /\ fence \in Nat
      BY <2>6 DEF Inv, TypeOK, GuardPasses
    <3>2. token = lease[c] /\ live
      BY <2>6, <3>1, GuardsAgree DEF Inv, GuardPasses
    <3> QED
      BY <2>6, <3>1, <3>2 DEF Inv, TokensAreIssuedOnce, GuardPasses, Promise!Pass
  <2>7. CASE Expire
    BY <2>7 DEF Expire, Promise!Leave
  <2>8. CASE UNCHANGED vars
    BY <2>8 DEF vars
  <2> QED
    BY <2>1, <2>2, <2>3, <2>4, <2>5, <2>6, <2>7, <2>8 DEF Next, Step
<1> QED
  BY <1>1, <1>2, LockerInvariant, PTL DEF Spec, ImplementsFencedLock, Promise!Spec

=============================================================================
