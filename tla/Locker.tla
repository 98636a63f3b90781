------------------------------- MODULE Locker -------------------------------
(***************************************************************************)
(* The fenced lock of one resource: internal/store/lock.go in memory,      *)
(* internal/redisstore/lock.go with three Redis scripts.  In memory a call *)
(* is one step under the mutex; in Redis the script is one step and its    *)
(* answer another, and the answer may be lost.  The expiry of a lease is a *)
(* step of its own: no code compares the times of two leases, only a lease *)
(* with the clock.  Calls that are refused change nothing.                 *)
(***************************************************************************)
EXTENDS Integers

CONSTANTS
  Clients,
  Nobody,     \* no client
  MaxAcquires \* bound: leases granted

VARIABLES
  backend, \* which locker runs: "memory" or "redis"
  token,   \* held[resource].token, or the value at lockKey; 0 when there is none
  live,    \* is that lease not yet past its expiry?
  fence,   \* fences[resource], or the counter at fenceKey; it never expires
  asked,   \* Redis: the token on its way to a client, 0 when there is none
  lease,   \* the token of the lease a client has, 0 when it has none
  owner,   \* history: the client that the held token was issued to
  guarded  \* history: the token of the last Guard that passed

vars == <<backend, token, live, fence, asked, lease, owner, guarded>>

Init ==
  /\ backend \in {"memory", "redis"}
  /\ token = 0 /\ live = FALSE /\ fence = 0
  /\ asked = [c \in Clients |-> 0] /\ lease = [c \in Clients |-> 0]
  /\ owner = Nobody /\ guarded = 0

Held == token # 0 /\ live

\* The next token, stored as the held one.
Issue(c) ==
  /\ fence < MaxAcquires
  /\ fence' = fence + 1
  /\ token' = fence + 1 /\ live' = TRUE /\ owner' = c
  /\ UNCHANGED <<backend, guarded>>

\* Locker.Acquire: an entry that has expired is overwritten.
MemoryAcquire(c) ==
  /\ backend = "memory" /\ ~Held
  /\ Issue(c)
  /\ lease' = [lease EXCEPT ![c] = fence + 1]
  /\ UNCHANGED asked

\* Mutant: the script sets the key although it exists.
AcquireAnyway(c) ==
  /\ backend = "redis" /\ asked[c] = 0
  /\ Issue(c)
  /\ asked' = [asked EXCEPT ![c] = fence + 1]
  /\ UNCHANGED lease

\* acquireLock: an expired key no longer exists.
AcquireScript(c) ==
  /\ backend = "redis" /\ asked[c] = 0 /\ ~Held
  /\ Issue(c)
  /\ asked' = [asked EXCEPT ![c] = fence + 1]
  /\ UNCHANGED lease

\* Store.Acquire returns the lease, or the error of an answer that never came.
AcquireReturns(c) ==
  /\ asked[c] # 0
  /\ asked' = [asked EXCEPT ![c] = 0]
  /\ \/ lease' = [lease EXCEPT ![c] = asked[c]]
     \/ UNCHANGED lease
  /\ UNCHANGED <<backend, token, live, fence, owner, guarded>>

\* Compare and delete, of the entry or of the key.
Delete(t) == token' = IF token = t THEN 0 ELSE token

\* Locker.Release.
MemoryRelease(c) ==
  /\ backend = "memory" /\ lease[c] # 0
  /\ Delete(lease[c])
  /\ lease' = [lease EXCEPT ![c] = 0]
  /\ UNCHANGED <<backend, live, fence, asked, owner, guarded>>

\* Store.Release: a client that gets no answer may release again.
RedisRelease(c) ==
  /\ backend = "redis" /\ lease[c] # 0
  /\ Delete(lease[c])
  /\ lease' = [lease EXCEPT ![c] = 0] \/ UNCHANGED lease
  /\ UNCHANGED <<backend, live, fence, asked, owner, guarded>>

\* Locker.Guard.
MemoryGuard(t) == token # 0 /\ token = t /\ fence <= t /\ live

\* guardLock: the fence first, then the key.
RedisGuard(t) == fence <= t /\ Held /\ token = t

Guard(t) == IF backend = "memory" THEN MemoryGuard(t) ELSE RedisGuard(t)

\* Guard returns nil.  Nothing ties what the caller does next to this moment.
GuardPasses(c) ==
  /\ lease[c] # 0 /\ Guard(lease[c])
  /\ guarded' = lease[c]
  /\ UNCHANGED <<backend, token, live, fence, asked, lease, owner>>

\* The lease reaches its expiry, whether or not its client still runs.
Expire ==
  /\ Held
  /\ live' = FALSE
  /\ UNCHANGED <<backend, token, fence, asked, lease, owner, guarded>>

Step(c) ==
  \/ MemoryAcquire(c) \/ AcquireScript(c) \/ AcquireReturns(c)
  \/ MemoryRelease(c) \/ RedisRelease(c)
  \/ GuardPasses(c)

Next == Expire \/ \E c \in Clients : Step(c)

Spec == Init /\ [][Next]_vars

-----------------------------------------------------------------------------
\* The variables have their types.
TypeOK ==
  /\ backend \in {"memory", "redis"}
  /\ token \in Nat /\ live \in BOOLEAN /\ fence \in Nat /\ guarded \in Nat
  /\ asked \in [Clients -> Nat] /\ lease \in [Clients -> Nat]
  /\ owner \in Clients \cup {Nobody}

\* Tokens are issued once: a lease or an answer that carries the held token is its
\* owner's, and the held token is the newest.
TokensAreIssuedOnce ==
  /\ token # 0 => token = fence /\ owner \in Clients
  /\ guarded <= fence
  /\ \A c \in Clients :
       /\ lease[c] <= fence /\ asked[c] <= fence
       /\ token # 0 /\ token \in {lease[c], asked[c]} => owner = c

\* Guard: of all the leases that clients believe they have, a paused holder's
\* included, at most one passes.
OneGuardPasses ==
  \A c, d \in Clients :
     lease[c] # 0 /\ lease[d] # 0 /\ Guard(lease[c]) /\ Guard(lease[d]) => c = d

\* Guard: once a newer lease has passed, no older one ever does.
FencingIsMonotonic == [][guarded' >= guarded]_vars

\* Release: a client that comes back with an old lease does not end a newer one.
OnlyOwnerReleases ==
  [][token # 0 /\ token' = 0 => \A c \in Clients \ {owner} : lease'[c] = lease[c]]_vars

\* Acquire, Release and Guard of either locker implement the lock that they promise:
\* one holder at a time, larger tokens for later holders, and Guard for the holder
\* alone, whatever answers are lost and however long a client pauses.
FencedHolder == IF Held THEN owner ELSE Nobody
Promise == INSTANCE FencedLock WITH holder <- FencedHolder
ImplementsFencedLock == Promise!Spec

=============================================================================
