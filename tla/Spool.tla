------------------------------- MODULE Spool -------------------------------
(***************************************************************************)
(* The agent's disk queue (internal/spool/spool.go): batches that could    *)
(* not be posted are kept one file each in a directory of bounded size,    *)
(* oldest first, and survive a restart of the agent.                       *)
(*                                                                         *)
(* Every method holds s.mu, so methods do not interleave; what interleaves *)
(* with them is a crash.  Enqueue and Open are therefore split at their    *)
(* file-system calls, and Peek and Release, which make one removal each,   *)
(* are single actions.  A .partial file takes part in no decision (Open    *)
(* deletes it unread) and is left out.                                     *)
(***************************************************************************)
EXTENDS Integers, FiniteSets, SequencesExt

CONSTANTS
  Sizes,       \* payload sizes that callers offer
  MaxBytes,    \* s.maxBytes
  MaxEntries,  \* s.maxEntries, at least 64 in the code
  MaxOffers,   \* bound: calls of Enqueue
  MaxFaults,   \* bound: removals that fail while making room
  MaxCrashes   \* bound: crashes

ASSUME SpoolAssumption ==
  /\ Sizes \subseteq Nat \ {0}
  /\ MaxBytes \in Nat \ {0}
  /\ MaxEntries \in Nat \ {0}
  /\ MaxOffers \in Nat
  /\ MaxFaults \in Nat
  /\ MaxCrashes \in Nat

VARIABLES
  harsh,     \* external: may power be lost, and files removed or replaced by others?
  disk,      \* the directory: file name -> payload
  stable,    \* the directory as it was last synced
  phase,     \* of Open: "recover", "trim", then "open"
  todo,      \* names recover() has still to read
  order, sizes, bytes, seq,                      \* fields of Spool
  enqueued, dequeued, dropped, dropFailures,     \* counters of Spool
  op,        \* the Enqueue call that holds s.mu, or the last one's result
  peeked,    \* the name Peek returned to the drain loop
  crashes,
  offers,    \* history: payloads offered so far, which are numbered 1..offers
  acked,     \* history: payloads whose Enqueue returned nil
  removed    \* history: payloads whose file was removed

disks == <<disk, stable, removed>>
index == <<order, sizes, bytes>>
names == <<seq, enqueued>>
counts == <<dequeued, dropped, dropFailures>>
vars == <<harsh, disks, index, names, counts, phase, todo, op, peeked, crashes, offers, acked>>

-----------------------------------------------------------------------------
\* A file name is "<ordinal>-<sequence>.batch"; both numbers are zero-padded.
Name == Nat \X Nat
NoName == <<0, 0>>
Before(a, b) == a[1] < b[1] \/ (a[1] = b[1] /\ a[2] < b[2])

\* Something that is not a regular file is not a payload.
Payload == [id: Nat, size: Nat]
Irregular == [id |-> 0, size |-> 0]

Regular(dir) == {n \in DOMAIN dir : dir[n] # Irregular}
PayloadsIn(dir) == {dir[n].id : n \in DOMAIN dir}

\* The entries of S by ordinal and then by sequence: sort.Slice in recover.
Sorted(S) ==
  {s \in [1..Cardinality(S) -> S] :
     /\ Range(s) = S
     /\ \A i, j \in DOMAIN s : i < j => Before(s[i], s[j])}

Busy == op.pc \in {"evict", "name", "rename", "sync"}
Ready == phase = "open" /\ ~Busy

-----------------------------------------------------------------------------
\* What opening starts from: an index that has read nothing yet.
Reset ==
  /\ order' = <<>> /\ sizes' = [n \in {} |-> 0] /\ bytes' = 0
  /\ seq' = 0 /\ enqueued' = 0
  /\ dequeued' = 0 /\ dropped' = 0 /\ dropFailures' = 0
  /\ op' = [pc |-> "none", id |-> 0, size |-> 0]
  /\ peeked' = NoName
  /\ phase' = "recover"

Init ==
  /\ harsh \in BOOLEAN
  /\ disk = [n \in {} |-> Irregular] /\ stable = disk /\ removed = {}
  /\ order = <<>> /\ sizes = [n \in {} |-> 0] /\ bytes = 0
  /\ seq = 0 /\ enqueued = 0
  /\ dequeued = 0 /\ dropped = 0 /\ dropFailures = 0
  /\ op = [pc |-> "none", id |-> 0, size |-> 0]
  /\ peeked = NoName
  /\ phase = "recover" /\ todo = {}
  /\ crashes = 0 /\ offers = 0 /\ acked = {}

-----------------------------------------------------------------------------
\* recover: each regular .batch file is indexed and its name observed, so
\* that later names are larger than every name found.
Observe(n) ==
  /\ enqueued' = IF n[1] > enqueued THEN n[1] ELSE enqueued
  /\ seq' = IF n[2] > seq THEN n[2] ELSE seq

RecoverEntry(n) ==
  /\ phase = "recover" /\ n \in todo
  /\ todo' = todo \ {n}
  /\ sizes' = [m \in DOMAIN sizes \cup {n} |-> IF m = n THEN disk[n].size ELSE sizes[m]]
  /\ bytes' = bytes + disk[n].size
  /\ Observe(n)
  /\ UNCHANGED <<disks, order, counts, phase, op, peeked, crashes, offers, acked>>

RecoverSort ==
  /\ phase = "recover" /\ todo = {}
  /\ order' \in Sorted(DOMAIN sizes)
  /\ phase' = "trim"
  /\ UNCHANGED <<disks, sizes, bytes, names, counts, todo, op, peeked, crashes, offers, acked>>

-----------------------------------------------------------------------------
\* What is left of the total without entry n.
BytesWithout(n) == IF bytes < sizes[n] THEN 0 ELSE bytes - sizes[n]

\* removeLocked when os.Remove succeeds or finds no file.
RemoveLocked(n) ==
  /\ disk' = Restrict(disk, DOMAIN disk \ {n})
  /\ removed' = removed \cup {disk[m].id : m \in {n} \cap DOMAIN disk}
  /\ bytes' = BytesWithout(n)
  /\ sizes' = Restrict(sizes, DOMAIN sizes \ {n})
  /\ order' = RemoveFirst(order, n)
  /\ UNCHANGED stable

\* os.Remove fails for another reason: nothing has changed.
RemoveFails ==
  /\ dropFailures < MaxFaults
  /\ dropFailures' = dropFailures + 1
  /\ UNCHANGED <<disks, index, dropped>>

\* Mutant: the newest entry is dropped.
DropLast ==
  /\ RemoveLocked(Last(order))
  /\ dropped' = dropped + 1
  /\ UNCHANGED dropFailures

DropHead ==
  /\ RemoveLocked(Head(order))
  /\ dropped' = dropped + 1
  /\ UNCHANGED dropFailures

OverBudget == order # <<>> /\ (bytes > MaxBytes \/ Len(order) > MaxEntries)

\* trimToBudget: one round of its loop, or its end.
Trim ==
  /\ phase = "trim"
  /\ \/ OverBudget /\ DropHead /\ UNCHANGED phase
     \/ OverBudget /\ RemoveFails /\ phase' = "open"
     \/ ~OverBudget /\ phase' = "open" /\ UNCHANGED <<disks, index, dropped, dropFailures>>
  /\ UNCHANGED <<names, dequeued, todo, op, peeked, crashes, offers, acked>>

-----------------------------------------------------------------------------
\* Enqueue.  Payloads are numbered in the order in which they are offered.
EnqueueCall(size) ==
  /\ Ready /\ offers < MaxOffers
  /\ offers' = offers + 1
  /\ IF size > MaxBytes
     THEN /\ op' = [pc |-> "error", id |-> offers + 1, size |-> size]
          /\ dropped' = dropped + 1
     ELSE /\ op' = [pc |-> "evict", id |-> offers + 1, size |-> size]
          /\ UNCHANGED dropped
  /\ UNCHANGED <<disks, index, names, dequeued, dropFailures, phase, todo, peeked, crashes, acked>>

\* Mutant: the budget is off by one.
NoRoomForTwo == order # <<>> /\ bytes + op.size > MaxBytes + 1

NoRoom == order # <<>> /\ bytes + op.size > MaxBytes

\* One round of the eviction loop.  A removal that fails ends the loop, and
\* the new entry is still admitted.
EnqueueEvict ==
  /\ phase = "open" /\ op.pc = "evict" /\ NoRoom
  /\ \/ DropHead /\ UNCHANGED op
     \/ RemoveFails /\ op' = [op EXCEPT !.pc = "name"]
  /\ UNCHANGED <<names, dequeued, phase, todo, peeked, crashes, offers, acked>>

\* The eviction loop is over: the index ceiling refuses the newest entry.
EnqueueAdmit ==
  /\ phase = "open"
  /\ op.pc = "name" \/ (op.pc = "evict" /\ ~NoRoom)
  /\ IF Len(order) >= MaxEntries
     THEN /\ op' = [op EXCEPT !.pc = "error"]
          /\ dropped' = dropped + 1
          /\ UNCHANGED seq
     ELSE /\ seq' = seq + 1      \* nextName: try again while the name is taken
          /\ op' = [op EXCEPT !.pc = IF <<enqueued + 1, seq + 1>> \in DOMAIN sizes
                                     THEN "name" ELSE "rename"]
          /\ UNCHANGED dropped
  /\ UNCHANGED <<disks, index, enqueued, dequeued, dropFailures, phase, todo, peeked, crashes, offers, acked>>

\* Writing and syncing the temporary file, or renaming it, fails.
EnqueueFails ==
  /\ phase = "open" /\ op.pc = "rename"
  /\ op' = [op EXCEPT !.pc = "error"]
  /\ UNCHANGED <<disks, index, names, counts, phase, todo, peeked, crashes, offers, acked>>

\* The name under way: nextName's ordinal and the sequence it settled on.
NextName == <<enqueued + 1, seq>>

\* The temporary file is written, synced and renamed to its final name.
EnqueueRename ==
  /\ phase = "open" /\ op.pc = "rename"
  /\ LET name == NextName
         payload == [id |-> op.id, size |-> op.size]
     IN /\ disk' = [n \in DOMAIN disk \cup {name} |-> IF n = name THEN payload ELSE disk[n]]
        /\ order' = Append(order, name)
        /\ sizes' = [n \in DOMAIN sizes \cup {name} |-> IF n = name THEN op.size ELSE sizes[n]]
  /\ bytes' = bytes + op.size
  /\ enqueued' = enqueued + 1
  /\ op' = [op EXCEPT !.pc = "sync"]
  /\ UNCHANGED <<stable, removed, seq, counts, phase, todo, peeked, crashes, offers, acked>>

\* Mutant: an error of syncDirectory is ignored.
EnqueueUnsynced ==
  /\ phase = "open" /\ op.pc = "sync"
  /\ acked' = acked \cup {op.id}
  /\ op' = [op EXCEPT !.pc = "nil"]
  /\ stable' \in {stable, disk}
  /\ UNCHANGED <<disk, removed, index, names, counts, phase, todo, peeked, crashes, offers>>

\* syncDirectory decides what Enqueue returns; the entry stays either way.
EnqueueSync ==
  /\ phase = "open" /\ op.pc = "sync"
  /\ \/ /\ stable' = disk
        /\ acked' = acked \cup {op.id}
        /\ op' = [op EXCEPT !.pc = "nil"]
     \/ /\ op' = [op EXCEPT !.pc = "error"]
        /\ UNCHANGED <<stable, acked>>
  /\ UNCHANGED <<disk, removed, index, names, counts, phase, todo, peeked, crashes, offers>>

-----------------------------------------------------------------------------
\* Mutants: only order, or only order and sizes, forget the entry.
ForgetInOrder(n) ==
  order' = RemoveFirst(order, n) /\ UNCHANGED <<disks, sizes, bytes>>
ForgetInIndex(n) ==
  /\ order' = RemoveFirst(order, n) /\ sizes' = Restrict(sizes, DOMAIN sizes \ {n})
  /\ UNCHANGED <<disks, bytes>>

\* Peek forgets an entry the way Release removes one.
Forget(n) == RemoveLocked(n)

\* Peek returns the oldest entry, or forgets it when its file is gone or is
\* no longer a regular file.
Peek ==
  /\ Ready /\ order # <<>>
  /\ LET head == Head(order)
     IN \/ /\ head \in Regular(disk)
           /\ peeked' = head
           /\ UNCHANGED <<disks, index>>
        \/ /\ head \notin Regular(disk)
           /\ Forget(head)
           /\ UNCHANGED peeked
  /\ UNCHANGED <<names, counts, phase, todo, op, crashes, offers, acked>>

\* Release removes a peeked entry.  Enqueue may have evicted it meanwhile.
Release(name) ==
  /\ Ready /\ peeked = name /\ name # NoName
  /\ peeked' = NoName
  /\ IF name \in DOMAIN sizes
     THEN RemoveLocked(name) /\ dequeued' = dequeued + 1
     ELSE UNCHANGED <<disks, index, dequeued>>
  /\ UNCHANGED <<names, dropped, dropFailures, phase, todo, op, crashes, offers, acked>>

ReleaseFails ==
  /\ Ready /\ peeked \in DOMAIN sizes
  /\ peeked' = NoName
  /\ UNCHANGED <<disks, index, names, counts, phase, todo, op, crashes, offers, acked>>

-----------------------------------------------------------------------------
\* The process dies, and is opened again on what is left on disk.
ProcessCrash ==
  /\ crashes < MaxCrashes /\ crashes' = crashes + 1
  /\ Reset
  /\ todo' = Regular(disk)
  /\ UNCHANGED <<disks, offers, acked>>

\* The machine dies: each name shows its current state or its last synced one.
PowerCrash ==
  /\ harsh
  /\ crashes < MaxCrashes /\ crashes' = crashes + 1
  /\ Reset
  /\ \E fresh \in SUBSET (DOMAIN disk \cup DOMAIN stable) :
       disk' = [n \in (DOMAIN disk \cap fresh) \cup (DOMAIN stable \ fresh) |->
                  IF n \in fresh THEN disk[n] ELSE stable[n]]
  /\ stable' = disk'
  /\ todo' = Regular(disk')
  /\ UNCHANGED <<removed, offers, acked>>

\* Something else deletes a file, or puts a directory or a link in its place.
Tamper(n) ==
  /\ harsh /\ phase = "open" /\ n \in Regular(disk)
  /\ \/ disk' = Restrict(disk, DOMAIN disk \ {n})
     \/ disk' = [disk EXCEPT ![n] = Irregular]
  /\ removed' = removed \cup {disk[n].id}
  /\ UNCHANGED <<stable, index, names, counts, phase, todo, op, peeked, crashes, offers, acked>>

-----------------------------------------------------------------------------
Enqueue ==
  \/ \E size \in Sizes : EnqueueCall(size)
  \/ EnqueueEvict \/ EnqueueAdmit \/ EnqueueFails \/ EnqueueRename \/ EnqueueSync

Open == (\E n \in todo : RecoverEntry(n)) \/ RecoverSort \/ Trim

Next ==
  /\ UNCHANGED harsh
  /\ \/ Open \/ Enqueue
     \/ Peek \/ Release(peeked) \/ ReleaseFails
     \/ ProcessCrash \/ PowerCrash
     \/ \E n \in DOMAIN disk : Tamper(n)

Spec == Init /\ [][Next]_vars
-----------------------------------------------------------------------------
IsDirectory(dir) == DOMAIN dir \subseteq Name /\ \A n \in DOMAIN dir : dir[n] \in Payload

\* Once Open is done, order and sizes index the same entries, each once, and
\* every payload file of the directory is indexed with its size: a file that
\* recover, Enqueue or Release left out would escape the budget for ever.  The
\* running total is at all times the sum of the sizes indexed, so the clamp at
\* zero in removeLocked never hides a drift.
IndexMatchesDisk ==
  /\ bytes = SumFunction(sizes)
  /\ phase = "open" =>
       /\ Range(order) = DOMAIN sizes /\ IsInjective(order)
       /\ \A n \in Regular(disk) : n \in DOMAIN sizes /\ sizes[n] = disk[n].size

\* The spool is within its byte budget and its index ceiling, through
\* evictions and restarts, unless a removal that made room has failed.
WithinBudget ==
  phase = "open" /\ dropFailures = 0 => bytes <= MaxBytes /\ Len(order) <= MaxEntries

\* A payload whose Enqueue returned nil is in the directory, and in the synced
\* directory that a power loss falls back to, until its file is removed.
AckedIsDurable == acked \ removed \subseteq PayloadsIn(disk) \cap PayloadsIn(stable)

\* The directory in name order is a first-in first-out queue: evictions and
\* releases take its head, Enqueue appends, and Open and crashes do nothing,
\* while power is not lost and nothing else touches the files.
Contents ==
  LET s == CHOOSE s \in Sorted(DOMAIN disk) : TRUE
  IN [i \in DOMAIN s |-> disk[s[i]].id]

Queue == INSTANCE DurableQueue WITH queue <- IF harsh THEN <<>> ELSE Contents, Ids <- 1..MaxOffers

ImplementsDurableQueue == Queue!Spec

=============================================================================
