------------------------------ MODULE Capture -------------------------------
(***************************************************************************)
(* The eBPF event source: the two programs of bpf/ironclaw.c and the       *)
(* goroutine that moves their records to the batcher                       *)
(* (internal/ebpf/source.go).  A program is one step: it runs to its end   *)
(* on its CPU.  The events of a thread are seen in the kernel's order; a   *)
(* thread may end inside a system call, and its id be given to another,    *)
(* whose first event is the exit of the call that created it.              *)
(***************************************************************************)
EXTENDS Integers, FiniteSets, SequencesExt

CONSTANTS
  Threads,     \* thread ids (pid_tgid)
  Skipped,     \* those that target_tgid or sample_modulus leave out
  CPUs,
  MinLatency,  \* min_latency_ns
  MaxPerSecond,\* max_events_per_cpu_per_second
  Second,      \* NANOS_PER_SECOND, in ticks of the clock
  RingSize,    \* records that fit the ring buffer
  MaxTime,     \* bound: ticks
  MaxExits     \* bound: exits of system calls

VARIABLES
  now,        \* bpf_ktime_get_ns
  thread,     \* external: each thread's state and, unless skipped, the time it entered its call
  reused,     \* history: ids that were given to another thread
  attached,   \* the programs attached: "enter", "exit"
  start,      \* start_times: entry time per id, Absent when there is none
  rate,       \* rate_limit: per CPU, the window's start and the events in it
  passed,     \* history: per CPU, the times at which the limiter let an event pass
  ring,       \* the ring buffer: [id, own]
  stats,      \* the counters
  pump,       \* "closed", "read", "offer", "returned" or "refused" (Events failed)
  hand        \* the event that pump offers

capture == <<now, thread, reused, attached, start, rate, passed, ring, stats, pump, hand>>
kernel == <<thread, reused, start, rate, passed, ring, stats>>

Absent == -1
Counters == {"observed", "filter", "rate", "ringbuf", "emitted", "unpaired", "abandoned"}

Init ==
  /\ now = 1
  /\ thread = [t \in Threads |-> [state |-> "user", since |-> 0]]
  /\ reused = {} /\ attached = {}
  /\ start = [t \in Threads |-> Absent]
  /\ rate = [c \in CPUs |-> [from |-> 0, emitted |-> 0]]
  /\ passed = [c \in CPUs |-> <<>>]
  /\ ring = <<>> /\ stats = [s \in Counters |-> 0]
  /\ pump = "closed" /\ hand = 0

Bump(some) == stats' = [s \in Counters |-> IF s \in some THEN stats[s] + 1 ELSE stats[s]]

-----------------------------------------------------------------------------
(* The programs.                                                            *)
\* Mutant: the entries of a process share a key.
KeyOfProcess(t) == CHOOSE p \in Threads \ Skipped : TRUE

\* bpf_get_current_pid_tgid: the key of start_times.
Key(t) == t

\* ironclaw_sys_enter.
SysEnter(t) ==
  /\ thread[t].state = "user"
  /\ thread' = [thread EXCEPT ![t] = [state |-> "inside", since |-> IF t \in Skipped THEN 0 ELSE now]]
  /\ IF "enter" \in attached /\ t \notin Skipped
     THEN start' = [start EXCEPT ![Key(t)] = now]
     ELSE UNCHANGED start
  /\ UNCHANGED <<now, reused, attached, rate, passed, ring, stats, pump, hand>>

\* The LRU map makes room for the entry of some other thread.
EvictEntry(t) ==
  /\ start[t] # Absent
  /\ start' = [start EXCEPT ![t] = Absent]
  /\ UNCHANGED <<now, thread, reused, attached, rate, passed, ring, stats, pump, hand>>

\* Mutant: the window starts over with every event.
RateWindowRestarted(c) == [from |-> now, emitted |-> 0]

\* rate_limited: the CPU's window, started anew when a second has passed.
RateWindow(c) ==
  IF rate[c].from = 0 \/ now - rate[c].from >= Second
  THEN [from |-> now, emitted |-> 0] ELSE rate[c]

Limited(c) == MaxPerSecond # 0 /\ RateWindow(c).emitted >= MaxPerSecond

\* Mutant: a record that finds no room is not counted.
SubmitSilently(t, own) ==
  IF Len(ring) < RingSize
  THEN ring' = Append(ring, [id |-> t, own |-> own]) /\ Bump({"observed", "emitted"})
  ELSE Bump({"observed"}) /\ UNCHANGED ring

\* bpf_ringbuf_reserve and submit.
Submit(t, own) ==
  IF Len(ring) < RingSize
  THEN ring' = Append(ring, [id |-> t, own |-> own]) /\ Bump({"observed", "emitted"})
  ELSE Bump({"observed", "ringbuf"}) /\ UNCHANGED ring

\* ironclaw_sys_exit on CPU c.
ExitProgram(t, c) ==
  LET k == Key(t)
      own == thread[t].state = "inside" /\ start[k] = thread[t].since
  IN IF start[k] = Absent
     THEN Bump({"unpaired"}) /\ UNCHANGED <<start, rate, passed, ring>>
     ELSE /\ start' = [start EXCEPT ![k] = Absent]
          /\ IF now - start[k] < MinLatency
             THEN Bump({"observed", "filter"}) /\ UNCHANGED <<rate, passed, ring>>
             ELSE IF Limited(c)
             THEN /\ rate' = [rate EXCEPT ![c] = RateWindow(c)]
                  /\ Bump({"observed", "rate"}) /\ UNCHANGED <<passed, ring>>
             ELSE /\ rate' = [rate EXCEPT ![c] = [RateWindow(c) EXCEPT !.emitted = @ + 1]]
                  /\ passed' = [passed EXCEPT ![c] = Append(@, now)]
                  /\ Submit(t, own)

Exits == stats.observed + stats.unpaired

SysExit(t, c) ==
  /\ thread[t].state \in {"inside", "new"} /\ Exits < MaxExits
  /\ thread' = [thread EXCEPT ![t] = [state |-> "user", since |-> 0]]
  /\ IF "exit" \in attached THEN ExitProgram(t, c)
     ELSE UNCHANGED <<start, rate, passed, ring, stats>>
  /\ UNCHANGED <<now, reused, attached, pump, hand>>

\* A thread ends inside a call; its id comes back with a thread that leaves clone.
Die(t) ==
  /\ thread[t].state = "inside" /\ t \notin reused
  /\ thread' = [thread EXCEPT ![t] = [state |-> "new", since |-> 0]]
  /\ reused' = reused \cup {t}
  /\ UNCHANGED <<now, attached, start, rate, passed, ring, stats, pump, hand>>

Tick ==
  /\ now < MaxTime /\ now' = now + 1
  /\ UNCHANGED <<thread, reused, attached, start, rate, passed, ring, stats, pump, hand>>

-----------------------------------------------------------------------------
(* Source.                                                                  *)
\* attach, in the order in which Go walks the map.
Attach(p) ==
  /\ pump = "closed" /\ p \notin attached
  /\ attached' = attached \cup {p}
  /\ UNCHANGED <<now, kernel, pump, hand>>

\* Events fails on the way, and closes what it had opened.
EventsFails ==
  /\ pump = "closed" /\ attached' = {} /\ pump' = "refused"
  /\ UNCHANGED <<now, kernel, hand>>

EventsReturns ==
  /\ pump = "closed" /\ attached = {"enter", "exit"}
  /\ pump' = "read"
  /\ UNCHANGED <<now, kernel, attached, hand>>

Open == EventsFails \/ EventsReturns \/ \E p \in {"enter", "exit"} : Attach(p)

\* pump reads a record; Decode and Translator.Event take what the program writes.
Read ==
  /\ pump = "read" /\ ring # <<>>
  /\ hand' = Head(ring) /\ ring' = Tail(ring) /\ pump' = "offer"
  /\ UNCHANGED <<now, thread, reused, attached, start, rate, passed, stats>>

\* The batcher has received the event.
Delivered ==
  /\ pump = "offer" /\ pump' = "read" /\ hand' = 0
  /\ UNCHANGED <<now, kernel, attached>>

\* Mutant: nothing closes the reader when the context is cancelled.
PumpReturnsOffering ==
  /\ pump = "offer" /\ pump' = "returned" /\ hand' = 0
  /\ Bump({"abandoned"})
  /\ UNCHANGED <<now, thread, reused, attached, start, rate, passed, ring>>

\* The context is cancelled: the reader is closed under Read, or the offer is given up.
PumpReturns ==
  /\ \/ pump = "read" /\ UNCHANGED stats
     \/ pump = "offer" /\ Bump({"abandoned"})
  /\ pump' = "returned" /\ hand' = 0
  /\ UNCHANGED <<now, thread, reused, attached, start, rate, passed, ring>>

\* Source.Close, deferred by the agent: Events has returned by then.
CloseSource ==
  /\ pump # "closed" /\ attached # {} /\ attached' = {}
  /\ UNCHANGED <<now, kernel, pump, hand>>

Kernel == Tick \/ \E t \in Threads : SysEnter(t) \/ EvictEntry(t) \/ Die(t) \/ \E c \in CPUs : SysExit(t, c)

Next == Kernel \/ Open \/ Read \/ Delivered \/ PumpReturns \/ CloseSource

Spec == Init /\ [][Next]_capture

-----------------------------------------------------------------------------
\* sys_enter, sys_exit: a latency is that of one system call of one thread, also when
\* entries were evicted or calls were under way when the programs were attached; only
\* an id that was given to another thread can pair with an older entry.
LatencyIsOwn ==
  \A r \in Range(ring) \cup (IF pump = "offer" THEN {hand} ELSE {}) : r.own \/ r.id \in reused

\* rate_limited: a window begins with an event that passes, so that no second, wherever
\* it begins, holds all of two windows' events (0 sets no limit).
RateIsBounded ==
  MaxPerSecond # 0 => \A c \in CPUs : \A t \in 1..now :
    Cardinality({i \in DOMAIN passed[c] : passed[c][i] \in t..t + Second - 1}) <= 2 * MaxPerSecond - 1

=============================================================================
