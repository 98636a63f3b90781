--------------------------- MODULE CaptureProofs ----------------------------
(***************************************************************************)
(* LatencyIsOwn for any number of threads and CPUs, any limits and any     *)
(* length of time.  What makes it true is not in the records but in        *)
(* start_times: while the programs are attached, the entry of a thread     *)
(* that is inside a call is that call's, although entries are evicted, the *)
(* programs are attached one after the other in either order, and an entry *)
(* whose exit was not seen stays behind until the next call overwrites it. *)
(***************************************************************************)
EXTENDS Capture, TLAPS

Records == [id : Threads, own : BOOLEAN]

Types ==
  /\ now \in Nat \ {0} /\ reused \subseteq Threads
  /\ thread \in [Threads -> [state : {"user", "inside", "new"}, since : Nat]]
  /\ start \in [Threads -> Int]
  /\ ring \in Seq(Records)

\* The programs are attached together, except while Events is on its way.
Attachment ==
  /\ attached \subseteq {"enter", "exit"}
  /\ pump # "closed" => attached \in {{}, {"enter", "exit"}}

\* Nothing is entered in start_times before sys_enter is attached, or for threads left out.
Unentered ==
  /\ pump = "closed" /\ "enter" \notin attached => \A t \in Threads : start[t] = Absent
  /\ \A t \in Skipped \cap Threads : start[t] = Absent

\* The entry of a thread that is inside a call is that of the call.
EntryIsOwn ==
  /\ \A t \in Threads : thread[t].state = "new" => t \in reused
  /\ attached # {} =>
       \A t \in Threads \ reused :
         thread[t].state = "inside" /\ start[t] # Absent => start[t] = thread[t].since

Entries == Attachment /\ Unentered /\ EntryIsOwn

\* LatencyIsOwn, of the ring buffer and of the event that pump offers.
RecordsOwn ==
  /\ \A i \in DOMAIN ring : ring[i].own \/ ring[i].id \in reused
  /\ pump = "offer" => hand.own \/ hand.id \in reused

Inv == Types /\ Entries /\ RecordsOwn

LEMMA InitInv == Init => Inv
<1> SUFFICES ASSUME Init PROVE Inv
  OBVIOUS
<1>1. Types
  BY DEF Init, Types, Absent
<1> QED
  BY <1>1 DEF Init, Inv, Entries, Attachment, Unentered, EntryIsOwn, RecordsOwn, Absent

\* A record that is right stays right: ids are only ever added to reused.
LEMMA RecordsStayOwn ==
  ASSUME Inv, reused \subseteq reused', UNCHANGED <<ring, pump, hand>>
  PROVE  RecordsOwn'
  BY DEF Inv, RecordsOwn

\* ironclaw_sys_enter writes the time of the call that begins.
LEMMA SysEnterKeeps == ASSUME Inv, NEW t \in Threads, SysEnter(t) PROVE Inv'
<1> USE DEF Inv, Entries
<1>1. Types'
  BY DEF Types, SysEnter, Key
<1>2. Attachment'
  BY DEF Attachment, SysEnter
<1>3. Unentered'
  BY DEF Types, Unentered, SysEnter, Key
<1>4. EntryIsOwn'
  <2>1. CASE "enter" \in attached /\ t \notin Skipped
    BY <2>1 DEF Types, EntryIsOwn, SysEnter, Key
  <2>2. CASE ~("enter" \in attached /\ t \notin Skipped)
    <3>1. attached # {} => start[t] = Absent
      BY <2>2 DEF Attachment, Unentered
    <3> QED
      BY <2>2, <3>1 DEF Types, EntryIsOwn, SysEnter
  <2> QED
    BY <2>1, <2>2
<1>5. RecordsOwn'
  BY RecordsStayOwn DEF SysEnter
<1> QED
  BY <1>1, <1>2, <1>3, <1>4, <1>5

\* The LRU map may forget any entry.
LEMMA EvictKeeps == ASSUME Inv, NEW t \in Threads, EvictEntry(t) PROVE Inv'
<1>1. Types'
  BY DEF Inv, Types, EvictEntry, Absent
<1>2. Entries'
  BY DEF Inv, Types, Entries, Attachment, Unentered, EntryIsOwn, EvictEntry
<1>3. RecordsOwn'
  BY RecordsStayOwn DEF EvictEntry
<1> QED
  BY <1>1, <1>2, <1>3 DEF Inv

\* A thread may end, and its id come back.
LEMMA DieKeeps == ASSUME Inv, NEW t \in Threads, Die(t) PROVE Inv'
<1>1. Types'
  BY DEF Inv, Types, Die
<1>2. Entries'
  BY DEF Inv, Types, Entries, Attachment, Unentered, EntryIsOwn, Die
<1>3. RecordsOwn'
  BY RecordsStayOwn DEF Die
<1> QED
  BY <1>1, <1>2, <1>3 DEF Inv

\* ironclaw_sys_exit uses the entry up, and the record it may submit is right.
LEMMA SysExitKeeps == ASSUME Inv, NEW t \in Threads, NEW c \in CPUs, SysExit(t, c) PROVE Inv'
<1> DEFINE own == thread[t].state = "inside" /\ start[t] = thread[t].since
           rec == [id |-> t, own |-> own]
<1>1. /\ thread' = [thread EXCEPT ![t] = [state |-> "user", since |-> 0]]
      /\ UNCHANGED <<now, reused, attached, pump, hand>>
      /\ start' = start \/ start' = [start EXCEPT ![t] = Absent]
  BY DEF SysExit, ExitProgram, Key
<1>2. \/ ring' = ring
      \/ ring' = Append(ring, rec) /\ "exit" \in attached /\ start[t] # Absent
  BY DEF SysExit, ExitProgram, Submit, Key
<1>3. rec \in Records
  <2>1. own \in BOOLEAN
    BY Zenon
  <2> QED
    BY <2>1 DEF Records
<1>4. "exit" \in attached /\ start[t] # Absent => own \/ t \in reused
  <2>1. CASE thread[t].state = "inside" /\ t \notin reused
    BY <2>1 DEF Inv, Entries, EntryIsOwn
  <2>2. CASE t \in reused
    BY <2>2
  <2>3. CASE thread[t].state = "new"
    BY <2>2, <2>3 DEF Inv, Entries, EntryIsOwn
  <2> QED
    BY <2>1, <2>2, <2>3 DEF SysExit
<1>5. rec.own = own /\ rec.id = t
  OBVIOUS
<1> HIDE DEF rec, own
<1>6. ring \in Seq(Records) /\ ring' \in Seq(Records)
  <2>1. ring \in Seq(Records)
    BY DEF Inv, Types
  <2>2. Append(ring, rec) \in Seq(Records)
    BY <1>3, <2>1
  <2> QED
    BY <1>2, <2>1, <2>2
<1>7. Types'
  BY <1>1, <1>6 DEF Inv, Types, Absent
<1>8. Entries'
  BY <1>1 DEF Inv, Types, Entries, Attachment, Unentered, EntryIsOwn
<1>9. RecordsOwn'
  <2>1. CASE ring' = ring
    BY <1>1, <2>1 DEF Inv, RecordsOwn
  <2>2. CASE ring' = Append(ring, rec) /\ "exit" \in attached /\ start[t] # Absent
    <3>1. \A i \in DOMAIN ring' : (i \in DOMAIN ring /\ ring'[i] = ring[i]) \/ ring'[i] = rec
      BY <2>2, <1>3, <1>6
    <3> QED
      BY <1>1, <1>4, <1>5, <2>2, <3>1, Zenon DEF Inv, RecordsOwn
  <2> QED
    BY <1>2, <2>1, <2>2
<1> QED
  BY <1>7, <1>8, <1>9 DEF Inv

\* attach, Events and Close: one program may be there before the other, but never again
\* after they were detached.
LEMMA SourceKeeps == ASSUME Inv, Open \/ CloseSource PROVE Inv'
<1>1. /\ UNCHANGED <<now, kernel, hand>>
      /\ pump' # "offer" \/ UNCHANGED pump
  BY DEF Open, CloseSource, EventsFails, EventsReturns, Attach
<1>2. Types' /\ RecordsOwn'
  BY <1>1 DEF Inv, Types, RecordsOwn, kernel
<1>3. Entries'
  <2> USE DEF Inv, Entries, Attachment, Unentered, EntryIsOwn, kernel
  <2>1. ASSUME NEW p \in {"enter", "exit"}, Attach(p) PROVE Entries'
    BY <2>1 DEF Attach
  <2>2. CASE EventsFails
    BY <2>2 DEF EventsFails
  <2>3. CASE EventsReturns
    BY <2>3 DEF EventsReturns
  <2>4. CASE CloseSource
    BY <2>4 DEF CloseSource
  <2> QED
    BY <2>1, <2>2, <2>3, <2>4 DEF Open
<1> QED
  BY <1>2, <1>3 DEF Inv

\* pump moves the oldest record to its hand, and lets go of it.
LEMMA PumpKeeps == ASSUME Inv, Read \/ Delivered \/ PumpReturns PROVE Inv'
<1>1. UNCHANGED <<now, thread, reused, attached, start>>
  BY DEF Read, Delivered, PumpReturns, kernel
<1>2. pump # "closed" /\ pump' # "closed"
  BY DEF Read, Delivered, PumpReturns
<1>3. Entries'
  BY <1>1, <1>2 DEF Inv, Entries, Attachment, Unentered, EntryIsOwn
<1>4. CASE Read
  <2>1. ring \in Seq(Records) /\ ring # <<>>
    BY <1>4 DEF Read, Inv, Types
  <2>2. /\ ring' \in Seq(Records) /\ 1 \in DOMAIN ring /\ hand' = ring[1]
        /\ \A i \in DOMAIN ring' : i + 1 \in DOMAIN ring /\ ring'[i] = ring[i + 1]
    BY <1>4, <2>1 DEF Read
  <2>3. Types' /\ RecordsOwn'
    BY <1>1, <2>2 DEF Inv, Types, RecordsOwn
  <2> QED
    BY <1>3, <2>3 DEF Inv
<1>5. CASE Delivered \/ PumpReturns
  BY <1>1, <1>3, <1>5 DEF Inv, Types, RecordsOwn, Delivered, PumpReturns, kernel
<1> QED
  BY <1>4, <1>5

LEMMA StepInv == Inv /\ [Next]_capture => Inv'
<1> SUFFICES ASSUME Inv, [Next]_capture PROVE Inv'
  OBVIOUS
<1>1. CASE Tick
  BY <1>1 DEF Tick, Inv, Types, Entries, Attachment, Unentered, EntryIsOwn, RecordsOwn
<1>2. CASE Kernel
  BY <1>1, <1>2, SysEnterKeeps, EvictKeeps, DieKeeps, SysExitKeeps DEF Kernel
<1>3. CASE UNCHANGED capture
  BY <1>3 DEF capture, Inv, Types, Entries, Attachment, Unentered, EntryIsOwn, RecordsOwn
<1> QED
  BY <1>2, <1>3, SourceKeeps, PumpKeeps DEF Next

\* ironclaw_sys_enter, ironclaw_sys_exit, attach: the latency of every record is that of
\* one call of one thread, unless the thread's id was reused.
THEOREM LatenciesAreOwn == Spec => []LatencyIsOwn
<1>1. Inv => LatencyIsOwn
  BY DEF Inv, RecordsOwn, LatencyIsOwn, Range
<1> QED
  BY <1>1, InitInv, StepInv, PTL DEF Spec

=============================================================================
