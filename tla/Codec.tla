------------------------------- MODULE Codec --------------------------------
(***************************************************************************)
(* The conversions a batch, a window and a command go through: the payload *)
(* of an agent (internal/wire/edge.go), its translation by ingest          *)
(* (internal/httpingest toBatch), and the records on a Kafka topic         *)
(* (internal/wire/codec.go, internal/kafkabus/codec.go).                   *)
(*                                                                         *)
(* A field that a conversion reads or changes is a field here; the others, *)
(* which it copies, are one field, rest.  Instants are whole numbers of    *)
(* nanoseconds since 1970, Limit standing for 2^63.                        *)
(***************************************************************************)
EXTENDS Integers, Sequences

CONSTANTS
  Limit,    \* 2^63, scaled down
  Garbled,  \* names that are not valid UTF-8
  Replaced, \* such a name after encoding/json has replaced the invalid bytes
  Now,      \* what ingest's clock shows
  Pod       \* ingest's own pod, that of the events it translates

\* The zero time.Time: the year 1, 6.74 times 2^63 nanoseconds before 1970.
ZeroTime == -((27 * Limit) \div 4)

\* Time.UnixNano: the low 64 bits of the instant, as a signed number.
UnixNano(t) == ((t + Limit) % (2 * Limit)) - Limit

Unreadable == [format |-> "none"]

\* encoding/json replaces what is not UTF-8; proto.Marshal refuses it.
JSONText(name) == IF name \in Garbled THEN Replaced ELSE name
ProtobufText(names) == names \cap Garbled = {}

-----------------------------------------------------------------------------
(* domain.Event, domain.Batch and domain.Command.                           *)
SyscallKind == 1
ValidKind(kind) == kind \in 0..4

ValidEvent(e) ==
  e.device # "" /\ e.user # "" /\ ValidKind(e.kind) /\ e.rest >= 0 /\ e.observed # ZeroTime

ValidBatch(b) ==
  /\ b.device # ""
  /\ \A i \in DOMAIN b.events : ValidEvent(b.events[i]) /\ b.events[i].device = b.device

VerifyIdentity(b, identity) ==
  b.device = identity /\ \A i \in DOMAIN b.events : b.events[i].device = identity

ValidCommand(c) == c.kind \in 1..2 /\ c.user # "" /\ c.device # "" /\ c.actor # ""

-----------------------------------------------------------------------------
(* The edge payload: it carries neither the pod nor the device of an event. *)
EncodeEdgeBatch(b) ==
  [device |-> JSONText(b.device),
   events |-> [i \in DOMAIN b.events |->
                 [user |-> JSONText(b.events[i].user), kind |-> b.events[i].kind,
                  observed |-> UnixNano(b.events[i].observed), rest |-> b.events[i].rest]]]

\* Mutant: an event is given the time at which it was received.
Restamp(identity, payload) ==
  [device |-> identity, created |-> Now,
   events |-> [i \in DOMAIN payload.events |->
                 LET e == payload.events[i]
                 IN [device |-> identity, pod |-> Pod, user |-> e.user, rest |-> e.rest,
                     kind |-> IF ValidKind(e.kind) THEN e.kind ELSE SyscallKind,
                     observed |-> Now]]]

\* Server.toBatch, before it validates what it made: the device comes from the
\* connection, the pod from the server; a missing time and an unknown kind are filled in.
ToBatch(identity, payload) ==
  [device |-> identity, created |-> Now,
   events |-> [i \in DOMAIN payload.events |->
                 LET e == payload.events[i]
                 IN [device |-> identity, pod |-> Pod, user |-> e.user, rest |-> e.rest,
                     kind |-> IF ValidKind(e.kind) THEN e.kind ELSE SyscallKind,
                     observed |-> IF e.observed > 0 THEN e.observed ELSE Now]]]

-----------------------------------------------------------------------------
(* The records of a topic.  A decoder refuses the other format's bytes.     *)
JSONEncodeBatch(b) ==
  [format |-> "json", device |-> JSONText(b.device), created |-> UnixNano(b.created),
   events |-> [i \in DOMAIN b.events |->
                 [b.events[i] EXCEPT !.device = JSONText(@), !.user = JSONText(@),
                                     !.observed = UnixNano(@)]]]

\* A kind is a uint8; a batch without a time of creation gets the zero time back.
JSONDecodeBatch(raw) ==
  IF raw.format # "json" \/ \E i \in DOMAIN raw.events : raw.events[i].kind > 255
  THEN Unreadable
  ELSE [device |-> raw.device, events |-> raw.events,
        created |-> IF raw.created > 0 THEN raw.created ELSE ZeroTime]

ProtobufEncodeBatch(b) ==
  IF ProtobufText({b.device} \cup {b.events[i].device : i \in DOMAIN b.events}
                             \cup {b.events[i].user : i \in DOMAIN b.events})
  THEN [format |-> "protobuf", device |-> b.device, created |-> UnixNano(b.created),
        events |-> [i \in DOMAIN b.events |->
                      [b.events[i] EXCEPT !.observed = UnixNano(@)]]]
  ELSE Unreadable

\* A kind is a uint32 on the wire and is checked against the width of EventKind.
ProtobufDecodeBatch(raw) ==
  IF raw.format # "protobuf" \/ \E i \in DOMAIN raw.events : raw.events[i].kind > 255
  THEN Unreadable
  ELSE [device |-> raw.device, events |-> raw.events,
        created |-> IF raw.created > 0 THEN raw.created ELSE ZeroTime]

JSONEncodeWindow(w) ==
  [format |-> "json", user |-> JSONText(w.user), device |-> JSONText(w.device),
   start |-> UnixNano(w.start), end |-> UnixNano(w.end), rest |-> w.rest]

WindowOf(raw) ==
  [user |-> raw.user, device |-> raw.device, start |-> raw.start, end |-> raw.end,
   rest |-> raw.rest]

JSONDecodeWindow(raw) == IF raw.format # "json" THEN Unreadable ELSE WindowOf(raw)

\* Mutant: the end of the window is written as its start.
ProtobufEncodeWindowTwice(w) ==
  [format |-> "protobuf", user |-> w.user, device |-> w.device,
   start |-> UnixNano(w.start), end |-> UnixNano(w.start), rest |-> w.rest]

ProtobufEncodeWindow(w) ==
  IF ProtobufText({w.user, w.device})
  THEN [format |-> "protobuf", user |-> w.user, device |-> w.device,
        start |-> UnixNano(w.start), end |-> UnixNano(w.end), rest |-> w.rest]
  ELSE Unreadable

ProtobufDecodeWindow(raw) == IF raw.format # "protobuf" THEN Unreadable ELSE WindowOf(raw)

\* Commands are JSON whatever the wire format.
EncodeCommand(c) ==
  [format |-> "json", kind |-> c.kind, user |-> JSONText(c.user), device |-> JSONText(c.device),
   actor |-> JSONText(c.actor), issued |-> UnixNano(c.issued)]

DecodeCommand(raw) ==
  [kind |-> raw.kind, user |-> raw.user, device |-> raw.device, actor |-> raw.actor,
   issued |-> raw.issued]

=============================================================================
