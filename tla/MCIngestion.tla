---------------------------- MODULE MCIngestion -----------------------------
(* Instances of the topics for TLC. *)
EXTENDS Ingestion

Event(device, kind, observed) ==
  [device |-> device, user |-> "u", kind |-> kind, observed |-> observed, rest |-> 1]
Batch(device, events) == [device |-> device, created |-> 3, events |-> events]

\* A batch of the device, one of its events seen before 1970; the same through a
\* connection of another device, of none, and past the edge; and what is no batch.
Seen == Batch("d", <<Event("d", 2, 2), Event("d", 0, 1), Event("d", 1, -1)>>)
SomeInputs ==
  { [edge |-> TRUE, identity |-> "d", source |-> Seen],
    [edge |-> TRUE, identity |-> "e", source |-> Seen],
    [edge |-> TRUE, identity |-> "", source |-> Seen],
    [edge |-> FALSE, identity |-> "d", source |-> Seen],
    [edge |-> TRUE, identity |-> "d", source |-> [device |-> "malformed"]] }

Window(user, end) == [user |-> user, device |-> "d", start |-> 1, end |-> end, rest |-> 1]
Command(actor) == [kind |-> 1, user |-> "u", device |-> "d", actor |-> actor, issued |-> 2]

\* Windows: two good ones, one whose user is not UTF-8, and one that is always
\* refused.  Commands: one good one, and one without an actor.
SomeMessages ==
  [batches |-> {}, windows |-> {Window("u", 2), Window("u?", 2), Window("v", 2)},
   commands |-> {Command("a"), Command("")}]
SomePoison == {Window("v", 2)}
Bad == {"u?"}
=============================================================================
