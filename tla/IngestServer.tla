---------------------------- MODULE IngestServer ----------------------------
(***************************************************************************)
(* The ingest process (ingest/main.go) and its request handler             *)
(* (internal/httpingest, internal/ingest).  Handlers run concurrently; a   *)
(* signal makes another goroutine call Shutdown, upon which ListenAndServe *)
(* returns at once and run goes on to its deferred calls, which close the  *)
(* producer and the metrics under the handlers that are still running, and *)
(* then the process exits.  The producer, the topic and the metrics are    *)
(* those of KafkaBus and AsyncMetrics.                                     *)
(***************************************************************************)
EXTENDS Codec

CONSTANTS
  Requests, \* one handler each
  Inputs    \* requests: [edge, identity, source], source being the batch of an agent

VARIABLES
  run,     \* "serving", "signalled", "producer" (closed), "metrics" (closing) or "exited"
  posted,  \* history: the request each handler got, if its sender may post it
  handler, \* each request: "waiting", "publish", "count", "answer", "answered" or "cut"
  batch,   \* the batch a handler is publishing
  status   \* the status it will answer or has answered, 0 before

NoBatch == [device |-> ""]
Malformed == [device |-> "malformed"]
NoInput == [edge |-> FALSE, identity |-> "", source |-> NoBatch]

Init ==
  /\ run = "serving"
  /\ posted = [r \in Requests |-> NoInput]
  /\ handler = [r \in Requests |-> "waiting"]
  /\ batch = [r \in Requests |-> NoBatch]
  /\ status = [r \in Requests |-> 0]

\* What an agent may post: its own events, through an edge that knows it.
Worthy(in) ==
  /\ in.edge /\ in.source \notin {Malformed, NoBatch}
  /\ ValidBatch(in.source) /\ in.source.device = in.identity

\* Mutant: a payload that names its device is refused, whatever the name.
RefuseNamed(in) ==
  IF ~in.edge \/ in.identity = "" \/ in.source = Malformed THEN 400
  ELSE IF EncodeEdgeBatch(in.source).device # "" THEN 403 ELSE 0

\* peerIsAuthorisedEdge, the identity header, the decoder, the payload's own device,
\* toBatch and the checks of Accept, in this order; 0 when all of them pass.
Refusal(in) ==
  LET payload == EncodeEdgeBatch(in.source)
      b == ToBatch(in.identity, payload)
  IN IF ~in.edge THEN 403
     ELSE IF in.identity = "" THEN 401
     ELSE IF in.source = Malformed THEN 400
     ELSE IF payload.device \notin {"", in.identity} THEN 403
     ELSE IF ~ValidBatch(b) THEN 400
     ELSE IF ~VerifyIdentity(b, in.identity) THEN 403
     ELSE 0

\* Server.ingest and Service.Accept up to the publisher.  A connection that was
\* accepted in time is served until the process exits.
Ingest(r, in) ==
  /\ handler[r] = "waiting" /\ run # "exited"
  /\ posted' = [posted EXCEPT ![r] = IF Worthy(in) THEN in ELSE NoInput]
  /\ IF Refusal(in) = 0
     THEN /\ handler' = [handler EXCEPT ![r] = "publish"]
          /\ batch' = [batch EXCEPT ![r] = ToBatch(in.identity, EncodeEdgeBatch(in.source))]
          /\ UNCHANGED status
     ELSE /\ handler' = [handler EXCEPT ![r] = "count"]
          /\ status' = [status EXCEPT ![r] = Refusal(in)]
          /\ UNCHANGED batch
  /\ UNCHANGED run

\* Publish has returned: without an error ...
Accepted(r) ==
  /\ handler[r] = "publish" /\ run # "exited"
  /\ handler' = [handler EXCEPT ![r] = "count"]
  /\ status' = [status EXCEPT ![r] = 202]
  /\ UNCHANGED <<run, posted, batch>>

\* Mutant: the error of Publish is not looked at.
IgnoreError(r) == Accepted(r)

\* ... or with one.
Rejected(r) ==
  /\ handler[r] = "publish" /\ run # "exited"
  /\ handler' = [handler EXCEPT ![r] = "count"]
  /\ status' = [status EXCEPT ![r] = 400]
  /\ UNCHANGED <<run, posted, batch>>

\* The counters of the request are incremented (one sample stands for them) ...
Counted(r) ==
  /\ handler[r] = "count" /\ run # "exited"
  /\ handler' = [handler EXCEPT ![r] = "answer"]
  /\ UNCHANGED <<run, posted, batch, status>>

\* ... and the answer is written.
Answer(r) ==
  /\ handler[r] = "answer" /\ run # "exited"
  /\ handler' = [handler EXCEPT ![r] = "answered"]
  /\ UNCHANGED <<run, posted, batch, status>>

-----------------------------------------------------------------------------
\* The signal, and shutdownOnSignal's goroutine: no connection is accepted any more.
Signal ==
  /\ run = "serving" /\ run' = "signalled"
  /\ UNCHANGED <<posted, handler, batch, status>>

\* ListenAndServe has returned, while Shutdown waits elsewhere; the deferred releaseProducer.
ReleaseProducer ==
  /\ run = "signalled" /\ run' = "producer"
  /\ UNCHANGED <<posted, handler, batch, status>>

\* The deferred release of buildMetrics calls Close, which waits for drain.
ReleaseMetrics ==
  /\ run = "producer" /\ run' = "metrics"
  /\ UNCHANGED <<posted, handler, batch, status>>

\* main returns: the handlers that still run are cut off.
Exit ==
  /\ run = "metrics" /\ run' = "exited"
  /\ handler' = [r \in Requests |->
                   IF handler[r] \in {"publish", "count", "answer"} THEN "cut" ELSE handler[r]]
  /\ UNCHANGED <<posted, batch, status>>

Open == run \in {"serving", "signalled"}

=============================================================================
