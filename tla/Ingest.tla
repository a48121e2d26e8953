------------------------------- MODULE Ingest -------------------------------
(***************************************************************************)
(* The way of a batch from an agent into the LOGS stream: GrpcExporter.Send   *)
(* calls SendLogs, again after a failure; Handler.SendLogs validates the      *)
(* records, publishes the valid ones as one message and waits for JetStream   *)
(* to acknowledge it; the ingest API stops gracefully, or crashes, and comes  *)
(* back.  Batches are of different agents: one agent sends one at a time       *)
(* (AgentPipeline).  What happens to a message in the stream is Processor's.   *)
(***************************************************************************)
EXTENDS Naturals, FiniteSets

CONSTANTS
  Batch,
  Valid,        \* the batches with a record that ValidateRecord accepts
  Fits,         \* those whose valid records are no larger than NATS's max_payload
  MaxRetries,   \* GrpcExporter.MaxRetries
  MaxFaults     \* bound: faults

ASSUME IngestAssumption ==
  Valid \subseteq Batch /\ Fits \subseteq Batch /\ MaxRetries \in Nat /\ MaxFaults \in Nat

VARIABLES
  send,       \* GrpcExporter.Send: "new", "calling", "backoff", "sent", "dropped"
  attempt,    \* attempt
  handler,    \* Handler.SendLogs per call: "none", "run", "publish", "ok", "error", "dead"
  flight,     \* messages on their way to JetStream, named by the call
  stream,     \* messages JetStream has stored
  server,     \* the ingest API: "up", "stopping", "down"
  cancelled,  \* is the agent's context done
  faults,     \* faults so far
  refused,    \* per batch, the calls that met no server or no connection (ghost)
  failing     \* the batches whose agent's client connection is in TRANSIENT_FAILURE

vars == <<send, attempt, handler, flight, stream, server, cancelled, faults, refused, failing>>

Call == Batch \X (0..MaxRetries)

Current(b) == <<b, attempt[b]>>

Running(c) == handler[c] \in {"run", "publish"}

Inject == faults < MaxFaults /\ faults' = faults + 1

Init ==
  /\ send = [b \in Batch |-> "new"] /\ attempt = [b \in Batch |-> 0]
  /\ handler = [c \in Call |-> "none"]
  /\ flight = {} /\ stream = {}
  /\ server = "up"
  /\ cancelled = [b \in Batch |-> FALSE]
  /\ faults = 0 /\ refused = [b \in Batch |-> 0]
  /\ failing = {}

----------------------------------------------------------------------------
(* GrpcExporter.Send, in the exporter of an agent. *)

\* The connection is in the state in which the agent's earlier batches left it.
Begin(b) ==
  /\ send[b] = "new"
  /\ send' = [send EXCEPT ![b] = "calling"]
  /\ failing' \in {failing, failing \cup {b}}
  /\ UNCHANGED <<attempt, handler, flight, stream, server, cancelled, faults, refused>>

\* SendLogs returned an error: back off, or, when all retries are used, drop.
FailedAfter(b, retries) ==
  /\ send' = [send EXCEPT ![b] = IF attempt[b] < retries THEN "backoff" ELSE "dropped"]
  /\ UNCHANGED <<attempt, handler, flight, stream, server, cancelled>>

MutantFailed(b)      == FailedAfter(b, MaxRetries - 1)   \* < for <=
MutantFailedAgain(b) == FailedAfter(b, MaxRetries + 1)   \* one call too many
Failed(b)            == FailedAfter(b, MaxRetries)

\* No server to talk to, or one that takes no new calls; or the client connection is
\* still backing off from that: a call that does not wait for it to be ready fails at
\* once, although the server may be up again.
Refused(b) ==
  /\ send[b] = "calling" /\ handler[Current(b)] = "none"
  /\ server # "up" \/ b \in failing
  /\ Failed(b)
  /\ refused' = [refused EXCEPT ![b] = @ + 1]
  /\ failing' = failing \cup {b}
  /\ UNCHANGED faults

\* The client connection's next attempt, after its own backoff; it matters as long as
\* Send is at the batch.
Reconnect(b) ==
  /\ b \in failing /\ server = "up" /\ send[b] \in {"calling", "backoff"}
  /\ failing' = failing \ {b}
  /\ UNCHANGED <<send, attempt, handler, flight, stream, server, cancelled, faults, refused>>

\* The connection breaks, or the context is done: the call fails, whatever becomes
\* of the request at the server.
Break(b) ==
  /\ send[b] = "calling"
  /\ \/ Inject
     \/ (handler[Current(b)] = "dead" \/ cancelled[b]) /\ UNCHANGED faults
  /\ Failed(b)
  /\ UNCHANGED <<refused, failing>>

Reply(b) ==
  /\ send[b] = "calling"
  /\ \/ /\ handler[Current(b)] = "ok"
        /\ send' = [send EXCEPT ![b] = "sent"]
        /\ UNCHANGED <<attempt, handler, flight, stream, server, cancelled>>
     \/ handler[Current(b)] = "error" /\ Failed(b)
  /\ UNCHANGED <<faults, refused, failing>>

Retry(b) ==
  /\ send[b] = "backoff"
  /\ send' = [send EXCEPT ![b] = "calling"]
  /\ attempt' = [attempt EXCEPT ![b] = @ + 1]
  /\ UNCHANGED <<handler, flight, stream, server, cancelled, faults, refused, failing>>

GiveUp(b) ==
  /\ send[b] = "backoff" /\ cancelled[b]
  /\ send' = [send EXCEPT ![b] = "dropped"]
  /\ UNCHANGED <<attempt, handler, flight, stream, server, cancelled, faults, refused, failing>>

Cancel(b) ==
  /\ ~cancelled[b]
  /\ cancelled' = [cancelled EXCEPT ![b] = TRUE]
  /\ UNCHANGED <<send, attempt, handler, flight, stream, server, faults, refused, failing>>

----------------------------------------------------------------------------
(* Handler.SendLogs, a goroutine per call. *)

Arrive(b) ==
  /\ send[b] = "calling" /\ handler[Current(b)] = "none"
  /\ server = "up" /\ b \notin failing
  /\ handler' = [handler EXCEPT ![Current(b)] = "run"]
  /\ UNCHANGED <<send, attempt, flight, stream, server, cancelled, faults, refused, failing>>

\* An empty batch, one without a valid record, or one that NATS does not take.
Reject(c) ==
  /\ handler[c] = "run"
  /\ c[1] \notin Valid \cap Fits
  /\ handler' = [handler EXCEPT ![c] = "error"]
  /\ UNCHANGED <<send, attempt, flight, stream, server, cancelled, faults, refused, failing>>

PublishThen(c, next) ==
  /\ handler[c] = "run"
  /\ c[1] \in Valid \cap Fits
  /\ handler' = [handler EXCEPT ![c] = next]
  /\ flight' = flight \cup {c}
  /\ UNCHANGED <<send, attempt, stream, server, cancelled, faults, refused, failing>>

MutantPublish(c) == PublishThen(c, "ok")   \* does not wait for the acknowledgement
Publish(c)       == PublishThen(c, "publish")

Acked(c) ==
  /\ handler[c] = "publish" /\ c \in stream
  /\ handler' = [handler EXCEPT ![c] = "ok"]
  /\ UNCHANGED <<send, attempt, flight, stream, server, cancelled, faults, refused, failing>>

\* Nobody waits for the call any more: its context is done.
Abandoned(c) == send[c[1]] # "calling" \/ attempt[c[1]] # c[2]

MutantPublishFails(c) ==   \* waits for ever
  /\ handler[c] = "publish" /\ Inject
  /\ handler' = [handler EXCEPT ![c] = "error"]
  /\ UNCHANGED <<send, attempt, flight, stream, server, cancelled, refused, failing>>

\* The acknowledgement does not come in time; the message may yet be stored.
PublishFails(c) ==
  /\ handler[c] = "publish"
  /\ \/ Inject
     \/ (c \notin flight \cup stream \/ Abandoned(c)) /\ UNCHANGED faults
  /\ handler' = [handler EXCEPT ![c] = "error"]
  /\ UNCHANGED <<send, attempt, flight, stream, server, cancelled, refused, failing>>

----------------------------------------------------------------------------
(* JetStream. *)

Store(c) ==
  /\ c \in flight
  /\ flight' = flight \ {c} /\ stream' = stream \cup {c}
  /\ UNCHANGED <<send, attempt, handler, server, cancelled, faults, refused, failing>>

Lose(c) ==
  /\ c \in flight
  /\ Inject
  /\ flight' = flight \ {c}
  /\ UNCHANGED <<send, attempt, handler, stream, server, cancelled, refused, failing>>

----------------------------------------------------------------------------
(* The ingest API. *)

\* GracefulStop takes no new calls and waits for those that run; then Serve, and
\* with it main, returns.
Signal ==
  /\ server = "up"
  /\ server' = "stopping"
  /\ UNCHANGED <<send, attempt, handler, flight, stream, cancelled, faults, refused, failing>>

Down ==
  /\ server' = "down"
  /\ handler' = [c \in Call |-> IF Running(c) THEN "dead" ELSE handler[c]]
  /\ UNCHANGED <<send, attempt, flight, stream, cancelled, refused, failing>>

MutantExit == server = "stopping" /\ Down /\ UNCHANGED faults   \* Stop for GracefulStop

Exit ==
  /\ server = "stopping"
  /\ \A c \in Call : ~Running(c)
  /\ Down
  /\ UNCHANGED faults

Crash == server # "down" /\ Inject /\ Down

Restart ==
  /\ server = "down"
  /\ server' = "up"
  /\ UNCHANGED <<send, attempt, handler, flight, stream, cancelled, faults, refused, failing>>

----------------------------------------------------------------------------
Exporter(b) == \/ Begin(b) \/ Refused(b) \/ Break(b) \/ Reply(b) \/ Retry(b) \/ GiveUp(b)
               \/ Arrive(b)

Serve(c) == Reject(c) \/ Publish(c) \/ Acked(c) \/ PublishFails(c)

Next == \/ \E b \in Batch : Exporter(b) \/ Reconnect(b) \/ Cancel(b)
        \/ \E c \in Call : Serve(c) \/ Store(c) \/ Lose(c)
        \/ Signal \/ Exit \/ Crash \/ Restart

Spec == Init /\ [][Next]_vars

\* Goroutines that can run do run, and JetStream stores what reaches it; both have a
\* few steps to take per call, so that it is enough if one of them is taken.  No fault,
\* no signal, no restart and no reconnection is ever due.
Fairness ==
  /\ \A b \in Batch : WF_vars(Exporter(b))
  /\ \A c \in Call : WF_vars(Serve(c) \/ Store(c))
  /\ WF_vars(Exit)

FairSpec == Spec /\ Fairness

----------------------------------------------------------------------------
(* Properties. *)

TypeOK ==
  /\ send \in [Batch -> {"new", "calling", "backoff", "sent", "dropped"}]
  /\ attempt \in [Batch -> 0..MaxRetries]
  /\ handler \in [Call -> {"none", "run", "publish", "ok", "error", "dead"}]
  /\ flight \subseteq Call /\ stream \subseteq Call
  /\ server \in {"up", "stopping", "down"}
  /\ cancelled \in [Batch -> BOOLEAN]
  /\ faults \in 0..MaxFaults
  /\ refused \in [Batch -> 0..(MaxRetries + 1)]
  /\ failing \subseteq Batch

\* Producer.Publish: "JetStream guarantees at-least-once delivery", of a batch that
\* Send reports as sent, under every fault; and never of anything invalid.
Status == [b \in Batch |-> IF send[b] \in {"sent", "dropped"} THEN send[b] ELSE "pending"]

ALO == INSTANCE AtLeastOnce WITH Good <- Valid \cap Fits, status <- Status

ImplementsAtLeastOnce == ALO!Spec

\* A batch is in the stream twice only because of a fault, or because its agent stops:
\* a restart of the server in good order duplicates nothing, since GracefulStop lets
\* every call that has begun answer.
Copies(b) == {c \in stream : c[1] = b}

OnceUnlessFault ==
  \A b \in Batch : ~cancelled[b] => Cardinality(Copies(b)) <= 1 + faults

\* A batch that could be stored is dropped only if the agent stops or each of its
\* MaxRetries + 1 calls has met a fault, no server, or a connection that backs off from that.
DroppedForCause ==
  \A b \in Valid \cap Fits :
    send[b] = "dropped" /\ ~cancelled[b] => faults + refused[b] > MaxRetries

\* Send returns, whatever happens to the server and to the messages.
Settles == \A b \in Batch : send[b] = "calling" ~> send[b] \in {"sent", "dropped"}

\* "Graceful shutdown": the calls that run when the signal arrives do end.
StopEnds == server = "stopping" ~> server = "down"
=============================================================================
