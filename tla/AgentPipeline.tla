--------------------------- MODULE AgentPipeline ---------------------------
(***************************************************************************)
(* The agent: five kinds of goroutine in a row, connected by bounded        *)
(* channels and sharing one context.                                       *)
(*                                                                         *)
(*   tailers --raw--> parser --record--> enricher --enrich--> batcher       *)
(*           --batch--> exporter --SendLogs--> backend                     *)
(*                                                                         *)
(* A record is the number of the log line it carries: lines are numbered in *)
(* the order in which they enter the raw channel.  What the stages do to a  *)
(* record's fields is the subject of RecordPath.                           *)
(***************************************************************************)
EXTENDS Integers, SequencesExt

CONSTANTS
  Tailer,      \* slots for tailFile goroutines, one per container followed
  Cap,         \* capacity of the channels "raw", "record" and "enrich"
  BatchCap,    \* capacity of the batch channel
  BatchSize,   \* agent.batch_size
  MaxRetries,  \* output.max_retries
  MaxRecords,  \* bound: log lines read
  Failing      \* may a call fail although the context is live

Link  == {"raw", "record", "enrich"}
Stage == {"parser", "enricher"}

\* The channel a stage ranges over, and the one it sends to.
From(s) == IF s = "parser" THEN "raw" ELSE "record"
To(s)   == IF s = "parser" THEN "record" ELSE "enrich"

ASSUME TailerAssumption == IsFiniteSet(Tailer)
ASSUME CapAssumption   == Cap \in [Link -> Nat \ {0}] /\ BatchCap \in Nat \ {0}
ASSUME BatchAssumption == BatchSize \in Nat \ {0}
ASSUME RetryAssumption == MaxRetries \in Nat
ASSUME BoundAssumption == MaxRecords \in Nat /\ Failing \in BOOLEAN

VARIABLES
  main,      \* main: waiting for a signal, in Pipeline.Stop, past it
  input,     \* DockerInput.Start, and the close that follows it
  tail,      \* the tailers
  chan,      \* contents of the record channels
  batchq,    \* contents of the batch channel
  open,      \* channels not closed yet
  stage,     \* parser and enricher
  hold,      \* the record a stage has received and not sent yet
  batcher,   \* Batcher.Run
  buf,       \* Batcher.buf
  flushing,  \* the batch flush is sending
  exporter,  \* the exporter stage and GrpcExporter.Send
  sending,   \* the batch Send is working on
  attempt,   \* attempt of Send's loop
  entered,   \* records that entered the raw channel (ghost)
  accepted,  \* records the backend has processed (ghost)
  settled    \* records the exporter is done with (ghost)

inputVars == <<input, tail>>
stageVars == <<stage, hold>>
batchVars == <<batcher, buf, flushing>>
sendVars  == <<exporter, sending, attempt, accepted, settled>>
vars == <<main, inputVars, chan, batchq, open, stageVars, batchVars, sendVars, entered>>

Init ==
  /\ main = "running"
  /\ input = "starting"
  /\ tail = [t \in Tailer |-> "off"]
  /\ chan = [c \in Link |-> <<>>]
  /\ batchq = <<>>
  /\ open = Link \cup {"batch"}
  /\ stage = [s \in Stage |-> "recv"]
  /\ hold = [s \in Stage |-> <<>>]
  /\ batcher = "select"
  /\ buf = <<>> /\ flushing = <<>>
  /\ exporter = "recv"
  /\ sending = <<>> /\ attempt = 0
  /\ entered = 0
  /\ accepted = {} /\ settled = {}

\* p.cancel() is the first thing Pipeline.Stop does.
Cancelled == main # "running"

----------------------------------------------------------------------------
(* Input: DockerInput.Start and its tailers.                               *)

\* The log root is unreadable: Start returns at once, and raw is closed.
InputFail ==
  /\ input = "starting"
  /\ input' = "done"
  /\ open' = open \ {"raw"}
  /\ UNCHANGED <<main, tail, chan, batchq, stageVars, batchVars, sendVars, entered>>

InputStart ==
  /\ input = "starting"
  /\ input' = "running"
  /\ UNCHANGED <<main, tail, chan, batchq, open, stageVars, batchVars, sendVars, entered>>

\* A scan finds a container to follow.
TailStart(t) ==
  /\ input = "running" /\ tail[t] = "off"
  /\ tail' = [tail EXCEPT ![t] = "read"]
  /\ UNCHANGED <<main, input, chan, batchq, open, stageVars, batchVars, sendVars, entered>>

\* The loop of tailFile finds the context live and reads a complete line.
TailRead(t) ==
  /\ tail[t] = "read" /\ ~Cancelled
  /\ entered < MaxRecords
  /\ tail' = [tail EXCEPT ![t] = "send"]
  /\ UNCHANGED <<main, input, chan, batchq, open, stageVars, batchVars, sendVars, entered>>

TailSend(t) ==
  /\ tail[t] = "send"
  /\ Len(chan["raw"]) < Cap["raw"]
  /\ entered < MaxRecords
  /\ entered' = entered + 1
  /\ chan' = [chan EXCEPT !["raw"] = Append(@, entered')]
  /\ tail' = [tail EXCEPT ![t] = "read"]
  /\ UNCHANGED <<main, input, batchq, open, stageVars, batchVars, sendVars>>

\* A tailer ends: its container is gone, its file fails, or the agent stops.
TailQuit(t) ==
  /\ tail[t] # "off"
  /\ tail' = [tail EXCEPT ![t] = "off"]
  /\ UNCHANGED <<main, input, chan, batchq, open, stageVars, batchVars, sendVars, entered>>

\* Start sees the cancelled context and waits for its tailers ...
InputWait ==
  /\ input = "running" /\ Cancelled
  /\ input' = "waiting"
  /\ UNCHANGED <<main, tail, chan, batchq, open, stageVars, batchVars, sendVars, entered>>

\* ... and only when all have ended does it return and raw get closed.
MutantCloseEarly ==
  /\ input = "waiting"
  /\ input' = "done"
  /\ open' = open \ {"raw"}
  /\ UNCHANGED <<main, tail, chan, batchq, stageVars, batchVars, sendVars, entered>>

InputClose ==
  /\ input = "waiting"
  /\ \A t \in Tailer : tail[t] = "off"
  /\ input' = "done"
  /\ open' = open \ {"raw"}
  /\ UNCHANGED <<main, tail, chan, batchq, stageVars, batchVars, sendVars, entered>>

----------------------------------------------------------------------------
(* Parser and enricher: for x := range in { select { out <- f(x); <-done } } *)

StageRecv(s) ==
  /\ stage[s] = "recv"
  /\ chan[From(s)] # <<>>
  /\ hold' = [hold EXCEPT ![s] = <<Head(chan[From(s)])>>]
  /\ chan' = [chan EXCEPT ![From(s)] = Tail(@)]
  /\ stage' = [stage EXCEPT ![s] = "send"]
  /\ UNCHANGED <<main, inputVars, batchq, open, batchVars, sendVars, entered>>

StageSend(s) ==
  /\ stage[s] = "send"
  /\ Len(chan[To(s)]) < Cap[To(s)]
  /\ chan' = [chan EXCEPT ![To(s)] = @ \o hold[s]]
  /\ hold' = [hold EXCEPT ![s] = <<>>]
  /\ stage' = [stage EXCEPT ![s] = "recv"]
  /\ UNCHANGED <<main, inputVars, batchq, open, batchVars, sendVars, entered>>

\* The other branch of the select: return, and the deferred close.
MutantStageDrop(s) ==   \* a default branch: drop the record, go on
  /\ stage[s] = "send"
  /\ hold' = [hold EXCEPT ![s] = <<>>]
  /\ stage' = [stage EXCEPT ![s] = "recv"]
  /\ UNCHANGED <<main, inputVars, chan, open, batchq, batchVars, sendVars, entered>>

StageQuit(s) ==
  /\ stage[s] = "send" /\ Cancelled
  /\ hold' = [hold EXCEPT ![s] = <<>>]
  /\ stage' = [stage EXCEPT ![s] = "done"]
  /\ open' = open \ {To(s)}
  /\ UNCHANGED <<main, inputVars, chan, batchq, batchVars, sendVars, entered>>

\* The range ends when its channel is closed and drained.
StageEnd(s) ==
  /\ stage[s] = "recv"
  /\ From(s) \notin open /\ chan[From(s)] = <<>>
  /\ stage' = [stage EXCEPT ![s] = "done"]
  /\ open' = open \ {To(s)}
  /\ UNCHANGED <<main, inputVars, chan, hold, batchq, batchVars, sendVars, entered>>

----------------------------------------------------------------------------
(* Batcher.Run.  flush takes the whole buffer and then sends it on the batch *)
(* channel, with no other way out: "flush" and "lastFlush" are that send,    *)
(* before the next round of Run and before its return.                     *)

ReceiveUpTo(limit) ==
  /\ batcher = "select"
  /\ chan["enrich"] # <<>>
  /\ chan' = [chan EXCEPT !["enrich"] = Tail(@)]
  /\ LET b == Append(buf, Head(chan["enrich"]))
     IN IF Len(b) >= limit
        THEN batcher' = "flush" /\ flushing' = b /\ buf' = <<>>
        ELSE buf' = b /\ UNCHANGED <<batcher, flushing>>
  /\ UNCHANGED <<main, inputVars, batchq, open, stageVars, sendVars, entered>>

MutantReceiveLate == ReceiveUpTo(BatchSize + 1)   \* > for >=
Receive           == ReceiveUpTo(BatchSize)

TickWhen(ready) ==
  /\ batcher = "select"
  /\ ready
  /\ batcher' = "flush" /\ flushing' = buf /\ buf' = <<>>
  /\ UNCHANGED <<main, inputVars, chan, batchq, open, stageVars, sendVars, entered>>

MutantTickFull == TickWhen(Len(buf) >= BatchSize)   \* only a full batch is sent
MutantTickKeeps ==   \* the buffer is not replaced
  /\ batcher = "select" /\ buf # <<>>
  /\ batcher' = "flush" /\ flushing' = buf
  /\ UNCHANGED <<main, inputVars, chan, batchq, open, stageVars, buf, sendVars, entered>>
Tick == TickWhen(buf # <<>>)

\* The last flush, which is no flush when the buffer is empty.
MutantReturnOpen ==   \* the batch channel is not closed
  /\ IF buf = <<>>
     THEN batcher' = "done" /\ UNCHANGED <<open, flushing>>
     ELSE batcher' = "lastFlush" /\ flushing' = buf /\ UNCHANGED open
  /\ buf' = <<>>
  /\ UNCHANGED <<main, inputVars, chan, batchq, stageVars, sendVars, entered>>

FlushAndReturn ==
  /\ IF buf = <<>>
     THEN batcher' = "done" /\ open' = open \ {"batch"} /\ UNCHANGED flushing
     ELSE batcher' = "lastFlush" /\ flushing' = buf /\ UNCHANGED open
  /\ buf' = <<>>
  /\ UNCHANGED <<main, inputVars, chan, batchq, stageVars, sendVars, entered>>

InputClosed ==
  /\ batcher = "select"
  /\ "enrich" \notin open /\ chan["enrich"] = <<>>
  /\ FlushAndReturn

\* <-ctx.Done(): drainAndFlush.
StartDrain ==
  /\ batcher = "select" /\ Cancelled
  /\ batcher' = "drain"
  /\ UNCHANGED <<main, inputVars, chan, batchq, open, stageVars, buf, flushing, sendVars,
                 entered>>

\* While draining the size limit does not apply.
DrainReceive ==
  /\ batcher = "drain"
  /\ chan["enrich"] # <<>>
  /\ chan' = [chan EXCEPT !["enrich"] = Tail(@)]
  /\ buf' = Append(buf, Head(chan["enrich"]))
  /\ UNCHANGED <<main, inputVars, batchq, open, stageVars, batcher, flushing, sendVars,
                 entered>>

\* The default branch: nothing to receive.  On a closed channel there always is
\* something to receive, !ok, and the break there leaves the select only: the
\* loop then spins for ever without a change of state, so it has no action here.
DrainEmpty ==
  /\ batcher = "drain"
  /\ chan["enrich"] = <<>> /\ "enrich" \in open
  /\ FlushAndReturn

Spinning == batcher = "drain" /\ chan["enrich"] = <<>> /\ "enrich" \notin open

FlushSend ==
  /\ batcher \in {"flush", "lastFlush"}
  /\ Len(batchq) < BatchCap
  /\ batchq' = Append(batchq, flushing)
  /\ flushing' = <<>>
  /\ IF batcher = "flush"
     THEN batcher' = "select" /\ UNCHANGED open
     ELSE batcher' = "done" /\ open' = open \ {"batch"}
  /\ UNCHANGED <<main, inputVars, chan, stageVars, buf, sendVars, entered>>

----------------------------------------------------------------------------
(* The exporter and GrpcExporter.Send.  A call made under a cancelled context *)
(* fails at once ("dead"); another may succeed, or fail whether or not the    *)
(* backend processed it.                                                    *)

NextCall == IF Cancelled THEN "dead" ELSE "call"

ExportRecv ==
  /\ exporter = "recv"
  /\ batchq # <<>>
  /\ sending' = Head(batchq)
  /\ batchq' = Tail(batchq)
  /\ exporter' = NextCall
  /\ attempt' = 0
  /\ UNCHANGED <<main, inputVars, chan, open, stageVars, batchVars, accepted, settled,
                 entered>>

\* Send returns, with nil or an error, and the stage forgets the batch.
SendReturns ==
  /\ settled' = settled \cup Range(sending)
  /\ sending' = <<>>
  /\ attempt' = 0
  /\ exporter' = "recv"

CallOk ==
  /\ exporter = "call"
  /\ accepted' = accepted \cup Range(sending)
  /\ SendReturns
  /\ UNCHANGED <<main, inputVars, chan, batchq, open, stageVars, batchVars, entered>>

CallFailIf(retry) ==
  /\ \/ exporter = "call" /\ (Failing \/ Cancelled)
     \/ exporter = "dead"
  /\ \/ UNCHANGED accepted
     \/ exporter = "call" /\ accepted' = accepted \cup Range(sending)
  /\ IF retry
     THEN /\ exporter' = "backoff"
          /\ attempt' = attempt + 1
          /\ UNCHANGED <<sending, settled>>
     ELSE SendReturns
  /\ UNCHANGED <<main, inputVars, chan, batchq, open, stageVars, batchVars, entered>>

MutantCallAgain == CallFailIf(attempt <= MaxRetries)   \* one attempt too many
CallFail        == CallFailIf(attempt < MaxRetries)

\* The backoff passes ...
Retry ==
  /\ exporter = "backoff"
  /\ exporter' = NextCall
  /\ UNCHANGED <<main, inputVars, chan, batchq, open, stageVars, batchVars, sending, attempt,
                 accepted, settled, entered>>

\* ... or the context is cancelled.
GiveUp ==
  /\ exporter = "backoff" /\ Cancelled
  /\ SendReturns
  /\ UNCHANGED <<main, inputVars, chan, batchq, open, stageVars, batchVars, accepted, entered>>

ExportEnd ==
  /\ exporter = "recv"
  /\ "batch" \notin open /\ batchq = <<>>
  /\ exporter' = "done"
  /\ UNCHANGED <<main, inputVars, chan, batchq, open, stageVars, batchVars, sending, attempt,
                 accepted, settled, entered>>

----------------------------------------------------------------------------
(* main and Pipeline.Stop.                                                 *)

Signal ==
  /\ main = "running"
  /\ main' = "stopping"
  /\ UNCHANGED <<inputVars, chan, batchq, open, stageVars, batchVars, sendVars, entered>>

\* p.wg.Wait() returns.
Stopped ==
  /\ main = "stopping"
  /\ input = "done" /\ batcher = "done" /\ exporter = "done"
  /\ \A s \in Stage : stage[s] = "done"
  /\ main' = "stopped"
  /\ UNCHANGED <<inputVars, chan, batchq, open, stageVars, batchVars, sendVars, entered>>

----------------------------------------------------------------------------
Input == \/ InputFail \/ InputStart \/ InputWait \/ InputClose
         \/ \E t \in Tailer : TailStart(t) \/ TailRead(t) \/ TailSend(t) \/ TailQuit(t)

Transform(s) == StageRecv(s) \/ StageSend(s) \/ StageQuit(s) \/ StageEnd(s)

Batch == \/ Receive \/ Tick \/ InputClosed \/ StartDrain \/ DrainReceive \/ DrainEmpty
         \/ FlushSend

Export == ExportRecv \/ CallOk \/ CallFail \/ Retry \/ GiveUp \/ ExportEnd

Next == Input \/ (\E s \in Stage : Transform(s)) \/ Batch \/ Export \/ Signal \/ Stopped

Spec == Init /\ [][Next]_vars

\* Every goroutine that can take a step takes one; the ticker ticks; tailers and
\* calls heed a cancelled context.  Nothing makes the backend answer.
Fairness ==
  /\ WF_vars(InputStart) /\ WF_vars(InputWait) /\ WF_vars(InputClose)
  /\ \A t \in Tailer : WF_vars(Cancelled /\ TailQuit(t))
  /\ \A s \in Stage : WF_vars(Transform(s))
  /\ WF_vars(Batch) /\ WF_vars(Tick)
  /\ WF_vars(ExportRecv) /\ WF_vars(Retry) /\ WF_vars(ExportEnd)
  /\ WF_vars((exporter = "dead" \/ Cancelled) /\ CallFail)
  /\ WF_vars(Stopped)

FairSpec == Spec /\ Fairness

\* The backend answers every call.
LiveSpec == FairSpec /\ WF_vars(CallOk \/ CallFail)

----------------------------------------------------------------------------
(* Properties. *)

TypeOK ==
  /\ main \in {"running", "stopping", "stopped"}
  /\ input \in {"starting", "running", "waiting", "done"}
  /\ tail \in [Tailer -> {"off", "read", "send"}]
  /\ chan \in [Link -> Seq(Nat)]
  /\ batchq \in Seq(Seq(Nat))
  /\ open \subseteq Link \cup {"batch"}
  /\ stage \in [Stage -> {"recv", "send", "done"}]
  /\ hold \in [Stage -> Seq(Nat)]
  /\ batcher \in {"select", "flush", "drain", "lastFlush", "done"}
  /\ buf \in Seq(Nat) /\ flushing \in Seq(Nat)
  /\ exporter \in {"recv", "call", "dead", "backoff", "done"}
  /\ sending \in Seq(Nat)
  /\ attempt \in 0..MaxRetries
  /\ entered \in Nat
  /\ accepted \subseteq Nat /\ settled \subseteq Nat

\* The records the agent holds, the oldest first.
Line == sending \o FlattenSeq(batchq) \o flushing \o buf
          \o chan["enrich"] \o hold["enricher"]
          \o chan["record"] \o hold["parser"] \o chan["raw"]

\* Nobody ever sends on a closed channel, which would crash the agent: raw is
\* closed after the last tailer is gone, every other channel by its only sender.
NoSendOnClosed ==
  /\ \A t \in Tailer : tail[t] = "send" => "raw" \in open
  /\ \A s \in Stage : stage[s] # "done" => To(s) \in open
  /\ batcher \in {"flush", "lastFlush"} => "batch" \in open

\* While the agent runs no record is lost, duplicated or overtaken between two
\* stages: those it holds are exactly the ones that entered and are not settled,
\* in the order in which they entered.
InOrder == \A i, j \in DOMAIN Line : i < j => Line[i] < Line[j]

NoneMissing ==
  ~Cancelled => Range(Line) \cup settled = 1..entered /\ Range(Line) \cap settled = {}

\* A batch of at least one record and at most batch_size, unless it is the last one,
\* into which a shutdown drained what there was.
Sized(batch, last) == batch # <<>> /\ (Len(batch) <= BatchSize \/ (last /\ Cancelled))

\* No batch is empty, wherever it is, and only one may be larger than batch_size: the one
\* that a shutdown drains into, behind which no other batch comes.
BatchBound ==
  /\ Len(buf) >= BatchSize => batcher = "drain"
  /\ batcher \in {"flush", "lastFlush"} => Sized(flushing, batcher = "lastFlush")
  /\ \A i \in DOMAIN batchq : Sized(batchq[i], i = Len(batchq) /\ batcher = "done")
  /\ exporter \in {"call", "dead", "backoff"} =>
       Sized(sending, batchq = <<>> /\ batcher = "done")

\* The agent implements a bounded queue (AgentFifo): memory is bounded by the
\* channel sizes, records leave in order, and only a shutdown abandons any.  While it
\* drains, batch_size does not bound the buffer, so that the line each tailer has in
\* hand may come on top.
Fifo == INSTANCE AgentFifo WITH
          Capacity <- Cap["raw"] + Cap["record"] + Cap["enrich"] + 2
                        + BatchSize * (BatchCap + 2),
          Late <- Cardinality(Tailer),
          queue <- Line, closing <- Cancelled

ImplementsFifo == Fifo!FifoSpec

\* With a backend that answers, every record that entered is settled, unless
\* the agent is told to stop.
EventuallySettled ==
  \A r \in 1..MaxRecords : entered >= r ~> r \in settled \/ Cancelled

\* Stop returns, unless the batcher found its input closed while draining.
StopReturnsOrSpins == main = "stopping" ~> main = "stopped" \/ Spinning

(* Claims of comments and documents that the code does not keep. *)

\* pipeline.go:183: Stop cancels the context, then waits for every stage to
\* drain and exit.
StopReturns == main = "stopping" ~> main = "stopped"

\* main.go:37, pipeline.go:183 and buffer.go:61 call the shutdown a drain: once it
\* is complete, the backend has every record that entered.
DrainDelivers == main = "stopped" => 1..entered \subseteq accepted
=============================================================================
