# FeatureTrace: TLA+ models, checks and proofs

FeatureTrace collects container logs with an agent on every host, ships them to an
ingest API, queues them in NATS JetStream, and has processors write them to
ClickHouse, where a query API and a dashboard read them:

    containers -> agent -> ingest API -> JetStream -> processor -> ClickHouse -> query API -> dashboard

This directory holds TLA+ models of the parts that carry the system's own logic, the
TLC configurations that check them, and TLAPS proofs about them. `PROJECT.json` maps
every definition to the lines it was translated from and lists runs, mutants, findings
and hazards.

    tlc -workers 2 -config Processor_two.cfg MCProcessor     # a run
    tlapm ProcessorProofs.tla                                # proofs

## 1. Inventory

| Part | State it keeps | Operations | Interacts through | What is hard |
|---|---|---|---|---|
| Agent: Docker input (`agent/internals/input/docker.go`) | maps of tailers and skipped containers | scan, start and stop a tailer, exit notices | the raw channel, an `exited` channel, contexts | a notice that outlives the tailer it is about |
| Agent: tailer (`tail.go`) | file, reader, last size, renamed | read a line, rotate, detect truncation, poll | the raw channel | renames and truncations between two polls; incomplete lines |
| Agent: parser, enricher (`parser.go`, `enrich.go`) | none but the record in hand | parse, detect the service, correlate | channels | two JSON keys for one field, in random order |
| Agent: batcher (`buffer.go`) | buffer | receive, flush on size or tick, drain | enrich channel, batch channel | cancellation while its input closes |
| Agent: exporter (`grpc.go`) | batch and attempt in hand | send, back off, give up | gRPC | failure after success; no deadline |
| Agent: pipeline (`pipeline.go`, `main.go`) | context, wait group, channels | start, stop | all of the above | who closes which channel, and when |
| Ingest API (`app/internals/ingestion`) | none | convert, validate, enqueue | gRPC in, JetStream out | partly valid batches, retries that store twice |
| Queue (`app/internals/queue`) | stream and durable consumer (in NATS) | publish, deliver, ack, nak | JetStream | redelivery, lost and late acks, MaxAge, reconnection |
| Processor (`app/internals/processor`, `cmd/processor`) | batcher's buffer and timer, batches in flight | consume, add, flush, stop | JetStream in, ClickHouse out | four kinds of goroutine share one buffer; acks come before inserts |
| Storage (`app/internals/storage`) | the table (in ClickHouse) | insert, query, facets, migrate | SQL | inserts that fail in part; pages over a growing table |
| Query API (`app/internals/query`) | none | search, facets, health | HTTP | an error in mid-result gives a short page |
| Dashboard (`app/web/dashboard/src`) | filters, limit, result, expanded row, history | filter, poll, page, open and close a trace | HTTP, browser history | answers that come late; row keys; spans |

What makes each part correct, in a sentence: the **agent** neither loses, repeats nor
reorders lines while it runs, never crashes on a closed channel, holds a bounded number
of lines and stops when told; a **line** arrives at the table as what it said; the
**processor** stores every message at least once, loses acknowledged records in no way
that its design does not accept, duplicates only what was delivered twice, and never
stops flushing; the **dashboard** shows the answer to the question on the screen.

Not state machines of their own, and left aside: the logger, the agent's configuration
file (its values are constants of the models), the HTTP exporter (constructed nowhere),
generated protocol code, deployment files, and the dashboard's presentation.

## 2. Modules

| Module | Models | EXTENDS / instantiates |
|---|---|---|
| `TailFile` | a container's log and the tailFile calls on it | |
| `DockerInput` | the scans, exit notices and cancellations that start and stop them | `TailFile` |
| `AgentPipeline` | the agent's goroutines and channels | instantiates `AgentFifo` |
| `AgentFifo` | what the agent promises: a bounded queue | |
| `RecordPath` | a line's way from Docker to the table | |
| `Ingest` | a batch's way from an agent into the stream | instantiates `AtLeastOnce` |
| `AtLeastOnce` | what that way promises | |
| `Processor` | processors and the stream they consume | |
| `QueryApi` | what a query may answer | |
| `Dashboard` | the effect, the clicks and what is on the screen | `QueryApi` |
| `MCxxx` | constants for TLC | `xxx` |
| `DockerProofs`, `AgentProofs`, `IngestProofs`, `ProcessorProofs`, `RecordProofs`, `DashboardProofs` | theorems | `DockerInput`, `AgentPipeline`, `Ingest`, `Processor`, `RecordPath`, `Dashboard`; `TLAPS` |
| `AgentFifoProofs` | theorems: the pipeline implements the queue | `AgentProofs`, `Flattening` |
| `Flattening` | lemmas about flattened sequences | `TLAPS` |

The modules meet at the data they hand over: a line that a call of `TailFile` sends is a record
that enters `AgentPipeline`; what its exporter does with one batch, and what becomes of the
calls at the server, is `Ingest`; a message in `Ingest`'s stream is one that `Processor`
consumes; `Processor`'s table is the one `QueryApi` answers from; and `RecordPath` follows
the contents of one line all the way.

Operators whose names start with `Mutant` stand before the action they are a wrong
version of. They are no part of a specification: they are the bugs that the properties
are shown to notice (`PROJECT.json`, "mutants").

### Processor

A processor is a `Worker`; several share the durable consumer `log-processor`. A queue
message `m` is one batch the ingest API published, with `Size[m]` records; a record is
represented by the message it came in, so that `buf` is a sequence of messages.

| State | Code |
|---|---|
| `stream`, `deliveries` | JetStream's view of a message: not published, ready, pending, acked, aged |
| `conn`, `fetched`, `cur` | the connection, the iterator's prefetched messages, `msg` in `Consumer.Start` |
| `buf`, `timer` | `Batcher.buf`, and whether `Batcher.timer` is armed |
| `pc[w][t]`, `batch[w][t]` | where goroutine `t` of process `w` is; the local `batch` of its `Flush` |
| `table`, `lost` | rows per message; messages some records of which were dropped |

`Flush` is two steps, since the batch is taken under the mutex (`Take`) and inserted after
the unlock (`InsertOk`, `InsertFail`). The consumer loop, any number of timer callbacks and
the signal handler (`"stopper"`) interleave at exactly these points. `Add` is one step: its
append and its decision are made under one lock. The timer is one-shot: `TimerFire`
disarms it and starts a callback, `Take` arms it, also when the buffer is empty.

Faults are drawn from a budget of `MaxFaults`: an insert that fails having written any part
of the rows (the table is partitioned by day, and there is no transaction), an ack that is
lost, AckWait that passes while a message is being handled, a message that grows too old,
SIGTERM, a crash, a lost connection. Redelivery of a message that nobody handles any more,
reconnection and restart are free. Two things are simplified: an ack made without
a connection is either applied at once or never (the client would apply it when it
reconnects, or never), and a processor whose start fails counts as not started.

### AgentPipeline and AgentFifo

A record is the number of its line, counted as lines enter the raw channel. `chan`, `batchq`
and `open` are the channels, `hold[s]` the local variable of parser and enricher, `buf` and
`flushing` the batcher's buffer and the batch it is sending, `sending` and `attempt` the
exporter's. `Cancelled` is the shared context. What one iteration of a `for`/`select` does is
one action per branch. `DrainEmpty` is the default branch of `drainAndFlush`; on a closed
and empty channel that branch is never taken, since a receive is always possible there,
and the `break` leaves the select only: the state `Spinning`, which has no successor of its
own. A call of the exporter may succeed, or fail whether or not the backend processed
it; made under a cancelled context it fails (`"dead"`).

`AgentFifo` is the abstract specification. Lines enter at the back if there is room, leave in
order at the front a batch at a time, and are abandoned out of order only when closing. The
refinement maps the queue to `Line`, everything the goroutines and channels hold, the
oldest first; the capacity is the sum of the channels, two records in hand, and `BatchSize`
times the batch channel plus the batches being collected and sent.

Once it is closing, the queue may take one more line per tailer (`Late`). While the batcher
drains, `batch_size` does not bound its buffer, so that the raw channel has room for the line
that each tailer has in hand although everything behind it is as full as it ever is. With
`Late = 0` TLC finds such a run with two tailers, channels of 1, batches of 1 and nine lines, more
than the run below reads; it was found by proving the refinement.

### RecordPath

One line at a time. A line is its kind (blank, not a Docker entry, or an entry whose message is
text, empty, a lone newline, `null` or a JSON object), the words the level is inferred from,
and the string fields of the object. `ParseField` applies one of the remaining fields, so
that TLC tries every order in which Go may range over the map. A decoded object has every
key once (`Object`). `Enrich`, `Send` (the
conversion to nanoseconds and back), `ValidateRecord` and `Process` follow. A value is a name
that tells where it came from; times and levels are the classes the code distinguishes.

A line that was torn in the middle of a character (kind `"cut"`) is no UTF-8. Protobuf does not
marshal a record with such a string, so that every call fails and the batch is dropped
(`Unsent`): the line's record ends as `"dropped"`, and one that was in its batch as `"spoilt"`.

### TailFile and DockerInput

Docker writes a log in pieces, numbered from 1. A line is one or more pieces, of which the last
ends it (`ends`), so that a line of which only a part has reached the file is a state of the
model. Piece `p` is followed by `p + 1`, which makes a file an interval and an offset a number
of pieces. Docker rotates between two lines, by renaming (`Rename`, then `Create`, in two
steps: meanwhile the path names nothing) or by truncating.

| State | Code |
|---|---|
| `call[g]` | parameter and local variables of one `tailFile`: `fromStart`, `f` and its offset, what the `bufio.Reader` holds (`got`), the line being sent (`hold`), `lastSize`, `renamed` |
| `pc[g]` | `"open"`, the top of the loop, the send on `out`, after `io.EOF` (`"eof"`), the wait for the next poll, and the notice of its end (`"exit"`) |
| `file`, `path`, `here` | the files, the one `<id>-json.log` names, whether the container's directory exists |
| `entry`, `skipped`, `main` | `w.tailers[id]`, `w.skipped[id]`, where `DockerInput.Start` is |
| `last`, `cut`, `stale`, `missed` | ghosts: the last piece sent, whether the file was truncated since it was last read from the start, whether something was then read at the old offset, whether pieces were lost for a reason the code accepts |

A system call is a step: `read` (`Fill`, of any amount), the reads that find a line
(`ReadLine`) or the end (`Eof`), `stat` (`FindRenamed`, `FindTruncated`, `Idle`) and `open`
(`Reopen`), so that Docker may write, rename or truncate between any two of them, and truncate
again before the tailer has noticed (with `max-file` 1 every rotation truncates). `MaxFaults`
bounds rotations, of either way, and failing system calls. One container stands for all, since the watcher's maps are keyed by it.

### Ingest and AtLeastOnce

A batch belongs to an agent; `send[b]` and `attempt[b]` are where `GrpcExporter.Send` is with
it. `handler[c]` is the goroutine of `Handler.SendLogs` for call `c`, a batch and an attempt:
it rejects a batch without a valid record, publishes the rest as one message (`flight`), and
waits for JetStream's acknowledgement. A call may break at the agent while its handler goes on,
a message may be stored after its handler has given up on it, and the server stops (no new
call, those that run are waited for), crashes, and comes back. `MaxFaults` counts broken calls,
late acknowledgements, lost messages and crashes. A call that meets no server fails and leaves
the agent's client connection in TRANSIENT_FAILURE (`failing`), where the next calls fail at
once until it connects again (`Reconnect`), although the server may be back long before:
grpc-go's backoff is its own, and the calls do not wait for the connection to be ready. Both
kinds are counted by `refused`, per batch, since they are no faults. An agent's earlier batches
may have left the connection so (`Begin`).

`AtLeastOnce` is the abstract specification: a batch ends as sent or dropped, once; it is sent
only if the stream has it; each of its calls puts it there at most once, possibly late.

### QueryApi and Dashboard

An answer of `GET /v1/logs` is a set of rows: the newest `limit` of those the filter selects,
any of them where times tie. An error in the middle of the result gives a beginning of it
(`ShortPages`), since `rows.Err()` is not consulted. `Dashboard` has the state of `App.tsx`
(`filter`, `limit`, `live`, `result`) and each execution of its effect as a *run*: what its
closure captured, whether its request is asked, answered or failed, or its poll timer is
set. A change of the state and the effect that follows it are two steps, between which the
previous run may still be answered; the effect's cleanup aborts it.

## 3. Runs

Passing runs:

| Run | Bounds | Shows |
|---|---|---|
| `processor_two` | 2 processes that prefetch 1 message, 2 timer callbacks each, 3 messages (of 1, 2 and 1 records, the last of which does not unmarshal), `MaxSize` 2, 1 fault (not MaxAge and disconnection); processes and callbacks are symmetric | types, `AckedAccounted`, `WholeMessages`, `CopiesBounded`, `FullMeansFlushing`, `TimerAlive` |
| `processor_live` | 1 process that prefetches 2, 2 messages, 2 faults of any kind | `AckedAccounted`, `BufferDrains`, `PublishedStored` |
| `docker_input` | 2 calls, 3 files, 3 pieces, two rotations (renames or truncations in any mix), one failed system call | types, `OneTailer`, `InOrder`, `NothingSkipped`, `Followed`, `CatchesUp`, `StopReturns` |
| `agent_pipeline` | 2 tailers, 3 lines, channels of 1, batches of 2, 1 retry, failing backend | types, `NoSendOnClosed`, `InOrder`, `NoneMissing`, `BatchBound`, `ImplementsFifo`, `EventuallySettled`, `StopReturnsOrSpins` |
| `ingest` | 2 batches, one too large for NATS, 1 retry, 2 faults, any number of restarts | types, `OnceUnlessFault`, `DroppedForCause`, `ImplementsAtLeastOnce`, `Settles`, `StopEnds` |
| `record_path` | 11 keys, up to 4 of them in an object, 3 level words | types, `ParsedAsWritten`, `TraceKept`, `WellFormedKept`, `ProcessKeeps` |
| `dashboard` | 3 rows, two of one time, a list and a trace, pages of 1, traces of 2, 3 executions of the effect, 1 failed or short answer | `AnswerFits`, `FreshAreNew`, `NeverGoesBack`, `LoadingEnds`, `LiveShows` |

Why the bounds are enough.

- *Processor.* A batch of 2 with messages of 1 and 2 records gives a buffer below, at and above
  the limit. Two timer callbacks let one interval flush overtake another, two processes
  pass a message from one to the other, and two faults allow a late ack of a message that was
  delivered again, and a crash after a failed insert.
- *Docker input.* Two calls let a tailer fail and be replaced. Three files are one more than
  a call can switch between unharmed, so that a double rotation happens; three pieces are three
  lines, or one that is torn and one more, and let a file be truncated, written to and truncated
  again before the tailer looks. The safety properties are proved for any number of each.
- *Agent.* With channels of 1 every stage blocks the one before it. Three lines do not fill the
  queue; that it keeps to its capacity is proved for all sizes (`AgentImplementsFifo`).
- *Ingest.* One retry makes two calls of a batch overlap, and two faults let both go wrong.
- *Dashboard.* Two rows of one time compete for a page of one; three executions of the effect
  allow a change, another change, and the way back.

Deadlock checking is off where the system may stop: a stopped processor can wait in
`iter.Next()` for ever, an agent that has stopped does nothing, a line ends in the table, and a
dashboard with live off rests. It is on for `ingest`.

What the properties say:

- `AckedAccounted`: an acknowledged message is completely in the table, in the memory of
  a processor, or was dropped by a failed insert or a process that ended. The code
  acknowledges once `Add` has *buffered* the records, so the last two causes do lose
  acknowledged data; the property says that no interleaving of the goroutines adds a third.
  A message that grew too old never counts as acknowledged; that it may be missing is said by
  `PublishedStored`.
- `WholeMessages`, `CopiesBounded`: flushes move whole messages, and no two of them
  take the same records, so that duplicates come from redelivery only.
- `FullMeansFlushing`, `TimerAlive`, `BufferDrains`: a full buffer is always on its way out, and
  the interval flush is never lost, also after idle intervals and failed inserts.
- `PublishedStored`: every message ends in the table unless one of four named causes
  prevents it.
- `NoSendOnClosed`: the deferred closes never meet a send.
- `InOrder`, `NoneMissing`, `ImplementsFifo`: see `AgentFifo`.
- `EventuallySettled`, `StopReturnsOrSpins`: every line that was read is accepted or dropped
  in the end, and nothing but the busy loop of `drainAndFlush` keeps `Stop` from returning.
- `NothingSkipped`: a tailer leaves nothing out, and sends whole lines only, unless it started
  within a line, met an incomplete line at the end of the file, had a file truncated that it
  had not read, that was truncated again or outgrew it before it looked, or found the log rotated
  twice. Neither renaming, which is the point of reading on after the rename was seen, nor a
  truncation that is noticed costs anything.
- `InOrder` (of `DockerInput`): nothing is sent twice or out of order, truncations included; only
  a call that has read a truncated file at its old offset is left out, since the code does read
  that part again.
- `OneTailer`, `Followed`: never two tailers on one container, counting one that has not yet
  ended, and never none for long while it has opted in and has a log. `CatchesUp`: a
  tailer that has missed nothing sends every complete line. `StopReturns`: `Start` returns.
- `ImplementsAtLeastOnce`: a batch reported as sent is in the stream, on every path through
  `Send`, handler, enqueuer and producer. `OnceUnlessFault`: a second copy takes a fault, so
  that a server that is replaced in good order duplicates nothing. `DroppedForCause`: a
  running agent drops a batch only when each of its calls has met a fault, no server, or a
  connection backing off from that, which counts attempts across refusals, broken calls and late
  failures. `faults` is counted over all batches, so that a fault of another batch may stand in
  for one of its own; `refused` is counted per batch. `Settles`, `StopEnds`:
  neither the agent nor a graceful stop waits for ever.
- `AnswerFits`: a trace's view never shows a row of anything else, and what is shown as loaded
  is an answer to the request on the screen. `FreshAreNew`: what is highlighted was not
  there at the previous answer to the same request, but for ties. `NeverGoesBack`: no answer
  is replaced by an older one. `LoadingEnds`, `LiveShows`: no path leaves the screen loading,
  or stale while live, for good.
- `ParsedAsWritten`, `TraceKept`, `WellFormedKept`: whatever the order of its fields, a record
  says what the line said, and a line of UTF-8 with a message, a known level and a time not in the
  future is not dropped on its own account. A record is stored under a trace id that the log gives,
  and under a header's where the log has none; if one trace-id key of a log is empty and another
  is not, Go's map order decides whether the id, nothing, or the header is stored, and
  `TraceKept` allows all three. `ProcessKeeps`: the processor's stages change nothing the ingest API let
  through, so a redelivered message gives equal rows but for `processed_at`.

Runs that end in a counterexample, each for a statement in the repository that the
code does not keep:

| Run | Statement | What happens |
|---|---|---|
| `processor_stop` | `worker.go:54` "Stop flushes any remaining buffered records." | The consumer loop goes on between the flush and `cancel()`; what it acknowledges then dies with the process |
| `processor_return` | `consumer.go:34` "It blocks until the context is cancelled." | Without another message `iter.Next()` never returns |
| `agent_spin` | `pipeline.go:183` "waits for every stage to drain and exit" | `drainAndFlush` spins on a closed channel (`buffer.go:89-91`) |
| `agent_drain` | `pipeline.go:183` "graceful shutdown", agent `main.go:37` "Graceful drain" | Every batch still queued is sent under the cancelled context, fails and is dropped |
| `record_level` | `validator.go:41` "Default empty level to "info"." | The check at line 31 rejects the empty level first |

They need little: one processor with two messages and a signal, one tailer with two lines and a
backend that never fails, one line with up to three fields.

Others, seen while modelling, have no run of their own:

- A message that is the JSON text `null` becomes a record without a message and is dropped
  (`parser.go:55`; kind `"null"`).
- A time after the year 2262 overflows the wire's nanoseconds and passes the check for future
  times (`grpc.go:46`; `"wrapped"`). A client other than the agent may send a time of 0, which
  becomes 1970 and not the zero time (`handler.go:74`).
- `GrpcExporter.Timeout` is never used, so that a call has no deadline (`grpc.go:76`;
  `AgentPipeline`'s `FairSpec` without `LiveSpec`).
- A batch whose message exceeds NATS's `max_payload` is refused at every attempt and dropped
  (`producer.go:36`; a batch outside `Fits`).
- The query API's `ListenAndServe` returns when `Shutdown` starts, so that `main` may end before
  the requests in flight.
- A torn line that was cut inside a character takes the rest of its batch with it (`grpc.go:76`;
  `Unsent`).
- A truncated file that is read before the truncation is noticed is read again from its start
  (`tail.go:84`; the reason for `stale` in `InOrder`). A truncation right after
  the seek to the end, while `lastSize` is 0, is not noticed (`tail.go:95`; sets `missed`).
- "Containers already running: only new lines matter" (`docker.go:71`) holds for those whose
  configuration the first scan can read, and until their first tailer fails: later scans
  follow from the start of the file (`FirstScan`, `Tick`).
- "A trace is shown whole" (`filters.ts:65`) up to `TRACE_LIMIT` rows.

### Fairness

`Processor!Fairness`: goroutines that can run do run, ClickHouse answers, an armed timer
expires, JetStream delivers, AckWait passes, a process that returned ends and one that ended
is started again (a supervisor is assumed). Fairness of a flush is on `Take` and `InsertOk`:
an insert that is never made to fail succeeds at last. No fault is ever due, and nothing makes
a client reconnect, because ten attempts may be used up.

`AgentPipeline!Fairness`: goroutines that can run do run, the ticker ticks, tailers and calls
heed a cancelled context. No fairness for signals, and none for tailers that read. `LiveSpec`
adds that the backend answers every call; without a deadline in the code nothing else would
make a call end, so this is an assumption about the backend, and not about the agent.

`DockerInput!Fairness`: goroutines that can run do run, the ticker ticks, the parser receives,
and Docker, having renamed a log, creates the next one. Docker need never write, rename or
truncate. `Ingest!Fairness`: agents and handlers run, JetStream stores a message or its publish fails
by its own timeout, a stop completes; neither a restart nor a reconnection is due, since a
refused call fails anyway.
`Dashboard!Fairness`: effects run, requests are answered or fail, timers fire.

## 4. Proofs

The theorems hold for all values of the constants that meet the named assumptions of the module
they are about (`MsgAssumption`, `TailBoundAssumption`, `RetryAssumption`, `IngestAssumption`
and so on); TLC evaluates these on every run. Nothing else is assumed.

`DockerProofs` (`DockerInput` and `TailFile`, any number of calls, files, pieces):

- `DockerTypeCorrect`, `DockerNothingSkipped`, `DockerInOrder` follow from one invariant,
  `TailInv`. `FilesInOrder`: the files are intervals that follow each other, and the one in use
  ends with what was written last. Per call: `Held` (it has a line in hand exactly while
  it sends, and its reader is empty at the end of a file), `Placed` (an offset lies within its
  file unless that was truncated; a file known to be renamed is not the newest and, at its
  end, is read to the end), `Aligned` (what it holds follows `last` without a gap and goes on
  at its offset, or at the file's start if it was truncated behind its back) and `Sorted`.
  `NothingSkipped` alone is not inductive: that the next file begins where the old one ended
  is only of use if the old one was read to its end, which is `Placed`.
- The proof has one lemma per action. A step of one call leaves the others alone
  (`OthersKept`), and a step that lets files grow leaves every call's invariant
  (`GrownKeeps`). Only `Truncate` changes a file's beginning, and sets `cut`, or `missed` where
  the file was cut already.
- `DockerOneTailer` needs `Entered`: while the directory is there, a call that has not ended is
  the one the map names, so that a scan starts none besides it.

`AgentProofs` (`AgentPipeline`, any number of tailers, any capacities, batch size, retries):

- `AgentTypeCorrect`: here `TypeOK` is inductive by itself, one lemma per component.
- `AgentNoSendOnClosed`, from `Owned`: a channel is open as long as a goroutine that sends on it
  has not ended, and tailers exist only while their input runs or waits for them.
- `AgentBatchBound`: no batch is empty, wherever it is, and only the last one may exceed
  `BatchSize`, the one that the batcher sends when it drains its input (`drainAndFlush` appends
  without looking at the size). From `Bounded`, which adds that a batcher drains only after the
  cancellation, that places which are not in use are empty, and that nothing follows the batch
  of a batcher that has ended.
- `AgentMemoryBounded`: no channel exceeds its capacity, and a stage holds one record at most.

`AgentFifoProofs`, of the same module, and `Flattening`:

- The line of records is cut at each place that holds some: `AtRaw` is the raw channel,
  `AtParser` the parser's record and the raw channel, and so on to `Line`. A step touches one or
  two neighbouring places. Most steps hand records on and leave the line as it is (`StageStill`,
  `BatchStill`, `ExportStill`); four kinds do not: a tailer's send (`SendEnters`), the end of a
  batch at the exporter (`ReturnSettles`), a stage that quits with a record in hand
  (`QuitDrops`), and the signal.
- `FifoInv` is the inductive invariant: types and bounds from above; `Shape` (a place that its
  goroutine does not use is empty, so that nothing is overwritten); `Room` (once stopping, the
  lines in the pipeline and in the hands of the tailers fit into the capacity plus one per
  tailer); `Numbered` (the lines in the pipeline are ordered, none of them is settled, and while
  the agent runs each number handed out is one or the other).
- `AgentImplementsFifo`: `Spec => Fifo!FifoSpec`, by step simulation under `FifoInv`.
  `AgentInOrder` and `AgentNoneMissing` follow from `Numbered`, which every step of the *abstract*
  queue preserves: that part of the proof does not mention the pipeline.
- The batch channel is a sequence of batches, which `Line` flattens. `Flattening` proves what is
  needed of `FlattenSeq` (one more batch, the first one gone, the length) by an induction over the
  naturals that takes the property as a set and rests on `<` being well-founded.

`IngestProofs` (`Ingest`, any batches, retries, faults):

- `IngestTypeCorrect`, from `Typed`: a batch is refused at most once per call, by whatever.
- `IngestDroppedForCause`: every failed attempt was charged to a fault or a refusal
  (`Costly`), where a call that can no longer succeed counts as failed (`Doomed`): the fault may
  come long before `Send` learns of it. `Ahead` says that a call that has not begun has no handler.
- `IngestAtLeastOnce`: `Spec => ALO!Spec`, initial states and step simulation, with the
  invariant that a handler that answers "ok" has its message in the stream (`Published`).
- `IngestOnceUnlessFault`: the calls of a batch that may still put it in the stream, or have,
  although `Send` no longer counts on them form the set `Doubt`. It gains one call at a time, and
  only by a fault, so that it has at most `faults` members; at most one call, the current one,
  is outside it. `Answered` rules out a call that nobody answered behind a batch that was sent.

`ProcessorProofs` (`Processor`, any processes, messages, timer callbacks, batch size, faults):

- `TypeCorrect`: `Spec => []TypeOK`. `TypeOK` alone is not inductive. The inductive `Typed` adds
  that the consumer has a message in `cur` at every label that uses it.
- `BufferBounded`: `Spec => []FullMeansFlushing`, inductive given the types. The only step that
  makes a buffer longer is `Add`, which moves the consumer to `"flush"` when it is full, and
  the consumer leaves that label by emptying the buffer.
- `IntervalFlushLives`: `Spec => []TimerAlive`, inductive given the types.
- `AcknowledgedIsAccounted`: `Spec => []AckedAccounted`, from the invariant `AckInv`: a
  goroutine that is not inserting has no batch in hand (`HandsEmpty`, so that `Take` overwrites
  nothing); a message in a buffer or a batch is there completely (`WholeBatches`, so that an
  insert stores all of it); and from the end of `Add` to the ack the message in hand is
  accounted for (`LoopAccounted`, which covers the flushes of other goroutines in between).
  `WholeBatches` rests on lemmas about how many records of a message a concatenation holds.
- `MessagesStayWhole`: `Spec => []WholeMessages`. A message's records are added at once and taken
  all together, so that their number in a buffer or a batch stays a multiple of `Size[m]`; a
  failed insert tears a message in the table, not in memory.
- `RecordsNotDuplicated`: `Spec => []CopiesBounded`. `CopiesBounded` is not inductive, since it
  does not count what is still to be added. In `CopiesInv` a delivery pays for `Size[m]` records
  when it is made: the rows in the table, the records in buffers and batches, and `Size[m]` for each
  message that is prefetched or in hand before `Add` are together no more than was paid. `Add`
  turns a waiting message into records, `Take` moves them to the batch, an insert moves at most
  as many to the table. That these sets are finite is part of the invariant, so that the number
  of processes and callbacks need not be.

`RecordProofs` (`RecordPath`, any keys, number of fields and level words):

- `RecordInv` is the inductive invariant. `Shows`: after some of the fields are applied, in
  whatever order, each field of the record has a value that one of *them* gave, and the metadata
  holds exactly what they say, but for the container's name; one more field keeps that (`PutShows`). `MessageChosen`, `Traced`
  and `Acceptable` say what is left of it at the later stages. `RecordTypeCorrect`,
  `RecordParsedAsWritten`, `RecordTraceKept`, `RecordWellFormedKept` and `RecordProcessKeeps` follow.
- `RecordTraceKept` depends on a message having each key once (`ObjectIs`), and on `trace_id` and
  `traceid` never being metadata, so that the header is what `Promote` finds (`HeaderIs`).
- `RecordWellFormedKept`: a well-formed line is `Acceptable` from the end of parsing on, its message
  is UTF-8 since it was written in JSON or in a whole line, and no wire format makes its time a future one; `RecordProcessKeeps`: only levels that the
  validator knows reach `StoredLevel`, which leaves those alone.

`DashboardProofs` (`Dashboard` and `QueryApi`, any rows, filters, limits, runs of the effect):

- `DashboardInvariant`, the inductive `DashboardInv`. `LastRuns`: only the last run of the effect is
  not over, since the cleanup aborts the one before. `AnswersLater`: an answer that waits to be
  shown is one to its own request, and from a table not older than that of the answer on the
  screen. `ResultFits`: what is on the screen is an answer to the request it is labelled with,
  or nothing.
- `AnswersFit` (a row of another filter cannot stay), `AnswersGoForward` (`NeverGoesBack`) follow.
- `HighlightedAreNew` needs the order of the rows (`LostToATie`): if a row that was there at the
  previous answer is in the new one only, the previous page was full without it, so that some
  row of that page gave way; neither is newer than the other, so they have the same time.

Every invariant and action property that a run checks is also proved, but for those that are
meant to fail. Only model-checked is liveness, under fairness, everywhere (`BufferDrains`,
`PublishedStored`, `Followed`, `CatchesUp`, `StopReturns`, `EventuallySettled`, `StopReturnsOrSpins`,
`Settles`, `StopEnds`, `LoadingEnds`, `LiveShows`): that is out of the prover's reach.

## 5. Not modelled

- *In the modelled parts.* Which records are in a message (they are told apart by their
  message only); durations of timers and backoffs (a timer may expire at any time after it was
  armed); the container id and host name in the metadata; Unicode and case folding beyond
  two spellings. A container's directory that goes and comes back under the same id while its
  old tailer has not ended: the notice of the old one would remove the entry of the new one
  (`docker.go:84`). Docker, which draws ids at random, does not bring one back.
- *Query API and storage.* The facets, the health probe, `Migrate`, and connecting; they keep
  no state others depend on. Offset pages (`repository.go:149`), which would repeat rows of a
  growing table, are used by no client.
- *Dashboard.* Browser history and URL, facets, the moving time range, the expanded row, and
  the spans of a trace. `format.ts:40` builds row keys that equal rows share.
- *No model at all.* The logger, the agent's configuration file, the HTTP exporter (constructed
  nowhere), generated protocol code, deployment files, presentation.

What is left to do, by importance: a composition of `Ingest` and `Processor` into one table, with
the at-least-once promise from a line to a row; the dashboard's history and spans.
