----------------------------- MODULE Processor -----------------------------
(***************************************************************************)
(* The log processor: one process per Worker, all of them competing        *)
(* consumers of the durable JetStream consumer "log-processor".            *)
(*                                                                         *)
(*   stream --deliver--> fetched --Next--> cur --Add--> buf --Flush-->      *)
(*   batch --InsertBatch--> table                                          *)
(*                                                                         *)
(* Four kinds of goroutine share a Batcher: the consumer loop (which runs  *)
(* Add), the one-shot timer's callbacks (TimerRoutine), and the signal     *)
(* handler that runs Worker.Stop.  A goroutine's program counter names the *)
(* next thing it does; Flush is two steps, because the batch is taken under *)
(* the mutex and inserted after the unlock.                                *)
(*                                                                         *)
(* A queue message is one POST of the ingest API, a batch of Size[m]       *)
(* records.  A record is represented by the message it came in, so buf and *)
(* batch are sequences over Msg and the table counts rows per message.     *)
(***************************************************************************)
EXTENDS Naturals, Sequences, FiniteSets, Functions

CONSTANTS
  Worker,        \* processor processes sharing the durable consumer
  Msg,           \* messages published to logs.raw
  Bad,           \* those whose payload does not unmarshal
  Size,          \* records in a message
  MaxSize,       \* BATCH_SIZE
  PullMax,       \* jetstream.PullMaxMessages
  TimerRoutine,  \* bound: timer callbacks alive at once in one process
  Faults,        \* kinds of fault the environment may inject
  MaxFaults,     \* bound: faults injected in a behaviour
  NoMsg          \* cur of a worker between two messages

FaultKind == {"insertFail", "lostAck", "ackWait", "maxAge", "signal",
              "crash", "disconnect"}

ASSUME MsgAssumption    == /\ Bad \subseteq Msg
                           /\ NoMsg \notin Msg
                           /\ Size \in [Msg -> Nat \ {0}]
ASSUME BatchAssumption  == MaxSize \in Nat \ {0} /\ PullMax \in Nat \ {0}
ASSUME FaultAssumption  == Faults \subseteq FaultKind /\ MaxFaults \in Nat
ASSUME ThreadAssumption == TimerRoutine \cap {"consumer", "stopper"} = {}

VARIABLES
  stream,      \* what JetStream keeps of each message
  deliveries,  \* how often each message was delivered
  conn,        \* is the worker connected to NATS
  fetched,     \* the iterator's prefetched messages
  cur,         \* the message the consumer loop is handling
  buf,         \* Batcher.buf
  timer,       \* Batcher.timer: is it armed
  pc,          \* per worker and goroutine, its next step
  batch,       \* per worker and goroutine, the batch Flush took
  table,       \* rows in featuretrace.logs, per message
  lost,        \* messages of which records in memory were dropped (ghost)
  faults       \* faults injected so far

vars == <<stream, deliveries, conn, fetched, cur, buf, timer, pc, batch,
          table, lost, faults>>

queueVars  == <<stream, deliveries>>
loopVars   == <<conn, fetched, cur>>
batchVars  == <<buf, timer, batch>>
tableVars  == <<table, lost>>

Thread == {"consumer", "stopper"} \cup TimerRoutine

\* Where a goroutine may be.
ConsumerPC == {"down", "top", "next", "add", "flush", "insert", "ack", "nak",
               "returned"}
StopperPC  == {"idle", "flush", "insert", "stopTimer", "cancel", "done"}
TimerPC    == {"idle", "flush", "insert"}
AnyPC      == ConsumerPC \cup StopperPC \cup TimerPC
PCs(t) == CASE t = "consumer" -> ConsumerPC
            [] t = "stopper"  -> StopperPC
            [] OTHER          -> TimerPC

----------------------------------------------------------------------------
(* State functions. *)

Up(w) == pc[w]["consumer"] # "down"

\* The context Worker.Start runs under is done: main's cancel() has run.
Cancelled(w) == pc[w]["stopper"] = "done"

\* The iterator or the loop of a live process still has m to acknowledge.
Holds(w, m) == Up(w) /\ (m \in Range(fetched[w]) \/ cur[w] = m)

\* The positions of the records of m in a batch, and how many there are.
Where(b, m) == {i \in DOMAIN b : b[i] = m}
Count(b, m) == Cardinality(Where(b, m))

Payload(m) == [i \in 1..Size[m] |-> m]

\* Records of m in the memory of worker w.
InMemory(w, m) == m \in Range(buf[w]) \/ \E t \in Thread : m \in Range(batch[w][t])

\* Where a goroutine continues once Flush has returned nil, or an error.
AfterFlush(t) == CASE t = "consumer" -> "ack"
                   [] t = "stopper"  -> "stopTimer"
                   [] OTHER          -> "idle"
MutantErrorNaks(t) == "nak"
AfterError(t) == IF t = "consumer" THEN "nak" ELSE AfterFlush(t)

Goto(w, t, label) == pc' = [pc EXCEPT ![w][t] = label]

\* Use one unit of the fault budget.
Inject(kind) == /\ kind \in Faults
                /\ faults < MaxFaults
                /\ faults' = faults + 1

----------------------------------------------------------------------------
(* The stream.  A work queue with explicit acknowledgement: a message is   *)
(* removed by its first ack, and handed out again after a nak or when      *)
(* AckWait passes without an answer.                                       *)

Publish(m) ==
  /\ stream[m] = "none"
  /\ stream' = [stream EXCEPT ![m] = "ready"]
  /\ UNCHANGED <<deliveries, loopVars, batchVars, pc, tableVars, faults>>

Deliver(w, m) ==
  /\ stream[m] = "ready"
  /\ pc[w]["consumer"] \notin {"down", "returned"}
  /\ conn[w]
  /\ Len(fetched[w]) < PullMax
  /\ stream' = [stream EXCEPT ![m] = "pending"]
  /\ deliveries' = [deliveries EXCEPT ![m] = @ + 1]
  /\ fetched' = [fetched EXCEPT ![w] = Append(@, m)]
  /\ UNCHANGED <<conn, cur, batchVars, pc, tableVars, faults>>

\* AckWait passes.  That is a fault only while somebody is still handling m.
AckWait(m) ==
  /\ stream[m] = "pending"
  /\ IF \E w \in Worker : Holds(w, m) THEN Inject("ackWait") ELSE UNCHANGED faults
  /\ stream' = [stream EXCEPT ![m] = "ready"]
  /\ UNCHANGED <<deliveries, loopVars, batchVars, pc, tableVars>>

\* MaxAge (24 hours) passes before the message is acknowledged.
Expire(m) ==
  /\ stream[m] \in {"ready", "pending"}
  /\ Inject("maxAge")
  /\ stream' = [stream EXCEPT ![m] = "aged"]
  /\ UNCHANGED <<deliveries, loopVars, batchVars, pc, tableVars>>

----------------------------------------------------------------------------
(* The consumer loop: Consumer.Start, calling Worker.handle.               *)

\* The select at the top of the loop.
Top(w) ==
  /\ pc[w]["consumer"] = "top"
  /\ Goto(w, "consumer", IF Cancelled(w) THEN "returned" ELSE "next")
  /\ UNCHANGED <<queueVars, loopVars, batchVars, tableVars, faults>>

\* iter.Next() returns a message; one that does not unmarshal is acked at once.
IterNext(w) ==
  /\ pc[w]["consumer"] = "next"
  /\ fetched[w] # <<>>
  /\ cur' = [cur EXCEPT ![w] = Head(fetched[w])]
  /\ fetched' = [fetched EXCEPT ![w] = Tail(@)]
  /\ Goto(w, "consumer", IF Head(fetched[w]) \in Bad THEN "ack" ELSE "add")
  /\ UNCHANGED <<queueVars, conn, batchVars, tableVars, faults>>

\* iter.Next() fails without a connection, and the loop tries again.
NextErr(w) ==
  /\ pc[w]["consumer"] = "next"
  /\ ~conn[w]
  /\ Goto(w, "consumer", "top")
  /\ UNCHANGED <<queueVars, loopVars, batchVars, tableVars, faults>>

MutantAddLate(w) ==   \* > for >=
  /\ pc[w]["consumer"] = "add"
  /\ buf' = [buf EXCEPT ![w] = @ \o Payload(cur[w])]
  /\ Goto(w, "consumer", IF Len(buf'[w]) > MaxSize THEN "flush" ELSE "ack")
  /\ UNCHANGED <<queueVars, loopVars, timer, batch, tableVars, faults>>

\* Batcher.Add: append under the lock, then decide whether to flush.
Add(w) ==
  /\ pc[w]["consumer"] = "add"
  /\ buf' = [buf EXCEPT ![w] = @ \o Payload(cur[w])]
  /\ Goto(w, "consumer", IF Len(buf'[w]) >= MaxSize THEN "flush" ELSE "ack")
  /\ UNCHANGED <<queueVars, loopVars, timer, batch, tableVars, faults>>

\* The ack's error is ignored, so it may be lost; it settles a message the
\* stream still has, whichever delivery it answers.  Without a connection the
\* client keeps it for when it reconnects, which may be never.
Ack(w) ==
  /\ pc[w]["consumer"] = "ack"
  /\ \/ /\ stream' = [stream EXCEPT ![cur[w]] = IF @ = "aged" THEN @ ELSE "acked"]
        /\ UNCHANGED faults
     \/ /\ IF conn[w] THEN Inject("lostAck") ELSE UNCHANGED faults
        /\ UNCHANGED stream
  /\ cur' = [cur EXCEPT ![w] = NoMsg]
  /\ Goto(w, "consumer", "top")
  /\ UNCHANGED <<deliveries, conn, fetched, batchVars, tableVars>>

\* Worker.handle failed: hand the message back, if the connection allows it.
Nak(w) ==
  /\ pc[w]["consumer"] = "nak"
  /\ stream' = [stream EXCEPT ![cur[w]] =
                  IF @ = "pending" /\ conn[w] THEN "ready" ELSE @]
  /\ cur' = [cur EXCEPT ![w] = NoMsg]
  /\ Goto(w, "consumer", "top")
  /\ UNCHANGED <<deliveries, conn, fetched, batchVars, tableVars, faults>>

----------------------------------------------------------------------------
(* Batcher.Flush, run by any goroutine.                                    *)

\* What Flush does under the lock: set the timer, take a batch, leave the rest.
LockedPart(w, t, set, taken, left) ==
  /\ pc[w][t] = "flush"
  /\ timer' = [timer EXCEPT ![w] = set]
  /\ batch' = [batch EXCEPT ![w][t] = taken]
  /\ buf' = [buf EXCEPT ![w] = left]
  /\ Goto(w, t, IF buf[w] = <<>> THEN AfterFlush(t) ELSE "insert")
  /\ UNCHANGED <<queueVars, loopVars, tableVars, faults>>

MutantTakeIdle(w, t)  ==                               \* no re-arm when empty
  LockedPart(w, t, IF buf[w] = <<>> THEN timer[w] ELSE "armed", buf[w], <<>>)
MutantTakeKeeps(w, t) == LockedPart(w, t, "armed", buf[w], buf[w])   \* not reset
MutantTakeSome(w, t)  ==                                             \* at most MaxSize
  LET n == IF Len(buf[w]) < MaxSize THEN Len(buf[w]) ELSE MaxSize
  IN LockedPart(w, t, "armed", SubSeq(buf[w], 1, n), SubSeq(buf[w], n + 1, Len(buf[w])))

\* Flush re-arms the timer even when the buffer is empty, and takes all of it.
Take(w, t) == LockedPart(w, t, "armed", buf[w], <<>>)

MutantInsertClears(w, t) ==   \* the buffer is reset after the insert
  /\ pc[w][t] = "insert"
  /\ table' = [m \in Msg |-> table[m] + Count(batch[w][t], m)]
  /\ batch' = [batch EXCEPT ![w][t] = <<>>]
  /\ buf' = [buf EXCEPT ![w] = <<>>]
  /\ Goto(w, t, AfterFlush(t))
  /\ UNCHANGED <<queueVars, loopVars, timer, lost, faults>>

InsertOk(w, t) ==
  /\ pc[w][t] = "insert"
  /\ table' = [m \in Msg |-> table[m] + Count(batch[w][t], m)]
  /\ batch' = [batch EXCEPT ![w][t] = <<>>]
  /\ Goto(w, t, AfterFlush(t))
  /\ UNCHANGED <<queueVars, loopVars, buf, timer, lost, faults>>

\* The insert fails, having written some of the rows (one part per day, no
\* transaction), and the batch is dropped.  Only the consumer's Flush runs
\* under the context main cancels.
InsertFail(w, t) ==
  /\ pc[w][t] = "insert"
  /\ \/ t = "consumer" /\ Cancelled(w) /\ UNCHANGED faults
     \/ Inject("insertFail")
  /\ \E written \in SUBSET DOMAIN batch[w][t] :
       /\ table' = [m \in Msg |-> table[m] + Cardinality(written \cap Where(batch[w][t], m))]
       /\ lost' = lost \cup {batch[w][t][i] : i \in DOMAIN batch[w][t] \ written}
  /\ batch' = [batch EXCEPT ![w][t] = <<>>]
  /\ Goto(w, t, AfterError(t))
  /\ UNCHANGED <<queueVars, loopVars, buf, timer>>

\* The one-shot timer expires and its callback starts in a goroutine.
TimerFire(w, t) ==
  /\ timer[w] = "armed"
  /\ pc[w][t] = "idle"
  /\ timer' = [timer EXCEPT ![w] = "idle"]
  /\ Goto(w, t, "flush")
  /\ UNCHANGED <<queueVars, loopVars, buf, batch, tableVars, faults>>

----------------------------------------------------------------------------
(* The process: signal handler, end, crash, restart.                       *)

\* SIGTERM: worker.Stop, whose first call is Flush.
Signal(w) ==
  /\ Up(w)
  /\ pc[w]["stopper"] = "idle"
  /\ Inject("signal")
  /\ Goto(w, "stopper", "flush")
  /\ UNCHANGED <<queueVars, loopVars, batchVars, tableVars>>

StopTimer(w) ==
  /\ pc[w]["stopper"] = "stopTimer"
  /\ timer' = [timer EXCEPT ![w] = "idle"]
  /\ Goto(w, "stopper", "cancel")
  /\ UNCHANGED <<queueVars, loopVars, buf, batch, tableVars, faults>>

Cancel(w) ==
  /\ pc[w]["stopper"] = "cancel"
  /\ Goto(w, "stopper", "done")
  /\ UNCHANGED <<queueVars, loopVars, batchVars, tableVars, faults>>

\* The process is gone, and with it everything in its memory.
Die(w) ==
  /\ lost' = lost \cup {m \in Msg : InMemory(w, m)}
  /\ fetched' = [fetched EXCEPT ![w] = <<>>]
  /\ cur' = [cur EXCEPT ![w] = NoMsg]
  /\ buf' = [buf EXCEPT ![w] = <<>>]
  /\ timer' = [timer EXCEPT ![w] = "idle"]
  /\ batch' = [batch EXCEPT ![w] = [t \in Thread |-> <<>>]]
  /\ pc' = [pc EXCEPT ![w] = [t \in Thread |->
              IF t = "consumer" THEN "down" ELSE "idle"]]
  /\ conn' = [conn EXCEPT ![w] = FALSE]
  /\ UNCHANGED <<queueVars, table>>

\* main returns as soon as Worker.Start does, whoever is still flushing.
Exit(w) ==
  /\ pc[w]["consumer"] = "returned"
  /\ Die(w)
  /\ UNCHANGED faults

Crash(w) ==
  /\ Up(w)
  /\ Inject("crash")
  /\ Die(w)

MutantStartIdle(w) ==   \* the timer is not started
  /\ ~Up(w)
  /\ conn' = [conn EXCEPT ![w] = TRUE]
  /\ Goto(w, "consumer", "top")
  /\ UNCHANGED <<queueVars, fetched, cur, batchVars, tableVars, faults>>

\* main up to Worker.Start: connect, NewBatcher (which arms the timer).
Start(w) ==
  /\ ~Up(w)
  /\ conn' = [conn EXCEPT ![w] = TRUE]
  /\ timer' = [timer EXCEPT ![w] = "armed"]
  /\ Goto(w, "consumer", "top")
  /\ UNCHANGED <<queueVars, fetched, cur, buf, batch, tableVars, faults>>

Disconnect(w) ==
  /\ Up(w) /\ conn[w]
  /\ Inject("disconnect")
  /\ conn' = [conn EXCEPT ![w] = FALSE]
  /\ UNCHANGED <<queueVars, fetched, cur, batchVars, pc, tableVars>>

\* The client reconnects by itself, unless its ten attempts were used up.
Reconnect(w) ==
  /\ Up(w) /\ ~conn[w]
  /\ conn' = [conn EXCEPT ![w] = TRUE]
  /\ UNCHANGED <<queueVars, fetched, cur, batchVars, pc, tableVars, faults>>

----------------------------------------------------------------------------
Init ==
  /\ stream = [m \in Msg |-> "none"]
  /\ deliveries = [m \in Msg |-> 0]
  /\ conn = [w \in Worker |-> FALSE]
  /\ fetched = [w \in Worker |-> <<>>]
  /\ cur = [w \in Worker |-> NoMsg]
  /\ buf = [w \in Worker |-> <<>>]
  /\ timer = [w \in Worker |-> "idle"]
  /\ pc = [w \in Worker |-> [t \in Thread |->
             IF t = "consumer" THEN "down" ELSE "idle"]]
  /\ batch = [w \in Worker |-> [t \in Thread |-> <<>>]]
  /\ table = [m \in Msg |-> 0]
  /\ lost = {}
  /\ faults = 0

Queue(m) == Publish(m) \/ AckWait(m) \/ Expire(m) \/ \E w \in Worker : Deliver(w, m)

Consume(w) == Top(w) \/ IterNext(w) \/ NextErr(w) \/ Add(w) \/ Ack(w) \/ Nak(w)

Flush(w, t) == Take(w, t) \/ InsertOk(w, t) \/ InsertFail(w, t)

Process(w) == \/ Signal(w) \/ StopTimer(w) \/ Cancel(w) \/ Exit(w) \/ Crash(w)
              \/ Start(w) \/ Disconnect(w) \/ Reconnect(w)

Next == \/ \E m \in Msg : Queue(m)
        \/ \E w \in Worker : \/ Consume(w)
                             \/ \E t \in Thread : Flush(w, t)
                             \/ \E t \in TimerRoutine : TimerFire(w, t)
                             \/ Process(w)

Spec == Init /\ [][Next]_vars

\* Goroutines that can run do run, ClickHouse answers, an armed timer expires,
\* JetStream delivers and redelivers, and processors get started.  No fault is
\* ever due, and nothing makes a client reconnect.
Fairness ==
  /\ \A m \in Msg : WF_vars(AckWait(m))
  /\ \A w \in Worker :
       /\ \A m \in Msg : WF_vars(Deliver(w, m))
       /\ WF_vars(Consume(w))
       /\ \A t \in Thread : WF_vars(Take(w, t) \/ InsertOk(w, t))
       /\ \A t \in TimerRoutine : WF_vars(TimerFire(w, t))
       /\ WF_vars(StopTimer(w)) /\ WF_vars(Cancel(w))
       /\ WF_vars(Exit(w)) /\ WF_vars(Start(w))

FairSpec == Spec /\ Fairness

----------------------------------------------------------------------------
(* Properties. *)

TypeOK ==
  /\ stream \in [Msg -> {"none", "ready", "pending", "acked", "aged"}]
  /\ deliveries \in [Msg -> Nat]
  /\ conn \in [Worker -> BOOLEAN]
  /\ fetched \in [Worker -> Seq(Msg)]
  /\ cur \in [Worker -> Msg \cup {NoMsg}]
  /\ buf \in [Worker -> Seq(Msg)]
  /\ timer \in [Worker -> {"armed", "idle"}]
  /\ pc \in [Worker -> [Thread -> AnyPC]]
  /\ \A w \in Worker, t \in Thread : pc[w][t] \in PCs(t)
  /\ batch \in [Worker -> [Thread -> Seq(Msg)]]
  /\ table \in [Msg -> Nat]
  /\ lost \subseteq Msg
  /\ faults \in 0..MaxFaults

\* Acknowledged data is somewhere.  worker.handle acks a message once Add has
\* returned, which may be before, during or after somebody else's flush of its
\* records; from then on the records are all in the table, still in the memory
\* of a processor, or were dropped by a failed insert or a process that ended.
\* No interleaving of the four goroutines loses them in any other way.
Accounted(m) == \/ table[m] >= Size[m]
                \/ m \in lost
                \/ \E w \in Worker : InMemory(w, m)

AckedAccounted == \A m \in Msg \ Bad : stream[m] = "acked" => Accounted(m)

\* A flush moves whole messages: neither a buffer nor a batch in flight ever
\* holds a part of one, so a failed insert is the only thing that can tear one.
WholeMessages ==
  \A w \in Worker, m \in Msg :
    /\ Count(buf[w], m) % Size[m] = 0
    /\ \A t \in Thread : Count(batch[w][t], m) % Size[m] = 0

\* Duplicates come from redelivery only: counting the rows in the table and the
\* records in every process' memory, a message delivered n times is there at
\* most n times.  Two goroutines never insert the same buffer.
HeldRecords(w, m) ==
  {<<w, "buf", i>> : i \in Where(buf[w], m)} \cup
  UNION {{<<w, t, i>> : i \in Where(batch[w][t], m)} : t \in Thread}

Copies(m) == table[m] + Cardinality(UNION {HeldRecords(w, m) : w \in Worker})

CopiesBounded == \A m \in Msg : Copies(m) <= deliveries[m] * Size[m]

\* A full buffer is being flushed: once Add has left MaxSize records behind,
\* the consumer itself is on its way into Flush, or somebody took them.
FullMeansFlushing ==
  \A w \in Worker : Len(buf[w]) >= MaxSize => pc[w]["consumer"] = "flush"

\* The interval flush never dies: until Stop disarms it, the one-shot timer is
\* armed, or a goroutine that has still to re-arm it is on its way into Flush.
TimerAlive ==
  \A w \in Worker :
    Up(w) /\ pc[w]["stopper"] \notin {"cancel", "done"} =>
      timer[w] = "armed" \/ \E t \in TimerRoutine : pc[w][t] = "flush"

\* Until the process is told to stop no record stays in a buffer for ever,
\* whatever fails: the interval flush takes it, or the process ends.
BufferDrains ==
  \A w \in Worker, m \in Msg :
    m \in Range(buf[w]) ~>
      m \notin Range(buf[w]) \/ pc[w]["stopper"] # "idle"

\* Every message published ends up in the table, however often it is handed out
\* again, unless a failed insert or the end of a process takes its records, the
\* stream lets it grow too old, a processor has lost its connection for good, or
\* one that was stopped and waits for its next message sits on the records.
PublishedStored ==
  \A m \in Msg \ Bad :
    stream[m] # "none" ~>
      \/ table[m] >= Size[m]
      \/ m \in lost \/ stream[m] = "aged"
      \/ \E w \in Worker : \/ Up(w) /\ ~conn[w]
                           \/ Cancelled(w) /\ InMemory(w, m)

(* Claims of comments that the code does not keep. *)

\* worker.go:54: Stop flushes any remaining buffered records, so that where there
\* is no other fault an acknowledged message is in the table, or a processor
\* still has its records.
AckedKept ==
  \A m \in Msg \ Bad :
    stream[m] = "acked" => table[m] >= Size[m] \/ \E w \in Worker : InMemory(w, m)

\* consumer.go:34: Start blocks until the context is cancelled.
StartReturns ==
  \A w \in Worker :
    Cancelled(w) ~> pc[w]["consumer"] \in {"returned", "down"}
=============================================================================
