----------------------------- MODULE AgentProofs -----------------------------
(* Machine-checked proofs about AgentPipeline, for every value of its constants. *)
EXTENDS AgentPipeline, TLAPS

\* The channels of a stage.
LEMMA StageLinks ==
  ASSUME NEW s \in Stage
  PROVE  From(s) \in Link /\ To(s) \in {"record", "enrich"} /\ To(s) \in Link
  BY DEF Stage, Link, From, To

\* What is received from a channel, and what remains.
LEMMA Received ==
  ASSUME NEW S, NEW q \in Seq(S), q # <<>>
  PROVE  Head(q) \in S /\ Tail(q) \in Seq(S) /\ Len(Tail(q)) = Len(q) - 1 /\ Len(q) \in Nat
  OBVIOUS

\* The records of a batch are records.
LEMMA RecordsOf ==
  ASSUME NEW q \in Seq(Nat)
  PROVE  Range(q) \subseteq Nat
  BY DEF Range

----------------------------------------------------------------------------
(* Type correctness: TypeOK is inductive. *)

LEMMA InputTyped ==
  ASSUME TypeOK, Input
  PROVE  TypeOK'
<1> USE DEF TypeOK, inputVars, stageVars, batchVars, sendVars
<1>1. CASE InputFail \/ InputStart \/ InputWait \/ InputClose
  BY <1>1 DEF InputFail, InputStart, InputWait, InputClose
<1>2. ASSUME NEW t \in Tailer, TailStart(t) \/ TailRead(t) \/ TailQuit(t)  PROVE TypeOK'
  BY <1>2, ZenonT(40) DEF TailStart, TailRead, TailQuit
<1>3. ASSUME NEW t \in Tailer, TailSend(t)  PROVE TypeOK'
  <2>1. entered' \in Nat /\ chan["raw"] \in Seq(Nat)
    BY <1>3 DEF TailSend, Link
  <2>2. Append(chan["raw"], entered') \in Seq(Nat)
    BY <2>1
  <2>3. chan' = [chan EXCEPT !["raw"] = Append(chan["raw"], entered')]
    BY <1>3 DEF TailSend
  <2>4. chan' \in [Link -> Seq(Nat)]
    BY <2>2, <2>3
  <2> QED  BY <1>3, <2>1, <2>4 DEF TailSend
<1> QED  BY <1>1, <1>2, <1>3 DEF Input

LEMMA StageTyped ==
  ASSUME TypeOK, NEW s \in Stage, Transform(s)
  PROVE  TypeOK'
<1> USE DEF TypeOK, inputVars, stageVars, batchVars, sendVars
<1>1. CASE StageRecv(s)
  <2>1. /\ Head(chan[From(s)]) \in Nat /\ Tail(chan[From(s)]) \in Seq(Nat)
        /\ From(s) \in Link
    BY <1>1, StageLinks, Received DEF StageRecv
  <2>2. <<Head(chan[From(s)])>> \in Seq(Nat)
    BY <2>1
  <2> QED  BY <1>1, <2>1, <2>2 DEF StageRecv
<1>2. CASE StageSend(s)
  <2>1. chan[To(s)] \o hold[s] \in Seq(Nat) /\ <<>> \in Seq(Nat)
    BY StageLinks
  <2> QED  BY <1>2, <2>1 DEF StageSend
<1>3. CASE StageQuit(s) \/ StageEnd(s)
  <2>1. <<>> \in Seq(Nat)
    OBVIOUS
  <2> QED  BY <1>3, <2>1, ZenonT(40) DEF StageQuit, StageEnd
<1> QED  BY <1>1, <1>2, <1>3 DEF Transform

LEMMA BatchTyped ==
  ASSUME TypeOK, Batch
  PROVE  TypeOK'
<1> USE DEF TypeOK, inputVars, stageVars, batchVars, sendVars
<1> DEFINE more == Append(buf, Head(chan["enrich"]))
<1>1. <<>> \in Seq(Nat) /\ "enrich" \in Link
  BY DEF Link
<1>2. chan["enrich"] # <<>> => more \in Seq(Nat) /\ Tail(chan["enrich"]) \in Seq(Nat)
  BY <1>1, Received
<1>3. CASE Receive
  BY <1>1, <1>2, <1>3 DEF Receive, ReceiveUpTo
<1>4. CASE DrainReceive
  BY <1>1, <1>2, <1>4 DEF DrainReceive
<1>5. CASE Tick \/ StartDrain
  BY <1>1, <1>5 DEF Tick, TickWhen, StartDrain
<1>6. CASE InputClosed \/ DrainEmpty
  BY <1>1, <1>6 DEF InputClosed, DrainEmpty, FlushAndReturn
<1>7. CASE FlushSend
  BY <1>1, <1>7 DEF FlushSend
<1> QED  BY <1>3, <1>4, <1>5, <1>6, <1>7 DEF Batch

LEMMA ExportTyped ==
  ASSUME TypeOK, Export
  PROVE  TypeOK'
<1> USE DEF TypeOK, inputVars, stageVars, batchVars, sendVars
<1>1. <<>> \in Seq(Nat) /\ Range(sending) \subseteq Nat /\ 0 \in 0..MaxRetries
  BY RecordsOf, RetryAssumption
<1>2. CASE ExportRecv
  <2>1. Head(batchq) \in Seq(Nat) /\ Tail(batchq) \in Seq(Seq(Nat))
    BY <1>2, Received DEF ExportRecv
  <2> QED  BY <1>1, <1>2, <2>1 DEF ExportRecv, NextCall
<1>3. CASE CallOk \/ GiveUp
  BY <1>1, <1>3 DEF CallOk, GiveUp, SendReturns
<1>4. CASE CallFail
  <2>1. accepted' \subseteq Nat
    BY <1>1, <1>4 DEF CallFail, CallFailIf
  <2>2. CASE attempt < MaxRetries
    <3>1. attempt' = attempt + 1 /\ exporter' = "backoff" /\ UNCHANGED <<sending, settled>>
      BY <1>4, <2>2 DEF CallFail, CallFailIf
    <3>2. attempt' \in 0..MaxRetries
      BY <2>2, <3>1, RetryAssumption
    <3> QED  BY <1>4, <2>1, <3>1, <3>2 DEF CallFail, CallFailIf
  <2>3. CASE ~(attempt < MaxRetries)
    BY <1>1, <1>4, <2>1, <2>3 DEF CallFail, CallFailIf, SendReturns
  <2> QED  BY <2>2, <2>3
<1>5. CASE Retry \/ ExportEnd
  BY <1>5 DEF Retry, NextCall, ExportEnd
<1> QED  BY <1>2, <1>3, <1>4, <1>5 DEF Export

LEMMA TypedStep ==
  ASSUME TypeOK, [Next]_vars
  PROVE  TypeOK'
<1>1. CASE Signal \/ Stopped
  BY <1>1 DEF Signal, Stopped, TypeOK, inputVars, stageVars, batchVars, sendVars
<1>2. CASE UNCHANGED vars
  BY <1>2 DEF TypeOK, vars, inputVars, stageVars, batchVars, sendVars
<1> QED  BY <1>1, <1>2, InputTyped, StageTyped, BatchTyped, ExportTyped DEF Next

LEMMA TypedInit == ASSUME Init  PROVE TypeOK
<1>1. <<>> \in Seq(Nat) /\ <<>> \in Seq(Seq(Nat)) /\ 0 \in 0..MaxRetries
  BY RetryAssumption
<1> QED  BY <1>1 DEF Init, TypeOK

\* The goroutines' variables and the channels are of their types: Send never makes more
\* than MaxRetries + 1 calls.
THEOREM AgentTypeCorrect == Spec => []TypeOK
<1>1. Init => TypeOK
  BY TypedInit
<1>2. TypeOK /\ [Next]_vars => TypeOK'
  BY TypedStep
<1> QED  BY <1>1, <1>2, PTL DEF Spec

----------------------------------------------------------------------------
(* NoSendOnClosed.  A channel is closed by the only goroutine, or after the     *)
(* last of the goroutines, that sends on it, on its way out.                   *)

Owned ==
  /\ input # "done" => "raw" \in open
  /\ \A t \in Tailer : tail[t] # "off" => input \in {"running", "waiting"}
  /\ \A s \in Stage : stage[s] # "done" => To(s) \in open
  /\ batcher # "done" => "batch" \in open

LEMMA OwnedStep ==
  ASSUME TypeOK, Owned, [Next]_vars
  PROVE  Owned'
<1> USE DEF TypeOK, Owned, inputVars, stageVars, batchVars, sendVars
<1>0. \A s \in Stage : To(s) \in {"record", "enrich"}
  BY StageLinks
<1>1. CASE InputFail
  BY <1>0, <1>1 DEF InputFail
<1>2. CASE InputStart \/ InputWait
  BY <1>2 DEF InputStart, InputWait
<1>3. CASE InputClose
  BY <1>0, <1>3 DEF InputClose
<1>4. ASSUME NEW t \in Tailer, TailStart(t) \/ TailRead(t) \/ TailSend(t) \/ TailQuit(t)
      PROVE  Owned'
  BY <1>4 DEF TailStart, TailRead, TailSend, TailQuit
<1>5. ASSUME NEW s \in Stage, StageRecv(s) \/ StageSend(s)  PROVE Owned'
  BY <1>5 DEF StageRecv, StageSend
<1>6. ASSUME NEW s \in Stage, StageQuit(s) \/ StageEnd(s)  PROVE Owned'
  <2>1. /\ stage' = [stage EXCEPT ![s] = "done"] /\ open' = open \ {To(s)}
        /\ UNCHANGED <<input, tail, batcher>>
    BY <1>6 DEF StageQuit, StageEnd
  <2>2. \A r \in Stage : r # s => To(r) # To(s)
    BY DEF Stage, To
  <2> QED  BY <1>0, <2>1, <2>2
<1>7. CASE Receive \/ DrainReceive \/ Tick \/ StartDrain
  BY <1>7 DEF Receive, ReceiveUpTo, DrainReceive, Tick, TickWhen, StartDrain
<1>8. CASE InputClosed \/ DrainEmpty \/ FlushSend
  BY <1>0, <1>8 DEF InputClosed, DrainEmpty, FlushAndReturn, FlushSend
<1>9. CASE Export
  BY <1>9 DEF Export, ExportRecv, CallOk, CallFail, CallFailIf, Retry, GiveUp, ExportEnd,
              SendReturns
<1>10. CASE Signal \/ Stopped \/ UNCHANGED vars
  BY <1>10 DEF Signal, Stopped, vars
<1> QED
  BY <1>1, <1>2, <1>3, <1>4, <1>5, <1>6, <1>7, <1>8, <1>9, <1>10
  DEF Next, Input, Transform, Batch

\* No goroutine ever sends on a closed channel, for any number of tailers and any sizes.
THEOREM AgentNoSendOnClosed == Spec => []NoSendOnClosed
<1>1. Init => TypeOK /\ Owned
  <2>1. \A s \in Stage : To(s) \in Link
    BY StageLinks
  <2>2. Init => Owned
    BY <2>1 DEF Init, Owned, Link
  <2> QED  BY <2>2, TypedInit
<1>2. TypeOK /\ Owned /\ [Next]_vars => TypeOK' /\ Owned'
  BY TypedStep, OwnedStep
<1>3. TypeOK /\ Owned => NoSendOnClosed
  BY DEF TypeOK, Owned, NoSendOnClosed
<1> QED  BY <1>1, <1>2, <1>3, PTL DEF Spec

----------------------------------------------------------------------------
(* BatchBound, and the bounds of what the agent holds. *)

\* ... where no batch is kept that is not sent.
Bounded ==
  /\ BatchBound
  /\ batcher \notin {"flush", "lastFlush"} => flushing = <<>>
  /\ batcher \notin {"select", "drain"} => buf = <<>>
  /\ batcher = "drain" => Cancelled
  /\ exporter \in {"recv", "done"} => sending = <<>>

\* The members of a sequence.
LEMMA MemberOf ==
  ASSUME NEW S, NEW q \in Seq(S)
  PROVE  /\ \A i \in 1..Len(q) : q[i] \in Range(q)
         /\ \A y \in Range(q) : \E i \in 1..Len(q) : y = q[i]
  BY DEF Range

LEMMA NothingLeft ==
  ASSUME NEW S, NEW q \in Seq(S), Len(q) = 0
  PROVE  q = <<>>
  OBVIOUS

LEMMA AppendedMembers ==
  ASSUME NEW S, NEW q \in Seq(S), NEW x \in S
  PROVE  Range(Append(q, x)) \subseteq Range(q) \cup {x}
<1> DEFINE r == Append(q, x)
<1>1. /\ r \in Seq(S) /\ Len(r) = Len(q) + 1 /\ r[Len(q) + 1] = x
      /\ \A i \in 1..Len(q) : r[i] = q[i]
  OBVIOUS
<1> SUFFICES ASSUME NEW y \in Range(r), y # x  PROVE y \in Range(q)
  OBVIOUS
<1>2. PICK i \in 1..Len(r) : y = r[i]
  BY <1>1, MemberOf
<1>3. i \in 1..Len(q)
  BY <1>1, <1>2
<1> QED  BY <1>1, <1>2, <1>3, MemberOf

\* A batch in the channel, or at the exporter.
QueuedFits ==
  /\ \A i \in DOMAIN batchq : Sized(batchq[i], i = Len(batchq) /\ batcher = "done")
  /\ exporter \in {"call", "dead", "backoff"} =>
       Sized(sending, batchq = <<>> /\ batcher = "done")
  /\ exporter \in {"recv", "done"} => sending = <<>>

\* A batch in the batcher.
FlushingFits ==
  /\ Len(buf) >= BatchSize => batcher = "drain"
  /\ batcher \in {"flush", "lastFlush"} => Sized(flushing, batcher = "lastFlush")
  /\ batcher \notin {"flush", "lastFlush"} => flushing = <<>>
  /\ batcher \notin {"select", "drain"} => buf = <<>>
  /\ batcher = "drain" => Cancelled

LEMMA BoundedParts == Bounded <=> QueuedFits /\ FlushingFits
  BY DEF Bounded, BatchBound, QueuedFits, FlushingFits

\* Neither part changes while its variables stay, and the batcher does not get done.
LEMMA QueuedKept ==
  ASSUME QueuedFits, UNCHANGED <<batchq, exporter, sending>>, Cancelled => Cancelled',
         batcher = "done" => batcher' = "done"
  PROVE  QueuedFits'
  BY DEF QueuedFits, Sized

LEMMA FlushingKept ==
  ASSUME FlushingFits, UNCHANGED <<batcher, buf, flushing>>, Cancelled => Cancelled'
  PROVE  FlushingFits'
  BY DEF FlushingFits, Sized

\* The batcher receives, or takes its buffer.
LEMMA BatcherFits ==
  ASSUME TypeOK, FlushingFits,
         Receive \/ Tick \/ InputClosed \/ StartDrain \/ DrainReceive \/ DrainEmpty
  PROVE  FlushingFits'
<1> USE BatchAssumption DEF TypeOK, FlushingFits
<1>1. Len(<<>>) = 0 /\ Len(buf) \in Nat /\ (buf = <<>> \/ Len(buf) >= 1)
  OBVIOUS
<1>2. Cancelled' <=> Cancelled
  BY DEF Receive, ReceiveUpTo, Tick, TickWhen, InputClosed, StartDrain, DrainReceive,
         DrainEmpty, FlushAndReturn, Cancelled
<1>3. CASE Receive
  <2> DEFINE more == Append(buf, Head(chan["enrich"]))
  <2>1. Head(chan["enrich"]) \in Nat
    BY <1>3, Received DEF Receive, ReceiveUpTo, Link
  <2>2. more \in Seq(Nat) /\ Len(more) = Len(buf) + 1 /\ Len(more) >= 1
    BY <1>1, <2>1
  <2>3. more # <<>>
    BY <1>1, <2>2
  <2>4. batcher = "select" /\ Len(more) <= BatchSize
    BY <1>1, <1>3, <2>2 DEF Receive, ReceiveUpTo
  <2>5. CASE Len(more) >= BatchSize
    BY <1>1, <1>3, <2>3, <2>4, <2>5 DEF Receive, ReceiveUpTo, Sized
  <2>6. CASE ~(Len(more) >= BatchSize)
    BY <1>3, <2>4, <2>6 DEF Receive, ReceiveUpTo
  <2> QED  BY <2>5, <2>6
<1>4. CASE Tick
  BY <1>1, <1>4 DEF Tick, TickWhen, Sized
<1>5. CASE InputClosed \/ DrainEmpty
  <2>1. FlushAndReturn /\ (Len(buf) >= BatchSize => Cancelled)
    BY <1>5 DEF InputClosed, DrainEmpty
  <2>2. CASE buf = <<>>
    <3>1. batcher' = "done" /\ buf' = <<>> /\ flushing' = <<>>
      BY <1>5, <2>1, <2>2 DEF FlushAndReturn, InputClosed, DrainEmpty
    <3> QED  BY <1>1, <3>1
  <2>3. CASE buf # <<>>
    <3>1. batcher' = "lastFlush" /\ buf' = <<>> /\ flushing' = buf
      BY <2>1, <2>3 DEF FlushAndReturn
    <3>2. Sized(flushing, batcher = "lastFlush")'
      BY <1>1, <1>2, <2>1, <2>3, <3>1 DEF Sized
    <3> QED  BY <1>1, <3>1, <3>2
  <2> QED  BY <2>2, <2>3
<1>6. CASE StartDrain \/ DrainReceive
  BY <1>2, <1>6 DEF StartDrain, DrainReceive
<1> QED  BY <1>3, <1>4, <1>5, <1>6

\* FlushSend: the batch goes behind the others, and is the last if there are no more.
LEMMA FlushSendFits ==
  ASSUME TypeOK, Bounded, FlushSend
  PROVE  Bounded'
<1>0. QueuedFits /\ FlushingFits
  BY BoundedParts
<1>1. /\ batchq \in Seq(Seq(Nat)) /\ flushing \in Seq(Nat) /\ batchq' = Append(batchq, flushing)
      /\ batcher \in {"flush", "lastFlush"} /\ flushing' = <<>>
      /\ batcher' = IF batcher = "flush" THEN "select" ELSE "done"
      /\ UNCHANGED <<main, buf, exporter, sending>>
  BY DEF FlushSend, TypeOK, sendVars
<1>2. /\ Len(batchq') = Len(batchq) + 1 /\ batchq'[Len(batchq) + 1] = flushing
      /\ \A i \in 1..Len(batchq) : batchq'[i] = batchq[i]
      /\ DOMAIN batchq' = 1..(Len(batchq) + 1) /\ DOMAIN batchq = 1..Len(batchq)
      /\ Len(batchq) \in Nat /\ batchq' # <<>>
  BY <1>1
<1>3. Cancelled' <=> Cancelled
  BY <1>1 DEF Cancelled
<1>4. ASSUME NEW i \in 1..(Len(batchq) + 1)
      PROVE  Sized(batchq[i], i = Len(batchq) /\ batcher = "done")'
  <2>1. CASE i \in 1..Len(batchq)
    <3>1. Sized(batchq[i], FALSE)
      BY <1>0, <1>1, <1>2, <2>1 DEF QueuedFits, Sized
    <3> QED  BY <1>2, <2>1, <3>1 DEF Sized
  <2>2. CASE i = Len(batchq) + 1
    <3>1. Sized(flushing, batcher = "lastFlush")
      BY <1>0, <1>1 DEF FlushingFits
    <3>2. batcher = "lastFlush" => i = Len(batchq') /\ batcher' = "done"
      BY <1>1, <1>2, <2>2
    <3> QED  BY <1>2, <1>3, <2>2, <3>1, <3>2 DEF Sized
  <2> QED  BY <1>2, <2>1, <2>2
<1>5. exporter' \in {"call", "dead", "backoff"} =>
        Sized(sending, batchq = <<>> /\ batcher = "done")'
  BY <1>0, <1>1 DEF QueuedFits, Sized
<1>6. QueuedFits'
  BY <1>0, <1>1, <1>2, <1>4, <1>5 DEF QueuedFits
<1>7. FlushingFits'
  <2>1. buf = <<>> /\ Len(<<>>) = 0 /\ BatchSize >= 1
    BY <1>0, <1>1, BatchAssumption DEF FlushingFits
  <2> QED  BY <1>1, <2>1, BatchAssumption DEF FlushingFits
<1> QED  BY <1>6, <1>7 DEF Bounded, BatchBound, QueuedFits, FlushingFits

\* ExportRecv: the front of the channel, and the last if it was the only one.
LEMMA ExportRecvFits ==
  ASSUME TypeOK, QueuedFits, ExportRecv
  PROVE  QueuedFits'
<1>1. /\ batchq \in Seq(Seq(Nat)) /\ batchq # <<>> /\ sending' = Head(batchq)
      /\ batchq' = Tail(batchq) /\ exporter' \in {"call", "dead"}
      /\ UNCHANGED <<main, batcher>>
  BY DEF ExportRecv, NextCall, TypeOK, batchVars
<1>2. /\ Len(batchq) \in Nat /\ Len(batchq) >= 1 /\ Head(batchq) = batchq[1]
      /\ Len(batchq') = Len(batchq) - 1 /\ batchq' \in Seq(Seq(Nat))
      /\ \A i \in 1..(Len(batchq) - 1) : batchq'[i] = batchq[i + 1]
      /\ DOMAIN batchq = 1..Len(batchq) /\ DOMAIN batchq' = 1..(Len(batchq) - 1)
  BY <1>1
<1>3. Cancelled' <=> Cancelled
  BY <1>1 DEF Cancelled
<1>4. ASSUME NEW i \in 1..(Len(batchq) - 1)
      PROVE  Sized(batchq[i], i = Len(batchq) /\ batcher = "done")'
  <2>1. i + 1 \in 1..Len(batchq)
    BY <1>2
  <2>2. Sized(batchq[i + 1], i + 1 = Len(batchq) /\ batcher = "done")
    BY <1>2, <2>1 DEF QueuedFits
  <2>3. i + 1 = Len(batchq) => i = Len(batchq')
    BY <1>2
  <2> QED  BY <1>1, <1>2, <1>3, <2>2, <2>3 DEF Sized
<1>5. Sized(sending, batchq = <<>> /\ batcher = "done")'
  <2>1. 1 \in 1..Len(batchq)
    BY <1>2
  <2>2. Sized(batchq[1], 1 = Len(batchq) /\ batcher = "done")
    BY <1>2, <2>1 DEF QueuedFits
  <2>3. 1 = Len(batchq) => batchq' = <<>>
    <3>1. \A n, m \in Nat : m = n - 1 /\ 1 = n => m = 0
      OBVIOUS
    <3>2. batchq' \in Seq(Seq(Nat))
      BY <1>2
    <3>3. Len(batchq) \in Nat /\ Len(batchq') \in Nat /\ Len(batchq') = Len(batchq) - 1
      BY <1>2, <3>2
    <3>4. 1 = Len(batchq) => Len(batchq') = 0
      BY <3>1, <3>3
    <3> QED  BY <3>2, <3>4, NothingLeft
  <2> QED  BY <1>1, <1>2, <1>3, <2>2, <2>3 DEF Sized
<1> QED  BY <1>1, <1>2, <1>4, <1>5 DEF QueuedFits

LEMMA BoundedStep ==
  ASSUME TypeOK, Bounded, [Next]_vars
  PROVE  Bounded'
<1> USE DEF inputVars, stageVars, batchVars, sendVars
<1>0. QueuedFits /\ FlushingFits
  BY BoundedParts
<1>1. SUFFICES QueuedFits' /\ FlushingFits'
  BY DEF Bounded, BatchBound, QueuedFits, FlushingFits
<1>2. Cancelled => Cancelled'
  BY DEF Next, Input, InputFail, InputStart, InputWait, InputClose, TailStart, TailRead,
         TailSend, TailQuit, Transform, StageRecv, StageSend, StageQuit, StageEnd, Batch,
         Receive, ReceiveUpTo, Tick, TickWhen, InputClosed, StartDrain, DrainReceive,
         DrainEmpty, FlushAndReturn, FlushSend, Export, ExportRecv, CallOk, CallFail,
         CallFailIf, Retry, GiveUp, ExportEnd, Signal, Stopped, vars, Cancelled
<1>3. CASE Input \/ (\E s \in Stage : Transform(s)) \/ Signal \/ Stopped \/ UNCHANGED vars
  <2>1. UNCHANGED <<batchVars, batchq, exporter, sending>>
    BY <1>3 DEF Input, InputFail, InputStart, InputWait, InputClose, TailStart, TailRead,
                TailSend, TailQuit, Transform, StageRecv, StageSend, StageQuit, StageEnd,
                Signal, Stopped, vars
  <2> QED  BY <1>0, <1>2, <2>1, QueuedKept, FlushingKept
<1>4. CASE Receive \/ Tick \/ InputClosed \/ StartDrain \/ DrainReceive \/ DrainEmpty
  <2>1. UNCHANGED <<batchq, exporter, sending>> /\ batcher # "done"
    BY <1>4 DEF Receive, ReceiveUpTo, Tick, TickWhen, InputClosed, StartDrain, DrainReceive,
                DrainEmpty, FlushAndReturn
  <2> QED  BY <1>0, <1>2, <1>4, <2>1, QueuedKept, BatcherFits
<1>5. CASE FlushSend
  BY <1>5, BoundedParts, FlushSendFits DEF Bounded, BatchBound, QueuedFits, FlushingFits
<1>6. CASE ExportRecv
  <2>1. UNCHANGED batchVars
    BY <1>6 DEF ExportRecv
  <2> QED  BY <1>0, <1>2, <1>6, <2>1, ExportRecvFits, FlushingKept
<1>7. CASE CallOk \/ CallFail \/ Retry \/ GiveUp \/ ExportEnd
  <2>1. /\ UNCHANGED <<main, batchVars, batchq>>
        /\ \/ sending' = <<>> /\ exporter' \in {"recv", "done"}
           \/ /\ exporter \in {"call", "dead", "backoff"} /\ UNCHANGED sending
              /\ exporter' \in {"call", "dead", "backoff"}
    BY <1>0, <1>7 DEF QueuedFits, CallOk, CallFail, CallFailIf, Retry, NextCall, GiveUp,
                      ExportEnd, SendReturns
  <2>2. FlushingFits'
    BY <1>0, <1>2, <2>1, FlushingKept
  <2>3. QueuedFits'
    BY <1>0, <1>2, <2>1 DEF QueuedFits, Sized
  <2> QED  BY <2>2, <2>3
<1> QED
  BY <1>3, <1>4, <1>5, <1>6, <1>7 DEF Next, Batch, Export

\* BatchBound, for any number of tailers and any sizes: no batch that is sent, queued or
\* about to be is empty, and none is larger than batch_size, but for one that a shutdown
\* drains into, which is the last.
THEOREM AgentBatchBound == Spec => []BatchBound
<1>1. Init => TypeOK /\ Bounded
  <2>1. Len(<<>>) = 0 /\ DOMAIN <<>> = {}
    OBVIOUS
  <2>2. Init => Bounded
    BY <2>1, BatchAssumption DEF Init, Bounded, BatchBound
  <2> QED  BY <2>2, TypedInit
<1>2. TypeOK /\ Bounded /\ [Next]_vars => TypeOK' /\ Bounded'
  BY TypedStep, BoundedStep
<1>3. Bounded => BatchBound
  BY DEF Bounded
<1> QED  BY <1>1, <1>2, <1>3, PTL DEF Spec

\* The channels, and what a stage has in hand, are bounded at all times, also while the
\* agent stops: a full channel blocks whoever sends on it.
MemoryBounded ==
  /\ \A c \in Link : Len(chan[c]) <= Cap[c]
  /\ Len(batchq) <= BatchCap
  /\ \A s \in Stage : hold[s] # <<>> => stage[s] = "send" /\ Len(hold[s]) = 1

LEMMA MemoryStep ==
  ASSUME TypeOK, MemoryBounded, [Next]_vars
  PROVE  MemoryBounded'
<1> USE CapAssumption DEF TypeOK, MemoryBounded, inputVars, stageVars, batchVars, sendVars
<1>1. CASE InputFail \/ InputStart \/ InputWait \/ InputClose
  BY <1>1 DEF InputFail, InputStart, InputWait, InputClose
<1>2. ASSUME NEW t \in Tailer, TailStart(t) \/ TailRead(t) \/ TailQuit(t)  PROVE MemoryBounded'
  BY <1>2 DEF TailStart, TailRead, TailQuit
<1>3. ASSUME NEW t \in Tailer, TailSend(t)  PROVE MemoryBounded'
  <2>1. /\ chan["raw"] \in Seq(Nat) /\ "raw" \in Link /\ entered' \in Nat
        /\ Len(chan["raw"]) < Cap["raw"] /\ Cap["raw"] \in Nat
    BY <1>3 DEF TailSend, Link
  <2>2. Len(Append(chan["raw"], entered')) <= Cap["raw"]
    BY <2>1
  <2> QED  BY <1>3, <2>1, <2>2 DEF TailSend
<1>4. ASSUME NEW s \in Stage, StageRecv(s)  PROVE MemoryBounded'
  <2>1. /\ Len(Tail(chan[From(s)])) = Len(chan[From(s)]) - 1 /\ Len(chan[From(s)]) \in Nat
        /\ From(s) \in Link /\ Cap[From(s)] \in Nat
    BY <1>4, StageLinks, Received DEF StageRecv
  <2>2. Len(Tail(chan[From(s)])) <= Cap[From(s)]
    BY <2>1
  <2>3. Len(<<Head(chan[From(s)])>>) = 1
    OBVIOUS
  <2>4. \A c \in Link : Len(chan'[c]) <= Cap[c]
    BY <1>4, <2>1, <2>2 DEF StageRecv
  <2> QED  BY <1>4, <2>3, <2>4 DEF StageRecv
<1>5. ASSUME NEW s \in Stage, StageSend(s)  PROVE MemoryBounded'
  <2>0. To(s) \in Link /\ Len(chan[To(s)]) < Cap[To(s)]
    BY <1>5, StageLinks DEF StageSend
  <2>1. /\ Cap[To(s)] \in Nat /\ chan[To(s)] \in Seq(Nat) /\ hold[s] \in Seq(Nat)
        /\ Len(hold[s]) \in Nat /\ Len(hold[s]) <= 1
    <3>1. Cap[To(s)] \in Nat /\ chan[To(s)] \in Seq(Nat) /\ hold[s] \in Seq(Nat)
      BY <2>0
    <3>2. CASE hold[s] = <<>>
      <4>1. Len(hold[s]) = 0
        BY <3>2
      <4> QED  BY <3>1, <4>1
    <3>3. CASE hold[s] # <<>>
      <4>1. Len(hold[s]) = 1
        BY <3>3
      <4> QED  BY <3>1, <4>1
    <3> QED  BY <3>2, <3>3
  <2>2. Len(chan[To(s)] \o hold[s]) <= Cap[To(s)]
    BY <2>0, <2>1
  <2>3. \A c \in Link : Len(chan'[c]) <= Cap[c]
    BY <1>5, <2>0, <2>1, <2>2 DEF StageSend
  <2> QED  BY <1>5, <2>3 DEF StageSend
<1>6. ASSUME NEW s \in Stage, StageQuit(s) \/ StageEnd(s)  PROVE MemoryBounded'
  BY <1>6 DEF StageQuit, StageEnd
<1>7. CASE Receive \/ DrainReceive
  <2>1. /\ Len(Tail(chan["enrich"])) = Len(chan["enrich"]) - 1 /\ Len(chan["enrich"]) \in Nat
        /\ "enrich" \in Link /\ Cap["enrich"] \in Nat
    BY <1>7, Received DEF Receive, ReceiveUpTo, DrainReceive, Link
  <2>2. chan' = [chan EXCEPT !["enrich"] = Tail(@)] /\ UNCHANGED <<batchq, stage, hold>>
    BY <1>7 DEF Receive, ReceiveUpTo, DrainReceive
  <2>3. \A c \in Link : Len(chan'[c]) <= Cap[c]
    BY <2>1, <2>2
  <2> QED  BY <2>2, <2>3
<1>8. CASE Tick \/ StartDrain \/ InputClosed \/ DrainEmpty
  BY <1>8 DEF Tick, TickWhen, StartDrain, InputClosed, DrainEmpty, FlushAndReturn
<1>9. CASE FlushSend
  <2>1. Len(Append(batchq, flushing)) <= BatchCap
    BY <1>9 DEF FlushSend
  <2> QED  BY <1>9, <2>1 DEF FlushSend
<1>10. CASE ExportRecv
  <2>1. Len(Tail(batchq)) = Len(batchq) - 1 /\ Len(batchq) \in Nat
    BY <1>10, Received DEF ExportRecv
  <2> QED  BY <1>10, <2>1 DEF ExportRecv
<1>11. CASE CallOk \/ CallFail \/ Retry \/ GiveUp \/ ExportEnd
  BY <1>11 DEF CallOk, CallFail, CallFailIf, Retry, GiveUp, ExportEnd, SendReturns
<1>12. CASE Signal \/ Stopped \/ UNCHANGED vars
  BY <1>12 DEF Signal, Stopped, vars
<1> QED
  BY <1>1, <1>2, <1>3, <1>4, <1>5, <1>6, <1>7, <1>8, <1>9, <1>10, <1>11, <1>12
  DEF Next, Input, Transform, Batch, Export

\* What the agent holds between its stages never outgrows the channels.
THEOREM AgentMemoryBounded == Spec => []MemoryBounded
<1>1. Init => TypeOK /\ MemoryBounded
  <2>1. Init => MemoryBounded
    BY CapAssumption DEF Init, MemoryBounded
  <2> QED  BY <2>1, TypedInit
<1>2. TypeOK /\ MemoryBounded /\ [Next]_vars => TypeOK' /\ MemoryBounded'
  BY TypedStep, MemoryStep
<1> QED  BY <1>1, <1>2, PTL DEF Spec
=============================================================================
