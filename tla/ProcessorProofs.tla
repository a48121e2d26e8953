-------------------------- MODULE ProcessorProofs --------------------------
(* Machine-checked proofs about Processor, for every value of its constants. *)
EXTENDS Processor, FiniteSetTheorems, SequenceTheorems, TLAPS

----------------------------------------------------------------------------
(* Sequences of records. *)

\* What Add appends is a sequence of Size[m] records of m.
LEMMA PayloadSeq ==
  ASSUME NEW m \in Msg
  PROVE  /\ Payload(m) \in Seq(Msg)
         /\ Len(Payload(m)) = Size[m]
         /\ Size[m] \in Nat \ {0}
         /\ \A i \in 1..Size[m] : Payload(m)[i] = m
  BY MsgAssumption DEF Payload

\* The records of one message in a batch can be counted.
LEMMA CountType ==
  ASSUME NEW b \in Seq(Msg), NEW m
  PROVE  /\ IsFiniteSet(Where(b, m))
         /\ Count(b, m) \in Nat
<1>1. Where(b, m) \subseteq 1..Len(b)
  BY LenProperties DEF Where
<1>2. IsFiniteSet(1..Len(b))
  BY FS_Interval, LenProperties
<1>3. IsFiniteSet(Where(b, m))
  BY <1>1, <1>2, FS_Subset
<1> QED  BY <1>3, FS_CardinalityType DEF Count

\* The positions a payload occupies.
LEMMA IntervalSize ==
  ASSUME NEW a \in Nat, NEW k \in Nat
  PROVE  Cardinality((a + 1)..(a + k)) = k
<1>1. a + 1 \in Int /\ a + k \in Int
  OBVIOUS
<1>2. Cardinality((a + 1)..(a + k)) = IF a + 1 > a + k THEN 0 ELSE (a + k) - (a + 1) + 1
  BY <1>1, FS_Interval
<1> QED  BY <1>2

\* Appending a payload adds Size[m] records of m and none of another.
LEMMA CountConcat ==
  ASSUME NEW b \in Seq(Msg), NEW m \in Msg, NEW n \in Msg
  PROVE  /\ b \o Payload(m) \in Seq(Msg)
         /\ Count(b \o Payload(m), n) = Count(b, n) + (IF n = m THEN Size[m] ELSE 0)
<1> DEFINE p == Payload(m)
           c == b \o p
           new == IF n = m THEN (Len(b) + 1)..(Len(b) + Size[m]) ELSE {}
<1>1. /\ p \in Seq(Msg) /\ Len(p) = Size[m] /\ Size[m] \in Nat \ {0}
      /\ \A i \in 1..Size[m] : p[i] = m
  BY PayloadSeq
<1>2. Len(b) \in Nat /\ DOMAIN b = 1..Len(b)
  BY LenProperties
<1>3. /\ c \in Seq(Msg)
      /\ Len(c) = Len(b) + Len(p)
      /\ \A i \in 1..Len(b) + Len(p) : c[i] = IF i <= Len(b) THEN b[i] ELSE p[i - Len(b)]
  <2> HIDE DEF p
  <2> QED  BY <1>1, ConcatProperties
<1> HIDE DEF c, p
<1>4. DOMAIN c = 1..(Len(b) + Size[m])
  BY <1>1, <1>3, LenProperties
<1>5. \A i \in 1..(Len(b) + Size[m]) : c[i] = IF i <= Len(b) THEN b[i] ELSE m
  <2> TAKE i \in 1..(Len(b) + Size[m])
  <2>1. CASE i <= Len(b)
    BY <1>1, <1>3, <2>1
  <2>2. CASE ~(i <= Len(b))
    <3>1. i - Len(b) \in 1..Size[m]
      BY <1>1, <1>2, <2>2
    <3> QED  BY <1>1, <1>3, <2>2, <3>1
  <2> QED  BY <2>1, <2>2
<1>6. Where(c, n) = Where(b, n) \cup new /\ Where(b, n) \cap new = {}
  BY <1>1, <1>2, <1>4, <1>5 DEF Where
<1>7. /\ IsFiniteSet(Where(b, n)) /\ Count(b, n) \in Nat
      /\ IsFiniteSet(new) /\ Cardinality(new) = IF n = m THEN Size[m] ELSE 0
  <2>1. Len(b) + 1 \in Int /\ Len(b) + Size[m] \in Int
    BY <1>1, <1>2
  <2> QED  BY <1>1, <1>2, <2>1, CountType, IntervalSize, FS_Interval, FS_EmptySet
<1> HIDE DEF new
<1>8. Cardinality(Where(b, n) \cup new) = Cardinality(Where(b, n)) + Cardinality(new)
  <2>1. Cardinality(Where(b, n) \cup new)
          = Cardinality(Where(b, n)) + Cardinality(new) - Cardinality(Where(b, n) \cap new)
    BY <1>7, FS_Union
  <2>2. Cardinality(Where(b, n) \cap new) = 0
    BY <1>6, FS_EmptySet
  <2>3. Cardinality(Where(b, n)) \in Nat /\ Cardinality(new) \in Nat
    BY <1>7, FS_CardinalityType
  <2> QED  BY <2>1, <2>2, <2>3
<1>9. Count(c, n) = Count(b, n) + (IF n = m THEN Size[m] ELSE 0)
  BY <1>6, <1>7, <1>8 DEF Count
<1> QED  BY <1>3, <1>9 DEF c, p

\* A multiple of a message's size stays one when the size is added.
LEMMA Multiple ==
  ASSUME NEW a \in Nat, NEW s \in Nat \ {0}, a % s = 0
  PROVE  (a + s) % s = 0
<1> DEFINE q == a \div s
<1>1. q \in Int /\ a = (s * q) + (a % s)
  OBVIOUS
<1>2. a + s = s * (q + 1)
  <2> HIDE DEF q
  <2> QED  BY <1>1
<1>3. \A k \in Int : (s * k) % s = 0
  OBVIOUS
<1> HIDE DEF q
<1> QED  BY <1>1, <1>2, <1>3

\* The messages of a buffer after Add.
LEMMA RangeConcat ==
  ASSUME NEW b \in Seq(Msg), NEW m \in Msg
  PROVE  Range(b \o Payload(m)) = Range(b) \cup {m}
<1>1. Range(Payload(m)) = {m}
  <2>1. DOMAIN Payload(m) = 1..Size[m]
    BY DEF Payload
  <2>2. 1 \in 1..Size[m] /\ \A i \in 1..Size[m] : Payload(m)[i] = m
    BY PayloadSeq
  <2>3. \A x : x \in Range(Payload(m)) <=> x = m
    BY <2>1, <2>2, Zenon DEF Range
  <2> QED  BY <2>3
<1> QED  BY <1>1, PayloadSeq, RangeConcatenation

----------------------------------------------------------------------------
(* Type correctness.  TypeOK is not inductive: Add appends cur, so the       *)
(* consumer must be known to have a message once it is past iter.Next().     *)

CurOK ==
  \A w \in Worker :
    pc[w]["consumer"] \in {"add", "flush", "insert", "ack", "nak"} => cur[w] \in Msg

Typed == TypeOK /\ CurOK

\* The labels of a goroutine are labels.
LEMMA PCsType ==
  ASSUME NEW t \in Thread
  PROVE  PCs(t) \subseteq AnyPC
  BY DEF PCs, AnyPC

\* Goto moves one goroutine of one process.
Moved(w, t, label) ==
  /\ pc' \in [Worker -> [Thread -> AnyPC]]
  /\ \A v \in Worker, u \in Thread :
       pc'[v][u] = IF v = w /\ u = t THEN label ELSE pc[v][u]
  /\ \A v \in Worker, u \in Thread : pc'[v][u] \in PCs(u)

\* A goroutine that moves to a label of its own keeps pc typed.
LEMMA GotoMoves ==
  ASSUME TypeOK, NEW w \in Worker, NEW t \in Thread, NEW label \in PCs(t),
         Goto(w, t, label)
  PROVE  Moved(w, t, label)
<1>1. /\ pc \in [Worker -> [Thread -> AnyPC]]
      /\ \A v \in Worker, u \in Thread : pc[v][u] \in PCs(u)
  BY DEF TypeOK
<1>2. label \in AnyPC
  BY PCsType
<1>3. pc' = [pc EXCEPT ![w] = [pc[w] EXCEPT ![t] = label]]
  BY <1>1 DEF Goto
<1>4. [pc[w] EXCEPT ![t] = label] \in [Thread -> AnyPC]
  BY <1>1, <1>2
<1>5. pc' \in [Worker -> [Thread -> AnyPC]]
  BY <1>1, <1>3, <1>4
<1>6. \A v \in Worker, u \in Thread :
        pc'[v][u] = IF v = w /\ u = t THEN label ELSE pc[v][u]
  BY <1>1, <1>3, <1>4
<1> QED  BY <1>1, <1>5, <1>6 DEF Moved

\* The goroutines and the labels each of them can be at.
LEMMA Threads ==
  /\ "consumer" \in Thread /\ "stopper" \in Thread
  /\ PCs("consumer") = ConsumerPC
  /\ PCs("stopper") = StopperPC
  /\ \A t \in TimerRoutine : t \in Thread /\ PCs(t) = TimerPC /\ t \notin {"consumer", "stopper"}
  /\ \A t \in Thread : /\ t \in {"consumer", "stopper"} \/ t \in TimerRoutine
                       /\ "insert" \in PCs(t) /\ AfterFlush(t) \in PCs(t)
                       /\ AfterError(t) \in PCs(t)
  BY ThreadAssumption DEF Thread, PCs, ConsumerPC, StopperPC, TimerPC, AfterFlush, AfterError

\* The initial states are typed.
LEMMA TypedInit ==
  ASSUME Init
  PROVE  Typed
<1>1. \A t \in Thread : (IF t = "consumer" THEN "down" ELSE "idle") \in PCs(t)
  BY Threads DEF ConsumerPC, StopperPC, TimerPC
<1>2. /\ pc \in [Worker -> [Thread -> AnyPC]]
      /\ \A w \in Worker, t \in Thread : pc[w][t] \in PCs(t)
  BY <1>1, PCsType DEF Init
<1>3. \A w \in Worker : pc[w]["consumer"] = "down"
  BY Threads DEF Init
<1>4. /\ fetched \in [Worker -> Seq(Msg)] /\ buf \in [Worker -> Seq(Msg)]
      /\ batch \in [Worker -> [Thread -> Seq(Msg)]]
  BY DEF Init
<1>5. /\ cur \in [Worker -> Msg \cup {NoMsg}]
      /\ stream \in [Msg -> {"none", "ready", "pending", "acked", "aged"}]
      /\ deliveries \in [Msg -> Nat] /\ table \in [Msg -> Nat]
      /\ conn \in [Worker -> BOOLEAN] /\ timer \in [Worker -> {"armed", "idle"}]
  BY DEF Init
<1>6. faults \in 0..MaxFaults /\ lost \subseteq Msg
  BY FaultAssumption DEF Init
<1> QED  BY <1>2, <1>3, <1>4, <1>5, <1>6 DEF Typed, TypeOK, CurOK

\* The stream's steps keep the types.
LEMMA TypedQueue ==
  ASSUME Typed, NEW m \in Msg, Queue(m)
  PROVE  Typed'
<1> USE FaultAssumption DEF Typed, TypeOK, CurOK, loopVars, batchVars, tableVars, Inject
<1>1. CASE Publish(m)
  BY <1>1 DEF Publish
<1>2. CASE AckWait(m)
  BY <1>2 DEF AckWait
<1>3. CASE Expire(m)
  BY <1>3 DEF Expire
<1>4. ASSUME NEW w \in Worker, Deliver(w, m)
      PROVE  Typed'
  <2>1. Append(fetched[w], m) \in Seq(Msg)
    BY AppendProperties
  <2> QED  BY <1>4, <2>1 DEF Deliver
<1> QED  BY <1>1, <1>2, <1>3, <1>4 DEF Queue

\* The consumer loop keeps the types.
LEMMA TypedConsume ==
  ASSUME Typed, NEW w \in Worker, Consume(w)
  PROVE  Typed'
<1>0. /\ TypeOK /\ CurOK
      /\ "consumer" \in Thread /\ PCs("consumer") = ConsumerPC
  BY Threads DEF Typed
<1>1. CASE Top(w)
  <2>1. Moved(w, "consumer", IF Cancelled(w) THEN "returned" ELSE "next")
    BY <1>0, <1>1, GotoMoves DEF Top, ConsumerPC
  <2> QED
    BY <1>0, <1>1, <2>1, FaultAssumption
    DEF Top, Moved, Typed, TypeOK, CurOK, queueVars, loopVars, batchVars, tableVars, Inject
<1>2. CASE IterNext(w)
  <2>1. Moved(w, "consumer", IF Head(fetched[w]) \in Bad THEN "ack" ELSE "add")
    BY <1>0, <1>2, GotoMoves DEF IterNext, ConsumerPC
  <2>2. Head(fetched[w]) \in Msg /\ Tail(fetched[w]) \in Seq(Msg)
    BY <1>0, <1>2, HeadTailProperties DEF IterNext, TypeOK
  <2> QED
    BY <1>0, <1>2, <2>1, <2>2, FaultAssumption
    DEF IterNext, Moved, Typed, TypeOK, CurOK, queueVars, loopVars, batchVars, tableVars, Inject
<1>3. CASE NextErr(w)
  <2>1. Moved(w, "consumer", "top")
    BY <1>0, <1>3, GotoMoves DEF NextErr, ConsumerPC
  <2> QED
    BY <1>0, <1>3, <2>1, FaultAssumption
    DEF NextErr, Moved, Typed, TypeOK, CurOK, queueVars, loopVars, batchVars, tableVars, Inject
<1>4. CASE Add(w)
  <2>1. Moved(w, "consumer", IF Len(buf'[w]) >= MaxSize THEN "flush" ELSE "ack")
    BY <1>0, <1>4, GotoMoves DEF Add, ConsumerPC
  <2>2. buf[w] \o Payload(cur[w]) \in Seq(Msg)
    BY <1>0, <1>4, CountConcat DEF Add, TypeOK, CurOK
  <2> QED
    BY <1>0, <1>4, <2>1, <2>2, FaultAssumption
    DEF Add, Moved, Typed, TypeOK, CurOK, queueVars, loopVars, batchVars, tableVars, Inject
<1>5. CASE Ack(w)
  <2>1. Moved(w, "consumer", "top")
    BY <1>0, <1>5, GotoMoves DEF Ack, ConsumerPC
  <2>2. faults' \in 0..MaxFaults
    BY <1>0, <1>5, FaultAssumption DEF Ack, TypeOK, Inject
  <2>3. stream' \in [Msg -> {"none", "ready", "pending", "acked", "aged"}]
    BY <1>0, <1>5 DEF Ack, TypeOK
  <2> QED
    BY <1>0, <1>5, <2>1, <2>2, <2>3
    DEF Ack, Moved, Typed, TypeOK, CurOK, queueVars, loopVars, batchVars, tableVars, Inject
<1>6. CASE Nak(w)
  <2>1. Moved(w, "consumer", "top")
    BY <1>0, <1>6, GotoMoves DEF Nak, ConsumerPC
  <2> QED
    BY <1>0, <1>6, <2>1, FaultAssumption
    DEF Nak, Moved, Typed, TypeOK, CurOK, queueVars, loopVars, batchVars, tableVars, Inject
<1> QED  BY <1>1, <1>2, <1>3, <1>4, <1>5, <1>6 DEF Consume

\* Flush keeps the types: a batch is a sequence of messages, the table counts.
LEMMA TypedFlush ==
  ASSUME Typed, NEW w \in Worker, NEW t \in Thread, Flush(w, t)
  PROVE  Typed'
<1>0. /\ TypeOK /\ CurOK
      /\ "consumer" \in Thread /\ AfterFlush(t) \in PCs(t) /\ AfterError(t) \in PCs(t)
      /\ "insert" \in PCs(t)
      /\ AfterFlush("consumer") = "ack" /\ AfterError("consumer") = "nak"
  BY Threads DEF Typed, AfterFlush, AfterError
<1>1. CASE Take(w, t)
  <2>1. Moved(w, t, IF buf[w] = <<>> THEN AfterFlush(t) ELSE "insert")
    BY <1>0, <1>1, GotoMoves DEF Take, LockedPart
  <2>2. batch' \in [Worker -> [Thread -> Seq(Msg)]]
    BY <1>0, <1>1 DEF Take, LockedPart, TypeOK
  <2>3. CurOK'
    BY <1>0, <1>1, <2>1 DEF Take, LockedPart, Moved, CurOK, loopVars
  <2> QED
    BY <1>0, <1>1, <2>1, <2>2, <2>3
    DEF Take, LockedPart, Moved, Typed, TypeOK, queueVars, loopVars, tableVars
<1>2. CASE InsertOk(w, t)
  <2>1. Moved(w, t, AfterFlush(t))
    BY <1>0, <1>2, GotoMoves DEF InsertOk
  <2>2. batch' \in [Worker -> [Thread -> Seq(Msg)]]
    BY <1>0, <1>2 DEF InsertOk, TypeOK
  <2>3. CurOK'
    BY <1>0, <1>2, <2>1 DEF InsertOk, Moved, CurOK, loopVars
  <2>4. batch[w][t] \in Seq(Msg)
    BY <1>0 DEF TypeOK
  <2>5. table' \in [Msg -> Nat]
    BY <1>0, <1>2, <2>4, CountType DEF InsertOk, TypeOK
  <2> QED
    BY <1>0, <1>2, <2>1, <2>2, <2>3, <2>5
    DEF InsertOk, Moved, Typed, TypeOK, queueVars, loopVars
<1>3. CASE InsertFail(w, t)
  <2>1. Moved(w, t, AfterError(t))
    BY <1>0, <1>3, GotoMoves DEF InsertFail
  <2>2. batch' \in [Worker -> [Thread -> Seq(Msg)]]
    BY <1>0, <1>3 DEF InsertFail, TypeOK
  <2>3. CurOK'
    BY <1>0, <1>3, <2>1 DEF InsertFail, Moved, CurOK, loopVars
  <2>4. batch[w][t] \in Seq(Msg)
    BY <1>0 DEF TypeOK
  <2>5. PICK written \in SUBSET DOMAIN batch[w][t] :
          /\ table' = [m \in Msg |->
                         table[m] + Cardinality(written \cap Where(batch[w][t], m))]
          /\ lost' = lost \cup {batch[w][t][i] : i \in DOMAIN batch[w][t] \ written}
    BY <1>3 DEF InsertFail
  <2>6. \A m \in Msg : Cardinality(written \cap Where(batch[w][t], m)) \in Nat
    <3> TAKE m \in Msg
    <3>1. IsFiniteSet(Where(batch[w][t], m))
      BY <2>4, CountType
    <3>2. IsFiniteSet(written \cap Where(batch[w][t], m))
      BY <3>1, FS_Subset
    <3> QED  BY <3>2, FS_CardinalityType
  <2>7. table' \in [Msg -> Nat]
    <3>1. \A m \in Msg : table[m] \in Nat
      BY <1>0 DEF TypeOK
    <3>2. \A m \in Msg :
            table[m] + Cardinality(written \cap Where(batch[w][t], m)) \in Nat
      BY <2>6, <3>1
    <3> QED  BY <2>5, <3>2, Zenon
  <2>8. lost' \subseteq Msg
    BY <1>0, <2>4, <2>5, LenProperties, ElementOfSeq DEF TypeOK
  <2>9. faults' \in 0..MaxFaults
    BY <1>0, <1>3, FaultAssumption DEF InsertFail, TypeOK, Inject
  <2> QED
    BY <1>0, <1>3, <2>1, <2>2, <2>3, <2>7, <2>8, <2>9
    DEF InsertFail, Moved, Typed, TypeOK, queueVars, loopVars
<1> QED  BY <1>1, <1>2, <1>3 DEF Flush

\* A timer that fires keeps the types.
LEMMA TypedTimerFire ==
  ASSUME Typed, NEW w \in Worker, NEW t \in TimerRoutine, TimerFire(w, t)
  PROVE  Typed'
<1>1. /\ TypeOK /\ CurOK
      /\ t \in Thread /\ PCs(t) = TimerPC /\ t # "consumer" /\ "consumer" \in Thread
  BY Threads DEF Typed
<1>2. Moved(w, t, "flush")
  BY <1>1, GotoMoves DEF TimerFire, TimerPC
<1> QED
  BY <1>1, <1>2
  DEF TimerFire, Moved, Typed, TypeOK, CurOK, queueVars, loopVars, tableVars

\* A process that ends leaves a well-typed state behind.
LEMMA TypedDie ==
  ASSUME Typed, NEW w \in Worker, Die(w), faults' \in 0..MaxFaults
  PROVE  Typed'
<1>1. \A t \in Thread : (IF t = "consumer" THEN "down" ELSE "idle") \in PCs(t)
  BY Threads DEF ConsumerPC, StopperPC, TimerPC
<1>2. pc' \in [Worker -> [Thread -> AnyPC]]
  BY <1>1, PCsType DEF Die, Typed, TypeOK
<1>3. \A v \in Worker, u \in Thread : pc'[v][u] \in PCs(u)
  BY <1>1 DEF Die, Typed, TypeOK
<1>4. CurOK'
  BY Threads DEF Die, Typed, TypeOK, CurOK
<1>5. batch' \in [Worker -> [Thread -> Seq(Msg)]]
  BY DEF Die, Typed, TypeOK
<1> QED
  BY <1>2, <1>3, <1>4, <1>5 DEF Die, Typed, TypeOK, queueVars

\* Signals, ends, crashes and restarts of a process keep the types.
LEMMA TypedProcess ==
  ASSUME Typed, NEW w \in Worker, Process(w)
  PROVE  Typed'
<1>0. /\ TypeOK /\ CurOK
      /\ "consumer" \in Thread /\ PCs("consumer") = ConsumerPC
      /\ "stopper" \in Thread /\ PCs("stopper") = StopperPC
  BY Threads DEF Typed
<1>1. CASE Signal(w)
  <2>1. Moved(w, "stopper", "flush")
    BY <1>0, <1>1, GotoMoves DEF Signal, StopperPC
  <2>2. faults' \in 0..MaxFaults
    BY <1>0, <1>1, FaultAssumption DEF Signal, TypeOK, Inject
  <2> QED
    BY <1>0, <1>1, <2>1, <2>2
    DEF Signal, Moved, Typed, TypeOK, CurOK, queueVars, loopVars, batchVars, tableVars
<1>2. CASE StopTimer(w)
  <2>1. Moved(w, "stopper", "cancel")
    BY <1>0, <1>2, GotoMoves DEF StopTimer, StopperPC
  <2> QED
    BY <1>0, <1>2, <2>1
    DEF StopTimer, Moved, Typed, TypeOK, CurOK, queueVars, loopVars, tableVars
<1>3. CASE Cancel(w)
  <2>1. Moved(w, "stopper", "done")
    BY <1>0, <1>3, GotoMoves DEF Cancel, StopperPC
  <2> QED
    BY <1>0, <1>3, <2>1
    DEF Cancel, Moved, Typed, TypeOK, CurOK, queueVars, loopVars, batchVars, tableVars
<1>4. CASE Exit(w)
  BY <1>0, <1>4, TypedDie DEF Exit, TypeOK
<1>5. CASE Crash(w)
  BY <1>0, <1>5, TypedDie, FaultAssumption DEF Crash, TypeOK, Inject
<1>6. CASE Start(w)
  <2>1. Moved(w, "consumer", "top")
    BY <1>0, <1>6, GotoMoves DEF Start, ConsumerPC
  <2> QED
    BY <1>0, <1>6, <2>1
    DEF Start, Moved, Typed, TypeOK, CurOK, queueVars, tableVars
<1>7. CASE Disconnect(w)
  BY <1>0, <1>7, FaultAssumption
  DEF Disconnect, Typed, TypeOK, CurOK, queueVars, batchVars, tableVars, Inject
<1>8. CASE Reconnect(w)
  BY <1>0, <1>8
  DEF Reconnect, Typed, TypeOK, CurOK, queueVars, batchVars, tableVars
<1> QED  BY <1>1, <1>2, <1>3, <1>4, <1>5, <1>6, <1>7, <1>8 DEF Process

\* Typed is inductive.
LEMMA TypedNext ==
  ASSUME Typed, [Next]_vars
  PROVE  Typed'
<1>1. CASE UNCHANGED vars
  BY <1>1 DEF vars, Typed, TypeOK, CurOK
<1>2. CASE Next
  BY <1>2, TypedQueue, TypedConsume, TypedFlush, TypedTimerFire, TypedProcess DEF Next
<1> QED  BY <1>1, <1>2

\* Every variable keeps its type, and the consumer has a message whenever it is
\* about to append, insert, acknowledge or hand one back.
THEOREM TypeCorrect == Spec => []TypeOK
<1>1. Init => Typed
  BY TypedInit
<1>2. Typed /\ [Next]_vars => Typed'
  BY TypedNext
<1>3. Typed => TypeOK
  BY DEF Typed
<1> QED  BY <1>1, <1>2, <1>3, PTL DEF Spec

----------------------------------------------------------------------------
(* The buffer and the timer.  Both properties are inductive given the types. *)

\* What the step of one goroutine does to the labels of the others.
LEMMA GotoOthers ==
  ASSUME TypeOK, NEW w \in Worker, NEW t \in Thread, NEW label, Goto(w, t, label)
  PROVE  /\ pc'[w][t] = label
         /\ \A v \in Worker, u \in Thread : v # w \/ u # t => pc'[v][u] = pc[v][u]
  BY DEF TypeOK, Goto

\* Only Add makes a buffer longer, and it sends the consumer into Flush when full.
LEMMA FullStep ==
  ASSUME Typed, FullMeansFlushing, [Next]_vars
  PROVE  FullMeansFlushing'
<1>0. TypeOK /\ "consumer" \in Thread /\ "stopper" \in Thread
      /\ MaxSize > 0 /\ MaxSize \in Nat /\ Len(<<>>) = 0
  BY BatchAssumption, Threads, EmptySeq DEF Typed
<1>1. CASE UNCHANGED vars
  BY <1>1 DEF vars, FullMeansFlushing
<1>2. ASSUME NEW m \in Msg, Queue(m)
      PROVE  FullMeansFlushing'
  BY <1>2 DEF Queue, Publish, AckWait, Expire, Deliver, batchVars, FullMeansFlushing
<1>3. ASSUME NEW w \in Worker, Consume(w)
      PROVE  FullMeansFlushing'
  <2>1. CASE Add(w)
    <3>1. \A v \in Worker : v # w => buf'[v] = buf[v]
      BY <1>0, <2>1 DEF Add, TypeOK
    <3>2. /\ pc'[w]["consumer"] = IF Len(buf'[w]) >= MaxSize THEN "flush" ELSE "ack"
          /\ \A v \in Worker : v # w => pc'[v]["consumer"] = pc[v]["consumer"]
      BY <1>0, <2>1, GotoOthers DEF Add
    <3> QED  BY <3>1, <3>2 DEF FullMeansFlushing
  <2>2. CASE Top(w) \/ IterNext(w) \/ NextErr(w) \/ Ack(w) \/ Nak(w)
    <3>1. /\ buf' = buf /\ pc[w]["consumer"] # "flush"
          /\ \E label : Goto(w, "consumer", label)
      BY <2>2 DEF Top, IterNext, NextErr, Ack, Nak, batchVars
    <3> QED  BY <1>0, <3>1, GotoOthers DEF FullMeansFlushing
  <2> QED  BY <1>3, <2>1, <2>2 DEF Consume
<1>4. ASSUME NEW w \in Worker, NEW t \in Thread, Flush(w, t)
      PROVE  FullMeansFlushing'
  <2>1. CASE Take(w, t)
    <3>1. buf'[w] = <<>> /\ \A v \in Worker : v # w => buf'[v] = buf[v]
      BY <1>0, <2>1 DEF Take, LockedPart, TypeOK
    <3>2. \A v \in Worker : v # w => pc'[v]["consumer"] = pc[v]["consumer"]
      BY <1>0, <2>1, GotoOthers DEF Take, LockedPart
    <3> QED  BY <1>0, <3>1, <3>2 DEF FullMeansFlushing
  <2>2. CASE InsertOk(w, t) \/ InsertFail(w, t)
    <3>1. /\ buf' = buf /\ pc[w][t] = "insert"
          /\ \E label : Goto(w, t, label)
      BY <2>2 DEF InsertOk, InsertFail
    <3> QED  BY <1>0, <3>1, GotoOthers DEF FullMeansFlushing
  <2> QED  BY <1>4, <2>1, <2>2 DEF Flush
<1>5. ASSUME NEW w \in Worker, NEW t \in TimerRoutine, TimerFire(w, t)
      PROVE  FullMeansFlushing'
  BY <1>0, <1>5, GotoOthers, Threads DEF TimerFire, FullMeansFlushing
<1>6. ASSUME NEW w \in Worker, Process(w)
      PROVE  FullMeansFlushing'
  <2>1. CASE Exit(w) \/ Crash(w)
    <3>1. buf'[w] = <<>> /\ \A v \in Worker : v # w => buf'[v] = buf[v]
      BY <1>0, <2>1 DEF Exit, Crash, Die, TypeOK
    <3>2. \A v \in Worker : v # w => pc'[v]["consumer"] = pc[v]["consumer"]
      BY <1>0, <2>1 DEF Exit, Crash, Die, TypeOK
    <3> QED  BY <1>0, <3>1, <3>2 DEF FullMeansFlushing
  <2>2. CASE Signal(w) \/ StopTimer(w) \/ Cancel(w)
    BY <1>0, <2>2, GotoOthers DEF Signal, StopTimer, Cancel, batchVars, FullMeansFlushing
  <2>3. CASE Start(w)
    BY <1>0, <2>3, GotoOthers DEF Start, Up, FullMeansFlushing
  <2>4. CASE Disconnect(w) \/ Reconnect(w)
    BY <2>4 DEF Disconnect, Reconnect, batchVars, FullMeansFlushing
  <2> QED  BY <1>6, <2>1, <2>2, <2>3, <2>4 DEF Process
<1> QED  BY <1>1, <1>2, <1>3, <1>4, <1>5, <1>6 DEF Next

\* A buffer never stays full: whoever interleaves with the consumer, MaxSize
\* records in the buffer mean that the consumer is on its way to take them.
THEOREM BufferBounded == Spec => []FullMeansFlushing
<1>1. Init => Typed /\ FullMeansFlushing
  BY TypedInit, BatchAssumption, EmptySeq DEF Init, FullMeansFlushing
<1>2. Typed /\ FullMeansFlushing /\ [Next]_vars => (Typed /\ FullMeansFlushing)'
  BY TypedNext, FullStep
<1> QED  BY <1>1, <1>2, PTL DEF Spec

\* Whoever disarms the timer re-arms it in the Flush that follows, Stop excepted.
LEMMA TimerStep ==
  ASSUME Typed, TimerAlive, [Next]_vars
  PROVE  TimerAlive'
<1>0. /\ TypeOK /\ "consumer" \in Thread /\ "stopper" \in Thread
      /\ TimerRoutine \subseteq Thread
      /\ "consumer" \notin TimerRoutine /\ "stopper" \notin TimerRoutine
  BY Threads DEF Typed
<1>1. CASE UNCHANGED vars
  BY <1>1 DEF vars, TimerAlive, Up
<1>2. ASSUME NEW m \in Msg, Queue(m)
      PROVE  TimerAlive'
  BY <1>2 DEF Queue, Publish, AckWait, Expire, Deliver, batchVars, TimerAlive, Up
<1>3. ASSUME NEW w \in Worker, Consume(w)
      PROVE  TimerAlive'
  <2>1. /\ timer' = timer /\ pc[w]["consumer"] # "down"
        /\ \E label : Goto(w, "consumer", label)
    BY <1>3 DEF Consume, Top, IterNext, NextErr, Add, Ack, Nak, batchVars
  <2> QED  BY <1>0, <2>1, GotoOthers DEF TimerAlive, Up
<1>4. ASSUME NEW w \in Worker, NEW t \in Thread, Flush(w, t)
      PROVE  TimerAlive'
  <2>1. CASE Take(w, t)
    <3>1. timer'[w] = "armed" /\ \A v \in Worker : v # w => timer'[v] = timer[v]
      BY <1>0, <2>1 DEF Take, LockedPart, TypeOK
    <3>2. \A v \in Worker, u \in Thread : v # w => pc'[v][u] = pc[v][u]
      BY <1>0, <2>1, GotoOthers DEF Take, LockedPart
    <3> QED  BY <1>0, <3>1, <3>2 DEF TimerAlive, Up
  <2>2. CASE InsertOk(w, t) \/ InsertFail(w, t)
    <3>1. /\ timer' = timer /\ pc[w][t] = "insert"
          /\ \E label : label # "cancel" /\ Goto(w, t, label)
      BY <2>2 DEF InsertOk, InsertFail, AfterFlush, AfterError
    <3> QED  BY <1>0, <3>1, GotoOthers DEF TimerAlive, Up
  <2> QED  BY <1>4, <2>1, <2>2 DEF Flush
<1>5. ASSUME NEW w \in Worker, NEW t \in TimerRoutine, TimerFire(w, t)
      PROVE  TimerAlive'
  <2>1. \A v \in Worker : v # w => timer'[v] = timer[v]
    BY <1>0, <1>5 DEF TimerFire, TypeOK
  <2>2. /\ pc'[w][t] = "flush"
        /\ \A v \in Worker, u \in Thread : v # w => pc'[v][u] = pc[v][u]
    BY <1>0, <1>5, GotoOthers DEF TimerFire
  <2> QED  BY <1>0, <2>1, <2>2 DEF TimerAlive, Up
<1>6. ASSUME NEW w \in Worker, Process(w)
      PROVE  TimerAlive'
  <2>1. CASE Exit(w) \/ Crash(w)
    <3>1. \A v \in Worker : v # w => timer'[v] = timer[v]
      BY <1>0, <2>1 DEF Exit, Crash, Die, TypeOK
    <3>2. /\ pc'[w]["consumer"] = "down"
          /\ \A v \in Worker, u \in Thread : v # w => pc'[v][u] = pc[v][u]
      BY <1>0, <2>1 DEF Exit, Crash, Die, TypeOK
    <3> QED  BY <1>0, <3>1, <3>2 DEF TimerAlive, Up
  <2>2. CASE Signal(w)
    BY <1>0, <2>2, GotoOthers DEF Signal, batchVars, TimerAlive, Up
  <2>3. CASE StopTimer(w) \/ Cancel(w)
    <3>1. \A v \in Worker : v # w => timer'[v] = timer[v]
      BY <1>0, <2>3 DEF StopTimer, Cancel, batchVars, TypeOK
    <3>2. /\ pc'[w]["stopper"] \in {"cancel", "done"}
          /\ \A v \in Worker, u \in Thread : v # w => pc'[v][u] = pc[v][u]
      BY <1>0, <2>3, GotoOthers DEF StopTimer, Cancel
    <3> QED  BY <1>0, <3>1, <3>2 DEF TimerAlive, Up
  <2>4. CASE Start(w)
    <3>1. timer'[w] = "armed" /\ \A v \in Worker : v # w => timer'[v] = timer[v]
      BY <1>0, <2>4 DEF Start, TypeOK
    <3>2. \A v \in Worker, u \in Thread : v # w => pc'[v][u] = pc[v][u]
      BY <1>0, <2>4, GotoOthers DEF Start
    <3> QED  BY <1>0, <3>1, <3>2 DEF TimerAlive, Up
  <2>5. CASE Disconnect(w) \/ Reconnect(w)
    BY <2>5 DEF Disconnect, Reconnect, batchVars, TimerAlive, Up
  <2> QED  BY <1>6, <2>1, <2>2, <2>3, <2>4, <2>5 DEF Process
<1> QED  BY <1>1, <1>2, <1>3, <1>4, <1>5, <1>6 DEF Next

\* The interval flush never dies: whichever goroutines call Flush and in
\* whatever order, the one-shot timer is armed or about to be re-armed for as
\* long as the process runs and Stop has not disarmed it.
THEOREM IntervalFlushLives == Spec => []TimerAlive
<1>1. Init => Typed /\ TimerAlive
  BY TypedInit, Threads DEF Init, TimerAlive, Up
<1>2. Typed /\ TimerAlive /\ [Next]_vars => (Typed /\ TimerAlive)'
  BY TypedNext, TimerStep
<1> QED  BY <1>1, <1>2, PTL DEF Spec

----------------------------------------------------------------------------
(* Acknowledged data is somewhere.  AckedAccounted needs three facts: a      *)
(* goroutine that is not inserting has no batch in hand (so Take overwrites  *)
(* nothing), a message in a buffer or a batch is there completely (so an     *)
(* insert stores all of it), and the message the consumer is about to        *)
(* acknowledge is accounted for, wherever its records have got to since Add. *)

Whole(b) == \A m \in Msg : Count(b, m) % Size[m] = 0

HandsEmpty == \A w \in Worker, t \in Thread : pc[w][t] # "insert" => batch[w][t] = <<>>

WholeBatches == \A w \in Worker : Whole(buf[w]) /\ \A t \in Thread : Whole(batch[w][t])

PastAdd(w) == \/ pc[w]["consumer"] \in {"flush", "insert"}
              \/ pc[w]["consumer"] = "ack" /\ cur[w] \notin Bad

LoopAccounted == \A w \in Worker : PastAdd(w) => Accounted(cur[w])

AckInv == Typed /\ HandsEmpty /\ WholeBatches /\ LoopAccounted /\ AckedAccounted

\* An empty buffer holds nothing in part.
LEMMA WholeEmpty == Whole(<<>>) /\ Range(<<>>) = {}
<1>1. ASSUME NEW m \in Msg
      PROVE  Count(<<>>, m) % Size[m] = 0
  <2>1. Where(<<>>, m) = {}
    BY DEF Where
  <2>2. Count(<<>>, m) = 0
    BY <2>1, FS_EmptySet DEF Count
  <2> QED  BY <2>2, PayloadSeq
<1>2. Range(<<>>) = {}
  BY DEF Range
<1> QED  BY <1>1, <1>2 DEF Whole

\* Add keeps the messages of a buffer complete.
LEMMA WholeAdd ==
  ASSUME NEW b \in Seq(Msg), NEW m \in Msg, Whole(b)
  PROVE  Whole(b \o Payload(m))
<1> SUFFICES ASSUME NEW n \in Msg
             PROVE  Count(b \o Payload(m), n) % Size[n] = 0
  BY DEF Whole
<1>1. /\ Count(b \o Payload(m), n) = Count(b, n) + (IF n = m THEN Size[m] ELSE 0)
      /\ Count(b, n) \in Nat /\ Size[n] \in Nat \ {0}
      /\ Count(b, n) % Size[n] = 0
  BY CountConcat, CountType, PayloadSeq DEF Whole
<1>2. CASE n = m
  <2>1. Count(b \o Payload(m), n) = Count(b, n) + Size[n]
    BY <1>1, <1>2
  <2> QED  BY <1>1, <2>1, Multiple
<1>3. CASE n # m
  BY <1>1, <1>3
<1> QED  BY <1>2, <1>3

\* A message that is in a buffer without a part missing is there completely.
LEMMA WholePresent ==
  ASSUME NEW b \in Seq(Msg), Whole(b), NEW m \in Msg, m \in Range(b)
  PROVE  Count(b, m) >= Size[m]
<1>1. /\ Count(b, m) \in Nat /\ Size[m] \in Nat \ {0} /\ Count(b, m) % Size[m] = 0
      /\ IsFiniteSet(Where(b, m))
  BY CountType, PayloadSeq DEF Whole
<1>2. Where(b, m) # {}
  BY DEF Where, Range
<1>3. Count(b, m) # 0
  BY <1>1, <1>2, FS_EmptySet DEF Count
<1>4. \A a \in Nat, k \in Nat \ {0} : a < k => a % k = a
  OBVIOUS
<1> QED  BY <1>1, <1>3, <1>4

\* Steps that touch neither the memory of a process nor the table.
LEMMA AccountedFrame ==
  ASSUME NEW m, Accounted(m), UNCHANGED <<buf, batch, table, lost>>
  PROVE  Accounted(m)'
  BY DEF Accounted, InMemory

\* What is left of the goroutines when a process ends.
LEMMA DeadHands ==
  ASSUME TypeOK, NEW w \in Worker, Die(w)
  PROVE  \A v \in Worker, u \in Thread :
           /\ batch'[v][u] = IF v = w THEN <<>> ELSE batch[v][u]
           /\ v # w => pc'[v][u] = pc[v][u]
  BY DEF Die, TypeOK

\* Every way out of an insert leaves the goroutine without a batch.
LEMMA HandsStep ==
  ASSUME Typed, HandsEmpty, [Next]_vars
  PROVE  HandsEmpty'
<1>0. TypeOK /\ Thread = {"consumer", "stopper"} \cup TimerRoutine
  BY DEF Typed, Thread
<1>1. CASE UNCHANGED vars
  BY <1>1 DEF vars, HandsEmpty
<1>2. ASSUME NEW w \in Worker, NEW t \in Thread, NEW label,
             Goto(w, t, label), batch' = batch, pc[w][t] # "insert"
      PROVE  HandsEmpty'
  BY <1>0, <1>2, GotoOthers DEF HandsEmpty
<1>3. ASSUME NEW m \in Msg, Queue(m)
      PROVE  HandsEmpty'
  BY <1>3 DEF Queue, Publish, AckWait, Expire, Deliver, batchVars, HandsEmpty
<1>4. ASSUME NEW w \in Worker, Consume(w)
      PROVE  HandsEmpty'
  BY <1>0, <1>2, <1>4 DEF Consume, Top, IterNext, NextErr, Add, Ack, Nak, batchVars
<1>5. ASSUME NEW w \in Worker, NEW t \in Thread, Flush(w, t)
      PROVE  HandsEmpty'
  <2>1. CASE Take(w, t)
    <3>1. /\ batch'[w][t] = buf[w]
          /\ \A v \in Worker, u \in Thread : v # w \/ u # t => batch'[v][u] = batch[v][u]
      BY <1>0, <2>1 DEF Take, LockedPart, TypeOK
    <3>2. /\ pc'[w][t] # "insert" => buf[w] = <<>>
          /\ \A v \in Worker, u \in Thread : v # w \/ u # t => pc'[v][u] = pc[v][u]
      BY <1>0, <2>1, GotoOthers DEF Take, LockedPart
    <3> QED  BY <3>1, <3>2 DEF HandsEmpty
  <2>2. CASE InsertOk(w, t) \/ InsertFail(w, t)
    <3>1. /\ batch'[w][t] = <<>>
          /\ \A v \in Worker, u \in Thread : v # w \/ u # t => batch'[v][u] = batch[v][u]
      BY <1>0, <2>2 DEF InsertOk, InsertFail, TypeOK
    <3>2. \A v \in Worker, u \in Thread : v # w \/ u # t => pc'[v][u] = pc[v][u]
      <4>1. \E label : Goto(w, t, label)
        BY <2>2 DEF InsertOk, InsertFail
      <4> QED  BY <1>0, <4>1, GotoOthers
    <3> QED  BY <3>1, <3>2 DEF HandsEmpty
  <2> QED  BY <1>5, <2>1, <2>2 DEF Flush
<1>6. ASSUME NEW w \in Worker, NEW t \in TimerRoutine, TimerFire(w, t)
      PROVE  HandsEmpty'
  BY <1>0, <1>2, <1>6 DEF TimerFire
<1>7. ASSUME NEW w \in Worker, Process(w)
      PROVE  HandsEmpty'
  <2>1. CASE Exit(w) \/ Crash(w)
    <3>1. \A v \in Worker, u \in Thread :
            batch'[v][u] = <<>> \/ (batch'[v][u] = batch[v][u] /\ pc'[v][u] = pc[v][u])
      BY <1>0, <2>1, DeadHands DEF Exit, Crash
    <3> QED  BY <3>1 DEF HandsEmpty
  <2>2. CASE Disconnect(w) \/ Reconnect(w)
    BY <2>2 DEF Disconnect, Reconnect, batchVars, HandsEmpty
  <2>3. CASE Signal(w) \/ StopTimer(w) \/ Cancel(w) \/ Start(w)
    BY <1>0, <1>2, <2>3 DEF Signal, StopTimer, Cancel, Start, Up, batchVars
  <2> QED  BY <1>7, <2>1, <2>2, <2>3 DEF Process
<1> QED  BY <1>1, <1>3, <1>4, <1>5, <1>6, <1>7 DEF Next

\* Add appends whole messages and Take moves whole buffers.
LEMMA WholeStep ==
  ASSUME Typed, WholeBatches, [Next]_vars
  PROVE  WholeBatches'
<1>0. TypeOK /\ CurOK /\ Whole(<<>>)
  BY WholeEmpty DEF Typed
<1>1. CASE UNCHANGED <<buf, batch>>
  BY <1>1 DEF WholeBatches
<1>2. ASSUME NEW w \in Worker, Add(w)
      PROVE  WholeBatches'
  <2>1. /\ buf'[w] = buf[w] \o Payload(cur[w]) /\ batch' = batch
        /\ \A v \in Worker : v # w => buf'[v] = buf[v]
        /\ cur[w] \in Msg /\ buf[w] \in Seq(Msg)
    BY <1>0, <1>2 DEF Add, TypeOK, CurOK
  <2>2. Whole(buf'[w])
    BY <2>1, WholeAdd DEF WholeBatches
  <2> QED  BY <2>1, <2>2 DEF WholeBatches
<1>3. ASSUME NEW w \in Worker, NEW t \in Thread, Take(w, t) \/ InsertOk(w, t) \/ InsertFail(w, t)
      PROVE  WholeBatches'
  <2>1. CASE Take(w, t)
    <3>1. \A v \in Worker : buf'[v] = IF v = w THEN <<>> ELSE buf[v]
      BY <1>0, <2>1 DEF Take, LockedPart, TypeOK
    <3>2. \A v \in Worker, u \in Thread :
            batch'[v][u] = IF v = w /\ u = t THEN buf[w] ELSE batch[v][u]
      BY <1>0, <2>1 DEF Take, LockedPart, TypeOK
    <3> QED  BY <1>0, <3>1, <3>2 DEF WholeBatches
  <2>2. CASE InsertOk(w, t) \/ InsertFail(w, t)
    <3>1. buf' = buf
      BY <2>2 DEF InsertOk, InsertFail
    <3>2. \A v \in Worker, u \in Thread :
            batch'[v][u] = IF v = w /\ u = t THEN <<>> ELSE batch[v][u]
      BY <1>0, <2>2 DEF InsertOk, InsertFail, TypeOK
    <3> QED  BY <1>0, <3>1, <3>2 DEF WholeBatches
  <2> QED  BY <1>3, <2>1, <2>2
<1>4. ASSUME NEW w \in Worker, Die(w)
      PROVE  WholeBatches'
  <2>1. \A v \in Worker :
          /\ buf'[v] \in {buf[v], <<>>}
          /\ \A u \in Thread : batch'[v][u] \in {batch[v][u], <<>>}
    BY <1>0, <1>4, DeadHands DEF Die, TypeOK
  <2> QED  BY <1>0, <2>1 DEF WholeBatches
<1> QED
  BY <1>1, <1>2, <1>3, <1>4
  DEF Next, Queue, Consume, Flush, Process, Publish, AckWait, Expire, Deliver, Top, IterNext,
      NextErr, Ack, Nak, TimerFire, Signal, StopTimer, Cancel, Exit, Crash, Start, Disconnect,
      Reconnect, batchVars, vars

\* An insert accounts for every message of its batch: it stores all of its
\* records, or it fails and some of them are lost or all of them were written.
LEMMA InsertAccounts ==
  ASSUME Typed, WholeBatches, NEW w \in Worker, NEW t \in Thread,
         InsertOk(w, t) \/ InsertFail(w, t),
         NEW m \in Msg, m \in Range(batch[w][t])
  PROVE  table'[m] >= Size[m] \/ m \in lost'
<1> DEFINE b == batch[w][t]
<1>1. /\ b \in Seq(Msg) /\ table[m] \in Nat /\ table \in [Msg -> Nat]
      /\ Count(b, m) \in Nat /\ Size[m] \in Nat
      /\ Count(b, m) >= Size[m]
  BY CountType, PayloadSeq, WholePresent DEF Typed, TypeOK, WholeBatches
<1>2. CASE InsertOk(w, t)
  <2>1. table'[m] = table[m] + Count(b, m)
    BY <1>2 DEF InsertOk
  <2> QED  BY <1>1, <2>1
<1>3. CASE InsertFail(w, t)
  <2>1. PICK written \in SUBSET DOMAIN b :
          /\ table' = [n \in Msg |-> table[n] + Cardinality(written \cap Where(b, n))]
          /\ lost' = lost \cup {b[i] : i \in DOMAIN b \ written}
    BY <1>3 DEF InsertFail
  <2>2. CASE Where(b, m) \subseteq written
    <3>1. written \cap Where(b, m) = Where(b, m)
      BY <2>2
    <3>2. table'[m] = table[m] + Count(b, m)
      BY <2>1, <3>1 DEF Count
    <3> QED  BY <1>1, <3>2
  <2>3. CASE ~(Where(b, m) \subseteq written)
    BY <2>1, <2>3 DEF Where
  <2> QED  BY <2>2, <2>3
<1> QED  BY <1>2, <1>3

\* The table only grows, and what is lost stays lost.
LEMMA TableGrows ==
  ASSUME Typed, [Next]_vars, NEW m \in Msg
  PROVE  table'[m] >= table[m] /\ lost \subseteq lost'
<1>0. table[m] \in Nat /\ \A w \in Worker, t \in Thread : batch[w][t] \in Seq(Msg)
  BY DEF Typed, TypeOK
<1>1. ASSUME NEW w \in Worker, NEW t \in Thread, InsertOk(w, t) \/ InsertFail(w, t)
      PROVE  table'[m] >= table[m] /\ lost \subseteq lost'
  <2> DEFINE b == batch[w][t]
  <2>1. PICK S \in SUBSET Where(b, m) : table'[m] = table[m] + Cardinality(S)
    BY <1>1 DEF InsertOk, InsertFail, Count
  <2>2. Cardinality(S) \in Nat
    BY <1>0, <2>1, CountType, FS_Subset, FS_CardinalityType
  <2>3. lost \subseteq lost'
    BY <1>1 DEF InsertOk, InsertFail
  <2> QED  BY <1>0, <2>1, <2>2, <2>3
<1>2. ASSUME NEW w \in Worker, Die(w)
      PROVE  table'[m] >= table[m] /\ lost \subseteq lost'
  BY <1>0, <1>2 DEF Die
<1>3. CASE UNCHANGED tableVars
  BY <1>0, <1>3 DEF tableVars
<1> QED
  BY <1>1, <1>2, <1>3
  DEF Next, Queue, Consume, Flush, Process, Publish, AckWait, Expire, Deliver, Top, IterNext,
      NextErr, Add, Ack, Nak, Take, LockedPart, TimerFire, Signal, StopTimer, Cancel, Exit,
      Crash, Start, Disconnect, Reconnect, tableVars, vars

\* No step loses track of a message: its records stay where they are, move from
\* the buffer to a batch or from a batch to the table, or are recorded as lost.
LEMMA AccountedStable ==
  ASSUME Typed, HandsEmpty, WholeBatches, [Next]_vars, NEW m \in Msg, Accounted(m)
  PROVE  Accounted(m)'
<1>0. /\ TypeOK /\ CurOK
      /\ table[m] \in Nat /\ table'[m] \in Nat /\ Size[m] \in Nat
      /\ table'[m] >= table[m] /\ lost \subseteq lost'
  BY TypedNext, TableGrows, PayloadSeq DEF Typed, TypeOK
<1>1. CASE table[m] >= Size[m] \/ m \in lost
  BY <1>0, <1>1 DEF Accounted
<1>2. ASSUME NEW w \in Worker, InMemory(w, m)
      PROVE  Accounted(m)'
  <2>1. CASE UNCHANGED <<buf, batch>>
    BY <1>2, <2>1 DEF Accounted, InMemory
  <2>2. ASSUME NEW v \in Worker, Add(v)
        PROVE  Accounted(m)'
    <3>1. /\ buf'[v] = buf[v] \o Payload(cur[v]) /\ batch' = batch
          /\ \A x \in Worker : x # v => buf'[x] = buf[x]
          /\ cur[v] \in Msg /\ buf[v] \in Seq(Msg)
      BY <1>0, <2>2 DEF Add, TypeOK, CurOK
    <3>2. Range(buf[v]) \subseteq Range(buf'[v])
      BY <3>1, RangeConcat
    <3>3. Range(buf[w]) \subseteq Range(buf'[w])
      BY <3>1, <3>2
    <3> QED  BY <1>2, <3>1, <3>3 DEF Accounted, InMemory
  <2>3. ASSUME NEW v \in Worker, NEW t \in Thread, Take(v, t)
        PROVE  Accounted(m)'
    <3>1. \A x \in Worker : buf'[x] = IF x = v THEN <<>> ELSE buf[x]
      BY <1>0, <2>3 DEF Take, LockedPart, TypeOK
    <3>2. \A x \in Worker, u \in Thread :
            batch'[x][u] = IF x = v /\ u = t THEN buf[v] ELSE batch[x][u]
      BY <1>0, <2>3 DEF Take, LockedPart, TypeOK
    <3>3. Range(batch[v][t]) = {}
      BY <2>3, WholeEmpty DEF Take, LockedPart, HandsEmpty
    <3> QED  BY <1>2, <3>1, <3>2, <3>3 DEF Accounted, InMemory
  <2>4. ASSUME NEW v \in Worker, NEW t \in Thread, InsertOk(v, t) \/ InsertFail(v, t)
        PROVE  Accounted(m)'
    <3>1. buf' = buf
      BY <2>4 DEF InsertOk, InsertFail
    <3>a. batch' = [batch EXCEPT ![v][t] = <<>>]
      BY <2>4 DEF InsertOk, InsertFail
    <3>b. batch \in [Worker -> [Thread -> Seq(Msg)]]
      BY <1>0 DEF TypeOK
    <3>2. \A x \in Worker, u \in Thread : x # v \/ u # t => batch'[x][u] = batch[x][u]
      BY <3>a, <3>b
    <3>3. CASE m \in Range(batch[v][t])
      BY <2>4, <3>3, InsertAccounts DEF Accounted
    <3>4. CASE m \notin Range(batch[v][t])
      BY <1>2, <3>1, <3>2, <3>4 DEF Accounted, InMemory
    <3> QED  BY <3>3, <3>4
  <2>5. ASSUME NEW v \in Worker, Die(v)
        PROVE  Accounted(m)'
    <3>1. CASE v = w
      BY <1>2, <2>5, <3>1 DEF Die, Accounted
    <3>2. CASE v # w
      <4>1. buf'[w] = buf[w]
        BY <1>0, <2>5, <3>2 DEF Die, TypeOK
      <4>2. \A u \in Thread : batch'[w][u] = batch[w][u]
        BY <1>0, <2>5, <3>2, DeadHands
      <4> QED  BY <1>2, <4>1, <4>2 DEF Accounted, InMemory
    <3> QED  BY <3>1, <3>2
  <2> QED
    BY <2>1, <2>2, <2>3, <2>4, <2>5
    DEF Next, Queue, Consume, Flush, Process, Publish, AckWait, Expire, Deliver, Top,
        IterNext, NextErr, Ack, Nak, TimerFire, Signal, StopTimer, Cancel, Exit, Crash,
        Start, Disconnect, Reconnect, batchVars, vars
<1> QED  BY <1>1, <1>2 DEF Accounted

\* What the consumer is about to acknowledge is accounted for: Add has just put
\* it into the buffer, and no step since has lost track of it.
LEMMA LoopStep ==
  ASSUME Typed, HandsEmpty, WholeBatches, LoopAccounted, [Next]_vars
  PROVE  LoopAccounted'
<1>0. /\ TypeOK /\ CurOK /\ "consumer" \in Thread /\ "stopper" \in Thread
      /\ TimerRoutine \subseteq Thread
      /\ "consumer" \notin TimerRoutine /\ "stopper" # "consumer"
  BY Threads DEF Typed
<1> SUFFICES ASSUME NEW v \in Worker, PastAdd(v)'
             PROVE  Accounted(cur[v])'
  BY DEF LoopAccounted
<1> DEFINE Same == pc'[v]["consumer"] = pc[v]["consumer"] /\ cur'[v] = cur[v]
           Past == PastAdd(v) /\ cur'[v] = cur[v]
<1>1. CASE Past
  <2>1. cur[v] \in Msg /\ Accounted(cur[v])
    BY <1>0, <1>1 DEF PastAdd, CurOK, LoopAccounted
  <2>2. \A n \in Msg : Accounted(n) => Accounted(n)'
    BY AccountedStable
  <2> QED  BY <1>1, <2>1, <2>2 DEF Accounted, InMemory
<1>2. CASE Add(v)
  <2>1. /\ buf'[v] = buf[v] \o Payload(cur[v]) /\ cur' = cur
        /\ cur[v] \in Msg /\ buf[v] \in Seq(Msg)
    BY <1>0, <1>2 DEF Add, TypeOK, CurOK, loopVars
  <2>2. cur[v] \in Range(buf'[v])
    BY <2>1, RangeConcat
  <2> QED  BY <2>1, <2>2 DEF Accounted, InMemory
<1>3. CASE ~Add(v)
  <2>1. ASSUME UNCHANGED vars
        PROVE  Same
    BY <2>1 DEF vars
  <2>2. ASSUME NEW m \in Msg, Queue(m)
        PROVE  Same
    BY <2>2 DEF Queue, Publish, AckWait, Expire, Deliver, loopVars
  <2>3. ASSUME NEW w \in Worker, Consume(w)
        PROVE  Same
    <3>1. CASE w # v
      <4>1. \E label : Goto(w, "consumer", label)
        BY <2>3 DEF Consume, Top, IterNext, NextErr, Add, Ack, Nak
      <4>2. cur'[v] = cur[v]
        BY <1>0, <2>3, <3>1
        DEF Consume, Top, IterNext, NextErr, Add, Ack, Nak, loopVars, TypeOK
      <4> QED  BY <1>0, <3>1, <4>1, <4>2, GotoOthers
    <3>2. CASE w = v /\ IterNext(v)
      <4>1. /\ cur'[v] = Head(fetched[v])
            /\ Goto(v, "consumer", IF Head(fetched[v]) \in Bad THEN "ack" ELSE "add")
        BY <1>0, <3>2 DEF IterNext, TypeOK
      <4>2. pc'[v]["consumer"] = IF Head(fetched[v]) \in Bad THEN "ack" ELSE "add"
        BY <1>0, <4>1, GotoOthers
      <4> QED  BY <4>1, <4>2 DEF PastAdd
    <3>3. CASE w = v /\ ~IterNext(v)
      <4>1. \E label : label \in {"top", "next", "returned"} /\ Goto(v, "consumer", label)
        BY <1>3, <2>3, <3>3 DEF Consume, Top, NextErr, Ack, Nak
      <4>2. pc'[v]["consumer"] \in {"top", "next", "returned"}
        BY <1>0, <4>1, GotoOthers
      <4> QED  BY <4>2 DEF PastAdd
    <3> QED  BY <3>1, <3>2, <3>3
  <2>4. ASSUME NEW w \in Worker, NEW t \in Thread, Flush(w, t)
        PROVE  Same \/ Past
    <3>1. /\ cur' = cur /\ pc[w][t] \in {"flush", "insert"}
          /\ \E label : Goto(w, t, label)
      BY <2>4 DEF Flush, Take, LockedPart, InsertOk, InsertFail, loopVars
    <3> QED  BY <1>0, <3>1, GotoOthers DEF PastAdd
  <2>5. ASSUME NEW w \in Worker, NEW t \in TimerRoutine, TimerFire(w, t)
        PROVE  Same
    BY <1>0, <2>5, GotoOthers DEF TimerFire, loopVars
  <2>6. ASSUME NEW w \in Worker, Process(w)
        PROVE  Same
    <3>1. CASE Exit(w) \/ Crash(w)
      <4>1. /\ pc'[w]["consumer"] = "down"
            /\ w # v => pc'[v] = pc[v] /\ cur'[v] = cur[v]
        BY <1>0, <3>1 DEF Exit, Crash, Die, TypeOK
      <4> QED  BY <4>1 DEF PastAdd
    <3>2. CASE Start(w)
      <4>1. /\ pc'[w]["consumer"] = "top" /\ cur' = cur
            /\ w # v => pc'[v]["consumer"] = pc[v]["consumer"]
        BY <1>0, <3>2, GotoOthers DEF Start
      <4> QED  BY <4>1 DEF PastAdd
    <3>3. CASE Signal(w) \/ StopTimer(w) \/ Cancel(w)
      BY <1>0, <3>3, GotoOthers DEF Signal, StopTimer, Cancel, loopVars
    <3>4. CASE Disconnect(w) \/ Reconnect(w)
      BY <3>4 DEF Disconnect, Reconnect
    <3> QED  BY <2>6, <3>1, <3>2, <3>3, <3>4 DEF Process
  <2>7. Same \/ Past
    BY <2>1, <2>2, <2>3, <2>4, <2>5, <2>6 DEF Next, PastAdd, vars
  <2> QED  BY <1>1, <2>7 DEF PastAdd
<1> QED  BY <1>2, <1>3

\* AckInv is inductive: no step loses sight of a message the consumer has handled.
LEMMA AckedStep ==
  ASSUME AckInv, [Next]_vars
  PROVE  AckedAccounted'
<1>0. TypeOK /\ CurOK /\ HandsEmpty /\ WholeBatches /\ LoopAccounted /\ AckedAccounted
  BY DEF AckInv, Typed
<1> SUFFICES ASSUME NEW m \in Msg \ Bad, stream'[m] = "acked"
             PROVE  Accounted(m)'
  BY DEF AckedAccounted
<1>1. CASE Accounted(m)
  BY <1>1, AccountedStable DEF AckInv
<1>2. ASSUME stream[m] # "acked"
      PROVE  \E w \in Worker : Ack(w) /\ cur[w] = m
  <2>1. CASE \E n \in Msg : Queue(n)
    BY <1>0, <1>2, <2>1 DEF Queue, Publish, AckWait, Expire, Deliver, TypeOK
  <2>2. ASSUME NEW w \in Worker, Ack(w), cur[w] # m
        PROVE  FALSE
    BY <1>0, <1>2, <2>2 DEF Ack, TypeOK
  <2>3. ASSUME NEW w \in Worker, Nak(w)
        PROVE  FALSE
    BY <1>0, <1>2, <2>3 DEF Nak, TypeOK
  <2>4. CASE stream' = stream
    BY <1>2, <2>4
  <2> QED
    BY <2>1, <2>2, <2>3, <2>4, ZenonT(60)
    DEF Next, Consume, Flush, Process, Top, IterNext, NextErr, Add, Take, LockedPart,
        InsertOk, InsertFail, TimerFire, Signal, StopTimer, Cancel, Exit, Crash, Die, Start,
        Disconnect, Reconnect, queueVars, vars
<1>3. ASSUME NEW w \in Worker, Ack(w), cur[w] = m
      PROVE  Accounted(m)
  BY <1>0, <1>3 DEF Ack, PastAdd, LoopAccounted
<1> QED  BY <1>0, <1>1, <1>2, <1>3 DEF AckedAccounted

\* Whatever the interleaving of the consumer, the timer's callbacks, the signal
\* handler, redelivery, failed inserts and crashes, every message acknowledged
\* to JetStream has all its records in the table, or some in the memory of a
\* processor, or has lost records to a failed insert or to the end of a process.
THEOREM AcknowledgedIsAccounted == Spec => []AckedAccounted
<1>1. Init => AckInv
  <2> SUFFICES ASSUME Init PROVE AckInv
    OBVIOUS
  <2>1. \A w \in Worker : buf[w] = <<>> /\ \A t \in Thread : batch[w][t] = <<>>
    BY DEF Init
  <2>2. HandsEmpty /\ WholeBatches
    BY <2>1, WholeEmpty DEF HandsEmpty, WholeBatches
  <2>3. LoopAccounted /\ AckedAccounted
    BY Threads DEF Init, LoopAccounted, PastAdd, AckedAccounted
  <2> QED  BY <2>2, <2>3, TypedInit DEF AckInv
<1>2. AckInv /\ [Next]_vars => AckInv'
  BY TypedNext, HandsStep, WholeStep, LoopStep, AckedStep DEF AckInv
<1>3. AckInv => AckedAccounted
  BY DEF AckInv
<1> QED  BY <1>1, <1>2, <1>3, PTL DEF Spec

\* Flush moves whole messages: whatever interleaves with Add, neither a buffer
\* nor a batch in flight ever holds a part of one.
THEOREM MessagesStayWhole == Spec => []WholeMessages
<1>1. Init => Typed /\ WholeBatches
  BY TypedInit, WholeEmpty DEF Init, WholeBatches
<1>2. Typed /\ WholeBatches /\ [Next]_vars => (Typed /\ WholeBatches)'
  BY TypedNext, WholeStep
<1>3. WholeBatches => WholeMessages
  BY DEF WholeBatches, Whole, WholeMessages
<1> QED  BY <1>1, <1>2, <1>3, PTL DEF Spec

----------------------------------------------------------------------------
(* Places: what a family of sets of positions, one set for each owner, holds *)
(* in all.  Nothing is assumed of how many owners there are.                 *)

Places(F) == UNION {{k} \X F[k] : k \in DOMAIN F}

\* A place is an owner with a position of its own.
LEMMA PlacesElements ==
  ASSUME NEW K, NEW F \in [K -> SUBSET Nat]
  PROVE  \A x : x \in Places(F) <=> \E k \in K : \E i \in F[k] : x = <<k, i>>
  BY DEF Places

\* Positions that are taken away make it no larger.
LEMMA PlacesShrink ==
  ASSUME NEW K, NEW F \in [K -> SUBSET Nat], NEW G \in [K -> SUBSET Nat],
         IsFiniteSet(Places(F)), \A k \in K : G[k] \subseteq F[k]
  PROVE  /\ IsFiniteSet(Places(G))
         /\ Cardinality(Places(G)) <= Cardinality(Places(F))
<1>1. Places(G) \subseteq Places(F)
  BY PlacesElements
<1> QED  BY <1>1, FS_Subset

\* Tagging positions with their owner does not change how many there are.
LEMMA Tagged ==
  ASSUME NEW k, NEW S, IsFiniteSet(S)
  PROVE  IsFiniteSet({k} \X S) /\ Cardinality({k} \X S) = Cardinality(S)
<1>1. IsFiniteSet({k}) /\ Cardinality({k}) = 1
  BY FS_Singleton
<1>2. IsFiniteSet({k} \X S) /\ Cardinality({k} \X S) = Cardinality({k}) * Cardinality(S)
  BY <1>1, FS_Product
<1>3. Cardinality(S) \in Nat
  BY FS_CardinalityType
<1> QED  BY <1>1, <1>2, <1>3

\* The positions of one owner and those of the others.
LEMMA PlacesSplit ==
  ASSUME NEW K, NEW F \in [K -> SUBSET Nat], NEW k \in K,
         NEW G \in [K -> SUBSET Nat], \A j \in K \ {k} : G[j] = F[j],
         IsFiniteSet(Places(F)), IsFiniteSet(F[k]), IsFiniteSet(G[k])
  PROVE  /\ IsFiniteSet(Places(G))
         /\ Cardinality(Places(G)) \in Nat /\ Cardinality(Places(F)) \in Nat
         /\ Cardinality(F[k]) \in Nat /\ Cardinality(G[k]) \in Nat
         /\ Cardinality(Places(G)) + Cardinality(F[k])
              = Cardinality(Places(F)) + Cardinality(G[k])
<1> DEFINE rest == Places(F) \ ({k} \X F[k])
<1>1. Places(F) = rest \cup ({k} \X F[k]) /\ rest \cap ({k} \X F[k]) = {}
  BY PlacesElements
<1>2. Places(G) = rest \cup ({k} \X G[k]) /\ rest \cap ({k} \X G[k]) = {}
  <2>1. \A x : x \in rest <=> \E j \in K \ {k} : \E i \in F[j] : x = <<j, i>>
    BY PlacesElements
  <2>2. \A x : x \in Places(G) <=> \E j \in K : \E i \in G[j] : x = <<j, i>>
    BY PlacesElements
  <2> HIDE DEF rest
  <2> QED  BY <2>1, <2>2
<1>3. IsFiniteSet(rest)
  BY FS_Subset
<1> HIDE DEF rest
<1>4. \A S : IsFiniteSet(S) /\ rest \cap ({k} \X S) = {} =>
        /\ IsFiniteSet(rest \cup ({k} \X S))
        /\ Cardinality(rest \cup ({k} \X S)) = Cardinality(rest) + Cardinality(S)
        /\ Cardinality(rest) \in Nat /\ Cardinality(S) \in Nat
  <2> SUFFICES ASSUME NEW S, IsFiniteSet(S), rest \cap ({k} \X S) = {}
               PROVE  /\ IsFiniteSet(rest \cup ({k} \X S))
                      /\ Cardinality(rest \cup ({k} \X S)) = Cardinality(rest) + Cardinality(S)
                      /\ Cardinality(rest) \in Nat /\ Cardinality(S) \in Nat
    OBVIOUS
  <2>1. IsFiniteSet({k} \X S) /\ Cardinality({k} \X S) = Cardinality(S)
    BY Tagged
  <2>2. /\ IsFiniteSet(rest \cup ({k} \X S))
        /\ Cardinality(rest \cup ({k} \X S))
             = Cardinality(rest) + Cardinality({k} \X S) - Cardinality(rest \cap ({k} \X S))
    BY <1>3, <2>1, FS_Union
  <2>3. /\ Cardinality(rest \cap ({k} \X S)) = 0
        /\ Cardinality(rest) \in Nat /\ Cardinality(S) \in Nat
    BY <1>3, FS_EmptySet, FS_CardinalityType
  <2> QED  BY <2>1, <2>2, <2>3
<1>5. /\ Cardinality(Places(F)) = Cardinality(rest) + Cardinality(F[k])
      /\ Cardinality(Places(G)) = Cardinality(rest) + Cardinality(G[k])
      /\ IsFiniteSet(Places(G)) /\ Cardinality(rest) \in Nat
      /\ Cardinality(F[k]) \in Nat /\ Cardinality(G[k]) \in Nat
  BY <1>1, <1>2, <1>4
<1> QED  BY <1>5

----------------------------------------------------------------------------
(* Duplicates come from redelivery only.  CopiesBounded needs to know what a *)
(* delivery is for: until Add, the copy of the message it handed out waits   *)
(* in the iterator or in the loop's hands, and from then on its records are  *)
(* in a buffer, in flight, in the table or gone.                             *)

\* Where the records of a message are buffered and in flight, and where whole
\* copies of it wait for Add: position 0 is the loop's.

BufferedAt(m) == [w \in Worker |-> Where(buf[w], m)]
InFlightAt(m) == [k \in Worker \X Thread |-> Where(batch[k[1]][k[2]], m)]
InHand(p, c, m) == IF p = "add" /\ c = m THEN {0} ELSE {}
WaitingAt(m)  == [w \in Worker |-> Where(fetched[w], m) \cup InHand(pc[w]["consumer"], cur[w], m)]

Buffered(m) == Places(BufferedAt(m))
InFlight(m) == Places(InFlightAt(m))
Waiting(m)  == Places(WaitingAt(m))

Finite(m) == IsFiniteSet(Buffered(m)) /\ IsFiniteSet(InFlight(m)) /\ IsFiniteSet(Waiting(m))

\* A delivery pays for the records of one copy of the message, whether it is
\* still waiting for Add, in memory or in the table.
Paid(m) ==
  table[m] + Cardinality(Buffered(m)) + Cardinality(InFlight(m))
           + Cardinality(Waiting(m)) * Size[m] <= deliveries[m] * Size[m]

CopiesInv == \A m \in Msg : Finite(m) /\ Paid(m)

\* The families are families of finite sets of positions.
AtOK(m) ==
  /\ BufferedAt(m) \in [Worker -> SUBSET Nat]
  /\ InFlightAt(m) \in [Worker \X Thread -> SUBSET Nat]
  /\ WaitingAt(m) \in [Worker -> SUBSET Nat]
  /\ \A w \in Worker : IsFiniteSet(BufferedAt(m)[w]) /\ IsFiniteSet(WaitingAt(m)[w])
  /\ \A w \in Worker, t \in Thread : IsFiniteSet(InFlightAt(m)[<<w, t>>])

\* They are, because every queue, buffer and batch is a finite sequence.
LEMMA AtTypes == TypeOK => \A m \in Msg : AtOK(m)
<1> SUFFICES ASSUME TypeOK, NEW m \in Msg
             PROVE  AtOK(m)
  OBVIOUS
<1>1. ASSUME NEW b \in Seq(Msg)
      PROVE  Where(b, m) \in SUBSET Nat /\ IsFiniteSet(Where(b, m))
  <2>1. Where(b, m) \subseteq 1..Len(b)
    BY LenProperties DEF Where
  <2> QED  BY <2>1, CountType, LenProperties
<1>2. \A w \in Worker : /\ buf[w] \in Seq(Msg) /\ fetched[w] \in Seq(Msg)
                        /\ \A t \in Thread : batch[w][t] \in Seq(Msg)
  BY DEF TypeOK
<1>3. ASSUME NEW S \in SUBSET Nat, IsFiniteSet(S), NEW Z \in SUBSET {0}
      PROVE  S \cup Z \in SUBSET Nat /\ IsFiniteSet(S \cup Z)
  <2>1. S \cup Z \in SUBSET (S \cup {0})
    OBVIOUS
  <2>2. IsFiniteSet(S \cup {0})
    BY <1>3, FS_AddElement
  <2>3. IsFiniteSet(S \cup Z)
    BY <2>1, <2>2, FS_Subset
  <2> QED  BY <2>3
<1>4. BufferedAt(m) \in [Worker -> SUBSET Nat] /\ WaitingAt(m) \in [Worker -> SUBSET Nat]
  BY <1>1, <1>2, <1>3 DEF BufferedAt, WaitingAt, InHand
<1>5. InFlightAt(m) \in [Worker \X Thread -> SUBSET Nat]
  BY <1>1, <1>2 DEF InFlightAt
<1>6. ASSUME NEW w \in Worker
      PROVE  IsFiniteSet(BufferedAt(m)[w]) /\ IsFiniteSet(WaitingAt(m)[w])
  BY <1>1, <1>2, <1>3 DEF BufferedAt, WaitingAt, InHand
<1>7. ASSUME NEW w \in Worker, NEW t \in Thread
      PROVE  IsFiniteSet(InFlightAt(m)[<<w, t>>])
  BY <1>1, <1>2 DEF InFlightAt
<1> QED  BY <1>4, <1>5, <1>6, <1>7 DEF AtOK

\* They are so after a typed step as well.
LEMMA AtTypesNext == TypeOK' => \A m \in Msg : AtOK(m)'
<1>1. (TypeOK => \A m \in Msg : AtOK(m))'
  BY AtTypes, PTL
<1> QED  BY <1>1

\* The families before and after a step, without their primes.
LEMMA AtStep ==
  ASSUME TypeOK, TypeOK', NEW m \in Msg
  PROVE  /\ AtOK(m) /\ AtOK(m)'
         /\ \A w \in Worker :
              /\ BufferedAt(m)[w] = Where(buf[w], m)
              /\ BufferedAt(m)'[w] = Where(buf'[w], m)
              /\ WaitingAt(m)[w] = Where(fetched[w], m) \cup InHand(pc[w]["consumer"], cur[w], m)
              /\ WaitingAt(m)'[w] =
                   Where(fetched'[w], m) \cup InHand(pc'[w]["consumer"], cur'[w], m)
              /\ \A t \in Thread : /\ InFlightAt(m)[<<w, t>>] = Where(batch[w][t], m)
                                   /\ InFlightAt(m)'[<<w, t>>] = Where(batch'[w][t], m)
<1>1. AtOK(m) /\ AtOK(m)'
  BY AtTypes, AtTypesNext
<1>2. ASSUME NEW w \in Worker
      PROVE  /\ BufferedAt(m)[w] = Where(buf[w], m)
             /\ BufferedAt(m)'[w] = Where(buf'[w], m)
  BY DEF BufferedAt, Where
<1>3. ASSUME NEW w \in Worker
      PROVE  /\ WaitingAt(m)[w] = Where(fetched[w], m) \cup InHand(pc[w]["consumer"], cur[w], m)
             /\ WaitingAt(m)'[w] = Where(fetched'[w], m) \cup InHand(pc'[w]["consumer"], cur'[w], m)
  BY DEF WaitingAt, Where
<1>4. ASSUME NEW w \in Worker, NEW t \in Thread
      PROVE  /\ InFlightAt(m)[<<w, t>>] = Where(batch[w][t], m)
             /\ InFlightAt(m)'[<<w, t>>] = Where(batch'[w][t], m)
  BY DEF InFlightAt, Where
<1> QED  BY <1>1, <1>2, <1>3, <1>4

\* Fewer copies waiting are worth no more records.
LEMMA TimesMonotone ==
  ASSUME NEW a \in Nat, NEW b \in Nat, NEW s \in Nat, a <= b
  PROVE  a * s <= b * s
<1>1. b * s = a * s + (b - a) * s
  OBVIOUS
<1>2. (b - a) * s \in Nat
  OBVIOUS
<1> QED  BY <1>1, <1>2

\* A step without a delivery keeps the balance if no copy and no record is added.
LEMMA Balance ==
  ASSUME TypeOK, TypeOK', NEW m \in Msg, Finite(m), Paid(m), Finite(m)',
         Cardinality(Waiting(m))' <= Cardinality(Waiting(m)),
         deliveries'[m] = deliveries[m],
         /\ table'[m] + Cardinality(Buffered(m))' + Cardinality(InFlight(m))'
              <= table[m] + Cardinality(Buffered(m)) + Cardinality(InFlight(m))
  PROVE  Paid(m)'
<1>1. /\ table[m] \in Nat /\ table'[m] \in Nat /\ deliveries[m] \in Nat /\ Size[m] \in Nat
  BY MsgAssumption DEF TypeOK
<1>2. /\ Cardinality(Buffered(m)) \in Nat /\ Cardinality(Buffered(m))' \in Nat
      /\ Cardinality(InFlight(m)) \in Nat /\ Cardinality(InFlight(m))' \in Nat
      /\ Cardinality(Waiting(m)) \in Nat /\ Cardinality(Waiting(m))' \in Nat
  BY FS_CardinalityType DEF Finite
<1>3. Cardinality(Waiting(m))' * Size[m] <= Cardinality(Waiting(m)) * Size[m]
  BY <1>1, <1>2, TimesMonotone
<1> QED  BY <1>1, <1>2, <1>3 DEF Paid

\* A step that only takes records away, or that does not touch them at all.
LEMMA CopiesFewer ==
  ASSUME TypeOK, TypeOK', NEW m \in Msg, Finite(m), Paid(m),
         table'[m] = table[m], deliveries'[m] = deliveries[m],
         \A w \in Worker :
           /\ Where(buf'[w], m) \subseteq Where(buf[w], m)
           /\ Where(fetched'[w], m) \subseteq Where(fetched[w], m)
           /\ pc'[w]["consumer"] = "add" /\ cur'[w] = m =>
                pc[w]["consumer"] = "add" /\ cur[w] = m
           /\ \A t \in Thread : Where(batch'[w][t], m) \subseteq Where(batch[w][t], m)
  PROVE  Finite(m)' /\ Paid(m)'
<1>1. AtOK(m) /\ AtOK(m)'
  BY AtStep
<1>2. ASSUME NEW w \in Worker
      PROVE  BufferedAt(m)'[w] \subseteq BufferedAt(m)[w]
  BY AtStep
<1>a. ASSUME NEW w \in Worker
      PROVE  WaitingAt(m)'[w] \subseteq WaitingAt(m)[w]
  <2>1. /\ WaitingAt(m)[w] = Where(fetched[w], m) \cup InHand(pc[w]["consumer"], cur[w], m)
        /\ WaitingAt(m)'[w] =
             Where(fetched'[w], m) \cup InHand(pc'[w]["consumer"], cur'[w], m)
    BY AtStep
  <2>2. InHand(pc'[w]["consumer"], cur'[w], m) \subseteq InHand(pc[w]["consumer"], cur[w], m)
    BY DEF InHand
  <2> QED  BY <2>1, <2>2
<1>3. ASSUME NEW k \in Worker \X Thread
      PROVE  InFlightAt(m)'[k] \subseteq InFlightAt(m)[k]
  <2>1. PICK w \in Worker, t \in Thread : k = <<w, t>>
    OBVIOUS
  <2>2. /\ InFlightAt(m)[<<w, t>>] = Where(batch[w][t], m)
        /\ InFlightAt(m)'[<<w, t>>] = Where(batch'[w][t], m)
    BY AtStep
  <2> QED  BY <2>1, <2>2
<1>4. /\ IsFiniteSet(Buffered(m))' /\ Cardinality(Buffered(m))' <= Cardinality(Buffered(m))
      /\ IsFiniteSet(InFlight(m))' /\ Cardinality(InFlight(m))' <= Cardinality(InFlight(m))
      /\ IsFiniteSet(Waiting(m))' /\ Cardinality(Waiting(m))' <= Cardinality(Waiting(m))
  BY <1>1, <1>2, <1>a, <1>3, PlacesShrink DEF AtOK, Finite, Buffered, InFlight, Waiting
<1>5. /\ Cardinality(Buffered(m)) \in Nat /\ Cardinality(Buffered(m))' \in Nat
      /\ Cardinality(InFlight(m)) \in Nat /\ Cardinality(InFlight(m))' \in Nat
      /\ table[m] \in Nat
  BY <1>4, FS_CardinalityType DEF Finite, TypeOK
<1>6. table'[m] + Cardinality(Buffered(m))' + Cardinality(InFlight(m))'
        <= table[m] + Cardinality(Buffered(m)) + Cardinality(InFlight(m))
  BY <1>4, <1>5
<1>7. Finite(m)'
  BY <1>4 DEF Finite
<1> QED  BY <1>4, <1>6, <1>7, Balance

\* The positions of a message in the queue of an iterator after a delivery.
LEMMA WhereAppend ==
  ASSUME NEW s \in Seq(Msg), NEW n \in Msg, NEW m \in Msg
  PROVE  /\ n # m => Where(Append(s, n), m) = Where(s, m)
         /\ n = m => Where(Append(s, n), m) = Where(s, m) \cup {Len(s) + 1}
         /\ Len(s) + 1 \in Nat \ Where(s, m)
<1> DEFINE a == Append(s, n)
<1>1. /\ a \in Seq(Msg) /\ Len(a) = Len(s) + 1
      /\ \A i \in 1..Len(s) : a[i] = s[i]
      /\ a[Len(s) + 1] = n
  BY AppendProperties
<1> HIDE DEF a
<1>2. DOMAIN a = 1..Len(s) + 1 /\ DOMAIN s = 1..Len(s) /\ Len(s) \in Nat
  BY <1>1, LenProperties
<1>3. \A i : i \in 1..Len(s) + 1 <=> i \in 1..Len(s) \/ i = Len(s) + 1
  BY <1>2
<1>4. /\ n # m => Where(a, m) = Where(s, m)
      /\ n = m => Where(a, m) = Where(s, m) \cup {Len(s) + 1}
  BY <1>1, <1>2, <1>3 DEF Where
<1>5. Len(s) + 1 \in Nat \ Where(s, m)
  BY <1>2 DEF Where
<1> QED  BY <1>4, <1>5 DEF a

\* A position more counts for one.
LEMMA OneMore ==
  ASSUME NEW S, IsFiniteSet(S), NEW x, x \notin S
  PROVE  /\ IsFiniteSet(S \cup {x}) /\ Cardinality(S) \in Nat
         /\ Cardinality(S \cup {x}) = Cardinality(S) + 1
  BY FS_AddElement, FS_CardinalityType

\* iter.Next() takes the first message: what was at i + 1 is at i afterwards, and
\* the message itself waits for Add.
LEMMA WhereTail ==
  ASSUME NEW s \in Seq(Msg), s # <<>>, NEW m \in Msg, NEW Z \in SUBSET {0},
         Z # {} => Head(s) = m
  PROVE  /\ IsFiniteSet(Where(Tail(s), m) \cup Z)
         /\ Cardinality(Where(Tail(s), m) \cup Z) <= Cardinality(Where(s, m))
<1> DEFINE G == Where(Tail(s), m) \cup Z
           f == [i \in G |-> i + 1]
<1>1. /\ Tail(s) \in Seq(Msg) /\ Len(Tail(s)) = Len(s) - 1
      /\ \A i \in 1..Len(Tail(s)) : Tail(s)[i] = s[i + 1]
      /\ Head(s) = s[1] /\ Len(s) \in Nat /\ Len(s) # 0
  BY HeadTailProperties, LenProperties, EmptySeq
<1>2. DOMAIN Tail(s) = 1..(Len(s) - 1) /\ DOMAIN s = 1..Len(s)
  BY <1>1, LenProperties
<1>3. \A i \in G : i \in Nat /\ i + 1 \in Where(s, m)
  <2>1. ASSUME NEW i \in Where(Tail(s), m)
        PROVE  i \in Nat /\ i + 1 \in Where(s, m)
    BY <1>1, <1>2, <2>1 DEF Where
  <2>2. ASSUME NEW i \in Z
        PROVE  i \in Nat /\ i + 1 \in Where(s, m)
    BY <1>1, <1>2, <2>2 DEF Where
  <2> QED  BY <2>1, <2>2
<1> HIDE DEF G
<1>4. f \in [G -> Where(s, m)] /\ \A i, j \in G : f[i] = f[j] => i = j
  BY <1>3
<1>5. f \in Injection(G, Where(s, m))
  BY <1>4 DEF Injection, IsInjective
<1> HIDE DEF f
<1>6. IsFiniteSet(G) /\ Cardinality(G) <= Cardinality(Where(s, m))
  BY <1>5, CountType, FS_Injection
<1> QED  BY <1>6 DEF G

\* One process changes its part of a family; what the others have stays.
LEMMA WaitingMoves ==
  ASSUME TypeOK, TypeOK', NEW m \in Msg, Finite(m), NEW w \in Worker,
         \A v \in Worker \ {w} : /\ fetched'[v] = fetched[v] /\ cur'[v] = cur[v]
                                 /\ pc'[v]["consumer"] = pc[v]["consumer"]
  PROVE  /\ IsFiniteSet(Waiting(m))'
         /\ Cardinality(Waiting(m))' \in Nat /\ Cardinality(Waiting(m)) \in Nat
         /\ Cardinality(WaitingAt(m)[w]) \in Nat /\ Cardinality(WaitingAt(m)'[w]) \in Nat
         /\ Cardinality(Waiting(m))' + Cardinality(WaitingAt(m)[w])
              = Cardinality(Waiting(m)) + Cardinality(WaitingAt(m)'[w])
<1> DEFINE F == WaitingAt(m)
           G == WaitingAt(m)'
<1>1. /\ F \in [Worker -> SUBSET Nat] /\ IsFiniteSet(F[w])
      /\ G \in [Worker -> SUBSET Nat] /\ IsFiniteSet(G[w])
  BY AtStep DEF AtOK
<1>2. ASSUME NEW v \in Worker \ {w}
      PROVE  G[v] = F[v]
  <2>1. /\ F[v] = Where(fetched[v], m) \cup InHand(pc[v]["consumer"], cur[v], m)
        /\ G[v] = Where(fetched'[v], m) \cup InHand(pc'[v]["consumer"], cur'[v], m)
    BY AtStep
  <2>2. /\ fetched'[v] = fetched[v] /\ cur'[v] = cur[v]
        /\ pc'[v]["consumer"] = pc[v]["consumer"]
    OBVIOUS
  <2> HIDE DEF F, G
  <2> QED  BY <2>1, <2>2
<1>3. Waiting(m) = Places(F) /\ Waiting(m)' = Places(G) /\ IsFiniteSet(Places(F))
  BY DEF Waiting, Finite
<1> HIDE DEF F, G
<1>4. /\ IsFiniteSet(Places(G))
      /\ Cardinality(Places(G)) \in Nat /\ Cardinality(Places(F)) \in Nat
      /\ Cardinality(F[w]) \in Nat /\ Cardinality(G[w]) \in Nat
      /\ Cardinality(Places(G)) + Cardinality(F[w])
           = Cardinality(Places(F)) + Cardinality(G[w])
  BY <1>1, <1>2, <1>3, PlacesSplit
<1> QED  BY <1>3, <1>4 DEF F, G

\* The same of the buffers.
LEMMA BufferedMoves ==
  ASSUME TypeOK, TypeOK', NEW m \in Msg, Finite(m), NEW w \in Worker,
         \A v \in Worker \ {w} : buf'[v] = buf[v]
  PROVE  /\ IsFiniteSet(Buffered(m))'
         /\ Cardinality(Buffered(m))' \in Nat /\ Cardinality(Buffered(m)) \in Nat
         /\ Cardinality(BufferedAt(m)[w]) \in Nat /\ Cardinality(BufferedAt(m)'[w]) \in Nat
         /\ Cardinality(Buffered(m))' + Cardinality(BufferedAt(m)[w])
              = Cardinality(Buffered(m)) + Cardinality(BufferedAt(m)'[w])
<1> DEFINE F == BufferedAt(m)
           G == BufferedAt(m)'
<1>1. /\ F \in [Worker -> SUBSET Nat] /\ IsFiniteSet(F[w])
      /\ G \in [Worker -> SUBSET Nat] /\ IsFiniteSet(G[w])
  BY AtStep DEF AtOK
<1>2. ASSUME NEW v \in Worker \ {w}
      PROVE  G[v] = F[v]
  BY AtStep
<1>3. Buffered(m) = Places(F) /\ Buffered(m)' = Places(G) /\ IsFiniteSet(Places(F))
  BY DEF Buffered, Finite
<1> HIDE DEF F, G
<1>4. /\ IsFiniteSet(Places(G))
      /\ Cardinality(Places(G)) \in Nat /\ Cardinality(Places(F)) \in Nat
      /\ Cardinality(F[w]) \in Nat /\ Cardinality(G[w]) \in Nat
      /\ Cardinality(Places(G)) + Cardinality(F[w])
           = Cardinality(Places(F)) + Cardinality(G[w])
  BY <1>1, <1>2, <1>3, PlacesSplit
<1> QED  BY <1>3, <1>4 DEF F, G

\* The same of the batches in flight, where the owner is a goroutine.
LEMMA InFlightMoves ==
  ASSUME TypeOK, TypeOK', NEW m \in Msg, Finite(m), NEW w \in Worker, NEW t \in Thread,
         \A v \in Worker, u \in Thread : v # w \/ u # t => batch'[v][u] = batch[v][u]
  PROVE  /\ IsFiniteSet(InFlight(m))'
         /\ Cardinality(InFlight(m))' \in Nat /\ Cardinality(InFlight(m)) \in Nat
         /\ Count(batch[w][t], m) \in Nat /\ Count(batch'[w][t], m) \in Nat
         /\ Cardinality(InFlight(m))' + Count(batch[w][t], m)
              = Cardinality(InFlight(m)) + Count(batch'[w][t], m)
<1> DEFINE F == InFlightAt(m)
           G == InFlightAt(m)'
           k == <<w, t>>
<1>1. /\ F \in [Worker \X Thread -> SUBSET Nat] /\ IsFiniteSet(F[k])
      /\ G \in [Worker \X Thread -> SUBSET Nat] /\ IsFiniteSet(G[k])
      /\ k \in Worker \X Thread
  BY AtStep DEF AtOK
<1>2. ASSUME NEW j \in (Worker \X Thread) \ {k}
      PROVE  G[j] = F[j]
  <2>1. PICK v \in Worker, u \in Thread : j = <<v, u>> /\ (v # w \/ u # t)
    OBVIOUS
  <2> QED  BY <2>1, AtStep
<1>3. /\ InFlight(m) = Places(F) /\ InFlight(m)' = Places(G) /\ IsFiniteSet(Places(F))
      /\ F[k] = Where(batch[w][t], m) /\ G[k] = Where(batch'[w][t], m)
  <2>1. F[k] = Where(batch[w][t], m) /\ G[k] = Where(batch'[w][t], m)
    BY AtStep
  <2> QED  BY <2>1 DEF InFlight, Finite
<1> HIDE DEF F, G, k
<1>4. /\ IsFiniteSet(Places(G))
      /\ Cardinality(Places(G)) \in Nat /\ Cardinality(Places(F)) \in Nat
      /\ Cardinality(F[k]) \in Nat /\ Cardinality(G[k]) \in Nat
      /\ Cardinality(Places(G)) + Cardinality(F[k])
           = Cardinality(Places(F)) + Cardinality(G[k])
  BY <1>1, <1>2, <1>3, PlacesSplit
<1> QED  BY <1>3, <1>4 DEF Count

\* A delivery pays for the copy that waits from now on.
LEMMA CopiesDeliver ==
  ASSUME TypeOK, TypeOK', NEW m \in Msg, Finite(m), Paid(m),
         NEW w \in Worker, NEW n \in Msg, Deliver(w, n)
  PROVE  Finite(m)' /\ Paid(m)'
<1>1. /\ table' = table /\ buf' = buf /\ batch' = batch /\ pc' = pc /\ cur' = cur
      /\ fetched[w] \in Seq(Msg) /\ fetched'[w] = Append(fetched[w], n)
      /\ \A v \in Worker \ {w} : fetched'[v] = fetched[v]
      /\ deliveries'[m] = IF n = m THEN deliveries[m] + 1 ELSE deliveries[m]
  BY DEF Deliver, TypeOK, batchVars, tableVars
<1>2. CASE n # m
  <2>1. \A v \in Worker : Where(fetched'[v], m) \subseteq Where(fetched[v], m)
    <3>1. Where(Append(fetched[w], n), m) = Where(fetched[w], m)
      BY <1>1, <1>2, WhereAppend
    <3> QED  BY <1>1, <3>1
  <2>2. table'[m] = table[m] /\ deliveries'[m] = deliveries[m]
    BY <1>1, <1>2
  <2> QED  BY <1>1, <2>1, <2>2, CopiesFewer
<1>3. CASE n = m
  <2>1. /\ WaitingAt(m)[w] = Where(fetched[w], m) \cup InHand(pc[w]["consumer"], cur[w], m)
        /\ WaitingAt(m)'[w] = Where(fetched'[w], m) \cup InHand(pc[w]["consumer"], cur[w], m)
        /\ IsFiniteSet(WaitingAt(m)[w]) /\ InHand(pc[w]["consumer"], cur[w], m) \subseteq {0}
    <3>1. /\ InHand(pc'[w]["consumer"], cur'[w], m) = InHand(pc[w]["consumer"], cur[w], m)
          /\ InHand(pc[w]["consumer"], cur[w], m) \subseteq {0}
      BY <1>1 DEF InHand
    <3> QED  BY <3>1, AtStep DEF AtOK
  <2>2. /\ WaitingAt(m)'[w] = WaitingAt(m)[w] \cup {Len(fetched[w]) + 1}
        /\ Len(fetched[w]) + 1 \notin WaitingAt(m)[w]
    <3>1. /\ Where(fetched'[w], m) = Where(fetched[w], m) \cup {Len(fetched[w]) + 1}
          /\ Len(fetched[w]) + 1 \notin Where(fetched[w], m)
      BY <1>1, <1>3, WhereAppend
    <3>2. Len(fetched[w]) + 1 # 0
      BY <1>1, LenProperties
    <3> QED  BY <2>1, <3>1, <3>2
  <2>4. Cardinality(WaitingAt(m)'[w]) = Cardinality(WaitingAt(m)[w]) + 1
    BY <2>1, <2>2, OneMore
  <2>5. /\ IsFiniteSet(Waiting(m))'
        /\ Cardinality(Waiting(m))' \in Nat /\ Cardinality(Waiting(m)) \in Nat
        /\ Cardinality(WaitingAt(m)[w]) \in Nat
        /\ Cardinality(Waiting(m))' + Cardinality(WaitingAt(m)[w])
             = Cardinality(Waiting(m)) + Cardinality(WaitingAt(m)'[w])
    BY <1>1, WaitingMoves
  <2>6. Cardinality(Waiting(m))' = Cardinality(Waiting(m)) + 1
    BY <2>4, <2>5
  <2>7. /\ Buffered(m)' = Buffered(m) /\ InFlight(m)' = InFlight(m)
    BY <1>1 DEF Buffered, BufferedAt, InFlight, InFlightAt, Where
  <2>8. /\ table[m] \in Nat /\ deliveries[m] \in Nat /\ Size[m] \in Nat
        /\ Cardinality(Buffered(m)) \in Nat /\ Cardinality(InFlight(m)) \in Nat
    BY FS_CardinalityType, MsgAssumption DEF TypeOK, Finite
  <2>9. \A a, k \in Nat : (a + 1) * k = a * k + k /\ a * k \in Nat
    OBVIOUS
  <2>10. Paid(m)'
    <3>1. /\ Cardinality(Waiting(m))' * Size[m] = Cardinality(Waiting(m)) * Size[m] + Size[m]
          /\ deliveries'[m] * Size[m] = deliveries[m] * Size[m] + Size[m]
          /\ Cardinality(Waiting(m)) * Size[m] \in Nat /\ deliveries[m] * Size[m] \in Nat
      BY <1>1, <1>3, <2>5, <2>6, <2>8, <2>9, ZenonT(60)
    <3> QED  BY <1>1, <2>7, <2>8, <3>1, SMTT(30) DEF Paid
  <2>11. Finite(m)'
    BY <2>5, <2>7 DEF Finite
  <2> QED  BY <2>10, <2>11
<1> QED  BY <1>2, <1>3

\* iter.Next() moves one copy from the queue of the iterator into the loop.
LEMMA CopiesNext ==
  ASSUME TypeOK, TypeOK', NEW m \in Msg, Finite(m), Paid(m),
         NEW w \in Worker, IterNext(w)
  PROVE  Finite(m)' /\ Paid(m)'
<1>0. "consumer" \in Thread
  BY Threads
<1>1. /\ table' = table /\ buf' = buf /\ batch' = batch /\ deliveries' = deliveries
      /\ fetched[w] \in Seq(Msg) /\ fetched[w] # <<>>
      /\ fetched'[w] = Tail(fetched[w]) /\ cur'[w] = Head(fetched[w])
      /\ \A v \in Worker \ {w} : fetched'[v] = fetched[v] /\ cur'[v] = cur[v]
      /\ pc[w]["consumer"] = "next"
  BY DEF IterNext, TypeOK, batchVars, tableVars, queueVars
<1>2. \A v \in Worker \ {w} : pc'[v]["consumer"] = pc[v]["consumer"]
  BY <1>0, GotoOthers DEF IterNext
<1>3. /\ WaitingAt(m)[w] = Where(fetched[w], m)
      /\ WaitingAt(m)'[w] = Where(Tail(fetched[w]), m) \cup InHand(pc'[w]["consumer"], cur'[w], m)
      /\ InHand(pc'[w]["consumer"], cur'[w], m) \in SUBSET {0}
      /\ InHand(pc'[w]["consumer"], cur'[w], m) # {} => Head(fetched[w]) = m
  <2>1. /\ InHand(pc[w]["consumer"], cur[w], m) = {}
        /\ InHand(pc'[w]["consumer"], cur'[w], m) \in SUBSET {0}
        /\ InHand(pc'[w]["consumer"], cur'[w], m) # {} => Head(fetched[w]) = m
    BY <1>1 DEF InHand
  <2>2. /\ WaitingAt(m)[w] = Where(fetched[w], m) \cup InHand(pc[w]["consumer"], cur[w], m)
        /\ WaitingAt(m)'[w] = Where(fetched'[w], m) \cup InHand(pc'[w]["consumer"], cur'[w], m)
    BY AtStep
  <2> QED  BY <1>1, <2>1, <2>2
<1>4. Cardinality(WaitingAt(m)'[w]) <= Cardinality(WaitingAt(m)[w])
  BY <1>1, <1>3, WhereTail
<1>5. /\ IsFiniteSet(Waiting(m))'
      /\ Cardinality(Waiting(m))' \in Nat /\ Cardinality(Waiting(m)) \in Nat
      /\ Cardinality(WaitingAt(m)[w]) \in Nat /\ Cardinality(WaitingAt(m)'[w]) \in Nat
      /\ Cardinality(Waiting(m))' + Cardinality(WaitingAt(m)[w])
           = Cardinality(Waiting(m)) + Cardinality(WaitingAt(m)'[w])
  BY <1>1, <1>2, WaitingMoves
<1>6. Buffered(m)' = Buffered(m) /\ InFlight(m)' = InFlight(m)
  BY <1>1 DEF Buffered, BufferedAt, InFlight, InFlightAt, Where
<1>7. Finite(m)'
  BY <1>5, <1>6 DEF Finite
<1>8. /\ Cardinality(Waiting(m))' <= Cardinality(Waiting(m))
  BY <1>4, <1>5
<1>9. table'[m] + Cardinality(Buffered(m))' + Cardinality(InFlight(m))'
        <= table[m] + Cardinality(Buffered(m)) + Cardinality(InFlight(m))
  <2>1. /\ table[m] \in Nat
        /\ Cardinality(Buffered(m)) \in Nat /\ Cardinality(InFlight(m)) \in Nat
    BY FS_CardinalityType DEF TypeOK, Finite
  <2> QED  BY <1>1, <1>6, <2>1
<1> QED  BY <1>1, <1>7, <1>8, <1>9, Balance

\* Add turns a copy that waits into Size[m] records in the buffer.
LEMMA CopiesAdd ==
  ASSUME Typed, TypeOK', NEW m \in Msg, Finite(m), Paid(m),
         NEW w \in Worker, Add(w)
  PROVE  Finite(m)' /\ Paid(m)'
<1>0. TypeOK /\ "consumer" \in Thread
  BY Threads DEF Typed
<1>1. /\ table' = table /\ batch' = batch /\ deliveries' = deliveries
      /\ fetched' = fetched /\ cur' = cur
      /\ buf'[w] = buf[w] \o Payload(cur[w])
      /\ \A v \in Worker \ {w} : buf'[v] = buf[v]
      /\ pc[w]["consumer"] = "add" /\ cur[w] \in Msg /\ buf[w] \in Seq(Msg)
      /\ fetched[w] \in Seq(Msg)
  BY DEF Add, Typed, TypeOK, CurOK, loopVars, tableVars, queueVars
<1>2. /\ pc'[w]["consumer"] # "add"
      /\ \A v \in Worker \ {w} : pc'[v]["consumer"] = pc[v]["consumer"]
  BY <1>0, GotoOthers DEF Add
<1>3. /\ BufferedAt(m)[w] = Where(buf[w], m)
      /\ BufferedAt(m)'[w] = Where(buf[w] \o Payload(cur[w]), m)
      /\ WaitingAt(m)[w] = Where(fetched[w], m) \cup InHand(pc[w]["consumer"], cur[w], m)
      /\ WaitingAt(m)'[w] = Where(fetched'[w], m) \cup InHand(pc'[w]["consumer"], cur'[w], m)
  <2>1. BufferedAt(m)'[w] = Where(buf'[w], m)
    BY <1>0, AtStep
  <2> QED  BY <1>0, <1>1, <2>1, AtStep
<1>4. Cardinality(BufferedAt(m)'[w])
        = Cardinality(BufferedAt(m)[w]) + (IF m = cur[w] THEN Size[m] ELSE 0)
  BY <1>1, <1>3, CountConcat DEF Count
<1>5. Cardinality(WaitingAt(m)[w])
        = Cardinality(WaitingAt(m)'[w]) + (IF m = cur[w] THEN 1 ELSE 0)
  <2>1. /\ WaitingAt(m)[w] = Where(fetched[w], m) \cup (IF m = cur[w] THEN {0} ELSE {})
        /\ WaitingAt(m)'[w] = Where(fetched[w], m)
    BY <1>1, <1>2, <1>3 DEF InHand
  <2>2. IsFiniteSet(Where(fetched[w], m)) /\ 0 \notin Where(fetched[w], m)
    <3>1. DOMAIN fetched[w] = 1..Len(fetched[w])
      BY <1>1, LenProperties
    <3>2. IsFiniteSet(Where(fetched[w], m))
      BY <1>1, CountType
    <3>3. 0 \notin Where(fetched[w], m)
      BY <1>1, <3>1, LenProperties DEF Where
    <3> QED  BY <3>2, <3>3
  <2>3. CASE m = cur[w]
    BY <2>1, <2>2, <2>3, OneMore
  <2>4. CASE m # cur[w]
    <3>1. Cardinality(Where(fetched[w], m)) \in Nat
      BY <2>2, FS_CardinalityType
    <3>2. WaitingAt(m)[w] = Where(fetched[w], m) /\ WaitingAt(m)'[w] = Where(fetched[w], m)
      BY <2>1, <2>4
    <3> QED  BY <2>4, <3>1, <3>2
  <2> QED  BY <2>3, <2>4
<1>6. /\ IsFiniteSet(Waiting(m))'
      /\ Cardinality(Waiting(m))' \in Nat /\ Cardinality(Waiting(m)) \in Nat
      /\ Cardinality(WaitingAt(m)[w]) \in Nat /\ Cardinality(WaitingAt(m)'[w]) \in Nat
      /\ Cardinality(Waiting(m))' + Cardinality(WaitingAt(m)[w])
           = Cardinality(Waiting(m)) + Cardinality(WaitingAt(m)'[w])
  BY <1>0, <1>1, <1>2, WaitingMoves
<1>7. /\ IsFiniteSet(Buffered(m))'
      /\ Cardinality(Buffered(m))' \in Nat /\ Cardinality(Buffered(m)) \in Nat
      /\ Cardinality(BufferedAt(m)[w]) \in Nat /\ Cardinality(BufferedAt(m)'[w]) \in Nat
      /\ Cardinality(Buffered(m))' + Cardinality(BufferedAt(m)[w])
           = Cardinality(Buffered(m)) + Cardinality(BufferedAt(m)'[w])
  BY <1>0, <1>1, BufferedMoves
<1>8. InFlight(m)' = InFlight(m)
  BY <1>1 DEF InFlight, InFlightAt, Where
<1>9. Finite(m)'
  BY <1>6, <1>7, <1>8 DEF Finite
<1>10. /\ table[m] \in Nat /\ deliveries[m] \in Nat /\ Size[m] \in Nat
       /\ Cardinality(InFlight(m)) \in Nat
  BY <1>0, FS_CardinalityType, MsgAssumption DEF TypeOK, Finite
<1>11. \A a, k \in Nat : (a + 1) * k = a * k + k /\ a * k \in Nat
  OBVIOUS
<1>12. CASE m = cur[w]
  <2>1. /\ Cardinality(Waiting(m)) = Cardinality(Waiting(m))' + 1
        /\ Cardinality(Buffered(m))' = Cardinality(Buffered(m)) + Size[m]
    BY <1>4, <1>5, <1>6, <1>7, <1>10, <1>12
  <2>2. /\ Cardinality(Waiting(m)) * Size[m] = Cardinality(Waiting(m))' * Size[m] + Size[m]
        /\ Cardinality(Waiting(m))' * Size[m] \in Nat /\ deliveries[m] * Size[m] \in Nat
    BY <1>6, <1>10, <1>11, <2>1
  <2>3. Paid(m)'
    <3> DEFINE waits == Cardinality(Waiting(m)) * Size[m]
               left  == Cardinality(Waiting(m))' * Size[m]
               paid  == deliveries[m] * Size[m]
    <3>1. table[m] + Cardinality(Buffered(m)) + Cardinality(InFlight(m)) + waits <= paid
      BY DEF Paid
    <3>2. waits = left + Size[m] /\ left \in Nat /\ paid \in Nat
      BY <2>2
    <3> HIDE DEF waits, left, paid
    <3>3. table[m] + Cardinality(Buffered(m))' + Cardinality(InFlight(m)) + left <= paid
      BY <1>7, <1>10, <2>1, <3>1, <3>2
    <3> QED  BY <1>1, <1>8, <3>3 DEF Paid, left, paid
  <2> QED  BY <1>9, <2>3
<1>13. CASE m # cur[w]
  <2>1. /\ Cardinality(Waiting(m)) = Cardinality(Waiting(m))'
        /\ Cardinality(Buffered(m))' = Cardinality(Buffered(m))
    BY <1>4, <1>5, <1>6, <1>7, <1>13
  <2>2. Paid(m)'
    BY <1>1, <1>8, <2>1 DEF Paid
  <2> QED  BY <1>9, <2>2
<1> QED  BY <1>12, <1>13

\* Flush moves the records of the buffer to the goroutine's empty hands.
LEMMA CopiesTake ==
  ASSUME TypeOK, TypeOK', HandsEmpty, NEW m \in Msg, Finite(m), Paid(m),
         NEW w \in Worker, NEW t \in Thread, Take(w, t)
  PROVE  Finite(m)' /\ Paid(m)'
<1>1. /\ table' = table /\ deliveries' = deliveries /\ fetched' = fetched /\ cur' = cur
      /\ buf'[w] = <<>> /\ batch'[w][t] = buf[w]
      /\ \A v \in Worker \ {w} : buf'[v] = buf[v]
      /\ batch[w][t] = <<>> /\ pc[w][t] = "flush"
  BY DEF Take, LockedPart, TypeOK, HandsEmpty, loopVars, tableVars, queueVars
<1>2. \A v \in Worker, u \in Thread : v # w \/ u # t => batch'[v][u] = batch[v][u]
  BY DEF Take, LockedPart, TypeOK
<1>3. \A v \in Worker : pc'[v]["consumer"] = "add" => pc[v]["consumer"] = "add"
  <2>1. Goto(w, t, IF buf[w] = <<>> THEN AfterFlush(t) ELSE "insert")
    BY DEF Take, LockedPart
  <2>2. (IF buf[w] = <<>> THEN AfterFlush(t) ELSE "insert") # "add"
    BY DEF AfterFlush
  <2> QED  BY <2>1, <2>2, GotoOthers, Threads
<1>4. Where(<<>>, m) = {} /\ Cardinality(Where(<<>>, m)) = 0
  <2>1. Where(<<>>, m) = {}
    BY DEF Where
  <2> QED  BY <2>1, FS_EmptySet
<1>5. BufferedAt(m)[w] = Where(buf[w], m) /\ BufferedAt(m)'[w] = Where(<<>>, m)
  <2>1. BufferedAt(m)[w] = Where(buf[w], m) /\ BufferedAt(m)'[w] = Where(buf'[w], m)
    BY AtStep
  <2> QED  BY <1>1, <2>1
<1>6. /\ IsFiniteSet(Buffered(m))'
      /\ Cardinality(Buffered(m))' \in Nat /\ Cardinality(Buffered(m)) \in Nat
      /\ Cardinality(BufferedAt(m)[w]) \in Nat
      /\ Cardinality(Buffered(m))' + Cardinality(BufferedAt(m)[w])
           = Cardinality(Buffered(m)) + Cardinality(BufferedAt(m)'[w])
  BY <1>1, BufferedMoves
<1>7. /\ IsFiniteSet(InFlight(m))'
      /\ Cardinality(InFlight(m))' \in Nat /\ Cardinality(InFlight(m)) \in Nat
      /\ Cardinality(InFlight(m))' + Count(batch[w][t], m)
           = Cardinality(InFlight(m)) + Count(batch'[w][t], m)
  BY <1>2, InFlightMoves
<1>8. Cardinality(Buffered(m))' + Cardinality(InFlight(m))'
        = Cardinality(Buffered(m)) + Cardinality(InFlight(m))
  BY <1>1, <1>4, <1>5, <1>6, <1>7 DEF Count
<1>9. /\ IsFiniteSet(Waiting(m))'
      /\ Cardinality(Waiting(m))' <= Cardinality(Waiting(m))
  <2>1. AtOK(m) /\ AtOK(m)'
    BY AtStep
  <2>2. ASSUME NEW v \in Worker
        PROVE  WaitingAt(m)'[v] \subseteq WaitingAt(m)[v]
    <3>1. /\ WaitingAt(m)[v] = Where(fetched[v], m) \cup InHand(pc[v]["consumer"], cur[v], m)
          /\ WaitingAt(m)'[v] = Where(fetched'[v], m) \cup InHand(pc'[v]["consumer"], cur'[v], m)
      BY AtStep
    <3> QED  BY <1>1, <1>3, <3>1 DEF InHand
  <2> QED  BY <2>1, <2>2, PlacesShrink DEF AtOK, Finite, Waiting
<1>10. Finite(m)'
  BY <1>6, <1>7, <1>9 DEF Finite
<1>11. table'[m] + Cardinality(Buffered(m))' + Cardinality(InFlight(m))'
         <= table[m] + Cardinality(Buffered(m)) + Cardinality(InFlight(m))
  BY <1>1, <1>6, <1>7, <1>8, SMTT(30) DEF TypeOK
<1> QED  BY <1>1, <1>9, <1>10, <1>11, Balance

\* An insert writes at most the records the goroutine had in hand.
LEMMA CopiesInsert ==
  ASSUME TypeOK, TypeOK', NEW m \in Msg, Finite(m), Paid(m),
         NEW w \in Worker, NEW t \in Thread, InsertOk(w, t) \/ InsertFail(w, t)
  PROVE  Finite(m)' /\ Paid(m)'
<1>1. /\ buf' = buf /\ deliveries' = deliveries /\ fetched' = fetched /\ cur' = cur
      /\ batch' = [batch EXCEPT ![w][t] = <<>>]
  BY DEF InsertOk, InsertFail, loopVars, queueVars
<1>2. /\ batch'[w][t] = <<>> /\ batch[w][t] \in Seq(Msg)
      /\ \A v \in Worker, u \in Thread : v # w \/ u # t => batch'[v][u] = batch[v][u]
  BY <1>1 DEF TypeOK
<1>3. \A v \in Worker : pc'[v]["consumer"] = "add" => pc[v]["consumer"] = "add"
  <2>1. \E label : label # "add" /\ Goto(w, t, label)
    BY DEF InsertOk, InsertFail, AfterFlush, AfterError
  <2> QED  BY <2>1, GotoOthers, Threads
<1>4. PICK S \in SUBSET Where(batch[w][t], m) : table'[m] = table[m] + Cardinality(S)
  BY DEF InsertOk, InsertFail, Count
<1>5. Cardinality(S) \in Nat /\ Cardinality(S) <= Count(batch[w][t], m)
  BY <1>2, <1>4, CountType, FS_Subset, FS_CardinalityType DEF Count
<1>6. Count(batch'[w][t], m) = 0
  <2>1. Where(<<>>, m) = {}
    BY DEF Where
  <2> QED  BY <1>2, <2>1, FS_EmptySet DEF Count
<1>7. /\ IsFiniteSet(InFlight(m))'
      /\ Cardinality(InFlight(m))' \in Nat /\ Cardinality(InFlight(m)) \in Nat
      /\ Count(batch[w][t], m) \in Nat
      /\ Cardinality(InFlight(m))' + Count(batch[w][t], m)
           = Cardinality(InFlight(m)) + Count(batch'[w][t], m)
  BY <1>2, InFlightMoves
<1>8. Buffered(m)' = Buffered(m)
  BY <1>1 DEF Buffered, BufferedAt, Where
<1>9. /\ IsFiniteSet(Waiting(m))'
      /\ Cardinality(Waiting(m))' <= Cardinality(Waiting(m))
  <2>1. AtOK(m) /\ AtOK(m)'
    BY AtStep
  <2>2. ASSUME NEW v \in Worker
        PROVE  WaitingAt(m)'[v] \subseteq WaitingAt(m)[v]
    <3>1. /\ WaitingAt(m)[v] = Where(fetched[v], m) \cup InHand(pc[v]["consumer"], cur[v], m)
          /\ WaitingAt(m)'[v] = Where(fetched'[v], m) \cup InHand(pc'[v]["consumer"], cur'[v], m)
      BY AtStep
    <3> QED  BY <1>1, <1>3, <3>1 DEF InHand
  <2> QED  BY <2>1, <2>2, PlacesShrink DEF AtOK, Finite, Waiting
<1>10. Finite(m)'
  BY <1>7, <1>8, <1>9 DEF Finite
<1>11. table'[m] + Cardinality(Buffered(m))' + Cardinality(InFlight(m))'
         <= table[m] + Cardinality(Buffered(m)) + Cardinality(InFlight(m))
  <2>1. table[m] \in Nat /\ Cardinality(Buffered(m)) \in Nat
    BY FS_CardinalityType DEF TypeOK, Finite
  <2> QED  BY <1>4, <1>5, <1>6, <1>7, <1>8, <2>1
<1> QED  BY <1>1, <1>9, <1>10, <1>11, Balance

\* No step puts more records of a message into the system than its deliveries
\* have paid for.
LEMMA CopiesStep ==
  ASSUME Typed, HandsEmpty, CopiesInv, [Next]_vars
  PROVE  CopiesInv'
<1>0. /\ TypeOK /\ TypeOK' /\ "consumer" \in Thread /\ "stopper" \in Thread
      /\ TimerRoutine \subseteq Thread /\ "consumer" \notin TimerRoutine
  BY TypedNext, Threads DEF Typed
<1> SUFFICES ASSUME NEW m \in Msg
             PROVE  Finite(m)' /\ Paid(m)'
  BY DEF CopiesInv
<1>1. Finite(m) /\ Paid(m)
  BY DEF CopiesInv
<1>2. Where(<<>>, m) = {}
  BY DEF Where
<1> DEFINE Less == /\ table' = table /\ deliveries' = deliveries
                   /\ \A v \in Worker :
                        /\ buf'[v] \in {buf[v], <<>>} /\ fetched'[v] \in {fetched[v], <<>>}
                        /\ pc'[v]["consumer"] = "add" =>
                             pc[v]["consumer"] = "add" /\ cur'[v] = cur[v]
                        /\ \A u \in Thread : batch'[v][u] \in {batch[v][u], <<>>}
<1>3. ASSUME Less
      PROVE  Finite(m)' /\ Paid(m)'
  <2>1. \A v \in Worker :
          /\ Where(buf'[v], m) \subseteq Where(buf[v], m)
          /\ Where(fetched'[v], m) \subseteq Where(fetched[v], m)
          /\ \A u \in Thread : Where(batch'[v][u], m) \subseteq Where(batch[v][u], m)
    BY <1>2, <1>3
  <2> QED  BY <1>0, <1>1, <1>3, <2>1, CopiesFewer
<1>4. CASE UNCHANGED vars
  BY <1>3, <1>4 DEF vars
<1>5. ASSUME NEW n \in Msg, Queue(n)
      PROVE  Finite(m)' /\ Paid(m)'
  <2>1. CASE Publish(n) \/ AckWait(n) \/ Expire(n)
    <3>1. Less
      BY <2>1 DEF Publish, AckWait, Expire, loopVars, batchVars, tableVars
    <3> QED  BY <1>3, <3>1
  <2> QED  BY <1>0, <1>1, <1>5, <2>1, CopiesDeliver DEF Queue
<1>6. ASSUME NEW w \in Worker, Consume(w)
      PROVE  Finite(m)' /\ Paid(m)'
  <2>1. CASE Top(w) \/ NextErr(w) \/ Ack(w) \/ Nak(w)
    <3>1. /\ table' = table /\ deliveries' = deliveries /\ buf' = buf /\ batch' = batch
          /\ fetched' = fetched
          /\ \A v \in Worker : v # w => cur'[v] = cur[v]
      BY <1>0, <2>1 DEF Top, NextErr, Ack, Nak, loopVars, batchVars, tableVars, queueVars, TypeOK
    <3>2. /\ pc'[w]["consumer"] # "add"
          /\ \A v \in Worker : v # w => pc'[v]["consumer"] = pc[v]["consumer"]
      <4>1. \E label \in {"top", "next", "returned"} : Goto(w, "consumer", label)
        BY <2>1 DEF Top, NextErr, Ack, Nak
      <4> QED  BY <1>0, <4>1, GotoOthers
    <3>3. Less
      BY <3>1, <3>2
    <3> QED  BY <1>3, <3>3
  <2> QED  BY <1>0, <1>1, <1>6, <2>1, CopiesNext, CopiesAdd DEF Consume
<1>7. ASSUME NEW w \in Worker, NEW t \in Thread, Flush(w, t)
      PROVE  Finite(m)' /\ Paid(m)'
  BY <1>0, <1>1, <1>7, CopiesTake, CopiesInsert DEF Flush
<1>8. ASSUME NEW w \in Worker, NEW t \in TimerRoutine, TimerFire(w, t)
      PROVE  Finite(m)' /\ Paid(m)'
  <2>1. Less
    BY <1>0, <1>8, GotoOthers DEF TimerFire, queueVars, loopVars, tableVars
  <2> QED  BY <1>3, <2>1
<1>9. ASSUME NEW w \in Worker, Process(w)
      PROVE  Finite(m)' /\ Paid(m)'
  <2>1. CASE Exit(w) \/ Crash(w)
    <3>1. \A v \in Worker, u \in Thread :
            /\ batch'[v][u] \in {batch[v][u], <<>>}
            /\ v # w => pc'[v][u] = pc[v][u]
      BY <1>0, <2>1, DeadHands DEF Exit, Crash
    <3>2. pc'[w]["consumer"] = "down"
      BY <1>0, <2>1 DEF Exit, Crash, Die, TypeOK
    <3>3. /\ table' = table /\ deliveries' = deliveries
          /\ \A v \in Worker : /\ buf'[v] \in {buf[v], <<>>} /\ fetched'[v] \in {fetched[v], <<>>}
                               /\ v # w => cur'[v] = cur[v]
      BY <1>0, <2>1 DEF Exit, Crash, Die, queueVars, TypeOK
    <3>4. Less
      BY <1>0, <3>1, <3>2, <3>3
    <3> QED  BY <1>3, <3>4
  <2>2. CASE Signal(w) \/ StopTimer(w) \/ Cancel(w)
    <3>1. Less
      BY <1>0, <2>2, GotoOthers
      DEF Signal, StopTimer, Cancel, queueVars, loopVars, batchVars, tableVars
    <3> QED  BY <1>3, <3>1
  <2>3. CASE Start(w)
    <3>1. /\ pc'[w]["consumer"] # "add"
          /\ \A v \in Worker : v # w => pc'[v]["consumer"] = pc[v]["consumer"]
      BY <1>0, <2>3, GotoOthers DEF Start
    <3>2. Less
      BY <2>3, <3>1 DEF Start, queueVars, tableVars
    <3> QED  BY <1>3, <3>2
  <2>4. CASE Disconnect(w) \/ Reconnect(w)
    <3>1. Less
      BY <2>4 DEF Disconnect, Reconnect, queueVars, batchVars, tableVars
    <3> QED  BY <1>3, <3>1
  <2> QED  BY <1>9, <2>1, <2>2, <2>3, <2>4 DEF Process
<1> QED  BY <1>4, <1>5, <1>6, <1>7, <1>8, <1>9 DEF Next

\* Nothing is anywhere before the first message is published.
LEMMA CopiesInit ==
  ASSUME Init
  PROVE  CopiesInv
<1> SUFFICES ASSUME NEW m \in Msg
             PROVE  Finite(m) /\ Paid(m)
  BY DEF CopiesInv
<1>1. Where(<<>>, m) = {}
  BY DEF Where
<1>2. "consumer" \in Thread
  BY Threads
<1>3. /\ \A w \in Worker : BufferedAt(m)[w] = {} /\ WaitingAt(m)[w] = {}
      /\ \A k \in Worker \X Thread : InFlightAt(m)[k] = {}
  BY <1>1, <1>2 DEF Init, BufferedAt, WaitingAt, InFlightAt, InHand
<1>4. /\ DOMAIN BufferedAt(m) = Worker /\ DOMAIN WaitingAt(m) = Worker
      /\ DOMAIN InFlightAt(m) = Worker \X Thread
  BY DEF BufferedAt, WaitingAt, InFlightAt
<1>5. Buffered(m) = {} /\ InFlight(m) = {} /\ Waiting(m) = {}
  BY <1>3, <1>4 DEF Buffered, InFlight, Waiting, Places
<1>6. table[m] = 0 /\ deliveries[m] = 0 /\ Size[m] \in Nat
  BY MsgAssumption DEF Init
<1>7. \A k \in Nat : 0 * k = 0
  OBVIOUS
<1> QED  BY <1>5, <1>6, <1>7, FS_EmptySet DEF Finite, Paid

\* The records in memory are those in the buffers and those in flight.
LEMMA CopiesOfInv ==
  ASSUME TypeOK, CopiesInv, NEW m \in Msg
  PROVE  Copies(m) <= deliveries[m] * Size[m]
<1> DEFINE held == UNION {HeldRecords(w, m) : w \in Worker}
           X == {<<x[1], "buf", x[2]>> : x \in Buffered(m)}
           Y == {<<x[1][1], x[1][2], x[2]>> : x \in InFlight(m)}
           f == [x \in Buffered(m) |-> <<x[1], "buf", x[2]>>]
           g == [x \in InFlight(m) |-> <<x[1][1], x[1][2], x[2]>>]
<1>1. AtOK(m) /\ Finite(m) /\ Paid(m)
  BY AtTypes DEF CopiesInv
<1>2. IsFiniteSet(X) /\ Cardinality(X) <= Cardinality(Buffered(m))
  <2>1. f \in Surjection(Buffered(m), X)
    BY DEF Surjection
  <2> QED  BY <1>1, <2>1, FS_Surjection DEF Finite
<1>3. IsFiniteSet(Y) /\ Cardinality(Y) <= Cardinality(InFlight(m))
  <2>1. g \in Surjection(InFlight(m), Y)
    BY DEF Surjection
  <2> QED  BY <1>1, <2>1, FS_Surjection DEF Finite
<1>4. held \subseteq X \cup Y
  <2>1. ASSUME NEW w \in Worker, NEW i \in Where(buf[w], m)
        PROVE  <<w, "buf", i>> \in X
    <3>1. <<w, i>> \in Buffered(m)
      BY <1>1, PlacesElements DEF AtOK, Buffered, BufferedAt
    <3> QED  BY <3>1
  <2>2. ASSUME NEW w \in Worker, NEW t \in Thread, NEW i \in Where(batch[w][t], m)
        PROVE  <<w, t, i>> \in Y
    <3>1. <<<<w, t>>, i>> \in InFlight(m)
      BY <1>1, PlacesElements DEF AtOK, InFlight, InFlightAt
    <3> QED  BY <3>1
  <2> QED  BY <2>1, <2>2 DEF HeldRecords
<1> HIDE DEF held, X, Y, f, g
<1>5. /\ Cardinality(held) <= Cardinality(X \cup Y) /\ IsFiniteSet(held)
      /\ Cardinality(X \cup Y) = Cardinality(X) + Cardinality(Y) - Cardinality(X \cap Y)
      /\ IsFiniteSet(X \cap Y) /\ IsFiniteSet(X \cup Y)
  BY <1>2, <1>3, <1>4, FS_Union, FS_Subset
<1>6. /\ Cardinality(held) \in Nat /\ Cardinality(X \cup Y) \in Nat
      /\ Cardinality(X) \in Nat /\ Cardinality(Y) \in Nat /\ Cardinality(X \cap Y) \in Nat
      /\ Cardinality(Buffered(m)) \in Nat /\ Cardinality(InFlight(m)) \in Nat
      /\ Cardinality(Waiting(m)) \in Nat
  BY <1>1, <1>2, <1>3, <1>5, FS_CardinalityType DEF Finite
<1>7. Cardinality(held) <= Cardinality(Buffered(m)) + Cardinality(InFlight(m))
  BY <1>2, <1>3, <1>5, <1>6
<1>8. /\ table[m] \in Nat /\ deliveries[m] \in Nat /\ Size[m] \in Nat
      /\ deliveries[m] * Size[m] \in Nat /\ Cardinality(Waiting(m)) * Size[m] \in Nat
  <2>1. table[m] \in Nat /\ deliveries[m] \in Nat /\ Size[m] \in Nat
    BY MsgAssumption DEF TypeOK
  <2>2. \A a, b \in Nat : a * b \in Nat
    OBVIOUS
  <2> QED  BY <1>6, <2>1, <2>2
<1>9. table[m] + Cardinality(held) <= deliveries[m] * Size[m]
  <2> DEFINE paid  == deliveries[m] * Size[m]
             waits == Cardinality(Waiting(m)) * Size[m]
  <2>1. /\ table[m] + Cardinality(Buffered(m)) + Cardinality(InFlight(m)) + waits <= paid
        /\ paid \in Nat /\ waits \in Nat
    BY <1>1, <1>8 DEF Paid
  <2> HIDE DEF paid, waits
  <2>2. table[m] + Cardinality(held) <= paid
    BY <1>6, <1>7, <1>8, <2>1
  <2> QED  BY <2>2 DEF paid
<1> QED  BY <1>9 DEF Copies, held

\* Duplicates come from redelivery only: whatever the goroutines of the
\* processors interleave, a message delivered n times has at most n copies of
\* each record in the table and in the memory of all processors together.
THEOREM RecordsNotDuplicated == Spec => []CopiesBounded
<1>1. Init => Typed /\ HandsEmpty /\ CopiesInv
  <2>1. Init => HandsEmpty
    BY DEF Init, HandsEmpty
  <2> QED  BY <2>1, TypedInit, CopiesInit
<1>2. Typed /\ HandsEmpty /\ CopiesInv /\ [Next]_vars => (Typed /\ HandsEmpty /\ CopiesInv)'
  BY TypedNext, HandsStep, CopiesStep
<1>3. Typed /\ CopiesInv => CopiesBounded
  BY CopiesOfInv DEF Typed, CopiesBounded
<1> QED  BY <1>1, <1>2, <1>3, PTL DEF Spec
=============================================================================
