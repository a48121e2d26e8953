--------------------------- MODULE AgentFifoProofs ---------------------------
(* Machine-checked proof that AgentPipeline implements AgentFifo, and that it     *)
(* neither loses nor reorders lines, for every value of its constants.            *)
EXTENDS AgentProofs, Flattening

----------------------------------------------------------------------------
(* The line of records, cut at each of the places that hold some.                *)

AtRaw      == chan["raw"]
AtParser   == hold["parser"] \o AtRaw
AtRecord   == chan["record"] \o AtParser
AtEnricher == hold["enricher"] \o AtRecord
AtEnrich   == chan["enrich"] \o AtEnricher
AtBuf      == buf \o AtEnrich
AtFlush    == flushing \o AtBuf
AtBatch    == FlattenSeq(batchq) \o AtFlush

\* What a concatenation is.
LEMMA Joined ==
  ASSUME NEW a \in Seq(Nat), NEW b \in Seq(Nat)
  PROVE  a \o b \in Seq(Nat) /\ Len(a \o b) = Len(a) + Len(b)
  OBVIOUS

\* Concatenation and its type, for proofs to treat as symbols.
Cat(a, b) == a \o b
Records   == Seq(Nat)

LEMMA CatTyped ==
  ASSUME NEW a \in Records, NEW b \in Records
  PROVE  Cat(a, b) \in Records
  BY DEF Cat, Records

LEMMA CatGroup ==
  ASSUME NEW a \in Records, NEW b \in Records, NEW c \in Records
  PROVE  Cat(Cat(a, b), c) = Cat(a, Cat(b, c))
  BY Regroup DEF Cat, Records

\* The parts are sequences of records, and Line is the whole.
Cut ==
  /\ AtRaw \in Seq(Nat) /\ AtParser \in Seq(Nat) /\ AtRecord \in Seq(Nat)
  /\ AtEnricher \in Seq(Nat) /\ AtEnrich \in Seq(Nat) /\ AtBuf \in Seq(Nat)
  /\ AtFlush \in Seq(Nat) /\ AtBatch \in Seq(Nat)
  /\ FlattenSeq(batchq) \in Seq(Nat) /\ Line \in Seq(Nat)
  /\ Line = sending \o AtBatch

Pieces ==
  /\ chan["raw"] \in Seq(Nat) /\ chan["record"] \in Seq(Nat) /\ chan["enrich"] \in Seq(Nat)
  /\ hold["parser"] \in Seq(Nat) /\ hold["enricher"] \in Seq(Nat)
  /\ buf \in Seq(Nat) /\ flushing \in Seq(Nat) /\ sending \in Seq(Nat)
  /\ batchq \in Seq(Seq(Nat))

\* The places hold sequences of records, batches in the batch channel.
LEMMA TypedPieces == TypeOK => Pieces
  BY DEF TypeOK, Pieces, Link, Stage

LEMMA TypedPiecesNext == TypeOK' => Pieces'
  BY TypedPieces, PTL

\* Hence the parts of the line are sequences of records too.
LEMMA CutPieces == Pieces => Cut
<1>0. SUFFICES ASSUME Pieces  PROVE Cut
  OBVIOUS
<1>1. AtRaw \in Seq(Nat) /\ AtParser \in Seq(Nat) /\ AtRecord \in Seq(Nat)
  BY <1>0, Joined DEF Pieces, AtRaw, AtParser, AtRecord
<1>2. AtEnricher \in Seq(Nat) /\ AtEnrich \in Seq(Nat) /\ AtBuf \in Seq(Nat)
  BY <1>0, <1>1, Joined DEF Pieces, AtEnricher, AtEnrich, AtBuf
<1>3. FlattenSeq(batchq) \in Seq(Nat)
  BY <1>0, FlattenTyped DEF Pieces
<1>4. AtFlush \in Seq(Nat) /\ AtBatch \in Seq(Nat)
  BY <1>0, <1>2, <1>3, Joined DEF Pieces, AtFlush, AtBatch
<1>5. Line = sending \o AtBatch
  <2>1. /\ chan["raw"] \in Records /\ chan["record"] \in Records /\ chan["enrich"] \in Records
        /\ hold["parser"] \in Records /\ hold["enricher"] \in Records
        /\ buf \in Records /\ flushing \in Records /\ sending \in Records
        /\ FlattenSeq(batchq) \in Records
    BY <1>0, <1>3 DEF Pieces, Records
  <2> DEFINE toBatch    == Cat(sending, FlattenSeq(batchq))
             toFlush    == Cat(toBatch, flushing)
             toBuf      == Cat(toFlush, buf)
             toEnrich   == Cat(toBuf, chan["enrich"])
             toEnricher == Cat(toEnrich, hold["enricher"])
             toRecord   == Cat(toEnricher, chan["record"])
             toParser   == Cat(toRecord, hold["parser"])
  <2>2. Line = Cat(toParser, AtRaw)
    BY DEF Line, Cat, AtRaw
  <2>3. toBatch \in Records /\ toFlush \in Records /\ toBuf \in Records
    BY <2>1, CatTyped
  <2> HIDE DEF toBatch, toFlush, toBuf
  <2>4. toEnrich \in Records /\ toEnricher \in Records /\ toRecord \in Records
    BY <2>1, <2>3, CatTyped
  <2> HIDE DEF toEnrich, toEnricher, toRecord, toParser
  <2>5. /\ AtRaw \in Records /\ AtParser \in Records /\ AtRecord \in Records
        /\ AtEnricher \in Records /\ AtEnrich \in Records /\ AtBuf \in Records
        /\ AtFlush \in Records
    BY <1>1, <1>2, <1>4 DEF Records
  <2>6. /\ AtParser = Cat(hold["parser"], AtRaw) /\ AtRecord = Cat(chan["record"], AtParser)
        /\ AtEnricher = Cat(hold["enricher"], AtRecord)
        /\ AtEnrich = Cat(chan["enrich"], AtEnricher)
        /\ AtBuf = Cat(buf, AtEnrich) /\ AtFlush = Cat(flushing, AtBuf)
        /\ AtBatch = Cat(FlattenSeq(batchq), AtFlush)
    BY DEF Cat, AtParser, AtRecord, AtEnricher, AtEnrich, AtBuf, AtFlush, AtBatch
  <2>7. Cat(toParser, AtRaw) = Cat(toRecord, AtParser)
    BY <2>1, <2>4, <2>5, <2>6, CatGroup, SMTT(30) DEF toParser
  <2>8. Cat(toRecord, AtParser) = Cat(toEnricher, AtRecord)
    BY <2>1, <2>4, <2>5, <2>6, CatGroup, SMTT(30) DEF toRecord
  <2>9. Cat(toEnricher, AtRecord) = Cat(toEnrich, AtEnricher)
    BY <2>1, <2>4, <2>5, <2>6, CatGroup, SMTT(30) DEF toEnricher
  <2>10. Cat(toEnrich, AtEnricher) = Cat(toBuf, AtEnrich)
    BY <2>1, <2>3, <2>5, <2>6, CatGroup, SMTT(30) DEF toEnrich
  <2>11. Cat(toBuf, AtEnrich) = Cat(toFlush, AtBuf)
    BY <2>1, <2>3, <2>5, <2>6, CatGroup, SMTT(30) DEF toBuf
  <2>12. Cat(toFlush, AtBuf) = Cat(toBatch, AtFlush)
    BY <2>1, <2>3, <2>5, <2>6, CatGroup DEF toFlush
  <2>13. Cat(toBatch, AtFlush) = Cat(sending, AtBatch)
    BY <2>1, <2>5, <2>6, CatGroup DEF toBatch
  <2> QED  BY <2>2, <2>7, <2>8, <2>9, <2>10, <2>11, <2>12, <2>13 DEF Cat
<1>6. Line \in Seq(Nat)
  BY <1>0, <1>4, <1>5, Joined DEF Pieces
<1> QED  BY <1>1, <1>2, <1>3, <1>4, <1>5, <1>6 DEF Cut

LEMMA CutNext == Pieces' => Cut'
  BY CutPieces, PTL

----------------------------------------------------------------------------
(* How records move from one place to the next.                                  *)

\* A record that is received goes from the front of a place to the back of the next.
LEMMA Moved ==
  ASSUME NEW c \in Seq(Nat), c # <<>>, NEW r \in Seq(Nat), NEW b \in Seq(Nat)
  PROVE  /\ <<Head(c)>> \o (Tail(c) \o r) = c \o r
         /\ <<Head(c)>> \o Tail(c) = c
         /\ Append(b, Head(c)) \o (Tail(c) \o r) = b \o (c \o r)
<1>1. Head(c) \in Nat /\ Tail(c) \in Seq(Nat) /\ <<Head(c)>> \in Seq(Nat)
  BY Received
<1>2. <<Head(c)>> \o Tail(c) = c
  BY <1>1
<1>3. <<Head(c)>> \o (Tail(c) \o r) = c \o r
  <2>1. (<<Head(c)>> \o Tail(c)) \o r = <<Head(c)>> \o (Tail(c) \o r)
    BY <1>1, Regroup
  <2> QED  BY <1>2, <2>1, ZenonT(40)
<1>4. Append(b, Head(c)) \o (Tail(c) \o r) = b \o (c \o r)
  <2>1. Append(b, Head(c)) = b \o <<Head(c)>>
    BY <1>1
  <2>2. Tail(c) \o r \in Seq(Nat)
    BY <1>1, Joined
  <2>3. (b \o <<Head(c)>>) \o (Tail(c) \o r) = b \o (<<Head(c)>> \o (Tail(c) \o r))
    BY <1>1, <2>2, Regroup
  <2> QED  BY <1>3, <2>1, <2>3, ZenonT(40)
<1> QED  BY <1>2, <1>3, <1>4

\* An empty place does not count.
LEMMA NoneThere ==
  ASSUME NEW r \in Seq(Nat)
  PROVE  <<>> \o r = r /\ r \o <<>> = r
  OBVIOUS

\* What is appended to the last place is appended to the line.
LEMMA EndAppend ==
  ASSUME NEW a \in Seq(Nat), NEW b \in Seq(Nat), NEW e \in Nat
  PROVE  a \o Append(b, e) = Append(a \o b, e)
  OBVIOUS

\* A batch enters and leaves the batch channel as one.
LEMMA BatchMoved ==
  ASSUME NEW q \in Seq(Seq(Nat)), NEW b \in Seq(Nat), NEW r \in Seq(Nat)
  PROVE  /\ FlattenSeq(Append(q, b)) \o r = FlattenSeq(q) \o (b \o r)
         /\ q # <<>> => Head(q) \o (FlattenSeq(Tail(q)) \o r) = FlattenSeq(q) \o r
<1>1. FlattenSeq(q) \in Seq(Nat)
  BY FlattenTyped
<1>2. (FlattenSeq(q) \o b) \o r = FlattenSeq(q) \o (b \o r)
  BY <1>1, Regroup
<1>3. FlattenSeq(Append(q, b)) \o r = FlattenSeq(q) \o (b \o r)
  BY <1>2, FlattenAppend, ZenonT(40)
<1>4. ASSUME q # <<>>
      PROVE  Head(q) \o (FlattenSeq(Tail(q)) \o r) = FlattenSeq(q) \o r
  <2>1. Head(q) \in Seq(Nat) /\ Tail(q) \in Seq(Seq(Nat))
    BY <1>4, Received
  <2>2. FlattenSeq(Tail(q)) \in Seq(Nat)
    BY <2>1, FlattenTyped
  <2>3. (Head(q) \o FlattenSeq(Tail(q))) \o r = Head(q) \o (FlattenSeq(Tail(q)) \o r)
    BY <2>1, <2>2, Regroup
  <2> QED  BY <1>4, <2>3, FlattenTail, ZenonT(40)
<1> QED  BY <1>3, <1>4

\* What is unchanged behind a place, and at it.
LEMMA SameParts ==
  ASSUME Cut, Cut'
  PROVE  /\ AtRaw' = AtRaw /\ hold'["parser"] = hold["parser"] => AtParser' = AtParser
         /\ AtParser' = AtParser /\ chan'["record"] = chan["record"] => AtRecord' = AtRecord
         /\ AtRecord' = AtRecord /\ hold'["enricher"] = hold["enricher"]
              => AtEnricher' = AtEnricher
         /\ AtEnricher' = AtEnricher /\ chan'["enrich"] = chan["enrich"] => AtEnrich' = AtEnrich
         /\ AtEnrich' = AtEnrich /\ buf' = buf => AtBuf' = AtBuf
         /\ AtBuf' = AtBuf /\ flushing' = flushing => AtFlush' = AtFlush
         /\ AtFlush' = AtFlush /\ batchq' = batchq => AtBatch' = AtBatch
         /\ AtBatch' = AtBatch /\ sending' = sending => Line' = Line
<1>1. Line = sending \o AtBatch /\ Line' = sending' \o AtBatch'
  BY DEF Cut
<1> QED
  BY <1>1, ZenonT(40) DEF AtParser, AtRecord, AtEnricher, AtEnrich, AtBuf, AtFlush, AtBatch

----------------------------------------------------------------------------
(* What each step does to the line of records.                                   *)

\* A place that its goroutine is not using is empty.
Shape ==
  /\ \A s \in Stage : stage[s] # "send" => hold[s] = <<>>
  /\ batcher \notin {"flush", "lastFlush"} => flushing = <<>>
  /\ batcher \in {"flush", "lastFlush", "done"} => buf = <<>>
  /\ exporter \in {"recv", "done"} => sending = <<>>

InHand == {t \in Tailer : tail[t] = "send"}

Still == Line' = Line /\ UNCHANGED <<main, tail, entered, settled>>

\* Parser and enricher pass records on: the line stays as it is.
LEMMA StageStill ==
  ASSUME TypeOK, TypeOK', Shape, NEW s \in Stage, StageRecv(s) \/ StageSend(s) \/ StageEnd(s)
  PROVE  Still
<1>0. Pieces /\ Pieces' /\ Cut /\ Cut'
  BY TypedPieces, TypedPiecesNext, CutPieces, CutNext
<1>1. s = "parser" \/ s = "enricher"
  BY DEF Stage
<1>2. UNCHANGED <<main, tail, entered, settled, batchq, buf, flushing, sending>>
  BY DEF StageRecv, StageSend, StageEnd, inputVars, batchVars, sendVars
<1>3. CASE StageEnd(s)
  <2>1. UNCHANGED <<chan, hold>>
    BY <1>3 DEF StageEnd
  <2>2. AtRaw' = AtRaw
    BY <2>1 DEF AtRaw
  <2> QED  BY <1>0, <1>2, <2>1, <2>2, SameParts DEF Still
<1>4. CASE s = "parser" /\ StageRecv(s)
  <2>1. chan["raw"] # <<>> /\ hold["parser"] = <<>>
    BY <1>4 DEF StageRecv, Shape, From, Stage
  <2>2. /\ hold'["parser"] = <<Head(chan["raw"])>> /\ chan'["raw"] = Tail(chan["raw"])
        /\ hold'["enricher"] = hold["enricher"]
        /\ chan'["record"] = chan["record"] /\ chan'["enrich"] = chan["enrich"]
    BY <1>4 DEF StageRecv, TypeOK, From, Stage, Link
  <2>3. chan["raw"] \in Seq(Nat)
    BY <1>0 DEF Pieces
  <2>4. AtParser' = AtParser
    BY <2>1, <2>2, <2>3, Moved, NoneThere, ZenonT(40) DEF AtParser, AtRaw
  <2> QED  BY <1>0, <1>2, <2>2, <2>4, SameParts DEF Still
<1>5. CASE s = "enricher" /\ StageRecv(s)
  <2>1. chan["record"] # <<>> /\ hold["enricher"] = <<>>
    BY <1>5 DEF StageRecv, Shape, From, Stage
  <2>2. /\ hold'["enricher"] = <<Head(chan["record"])>> /\ chan'["record"] = Tail(chan["record"])
        /\ hold'["parser"] = hold["parser"]
        /\ chan'["raw"] = chan["raw"] /\ chan'["enrich"] = chan["enrich"]
    BY <1>5 DEF StageRecv, TypeOK, From, Stage, Link
  <2>3. chan["record"] \in Seq(Nat) /\ AtParser \in Seq(Nat) /\ AtRecord \in Seq(Nat)
    BY <1>0 DEF Pieces, Cut
  <2>4. AtRaw' = AtRaw
    BY <2>2 DEF AtRaw
  <2>5. AtParser' = AtParser
    BY <1>0, <2>2, <2>4, SameParts
  <2>6. <<Head(chan["record"])>> \o (Tail(chan["record"]) \o AtParser) = AtRecord
    BY <2>1, <2>3, Moved DEF AtRecord
  <2>7. AtEnricher' = AtEnricher
    BY <2>1, <2>2, <2>3, <2>5, <2>6, NoneThere, ZenonT(40) DEF AtEnricher, AtRecord
  <2> QED  BY <1>0, <1>2, <2>2, <2>7, SameParts DEF Still
<1>6. CASE s = "parser" /\ StageSend(s)
  <2>1. /\ hold'["parser"] = <<>> /\ chan'["record"] = chan["record"] \o hold["parser"]
        /\ hold'["enricher"] = hold["enricher"]
        /\ chan'["raw"] = chan["raw"] /\ chan'["enrich"] = chan["enrich"]
    BY <1>6 DEF StageSend, TypeOK, To, Stage, Link
  <2>2. chan["record"] \in Seq(Nat) /\ hold["parser"] \in Seq(Nat) /\ AtRaw \in Seq(Nat)
    BY <1>0 DEF Pieces, Cut
  <2>3. AtRaw' = AtRaw
    BY <2>1 DEF AtRaw
  <2>4. AtParser' = AtRaw
    BY <2>1, <2>2, <2>3, NoneThere, ZenonT(40) DEF AtParser
  <2>5. AtRecord' = AtRecord
    <3>1. (chan["record"] \o hold["parser"]) \o AtRaw = chan["record"] \o (hold["parser"] \o AtRaw)
      BY <2>2, Regroup
    <3> QED  BY <2>1, <2>4, <3>1, ZenonT(40) DEF AtRecord, AtParser
  <2> QED  BY <1>0, <1>2, <2>1, <2>5, SameParts DEF Still
<1>7. CASE s = "enricher" /\ StageSend(s)
  <2>1. /\ hold'["enricher"] = <<>> /\ chan'["enrich"] = chan["enrich"] \o hold["enricher"]
        /\ hold'["parser"] = hold["parser"]
        /\ chan'["raw"] = chan["raw"] /\ chan'["record"] = chan["record"]
    BY <1>7 DEF StageSend, TypeOK, To, Stage, Link
  <2>2. chan["enrich"] \in Seq(Nat) /\ hold["enricher"] \in Seq(Nat) /\ AtRecord \in Seq(Nat)
    BY <1>0 DEF Pieces, Cut
  <2>3. AtRaw' = AtRaw
    BY <2>1 DEF AtRaw
  <2>4. AtRecord' = AtRecord
    BY <1>0, <2>1, <2>3, SameParts
  <2>5. AtEnricher' = AtRecord
    BY <2>1, <2>2, <2>4, NoneThere, ZenonT(40) DEF AtEnricher
  <2>6. AtEnrich' = AtEnrich
    <3>1. (chan["enrich"] \o hold["enricher"]) \o AtRecord
            = chan["enrich"] \o (hold["enricher"] \o AtRecord)
      BY <2>2, Regroup
    <3> QED  BY <2>1, <2>5, <3>1, ZenonT(40) DEF AtEnrich, AtEnricher
  <2> QED  BY <1>0, <1>2, <2>1, <2>6, SameParts DEF Still
<1> QED  BY <1>1, <1>3, <1>4, <1>5, <1>6, <1>7

\* The batcher collects, flushes and drains: the line stays as it is.
LEMMA BatchStill ==
  ASSUME TypeOK, TypeOK', Shape, Batch
  PROVE  Still
<1>0. Pieces /\ Pieces' /\ Cut /\ Cut'
  BY TypedPieces, TypedPiecesNext, CutPieces, CutNext
<1>1. /\ UNCHANGED <<main, tail, entered, settled, sending, hold>>
      /\ chan'["raw"] = chan["raw"] /\ chan'["record"] = chan["record"]
  BY DEF Batch, Receive, ReceiveUpTo, Tick, TickWhen, InputClosed, StartDrain, DrainReceive,
         DrainEmpty, FlushAndReturn, FlushSend, inputVars, stageVars, sendVars, TypeOK, Link
<1>2. AtRaw' = AtRaw
  BY <1>1 DEF AtRaw
<1>3. AtEnricher' = AtEnricher
  BY <1>0, <1>1, <1>2, SameParts
<1>4. /\ chan["enrich"] \in Seq(Nat) /\ buf \in Seq(Nat) /\ flushing \in Seq(Nat)
      /\ batchq \in Seq(Seq(Nat)) /\ AtEnricher \in Seq(Nat) /\ AtEnrich \in Seq(Nat)
      /\ AtEnrich' \in Seq(Nat) /\ AtBuf \in Seq(Nat) /\ AtBuf' \in Seq(Nat)
  BY <1>0 DEF Pieces, Cut
<1>5. chan["enrich"] # <<>> =>
        Append(buf, Head(chan["enrich"])) \o (Tail(chan["enrich"]) \o AtEnricher) = AtBuf
  <2>0. PICK c \in Seq(Nat) : c = chan["enrich"]
    BY <1>4
  <2>1. c # <<>> => Append(buf, Head(c)) \o (Tail(c) \o AtEnricher) = buf \o (c \o AtEnricher)
    <3>1. buf \in Seq(Nat) /\ AtEnricher \in Seq(Nat)
      BY <1>4
    <3> QED  BY <3>1, Moved, ZenonT(40)
  <2> QED  BY <2>0, <2>1, ZenonT(40) DEF AtBuf, AtEnrich
<1>6. CASE Receive \/ DrainReceive
  <2>1. /\ chan["enrich"] # <<>> /\ chan'["enrich"] = Tail(chan["enrich"])
        /\ batchq' = batchq
    BY <1>6 DEF Receive, ReceiveUpTo, DrainReceive, TypeOK, Link
  <2>2. AtEnrich' = Tail(chan["enrich"]) \o AtEnricher
    BY <1>3, <2>1 DEF AtEnrich
  <2>3. CASE buf' = Append(buf, Head(chan["enrich"])) /\ flushing' = flushing
    <3>1. AtBuf' = AtBuf
      BY <1>5, <2>1, <2>2, <2>3, ZenonT(40) DEF AtBuf
    <3> QED  BY <1>0, <1>1, <2>1, <2>3, <3>1, SameParts DEF Still
  <2>4. CASE flushing = <<>> /\ flushing' = Append(buf, Head(chan["enrich"])) /\ buf' = <<>>
    <3>1. AtBuf' = AtEnrich'
      BY <1>4, <2>4, NoneThere, ZenonT(40) DEF AtBuf
    <3>2. AtFlush' = AtBuf
      BY <1>5, <2>1, <2>2, <2>4, <3>1, ZenonT(40) DEF AtFlush
    <3>3. AtFlush = AtBuf
      BY <1>4, <2>4, NoneThere, ZenonT(40) DEF AtFlush
    <3> QED  BY <1>0, <1>1, <2>1, <3>2, <3>3, SameParts DEF Still
  <2>5. \/ buf' = Append(buf, Head(chan["enrich"])) /\ flushing' = flushing
        \/ flushing = <<>> /\ flushing' = Append(buf, Head(chan["enrich"])) /\ buf' = <<>>
    BY <1>6 DEF Receive, ReceiveUpTo, DrainReceive, Shape
  <2> QED  BY <2>3, <2>4, <2>5
<1>7. CASE Tick \/ InputClosed \/ DrainEmpty \/ StartDrain
  <2>1. chan' = chan /\ batchq' = batchq
    BY <1>7 DEF Tick, TickWhen, InputClosed, DrainEmpty, FlushAndReturn, StartDrain
  <2>2. AtEnrich' = AtEnrich
    BY <1>0, <1>3, <2>1, SameParts
  <2>3. CASE UNCHANGED <<buf, flushing>>
    BY <1>0, <1>1, <2>1, <2>2, <2>3, SameParts DEF Still
  <2>4. CASE flushing = <<>> /\ flushing' = buf /\ buf' = <<>>
    <3>1. AtBuf' = AtEnrich
      BY <1>4, <2>2, <2>4, NoneThere, ZenonT(40) DEF AtBuf
    <3>2. AtFlush' = AtBuf
      BY <2>4, <3>1, ZenonT(40) DEF AtFlush, AtBuf
    <3>3. AtFlush = AtBuf
      BY <1>4, <2>4, NoneThere, ZenonT(40) DEF AtFlush
    <3> QED  BY <1>0, <1>1, <2>1, <3>2, <3>3, SameParts DEF Still
  <2>5. \/ UNCHANGED <<buf, flushing>>
        \/ flushing = <<>> /\ flushing' = buf /\ buf' = <<>>
    BY <1>7 DEF Tick, TickWhen, InputClosed, DrainEmpty, FlushAndReturn, StartDrain, Shape
  <2> QED  BY <2>3, <2>4, <2>5
<1>8. CASE FlushSend
  <2>1. /\ chan' = chan /\ buf' = buf
        /\ batchq' = Append(batchq, flushing) /\ flushing' = <<>>
    BY <1>8 DEF FlushSend
  <2>2. AtBuf' = AtBuf
    BY <1>0, <1>3, <2>1, SameParts
  <2>3. AtFlush' = AtBuf
    BY <1>4, <2>1, <2>2, NoneThere, ZenonT(40) DEF AtFlush
  <2>4. FlattenSeq(Append(batchq, flushing)) \o AtBuf = FlattenSeq(batchq) \o (flushing \o AtBuf)
    BY <1>4, BatchMoved
  <2>5. AtBatch' = AtBatch
    BY <2>1, <2>3, <2>4, ZenonT(40) DEF AtBatch, AtFlush
  <2> QED  BY <1>0, <1>1, <2>5, SameParts DEF Still
<1> QED  BY <1>6, <1>7, <1>8 DEF Batch

\* Some of a sequence is left out.
Drops(a, b) == \E x, h, y \in Seq(Nat) : a = x \o (h \o y) /\ b = x \o y

\* Dropping from a part of a line is dropping from the line.
LEMMA DropsUnder ==
  ASSUME NEW a, NEW b, NEW p \in Seq(Nat), Drops(a, b)
  PROVE  Drops(p \o a, p \o b)
<1>1. PICK x \in Seq(Nat), h \in Seq(Nat), y \in Seq(Nat) : a = x \o (h \o y) /\ b = x \o y
  BY DEF Drops
<1>2. p \o x \in Seq(Nat) /\ h \o y \in Seq(Nat)
  BY Joined
<1>3. PICK hy \in Seq(Nat) : hy = h \o y
  BY <1>2
<1>4. (p \o x) \o hy = p \o (x \o hy)
  BY Regroup, ZenonT(40)
<1>5. (p \o x) \o y = p \o (x \o y)
  BY Regroup, ZenonT(40)
<1>6. p \o a = (p \o x) \o (h \o y) /\ p \o b = (p \o x) \o y
  BY <1>1, <1>3, <1>4, <1>5, ZenonT(40)
<1> QED  BY <1>2, <1>6, ZenonT(40) DEF Drops

\* The front of a line can be dropped.
LEMMA DropsHead ==
  ASSUME NEW h \in Seq(Nat), NEW y \in Seq(Nat)
  PROVE  Drops(h \o y, y)
<1>1. <<>> \in Seq(Nat) /\ <<>> \o (h \o y) = h \o y /\ <<>> \o y = y
  BY Joined, NoneThere
<1> QED  BY <1>1, ZenonT(40) DEF Drops

\* A sequence whose members are in a set is a sequence over it.
LEMMA SeqOver ==
  ASSUME NEW S, NEW q \in Seq(S), NEW R, \A i \in 1..Len(q) : q[i] \in R
  PROVE  q \in Seq(R)
<1>1. q \in [1..Len(q) -> R] /\ Len(q) \in Nat
  OBVIOUS
<1> QED  BY <1>1, SeqDef

\* What is left of an ordered line is ordered, and some of its records.
LEMMA DropsKeeps ==
  ASSUME NEW a, NEW b, Drops(a, b), \A i, j \in 1..Len(a) : i < j => a[i] < a[j]
  PROVE  /\ b \in Seq(Range(a))
         /\ \A i, j \in DOMAIN b : i < j => b[i] < b[j]
         /\ Len(b) <= Len(a)
<1>1. PICK x \in Seq(Nat), h \in Seq(Nat), y \in Seq(Nat) : a = x \o (h \o y) /\ b = x \o y
  BY DEF Drops
<1>2. PICK w \in Seq(Nat) : w = h \o y
  BY Joined
<1>3. PICK nx \in Nat, nh \in Nat, ny \in Nat : nx = Len(x) /\ nh = Len(h) /\ ny = Len(y)
  OBVIOUS
<1>4. Len(w) = nh + ny /\ \A i \in 1..ny : w[nh + i] = y[i]
  BY <1>2, <1>3
<1>5. /\ a \in Seq(Nat) /\ Len(a) = nx + (nh + ny)
      /\ \A i \in 1..nx : a[i] = x[i]
      /\ \A i \in 1..(nh + ny) : a[nx + i] = w[i]
  BY <1>1, <1>2, <1>3, <1>4
<1>6. /\ b \in Seq(Nat) /\ Len(b) = nx + ny /\ DOMAIN b = 1..Len(b)
      /\ \A i \in 1..nx : b[i] = x[i]
      /\ \A i \in 1..ny : b[nx + i] = y[i]
  BY <1>1, <1>3, SMTT(30)
<1>7. DOMAIN a = 1..Len(a)
  BY <1>5
<1> DEFINE at(i) == IF i <= nx THEN i ELSE nh + i
<1>8. ASSUME NEW i \in 1..(nx + ny)
      PROVE  at(i) \in 1..(nx + (nh + ny)) /\ b[i] = a[at(i)]
  <2>1. CASE i <= nx
    <3>1. i \in 1..nx /\ i \in 1..(nx + (nh + ny))
      BY <2>1
    <3> QED  BY <1>5, <1>6, <2>1, <3>1
  <2>2. CASE ~(i <= nx)
    <3>1. PICK k \in 1..ny : i = nx + k
      <4>1. i - nx \in 1..ny /\ i = nx + (i - nx)
        BY <2>2
      <4> QED  BY <4>1
    <3>2. nh + k \in 1..(nh + ny) /\ at(i) = nx + (nh + k)
      BY <2>2, <3>1
    <3>3. b[i] = y[k] /\ w[nh + k] = y[k] /\ a[nx + (nh + k)] = w[nh + k]
      BY <1>4, <1>5, <1>6, <3>1, <3>2
    <3>4. nx + (nh + k) \in 1..(nx + (nh + ny))
      BY <3>2
    <3> QED  BY <3>2, <3>3, <3>4
  <2> QED  BY <2>1, <2>2
<1>9. ASSUME NEW i \in 1..(nx + ny), NEW j \in 1..(nx + ny), i < j
      PROVE  at(i) < at(j)
  BY <1>9
<1> HIDE DEF at
<1>10. \A i \in 1..Len(b) : b[i] \in Range(a)
  BY <1>5, <1>6, <1>7, <1>8 DEF Range
<1>11. b \in Seq(Range(a))
  BY <1>6, <1>10, SeqOver
<1>12. ASSUME NEW i \in DOMAIN b, NEW j \in DOMAIN b, i < j
       PROVE  b[i] < b[j]
  <2>1. i \in 1..(nx + ny) /\ j \in 1..(nx + ny)
    BY <1>6
  <2>2. at(i) \in 1..Len(a) /\ at(j) \in 1..Len(a) /\ b[i] = a[at(i)] /\ b[j] = a[at(j)]
    BY <1>5, <1>8, <2>1
  <2>3. at(i) < at(j)
    BY <1>9, <1>12, <2>1
  <2> QED  BY <2>2, <2>3
<1> QED  BY <1>5, <1>6, <1>11, <1>12

\* A stage that is cancelled at a send drops what it has in hand.
LEMMA QuitDrops ==
  ASSUME TypeOK, TypeOK', NEW s \in Stage, StageQuit(s)
  PROVE  /\ Cancelled /\ Drops(Line, Line')
         /\ UNCHANGED <<main, tail, entered, settled>>
<1>0. Pieces /\ Pieces' /\ Cut /\ Cut'
  BY TypedPieces, TypedPiecesNext, CutPieces, CutNext
<1>1. /\ Cancelled
      /\ UNCHANGED <<main, tail, entered, settled, chan, batchq, buf, flushing, sending>>
  BY DEF StageQuit, inputVars, batchVars, sendVars
<1>2. /\ hold["parser"] \in Seq(Nat) /\ hold["enricher"] \in Seq(Nat)
      /\ chan["record"] \in Seq(Nat) /\ chan["enrich"] \in Seq(Nat) /\ buf \in Seq(Nat)
      /\ flushing \in Seq(Nat) /\ sending \in Seq(Nat) /\ FlattenSeq(batchq) \in Seq(Nat)
      /\ AtRaw \in Seq(Nat) /\ AtRecord \in Seq(Nat)
  BY <1>0 DEF Pieces, Cut
<1>3. AtRaw' = AtRaw
  BY <1>1 DEF AtRaw
<1>4. Drops(AtEnricher, AtEnricher')
  <2>1. CASE s = "parser"
    <3>1. hold'["parser"] = <<>> /\ hold'["enricher"] = hold["enricher"]
      BY <2>1 DEF StageQuit, TypeOK, Stage
    <3>2. AtParser' = AtRaw
      BY <1>2, <1>3, <3>1, NoneThere, ZenonT(40) DEF AtParser
    <3>3. Drops(hold["parser"] \o AtRaw, AtRaw)
      BY <1>2, DropsHead
    <3>4. Drops(chan["record"] \o (hold["parser"] \o AtRaw), chan["record"] \o AtRaw)
      BY <1>2, <3>3, DropsUnder
    <3>5. Drops(hold["enricher"] \o (chan["record"] \o (hold["parser"] \o AtRaw)),
                hold["enricher"] \o (chan["record"] \o AtRaw))
      BY <1>2, <3>4, DropsUnder
    <3>6. AtEnricher = hold["enricher"] \o (chan["record"] \o (hold["parser"] \o AtRaw))
      BY DEF AtEnricher, AtRecord, AtParser
    <3>7. AtEnricher' = hold["enricher"] \o (chan["record"] \o AtRaw)
      BY <1>1, <3>1, <3>2, ZenonT(40) DEF AtEnricher, AtRecord
    <3> QED  BY <3>5, <3>6, <3>7, ZenonT(40)
  <2>2. CASE s = "enricher"
    <3>1. hold'["enricher"] = <<>> /\ hold'["parser"] = hold["parser"]
      BY <2>2 DEF StageQuit, TypeOK, Stage
    <3>2. AtRecord' = AtRecord
      BY <1>0, <1>1, <1>3, <3>1, SameParts
    <3>3. AtEnricher' = AtRecord
      BY <1>2, <3>1, <3>2, NoneThere, ZenonT(40) DEF AtEnricher
    <3>4. Drops(hold["enricher"] \o AtRecord, AtRecord)
      BY <1>2, DropsHead
    <3> QED  BY <3>3, <3>4, ZenonT(40) DEF AtEnricher
  <2> QED  BY <2>1, <2>2 DEF Stage
<1>5. Drops(AtEnrich, AtEnrich')
  BY <1>1, <1>2, <1>4, DropsUnder, ZenonT(40) DEF AtEnrich
<1>6. Drops(AtBuf, AtBuf')
  BY <1>1, <1>2, <1>5, DropsUnder, ZenonT(40) DEF AtBuf
<1>7. Drops(AtFlush, AtFlush')
  BY <1>1, <1>2, <1>6, DropsUnder, ZenonT(40) DEF AtFlush
<1>8. Drops(AtBatch, AtBatch')
  BY <1>1, <1>2, <1>7, DropsUnder, ZenonT(40) DEF AtBatch
<1>9. Line = sending \o AtBatch /\ Line' = sending' \o AtBatch'
  BY <1>0 DEF Cut
<1>10. Drops(Line, Line')
  BY <1>1, <1>2, <1>8, <1>9, DropsUnder, ZenonT(40)
<1> QED  BY <1>1, <1>10

\* A tailer that sends puts the next line at the end.
LEMMA SendEnters ==
  ASSUME TypeOK, TypeOK', NEW t \in Tailer, TailSend(t)
  PROVE  /\ Line' = Append(Line, entered') /\ entered' = entered + 1
         /\ Len(chan["raw"]) < Cap["raw"]
         /\ t \in InHand /\ InHand' = InHand \ {t}
         /\ UNCHANGED <<main, settled>>
<1>0. Pieces /\ Pieces' /\ Cut /\ Cut'
  BY TypedPieces, TypedPiecesNext, CutPieces, CutNext
<1>1. UNCHANGED <<main, settled, hold, batchq, buf, flushing, sending>>
  BY DEF TailSend, stageVars, batchVars, sendVars
<1>2. /\ entered' = entered + 1 /\ Len(chan["raw"]) < Cap["raw"]
      /\ tail' = [tail EXCEPT ![t] = "read"] /\ tail[t] = "send"
  BY DEF TailSend
<1>3. /\ chan'["raw"] = Append(chan["raw"], entered')
      /\ chan'["record"] = chan["record"] /\ chan'["enrich"] = chan["enrich"]
  BY DEF TailSend, TypeOK, Link
<1>4. t \in InHand /\ InHand' = InHand \ {t}
  BY <1>2 DEF InHand, TypeOK
<1>5. /\ hold["parser"] \in Seq(Nat) /\ hold["enricher"] \in Seq(Nat)
      /\ chan["record"] \in Seq(Nat) /\ chan["enrich"] \in Seq(Nat) /\ buf \in Seq(Nat)
      /\ flushing \in Seq(Nat) /\ sending \in Seq(Nat) /\ FlattenSeq(batchq) \in Seq(Nat)
      /\ AtRaw \in Seq(Nat) /\ AtParser \in Seq(Nat) /\ AtRecord \in Seq(Nat)
      /\ AtEnricher \in Seq(Nat) /\ AtEnrich \in Seq(Nat) /\ AtBuf \in Seq(Nat)
      /\ AtFlush \in Seq(Nat) /\ AtBatch \in Seq(Nat)
  BY <1>0 DEF Pieces, Cut
<1>6. entered' \in Nat
  BY DEF TypeOK
<1>7. AtRaw' = Append(AtRaw, entered')
  BY <1>3 DEF AtRaw
<1>8. AtParser' = Append(AtParser, entered')
  BY <1>1, <1>5, <1>6, <1>7, EndAppend, ZenonT(40) DEF AtParser
<1>9. AtRecord' = Append(AtRecord, entered')
  <2>1. chan["record"] \o Append(AtParser, entered') = Append(chan["record"] \o AtParser, entered')
    BY <1>5, <1>6, EndAppend, ZenonT(40)
  <2> QED  BY <1>3, <1>8, <2>1, ZenonT(40) DEF AtRecord
<1>10. AtEnricher' = Append(AtEnricher, entered')
  BY <1>1, <1>5, <1>6, <1>9, EndAppend, ZenonT(40) DEF AtEnricher
<1>11. AtEnrich' = Append(AtEnrich, entered')
  <2>1. chan["enrich"] \o Append(AtEnricher, entered') =
          Append(chan["enrich"] \o AtEnricher, entered')
    BY <1>5, <1>6, EndAppend, ZenonT(40)
  <2> QED  BY <1>3, <1>10, <2>1, ZenonT(40) DEF AtEnrich
<1>12. AtBuf' = Append(AtBuf, entered')
  BY <1>1, <1>5, <1>6, <1>11, EndAppend, ZenonT(40) DEF AtBuf
<1>13. AtFlush' = Append(AtFlush, entered')
  BY <1>1, <1>5, <1>6, <1>12, EndAppend, ZenonT(40) DEF AtFlush
<1>14. AtBatch' = Append(AtBatch, entered')
  BY <1>1, <1>5, <1>6, <1>13, EndAppend, ZenonT(40) DEF AtBatch
<1>15. Line = sending \o AtBatch /\ Line' = sending' \o AtBatch'
  BY <1>0 DEF Cut
<1>16. Line' = Append(Line, entered')
  <2>1. sending \o Append(AtBatch, entered') = Append(sending \o AtBatch, entered')
    BY <1>5, <1>6, EndAppend, ZenonT(40)
  <2> QED  BY <1>1, <1>14, <1>15, <2>1, ZenonT(40)
<1> QED  BY <1>1, <1>2, <1>4, <1>16

\* The exporter takes a batch and tries again: the line stays as it is.
LEMMA ExportStill ==
  ASSUME TypeOK, TypeOK', Shape,
         ExportRecv \/ Retry \/ ExportEnd \/ (CallFail /\ attempt < MaxRetries)
  PROVE  Still
<1>0. Pieces /\ Pieces' /\ Cut /\ Cut'
  BY TypedPieces, TypedPiecesNext, CutPieces, CutNext
<1>1. UNCHANGED <<main, tail, entered, settled, chan, hold, buf, flushing>>
  BY DEF ExportRecv, Retry, ExportEnd, CallFail, CallFailIf, inputVars, stageVars, batchVars
<1>2. AtRaw' = AtRaw
  BY <1>1 DEF AtRaw
<1>3. AtFlush' = AtFlush
  BY <1>0, <1>1, <1>2, SameParts
<1>4. CASE UNCHANGED <<batchq, sending>>
  BY <1>0, <1>1, <1>3, <1>4, SameParts DEF Still
<1>5. CASE ExportRecv
  <2>1. /\ sending = <<>> /\ batchq # <<>>
        /\ sending' = Head(batchq) /\ batchq' = Tail(batchq)
    BY <1>5 DEF ExportRecv, Shape
  <2>2. batchq \in Seq(Seq(Nat)) /\ AtFlush \in Seq(Nat) /\ AtBatch \in Seq(Nat)
    BY <1>0 DEF Pieces, Cut
  <2>3. Head(batchq) \o (FlattenSeq(Tail(batchq)) \o AtFlush) = FlattenSeq(batchq) \o AtFlush
    BY <2>1, <2>2, BatchMoved
  <2>4. Line = sending \o AtBatch /\ Line' = sending' \o AtBatch'
    BY <1>0 DEF Cut
  <2>5. Line = AtBatch
    BY <2>1, <2>2, <2>4, NoneThere, ZenonT(40)
  <2>6. Line' = Line
    BY <1>3, <2>1, <2>3, <2>4, <2>5, ZenonT(40) DEF AtBatch
  <2> QED  BY <1>1, <2>6 DEF Still
<1>6. UNCHANGED <<batchq, sending>> \/ ExportRecv
  BY DEF Retry, ExportEnd, CallFail, CallFailIf
<1> QED  BY <1>4, <1>5, <1>6

\* The exporter is done with a batch, which is at the front of the line.
LEMMA ReturnSettles ==
  ASSUME TypeOK, TypeOK',
         CallOk \/ GiveUp \/ (CallFail /\ ~(attempt < MaxRetries))
  PROVE  /\ Line = sending \o Line' /\ sending \in Seq(Nat) /\ Line' \in Seq(Nat)
         /\ settled' = settled \cup Range(sending)
         /\ UNCHANGED <<main, tail, entered>>
<1>0. Pieces /\ Pieces' /\ Cut /\ Cut'
  BY TypedPieces, TypedPiecesNext, CutPieces, CutNext
<1>1. /\ UNCHANGED <<main, tail, entered, chan, hold, batchq, buf, flushing>>
      /\ sending' = <<>> /\ settled' = settled \cup Range(sending)
  BY DEF CallOk, GiveUp, CallFail, CallFailIf, SendReturns, inputVars, stageVars, batchVars
<1>2. AtRaw' = AtRaw
  BY <1>1 DEF AtRaw
<1>3. AtBatch' = AtBatch
  BY <1>0, <1>1, <1>2, SameParts
<1>4. /\ Line = sending \o AtBatch /\ Line' = sending' \o AtBatch' /\ AtBatch \in Seq(Nat)
      /\ Line' \in Seq(Nat) /\ sending \in Seq(Nat)
  BY <1>0 DEF Cut, Pieces
<1>5. Line' = AtBatch
  BY <1>1, <1>3, <1>4, NoneThere, ZenonT(40)
<1> QED  BY <1>1, <1>4, <1>5, ZenonT(40)

\* Starting, reading and stopping move no line.
LEMMA InputStill ==
  ASSUME TypeOK, TypeOK',
         \/ InputFail \/ InputStart \/ InputWait \/ InputClose
         \/ \E t \in Tailer : TailStart(t) \/ TailRead(t) \/ TailQuit(t)
  PROVE  /\ Line' = Line /\ UNCHANGED <<main, entered, settled>>
         /\ Cancelled => InHand' \subseteq InHand
<1>0. Pieces /\ Pieces' /\ Cut /\ Cut'
  BY TypedPieces, TypedPiecesNext, CutPieces, CutNext
<1>1. UNCHANGED <<main, entered, settled, chan, hold, batchq, buf, flushing, sending>>
  BY DEF InputFail, InputStart, InputWait, InputClose, TailStart, TailRead, TailQuit, stageVars,
         batchVars, sendVars
<1>2. AtRaw' = AtRaw
  BY <1>1 DEF AtRaw
<1>3. Line' = Line
  BY <1>0, <1>1, <1>2, SameParts
<1>4. Cancelled => InHand' \subseteq InHand
  BY DEF InputFail, InputStart, InputWait, InputClose, TailStart, TailRead, TailQuit, InHand,
         TypeOK
<1> QED  BY <1>1, <1>3, <1>4

\* Signals and the end of Stop move no line.
LEMMA RestStill ==
  ASSUME TypeOK, TypeOK', Signal \/ Stopped \/ UNCHANGED vars
  PROVE  Line' = Line /\ UNCHANGED <<tail, entered, settled>>
<1>0. Pieces /\ Pieces' /\ Cut /\ Cut'
  BY TypedPieces, TypedPiecesNext, CutPieces, CutNext
<1>1. UNCHANGED <<tail, entered, settled, chan, hold, batchq, buf, flushing, sending>>
  BY DEF Signal, Stopped, vars, inputVars, stageVars, batchVars, sendVars
<1>2. AtRaw' = AtRaw
  BY <1>1 DEF AtRaw
<1> QED  BY <1>0, <1>1, <1>2, SameParts

----------------------------------------------------------------------------
(* The invariants.                                                              *)

CapacityOf == Cap["raw"] + Cap["record"] + Cap["enrich"] + 2 + BatchSize * (BatchCap + 2)

\* The line of a tailer that has one in hand has its place.
Room ==
  Cancelled => Len(Line) + Cardinality(InHand) <= CapacityOf + Cardinality(Tailer)

\* No line is lost, none is there twice, and the numbers are those handed out.
Numbered ==
  /\ InOrder
  /\ Range(Line) \cup settled \subseteq 1..entered
  /\ Range(Line) \cap settled = {}
  /\ ~Cancelled => 1..entered \subseteq Range(Line) \cup settled

FifoInv == TypeOK /\ MemoryBounded /\ Bounded /\ Shape /\ Room /\ Numbered

\* Each action fills only places that its goroutine uses.
LEMMA ShapeStep ==
  ASSUME TypeOK, Shape, [Next]_vars
  PROVE  Shape'
<1> USE DEF Shape, inputVars, stageVars, batchVars, sendVars
<1>1. CASE Input
  BY <1>1 DEF Input, InputFail, InputStart, InputWait, InputClose, TailStart, TailRead,
              TailSend, TailQuit
<1>2. ASSUME NEW s \in Stage, Transform(s)  PROVE Shape'
  <2>1. CASE StageRecv(s) \/ StageSend(s)
    BY <2>1, ZenonT(40) DEF StageRecv, StageSend, TypeOK
  <2>2. CASE StageQuit(s) \/ StageEnd(s)
    BY <2>2, ZenonT(40) DEF StageQuit, StageEnd, TypeOK
  <2> QED  BY <1>2, <2>1, <2>2 DEF Transform
<1>3. CASE Receive \/ Tick \/ StartDrain \/ DrainReceive
  BY <1>3 DEF Receive, ReceiveUpTo, Tick, TickWhen, StartDrain, DrainReceive
<1>4. CASE InputClosed \/ DrainEmpty \/ FlushSend
  BY <1>4 DEF InputClosed, DrainEmpty, FlushAndReturn, FlushSend
<1>5. CASE Export
  BY <1>5 DEF Export, ExportRecv, CallOk, CallFail, CallFailIf, Retry, GiveUp, ExportEnd,
              SendReturns, NextCall
<1>6. CASE Signal \/ Stopped \/ UNCHANGED vars
  BY <1>6 DEF Signal, Stopped, vars
<1> QED  BY <1>1, <1>2, <1>3, <1>4, <1>5, <1>6 DEF Next, Batch

LEMMA LengthTyped ==
  ASSUME NEW q \in Seq(Nat)
  PROVE  Len(q) \in Nat
  OBVIOUS

LEMMA PieceLengths ==
  ASSUME Pieces, Cut
  PROVE  /\ Len(sending) \in Nat /\ Len(FlattenSeq(batchq)) \in Nat /\ Len(flushing) \in Nat
         /\ Len(buf) \in Nat /\ Len(chan["enrich"]) \in Nat /\ Len(hold["enricher"]) \in Nat
         /\ Len(chan["record"]) \in Nat /\ Len(hold["parser"]) \in Nat
         /\ Len(chan["raw"]) \in Nat
  BY LengthTyped, ZenonT(40) DEF Pieces, Cut

\* The line is as long as its places together.
LEMMA LineLength ==
  ASSUME TypeOK
  PROVE  Len(Line) = Len(sending) + Len(FlattenSeq(batchq)) + Len(flushing) + Len(buf)
                       + Len(chan["enrich"]) + Len(hold["enricher"]) + Len(chan["record"])
                       + Len(hold["parser"]) + Len(chan["raw"])
<1>0. Pieces /\ Cut
  BY TypedPieces, CutPieces
<1>1. /\ Len(AtParser) = Len(hold["parser"]) + Len(chan["raw"])
      /\ Len(AtRecord) = Len(chan["record"]) + Len(AtParser)
      /\ Len(AtEnricher) = Len(hold["enricher"]) + Len(AtRecord)
  BY <1>0, Joined DEF Pieces, Cut, AtRaw, AtParser, AtRecord, AtEnricher
<1>2. /\ Len(AtEnrich) = Len(chan["enrich"]) + Len(AtEnricher)
      /\ Len(AtBuf) = Len(buf) + Len(AtEnrich)
      /\ Len(AtFlush) = Len(flushing) + Len(AtBuf)
  BY <1>0, Joined DEF Pieces, Cut, AtEnrich, AtBuf, AtFlush
<1>3. /\ Len(AtBatch) = Len(FlattenSeq(batchq)) + Len(AtFlush)
      /\ Len(Line) = Len(sending) + Len(AtBatch)
  BY <1>0, Joined DEF Pieces, Cut, AtBatch
<1>4. PICK n1 \in Nat, n2 \in Nat, n3 \in Nat, n4 \in Nat, n5 \in Nat, n6 \in Nat, n7 \in Nat,
          n8 \in Nat, n9 \in Nat :
       /\ n1 = Len(sending) /\ n2 = Len(FlattenSeq(batchq)) /\ n3 = Len(flushing)
       /\ n4 = Len(buf) /\ n5 = Len(chan["enrich"]) /\ n6 = Len(hold["enricher"])
       /\ n7 = Len(chan["record"]) /\ n8 = Len(hold["parser"]) /\ n9 = Len(chan["raw"])
  BY <1>0, PieceLengths, ZenonT(40)
<1>5. Len(Line) = n1 + (n2 + (n3 + (n4 + (n5 + (n6 + (n7 + (n8 + n9)))))))
  BY <1>1, <1>2, <1>3, <1>4, ZenonT(40)
<1>6. n1 + (n2 + (n3 + (n4 + (n5 + (n6 + (n7 + (n8 + n9)))))))
        = n1 + n2 + n3 + n4 + n5 + n6 + n7 + n8 + n9
  OBVIOUS
<1> QED  BY <1>4, <1>5, <1>6, ZenonT(40)

\* A running agent holds no more than its channels, its stages and its batches can.
LEMMA RunningRoom ==
  ASSUME TypeOK, MemoryBounded, Bounded, Shape, ~Cancelled
  PROVE  /\ Len(Line) <= CapacityOf
         /\ Len(chan["raw"]) < Cap["raw"] => Len(Line) < CapacityOf
         /\ CapacityOf \in Nat
<1>0. Pieces /\ Cut
  BY TypedPieces, CutPieces
<1>1. /\ Cap["raw"] \in Nat /\ Cap["record"] \in Nat /\ Cap["enrich"] \in Nat
      /\ BatchCap \in Nat /\ BatchSize \in Nat
  BY CapAssumption, BatchAssumption DEF Link
<1>2. /\ Len(chan["raw"]) <= Cap["raw"] /\ Len(chan["record"]) <= Cap["record"]
      /\ Len(chan["enrich"]) <= Cap["enrich"] /\ Len(batchq) <= BatchCap
  BY DEF MemoryBounded, Link
<1>3. Len(hold["parser"]) <= 1 /\ Len(hold["enricher"]) <= 1
  <2>1. ASSUME NEW s \in Stage  PROVE Len(hold[s]) <= 1
    <3>1. CASE hold[s] = <<>>
      <4>1. Len(hold[s]) = 0
        BY <3>1
      <4> QED  BY <4>1
    <3>2. CASE hold[s] # <<>>
      <4>1. Len(hold[s]) = 1
        BY <3>2 DEF MemoryBounded
      <4> QED  BY <4>1
    <3> QED  BY <3>1, <3>2
  <2> QED  BY <2>1 DEF Stage
<1>4. /\ Len(sending) <= BatchSize /\ Len(flushing) <= BatchSize /\ Len(buf) < BatchSize
      /\ \A i \in 1..Len(batchq) : Len(batchq[i]) <= BatchSize
  <2>1. batchq \in Seq(Seq(Nat)) /\ BatchSize \in Nat /\ BatchSize >= 1 /\ Len(<<>>) = 0
    BY <1>0, BatchAssumption DEF Pieces
  <2>2. Len(buf) < BatchSize
    <3>1. Len(buf) \in Nat
      BY <1>0 DEF Pieces
    <3>2. ~(Len(buf) >= BatchSize)
      BY DEF Bounded, BatchBound
    <3> QED  BY <2>1, <3>1, <3>2
  <2>3. Len(flushing) <= BatchSize
    BY <2>1 DEF Bounded, BatchBound, Sized, TypeOK
  <2>4. Len(sending) <= BatchSize
    BY <2>1 DEF Bounded, BatchBound, Sized, TypeOK
  <2>5. \A i \in 1..Len(batchq) : Len(batchq[i]) <= BatchSize
    BY <2>1 DEF Bounded, BatchBound, Sized
  <2> QED  BY <2>2, <2>3, <2>4, <2>5
<1>5. flushing = <<>> \/ buf = <<>>
  BY DEF Shape
<1>6. Len(flushing) + Len(buf) <= BatchSize
  <2>1. Len(flushing) \in Nat /\ Len(buf) \in Nat
    BY <1>0 DEF Pieces
  <2>2. CASE flushing = <<>>
    <3>1. Len(flushing) = 0
      BY <2>2
    <3> QED  BY <1>1, <1>4, <2>1, <3>1
  <2>3. CASE buf = <<>>
    <3>1. Len(buf) = 0
      BY <2>3
    <3> QED  BY <1>1, <1>4, <2>1, <3>1
  <2> QED  BY <1>5, <2>2, <2>3
<1>7. Len(FlattenSeq(batchq)) <= BatchSize * BatchCap
  <2>1. Len(FlattenSeq(batchq)) <= BatchSize * Len(batchq)
    BY <1>0, <1>1, <1>4, FlattenBound DEF Pieces
  <2>2. PICK n \in Nat : n = Len(batchq)
    BY <1>0 DEF Pieces
  <2>3. PICK k \in Nat : BatchCap = n + k
    <3>1. BatchCap - n \in Nat /\ BatchCap = n + (BatchCap - n)
      BY <1>1, <1>2, <2>2
    <3> QED  BY <3>1
  <2>4. BatchSize * (n + k) = BatchSize * n + BatchSize * k /\ BatchSize * k \in Nat
    BY <1>1
  <2>5. BatchSize * n <= BatchSize * BatchCap
    <3>1. BatchSize * n \in Nat
      BY <1>1
    <3> QED  BY <2>3, <2>4, <3>1
  <2>6. PICK m \in Nat : m = Len(FlattenSeq(batchq))
    BY <1>0 DEF Cut
  <2>7. m <= BatchSize * n /\ BatchSize * n \in Nat /\ BatchSize * BatchCap \in Nat
    BY <1>1, <2>1, <2>2, <2>6
  <2> QED  BY <2>5, <2>6, <2>7
<1>8. PICK p \in Nat : p = BatchSize * BatchCap
  BY <1>1
<1>9. CapacityOf = Cap["raw"] + Cap["record"] + Cap["enrich"] + 2 + (p + 2 * BatchSize)
  <2>1. BatchSize * (BatchCap + 2) = BatchSize * BatchCap + 2 * BatchSize
    BY <1>1
  <2> QED  BY <1>8, <2>1 DEF CapacityOf
<1>10. PICK n1 \in Nat, n2 \in Nat, n3 \in Nat, n4 \in Nat, n5 \in Nat, n6 \in Nat, n7 \in Nat,
          n8 \in Nat, n9 \in Nat :
       /\ n1 = Len(sending) /\ n2 = Len(FlattenSeq(batchq)) /\ n3 = Len(flushing)
       /\ n4 = Len(buf) /\ n5 = Len(chan["enrich"]) /\ n6 = Len(hold["enricher"])
       /\ n7 = Len(chan["record"]) /\ n8 = Len(hold["parser"]) /\ n9 = Len(chan["raw"])
  BY <1>0, PieceLengths, ZenonT(40)
<1>11. Len(Line) = n1 + n2 + n3 + n4 + n5 + n6 + n7 + n8 + n9
  BY <1>10, LineLength, ZenonT(40)
<1>12. PICK cw \in Nat, cr \in Nat, ce \in Nat, b \in Nat :
         cw = Cap["raw"] /\ cr = Cap["record"] /\ ce = Cap["enrich"] /\ b = BatchSize
  BY <1>1
<1>13. /\ n1 <= b /\ n2 <= p /\ n3 + n4 <= b /\ n5 <= ce /\ n6 <= 1 /\ n7 <= cr /\ n8 <= 1
       /\ n9 <= cw
  BY <1>2, <1>3, <1>4, <1>6, <1>7, <1>8, <1>10, <1>12
<1>14. CapacityOf = cw + cr + ce + 2 + (p + 2 * b)
  BY <1>9, <1>12
<1>15. CapacityOf \in Nat
  BY <1>14
<1>16. n1 + n2 + n3 + n4 + n5 + n6 + n7 + n8 + n9 <= cw + cr + ce + 2 + (p + 2 * b)
  BY <1>13
<1>17. n9 < cw =>
         n1 + n2 + n3 + n4 + n5 + n6 + n7 + n8 + n9 < cw + cr + ce + 2 + (p + 2 * b)
  BY <1>13
<1> QED  BY <1>10, <1>11, <1>12, <1>14, <1>15, <1>16, <1>17

----------------------------------------------------------------------------
(* Every step is a step of the queue, or none.                                  *)

\* The step splits into those that leave the line alone, and the three that do not.
LEMMA StepKinds ==
  ASSUME TypeOK, TypeOK', Shape, [Next]_vars
  PROVE  \/ /\ Line' = Line /\ UNCHANGED <<entered, settled>> /\ Cancelled' = Cancelled
            /\ Cancelled => InHand' \subseteq InHand
         \/ \E t \in Tailer : TailSend(t)
         \/ CallOk \/ GiveUp \/ (CallFail /\ ~(attempt < MaxRetries))
         \/ \E s \in Stage : StageQuit(s)
         \/ Signal
<1> DEFINE Quiet == /\ Line' = Line /\ UNCHANGED <<entered, settled>> /\ Cancelled' = Cancelled
                    /\ Cancelled => InHand' \subseteq InHand
<1>1. Still => Quiet
  BY DEF Still, Cancelled, InHand
<1>2. CASE \/ InputFail \/ InputStart \/ InputWait \/ InputClose
           \/ \E t \in Tailer : TailStart(t) \/ TailRead(t) \/ TailQuit(t)
  <2>1. Quiet
    BY <1>2, InputStill DEF Cancelled
  <2> QED  BY <2>1
<1>3. ASSUME NEW s \in Stage, StageRecv(s) \/ StageSend(s) \/ StageEnd(s)  PROVE Quiet
  BY <1>1, <1>3, StageStill
<1>4. CASE Batch
  <2>1. Quiet
    BY <1>1, <1>4, BatchStill
  <2> QED  BY <2>1
<1>5. CASE ExportRecv \/ Retry \/ ExportEnd \/ (CallFail /\ attempt < MaxRetries)
  <2>1. Quiet
    BY <1>1, <1>5, ExportStill
  <2> QED  BY <2>1
<1>6. CASE Stopped \/ UNCHANGED vars
  <2>1. Line' = Line /\ UNCHANGED <<tail, entered, settled>>
    BY <1>6, RestStill
  <2>2. Cancelled' = Cancelled
    BY <1>6 DEF Stopped, Cancelled, vars
  <2>3. Quiet
    BY <2>1, <2>2 DEF InHand
  <2> QED  BY <2>3
<1> HIDE DEF Quiet
<1>7. \/ Quiet
      \/ \E t \in Tailer : TailSend(t)
      \/ CallOk \/ GiveUp \/ (CallFail /\ ~(attempt < MaxRetries))
      \/ \E s \in Stage : StageQuit(s)
      \/ Signal
  BY <1>2, <1>3, <1>4, <1>5, <1>6 DEF Next, Input, Transform, Export, Quiet
<1> QED  BY <1>7 DEF Quiet

\* Not more lines are in hand than there are tailers.
LEMMA InHandFinite ==
  /\ IsFiniteSet(InHand) /\ Cardinality(InHand) \in Nat
  /\ Cardinality(InHand) <= Cardinality(Tailer) /\ Cardinality(Tailer) \in Nat
<1>1. InHand \in SUBSET Tailer
  BY DEF InHand
<1> QED  BY <1>1, TailerAssumption, FS_Subset, FS_CardinalityType

\* A line in two parts can be cut between them.
LEMMA SettleLine ==
  ASSUME NEW a \in Seq(Nat), NEW b \in Seq(Nat), NEW q, q = a \o b
  PROVE  /\ SubSeq(q, 1, Len(a)) = a /\ SubSeq(q, Len(a) + 1, Len(q)) = b
         /\ Len(a) \in 0..Len(q) /\ Len(b) <= Len(q) /\ Len(a) = 0 => a = <<>>
<1>1. /\ q \in Seq(Nat) /\ Len(q) = Len(a) + Len(b) /\ Len(a) \in Nat /\ Len(b) \in Nat
      /\ \A i \in 1..Len(a) : q[i] = a[i]
      /\ \A i \in 1..Len(b) : q[Len(a) + i] = b[i]
  OBVIOUS
<1>2. /\ SubSeq(q, 1, Len(a)) \in Seq(Nat) /\ Len(SubSeq(q, 1, Len(a))) = Len(a)
      /\ \A i \in 1..Len(a) : SubSeq(q, 1, Len(a))[i] = q[i]
  BY <1>1
<1>3. SubSeq(q, 1, Len(a)) = a
  BY <1>1, <1>2, SeqEqual
<1>4. /\ SubSeq(q, Len(a) + 1, Len(q)) \in Seq(Nat)
      /\ Len(SubSeq(q, Len(a) + 1, Len(q))) = Len(b)
      /\ \A i \in 1..Len(b) : SubSeq(q, Len(a) + 1, Len(q))[i] = q[Len(a) + i]
  BY <1>1
<1>5. SubSeq(q, Len(a) + 1, Len(q)) = b
  BY <1>1, <1>4, SeqEqual
<1> QED  BY <1>1, <1>3, <1>5

LEMMA LineTyped ==
  ASSUME TypeOK, TypeOK'
  PROVE  Line \in Seq(Nat) /\ Line' \in Seq(Nat)
<1>1. Cut /\ Cut'
  BY TypedPieces, TypedPiecesNext, CutPieces, CutNext
<1> QED  BY <1>1 DEF Cut

\* What a sequence is with one more member.
LEMMA Appended ==
  ASSUME NEW q \in Seq(Nat), NEW e \in Nat
  PROVE  /\ DOMAIN Append(q, e) = 1..(Len(q) + 1) /\ Append(q, e)[Len(q) + 1] = e
         /\ \A i \in 1..Len(q) : Append(q, e)[i] = q[i]
         /\ Range(Append(q, e)) = Range(q) \cup {e}
<1>1. /\ DOMAIN Append(q, e) = 1..(Len(q) + 1) /\ Append(q, e)[Len(q) + 1] = e
      /\ \A i \in 1..Len(q) : Append(q, e)[i] = q[i]
  OBVIOUS
<1>2. Range(Append(q, e)) \subseteq Range(q) \cup {e}
  BY AppendedMembers
<1>3. Range(q) \subseteq Range(Append(q, e))
  <2>1. ASSUME NEW i \in 1..Len(q)  PROVE q[i] \in Range(Append(q, e))
    <3>1. i \in DOMAIN Append(q, e) /\ q[i] = Append(q, e)[i]
      BY <1>1
    <3> QED  BY <3>1, ZenonT(40) DEF Range
  <2> QED  BY <2>1, MemberOf
<1>4. e \in Range(Append(q, e))
  <2>1. Len(q) + 1 \in DOMAIN Append(q, e)
    BY <1>1
  <2> QED  BY <1>1, <2>1, ZenonT(40) DEF Range
<1> QED  BY <1>1, <1>2, <1>3, <1>4

LEMMA SameRange == \A q : Fifo!Range(q) = Range(q)
  BY DEF Fifo!Range, Range

\* Each step is a step of AgentFifo or leaves the line alone, by the kinds of step above.
LEMMA RefineStep ==
  ASSUME FifoInv, TypeOK', [Next]_vars
  PROVE  [Fifo!FifoNext]_<<Line, entered, settled, Cancelled>> /\ Room'
<1> USE DEF FifoInv
<1>0. Line \in Seq(Nat) /\ Line' \in Seq(Nat) /\ Len(Line) \in Nat /\ Len(Line') \in Nat
  BY LineTyped, LengthTyped
<1>1. /\ IsFiniteSet(InHand) /\ Cardinality(InHand) \in Nat
      /\ Cardinality(InHand) <= Cardinality(Tailer) /\ Cardinality(Tailer) \in Nat
  BY InHandFinite
<1>2. CapacityOf \in Nat
  BY CapAssumption, BatchAssumption DEF CapacityOf, Link
<1>3. CASE /\ Line' = Line /\ UNCHANGED <<entered, settled>> /\ Cancelled' = Cancelled
           /\ Cancelled => InHand' \subseteq InHand
  <2>1. Cancelled => Cardinality(InHand') <= Cardinality(InHand) /\ Cardinality(InHand') \in Nat
    BY <1>1, <1>3, FS_Subset, FS_CardinalityType
  <2>2. Room'
    BY <1>0, <1>1, <1>2, <1>3, <2>1 DEF Room
  <2> QED  BY <1>3, <2>2
<1>4. ASSUME NEW t \in Tailer, TailSend(t)
      PROVE  [Fifo!FifoNext]_<<Line, entered, settled, Cancelled>> /\ Room'
  <2>1. /\ Line' = Append(Line, entered') /\ entered' = entered + 1
        /\ Len(chan["raw"]) < Cap["raw"]
        /\ t \in InHand /\ InHand' = InHand \ {t}
        /\ UNCHANGED <<main, settled>>
    BY <1>4, SendEnters
  <2>2. Cancelled' = Cancelled
    BY <2>1 DEF Cancelled
  <2>3. Cardinality(InHand') = Cardinality(InHand) - 1 /\ Cardinality(InHand') \in Nat
    <3>1. IsFiniteSet(InHand') /\ Cardinality(InHand') = Cardinality(InHand) - 1
      BY <1>1, <2>1, FS_RemoveElement
    <3> QED  BY <3>1, FS_CardinalityType
  <2>4. Len(Line') = Len(Line) + 1
    BY <1>0, <2>1 DEF TypeOK
  <2>5. Len(Line) < IF Cancelled THEN CapacityOf + Cardinality(Tailer) ELSE CapacityOf
    <3>1. CASE Cancelled
      BY <1>0, <1>1, <1>2, <2>3, <3>1 DEF Room
    <3>2. CASE ~Cancelled
      BY <2>1, <3>2, RunningRoom
    <3> QED  BY <3>1, <3>2
  <2>6. Fifo!Enter
    BY <2>1, <2>2, <2>5 DEF Fifo!Enter, CapacityOf
  <2>7. Room'
    BY <1>0, <1>1, <1>2, <2>2, <2>3, <2>4 DEF Room
  <2> QED  BY <2>6, <2>7 DEF Fifo!FifoNext
<1>5. CASE CallOk \/ GiveUp \/ (CallFail /\ ~(attempt < MaxRetries))
  <2>1. /\ Line = sending \o Line' /\ sending \in Seq(Nat)
        /\ settled' = settled \cup Range(sending)
        /\ UNCHANGED <<main, tail, entered>>
    BY <1>5, ReturnSettles
  <2>2. /\ SubSeq(Line, 1, Len(sending)) = sending
        /\ SubSeq(Line, Len(sending) + 1, Len(Line)) = Line'
        /\ Len(sending) \in 0..Len(Line) /\ Len(Line') <= Len(Line)
        /\ Len(sending) = 0 => sending = <<>>
    BY <1>0, <2>1, SettleLine
  <2>3. Cancelled' = Cancelled /\ InHand' = InHand
    BY <2>1 DEF Cancelled, InHand
  <2>4. Room'
    BY <1>0, <1>1, <1>2, <2>2, <2>3 DEF Room
  <2>5. CASE Len(sending) = 0
    <3>1. Line' = Line
      BY <1>0, <2>1, <2>2, <2>5, NoneThere
    <3>2. settled' = settled
      BY <2>1, <2>2, <2>5 DEF Range
    <3> QED  BY <2>1, <2>3, <2>4, <3>1, <3>2
  <2>6. CASE Len(sending) # 0
    <3>1. Len(sending) \in 1..Len(Line)
      BY <1>0, <2>2, <2>6
    <3>2. Fifo!Settle
      BY <2>1, <2>2, <2>3, <3>1, SameRange DEF Fifo!Settle
    <3> QED  BY <2>4, <3>2 DEF Fifo!FifoNext
  <2> QED  BY <2>5, <2>6
<1>6. ASSUME NEW s \in Stage, StageQuit(s)
      PROVE  [Fifo!FifoNext]_<<Line, entered, settled, Cancelled>> /\ Room'
  <2>1. Cancelled /\ Drops(Line, Line') /\ UNCHANGED <<main, tail, entered, settled>>
    BY <1>6, QuitDrops
  <2>2. \A i, j \in 1..Len(Line) : i < j => Line[i] < Line[j]
    BY <1>0 DEF Numbered, InOrder
  <2>3. /\ Line' \in Seq(Range(Line)) /\ Len(Line') <= Len(Line)
        /\ \A i, j \in DOMAIN Line' : i < j => Line'[i] < Line'[j]
    BY <2>1, <2>2, DropsKeeps
  <2>4. Cancelled' = Cancelled /\ InHand' = InHand
    BY <2>1 DEF Cancelled, InHand
  <2>5. Room'
    BY <1>0, <1>1, <1>2, <2>3, <2>4 DEF Room
  <2>6. Fifo!Abandon
    BY <2>1, <2>3, <2>4, SameRange DEF Fifo!Abandon
  <2> QED  BY <2>5, <2>6 DEF Fifo!FifoNext
<1>7. CASE Signal
  <2>1. Line' = Line /\ UNCHANGED <<tail, entered, settled>>
    BY <1>7, RestStill
  <2>2. ~Cancelled /\ Cancelled' = TRUE /\ InHand' = InHand
    BY <1>7, <2>1 DEF Signal, Cancelled, InHand
  <2>3. Len(Line) <= CapacityOf
    BY <2>2, RunningRoom
  <2>4. Room'
    BY <1>0, <1>1, <1>2, <2>1, <2>2, <2>3 DEF Room
  <2>5. Fifo!Close
    BY <2>1, <2>2 DEF Fifo!Close
  <2> QED  BY <2>4, <2>5 DEF Fifo!FifoNext
<1> QED  BY <1>3, <1>4, <1>5, <1>6, <1>7, StepKinds

\* The queue itself keeps the lines numbered: nothing below is about the pipeline.
LEMMA NumberedStep ==
  ASSUME TypeOK, TypeOK', Numbered, [Fifo!FifoNext]_<<Line, entered, settled, Cancelled>>
  PROVE  Numbered'
<1>0. /\ Line \in Seq(Nat) /\ Line' \in Seq(Nat) /\ entered \in Nat
      /\ DOMAIN Line = 1..Len(Line) /\ Len(Line) \in Nat
      /\ \A i \in 1..Len(Line) : Line[i] \in Nat
      /\ \A i, j \in 1..Len(Line) : i < j => Line[i] < Line[j]
  <2>1. Line \in Seq(Nat) /\ Line' \in Seq(Nat) /\ entered \in Nat
    BY LineTyped DEF TypeOK
  <2> QED  BY <2>1 DEF Numbered, InOrder
<1> USE DEF Numbered
<1>1. CASE Fifo!Enter
  <2>1. /\ Line' = Append(Line, entered') /\ entered' = entered + 1
        /\ settled' = settled /\ Cancelled' = Cancelled
    BY <1>1 DEF Fifo!Enter
  <2>2. /\ DOMAIN Line' = 1..(Len(Line) + 1) /\ Line'[Len(Line) + 1] = entered + 1
        /\ \A i \in 1..Len(Line) : Line'[i] = Line[i]
        /\ Range(Line') = Range(Line) \cup {entered + 1}
    <3>1. entered + 1 \in Nat
      BY <1>0
    <3>2. Line' = Append(Line, entered + 1)
      BY <2>1, ZenonT(40)
    <3> QED  BY <1>0, <3>1, <3>2, Appended, ZenonT(40)
  <2>4. InOrder'
    <3>1. \A i \in 1..Len(Line) : Line[i] \in 1..entered
      BY <1>0, MemberOf
    <3>2. ASSUME NEW i \in DOMAIN Line', NEW j \in DOMAIN Line', i < j
          PROVE  Line'[i] < Line'[j]
      <4>1. i \in 1..Len(Line) /\ (j \in 1..Len(Line) \/ j = Len(Line) + 1)
        BY <1>0, <2>2, <3>2
      <4> QED  BY <1>0, <2>2, <3>1, <3>2, <4>1
    <3> QED  BY <3>2 DEF InOrder
  <2>5. 1..entered' = 1..entered \cup {entered + 1}
    <3>1. PICK n \in Nat : n = entered
      BY <1>0
    <3>2. 1..(n + 1) = 1..n \cup {n + 1}
      OBVIOUS
    <3> QED  BY <2>1, <3>1, <3>2
  <2>6. entered + 1 \notin 1..entered
    BY <1>0
  <2> QED  BY <2>1, <2>2, <2>4, <2>5, <2>6
<1>2. CASE Fifo!Settle
  <2>1. PICK n \in 1..Len(Line) :
          /\ settled' = settled \cup Range(SubSeq(Line, 1, n))
          /\ Line' = SubSeq(Line, n + 1, Len(Line))
    BY <1>2, SameRange DEF Fifo!Settle
  <2>2. entered' = entered /\ Cancelled' = Cancelled
    BY <1>2 DEF Fifo!Settle
  <2>3. /\ DOMAIN Line' = 1..(Len(Line) - n) /\ Len(Line) \in Nat
        /\ \A i \in 1..(Len(Line) - n) : Line'[i] = Line[n + i] /\ n + i \in 1..Len(Line)
    BY <1>0, <2>1
  <2>4. Range(SubSeq(Line, 1, n)) = {Line[i] : i \in 1..n}
    <3>1. /\ DOMAIN SubSeq(Line, 1, n) = 1..n
          /\ \A i \in 1..n : SubSeq(Line, 1, n)[i] = Line[i]
      BY <1>0
    <3> QED  BY <3>1 DEF Range
  <2>5. Range(Line') = {Line[i] : i \in (n + 1)..Len(Line)}
    <3>1. \A i \in (n + 1)..Len(Line) : i - n \in 1..(Len(Line) - n) /\ n + (i - n) = i
      BY <2>3
    <3>2. \A i \in 1..(Len(Line) - n) : n + i \in (n + 1)..Len(Line)
      BY <2>3
    <3>3. Range(Line') = {Line'[i] : i \in 1..(Len(Line) - n)}
      BY <2>3 DEF Range
    <3>4. ASSUME NEW i \in 1..(Len(Line) - n)
          PROVE  Line'[i] \in {Line[k] : k \in (n + 1)..Len(Line)}
      BY <2>3, <3>2
    <3>5. ASSUME NEW k \in (n + 1)..Len(Line)
          PROVE  Line[k] \in {Line'[i] : i \in 1..(Len(Line) - n)}
      <4>1. PICK i \in 1..(Len(Line) - n) : n + i = k
        BY <3>1
      <4>2. Line'[i] = Line[k]
        BY <2>3, <4>1
      <4> QED  BY <4>2
    <3> QED  BY <3>3, <3>4, <3>5
  <2>6. Range(Line) = {Line[i] : i \in 1..n} \cup {Line[i] : i \in (n + 1)..Len(Line)}
    <3>1. 1..Len(Line) = 1..n \cup (n + 1)..Len(Line)
      BY <2>3
    <3> QED  BY <1>0, <3>1 DEF Range
  <2>7. {Line[i] : i \in 1..n} \cap {Line[i] : i \in (n + 1)..Len(Line)} = {}
    <3> SUFFICES ASSUME NEW i \in 1..n, NEW j \in (n + 1)..Len(Line), Line[i] = Line[j]
                 PROVE  FALSE
      OBVIOUS
    <3>1. i < j /\ i \in 1..Len(Line) /\ j \in 1..Len(Line)
      BY <2>3
    <3>2. Line[i] < Line[j] /\ Line[i] \in Nat
      BY <1>0, <3>1
    <3> QED  BY <3>2
  <2>8. InOrder'
    <3> SUFFICES ASSUME NEW i \in DOMAIN Line', NEW j \in DOMAIN Line', i < j
                 PROVE  Line'[i] < Line'[j]
      BY DEF InOrder
    <3>1. n + i < n + j /\ n + i \in 1..Len(Line) /\ n + j \in 1..Len(Line)
      BY <2>3
    <3> QED  BY <1>0, <2>3, <3>1
  <2> QED  BY <2>1, <2>2, <2>4, <2>5, <2>6, <2>7, <2>8
<1>3. CASE Fifo!Abandon
  <2>1. /\ Cancelled /\ Cancelled' /\ entered' = entered /\ settled' = settled
        /\ Line' \in Seq(Range(Line))
        /\ \A i, j \in DOMAIN Line' : i < j => Line'[i] < Line'[j]
    BY <1>3, SameRange DEF Fifo!Abandon
  <2>2. Range(Line') \subseteq Range(Line)
    BY <2>1 DEF Range
  <2> QED  BY <2>1, <2>2 DEF InOrder
<1>4. CASE Fifo!Close \/ UNCHANGED <<Line, entered, settled, Cancelled>>
  <2>1. Line' = Line /\ entered' = entered /\ settled' = settled /\ (Cancelled => Cancelled')
    BY <1>4 DEF Fifo!Close
  <2> QED  BY <2>1 DEF InOrder
<1> QED  BY <1>1, <1>2, <1>3, <1>4 DEF Fifo!FifoNext

\* At first the line is empty.
LEMMA FifoInvInit == ASSUME Init  PROVE FifoInv /\ Fifo!FifoInit
<1>1. TypeOK
  BY TypedInit
<1>2. MemoryBounded /\ Bounded
  <2>1. Len(<<>>) = 0 /\ DOMAIN <<>> = {}
    OBVIOUS
  <2> QED
    BY <2>1, CapAssumption, BatchAssumption DEF Init, MemoryBounded, Bounded, BatchBound
<1>3. Shape
  BY DEF Init, Shape
<1>4. ~Cancelled
  BY DEF Init, Cancelled
<1>5. Line = <<>>
  <2>1. /\ sending = <<>> /\ batchq = <<>> /\ flushing = <<>> /\ buf = <<>>
        /\ chan["enrich"] = <<>> /\ hold["enricher"] = <<>> /\ chan["record"] = <<>>
        /\ hold["parser"] = <<>> /\ chan["raw"] = <<>>
    BY DEF Init, Link, Stage
  <2>2. <<>> \o <<>> = <<>>
    OBVIOUS
  <2> QED  BY <2>1, <2>2, FlattenEmpty, ZenonT(40) DEF Line
<1>6. entered = 0 /\ settled = {}
  BY DEF Init
<1>7. Numbered
  BY <1>5, <1>6 DEF Numbered, InOrder, Range
<1>8. Room
  BY <1>4 DEF Room
<1>9. Fifo!FifoInit
  BY <1>4, <1>5, <1>6 DEF Fifo!FifoInit
<1> QED  BY <1>1, <1>2, <1>3, <1>7, <1>8, <1>9 DEF FifoInv

\* FifoInv is inductive, and under it a step is a step of AgentFifo.
LEMMA FifoInvStep ==
  ASSUME FifoInv, [Next]_vars
  PROVE  FifoInv' /\ [Fifo!FifoNext]_(Fifo!fifoVars)
<1>1. TypeOK'
  BY TypedStep DEF FifoInv
<1>2. MemoryBounded' /\ Bounded' /\ Shape'
  BY MemoryStep, BoundedStep, ShapeStep DEF FifoInv
<1>3. [Fifo!FifoNext]_<<Line, entered, settled, Cancelled>> /\ Room'
  BY <1>1, RefineStep
<1>4. Numbered'
  BY <1>1, <1>3, NumberedStep DEF FifoInv
<1> QED  BY <1>1, <1>2, <1>3, <1>4 DEF FifoInv, Fifo!fifoVars

\* FifoInv, the inductive invariant of the agent: how much of the queue's capacity each
\* place can use, and which lines are where.
THEOREM AgentFifoInvariant == Spec => []FifoInv
<1>1. Init => FifoInv
  BY FifoInvInit
<1>2. FifoInv /\ [Next]_vars => FifoInv'
  BY FifoInvStep
<1> QED  BY <1>1, <1>2, PTL DEF Spec

\* The five goroutines and their channels are one bounded queue: lines enter at the end,
\* leave at the front when the exporter is done with them, and are given up only while the
\* agent stops; for any number of tailers, any channel sizes and any batch size.
THEOREM AgentImplementsFifo == Spec => ImplementsFifo
<1>1. Init => FifoInv /\ Fifo!FifoInit
  BY FifoInvInit
<1>2. FifoInv /\ [Next]_vars => FifoInv' /\ [Fifo!FifoNext]_(Fifo!fifoVars)
  BY FifoInvStep
<1> QED  BY <1>1, <1>2, PTL DEF Spec, ImplementsFifo, Fifo!FifoSpec

\* No line overtakes another between two stages, also while the agent stops.
THEOREM AgentInOrder == Spec => []InOrder
<1>1. FifoInv => InOrder
  BY DEF FifoInv, Numbered
<1> QED  BY <1>1, AgentFifoInvariant, PTL

\* Until it is told to stop the agent holds exactly the lines that entered and are not
\* settled: none is lost or duplicated on the way.
THEOREM AgentNoneMissing == Spec => []NoneMissing
<1>1. FifoInv => NoneMissing
  BY DEF FifoInv, Numbered, NoneMissing
<1> QED  BY <1>1, AgentFifoInvariant, PTL
=============================================================================
