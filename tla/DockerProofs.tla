----------------------------- MODULE DockerProofs -----------------------------
(* Machine-checked proofs about DockerInput and TailFile, for every value of     *)
(* their constants.                                                             *)
EXTENDS DockerInput, TLAPS

Label == {"off", "open", "loop", "send", "eof", "poll", "exit"}

----------------------------------------------------------------------------
(* The inductive invariant. *)

\* The files follow each other; the one in use ends with what was written last.
FilesInOrder ==
  /\ \A i \in 1..Len(file) : file[i].from <= file[i].to /\ file[i].to <= written
  /\ \A i, j \in 1..Len(file) : i < j => file[i].to <= file[j].from
  /\ path # 0 => path = Len(file) /\ file[path].to = written

\* A call has a line in hand while it sends, and nothing else when it has read to the end.
Held(at, c) ==
  /\ at = "send" <=> c.hold # <<>>
  /\ at \in {"eof", "poll"} => c.got = <<>>
  /\ \A i \in 1..Len(c.hold) : c.hold[i] <= written
  /\ \A i \in 1..Len(c.got) : c.got[i] <= written

\* Where it is in its file.
Placed(at, c) ==
  /\ c.renamed => c.fd < Len(file)
  /\ ~c.cut => c.pos <= Size(c.fd)
  /\ at = "eof" /\ c.renamed /\ ~c.cut => c.pos = Size(c.fd)
  /\ ~c.cut => c.lastSize <= Size(c.fd)

\* The piece before the file's first one, and the piece that was read last.
Origin(c) == file[c.fd].from
Base(c)   == file[c.fd].from + c.pos

\* The piece before the one it is to read next, when it has noticed every truncation.
Resume(c) == IF c.cut THEN Origin(c) ELSE Base(c)

\* What it holds is what follows the last line it sent, and goes on where it reads next: at
\* its offset, or, in a file truncated behind its back, at the start.
Aligned(at, c) ==
  LET next == c.last + Len(c.hold) + Len(c.got)
  IN ~c.missed =>
       /\ \A i \in 1..Len(c.hold) : c.hold[i] = c.last + i
       /\ \A i \in 1..Len(c.got) : c.got[i] = c.last + Len(c.hold) + i
       /\ c.cut => Origin(c) = next
       /\ ~c.cut => Base(c) = next
       /\ LineEnd(c.last)
       /\ at = "send" => c.hold[Len(c.hold)] \in ends

\* Increasing, and between two bounds.
Between(q, lo, hi) ==
  /\ \A i \in 1..Len(q) : q[i] \in Nat /\ lo < q[i] /\ q[i] <= hi
  /\ \A i, j \in 1..Len(q) : i < j => q[i] < q[j]

\* What it holds is in order, after the last line it sent and before what it reads next.
Sorted(c) ==
  ~c.stale =>
     /\ c.last <= Resume(c)
     /\ Between(c.hold, c.last, Resume(c)) /\ Between(c.got, c.last, Resume(c))
     /\ \A i \in 1..Len(c.hold), j \in 1..Len(c.got) : c.hold[i] < c.got[j]

Reader(at, c) == Held(at, c) /\ Placed(at, c) /\ Aligned(at, c) /\ Sorted(c)

CallInv(g) ==
  /\ ~Reading(g) => call[g] = NewCall(call[g].start)
  /\ Reading(g) => Reader(pc[g], call[g])

\* At most one tailer, and it is the one the watcher knows, while the container is there.
Entered == OneTailer /\ (here => \A g \in Tailer : pc[g] # "off" => entry = g)

TailInv == TypeOK /\ FilesInOrder /\ \A g \in Tailer : CallInv(g)

----------------------------------------------------------------------------
(* Lemmas about the definitions. *)

\* What read(2) returns.
LEMMA PiecesProp ==
  ASSUME NEW lo \in Nat, NEW n \in Nat
  PROVE  /\ Pieces(lo, lo + n) \in Seq(Nat)
         /\ Len(Pieces(lo, lo + n)) = n
         /\ \A i \in 1..n : Pieces(lo, lo + n)[i] = lo + i
<1>1. Pieces(lo, lo + n) = [i \in 1..n |-> lo + i]
  BY DEF Pieces
<1>2. [i \in 1..n |-> lo + i] \in [1..n -> Nat]
  OBVIOUS
<1>3. [i \in 1..n |-> lo + i] \in Seq(Nat)
  BY <1>2
<1> QED  BY <1>1, <1>2, <1>3

\* ... and what the reader then has: what it had, and that.
Extends(r, q, lo, n) ==
  \A i \in 1..Len(r) :
    \/ i \in 1..Len(q) /\ r[i] = q[i]
    \/ i > Len(q) /\ i <= Len(q) + n /\ r[i] = lo + (i - Len(q))

LEMMA Appended ==
  ASSUME NEW q \in Seq(Nat), NEW lo \in Nat, NEW n \in Nat, NEW r,
         r = q \o Pieces(lo, lo + n)
  PROVE  r \in Seq(Nat) /\ Len(r) = Len(q) + n /\ Extends(r, q, lo, n)
<1> DEFINE t == Pieces(lo, lo + n)
<1>1. t \in Seq(Nat)
  BY PiecesProp
<1>2. Len(t) = n
  BY PiecesProp
<1>3. \A i \in 1..n : t[i] = lo + i
  BY PiecesProp
<1>4. r = q \o t
  OBVIOUS
<1> HIDE DEF t
<1>5. q \o t \in Seq(Nat)
  BY <1>1
<1>6. Len(q \o t) = Len(q) + Len(t) /\ Len(q) \in Nat
  BY <1>1
<1>7. Len(r) = Len(q) + n
  BY <1>2, <1>4, <1>6
<1>8. ASSUME NEW i \in 1..Len(r)
      PROVE  \/ i \in 1..Len(q) /\ r[i] = q[i]
             \/ i > Len(q) /\ i <= Len(q) + n /\ r[i] = lo + (i - Len(q))
  <2>1. i \in Nat /\ 1 <= i /\ i <= Len(q) + n
    BY <1>6, <1>7
  <2>2. i \in 1..(Len(q) + Len(t))
    BY <1>2, <1>6, <2>1
  <2>3. (q \o t)[i] = IF i <= Len(q) THEN q[i] ELSE t[i - Len(q)]
    BY <1>1, <2>2
  <2>4. CASE i <= Len(q)
    BY <1>4, <1>6, <2>1, <2>3, <2>4
  <2>5. CASE i > Len(q)
    <3>1. i - Len(q) \in 1..n
      BY <1>6, <2>1, <2>5
    <3>2. r[i] = t[i - Len(q)]
      BY <1>4, <1>6, <2>1, <2>3, <2>5
    <3> QED  BY <1>3, <2>1, <2>5, <3>1, <3>2
  <2> QED  BY <1>6, <2>1, <2>4, <2>5
<1> QED  BY <1>4, <1>5, <1>7, <1>8 DEF Extends

LEMMA ExtendedBound ==
  ASSUME NEW q, Len(q) \in Nat, NEW lo \in Nat, NEW n \in Nat, NEW r,
         Extends(r, q, lo, n),
         NEW w \in Nat, lo + n <= w, \A i \in 1..Len(q) : q[i] <= w
  PROVE  \A i \in 1..Len(r) : r[i] <= w
<1> SUFFICES ASSUME NEW i \in 1..Len(r)  PROVE r[i] <= w
  OBVIOUS
<1>1. CASE i \in 1..Len(q) /\ r[i] = q[i]
  BY <1>1
<1>2. CASE i > Len(q) /\ i <= Len(q) + n /\ r[i] = lo + (i - Len(q))
  <2>1. i \in Int
    OBVIOUS
  <2> QED  BY <1>2, <2>1
<1> QED  BY <1>1, <1>2 DEF Extends

LEMMA ExtendedRow ==
  ASSUME NEW q, Len(q) \in Nat, NEW lo \in Nat, NEW n \in Nat, NEW r,
         Extends(r, q, lo, n),
         NEW b \in Nat, lo = b + Len(q), \A i \in 1..Len(q) : q[i] = b + i
  PROVE  \A i \in 1..Len(r) : r[i] = b + i
<1> SUFFICES ASSUME NEW i \in 1..Len(r)  PROVE r[i] = b + i
  OBVIOUS
<1>1. CASE i \in 1..Len(q) /\ r[i] = q[i]
  BY <1>1
<1>2. CASE i > Len(q) /\ i <= Len(q) + n /\ r[i] = lo + (i - Len(q))
  <2>1. i \in Int
    OBVIOUS
  <2> QED  BY <1>2, <2>1
<1> QED  BY <1>1, <1>2 DEF Extends

LEMMA ExtendedBetween ==
  ASSUME NEW q, Len(q) \in Nat, NEW lo \in Nat, NEW n \in Nat, NEW r,
         Extends(r, q, lo, n),
         NEW b \in Nat, b <= lo, Between(q, b, lo)
  PROVE  Between(r, b, lo + n)
<1>1. Len(q) \in Nat
  OBVIOUS
<1>2. ASSUME NEW i \in 1..Len(r)  PROVE r[i] \in Nat /\ b < r[i] /\ r[i] <= lo + n
  <2>1. CASE i \in 1..Len(q) /\ r[i] = q[i]
    BY <2>1 DEF Between
  <2>2. CASE i > Len(q) /\ i <= Len(q) + n /\ r[i] = lo + (i - Len(q))
    <3>1. i \in Int
      OBVIOUS
    <3> QED  BY <1>1, <2>2, <3>1
  <2> QED  BY <2>1, <2>2 DEF Extends
<1>3. ASSUME NEW i \in 1..Len(r), NEW j \in 1..Len(r), i < j  PROVE r[i] < r[j]
  <2>1. i \in Int /\ j \in Int
    OBVIOUS
  <2>2. CASE j \in 1..Len(q) /\ r[j] = q[j]
    <3>1. i \in 1..Len(q) /\ r[i] = q[i]
      BY <1>1, <1>3, <2>1, <2>2 DEF Extends
    <3> QED  BY <1>3, <2>2, <3>1 DEF Between
  <2>3. CASE j > Len(q) /\ j <= Len(q) + n /\ r[j] = lo + (j - Len(q))
    <3>1. CASE i \in 1..Len(q) /\ r[i] = q[i]
      BY <1>1, <2>1, <2>3, <3>1 DEF Between
    <3>2. CASE i > Len(q) /\ i <= Len(q) + n /\ r[i] = lo + (i - Len(q))
      BY <1>1, <1>3, <2>1, <2>3, <3>2
    <3> QED  BY <3>1, <3>2 DEF Extends
  <2> QED  BY <2>2, <2>3 DEF Extends
<1> QED  BY <1>2, <1>3 DEF Between

\* A line and what follows it.
LEMMA Cut ==
  ASSUME NEW q \in Seq(Nat), NEW k \in 1..Len(q)
  PROVE  LET a == SubSeq(q, 1, k)
             b == SubSeq(q, k + 1, Len(q))
         IN /\ a \in Seq(Nat) /\ Len(a) = k /\ a # <<>>
            /\ \A i \in 1..k : a[i] = q[i]
            /\ b \in Seq(Nat) /\ Len(b) = Len(q) - k
            /\ \A i \in 1..(Len(q) - k) : b[i] = q[k + i] /\ k + i \in 1..Len(q)
<1> DEFINE a == SubSeq(q, 1, k)
           b == SubSeq(q, k + 1, Len(q))
<1>1. Len(q) \in Nat /\ k \in Nat /\ k >= 1 /\ k <= Len(q)
  OBVIOUS
<1>2. a \in Seq(Nat) /\ Len(a) = k /\ \A i \in 1..k : a[i] = q[i]
  BY <1>1
<1>3. a # <<>>
  <2>1. Len(<<>>) = 0
    OBVIOUS
  <2> QED  BY <1>1, <1>2, <2>1
<1>4. b \in Seq(Nat) /\ Len(b) = Len(q) - k
  BY <1>1
<1>5. ASSUME NEW i \in 1..(Len(q) - k)  PROVE b[i] = q[k + i] /\ k + i \in 1..Len(q)
  BY <1>1, <1>4
<1> QED  BY <1>2, <1>3, <1>4, <1>5

\* What a sequence holds.
LEMMA ElementOf ==
  ASSUME NEW S, NEW q \in Seq(S), NEW i \in 1..Len(q)
  PROVE  q[i] \in S
  OBVIOUS

\* A sequence with one element replaced.
LEMMA Replaced ==
  ASSUME NEW S, NEW q \in Seq(S), NEW k \in 1..Len(q), NEW v \in S
  PROVE  LET r == [q EXCEPT ![k] = v]
         IN r \in Seq(S) /\ Len(r) = Len(q) /\ r[k] = v
            /\ \A i \in 1..Len(q) : i # k => r[i] = q[i]
  OBVIOUS

\* The parts of a call that reads a file.
LEMMA ReaderFacts ==
  ASSUME TypeOK, FilesInOrder, NEW g \in Tailer, Reading(g)
  PROVE  LET c == call[g]
         IN /\ c \in Call
            /\ c.start \in BOOLEAN /\ c.renamed \in BOOLEAN /\ c.cut \in BOOLEAN
            /\ c.missed \in BOOLEAN /\ c.stale \in BOOLEAN
            /\ c.fd \in 1..Len(file) /\ c.fd \in Nat /\ c.pos \in Nat /\ c.lastSize \in Nat
            /\ c.last \in Nat /\ c.last <= written /\ written \in Nat
            /\ c.got \in Seq(Nat) /\ c.hold \in Seq(Nat)
            /\ Len(c.got) \in Nat /\ Len(c.hold) \in Nat
            /\ file[c.fd].from \in Nat /\ file[c.fd].to \in Nat /\ Size(c.fd) \in Nat
            /\ file[c.fd].to = file[c.fd].from + Size(c.fd)
            /\ file[c.fd].to <= written /\ Len(file) \in Nat
<1>1. call[g] \in Call /\ call[g].fd \in 1..Len(file) /\ call[g].last <= written
      /\ written \in Nat /\ file \in Seq([from : Nat, to : Nat]) /\ Len(file) \in Nat
  BY TailBoundAssumption DEF TypeOK, Reading
<1>2. file[call[g].fd] \in [from : Nat, to : Nat]
  BY <1>1, ElementOf
<1>3. file[call[g].fd].from <= file[call[g].fd].to /\ file[call[g].fd].to <= written
  BY <1>1 DEF FilesInOrder
<1>4. /\ file[call[g].fd].from \in Nat /\ file[call[g].fd].to \in Nat
      /\ Size(call[g].fd) \in Nat
      /\ file[call[g].fd].to = file[call[g].fd].from + Size(call[g].fd)
  BY <1>2, <1>3 DEF Size
<1>5. call[g].got \in Seq(Nat) /\ call[g].hold \in Seq(Nat)
  BY <1>1 DEF Call
<1>7. Len(call[g].got) \in Nat /\ Len(call[g].hold) \in Nat
  BY <1>5
<1>6. /\ call[g].start \in BOOLEAN /\ call[g].renamed \in BOOLEAN /\ call[g].cut \in BOOLEAN
      /\ call[g].missed \in BOOLEAN /\ call[g].stale \in BOOLEAN /\ call[g].fd \in Nat /\ call[g].pos \in Nat
      /\ call[g].lastSize \in Nat /\ call[g].last \in Nat
  BY <1>1 DEF Call
<1> QED  BY <1>1, <1>3, <1>4, <1>5, <1>6, <1>7

\* A fresh call.
LEMMA NewCallTyped ==
  ASSUME NEW b \in BOOLEAN
  PROVE  NewCall(b) \in Call /\ NewCall(b).fd = 0 /\ NewCall(b).last = 0
         /\ NewCall(b).start = b
<1>1. <<>> \in Seq(Nat)
  OBVIOUS
<1> QED  BY <1>1 DEF NewCall, Call

----------------------------------------------------------------------------
(* A step of one call. *)

\* A call moves to another label with other variables, that fit the files.
Moved(g, label) ==
  /\ UNCHANGED <<dockerVars, cancelled, watchVars>>
  /\ faults' \in [FaultKind -> Nat]
  /\ label \in Label /\ pc' = [pc EXCEPT ![g] = label]
  /\ \A h \in Tailer \ {g} : call'[h] = call[h]
  /\ call' \in [Tailer -> Call]
  /\ call'[g].fd \in 0..Len(file) /\ call'[g].last <= written
  /\ Reading(g)' <=> call'[g].fd # 0

LEMMA OthersKept ==
  ASSUME TypeOK, NEW h \in Tailer, CallInv(h), UNCHANGED dockerVars,
         pc'[h] = pc[h], call'[h] = call[h]
  PROVE  CallInv(h)'
<1>1. Reading(h)' = Reading(h)
  BY DEF Reading
<1>2. Held(pc[h], call[h]) => Held(pc[h], call[h])'
  BY DEF Held, dockerVars
<1>3. Placed(pc[h], call[h]) => Placed(pc[h], call[h])'
  BY DEF Placed, dockerVars, Size
<1>4. Aligned(pc[h], call[h]) => Aligned(pc[h], call[h])'
  BY DEF Aligned, dockerVars, LineEnd, Origin, Base
<1>5. Sorted(call[h]) => Sorted(call[h])'
  BY DEF Sorted, Between, dockerVars, Resume, Origin, Base
<1> QED  BY <1>1, <1>2, <1>3, <1>4, <1>5 DEF CallInv, Reader

LEMMA MovedKeeps ==
  ASSUME TailInv, NEW g \in Tailer, NEW label, Moved(g, label), CallInv(g)'
  PROVE  TailInv'
<1> USE DEF TailInv, Moved
<1>1. FilesInOrder'
  BY DEF FilesInOrder, dockerVars
<1>2. ASSUME NEW h \in Tailer, h # g  PROVE CallInv(h)'
  BY <1>2, OthersKept DEF TypeOK
<1>3. TypeOK'
  <2>1. pc' \in [Tailer -> Label]
    BY DEF TypeOK, Label
  <2>2. ASSUME NEW h \in Tailer
        PROVE  call'[h].fd \in 0..Len(file') /\ call'[h].last <= written'
               /\ (Reading(h)' <=> call'[h].fd # 0)
    BY DEF TypeOK, dockerVars, Reading
  <2> QED  BY <2>1, <2>2 DEF TypeOK, dockerVars, watchVars, Label
<1> QED  BY <1>1, <1>2, <1>3

\* A call that goes on: its variables have to fit its new place.
LEMMA ReaderMoved ==
  ASSUME TailInv, NEW g \in Tailer, NEW label \in {"loop", "send", "eof", "poll"},
         NEW d \in Call,
         pc' = [pc EXCEPT ![g] = label], call' = [call EXCEPT ![g] = d],
         UNCHANGED <<dockerVars, cancelled, watchVars>>,
         faults' \in [FaultKind -> Nat],
         d.fd \in 1..Len(file), d.last <= written, Reader(label, d)
  PROVE  TailInv'
<1>1. pc'[g] = label /\ call'[g] = d
  BY DEF TailInv, TypeOK
<1>2. Reading(g)' /\ d.fd # 0 /\ d.fd \in 0..Len(file)
  <2>1. Len(file) \in Nat
    BY DEF TailInv, TypeOK
  <2> QED  BY <1>1, <2>1 DEF Reading
<1>3. Moved(g, label)
  BY <1>1, <1>2 DEF Moved, Label, TailInv, TypeOK
<1>4. Held(label, d)' /\ Aligned(label, d)'
  BY DEF Reader, Held, Aligned, dockerVars, LineEnd, Origin, Base
<1>5. Placed(label, d)' /\ Sorted(d)'
  BY DEF Reader, Placed, Sorted, Between, dockerVars, Size, Resume, Origin, Base
<1>6. CallInv(g)'
  <2>1. Held(pc[g], call[g])'
    BY <1>1, <1>4 DEF Held
  <2>2. Aligned(pc[g], call[g])'
    BY <1>1, <1>4 DEF Aligned, Origin, Base, LineEnd
  <2>3. Placed(pc[g], call[g])'
    BY <1>1, <1>5 DEF Placed, Size
  <2>4. Sorted(call[g])'
    BY <1>1, <1>5 DEF Sorted, Between, Resume, Origin, Base
  <2> QED  BY <1>2, <2>1, <2>2, <2>3, <2>4 DEF CallInv, Reader
<1> QED  BY <1>3, <1>6, MovedKeeps

\* A call that ends, for whatever reason.
LEMMA Exited ==
  ASSUME TailInv, NEW g \in Tailer, pc[g] # "off", Exit(g),
         UNCHANGED <<dockerVars, cancelled, watchVars>>,
         faults' \in [FaultKind -> Nat]
  PROVE  TailInv'
<1>1. pc'[g] = "exit" /\ call'[g] = NewCall(FALSE)
  BY DEF Exit, Goto, TailInv, TypeOK
<1>new. /\ NewCall(FALSE) \in Call /\ NewCall(FALSE).fd = 0 /\ NewCall(FALSE).last = 0
      /\ NewCall(FALSE).start = FALSE
  BY NewCallTyped
<1>2. Moved(g, "exit")
  <2>1. written \in Nat /\ Len(file) \in Nat
    BY TailBoundAssumption DEF TailInv, TypeOK
  <2>2. call'[g].fd = 0 /\ call'[g].last = 0
    BY <1>1, <1>new
  <2>3. call'[g].fd \in 0..Len(file) /\ call'[g].last <= written
    BY <2>1, <2>2
  <2>4. Reading(g)' <=> call'[g].fd # 0
    BY <1>1, <2>2 DEF Reading
  <2> QED  BY <1>1, <1>new, <2>3, <2>4 DEF Moved, Exit, Goto, Label, TailInv, TypeOK
<1>3. CallInv(g)'
  BY <1>1, <1>new DEF CallInv, Reading
<1> QED  BY <1>2, <1>3, MovedKeeps

LEMMA Injected ==
  ASSUME TypeOK, NEW kind \in FaultKind, Inject(kind)
  PROVE  faults' \in [FaultKind -> Nat]
<1>1. faults \in [FaultKind -> Nat] /\ faults[kind] + 1 \in Nat
  BY DEF TypeOK
<1> QED  BY <1>1 DEF Inject

LEMMA EndKeeps ==
  ASSUME TailInv, NEW g \in Tailer, UNCHANGED watchVars,
         OpenFail(g) \/ SwitchFail(g) \/ ReadFail(g) \/ Quit(g)
  PROVE  TailInv'
<1>1. faults' \in [FaultKind -> Nat]
  <2>1. CASE UNCHANGED faults
    BY <2>1 DEF TailInv, TypeOK
  <2>2. CASE Inject("error")
    BY <2>2, Injected DEF TailInv, FaultKind
  <2> QED  BY <2>1, <2>2 DEF OpenFail, SwitchFail, ReadFail, Quit
<1>2. pc[g] # "off" /\ Exit(g) /\ UNCHANGED <<dockerVars, cancelled>>
  BY DEF OpenFail, SwitchFail, ReadFail, Quit, AtTop
<1> QED  BY <1>1, <1>2, Exited

LEMMA PollKeeps ==
  ASSUME TailInv, NEW g \in Tailer, UNCHANGED watchVars, Poll(g)
  PROVE  TailInv'
<1>1. pc[g] = "poll" /\ pc'[g] = "loop" /\ call'[g] = call[g]
  BY DEF Poll, Goto, TailInv, TypeOK
<1>2. Moved(g, "loop")
  BY <1>1 DEF Moved, Poll, Goto, Label, TailInv, TypeOK, Reading
<1>3. CallInv(g)'
  BY <1>1 DEF Poll, TailInv, CallInv, Reading, Reader, Held, Placed, Aligned, Sorted,
              dockerVars, Size, LineEnd, Origin, Base,
              Resume, Between
<1> QED  BY <1>2, <1>3, MovedKeeps

\* Variables of a call that fit the files, and their types.
Fits(c) ==
  /\ c \in Call /\ c.fd \in 1..Len(file) /\ c.last <= written
  /\ c.pos \in Nat /\ c.last \in Nat /\ c.lastSize \in Nat
  /\ c.got \in Seq(Nat) /\ c.hold \in Seq(Nat) /\ Len(c.got) \in Nat /\ Len(c.hold) \in Nat
  /\ c.missed \in BOOLEAN /\ c.cut \in BOOLEAN /\ c.renamed \in BOOLEAN
  /\ c.stale \in BOOLEAN
  /\ Origin(c) \in Nat /\ Size(c.fd) \in Nat /\ written \in Nat
  /\ Base(c) = Origin(c) + c.pos /\ Origin(c) + Size(c.fd) = file[c.fd].to
  /\ Origin(c) + Size(c.fd) <= written

LEMMA ReadingFits ==
  ASSUME TailInv, NEW g \in Tailer, Reading(g)
  PROVE  Fits(call[g]) /\ Reader(pc[g], call[g])
<1>1. Reader(pc[g], call[g])
  BY DEF TailInv, CallInv
<1>2. Fits(call[g])
  BY ReaderFacts DEF Fits, TailInv, Origin, Base
<1> QED  BY <1>1, <1>2

\* While there is no line in hand.
LEMMA NoHold ==
  ASSUME NEW c, NEW at, at # "send", Held(at, c)
  PROVE  c.hold = <<>> /\ Len(c.hold) = 0
<1>1. Len(<<>>) = 0
  OBVIOUS
<1> QED  BY <1>1 DEF Held

\* The variables of a call after Fill has read n pieces.
Filled(c, d, n) ==
  /\ d.got = c.got \o Pieces(Base(c), Base(c) + n)
  /\ d.pos = c.pos + n /\ d.missed = (c.missed \/ c.cut) /\ d.stale = (c.stale \/ c.cut)
  /\ d.fd = c.fd /\ d.hold = c.hold /\ d.lastSize = c.lastSize /\ d.last = c.last
  /\ d.renamed = c.renamed /\ d.cut = c.cut

LEMMA FillFits ==
  ASSUME NEW c, NEW d, NEW n \in Nat, n >= 1, Fits(c), Reader("loop", c),
         c.pos + n <= Size(c.fd), Filled(c, d, n)
  PROVE  d.got \in Seq(Nat) /\ Reader("loop", d)
<1>1. Base(c) \in Nat
  BY SMTT(30) DEF Fits
<1>2. Base(c) + n <= written
  BY DEF Fits
<1>3. /\ d.got \in Seq(Nat) /\ Len(d.got) = Len(c.got) + n
      /\ Extends(d.got, c.got, Base(c), n)
  BY <1>1, Appended DEF Fits, Filled
<1>4. c.hold = <<>> /\ Len(c.hold) = 0
  BY NoHold DEF Reader
<1>5. /\ d.pos = c.pos + n /\ (d.missed <=> c.missed \/ c.cut) /\ (d.stale <=> c.stale \/ c.cut)
      /\ d.fd = c.fd /\ d.hold = c.hold /\ d.lastSize = c.lastSize /\ d.last = c.last
      /\ d.renamed = c.renamed /\ d.cut = c.cut
  BY DEF Filled, Fits
<1>6. Base(d) = Base(c) + n /\ Origin(d) = Origin(c)
  BY <1>5, SMTT(30) DEF Fits, Base, Origin
<1>7. Len(c.got) \in Nat /\ c.last \in Nat /\ written \in Nat
  BY DEF Fits
<1>8. Held("loop", d)
  <2>1. \A i \in 1..Len(c.got) : c.got[i] <= written
    BY DEF Reader, Held
  <2>2. \A i \in 1..Len(d.got) : d.got[i] <= written
    BY <1>1, <1>2, <1>3, <1>7, <2>1, ExtendedBound
  <2> QED  BY <1>4, <1>5, <2>2 DEF Held
<1>9. Placed("loop", d)
  BY <1>5 DEF Reader, Placed
<1>10. Aligned("loop", d)
  <2>1. SUFFICES ASSUME ~d.missed  PROVE Aligned("loop", d)
    BY DEF Aligned
  <2>2. /\ ~d.cut /\ LineEnd(c.last) /\ Base(c) = c.last + Len(c.got)
        /\ \A i \in 1..Len(c.got) : c.got[i] = c.last + i
    BY <1>4, <1>5, <1>7, <2>1 DEF Reader, Aligned
  <2>3. \A i \in 1..Len(d.got) : d.got[i] = c.last + i
    <3> DEFINE q == c.got
               r == d.got
               b == c.last
               lo == Base(c)
    <3>1. Extends(r, q, lo, n)
      BY <1>3
    <3>2. \A i \in 1..Len(q) : q[i] = b + i
      BY <2>2
    <3>3. Len(q) \in Nat /\ lo \in Nat /\ b \in Nat
      BY <1>1, <1>7
    <3>4. lo = b + Len(q)
      BY <2>2
    <3> HIDE DEF q, r, b, lo
    <3>5. \A i \in 1..Len(r) : r[i] = b + i
      BY <3>1, <3>2, <3>3, <3>4, ExtendedRow
    <3> QED  BY <3>5 DEF r, b
  <2>4. Base(d) = d.last + Len(d.hold) + Len(d.got)
    BY <1>3, <1>4, <1>5, <1>6, <1>7, <2>2
  <2> QED  BY <1>4, <1>5, <1>7, <2>2, <2>3, <2>4 DEF Aligned
<1>11. Sorted(d)
  <2>1. SUFFICES ASSUME ~d.stale  PROVE Sorted(d)
    BY DEF Sorted
  <2>2. ~c.stale /\ ~c.cut /\ ~d.cut
    BY <1>5, <2>1
  <2>3. Resume(c) = Base(c) /\ Resume(d) = Base(d)
    BY <2>2 DEF Resume
  <2>4. c.last <= Base(c) /\ Between(c.got, c.last, Base(c))
    BY <2>2, <2>3 DEF Reader, Sorted
  <2>5. Between(d.got, d.last, Base(d))
    BY <1>1, <1>3, <1>5, <1>6, <1>7, <2>4, ExtendedBetween
  <2>6. d.last <= Base(d)
    BY <1>1, <1>5, <1>6, <1>7, <2>4
  <2>7. Between(d.hold, d.last, Base(d))
    BY <1>4, <1>5 DEF Between
  <2> QED  BY <1>4, <1>5, <2>3, <2>5, <2>6, <2>7 DEF Sorted
<1> QED  BY <1>3, <1>8, <1>9, <1>10, <1>11 DEF Reader

LEMMA FilledCall ==
  ASSUME NEW c \in Call, NEW got \in Seq(Nat), NEW pos \in Nat, NEW missed \in BOOLEAN,
         NEW stale \in BOOLEAN
  PROVE  [c EXCEPT !.got = got, !.pos = pos, !.stale = stale, !.missed = missed] \in Call
  BY DEF Call

LEMMA FillKeeps ==
  ASSUME TailInv, NEW g \in Tailer, UNCHANGED watchVars, Fill(g)
  PROVE  TailInv'
<1> DEFINE c == call[g]
<1>1. pc[g] = "loop" /\ Fits(c) /\ Reader("loop", c)
  BY ReadingFits DEF Fill, AtTop, Reading
<1>2. PICK n \in 1..(Size(c.fd) - c.pos) :
        call' = [call EXCEPT ![g].got = @ \o Pieces(Base(c), Base(c) + n), ![g].pos = @ + n,
                             ![g].stale = @ \/ c.cut, ![g].missed = @ \/ c.cut]
  BY DEF Fill, Base
<1> DEFINE d == [c EXCEPT !.got = @ \o Pieces(Base(c), Base(c) + n), !.pos = @ + n,
                          !.stale = @ \/ c.cut, !.missed = @ \/ c.cut]
<1>3. n \in Nat /\ n >= 1 /\ c.pos + n <= Size(c.fd)
  <2>1. c.pos \in Nat /\ Size(c.fd) \in Nat
    BY <1>1 DEF Fits
  <2> HIDE DEF c
  <2> QED  BY <2>1
<1>4. call' = [call EXCEPT ![g] = d] /\ pc' = [pc EXCEPT ![g] = "loop"]
  <2>1. pc' = [pc EXCEPT ![g] = "loop"]
    BY <1>1 DEF Fill, TailInv, TypeOK
  <2> QED  BY <1>2, <2>1, Zenon
<1> HIDE DEF c
<1>5. Filled(c, d, n)
  BY <1>1 DEF Filled, Fits, Call
<1>6. d.got \in Seq(Nat) /\ Reader("loop", d)
  BY <1>1, <1>3, <1>5, FillFits
<1>7. d \in Call
  <2>1. c \in Call /\ c.pos \in Nat /\ c.missed \in BOOLEAN /\ c.stale \in BOOLEAN
    BY <1>1 DEF Fits
  <2>2. /\ c.pos + n \in Nat /\ (c.missed \/ c.cut) \in BOOLEAN
        /\ (c.stale \/ c.cut) \in BOOLEAN
    BY <1>3, <2>1
  <2>3. c.got \o Pieces(Base(c), Base(c) + n) \in Seq(Nat)
    BY <1>5, <1>6 DEF Filled
  <2> QED  BY <2>1, <2>2, <2>3, FilledCall
<1>8. d.fd \in 1..Len(file) /\ d.last <= written
  BY <1>1, <1>5 DEF Fits, Filled
<1> HIDE DEF d
<1> QED
  BY <1>4, <1>6, <1>7, <1>8, ReaderMoved DEF Fill, TailInv, TypeOK

LEMMA ReadLineKeeps ==
  ASSUME TailInv, NEW g \in Tailer, UNCHANGED watchVars, ReadLine(g)
  PROVE  TailInv'
<1> DEFINE c == call[g]
<1>1. pc[g] = "loop" /\ Fits(c) /\ Reader("loop", c)
  BY ReadingFits DEF ReadLine, AtTop, Reading
<1>2. PICK k \in DOMAIN c.got :
        /\ c.got[k] \in ends
        /\ call' = [call EXCEPT ![g].hold = SubSeq(c.got, 1, k),
                                ![g].got = SubSeq(c.got, k + 1, Len(c.got))]
  BY DEF ReadLine
<1> DEFINE a == SubSeq(c.got, 1, k)
           b == SubSeq(c.got, k + 1, Len(c.got))
           d == [c EXCEPT !.hold = a, !.got = b]
<1>3. call' = [call EXCEPT ![g] = d] /\ pc' = [pc EXCEPT ![g] = "send"]
  BY <1>1, <1>2 DEF ReadLine, Goto, TailInv, TypeOK
<1> HIDE DEF c
<1>4. c.got \in Seq(Nat) /\ Len(c.got) \in Nat /\ c.last \in Nat /\ c \in Call
  BY <1>1 DEF Fits
<1>5. k \in 1..Len(c.got)
  BY <1>4
<1>6. /\ a \in Seq(Nat) /\ Len(a) = k /\ a # <<>> /\ \A i \in 1..k : a[i] = c.got[i]
      /\ b \in Seq(Nat) /\ Len(b) = Len(c.got) - k
      /\ \A i \in 1..(Len(c.got) - k) : b[i] = c.got[k + i] /\ k + i \in 1..Len(c.got)
  BY <1>4, <1>5, Cut
<1>len. Len(a) = k /\ \A i \in 1..k : a[i] = c.got[i] /\ i \in 1..Len(c.got)
  <2>1. \A i \in 1..k : i \in 1..Len(c.got)
    BY <1>4, <1>5
  <2> QED  BY <1>6, <2>1
<1>nat. k \in Nat /\ c.last \in Nat
  BY <1>4, <1>5
<1>7. c.hold = <<>> /\ Len(c.hold) = 0
  BY <1>1, NoHold DEF Reader
<1> HIDE DEF a, b
<1>8. d \in Call
  BY <1>4, <1>6 DEF Call
<1>9. /\ d.hold = a /\ d.got = b /\ d.fd = c.fd /\ d.pos = c.pos /\ d.last = c.last
      /\ d.lastSize = c.lastSize /\ d.renamed = c.renamed /\ d.cut = c.cut
      /\ d.missed = c.missed /\ d.stale = c.stale
  BY <1>4 DEF Call
<1> HIDE DEF d
<1>10. Base(d) = Base(c) /\ Origin(d) = Origin(c) /\ Resume(d) = Resume(c)
  BY <1>9 DEF Base, Origin, Resume
<1>11. Held("send", d)
  <2>1. \A i \in 1..Len(c.got) : c.got[i] <= written
    BY <1>1 DEF Reader, Held
  <2>2. \A i \in 1..Len(a) : a[i] <= written
    BY <1>len, <2>1
  <2>3. \A i \in 1..Len(b) : b[i] <= written
    BY <1>6, <2>1
  <2> QED  BY <1>6, <1>9, <2>2, <2>3 DEF Held
<1>12. Placed("send", d)
  BY <1>1, <1>9 DEF Reader, Placed
<1>13. Aligned("send", d)
  <2>1. SUFFICES ASSUME ~c.missed  PROVE Aligned("send", d)
    BY <1>9 DEF Aligned
  <2>2. \A i \in 1..Len(c.got) : c.got[i] = c.last + i
    BY <1>1, <1>4, <1>7, <2>1 DEF Reader, Aligned
  <2>3. \A i \in 1..Len(a) : a[i] = c.last + i
    BY <1>len, <2>2
  <2>4. \A i \in 1..Len(b) : b[i] = c.last + Len(a) + i
    <3> SUFFICES ASSUME NEW i \in 1..Len(b)  PROVE b[i] = c.last + Len(a) + i
      OBVIOUS
    <3>1. b[i] = c.last + (k + i)
      BY <1>6, <2>2
    <3> QED  BY <1>4, <1>5, <1>6, <3>1
  <2>5. c.last + Len(a) + Len(b) = c.last + Len(c.hold) + Len(c.got)
    <3>1. Len(b) = Len(c.got) - k
      BY <1>6
    <3>2. Len(a) = k /\ Len(c.hold) = 0 /\ Len(c.got) \in Nat
      BY <1>4, <1>7, <1>len
    <3>3. \A n \in Nat : c.last + k + (n - k) = c.last + 0 + n
      BY <1>nat
    <3>4. c.last + Len(a) + Len(b) = c.last + k + (Len(c.got) - k)
      BY <3>1, <3>2, Zenon
    <3> QED  BY <3>2, <3>3, <3>4, Zenon
  <2>6. a[Len(a)] \in ends
    BY <1>2, <1>5, <1>6
  <2>7. /\ c.cut => Origin(c) = c.last + Len(c.hold) + Len(c.got)
        /\ ~c.cut => Base(c) = c.last + Len(c.hold) + Len(c.got)
        /\ LineEnd(c.last)
    BY <1>1, <2>1 DEF Reader, Aligned
  <2> QED  BY <1>9, <1>10, <2>3, <2>4, <2>5, <2>6, <2>7 DEF Aligned
<1>14. Sorted(d)
  <2>1. SUFFICES ASSUME ~d.stale  PROVE Sorted(d)
    BY DEF Sorted
  <2>2. c.last <= Resume(c) /\ Between(c.got, c.last, Resume(c))
    BY <1>1, <1>9, <2>1 DEF Reader, Sorted
  <2>3. Between(a, c.last, Resume(c))
    BY <1>len, <1>nat, <2>2 DEF Between
  <2>4. Between(b, c.last, Resume(c))
    <3>1. ASSUME NEW i \in 1..Len(b)
          PROVE  b[i] \in Nat /\ c.last < b[i] /\ b[i] <= Resume(c)
      BY <1>6, <2>2 DEF Between
    <3>2. ASSUME NEW i \in 1..Len(b), NEW j \in 1..Len(b), i < j  PROVE b[i] < b[j]
      <4>1. k + i < k + j
        BY <1>5, <3>2
      <4> QED  BY <1>6, <2>2, <4>1 DEF Between
    <3> QED  BY <3>1, <3>2 DEF Between
  <2>5. ASSUME NEW i \in 1..Len(a), NEW j \in 1..Len(b)  PROVE a[i] < b[j]
    <3>1. i < k + j /\ i \in 1..Len(c.got)
      BY <1>len, <1>nat
    <3>2. k + j \in 1..Len(c.got) /\ a[i] = c.got[i] /\ b[j] = c.got[k + j]
      BY <1>6, <1>len
    <3> QED  BY <2>2, <3>1, <3>2 DEF Between
  <2> QED  BY <1>9, <1>10, <2>2, <2>3, <2>4, <2>5 DEF Sorted
<1>15. Reader("send", d) /\ d.fd \in 1..Len(file) /\ d.last <= written
  BY <1>1, <1>9, <1>11, <1>12, <1>13, <1>14 DEF Reader, Fits
<1> QED
  BY <1>3, <1>8, <1>15, ReaderMoved DEF ReadLine, TailInv, TypeOK

LEMMA EofKeeps ==
  ASSUME TailInv, NEW g \in Tailer, UNCHANGED watchVars, Eof(g)
  PROVE  TailInv'
<1> DEFINE c == call[g]
           d == [c EXCEPT !.got = <<>>, !.missed = @ \/ c.got # <<>>]
<1>1. pc[g] = "loop" /\ Fits(c) /\ Reader("loop", c)
  BY ReadingFits DEF Eof, AtTop, Reading
<1>2. call' = [call EXCEPT ![g] = d] /\ pc' = [pc EXCEPT ![g] = "eof"]
  BY DEF Eof, Goto, TailInv, TypeOK
<1>3. c.pos >= Size(c.fd)
  BY DEF Eof
<1> HIDE DEF c
<1>4. c \in Call /\ c.pos \in Nat /\ Size(c.fd) \in Nat /\ <<>> \in Seq(Nat)
      /\ c.missed \in BOOLEAN
  BY <1>1 DEF Fits
<1>5. d \in Call
  BY <1>4 DEF Call
<1>6. /\ d.fd = c.fd /\ d.pos = c.pos /\ d.got = <<>> /\ d.hold = c.hold
      /\ d.lastSize = c.lastSize /\ d.renamed = c.renamed /\ d.last = c.last
      /\ d.cut = c.cut /\ (d.missed <=> c.missed \/ c.got # <<>>) /\ d.stale = c.stale
  BY <1>4 DEF Call
<1> HIDE DEF d
<1>7. c.hold = <<>> /\ Len(c.hold) = 0
  BY <1>1, NoHold DEF Reader
<1>8. Base(d) = Base(c) /\ Origin(d) = Origin(c) /\ Resume(d) = Resume(c)
  BY <1>6 DEF Base, Origin, Resume
<1>9. Held("eof", d)
  BY <1>6, <1>7 DEF Held
<1>10. Placed("eof", d)
  <2>1. ~c.cut => c.pos = Size(c.fd)
    BY <1>1, <1>3, <1>4 DEF Reader, Placed
  <2> QED  BY <1>1, <1>6, <2>1 DEF Reader, Placed
<1>11. Aligned("eof", d)
  BY <1>1, <1>6, <1>8 DEF Reader, Aligned
<1>12. Sorted(d)
  BY <1>1, <1>6, <1>7, <1>8 DEF Reader, Sorted, Between
<1>13. d.fd \in 1..Len(file) /\ d.last <= written
  BY <1>1, <1>6 DEF Fits
<1> QED
  BY <1>2, <1>5, <1>9, <1>10, <1>11, <1>12, <1>13, ReaderMoved
     DEF Eof, TailInv, TypeOK, Reader

LEMMA SendKeeps ==
  ASSUME TailInv, NEW g \in Tailer, UNCHANGED watchVars, Send(g)
  PROVE  TailInv'
<1> DEFINE c == call[g]
           d == [c EXCEPT !.last = Last(c.hold), !.hold = <<>>]
<1>1. pc[g] = "send" /\ Fits(c) /\ Reader("send", c)
  BY ReadingFits DEF Send, Reading
<1>2. call' = [call EXCEPT ![g] = d] /\ pc' = [pc EXCEPT ![g] = "loop"]
  BY DEF Send, Goto, TailInv, TypeOK
<1> HIDE DEF c
<1>3. /\ c \in Call /\ c.hold \in Seq(Nat) /\ c.hold # <<>> /\ <<>> \in Seq(Nat)
      /\ c.last \in Nat /\ Len(c.got) \in Nat /\ Len(c.hold) \in Nat
  BY <1>1 DEF Fits, Reader, Held
<1>4. Len(c.hold) \in 1..Len(c.hold) /\ Last(c.hold) = c.hold[Len(c.hold)]
  BY <1>3 DEF Last
<1>5. Last(c.hold) \in Nat
  BY <1>3, <1>4, ElementOf
<1>6. d \in Call
  BY <1>3, <1>5 DEF Call
<1>7. /\ d.fd = c.fd /\ d.pos = c.pos /\ d.got = c.got /\ d.hold = <<>>
      /\ d.lastSize = c.lastSize /\ d.renamed = c.renamed /\ d.last = Last(c.hold)
      /\ d.cut = c.cut /\ d.missed = c.missed /\ d.stale = c.stale
  BY <1>3 DEF Call
<1> HIDE DEF d
<1>8. Len(d.hold) = 0
  <2>1. Len(<<>>) = 0
    OBVIOUS
  <2> QED  BY <1>7, <2>1
<1>9. Base(d) = Base(c) /\ Origin(d) = Origin(c) /\ Resume(d) = Resume(c)
  BY <1>7 DEF Base, Origin, Resume
<1>10. Held("loop", d)
  BY <1>1, <1>7, <1>8 DEF Reader, Held
<1>11. Placed("loop", d)
  BY <1>1, <1>7 DEF Reader, Placed
<1>12. Aligned("loop", d)
  <2>1. SUFFICES ASSUME ~c.missed  PROVE Aligned("loop", d)
    BY <1>7 DEF Aligned
  <2>2. d.last = c.last + Len(c.hold)
    BY <1>1, <1>4, <1>7, <2>1 DEF Reader, Aligned
  <2>3. LineEnd(d.last)
    BY <1>1, <1>4, <1>7, <2>1 DEF Reader, Aligned, LineEnd
  <2>4. d.last + Len(d.hold) = c.last + Len(c.hold)
    BY <1>3, <1>8, <2>2
  <2>5. /\ \A i \in 1..Len(c.got) : c.got[i] = c.last + Len(c.hold) + i
        /\ c.cut => Origin(c) = c.last + Len(c.hold) + Len(c.got)
        /\ ~c.cut => Base(c) = c.last + Len(c.hold) + Len(c.got)
    BY <1>1, <2>1 DEF Reader, Aligned
  <2> QED  BY <1>7, <1>8, <1>9, <2>3, <2>4, <2>5 DEF Aligned
<1>13. Sorted(d)
  <2>1. SUFFICES ASSUME ~d.stale  PROVE Sorted(d)
    BY DEF Sorted
  <2>2. /\ Between(c.hold, c.last, Resume(c)) /\ Between(c.got, c.last, Resume(c))
        /\ \A i \in 1..Len(c.hold), j \in 1..Len(c.got) : c.hold[i] < c.got[j]
    BY <1>1, <1>7, <2>1 DEF Reader, Sorted
  <2>3. d.last <= Resume(d)
    BY <1>4, <1>7, <1>9, <2>2 DEF Between
  <2>4. Between(d.got, d.last, Resume(d))
    BY <1>4, <1>7, <1>9, <2>2 DEF Between
  <2>5. Between(d.hold, d.last, Resume(d))
    BY <1>8 DEF Between
  <2> QED  BY <1>8, <2>3, <2>4, <2>5 DEF Sorted
<1>14. d.fd \in 1..Len(file) /\ d.last <= written
  BY <1>1, <1>4, <1>7 DEF Fits, Reader, Held
<1> QED
  BY <1>2, <1>6, <1>10, <1>11, <1>12, <1>13, <1>14, ReaderMoved
     DEF Send, TailInv, TypeOK, Reader

\* The file that the path names is the newest.
LEMMA NamedFile ==
  ASSUME TailInv, Named # 0
  PROVE  /\ Named = Len(file) /\ Named \in 1..Len(file) /\ Len(file) \in Nat
         /\ file[Named].from \in Nat /\ Size(Named) \in Nat
         /\ file[Named].from + Size(Named) = written
         /\ written \in Nat
<1>1. path = Len(file) /\ Named = path /\ path \in 1..Len(file) /\ Len(file) \in Nat
  BY DEF Named, TailInv, FilesInOrder, TypeOK
<1>2. file[path] \in [from : Nat, to : Nat]
  BY <1>1, ElementOf DEF TailInv, TypeOK
<1>3. file[path].to = written /\ file[path].from <= file[path].to
  BY <1>1 DEF TailInv, FilesInOrder
<1> QED  BY <1>1, <1>2, <1>3 DEF Size

LEMMA SwitchKeeps ==
  ASSUME TailInv, NEW g \in Tailer, UNCHANGED watchVars, Switch(g)
  PROVE  TailInv'
<1> DEFINE c == call[g]
           lost == c.cut \/ file[Named].from # file[c.fd].to
           d == [c EXCEPT !.fd = Named, !.pos = 0, !.lastSize = 0, !.renamed = FALSE,
                          !.cut = FALSE, !.missed = @ \/ lost]
<1>1. pc[g] = "eof" /\ Fits(c) /\ Reader("eof", c) /\ c.renamed /\ Named # 0
  BY ReadingFits DEF Switch, Reading
<1>2. call' = [call EXCEPT ![g] = d] /\ pc' = [pc EXCEPT ![g] = "loop"]
  BY DEF Switch, Reopen, Goto, TailInv, TypeOK
<1> HIDE DEF c
<1>3. c \in Call /\ c.missed \in BOOLEAN /\ c.fd \in 1..Len(file) /\ c.last \in Nat
  BY <1>1 DEF Fits
<1>4. /\ Named = Len(file) /\ Named \in 1..Len(file) /\ Named \in Nat
      /\ file[Named].from \in Nat /\ Size(Named) \in Nat
  BY <1>1, NamedFile
<1>5. d \in Call
  BY <1>3, <1>4 DEF Call
<1>6. /\ d.fd = Named /\ d.pos = 0 /\ d.got = c.got /\ d.hold = c.hold
      /\ d.lastSize = 0 /\ ~d.renamed /\ d.last = c.last /\ ~d.cut
      /\ (d.missed <=> c.missed \/ lost) /\ d.stale = c.stale
  BY <1>3 DEF Call
<1> HIDE DEF d
<1>7. c.hold = <<>> /\ Len(c.hold) = 0 /\ c.got = <<>> /\ Len(c.got) = 0
  <2>1. Len(<<>>) = 0
    OBVIOUS
  <2> QED  BY <1>1, <2>1, NoHold DEF Reader, Held
<1>8. Base(d) = file[Named].from
  BY <1>4, <1>6 DEF Base
<1>9. ~c.cut => Base(c) = file[c.fd].to
  BY <1>1 DEF Reader, Placed, Fits
<1>10. Held("loop", d)
  BY <1>6, <1>7 DEF Held
<1>11. Placed("loop", d)
  BY <1>4, <1>6 DEF Placed
<1>12. Aligned("loop", d)
  <2>1. SUFFICES ASSUME ~d.missed  PROVE Aligned("loop", d)
    BY DEF Aligned
  <2>2. ~c.cut /\ file[Named].from = file[c.fd].to
    BY <1>6, <2>1
  <2>3. LineEnd(c.last) /\ Base(c) = c.last + Len(c.hold) + Len(c.got)
    BY <1>1, <1>6, <2>1, <2>2 DEF Reader, Aligned
  <2> QED  BY <1>6, <1>7, <1>8, <1>9, <2>2, <2>3 DEF Aligned
<1>13. Sorted(d)
  <2>1. SUFFICES ASSUME ~d.stale  PROVE Sorted(d)
    BY DEF Sorted
  <2>2. c.last <= Resume(c) /\ c.fd < Named
    BY <1>1, <1>4, <1>6, <2>1 DEF Reader, Sorted, Placed
  <2>3. file[c.fd].to <= file[Named].from
    BY <1>3, <1>4, <2>2 DEF TailInv, FilesInOrder
  <2>4. file[c.fd].to \in Nat /\ Origin(c) \in Nat /\ Origin(c) <= file[c.fd].to
    <3>1. Origin(c) \in Nat /\ Size(c.fd) \in Nat /\ Origin(c) + Size(c.fd) = file[c.fd].to
      BY <1>1 DEF Fits
    <3> QED  BY <3>1, SMTT(30)
  <2>5. Resume(c) \in Nat /\ Resume(c) <= file[c.fd].to
    BY <1>9, <2>4 DEF Resume
  <2>6. Resume(d) = file[Named].from
    BY <1>6, <1>8 DEF Resume
  <2>7. d.last <= Resume(d)
    BY <1>3, <1>4, <1>6, <2>2, <2>3, <2>4, <2>5, <2>6
  <2> QED  BY <1>6, <1>7, <2>7 DEF Sorted, Between
<1>14. d.fd \in 1..Len(file) /\ d.last <= written
  BY <1>1, <1>4, <1>6 DEF Fits
<1> QED
  BY <1>2, <1>5, <1>10, <1>11, <1>12, <1>13, <1>14, ReaderMoved
     DEF Switch, Reopen, TailInv, TypeOK, Reader

LEMMA FindRenamedKeeps ==
  ASSUME TailInv, NEW g \in Tailer, UNCHANGED watchVars, FindRenamed(g)
  PROVE  TailInv'
<1> DEFINE c == call[g]
           d == [c EXCEPT !.renamed = TRUE]
<1>1. /\ pc[g] = "eof" /\ Fits(c) /\ Reader("eof", c) /\ Named # 0 /\ Named # c.fd
  BY ReadingFits DEF FindRenamed, Renamed, AtEof, Reading
<1>2. call' = [call EXCEPT ![g] = d] /\ pc' = [pc EXCEPT ![g] = "loop"]
  BY DEF FindRenamed, Goto, TailInv, TypeOK
<1> HIDE DEF c
<1>3. c \in Call
  BY <1>1 DEF Fits
<1>4. d \in Call
  BY <1>3 DEF Call
<1>5. /\ d.fd = c.fd /\ d.pos = c.pos /\ d.got = c.got /\ d.hold = c.hold
      /\ d.lastSize = c.lastSize /\ d.last = c.last /\ d.cut = c.cut
      /\ d.missed = c.missed /\ d.stale = c.stale
  BY <1>3 DEF Call
<1> HIDE DEF d
<1>6. d.fd < Len(file)
  BY <1>1, <1>5, NamedFile DEF Fits
<1>7. Base(d) = Base(c) /\ Origin(d) = Origin(c) /\ Resume(d) = Resume(c)
  BY <1>5 DEF Base, Origin, Resume
<1>8. Held("loop", d)
  BY <1>1, <1>5 DEF Reader, Held
<1>9. Placed("loop", d)
  BY <1>1, <1>5, <1>6 DEF Reader, Placed
<1>10. Aligned("loop", d)
  BY <1>1, <1>5, <1>7 DEF Reader, Aligned
<1>11. Sorted(d)
  BY <1>1, <1>5, <1>7 DEF Reader, Sorted
<1>12. d.fd \in 1..Len(file) /\ d.last <= written
  BY <1>1, <1>5 DEF Fits
<1> QED
  BY <1>2, <1>4, <1>8, <1>9, <1>10, <1>11, <1>12, ReaderMoved
     DEF FindRenamed, TailInv, TypeOK, Reader

LEMMA FindTruncatedKeeps ==
  ASSUME TailInv, NEW g \in Tailer, UNCHANGED watchVars, FindTruncated(g)
  PROVE  TailInv'
<1> DEFINE c == call[g]
           d == [c EXCEPT !.pos = 0, !.lastSize = 0, !.cut = FALSE]
<1>1. /\ pc[g] = "eof" /\ Fits(c) /\ Reader("eof", c) /\ Size(c.fd) < c.lastSize
      /\ ~c.renamed
  BY ReadingFits DEF FindTruncated, TruncatedIf, AtEof, Reading
<1>2. call' = [call EXCEPT ![g] = d] /\ pc' = [pc EXCEPT ![g] = "loop"]
  BY DEF FindTruncated, TruncatedIf, Goto, TailInv, TypeOK
<1> HIDE DEF c
<1>3. /\ c \in Call /\ Origin(c) \in Nat /\ Size(c.fd) \in Nat /\ c.lastSize \in Nat
      /\ c.last \in Nat
  BY <1>1 DEF Fits
<1>4. d \in Call
  BY <1>3 DEF Call
<1>5. /\ d.fd = c.fd /\ d.pos = 0 /\ d.got = c.got /\ d.hold = c.hold
      /\ d.lastSize = 0 /\ d.last = c.last /\ ~d.cut /\ d.renamed = c.renamed
      /\ d.missed = c.missed /\ d.stale = c.stale
  BY <1>3 DEF Call
<1> HIDE DEF d
<1>6. Base(d) = Origin(c)
  BY <1>3, <1>5 DEF Base, Origin
<1>7. c.cut
  BY <1>1, <1>3 DEF Reader, Placed
<1>8. Held("loop", d)
  BY <1>1, <1>5 DEF Reader, Held
<1>9. Placed("loop", d)
  BY <1>1, <1>3, <1>5 DEF Placed
<1>10. Aligned("loop", d)
  BY <1>1, <1>5, <1>6, <1>7 DEF Reader, Aligned
<1>11. Sorted(d)
  <2>1. Resume(d) = Resume(c)
    BY <1>5, <1>6, <1>7 DEF Resume
  <2> QED  BY <1>1, <1>5, <2>1 DEF Reader, Sorted
<1>12. d.fd \in 1..Len(file) /\ d.last <= written
  BY <1>1, <1>5 DEF Fits
<1> QED
  BY <1>2, <1>4, <1>8, <1>9, <1>10, <1>11, <1>12, ReaderMoved
     DEF FindTruncated, TruncatedIf, TailInv, TypeOK, Reader

LEMMA IdleKeeps ==
  ASSUME TailInv, NEW g \in Tailer, UNCHANGED watchVars, Idle(g)
  PROVE  TailInv'
<1> DEFINE c == call[g]
           seen == [c EXCEPT !.lastSize = Size(c.fd), !.missed = @ \/ c.cut]
<1>1. /\ pc[g] = "eof" /\ Fits(c) /\ Reader("eof", c) /\ ~c.renamed
  BY ReadingFits DEF Idle, AtEof, Reading
<1>2. pc' = [pc EXCEPT ![g] = "poll"] /\ UNCHANGED <<dockerVars, cancelled>>
  BY DEF Idle, Goto
<1>3. /\ c \in Call /\ Size(c.fd) \in Nat /\ c.missed \in BOOLEAN
      /\ c.fd \in 1..Len(file) /\ c.last <= written
  BY <1>1 DEF Fits
<1>4. CASE call' = [call EXCEPT ![g] = seen] /\ UNCHANGED faults
  <2> HIDE DEF c
  <2>1. seen \in Call
    BY <1>3 DEF Call
  <2>2. /\ seen.fd = c.fd /\ seen.pos = c.pos /\ seen.got = c.got /\ seen.hold = c.hold
        /\ seen.lastSize = Size(c.fd) /\ seen.last = c.last /\ seen.cut = c.cut
        /\ seen.renamed = c.renamed /\ (seen.missed <=> c.missed \/ c.cut)
        /\ seen.stale = c.stale
    BY <1>3 DEF Call
  <2> HIDE DEF seen
  <2>3. Base(seen) = Base(c) /\ Origin(seen) = Origin(c) /\ Resume(seen) = Resume(c)
    BY <2>2 DEF Base, Origin, Resume
  <2>4. Held("poll", seen)
    BY <1>1, <2>2 DEF Reader, Held
  <2>5. Placed("poll", seen)
    BY <1>1, <1>3, <2>2 DEF Reader, Placed
  <2>6. Aligned("poll", seen)
    BY <1>1, <2>2, <2>3 DEF Reader, Aligned
  <2>7. Sorted(seen)
    BY <1>1, <2>2, <2>3 DEF Reader, Sorted
  <2>8. seen.fd \in 1..Len(file) /\ seen.last <= written
    BY <1>3, <2>2
  <2> QED
    BY <1>2, <1>4, <2>1, <2>4, <2>5, <2>6, <2>7, <2>8, ReaderMoved
       DEF TailInv, TypeOK, Reader
<1>5. CASE Inject("error") /\ UNCHANGED call
  <2>1. faults' \in [FaultKind -> Nat]
    BY <1>5, Injected DEF TailInv, FaultKind
  <2>2. call' = [call EXCEPT ![g] = c]
    BY <1>5 DEF TailInv, TypeOK
  <2> HIDE DEF c
  <2>3. Reader("poll", c)
    BY <1>1 DEF Reader, Held, Placed, Aligned
  <2> QED  BY <1>2, <1>3, <2>1, <2>2, <2>3, ReaderMoved
<1> QED  BY <1>4, <1>5 DEF Idle

LEMMA OpenKeeps ==
  ASSUME TailInv, NEW g \in Tailer, UNCHANGED watchVars, Open(g)
  PROVE  TailInv'
<1> DEFINE c == call[g]
           seek == IF c.start THEN 0 ELSE Size(Named)
           seen == file[Named].from + seek
           d == [c EXCEPT !.start = FALSE, !.fd = Named, !.pos = seek, !.last = seen,
                          !.missed = ~LineEnd(seen)]
<1>1. pc[g] = "open" /\ Named # 0 /\ c \in Call /\ c = NewCall(c.start)
  BY DEF Open, TailInv, TypeOK, CallInv, Reading
<1>2. call' = [call EXCEPT ![g] = d] /\ pc' = [pc EXCEPT ![g] = "loop"]
  BY DEF Open, Goto, TailInv, TypeOK
<1>3. /\ c.got = <<>> /\ c.hold = <<>> /\ c.lastSize = 0 /\ c.renamed = FALSE
      /\ c.cut = FALSE /\ c.stale = FALSE /\ c.start \in BOOLEAN
  BY <1>1 DEF NewCall, Call
<1> HIDE DEF c
<1>4. /\ Named \in 1..Len(file) /\ Named \in Nat /\ written \in Nat
      /\ file[Named].from \in Nat /\ Size(Named) \in Nat
      /\ file[Named].from + Size(Named) = written
  BY <1>1, NamedFile
<1>5. seek \in Nat /\ seek <= Size(Named)
  BY <1>4
<1> HIDE DEF seek
<1>6. seen \in Nat /\ seen <= written
  BY <1>4, <1>5
<1> HIDE DEF seen
<1>7. LineEnd(seen) \in BOOLEAN
  BY DEF LineEnd
<1>8. d \in Call
  BY <1>1, <1>4, <1>5, <1>6, <1>7 DEF Call
<1>9. /\ d.fd = Named /\ d.pos = seek /\ d.got = <<>> /\ d.hold = <<>>
      /\ d.lastSize = 0 /\ d.last = seen /\ ~d.cut /\ ~d.renamed
      /\ (d.missed <=> ~LineEnd(seen))
  BY <1>1, <1>3 DEF Call
<1> HIDE DEF d
<1>10. Len(d.got) = 0 /\ Len(d.hold) = 0
  <2>1. Len(<<>>) = 0
    OBVIOUS
  <2> QED  BY <1>9, <2>1
<1>11. Base(d) = seen /\ Resume(d) = seen
  BY <1>9 DEF Base, Resume, seen
<1>12. Held("loop", d)
  BY <1>9, <1>10 DEF Held
<1>13. Placed("loop", d)
  BY <1>4, <1>5, <1>9 DEF Placed
<1>14. Aligned("loop", d)
  BY <1>6, <1>9, <1>10, <1>11 DEF Aligned
<1>15. Sorted(d)
  BY <1>6, <1>9, <1>10, <1>11 DEF Sorted, Between
<1>16. d.fd \in 1..Len(file) /\ d.last <= written
  BY <1>4, <1>6, <1>9
<1> QED
  BY <1>2, <1>8, <1>12, <1>13, <1>14, <1>15, <1>16, ReaderMoved
     DEF Open, TailInv, TypeOK, Reader

\* Whatever a tailer does.
LEMMA FollowKeeps ==
  ASSUME TailInv, NEW g \in Tailer, UNCHANGED watchVars, Follow(g)
  PROVE  TailInv'
  BY OpenKeeps, EndKeeps, FillKeeps, ReadLineKeeps, EofKeeps, SwitchKeeps,
     FindRenamedKeeps, FindTruncatedKeeps, IdleKeeps, PollKeeps, SendKeeps
  DEF Follow, Step

----------------------------------------------------------------------------
(* Docker. *)

LEMMA RenameKeeps ==
  ASSUME TailInv, Rename, UNCHANGED watchVars
  PROVE  TailInv'
<1>0. faults' \in [FaultKind -> Nat]
  <2>1. Inject("rotate")
    BY DEF Rename
  <2> QED  BY <2>1, Injected DEF TailInv, FaultKind
<1>1. FilesInOrder' /\ TypeOK'
  BY <1>0 DEF Rename, TailInv, FilesInOrder, TypeOK, watchVars, Reading, Call
<1>2. ASSUME NEW g \in Tailer  PROVE CallInv(g)'
  BY DEF Rename, TailInv, CallInv, Reading, Reader, Held, Placed, Aligned, Sorted, Between,
         Base, Origin, Resume, Size, LineEnd
<1> QED  BY <1>1, <1>2 DEF TailInv

\* The interval that a file holds.
Interval == [from : Nat, to : Nat]

LEMMA FileTyped ==
  ASSUME TailInv, NEW i \in 1..Len(file)
  PROVE  file[i] \in Interval /\ file[i].from \in Nat /\ file[i].to \in Nat
<1>1. file[i] \in Interval
  BY ElementOf DEF TailInv, TypeOK, Interval
<1> QED  BY <1>1 DEF Interval

\* The interval of the file in use changes.
LEMMA NewInterval ==
  ASSUME TailInv, path # 0, NEW v \in Interval, file' = [file EXCEPT ![path] = v],
         v.from <= v.to, v.to = written', written \in Nat, written' \in Nat,
         written <= written', file[path].from <= v.from, path' = path
  PROVE  /\ FilesInOrder' /\ file' \in Seq(Interval) /\ Len(file') = Len(file)
         /\ file'[path] = v /\ \A i \in 1..Len(file) : i # path => file'[i] = file[i]
<1>1. path = Len(file) /\ path \in 1..Len(file) /\ Len(file) \in Nat
  BY DEF TailInv, FilesInOrder, TypeOK
<1>2. file \in Seq(Interval)
  BY DEF TailInv, TypeOK, Interval
<1>3. /\ file' \in Seq(Interval) /\ Len(file') = Len(file) /\ file'[path] = v
      /\ \A i \in 1..Len(file) : i # path => file'[i] = file[i]
  BY <1>1, <1>2, Replaced
<1>4. ASSUME NEW i \in 1..Len(file)
      PROVE  file'[i].from <= file'[i].to /\ file'[i].to <= written'
  <2>1. file[i].from <= file[i].to /\ file[i].to <= written /\ file[i].to \in Nat
    BY FileTyped DEF TailInv, FilesInOrder
  <2>2. CASE i = path
    BY <1>3, <2>2
  <2>3. CASE i # path
    BY <1>3, <2>1, <2>3
  <2> QED  BY <2>2, <2>3
<1>5. ASSUME NEW i \in 1..Len(file), NEW j \in 1..Len(file), i < j
      PROVE  file'[i].to <= file'[j].from
  <2>1. i # path
    BY <1>1, <1>5
  <2>2. file'[i] = file[i] /\ file[i].to <= file[j].from
    BY <1>3, <1>5, <2>1 DEF TailInv, FilesInOrder
  <2>3. file[i].to \in Nat /\ file[j].from \in Nat /\ v.from \in Nat
    BY FileTyped DEF Interval
  <2>4. CASE j = path
    BY <1>3, <2>2, <2>3, <2>4
  <2>5. CASE j # path
    BY <1>3, <2>2, <2>5
  <2> QED  BY <2>4, <2>5
<1> QED  BY <1>1, <1>3, <1>4, <1>5 DEF FilesInOrder

\* A file keeps its beginning and grows, if it is the newest.
Grown(i) ==
  /\ file'[i].from = file[i].from
  /\ file'[i].to \in Nat /\ file[i].to <= file'[i].to
  /\ i < Len(file) => file'[i].to = file[i].to

LEMMA GrownKeeps ==
  ASSUME TailInv, NEW g \in Tailer, call'[g] = call[g], pc'[g] = pc[g],
         ends \subseteq ends',
         written' \in Nat, written <= written', Len(file') \in Nat, Len(file) <= Len(file'),
         Reading(g) => Grown(call[g].fd)
  PROVE  CallInv(g)'
<1>1. CASE ~Reading(g)
  BY <1>1 DEF TailInv, CallInv, Reading
<1>2. CASE Reading(g)
  <2> DEFINE c == call[g]
             z == file'[c.fd].to - file'[c.fd].from
  <2>1. Fits(c) /\ Reader(pc[g], c) /\ Grown(c.fd) /\ Reading(g)'
    BY <1>2, ReadingFits DEF Reading
  <2> HIDE DEF c
  <2>2. file'[c.fd].from = file[c.fd].from
    BY <2>1 DEF Grown
  <2>3. /\ Size(c.fd) \in Nat /\ c.pos \in Nat /\ c.lastSize \in Nat /\ written \in Nat
        /\ Origin(c) \in Nat /\ file[c.fd].to = Origin(c) + Size(c.fd)
        /\ Origin(c) = file[c.fd].from /\ c.fd \in 1..Len(file) /\ Len(file) \in Nat
    BY <2>1 DEF Fits, Origin, TailInv, TypeOK
  <2>4. z \in Nat /\ Size(c.fd) <= z /\ (c.fd < Len(file) => z = Size(c.fd))
    BY <2>1, <2>2, <2>3, SMTT(30) DEF Grown
  <2> HIDE DEF z
  <2>5. \A n \in Nat : n <= written => n <= written'
    BY <2>3
  <2>6. /\ pc[g] = "send" <=> c.hold # <<>>
        /\ pc[g] \in {"eof", "poll"} => c.got = <<>>
        /\ \A i \in 1..Len(c.hold) : c.hold[i] <= written'
        /\ \A i \in 1..Len(c.got) : c.got[i] <= written'
    BY <2>1, <2>5, ElementOf DEF Reader, Held, Fits
  <2>7. /\ c.renamed => c.fd < Len(file')
        /\ ~c.cut => c.pos <= z
        /\ pc[g] = "eof" /\ c.renamed /\ ~c.cut => c.pos = z
        /\ ~c.cut => c.lastSize <= z
    BY <2>1, <2>3, <2>4 DEF Reader, Placed
  <2>8. Held(pc[g], call[g])'
    BY <2>6 DEF Held, c
  <2>9. Placed(pc[g], call[g])'
    BY <2>7 DEF Placed, Size, c, z
  <2>10. Aligned(pc[g], call[g])'
    BY <2>1, <2>2 DEF Reader, Aligned, Base, Origin, LineEnd, c
  <2>11. Sorted(call[g])'
    BY <2>1, <2>2 DEF Reader, Sorted, Between, Resume, Origin, Base, c
  <2> QED  BY <2>1, <2>8, <2>9, <2>10, <2>11 DEF CallInv, Reader
<1> QED  BY <1>1, <1>2

LEMMA WriteKeeps ==
  ASSUME TailInv, Write, UNCHANGED watchVars
  PROVE  TailInv'
<1> DEFINE v == [file[path] EXCEPT !.to = @ + 1]
<1>1. /\ path = Len(file) /\ path \in 1..Len(file) /\ Len(file) \in Nat
      /\ file[path].to = written /\ written \in Nat /\ written' = written + 1
      /\ written < MaxPieces
  BY TailBoundAssumption DEF Write, TailInv, FilesInOrder, TypeOK
<1>2. file[path] \in Interval /\ file[path].from \in Nat /\ file[path].from <= written
  BY <1>1, FileTyped DEF TailInv, FilesInOrder
<1>3. v \in Interval /\ v.from = file[path].from /\ v.to = written + 1
  BY <1>1, <1>2 DEF Interval
<1>4. file' = [file EXCEPT ![path] = v]
  BY DEF Write
<1> HIDE DEF v
<1>5. /\ FilesInOrder' /\ file' \in Seq(Interval) /\ Len(file') = Len(file)
      /\ file'[path] = v /\ \A i \in 1..Len(file) : i # path => file'[i] = file[i]
  <2>1. path # 0 /\ path' = path
    BY DEF Write
  <2>2. v.from <= v.to /\ v.to = written' /\ written' \in Nat /\ written <= written'
        /\ file[path].from <= v.from
    BY <1>1, <1>2, <1>3
  <2> QED  BY <1>1, <1>3, <1>4, <2>1, <2>2, NewInterval
<1>6. ends \subseteq ends' /\ ends' \subseteq 1..written'
  BY <1>1 DEF Write, TailInv, TypeOK
<1>7. TypeOK'
  <2>1. written' \in 0..MaxPieces
    BY <1>1, TailBoundAssumption
  <2>2. ASSUME NEW g \in Tailer
        PROVE  call'[g].fd \in 0..Len(file') /\ call'[g].last <= written'
               /\ (Reading(g)' <=> call'[g].fd # 0)
    <3>1. call[g].last \in Nat /\ call[g].last <= written
      BY DEF TailInv, TypeOK, Call
    <3>2. call[g].last <= written + 1
      BY <1>1, <3>1
    <3> QED  BY <1>1, <1>5, <3>2 DEF Write, TailInv, TypeOK, Reading
  <2> QED  BY <1>5, <1>6, <2>1, <2>2 DEF Write, TailInv, TypeOK, watchVars, Interval
<1>8. ASSUME NEW g \in Tailer  PROVE CallInv(g)'
  <2>1. call'[g] = call[g] /\ pc'[g] = pc[g]
    BY DEF Write
  <2>2. ASSUME Reading(g)  PROVE Grown(call[g].fd)
    <3>1. call[g].fd \in 1..Len(file)
      BY <2>2, ReadingFits DEF Fits
    <3>2. CASE call[g].fd = path
      BY <1>1, <1>2, <1>3, <1>5, <3>2 DEF Grown
    <3>3. CASE call[g].fd # path
      BY <1>5, <3>1, <3>3, FileTyped DEF Grown
    <3> QED  BY <3>2, <3>3
  <2> QED  BY <1>1, <1>5, <1>6, <2>1, <2>2, GrownKeeps
<1> QED  BY <1>5, <1>7, <1>8 DEF TailInv

LEMMA CreateKeeps ==
  ASSUME TailInv, Create, UNCHANGED watchVars
  PROVE  TailInv'
<1> DEFINE v == [from |-> written, to |-> written]
<1>1. Len(file) \in Nat /\ written \in Nat /\ file \in Seq(Interval) /\ v \in Interval
  BY DEF TailInv, TypeOK, Interval
<1>2. file' = Append(file, v)
  BY DEF Create
<1>3. v.from = written /\ v.to = written
  OBVIOUS
<1> HIDE DEF v
<1>4. file' \in Seq(Interval)
  BY <1>1, <1>2
<1>5. /\ Len(file') = Len(file) + 1 /\ file'[Len(file) + 1] = v
      /\ \A i \in 1..Len(file) : file'[i] = file[i]
  BY <1>1, <1>2
<1>6. FilesInOrder'
  <2>1. path' = Len(file) + 1 /\ written' = written
    BY <1>5 DEF Create
  <2>2. ASSUME NEW i \in 1..(Len(file) + 1)
        PROVE  /\ file'[i].from <= file'[i].to /\ file'[i].to <= written
               /\ file'[i].to \in Nat
    <3>1. CASE i \in 1..Len(file)
      BY <1>5, <3>1, FileTyped DEF TailInv, FilesInOrder
    <3>2. CASE i = Len(file) + 1
      BY <1>1, <1>3, <1>5, <3>2
    <3> QED  BY <1>1, <3>1, <3>2
  <2>3. ASSUME NEW i \in 1..(Len(file) + 1), NEW j \in 1..(Len(file) + 1), i < j
        PROVE  file'[i].to <= file'[j].from
    <3>1. i \in 1..Len(file)
      BY <1>1, <2>3
    <3>2. CASE j \in 1..Len(file)
      BY <1>5, <2>3, <3>1, <3>2 DEF TailInv, FilesInOrder
    <3>3. CASE j = Len(file) + 1
      BY <1>3, <1>5, <2>2, <3>3
    <3> QED  BY <1>1, <3>2, <3>3
  <2> QED  BY <1>3, <1>5, <2>1, <2>2, <2>3 DEF FilesInOrder
<1>7. TypeOK'
  <2>1. path' \in 0..Len(file')
    BY <1>1, <1>5 DEF Create
  <2>2. ASSUME NEW g \in Tailer
        PROVE  call'[g].fd \in 0..Len(file') /\ call'[g].last <= written'
               /\ (Reading(g)' <=> call'[g].fd # 0)
    BY <1>1, <1>5 DEF Create, TailInv, TypeOK, Reading
  <2> QED  BY <1>4, <2>1, <2>2 DEF Create, TailInv, TypeOK, watchVars, Interval
<1>8. ASSUME NEW g \in Tailer  PROVE CallInv(g)'
  <2>1. ASSUME Reading(g)  PROVE Grown(call[g].fd)
    <3>1. call[g].fd \in 1..Len(file)
      BY <2>1, ReadingFits DEF Fits
    <3> QED  BY <1>5, <3>1, FileTyped DEF Grown
  <2>2. /\ call'[g] = call[g] /\ pc'[g] = pc[g] /\ ends' = ends
        /\ written' = written
    BY DEF Create
  <2>3. written <= written' /\ Len(file') \in Nat /\ Len(file) <= Len(file')
    BY <1>1, <1>5, <2>2
  <2> QED  BY <1>1, <2>1, <2>2, <2>3, GrownKeeps
<1> QED  BY <1>6, <1>7, <1>8 DEF TailInv

LEMMA TruncateKeeps ==
  ASSUME TailInv, Truncate, UNCHANGED watchVars
  PROVE  TailInv'
<1> DEFINE v == [file[path] EXCEPT !.from = written]
           Hit(g) == Reading(g) /\ call[g].fd = path
           hit(c) == [c EXCEPT !.cut = TRUE, !.missed = @ \/ c.cut \/ c.pos < Size(path)]
<1>1. /\ path = Len(file) /\ path \in 1..Len(file) /\ Len(file) \in Nat /\ path # 0
      /\ file[path].to = written /\ written \in Nat /\ written' = written
      /\ path' = path
  <2>1. path # 0 /\ written' = written /\ path' = path
    BY DEF Truncate
  <2>2. Len(file) \in Nat /\ written \in Nat /\ path \in 0..Len(file)
    BY DEF TailInv, TypeOK
  <2>3. path = Len(file) /\ file[path].to = written
    BY <2>1 DEF TailInv, FilesInOrder
  <2> QED  BY <2>1, <2>2, <2>3
<1>2. file[path] \in Interval /\ file[path].from \in Nat /\ file[path].from <= written
  BY <1>1, FileTyped DEF TailInv, FilesInOrder
<1>3. v \in Interval /\ v.from = written /\ v.to = written
  BY <1>1, <1>2 DEF Interval
<1>4. file' = [file EXCEPT ![path] = v]
  BY DEF Truncate
<1> HIDE DEF v
<1>5. /\ FilesInOrder' /\ file' \in Seq(Interval) /\ Len(file') = Len(file)
      /\ file'[path] = v /\ \A i \in 1..Len(file) : i # path => file'[i] = file[i]
  <2>1. v.from <= v.to /\ v.to = written' /\ written' \in Nat /\ written <= written'
        /\ file[path].from <= v.from
    BY <1>1, <1>2, <1>3
  <2> QED  BY <1>1, <1>3, <1>4, <2>1, NewInterval
<1>6. /\ faults' \in [FaultKind -> Nat] /\ UNCHANGED <<ends, here, pc, cancelled>>
      /\ LineEnd(written)
  <2>1. Inject("rotate")
    BY DEF Truncate
  <2>2. faults' \in [FaultKind -> Nat]
    BY <2>1, Injected DEF TailInv, FaultKind
  <2> QED  BY <2>2 DEF Truncate
<1>7. ASSUME NEW g \in Tailer
      PROVE  call'[g] = IF Hit(g) THEN hit(call[g]) ELSE call[g]
  BY DEF Truncate
<1>8. ASSUME NEW g \in Tailer, Hit(g)
      PROVE  LET c == call[g]
                 d == hit(c)
             IN /\ d \in Call /\ d.fd = path /\ d.pos = c.pos /\ d.got = c.got
                /\ d.hold = c.hold /\ d.lastSize = c.lastSize /\ d.last = c.last
                /\ d.renamed = c.renamed /\ d.cut
                /\ (d.missed <=> c.missed \/ c.cut \/ c.pos < Size(path)) /\ d.stale = c.stale
  <2>1. call[g] \in Call /\ call[g].fd = path
    BY <1>8 DEF TailInv, TypeOK
  <2>2. call[g].missed \in BOOLEAN /\ (call[g].cut \/ call[g].pos < Size(path)) \in BOOLEAN
    BY <2>1 DEF Call
  <2> QED  BY <2>1, <2>2 DEF Call
<1> HIDE DEF hit
<1>9. ASSUME NEW g \in Tailer
      PROVE  call'[g] \in Call /\ call'[g].fd = call[g].fd /\ call'[g].last = call[g].last
  BY <1>7, <1>8 DEF TailInv, TypeOK
<1>10. TypeOK'
  <2>1. call' \in [Tailer -> Call]
    BY <1>9 DEF Truncate
  <2>2. ASSUME NEW g \in Tailer
        PROVE  call'[g].fd \in 0..Len(file') /\ call'[g].last <= written'
               /\ (Reading(g)' <=> call'[g].fd # 0)
    BY <1>1, <1>5, <1>6, <1>9 DEF TailInv, TypeOK, Reading
  <2> QED
    BY <1>1, <1>5, <1>6, <2>1, <2>2 DEF TailInv, TypeOK, watchVars, Interval
<1>11. ASSUME NEW g \in Tailer, ~Hit(g)  PROVE CallInv(g)'
  <2>1. ASSUME Reading(g)  PROVE Grown(call[g].fd)
    <3>1. call[g].fd \in 1..Len(file) /\ call[g].fd # path
      BY <1>11, <2>1, ReadingFits DEF Fits
    <3> QED  BY <1>5, <3>1, FileTyped DEF Grown
  <2>2. /\ call'[g] = call[g] /\ pc'[g] = pc[g] /\ ends' = ends
        /\ written' = written
    BY <1>1, <1>6, <1>7, <1>11
  <2>3. written' \in Nat /\ written <= written' /\ Len(file') \in Nat
        /\ Len(file) <= Len(file')
    BY <1>1, <1>5
  <2> QED  BY <2>1, <2>2, <2>3, GrownKeeps
<1>12. ASSUME NEW g \in Tailer, Hit(g)  PROVE CallInv(g)'
  <2> DEFINE c == call[g]
             d == hit(c)
  <2>1. Fits(c) /\ Reader(pc[g], c) /\ c.fd = path /\ Reading(g)'
    BY <1>6, <1>12, ReadingFits DEF Reading
  <2>2. /\ d.fd = path /\ d.pos = c.pos /\ d.got = c.got /\ d.hold = c.hold
        /\ d.lastSize = c.lastSize /\ d.last = c.last /\ d.renamed = c.renamed /\ d.cut
        /\ (d.missed <=> c.missed \/ c.cut \/ c.pos < Size(path)) /\ d.stale = c.stale
    BY <1>8, <1>12
  <2>3. call'[g] = d /\ pc'[g] = pc[g]
    BY <1>6, <1>7, <1>12
  <2> HIDE DEF c, d
  <2>4. ~c.renamed /\ (~c.cut => c.pos <= Size(path))
    BY <1>1, <2>1 DEF Reader, Placed
  <2>5. Held(pc[g], call[g])'
    BY <1>1, <2>1, <2>2, <2>3 DEF Reader, Held
  <2>6. Placed(pc[g], call[g])'
    BY <2>2, <2>3, <2>4 DEF Placed
  <2>7. ~d.missed => ~c.cut /\ Base(c) = written
    BY <1>1, <2>1, <2>2, <2>4 DEF Fits
  <2>8. file'[path].from = written
    BY <1>3, <1>5
  <2>9. Aligned(pc[g], call[g])'
    <3>1. ASSUME ~d.missed
          PROVE  /\ \A i \in 1..Len(d.hold) : d.hold[i] = d.last + i
                 /\ \A i \in 1..Len(d.got) : d.got[i] = d.last + Len(d.hold) + i
                 /\ file'[d.fd].from = d.last + Len(d.hold) + Len(d.got)
                 /\ d.last = 0 \/ d.last \in ends
                 /\ pc[g] = "send" => d.hold[Len(d.hold)] \in ends
      BY <2>1, <2>2, <2>4, <2>7, <2>8, <3>1 DEF Reader, Aligned, LineEnd
    <3>2. ends' = ends /\ d.cut
      BY <1>6, <2>2
    <3> QED  BY <2>3, <3>1, <3>2 DEF Aligned, Origin, LineEnd
  <2>10. Sorted(call[g])'
    <3>1. ASSUME ~d.stale
          PROVE  /\ d.last <= written
                 /\ Between(d.hold, d.last, written) /\ Between(d.got, d.last, written)
                 /\ \A i \in 1..Len(d.hold), j \in 1..Len(d.got) : d.hold[i] < d.got[j]
      <4>1. /\ Between(c.hold, c.last, Resume(c)) /\ Between(c.got, c.last, Resume(c))
            /\ \A i \in 1..Len(c.hold), j \in 1..Len(c.got) : c.hold[i] < c.got[j]
        BY <2>1, <2>2, <3>1 DEF Reader, Sorted
      <4>2. /\ \A i \in 1..Len(c.hold) : c.hold[i] <= written
            /\ \A i \in 1..Len(c.got) : c.got[i] <= written
            /\ c.last <= written
        BY <2>1 DEF Reader, Held, Fits
      <4> QED  BY <2>2, <4>1, <4>2 DEF Between
    <3>2. d.cut /\ file'[d.fd].from = written
      BY <2>2, <2>8
    <3>3. Resume(call[g])' = written
      BY <2>3, <3>2 DEF Resume, Origin
    <3> QED  BY <2>3, <3>1, <3>3 DEF Sorted, Between
  <2> QED  BY <2>1, <2>5, <2>6, <2>9, <2>10 DEF CallInv, Reader
<1> QED  BY <1>5, <1>10, <1>11, <1>12 DEF TailInv

LEMMA DockerKeeps ==
  ASSUME TailInv, Docker
  PROVE  TailInv'
  BY WriteKeeps, CreateKeeps, RenameKeeps, TruncateKeeps DEF Docker

----------------------------------------------------------------------------
(* DockerInput. *)

\* A step of the watcher: calls start, are cancelled or are forgotten, and the files stay.
LEMMA WatchKeeps ==
  ASSUME TailInv, UNCHANGED <<written, ends, file, path, faults>>,
         pc' \in [Tailer -> Label], call' \in [Tailer -> Call],
         cancelled' \in [Tailer -> BOOLEAN], here' \in BOOLEAN, optedIn' \in BOOLEAN,
         entry' \in Tailer \cup {NoTailer}, skipped' \in BOOLEAN, done' \in BOOLEAN,
         main' \in {"start", "select", "wait", "returned"},
         \A g \in Tailer :
           \/ pc'[g] = pc[g] /\ call'[g] = call[g]
           \/ pc'[g] \in {"off", "open"} /\ \E b \in BOOLEAN : call'[g] = NewCall(b)
  PROVE  TailInv'
<1>1. FilesInOrder'
  BY DEF TailInv, FilesInOrder
<1>2. ASSUME NEW g \in Tailer  PROVE CallInv(g)'
  <2>1. CASE pc'[g] = pc[g] /\ call'[g] = call[g]
    <3>1. Reading(g) => Grown(call[g].fd)
      <4> SUFFICES ASSUME Reading(g)  PROVE Grown(call[g].fd)
        OBVIOUS
      <4>1. call[g].fd \in 1..Len(file)
        BY ReadingFits DEF Fits
      <4> QED  BY <4>1, FileTyped DEF Grown
    <3>2. written \in Nat /\ Len(file) \in Nat
      BY DEF TailInv, TypeOK
    <3> QED  BY <2>1, <3>1, <3>2, GrownKeeps
  <2>2. CASE pc'[g] \in {"off", "open"} /\ \E b \in BOOLEAN : call'[g] = NewCall(b)
    BY <2>2, NewCallTyped DEF CallInv, Reading
  <2> QED  BY <2>1, <2>2
<1>3. ASSUME NEW g \in Tailer
      PROVE  call'[g].fd \in 0..Len(file') /\ call'[g].last <= written'
             /\ (Reading(g)' <=> call'[g].fd # 0)
  <2>1. CASE pc'[g] = pc[g] /\ call'[g] = call[g]
    BY <2>1 DEF TailInv, TypeOK, Reading
  <2>2. CASE pc'[g] \in {"off", "open"} /\ \E b \in BOOLEAN : call'[g] = NewCall(b)
    <3>1. call'[g].fd = 0 /\ call'[g].last = 0
      BY <2>2, NewCallTyped
    <3>2. written \in Nat /\ Len(file) \in Nat
      BY DEF TailInv, TypeOK
    <3> QED  BY <2>2, <3>1, <3>2 DEF Reading
  <2> QED  BY <2>1, <2>2
<1>4. TypeOK'
  BY <1>3 DEF TailInv, TypeOK, Label
<1> QED  BY <1>1, <1>2, <1>4 DEF TailInv

LEMMA ScanKeeps ==
  ASSUME TailInv, NEW b \in BOOLEAN, Scan(b), main' \in {"start", "select", "wait", "returned"}
  PROVE  TailInv'
<1> USE DEF TailInv, TypeOK, Label
<1>1. CASE Removed \/ Skip
  <2>1. cancelled' \in [Tailer -> BOOLEAN] /\ entry' \in Tailer \cup {NoTailer}
        /\ skipped' \in BOOLEAN /\ UNCHANGED <<pc, call>>
    BY <1>1 DEF Removed, Skip
  <2> QED  BY <2>1, WatchKeeps DEF Scan, dockerVars
<1>2. CASE FollowNew(b)
  <2>1. PICK h \in Free :
          /\ pc' = [pc EXCEPT ![h] = "open"] /\ call' = [call EXCEPT ![h] = NewCall(b)]
          /\ cancelled' = [cancelled EXCEPT ![h] = done] /\ entry' = h
          /\ UNCHANGED skipped
    BY <1>2 DEF FollowNew, StartTailer
  <2>2. h \in Tailer /\ NewCall(b) \in Call
    BY NewCallTyped DEF Free
  <2>3. /\ pc' \in [Tailer -> Label] /\ call' \in [Tailer -> Call]
        /\ cancelled' \in [Tailer -> BOOLEAN] /\ entry' \in Tailer \cup {NoTailer}
    BY <2>1, <2>2
  <2>4. \A g \in Tailer :
           \/ pc'[g] = pc[g] /\ call'[g] = call[g]
           \/ pc'[g] \in {"off", "open"} /\ \E x \in BOOLEAN : call'[g] = NewCall(x)
    BY <2>1, <2>2
  <2> QED  BY <2>1, <2>3, <2>4, WatchKeeps DEF Scan, dockerVars
<1> QED  BY <1>1, <1>2 DEF Scan

LEMMA TailKept ==
  ASSUME TailInv, [Next]_vars
  PROVE  TailInv'
<1> USE DEF TailInv, TypeOK, Label
<1>1. CASE RemoveDir
  BY <1>1, WatchKeeps DEF RemoveDir, watchVars
<1>2. CASE Stop
  BY <1>2, WatchKeeps DEF Stop, dockerVars
<1>3. CASE StartFail \/ Wait \/ Return \/ UNCHANGED vars
  BY <1>3, WatchKeeps DEF StartFail, Wait, Return, vars, watchVars, dockerVars
<1>4. CASE FirstScan
  <2>1. CASE Scan(FALSE)
    BY <1>4, <2>1, ScanKeeps DEF FirstScan
  <2>2. CASE UNCHANGED <<dockerVars, faults, pc, cancelled, call, optedIn, entry, skipped,
                         done>>
    BY <1>4, <2>2, WatchKeeps DEF FirstScan, dockerVars
  <2> QED  BY <1>4, <2>1, <2>2 DEF FirstScan
<1>5. CASE Tick
  BY <1>5, ScanKeeps DEF Tick
<1>6. ASSUME NEW g \in Tailer, Notice(g) \/ Forget(g)  PROVE TailInv'
  <2>1. /\ pc[g] = "exit" /\ pc' = [pc EXCEPT ![g] = "off"]
        /\ UNCHANGED <<dockerVars, faults, cancelled, call, optedIn, skipped, main, done>>
        /\ entry' \in Tailer \cup {NoTailer}
    BY <1>6 DEF Notice, NoticeClearing, Forget, watchVars
  <2>2. call[g] = NewCall(call[g].start) /\ call[g].start \in BOOLEAN
    BY <2>1 DEF CallInv, Reading, Call
  <2>3. \A h \in Tailer :
           \/ pc'[h] = pc[h] /\ call'[h] = call[h]
           \/ pc'[h] \in {"off", "open"} /\ \E b \in BOOLEAN : call'[h] = NewCall(b)
    BY <2>1, <2>2
  <2>4. pc' \in [Tailer -> Label]
    BY <2>1
  <2> QED  BY <2>1, <2>3, <2>4, WatchKeeps DEF dockerVars
<1> QED
  BY <1>1, <1>2, <1>3, <1>4, <1>5, <1>6, DockerKeeps, FollowKeeps
     DEF Next, Environment, Watch

LEMMA TailBegins == ASSUME Init  PROVE TailInv
<1>1. <<>> \in Seq([from : Nat, to : Nat]) /\ Len(<<>>) = 0
  OBVIOUS
<1>2. TypeOK
  <2>1. /\ NewCall(FALSE) \in Call /\ NewCall(FALSE).fd = 0 /\ NewCall(FALSE).last = 0
    BY NewCallTyped
  <2>2. call \in [Tailer -> Call] /\ pc \in [Tailer -> {"off"}]
    BY <2>1 DEF Init
  <2>3. ASSUME NEW g \in Tailer
        PROVE  call[g].fd = 0 /\ call[g].last = 0 /\ ~Reading(g)
    BY <2>1 DEF Init, Reading
  <2>4. written = 0 /\ ends = {} /\ file = <<>> /\ path = 0 /\ Len(file) = 0
    BY <1>1 DEF Init
  <2>5. written \in 0..MaxPieces /\ path \in 0..Len(file)
    BY <2>4, TailBoundAssumption
  <2>6. ASSUME NEW g \in Tailer
        PROVE  /\ call[g].fd \in 0..Len(file) /\ call[g].last <= written
               /\ Reading(g) <=> call[g].fd # 0
    BY <2>3, <2>4
  <2> QED  BY <1>1, <2>2, <2>4, <2>5, <2>6 DEF Init, TypeOK
<1>3. FilesInOrder
  BY <1>1 DEF Init, FilesInOrder
<1>4. \A g \in Tailer : CallInv(g)
  BY NewCallTyped DEF Init, CallInv, Reading
<1> QED  BY <1>2, <1>3, <1>4 DEF TailInv

\* Whatever is written, rotated, removed and followed, what a call holds fits the files.
THEOREM TailInvariant == Spec => []TailInv
<1>1. Init => TailInv
  BY TailBegins
<1>2. TailInv /\ [Next]_vars => TailInv'
  BY TailKept
<1> QED  BY <1>1, <1>2, PTL DEF Spec

\* The variables of the watcher and of every call are of their types, and a call has a
\* file of the container open exactly while it reads.
THEOREM DockerTypeCorrect == Spec => []TypeOK
<1>1. TailInv => TypeOK
  BY DEF TailInv
<1> QED  BY <1>1, TailInvariant, PTL

----------------------------------------------------------------------------
(* What the calls send. *)

\* What a call holds: the line in hand, then what its reader has.
LEMMA AheadOf ==
  ASSUME NEW g, call[g].hold \in Seq(Nat), call[g].got \in Seq(Nat)
  PROVE  LET h == call[g].hold
             q == call[g].got
         IN /\ Ahead(g) \in Seq(Nat) /\ Len(Ahead(g)) = Len(h) + Len(q)
            /\ Len(h) \in Nat /\ Len(q) \in Nat
            /\ \A i \in 1..Len(Ahead(g)) :
                 \/ i \in 1..Len(h) /\ Ahead(g)[i] = h[i]
                 \/ i > Len(h) /\ i - Len(h) \in 1..Len(q) /\ Ahead(g)[i] = q[i - Len(h)]
<1> DEFINE h == call[g].hold
           q == call[g].got
<1>1. h \in Seq(Nat) /\ q \in Seq(Nat) /\ Ahead(g) = h \o q
  BY DEF Ahead
<1> HIDE DEF h, q
<1>2. h \o q \in Seq(Nat) /\ Len(h \o q) = Len(h) + Len(q) /\ Len(h) \in Nat /\ Len(q) \in Nat
  BY <1>1
<1>3. ASSUME NEW i \in 1..(Len(h) + Len(q))
      PROVE  \/ i \in 1..Len(h) /\ (h \o q)[i] = h[i]
             \/ i > Len(h) /\ i - Len(h) \in 1..Len(q) /\ (h \o q)[i] = q[i - Len(h)]
  <2>1. (h \o q)[i] = IF i <= Len(h) THEN h[i] ELSE q[i - Len(h)]
    BY <1>1
  <2>2. i \in Nat /\ 1 <= i /\ i <= Len(h) + Len(q)
    BY <1>2
  <2>3. CASE i <= Len(h)
    BY <1>2, <2>1, <2>2, <2>3
  <2>4. CASE i > Len(h)
    <3>1. i - Len(h) \in 1..Len(q)
      BY <1>2, <2>2, <2>4
    <3> QED  BY <1>2, <2>1, <2>2, <2>4, <3>1
  <2> QED  BY <1>2, <2>2, <2>3, <2>4
<1> QED  BY <1>1, <1>2, <1>3 DEF h, q

LEMMA RowAhead ==
  ASSUME TailInv, NEW g \in Tailer, Reading(g), ~call[g].missed
  PROVE  /\ \A i \in DOMAIN Ahead(g) : Ahead(g)[i] = call[g].last + i
         /\ pc[g] = "send" => LineEnd(call[g].last) /\ Last(call[g].hold) \in ends
<1> DEFINE h == call[g].hold
           q == call[g].got
           l == call[g].last
<1>1. /\ h \in Seq(Nat) /\ q \in Seq(Nat) /\ l \in Nat /\ Len(h) \in Nat /\ Len(q) \in Nat
      /\ Reader(pc[g], call[g])
  BY ReadingFits DEF Fits
<1>2. /\ \A i \in 1..Len(h) : h[i] = l + i
      /\ \A i \in 1..Len(q) : q[i] = l + Len(h) + i
      /\ LineEnd(l) /\ (pc[g] = "send" => h[Len(h)] \in ends)
  BY <1>1 DEF Reader, Aligned
<1>3. /\ Ahead(g) \in Seq(Nat)
      /\ \A i \in 1..Len(Ahead(g)) :
           \/ i \in 1..Len(h) /\ Ahead(g)[i] = h[i]
           \/ i > Len(h) /\ i - Len(h) \in 1..Len(q) /\ Ahead(g)[i] = q[i - Len(h)]
  BY <1>1, AheadOf
<1> HIDE DEF h, q, l
<1>4. ASSUME NEW i \in 1..Len(Ahead(g))  PROVE Ahead(g)[i] = l + i
  <2>1. CASE i \in 1..Len(h) /\ Ahead(g)[i] = h[i]
    BY <1>2, <2>1
  <2>2. CASE i > Len(h) /\ i - Len(h) \in 1..Len(q) /\ Ahead(g)[i] = q[i - Len(h)]
    <3>1. Ahead(g)[i] = l + Len(h) + (i - Len(h)) /\ i \in Int
      BY <1>2, <2>2
    <3> QED  BY <1>1, <3>1
  <2> QED  BY <1>3, <2>1, <2>2
<1>5. DOMAIN Ahead(g) = 1..Len(Ahead(g))
  BY <1>3
<1>6. Last(h) = h[Len(h)]
  BY DEF Last
<1> QED  BY <1>2, <1>4, <1>5, <1>6 DEF h, l

\* NothingSkipped, for any number of calls, files, pieces, truncations and failing system
\* calls: a call leaves no piece out, and sends whole lines only, but for the reasons that
\* set missed.
THEOREM DockerNothingSkipped == Spec => []NothingSkipped
<1>1. TailInv => NothingSkipped
  BY RowAhead DEF NothingSkipped
<1> QED  BY <1>1, TailInvariant, PTL

LEMMA SortedAhead ==
  ASSUME TailInv, NEW g \in Tailer, Reading(g), ~call[g].stale
  PROVE  LET s == <<call[g].last>> \o Ahead(g)
         IN \A i, j \in DOMAIN s : i < j => s[i] < s[j]
<1> DEFINE h == call[g].hold
           q == call[g].got
           l == call[g].last
           a == Ahead(g)
           s == <<l>> \o a
<1>1. /\ h \in Seq(Nat) /\ q \in Seq(Nat) /\ l \in Nat /\ Len(h) \in Nat /\ Len(q) \in Nat
      /\ Reader(pc[g], call[g])
  BY ReadingFits DEF Fits
<1>2. /\ \A i \in 1..Len(h) : h[i] \in Nat /\ l < h[i]
      /\ \A i, j \in 1..Len(h) : i < j => h[i] < h[j]
      /\ \A i \in 1..Len(q) : q[i] \in Nat /\ l < q[i]
      /\ \A i, j \in 1..Len(q) : i < j => q[i] < q[j]
      /\ \A i \in 1..Len(h), j \in 1..Len(q) : h[i] < q[j]
  BY <1>1 DEF Reader, Sorted, Between
<1>3. a \in Seq(Nat)
  BY <1>1, AheadOf
<1>4. \A i \in 1..Len(a) :
           \/ i \in 1..Len(h) /\ a[i] = h[i]
           \/ i > Len(h) /\ i - Len(h) \in 1..Len(q) /\ a[i] = q[i - Len(h)]
  BY <1>1, AheadOf
<1> HIDE DEF h, q, l, a
<1>5. \A i \in 1..Len(a) : l < a[i]
  BY <1>2, <1>4
<1>6. ASSUME NEW i \in 1..Len(a), NEW j \in 1..Len(a), i < j  PROVE a[i] < a[j]
  <2>1. i \in Int /\ j \in Int
    OBVIOUS
  <2>2. CASE j \in 1..Len(h) /\ a[j] = h[j]
    <3>1. i \in 1..Len(h) /\ a[i] = h[i]
      <4>1. Len(h) \in Nat
        BY <1>1
      <4>2. ~(i > Len(h))
        BY <1>6, <2>1, <2>2, <4>1
      <4> QED  BY <1>4, <4>2, Zenon
    <3> QED  BY <1>2, <1>6, <2>2, <3>1
  <2>3. CASE j > Len(h) /\ j - Len(h) \in 1..Len(q) /\ a[j] = q[j - Len(h)]
    <3>1. CASE i \in 1..Len(h) /\ a[i] = h[i]
      BY <1>2, <2>3, <3>1
    <3>2. CASE i > Len(h) /\ i - Len(h) \in 1..Len(q) /\ a[i] = q[i - Len(h)]
      <4>1. i - Len(h) < j - Len(h)
        BY <1>1, <1>6, <2>1
      <4> QED  BY <1>2, <2>3, <3>2, <4>1
    <3> QED  BY <1>4, <3>1, <3>2
  <2> QED  BY <1>4, <2>2, <2>3
<1>7. <<l>> \in Seq(Nat) /\ Len(<<l>>) = 1 /\ <<l>>[1] = l
  BY <1>1 DEF l
<1>8. s \in Seq(Nat) /\ Len(s) = Len(a) + 1 /\ Len(a) \in Nat
  BY <1>3, <1>7
<1>9. \A i \in 1..Len(s) : s[i] = IF i <= 1 THEN l ELSE a[i - 1]
  BY <1>3, <1>7
<1>10. DOMAIN s = 1..Len(s)
  BY <1>8
<1> HIDE DEF s
<1>11. ASSUME NEW i \in 1..Len(s), NEW j \in 1..Len(s), i < j  PROVE s[i] < s[j]
  <2>1. j - 1 \in 1..Len(a) /\ s[j] = a[j - 1]
    BY <1>8, <1>9, <1>11
  <2>2. CASE i <= 1
    <3>1. s[i] = l
      BY <1>9, <2>2
    <3> QED  BY <1>5, <2>1, <3>1
  <2>3. CASE i > 1
    <3>1. i - 1 \in 1..Len(a) /\ s[i] = a[i - 1] /\ i - 1 < j - 1
      BY <1>8, <1>9, <1>11, <2>3
    <3> QED  BY <1>6, <2>1, <3>1
  <2> QED  BY <2>2, <2>3
<1> QED  BY <1>10, <1>11 DEF s, l, a

\* InOrder, likewise: nothing is sent twice, and nothing before what was written earlier,
\* unless a truncated file was read at the old offset before the call noticed.
THEOREM DockerInOrder == Spec => []InOrder
<1>1. TailInv => InOrder
  BY SortedAhead DEF InOrder
<1> QED  BY <1>1, TailInvariant, PTL

----------------------------------------------------------------------------
(* One tailer per container. *)

LEMMA FollowEntered ==
  ASSUME TypeOK, Entered, NEW g \in Tailer, Follow(g), UNCHANGED watchVars
  PROVE  Entered'
<1>1. \/ pc[g] # "off" /\ (\E l \in Label \ {"off"} : pc' = [pc EXCEPT ![g] = l])
      \/ UNCHANGED pc
  BY DEF Follow, Step, Send, ReadFail, Open, OpenFail, Fill, ReadLine, Eof, Switch, SwitchFail,
         Reopen, FindRenamed, FindTruncated, TruncatedIf, Renamed, AtEof, AtTop, Idle, Poll,
         Quit, Exit, Goto, Label
<1>2. UNCHANGED <<here, entry>>
  BY DEF Follow, Step, Send, ReadFail, Open, OpenFail, Fill, ReadLine, Eof, Switch, SwitchFail,
         Reopen, FindRenamed, FindTruncated, TruncatedIf, Idle, Poll, Quit, dockerVars, watchVars
<1>3. \A h \in Tailer : pc'[h] # "off" <=> pc[h] # "off"
  BY <1>1 DEF TypeOK
<1> QED  BY <1>2, <1>3 DEF Entered, OneTailer

LEMMA ScanEntered ==
  ASSUME TypeOK, Entered, NEW b \in BOOLEAN, Scan(b)
  PROVE  Entered'
<1>1. CASE Removed \/ Skip
  BY <1>1 DEF Scan, Removed, Skip, Listed, Entered, OneTailer, dockerVars
<1>2. CASE FollowNew(b)
  <2>1. PICK h \in Free : pc' = [pc EXCEPT ![h] = "open"] /\ entry' = h
    BY <1>2 DEF FollowNew, StartTailer
  <2>2. entry = NoTailer /\ here /\ h \in Tailer
    BY <1>2, <2>1 DEF FollowNew, Named, Free
  <2>3. \A g \in Tailer : pc[g] = "off"
    BY <2>2, EntryAssumption DEF Entered
  <2> QED  BY <2>1, <2>2, <2>3 DEF TypeOK, Entered, OneTailer
<1> QED  BY <1>1, <1>2 DEF Scan

LEMMA EnteredKept ==
  ASSUME TypeOK, Entered, [Next]_vars
  PROVE  Entered'
<1>1. CASE Docker
  BY <1>1 DEF Docker, Write, Create, Rename, Truncate, watchVars, Entered, OneTailer
<1>2. CASE RemoveDir
  BY <1>2 DEF RemoveDir, watchVars, Entered, OneTailer
<1>3. CASE Stop \/ StartFail \/ Wait \/ Return \/ UNCHANGED vars
  BY <1>3 DEF Stop, StartFail, Wait, Return, vars, dockerVars, watchVars, Entered, OneTailer
<1>4. CASE FirstScan
  <2>1. CASE Scan(FALSE)
    BY <2>1, ScanEntered
  <2>2. CASE UNCHANGED <<dockerVars, faults, pc, cancelled, call, optedIn, entry, skipped,
                         done>>
    BY <2>2 DEF dockerVars, Entered, OneTailer
  <2> QED  BY <1>4, <2>1, <2>2 DEF FirstScan
<1>5. CASE Tick
  BY <1>5, ScanEntered DEF Tick
<1>6. ASSUME NEW g \in Tailer, Notice(g) \/ Forget(g)  PROVE Entered'
  <2>1. pc[g] = "exit" /\ pc' = [pc EXCEPT ![g] = "off"]
    BY <1>6 DEF Notice, NoticeClearing, Forget
  <2>2. \A h \in Tailer : pc'[h] = "off"
    BY <2>1 DEF Entered, OneTailer, TypeOK
  <2> QED  BY <2>2 DEF Entered, OneTailer
<1> QED
  BY <1>1, <1>2, <1>3, <1>4, <1>5, <1>6, FollowEntered DEF Next, Environment, Watch

\* OneTailer, likewise: nobody follows a container twice, whenever its tailer ends, its
\* directory goes or the agent stops.
THEOREM DockerOneTailer == Spec => []OneTailer
<1>1. Init => Entered
  BY DEF Init, Entered, OneTailer
<1>2. TypeOK /\ Entered /\ [Next]_vars => Entered'
  BY EnteredKept
<1>3. Entered => OneTailer
  BY DEF Entered
<1> QED  BY <1>1, <1>2, <1>3, DockerTypeCorrect, PTL DEF Spec
=============================================================================
