------------------------------ MODULE TailFile ------------------------------
(***************************************************************************)
(* One container's JSON log and the calls of tailFile that follow it.       *)
(*                                                                         *)
(* Docker writes the log in pieces, numbered from 1; a line is one or more   *)
(* pieces, of which the last ends it, so that a line whose bytes become      *)
(* visible in two steps is two pieces.  Piece p is always followed by p + 1, *)
(* which makes a file an interval, and an offset a number of pieces.  Docker *)
(* rotates between two lines only, by renaming (max-file > 1) or by          *)
(* truncating (max-file = 1), and never writes to a renamed file.            *)
(*                                                                         *)
(* A call of tailFile is a Tailer.  When a call starts, and on whose behalf,  *)
(* is up to DockerInput, which extends this module.                         *)
(***************************************************************************)
EXTENDS Integers, SequencesExt

CONSTANTS
  Tailer,     \* slots for tailFile calls
  MaxFiles,   \* bound: files Docker creates
  MaxPieces,  \* bound: pieces Docker writes
  MaxFaults   \* bound: rotations, of either way, and failing system calls

FaultKind == {"rotate", "error"}

ASSUME TailBoundAssumption == MaxFiles \in Nat /\ MaxPieces \in Nat
ASSUME TailFaultAssumption == MaxFaults \in [FaultKind -> Nat]

VARIABLES
  written,    \* pieces written so far
  ends,       \* those that end a line
  file,       \* per file, the interval of pieces it holds: after .from, up to .to
  path,       \* the file that <id>-json.log names, 0 while it names none
  here,       \* is the container's directory there
  faults,     \* how many of each kind happened
  pc,         \* where a call is; "off" when there is none
  cancelled,  \* is its context done
  call        \* its parameter and local variables

dockerVars == <<written, ends, file, path, here>>

Call == [start    : BOOLEAN,     \* fromStart, until it is used
         fd       : Nat,         \* f: the file it has open
         pos      : Nat,         \* the offset in f
         got      : Seq(Nat),    \* what its bufio.Reader holds
         hold     : Seq(Nat),    \* the line it is sending on out
         lastSize : Nat,
         renamed  : BOOLEAN,
         last     : Nat,         \* the last piece sent, or skipped by the seek (ghost)
         cut      : BOOLEAN,     \* f was truncated behind its back (ghost)
         stale    : BOOLEAN,     \* it read on in such a file, at its old offset (ghost)
         missed   : BOOLEAN]     \* pieces are lost for a reason named below (ghost)

NewCall(fromStart) ==
  [start |-> fromStart, fd |-> 0, pos |-> 0, got |-> <<>>, hold |-> <<>>, lastSize |-> 0,
   renamed |-> FALSE, last |-> 0, cut |-> FALSE, stale |-> FALSE, missed |-> FALSE]

\* The start of the log, and the end of every line, are places to rotate at.
LineEnd(p) == p = 0 \/ p \in ends

Pieces(lo, hi) == [i \in 1..(hi - lo) |-> lo + i]

Size(i) == file[i].to - file[i].from

\* What os.Stat and os.Open find under the path.
Named == IF here THEN path ELSE 0

Reading(g) == pc[g] \in {"loop", "send", "eof", "poll"}

Inject(kind) ==
  faults[kind] < MaxFaults[kind] /\ faults' = [faults EXCEPT ![kind] = @ + 1]

----------------------------------------------------------------------------
(* Docker. *)

Write ==
  /\ here /\ path # 0 /\ written < MaxPieces
  /\ written' = written + 1
  /\ file' = [file EXCEPT ![path].to = @ + 1]
  /\ \/ ends' = ends \cup {written'}
     \/ LineEnd(written) /\ written' < MaxPieces /\ UNCHANGED ends
  /\ UNCHANGED <<path, here, faults, pc, cancelled, call>>

\* The first file, or the one that follows a renamed one.
Create ==
  /\ here /\ path = 0 /\ Len(file) < MaxFiles
  /\ file' = Append(file, [from |-> written, to |-> written])
  /\ path' = Len(file')
  /\ UNCHANGED <<written, ends, here, faults, pc, cancelled, call>>

Rename ==
  /\ here /\ path # 0 /\ LineEnd(written) /\ Len(file) < MaxFiles
  /\ Inject("rotate")
  /\ path' = 0
  /\ UNCHANGED <<written, ends, file, here, pc, cancelled, call>>

\* What a call had still to read is lost: what lies beyond its offset and, when it has not
\* noticed an earlier truncation, all that was written since.
Truncate ==
  /\ here /\ path # 0 /\ LineEnd(written) /\ Size(path) > 0
  /\ Inject("rotate")
  /\ file' = [file EXCEPT ![path].from = written]
  /\ call' = [g \in Tailer |->
       IF Reading(g) /\ call[g].fd = path
       THEN [call[g] EXCEPT !.cut = TRUE,
                            !.missed = @ \/ call[g].cut \/ call[g].pos < Size(path)]
       ELSE call[g]]
  /\ UNCHANGED <<written, ends, path, here, pc, cancelled>>

----------------------------------------------------------------------------
(* tailFile. *)

Goto(g, label) == pc' = [pc EXCEPT ![g] = label]

\* A return, with or without an error.
Exit(g) ==
  /\ Goto(g, "exit")
  /\ call' = [call EXCEPT ![g] = NewCall(FALSE)]

\* os.Open and, unless fromStart, the seek to the end, which may be within a line.
Open(g) ==
  /\ pc[g] = "open" /\ Named # 0
  /\ LET seek == IF call[g].start THEN 0 ELSE Size(Named)
         seen == file[Named].from + seek
     IN call' = [call EXCEPT ![g].start = FALSE, ![g].fd = Named, ![g].pos = seek,
                             ![g].last = seen, ![g].missed = ~LineEnd(seen)]
  /\ Goto(g, "loop")
  /\ UNCHANGED <<dockerVars, faults, cancelled>>

OpenFail(g) ==
  /\ pc[g] = "open" /\ Named = 0
  /\ Exit(g)
  /\ UNCHANGED <<dockerVars, faults, cancelled>>

\* The top of the loop, its context not done.
AtTop(g) == pc[g] = "loop" /\ ~cancelled[g]

HasLine(g) == \E i \in DOMAIN call[g].got : call[g].got[i] \in ends

\* ReadBytes: read(2) returns some of what the file has beyond the offset, until
\* there is a whole line; in a file that was truncated that is past its beginning.
Fill(g) ==
  /\ AtTop(g) /\ ~HasLine(g)
  /\ \E n \in 1..(Size(call[g].fd) - call[g].pos) :
       LET base == file[call[g].fd].from + call[g].pos
       IN call' = [call EXCEPT ![g].got = @ \o Pieces(base, base + n), ![g].pos = @ + n,
                               ![g].stale = @ \/ call[g].cut,
                               ![g].missed = @ \/ call[g].cut]
  /\ UNCHANGED <<dockerVars, faults, pc, cancelled>>

ReadLine(g) ==
  LET got == call[g].got
  IN /\ AtTop(g)
     /\ \E i \in DOMAIN got :
          /\ got[i] \in ends /\ \A j \in 1..(i - 1) : got[j] \notin ends
          /\ call' = [call EXCEPT ![g].hold = SubSeq(got, 1, i),
                                  ![g].got = SubSeq(got, i + 1, Len(got))]
     /\ Goto(g, "send")
     /\ UNCHANGED <<dockerVars, faults, cancelled>>

\* ReadBytes returns io.EOF and the beginning of a line, which is not used.
Eof(g) ==
  /\ AtTop(g) /\ ~HasLine(g) /\ call[g].pos >= Size(call[g].fd)
  /\ call' = [call EXCEPT ![g].got = <<>>, ![g].missed = @ \/ call[g].got # <<>>]
  /\ Goto(g, "eof")
  /\ UNCHANGED <<dockerVars, faults, cancelled>>

\* Any other error, of a read, a seek or an open, ends the call.
ReadFail(g) ==
  /\ AtTop(g) \/ pc[g] = "eof"
  /\ Inject("error")
  /\ Exit(g)
  /\ UNCHANGED <<dockerVars, cancelled>>

Send(g) ==
  LET line == call[g].hold
  IN /\ pc[g] = "send"
     /\ call' = [call EXCEPT ![g].last = Last(line), ![g].hold = <<>>]
     /\ Goto(g, "loop")
     /\ UNCHANGED <<dockerVars, faults, cancelled>>

\* The end of a renamed file: go on with the new one.  If that does not begin where
\* the old one ended, Docker has rotated twice.
Reopen(g) ==
  /\ call' = [call EXCEPT ![g].fd = Named, ![g].pos = 0, ![g].lastSize = 0,
                          ![g].renamed = FALSE, ![g].cut = FALSE,
                          ![g].missed = @ \/ call[g].cut
                                         \/ file[Named].from # file[call[g].fd].to]
  /\ Goto(g, "loop")
  /\ UNCHANGED <<dockerVars, faults, cancelled>>

AtEof(g) == pc[g] = "eof" /\ ~call[g].renamed

Switch(g) == pc[g] = "eof" /\ call[g].renamed /\ Named # 0 /\ Reopen(g)

MutantSwitchFail(g) ==   \* the error is not looked at
  /\ pc[g] = "eof" /\ call[g].renamed /\ Named = 0
  /\ call' = [call EXCEPT ![g].fd = 0, ![g].renamed = FALSE]
  /\ Goto(g, "poll")
  /\ UNCHANGED <<dockerVars, faults, cancelled>>

SwitchFail(g) ==
  /\ pc[g] = "eof" /\ call[g].renamed /\ Named = 0
  /\ Exit(g)
  /\ UNCHANGED <<dockerVars, faults, cancelled>>

\* The end of any other file: was it renamed?
Renamed(g) == AtEof(g) /\ Named \notin {0, call[g].fd}

MutantFindRenamed(g) == Renamed(g) /\ Reopen(g)   \* at once

FindRenamed(g) ==
  /\ Renamed(g)
  /\ call' = [call EXCEPT ![g].renamed = TRUE]
  /\ Goto(g, "loop")
  /\ UNCHANGED <<dockerVars, faults, cancelled>>

\* Was it truncated?
TruncatedIf(g, shrunk) ==
  /\ AtEof(g) /\ Named \in {0, call[g].fd}
  /\ shrunk
  /\ call' = [call EXCEPT ![g].pos = 0, ![g].lastSize = 0, ![g].cut = FALSE]
  /\ Goto(g, "loop")
  /\ UNCHANGED <<dockerVars, faults, cancelled>>

MutantTruncated(g) == TruncatedIf(g, Size(call[g].fd) <= call[g].lastSize)   \* <= for <
MutantNoSeek(g)    == TruncatedIf(g, FALSE)   \* truncation is not looked for
FindTruncated(g)   == TruncatedIf(g, Size(call[g].fd) < call[g].lastSize)

\* Neither, or Stat failed: wait for the next poll.  A truncation that is not noticed
\* now, because the file is as large as it was, never will be.
Idle(g) ==
  /\ AtEof(g)
  /\ \/ /\ Named \in {0, call[g].fd} /\ Size(call[g].fd) >= call[g].lastSize
        /\ call' = [call EXCEPT ![g].lastSize = Size(call[g].fd),
                                ![g].missed = @ \/ call[g].cut]
        /\ UNCHANGED faults
     \/ Inject("error") /\ UNCHANGED call
  /\ Goto(g, "poll")
  /\ UNCHANGED <<dockerVars, cancelled>>

Poll(g) ==
  /\ pc[g] = "poll"
  /\ Goto(g, "loop")
  /\ UNCHANGED <<dockerVars, faults, cancelled, call>>

\* <-ctx.Done(), at the top of the loop and in both selects.
Quit(g) ==
  /\ pc[g] \in {"loop", "send", "poll"} /\ cancelled[g]
  /\ Exit(g)
  /\ UNCHANGED <<dockerVars, faults, cancelled>>

\* What a call does by itself, out of Send, which needs a receiver.
Step(g) == \/ Open(g) \/ OpenFail(g) \/ Fill(g) \/ ReadLine(g) \/ Eof(g) \/ Switch(g)
           \/ SwitchFail(g) \/ FindRenamed(g) \/ FindTruncated(g) \/ Idle(g) \/ Poll(g)
           \/ Quit(g)

Follow(g) == Step(g) \/ Send(g) \/ ReadFail(g)
=============================================================================
