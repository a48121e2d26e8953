---------------------------- MODULE DockerInput ----------------------------
(***************************************************************************)
(* DockerInput.Start and one container: scans of the log root start a        *)
(* tailFile call (TailFile) for the container when it has opted in, stop it   *)
(* when its directory is gone, and forget it when it says that it has ended. *)
(* Containers do not influence each other, since both of the watcher's maps  *)
(* are keyed by the container, so one stands for all of them.                *)
(***************************************************************************)
EXTENDS TailFile

CONSTANT NoTailer   \* entry when the map has none for the container

ASSUME EntryAssumption == NoTailer \notin Tailer

VARIABLES
  optedIn,  \* config.v2.json has the label
  entry,    \* w.tailers[id]
  skipped,  \* w.skipped[id]
  main,     \* DockerInput.Start: "start", "select", "wait", "returned"
  done      \* the agent's context is cancelled

watchVars == <<optedIn, entry, skipped, main, done>>
vars == <<dockerVars, faults, pc, cancelled, call, watchVars>>

Init ==
  /\ written = 0 /\ ends = {} /\ file = <<>> /\ path = 0 /\ here = TRUE
  /\ faults = [kind \in FaultKind |-> 0]
  /\ pc = [g \in Tailer |-> "off"]
  /\ cancelled = [g \in Tailer |-> FALSE]
  /\ call = [g \in Tailer |-> NewCall(FALSE)]
  /\ optedIn \in BOOLEAN /\ entry = NoTailer /\ skipped = FALSE
  /\ main = "start" /\ done = FALSE

----------------------------------------------------------------------------
(* The container. *)

Docker == (Write \/ Create \/ Rename \/ Truncate) /\ UNCHANGED watchVars

\* Its directory goes with it, and does not come back.
RemoveDir ==
  /\ here
  /\ here' = FALSE
  /\ UNCHANGED <<written, ends, file, path, faults, pc, cancelled, call, watchVars>>

----------------------------------------------------------------------------
(* DockerInput.Start.  A scan runs in its goroutine, which alone touches the *)
(* maps.                                                                    *)

\* listContainers finds the container by its directory, log or no log.
Listed == here

\* What readContainerConfig finds, when it can read it.
TraceEnabled == optedIn

Removed ==
  /\ ~Listed
  /\ entry' = NoTailer
  /\ cancelled' = [g \in Tailer |-> cancelled[g] \/ g = entry]
  /\ skipped' = FALSE
  /\ UNCHANGED <<pc, call>>

Skip ==
  /\ entry = NoTailer /\ Named # 0 /\ ~TraceEnabled
  /\ skipped' = TRUE
  /\ UNCHANGED <<pc, call, entry, cancelled>>

Free == {g \in Tailer : pc[g] = "off"}

\* In any free slot: they are all the same.
StartTailer(fromStart) ==
  \E g \in Free :
    /\ g = CHOOSE h \in Free : TRUE
    /\ pc' = [pc EXCEPT ![g] = "open"]
    /\ call' = [call EXCEPT ![g] = NewCall(fromStart)]
    /\ cancelled' = [cancelled EXCEPT ![g] = done]
    /\ entry' = g
    /\ UNCHANGED skipped

MutantFollowNew(fromStart) ==   \* whether it has a tailer or not
  ~skipped /\ Named # 0 /\ TraceEnabled /\ StartTailer(fromStart)

FollowNew(fromStart) ==
  /\ entry = NoTailer /\ ~skipped /\ Named # 0 /\ TraceEnabled
  /\ StartTailer(fromStart)

Scan(fromStart) ==
  /\ Removed \/ Skip \/ FollowNew(fromStart)
  /\ UNCHANGED <<dockerVars, faults, optedIn, done>>

\* What is there when the agent starts is followed from its end on.  A scan that
\* fails, or meets a container without a log yet or with a configuration that it
\* cannot read, leaves it to the next one.
FirstScan ==
  /\ main = "start"
  /\ main' = "select"
  /\ \/ Scan(FALSE)
     \/ UNCHANGED <<dockerVars, faults, pc, cancelled, call, optedIn, entry,
                    skipped, done>>

Tick == main = "select" /\ Scan(TRUE) /\ UNCHANGED main

\* The log root is not readable.
StartFail ==
  /\ main = "start"
  /\ main' = "returned"
  /\ UNCHANGED <<dockerVars, faults, pc, cancelled, call, optedIn, entry, skipped,
                 done>>

\* A tailer's goroutine hands over its container's id, and the entry goes,
\* whoever it belongs to by now.
NoticeClearing(g, clear) ==
  /\ main = "select" /\ pc[g] = "exit"
  /\ entry' = IF clear THEN NoTailer ELSE entry
  /\ pc' = [pc EXCEPT ![g] = "off"]
  /\ UNCHANGED <<dockerVars, faults, cancelled, call, optedIn, skipped, main, done>>

MutantNotice(g) == NoticeClearing(g, FALSE)   \* the entry stays
Notice(g)       == NoticeClearing(g, TRUE)

\* ... or sees that the agent stops.
MutantForget(g) == pc[g] = "exit" /\ FALSE /\ UNCHANGED vars   \* no select

Forget(g) ==
  /\ pc[g] = "exit" /\ done
  /\ pc' = [pc EXCEPT ![g] = "off"]
  /\ UNCHANGED <<dockerVars, faults, cancelled, call, watchVars>>

Stop ==
  /\ ~done
  /\ done' = TRUE
  /\ cancelled' = [g \in Tailer |-> TRUE]
  /\ UNCHANGED <<dockerVars, faults, pc, call, optedIn, entry, skipped, main>>

Wait ==
  /\ main = "select" /\ done
  /\ main' = "wait"
  /\ UNCHANGED <<dockerVars, faults, pc, cancelled, call, optedIn, entry, skipped,
                 done>>

Return ==
  /\ main = "wait"
  /\ \A g \in Tailer : pc[g] = "off"
  /\ main' = "returned"
  /\ UNCHANGED <<dockerVars, faults, pc, cancelled, call, optedIn, entry, skipped,
                 done>>

----------------------------------------------------------------------------
Environment == Docker \/ RemoveDir \/ Stop

Watch == FirstScan \/ Tick \/ StartFail \/ Wait \/ Return

Next == \/ Environment \/ Watch
        \/ \E g \in Tailer : \/ Follow(g) /\ UNCHANGED watchVars
                             \/ Notice(g) \/ Forget(g)

Spec == Init /\ [][Next]_vars

\* Goroutines that can run do run, the ticker ticks, what the tailers send is received,
\* and Docker creates the file that follows a renamed one.  Nothing else makes Docker
\* act, and no fault is ever due.
Fairness ==
  /\ WF_vars(file # <<>> /\ Create /\ UNCHANGED watchVars)
  /\ WF_vars(FirstScan \/ Wait \/ Return) /\ WF_vars(Tick)
  /\ \A g \in Tailer : /\ WF_vars((Step(g) \/ Send(g)) /\ UNCHANGED watchVars)
                       /\ WF_vars(Notice(g) \/ Forget(g))

FairSpec == Spec /\ Fairness

----------------------------------------------------------------------------
(* Properties. *)

TypeOK ==
  /\ written \in 0..MaxPieces /\ ends \subseteq 1..written
  /\ file \in Seq([from : Nat, to : Nat]) /\ path \in 0..Len(file)
  /\ here \in BOOLEAN /\ faults \in [FaultKind -> Nat]
  /\ pc \in [Tailer -> {"off", "open", "loop", "send", "eof", "poll", "exit"}]
  /\ cancelled \in [Tailer -> BOOLEAN] /\ call \in [Tailer -> Call]
  /\ \A g \in Tailer : /\ call[g].fd \in 0..Len(file) /\ call[g].last <= written
                       /\ Reading(g) <=> call[g].fd # 0
  /\ optedIn \in BOOLEAN /\ entry \in Tailer \cup {NoTailer}
  /\ skipped \in BOOLEAN /\ done \in BOOLEAN
  /\ main \in {"start", "select", "wait", "returned"}

Ahead(g) == call[g].hold \o call[g].got

\* A call sends what Docker wrote in the order in which it was written, and nothing
\* twice, however the log is renamed, torn and truncated while it reads.  Only what is
\* read of a truncated file at the old offset is read again once the call has noticed,
\* which takes a file that grew beyond that offset between two polls.
InOrder ==
  \A g \in Tailer :
    LET s == <<call[g].last>> \o Ahead(g)
    IN Reading(g) /\ ~call[g].stale => \A i, j \in DOMAIN s : i < j => s[i] < s[j]

\* A call leaves no piece out, and sends whole lines only, but for the reasons that
\* set missed: it started within a line, met an incomplete line at the end of the
\* file, had a file truncated that it had not read, or truncated again or grown as
\* large before it looked, or found the log rotated twice.  Neither renaming nor a
\* truncation that it notices costs anything.
NothingSkipped ==
  \A g \in Tailer :
    Reading(g) /\ ~call[g].missed =>
      /\ \A i \in DOMAIN Ahead(g) : Ahead(g)[i] = call[g].last + i
      /\ pc[g] = "send" => LineEnd(call[g].last) /\ Last(call[g].hold) \in ends

\* containerWatcher: one tailer per container, counting those that have not ended yet.
OneTailer == \A g, h \in Tailer : pc[g] # "off" /\ pc[h] # "off" => g = h

\* A container that has opted in and stays is followed, also after a tailer failed.
Followable == main = "select" /\ ~done /\ Named # 0 /\ optedIn

Followed ==
  Followable ~> ~Followable \/ \E g \in Tailer : Reading(g) /\ ~cancelled[g]

\* A tailer that goes on sends every line that is written, unless it missed some.
Behind(g) == Reading(g) /\ ~call[g].missed /\ \E p \in ends : call[g].last < p

CatchesUp == \A g \in Tailer : Behind(g) ~> ~Behind(g)

\* Start returns when the agent stops, and then nobody sends any more.
StopReturns == done /\ main # "start" ~> main = "returned"
=============================================================================
